--------------------------------- MODULE Shell ---------------------------------
(***************************************************************************)
(* The command interpreter: the main loop of src/kaminowaku.c, the guard   *)
(* of src/command/cmd_guard.c around each turn, the dispatch of            *)
(* src/command/cmd_scan.c, and what the commands do to the project, its    *)
(* targets, the profile and the NOSIX runtime (src/projects, src/targets,  *)
(* src/profile, and the writers of petals under src/network and            *)
(* src/books).  f_type says what runs next: a prompt (S_DEFAULT and the    *)
(* contextual ones) or a command.  A command may hand over to another, as  *)
(* new does to unload and back.  What runs over all targets takes one step *)
(* per target.  The process may end at any moment and be started again;    *)
(* only the directories are left.                                          *)
(*                                                                         *)
(* Identifiers of targets are 64 random characters: taken never to repeat. *)
(* Scan time stamps, notes, MAC addresses and what is only displayed are   *)
(* left out.                                                               *)
(***************************************************************************)
EXTENDS Naturals, Sequences, FiniteSets, SequencesExt

CONSTANTS
    Projects,    \* names of projects
    Tids,        \* identifiers of targets
    Families,    \* IPv4 and IPv6
    Configs,     \* global profiles, by what they make of the NOSIX runtime
    None,        \* no project, no target, no name, no petal
    Unreadable,  \* a petal file that is missing or too short
    MaxFaults    \* bound: failing calls

ASSUME NoneAssumption ==
    None \notin Projects \cup Tids \cup Families \cup Configs \cup {"new", "load"}
ASSUME FamiliesAssumption == "ports" \notin Families
ASSUME MaxFaultsAssumption == MaxFaults \in Nat

VARIABLES
    disk,        \* the projects' directories: project -> target -> what is in its own
    ftype,       \* f_type
    line,        \* the command line, in its tokens: [cmd, arg]
    then,        \* unload_from_new and unload_from_load
    caller,      \* help_caller_state_manager
    locked,      \* CMD_GUARD_INPUT_LOCKED: no echo, processing begun
    progress,    \* kui_progress_begin was called
    active,      \* active_project
    hasTargets,  \* active_project_has_targets
    count,       \* active_project_target_count
    list,        \* active_project_flower: the nodes behind the anchor
    target,      \* active_project_active_target and its context flag
    memory,      \* its PETAL
    rest,        \* the nodes the running command has not come to
    profile,     \* gprof
    runtime,     \* nosix_net: None, or the profile it was opened with
    partial,     \* the last load could not be completed
    unsaved,     \* a change of PETAL was reported as not written
    faults

input   == <<ftype, line, then, caller, locked, progress>>
project == <<active, hasTargets, count, list, partial>>
context == <<target, memory, unsaved>>
network == <<profile, runtime>>
vars == <<disk, input, project, context, network, rest, faults>>

\* What a petal says of one family: no address; nothing conclusive (not tried, silent, a
\* generic error); no neighbour or a failed L3 transmission; an answer.
Status == {"none", "quiet", "failed", "reply"}
Petals == [Families -> Status]

\* The directory of a target: .data, whether .ports has a received frame, and, for the
\* properties, from where answers were recorded.
Entry == [petal : Petals \cup {Unreadable}, ports : BOOLEAN,
          answers : SUBSET (Families \cup {"ports"})]

Prompts == {"S_DEFAULT", "C_NEW_CONTEXTUAL", "C_LOAD_CONTEXTUAL", "C_PROFILE_CONTEXTUAL",
            "C_TARGETS_CONTEXTUAL", "C_TOOL_CONTEXTUAL"}
Waiting == ftype \in Prompts

Nothing == [cmd |-> "", arg |-> None]

\* main and the first turn of kaminowaku, with the profile default.ini.
Fresh ==
    /\ ftype' = "S_DEFAULT" /\ line' = Nothing /\ then' = None /\ caller' = "S_DEFAULT"
    /\ locked' = FALSE /\ progress' = FALSE
    /\ active' = None /\ hasTargets' = FALSE /\ count' = 0 /\ list' = << >>
    /\ partial' = FALSE
    /\ target' = None /\ memory' = None /\ unsaved' = FALSE
    /\ profile' \in Configs /\ runtime' = None /\ rest' = << >>

Init ==
    /\ disk = << >>
    /\ ftype = "S_DEFAULT" /\ line = Nothing /\ then = None /\ caller = "S_DEFAULT"
    /\ locked = FALSE /\ progress = FALSE
    /\ active = None /\ hasTargets = FALSE /\ count = 0 /\ list = << >> /\ partial = FALSE
    /\ target = None /\ memory = None /\ unsaved = FALSE
    /\ profile \in Configs /\ runtime = None /\ rest = << >> /\ faults = 0

Fault == faults < MaxFaults /\ faults' = faults + 1
Pays(cost) == faults + cost <= MaxFaults /\ faults' = faults + cost

-------------------------------------------------------------------------------
(* The directories.                                                        *)

Here == disk[active]                      \* the targets of the active project
Readable(t) == t \in DOMAIN Here /\ Here[t].petal # Unreadable
With(f, t, e) == [u \in DOMAIN f \cup {t} |-> IF u = t THEN e ELSE f[u]]
SetEntry(t, e) == disk' = [disk EXCEPT ![active] = With(@, t, e)]
Dropped(f, t) == [u \in DOMAIN f \ {t} |-> f[u]]

\* targets_write_petal_data, in place: written; not opened; cut short, which is reported
\* or, when only the flush fails, is not.
WritePetal(e, petal) ==
    LET short == [e EXCEPT !.petal = Unreadable]
    IN  {[entry |-> [e EXCEPT !.petal = petal], ok |-> TRUE,  cost |-> 0],
         [entry |-> e,                          ok |-> FALSE, cost |-> 1],
         [entry |-> short,                      ok |-> FALSE, cost |-> 1],
         [entry |-> short,                      ok |-> TRUE,  cost |-> 1]}

Answers(e, from, heard) ==
    [e EXCEPT !.answers = IF heard THEN @ \cup {from} ELSE @ \ {from}]

-------------------------------------------------------------------------------
(* What the network commands make of one target.  An outcome is its        *)
(* directory, the petal in the hand of the command, whether that is known  *)
(* to be ahead of the directory, and what it cost; known is the petal      *)
(* before, of the context or freshly read.                                 *)

Outcome(e, petal, behind, cost) ==
    [entry |-> e, petal |-> petal, behind |-> behind, cost |-> cost]

\* kscan_record_icmpv4 and v6, which put the old state back when the petal could not be
\* written.
Record(f, s, e, known) ==
    {IF w.ok THEN Outcome(Answers(w.entry, f, s = "reply"), [known EXCEPT ![f] = s], FALSE,
                          w.cost)
     ELSE Outcome(w.entry, known, unsaved, w.cost)
     : w \in WritePetal(e, [known EXCEPT ![f] = s])}

\* ksping_single, with ICMP4 and ksping6; no address, no runtime or no capture: nothing is
\* recorded.
PingTarget(f, e, known) ==
    {Outcome(e, known, unsaved, 0)} \cup
    IF runtime = None \/ known[f] = "none" THEN {}
    ELSE UNION {Record(f, s, e, known) : s \in {"quiet", "failed", "reply"}}

\* A family without an address gets one; the state of the others stays as it was.
WithAddress(petal, given) ==
    [f \in Families |-> IF f \in given /\ petal[f] = "none" THEN "quiet" ELSE petal[f]]

\* resolve_target: addresses are found for some families; without the runtime only the
\* one that the host's name is.
ResolveTarget(e, known) ==
    {Outcome(e, known, unsaved, 0)} \cup
    UNION {LET new == WithAddress(known, found)
           IN  {Outcome(w.entry, new, ~w.ok, w.cost) : w \in WritePetal(e, new)}
           : found \in {s \in SUBSET Families :
                            s # {} /\ (runtime = None => Cardinality(s) = 1)}}

\* kportscan_scan_target: frames are noted in .ports, then the petal is
\* written with its new scan time.
ScanTarget(e, known) ==
    {Outcome(e, known, unsaved, 0)} \cup
    IF runtime = None \/ \A f \in Families : known[f] = "none" THEN {}
    ELSE UNION {LET noted == IF heard THEN Answers([e EXCEPT !.ports = TRUE], "ports", TRUE)
                             ELSE e
                IN  {Outcome(w.entry, known, unsaved /\ ~w.ok, w.cost)
                        : w \in WritePetal(noted, known)}
                : heard \in BOOLEAN}

\* books_run_one with books_mark_target_scanned, for a Book that completes.
BookTarget(e, known) ==
    {Outcome(e, known, unsaved, 0)} \cup
    {Outcome(w.entry, known, unsaved /\ ~w.ok, w.cost) : w \in WritePetal(e, known)}

Outcomes(l, e, known) ==
    CASE l.cmd = "ping"    -> PingTarget(l.arg, e, known)
      [] l.cmd = "resolve" -> ResolveTarget(e, known)
      [] l.cmd = "scan"    -> ScanTarget(e, known)
      [] l.cmd = "book"    -> BookTarget(e, known)

NetworkLines ==
    [cmd : {"ping"}, arg : Families] \cup [cmd : {"resolve", "scan", "book"}, arg : {None}]

-------------------------------------------------------------------------------
(* The guard.                                                              *)

Multi == list # << >> /\ line'.cmd \in {"ping", "scan"} /\ target = None

\* cmd_scan_safe around a turn that began with f_type before and ends now; the tool
\* context is not guarded.
Guarded(before) ==
    LET guard == before # "C_TOOL_CONTEXTUAL"
    IN  /\ locked' = IF ~guard THEN locked ELSE ftype' \notin Prompts
        /\ progress' = IF before = "S_DEFAULT" /\ ftype' \in {"C_PING", "C_SCAN"} /\ Multi
                       THEN TRUE
                       ELSE IF before \in {"C_PING", "C_SCAN"} /\ ftype' \in Prompts
                       THEN FALSE ELSE progress

\* A turn in the middle of which the command is still.
Midway == UNCHANGED input

\* The command is done and f_type names what runs next; a prompt has no more use for
\* the line.
Goes(next) ==
    /\ ftype' = next /\ line' = (IF next \in Prompts THEN Nothing ELSE line)
    /\ Guarded(ftype) /\ UNCHANGED <<then, caller>>

-------------------------------------------------------------------------------
(* S_DEFAULT: a line is read and cmd_scan finds the command, which runs in *)
(* the next turn.  exit and the end of input are in Restart.               *)

DefaultLines ==
    NetworkLines
    \cup [cmd : {"help", "unload", "tool", "other", "targets del -n", "targets"}, arg : {None}]
    \cup [cmd : {"new", "load"}, arg : Projects \cup {None}]
    \cup [cmd : {"targets add"}, arg : SUBSET Families]
    \cup [cmd : {"targets del", "targets <TID>"}, arg : Tids]
    \cup [cmd : {"profile set"}, arg : Configs]
    \cup [cmd : {"profile load"}, arg : Configs \cup {None}]

Command(cmd) ==
    CASE cmd = "help" -> "C_HELP" [] cmd = "unload" -> "C_UNLOAD" [] cmd = "tool" -> "C_TOOL"
      [] cmd = "new" -> "C_NEW" [] cmd = "load" -> "C_LOAD" [] cmd = "ping" -> "C_PING"
      [] cmd = "resolve" -> "C_RESOLVE" [] cmd = "scan" -> "C_SCAN" [] cmd = "book" -> "C_BOOK"
      [] cmd \in {"targets", "targets add", "targets del", "targets del -n",
                  "targets <TID>"} -> "C_TARGETS"
      [] cmd \in {"profile set", "profile load"} -> "C_PROFILE"
      [] cmd = "other" -> "C_COMMAND_NOT_FOUND"

\* The loops over the targets begin at the node behind the anchor.
ReadCommand ==
    /\ ftype = "S_DEFAULT"
    /\ \E l \in DefaultLines :
            /\ line' = l /\ ftype' = Command(l.cmd)
            /\ rest' = IF l \in NetworkLines \/ l.cmd = "targets del -n" THEN list ELSE << >>
    /\ Guarded("S_DEFAULT")
    /\ UNCHANGED <<disk, then, caller, project, context, network, faults>>

\* pwd, interfaces, debug, a wrong command, and usages.
Other ==
    /\ \/ ftype = "C_COMMAND_NOT_FOUND"
       \/ ftype = "C_TARGETS" /\ (active = None \/ line.cmd = "targets")
    /\ Goes("S_DEFAULT")
    /\ UNCHANGED <<disk, project, context, network, rest, faults>>

\* help returns to the prompt it was called from.
Help ==
    /\ ftype = "C_HELP" /\ Goes(caller)
    /\ UNCHANGED <<disk, project, context, network, rest, faults>>

-------------------------------------------------------------------------------
(* Projects: new, load and unload.                                         *)

\* projects_nosix_open_notice: the project is opened with or without its runtime.
OpenRuntime == (runtime' = profile /\ UNCHANGED faults) \/ (Fault /\ UNCHANGED runtime)

\* projects_try_new: an existing name changes nothing, nor does a failing mkdir.
TryNew(p) ==
    \/ /\ p \notin DOMAIN disk
       /\ disk' = With(disk, p, << >>)
       /\ active' = p /\ hasTargets' = FALSE /\ partial' = FALSE
       /\ OpenRuntime /\ UNCHANGED <<count, list, profile>>
    \/ /\ IF p \in DOMAIN disk THEN UNCHANGED faults ELSE Fault
       /\ UNCHANGED <<disk, project, network>>

\* The first node found is linked to the anchor; what hung there is lost.
Linked(found) == IF found = << >> THEN list ELSE found

\* projects_try_load: a node for every target with a readable petal, in the order of the
\* directory; one for which there is no memory is left out.
TryLoad(p) ==
    \/ /\ p \in DOMAIN disk
       /\ LET whole == {t \in DOMAIN disk[p] : disk[p][t].petal # Unreadable}
          IN  \E some \in SUBSET whole : \E found \in SetToSeqs(some) :
                /\ list' = Linked(found)
                /\ count' = count + Len(found) /\ hasTargets' = (found # << >>)
                /\ partial' = (some # whole)
                /\ \/ some = whole /\ OpenRuntime
                   \/ some # whole /\ Fault /\ runtime' = profile
       /\ active' = p /\ UNCHANGED <<disk, profile>>
    \/ /\ IF p \in DOMAIN disk THEN Fault ELSE UNCHANGED faults
       /\ UNCHANGED <<disk, project, network>>

Tries(cmd, p) == IF cmd = "new" THEN TryNew(p) ELSE TryLoad(p)

\* C_NEW and C_LOAD: an active project is unloaded first, then the command runs again;
\* without a name they ask for one.
NewOrLoad ==
    /\ ftype \in {"C_NEW", "C_LOAD"}
    /\ UNCHANGED <<caller, context, rest>>
    /\ \/ /\ active # None
          /\ then' = line.cmd /\ ftype' = "C_UNLOAD"
          /\ UNCHANGED <<disk, project, network, faults>>
       \/ /\ active = None /\ line.arg # None
          /\ Tries(line.cmd, line.arg) /\ ftype' = "S_DEFAULT" /\ UNCHANGED then
       \/ /\ active = None /\ line.arg = None
          /\ \/ ftype' = IF line.cmd = "new" THEN "C_NEW_CONTEXTUAL" ELSE "C_LOAD_CONTEXTUAL"
             \/ line.cmd = "load" /\ disk = << >> /\ ftype' = "S_DEFAULT"
          /\ UNCHANGED <<disk, project, network, faults, then>>
    /\ line' = IF ftype' \in Prompts THEN Nothing ELSE line
    /\ Guarded(ftype)

\* The name, or an empty line, which cancels.
ReadName ==
    /\ ftype \in {"C_NEW_CONTEXTUAL", "C_LOAD_CONTEXTUAL"} /\ ftype' = "S_DEFAULT"
    /\ \/ \E p \in Projects :
            Tries(IF ftype = "C_NEW_CONTEXTUAL" THEN "new" ELSE "load", p)
       \/ UNCHANGED <<disk, project, network, faults>>
    /\ Guarded(ftype) /\ UNCHANGED <<line, then, caller, context, rest>>

\* Mutant: the nodes stay.
Freed_Not == UNCHANGED list

\* The nodes are freed when the project is flagged as having targets.
Freed == list' = IF hasTargets THEN << >> ELSE list

\* C_UNLOAD with projects_try_unload; then what asked for it runs again.
Unload ==
    /\ ftype = "C_UNLOAD"
    /\ target' = None /\ memory' = None /\ unsaved' = FALSE
    /\ Freed /\ count' = 0 /\ active' = None
    /\ runtime' = None /\ partial' = FALSE
    /\ then' = None
    /\ ftype' = CASE then = "new" -> "C_NEW" [] then = "load" -> "C_LOAD"
                  [] then = None -> "S_DEFAULT"
    /\ line' = IF ftype' \in Prompts THEN Nothing ELSE line
    /\ Guarded("C_UNLOAD")
    /\ UNCHANGED <<disk, hasTargets, caller, profile, rest, faults>>

-------------------------------------------------------------------------------
(* Targets.                                                                *)

Targets(cmd) == ftype = "C_TARGETS" /\ active # None /\ line.cmd = cmd

NewPetal(given) == [f \in Families |-> IF f \in given THEN "quiet" ELSE "none"]

\* targets_add_target: the node comes first, then the directory, then the petal.  When
\* mkdir fails the node stays.  A network is a run of these.
AddTarget ==
    /\ Targets("targets add") /\ Goes("S_DEFAULT")
    /\ UNCHANGED <<active, partial, context, network, rest>>
    /\ \/ \E t \in Tids \ (ToSet(list) \cup UNION {DOMAIN disk[p] : p \in DOMAIN disk}) :
            /\ list' = Append(list, t)
            /\ \/ /\ \E w \in WritePetal([petal |-> Unreadable, ports |-> FALSE, answers |-> {}],
                                        NewPetal(line.arg)) :
                        SetEntry(t, w.entry) /\ Pays(w.cost)
                  /\ count' = count + 1 /\ hasTargets' = TRUE
               \/ Fault /\ UNCHANGED <<disk, count, hasTargets>>
       \/ UNCHANGED <<disk, list, count, hasTargets, faults>>       \* invalid parameters

Deleted(t) ==
    /\ disk' = [disk EXCEPT ![active] = Dropped(@, t)]
    /\ list' = RemoveFirst(list, t)
    /\ count' = IF count > 0 THEN count - 1 ELSE 0

\* targets_delete_by_tid: the directory is removed first, file by file; the node stays when
\* something of it could not be removed.
DeleteByTid(t) ==
    \/ t \in DOMAIN Here /\ Deleted(t) /\ UNCHANGED faults
    \/ /\ t \in DOMAIN Here /\ Fault /\ UNCHANGED <<list, count>>
       /\ \E petal \in {Here[t].petal, Unreadable}, ports \in {Here[t].ports, FALSE} :
            SetEntry(t, [petal |-> petal, ports |-> ports,
                         answers |-> Here[t].answers \ IF ports THEN {} ELSE {"ports"}])
    \/ t \notin DOMAIN Here /\ UNCHANGED <<disk, list, count, faults>>

\* targets_del_target, by the identifier or by a value.
DeleteTarget ==
    /\ Targets("targets del") /\ Goes("S_DEFAULT")
    /\ IF line.arg \in ToSet(list) THEN DeleteByTid(line.arg)
       ELSE UNCHANGED <<disk, list, count, faults>>
    /\ UNCHANGED <<active, hasTargets, partial, context, network, rest>>

\* targets_prune_transport_failure: there is an address, and every one has failed.
PruneTransportFailure(petal, observed) ==
    /\ ~observed
    /\ \E f \in Families : petal[f] # "none"
    /\ \A f \in Families : petal[f] \in {"none", "failed"}

\* targets_has_observation: a reply in the petal, or a received frame in .ports.
HasObservation(e, ports) == ports \/ \E f \in Families : e.petal[f] = "reply"

\* targets_del_no_neighbor, one node: an unreadable petal keeps the target; .ports that
\* cannot be opened says nothing.
PruneOne ==
    /\ Targets("targets del -n") /\ rest # << >> /\ rest' = Tail(rest) /\ Midway
    /\ LET t == Head(rest)
           prunes(ports) ==
                PruneTransportFailure(Here[t].petal, HasObservation(Here[t], ports))
       IN  \/ Readable(t) /\ prunes(Here[t].ports) /\ DeleteByTid(t)
           \/ /\ Readable(t) /\ ~prunes(Here[t].ports) /\ prunes(FALSE) /\ Fault
              /\ Deleted(t)
           \/ /\ Readable(t) => ~prunes(Here[t].ports)
              /\ UNCHANGED <<disk, list, count, faults>>
    /\ UNCHANGED <<active, hasTargets, partial, context, network>>

PruneDone ==
    /\ Targets("targets del -n") /\ rest = << >> /\ Goes("S_DEFAULT")
    /\ hasTargets' = (hasTargets /\ count # 0)
    /\ UNCHANGED <<disk, active, count, list, partial, context, network, rest, faults>>

\* targets_context: the petal is loaded and the target becomes the context; what cannot
\* be loaded, or has no memory for its path, leaves everything as it was.
EnterContext ==
    /\ Targets("targets <TID>")
    /\ UNCHANGED <<disk, project, network, rest, unsaved>>
    /\ LET found == line.arg \in ToSet(list) /\ Readable(line.arg)
       IN  \/ /\ found /\ Goes("C_TARGETS_CONTEXTUAL")
              /\ target' = line.arg /\ memory' = Here[line.arg].petal /\ UNCHANGED faults
           \/ /\ IF found THEN Fault ELSE UNCHANGED faults
              /\ Goes("S_DEFAULT") /\ UNCHANGED <<target, memory>>

-------------------------------------------------------------------------------
(* ping, resolve, scan and book.                                           *)

\* C_PING, C_RESOLVE, C_SCAN and C_BOOK: what they require.
Admitted == active # None /\ (hasTargets \/ line.cmd = "book")

OverTargets == ftype \in {"C_PING", "C_RESOLVE", "C_SCAN", "C_BOOK"}

\* ksping_multi, kresolve_multi, kportscan_run, books_run_project, one node: its petal is
\* read afresh, and skipped when it cannot be.
NetworkOne ==
    /\ OverTargets /\ Admitted /\ rest # << >> /\ rest' = Tail(rest) /\ Midway
    /\ LET t == Head(rest)
       IN  IF Readable(t)
           THEN \E o \in Outcomes(line, Here[t], Here[t].petal) :
                    SetEntry(t, o.entry) /\ Pays(o.cost)
           ELSE UNCHANGED <<disk, faults>>
    /\ UNCHANGED <<project, context, network>>

NetworkDone ==
    /\ OverTargets /\ (Admitted => rest = << >>) /\ Goes("S_DEFAULT")
    /\ UNCHANGED <<disk, project, context, network, rest, faults>>

-------------------------------------------------------------------------------
(* The context of a target, and of its tools.                              *)

\* Mutant: the command works on a copy read from the directory, which it frees.
InContext_FreshCopy(l, e) ==
    {[o EXCEPT !.petal = memory] : o \in IF e.petal = Unreadable THEN {} ELSE Outcomes(l, e, e.petal)}

\* ksping_single, kresolve_single, kportscan_run and books_try_run take the petal of the
\* context.
InContext(l, e) == Outcomes(l, e, memory)

\* A turn in the prompt of a target that leads to another f_type.
Turn(next, help) ==
    /\ ftype = "C_TARGETS_CONTEXTUAL"
    /\ ftype' = next /\ caller' = help /\ Guarded(ftype)
    /\ UNCHANGED <<line, then>>

NetworkHere ==
    /\ Turn(ftype, caller)
    /\ \E l \in NetworkLines : \E o \in InContext(l, Here[target]) :
            /\ SetEntry(target, o.entry) /\ memory' = o.petal /\ unsaved' = o.behind
            /\ Pays(o.cost)
    /\ UNCHANGED <<project, network, target, rest>>

\* targets_set_identifier: what is valid is written, what is not is taken back by reading
\* the petal, and stays in memory when that fails.
SetIdentifier ==
    /\ Turn(ftype, caller)
    /\ \E given \in SUBSET Families :
         LET new == WithAddress(memory, given)
         IN  \/ \E w \in WritePetal(Here[target], new) :
                    /\ SetEntry(target, w.entry) /\ memory' = new /\ unsaved' = ~w.ok
                    /\ Pays(w.cost)
             \/ /\ UNCHANGED disk
                /\ \/ /\ Readable(target) /\ memory' = Here[target].petal
                      /\ unsaved' = FALSE /\ UNCHANGED faults
                   \/ /\ IF Readable(target) THEN Fault ELSE UNCHANGED faults
                      /\ memory' = new /\ unsaved' = TRUE
    /\ UNCHANGED <<project, network, target, rest>>

\* Mutant: help does not forget the context.
BackTo_Stale == Turn("S_DEFAULT", caller)

BackTo == Turn("S_DEFAULT", "S_DEFAULT")

\* back: the context and its petal are gone.
Back ==
    /\ BackTo
    /\ target' = None /\ memory' = None /\ unsaved' = FALSE
    /\ UNCHANGED <<disk, project, network, rest, faults>>

\* help and tool run in the next turn.
HelpOrTool ==
    /\ Turn("C_HELP", "C_TARGETS_CONTEXTUAL") \/ Turn("C_TOOL", caller)
    /\ UNCHANGED <<disk, project, context, network, rest, faults>>

\* C_TOOL: without arguments the prompt of the tools, which needs a target; or a command
\* on the list of tools.
Tool ==
    /\ ftype = "C_TOOL"
    /\ \/ target # None /\ ftype' = "C_TOOL_CONTEXTUAL" /\ caller' = "C_TOOL_CONTEXTUAL"
       \/ /\ ftype' = IF target # None THEN "C_TARGETS_CONTEXTUAL" ELSE "S_DEFAULT"
          /\ UNCHANGED caller
    /\ line' = Nothing /\ Guarded("C_TOOL")
    /\ UNCHANGED <<disk, then, project, context, network, rest, faults>>

\* C_TOOL_CONTEXTUAL: back and help; what runs a tool or lists them is not a step here.
ToolPrompt ==
    /\ ftype = "C_TOOL_CONTEXTUAL"
    /\ \/ ftype' = "C_HELP" /\ caller' = "C_TOOL_CONTEXTUAL"
       \/ /\ ftype' = IF target # None THEN "C_TARGETS_CONTEXTUAL" ELSE "S_DEFAULT"
          /\ caller' = ftype'
    /\ Guarded("C_TOOL_CONTEXTUAL")
    /\ UNCHANGED <<disk, line, then, project, context, network, rest, faults>>

-------------------------------------------------------------------------------
(* The profile and the runtime.                                            *)

\* Mutant: a failed reopen leaves the new profile.
RolledBack_Not(c) == profile' = c

RolledBack(c) == UNCHANGED profile

\* projects_nosix_reopen: a failure leaves the old runtime, or none.
Reopen(c) ==
    \/ profile' = c /\ runtime' = c /\ UNCHANGED faults
    \/ RolledBack(c) /\ Fault /\ runtime' \in {runtime, None}

\* profile_try_load and profile_try_set: a value that is refused changes nothing; without
\* a runtime the profile only waits for the next.
TryProfile(c) ==
    \/ UNCHANGED <<network, faults>>
    \/ runtime = None /\ profile' = c /\ UNCHANGED <<runtime, faults>>
    \/ runtime # None /\ Reopen(c)

Profile ==
    /\ ftype = "C_PROFILE"
    /\ IF line = [cmd |-> "profile load", arg |-> None]
       THEN Goes("C_PROFILE_CONTEXTUAL") /\ UNCHANGED <<network, faults>>
       ELSE Goes("S_DEFAULT") /\ TryProfile(line.arg)
    /\ UNCHANGED <<disk, project, context, rest>>

\* The name, or an empty line, which cancels.
ReadProfileName ==
    /\ ftype = "C_PROFILE_CONTEXTUAL" /\ Goes("S_DEFAULT")
    /\ \E c \in Configs : TryProfile(c)
    /\ UNCHANGED <<disk, project, context, rest>>

-------------------------------------------------------------------------------
\* exit, which unloads without the guard, the end of input, and the end of the process in
\* the middle of anything.
Restart ==
    /\ Fresh /\ UNCHANGED <<disk, faults>>

\* The turns that need no input.
Execute ==
    \/ Other \/ Help \/ NewOrLoad \/ Unload
    \/ AddTarget \/ DeleteTarget \/ PruneOne \/ PruneDone \/ EnterContext
    \/ NetworkOne \/ NetworkDone \/ Tool \/ Profile

\* The turns that read a line.
Read ==
    \/ ReadCommand \/ ReadName \/ ReadProfileName
    \/ NetworkHere \/ SetIdentifier \/ Back \/ HelpOrTool \/ ToolPrompt

Next == Execute \/ Read \/ Restart

Spec == Init /\ [][Next]_vars

-------------------------------------------------------------------------------
(* Properties.                                                             *)

TypeOK ==
    /\ DOMAIN disk \subseteq Projects
    /\ \A p \in DOMAIN disk :
            DOMAIN disk[p] \subseteq Tids /\ \A t \in DOMAIN disk[p] : disk[p][t] \in Entry
    /\ then \in {"new", "load", None}
    /\ caller \in {"S_DEFAULT", "C_TARGETS_CONTEXTUAL", "C_TOOL_CONTEXTUAL"}
    /\ {locked, progress, hasTargets, partial, unsaved} \subseteq BOOLEAN
    /\ active \in Projects \cup {None} /\ count \in Nat
    /\ list \in Seq(Tids) /\ rest \in Seq(Tids)
    /\ target \in Tids \cup {None} /\ memory \in Petals \cup {None}
    /\ profile \in Configs /\ runtime \in Configs \cup {None}
    /\ faults \in 0..MaxFaults

OnDisk == UNION {DOMAIN disk[p] : p \in DOMAIN disk}
Ghosts == ToSet(list) \ OnDisk

\* The list in memory is the targets of the active project, whatever projects were made,
\* loaded and left before and whatever failed: no target is in it twice; what is in it is
\* a target of this project, or a node whose directory could not be made; a target whose
\* petal can be read is in it, unless the load ran out of memory; it is counted, and the
\* commands that need targets are refused only when there is none.
ListIsProject ==
    active # None =>
    LET real == ToSet(list) \ Ghosts
    IN  /\ IsInjective(list)
        /\ real \subseteq DOMAIN Here
        /\ partial \/ {t \in DOMAIN Here : Here[t].petal # Unreadable} \subseteq real
        /\ count = Cardinality(real)
        /\ ~hasTargets => real = {}

\* A prompt is what it looks like: those of a target and of its tools have a target, of
\* the active project, and the others have none; the terminal is unlocked and nothing is
\* shown as being in progress.  The petal in memory is the one in its directory, unless a
\* failed write or read was reported or the file is damaged.
PromptIsTrue ==
    /\ Waiting =>
        /\ ftype \in {"C_TARGETS_CONTEXTUAL", "C_TOOL_CONTEXTUAL"} <=> target # None
        /\ ~locked /\ ~progress
    /\ target # None =>
        /\ active # None /\ target \in ToSet(list) \cap DOMAIN Here
        /\ unsaved \/ Here[target].petal \in {memory, Unreadable}

\* A target from which an answer was recorded is not pruned: it goes only when it is
\* deleted by name, or when the file of its frames could not be opened to be asked and
\* the answers were frames.
AnswersAreKept ==
    [][\A p \in DOMAIN disk : \A t \in DOMAIN disk[p] :
            p \in DOMAIN disk' /\ t \notin DOMAIN disk'[p] =>
                \/ line.cmd = "targets del"
                \/ disk[p][t].answers = {}
                \/ disk[p][t].answers = {"ports"} /\ faults' # faults]_vars

\* While there is a runtime there is a project, and it runs with the profile that is
\* displayed, in whatever order projects and profiles were changed and reopening failed.
RuntimeFollowsProfile == runtime # None => active # None /\ runtime = profile
===============================================================================
