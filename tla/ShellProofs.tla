------------------------------ MODULE ShellProofs ------------------------------
(***************************************************************************)
(* What the command interpreter satisfies for every set of projects,       *)
(* targets, families and profiles, and any number of failing calls.        *)
(***************************************************************************)
EXTENDS Shell, FiniteSetTheorems, SequenceTheorems, TLAPS

-------------------------------------------------------------------------------
(* The runtime and the profile.  The property is inductive by itself: what *)
(* opens a runtime takes the profile at hand, and what leaves the project  *)
(* closes it.                                                              *)

\* While there is a runtime there is a project, and it runs with the profile that is
\* displayed, in whatever order projects and profiles were changed and reopening failed.
THEOREM RuntimeIsProfile == Spec => []RuntimeFollowsProfile
<1>1. Init => RuntimeFollowsProfile  BY DEF Init, RuntimeFollowsProfile
<1>2. RuntimeFollowsProfile /\ [Next]_vars => RuntimeFollowsProfile'
  <2> SUFFICES ASSUME RuntimeFollowsProfile, [Next]_vars PROVE RuntimeFollowsProfile'
      OBVIOUS
  <2> USE DEF RuntimeFollowsProfile, project, network
  <2>1. ASSUME NEW p, p # None, TryNew(p) \/ TryLoad(p) PROVE RuntimeFollowsProfile'
    <3>1. \/ active' = p /\ profile' = profile /\ runtime' \in {runtime, profile}
          \/ active' = active /\ profile' = profile /\ runtime' = runtime
        BY <2>1 DEF TryNew, TryLoad, OpenRuntime
    <3> QED  BY <2>1, <3>1
  <2>2. ASSUME NEW c, TryProfile(c), active' = active PROVE RuntimeFollowsProfile'
      BY <2>2 DEF TryProfile, Reopen, RolledBack
  <2>3. CASE NewOrLoad
      BY <2>1, <2>3 DEF NewOrLoad, Tries
  <2>4. CASE ReadName
    <3>1. \A p \in Projects : p # None  BY NoneAssumption
    <3> QED  BY <2>1, <2>4, <3>1 DEF ReadName, Tries
  <2>5. CASE Profile \/ ReadProfileName
      BY <2>2, <2>5 DEF Profile, ReadProfileName
  <2>6. CASE Unload \/ Restart  BY <2>6 DEF Unload, Restart, Fresh
  <2>7. CASE Other \/ Help \/ AddTarget \/ DeleteTarget \/ PruneOne \/ PruneDone \/ EnterContext
      BY <2>7 DEF Other, Help, AddTarget, DeleteTarget, PruneOne, PruneDone, EnterContext
  <2>8. CASE NetworkOne \/ NetworkDone \/ Tool \/ ReadCommand
      BY <2>8 DEF NetworkOne, NetworkDone, Tool, ReadCommand
  <2>9. CASE NetworkHere \/ SetIdentifier \/ Back \/ HelpOrTool \/ ToolPrompt
      BY <2>9 DEF NetworkHere, SetIdentifier, Back, HelpOrTool, ToolPrompt
  <2>10. CASE UNCHANGED vars  BY <2>10 DEF vars
  <2> QED  BY <2>3, <2>4, <2>5, <2>6, <2>7, <2>8, <2>9, <2>10 DEF Next, Execute, Read
<1> QED  BY <1>1, <1>2, PTL DEF Spec
-------------------------------------------------------------------------------
(* The inductive invariant.  What a prompt shows and what pruning spares   *)
(* depend on the turns in between, in which f_type, the caller of help and *)
(* the context go separate ways, and on what each petal has kept.          *)

\* Which turns a context may meet, and where help goes back to.
ContextInv ==
    /\ target = None =>
        caller = "S_DEFAULT" /\ ftype \notin {"C_TARGETS_CONTEXTUAL", "C_TOOL_CONTEXTUAL"}
    /\ target # None =>
        /\ ftype \in {"C_TARGETS_CONTEXTUAL", "C_TOOL", "C_TOOL_CONTEXTUAL", "C_HELP"}
        /\ ftype = "C_HELP" => caller \in {"C_TARGETS_CONTEXTUAL", "C_TOOL_CONTEXTUAL"}

GuardInv ==
    /\ locked \in BOOLEAN /\ progress \in BOOLEAN
    /\ Waiting => ~locked
    /\ progress => ftype \in {"C_PING", "C_SCAN"}

\* The line is still the one the running command was found in, also after unload has run
\* for new or load.
LineInv ==
    /\ then \in {"new", "load", None}
    /\ then # None => ftype = "C_UNLOAD"
    /\ ftype \in {"C_NEW", "C_LOAD"} \/ then # None => line.cmd \in {"new", "load"}
    /\ OverTargets => line \in NetworkLines

\* What was answered is still to be read in a petal.
Spared(e) ==
    /\ e \in Entry
    /\ e.petal # Unreadable => \A f \in Families : f \in e.answers => e.petal[f] = "reply"
    /\ "ports" \in e.answers => e.ports

DiskInv ==
    /\ active # None => active \in DOMAIN disk
    /\ \A p \in DOMAIN disk : \A t \in DOMAIN disk[p] : t \in Tids /\ Spared(disk[p][t])

\* The petal of the context: nothing that was answered is missing from it either.
MemoryInv ==
    target # None =>
        /\ active # None /\ target \in ToSet(list) /\ target \in DOMAIN Here
        /\ memory \in Petals
        /\ \A f \in Families : f \in Here[target].answers => memory[f] = "reply"
        /\ unsaved \/ Here[target].petal \in {memory, Unreadable}

CountInv == faults \in Nat /\ unsaved \in BOOLEAN

ShellInv == ContextInv /\ GuardInv /\ LineInv /\ DiskInv /\ MemoryInv /\ CountInv

LEMMA ShellInvInit == Init => ShellInv
<1> SUFFICES ASSUME Init PROVE ShellInv  OBVIOUS
<1> USE DEF Init
<1>1. ContextInv  BY DEF ContextInv
<1>2. GuardInv  BY DEF GuardInv
<1>3. LineInv  BY DEF LineInv, OverTargets
<1>4. DiskInv
  <2>1. DOMAIN disk = {}  OBVIOUS
  <2> QED  BY <2>1 DEF DiskInv
<1>5. MemoryInv  BY DEF MemoryInv
<1>6. CountInv  BY DEF CountInv
<1> QED  BY <1>1, <1>2, <1>3, <1>4, <1>5, <1>6 DEF ShellInv

-------------------------------------------------------------------------------
(* What is written.                                                        *)

\* The outcomes of targets_write_petal_data.
LEMMA Written ==
    ASSUME NEW e \in Entry, NEW petal \in Petals, NEW w \in WritePetal(e, petal)
    PROVE  /\ w.entry \in Entry /\ w.ok \in BOOLEAN /\ w.cost \in {0, 1}
           /\ w.entry.answers = e.answers /\ w.entry.ports = e.ports
           /\ w.entry.petal = Unreadable \/ w.entry.petal = (IF w.ok THEN petal ELSE e.petal)
<1>1. w \in {[entry |-> [e EXCEPT !.petal = petal], ok |-> TRUE, cost |-> 0],
             [entry |-> e, ok |-> FALSE, cost |-> 1],
             [entry |-> [e EXCEPT !.petal = Unreadable], ok |-> FALSE, cost |-> 1],
             [entry |-> [e EXCEPT !.petal = Unreadable], ok |-> TRUE, cost |-> 1]}
    BY DEF WritePetal
<1>2. \A x \in Petals \cup {Unreadable} :
        LET g == [e EXCEPT !.petal = x]
        IN  g \in Entry /\ g.petal = x /\ g.answers = e.answers /\ g.ports = e.ports
    BY DEF Entry
<1>3. CASE w = [entry |-> [e EXCEPT !.petal = petal], ok |-> TRUE, cost |-> 0]
  <2>1. w.entry = [e EXCEPT !.petal = petal] /\ w.ok = TRUE /\ w.cost = 0  BY <1>3
  <2> QED  BY <1>2, <2>1
<1>4. CASE w = [entry |-> e, ok |-> FALSE, cost |-> 1]
  <2>1. w.entry = e /\ w.ok = FALSE /\ w.cost = 1  BY <1>4
  <2> QED  BY <2>1
<1>5. ASSUME NEW b \in BOOLEAN,
             w = [entry |-> [e EXCEPT !.petal = Unreadable], ok |-> b, cost |-> 1]
      PROVE  /\ w.entry \in Entry /\ w.ok \in BOOLEAN /\ w.cost \in {0, 1}
             /\ w.entry.answers = e.answers /\ w.entry.ports = e.ports
             /\ w.entry.petal = Unreadable
  <2>1. w.entry = [e EXCEPT !.petal = Unreadable] /\ w.ok = b /\ w.cost = 1  BY <1>5
  <2> QED  BY <1>2, <2>1
<1> QED  BY <1>1, <1>3, <1>4, <1>5

\* A petal in hand that holds every answer of e.
Holds(petal, answers) ==
    petal \in Petals /\ \A f \in Families : f \in answers => petal[f] = "reply"

Agree(e, petal, behind) == behind \/ e.petal \in {petal, Unreadable}

\* What a network command leaves keeps what was answered, in the directory and in memory,
\* and what it reports as written is written.
Keeps(o, e, known) ==
    /\ Spared(o.entry) /\ Holds(o.petal, o.entry.answers)
    /\ o.cost \in Nat /\ o.behind \in BOOLEAN
    /\ Agree(e, known, unsaved) => Agree(o.entry, o.petal, o.behind)

LEMMA UnchangedKeeps ==
    ASSUME NEW e, Spared(e), NEW known, Holds(known, e.answers), unsaved \in BOOLEAN
    PROVE  Keeps(Outcome(e, known, unsaved, 0), e, known)
BY DEF Keeps, Outcome

LEMMA PingKeeps ==
    ASSUME NEW e, Spared(e), NEW known, Holds(known, e.answers), unsaved \in BOOLEAN,
           NEW f \in Families, NEW s \in Status, NEW o \in Record(f, s, e, known)
    PROVE  Keeps(o, e, known)
<1> DEFINE new == [known EXCEPT ![f] = s]
<1>1. PICK w \in WritePetal(e, new) :
        o = IF w.ok THEN Outcome(Answers(w.entry, f, s = "reply"), new, FALSE, w.cost)
            ELSE Outcome(w.entry, known, unsaved, w.cost)
    BY DEF Record
<1>2. new \in Petals /\ known \in Petals  BY DEF Holds, Petals
<1>3. /\ w.entry \in Entry /\ w.ok \in BOOLEAN /\ w.cost \in {0, 1}
      /\ w.entry.answers = e.answers /\ w.entry.ports = e.ports
      /\ w.entry.petal = Unreadable \/ w.entry.petal = (IF w.ok THEN new ELSE e.petal)
    BY <1>2, Written DEF Spared
<1>4. CASE w.ok
  <2> DEFINE a == Answers(w.entry, f, s = "reply")
  <2>1. /\ a \in Entry /\ a.petal = w.entry.petal /\ a.ports = e.ports
        /\ a.answers = IF s = "reply" THEN e.answers \cup {f} ELSE e.answers \ {f}
      BY <1>3 DEF Answers, Entry
  <2>2. \A g \in Families : g \in a.answers => new[g] = "reply"
      BY <2>1, <1>2 DEF Holds, Petals
  <2>3. "ports" \in a.answers => a.ports
      BY <2>1, FamiliesAssumption DEF Spared
  <2>4. a.petal = Unreadable \/ a.petal = new  BY <1>3, <1>4, <2>1
  <2>5. o = Outcome(a, new, FALSE, w.cost)  BY <1>1, <1>4
  <2> HIDE DEF a, new
  <2>6. o.entry = a /\ o.petal = new /\ o.behind = FALSE /\ o.cost = w.cost
      BY <2>5 DEF Outcome
  <2>7. Spared(a)  BY <2>1, <2>2, <2>3, <2>4 DEF Spared
  <2>8. Agree(o.entry, o.petal, o.behind)  BY <2>4, <2>6 DEF Agree
  <2>9. Spared(o.entry) /\ Holds(o.petal, o.entry.answers)
      BY <2>2, <2>6, <2>7, <1>2 DEF Holds
  <2>10. o.cost \in Nat  BY <2>6, <1>3
  <2>11. o.behind \in BOOLEAN  BY <2>6
  <2> QED  BY <2>8, <2>9, <2>10, <2>11 DEF Keeps
<1>5. CASE ~w.ok
  <2>1. /\ o.entry = w.entry /\ o.petal = known /\ o.behind = unsaved /\ o.cost = w.cost
      BY <1>1, <1>5 DEF Outcome
  <2>2. w.entry.petal = Unreadable \/ w.entry.petal = e.petal  BY <1>3, <1>5
  <2>3. Spared(w.entry)  BY <1>3, <2>2 DEF Spared
  <2> QED  BY <2>1, <2>2, <2>3, <1>3 DEF Keeps, Holds, Agree
<1> QED  BY <1>3, <1>4, <1>5

\* A family with a recorded reply has an address, and keeps its state when others get one.
LEMMA AddressHolds ==
    ASSUME NEW petal \in Petals, NEW given, NEW answers, Holds(petal, answers)
    PROVE  Holds(WithAddress(petal, given), answers)
BY DEF WithAddress, Holds, Petals, Status

\* A write that leaves everything but the petal as it was.
LEMMA WriteKeeps ==
    ASSUME NEW e, Spared(e), NEW known, NEW new, Holds(new, e.answers),
           unsaved \in BOOLEAN, NEW w \in WritePetal(e, new)
    PROVE  /\ Spared(w.entry) /\ w.entry.answers = e.answers /\ w.cost \in Nat
           /\ w.ok \in BOOLEAN
           /\ w.ok => w.entry.petal \in {new, Unreadable}
           /\ ~w.ok => w.entry.petal \in {e.petal, Unreadable}
<1>1. new \in Petals  BY DEF Holds
<1>2. /\ w.entry \in Entry /\ w.ok \in BOOLEAN /\ w.cost \in {0, 1}
      /\ w.entry.answers = e.answers /\ w.entry.ports = e.ports
      /\ w.entry.petal = Unreadable \/ w.entry.petal = (IF w.ok THEN new ELSE e.petal)
    BY <1>1, Written DEF Spared
<1>3. Spared(w.entry)  BY <1>2 DEF Spared, Holds
<1> QED  BY <1>2, <1>3

LEMMA ResolveKeeps ==
    ASSUME NEW e, Spared(e), NEW known, Holds(known, e.answers), unsaved \in BOOLEAN,
           NEW o \in ResolveTarget(e, known)
    PROVE  Keeps(o, e, known)
<1>1. CASE o = Outcome(e, known, unsaved, 0)  BY <1>1, UnchangedKeeps
<1>2. CASE \E found \in SUBSET Families : \E w \in WritePetal(e, WithAddress(known, found)) :
                o = Outcome(w.entry, WithAddress(known, found), ~w.ok, w.cost)
  <2>0. PICK found \in SUBSET Families : \E w \in WritePetal(e, WithAddress(known, found)) :
                o = Outcome(w.entry, WithAddress(known, found), ~w.ok, w.cost)
      BY <1>2
  <2>1. PICK w \in WritePetal(e, WithAddress(known, found)) :
                o = Outcome(w.entry, WithAddress(known, found), ~w.ok, w.cost)
      BY <2>0
  <2> DEFINE new == WithAddress(known, found)
  <2>2. Holds(new, e.answers)  BY AddressHolds DEF Holds
  <2>3. o.entry = w.entry /\ o.petal = new /\ o.behind = ~w.ok /\ o.cost = w.cost
      BY <2>1 DEF Outcome
  <2> HIDE DEF new
  <2>4. /\ Spared(w.entry) /\ w.entry.answers = e.answers /\ w.cost \in Nat
        /\ w.ok \in BOOLEAN
        /\ w.ok => w.entry.petal \in {new, Unreadable}
      BY <2>2, WriteKeeps DEF new
  <2>5. Agree(o.entry, o.petal, o.behind)  BY <2>3, <2>4 DEF Agree
  <2>6. o.behind \in BOOLEAN  BY <2>3
  <2> QED  BY <2>2, <2>3, <2>4, <2>5, <2>6 DEF Keeps
<1> QED  BY <1>1, <1>2 DEF ResolveTarget

\* The petal is written as it is known, after .ports may have got a frame.
LEMMA RewriteKeeps ==
    ASSUME NEW e, Spared(e), NEW known, Holds(known, e.answers), unsaved \in BOOLEAN,
           NEW noted, Spared(noted), Holds(known, noted.answers), noted.petal = e.petal,
           NEW w \in WritePetal(noted, known)
    PROVE  Keeps(Outcome(w.entry, known, unsaved /\ ~w.ok, w.cost), e, known)
<1> DEFINE o == Outcome(w.entry, known, unsaved /\ ~w.ok, w.cost)
<1>1. /\ Spared(w.entry) /\ w.entry.answers = noted.answers /\ w.cost \in Nat
      /\ w.ok \in BOOLEAN
      /\ w.ok => w.entry.petal \in {known, Unreadable}
      /\ ~w.ok => w.entry.petal \in {noted.petal, Unreadable}
    BY WriteKeeps
<1>2. /\ o.entry = w.entry /\ o.petal = known /\ o.behind = (unsaved /\ ~w.ok)
      /\ o.cost = w.cost
    BY DEF Outcome
<1>3. o.behind \in BOOLEAN  BY <1>2
<1>4. Agree(e, known, unsaved) => Agree(o.entry, o.petal, o.behind)
    BY <1>1, <1>2 DEF Agree
<1> QED  BY <1>1, <1>2, <1>3, <1>4 DEF Keeps

LEMMA ScanKeeps ==
    ASSUME NEW e, Spared(e), NEW known, Holds(known, e.answers), unsaved \in BOOLEAN,
           NEW o \in ScanTarget(e, known)
    PROVE  Keeps(o, e, known)
<1> DEFINE noted(heard) ==
        IF heard THEN Answers([e EXCEPT !.ports = TRUE], "ports", TRUE) ELSE e
<1>1. CASE o = Outcome(e, known, unsaved, 0)  BY <1>1, UnchangedKeeps
<1>2. CASE \E heard \in BOOLEAN : \E w \in WritePetal(noted(heard), known) :
                o = Outcome(w.entry, known, unsaved /\ ~w.ok, w.cost)
  <2>0. PICK heard \in BOOLEAN : \E w \in WritePetal(noted(heard), known) :
                o = Outcome(w.entry, known, unsaved /\ ~w.ok, w.cost)
      BY <1>2
  <2>1. PICK w \in WritePetal(noted(heard), known) :
                o = Outcome(w.entry, known, unsaved /\ ~w.ok, w.cost)
      BY <2>0
  <2>2. /\ noted(heard).petal = e.petal /\ noted(heard) \in Entry
        /\ noted(heard).answers = IF heard THEN e.answers \cup {"ports"} ELSE e.answers
        /\ noted(heard).ports = IF heard THEN TRUE ELSE e.ports
      BY DEF Answers, Entry, Spared
  <2> HIDE DEF noted
  <2>3. Holds(known, noted(heard).answers)  BY <2>2, FamiliesAssumption DEF Holds
  <2>4. Spared(noted(heard))  BY <2>2, FamiliesAssumption DEF Spared
  <2> QED  BY <2>1, <2>2, <2>3, <2>4, RewriteKeeps
<1> QED  BY <1>1, <1>2 DEF ScanTarget

LEMMA BookKeeps ==
    ASSUME NEW e, Spared(e), NEW known, Holds(known, e.answers), unsaved \in BOOLEAN,
           NEW o \in BookTarget(e, known)
    PROVE  Keeps(o, e, known)
<1>1. CASE o = Outcome(e, known, unsaved, 0)  BY <1>1, UnchangedKeeps
<1>2. CASE \E w \in WritePetal(e, known) :
                o = Outcome(w.entry, known, unsaved /\ ~w.ok, w.cost)
    BY <1>2, RewriteKeeps
<1> QED  BY <1>1, <1>2 DEF BookTarget

LEMMA OutcomesKeep ==
    ASSUME NEW l \in NetworkLines, NEW e, Spared(e), NEW known, Holds(known, e.answers),
           unsaved \in BOOLEAN, NEW o \in Outcomes(l, e, known)
    PROVE  Keeps(o, e, known)
<1>1. CASE l.cmd = "ping"
  <2>1. l.arg \in Families  BY <1>1 DEF NetworkLines
  <2>2. o \in PingTarget(l.arg, e, known)  BY <1>1 DEF Outcomes
  <2>3. CASE o = Outcome(e, known, unsaved, 0)  BY <2>3, UnchangedKeeps
  <2>4. CASE \E s \in Status : o \in Record(l.arg, s, e, known)  BY <2>1, <2>4, PingKeeps
  <2> QED  BY <2>2, <2>3, <2>4 DEF PingTarget, Status
<1>2. CASE l.cmd = "resolve"  BY <1>2, ResolveKeeps DEF Outcomes
<1>3. CASE l.cmd = "scan"  BY <1>3, ScanKeeps DEF Outcomes
<1>4. CASE l.cmd = "book"  BY <1>4, BookKeeps DEF Outcomes
<1> QED  BY <1>1, <1>2, <1>3, <1>4 DEF NetworkLines

-------------------------------------------------------------------------------
(* The turns: f_type, the guard and the line.                              *)

\* A turn under the guard ends in a prompt, or the command goes on; ping and scan end
\* only in prompts.
LEMMA GuardedKeeps ==
    ASSUME GuardInv, Guarded(ftype),
           ftype \in {"C_PING", "C_SCAN"} => ftype' \in Prompts
    PROVE  GuardInv'
BY DEF GuardInv, Guarded, Waiting, Prompts

LEMMA GuardStep == ShellInv /\ [Next]_vars => GuardInv'
<1> SUFFICES ASSUME ShellInv, [Next]_vars PROVE GuardInv'  OBVIOUS
<1> GuardInv  BY DEF ShellInv
<1>1. ASSUME NEW next \in Prompts, Goes(next) PROVE GuardInv'
    BY <1>1, GuardedKeeps DEF Goes
<1>2. CASE Other \/ DeleteTarget \/ AddTarget \/ PruneDone \/ EnterContext \/ NetworkDone \/ Profile
           \/ ReadProfileName
    BY <1>1, <1>2 DEF Other, DeleteTarget, AddTarget, PruneDone, EnterContext, NetworkDone,
                      Profile, ReadProfileName, Prompts
<1>3. CASE Help
  <2>1. caller \in Prompts  BY <1>3 DEF ShellInv, ContextInv, Help, Prompts
  <2> QED  BY <1>1, <1>3, <2>1 DEF Help
<1>4. CASE NewOrLoad \/ Unload \/ Tool \/ ReadCommand \/ ReadName \/ ToolPrompt
    BY <1>4, GuardedKeeps DEF NewOrLoad, Unload, Tool, ReadCommand, ReadName, ToolPrompt
<1>5. CASE NetworkHere \/ SetIdentifier \/ Back \/ HelpOrTool
    BY <1>5, GuardedKeeps
       DEF NetworkHere, SetIdentifier, Back, BackTo, HelpOrTool, Turn
<1>6. CASE PruneOne \/ NetworkOne \/ UNCHANGED vars
  <2>1. UNCHANGED input  BY <1>6 DEF PruneOne, NetworkOne, Midway, vars
  <2> QED  BY <2>1 DEF input, GuardInv, Waiting, Prompts
<1>7. CASE Restart  BY <1>7 DEF Restart, Fresh, GuardInv
<1> QED  BY <1>2, <1>3, <1>4, <1>5, <1>6, <1>7 DEF Next, Execute, Read

LEMMA LineStep == ShellInv /\ [Next]_vars => LineInv'
<1> SUFFICES ASSUME ShellInv, [Next]_vars PROVE LineInv'  OBVIOUS
<1> LineInv  BY DEF ShellInv
<1> USE DEF LineInv, OverTargets, Prompts
<1>1. ASSUME NEW next \in Prompts, Goes(next), ftype # "C_UNLOAD" PROVE LineInv'
    BY <1>1 DEF Goes
<1>2. CASE Other \/ DeleteTarget \/ AddTarget \/ PruneDone \/ EnterContext \/ NetworkDone \/ Profile
           \/ ReadProfileName
    BY <1>1, <1>2 DEF Other, DeleteTarget, AddTarget, PruneDone, EnterContext, NetworkDone,
                      Profile, ReadProfileName, Targets
<1>3. CASE Help
  <2>1. caller \in Prompts  BY <1>3 DEF ShellInv, ContextInv, Help
  <2> QED  BY <1>1, <1>3, <2>1 DEF Help
<1>4. CASE NewOrLoad  BY <1>4, NoneAssumption DEF NewOrLoad
<1>5. CASE Unload  BY <1>5, NoneAssumption DEF Unload
<1>6. CASE ReadCommand
  <2>1. PICK l \in DefaultLines : line' = l /\ ftype' = Command(l.cmd)
      BY <1>6 DEF ReadCommand
  <2>2. then' = None  BY <1>6 DEF ReadCommand
  <2>3. l.cmd \in {"help", "unload", "tool", "other", "targets del -n", "targets", "new",
                   "load", "targets add", "targets del", "targets <TID>", "profile set",
                   "profile load", "ping", "resolve", "scan", "book"}
      BY DEF DefaultLines, NetworkLines
  <2>4. l.cmd \in {"ping", "resolve", "scan", "book"} => l \in NetworkLines
      BY DEF DefaultLines
  <2>5. ftype' \in {"C_NEW", "C_LOAD"} => l.cmd \in {"new", "load"}
      BY <2>1, <2>3 DEF Command
  <2>6. ftype' \in {"C_PING", "C_RESOLVE", "C_SCAN", "C_BOOK"}
            => l.cmd \in {"ping", "resolve", "scan", "book"}
      BY <2>1, <2>3 DEF Command
  <2> QED  BY <2>1, <2>2, <2>4, <2>5, <2>6 DEF NetworkLines
<1>7. CASE Tool \/ ReadName \/ ToolPrompt
    BY <1>7 DEF Tool, ReadName, ToolPrompt
<1>8. CASE NetworkHere \/ SetIdentifier \/ Back \/ HelpOrTool
    BY <1>8 DEF NetworkHere, SetIdentifier, Back, BackTo, HelpOrTool, Turn
<1>9. CASE PruneOne \/ NetworkOne \/ UNCHANGED vars
    BY <1>9 DEF PruneOne, NetworkOne, Midway, input, vars, NetworkLines
<1>10. CASE Restart  BY <1>10 DEF Restart, Fresh
<1> QED  BY <1>2, <1>3, <1>4, <1>5, <1>6, <1>7, <1>8, <1>9, <1>10 DEF Next, Execute, Read

LEMMA ContextStep == ShellInv /\ [Next]_vars => ContextInv'
<1> SUFFICES ASSUME ShellInv, [Next]_vars PROVE ContextInv'  OBVIOUS
<1> ContextInv  BY DEF ShellInv
<1> USE DEF ContextInv, context
<1>1. CASE Other \/ DeleteTarget \/ AddTarget \/ PruneDone \/ Profile \/ ReadProfileName
    BY <1>1 DEF Other, DeleteTarget, AddTarget, PruneDone, Profile, ReadProfileName, Goes, Targets
<1>2. CASE EnterContext
  <2>1. CASE ftype' = "S_DEFAULT" /\ target' = target
      BY <1>2, <2>1 DEF EnterContext, Targets, Goes
  <2>2. CASE Readable(line.arg) /\ Goes("C_TARGETS_CONTEXTUAL") /\ target' = line.arg
    <3>1. active # None  BY <1>2 DEF EnterContext, Targets
    <3>2. line.arg \in Tids  BY <2>2, <3>1 DEF ShellInv, DiskInv, Readable, Here
    <3> QED  BY <1>2, <2>2, <3>2, NoneAssumption DEF Goes
  <2> QED  BY <1>2, <2>1, <2>2 DEF EnterContext, Goes
<1>3. CASE Help  BY <1>3 DEF Help, Goes
<1>4. CASE NewOrLoad \/ ReadName  BY <1>4 DEF NewOrLoad, ReadName
<1>5. CASE Unload  BY <1>5 DEF Unload, ShellInv, LineInv
<1>6. CASE ReadCommand
  <2>1. PICK l \in DefaultLines : ftype' = Command(l.cmd)  BY <1>6 DEF ReadCommand
  <2>2. l.cmd \in {"help", "unload", "tool", "other", "targets del -n", "targets", "new",
                   "load", "targets add", "targets del", "targets <TID>", "profile set",
                   "profile load", "ping", "resolve", "scan", "book"}
      BY DEF DefaultLines, NetworkLines
  <2>3. ftype' \notin {"C_TARGETS_CONTEXTUAL", "C_TOOL_CONTEXTUAL"}
      BY <2>1, <2>2 DEF Command
  <2> QED  BY <1>6, <2>3 DEF ReadCommand
<1>7. CASE Tool \/ ToolPrompt  BY <1>7 DEF Tool, ToolPrompt
<1>8. CASE NetworkHere \/ SetIdentifier \/ Back \/ HelpOrTool
    BY <1>8 DEF NetworkHere, SetIdentifier, Back, BackTo, HelpOrTool, Turn
<1>9. CASE PruneOne \/ NetworkOne \/ UNCHANGED vars
    BY <1>9 DEF PruneOne, NetworkOne, Midway, input, vars
<1>10. CASE NetworkDone  BY <1>10 DEF NetworkDone, Goes, OverTargets
<1>11. CASE Restart  BY <1>11 DEF Restart, Fresh
<1> QED  BY <1>1, <1>2, <1>3, <1>4, <1>5, <1>6, <1>7, <1>8, <1>9, <1>10, <1>11
         DEF Next, Execute, Read

-------------------------------------------------------------------------------
(* The turns: the directories and the petal of the context.                *)

DataInv == DiskInv /\ MemoryInv /\ CountInv

LEMMA PaysNat ==
    ASSUME CountInv
    PROVE  /\ Fault => faults' \in Nat /\ faults' # faults
           /\ \A cost \in Nat : Pays(cost) => faults' \in Nat
BY DEF CountInv, Fault, Pays

\* Nothing is done to the directories, the list and the context.
LEMMA DataUnchanged ==
    ASSUME DataInv, UNCHANGED <<disk, active, list, target, memory, unsaved>>,
           faults' \in Nat
    PROVE  DataInv'
BY DEF DataInv, DiskInv, MemoryInv, CountInv, Here, Spared

\* A file of one target is written.
LEMMA EntrySet ==
    ASSUME DataInv, active # None, NEW t \in Tids, NEW e, Spared(e), SetEntry(t, e),
           UNCHANGED active
    PROVE  DiskInv' /\ Here' = With(Here, t, e)
<1>1. active \in DOMAIN disk  BY DEF DataInv, DiskInv
<1>2. /\ DOMAIN disk' = DOMAIN disk
      /\ \A p \in DOMAIN disk : disk'[p] = IF p = active THEN With(Here, t, e) ELSE disk[p]
    BY <1>1 DEF SetEntry, Here
<1>3. Here' = With(Here, t, e)  BY <1>1, <1>2 DEF Here
<1>4. \A u \in DOMAIN With(Here, t, e) : u \in Tids /\ Spared(With(Here, t, e)[u])
    BY <1>1 DEF With, DataInv, DiskInv, Here
<1>5. \A p \in DOMAIN disk' : \A u \in DOMAIN disk'[p] : u \in Tids /\ Spared(disk'[p][u])
    BY <1>2, <1>4 DEF DataInv, DiskInv
<1>6. active' \in DOMAIN disk'  BY <1>1, <1>2
<1> QED  BY <1>3, <1>5, <1>6 DEF DiskInv, Spared

\* A target that is readable is one of the project's, and its petal holds its answers.
LEMMA ReadableHolds ==
    ASSUME DataInv, active # None, NEW t, Readable(t)
    PROVE  t \in Tids /\ Spared(Here[t]) /\ Holds(Here[t].petal, Here[t].answers)
<1>1. t \in Tids /\ Spared(Here[t]) /\ Here[t].petal # Unreadable
    BY DEF DataInv, DiskInv, Readable, Here
<1> QED  BY <1>1 DEF Spared, Holds, Entry

LEMMA NothingSpared ==
    ASSUME NEW e \in Entry, e.answers = {}
    PROVE  Spared(e)
BY DEF Spared

LEMMA TryKeeps ==
    ASSUME DataInv, target = None, UNCHANGED context, NEW p,
           NEW cmd \in {"new", "load"}, Tries(cmd, p)
    PROVE  DataInv'
<1>1. MemoryInv'  BY DEF MemoryInv, context
<1>2. CountInv'
  <2>1. faults' \in Nat
      BY PaysNat DEF Tries, TryNew, TryLoad, OpenRuntime, DataInv, CountInv
  <2> QED  BY <2>1 DEF DataInv, CountInv, context
<1>3. DiskInv'
  <2>1. CASE /\ p \notin DOMAIN disk
             /\ disk' = With(disk, p, << >>)
             /\ active' = p
    <3>1. DOMAIN disk' = DOMAIN disk \cup {p} /\ DOMAIN (disk'[p]) = {}
        BY <2>1 DEF With
    <3>2. \A q \in DOMAIN disk : disk'[q] = disk[q]  BY <2>1 DEF With
    <3> QED  BY <2>1, <3>1, <3>2 DEF DataInv, DiskInv, Spared
  <2>2. CASE p \in DOMAIN disk /\ active' = p /\ UNCHANGED disk
      BY <2>2 DEF DataInv, DiskInv, Spared
  <2>3. CASE UNCHANGED <<disk, active>>
      BY <2>3 DEF DataInv, DiskInv, Spared
  <2> QED  BY <2>1, <2>2, <2>3 DEF Tries, TryNew, TryLoad, project
<1> QED  BY <1>1, <1>2, <1>3 DEF DataInv

\* A whole directory goes, or some of its files.
LEMMA DeletedKeeps ==
    ASSUME DataInv, active # None, NEW t, Deleted(t), UNCHANGED active
    PROVE  DiskInv'
<1>1. active \in DOMAIN disk  BY DEF DataInv, DiskInv
<1>2. /\ DOMAIN disk' = DOMAIN disk
      /\ \A p \in DOMAIN disk : disk'[p] = IF p = active THEN Dropped(Here, t) ELSE disk[p]
    BY <1>1 DEF Deleted, Here
<1>3. \A u \in DOMAIN Dropped(Here, t) :
            u \in DOMAIN Here /\ Dropped(Here, t)[u] = Here[u]
    BY DEF Dropped
<1> QED  BY <1>1, <1>2, <1>3 DEF DataInv, DiskInv, Here, Spared

LEMMA DeleteKeeps ==
    ASSUME DataInv, active # None, NEW t, DeleteByTid(t), UNCHANGED active
    PROVE  DiskInv' /\ faults' \in Nat
<1>1. CASE t \in DOMAIN Here /\ Deleted(t) /\ UNCHANGED faults
    BY <1>1, DeletedKeeps DEF DataInv, CountInv
<1>2. CASE /\ t \in DOMAIN Here /\ Fault
           /\ \E petal \in {Here[t].petal, Unreadable}, ports \in {Here[t].ports, FALSE} :
                SetEntry(t, [petal |-> petal, ports |-> ports,
                             answers |-> Here[t].answers \ IF ports THEN {} ELSE {"ports"}])
  <2>1. PICK petal \in {Here[t].petal, Unreadable}, ports \in {Here[t].ports, FALSE} :
                SetEntry(t, [petal |-> petal, ports |-> ports,
                             answers |-> Here[t].answers \ IF ports THEN {} ELSE {"ports"}])
      BY <1>2
  <2> DEFINE e == [petal |-> petal, ports |-> ports,
                   answers |-> Here[t].answers \ IF ports THEN {} ELSE {"ports"}]
  <2>2. t \in Tids /\ Spared(Here[t])  BY <1>2 DEF DataInv, DiskInv, Here
  <2>3. e \in Entry  BY <2>2 DEF Spared, Entry
  <2>4. e.petal = petal /\ e.ports = ports /\ e.answers \subseteq Here[t].answers
        /\ ("ports" \in e.answers => ports)
      OBVIOUS
  <2>5. SetEntry(t, e)  BY <2>1
  <2> HIDE DEF e
  <2>6. Spared(e)  BY <2>2, <2>3, <2>4 DEF Spared
  <2> QED  BY <1>2, <2>2, <2>5, <2>6, EntrySet, PaysNat DEF DataInv
<1>3. CASE UNCHANGED <<disk, faults>>
    BY <1>3 DEF DataInv, DiskInv, CountInv, Spared
<1> QED  BY <1>1, <1>2, <1>3 DEF DeleteByTid

\* The petal of the context after a command in its prompt.
LEMMA HereKeeps ==
    ASSUME DataInv, target # None, NEW e, Spared(e), SetEntry(target, e),
           UNCHANGED <<active, list, target>>, Holds(memory', e.answers),
           unsaved' \in BOOLEAN, Agree(e, memory', unsaved'), faults' \in Nat
    PROVE  DataInv'
<1>1. active # None /\ target \in ToSet(list) /\ target \in DOMAIN Here
    BY DEF DataInv, MemoryInv
<1>2. target \in Tids  BY <1>1 DEF DataInv, DiskInv, Here
<1>3. DiskInv' /\ Here' = With(Here, target, e)  BY <1>1, <1>2, EntrySet
<1>4. target \in DOMAIN Here' /\ Here'[target] = e  BY <1>3 DEF With
<1>5. MemoryInv'  BY <1>1, <1>4 DEF MemoryInv, Holds, Agree
<1> QED  BY <1>3, <1>5 DEF DataInv, CountInv

LEMMA DataStep == ShellInv /\ [Next]_vars => DataInv'
<1> SUFFICES ASSUME ShellInv, [Next]_vars PROVE DataInv'  OBVIOUS
<1> DataInv /\ ContextInv  BY DEF ShellInv, DataInv
<1> faults \in Nat /\ unsaved \in BOOLEAN  BY DEF DataInv, CountInv
<1> USE DEF context, project
<1>1. ASSUME target' = None, DiskInv', faults' \in Nat, unsaved' \in BOOLEAN PROVE DataInv'
    BY <1>1 DEF DataInv, MemoryInv, CountInv
<1>2. CASE Other \/ Help \/ PruneDone \/ NetworkDone \/ Tool \/ ReadCommand
    BY <1>2, DataUnchanged DEF Other, Help, PruneDone, NetworkDone, Tool, ReadCommand
<1>3. CASE HelpOrTool \/ ToolPrompt \/ UNCHANGED vars
    BY <1>3, DataUnchanged DEF HelpOrTool, ToolPrompt, vars
<1>4. ASSUME NEW p, NEW cmd \in {"new", "load"}, Tries(cmd, p), target = None,
             UNCHANGED context
      PROVE DataInv'
    BY <1>4, TryKeeps
<1>5. CASE NewOrLoad
  <2>1. target = None  BY <1>5 DEF NewOrLoad, ContextInv
  <2>2. line.cmd \in {"new", "load"}  BY <1>5 DEF NewOrLoad, ShellInv, LineInv
  <2>3. CASE UNCHANGED <<disk, project, network, faults>>
      BY <1>5, <2>3, DataUnchanged DEF NewOrLoad
  <2>4. CASE active = None /\ line.arg # None /\ Tries(line.cmd, line.arg)
    <3>1. UNCHANGED context  BY <1>5 DEF NewOrLoad
    <3> QED  BY <1>4, <2>1, <2>2, <2>4, <3>1
  <2> QED  BY <1>5, <2>3, <2>4 DEF NewOrLoad
<1>6. CASE ReadName
  <2>1. target = None /\ UNCHANGED context  BY <1>6 DEF ReadName, ContextInv
  <2>2. CASE UNCHANGED <<disk, project, network, faults>>
      BY <2>1, <2>2, DataUnchanged
  <2>3. CASE \E p \in Projects :
                Tries(IF ftype = "C_NEW_CONTEXTUAL" THEN "new" ELSE "load", p)
      BY <1>4, <2>1, <2>3
  <2> QED  BY <1>6, <2>2, <2>3 DEF ReadName
<1>7. CASE Unload \/ Restart \/ Back
  <2>1. target' = None /\ unsaved' = FALSE /\ UNCHANGED <<disk, faults>>
      BY <1>7 DEF Unload, Restart, Fresh, Back
  <2>2. active' \in {None, active}  BY <1>7 DEF Unload, Restart, Fresh, Back
  <2> QED  BY <1>1, <2>1, <2>2 DEF DataInv, DiskInv, Spared
<1>8. CASE AddTarget
  <2>1. target = None /\ active # None /\ UNCHANGED <<active, target, unsaved>>
      BY <1>8 DEF AddTarget, Targets, ContextInv
  <2>2. CASE UNCHANGED disk /\ faults' \in Nat
      BY <1>1, <2>1, <2>2 DEF DataInv, DiskInv, Spared
  <2>3. ASSUME NEW t \in Tids,
               NEW w \in WritePetal([petal |-> Unreadable, ports |-> FALSE, answers |-> {}],
                                    NewPetal(line.arg)),
               SetEntry(t, w.entry), Pays(w.cost)
        PROVE DataInv'
    <3> DEFINE e == [petal |-> Unreadable, ports |-> FALSE, answers |-> {}]
    <3>1. e \in Entry /\ e.answers = {}  BY DEF Entry
    <3>2. NewPetal(line.arg) \in Petals  BY DEF NewPetal, Petals, Status
    <3>3. w \in WritePetal(e, NewPetal(line.arg))  BY <2>3
    <3> HIDE DEF e
    <3>4. w.entry \in Entry /\ w.entry.answers = {} /\ w.cost \in {0, 1}
        BY <3>1, <3>2, <3>3, Written
    <3>5. Spared(w.entry)  BY <3>4, NothingSpared
    <3>6. DiskInv'  BY <2>1, <2>3, <3>5, EntrySet
    <3>7. faults' \in Nat  BY <2>3, <3>4, PaysNat DEF DataInv
    <3> QED  BY <1>1, <2>1, <3>6, <3>7
  <2> QED  BY <1>8, <2>2, <2>3, PaysNat DEF AddTarget, DataInv
<1>9. CASE DeleteTarget
  <2>1. target = None /\ active # None /\ UNCHANGED <<active, target, unsaved>>
      BY <1>9 DEF DeleteTarget, Targets, ContextInv
  <2>2. CASE DeleteByTid(line.arg)  BY <1>1, <2>1, <2>2, DeleteKeeps
  <2>3. CASE UNCHANGED <<disk, list, count, faults>>
      BY <1>1, <2>1, <2>3 DEF DataInv, DiskInv, Spared
  <2> QED  BY <1>9, <2>2, <2>3 DEF DeleteTarget
<1>10. CASE PruneOne
  <2>1. target = None /\ active # None /\ UNCHANGED <<active, target, unsaved>>
      BY <1>10 DEF PruneOne, Targets, ContextInv
  <2>2. CASE DeleteByTid(Head(rest))  BY <1>1, <2>1, <2>2, DeleteKeeps
  <2>3. CASE Fault /\ Deleted(Head(rest))
      BY <1>1, <2>1, <2>3, DeletedKeeps, PaysNat DEF DataInv
  <2>4. CASE UNCHANGED <<disk, list, count, faults>>
      BY <1>1, <2>1, <2>4 DEF DataInv, DiskInv, Spared
  <2> QED  BY <1>10, <2>2, <2>3, <2>4 DEF PruneOne
<1>11. CASE EnterContext
  <2>1. /\ active # None /\ target = None
        /\ UNCHANGED <<disk, active, list, unsaved>>
      BY <1>11 DEF EnterContext, Targets, ContextInv
  <2>2. CASE UNCHANGED <<target, memory>>
    <3>1. faults' \in Nat  BY <1>11, PaysNat DEF EnterContext, DataInv
    <3> QED  BY <2>1, <2>2, <3>1, DataUnchanged
  <2>3. CASE /\ line.arg \in ToSet(list) /\ Readable(line.arg)
             /\ target' = line.arg /\ memory' = Here[line.arg].petal /\ UNCHANGED faults
    <3>1. Holds(memory', Here[line.arg].answers)  BY <2>1, <2>3, ReadableHolds
    <3>2. Here' = Here  BY <2>1 DEF Here
    <3>3. line.arg \in DOMAIN Here  BY <2>3 DEF Readable
    <3>4. MemoryInv'  BY <2>1, <2>3, <3>1, <3>2, <3>3 DEF MemoryInv, Holds
    <3> QED  BY <2>1, <2>3, <3>4 DEF DataInv, DiskInv, CountInv, Spared
  <2> QED  BY <1>11, <2>2, <2>3 DEF EnterContext
<1>12. CASE NetworkOne
  <2> DEFINE t == Head(rest)
  <2>1. target = None /\ active # None /\ UNCHANGED <<active, target, unsaved>>
      BY <1>12 DEF NetworkOne, Admitted, OverTargets, ContextInv
  <2>2. line \in NetworkLines  BY <1>12 DEF NetworkOne, ShellInv, LineInv
  <2>3. CASE UNCHANGED <<disk, faults>>
      BY <1>1, <2>1, <2>3 DEF DataInv, DiskInv, Spared
  <2>4. ASSUME Readable(t), NEW o \in Outcomes(line, Here[t], Here[t].petal),
               SetEntry(t, o.entry), Pays(o.cost)
        PROVE DataInv'
    <3>1. t \in Tids /\ Spared(Here[t]) /\ Holds(Here[t].petal, Here[t].answers)
        BY <2>1, <2>4, ReadableHolds
    <3> HIDE DEF t
    <3>2. Keeps(o, Here[t], Here[t].petal)  BY <2>2, <2>4, <3>1, OutcomesKeep
    <3>3. DiskInv'  BY <2>1, <2>4, <3>1, <3>2, EntrySet DEF Keeps
    <3>4. faults' \in Nat  BY <2>4, <3>2, PaysNat DEF Keeps, DataInv
    <3> QED  BY <1>1, <2>1, <3>3, <3>4
  <2> QED  BY <1>12, <2>3, <2>4 DEF NetworkOne
<1>13. CASE Profile \/ ReadProfileName
  <2>1. UNCHANGED <<disk, active, list, target, memory, unsaved>>
      BY <1>13 DEF Profile, ReadProfileName
  <2>2. \A c : TryProfile(c) => faults' \in Nat
      BY PaysNat DEF TryProfile, Reopen, DataInv
  <2>3. faults' \in Nat  BY <1>13, <2>2 DEF Profile, ReadProfileName
  <2> QED  BY <2>1, <2>3, DataUnchanged
<1>14. ASSUME ftype = "C_TARGETS_CONTEXTUAL"
       PROVE  /\ target # None /\ active # None
              /\ Spared(Here[target]) /\ Holds(memory, Here[target].answers)
              /\ Agree(Here[target], memory, unsaved)
  <2>1. target # None  BY <1>14 DEF ContextInv
  <2>2. active # None /\ target \in DOMAIN Here  BY <2>1 DEF DataInv, MemoryInv
  <2>3. Spared(Here[target])  BY <2>2 DEF DataInv, DiskInv, Here
  <2> QED  BY <2>1, <2>2, <2>3 DEF DataInv, MemoryInv, Holds, Agree
<1>15. CASE NetworkHere
  <2>1. ftype = "C_TARGETS_CONTEXTUAL" /\ UNCHANGED <<active, list, target>>
      BY <1>15 DEF NetworkHere, Turn
  <2>2. PICK l \in NetworkLines : \E o \in Outcomes(l, Here[target], memory) :
            /\ SetEntry(target, o.entry) /\ memory' = o.petal /\ unsaved' = o.behind
            /\ Pays(o.cost)
      BY <1>15 DEF NetworkHere, InContext
  <2>3. PICK o \in Outcomes(l, Here[target], memory) :
            /\ SetEntry(target, o.entry) /\ memory' = o.petal /\ unsaved' = o.behind
            /\ Pays(o.cost)
      BY <2>2
  <2>4. Keeps(o, Here[target], memory)  BY <1>14, <2>1, OutcomesKeep
  <2>5. faults' \in Nat  BY <2>3, <2>4, PaysNat DEF Keeps, DataInv
  <2> QED  BY <1>14, <2>1, <2>3, <2>4, <2>5, HereKeeps DEF Keeps
<1>16. CASE SetIdentifier
  <2>1. ftype = "C_TARGETS_CONTEXTUAL" /\ UNCHANGED <<active, list, target>>
      BY <1>16 DEF SetIdentifier, Turn
  <2> DEFINE new(given) == WithAddress(memory, given)
  <2>2. \A given : Holds(new(given), Here[target].answers)
      BY <1>14, <2>1, AddressHolds DEF Holds
  <2>3. PICK given \in SUBSET Families :
            \/ \E w \in WritePetal(Here[target], new(given)) :
                    /\ SetEntry(target, w.entry) /\ memory' = new(given) /\ unsaved' = ~w.ok
                    /\ Pays(w.cost)
            \/ /\ UNCHANGED disk
               /\ \/ /\ Readable(target) /\ memory' = Here[target].petal
                     /\ unsaved' = FALSE /\ UNCHANGED faults
                  \/ /\ IF Readable(target) THEN Fault ELSE UNCHANGED faults
                     /\ memory' = new(given) /\ unsaved' = TRUE
      BY <1>16 DEF SetIdentifier
  <2> HIDE DEF new
  <2>4. ASSUME NEW w \in WritePetal(Here[target], new(given)), SetEntry(target, w.entry),
               memory' = new(given), unsaved' = ~w.ok, Pays(w.cost)
        PROVE DataInv'
    <3>1. /\ Spared(w.entry) /\ w.entry.answers = Here[target].answers /\ w.cost \in Nat
          /\ w.ok \in BOOLEAN /\ (w.ok => w.entry.petal \in {new(given), Unreadable})
        BY <1>14, <2>1, <2>2, <2>4, WriteKeeps
    <3>2. Holds(memory', w.entry.answers)  BY <2>2, <2>4, <3>1
    <3>3. unsaved' \in BOOLEAN  BY <2>4
    <3>4. Agree(w.entry, memory', unsaved')  BY <2>4, <3>1 DEF Agree
    <3>5. faults' \in Nat  BY <2>4, <3>1, PaysNat DEF DataInv
    <3> QED  BY <1>14, <2>1, <2>4, <3>1, <3>2, <3>3, <3>4, <3>5, HereKeeps
  <2>5. ASSUME UNCHANGED disk, Holds(memory', Here[target].answers), unsaved' \in BOOLEAN,
               Agree(Here[target], memory', unsaved'), faults' \in Nat
        PROVE DataInv'
    <3>1. Here' = Here  BY <2>1, <2>5 DEF Here
    <3>2. MemoryInv'
        BY <2>1, <2>5, <3>1 DEF DataInv, MemoryInv, Holds, Agree
    <3> QED  BY <2>1, <2>5, <3>2 DEF DataInv, DiskInv, CountInv, Spared
  <2>6. CASE /\ UNCHANGED disk
             /\ Readable(target) /\ memory' = Here[target].petal
             /\ unsaved' = FALSE /\ UNCHANGED faults
    <3>1. Holds(memory', Here[target].answers)  BY <1>14, <2>1, <2>6, ReadableHolds
    <3>2. Agree(Here[target], memory', unsaved')  BY <2>6 DEF Agree
    <3> QED  BY <2>5, <2>6, <3>1, <3>2
  <2>7. CASE /\ UNCHANGED disk /\ memory' = new(given) /\ unsaved' = TRUE
             /\ IF Readable(target) THEN Fault ELSE UNCHANGED faults
    <3>1. Holds(memory', Here[target].answers)  BY <2>2, <2>7
    <3>2. Agree(Here[target], memory', unsaved')  BY <2>7 DEF Agree
    <3>3. faults' \in Nat  BY <2>7, PaysNat DEF DataInv
    <3> QED  BY <2>5, <2>7, <3>1, <3>2, <3>3
  <2> QED  BY <2>3, <2>4, <2>6, <2>7
<1> QED  BY <1>2, <1>3, <1>5, <1>6, <1>7, <1>8, <1>9, <1>10, <1>11, <1>12, <1>13, <1>15,
            <1>16
         DEF Next, Execute, Read

-------------------------------------------------------------------------------
LEMMA ShellInvStep == ShellInv /\ [Next]_vars => ShellInv'
BY ContextStep, GuardStep, LineStep, DataStep DEF ShellInv, DataInv

LEMMA ShellInvAlways == Spec => []ShellInv
BY ShellInvInit, ShellInvStep, PTL DEF Spec

\* A prompt is what it looks like: those of a target and of its tools have a target, of
\* the active project, and the others have none; the terminal is unlocked and nothing is
\* shown as being in progress.  The petal in memory is the one in its directory, unless a
\* failed write or read was reported or the file is damaged.
THEOREM PromptTrue == Spec => []PromptIsTrue
<1>1. ShellInv => PromptIsTrue
  <2> SUFFICES ASSUME ShellInv PROVE PromptIsTrue  OBVIOUS
  <2>1. ASSUME Waiting
        PROVE  /\ ftype \in {"C_TARGETS_CONTEXTUAL", "C_TOOL_CONTEXTUAL"} <=> target # None
               /\ ~locked /\ ~progress
      BY <2>1 DEF ShellInv, ContextInv, GuardInv, Waiting, Prompts
  <2>2. ASSUME target # None
        PROVE  /\ active # None /\ target \in ToSet(list) \cap DOMAIN Here
               /\ unsaved \/ Here[target].petal \in {memory, Unreadable}
      BY <2>2 DEF ShellInv, MemoryInv
  <2> QED  BY <2>1, <2>2 DEF PromptIsTrue
<1> QED  BY <1>1, ShellInvAlways, PTL

-------------------------------------------------------------------------------
(* Pruning.                                                                *)

\* A target is gone from the active project, and from no other.
LEMMA GoneByDelete ==
    ASSUME NEW t, Deleted(t), NEW p \in DOMAIN disk, NEW u \in DOMAIN disk[p],
           u \notin DOMAIN disk'[p]
    PROVE  p = active /\ u = t
<1>1. \A q \in DOMAIN disk : q # active => disk'[q] = disk[q]  BY DEF Deleted
<1>2. p = active  BY <1>1
<1>3. DOMAIN disk'[p] = DOMAIN disk[p] \ {t}  BY <1>2 DEF Deleted, Dropped
<1> QED  BY <1>2, <1>3

\* A write takes no target away.
LEMMA NoneGoneBySet ==
    ASSUME NEW t, NEW e, SetEntry(t, e), NEW p \in DOMAIN disk
    PROVE  DOMAIN disk[p] \subseteq DOMAIN disk'[p]
<1>1. CASE p = active  BY <1>1 DEF SetEntry, With
<1>2. CASE p # active  BY <1>2 DEF SetEntry
<1> QED  BY <1>1, <1>2

\* What is pruned by its petal has answered nothing, except with frames when the file of
\* frames is taken to be empty.
LEMMA PrunedUnanswered ==
    ASSUME ShellInv, active # None, NEW t, Readable(t), NEW ports,
           PruneTransportFailure(Here[t].petal, HasObservation(Here[t], ports))
    PROVE  Here[t].answers \subseteq {"ports"} /\ ~ports
<1>1. Spared(Here[t]) /\ Here[t].petal # Unreadable
    BY ReadableHolds DEF ShellInv, DataInv, Readable
<1>2. ~ports /\ \A f \in Families : Here[t].petal[f] # "reply"
    BY DEF PruneTransportFailure, HasObservation
<1>3. Here[t].answers \subseteq Families \cup {"ports"}  BY <1>1 DEF Spared, Entry
<1> QED  BY <1>1, <1>2, <1>3 DEF Spared

Gone(p, t) == p \in DOMAIN disk' /\ t \notin DOMAIN disk'[p]

Excused(e) ==
    line.cmd = "targets del" \/ e.answers = {} \/ (e.answers = {"ports"} /\ faults' # faults)

\* A target from which an answer was recorded is not pruned: it goes only when it is
\* deleted by name, or when the file of its frames could not be opened to be asked and
\* the answers were frames.
THEOREM AnswersKept == Spec => AnswersAreKept
<1>1. ASSUME ShellInv, [Next]_vars, NEW p \in DOMAIN disk, NEW t \in DOMAIN disk[p], Gone(p, t)
      PROVE  Excused(disk[p][t])
  <2>1. CASE UNCHANGED disk  BY <1>1, <2>1 DEF Gone
  <2>2. CASE \E u, e : SetEntry(u, e)  BY <1>1, <2>2, NoneGoneBySet DEF Gone
  <2>3. CASE DeleteTarget  BY <2>3 DEF DeleteTarget, Targets, Excused
  <2>4. CASE \E q, cmd : Tries(cmd, q)
      BY <1>1, <2>4 DEF Tries, TryNew, TryLoad, With, Gone
  <2>5. CASE PruneOne
    <3> DEFINE u == Head(rest)
    <3>1. active # None  BY <2>5 DEF PruneOne, Targets
    <3>2. ASSUME Deleted(u) PROVE disk[p][t] = Here[u]
        BY <1>1, <3>2, GoneByDelete DEF Gone, Here
    <3>3. CASE /\ Readable(u) /\ DeleteByTid(u)
               /\ PruneTransportFailure(Here[u].petal, HasObservation(Here[u], Here[u].ports))
      <4>1. CASE Deleted(u)
        <5>1. Here[u].answers \subseteq {"ports"} /\ ~Here[u].ports
            BY <1>1, <3>1, <3>3, PrunedUnanswered
        <5>2. Spared(Here[u])
            BY <1>1, <3>1, <3>3, ReadableHolds DEF ShellInv, DataInv
        <5>3. Here[u].answers = {}  BY <5>1, <5>2 DEF Spared
        <5> QED  BY <3>2, <4>1, <5>3 DEF Excused
      <4>2. CASE ~Deleted(u)  BY <2>1, <2>2, <3>3, <4>2 DEF DeleteByTid
      <4> QED  BY <4>1, <4>2
    <3>4. CASE /\ Readable(u) /\ Fault /\ Deleted(u)
               /\ PruneTransportFailure(Here[u].petal, HasObservation(Here[u], FALSE))
      <4>1. Here[u].answers \subseteq {"ports"}
          BY <1>1, <3>1, <3>4, PrunedUnanswered
      <4>2. faults' # faults  BY <1>1, <3>4, PaysNat DEF ShellInv
      <4> QED  BY <3>2, <3>4, <4>1, <4>2 DEF Excused
    <3> QED  BY <2>1, <2>5, <3>3, <3>4 DEF PruneOne
  <2>6. CASE Other \/ Help \/ PruneDone \/ EnterContext \/ NetworkDone \/ Tool \/ Profile \/ Unload
      BY <2>1, <2>6 DEF Other, Help, PruneDone, EnterContext, NetworkDone, Tool, Profile, Unload
  <2>7. CASE ReadCommand \/ ReadProfileName \/ Back \/ HelpOrTool \/ ToolPrompt \/ Restart
               \/ UNCHANGED vars
      BY <2>1, <2>7
         DEF ReadCommand, ReadProfileName, Back, HelpOrTool, ToolPrompt, Restart, vars
  <2>8. CASE NewOrLoad \/ ReadName  BY <2>1, <2>4, <2>8 DEF NewOrLoad, ReadName
  <2>9. CASE AddTarget \/ NetworkOne  BY <2>1, <2>2, <2>9 DEF AddTarget, NetworkOne
  <2>10. CASE NetworkHere \/ SetIdentifier
      BY <2>1, <2>2, <2>10 DEF NetworkHere, SetIdentifier
  <2> QED  BY <1>1, <2>3, <2>5, <2>6, <2>7, <2>8, <2>9, <2>10 DEF Next, Execute, Read
<1>2. ShellInv /\ [Next]_vars =>
        [\A p \in DOMAIN disk : \A t \in DOMAIN disk[p] :
            p \in DOMAIN disk' /\ t \notin DOMAIN disk'[p] =>
                \/ line.cmd = "targets del"
                \/ disk[p][t].answers = {}
                \/ disk[p][t].answers = {"ports"} /\ faults' # faults]_vars
    BY <1>1 DEF Gone, Excused
<1> QED  BY <1>2, ShellInvAlways, PTL DEF Spec, AnswersAreKept
-------------------------------------------------------------------------------
(* The list of the nodes.  What hangs on it without a project are only     *)
(* nodes without a directory, a name is asked for only without a project,  *)
(* and what pruning has before it is still on the list: this keeps the     *)
(* list true to the directories.                                           *)

\* The nodes that have a directory.
Real == ToSet(list) \cap OnDisk

Whole(d) == {t \in DOMAIN d : d[t].petal # Unreadable}

FiniteInv == \A p \in DOMAIN disk : IsFiniteSet(DOMAIN disk[p])

NodesInv ==
    /\ list \in Seq(Tids) /\ IsInjective(list)
    /\ active = None => count = 0 /\ Real = {}
    /\ active # None =>
        /\ Real \subseteq DOMAIN Here
        /\ partial \/ Whole(Here) \subseteq Real
        /\ count = Cardinality(Real)
        /\ ~hasTargets => Real = {}

\* A name is asked for without a project.
AskingInv == ftype \in {"C_NEW_CONTEXTUAL", "C_LOAD_CONTEXTUAL"} => active = None

\* What pruning has before it: every one that has a directory is on the list.
RestInv ==
    Targets("targets del -n") => rest \in Seq(Tids) /\ ToSet(rest) \cap DOMAIN Here \subseteq Real

ListInv == FiniteInv /\ NodesInv /\ AskingInv /\ RestInv

LEMMA ListInvInit == Init => ListInv
<1> SUFFICES ASSUME Init PROVE ListInv  OBVIOUS
<1> USE DEF Init
<1>1. DOMAIN disk = {}  OBVIOUS
<1>2. FiniteInv  BY <1>1 DEF FiniteInv
<1>3. list \in Seq(Tids) /\ ToSet(list) = {} /\ IsInjective(list)
    BY DEF ToSet, IsInjective
<1>4. NodesInv  BY <1>3 DEF NodesInv, Real
<1>5. AskingInv /\ RestInv  BY DEF AskingInv, RestInv, Targets
<1> QED  BY <1>2, <1>4, <1>5 DEF ListInv

-------------------------------------------------------------------------------
(* Lists without repetition.                                               *)

\* A sequence made of a finite set by SetToSeqs has the members of the set, each once.
LEMMA SeqsOfSet ==
    ASSUME NEW S, NEW T, S \subseteq T, IsFiniteSet(S), NEW s \in SetToSeqs(S)
    PROVE  /\ s \in Seq(T) /\ IsInjective(s) /\ ToSet(s) = S
           /\ Len(s) = Cardinality(S) /\ (s # << >> <=> S # {})
<1> DEFINE n == Cardinality(S)
<1>1. n \in Nat  BY FS_CardinalityType
<1>2. s \in [1..n -> S] /\ \A i, j \in 1..n : i # j => s[i] # s[j]
    BY DEF SetToSeqs
<1>3. s \in Injection(1..n, S)  BY <1>2 DEF Injection, IsInjective
<1>4. Cardinality(1..n) = n  BY <1>1, FS_Interval
<1>5. s \in Surjection(1..n, S)  BY <1>3, <1>4, FS_Injection
<1>6. s \in Seq(T) /\ Len(s) = n /\ DOMAIN s = 1..n  BY <1>1, <1>2
<1>7. ToSet(s) = S  BY <1>2, <1>5, <1>6 DEF Surjection, ToSet
<1>8. IsInjective(s)  BY <1>2, <1>6 DEF IsInjective
<1>9. n = 0 <=> S = {}  BY FS_EmptySet
<1>10. s # << >> <=> n # 0  BY <1>1, <1>6
<1> QED  BY <1>6, <1>7, <1>8, <1>9, <1>10

LEMMA AppendNew ==
    ASSUME NEW T, NEW s \in Seq(T), IsInjective(s), NEW t \in T, t \notin ToSet(s)
    PROVE  /\ Append(s, t) \in Seq(T) /\ IsInjective(Append(s, t))
           /\ ToSet(Append(s, t)) = ToSet(s) \cup {t}
<1> DEFINE r == Append(s, t)
<1>1. /\ r \in Seq(T) /\ Len(r) = Len(s) + 1 /\ Len(s) \in Nat
      /\ DOMAIN s = 1..Len(s) /\ DOMAIN r = 1..Len(s) + 1
      /\ \A i \in 1..Len(s) : r[i] = s[i]
      /\ r[Len(s) + 1] = t
    BY AppendProperties
<1> HIDE DEF r
<1>2. \A i \in 1..Len(s) : s[i] # t  BY <1>1 DEF ToSet
<1>3. IsInjective(r)  BY <1>1, <1>2 DEF IsInjective
<1>4. ToSet(r) = ToSet(s) \cup {t}
  <2>1. ToSet(r) \subseteq ToSet(s) \cup {t}
    <3>1. \A i \in 1..Len(s) + 1 : i \in 1..Len(s) \/ i = Len(s) + 1  BY <1>1
    <3> QED  BY <1>1, <3>1 DEF ToSet
  <2>2. ToSet(s) \subseteq ToSet(r)
    <3>1. \A i \in 1..Len(s) : i \in 1..Len(s) + 1  BY <1>1
    <3> QED  BY <1>1, <3>1 DEF ToSet
  <2>3. t \in ToSet(r)
    <3>1. Len(s) + 1 \in 1..Len(s) + 1  BY <1>1
    <3> QED  BY <1>1, <3>1 DEF ToSet
  <2> QED  BY <2>1, <2>2, <2>3
<1> QED  BY <1>1, <1>3, <1>4 DEF r

\* The first node of a target, which is its only one, is unlinked.
LEMMA RemovedOne ==
    ASSUME NEW T, NEW s \in Seq(T), IsInjective(s), NEW t \in ToSet(s)
    PROVE  /\ RemoveFirst(s, t) \in Seq(T) /\ IsInjective(RemoveFirst(s, t))
           /\ ToSet(RemoveFirst(s, t)) = ToSet(s) \ {t}
<1>1. Len(s) \in Nat /\ DOMAIN s = 1..Len(s) /\ \A i \in 1..Len(s) : s[i] \in T
    OBVIOUS
<1>2. PICK k \in 1..Len(s) : s[k] = t  BY <1>1 DEF ToSet
<1>12. k \in Int /\ Len(s) \in Int /\ 1 <= k /\ k <= Len(s)  BY <1>1
<1> DEFINE I == {i \in 1..Len(s) : s[i] = t}
<1>3. I = {k}  BY <1>1, <1>2 DEF IsInjective
<1>4. Min(I) = k
  <2>1. \E x \in I : \A y \in I : x =< y  BY <1>1, <1>3
  <2> QED  BY <1>3, <2>1 DEF Min
<1>5. SelectInSeq(s, LAMBDA v : v = t) = k  BY <1>3, <1>4 DEF SelectInSeq
<1>6. RemoveFirst(s, t) = RemoveAt(s, k)  BY <1>2, <1>5 DEF RemoveFirst
<1> DEFINE a == SubSeq(s, 1, k - 1)
           b == SubSeq(s, k + 1, Len(s))
           r == a \o b
<1>7. /\ a \in Seq(T) /\ Len(a) = k - 1 /\ \A i \in 1..k - 1 : a[i] = s[i]
      /\ b \in Seq(T) /\ Len(b) = Len(s) - k /\ \A i \in 1..Len(s) - k : b[i] = s[k + i]
  <2>1. \A i \in 1..k - 1 : s[i] \in T  BY <1>1
  <2>2. \A i \in k + 1..Len(s) : s[i] \in T  BY <1>1
  <2>3. a \in Seq(T) /\ Len(a) = k - 1 /\ \A i \in 1..k - 1 : a[i] = s[i]
      BY <1>1, <2>1, SubSeqProperties
  <2>4. /\ b \in Seq(T) /\ Len(b) = IF k + 1 <= Len(s) THEN Len(s) - (k + 1) + 1 ELSE 0
        /\ \A i \in 1..Len(s) - (k + 1) + 1 : b[i] = s[k + 1 + i - 1]
      BY <1>1, <2>2, SubSeqProperties
  <2> HIDE DEF a, b
  <2>5. Len(b) = Len(s) - k
    <3>1. CASE k + 1 <= Len(s)  BY <1>1, <2>4, <3>1
    <3>2. CASE k = Len(s)
      <4>1. ~(k + 1 <= Len(s)) /\ Len(s) - k = 0  BY <1>1, <3>2
      <4> QED  BY <2>4, <4>1
    <3>3. k + 1 <= Len(s) \/ k = Len(s)  BY <1>12
    <3> QED  BY <3>1, <3>2, <3>3
  <2>6. \A i \in 1..Len(s) - k : i \in 1..Len(s) - (k + 1) + 1 /\ k + 1 + i - 1 = k + i
      BY <1>1
  <2>7. \A i \in 1..Len(s) - k : b[i] = s[k + i]  BY <2>4, <2>6
  <2> QED  BY <2>3, <2>4, <2>5, <2>7
<1> HIDE DEF a, b
<1>8. /\ r \in Seq(T) /\ Len(r) = Len(s) - 1 /\ DOMAIN r = 1..Len(s) - 1
      /\ \A i \in 1..Len(s) - 1 : r[i] = IF i < k THEN s[i] ELSE s[i + 1]
  <2>1. /\ r \in Seq(T) /\ Len(r) = Len(a) + Len(b)
        /\ \A i \in 1..Len(a) + Len(b) : r[i] = IF i <= Len(a) THEN a[i] ELSE b[i - Len(a)]
      BY <1>7, ConcatProperties
  <2> HIDE DEF r
  <2>2. \A i \in 1..Len(s) - 1 : r[i] = IF i < k THEN s[i] ELSE s[i + 1]
    <3> SUFFICES ASSUME NEW i \in 1..Len(s) - 1
                 PROVE  r[i] = IF i < k THEN s[i] ELSE s[i + 1]
        OBVIOUS
    <3>0. Len(a) = k - 1 /\ Len(b) = Len(s) - k /\ i \in 1..Len(a) + Len(b)
        BY <1>1, <1>7
    <3>1. CASE i < k
      <4>1. i <= Len(a) /\ i \in 1..k - 1  BY <1>1, <3>0, <3>1
      <4> QED  BY <1>7, <2>1, <3>0, <3>1, <4>1
    <3>2. CASE i >= k
      <4>0. ~(i <= Len(a))  BY <1>1, <3>0, <3>2
      <4>1. r[i] = b[i - (k - 1)]  BY <2>1, <3>0, <4>0
      <4>2. i - (k - 1) \in 1..Len(s) - k  BY <1>1, <3>2
      <4>3. b[i - (k - 1)] = s[k + (i - (k - 1))]  BY <1>7, <4>2
      <4>4. k + (i - (k - 1)) = i + 1  BY <1>1
      <4> QED  BY <1>1, <3>2, <4>1, <4>3, <4>4
    <3> QED  BY <1>1, <3>1, <3>2
  <2>3. Len(r) = Len(s) - 1  BY <1>1, <1>7, <2>1
  <2>4. DOMAIN r = 1..Len(r)  BY <2>1
  <2> QED  BY <2>1, <2>2, <2>3, <2>4
<1> HIDE DEF r
<1>9. IsInjective(r)  BY <1>1, <1>8 DEF IsInjective
<1>10. ToSet(r) = ToSet(s) \ {t}
  <2>1. ASSUME NEW i \in 1..Len(s) - 1 PROVE r[i] \in ToSet(s) \ {t}
    <3>1. CASE i < k  BY <1>1, <1>2, <1>8, <3>1 DEF ToSet, IsInjective
    <3>2. CASE i >= k
      <4>1. i + 1 \in 1..Len(s) /\ i + 1 # k  BY <1>1, <3>2
      <4> QED  BY <1>1, <1>2, <1>8, <3>2, <4>1 DEF ToSet, IsInjective
    <3> QED  BY <1>1, <3>1, <3>2
  <2>2. ASSUME NEW i \in 1..Len(s), s[i] # t PROVE s[i] \in ToSet(r)
    <3>1. CASE i < k
      <4>1. i \in 1..Len(s) - 1 /\ r[i] = s[i]  BY <1>1, <1>8, <3>1
      <4> QED  BY <1>8, <4>1 DEF ToSet
    <3>2. CASE i > k
      <4>1. i - 1 \in 1..Len(s) - 1 /\ ~(i - 1 < k) /\ (i - 1) + 1 = i  BY <1>1, <3>2
      <4>2. r[i - 1] = s[i]  BY <1>8, <4>1
      <4> QED  BY <1>8, <4>1, <4>2 DEF ToSet
    <3>3. i # k  BY <1>2, <2>2
    <3> QED  BY <1>1, <3>1, <3>2, <3>3
  <2>3. ToSet(r) \subseteq ToSet(s) \ {t}  BY <1>8, <2>1 DEF ToSet
  <2>4. ToSet(s) \ {t} \subseteq ToSet(r)  BY <1>1, <2>2 DEF ToSet
  <2> QED  BY <2>3, <2>4
<1>11. RemoveFirst(s, t) = r  BY <1>6 DEF RemoveAt, r, a, b
<1> QED  BY <1>8, <1>9, <1>10, <1>11

-------------------------------------------------------------------------------
(* What the steps make of the list and the directories.                    *)

NodesOk == FiniteInv /\ NodesInv

LEMMA NodesUnchanged ==
    ASSUME NodesOk, UNCHANGED <<disk, project>>
    PROVE  NodesOk'
<1>1. Real' = Real /\ Here' = Here  BY DEF Real, OnDisk, Here, project
<1> QED  BY <1>1 DEF NodesOk, FiniteInv, NodesInv, project

LEMMA EntryDomains ==
    ASSUME active \in DOMAIN disk, NEW t, NEW e, SetEntry(t, e), UNCHANGED active
    PROVE  /\ DOMAIN disk' = DOMAIN disk /\ Here' = With(Here, t, e)
           /\ \A p \in DOMAIN disk : p # active => disk'[p] = disk[p]
           /\ OnDisk' = OnDisk \cup {t}
           /\ FiniteInv => FiniteInv'
<1>1. /\ DOMAIN disk' = DOMAIN disk
      /\ \A p \in DOMAIN disk : disk'[p] = IF p = active THEN With(Here, t, e) ELSE disk[p]
    BY DEF SetEntry, Here
<1>2. DOMAIN With(Here, t, e) = DOMAIN Here \cup {t}  BY DEF With
<1>3. Here' = With(Here, t, e)  BY <1>1 DEF Here
<1>4. \A p \in DOMAIN disk :
            DOMAIN disk'[p] = IF p = active THEN DOMAIN disk[p] \cup {t} ELSE DOMAIN disk[p]
    BY <1>1, <1>2 DEF Here
<1>5. OnDisk' = OnDisk \cup {t}
  <2>1. \A u : u \in OnDisk' <=> \E p \in DOMAIN disk : u \in DOMAIN disk'[p]
      BY <1>1 DEF OnDisk
  <2>2. \A u : u \in OnDisk <=> \E p \in DOMAIN disk : u \in DOMAIN disk[p]
      BY DEF OnDisk
  <2> QED  BY <1>4, <2>1, <2>2
<1>6. FiniteInv => FiniteInv'
  <2> SUFFICES ASSUME FiniteInv, NEW p \in DOMAIN disk' PROVE IsFiniteSet(DOMAIN disk'[p])
      BY DEF FiniteInv
  <2>1. IsFiniteSet(DOMAIN disk[p])  BY <1>1 DEF FiniteInv
  <2>2. IsFiniteSet(DOMAIN disk[p] \cup {t})  BY <2>1, FS_AddElement
  <2>3. DOMAIN disk'[p] \in {DOMAIN disk[p] \cup {t}, DOMAIN disk[p]}  BY <1>1, <1>4
  <2> QED  BY <2>1, <2>2, <2>3
<1> QED  BY <1>1, <1>3, <1>5, <1>6

\* A file of a target is written or removed: one that becomes readable is on the list.
LEMMA EntryRewritten ==
    ASSUME NodesOk, active # None, active \in DOMAIN disk, NEW t \in DOMAIN Here, NEW e,
           SetEntry(t, e), UNCHANGED project,
           e.petal # Unreadable => t \in Whole(Here) \cup Real
    PROVE  NodesOk' /\ Real' = Real /\ DOMAIN Here' = DOMAIN Here
<1>1. UNCHANGED <<active, hasTargets, count, list, partial>>  BY DEF project
<1>2. /\ DOMAIN disk' = DOMAIN disk /\ Here' = With(Here, t, e)
      /\ OnDisk' = OnDisk \cup {t} /\ FiniteInv'
    BY <1>1, EntryDomains DEF NodesOk
<1>3. t \in OnDisk  BY DEF OnDisk, Here
<1>4. Real' = Real  BY <1>1, <1>2, <1>3 DEF Real
<1>5. /\ DOMAIN Here' = DOMAIN Here
      /\ \A u \in DOMAIN Here : Here'[u] = IF u = t THEN e ELSE Here[u]
    BY <1>2 DEF With
<1>6. Whole(Here)' \subseteq Whole(Here) \cup Real
  <2> DEFINE next == Here'
  <2>1. DOMAIN next = DOMAIN Here /\ \A u \in DOMAIN Here : next[u] = IF u = t THEN e ELSE Here[u]
      BY <1>5
  <2> HIDE DEF next
  <2>2. Whole(next) \subseteq Whole(Here) \cup Real  BY <2>1 DEF Whole
  <2> QED  BY <2>2 DEF next, Whole
<1>7. NodesInv'  BY <1>1, <1>4, <1>5, <1>6 DEF NodesOk, NodesInv
<1> QED  BY <1>2, <1>4, <1>5, <1>7 DEF NodesOk

LEMMA RealFinite ==
    ASSUME NodesOk, active # None, active \in DOMAIN disk
    PROVE  IsFiniteSet(Real) /\ Cardinality(Real) \in Nat
<1>1. IsFiniteSet(DOMAIN Here)  BY DEF NodesOk, FiniteInv, Here
<1>2. Real \subseteq DOMAIN Here  BY DEF NodesOk, NodesInv
<1> QED  BY <1>1, <1>2, FS_Subset, FS_CardinalityType

\* targets_add_target, with and without its directory.
LEMMA NodeAdded ==
    ASSUME NodesOk, active # None, active \in DOMAIN disk,
           NEW t \in Tids, t \notin ToSet(list) \cup OnDisk, NEW e,
           list' = Append(list, t), UNCHANGED <<active, partial>>,
           \/ SetEntry(t, e) /\ count' = count + 1 /\ hasTargets' = TRUE
           \/ UNCHANGED <<disk, count, hasTargets>>
    PROVE  NodesOk'
<1>1. list' \in Seq(Tids) /\ IsInjective(list') /\ ToSet(list') = ToSet(list) \cup {t}
    BY AppendNew DEF NodesOk, NodesInv
<1>2. CASE SetEntry(t, e) /\ count' = count + 1 /\ hasTargets' = TRUE
  <2>1. Here' = With(Here, t, e) /\ OnDisk' = OnDisk \cup {t} /\ FiniteInv'
      BY <1>2, EntryDomains DEF NodesOk
  <2>2. Real' = Real \cup {t} /\ t \notin Real  BY <1>1, <2>1 DEF Real
  <2>3. Cardinality(Real') = Cardinality(Real) + 1
      BY <2>2, RealFinite, FS_AddElement
  <2>4. DOMAIN Here' = DOMAIN Here \cup {t} /\ \A u \in DOMAIN Here \ {t} : Here'[u] = Here[u]
      BY <2>1 DEF With
  <2>5. Whole(Here)' \subseteq Whole(Here) \cup {t}  BY <2>4 DEF Whole
  <2>6. NodesInv'  BY <1>1, <1>2, <2>2, <2>3, <2>4, <2>5 DEF NodesOk, NodesInv
  <2> QED  BY <2>1, <2>6 DEF NodesOk
<1>3. CASE UNCHANGED <<disk, count, hasTargets>>
  <2>1. Here' = Here /\ OnDisk' = OnDisk  BY <1>3 DEF Here, OnDisk
  <2>2. Real' = Real  BY <1>1, <2>1 DEF Real
  <2>3. NodesInv'  BY <1>1, <1>3, <2>1, <2>2 DEF NodesOk, NodesInv
  <2> QED  BY <1>3, <2>3 DEF NodesOk, FiniteInv
<1> QED  BY <1>2, <1>3

\* targets_delete_by_tid of a target on the list.
LEMMA NodeDeleted ==
    ASSUME NodesOk, active # None, active \in DOMAIN disk, NEW t \in Real, Deleted(t),
           UNCHANGED <<active, hasTargets, partial>>
    PROVE  /\ NodesOk' /\ Real' = Real \ {t} /\ DOMAIN Here' = DOMAIN Here \ {t}
<1>1. list' \in Seq(Tids) /\ IsInjective(list') /\ ToSet(list') = ToSet(list) \ {t}
    BY RemovedOne DEF NodesOk, NodesInv, Deleted, Real
<1>2. /\ DOMAIN disk' = DOMAIN disk
      /\ \A p \in DOMAIN disk : disk'[p] = IF p = active THEN Dropped(Here, t) ELSE disk[p]
    BY DEF Deleted, Here
<1>3. /\ Here' = Dropped(Here, t) /\ DOMAIN Here' = DOMAIN Here \ {t}
      /\ \A u \in DOMAIN Here' : Here'[u] = Here[u]
  <2>1. Here' = Dropped(Here, t)  BY <1>2 DEF Here
  <2> QED  BY <2>1 DEF Dropped
<1>4. \A p \in DOMAIN disk :
            DOMAIN disk'[p] = IF p = active THEN DOMAIN disk[p] \ {t} ELSE DOMAIN disk[p]
    BY <1>2 DEF Dropped, Here
<1>5. OnDisk \ {t} \subseteq OnDisk' /\ OnDisk' \subseteq OnDisk
  <2>1. \A u : u \in OnDisk' <=> \E p \in DOMAIN disk : u \in DOMAIN disk'[p]
      BY <1>2 DEF OnDisk
  <2>2. \A u : u \in OnDisk <=> \E p \in DOMAIN disk : u \in DOMAIN disk[p]
      BY DEF OnDisk
  <2> QED  BY <1>4, <2>1, <2>2
<1>6. Real' = Real \ {t}  BY <1>1, <1>5 DEF Real
<1>7. FiniteInv'
  <2> SUFFICES ASSUME NEW p \in DOMAIN disk' PROVE IsFiniteSet(DOMAIN disk'[p])
      BY DEF FiniteInv
  <2>1. IsFiniteSet(DOMAIN disk[p])  BY <1>2 DEF NodesOk, FiniteInv
  <2>2. IsFiniteSet(DOMAIN disk[p] \ {t})  BY <2>1, FS_RemoveElement
  <2>3. DOMAIN disk'[p] \in {DOMAIN disk[p] \ {t}, DOMAIN disk[p]}  BY <1>2, <1>4
  <2> QED  BY <2>1, <2>2, <2>3
<1>8. count' = Cardinality(Real')
  <2>1. Cardinality(Real') = Cardinality(Real) - 1  BY <1>6, RealFinite, FS_RemoveElement
  <2>2. Cardinality(Real') \in Nat
      BY <1>6, RealFinite, FS_RemoveElement, FS_CardinalityType
  <2>3. count = Cardinality(Real) /\ Cardinality(Real) \in Nat
      BY RealFinite DEF NodesOk, NodesInv
  <2> QED  BY <2>1, <2>2, <2>3 DEF Deleted
<1>9. Whole(Here)' \subseteq Whole(Here) \ {t}  BY <1>3 DEF Whole
<1>10. NodesInv'  BY <1>1, <1>3, <1>6, <1>8, <1>9 DEF NodesOk, NodesInv
<1> QED  BY <1>3, <1>6, <1>7, <1>10 DEF NodesOk

\* projects_try_new and projects_try_load, from no project.
LEMMA ProjectOpened ==
    ASSUME NodesOk, DiskInv, active = None, NEW p, p # None, NEW cmd, Tries(cmd, p)
    PROVE  NodesOk'
<1>1. count = 0 /\ Real = {} /\ list \in Seq(Tids) /\ IsInjective(list)
    BY DEF NodesOk, NodesInv
<1>2. CASE UNCHANGED <<disk, project>>  BY <1>2, NodesUnchanged
<1>3. CASE /\ p \notin DOMAIN disk /\ disk' = With(disk, p, << >>)
           /\ active' = p /\ hasTargets' = FALSE /\ partial' = FALSE
           /\ UNCHANGED <<count, list>>
  <2>1. /\ DOMAIN disk' = DOMAIN disk \cup {p} /\ DOMAIN disk'[p] = {}
        /\ \A q \in DOMAIN disk : disk'[q] = disk[q]
      BY <1>3 DEF With
  <2>2. OnDisk' = OnDisk
    <3>1. \A u : u \in OnDisk' <=> \E q \in DOMAIN disk' : u \in DOMAIN disk'[q]
        BY DEF OnDisk
    <3>2. \A u : u \in OnDisk <=> \E q \in DOMAIN disk : u \in DOMAIN disk[q]
        BY DEF OnDisk
    <3> QED  BY <1>3, <2>1, <3>1, <3>2
  <2>3. Real' = {}  BY <1>1, <1>3, <2>2 DEF Real
  <2>4. DOMAIN Here' = {}  BY <1>3, <2>1 DEF Here
  <2>5. Whole(Here)' = {}  BY <2>4 DEF Whole
  <2>6. NodesInv'  BY <1>1, <1>3, <2>3, <2>5, FS_EmptySet DEF NodesInv
  <2>7. FiniteInv'  BY <2>1, FS_EmptySet DEF NodesOk, FiniteInv
  <2> QED  BY <2>6, <2>7 DEF NodesOk
<1>4. ASSUME p \in DOMAIN disk, NEW some \in SUBSET Whole(disk[p]),
             NEW found \in SetToSeqs(some), list' = Linked(found),
             count' = count + Len(found), hasTargets' = (found # << >>),
             partial' = (some # Whole(disk[p])), active' = p, UNCHANGED disk
      PROVE  NodesOk'
  <2>1. some \subseteq DOMAIN disk[p]  BY DEF Whole
  <2>2. IsFiniteSet(some)  BY <1>4, <2>1, FS_Subset DEF NodesOk, FiniteInv
  <2>3. some \subseteq Tids  BY <1>4, <2>1 DEF DiskInv
  <2>4. /\ found \in Seq(Tids) /\ IsInjective(found) /\ ToSet(found) = some
        /\ Len(found) = Cardinality(some) /\ (found # << >> <=> some # {})
      BY <2>2, <2>3, SeqsOfSet
  <2>5. OnDisk' = OnDisk /\ Here' = disk[p]  BY <1>4 DEF OnDisk, Here
  <2>6. some \subseteq OnDisk  BY <1>4, <2>1 DEF OnDisk
  <2>7. list' \in Seq(Tids) /\ IsInjective(list') /\ Real' = some
    <3>1. CASE found = << >>  BY <1>1, <1>4, <2>4, <2>5, <3>1 DEF Linked, Real
    <3>2. CASE found # << >>  BY <1>4, <2>4, <2>5, <2>6, <3>2 DEF Linked, Real
    <3> QED  BY <3>1, <3>2
  <2>8. count' = Cardinality(Real')
      BY <1>1, <1>4, <2>2, <2>4, <2>7, FS_CardinalityType
  <2>9. partial' \/ Whole(Here)' \subseteq Real'  BY <1>4, <2>5, <2>7 DEF Whole
  <2>10. Real' \subseteq DOMAIN Here'  BY <2>1, <2>5, <2>7
  <2>11. NodesInv'
      BY <1>4, <2>4, <2>7, <2>8, <2>9, <2>10 DEF NodesInv
  <2> QED  BY <1>4, <2>11 DEF NodesOk, FiniteInv
<1>5. CASE TryNew(p)  BY <1>2, <1>3, <1>5 DEF TryNew
<1>6. CASE TryLoad(p)
  <2>1. CASE UNCHANGED <<disk, project, network>>  BY <1>2, <2>1
  <2>2. CASE /\ p \in DOMAIN disk
             /\ \E some \in SUBSET Whole(disk[p]) : \E found \in SetToSeqs(some) :
                    /\ list' = Linked(found)
                    /\ count' = count + Len(found) /\ hasTargets' = (found # << >>)
                    /\ partial' = (some # Whole(disk[p]))
             /\ active' = p /\ UNCHANGED disk
      BY <1>4, <2>2
  <2> QED  BY <1>6, <2>1, <2>2 DEF TryLoad, Whole
<1> QED  BY <1>5, <1>6 DEF Tries

\* projects_try_unload and a new process.
LEMMA ProjectClosed ==
    ASSUME NodesOk, active' = None, count' = 0, UNCHANGED disk,
           list' = << >> \/ (list' = list /\ (active # None => ~hasTargets))
    PROVE  NodesOk'
<1>1. OnDisk' = OnDisk  BY DEF OnDisk
<1>2. list' \in Seq(Tids) /\ IsInjective(list') /\ Real' = {}
  <2>1. CASE list' = << >>  BY <2>1 DEF Real, ToSet, IsInjective
  <2>2. CASE list' = list /\ (active # None => ~hasTargets)
      BY <1>1, <2>2 DEF NodesOk, NodesInv, Real
  <2> QED  BY <2>1, <2>2
<1> QED  BY <1>2 DEF NodesOk, NodesInv, FiniteInv

\* A target is gone, or is not.
Less(t) == \E gone \in SUBSET {t} : Real' = Real \ gone /\ DOMAIN Here' = DOMAIN Here \ gone

LEMMA DeletedOk ==
    ASSUME NodesOk, active # None, active \in DOMAIN disk, NEW t \in Real, DeleteByTid(t),
           UNCHANGED <<active, hasTargets, partial>>
    PROVE  NodesOk' /\ Less(t)
<1>1. t \in DOMAIN Here  BY DEF NodesOk, NodesInv
<1>2. CASE Deleted(t)  BY <1>2, NodeDeleted DEF Less
<1>3. CASE ~Deleted(t)
  <2>1. UNCHANGED project  BY <1>1, <1>3 DEF DeleteByTid, project
  <2>2. PICK petal \in {Here[t].petal, Unreadable}, ports \in {Here[t].ports, FALSE} :
                SetEntry(t, [petal |-> petal, ports |-> ports,
                             answers |-> Here[t].answers \ IF ports THEN {} ELSE {"ports"}])
      BY <1>1, <1>3 DEF DeleteByTid
  <2> DEFINE e == [petal |-> petal, ports |-> ports,
                   answers |-> Here[t].answers \ IF ports THEN {} ELSE {"ports"}]
  <2>3. e.petal = petal /\ SetEntry(t, e)  BY <2>2
  <2> HIDE DEF e
  <2>4. NodesOk' /\ Real' = Real /\ DOMAIN Here' = DOMAIN Here
      BY <1>1, <2>1, <2>3, EntryRewritten
  <2>5. Real' = Real \ {} /\ DOMAIN Here' = DOMAIN Here \ {}  BY <2>4
  <2> QED  BY <2>4, <2>5 DEF Less
<1> QED  BY <1>2, <1>3

LEMMA HeadAndTail ==
    ASSUME NEW T, NEW s \in Seq(T), s # << >>
    PROVE  Head(s) \in ToSet(s) /\ ToSet(Tail(s)) \subseteq ToSet(s) /\ Tail(s) \in Seq(T)
<1>1. /\ Len(s) \in Nat /\ Len(s) >= 1 /\ DOMAIN s = 1..Len(s) /\ Head(s) = s[1]
    OBVIOUS
<1>2. /\ Tail(s) \in Seq(T) /\ DOMAIN Tail(s) = 1..Len(s) - 1
      /\ \A i \in 1..Len(s) - 1 : Tail(s)[i] = s[i + 1]
    BY <1>1, HeadTailProperties, LenProperties
<1>3. 1 \in 1..Len(s)  BY <1>1
<1>4. \A i \in 1..Len(s) - 1 : i + 1 \in 1..Len(s)  BY <1>1
<1>5. Head(s) \in ToSet(s)  BY <1>1, <1>3 DEF ToSet
<1>6. ToSet(Tail(s)) \subseteq ToSet(s)  BY <1>1, <1>2, <1>4 DEF ToSet
<1> QED  BY <1>2, <1>5, <1>6

LEMMA PruneOneOk ==
    ASSUME NodesOk, RestInv, active # None, active \in DOMAIN disk, PruneOne
    PROVE  NodesOk' /\ RestInv'
<1> DEFINE t == Head(rest)
<1>1. /\ UNCHANGED <<active, hasTargets, partial>> /\ Targets("targets del -n")
      /\ rest # << >> /\ rest' = Tail(rest)
    BY DEF PruneOne
<1>2. rest \in Seq(Tids) /\ ToSet(rest) \cap DOMAIN Here \subseteq Real
    BY <1>1 DEF RestInv
<1>3. t \in ToSet(rest) /\ ToSet(rest') \subseteq ToSet(rest) /\ rest' \in Seq(Tids)
    BY <1>1, <1>2, HeadAndTail
<1> HIDE DEF t
<1>4. ASSUME NodesOk', \/ Less(t)
                       \/ Real' = Real /\ DOMAIN Here' = DOMAIN Here
      PROVE  NodesOk' /\ RestInv'
    BY <1>2, <1>3, <1>4 DEF RestInv, Less
<1>5. CASE UNCHANGED <<disk, list, count, faults>>
  <2>1. NodesOk'  BY <1>1, <1>5, NodesUnchanged DEF project
  <2>2. Real' = Real /\ Here' = Here  BY <1>1, <1>5 DEF Real, OnDisk, Here
  <2> QED  BY <1>4, <2>1, <2>2
<1>6. ASSUME Readable(t) PROVE t \in Real  BY <1>2, <1>3, <1>6 DEF Readable
<1>7. CASE Readable(t) /\ (Deleted(t) \/ DeleteByTid(t))
    BY <1>1, <1>4, <1>6, <1>7, NodeDeleted, DeletedOk DEF Less
<1> QED  BY <1>5, <1>7 DEF PruneOne, t

LEMMA NodesStep == ShellInv /\ ListInv /\ [Next]_vars => NodesOk'
<1> SUFFICES ASSUME ShellInv, ListInv, [Next]_vars PROVE NodesOk'  OBVIOUS
<1> NodesOk  BY DEF ListInv, NodesOk
<1> DiskInv /\ ContextInv /\ MemoryInv  BY DEF ShellInv
<1>1. active # None => active \in DOMAIN disk  BY DEF DiskInv
<1>2. CASE Other \/ Help \/ NetworkDone \/ Tool \/ ReadCommand \/ Profile \/ ReadProfileName
           \/ EnterContext
    BY <1>2, NodesUnchanged DEF Other, Help, NetworkDone, Tool, ReadCommand, Profile,
                                ReadProfileName, EnterContext
<1>3. CASE Back \/ HelpOrTool \/ ToolPrompt \/ UNCHANGED vars
    BY <1>3, NodesUnchanged DEF Back, HelpOrTool, ToolPrompt, vars
<1>4. CASE NewOrLoad
  <2>1. CASE UNCHANGED <<disk, project>>  BY <2>1, NodesUnchanged
  <2>2. CASE active = None /\ line.arg # None /\ Tries(line.cmd, line.arg)
      BY <2>2, ProjectOpened
  <2> QED  BY <1>4, <2>1, <2>2 DEF NewOrLoad
<1>5. CASE ReadName
  <2>1. CASE UNCHANGED <<disk, project>>  BY <2>1, NodesUnchanged
  <2>2. active = None  BY <1>5 DEF ReadName, ListInv, AskingInv
  <2>3. \A p \in Projects : p # None  BY NoneAssumption
  <2> QED  BY <1>5, <2>1, <2>2, <2>3, ProjectOpened DEF ReadName
<1>6. CASE Unload
  <2>1. list' = << >> \/ (list' = list /\ ~hasTargets)  BY <1>6 DEF Unload, Freed
  <2> QED  BY <1>6, <2>1, ProjectClosed DEF Unload
<1>7. CASE Restart  BY <1>7, ProjectClosed DEF Restart, Fresh
<1>8. CASE PruneDone
  <2>1. Real' = Real /\ Here' = Here  BY <1>8 DEF PruneDone, Real, OnDisk, Here
  <2>2. active # None  BY <1>8 DEF PruneDone, Targets
  <2>3. count = 0 => Real = {}
      BY <1>1, <2>2, RealFinite, FS_EmptySet DEF NodesOk, NodesInv
  <2>4. UNCHANGED <<disk, active, count, list, partial>> /\ hasTargets' = (hasTargets /\ count # 0)
      BY <1>8 DEF PruneDone
  <2>5. ~hasTargets' => Real = {}  BY <2>2, <2>3, <2>4 DEF NodesOk, NodesInv
  <2>6. NodesInv'  BY <2>1, <2>2, <2>4, <2>5 DEF NodesOk, NodesInv
  <2> QED  BY <2>4, <2>6 DEF NodesOk, FiniteInv
<1>9. CASE AddTarget
  <2>1. active # None /\ UNCHANGED <<active, partial>>  BY <1>9 DEF AddTarget, Targets
  <2>2. CASE UNCHANGED <<disk, list, count, hasTargets, faults>>
      BY <2>1, <2>2, NodesUnchanged DEF project
  <2>3. ASSUME NEW t \in Tids \ (ToSet(list) \cup UNION {DOMAIN disk[p] : p \in DOMAIN disk}),
               list' = Append(list, t),
               \/ \E e : SetEntry(t, e) /\ count' = count + 1 /\ hasTargets' = TRUE
               \/ UNCHANGED <<disk, count, hasTargets>>
        PROVE  NodesOk'
      BY <1>1, <2>1, <2>3, NodeAdded DEF OnDisk
  <2> QED  BY <1>9, <2>2, <2>3 DEF AddTarget
<1>10. ASSUME NEW t \in Real, active # None, DeleteByTid(t),
              UNCHANGED <<active, hasTargets, partial>>
       PROVE  NodesOk'
    BY <1>1, <1>10, DeletedOk
<1>11. CASE DeleteTarget
  <2>1. active # None /\ UNCHANGED <<active, hasTargets, partial>>
      BY <1>11 DEF DeleteTarget, Targets
  <2>2. CASE UNCHANGED <<disk, list, count, faults>>
      BY <2>1, <2>2, NodesUnchanged DEF project
  <2>3. CASE line.arg \in ToSet(list) /\ DeleteByTid(line.arg)
    <3>1. CASE line.arg \in DOMAIN Here
      <4>1. line.arg \in Real  BY <1>1, <2>1, <2>3, <3>1 DEF Real, OnDisk, Here
      <4> QED  BY <1>10, <2>1, <2>3, <4>1
    <3>2. CASE line.arg \notin DOMAIN Here  BY <2>2, <2>3, <3>2 DEF DeleteByTid
    <3> QED  BY <3>1, <3>2
  <2> QED  BY <1>11, <2>2, <2>3 DEF DeleteTarget
<1>12. CASE PruneOne  BY <1>1, <1>12, PruneOneOk DEF ListInv, PruneOne, Targets
<1>13. CASE NetworkOne
  <2>1. active # None /\ UNCHANGED project
      BY <1>13 DEF NetworkOne, Admitted
  <2>2. CASE UNCHANGED disk  BY <2>1, <2>2, NodesUnchanged
  <2>3. ASSUME Readable(Head(rest)), NEW o, SetEntry(Head(rest), o.entry) PROVE NodesOk'
    <3>1. Head(rest) \in DOMAIN Here /\ Head(rest) \in Whole(Here)
        BY <2>3 DEF Readable, Whole
    <3> QED  BY <1>1, <2>1, <2>3, <3>1, EntryRewritten
  <2> QED  BY <1>13, <2>2, <2>3 DEF NetworkOne
<1>14. ASSUME ftype = "C_TARGETS_CONTEXTUAL"
       PROVE  active # None /\ target \in Real /\ target \in DOMAIN Here
    BY <1>1, <1>14 DEF ContextInv, MemoryInv, Real, OnDisk, Here
<1>15. CASE NetworkHere \/ SetIdentifier
  <2>1. ftype = "C_TARGETS_CONTEXTUAL" /\ UNCHANGED project
      BY <1>15 DEF NetworkHere, SetIdentifier, Turn
  <2>2. CASE UNCHANGED disk  BY <2>1, <2>2, NodesUnchanged
  <2>3. CASE \E e : SetEntry(target, e)
      BY <1>1, <1>14, <2>1, <2>3, EntryRewritten
  <2> QED  BY <1>15, <2>2, <2>3 DEF NetworkHere, SetIdentifier
<1> QED  BY <1>2, <1>3, <1>4, <1>5, <1>6, <1>7, <1>8, <1>9, <1>11, <1>12, <1>13, <1>15
         DEF Next, Execute, Read

LEMMA AskingStep == ShellInv /\ ListInv /\ [Next]_vars => AskingInv'
<1> SUFFICES ASSUME ShellInv, ListInv, [Next]_vars PROVE AskingInv'  OBVIOUS
<1> AskingInv /\ ContextInv  BY DEF ListInv, ShellInv
<1> USE DEF AskingInv
<1>1. CASE Other \/ Help \/ NetworkDone \/ Tool \/ Profile \/ ReadProfileName \/ EnterContext
           \/ AddTarget \/ DeleteTarget \/ PruneDone
    BY <1>1 DEF Other, Help, NetworkDone, Tool, Profile, ReadProfileName, EnterContext,
                AddTarget, DeleteTarget, PruneDone, Goes, ContextInv
<1>2. CASE ReadCommand
  <2>1. PICK l \in DefaultLines : ftype' = Command(l.cmd)  BY <1>2 DEF ReadCommand
  <2>2. l.cmd \in {"help", "unload", "tool", "other", "targets del -n", "targets", "new",
                   "load", "targets add", "targets del", "targets <TID>", "profile set",
                   "profile load", "ping", "resolve", "scan", "book"}
      BY DEF DefaultLines, NetworkLines
  <2>3. ftype' \notin {"C_NEW_CONTEXTUAL", "C_LOAD_CONTEXTUAL"}
      BY <2>1, <2>2 DEF Command
  <2> QED  BY <2>3
<1>3. CASE NewOrLoad  BY <1>3 DEF NewOrLoad, project
<1>4. CASE Unload \/ Restart \/ ReadName  BY <1>4 DEF Unload, Restart, Fresh, ReadName
<1>5. CASE ToolPrompt  BY <1>5 DEF ToolPrompt
<1>6. CASE NetworkHere \/ SetIdentifier \/ Back \/ HelpOrTool
    BY <1>6 DEF NetworkHere, SetIdentifier, Back, BackTo, HelpOrTool, Turn
<1>7. CASE PruneOne \/ NetworkOne \/ UNCHANGED vars
    BY <1>7 DEF PruneOne, NetworkOne, Midway, input, project, vars
<1> QED  BY <1>1, <1>2, <1>3, <1>4, <1>5, <1>6, <1>7 DEF Next, Execute, Read

LEMMA RestStep == ShellInv /\ ListInv /\ [Next]_vars => RestInv'
<1> SUFFICES ASSUME ShellInv, ListInv, [Next]_vars PROVE RestInv'  OBVIOUS
<1> NodesOk /\ RestInv /\ ContextInv /\ DiskInv  BY DEF ListInv, NodesOk, ShellInv
<1>1. ASSUME ftype' # "C_TARGETS" PROVE RestInv'  BY <1>1 DEF RestInv, Targets
<1>2. CASE Other \/ Help \/ NetworkDone \/ Tool \/ Profile \/ ReadProfileName \/ EnterContext
           \/ AddTarget \/ DeleteTarget \/ PruneDone
    BY <1>1, <1>2 DEF Other, Help, NetworkDone, Tool, Profile, ReadProfileName, EnterContext,
                      AddTarget, DeleteTarget, PruneDone, Goes, ContextInv
<1>3. CASE ReadCommand
  <2>1. PICK l \in DefaultLines :
            /\ line' = l
            /\ rest' = IF l \in NetworkLines \/ l.cmd = "targets del -n" THEN list ELSE << >>
      BY <1>3 DEF ReadCommand
  <2>2. UNCHANGED <<disk, active, list>>  BY <1>3 DEF ReadCommand, project
  <2>3. Real' = Real /\ Here' = Here  BY <2>2 DEF Real, OnDisk, Here
  <2>4. ASSUME Targets("targets del -n")'
        PROVE  rest' \in Seq(Tids) /\ ToSet(rest') \cap DOMAIN Here' \subseteq Real'
    <3>1. active # None /\ rest' = list  BY <2>1, <2>2, <2>4 DEF Targets
    <3>2. active \in DOMAIN disk /\ list \in Seq(Tids)  BY <3>1 DEF DiskInv, NodesOk, NodesInv
    <3>3. DOMAIN Here \subseteq OnDisk  BY <3>2 DEF OnDisk, Here
    <3> QED  BY <2>3, <3>1, <3>2, <3>3 DEF Real
  <2> QED  BY <2>4 DEF RestInv
<1>4. CASE NewOrLoad \/ Unload \/ Restart \/ ReadName \/ ToolPrompt
    BY <1>1, <1>4, NoneAssumption
       DEF NewOrLoad, Unload, Restart, Fresh, ReadName, ToolPrompt, ShellInv, LineInv
<1>5. CASE NetworkHere \/ SetIdentifier \/ Back \/ HelpOrTool
    BY <1>1, <1>5 DEF NetworkHere, SetIdentifier, Back, BackTo, HelpOrTool, Turn
<1>6. CASE NetworkOne
    BY <1>1, <1>6 DEF NetworkOne, OverTargets, Midway, input
<1>7. CASE PruneOne
    BY <1>7, PruneOneOk DEF PruneOne, Targets, DiskInv
<1>8. CASE UNCHANGED vars
  <2>1. UNCHANGED <<disk, active, list, rest, ftype, line>>
      BY <1>8 DEF vars, input, project
  <2>2. Real' = Real /\ Here' = Here  BY <2>1 DEF Real, OnDisk, Here
  <2> QED  BY <2>1, <2>2 DEF RestInv, Targets
<1> QED  BY <1>2, <1>3, <1>4, <1>5, <1>6, <1>7, <1>8 DEF Next, Execute, Read

LEMMA ListInvAlways == Spec => []ListInv
<1>1. ShellInv /\ ListInv /\ [Next]_vars => ListInv'
    BY NodesStep, AskingStep, RestStep DEF ListInv, NodesOk
<1> QED  BY <1>1, ListInvInit, ShellInvAlways, PTL DEF Spec

\* The list in memory is the targets of the active project, whatever projects were made,
\* loaded and left before and whatever failed: no target is in it twice; what is in it is
\* a target of this project, or a node whose directory could not be made; a target whose
\* petal can be read is in it, unless the load ran out of memory; it is counted, and the
\* commands that need targets are refused only when there is none.
THEOREM ListTrue == Spec => []ListIsProject
<1>1. ListInv => ListIsProject
  <2>1. ToSet(list) \ Ghosts = Real  BY DEF Ghosts, Real
  <2> QED  BY <2>1 DEF ListInv, NodesInv, ListIsProject, Whole
<1> QED  BY <1>1, ListInvAlways, PTL
===============================================================================
