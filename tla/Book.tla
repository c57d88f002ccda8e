---------------------------------- MODULE Book ---------------------------------
(***************************************************************************)
(* One target's Book sessions, one after the other: books_run_one, the     *)
(* session it owns (book_session.c), the native calls of the Lua program   *)
(* that reach it (book_native.c, book_tls.c), the staged output and its    *)
(* commit (book_output.c, book_persist.c).  The Lua program is any         *)
(* sequence of those calls; libnosix is a queue of captured frames and the *)
(* outcome of each call; the file system may fail or lose what was not     *)
(* synced.                                                                 *)
(***************************************************************************)
EXTENDS Naturals, Sequences, FiniteSets

CONSTANTS
    MaxSessions,   \* bound: sessions started
    MaxOps,        \* bound: native calls a Lua program survives (the instruction limit)
    MaxCrashes,    \* bound: crashes of the process
    RecordLimit,   \* BOOK_OUTPUT_RECORD_LIMIT
    SessionLimit,  \* limit_max_capture_bytes_per_tx
    RuntimeLimit,  \* limit_max_capture_bytes_total
    HeaderBytes,   \* BOOK_PCAP_HEADER_SIZE
    FrameBytes,    \* a packet record
    DrainLimit,    \* BOOK_CAPTURE_DRAIN_LIMIT
    RingCap        \* bound: frames waiting in libnosix

ASSUME BookConstants ==
    /\ {MaxSessions, MaxOps, MaxCrashes, RecordLimit, SessionLimit, RuntimeLimit,
        FrameBytes, RingCap} \subseteq Nat
    /\ {HeaderBytes, DrainLimit} \subseteq Nat \ {0}

VARIABLES
    pc,         \* where the program stands
    ret,        \* where it goes on after a network call and its drain
    s,          \* BOOK_SESSION
    sid,        \* its session_id
    ops,        \* native calls made so far
    expired,    \* the monotonic clock has passed execution_deadline_ns
    ring,       \* frames captured by libnosix and not read yet
    conns,      \* connections opened to this target and port so far, 2 for more
    reads,      \* reads of the drain in progress
    drained,    \* books_session_capture_drain returned NORMAL
    runtime,    \* BOOK_CAPTURE_RUNTIME_BYTES
    pcaps,      \* sessions whose PCAP file exists
    scan,       \* [mem, disk]: session of LAST_SCAN_NS in the petal and in its file
    temp,       \* the temporary output file: "none", "empty", "written", "synced", "renamed"
    out,        \* what BOOKNAME.out holds
    survivors,  \* what BOOKNAME.out may hold after a crash
    crashes,
    seen        \* history: [wire, torn, kept], see below

vars == <<pc, ret, s, sid, ops, expired, ring, conns, reads, drained, runtime, pcaps,
          scan, temp, out, survivors, crashes, seen>>

Terminations == {"NONE", "COMPLETE", "BAILED", "RUNTIME_ERROR", "LIMIT_ERROR",
                 "INTERRUPTED", "CAPTURE_SETUP_ERROR", "OUTPUT_COMMIT_ERROR"}

\* What a captured frame is: traffic of the session's connection, of an earlier
\* connection to the same target and port, ARP, ICMP or NDP about the target, or none
\* of these.
Frames == {"own", "old", "support", "other"}

Places == {"idle", "header", "prepared", "lua", "open", "opened", "io", "shaken", "drain",
           "destroy", "gate", "evidence", "close", "closed", "mark", "commit"}

\* What the petal's file holds when it was truncated and not written whole.
Broken == MaxSessions + 1

\* A result file: the session it comes from, its records, and whether all of it is there.
Content == [by : 0 .. MaxSessions, recs : 0 .. RecordLimit, whole : BOOLEAN]

Session == [term : Terminations, active : BOOLEAN, pcap : BOOLEAN, stream : BOOLEAN,
            dgram : BOOLEAN, tls : BOOLEAN, conn : BOOLEAN, local : {"none", "own", "old"},
            packets : Nat, bytes : Nat, acted : BOOLEAN, staged : 0 .. RecordLimit]

NoSession == [term |-> "NONE", active |-> FALSE, pcap |-> FALSE, stream |-> FALSE,
              dgram |-> FALSE, tls |-> FALSE, conn |-> FALSE, local |-> "none",
              packets |-> 0, bytes |-> 0, acted |-> FALSE, staged |-> 0]

\* seen.wire: the session has asked libnosix for a network operation.
\* seen.torn: when a packet record was lost to a write error: "no", before the program
\*   had ended ("running") or after it ("ended").
\* seen.kept: bytes of the PCAP files this process has left behind.
NothingSeen == [wire |-> FALSE, torn |-> "no", kept |-> 0]

Init ==
    /\ pc = "idle" /\ ret = "idle" /\ s = NoSession /\ sid = 0 /\ ops = 0
    /\ expired = FALSE /\ ring = << >> /\ conns = 0 /\ reads = 0 /\ drained = TRUE
    /\ runtime = 0 /\ pcaps = {} /\ scan = [mem |-> 0, disk |-> 0] /\ temp = "none"
    /\ out = [by |-> 0, recs |-> 0, whole |-> TRUE] /\ survivors = {out}
    /\ crashes = 0 /\ seen = NothingSeen

disk   == <<scan, temp, out, survivors>>
wiring == <<expired, ring, conns>>
ledger == <<runtime, pcaps>>
-------------------------------------------------------------------------------
(* Session helpers. *)

\* books_capture_limit_allows
LimitAllows(n) ==
    /\ SessionLimit > 0 => s.bytes + n <= SessionLimit
    /\ RuntimeLimit > 0 => runtime + n <= RuntimeLimit

\* Mutant: a limit does not shut the gate by itself.
NetworkAllowed_Limit == s.active /\ s.pcap /\ ~expired

\* books_session_network_allowed; its two tests of the state hold wherever it is called.
NetworkAllowed == s.active /\ s.pcap /\ ~expired /\ s.term # "LIMIT_ERROR"

\* Never erase a termination that is already there.
OrElse(term) == IF s.term = "NONE" THEN term ELSE s.term

Goto(place) == pc' = place

\* The callers that do more with the drain's result than hand it to the Lua program.
Judges == {"opened", "evidence"}

\* books_session_capture_drain called with the session in state t: its own early returns.
BeginDrain(t, after) ==
    /\ s' = t
    /\ IF t.pcap /\ t.term # "LIMIT_ERROR"
       THEN Goto("drain") /\ ret' = after /\ UNCHANGED <<reads, drained>>
       ELSE Goto(after) /\ ret' = "idle" /\ drained' = (after \notin Judges) /\ UNCHANGED reads

EndDrain(ok) ==
    /\ Goto(ret) /\ drained' = (ok \/ ret \notin Judges)
    /\ ret' = "idle" /\ reads' = 0

\* The session record is gone; forgotten are its clock and its program.
Forget == s' = NoSession /\ ops' = 0 /\ expired' = FALSE /\ Goto("idle")

\* The end of a session whose PCAP stays.
EndSession == Forget /\ seen' = [NothingSeen EXCEPT !.kept = seen.kept + s.bytes]
-------------------------------------------------------------------------------
(* books_session_prepare *)

\* A new session, of a target that could be loaded: its PCAP file is created, or cannot be.
Prepare ==
    /\ pc = "idle" /\ sid < MaxSessions /\ scan.mem # Broken
    /\ sid' = sid + 1
    /\ \/ UNCHANGED <<pc, s, pcaps>>
       \/ /\ Goto("header")
          /\ s' = [NoSession EXCEPT !.pcap = TRUE]
          /\ pcaps' = pcaps \union {sid'}
    /\ UNCHANGED <<ret, ops, wiring, reads, drained, runtime, disk, crashes, seen>>

\* Mutant: the bytes of the discarded file stay on the account.
SetupDiscard_Charged(n) ==
    /\ pcaps' = pcaps \ {sid}
    /\ Forget /\ UNCHANGED runtime

\* books_capture_setup_discard, of a session that has accounted for n bytes
SetupDiscard(n) ==
    /\ pcaps' = pcaps \ {sid}
    /\ runtime' = IF n <= runtime THEN runtime - n ELSE 0
    /\ Forget

\* The header does not fit the budget or cannot be written.
HeaderFails ==
    /\ pc = "header" /\ s.bytes = 0
    /\ SetupDiscard(0)
    /\ UNCHANGED <<ret, sid, ring, conns, reads, drained, disk, crashes, seen>>

HeaderWritten ==
    /\ pc = "header" /\ s.bytes = 0
    /\ LimitAllows(HeaderBytes)
    /\ s' = [s EXCEPT !.bytes = HeaderBytes]
    /\ runtime' = runtime + HeaderBytes
    /\ UNCHANGED <<pc, ret, sid, ops, wiring, reads, drained, pcaps, disk, crashes, seen>>

\* NOSIX is offline or the capture cannot be reset.
ResetFails ==
    /\ pc = "header" /\ s.bytes > 0
    /\ SetupDiscard(s.bytes)
    /\ UNCHANGED <<ret, sid, ring, conns, reads, drained, disk, crashes, seen>>

\* nosix_capture_reset: what was captured before the session is gone.
CaptureReset ==
    /\ pc = "header" /\ s.bytes > 0
    /\ s' = [s EXCEPT !.active = TRUE]
    /\ ring' = << >>
    /\ Goto("prepared")
    /\ UNCHANGED <<ret, sid, ops, expired, conns, reads, drained, ledger, disk, crashes,
                   seen>>
-------------------------------------------------------------------------------
(* The environment of a session. *)

InSession == pc \notin {"idle", "header", "mark", "commit"}

\* The hard deadline of the session passes, between any two steps of it.
Expire ==
    /\ InSession /\ ~expired
    /\ expired' = TRUE
    /\ UNCHANGED <<pc, ret, s, sid, ops, ring, conns, reads, drained, ledger, disk, crashes,
                   seen>>

\* libnosix captures a frame.
Arrive(f) ==
    /\ InSession /\ Len(ring) < RingCap
    /\ f = "own" => s.conn
    /\ f = "old" => conns > (IF s.conn THEN 1 ELSE 0)
    /\ ring' = Append(ring, f)
    /\ UNCHANGED <<pc, ret, s, sid, ops, expired, conns, reads, drained, ledger, disk,
                   crashes, seen>>

\* The process dies.  Its memory is gone; the output is one of those the disk may hold.
Crash ==
    /\ crashes < MaxCrashes
    /\ crashes' = crashes + 1
    /\ Forget /\ ret' = "idle" /\ ring' = << >> /\ reads' = 0 /\ drained' = TRUE
    /\ runtime' = 0 /\ seen' = NothingSeen
    /\ scan' = [scan EXCEPT !.mem = scan.disk]
    /\ temp' = "none"
    /\ out' \in survivors /\ survivors' = {out'}
    /\ UNCHANGED <<sid, conns, pcaps>>
-------------------------------------------------------------------------------
(* books_session_capture_drain: one read of libnosix per step. *)

Reading == pc = "drain" /\ reads < DrainLimit

\* books_capture_matches_transport: the first frame to or from the target and the port
\* decides which local port the session believes it has.
Learned(f) == IF f \in {"own", "old"} /\ s.conn /\ s.local = "none" THEN f ELSE s.local
Matches(f) == f = "support" \/ (f \in {"own", "old"} /\ s.conn /\ Learned(f) = f)

\* The session after frame f was read and was not recorded.
Heard(f) == [s EXCEPT !.local = Learned(f)]

ReadFrame(f) == Reading /\ ring # << >> /\ f = Head(ring) /\ ring' = Tail(ring)

\* books_pcap_capture appends the record.
Record ==
    \E f \in Frames :
        /\ ReadFrame(f) /\ Matches(f) /\ LimitAllows(FrameBytes)
        /\ s' = [Heard(f) EXCEPT !.packets = @ + 1, !.bytes = @ + FrameBytes]
        /\ runtime' = runtime + FrameBytes
        /\ reads' = reads + 1
        /\ UNCHANGED <<pc, ret, sid, ops, expired, conns, drained, pcaps, disk, crashes, seen>>

\* The record does not fit the budget: the session may not send any more.
OverBudget ==
    \E f \in Frames :
        /\ ReadFrame(f) /\ Matches(f) /\ ~LimitAllows(FrameBytes)
        /\ s' = [Heard(f) EXCEPT !.term = "LIMIT_ERROR", !.active = FALSE]
        /\ EndDrain(FALSE)
        /\ UNCHANGED <<sid, ops, expired, conns, ledger, disk, crashes, seen>>

\* The record cannot be written, or only a part of it.
RecordLost ==
    \E f \in Frames :
        /\ ReadFrame(f) /\ Matches(f) /\ LimitAllows(FrameBytes)
        /\ s' = IF s.term = "NONE"
                THEN [Heard(f) EXCEPT !.term = "CAPTURE_SETUP_ERROR", !.active = FALSE]
                ELSE Heard(f)
        /\ seen' = [seen EXCEPT !.torn = IF @ = "running" \/ s.term # "COMPLETE"
                                         THEN "running" ELSE "ended"]
        /\ EndDrain(FALSE)
        /\ UNCHANGED <<sid, ops, expired, conns, ledger, disk, crashes>>

\* Not the session's, or so it believes.
Skip ==
    \E f \in Frames :
        /\ ReadFrame(f) /\ ~Matches(f)
        /\ s' = Heard(f)
        /\ reads' = reads + 1
        /\ UNCHANGED <<pc, ret, sid, ops, expired, conns, drained, ledger, disk, crashes, seen>>

\* Nothing is left to read, or the read fails; the termination stays as it is.
DrainEnds ==
    /\ Reading
    /\ \/ ring = << >> /\ EndDrain(TRUE)
       \/ EndDrain(FALSE)
    /\ UNCHANGED <<s, sid, ops, wiring, ledger, disk, crashes, seen>>

DrainTooLong ==
    /\ pc = "drain" /\ reads >= DrainLimit
    /\ s' = [s EXCEPT !.term = "LIMIT_ERROR", !.active = FALSE]
    /\ EndDrain(FALSE)
    /\ UNCHANGED <<sid, ops, wiring, ledger, disk, crashes, seen>>
-------------------------------------------------------------------------------
(* books_execute: the Lua program. *)

Lua == pc = "lua"
Call == Lua /\ ops < MaxOps
Count == ops' = ops + 1

\* The program ends and its runtime is torn down.
EndLua(term) ==
    /\ s' = [s EXCEPT !.term = term]
    /\ ops' = 0
    /\ Goto("destroy")
    /\ UNCHANGED <<ret, sid, wiring, reads, drained, ledger, disk, crashes, seen>>

\* Top of books_run_one: the capture gate, then the program runs.
Run ==
    /\ pc = "prepared" /\ NetworkAllowed
    /\ Goto("lua")
    /\ UNCHANGED <<ret, s, sid, ops, wiring, reads, drained, ledger, disk, crashes, seen>>

\* The gate is shut: the session is finalized and nothing else happens to the target.
GateShut ==
    /\ pc = "prepared" /\ ~NetworkAllowed
    /\ EndSession /\ ring' = << >>
    /\ UNCHANGED <<ret, sid, conns, reads, drained, ledger, disk, crashes>>

\* book_native_timeout and book_runtime_tick find the session's time used up.
DeadlineFound == Lua /\ expired /\ EndLua(OrElse("LIMIT_ERROR"))

\* A parse error, a failed allocation, a limit of the interpreter, an error in the program.
RuntimeError == Lua /\ EndLua(OrElse("RUNTIME_ERROR"))

\* Mutant: the end of the source overwrites what the native layer has decided.
LuaEnds_Erases == Lua /\ EndLua("COMPLETE")

\* The end of the source.
LuaEnds == Lua /\ EndLua(OrElse("COMPLETE"))

Bail == Lua /\ EndLua("BAILED")

\* Mutant: the record limit is only looked at when the array grows.
Emit_Unbounded ==
    /\ Call /\ Count
    /\ s' = [s EXCEPT !.staged = @ + 1]
    /\ UNCHANGED <<pc, ret, sid, wiring, reads, drained, ledger, disk, crashes, seen>>

\* book_native_emit with a valid record; an invalid one is a RuntimeError.
Emit ==
    /\ Call /\ Count /\ s.staged < RecordLimit
    /\ s' = [s EXCEPT !.staged = @ + 1]
    /\ UNCHANGED <<pc, ret, sid, wiring, reads, drained, ledger, disk, crashes, seen>>

EmitTooMuch == Lua /\ s.staged >= RecordLimit /\ EndLua("LIMIT_ERROR")

\* books_session_open_tcp with no transport yet; with one it changes nothing.
OpenTcp ==
    /\ Call /\ Count /\ NetworkAllowed /\ ~s.dgram /\ ~s.stream
    /\ Goto("open")
    /\ UNCHANGED <<ret, s, sid, wiring, reads, drained, ledger, disk, crashes, seen>>

\* What a new connection changes: unread frames of the one before it are old now, or of
\* another protocol than the session's.
Connected(t) == [t EXCEPT !.conn = TRUE, !.local = "none"]
NewConnection ==
    /\ conns' = IF conns < 2 THEN conns + 1 ELSE conns
    /\ \E was \in {"old", "other"} :
           ring' = [i \in DOMAIN ring |-> IF ring[i] = "own" THEN was ELSE ring[i]]

\* The deadline is read again to count the action; nosix_stream_open is called anyway.
TcpOpened(opened) ==
    /\ pc = "open"
    /\ BeginDrain([Connected(s) EXCEPT !.acted = @ \/ NetworkAllowed, !.stream = opened],
                  "opened")
    /\ NewConnection
    /\ seen' = [seen EXCEPT !.wire = TRUE]
    /\ UNCHANGED <<sid, ops, expired, ledger, disk, crashes>>

\* A connection whose opening is not on record is closed again.
OpenDrained ==
    /\ pc = "opened"
    /\ s' = IF drained THEN s ELSE [s EXCEPT !.stream = FALSE]
    /\ drained' = TRUE
    /\ Goto("lua")
    /\ UNCHANGED <<ret, sid, ops, wiring, reads, ledger, disk, crashes, seen>>

\* books_session_open_udp: no datagram is sent, no action counted.
OpenUdp(opened) ==
    /\ Call /\ Count /\ NetworkAllowed /\ ~s.stream /\ ~s.dgram
    /\ s' = [Connected(s) EXCEPT !.dgram = opened]
    /\ NewConnection
    /\ UNCHANGED <<pc, ret, sid, expired, reads, drained, ledger, disk, crashes, seen>>

\* A read or a write of the transport is admitted; it returns to after.
BeginIo(after) ==
    /\ Goto("io") /\ ret' = after
    /\ UNCHANGED <<sid, wiring, reads, drained, ledger, disk, crashes, seen>>

\* tx, rx and one exchange of rx_exact or of the TLS overlay
Io == Call /\ Count /\ NetworkAllowed /\ (s.stream \/ s.dgram) /\ BeginIo("lua") /\ UNCHANGED s

\* The four functions that move payload: count the action, move it, drain.
Moved ==
    /\ pc = "io"
    /\ BeginDrain([s EXCEPT !.acted = @ \/ NetworkAllowed], ret)
    /\ seen' = [seen EXCEPT !.wire = TRUE]
    /\ UNCHANGED <<sid, ops, wiring, ledger, disk, crashes>>

\* book_tls_open: the handshake is reads and writes of the stream.
TlsOpen ==
    /\ Call /\ Count /\ NetworkAllowed /\ s.stream /\ ~s.tls
    /\ BeginIo("shaken") /\ UNCHANGED s

TlsShaken(ok) ==
    /\ pc = "shaken"
    /\ s' = [s EXCEPT !.tls = ok]
    /\ Goto("lua")
    /\ UNCHANGED <<ret, sid, ops, wiring, reads, drained, ledger, disk, crashes, seen>>

\* book_tls_close: the overlay goes, and says so to the peer if it still may.
CloseTls(after) ==
    /\ s' = [s EXCEPT !.tls = FALSE]
    /\ \/ NetworkAllowed /\ s.stream /\ BeginIo(after)
       \/ Goto(after) /\ UNCHANGED <<ret, sid, wiring, reads, drained, ledger, disk, crashes,
                                     seen>>

TlsClose == Call /\ Count /\ s.tls /\ CloseTls("lua")

\* book_runtime_destroy
Destroy ==
    /\ pc = "destroy" /\ UNCHANGED ops
    /\ \/ s.tls /\ CloseTls("gate")
       \/ /\ ~s.tls /\ Goto("gate")
          /\ UNCHANGED <<ret, s, sid, wiring, reads, drained, ledger, disk, crashes, seen>>
-------------------------------------------------------------------------------
(* The rest of books_run_one. *)

\* A complete program that used the network must have left evidence.
EvidenceGate ==
    /\ pc = "gate"
    /\ IF s.term = "COMPLETE" /\ s.acted
       THEN BeginDrain(s, "evidence")
       ELSE Goto("close") /\ UNCHANGED <<ret, s, reads, drained>>
    /\ UNCHANGED <<sid, ops, wiring, ledger, disk, crashes, seen>>

\* Mutant: a drain that returned NORMAL is taken for evidence.
EvidenceJudged_Drained ==
    /\ pc = "evidence"
    /\ s' = IF s.term = "COMPLETE" /\ ~drained
            THEN [s EXCEPT !.term = "CAPTURE_SETUP_ERROR"] ELSE s
    /\ drained' = TRUE
    /\ Goto("close")
    /\ UNCHANGED <<ret, sid, ops, wiring, reads, ledger, disk, crashes, seen>>

EvidenceJudged ==
    /\ pc = "evidence"
    /\ s' = IF s.term = "COMPLETE" /\ (~drained \/ s.packets = 0)
            THEN [s EXCEPT !.term = "CAPTURE_SETUP_ERROR"] ELSE s
    /\ drained' = TRUE
    /\ Goto("close")
    /\ UNCHANGED <<ret, sid, ops, wiring, reads, ledger, disk, crashes, seen>>

\* books_session_finalize: the stream is closed before its last drain, the datagram after
\* it; the drain's result is not looked at.
Close ==
    /\ pc = "close"
    /\ IF (s.stream \/ s.dgram) /\ s.term # "LIMIT_ERROR"
       THEN BeginDrain([s EXCEPT !.stream = FALSE], "closed")
       ELSE /\ s' = [s EXCEPT !.stream = FALSE]
            /\ Goto("closed") /\ UNCHANGED <<ret, reads, drained>>
    /\ UNCHANGED <<sid, ops, wiring, ledger, disk, crashes, seen>>

Finalized ==
    /\ pc = "closed"
    /\ s' = [s EXCEPT !.dgram = FALSE, !.pcap = FALSE, !.active = FALSE,
                      !.term = OrElse("INTERRUPTED")]
    /\ ring' = << >>
    /\ Goto("mark")
    /\ UNCHANGED <<ret, sid, ops, expired, conns, reads, drained, ledger, disk, crashes, seen>>

AfterMark(term) ==
    IF term = "COMPLETE"
    THEN Goto("commit") /\ UNCHANGED <<s, ops, expired, seen>>
    ELSE EndSession

\* books_mark_target_scanned.  targets_write_petal_data truncates the file in place and
\* looks at the result of fwrite only, not of the flush that writes the rest: it may
\* return NORMAL and leave the file broken.
Marked ==
    /\ pc = "mark"
    /\ \E file \in {sid, Broken} : scan' = [mem |-> sid, disk |-> file]
    /\ AfterMark(s.term)
    /\ UNCHANGED <<ret, sid, ring, conns, reads, drained, ledger, temp, out, survivors, crashes>>

\* The petal in memory gets its previous SCAN back; the file may already be truncated.  A
\* complete session ends in OUTPUT_COMMIT_ERROR.
MarkFails ==
    /\ pc = "mark"
    /\ \E file \in {scan.disk, Broken} : scan' = [scan EXCEPT !.disk = file]
    /\ EndSession
    /\ UNCHANGED <<ret, sid, ring, conns, reads, drained, ledger, temp, out, survivors, crashes>>
-------------------------------------------------------------------------------
(* book_output_commit *)

Commit == pc = "commit"
settled == <<ret, sid, ring, conns, reads, drained, ledger, scan, crashes>>
idling  == <<pc, s, ops, expired, seen>>

\* Any step before the rename fails: the temporary file is unlinked, the session ends in
\* OUTPUT_COMMIT_ERROR.
CommitFails ==
    /\ Commit /\ temp # "renamed"
    /\ temp' = "none" /\ EndSession
    /\ UNCHANGED <<settled, out, survivors>>

CommitStep(from, to) ==
    /\ Commit /\ temp = from /\ temp' = to
    /\ UNCHANGED <<settled, idling, out, survivors>>

OpenTemp  == CommitStep("none", "empty")
WriteTemp == CommitStep("empty", "written")
SyncTemp  == CommitStep("written", "synced")

\* What the temporary file holds, and what is left of it after a crash.
Staged  == [by |-> sid, recs |-> s.staged, whole |-> TRUE]
OnDisk  == [Staged EXCEPT !.whole = temp = "synced"]

\* Mutant: the file is renamed without being synced.
Rename_Unsynced ==
    /\ Commit /\ temp \in {"written", "synced"}
    /\ temp' = "renamed"
    /\ out' = Staged
    /\ survivors' = survivors \union {OnDisk}
    /\ UNCHANGED <<settled, idling>>

Rename ==
    /\ Commit /\ temp = "synced"
    /\ temp' = "renamed"
    /\ out' = Staged
    /\ survivors' = survivors \union {OnDisk}
    /\ UNCHANGED <<settled, idling>>

\* The directory is synced, or not: book_output_commit returns NORMAL either way.
Published ==
    /\ Commit /\ temp = "renamed"
    /\ temp' = "none"
    /\ survivors' \in {survivors, {out}}
    /\ EndSession
    /\ UNCHANGED <<settled, out>>
-------------------------------------------------------------------------------
Setup == Prepare \/ HeaderFails \/ HeaderWritten \/ ResetFails \/ CaptureReset \/ GateShut \/ Run

Executing == \/ DeadlineFound \/ RuntimeError \/ LuaEnds \/ Bail \/ Emit \/ EmitTooMuch
             \/ OpenTcp \/ OpenDrained \/ Io \/ Moved \/ TlsOpen \/ TlsClose
             \/ \E ok \in BOOLEAN : TcpOpened(ok) \/ OpenUdp(ok) \/ TlsShaken(ok)

Draining == Record \/ OverBudget \/ RecordLost \/ Skip \/ DrainEnds \/ DrainTooLong

Finishing == \/ Destroy \/ EvidenceGate \/ EvidenceJudged \/ Close \/ Finalized
             \/ Marked \/ MarkFails

Committing == CommitFails \/ OpenTemp \/ WriteTemp \/ SyncTemp \/ Rename \/ Published

Environment == Expire \/ Crash \/ \E f \in Frames : Arrive(f)

Next == Setup \/ Executing \/ Draining \/ Finishing \/ Committing \/ Environment

Spec == Init /\ [][Next]_vars
-------------------------------------------------------------------------------
(* Properties *)

TypeOK ==
    /\ pc \in Places /\ ret \in Places
    /\ s \in Session
    /\ sid \in 0 .. MaxSessions /\ ops \in 0 .. MaxOps
    /\ expired \in BOOLEAN /\ ring \in Seq(Frames) /\ Len(ring) <= RingCap
    /\ conns \in 0 .. 2 /\ reads \in 0 .. DrainLimit /\ drained \in BOOLEAN
    /\ runtime \in Nat /\ pcaps \subseteq 1 .. MaxSessions
    /\ scan \in [mem : 0 .. Broken, disk : 0 .. Broken]
    /\ temp \in {"none", "empty", "written", "synced", "renamed"}
    /\ out \in Content /\ survivors \subseteq Content
    /\ crashes \in 0 .. MaxCrashes
    /\ seen \in [wire : BOOLEAN, torn : {"no", "running", "ended"}, kept : Nat]

\* The program replaces the output; a crash may only fall back to what the disk still has.
Publishes == out' # out /\ crashes' = crashes

\* The output is replaced only by a session whose transport is closed, whose PCAP is
\* closed, and whose termination nothing has overwritten: neither a limit, nor a lost
\* record, nor bail, however late in the session they came.
TeardownComesFirst ==
    [][Publishes => /\ s.term = "COMPLETE"
                    /\ ~s.stream /\ ~s.dgram /\ ~s.tls /\ ~s.pcap
                    /\ seen.torn # "running"]_vars

\* A session that counted network actions replaces the output only with packets on record.
EvidenceComesFirst == [][Publishes => (s.acted => s.packets > 0)]_vars

CallsNetwork == pc \in {"open", "io"} /\ pc' # pc /\ crashes' = crashes

\* Nothing is asked of the network once the session has lost its capture or hit a limit,
\* not even by the TLS overlay's farewell while the interpreter is torn down.
CaptureGatesNetwork ==
    [][CallsNetwork => s.active /\ s.pcap /\ s.term # "LIMIT_ERROR"]_vars

\* Capture bytes are accounted for exactly, through sessions that were set up and
\* abandoned, and neither budget is ever exceeded; whatever used the network has its PCAP.
LedgerIsExact ==
    /\ runtime = seen.kept + s.bytes
    /\ SessionLimit > 0 => s.bytes <= SessionLimit
    /\ RuntimeLimit > 0 => runtime <= RuntimeLimit
    /\ seen.wire => sid \in pcaps

\* A session owns one transport, and the TLS overlay never outlives its stream.
OneTransport == ~(s.stream /\ s.dgram) /\ (s.tls => s.stream)

\* BOOKNAME.out keeps the promise of BookOutput.
WholeResults == [by : 0 .. MaxSessions, recs : 0 .. RecordLimit, whole : {TRUE}]
AgeOf(c) == c.by
Promise == INSTANCE BookOutput WITH Result <- WholeResults, Age <- AgeOf
OutputPromise == Promise!Spec

\* books.c:476: "A COMPLETE Book must not publish new current-state output when the
\* corresponding target scan metadata could not be persisted."
ScanPersistedFirst == temp = "renamed" => scan.disk = sid

\* docs/BOOK_LANGUAGE_V1.md:1082: "a networked Book cannot publish a successful result
\* without packet evidence."
NetworkedResultHasEvidence == temp = "renamed" /\ seen.wire => s.packets > 0
===============================================================================
