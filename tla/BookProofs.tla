------------------------------- MODULE BookProofs ------------------------------
(***************************************************************************)
(* What a target's Book sessions satisfy for every budget, every number of *)
(* sessions, calls, records and crashes, and every capture ring.           *)
(***************************************************************************)
EXTENDS Book, SequenceTheorems, TLAPS

\* The assumption on the constants, one by one.
LEMMA ConstantTypes ==
    /\ MaxSessions \in Nat /\ MaxOps \in Nat /\ MaxCrashes \in Nat /\ RecordLimit \in Nat
    /\ SessionLimit \in Nat /\ RuntimeLimit \in Nat /\ FrameBytes \in Nat /\ RingCap \in Nat
    /\ HeaderBytes \in Nat /\ DrainLimit \in Nat
BY BookConstants
-------------------------------------------------------------------------------
(* Types.  Each part of TypeOK is preserved by itself or with the parts    *)
(* before it.                                                              *)

PlacesTyped == pc \in Places /\ ret \in Places
SessionTyped == s \in Session
CountsTyped == /\ sid \in 0 .. MaxSessions /\ ops \in 0 .. MaxOps /\ conns \in 0 .. 2
               /\ reads \in 0 .. DrainLimit /\ crashes \in 0 .. MaxCrashes
FlagsTyped == expired \in BOOLEAN /\ drained \in BOOLEAN
RingTyped == ring \in Seq(Frames) /\ Len(ring) <= RingCap
BytesTyped == runtime \in Nat
FilesTyped ==
    /\ scan \in [mem : 0 .. Broken, disk : 0 .. Broken]
    /\ temp \in {"none", "empty", "written", "synced", "renamed"}
    /\ out \in Content /\ survivors \subseteq Content
    /\ pcaps \subseteq 1 .. MaxSessions
Seen == [wire : BOOLEAN, torn : {"no", "running", "ended"}, kept : Nat]
SeenTyped == seen \in Seen

\* TypeOK in the parts proved below.
LEMMA TypeParts ==
    TypeOK <=> /\ PlacesTyped /\ SessionTyped /\ CountsTyped /\ FlagsTyped /\ RingTyped
               /\ BytesTyped /\ FilesTyped /\ SeenTyped
BY DEF TypeOK, PlacesTyped, SessionTyped, CountsTyped, FlagsTyped, RingTyped, BytesTyped,
       FilesTyped, SeenTyped, Seen

\* What a typed session has.
LEMMA SessionFields ==
    ASSUME SessionTyped
    PROVE  s.bytes \in Nat /\ s.packets \in Nat /\ s.staged \in 0 .. RecordLimit
BY DEF SessionTyped, Session

\* The empty session is a session.
LEMMA NoSessionTyped == NoSession \in Session
BY ConstantTypes DEF NoSession, Session, Terminations

\* The program only goes to places that exist.
LEMMA PlacesStep == PlacesTyped /\ [Next]_vars => PlacesTyped'
<1> SUFFICES ASSUME PlacesTyped, [Next]_vars PROVE PlacesTyped'  OBVIOUS
<1> USE DEF PlacesTyped, Places, Goto, Lua, Call, Count, Forget, disk, wiring, ledger,
        Commit, settled, idling
<1>1. CASE Prepare \/ HeaderFails \/ HeaderWritten \/ ResetFails \/ CaptureReset \/
            GateShut \/ Run
  BY <1>1 DEF Prepare, HeaderFails, HeaderWritten, ResetFails, CaptureReset, GateShut,
      Run, SetupDiscard, LimitAllows, EndSession
<1>2. CASE DeadlineFound \/ RuntimeError \/ LuaEnds \/ Bail \/ EmitTooMuch
  BY <1>2 DEF DeadlineFound, RuntimeError, LuaEnds, Bail, EmitTooMuch, EndLua
<1>3. CASE Emit \/ OpenTcp \/ OpenDrained \/ Io \/ TlsOpen
  BY <1>3 DEF Emit, OpenTcp, OpenDrained, Io, TlsOpen, BeginIo
<1>4. CASE Moved
  BY <1>4 DEF Moved, BeginDrain
<1>5. CASE TlsClose \/ Destroy
  BY <1>5 DEF TlsClose, Destroy, CloseTls, BeginIo
<1>6. CASE Record \/ OverBudget \/ RecordLost \/ Skip \/ DrainEnds \/ DrainTooLong
  BY <1>6 DEF Record, OverBudget, RecordLost, Skip, DrainEnds, DrainTooLong, ReadFrame,
      Reading, Heard, Learned, LimitAllows, EndDrain
<1>7. CASE EvidenceGate \/ EvidenceJudged \/ Close \/ Finalized
  BY <1>7 DEF EvidenceGate, EvidenceJudged, Close, Finalized, BeginDrain
<1>8. CASE Marked \/ MarkFails
  BY <1>8 DEF Marked, MarkFails, AfterMark, EndSession
<1>9. CASE CommitFails \/ OpenTemp \/ WriteTemp \/ SyncTemp \/ Rename \/ Published
  BY <1>9 DEF CommitFails, OpenTemp, WriteTemp, SyncTemp, Rename, Published, EndSession,
      CommitStep, Staged, OnDisk
<1>10. CASE Expire \/ Crash
  BY <1>10 DEF Expire, Crash
<1>11. ASSUME NEW ok \in BOOLEAN, TcpOpened(ok) PROVE PlacesTyped'
  BY <1>11 DEF TcpOpened, BeginDrain, Connected, NewConnection
<1>12. ASSUME NEW ok \in BOOLEAN, OpenUdp(ok) PROVE PlacesTyped'
  BY <1>12 DEF OpenUdp, Connected, NewConnection
<1>13. ASSUME NEW ok \in BOOLEAN, TlsShaken(ok) PROVE PlacesTyped'
  BY <1>13 DEF TlsShaken
<1>14. ASSUME NEW f \in Frames, Arrive(f) PROVE PlacesTyped'
  BY <1>14 DEF Arrive
<1>15. CASE UNCHANGED vars  BY <1>15 DEF vars
<1> QED  BY <1>1, <1>2, <1>3, <1>4, <1>5, <1>6, <1>7, <1>8, <1>9, <1>10, <1>11, <1>12,
      <1>13, <1>14, <1>15 DEF Next, Setup, Executing, Draining, Finishing, Committing,
      Environment

\* Learning the local port keeps the session typed.
LEMMA HeardTyped ==
    ASSUME SessionTyped, NEW f \in Frames
    PROVE  Heard(f) \in Session
BY DEF SessionTyped, Session, Heard, Learned, Frames

\* The session record keeps its type.
LEMMA SessionStep == SessionTyped /\ [Next]_vars => SessionTyped'
<1> SUFFICES ASSUME SessionTyped, [Next]_vars PROVE SessionTyped'  OBVIOUS
<1> USE ConstantTypes, NoSessionTyped DEF SessionTyped, Session, Terminations, OrElse,
        Frames, Goto, Lua, Call, Count, Forget, disk, wiring, ledger, Commit, settled,
        idling
<1>1. CASE Prepare
  <2>1. s' = s \/ s' = [NoSession EXCEPT !.pcap = TRUE]  BY <1>1 DEF Prepare
  <2>2. [NoSession EXCEPT !.pcap = TRUE] \in Session  BY NoSessionTyped DEF Session
  <2> QED  BY <2>1, <2>2
<1>2. CASE HeaderFails
  BY <1>2 DEF HeaderFails, SetupDiscard
<1>3. CASE HeaderWritten
  BY <1>3 DEF HeaderWritten, LimitAllows
<1>4. CASE ResetFails
  BY <1>4 DEF ResetFails, SetupDiscard
<1>5. CASE CaptureReset
  BY <1>5 DEF CaptureReset
<1>6. CASE GateShut
  BY <1>6 DEF GateShut, EndSession
<1>7. CASE Run
  BY <1>7 DEF Run
<1>8. CASE DeadlineFound \/ RuntimeError \/ LuaEnds \/ Bail \/ EmitTooMuch
  BY <1>8 DEF DeadlineFound, RuntimeError, LuaEnds, Bail, EmitTooMuch, EndLua
<1>9. CASE Emit
  BY <1>9 DEF Emit
<1>10. CASE OpenTcp
  BY <1>10 DEF OpenTcp
<1>11. CASE OpenDrained
  BY <1>11 DEF OpenDrained
<1>12. CASE Io
  BY <1>12 DEF Io, BeginIo
<1>13. CASE TlsOpen
  BY <1>13 DEF TlsOpen, BeginIo
<1>14. CASE Moved
  BY <1>14 DEF Moved, BeginDrain
<1>15. CASE TlsClose \/ Destroy
  BY <1>15 DEF TlsClose, Destroy, CloseTls, BeginIo
<1>16. CASE Record
  <2>1. PICK f \in Frames :
          s' = [Heard(f) EXCEPT !.packets = @ + 1, !.bytes = @ + FrameBytes]
      BY <1>16 DEF Record
  <2>2. Heard(f) \in Session  BY HeardTyped
  <2>3. Heard(f).packets + 1 \in Nat /\ Heard(f).bytes + FrameBytes \in Nat  BY <2>2
  <2> QED  BY <2>1, <2>2, <2>3
<1>17. CASE OverBudget
  <2>1. PICK f \in Frames : s' = [Heard(f) EXCEPT !.term = "LIMIT_ERROR", !.active = FALSE]
      BY <1>17 DEF OverBudget
  <2>2. Heard(f) \in Session  BY HeardTyped
  <2> QED  BY <2>1, <2>2 DEF Session, Terminations
<1>18. CASE RecordLost
  <2>1. PICK f \in Frames :
          \/ s' = [Heard(f) EXCEPT !.term = "CAPTURE_SETUP_ERROR", !.active = FALSE]
          \/ s' = Heard(f)
      BY <1>18 DEF RecordLost
  <2>2. Heard(f) \in Session  BY HeardTyped
  <2> QED  BY <2>1, <2>2 DEF Session, Terminations
<1>19. CASE Skip
  BY <1>19, HeardTyped DEF Skip
<1>20. CASE DrainEnds
  BY <1>20 DEF DrainEnds, Reading, EndDrain
<1>21. CASE DrainTooLong
  BY <1>21 DEF DrainTooLong, EndDrain
<1>22. CASE EvidenceGate \/ EvidenceJudged \/ Close \/ Finalized
  BY <1>22 DEF EvidenceGate, EvidenceJudged, Close, Finalized, BeginDrain
<1>23. CASE Marked
  <2>1. s' = s \/ s' = NoSession  BY <1>23 DEF Marked, AfterMark, EndSession
  <2> QED  BY <2>1, NoSessionTyped
<1>24. CASE MarkFails
  BY <1>24 DEF MarkFails, EndSession
<1>25. CASE CommitFails
  BY <1>25 DEF CommitFails, EndSession
<1>26. CASE OpenTemp
  BY <1>26 DEF OpenTemp, CommitStep
<1>27. CASE WriteTemp
  BY <1>27 DEF WriteTemp, CommitStep
<1>28. CASE SyncTemp
  BY <1>28 DEF SyncTemp, CommitStep
<1>29. CASE Rename
  BY <1>29 DEF Rename, Staged, OnDisk
<1>30. CASE Published
  BY <1>30 DEF Published, EndSession
<1>31. CASE Expire
  BY <1>31 DEF Expire
<1>32. CASE Crash
  BY <1>32 DEF Crash
<1>33. ASSUME NEW ok \in BOOLEAN, TcpOpened(ok) PROVE SessionTyped'
  <2>1. s' = [Connected(s) EXCEPT !.acted = @ \/ NetworkAllowed, !.stream = ok]
      BY <1>33 DEF TcpOpened, BeginDrain
  <2>2. Connected(s) \in Session  BY DEF Connected
  <2> QED  BY <2>1, <2>2
<1>34. ASSUME NEW ok \in BOOLEAN, OpenUdp(ok) PROVE SessionTyped'
  BY <1>34 DEF OpenUdp, Connected, NewConnection
<1>35. ASSUME NEW ok \in BOOLEAN, TlsShaken(ok) PROVE SessionTyped'
  BY <1>35 DEF TlsShaken
<1>36. ASSUME NEW f \in Frames, Arrive(f) PROVE SessionTyped'
  BY <1>36 DEF Arrive
<1>37. CASE UNCHANGED vars  BY <1>37 DEF vars
<1> QED  BY <1>1, <1>2, <1>3, <1>4, <1>5, <1>6, <1>7, <1>8, <1>9, <1>10, <1>11, <1>12,
      <1>13, <1>14, <1>15, <1>16, <1>17, <1>18, <1>19, <1>20, <1>21, <1>22, <1>23,
      <1>24, <1>25, <1>26, <1>27, <1>28, <1>29, <1>30, <1>31, <1>32, <1>33, <1>34,
      <1>35, <1>36, <1>37 DEF Next, Setup, Executing, Draining, Finishing, Committing,
      Environment

\* The bounded counters stay within their bounds.
LEMMA CountsStep == CountsTyped /\ [Next]_vars => CountsTyped'
<1> SUFFICES ASSUME CountsTyped, [Next]_vars PROVE CountsTyped'  OBVIOUS
<1> USE ConstantTypes DEF CountsTyped, Goto, Lua, Call, Count, Forget, disk, wiring,
        ledger, Commit, settled, idling
<1>1. CASE Prepare
  BY <1>1 DEF Prepare
<1>2. CASE HeaderFails
  BY <1>2 DEF HeaderFails, SetupDiscard
<1>3. CASE HeaderWritten
  BY <1>3 DEF HeaderWritten, LimitAllows
<1>4. CASE ResetFails
  BY <1>4 DEF ResetFails, SetupDiscard
<1>5. CASE CaptureReset
  BY <1>5 DEF CaptureReset
<1>6. CASE GateShut
  BY <1>6 DEF GateShut, EndSession
<1>7. CASE Run
  BY <1>7 DEF Run
<1>8. CASE DeadlineFound \/ RuntimeError \/ LuaEnds \/ Bail \/ EmitTooMuch
  BY <1>8 DEF DeadlineFound, RuntimeError, LuaEnds, Bail, EmitTooMuch, EndLua
<1>9. CASE Emit \/ OpenTcp \/ OpenDrained \/ Io \/ TlsOpen
  BY <1>9 DEF Emit, OpenTcp, OpenDrained, Io, TlsOpen, BeginIo
<1>10. CASE Moved
  BY <1>10 DEF Moved, BeginDrain
<1>11. CASE TlsClose \/ Destroy
  BY <1>11 DEF TlsClose, Destroy, CloseTls, BeginIo
<1>12. CASE Record
  BY <1>12 DEF Record, ReadFrame, Reading, Heard, Learned, LimitAllows
<1>13. CASE OverBudget
  BY <1>13 DEF OverBudget, ReadFrame, Reading, Heard, Learned, EndDrain
<1>14. CASE RecordLost
  BY <1>14 DEF RecordLost, ReadFrame, Reading, Heard, Learned, EndDrain
<1>15. CASE Skip
  BY <1>15 DEF Skip, ReadFrame, Reading, Heard, Learned
<1>16. CASE DrainEnds
  BY <1>16 DEF DrainEnds, Reading, EndDrain
<1>17. CASE DrainTooLong
  BY <1>17 DEF DrainTooLong, EndDrain
<1>18. CASE EvidenceGate \/ EvidenceJudged \/ Close \/ Finalized
  BY <1>18 DEF EvidenceGate, EvidenceJudged, Close, Finalized, BeginDrain
<1>19. CASE Marked \/ MarkFails
  BY <1>19 DEF Marked, MarkFails, AfterMark, EndSession
<1>20. CASE CommitFails \/ OpenTemp \/ WriteTemp \/ SyncTemp \/ Rename \/ Published
  BY <1>20 DEF CommitFails, OpenTemp, WriteTemp, SyncTemp, Rename, Published,
      EndSession, CommitStep, Staged, OnDisk
<1>21. CASE Expire
  BY <1>21 DEF Expire
<1>22. CASE Crash
  BY <1>22 DEF Crash
<1>23. ASSUME NEW ok \in BOOLEAN, TcpOpened(ok) PROVE CountsTyped'
  BY <1>23 DEF TcpOpened, BeginDrain, Connected, NewConnection
<1>24. ASSUME NEW ok \in BOOLEAN, OpenUdp(ok) PROVE CountsTyped'
  BY <1>24 DEF OpenUdp, Connected, NewConnection
<1>25. ASSUME NEW ok \in BOOLEAN, TlsShaken(ok) PROVE CountsTyped'
  BY <1>25 DEF TlsShaken
<1>26. ASSUME NEW f \in Frames, Arrive(f) PROVE CountsTyped'
  BY <1>26 DEF Arrive
<1>27. CASE UNCHANGED vars  BY <1>27 DEF vars
<1> QED  BY <1>1, <1>2, <1>3, <1>4, <1>5, <1>6, <1>7, <1>8, <1>9, <1>10, <1>11, <1>12,
      <1>13, <1>14, <1>15, <1>16, <1>17, <1>18, <1>19, <1>20, <1>21, <1>22, <1>23,
      <1>24, <1>25, <1>26, <1>27 DEF Next, Setup, Executing, Draining, Finishing,
      Committing, Environment

\* The two flags stay flags.
LEMMA FlagsStep == FlagsTyped /\ [Next]_vars => FlagsTyped'
<1> SUFFICES ASSUME FlagsTyped, [Next]_vars PROVE FlagsTyped'  OBVIOUS
<1> USE DEF FlagsTyped, Judges, Goto, Lua, Call, Count, Forget, disk, wiring, ledger,
        Commit, settled, idling
<1>1. CASE Prepare \/ HeaderFails \/ HeaderWritten \/ ResetFails \/ CaptureReset \/
            GateShut \/ Run
  BY <1>1 DEF Prepare, HeaderFails, HeaderWritten, ResetFails, CaptureReset, GateShut,
      Run, SetupDiscard, LimitAllows, EndSession
<1>2. CASE DeadlineFound \/ RuntimeError \/ LuaEnds \/ Bail \/ EmitTooMuch
  BY <1>2 DEF DeadlineFound, RuntimeError, LuaEnds, Bail, EmitTooMuch, EndLua
<1>3. CASE Emit \/ OpenTcp \/ OpenDrained \/ Io \/ TlsOpen
  BY <1>3 DEF Emit, OpenTcp, OpenDrained, Io, TlsOpen, BeginIo
<1>4. CASE Moved
  BY <1>4 DEF Moved, BeginDrain
<1>5. CASE TlsClose \/ Destroy
  BY <1>5 DEF TlsClose, Destroy, CloseTls, BeginIo
<1>6. CASE Record \/ OverBudget \/ RecordLost \/ Skip \/ DrainEnds \/ DrainTooLong
  BY <1>6 DEF Record, OverBudget, RecordLost, Skip, DrainEnds, DrainTooLong, ReadFrame,
      Reading, Heard, Learned, LimitAllows, EndDrain
<1>7. CASE EvidenceGate \/ EvidenceJudged \/ Close \/ Finalized
  BY <1>7 DEF EvidenceGate, EvidenceJudged, Close, Finalized, BeginDrain
<1>8. CASE Marked \/ MarkFails
  BY <1>8 DEF Marked, MarkFails, AfterMark, EndSession
<1>9. CASE CommitFails \/ OpenTemp \/ WriteTemp \/ SyncTemp \/ Rename \/ Published
  BY <1>9 DEF CommitFails, OpenTemp, WriteTemp, SyncTemp, Rename, Published, EndSession,
      CommitStep, Staged, OnDisk
<1>10. CASE Expire \/ Crash
  BY <1>10 DEF Expire, Crash
<1>11. ASSUME NEW ok \in BOOLEAN, TcpOpened(ok) PROVE FlagsTyped'
  BY <1>11 DEF TcpOpened, BeginDrain, Connected, NewConnection
<1>12. ASSUME NEW ok \in BOOLEAN, OpenUdp(ok) PROVE FlagsTyped'
  BY <1>12 DEF OpenUdp, Connected, NewConnection
<1>13. ASSUME NEW ok \in BOOLEAN, TlsShaken(ok) PROVE FlagsTyped'
  BY <1>13 DEF TlsShaken
<1>14. ASSUME NEW f \in Frames, Arrive(f) PROVE FlagsTyped'
  BY <1>14 DEF Arrive
<1>15. CASE UNCHANGED vars  BY <1>15 DEF vars
<1> QED  BY <1>1, <1>2, <1>3, <1>4, <1>5, <1>6, <1>7, <1>8, <1>9, <1>10, <1>11, <1>12,
      <1>13, <1>14, <1>15 DEF Next, Setup, Executing, Draining, Finishing, Committing,
      Environment

\* The capture ring stays a sequence of frames within its bound.
LEMMA RingStep == RingTyped /\ [Next]_vars => RingTyped'
<1> SUFFICES ASSUME RingTyped, [Next]_vars PROVE RingTyped'  OBVIOUS
<1> USE ConstantTypes DEF RingTyped, Frames, Goto, Lua, Call, Count, Forget, disk,
        wiring, ledger, Commit, settled, idling
<1>1. CASE Prepare
  BY <1>1 DEF Prepare
<1>2. CASE HeaderFails
  BY <1>2 DEF HeaderFails, SetupDiscard
<1>3. CASE HeaderWritten
  BY <1>3 DEF HeaderWritten, LimitAllows
<1>4. CASE ResetFails
  BY <1>4 DEF ResetFails, SetupDiscard
<1>5. CASE CaptureReset
  BY <1>5 DEF CaptureReset
<1>6. CASE GateShut
  BY <1>6 DEF GateShut, EndSession
<1>7. CASE Run
  BY <1>7 DEF Run
<1>8. CASE DeadlineFound \/ RuntimeError \/ LuaEnds \/ Bail \/ EmitTooMuch
  BY <1>8 DEF DeadlineFound, RuntimeError, LuaEnds, Bail, EmitTooMuch, EndLua
<1>9. CASE Emit \/ OpenTcp \/ OpenDrained \/ Io \/ TlsOpen
  BY <1>9 DEF Emit, OpenTcp, OpenDrained, Io, TlsOpen, BeginIo
<1>10. CASE Moved
  BY <1>10 DEF Moved, BeginDrain
<1>11. CASE TlsClose \/ Destroy
  BY <1>11 DEF TlsClose, Destroy, CloseTls, BeginIo
<1>12. CASE Record
  BY <1>12 DEF Record, ReadFrame, Reading, Heard, Learned, LimitAllows
<1>13. CASE OverBudget
  BY <1>13 DEF OverBudget, ReadFrame, Reading, Heard, Learned, EndDrain
<1>14. CASE RecordLost
  BY <1>14 DEF RecordLost, ReadFrame, Reading, Heard, Learned, EndDrain
<1>15. CASE Skip
  BY <1>15 DEF Skip, ReadFrame, Reading, Heard, Learned
<1>16. CASE DrainEnds
  BY <1>16 DEF DrainEnds, Reading, EndDrain
<1>17. CASE DrainTooLong
  BY <1>17 DEF DrainTooLong, EndDrain
<1>18. CASE EvidenceGate
  BY <1>18 DEF EvidenceGate, BeginDrain
<1>19. CASE EvidenceJudged
  BY <1>19 DEF EvidenceJudged
<1>20. CASE Close
  BY <1>20 DEF Close, BeginDrain
<1>21. CASE Finalized
  BY <1>21 DEF Finalized
<1>22. CASE Marked \/ MarkFails
  BY <1>22 DEF Marked, MarkFails, AfterMark, EndSession
<1>23. CASE CommitFails \/ OpenTemp \/ WriteTemp \/ SyncTemp \/ Rename \/ Published
  BY <1>23 DEF CommitFails, OpenTemp, WriteTemp, SyncTemp, Rename, Published,
      EndSession, CommitStep, Staged, OnDisk
<1>24. CASE Expire
  BY <1>24 DEF Expire
<1>25. CASE Crash
  BY <1>25 DEF Crash
<1>26. ASSUME NEW ok \in BOOLEAN, TcpOpened(ok) PROVE RingTyped'
  <2>1. PICK was \in {"old", "other"} :
          ring' = [i \in DOMAIN ring |-> IF ring[i] = "own" THEN was ELSE ring[i]]
      BY <1>26 DEF TcpOpened, NewConnection
  <2>2. DOMAIN ring = 1 .. Len(ring) /\ Len(ring) \in Nat
        /\ \A i \in 1 .. Len(ring) : ring[i] \in Frames
      OBVIOUS
  <2>3. ring' \in Seq(Frames) /\ Len(ring') = Len(ring)  BY <2>1, <2>2
  <2> QED  BY <2>3
<1>27. ASSUME NEW ok \in BOOLEAN, OpenUdp(ok) PROVE RingTyped'
  <2>1. PICK was \in {"old", "other"} :
          ring' = [i \in DOMAIN ring |-> IF ring[i] = "own" THEN was ELSE ring[i]]
      BY <1>27 DEF OpenUdp, NewConnection
  <2>2. DOMAIN ring = 1 .. Len(ring) /\ Len(ring) \in Nat
        /\ \A i \in 1 .. Len(ring) : ring[i] \in Frames
      OBVIOUS
  <2>3. ring' \in Seq(Frames) /\ Len(ring') = Len(ring)  BY <2>1, <2>2
  <2> QED  BY <2>3
<1>28. ASSUME NEW ok \in BOOLEAN, TlsShaken(ok) PROVE RingTyped'
  BY <1>28 DEF TlsShaken
<1>29. ASSUME NEW f \in Frames, Arrive(f) PROVE RingTyped'
  BY <1>29 DEF Arrive
<1>30. CASE UNCHANGED vars  BY <1>30 DEF vars
<1> QED  BY <1>1, <1>2, <1>3, <1>4, <1>5, <1>6, <1>7, <1>8, <1>9, <1>10, <1>11, <1>12,
      <1>13, <1>14, <1>15, <1>16, <1>17, <1>18, <1>19, <1>20, <1>21, <1>22, <1>23,
      <1>24, <1>25, <1>26, <1>27, <1>28, <1>29, <1>30 DEF Next, Setup, Executing,
      Draining, Finishing, Committing, Environment

\* The account of the process never goes below zero.
LEMMA BytesStep == SessionTyped /\ BytesTyped /\ [Next]_vars => BytesTyped'
<1> SUFFICES ASSUME SessionTyped, BytesTyped, [Next]_vars PROVE BytesTyped'  OBVIOUS
<1> USE ConstantTypes, SessionFields DEF BytesTyped, Goto, Lua, Call, Count, Forget,
        disk, wiring, ledger, Commit, settled, idling
<1>1. CASE Prepare \/ HeaderFails \/ HeaderWritten \/ ResetFails \/ CaptureReset \/
            GateShut \/ Run
  BY <1>1 DEF Prepare, HeaderFails, HeaderWritten, ResetFails, CaptureReset, GateShut,
      Run, SetupDiscard, LimitAllows, EndSession
<1>2. CASE DeadlineFound \/ RuntimeError \/ LuaEnds \/ Bail \/ EmitTooMuch
  BY <1>2 DEF DeadlineFound, RuntimeError, LuaEnds, Bail, EmitTooMuch, EndLua
<1>3. CASE Emit \/ OpenTcp \/ OpenDrained \/ Io \/ TlsOpen
  BY <1>3 DEF Emit, OpenTcp, OpenDrained, Io, TlsOpen, BeginIo
<1>4. CASE Moved
  BY <1>4 DEF Moved, BeginDrain
<1>5. CASE TlsClose \/ Destroy
  BY <1>5 DEF TlsClose, Destroy, CloseTls, BeginIo
<1>6. CASE Record
  BY <1>6 DEF Record, ReadFrame, Reading, Heard, Learned, LimitAllows
<1>7. CASE OverBudget
  BY <1>7 DEF OverBudget, ReadFrame, Reading, Heard, Learned, EndDrain
<1>8. CASE RecordLost
  BY <1>8 DEF RecordLost, ReadFrame, Reading, Heard, Learned, EndDrain
<1>9. CASE Skip
  BY <1>9 DEF Skip, ReadFrame, Reading, Heard, Learned
<1>10. CASE DrainEnds
  BY <1>10 DEF DrainEnds, Reading, EndDrain
<1>11. CASE DrainTooLong
  BY <1>11 DEF DrainTooLong, EndDrain
<1>12. CASE EvidenceGate \/ EvidenceJudged \/ Close \/ Finalized
  BY <1>12 DEF EvidenceGate, EvidenceJudged, Close, Finalized, BeginDrain
<1>13. CASE Marked \/ MarkFails
  BY <1>13 DEF Marked, MarkFails, AfterMark, EndSession
<1>14. CASE CommitFails \/ OpenTemp \/ WriteTemp \/ SyncTemp \/ Rename \/ Published
  BY <1>14 DEF CommitFails, OpenTemp, WriteTemp, SyncTemp, Rename, Published,
      EndSession, CommitStep, Staged, OnDisk
<1>15. CASE Expire \/ Crash
  BY <1>15 DEF Expire, Crash
<1>16. ASSUME NEW ok \in BOOLEAN, TcpOpened(ok) PROVE BytesTyped'
  BY <1>16 DEF TcpOpened, BeginDrain, Connected, NewConnection
<1>17. ASSUME NEW ok \in BOOLEAN, OpenUdp(ok) PROVE BytesTyped'
  BY <1>17 DEF OpenUdp, Connected, NewConnection
<1>18. ASSUME NEW ok \in BOOLEAN, TlsShaken(ok) PROVE BytesTyped'
  BY <1>18 DEF TlsShaken
<1>19. ASSUME NEW f \in Frames, Arrive(f) PROVE BytesTyped'
  BY <1>19 DEF Arrive
<1>20. CASE UNCHANGED vars  BY <1>20 DEF vars
<1> QED  BY <1>1, <1>2, <1>3, <1>4, <1>5, <1>6, <1>7, <1>8, <1>9, <1>10, <1>11, <1>12,
      <1>13, <1>14, <1>15, <1>16, <1>17, <1>18, <1>19, <1>20 DEF Next, Setup, Executing,
      Draining, Finishing, Committing, Environment

\* The files keep their types.
LEMMA FilesStep == SessionTyped /\ CountsTyped /\ FilesTyped /\ [Next]_vars =>
    FilesTyped'
<1> SUFFICES ASSUME SessionTyped, CountsTyped, FilesTyped, [Next]_vars PROVE FilesTyped'
    OBVIOUS
<1> USE ConstantTypes, SessionFields DEF CountsTyped, FilesTyped, Content, Broken, Goto,
        Lua, Call, Count, Forget, disk, wiring, ledger, Commit, settled, idling
<1>1. CASE Prepare
  BY <1>1 DEF Prepare
<1>2. CASE HeaderFails
  BY <1>2 DEF HeaderFails, SetupDiscard
<1>3. CASE HeaderWritten
  BY <1>3 DEF HeaderWritten, LimitAllows
<1>4. CASE ResetFails
  BY <1>4 DEF ResetFails, SetupDiscard
<1>5. CASE CaptureReset
  BY <1>5 DEF CaptureReset
<1>6. CASE GateShut
  BY <1>6 DEF GateShut, EndSession
<1>7. CASE Run
  BY <1>7 DEF Run
<1>8. CASE DeadlineFound \/ RuntimeError \/ LuaEnds \/ Bail \/ EmitTooMuch
  BY <1>8 DEF DeadlineFound, RuntimeError, LuaEnds, Bail, EmitTooMuch, EndLua
<1>9. CASE Emit \/ OpenTcp \/ OpenDrained \/ Io \/ TlsOpen
  BY <1>9 DEF Emit, OpenTcp, OpenDrained, Io, TlsOpen, BeginIo
<1>10. CASE Moved
  BY <1>10 DEF Moved, BeginDrain
<1>11. CASE TlsClose \/ Destroy
  BY <1>11 DEF TlsClose, Destroy, CloseTls, BeginIo
<1>12. CASE Record \/ OverBudget \/ RecordLost \/ Skip \/ DrainEnds \/ DrainTooLong
  BY <1>12 DEF Record, OverBudget, RecordLost, Skip, DrainEnds, DrainTooLong, ReadFrame,
      Reading, Heard, Learned, LimitAllows, EndDrain
<1>13. CASE EvidenceGate \/ EvidenceJudged \/ Close \/ Finalized
  BY <1>13 DEF EvidenceGate, EvidenceJudged, Close, Finalized, BeginDrain
<1>14. CASE Marked \/ MarkFails
  BY <1>14 DEF Marked, MarkFails, AfterMark, EndSession
<1>15. CASE CommitFails
  BY <1>15 DEF CommitFails, EndSession
<1>16. CASE OpenTemp
  BY <1>16 DEF OpenTemp, CommitStep
<1>17. CASE WriteTemp
  BY <1>17 DEF WriteTemp, CommitStep
<1>18. CASE SyncTemp
  BY <1>18 DEF SyncTemp, CommitStep
<1>19. CASE Rename
  BY <1>19 DEF Rename, Staged, OnDisk
<1>20. CASE Published
  BY <1>20 DEF Published, EndSession
<1>21. CASE Expire \/ Crash
  BY <1>21 DEF Expire, Crash
<1>22. ASSUME NEW ok \in BOOLEAN, TcpOpened(ok) PROVE FilesTyped'
  BY <1>22 DEF TcpOpened, BeginDrain, Connected, NewConnection
<1>23. ASSUME NEW ok \in BOOLEAN, OpenUdp(ok) PROVE FilesTyped'
  BY <1>23 DEF OpenUdp, Connected, NewConnection
<1>24. ASSUME NEW ok \in BOOLEAN, TlsShaken(ok) PROVE FilesTyped'
  BY <1>24 DEF TlsShaken
<1>25. ASSUME NEW f \in Frames, Arrive(f) PROVE FilesTyped'
  BY <1>25 DEF Arrive
<1>26. CASE UNCHANGED vars  BY <1>26 DEF vars
<1> QED  BY <1>1, <1>2, <1>3, <1>4, <1>5, <1>6, <1>7, <1>8, <1>9, <1>10, <1>11, <1>12,
      <1>13, <1>14, <1>15, <1>16, <1>17, <1>18, <1>19, <1>20, <1>21, <1>22, <1>23,
      <1>24, <1>25, <1>26 DEF Next, Setup, Executing, Draining, Finishing, Committing,
      Environment

\* The empty history is a history.
LEMMA NothingTyped == NothingSeen \in Seen
BY DEF NothingSeen, Seen

\* What a session that ended leaves of the history.
LEMMA EndTyped ==
    ASSUME SessionTyped, SeenTyped
    PROVE  [NothingSeen EXCEPT !.kept = seen.kept + s.bytes] \in Seen
<1>1. seen.kept + s.bytes \in Nat  BY SessionFields DEF SeenTyped, Seen
<1> QED  BY <1>1, NothingTyped DEF Seen

\* The history keeps its type.
LEMMA SeenStep == SessionTyped /\ SeenTyped /\ [Next]_vars => SeenTyped'
<1> SUFFICES ASSUME SessionTyped, SeenTyped, [Next]_vars PROVE SeenTyped'  OBVIOUS
<1> USE DEF SeenTyped, Goto, Lua, Call, Count, Forget, disk, wiring, ledger, Commit,
        settled, idling
<1>1. CASE Prepare
  BY <1>1 DEF Prepare
<1>2. CASE HeaderFails
  BY <1>2 DEF HeaderFails, SetupDiscard
<1>3. CASE HeaderWritten
  BY <1>3 DEF HeaderWritten, LimitAllows
<1>4. CASE ResetFails
  BY <1>4 DEF ResetFails, SetupDiscard
<1>5. CASE CaptureReset
  BY <1>5 DEF CaptureReset
<1>6. CASE GateShut
  <2>1. seen' = [NothingSeen EXCEPT !.kept = seen.kept + s.bytes]
      BY <1>6 DEF GateShut, EndSession
  <2> QED  BY <2>1, EndTyped
<1>7. CASE Run
  BY <1>7 DEF Run
<1>8. CASE DeadlineFound \/ RuntimeError \/ LuaEnds \/ Bail \/ EmitTooMuch
  BY <1>8 DEF DeadlineFound, RuntimeError, LuaEnds, Bail, EmitTooMuch, EndLua
<1>9. CASE Emit \/ OpenTcp \/ OpenDrained \/ Io \/ TlsOpen
  BY <1>9 DEF Emit, OpenTcp, OpenDrained, Io, TlsOpen, BeginIo
<1>10. CASE Moved
  <2>1. seen' = [seen EXCEPT !.wire = TRUE]  BY <1>10 DEF Moved
  <2> QED  BY <2>1 DEF Seen
<1>11. CASE TlsClose \/ Destroy
  BY <1>11 DEF TlsClose, Destroy, CloseTls, BeginIo
<1>12. CASE Record
  BY <1>12 DEF Record, ReadFrame, Reading, Heard, Learned, LimitAllows
<1>13. CASE OverBudget
  BY <1>13 DEF OverBudget, ReadFrame, Reading, Heard, Learned, EndDrain
<1>14. CASE RecordLost
  <2>1. PICK t \in {"running", "ended"} : seen' = [seen EXCEPT !.torn = t]
      BY <1>14 DEF RecordLost
  <2> QED  BY <2>1 DEF Seen
<1>15. CASE Skip
  BY <1>15 DEF Skip, ReadFrame, Reading, Heard, Learned
<1>16. CASE DrainEnds
  BY <1>16 DEF DrainEnds, Reading, EndDrain
<1>17. CASE DrainTooLong
  BY <1>17 DEF DrainTooLong, EndDrain
<1>18. CASE EvidenceGate \/ EvidenceJudged \/ Close \/ Finalized
  BY <1>18 DEF EvidenceGate, EvidenceJudged, Close, Finalized, BeginDrain
<1>19. CASE Marked
  <2>1. seen' = seen \/ seen' = [NothingSeen EXCEPT !.kept = seen.kept + s.bytes]
      BY <1>19 DEF Marked, AfterMark, EndSession
  <2> QED  BY <2>1, EndTyped
<1>20. CASE MarkFails
  <2>1. seen' = [NothingSeen EXCEPT !.kept = seen.kept + s.bytes]
      BY <1>20 DEF MarkFails, EndSession
  <2> QED  BY <2>1, EndTyped
<1>21. CASE CommitFails
  <2>1. seen' = [NothingSeen EXCEPT !.kept = seen.kept + s.bytes]
      BY <1>21 DEF CommitFails, EndSession
  <2> QED  BY <2>1, EndTyped
<1>22. CASE OpenTemp
  BY <1>22 DEF OpenTemp, CommitStep
<1>23. CASE WriteTemp
  BY <1>23 DEF WriteTemp, CommitStep
<1>24. CASE SyncTemp
  BY <1>24 DEF SyncTemp, CommitStep
<1>25. CASE Rename
  BY <1>25 DEF Rename, Staged, OnDisk
<1>26. CASE Published
  <2>1. seen' = [NothingSeen EXCEPT !.kept = seen.kept + s.bytes]
      BY <1>26 DEF Published, EndSession
  <2> QED  BY <2>1, EndTyped
<1>27. CASE Expire
  BY <1>27 DEF Expire
<1>28. CASE Crash
  BY <1>28, NothingTyped DEF Crash
<1>29. ASSUME NEW ok \in BOOLEAN, TcpOpened(ok) PROVE SeenTyped'
  <2>1. seen' = [seen EXCEPT !.wire = TRUE]  BY <1>29 DEF TcpOpened
  <2> QED  BY <2>1 DEF Seen
<1>30. ASSUME NEW ok \in BOOLEAN, OpenUdp(ok) PROVE SeenTyped'
  BY <1>30 DEF OpenUdp, Connected, NewConnection
<1>31. ASSUME NEW ok \in BOOLEAN, TlsShaken(ok) PROVE SeenTyped'
  BY <1>31 DEF TlsShaken
<1>32. ASSUME NEW f \in Frames, Arrive(f) PROVE SeenTyped'
  BY <1>32 DEF Arrive
<1>33. CASE UNCHANGED vars  BY <1>33 DEF vars
<1> QED  BY <1>1, <1>2, <1>3, <1>4, <1>5, <1>6, <1>7, <1>8, <1>9, <1>10, <1>11, <1>12,
      <1>13, <1>14, <1>15, <1>16, <1>17, <1>18, <1>19, <1>20, <1>21, <1>22, <1>23,
      <1>24, <1>25, <1>26, <1>27, <1>28, <1>29, <1>30, <1>31, <1>32, <1>33 DEF Next,
      Setup, Executing, Draining, Finishing, Committing, Environment

\* Types hold at the start.
LEMMA TypeInit == Init => TypeOK
<1> SUFFICES ASSUME Init PROVE TypeOK  OBVIOUS
<1> USE ConstantTypes DEF Init
<1>1. PlacesTyped  BY DEF PlacesTyped, Places
<1>2. SessionTyped  BY NoSessionTyped DEF SessionTyped
<1>3. CountsTyped /\ BytesTyped  BY DEF CountsTyped, BytesTyped
<1>4. RingTyped  BY DEF RingTyped
<1>5. FilesTyped  BY DEF FilesTyped, Content, Broken
<1>6. SeenTyped /\ FlagsTyped  BY NothingTyped DEF SeenTyped, FlagsTyped
<1> QED  BY <1>1, <1>2, <1>3, <1>4, <1>5, <1>6, TypeParts

\* Every step keeps the types.
LEMMA TypeStep == TypeOK /\ [Next]_vars => TypeOK'
<1> SUFFICES ASSUME TypeOK, [Next]_vars PROVE TypeOK'  OBVIOUS
<1>1. PlacesTyped /\ SessionTyped /\ CountsTyped /\ FlagsTyped /\ RingTyped /\ BytesTyped
      /\ FilesTyped /\ SeenTyped
    BY TypeParts
<1>2. PlacesTyped' /\ SessionTyped' /\ CountsTyped' /\ FlagsTyped'
    BY <1>1, PlacesStep, SessionStep, CountsStep, FlagsStep
<1>3. RingTyped' /\ BytesTyped' /\ FilesTyped' /\ SeenTyped'
    BY <1>1, RingStep, BytesStep, FilesStep, SeenStep
<1> QED  BY <1>2, <1>3 DEF TypeOK, PlacesTyped, SessionTyped, CountsTyped, FlagsTyped,
       RingTyped, BytesTyped, FilesTyped, SeenTyped, Seen

\* Every variable keeps its type, for every value of the constants.
THEOREM TypeCorrect == Spec => []TypeOK
BY TypeInit, TypeStep, PTL DEF Spec
-------------------------------------------------------------------------------
(* The inductive invariant.  The promises are about the moment at which    *)
(* the output is replaced, or at which the network is asked; they hold     *)
(* there because of what every place on the way has made sure of, through  *)
(* drains that may change the session under any of their callers.          *)

\* In S, or in a network call or a drain that goes back there.
In(S) == pc \in S \/ (pc \in {"io", "drain"} /\ ret \in S)

\* After the interpreter is gone.
After == {"gate", "evidence", "close", "closed", "mark", "commit"}

\* Who calls the network and the drain, and what a session is before its program runs.
RouteInv ==
    /\ pc = "drain" => ret \in {"opened", "lua", "shaken", "gate", "evidence", "closed"}
    /\ pc = "io" => ret \in {"lua", "shaken", "gate"}
    /\ pc = "idle" => s = NoSession
    /\ pc = "header" => s = [NoSession EXCEPT !.pcap = TRUE, !.bytes = s.bytes]

\* Which transport each place may meet.
TransportInv ==
    /\ OneTransport
    /\ In(After) => ~s.tls
    /\ In({"closed"}) => ~s.stream
    /\ pc \in {"mark", "commit"} => ~s.stream /\ ~s.dgram /\ ~s.pcap
    /\ pc \in {"prepared", "open"} => ~s.stream /\ ~s.dgram /\ ~s.tls
    /\ In({"opened"}) => ~s.dgram /\ ~s.tls
    /\ In({"shaken"}) => s.stream

\* The capture is open, and good, wherever the network may be asked.
CaptureInv ==
    /\ pc \in {"open", "io"} => s.active /\ s.pcap /\ s.term # "LIMIT_ERROR"
    /\ pc \in {"prepared", "lua", "opened", "shaken", "drain", "destroy", "gate", "evidence",
               "close", "closed"} => s.pcap

\* A lost record stays visible in the termination, and evidence is judged before the end.
TermInv ==
    /\ seen.torn = "running" => s.term \notin {"NONE", "COMPLETE"}
    /\ pc \in {"idle", "header", "prepared"} => seen.torn = "no"
    /\ pc = "commit" => s.term = "COMPLETE"
    /\ In({"close", "closed", "mark", "commit"}) =>
         (s.term = "COMPLETE" /\ s.acted => s.packets > 0)

\* Every output a crash may bring back is whole, and older than the session that runs.
OutInv ==
    /\ temp # "none" => pc = "commit"
    /\ out \in survivors
    /\ \A c \in survivors : c.whole /\ c.by <= sid
    /\ pc # "idle" /\ temp # "renamed" => \A c \in survivors : c.by < sid

\* The PCAP of the session that runs exists; before its program runs it has asked nothing.
WireInv ==
    /\ pc # "idle" => sid \in pcaps
    /\ pc \in {"idle", "header"} => ~seen.wire

\* Capture bytes are those of the sessions that ended and of the one that runs.
BytesInv ==
    /\ runtime = seen.kept + s.bytes
    /\ SessionLimit > 0 => s.bytes <= SessionLimit
    /\ RuntimeLimit > 0 => runtime <= RuntimeLimit

BookInv == /\ TypeOK /\ RouteInv /\ TransportInv /\ CaptureInv /\ TermInv /\ OutInv /\ WireInv
           /\ BytesInv

\* Every call and every drain knows where it goes back to.
LEMMA RouteStep == SessionTyped /\ RouteInv /\ [Next]_vars => RouteInv'
<1> SUFFICES ASSUME SessionTyped, RouteInv, [Next]_vars PROVE RouteInv'  OBVIOUS
<1> USE DEF RouteInv, Judges, Goto, Lua, Call, Count, Forget, disk, wiring, ledger,
        Commit, settled, idling
<1>1. CASE Prepare \/ HeaderFails \/ HeaderWritten \/ ResetFails \/ CaptureReset \/
            GateShut \/ Run
  BY <1>1 DEF Prepare, HeaderFails, HeaderWritten, ResetFails, CaptureReset, GateShut,
      Run, SetupDiscard, LimitAllows, EndSession
<1>2. CASE DeadlineFound \/ RuntimeError \/ LuaEnds \/ Bail \/ EmitTooMuch
  BY <1>2 DEF DeadlineFound, RuntimeError, LuaEnds, Bail, EmitTooMuch, EndLua
<1>3. CASE Emit \/ OpenTcp \/ OpenDrained \/ Io \/ TlsOpen
  BY <1>3 DEF Emit, OpenTcp, OpenDrained, Io, TlsOpen, BeginIo
<1>4. CASE Moved
  BY <1>4 DEF Moved, BeginDrain
<1>5. CASE TlsClose \/ Destroy
  BY <1>5 DEF TlsClose, Destroy, CloseTls, BeginIo
<1>6. CASE Record \/ OverBudget \/ RecordLost \/ Skip \/ DrainEnds \/ DrainTooLong
  BY <1>6 DEF Record, OverBudget, RecordLost, Skip, DrainEnds, DrainTooLong, ReadFrame,
      Reading, Heard, Learned, LimitAllows, EndDrain
<1>7. CASE EvidenceGate \/ EvidenceJudged \/ Close \/ Finalized
  BY <1>7 DEF EvidenceGate, EvidenceJudged, Close, Finalized, BeginDrain
<1>8. CASE Marked \/ MarkFails
  BY <1>8 DEF Marked, MarkFails, AfterMark, EndSession
<1>9. CASE CommitFails \/ OpenTemp \/ WriteTemp \/ SyncTemp \/ Rename \/ Published
  BY <1>9 DEF CommitFails, OpenTemp, WriteTemp, SyncTemp, Rename, Published, EndSession,
      CommitStep, Staged, OnDisk
<1>10. CASE Expire \/ Crash
  BY <1>10 DEF Expire, Crash
<1>11. ASSUME NEW ok \in BOOLEAN, TcpOpened(ok) PROVE RouteInv'
  BY <1>11 DEF TcpOpened, BeginDrain, Connected, NewConnection
<1>12. ASSUME NEW ok \in BOOLEAN, OpenUdp(ok) PROVE RouteInv'
  BY <1>12 DEF OpenUdp, Connected, NewConnection
<1>13. ASSUME NEW ok \in BOOLEAN, TlsShaken(ok) PROVE RouteInv'
  BY <1>13 DEF TlsShaken
<1>14. ASSUME NEW f \in Frames, Arrive(f) PROVE RouteInv'
  BY <1>14 DEF Arrive
<1>15. CASE UNCHANGED vars  BY <1>15 DEF vars
<1> QED  BY <1>1, <1>2, <1>3, <1>4, <1>5, <1>6, <1>7, <1>8, <1>9, <1>10, <1>11, <1>12,
      <1>13, <1>14, <1>15 DEF Next, Setup, Executing, Draining, Finishing, Committing,
      Environment

\* Every step leaves each place the transports it may meet.
LEMMA TransportStep == SessionTyped /\ RouteInv /\ TransportInv /\ [Next]_vars =>
    TransportInv'
<1> SUFFICES ASSUME SessionTyped, RouteInv, TransportInv, [Next]_vars PROVE
    TransportInv'  OBVIOUS
<1> USE DEF TransportInv, RouteInv, In, After, OneTransport, NetworkAllowed,
        SessionTyped, Session, NoSession, Goto, Lua, Call, Count, Forget, disk, wiring,
        ledger, Commit, settled, idling
<1>1. CASE Prepare
  BY <1>1 DEF Prepare
<1>2. CASE HeaderFails
  BY <1>2 DEF HeaderFails, SetupDiscard
<1>3. CASE HeaderWritten
  BY <1>3 DEF HeaderWritten, LimitAllows
<1>4. CASE ResetFails
  BY <1>4 DEF ResetFails, SetupDiscard
<1>5. CASE CaptureReset
  BY <1>5 DEF CaptureReset
<1>6. CASE GateShut
  BY <1>6 DEF GateShut, EndSession
<1>7. CASE Run
  BY <1>7 DEF Run
<1>8. CASE DeadlineFound \/ RuntimeError \/ LuaEnds \/ Bail \/ EmitTooMuch
  BY <1>8 DEF DeadlineFound, RuntimeError, LuaEnds, Bail, EmitTooMuch, EndLua
<1>9. CASE Emit \/ OpenTcp \/ OpenDrained \/ Io \/ TlsOpen
  BY <1>9 DEF Emit, OpenTcp, OpenDrained, Io, TlsOpen, BeginIo
<1>10. CASE Moved
  BY <1>10 DEF Moved, BeginDrain
<1>11. CASE TlsClose \/ Destroy
  BY <1>11 DEF TlsClose, Destroy, CloseTls, BeginIo
<1>12. CASE Record
  BY <1>12 DEF Record, ReadFrame, Reading, Heard, Learned, LimitAllows
<1>13. CASE OverBudget
  BY <1>13 DEF OverBudget, ReadFrame, Reading, Heard, Learned, EndDrain
<1>14. CASE RecordLost
  BY <1>14 DEF RecordLost, ReadFrame, Reading, Heard, Learned, EndDrain
<1>15. CASE Skip
  BY <1>15 DEF Skip, ReadFrame, Reading, Heard, Learned
<1>16. CASE DrainEnds
  BY <1>16 DEF DrainEnds, Reading, EndDrain
<1>17. CASE DrainTooLong
  BY <1>17 DEF DrainTooLong, EndDrain
<1>18. CASE EvidenceGate \/ EvidenceJudged \/ Close \/ Finalized
  BY <1>18 DEF EvidenceGate, EvidenceJudged, Close, Finalized, BeginDrain
<1>19. CASE Marked \/ MarkFails
  BY <1>19 DEF Marked, MarkFails, AfterMark, EndSession
<1>20. CASE CommitFails \/ OpenTemp \/ WriteTemp \/ SyncTemp \/ Rename \/ Published
  BY <1>20 DEF CommitFails, OpenTemp, WriteTemp, SyncTemp, Rename, Published,
      EndSession, CommitStep, Staged, OnDisk
<1>21. CASE Expire \/ Crash
  BY <1>21 DEF Expire, Crash
<1>22. ASSUME NEW ok \in BOOLEAN, TcpOpened(ok) PROVE TransportInv'
  BY <1>22 DEF TcpOpened, BeginDrain, Connected, NewConnection
<1>23. ASSUME NEW ok \in BOOLEAN, OpenUdp(ok) PROVE TransportInv'
  BY <1>23 DEF OpenUdp, Connected, NewConnection
<1>24. ASSUME NEW ok \in BOOLEAN, TlsShaken(ok) PROVE TransportInv'
  BY <1>24 DEF TlsShaken
<1>25. ASSUME NEW f \in Frames, Arrive(f) PROVE TransportInv'
  BY <1>25 DEF Arrive
<1>26. CASE UNCHANGED vars  BY <1>26 DEF vars
<1> QED  BY <1>1, <1>2, <1>3, <1>4, <1>5, <1>6, <1>7, <1>8, <1>9, <1>10, <1>11, <1>12,
      <1>13, <1>14, <1>15, <1>16, <1>17, <1>18, <1>19, <1>20, <1>21, <1>22, <1>23,
      <1>24, <1>25, <1>26 DEF Next, Setup, Executing, Draining, Finishing, Committing,
      Environment

\* The network is only called, and packets only drained, with the capture open.
LEMMA CaptureStep == SessionTyped /\ RouteInv /\ CaptureInv /\ [Next]_vars =>
    CaptureInv'
<1> SUFFICES ASSUME SessionTyped, RouteInv, CaptureInv, [Next]_vars PROVE CaptureInv'
    OBVIOUS
<1> USE DEF CaptureInv, RouteInv, NetworkAllowed, SessionTyped, Session, NoSession,
        Goto, Lua, Call, Count, Forget, disk, wiring, ledger, Commit, settled, idling
<1>1. CASE Prepare \/ HeaderFails \/ HeaderWritten \/ ResetFails \/ CaptureReset \/
            GateShut \/ Run
  BY <1>1 DEF Prepare, HeaderFails, HeaderWritten, ResetFails, CaptureReset, GateShut,
      Run, SetupDiscard, LimitAllows, EndSession
<1>2. CASE DeadlineFound \/ RuntimeError \/ LuaEnds \/ Bail \/ EmitTooMuch
  BY <1>2 DEF DeadlineFound, RuntimeError, LuaEnds, Bail, EmitTooMuch, EndLua
<1>3. CASE Emit \/ OpenTcp \/ OpenDrained \/ Io \/ TlsOpen
  BY <1>3 DEF Emit, OpenTcp, OpenDrained, Io, TlsOpen, BeginIo
<1>4. CASE Moved
  BY <1>4 DEF Moved, BeginDrain
<1>5. CASE TlsClose \/ Destroy
  BY <1>5 DEF TlsClose, Destroy, CloseTls, BeginIo
<1>6. CASE Record
  BY <1>6 DEF Record, ReadFrame, Reading, Heard, Learned, LimitAllows
<1>7. CASE OverBudget
  BY <1>7 DEF OverBudget, ReadFrame, Reading, Heard, Learned, EndDrain
<1>8. CASE RecordLost
  BY <1>8 DEF RecordLost, ReadFrame, Reading, Heard, Learned, EndDrain
<1>9. CASE Skip
  BY <1>9 DEF Skip, ReadFrame, Reading, Heard, Learned
<1>10. CASE DrainEnds
  BY <1>10 DEF DrainEnds, Reading, EndDrain
<1>11. CASE DrainTooLong
  BY <1>11 DEF DrainTooLong, EndDrain
<1>12. CASE EvidenceGate \/ EvidenceJudged \/ Close \/ Finalized
  BY <1>12 DEF EvidenceGate, EvidenceJudged, Close, Finalized, BeginDrain
<1>13. CASE Marked \/ MarkFails
  BY <1>13 DEF Marked, MarkFails, AfterMark, EndSession
<1>14. CASE CommitFails \/ OpenTemp \/ WriteTemp \/ SyncTemp \/ Rename \/ Published
  BY <1>14 DEF CommitFails, OpenTemp, WriteTemp, SyncTemp, Rename, Published,
      EndSession, CommitStep, Staged, OnDisk
<1>15. CASE Expire \/ Crash
  BY <1>15 DEF Expire, Crash
<1>16. ASSUME NEW ok \in BOOLEAN, TcpOpened(ok) PROVE CaptureInv'
  BY <1>16 DEF TcpOpened, BeginDrain, Connected, NewConnection
<1>17. ASSUME NEW ok \in BOOLEAN, OpenUdp(ok) PROVE CaptureInv'
  BY <1>17 DEF OpenUdp, Connected, NewConnection
<1>18. ASSUME NEW ok \in BOOLEAN, TlsShaken(ok) PROVE CaptureInv'
  BY <1>18 DEF TlsShaken
<1>19. ASSUME NEW f \in Frames, Arrive(f) PROVE CaptureInv'
  BY <1>19 DEF Arrive
<1>20. CASE UNCHANGED vars  BY <1>20 DEF vars
<1> QED  BY <1>1, <1>2, <1>3, <1>4, <1>5, <1>6, <1>7, <1>8, <1>9, <1>10, <1>11, <1>12,
      <1>13, <1>14, <1>15, <1>16, <1>17, <1>18, <1>19, <1>20 DEF Next, Setup, Executing,
      Draining, Finishing, Committing, Environment

\* No step hides a lost record, or lets an unproven session through the gate.
LEMMA TermStep == SessionTyped /\ SeenTyped /\ RouteInv /\ TermInv /\ [Next]_vars =>
    TermInv'
<1> SUFFICES ASSUME SessionTyped, SeenTyped, RouteInv, TermInv, [Next]_vars PROVE
    TermInv'  OBVIOUS
<1> USE DEF TermInv, RouteInv, In, OrElse, SeenTyped, Seen, NothingSeen, SessionTyped,
        Session, NoSession, Goto, Lua, Call, Count, Forget, disk, wiring, ledger,
        Commit, settled, idling
<1>1. CASE Prepare \/ HeaderFails \/ HeaderWritten \/ ResetFails \/ CaptureReset \/
            GateShut \/ Run
  BY <1>1 DEF Prepare, HeaderFails, HeaderWritten, ResetFails, CaptureReset, GateShut,
      Run, SetupDiscard, LimitAllows, EndSession
<1>2. CASE DeadlineFound \/ RuntimeError \/ LuaEnds \/ Bail \/ EmitTooMuch
  BY <1>2 DEF DeadlineFound, RuntimeError, LuaEnds, Bail, EmitTooMuch, EndLua
<1>3. CASE Emit \/ OpenTcp \/ OpenDrained \/ Io \/ TlsOpen
  BY <1>3 DEF Emit, OpenTcp, OpenDrained, Io, TlsOpen, BeginIo
<1>4. CASE Moved
  BY <1>4 DEF Moved, BeginDrain
<1>5. CASE TlsClose \/ Destroy
  BY <1>5 DEF TlsClose, Destroy, CloseTls, BeginIo
<1>6. CASE Record
  BY <1>6 DEF Record, ReadFrame, Reading, Heard, Learned, LimitAllows
<1>7. CASE OverBudget
  BY <1>7 DEF OverBudget, ReadFrame, Reading, Heard, Learned, EndDrain
<1>8. CASE RecordLost
  BY <1>8 DEF RecordLost, ReadFrame, Reading, Heard, Learned, EndDrain
<1>9. CASE Skip
  BY <1>9 DEF Skip, ReadFrame, Reading, Heard, Learned
<1>10. CASE DrainEnds
  BY <1>10 DEF DrainEnds, Reading, EndDrain
<1>11. CASE DrainTooLong
  BY <1>11 DEF DrainTooLong, EndDrain
<1>12. CASE EvidenceGate
  BY <1>12 DEF EvidenceGate, BeginDrain
<1>13. CASE EvidenceJudged
  BY <1>13 DEF EvidenceJudged
<1>14. CASE Close
  BY <1>14 DEF Close, BeginDrain
<1>15. CASE Finalized
  BY <1>15 DEF Finalized
<1>16. CASE Marked \/ MarkFails
  BY <1>16 DEF Marked, MarkFails, AfterMark, EndSession
<1>17. CASE CommitFails \/ OpenTemp \/ WriteTemp \/ SyncTemp \/ Rename \/ Published
  BY <1>17 DEF CommitFails, OpenTemp, WriteTemp, SyncTemp, Rename, Published,
      EndSession, CommitStep, Staged, OnDisk
<1>18. CASE Expire \/ Crash
  BY <1>18 DEF Expire, Crash
<1>19. ASSUME NEW ok \in BOOLEAN, TcpOpened(ok) PROVE TermInv'
  BY <1>19 DEF TcpOpened, BeginDrain, Connected, NewConnection
<1>20. ASSUME NEW ok \in BOOLEAN, OpenUdp(ok) PROVE TermInv'
  BY <1>20 DEF OpenUdp, Connected, NewConnection
<1>21. ASSUME NEW ok \in BOOLEAN, TlsShaken(ok) PROVE TermInv'
  BY <1>21 DEF TlsShaken
<1>22. ASSUME NEW f \in Frames, Arrive(f) PROVE TermInv'
  BY <1>22 DEF Arrive
<1>23. CASE UNCHANGED vars  BY <1>23 DEF vars
<1> QED  BY <1>1, <1>2, <1>3, <1>4, <1>5, <1>6, <1>7, <1>8, <1>9, <1>10, <1>11, <1>12,
      <1>13, <1>14, <1>15, <1>16, <1>17, <1>18, <1>19, <1>20, <1>21, <1>22, <1>23 DEF
      Next, Setup, Executing, Draining, Finishing, Committing, Environment

\* What is renamed after the sync is what a crash brings back.
LEMMA StagedOnDisk == temp = "synced" => OnDisk = Staged
<1> SUFFICES ASSUME temp = "synced" PROVE OnDisk = Staged  OBVIOUS
<1>1. (temp = "synced") = TRUE  OBVIOUS
<1>2. OnDisk = [Staged EXCEPT !.whole = TRUE]  BY <1>1, Zenon DEF OnDisk
<1> QED  BY <1>2 DEF Staged

\* Sessions are numbered.
LEMMA SurvivorAge ==
    ASSUME CountsTyped, FilesTyped
    PROVE  sid \in Nat /\ \A c \in survivors : c.by \in Nat
BY ConstantTypes DEF CountsTyped, FilesTyped, Content

\* Every step keeps the old outputs whole and old.
LEMMA OutStep == CountsTyped /\ FilesTyped /\ OutInv /\ [Next]_vars => OutInv'
<1> SUFFICES ASSUME CountsTyped, FilesTyped, OutInv, [Next]_vars PROVE OutInv'  OBVIOUS
<1> USE DEF OutInv, Goto, Lua, Call, Count, Forget, disk, wiring, ledger, Commit,
        settled, idling
<1>1. CASE Prepare
  <2>1. sid' = sid + 1 /\ UNCHANGED <<temp, out, survivors>> /\ pc = "idle"
      BY <1>1 DEF Prepare
  <2>2. temp' = "none"  BY <2>1
  <2>3. \A c \in survivors : c.by < sid'  BY <2>1, SurvivorAge
  <2> QED  BY <2>1, <2>2, <2>3, SurvivorAge
<1>2. CASE HeaderFails
  BY <1>2 DEF HeaderFails, SetupDiscard
<1>3. CASE HeaderWritten
  BY <1>3 DEF HeaderWritten, LimitAllows
<1>4. CASE ResetFails
  BY <1>4 DEF ResetFails, SetupDiscard
<1>5. CASE CaptureReset
  BY <1>5 DEF CaptureReset
<1>6. CASE GateShut
  BY <1>6 DEF GateShut, EndSession
<1>7. CASE Run
  BY <1>7 DEF Run
<1>8. CASE DeadlineFound \/ RuntimeError \/ LuaEnds \/ Bail \/ EmitTooMuch
  BY <1>8 DEF DeadlineFound, RuntimeError, LuaEnds, Bail, EmitTooMuch, EndLua
<1>9. CASE Emit \/ OpenTcp \/ OpenDrained \/ Io \/ TlsOpen
  BY <1>9 DEF Emit, OpenTcp, OpenDrained, Io, TlsOpen, BeginIo
<1>10. CASE Moved
  BY <1>10 DEF Moved, BeginDrain
<1>11. CASE TlsClose \/ Destroy
  BY <1>11 DEF TlsClose, Destroy, CloseTls, BeginIo
<1>12. CASE Record \/ OverBudget \/ RecordLost \/ Skip \/ DrainEnds \/ DrainTooLong
  BY <1>12 DEF Record, OverBudget, RecordLost, Skip, DrainEnds, DrainTooLong, ReadFrame,
      Reading, Heard, Learned, LimitAllows, EndDrain
<1>13. CASE EvidenceGate \/ EvidenceJudged \/ Close \/ Finalized
  BY <1>13 DEF EvidenceGate, EvidenceJudged, Close, Finalized, BeginDrain
<1>14. CASE Marked \/ MarkFails
  BY <1>14 DEF Marked, MarkFails, AfterMark, EndSession
<1>15. CASE CommitFails
  BY <1>15 DEF CommitFails, EndSession
<1>16. CASE OpenTemp
  BY <1>16 DEF OpenTemp, CommitStep
<1>17. CASE WriteTemp
  BY <1>17 DEF WriteTemp, CommitStep
<1>18. CASE SyncTemp
  BY <1>18 DEF SyncTemp, CommitStep
<1>19. CASE Rename
  <2>1. /\ pc = "commit" /\ temp = "synced" /\ UNCHANGED <<pc, sid>> /\ temp' = "renamed"
        /\ out' = Staged /\ survivors' = survivors \union {Staged}
      BY <1>19, StagedOnDisk DEF Rename
  <2>2. Staged.whole /\ Staged.by = sid  BY DEF Staged
  <2> QED  BY <2>1, <2>2, SurvivorAge
<1>20. CASE Published
  BY <1>20 DEF Published, EndSession
<1>21. CASE Expire \/ Crash
  BY <1>21 DEF Expire, Crash
<1>22. ASSUME NEW ok \in BOOLEAN, TcpOpened(ok) PROVE OutInv'
  BY <1>22 DEF TcpOpened, BeginDrain, Connected, NewConnection
<1>23. ASSUME NEW ok \in BOOLEAN, OpenUdp(ok) PROVE OutInv'
  BY <1>23 DEF OpenUdp, Connected, NewConnection
<1>24. ASSUME NEW ok \in BOOLEAN, TlsShaken(ok) PROVE OutInv'
  BY <1>24 DEF TlsShaken
<1>25. ASSUME NEW f \in Frames, Arrive(f) PROVE OutInv'
  BY <1>25 DEF Arrive
<1>26. CASE UNCHANGED vars  BY <1>26 DEF vars
<1> QED  BY <1>1, <1>2, <1>3, <1>4, <1>5, <1>6, <1>7, <1>8, <1>9, <1>10, <1>11, <1>12,
      <1>13, <1>14, <1>15, <1>16, <1>17, <1>18, <1>19, <1>20, <1>21, <1>22, <1>23,
      <1>24, <1>25, <1>26 DEF Next, Setup, Executing, Draining, Finishing, Committing,
      Environment

\* A session that runs has its PCAP file.
LEMMA WireStep == SeenTyped /\ RouteInv /\ WireInv /\ [Next]_vars => WireInv'
<1> SUFFICES ASSUME SeenTyped, RouteInv, WireInv, [Next]_vars PROVE WireInv'  OBVIOUS
<1> USE DEF WireInv, RouteInv, SeenTyped, Seen, NothingSeen, Goto, Lua, Call, Count,
        Forget, disk, wiring, ledger, Commit, settled, idling
<1>1. CASE Prepare \/ HeaderFails \/ HeaderWritten \/ ResetFails \/ CaptureReset \/
            GateShut \/ Run
  BY <1>1 DEF Prepare, HeaderFails, HeaderWritten, ResetFails, CaptureReset, GateShut,
      Run, SetupDiscard, LimitAllows, EndSession
<1>2. CASE DeadlineFound \/ RuntimeError \/ LuaEnds \/ Bail \/ EmitTooMuch
  BY <1>2 DEF DeadlineFound, RuntimeError, LuaEnds, Bail, EmitTooMuch, EndLua
<1>3. CASE Emit \/ OpenTcp \/ OpenDrained \/ Io \/ TlsOpen
  BY <1>3 DEF Emit, OpenTcp, OpenDrained, Io, TlsOpen, BeginIo
<1>4. CASE Moved
  BY <1>4 DEF Moved, BeginDrain
<1>5. CASE TlsClose \/ Destroy
  BY <1>5 DEF TlsClose, Destroy, CloseTls, BeginIo
<1>6. CASE Record \/ OverBudget \/ RecordLost \/ Skip \/ DrainEnds \/ DrainTooLong
  BY <1>6 DEF Record, OverBudget, RecordLost, Skip, DrainEnds, DrainTooLong, ReadFrame,
      Reading, Heard, Learned, LimitAllows, EndDrain
<1>7. CASE EvidenceGate \/ EvidenceJudged \/ Close \/ Finalized
  BY <1>7 DEF EvidenceGate, EvidenceJudged, Close, Finalized, BeginDrain
<1>8. CASE Marked \/ MarkFails
  BY <1>8 DEF Marked, MarkFails, AfterMark, EndSession
<1>9. CASE CommitFails \/ OpenTemp \/ WriteTemp \/ SyncTemp \/ Rename \/ Published
  BY <1>9 DEF CommitFails, OpenTemp, WriteTemp, SyncTemp, Rename, Published, EndSession,
      CommitStep, Staged, OnDisk
<1>10. CASE Expire \/ Crash
  BY <1>10 DEF Expire, Crash
<1>11. ASSUME NEW ok \in BOOLEAN, TcpOpened(ok) PROVE WireInv'
  BY <1>11 DEF TcpOpened, BeginDrain, Connected, NewConnection
<1>12. ASSUME NEW ok \in BOOLEAN, OpenUdp(ok) PROVE WireInv'
  BY <1>12 DEF OpenUdp, Connected, NewConnection
<1>13. ASSUME NEW ok \in BOOLEAN, TlsShaken(ok) PROVE WireInv'
  BY <1>13 DEF TlsShaken
<1>14. ASSUME NEW f \in Frames, Arrive(f) PROVE WireInv'
  BY <1>14 DEF Arrive
<1>15. CASE UNCHANGED vars  BY <1>15 DEF vars
<1> QED  BY <1>1, <1>2, <1>3, <1>4, <1>5, <1>6, <1>7, <1>8, <1>9, <1>10, <1>11, <1>12,
      <1>13, <1>14, <1>15 DEF Next, Setup, Executing, Draining, Finishing, Committing,
      Environment

\* Every step accounts for the bytes it records or gives back.
LEMMA BytesInvStep == SessionTyped /\ SeenTyped /\ RouteInv /\ BytesInv /\ [Next]_vars
    => BytesInv'
<1> SUFFICES ASSUME SessionTyped, SeenTyped, RouteInv, BytesInv, [Next]_vars PROVE
    BytesInv'  OBVIOUS
<1> USE ConstantTypes DEF BytesInv, RouteInv, SeenTyped, Seen, NothingSeen,
        SessionTyped, Session, NoSession, Goto, Lua, Call, Count, Forget, disk, wiring,
        ledger, Commit, settled, idling
<1>1. CASE Prepare
  BY <1>1 DEF Prepare
<1>2. CASE HeaderFails
  BY <1>2 DEF HeaderFails, SetupDiscard
<1>3. CASE HeaderWritten
  BY <1>3 DEF HeaderWritten, LimitAllows
<1>4. CASE ResetFails
  BY <1>4 DEF ResetFails, SetupDiscard
<1>5. CASE CaptureReset
  BY <1>5 DEF CaptureReset
<1>6. CASE GateShut
  BY <1>6 DEF GateShut, EndSession
<1>7. CASE Run
  BY <1>7 DEF Run
<1>8. CASE DeadlineFound \/ RuntimeError \/ LuaEnds \/ Bail \/ EmitTooMuch
  BY <1>8 DEF DeadlineFound, RuntimeError, LuaEnds, Bail, EmitTooMuch, EndLua
<1>9. CASE Emit \/ OpenTcp \/ OpenDrained \/ Io \/ TlsOpen
  BY <1>9 DEF Emit, OpenTcp, OpenDrained, Io, TlsOpen, BeginIo
<1>10. CASE Moved
  BY <1>10 DEF Moved, BeginDrain
<1>11. CASE TlsClose \/ Destroy
  BY <1>11 DEF TlsClose, Destroy, CloseTls, BeginIo
<1>12. CASE Record
  BY <1>12 DEF Record, ReadFrame, Reading, Heard, Learned, LimitAllows
<1>13. CASE OverBudget
  BY <1>13 DEF OverBudget, ReadFrame, Reading, Heard, Learned, EndDrain
<1>14. CASE RecordLost
  BY <1>14 DEF RecordLost, ReadFrame, Reading, Heard, Learned, EndDrain
<1>15. CASE Skip
  BY <1>15 DEF Skip, ReadFrame, Reading, Heard, Learned
<1>16. CASE DrainEnds
  BY <1>16 DEF DrainEnds, Reading, EndDrain
<1>17. CASE DrainTooLong
  BY <1>17 DEF DrainTooLong, EndDrain
<1>18. CASE EvidenceGate \/ EvidenceJudged \/ Close \/ Finalized
  BY <1>18 DEF EvidenceGate, EvidenceJudged, Close, Finalized, BeginDrain
<1>19. CASE Marked \/ MarkFails
  BY <1>19 DEF Marked, MarkFails, AfterMark, EndSession
<1>20. CASE CommitFails \/ OpenTemp \/ WriteTemp \/ SyncTemp \/ Rename \/ Published
  BY <1>20 DEF CommitFails, OpenTemp, WriteTemp, SyncTemp, Rename, Published,
      EndSession, CommitStep, Staged, OnDisk
<1>21. CASE Expire \/ Crash
  BY <1>21 DEF Expire, Crash
<1>22. ASSUME NEW ok \in BOOLEAN, TcpOpened(ok) PROVE BytesInv'
  BY <1>22 DEF TcpOpened, BeginDrain, Connected, NewConnection
<1>23. ASSUME NEW ok \in BOOLEAN, OpenUdp(ok) PROVE BytesInv'
  BY <1>23 DEF OpenUdp, Connected, NewConnection
<1>24. ASSUME NEW ok \in BOOLEAN, TlsShaken(ok) PROVE BytesInv'
  BY <1>24 DEF TlsShaken
<1>25. ASSUME NEW f \in Frames, Arrive(f) PROVE BytesInv'
  BY <1>25 DEF Arrive
<1>26. CASE UNCHANGED vars  BY <1>26 DEF vars
<1> QED  BY <1>1, <1>2, <1>3, <1>4, <1>5, <1>6, <1>7, <1>8, <1>9, <1>10, <1>11, <1>12,
      <1>13, <1>14, <1>15, <1>16, <1>17, <1>18, <1>19, <1>20, <1>21, <1>22, <1>23,
      <1>24, <1>25, <1>26 DEF Next, Setup, Executing, Draining, Finishing, Committing,
      Environment

\* The invariant holds at the start.
LEMMA BookInvInit == Init => BookInv
<1> SUFFICES ASSUME Init PROVE BookInv  OBVIOUS
<1> USE ConstantTypes DEF Init, NoSession, NothingSeen
<1>1. RouteInv /\ CaptureInv  BY DEF RouteInv, CaptureInv
<1>2. TransportInv  BY DEF TransportInv, OneTransport, In, After
<1>3. TermInv /\ WireInv  BY DEF TermInv, WireInv, In
<1>4. OutInv /\ BytesInv  BY DEF OutInv, BytesInv
<1> QED  BY <1>1, <1>2, <1>3, <1>4, TypeInit DEF BookInv

\* The invariant is inductive.
LEMMA BookInvStep == BookInv /\ [Next]_vars => BookInv'
<1> SUFFICES ASSUME BookInv, [Next]_vars PROVE BookInv'  OBVIOUS
<1>1. TypeOK'  BY TypeStep DEF BookInv
<1>2. SessionTyped /\ SeenTyped /\ CountsTyped /\ FilesTyped  BY TypeParts DEF BookInv
<1>3. RouteInv' /\ TransportInv' /\ CaptureInv'
    BY <1>2, RouteStep, TransportStep, CaptureStep DEF BookInv
<1>4. TermInv' /\ OutInv' /\ WireInv' /\ BytesInv'
    BY <1>2, TermStep, OutStep, WireStep, BytesInvStep DEF BookInv
<1> QED  BY <1>1, <1>3, <1>4 DEF BookInv

\* The invariant holds of every reachable state of a book run (books_run_one).
THEOREM BookInvariant == Spec => []BookInv
BY BookInvInit, BookInvStep, PTL DEF Spec
-------------------------------------------------------------------------------
(* The promises. *)

\* The capture budgets are kept and accounted for exactly, and nothing used the network
\* without a PCAP (books_capture_limit_allows, books_capture_setup_discard).
THEOREM Ledger == Spec => []LedgerIsExact
<1>1. BookInv => LedgerIsExact
  <2> SUFFICES ASSUME BookInv PROVE LedgerIsExact  OBVIOUS
  <2>1. seen.wire => sid \in pcaps  BY DEF BookInv, WireInv
  <2> QED  BY <2>1 DEF BookInv, BytesInv, LedgerIsExact
<1> QED  BY <1>1, BookInvariant, PTL

\* A session owns one transport, and TLS never outlives the stream it lies on
\* (books_session_open_tcp, books_session_open_udp, book_tls_close).
THEOREM TransportIsOne == Spec => []OneTransport
<1>1. BookInv => OneTransport  BY DEF BookInv, TransportInv
<1> QED  BY <1>1, BookInvariant, PTL

\* The network is asked only while the capture is good (books_session_network_allowed).
THEOREM GateHolds == Spec => CaptureGatesNetwork
<1>1. BookInv /\ [Next]_vars =>
        [CallsNetwork => s.active /\ s.pcap /\ s.term # "LIMIT_ERROR"]_vars
  BY DEF BookInv, CaptureInv, CallsNetwork
<1> QED  BY <1>1, BookInvariant, PTL DEF Spec, CaptureGatesNetwork

\* Three actions touch the output or what a crash may make of it.
LEMMA WhoTouchesOutput ==
    [Next]_vars => Rename \/ Published \/ Crash \/ UNCHANGED <<out, survivors>>
<1> SUFFICES ASSUME [Next]_vars, ~Rename, ~Published, ~Crash
             PROVE  UNCHANGED <<out, survivors>>
  OBVIOUS
<1> USE DEF disk, settled
<1>1. CASE Setup
  BY <1>1 DEF Setup, Prepare, HeaderFails, HeaderWritten, ResetFails, CaptureReset, GateShut,
              Run
<1>2. CASE DeadlineFound \/ RuntimeError \/ LuaEnds \/ Bail \/ EmitTooMuch
  BY <1>2 DEF DeadlineFound, RuntimeError, LuaEnds, Bail, EmitTooMuch, EndLua
<1>3. CASE Emit \/ OpenTcp \/ OpenDrained \/ Io \/ Moved \/ TlsOpen \/ TlsClose
  BY <1>3 DEF Emit, OpenTcp, OpenDrained, Io, Moved, TlsOpen, TlsClose, CloseTls, BeginIo
<1>4. ASSUME NEW ok \in BOOLEAN, TcpOpened(ok) \/ OpenUdp(ok) \/ TlsShaken(ok)
      PROVE  UNCHANGED <<out, survivors>>
  BY <1>4 DEF TcpOpened, OpenUdp, TlsShaken
<1>5. CASE Draining
  BY <1>5 DEF Draining, Record, OverBudget, RecordLost, Skip, DrainEnds, DrainTooLong
<1>6. CASE Finishing
  BY <1>6 DEF Finishing, Destroy, EvidenceGate, EvidenceJudged, Close, Finalized, Marked,
              MarkFails, CloseTls, BeginIo
<1>7. CASE Committing
  BY <1>7 DEF Committing, CommitFails, OpenTemp, WriteTemp, SyncTemp, CommitStep
<1>8. CASE Environment
  BY <1>8 DEF Environment, Expire, Arrive
<1>9. CASE UNCHANGED vars  BY <1>9 DEF vars
<1> QED
  BY <1>1, <1>2, <1>3, <1>4, <1>5, <1>6, <1>7, <1>8, <1>9 DEF Next, Executing

\* Only the rename replaces the output.
LEMMA WhoPublishes ==
    ASSUME BookInv, [Next]_vars, Publishes
    PROVE  Rename
<1>1. ~Published  BY DEF Publishes, Published, settled
<1>2. ~Crash
  <2>1. crashes \in Nat  BY ConstantTypes, TypeParts DEF BookInv, CountsTyped
  <2> QED  BY <2>1 DEF Crash, Publishes
<1> QED  BY <1>1, <1>2, WhoTouchesOutput DEF Publishes

\* The output is replaced only after the transport, its TLS and the PCAP are closed, by a
\* session whose termination kept every failure before it (books_run_one).
THEOREM TeardownFirst == Spec => TeardownComesFirst
<1>1. BookInv /\ [Next]_vars =>
        [Publishes => /\ s.term = "COMPLETE"
                      /\ ~s.stream /\ ~s.dgram /\ ~s.tls /\ ~s.pcap
                      /\ seen.torn # "running"]_vars
  <2> SUFFICES ASSUME BookInv, [Next]_vars, Publishes
               PROVE  /\ s.term = "COMPLETE"
                      /\ ~s.stream /\ ~s.dgram /\ ~s.tls /\ ~s.pcap
                      /\ seen.torn # "running"
    OBVIOUS
  <2>1. pc = "commit"  BY WhoPublishes DEF Rename, Commit
  <2>2. ~s.stream /\ ~s.dgram /\ ~s.tls /\ ~s.pcap
      BY <2>1 DEF BookInv, TransportInv, In, After
  <2>3. s.term = "COMPLETE" /\ seen.torn # "running"  BY <2>1 DEF BookInv, TermInv
  <2> QED  BY <2>2, <2>3
<1> QED  BY <1>1, BookInvariant, PTL DEF Spec, TeardownComesFirst

\* A session that counted network actions replaces the output only with packets on record
\* (the evidence gate of books_run_one).
THEOREM EvidenceFirst == Spec => EvidenceComesFirst
<1>1. BookInv /\ [Next]_vars => [Publishes => (s.acted => s.packets > 0)]_vars
  <2> SUFFICES ASSUME BookInv, [Next]_vars, Publishes PROVE s.acted => s.packets > 0
    OBVIOUS
  <2>1. pc = "commit"  BY WhoPublishes DEF Rename, Commit
  <2> QED  BY <2>1 DEF BookInv, TermInv, In
<1> QED  BY <1>1, BookInvariant, PTL DEF Spec, EvidenceComesFirst
-------------------------------------------------------------------------------
(* Book implements BookOutput. *)

\* Book starts where BookOutput starts.
LEMMA PromiseInit == Init => Promise!Init
BY ConstantTypes DEF Init, Promise!Init, WholeResults

\* Every step is a step of BookOutput, or leaves the output alone.
LEMMA PromiseStep == BookInv /\ [Next]_vars => [Promise!Next]_<<out, survivors>>
<1> SUFFICES ASSUME BookInv, [Next]_vars, ~UNCHANGED <<out, survivors>>
             PROVE  Promise!Next
  OBVIOUS
<1>1. CASE Rename
  <2>1. Staged \in WholeResults
    <3>1. sid \in 0 .. MaxSessions /\ s.staged \in 0 .. RecordLimit
        BY TypeParts, SessionFields DEF BookInv, CountsTyped
    <3> QED  BY <3>1 DEF Staged, WholeResults
  <2>2. pc = "commit" /\ temp = "synced" /\ out' = Staged
        /\ survivors' = survivors \union {Staged}
      BY <1>1, StagedOnDisk DEF Rename, Commit
  <2>3. \A c \in survivors : AgeOf(Staged) > AgeOf(c)
    <3>1. \A c \in survivors : c.by < sid  BY <2>2 DEF BookInv, OutInv
    <3>2. sid \in Nat /\ \A c \in survivors : c.by \in Nat
        BY SurvivorAge, TypeParts DEF BookInv
    <3> QED  BY <3>1, <3>2 DEF AgeOf, Staged
  <2>4. Promise!Publish(Staged)  BY <2>2, <2>3 DEF Promise!Publish
  <2> QED  BY <2>1, <2>4 DEF Promise!Next
<1>2. CASE Published
  BY <1>2 DEF Published, settled, Promise!Next, Promise!Settle
<1>3. CASE Crash
  BY <1>3 DEF Crash, Promise!Next, Promise!Crash
<1> QED  BY <1>1, <1>2, <1>3, WhoTouchesOutput

\* Whatever the Lua program, the network, the disk and the clock do, and whenever the
\* process dies, a reader of BOOKNAME.out finds a whole result, replaced only by a newer
\* one (book_output_commit).
THEOREM OutputKept == Spec => OutputPromise
<1>1. BookInv /\ [Next]_vars => [Promise!Next]_<<out, survivors>>  BY PromiseStep
<1> QED  BY <1>1, PromiseInit, BookInvariant, PTL DEF Spec, OutputPromise, Promise!Spec
===============================================================================
