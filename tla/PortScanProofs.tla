---------------------------- MODULE PortScanProofs ----------------------------
(***************************************************************************)
(* What the model of the port scanner, and of those who read its results,  *)
(* satisfies for every number of ports, every window, every number of      *)
(* scans and every plan.                                                   *)
(***************************************************************************)
EXTENDS PortDisplay, SequenceTheorems, WellFoundedInduction, FiniteSetTheorems, TLAPS

-------------------------------------------------------------------------------
(* The operators the steps are built from.                                 *)

\* The running leg has a family and a protocol.
LEMMA LegKind ==
    ASSUME leg \in 1 .. 4
    PROVE  Family \in Families /\ Protocol \in Protocols
<1>1. leg = 1 \/ leg = 2 \/ leg = 3 \/ leg = 4  OBVIOUS
<1>2. CASE leg = 1  BY <1>2 DEF Family, Protocol, LegOrder, Families, Protocols
<1>3. CASE leg = 2  BY <1>3 DEF Family, Protocol, LegOrder, Families, Protocols
<1>4. CASE leg = 3  BY <1>4 DEF Family, Protocol, LegOrder, Families, Protocols
<1>5. CASE leg = 4  BY <1>5 DEF Family, Protocol, LegOrder, Families, Protocols
<1> QED  BY <1>1, <1>2, <1>3, <1>4, <1>5

\* A verdict leaves PETAL->PORTS an array of marks.
LEMMA MarkPortType ==
    ASSUME NEW ports \in [Port -> {"none", "open", "closed"}], NEW p \in Port, NEW state
    PROVE  MarkPort(ports, p, state) \in [Port -> {"none", "open", "closed"}]
BY DEF MarkPort

\* A host's replies are replies.
LEMMA RepliesType ==
    ASSUME TypeOK, leg \in 1 .. 4, NEW p \in Port
    PROVE  Replies(p) \subseteq Reply
<1>1. Family \in Families /\ Protocol \in Protocols  BY LegKind
<1>2. LegId \in Nat  BY DEF LegId, TypeOK, LegIndex
<1>3. Answers[Protocol] \subseteq Answers["TCP"] \cup Answers["UDP"]
    BY <1>1 DEF Answers, Protocols
<1>4. at[p] \in Nat  BY DEF TypeOK
<1> QED  BY <1>1, <1>2, <1>3, <1>4 DEF Replies, Reply

\* A reply that matches a probe has a state and an evidence.
LEMMA VerdictType ==
    ASSUME NEW r \in Reply, Matches(r)
    PROVE  Verdict(r)[1] \in States /\ Verdict(r)[2] \in Evidence
<1>1. CASE Protocol = "TCP"
    BY <1>1 DEF Matches, Verdict, TcpDirect, TcpIcmp, States, Evidence
<1>2. CASE Protocol # "TCP"
    BY <1>2 DEF Matches, Verdict, UdpDirect, UdpIcmp, States, Evidence
<1> QED  BY <1>1, <1>2

\* Giving a verdict keeps the types.
LEMMA FinalizeType ==
    ASSUME TypeOK, leg \in 1 .. 4,
           NEW p \in Port, NEW state \in States, NEW evidence \in Evidence,
           NEW ok \in BOOLEAN, Finalize(p, state, evidence, ok)
    PROVE  /\ rows' \in Seq(Row)
           /\ summary' \in [Protocols -> [States -> Nat]]
           /\ petal' \in Petal
           /\ pend' \in [Port -> {"free", "staged", "sent", "done"}]
           /\ now' \in Nat \ {0}
<1>1. Family \in Families /\ Protocol \in Protocols  BY LegKind
<1>2. LegId \in Nat  BY DEF LegId, TypeOK, LegIndex
<1>3. rows' \in Seq(Row)
  <2> DEFINE row == [ts |-> now, proto |-> Protocol, fam |-> Family, port |-> p,
                     state |-> state, evidence |-> evidence,
                     rx |-> evidence \notin {"TIMEOUT", "NETWORK_ERROR"},
                     kept |-> ok, leg |-> LegId]
  <2>1. (evidence \notin {"TIMEOUT", "NETWORK_ERROR"}) \in BOOLEAN  OBVIOUS
  <2>2. row \in Row  BY <1>1, <1>2, <2>1 DEF Row, TypeOK
  <2>3. rows' = Append(rows, row)  BY DEF Finalize
  <2> QED  BY <2>2, <2>3, AppendProperties DEF TypeOK
<1>4. summary' \in [Protocols -> [States -> Nat]]
  <2>1. summary \in [Protocols -> [States -> Nat]]  BY DEF TypeOK
  <2>2. summary' = [summary EXCEPT ![Protocol][state] = @ + 1]  BY DEF Finalize
  <2> QED  BY <1>1, <2>1, <2>2
<1>5. petal' \in Petal
  <2>1. petal \in Petal  BY DEF TypeOK
  <2>2. MarkPort(petal.ports, p, state) \in [Port -> {"none", "open", "closed"}]
      BY <2>1, MarkPortType DEF Petal
  <2>3. petal' = IF Protocol = "TCP"
                 THEN [petal EXCEPT !.ports = MarkPort(petal.ports, p, state)] ELSE petal
      BY DEF Finalize
  <2> QED  BY <2>1, <2>2, <2>3 DEF Petal
<1>6. pend' \in [Port -> {"free", "staged", "sent", "done"}]  BY DEF Finalize, TypeOK
<1>7. now' \in Nat \ {0}  BY DEF Finalize, TypeOK
<1> QED  BY <1>3, <1>4, <1>5, <1>6, <1>7

\* Counting faults keeps their type.
LEMMA SpendType ==
    ASSUME TypeOK, NEW n \in Nat, NEW ok \in BOOLEAN, Spend(n, ok)
    PROVE  faults' \in Nat
BY DEF Spend, TypeOK

\* Leaving a leg keeps the types of what it changes.
LEMMA LeaveLegType ==
    ASSUME TypeOK, leg \in 1 .. 4, LeaveLeg
    PROVE  /\ phase' \in {"leg", "enrich"}
           /\ leg' \in LegIndex
           /\ phase' # "leg" => leg' < 5
BY DEF LeaveLeg, LegIndex

\* The probes of a batch are staged later than anything before.
LEMMA StageAllTimes ==
    ASSUME TypeOK, NEW batch \in SUBSET Port, StageAll(batch)
    PROVE  /\ at' \in [Port -> Nat] /\ mono' \in Nat /\ mono <= mono'
           /\ \A p \in Port : at'[p] <= mono'
           /\ \A p \in batch : mono < at'[p]
<1>0. PICK d \in Gaps : \E t \in [batch -> mono + 1 .. mono + d] :
        /\ at' = [p \in Port |-> IF p \in batch THEN t[p] ELSE 0]
        /\ mono' = mono + d
    BY DEF StageAll
<1>1. PICK t \in [batch -> mono + 1 .. mono + d] :
        /\ at' = [p \in Port |-> IF p \in batch THEN t[p] ELSE 0]
        /\ mono' = mono + d
    BY <1>0
<1>2. mono \in Nat /\ d \in Nat  BY CycleAssumption DEF TypeOK
<1>3. \A p \in batch : t[p] \in mono + 1 .. mono + d  BY <1>1
<1>4. \A p \in batch : t[p] \in Nat /\ mono < t[p] /\ t[p] <= mono'
    BY <1>1, <1>2, <1>3
<1>5. mono' \in Nat /\ mono <= mono'  BY <1>1, <1>2
<1>6. \A p \in Port : at'[p] \in Nat /\ at'[p] <= mono'  BY <1>1, <1>4, <1>5
<1>7. at' \in [Port -> Nat]  BY <1>1, <1>4
<1>8. \A p \in batch : mono < at'[p]  BY <1>1, <1>4
<1> QED  BY <1>5, <1>6, <1>7, <1>8

-------------------------------------------------------------------------------
(* Type correctness.                                                       *)

LEMMA TypeInit == Init => TypeOK
<1> SUFFICES ASSUME Init PROVE TypeOK  OBVIOUS
<1>1. rows \in Seq(Row)  BY DEF Init
<1>2. petal \in Petal /\ disk \in Petal \cup {Unreadable}  BY DEF Init, Petal, BlankPorts
<1>3. summary \in [Protocols -> [States -> Nat]]  BY DEF Init, NoVerdicts
<1>4. nextPort \in 1 .. MaxPorts  BY MaxPortsAssumption DEF Init
<1>5. pend \in [Port -> {"free", "staged", "sent", "done"}]  BY DEF Init
<1>6. plan \in [Protocols -> SUBSET Port]  BY DEF Init
<1>7. legStart \in Nat /\ scan \in Nat /\ now \in Nat \ {0} /\ faults \in Nat /\ steps \in Nat
    BY DEF Init
<1>8. /\ addrs \subseteq Families /\ shared \in BOOLEAN
      /\ enriched \subseteq Port /\ air \subseteq Reply
      /\ at \in [Port -> Nat] /\ mono \in Nat
    BY DEF Init
<1>9. leg \in LegIndex /\ phase = "idle" /\ status = "NORMAL"  BY DEF Init, LegIndex
<1> QED  BY <1>1, <1>2, <1>3, <1>4, <1>5, <1>6, <1>7, <1>8, <1>9 DEF TypeOK

\* A step of a leg keeps the types.
LEMMA TypeLegStep == TypeOK /\ InLeg /\ LegStep => TypeOK'
<1> SUFFICES ASSUME TypeOK, InLeg, LegStep PROVE TypeOK'  OBVIOUS
<1> USE DEF record, world
<1>0. leg \in 1 .. 4 /\ Protocol \in Protocols
    BY LegKind DEF InLeg, TypeOK, LegIndex
<1>1. CASE Fill
  <2>1. PICK e \in nextPort + 1 .. MaxPorts :
          LET batch == plan[Protocol] \cap (nextPort .. e - 1)
          IN  /\ nextPort' = e
              /\ pend' = [p \in Port |-> IF p \in batch THEN "staged" ELSE "free"]
              /\ StageAll(batch)
              /\ \/ UNCHANGED <<phase, leg, status, air, faults>>
                 \/ /\ phase' = "send" /\ air' \in SUBSET air
                    /\ UNCHANGED <<leg, status, faults>>
                 \/ /\ status' = "ABNORMAL" /\ faults' = faults + 1
                    /\ LeaveLeg /\ UNCHANGED air
      BY <1>1 DEF Fill
  <2>2. nextPort' \in 1 .. MaxPorts  BY <2>1, MaxPortsAssumption DEF TypeOK
  <2>3. pend' \in [Port -> {"free", "staged", "sent", "done"}]  BY <2>1
  <2>4. UNCHANGED <<scan, plan, addrs, shared, legStart, record, now, steps>>
      BY <1>1 DEF Fill
  <2>a. at' \in [Port -> Nat] /\ mono' \in Nat
    <3>1. plan[Protocol] \cap (nextPort .. e - 1) \in SUBSET Port  BY <1>0 DEF TypeOK
    <3> QED  BY <2>1, <3>1, StageAllTimes
  <2>5. CASE LeaveLeg /\ status' = "ABNORMAL" /\ faults' = faults + 1 /\ air' = air
      BY <1>0, <2>2, <2>3, <2>4, <2>a, <2>5, LeaveLegType DEF TypeOK
  <2>6. CASE UNCHANGED <<leg, status, faults>> /\ phase' \in {phase, "send"}
             /\ air' \in SUBSET air
      BY <1>0, <2>2, <2>3, <2>4, <2>a, <2>6 DEF TypeOK
  <2> QED  BY <2>1, <2>5, <2>6
<1>2. CASE ProbeSent
  <2>1. PICK p \in Port : pend' = [pend EXCEPT ![p] = "sent"] /\ HostAnswers(p)
      BY <1>2 DEF ProbeSent, First, Staged
  <2>2. air' \subseteq Reply  BY <1>0, <2>1, RepliesType DEF HostAnswers, TypeOK
  <2>3. pend' \in [Port -> {"free", "staged", "sent", "done"}]  BY <2>1 DEF TypeOK
  <2> QED  BY <1>2, <2>2, <2>3 DEF ProbeSent, TypeOK
<1>3. CASE ProbeFails
  <2>1. PICK p \in Port, ok \in BOOLEAN :
          Finalize(p, "ERROR", "NETWORK_ERROR", ok) /\ Spend(1, ok) /\ HostAnswers(p)
      BY <1>3 DEF ProbeFails, First, Staged, Outcomes
  <2>2. air' \subseteq Reply  BY <1>0, <2>1, RepliesType DEF HostAnswers, TypeOK
  <2>3. faults' \in Nat  BY <2>1, SpendType
  <2>4. "ERROR" \in States /\ "NETWORK_ERROR" \in Evidence  BY DEF States, Evidence
  <2> QED  BY <1>0, <1>3, <2>1, <2>2, <2>3, <2>4, FinalizeType DEF ProbeFails, TypeOK
<1>4. CASE RouteFails
  <2>1. PICK p \in Port, ok \in BOOLEAN :
          Finalize(p, "ERROR", "NETWORK_ERROR", ok) /\ Spend(1, ok)
      BY <1>4 DEF RouteFails, First, Staged, Outcomes
  <2>2. faults' \in Nat  BY <2>1, SpendType
  <2>3. "ERROR" \in States /\ "NETWORK_ERROR" \in Evidence  BY DEF States, Evidence
  <2>4. LeaveLeg  BY <1>4 DEF RouteFails
  <2> QED  BY <1>0, <1>4, <2>1, <2>2, <2>3, <2>4, FinalizeType, LeaveLegType
           DEF RouteFails, TypeOK
<1>5. CASE BatchSent  BY <1>0, <1>5 DEF BatchSent, TypeOK
<1>6. CASE ReceiveReply
  <2>1. PICK r \in air, again \in BOOLEAN, ok \in BOOLEAN :
          /\ air' = IF again THEN air ELSE air \ {r}
          /\ \/ /\ Matches(r)
                /\ Finalize(r.port, Verdict(r)[1], Verdict(r)[2], ok)
                /\ Spend(0, ok)
             \/ UNCHANGED <<rows, summary, petal, pend, now, faults>>
      BY <1>6 DEF ReceiveReply, Outcomes
  <2>2. r \in Reply /\ air' \subseteq Reply  BY <2>1 DEF TypeOK
  <2>3. CASE Matches(r) /\ Finalize(r.port, Verdict(r)[1], Verdict(r)[2], ok) /\ Spend(0, ok)
    <3>1. r.port \in Port  BY <2>2 DEF Reply
    <3>2. faults' \in Nat  BY <2>3, SpendType
    <3>3. Verdict(r)[1] \in States /\ Verdict(r)[2] \in Evidence  BY <2>2, <2>3, VerdictType
    <3>4. /\ rows' \in Seq(Row) /\ summary' \in [Protocols -> [States -> Nat]]
          /\ petal' \in Petal /\ now' \in Nat \ {0}
          /\ pend' \in [Port -> {"free", "staged", "sent", "done"}]
        BY <1>0, <2>1, <2>3, <3>1, <3>3, FinalizeType
    <3> QED  BY <1>6, <2>2, <3>2, <3>4 DEF ReceiveReply, TypeOK
  <2>4. CASE UNCHANGED <<rows, summary, petal, pend, now, faults>>
      BY <1>6, <2>2, <2>4 DEF ReceiveReply, TypeOK
  <2> QED  BY <2>1, <2>3, <2>4
<1>7. CASE ReceiveEnds   BY <1>0, <1>7 DEF ReceiveEnds, TypeOK
<1>8. CASE ReceiveFails  BY <1>0, <1>8 DEF ReceiveFails, TypeOK
<1>9. CASE ExpireProbe
  <2>1. PICK p \in Port, ok \in BOOLEAN :
          Finalize(p, TimeoutState(Protocol), "TIMEOUT", ok) /\ Spend(0, ok)
      BY <1>9 DEF ExpireProbe, First, Outstanding, Outcomes
  <2>2. faults' \in Nat  BY <2>1, SpendType
  <2>3. TimeoutState(Protocol) \in States \ {"OPEN"} /\ "TIMEOUT" \in Evidence
      BY DEF TimeoutState, States, Evidence
  <2> QED  BY <1>0, <1>9, <2>1, <2>2, <2>3, FinalizeType DEF ExpireProbe, TypeOK
<1>10. CASE BatchDone  BY <1>0, <1>10 DEF BatchDone, TypeOK
<1>11. CASE LegEnds  BY <1>0, <1>11, LeaveLegType DEF LegEnds, TypeOK
<1> QED  BY <1>1, <1>2, <1>3, <1>4, <1>5, <1>6, <1>7, <1>8, <1>9, <1>10, <1>11 DEF LegStep

\* The stamped petal, and what its write made of the file.
Stamps(stamped, w) ==
    /\ stamped = [petal EXCEPT !.lastScan = scan]
    /\ w \in WritePetal(stamped)
    /\ faults' = faults + w.cost
    /\ disk' = w.file
    /\ petal' = IF w.ok THEN stamped ELSE petal
    /\ now' = now + 1

\* A scan of a target with an address ends with such a write.
LEMMA FinishWrites ==
    ASSUME FinishScan, ~(addrs = {} /\ UNCHANGED <<petal, disk, now, faults>>)
    PROVE  \E stamped, w : Stamps(stamped, w)
<1> DEFINE stamped == [petal EXCEPT !.lastScan = scan]
<1>1. \E w \in WritePetal(stamped) :
        /\ faults' = faults + w.cost
        /\ disk' = w.file
        /\ petal' = IF w.ok THEN stamped ELSE petal
        /\ now' = now + 1
    BY DEF FinishScan
<1>2. PICK w \in WritePetal(stamped) :
        /\ faults' = faults + w.cost
        /\ disk' = w.file
        /\ petal' = IF w.ok THEN stamped ELSE petal
        /\ now' = now + 1
    BY <1>1
<1>3. Stamps(stamped, w)  BY <1>2 DEF Stamps
<1> QED  BY <1>3

\* Every step keeps the types.
LEMMA TypeStep == TypeOK /\ [Next]_vars => TypeOK'
<1> SUFFICES ASSUME TypeOK, [Next]_vars PROVE TypeOK'  OBVIOUS
<1> USE DEF engine, record, world
<1>1. CASE StartScan
  <2>1. plan' \in [Protocols -> SUBSET Port]  BY <1>1, PlansAssumption DEF StartScan
  <2>2. addrs' \subseteq Families  BY <1>1, AddressAssumption DEF StartScan
  <2>3. petal' \in Petal
    <3>1. petal' \in {petal, disk} \ {Unreadable}  BY <1>1 DEF StartScan
    <3> QED  BY <3>1 DEF TypeOK
  <2>4. summary' \in [Protocols -> [States -> Nat]]  BY <1>1 DEF StartScan, NoVerdicts
  <2> QED  BY <1>1, <2>1, <2>2, <2>3, <2>4 DEF StartScan, TypeOK, LegIndex
<1>2. CASE TcpLeg \/ UdpLeg
  <2>1. InLeg /\ LegStep  BY <1>2 DEF TcpLeg, UdpLeg, InLeg, TypeOK
  <2> QED  BY <2>1, TypeLegStep
<1>3. CASE BeginLeg
  <2>1. leg \in 1 .. 4 /\ Protocol \in Protocols
      BY <1>3, LegKind DEF BeginLeg, TypeOK, LegIndex
  <2>2. nextPort' \in 1 .. MaxPorts  BY <1>3, MaxPortsAssumption DEF BeginLeg
  <2>3. pend' \in [Port -> {"free", "staged", "sent", "done"}]  BY <1>3 DEF BeginLeg
  <2>4. now' \in Nat \ {0} /\ legStart' \in Nat  BY <1>3 DEF BeginLeg, TypeOK
  <2>5. faults' \in Nat /\ status' \in {"NORMAL", "ABNORMAL"}
      BY <1>3 DEF BeginLeg, TypeOK
  <2>6. /\ phase' \in {"fill", "leg", "enrich"} /\ leg' \in LegIndex
        /\ phase' # "leg" => leg' < 5
      BY <1>3, <2>1, LeaveLegType DEF BeginLeg, LegIndex
  <2> QED  BY <1>3, <2>2, <2>3, <2>4, <2>5, <2>6 DEF BeginLeg, TypeOK
<1>4. CASE SkipLeg  BY <1>4 DEF SkipLeg, TypeOK, LegIndex
<1>5. CASE Enrich
  <2>1. enriched' \subseteq Port /\ air' \subseteq Reply
      BY <1>5 DEF Enrich, FoundOpen, TypeOK
  <2> QED  BY <1>5, <2>1 DEF Enrich, TypeOK, LegIndex
<1>6. CASE FinishScan
  <2>1. /\ petal' \in Petal /\ disk' \in Petal \cup {Unreadable}
        /\ faults' \in Nat /\ now' \in Nat \ {0}
    <3>1. CASE addrs = {} /\ UNCHANGED <<petal, disk, now, faults>>  BY <3>1 DEF TypeOK
    <3>2. CASE ~(addrs = {} /\ UNCHANGED <<petal, disk, now, faults>>)
      <4>1. PICK stamped, w : Stamps(stamped, w)  BY <1>6, <3>2, FinishWrites
      <4>2. stamped \in Petal  BY <4>1 DEF Stamps, TypeOK, Petal
      <4>3. w.file \in {stamped, disk, Unreadable} /\ w.cost \in {0, 1}
          BY <4>1 DEF Stamps, WritePetal
      <4>4. faults \in Nat /\ now \in Nat \ {0} /\ petal \in Petal
            /\ disk \in Petal \cup {Unreadable}
          BY DEF TypeOK
      <4>5. faults' \in Nat
        <5>1. PICK c \in {0, 1} : c = w.cost  BY <4>3
        <5> QED  BY <4>1, <4>4, <5>1 DEF Stamps
      <4> QED  BY <4>1, <4>2, <4>3, <4>4, <4>5 DEF Stamps
    <3> QED  BY <3>1, <3>2
  <2> QED  BY <1>6, <2>1 DEF FinishScan, TypeOK, LegIndex
<1>7. CASE ClockSteps
  <2>1. now' \in Nat \ {0} /\ steps' \in Nat  BY <1>7 DEF ClockSteps, TypeOK
  <2> QED  BY <1>7, <2>1 DEF ClockSteps, TypeOK
<1>8. CASE UNCHANGED vars  BY <1>8 DEF vars, TypeOK
<1>9. CASE PassOver
  <2>1. scan' \in Nat /\ faults' \in Nat  BY <1>9 DEF PassOver, TypeOK
  <2>2. shared' \in BOOLEAN  BY <1>9, Zenon DEF PassOver
  <2> QED  BY <1>9, <2>1, <2>2 DEF PassOver, TypeOK
<1> QED  BY <1>1, <1>2, <1>3, <1>4, <1>5, <1>6, <1>7, <1>8, <1>9 DEF Next, ScanStep, Done

\* The variables of the scanner keep the types the C declarations give them, in every
\* run with any number of ports, scans, faults and clock steps.
THEOREM TypeCorrect == Spec => []TypeOK
<1>1. Init => TypeOK  BY TypeInit
<1>2. TypeOK /\ [Next]_vars => TypeOK'  BY TypeStep
<1> QED  BY <1>1, <1>2, PTL DEF Spec

-------------------------------------------------------------------------------
(* One verdict per port and leg.  VerdictOnce is not inductive: a step that *)
(* retires a probe must know that its port has no verdict yet, which the   *)
(* rows alone do not say.  VerdictInv relates them to the pending table:   *)
(* the ports of the running leg with a verdict are exactly the planned     *)
(* ones below NEXT_PORT that are no longer staged or sent.                 *)

\* The probe of port p still waits for its verdict.
Waiting(p) == pend[p] \in {"staged", "sent"}

\* A line of rs gives port p a verdict in leg l.
GivenIn(rs, p, l) == \E i \in DOMAIN rs : rs[i].leg = l /\ rs[i].port = p

\* No line belongs to a leg still to come, nor to the next one between legs.
RowsOfPast ==
    \A i \in DOMAIN rows :
        rows[i].leg <= LegId /\ (phase \in {"leg", "idle"} => rows[i].leg < LegId)

\* The pending table and the lines of the running leg agree.
PendingIsExact ==
    InLeg =>
        /\ \A p \in Port : GivenIn(rows, p, LegId)
                             <=> p \in plan[Protocol] /\ p < nextPort /\ ~Waiting(p)
        /\ \A p \in Port : Waiting(p) => p \in plan[Protocol] /\ p < nextPort

\* Nothing waits between two batches, and nothing is left unsent once they are read.
BatchInStep ==
    /\ phase = "fill" => \A p \in Port : ~Waiting(p)
    /\ phase \in {"receive", "expire"} => \A p \in Port : pend[p] # "staged"

VerdictInv == TypeOK /\ VerdictOnce /\ RowsOfPast /\ PendingIsExact /\ BatchInStep

\* What a line is made of.
LEMMA RowFields ==
    ASSUME NEW rs \in Seq(Row)
    PROVE  \A i \in DOMAIN rs : rs[i].leg \in Nat /\ rs[i].ts \in Nat /\ rs[i].port \in Port
<1>1. \A i \in DOMAIN rs : rs[i] \in Row  OBVIOUS
<1> QED  BY <1>1 DEF Row

\* LegId numbers the legs of all scans in the order they are run.
LEMMA LegIdType == ASSUME TypeOK PROVE LegId \in Nat
BY DEF LegId, TypeOK, LegIndex

\* The leg after this one has a greater number.
LEMMA LegIdGrows ==
    ASSUME TypeOK, leg' = leg + 1, scan' = scan
    PROVE  LegId' = LegId + 1
BY DEF LegId, TypeOK, LegIndex

\* Retiring a waiting probe appends the only line of its port in this leg.
LEMMA FinalizeOnce ==
    ASSUME VerdictInv, InLeg, NEW p \in Port, Waiting(p),
           NEW state \in States, NEW evidence \in Evidence, NEW ok \in BOOLEAN,
           Finalize(p, state, evidence, ok)
    PROVE  /\ VerdictOnce'
           /\ \A i \in DOMAIN rows' : rows'[i].leg <= LegId
           /\ \A q \in Port : GivenIn(rows', q, LegId) <=> GivenIn(rows, q, LegId) \/ q = p
           /\ pend' = [pend EXCEPT ![p] = "done"]
<1> DEFINE row == [ts |-> now, proto |-> Protocol, fam |-> Family, port |-> p,
                   state |-> state, evidence |-> evidence,
                   rx |-> evidence \notin {"TIMEOUT", "NETWORK_ERROR"},
                   kept |-> ok, leg |-> LegId]
<1>1. rows' = Append(rows, row) /\ pend' = [pend EXCEPT ![p] = "done"]  BY DEF Finalize
<1>2. row.leg = LegId /\ row.port = p  OBVIOUS
<1> HIDE DEF row
<1>3. rows \in Seq(Row)  BY DEF VerdictInv, TypeOK
<1>4. /\ DOMAIN rows = 1 .. Len(rows) /\ Len(rows) \in Nat
      /\ DOMAIN rows' = 1 .. Len(rows) + 1
      /\ \A i \in 1 .. Len(rows) : rows'[i] = rows[i]
      /\ rows'[Len(rows) + 1] = row
    BY <1>1, <1>3
<1>5. ~GivenIn(rows, p, LegId)  BY DEF VerdictInv, PendingIsExact
<1>6. VerdictOnce'
  <2> SUFFICES ASSUME NEW i \in DOMAIN rows', NEW j \in DOMAIN rows',
                      rows'[i].leg = rows'[j].leg, rows'[i].port = rows'[j].port
               PROVE  i = j
      BY DEF VerdictOnce
  <2>1. \A k \in 1 .. Len(rows) : ~(rows[k].leg = LegId /\ rows[k].port = p)
      BY <1>4, <1>5 DEF GivenIn
  <2>2. CASE i \in 1 .. Len(rows) /\ j \in 1 .. Len(rows)
      BY <1>4, <2>2 DEF VerdictInv, VerdictOnce
  <2>3. CASE i = Len(rows) + 1 /\ j \in 1 .. Len(rows)  BY <1>2, <1>4, <2>1, <2>3
  <2>4. CASE j = Len(rows) + 1 /\ i \in 1 .. Len(rows)  BY <1>2, <1>4, <2>1, <2>4
  <2> QED  BY <1>4, <2>2, <2>3, <2>4
<1>7. \A i \in DOMAIN rows' : rows'[i].leg <= LegId
    BY <1>2, <1>4, LegIdType DEF VerdictInv, RowsOfPast
<1>8. \A q \in Port : GivenIn(rows', q, LegId) <=> GivenIn(rows, q, LegId) \/ q = p
  <2> TAKE q \in Port
  <2>1. GivenIn(rows', q, LegId) => GivenIn(rows, q, LegId) \/ q = p
      BY <1>2, <1>4 DEF GivenIn
  <2>2. GivenIn(rows, q, LegId) => GivenIn(rows', q, LegId)  BY <1>4 DEF GivenIn
  <2>3. q = p => GivenIn(rows', q, LegId)
    <3>1. Len(rows) + 1 \in DOMAIN rows'  BY <1>4
    <3> QED  BY <1>2, <1>4, <3>1 DEF GivenIn
  <2> QED  BY <2>1, <2>2, <2>3
<1> QED  BY <1>1, <1>6, <1>7, <1>8

\* A retired probe leaves the table exact, as long as the leg goes on.
LEMMA FinalizeKeepsTable ==
    ASSUME VerdictInv, InLeg, NEW p \in Port, Waiting(p),
           NEW state \in States, NEW evidence \in Evidence, NEW ok \in BOOLEAN,
           Finalize(p, state, evidence, ok),
           UNCHANGED <<phase, leg, scan, plan, nextPort>>
    PROVE  VerdictOnce' /\ RowsOfPast' /\ PendingIsExact' /\ BatchInStep'
<1>1. /\ VerdictOnce'
      /\ \A i \in DOMAIN rows' : rows'[i].leg <= LegId
      /\ \A q \in Port : GivenIn(rows', q, LegId) <=> GivenIn(rows, q, LegId) \/ q = p
      /\ pend' = [pend EXCEPT ![p] = "done"]
    BY FinalizeOnce
<1>2. LegId' = LegId /\ Protocol' = Protocol /\ InLeg'  BY DEF LegId, Protocol, InLeg
<1>3. RowsOfPast'  BY <1>1, <1>2 DEF RowsOfPast, InLeg
<1>4. pend \in [Port -> {"free", "staged", "sent", "done"}]  BY DEF VerdictInv, TypeOK
<1>5. \A q \in Port : Waiting(q)' <=> Waiting(q) /\ q # p  BY <1>1, <1>4 DEF Waiting
<1>6. PendingIsExact'
  <2>1. \A q \in Port : Waiting(q) => q \in plan[Protocol] /\ q < nextPort
      BY DEF VerdictInv, PendingIsExact
  <2>2. \A q \in Port : GivenIn(rows', q, LegId)
                          <=> q \in plan[Protocol] /\ q < nextPort /\ ~Waiting(q)'
      BY <1>1, <1>5, <2>1 DEF VerdictInv, PendingIsExact
  <2> QED  BY <1>2, <1>5, <2>1, <2>2 DEF PendingIsExact
<1>7. BatchInStep'  BY <1>1, <1>4, <1>5 DEF BatchInStep, VerdictInv
<1> QED  BY <1>1, <1>3, <1>6, <1>7

\* Leaving a leg whose lines are all of legs up to this one.
LEMMA LeaveLegKeepsPast ==
    ASSUME TypeOK, LeaveLeg, scan' = scan, leg \in 1 .. 4,
           \A i \in DOMAIN rows' : rows'[i].leg \in Nat /\ rows'[i].leg <= LegId
    PROVE  RowsOfPast' /\ PendingIsExact' /\ BatchInStep' /\ ~InLeg'
<1>0. LegId \in Nat  BY LegIdType
<1>1. CASE Protocol = "TCP"
  <2>1. phase' = "enrich" /\ LegId' = LegId  BY <1>1 DEF LeaveLeg, LegId
  <2> QED  BY <2>1 DEF RowsOfPast, PendingIsExact, BatchInStep, InLeg
<1>2. CASE Protocol # "TCP"
  <2>1. phase' = "leg" /\ leg' = leg + 1  BY <1>2 DEF LeaveLeg
  <2>2. LegId' = LegId + 1  BY <2>1, LegIdGrows
  <2> QED  BY <1>0, <2>1, <2>2 DEF RowsOfPast, PendingIsExact, BatchInStep, InLeg
<1> QED  BY <1>1, <1>2

LEMMA VerdictInit == Init => VerdictInv
<1> SUFFICES ASSUME Init PROVE VerdictInv  OBVIOUS
<1>1. TypeOK  BY TypeInit
<1>2. DOMAIN rows = {}  BY DEF Init
<1> QED  BY <1>1, <1>2 DEF VerdictInv, VerdictOnce, RowsOfPast, PendingIsExact, BatchInStep,
                           InLeg, Init

\* A step of a leg keeps the invariant, and if it ends the leg NORMAL every planned
\* port has its verdict.
LEMMA VerdictLegStep ==
    ASSUME VerdictInv, InLeg, LegStep
    PROVE  /\ VerdictOnce' /\ RowsOfPast' /\ PendingIsExact' /\ BatchInStep'
           /\ ~InLeg' /\ status' = "NORMAL" => \A p \in plan[Protocol] : HasVerdict(p, LegId)
<1> USE DEF record, world
<1>0. TypeOK /\ leg \in 1 .. 4 /\ Protocol \in Protocols /\ LegId \in Nat
    BY LegKind, LegIdType DEF VerdictInv, InLeg, TypeOK, LegIndex
<1>a. \A i \in DOMAIN rows : rows[i].leg \in Nat /\ rows[i].leg <= LegId
    BY <1>0, RowFields DEF VerdictInv, RowsOfPast, TypeOK
<1>1. CASE Fill
  <2>1. PICK e \in nextPort + 1 .. MaxPorts :
          LET batch == plan[Protocol] \cap (nextPort .. e - 1)
          IN  /\ nextPort' = e
              /\ pend' = [p \in Port |-> IF p \in batch THEN "staged" ELSE "free"]
              /\ \/ batch = {} /\ UNCHANGED <<phase, leg>>
                 \/ phase' = "send" /\ UNCHANGED leg
                 \/ status' = "ABNORMAL" /\ LeaveLeg
      BY <1>1 DEF Fill
  <2>2. phase = "fill" /\ UNCHANGED <<scan, plan, rows>>  BY <1>1 DEF Fill
  <2>3. VerdictOnce'  BY <2>2 DEF VerdictOnce, VerdictInv
  <2>4. CASE LeaveLeg /\ status' = "ABNORMAL"
      BY <1>0, <1>a, <2>2, <2>3, <2>4, LeaveLegKeepsPast
  <2>5. CASE /\ UNCHANGED leg
             /\ \/ phase' = phase /\ plan[Protocol] \cap (nextPort .. e - 1) = {}
                \/ phase' = "send"
    <3>1. LegId' = LegId /\ Protocol' = Protocol  BY <2>2, <2>5 DEF LegId, Protocol
    <3>2. RowsOfPast'  BY <2>2, <2>5, <3>1 DEF RowsOfPast, VerdictInv
    <3>3. nextPort \in Nat /\ nextPort < e /\ e \in Nat  BY <1>0, <2>1 DEF TypeOK
    <3>4. \A p \in Port : Waiting(p)' <=> p \in plan[Protocol] /\ nextPort <= p /\ p < e
        BY <2>1, <3>3 DEF Waiting, Port
    <3>5. \A p \in Port : GivenIn(rows, p, LegId) <=> p \in plan[Protocol] /\ p < nextPort
        BY <2>2 DEF VerdictInv, PendingIsExact, BatchInStep, InLeg
    <3>6. \A p \in Port : p \in Nat  BY DEF Port
    <3>7. PendingIsExact'
        BY <2>1, <2>2, <3>1, <3>3, <3>4, <3>5, <3>6 DEF PendingIsExact
    <3>8. BatchInStep'
      <4>1. phase' = "fill" => \A p \in Port : ~Waiting(p)'
          BY <2>5, <3>3, <3>4, <3>6
      <4> QED  BY <2>2, <2>5, <4>1 DEF BatchInStep
    <3>9. InLeg'  BY <2>2, <2>5 DEF InLeg
    <3> QED  BY <2>3, <3>2, <3>7, <3>8, <3>9
  <2> QED  BY <2>1, <2>4, <2>5
<1>2. CASE ProbeSent
  <2>1. PICK p \in Port : pend[p] = "staged" /\ pend' = [pend EXCEPT ![p] = "sent"]
      BY <1>2 DEF ProbeSent, First, Staged
  <2>2. phase = "send" /\ UNCHANGED <<phase, leg, scan, plan, nextPort, rows>>
      BY <1>2 DEF ProbeSent
  <2>3. LegId' = LegId /\ Protocol' = Protocol /\ InLeg'  BY <2>2 DEF LegId, Protocol, InLeg
  <2>4. \A q \in Port : Waiting(q)' <=> Waiting(q)  BY <1>0, <2>1 DEF Waiting, TypeOK
  <2>5. PendingIsExact'  BY <2>2, <2>3, <2>4 DEF PendingIsExact, VerdictInv
  <2> QED  BY <2>2, <2>3, <2>5 DEF VerdictInv, VerdictOnce, RowsOfPast, BatchInStep
<1>3. CASE ProbeFails
  <2>1. PICK p \in Port, ok \in BOOLEAN :
          pend[p] = "staged" /\ Finalize(p, "ERROR", "NETWORK_ERROR", ok)
      BY <1>3 DEF ProbeFails, First, Staged, Outcomes
  <2>2. UNCHANGED <<phase, leg, scan, plan, nextPort>> /\ InLeg'
      BY <1>3 DEF ProbeFails, InLeg
  <2>3. "ERROR" \in States /\ "NETWORK_ERROR" \in Evidence  BY DEF States, Evidence
  <2> QED  BY <2>1, <2>2, <2>3, FinalizeKeepsTable DEF Waiting
<1>4. CASE RouteFails
  <2>1. PICK p \in Port, ok \in BOOLEAN :
          pend[p] = "staged" /\ Finalize(p, "ERROR", "NETWORK_ERROR", ok)
      BY <1>4 DEF RouteFails, First, Staged, Outcomes
  <2>2. LeaveLeg /\ status' = "ABNORMAL" /\ scan' = scan  BY <1>4 DEF RouteFails
  <2>3. "ERROR" \in States /\ "NETWORK_ERROR" \in Evidence  BY DEF States, Evidence
  <2>4. VerdictOnce' /\ \A i \in DOMAIN rows' : rows'[i].leg <= LegId
      BY <2>1, <2>3, FinalizeOnce DEF Waiting
  <2>5. rows' \in Seq(Row)  BY <1>0, <2>1, <2>3, FinalizeType
  <2>6. \A i \in DOMAIN rows' : rows'[i].leg \in Nat  BY <2>5, RowFields
  <2> QED  BY <1>0, <2>2, <2>4, <2>6, LeaveLegKeepsPast
<1>5. CASE BatchSent
  <2>1. /\ phase = "send" /\ phase' = "receive" /\ \A p \in Port : pend[p] # "staged"
        /\ UNCHANGED <<leg, scan, plan, nextPort, rows, pend>>
      BY <1>5 DEF BatchSent, Staged
  <2>2. LegId' = LegId /\ Protocol' = Protocol /\ InLeg'  BY <2>1 DEF LegId, Protocol, InLeg
  <2> QED  BY <2>1, <2>2 DEF VerdictInv, VerdictOnce, RowsOfPast, PendingIsExact,
                             BatchInStep, Waiting
<1>6. CASE ReceiveReply
  <2>1. PICK r \in air, ok \in BOOLEAN :
          \/ Matches(r) /\ Finalize(r.port, Verdict(r)[1], Verdict(r)[2], ok)
          \/ UNCHANGED <<rows, pend>>
      BY <1>6 DEF ReceiveReply, Outcomes
  <2>2. UNCHANGED <<phase, leg, scan, plan, nextPort>> /\ InLeg'
      BY <1>6 DEF ReceiveReply, InLeg
  <2>3. CASE Matches(r) /\ Finalize(r.port, Verdict(r)[1], Verdict(r)[2], ok)
    <3>1. r \in Reply  BY <1>0 DEF TypeOK
    <3>2. r.port \in Port  BY <3>1 DEF Reply
    <3>3. Verdict(r)[1] \in States /\ Verdict(r)[2] \in Evidence  BY <2>3, <3>1, VerdictType
    <3>4. Waiting(r.port)  BY <2>3 DEF Matches, Waiting
    <3> QED  BY <2>2, <2>3, <3>2, <3>3, <3>4, FinalizeKeepsTable
  <2>4. CASE UNCHANGED <<rows, pend>>
    <3>1. LegId' = LegId /\ Protocol' = Protocol  BY <2>2 DEF LegId, Protocol
    <3> QED  BY <2>2, <2>4, <3>1 DEF VerdictInv, VerdictOnce, RowsOfPast, PendingIsExact,
                                     BatchInStep, Waiting
  <2> QED  BY <2>1, <2>3, <2>4
<1>7. CASE ReceiveEnds \/ ReceiveFails
  <2>1. /\ phase = "receive" /\ phase' = "expire"
        /\ UNCHANGED <<leg, scan, plan, nextPort, rows, pend>>
      BY <1>7 DEF ReceiveEnds, ReceiveFails
  <2>2. LegId' = LegId /\ Protocol' = Protocol /\ InLeg'  BY <2>1 DEF LegId, Protocol, InLeg
  <2> QED  BY <2>1, <2>2 DEF VerdictInv, VerdictOnce, RowsOfPast, PendingIsExact,
                             BatchInStep, Waiting
<1>8. CASE ExpireProbe
  <2>1. PICK p \in Port, ok \in BOOLEAN :
          pend[p] = "sent" /\ Finalize(p, TimeoutState(Protocol), "TIMEOUT", ok)
      BY <1>8 DEF ExpireProbe, First, Outstanding, Outcomes
  <2>2. UNCHANGED <<phase, leg, scan, plan, nextPort>> /\ InLeg'
      BY <1>8 DEF ExpireProbe, InLeg
  <2>3. TimeoutState(Protocol) \in States \ {"OPEN"} /\ "TIMEOUT" \in Evidence
      BY DEF TimeoutState, States, Evidence
  <2> QED  BY <2>1, <2>2, <2>3, FinalizeKeepsTable DEF Waiting
<1>9. CASE BatchDone
  <2>1. /\ phase = "expire" /\ phase' = "fill" /\ \A p \in Port : pend[p] # "sent"
        /\ UNCHANGED <<leg, scan, plan, nextPort, rows, pend>>
      BY <1>9 DEF BatchDone, Outstanding
  <2>2. \A p \in Port : ~Waiting(p)  BY <2>1 DEF VerdictInv, BatchInStep, Waiting
  <2>3. LegId' = LegId /\ Protocol' = Protocol /\ InLeg'  BY <2>1 DEF LegId, Protocol, InLeg
  <2> QED  BY <2>1, <2>2, <2>3 DEF VerdictInv, VerdictOnce, RowsOfPast, PendingIsExact,
                                   BatchInStep, Waiting
<1>10. CASE LegEnds
  <2>1. /\ phase = "fill" /\ nextPort = MaxPorts /\ LeaveLeg
        /\ UNCHANGED <<scan, plan, rows>>
      BY <1>10 DEF LegEnds
  <2>2. RowsOfPast' /\ PendingIsExact' /\ BatchInStep' /\ VerdictOnce'
      BY <1>0, <1>a, <2>1, LeaveLegKeepsPast DEF VerdictInv, VerdictOnce
  <2>3. plan[Protocol] \subseteq Port  BY <1>0 DEF TypeOK
  <2>4. \A p \in Port : p < nextPort  BY <2>1, MaxPortsAssumption DEF Port
  <2>5. \A p \in plan[Protocol] : GivenIn(rows, p, LegId)
      BY <2>1, <2>3, <2>4 DEF VerdictInv, PendingIsExact, BatchInStep, InLeg
  <2> QED  BY <2>2, <2>5 DEF GivenIn, HasVerdict
<1> QED  BY <1>1, <1>2, <1>3, <1>4, <1>5, <1>6, <1>7, <1>8, <1>9, <1>10 DEF LegStep

\* Every step keeps the invariant, and a leg that ends NORMAL is complete.
LEMMA VerdictStep ==
    ASSUME VerdictInv, [Next]_vars
    PROVE  /\ VerdictInv'
           /\ InLeg /\ ~InLeg' /\ status' = "NORMAL"
                => \A p \in plan[Protocol] : HasVerdict(p, LegId)
<1> USE DEF engine, record, world
<1>0. TypeOK /\ TypeOK' /\ LegId \in Nat
    BY TypeStep, LegIdType DEF VerdictInv
<1>a. \A i \in DOMAIN rows : rows[i].leg \in Nat
    BY <1>0, RowFields DEF TypeOK
<1>1. CASE StartScan
  <2>1. /\ phase = "idle" /\ phase' = "leg" /\ leg' = 1 /\ scan' = scan + 1 /\ rows' = rows
      BY <1>1 DEF StartScan
  <2>2. LegId' \in Nat /\ LegId <= LegId'  BY <1>0, <2>1 DEF LegId, TypeOK, LegIndex
  <2>3. RowsOfPast'  BY <1>0, <1>a, <2>1, <2>2 DEF RowsOfPast, VerdictInv
  <2> QED  BY <1>0, <2>1, <2>3 DEF VerdictInv, VerdictOnce, PendingIsExact, BatchInStep, InLeg
<1>2. CASE TcpLeg \/ UdpLeg
  <2>1. InLeg /\ LegStep  BY <1>0, <1>2 DEF TcpLeg, UdpLeg, InLeg, TypeOK
  <2> QED  BY <1>0, <2>1, VerdictLegStep DEF VerdictInv
<1>3. CASE BeginLeg
  <2>1. /\ phase = "leg" /\ leg \in 1 .. 4 /\ UNCHANGED <<scan, plan, rows>>
        /\ nextPort' = 1 /\ pend' = [p \in Port |-> "free"]
        /\ (phase' = "fill" /\ UNCHANGED leg) \/ LeaveLeg
      BY <1>0, <1>3 DEF BeginLeg, TypeOK, LegIndex
  <2>2. \A i \in DOMAIN rows : rows[i].leg < LegId  BY <2>1 DEF VerdictInv, RowsOfPast
  <2>3. VerdictOnce'  BY <2>1 DEF VerdictInv, VerdictOnce
  <2>4. CASE LeaveLeg
      BY <1>0, <1>a, <2>1, <2>2, <2>3, <2>4, LeaveLegKeepsPast DEF VerdictInv, InLeg
  <2>5. CASE phase' = "fill" /\ UNCHANGED leg
    <3>1. LegId' = LegId  BY <2>1, <2>5 DEF LegId
    <3>2. RowsOfPast'  BY <1>0, <1>a, <2>1, <2>2, <2>5, <3>1 DEF RowsOfPast
    <3>3. \A p \in Port : ~Waiting(p)' /\ ~(p < 1)  BY <2>1 DEF Waiting, Port
    <3>4. \A p \in Port : ~GivenIn(rows, p, LegId)  BY <1>0, <1>a, <2>2 DEF GivenIn
    <3>5. PendingIsExact' /\ BatchInStep'
        BY <2>1, <2>5, <3>1, <3>3, <3>4 DEF PendingIsExact, BatchInStep
    <3> QED  BY <1>0, <2>1, <2>3, <3>2, <3>5 DEF VerdictInv, InLeg
  <2> QED  BY <2>1, <2>4, <2>5
<1>4. CASE SkipLeg \/ Enrich
  <2>1. /\ phase \in {"leg", "enrich"} /\ phase' = "leg" /\ leg' = leg + 1 /\ scan' = scan
        /\ rows' = rows
      BY <1>4 DEF SkipLeg, Enrich
  <2>2. LegId' = LegId + 1  BY <1>0, <2>1, LegIdGrows
  <2>3. RowsOfPast'  BY <1>0, <1>a, <2>1, <2>2 DEF RowsOfPast, VerdictInv
  <2> QED  BY <1>0, <2>1, <2>3 DEF VerdictInv, VerdictOnce, PendingIsExact, BatchInStep, InLeg
<1>5. CASE FinishScan
  <2>1. phase = "leg" /\ phase' = "idle" /\ UNCHANGED <<leg, scan, rows>>
      BY <1>5 DEF FinishScan
  <2>2. LegId' = LegId  BY <2>1 DEF LegId
  <2> QED  BY <1>0, <2>1, <2>2 DEF VerdictInv, VerdictOnce, RowsOfPast, PendingIsExact,
                                   BatchInStep, InLeg
<1>6. CASE ClockSteps \/ UNCHANGED vars
  <2>1. UNCHANGED <<phase, leg, scan, plan, nextPort, pend, rows>>
      BY <1>6 DEF ClockSteps, vars
  <2>2. LegId' = LegId /\ Protocol' = Protocol  BY <2>1 DEF LegId, Protocol
  <2> QED  BY <1>0, <2>1, <2>2 DEF VerdictInv, VerdictOnce, RowsOfPast, PendingIsExact,
                                   BatchInStep, Waiting, InLeg
<1>7. CASE PassOver
  <2>1. /\ phase = "idle" /\ phase' = "idle" /\ leg' = leg /\ scan' = scan + 1
        /\ rows' = rows
      BY <1>7 DEF PassOver
  <2>2. LegId' \in Nat /\ LegId < LegId'  BY <1>0, <2>1 DEF LegId, TypeOK, LegIndex
  <2>3. RowsOfPast'  BY <1>0, <1>a, <2>1, <2>2 DEF RowsOfPast, VerdictInv
  <2> QED  BY <1>0, <2>1, <2>3 DEF VerdictInv, VerdictOnce, PendingIsExact, BatchInStep, InLeg
<1> QED  BY <1>1, <1>2, <1>3, <1>4, <1>5, <1>6, <1>7 DEF Next, ScanStep, Done

\* A port gets at most one verdict in a leg, whatever replies come late, come twice or
\* come after the probe was retired (kportscan_*_find_pending and DONE).
THEOREM OneVerdict == Spec => []VerdictOnce
<1>1. Init => VerdictInv  BY VerdictInit
<1>2. VerdictInv /\ [Next]_vars => VerdictInv'  BY VerdictStep
<1>3. VerdictInv => VerdictOnce  BY DEF VerdictInv
<1> QED  BY <1>1, <1>2, <1>3, PTL DEF Spec

\* A leg that ends NORMAL gave every planned port its verdict: the windows cover the
\* plan and no probe of a window is forgotten, whatever the window and the plan.
THEOREM LegIsComplete == Spec => NormalLegIsComplete
<1>1. Init => VerdictInv  BY VerdictInit
<1>2. VerdictInv /\ [Next]_vars => VerdictInv'  BY VerdictStep
<1>3. VerdictInv /\ [Next]_vars
        => [InLeg /\ ~InLeg' /\ status' = "NORMAL"
             => \A p \in plan[Protocol] : HasVerdict(p, LegId)]_vars
    BY VerdictStep
<1> QED  BY <1>1, <1>2, <1>3, PTL DEF Spec, NormalLegIsComplete

-------------------------------------------------------------------------------
(* OPEN is proven.  The matcher compares two times modulo SeqCycle; that   *)
(* the SYN of an answer from before is the older one is what AirIsPast     *)
(* says: no probe of the running window was staged before a reply's.       *)

\* Every reply under way is to a SYN of the past, and those to an earlier leg are to one
\* that is older than the probe of their port in this window.
AirIsPast ==
    /\ \A p \in Port : at[p] <= mono
    /\ \A r \in air :
         /\ r.at <= mono /\ r.leg <= LegId
         /\ phase \in {"leg", "idle"} => r.leg < LegId
         /\ InLeg /\ r.leg < LegId /\ pend[r.port] # "free" => r.at < at[r.port]

\* What a reply is made of.
LEMMA ReplyFields ==
    ASSUME TypeOK
    PROVE  \A r \in air : r.leg \in Nat /\ r.at \in Nat /\ r.port \in Port
<1>1. \A r \in air : r \in Reply  BY DEF TypeOK
<1> QED  BY <1>1 DEF Reply

\* Two different times with the same number are whole cycles apart.
LEMMA SameNumber ==
    ASSUME NEW m \in Nat, NEW n \in Nat, m < n, Sequence(m) = Sequence(n)
    PROVE  m + SeqCycle <= n /\ (n - m) % SeqCycle = 0
<1>1. PICK c \in Nat : c = SeqCycle /\ c > 0  BY CycleAssumption
<1>2. m % c = n % c  BY <1>1 DEF Sequence
<1>3. m = c * (m \div c) + (m % c) /\ n = c * (n \div c) + (n % c)  BY <1>1
<1>4. PICK i \in Nat, j \in Nat : i = m \div c /\ j = n \div c  BY <1>1
<1>5. n - m = c * j - c * i  BY <1>2, <1>3, <1>4
<1>6. c * j - c * i = (j - i) * c  BY <1>1, <1>4
<1>7. j - i >= 1
  <2>1. SUFFICES ASSUME j <= i PROVE FALSE  BY <1>4
  <2>2. PICK k \in Nat : k = i - j  BY <1>4, <2>1
  <2>3. c * k \in Nat /\ c * j \in Nat  BY <1>1, <1>4, <2>2
  <2>4. c * i = c * j + c * k  BY <1>1, <1>4, <2>2
  <2> QED  BY <1>5, <2>3, <2>4
<1>8. PICK k \in Nat : k = j - i - 1
  <2>1. j - i - 1 \in Nat  BY <1>4, <1>7
  <2> QED  BY <2>1
<1>9. n - m = (k + 1) * c /\ (k + 1) * c = k * c + c /\ k * c \in Nat
    BY <1>1, <1>5, <1>6, <1>8
<1>10. ((k + 1) * c) % c = 0  BY <1>1, <1>8
<1> QED  BY <1>1, <1>9, <1>10

\* The replies stay of the past while the leg goes on with the same probes, and when it
\* is left; a reply that comes is to a probe of this leg.
LEMMA AirKept ==
    ASSUME TypeOK, AirIsPast, InLeg, leg \in 1 .. 4,
           scan' = scan, mono' \in Nat, mono <= mono',
           \A p \in Port : at'[p] <= mono',
           \A r \in air' : r \in air \/ (r.leg = LegId /\ r.at \in 0 .. mono),
           \/ LeaveLeg
           \/ /\ InLeg' /\ leg' = leg
              /\ \A r \in air : r.leg < LegId /\ pend'[r.port] # "free" => r.at < at'[r.port]
    PROVE  AirIsPast'
<1>1. LegId \in Nat /\ mono \in Nat  BY LegIdType DEF TypeOK
<1>2. \A r \in air : r.leg \in Nat /\ r.at \in Nat  BY ReplyFields
<1>3. \A r \in air' : r.at \in Nat /\ r.leg \in Nat /\ r.at <= mono' /\ r.leg <= LegId
  <2> TAKE r \in air'
  <2>1. CASE r \in air  BY <1>1, <1>2, <2>1 DEF AirIsPast
  <2>2. CASE r.leg = LegId /\ r.at \in 0 .. mono  BY <1>1, <2>2
  <2> QED  BY <2>1, <2>2
<1>4. CASE LeaveLeg
  <2>1. CASE Protocol = "TCP"
    <3>1. phase' = "enrich" /\ LegId' = LegId  BY <2>1, <1>4 DEF LeaveLeg, LegId
    <3> QED  BY <1>3, <3>1 DEF AirIsPast, InLeg
  <2>2. CASE Protocol # "TCP"
    <3>1. phase' = "leg" /\ leg' = leg + 1  BY <2>2, <1>4 DEF LeaveLeg
    <3>2. LegId' = LegId + 1  BY <3>1, LegIdGrows
    <3>3. \A r \in air' : r.leg <= LegId' /\ r.leg < LegId'  BY <1>1, <1>3, <3>2
    <3> QED  BY <1>3, <3>1, <3>3 DEF AirIsPast, InLeg
  <2> QED  BY <2>1, <2>2
<1>5. CASE /\ InLeg' /\ leg' = leg
           /\ \A r \in air : r.leg < LegId /\ pend'[r.port] # "free" => r.at < at'[r.port]
  <2>1. LegId' = LegId  BY <1>5 DEF LegId
  <2>2. phase' \notin {"leg", "idle"}  BY <1>5 DEF InLeg
  <2>3. \A r \in air' : r.leg < LegId => r \in air  BY <1>1
  <2> QED  BY <1>3, <1>5, <2>1, <2>2, <2>3 DEF AirIsPast
<1> QED  BY <1>4, <1>5

\* A step of a leg keeps the replies of the past.
LEMMA AirLegStep ==
    ASSUME TypeOK, AirIsPast, InLeg, LegStep
    PROVE  AirIsPast'
<1> USE DEF record, world
<1>0. leg \in 1 .. 4 /\ mono \in Nat /\ Protocol \in Protocols
    BY LegKind DEF InLeg, TypeOK, LegIndex
<1>a. \A r \in air : /\ r.at \in Nat /\ r.port \in Port /\ r.at <= mono
                     /\ r.leg < LegId /\ pend[r.port] # "free" => r.at < at[r.port]
    BY ReplyFields DEF AirIsPast
<1>b. /\ \A p \in Port : at[p] <= mono
      /\ pend \in [Port -> {"free", "staged", "sent", "done"}] /\ at \in [Port -> Nat]
    BY DEF AirIsPast, TypeOK
<1> DEFINE New(r) == r.leg = LegId /\ r.at \in 0 .. mono
<1>c. \A p \in Port : HostAnswers(p) => \A r \in air' : r \in air \/ New(r)
  <2> TAKE p \in Port
  <2>0. at[p] \in 0 .. mono  BY <1>0, <1>b
  <2>1. \A r \in Replies(p) : New(r)  BY <2>0 DEF Replies
  <2> HIDE DEF New
  <2> QED  BY <2>1 DEF HostAnswers
<1>d. ASSUME UNCHANGED <<scan, at, mono>>, \A r \in air' : r \in air \/ New(r),
             \/ LeaveLeg
             \/ /\ InLeg' /\ leg' = leg
                /\ \E p \in Port : \E s : /\ pend' = [pend EXCEPT ![p] = s]
                                          /\ pend[p] # "free"
             \/ InLeg' /\ leg' = leg /\ pend' = pend
      PROVE  AirIsPast'
  <2>1. CASE LeaveLeg  BY <1>0, <1>b, <1>d, <2>1, AirKept
  <2>2. CASE InLeg' /\ leg' = leg /\ \A q \in Port : pend'[q] # "free" => pend[q] # "free"
    <3>1. \A r \in air : r.leg < LegId /\ pend'[r.port] # "free" => r.at < at'[r.port]
        BY <1>a, <1>d, <2>2
    <3> QED  BY <1>0, <1>b, <1>d, <2>2, <3>1, AirKept
  <2> QED  BY <1>b, <1>d, <2>1, <2>2
<1>1. CASE Fill
  <2>1. PICK e \in nextPort + 1 .. MaxPorts :
          LET batch == plan[Protocol] \cap (nextPort .. e - 1)
          IN  /\ pend' = [p \in Port |-> IF p \in batch THEN "staged" ELSE "free"]
              /\ StageAll(batch)
              /\ \/ InLeg' /\ leg' = leg /\ air' \subseteq air
                 \/ LeaveLeg /\ air' = air
      BY <1>1 DEF Fill, InLeg
  <2> DEFINE batch == plan[Protocol] \cap (nextPort .. e - 1)
  <2>2. batch \in SUBSET Port  BY <1>0 DEF TypeOK
  <2>3. pend' = [p \in Port |-> IF p \in batch THEN "staged" ELSE "free"] /\ StageAll(batch)
      BY <2>1
  <2>4. air' \subseteq air /\ scan' = scan /\ (LeaveLeg \/ (InLeg' /\ leg' = leg))
      BY <1>1, <2>1 DEF Fill
  <2> HIDE DEF batch
  <2>5. /\ at' \in [Port -> Nat] /\ mono' \in Nat /\ mono <= mono'
        /\ \A p \in Port : at'[p] <= mono'
        /\ \A p \in batch : mono < at'[p]
      BY <2>2, <2>3, StageAllTimes
  <2>6. \A r \in air : pend'[r.port] # "free" => r.at < at'[r.port]
    <3> TAKE r \in air
    <3>1. r.port \in Port /\ r.at \in Nat /\ r.at <= mono  BY <1>a
    <3>2. SUFFICES ASSUME r.port \in batch PROVE r.at < at'[r.port]  BY <2>3, <3>1
    <3>3. mono < at'[r.port] /\ at'[r.port] \in Nat  BY <2>5, <3>1, <3>2
    <3> QED  BY <1>0, <3>1, <3>3
  <2> QED  BY <1>0, <2>4, <2>5, <2>6, AirKept
<1>2. CASE ProbeSent
  <2>1. PICK p \in Port : /\ pend[p] = "staged" /\ pend' = [pend EXCEPT ![p] = "sent"]
                          /\ HostAnswers(p)
      BY <1>2 DEF ProbeSent, First, Staged
  <2>2. UNCHANGED <<scan, at, mono, leg>> /\ InLeg'  BY <1>2 DEF ProbeSent, InLeg
  <2>3. \E q \in Port : \E s : pend' = [pend EXCEPT ![q] = s] /\ pend[q] # "free"  BY <2>1
  <2>4. \A r \in air' : r \in air \/ New(r)  BY <1>c, <2>1
  <2> QED  BY <1>d, <2>2, <2>3, <2>4
<1>3. CASE ProbeFails
  <2>1. PICK p \in Port, ok \in BOOLEAN : /\ pend[p] = "staged" /\ HostAnswers(p)
                                         /\ Finalize(p, "ERROR", "NETWORK_ERROR", ok)
      BY <1>3 DEF ProbeFails, First, Staged, Outcomes
  <2>2. UNCHANGED <<scan, at, mono, leg>> /\ InLeg'  BY <1>3 DEF ProbeFails, InLeg
  <2>3. \E q \in Port : \E s : pend' = [pend EXCEPT ![q] = s] /\ pend[q] # "free"
      BY <2>1 DEF Finalize
  <2>4. \A r \in air' : r \in air \/ New(r)  BY <1>c, <2>1
  <2> QED  BY <1>d, <2>2, <2>3, <2>4
<1>4. CASE RouteFails \/ LegEnds
  <2>1. UNCHANGED <<scan, at, mono, air>> /\ LeaveLeg  BY <1>4 DEF RouteFails, LegEnds
  <2>2. \A r \in air' : r \in air \/ New(r)  BY <2>1
  <2> QED  BY <1>d, <2>1, <2>2
<1>5. CASE BatchSent \/ ReceiveEnds \/ ReceiveFails \/ BatchDone
  <2>1. UNCHANGED <<scan, at, mono, air, leg, pend>> /\ InLeg'
      BY <1>5 DEF BatchSent, ReceiveEnds, ReceiveFails, BatchDone, InLeg
  <2>2. \A r \in air' : r \in air \/ New(r)  BY <2>1
  <2> QED  BY <1>d, <2>1, <2>2
<1>6. CASE ReceiveReply
  <2>1. PICK r \in air, ok \in BOOLEAN :
          \/ Matches(r) /\ Finalize(r.port, Verdict(r)[1], Verdict(r)[2], ok)
          \/ pend' = pend
      BY <1>6 DEF ReceiveReply, Outcomes
  <2>2. UNCHANGED <<scan, at, mono, leg>> /\ InLeg' /\ air' \subseteq air
      BY <1>6 DEF ReceiveReply, InLeg
  <2>3. \A a \in air' : a \in air \/ New(a)  BY <2>2
  <2>4. CASE pend' = pend  BY <1>d, <2>2, <2>3, <2>4
  <2>5. CASE Matches(r) /\ Finalize(r.port, Verdict(r)[1], Verdict(r)[2], ok)
    <3>1. r.port \in Port  BY <1>a
    <3>2. pend[r.port] = "sent" /\ pend' = [pend EXCEPT ![r.port] = "done"]
        BY <2>5 DEF Matches, Finalize
    <3>3. \E q \in Port : \E s : pend' = [pend EXCEPT ![q] = s] /\ pend[q] # "free"
        BY <3>1, <3>2
    <3> QED  BY <1>d, <2>2, <2>3, <3>3
  <2> QED  BY <2>1, <2>4, <2>5
<1>7. CASE ExpireProbe
  <2>1. PICK p \in Port, ok \in BOOLEAN : /\ pend[p] = "sent"
                                         /\ Finalize(p, TimeoutState(Protocol), "TIMEOUT", ok)
      BY <1>7 DEF ExpireProbe, First, Outstanding, Outcomes
  <2>2. UNCHANGED <<scan, at, mono, leg, air>> /\ InLeg'  BY <1>7 DEF ExpireProbe, InLeg
  <2>3. \E q \in Port : \E s : pend' = [pend EXCEPT ![q] = s] /\ pend[q] # "free"
      BY <2>1 DEF Finalize
  <2>4. \A r \in air' : r \in air \/ New(r)  BY <2>2
  <2> QED  BY <1>d, <2>2, <2>3, <2>4
<1> QED  BY <1>1, <1>2, <1>3, <1>4, <1>5, <1>6, <1>7 DEF LegStep

\* Every step does.
LEMMA AirStep ==
    ASSUME TypeOK, AirIsPast, [Next]_vars
    PROVE  AirIsPast'
<1> USE DEF engine, record, world
<1>0. /\ LegId \in Nat /\ mono \in Nat /\ scan \in Nat /\ leg \in 1 .. 5
      /\ \A r \in air : r.leg \in Nat
    BY LegIdType, ReplyFields DEF TypeOK, LegIndex
<1>a. /\ \A p \in Port : at[p] <= mono
      /\ \A r \in air : r.at <= mono /\ r.leg <= LegId
    BY DEF AirIsPast
<1>1. CASE TcpLeg \/ UdpLeg
  <2>1. InLeg /\ LegStep  BY <1>1 DEF TcpLeg, UdpLeg, InLeg, TypeOK
  <2> QED  BY <2>1, AirLegStep
<1>2. CASE BeginLeg
  <2>1. /\ phase = "leg" /\ leg \in 1 .. 4 /\ UNCHANGED <<scan, air, mono>>
        /\ pend' = [p \in Port |-> "free"] /\ at' = [p \in Port |-> 0]
        /\ (phase' = "fill" /\ leg' = leg) \/ LeaveLeg
      BY <1>0, <1>2 DEF BeginLeg
  <2>2. \A r \in air : r.leg < LegId  BY <2>1 DEF AirIsPast
  <2>3. LegId' \in Nat /\ LegId <= LegId' /\ phase' # "idle"
      /\ (phase' = "leg" => LegId < LegId')
      BY <1>0, <2>1 DEF LegId, LeaveLeg
  <2>4. \A r \in air : r.leg < LegId'  BY <1>0, <2>2, <2>3
  <2>5. \A r \in air : r.port \in Port  BY ReplyFields
  <2>6. \A p \in Port : at'[p] <= mono'  BY <1>0, <2>1
  <2>7. \A r \in air : pend'[r.port] = "free"  BY <2>1, <2>5
  <2>8. \A r \in air : r.leg <= LegId'  BY <1>0, <2>3, <2>4
  <2> QED  BY <1>a, <2>1, <2>4, <2>6, <2>7, <2>8 DEF AirIsPast
<1>3. CASE StartScan \/ PassOver \/ SkipLeg \/ Enrich
  <2>1. /\ phase' \in {"leg", "idle"} /\ UNCHANGED <<mono, at>> /\ air' \subseteq air
        /\ \/ scan' = scan + 1 /\ leg' \in {1, leg}
           \/ scan' = scan /\ leg' = leg + 1
        /\ scan' = scan + 1 => phase = "idle"
      BY <1>0, <1>3 DEF StartScan, PassOver, SkipLeg, Enrich
  <2>2. CASE scan' = scan /\ leg' = leg + 1
    <3>1. LegId' = LegId + 1  BY <2>2, LegIdGrows
    <3>2. \A r \in air : r.leg < LegId' /\ r.leg <= LegId'  BY <1>0, <1>a, <3>1
    <3> QED  BY <1>a, <2>1, <3>2 DEF AirIsPast, InLeg
  <2>3. CASE scan' = scan + 1 /\ leg' \in {1, leg}
    <3>1. \A r \in air : r.leg < LegId  BY <1>0, <2>1, <2>3 DEF AirIsPast
    <3>2. LegId' \in Nat /\ LegId <= LegId'
      <4>1. LegId = 4 * scan + leg /\ LegId' = 4 * (scan + 1) + leg'  BY <2>3 DEF LegId
      <4>2. CASE leg' = 1  BY <1>0, <4>1, <4>2
      <4>3. CASE leg' = leg  BY <1>0, <4>1, <4>3
      <4> QED  BY <2>3, <4>2, <4>3
    <3>3. \A r \in air : r.leg < LegId' /\ r.leg <= LegId'  BY <1>0, <3>1, <3>2
    <3> QED  BY <1>a, <2>1, <3>3 DEF AirIsPast, InLeg
  <2> QED  BY <2>1, <2>2, <2>3
<1>4. CASE FinishScan
  <2>1. phase = "leg" /\ phase' = "idle" /\ UNCHANGED <<leg, scan, air, mono, at>>
      BY <1>4 DEF FinishScan
  <2>2. LegId' = LegId  BY <2>1 DEF LegId
  <2> QED  BY <2>1, <2>2 DEF AirIsPast, InLeg
<1>5. CASE ClockSteps \/ UNCHANGED vars
  <2>1. UNCHANGED <<phase, leg, scan, air, mono, at, pend>>  BY <1>5 DEF ClockSteps, vars
  <2>2. LegId' = LegId  BY <2>1 DEF LegId
  <2> QED  BY <2>1, <2>2 DEF AirIsPast, InLeg
<1> QED  BY <1>1, <1>2, <1>3, <1>4, <1>5 DEF Next, ScanStep, Done

\* What the line of a verdict says is what the verdict was.
LEMMA FinalizeRow ==
    ASSUME TypeOK, NEW p, NEW state, NEW evidence, NEW ok,
           Finalize(p, state, evidence, ok)
    PROVE  /\ rows'[Len(rows')].state = state
           /\ rows'[Len(rows')].port = p
           /\ rows'[Len(rows')].proto = Protocol
<1> DEFINE row == [ts |-> now, proto |-> Protocol, fam |-> Family, port |-> p,
                   state |-> state, evidence |-> evidence,
                   rx |-> evidence \notin {"TIMEOUT", "NETWORK_ERROR"},
                   kept |-> ok, leg |-> LegId]
<1>1. rows' = Append(rows, row)  BY DEF Finalize
<1>2. row.state = state /\ row.port = p /\ row.proto = Protocol  OBVIOUS
<1> HIDE DEF row
<1>3. rows \in Seq(Row)  BY DEF TypeOK
<1>4. rows'[Len(rows')] = row  BY <1>1, <1>3
<1> QED  BY <1>2, <1>4

\* Only a SYN+ACK for the number of the probe makes a TCP port OPEN.
LEMMA OpenMatches ==
    ASSUME NEW r, Matches(r), Protocol = "TCP", Verdict(r)[1] = "OPEN"
    PROVE  /\ r.fam = Family /\ r.proto = "TCP" /\ r.kind = "SYN_ACK"
           /\ pend[r.port] = "sent" /\ Sequence(r.at) = Sequence(at[r.port])
<1>1. r.kind = "SYN_ACK" /\ Sequence(r.at) = Sequence(at[r.port])
    BY DEF Matches, Verdict, TcpDirect, TcpIcmp
<1> QED  BY <1>1 DEF Matches

\* OPEN over TCP means that the host answered this leg's own SYN: an answer to an earlier
\* leg or scan is taken for it only when the number of its SYN has come round, whole
\* cycles of the clock later (kportscan_tcp_sequence, kportscan_tcp_direct_reply).
THEOREM OpenProven == Spec => OpenIsProven
<1>1. ASSUME TypeOK, AirIsPast, [Next]_vars PROVE OpenAnswersTheSyn
  <2> SUFFICES ASSUME NEW p \in Port, Len(rows') > Len(rows),
                      rows'[Len(rows')].port = p, rows'[Len(rows')].proto = "TCP",
                      rows'[Len(rows')].state = "OPEN"
               PROVE  \E r \in air :
                        /\ r.fam = Family /\ r.proto = "TCP" /\ r.port = p
                        /\ r.kind = "SYN_ACK"
                        /\ r.leg = LegId \/ CameRound(r)
      BY DEF OpenAnswersTheSyn
  <2> USE DEF engine, record, world
  <2>1. rows' # rows  OBVIOUS
  <2>2. InLeg /\ LegStep
      BY <1>1, <2>1 DEF Next, ScanStep, StartScan, PassOver, BeginLeg, SkipLeg, Enrich,
                  FinishScan, ClockSteps, Done, vars, TcpLeg, UdpLeg, TypeOK, InLeg
  <2>3. ~\E q, ok : Finalize(q, "ERROR", "NETWORK_ERROR", ok)
      BY <1>1, FinalizeRow
  <2>4. ~\E q, ok : Finalize(q, TimeoutState(Protocol), "TIMEOUT", ok)
    <3>1. TimeoutState(Protocol) # "OPEN"  BY DEF TimeoutState
    <3> QED  BY <1>1, <3>1, FinalizeRow
  <2>5. ReceiveReply
      BY <2>1, <2>2, <2>3, <2>4 DEF LegStep, Fill, ProbeSent, ProbeFails, RouteFails,
         BatchSent, ReceiveEnds, ReceiveFails, ExpireProbe, BatchDone, LegEnds
  <2>6. PICK r \in air, ok \in BOOLEAN :
          Matches(r) /\ Finalize(r.port, Verdict(r)[1], Verdict(r)[2], ok)
      BY <2>1, <2>5 DEF ReceiveReply, Outcomes
  <2>7. Verdict(r)[1] = "OPEN" /\ r.port = p /\ Protocol = "TCP"
      BY <1>1, <2>6, FinalizeRow
  <2>8. /\ r.fam = Family /\ r.proto = "TCP" /\ r.kind = "SYN_ACK"
        /\ pend[r.port] = "sent" /\ Sequence(r.at) = Sequence(at[r.port])
      BY <2>6, <2>7, OpenMatches
  <2>9. r.leg = LegId \/ CameRound(r)
    <3>1. SUFFICES ASSUME r.leg # LegId PROVE CameRound(r)  OBVIOUS
    <3>2. r.leg \in Nat /\ r.at \in Nat /\ r.port \in Port /\ LegId \in Nat
        BY <1>1, <2>6, ReplyFields, LegIdType
    <3>3. r.leg < LegId  BY <1>1, <2>6, <3>1, <3>2 DEF AirIsPast
    <3>4. r.at < at[r.port]  BY <1>1, <2>2, <2>6, <2>8, <3>3 DEF AirIsPast
    <3>5. PICK m \in Nat, n \in Nat : m = r.at /\ n = at[r.port]
        BY <1>1, <3>2 DEF TypeOK
    <3>6. m + SeqCycle <= n /\ (n - m) % SeqCycle = 0
        BY <2>8, <3>4, <3>5, SameNumber
    <3> QED  BY <3>3, <3>5, <3>6 DEF CameRound
  <2> QED  BY <2>6, <2>7, <2>8, <2>9
<1>2. Init => TypeOK /\ AirIsPast
  <2>1. Init => AirIsPast  BY DEF Init, AirIsPast
  <2> QED  BY <2>1, TypeInit
<1>3. TypeOK /\ AirIsPast /\ [Next]_vars => (TypeOK /\ AirIsPast)'  BY TypeStep, AirStep
<1>4. TypeOK /\ AirIsPast /\ [Next]_vars => [OpenAnswersTheSyn]_vars  BY <1>1
<1> QED  BY <1>2, <1>3, <1>4, PTL DEF Spec, OpenIsProven

-------------------------------------------------------------------------------
(* What a step of a leg does to the lines and the petal: one verdict, or   *)
(* nothing.                                                                *)

LEMMA LegMoves ==
    ASSUME TypeOK, InLeg, LegStep
    PROVE  /\ UNCHANGED <<scan, legStart, steps>>
           /\ (UNCHANGED leg /\ InLeg') \/ LeaveLeg
           /\ \/ UNCHANGED <<rows, petal, now>>
              \/ \E p \in Port, state \in States, evidence \in Evidence, ok \in BOOLEAN :
                    /\ Finalize(p, state, evidence, ok)
                    /\ Protocol = "TCP" /\ state = "OPEN" => evidence = "SYN_ACK"
<1> USE DEF record, world
<1>0. leg \in 1 .. 4 /\ Protocol \in Protocols
    BY LegKind DEF InLeg, TypeOK, LegIndex
<1>1. CASE Fill
    BY <1>1 DEF Fill, InLeg
<1>2. CASE ProbeSent \/ BatchSent \/ ReceiveEnds \/ ReceiveFails \/ BatchDone
    BY <1>2 DEF ProbeSent, BatchSent, ReceiveEnds, ReceiveFails, BatchDone, InLeg
<1>3. CASE LegEnds
    BY <1>3 DEF LegEnds
<1>4. CASE ProbeFails \/ RouteFails
  <2>1. PICK p \in First(Staged), ok \in Outcomes(1) : Finalize(p, "ERROR", "NETWORK_ERROR", ok)
      BY <1>4 DEF ProbeFails, RouteFails
  <2>2. p \in Port /\ ok \in BOOLEAN  BY DEF First, Staged, Outcomes
  <2>3. "ERROR" \in States /\ "NETWORK_ERROR" \in Evidence  BY DEF States, Evidence
  <2>4. /\ UNCHANGED <<scan, legStart, steps>>
        /\ (UNCHANGED <<leg, phase>>) \/ LeaveLeg
      BY <1>4 DEF ProbeFails, RouteFails
  <2> QED  BY <2>1, <2>2, <2>3, <2>4 DEF InLeg
<1>5. CASE ReceiveReply
  <2>1. PICK r \in air, ok \in Outcomes(0) :
            \/ Matches(r) /\ Finalize(r.port, Verdict(r)[1], Verdict(r)[2], ok)
            \/ UNCHANGED <<rows, petal, now>>
      BY <1>5 DEF ReceiveReply
  <2>2. r \in Reply /\ r.port \in Port /\ ok \in BOOLEAN  BY DEF TypeOK, Reply, Outcomes
  <2>3. Matches(r) => Verdict(r)[1] \in States /\ Verdict(r)[2] \in Evidence
      BY <2>2, VerdictType
  <2>4. Matches(r) /\ Protocol = "TCP" /\ Verdict(r)[1] = "OPEN" => Verdict(r)[2] = "SYN_ACK"
      BY DEF Matches, Verdict, TcpDirect, TcpIcmp
  <2>5. UNCHANGED <<scan, legStart, steps, leg, phase>>  BY <1>5 DEF ReceiveReply
  <2> QED  BY <2>1, <2>2, <2>3, <2>4, <2>5 DEF InLeg
<1>6. CASE ExpireProbe
  <2>1. PICK p \in First(Outstanding), ok \in Outcomes(0) :
            Finalize(p, TimeoutState(Protocol), "TIMEOUT", ok)
      BY <1>6 DEF ExpireProbe
  <2>2. p \in Port /\ ok \in BOOLEAN  BY DEF First, Outstanding, Outcomes
  <2>3. TimeoutState(Protocol) \in States \ {"OPEN"} /\ "TIMEOUT" \in Evidence
      BY DEF TimeoutState, States, Evidence
  <2>4. UNCHANGED <<scan, legStart, steps, leg, phase>>  BY <1>6 DEF ExpireProbe
  <2> QED  BY <2>1, <2>2, <2>3, <2>4 DEF InLeg
<1> QED  BY <1>1, <1>2, <1>3, <1>4, <1>5, <1>6 DEF LegStep

\* The line a verdict appends, behind those there were.
LEMMA FinalizeAppends ==
    ASSUME TypeOK, NEW p, NEW state, NEW evidence, NEW ok,
           Finalize(p, state, evidence, ok)
    PROVE  /\ Len(rows) \in Nat /\ DOMAIN rows = 1 .. Len(rows)
           /\ DOMAIN rows' = 1 .. Len(rows) + 1
           /\ \A i \in 1 .. Len(rows) : rows'[i] = rows[i]
           /\ LET new == rows'[Len(rows) + 1]
              IN  /\ new.ts = now /\ new.proto = Protocol /\ new.fam = Family
                  /\ new.port = p /\ new.state = state /\ new.leg = LegId
                  /\ new.evidence = evidence
                  /\ new.rx = (evidence \notin {"TIMEOUT", "NETWORK_ERROR"})
           /\ now' = now + 1
<1> DEFINE row == [ts |-> now, proto |-> Protocol, fam |-> Family, port |-> p,
                   state |-> state, evidence |-> evidence,
                   rx |-> evidence \notin {"TIMEOUT", "NETWORK_ERROR"},
                   kept |-> ok, leg |-> LegId]
<1>1. rows' = Append(rows, row) /\ now' = now + 1  BY DEF Finalize
<1>2. /\ row.ts = now /\ row.proto = Protocol /\ row.fam = Family
      /\ row.port = p /\ row.state = state /\ row.leg = LegId
      /\ row.evidence = evidence /\ row.rx = (evidence \notin {"TIMEOUT", "NETWORK_ERROR"})
    OBVIOUS
<1> HIDE DEF row
<1>3. rows \in Seq(Row)  BY DEF TypeOK
<1>4. rows'[Len(rows) + 1] = row  BY <1>1, <1>3
<1> QED  BY <1>1, <1>2, <1>3, <1>4

-------------------------------------------------------------------------------
(* The petal.  The promise is about the petal file; it needs the one in    *)
(* memory, through the whole scan, and that no stamp is ahead of its scan. *)

\* What this scan found open so far is open in the petal in memory.
OpenInMemory ==
    \A i \in DOMAIN rows :
        rows[i].leg > 4 * scan /\ rows[i].proto = "TCP" /\ rows[i].state = "OPEN"
          => petal.ports[rows[i].port] = "open"

LEMMA OpenInMemoryStep ==
    ASSUME VerdictInv, OpenInMemory, [Next]_vars
    PROVE  OpenInMemory'
<1> USE DEF engine, record, world
<1>0. TypeOK /\ scan \in Nat /\ leg \in 1 .. 5  BY DEF VerdictInv, TypeOK, LegIndex
<1>a. \A i \in DOMAIN rows : rows[i].leg \in Nat /\ rows[i].port \in Port
    BY <1>0, RowFields DEF TypeOK
<1>1. CASE StartScan \/ PassOver
  <2>1. phase = "idle" /\ scan' = scan + 1 /\ rows' = rows  BY <1>1 DEF StartScan, PassOver
  <2>2. \A i \in DOMAIN rows : rows[i].leg < 4 * scan + leg
      BY <2>1 DEF VerdictInv, RowsOfPast, LegId
  <2>3. \A i \in DOMAIN rows' : ~(rows'[i].leg > 4 * scan')  BY <1>0, <1>a, <2>1, <2>2
  <2> QED  BY <2>3 DEF OpenInMemory
<1>2. CASE TcpLeg \/ UdpLeg
  <2>1. InLeg /\ LegStep  BY <1>0, <1>2 DEF TcpLeg, UdpLeg, InLeg, TypeOK
  <2>2. UNCHANGED scan  BY <1>0, <2>1, LegMoves
  <2>3. CASE UNCHANGED <<rows, petal>>  BY <2>2, <2>3 DEF OpenInMemory
  <2>4. ASSUME NEW p \in Port, NEW state \in States, NEW evidence \in Evidence,
               NEW ok \in BOOLEAN, Finalize(p, state, evidence, ok)
        PROVE  OpenInMemory'
    <3>1. /\ DOMAIN rows = 1 .. Len(rows) /\ DOMAIN rows' = 1 .. Len(rows) + 1
          /\ Len(rows) \in Nat
          /\ \A i \in 1 .. Len(rows) : rows'[i] = rows[i]
          /\ rows'[Len(rows) + 1].proto = Protocol /\ rows'[Len(rows) + 1].port = p
          /\ rows'[Len(rows) + 1].state = state
        BY <1>0, <2>4, FinalizeAppends
    <3>2. petal \in Petal /\ petal.ports \in [Port -> {"none", "open", "closed"}]
        BY <1>0 DEF TypeOK, Petal
    <3>3. /\ \A q \in Port : petal.ports[q] = "open" => petal'.ports[q] = "open"
          /\ Protocol = "TCP" /\ state = "OPEN" => petal'.ports[p] = "open"
      <4>1. CASE Protocol = "TCP"
        <5>1. petal'.ports = MarkPort(petal.ports, p, state)
            BY <2>4, <3>2, <4>1 DEF Finalize, Petal
        <5> QED  BY <3>2, <5>1 DEF MarkPort
      <4>2. CASE Protocol # "TCP"  BY <2>4, <4>2 DEF Finalize
      <4> QED  BY <4>1, <4>2
    <3>4. \A i \in DOMAIN rows' : i \in DOMAIN rows \/ i = Len(rows) + 1  BY <3>1
    <3> QED  BY <1>a, <2>2, <3>1, <3>3, <3>4 DEF OpenInMemory
  <2> QED  BY <1>0, <2>1, <2>3, <2>4, LegMoves
<1>3. CASE FinishScan
  <2>1. rows' = rows /\ scan' = scan  BY <1>3 DEF FinishScan
  <2>2. petal'.ports = petal.ports
    <3>1. CASE addrs = {} /\ UNCHANGED <<petal, disk, now, faults>>  BY <3>1
    <3>2. CASE ~(addrs = {} /\ UNCHANGED <<petal, disk, now, faults>>)
      <4>1. PICK stamped, w : Stamps(stamped, w)  BY <1>3, <3>2, FinishWrites
      <4>2. stamped.ports = petal.ports  BY <1>0, <4>1 DEF Stamps, TypeOK, Petal
      <4> QED  BY <4>1, <4>2 DEF Stamps
    <3> QED  BY <3>1, <3>2
  <2> QED  BY <2>1, <2>2 DEF OpenInMemory
<1>4. CASE BeginLeg \/ SkipLeg \/ Enrich \/ ClockSteps \/ UNCHANGED vars
  <2>1. UNCHANGED <<rows, scan, petal>>
      BY <1>4 DEF BeginLeg, SkipLeg, Enrich, ClockSteps, vars
  <2> QED  BY <2>1 DEF OpenInMemory
<1> QED  BY <1>1, <1>2, <1>3, <1>4 DEF Next, ScanStep, Done

\* A file that can be read has the stamp of a scan that ended, and its open ports.
OnDisk ==
    disk # Unreadable =>
        /\ disk.lastScan <= scan /\ (phase # "idle" => disk.lastScan < scan)
        /\ OpenReachesPetal

LEMMA OnDiskStep ==
    ASSUME VerdictInv, OpenInMemory, OnDisk, [Next]_vars
    PROVE  OnDisk'
<1> USE DEF engine, record, world
<1>0. TypeOK /\ scan \in Nat /\ leg \in 1 .. 5  BY DEF VerdictInv, TypeOK, LegIndex
<1>a. \A i \in DOMAIN rows : rows[i].leg \in Nat /\ rows[i].port \in Port
    BY <1>0, RowFields DEF TypeOK
<1>b. disk # Unreadable => disk.lastScan \in Nat  BY <1>0 DEF TypeOK, Petal
<1>1. CASE StartScan \/ PassOver
  <2>1. scan' = scan + 1 /\ UNCHANGED <<rows, disk>>  BY <1>1 DEF StartScan, PassOver
  <2>2. OpenReachesPetal' <=> OpenReachesPetal  BY <2>1 DEF OpenReachesPetal, OfScan
  <2>3. disk # Unreadable => disk.lastScan < scan' /\ disk.lastScan <= scan'
      BY <1>0, <1>b, <2>1 DEF OnDisk
  <2> QED  BY <2>1, <2>2, <2>3 DEF OnDisk
<1>2. CASE TcpLeg \/ UdpLeg
  <2>1. InLeg /\ LegStep  BY <1>0, <1>2 DEF TcpLeg, UdpLeg, InLeg, TypeOK
  <2>2. UNCHANGED scan  BY <1>0, <2>1, LegMoves
  <2>3. UNCHANGED disk
      BY <2>1 DEF LegStep, Fill, ProbeSent, ProbeFails, RouteFails, BatchSent, ReceiveReply,
                  ReceiveEnds, ReceiveFails, ExpireProbe, BatchDone, LegEnds
  <2>4. disk # Unreadable => disk.lastScan <= scan /\ disk.lastScan < scan
      BY <1>0, <1>b, <2>1 DEF OnDisk, InLeg
  <2>5. OpenReachesPetal'
    <3>1. CASE UNCHANGED rows
        BY <2>3, <3>1 DEF OnDisk, OpenReachesPetal, OfScan
    <3>2. ASSUME NEW p \in Port, NEW state \in States, NEW evidence \in Evidence,
                 NEW ok \in BOOLEAN, Finalize(p, state, evidence, ok)
          PROVE  OpenReachesPetal'
      <4>1. /\ DOMAIN rows = 1 .. Len(rows) /\ DOMAIN rows' = 1 .. Len(rows) + 1
            /\ Len(rows) \in Nat
            /\ \A i \in 1 .. Len(rows) : rows'[i] = rows[i]
            /\ rows'[Len(rows) + 1].leg = LegId
          BY <1>0, <3>2, FinalizeAppends
      <4>2. SUFFICES ASSUME disk # Unreadable, NEW i \in DOMAIN rows',
                            OfScan(rows'[i], disk.lastScan), rows'[i].proto = "TCP",
                            rows'[i].state = "OPEN"
                     PROVE  disk.ports[rows'[i].port] = "open"
          BY <2>3 DEF OpenReachesPetal, OfScan
      <4>3. i # Len(rows) + 1
        <5>1. disk.lastScan \in Nat /\ disk.lastScan < scan  BY <1>b, <2>4, <4>2
        <5>2. PICK k \in Nat : k = disk.lastScan  BY <5>1
        <5>3. ~(LegId <= 4 * k + 4)
          <6>1. leg \in Nat \ {0}  BY <1>0
          <6> QED  BY <1>0, <5>1, <5>2, <6>1 DEF LegId
        <5> QED  BY <4>1, <4>2, <5>2, <5>3 DEF OfScan
      <4>4. i \in DOMAIN rows /\ rows'[i] = rows[i]  BY <4>1, <4>2, <4>3
      <4> QED  BY <4>2, <4>4 DEF OnDisk, OpenReachesPetal
    <3> QED  BY <1>0, <2>1, <3>1, <3>2, LegMoves
  <2> QED  BY <2>2, <2>3, <2>4, <2>5 DEF OnDisk
<1>3. CASE FinishScan
  <2>1. phase = "leg" /\ phase' = "idle" /\ UNCHANGED <<rows, scan>>  BY <1>3 DEF FinishScan
  <2>2. CASE disk' = disk
    <3>1. OpenReachesPetal' <=> OpenReachesPetal  BY <2>1, <2>2 DEF OpenReachesPetal, OfScan
    <3> QED  BY <2>1, <2>2, <3>1 DEF OnDisk
  <2>3. CASE disk' = Unreadable  BY <2>3 DEF OnDisk
  <2>4. ASSUME NEW stamped, NEW w, Stamps(stamped, w), disk' = stamped PROVE OnDisk'
    <3>1. stamped.ports = petal.ports /\ stamped.lastScan = scan
        BY <1>0, <2>4 DEF Stamps, TypeOK, Petal
    <3>2. \A i \in DOMAIN rows : OfScan(rows[i], scan) => rows[i].leg > 4 * scan
        BY <1>0, <1>a DEF OfScan
    <3>3. \A i \in DOMAIN rows :
            OfScan(rows[i], scan) /\ rows[i].proto = "TCP" /\ rows[i].state = "OPEN"
              => stamped.ports[rows[i].port] = "open"
        BY <3>1, <3>2 DEF OpenInMemory
    <3>4. OpenReachesPetal'
        BY <2>1, <2>4, <3>1, <3>3 DEF OpenReachesPetal, OfScan
    <3> QED  BY <1>0, <2>1, <2>4, <3>1, <3>4 DEF OnDisk
  <2>5. disk' \in {disk, Unreadable} \/ \E stamped, w : Stamps(stamped, w) /\ disk' = stamped
    <3>1. CASE addrs = {} /\ UNCHANGED <<petal, disk, now, faults>>  BY <3>1
    <3>2. CASE ~(addrs = {} /\ UNCHANGED <<petal, disk, now, faults>>)
      <4>1. PICK stamped, w : Stamps(stamped, w)  BY <1>3, <3>2, FinishWrites
      <4>2. disk' \in {stamped, disk, Unreadable}  BY <4>1 DEF Stamps, WritePetal
      <4> QED  BY <4>1, <4>2
    <3> QED  BY <3>1, <3>2
  <2> QED  BY <2>2, <2>3, <2>4, <2>5
<1>4. CASE BeginLeg \/ SkipLeg \/ Enrich
  <2>1. phase # "idle" /\ UNCHANGED <<rows, scan, disk>>
      BY <1>4 DEF BeginLeg, SkipLeg, Enrich
  <2>2. OpenReachesPetal' <=> OpenReachesPetal  BY <2>1 DEF OpenReachesPetal, OfScan
  <2> QED  BY <2>1, <2>2 DEF OnDisk
<1>5. CASE ClockSteps \/ UNCHANGED vars
  <2>1. UNCHANGED <<phase, rows, scan, disk>>  BY <1>5 DEF ClockSteps, vars
  <2>2. OpenReachesPetal' <=> OpenReachesPetal  BY <2>1 DEF OpenReachesPetal, OfScan
  <2> QED  BY <2>1, <2>2 DEF OnDisk
<1> QED  BY <1>1, <1>2, <1>3, <1>4, <1>5 DEF Next, ScanStep, Done

\* A petal file with the stamp of a scan has every port that scan found open over TCP,
\* though writes fail, are torn, or are torn unnoticed (PETAL->PORTS: OPEN is sticky;
\* targets_write_petal_data).
THEOREM OpenOnDisk == Spec => []OpenReachesPetal
<1>1. Init => VerdictInv /\ OpenInMemory /\ OnDisk
  <2>1. Init => OpenInMemory  BY DEF Init, OpenInMemory
  <2>2. Init => OnDisk  BY DEF Init, OnDisk, OpenReachesPetal
  <2> QED  BY <2>1, <2>2, VerdictInit
<1>2. VerdictInv /\ OpenInMemory /\ OnDisk /\ [Next]_vars
        => (VerdictInv /\ OpenInMemory /\ OnDisk)'
    BY VerdictStep, OpenInMemoryStep, OnDiskStep
<1>3. OnDisk => OpenReachesPetal  BY DEF OnDisk, OpenReachesPetal
<1> QED  BY <1>1, <1>2, <1>3, PTL DEF Spec

-------------------------------------------------------------------------------
(* The enrichment.  It tells the lines of this leg by their time; the      *)
(* invariant relates times to legs.                                        *)

\* A line of the running leg, and one of an earlier.
OfThisLeg(row) ==
    row.leg = LegId => row.ts >= legStart /\ row.fam = Family /\ row.proto = Protocol
Earlier(row) == row.leg # LegId => row.ts < legStart

TimesAreLegs ==
    /\ phase = "enrich" => Protocol = "TCP"
    /\ steps = 0 =>
        /\ legStart < now /\ \A i \in DOMAIN rows : rows[i].ts < now
        /\ phase \notin {"idle", "leg"} /\ Protocol = "TCP" =>
            \A i \in DOMAIN rows : OfThisLeg(rows[i]) /\ Earlier(rows[i])

LEMMA TimesStep ==
    ASSUME VerdictInv, TimesAreLegs, [Next]_vars
    PROVE  TimesAreLegs'
<1> USE DEF engine, record, world
<1>0. /\ TypeOK /\ scan \in Nat /\ leg \in 1 .. 5 /\ now \in Nat /\ legStart \in Nat
      /\ steps \in Nat /\ LegId \in Nat
    BY LegIdType DEF VerdictInv, TypeOK, LegIndex
<1>a. \A i \in DOMAIN rows : rows[i].leg \in Nat /\ rows[i].ts \in Nat
    BY <1>0, RowFields DEF TypeOK
<1>1. CASE StartScan \/ PassOver \/ SkipLeg \/ Enrich \/ FinishScan
  <2>1. /\ phase' \in {"leg", "idle"} /\ UNCHANGED <<rows, legStart, steps>>
        /\ now' \in Nat /\ now' >= now
      BY <1>0, <1>1 DEF StartScan, PassOver, SkipLeg, Enrich, FinishScan
  <2> QED  BY <1>0, <1>a, <2>1 DEF TimesAreLegs
<1>2. CASE BeginLeg
  <2>1. /\ phase = "leg" /\ leg \in 1 .. 4 /\ UNCHANGED <<scan, rows, steps>>
        /\ \/ Protocol = "TCP" /\ legStart' = now /\ now' = now + 1
           \/ Protocol # "TCP" /\ UNCHANGED <<legStart, now>>
        /\ (phase' = "fill" /\ UNCHANGED leg) \/ LeaveLeg
      BY <1>0, <1>2 DEF BeginLeg
  <2>2. \A i \in DOMAIN rows : rows[i].leg # LegId
      BY <1>0, <1>a, <2>1 DEF VerdictInv, RowsOfPast
  <2>3. CASE Protocol = "TCP"
    <3>1. leg' = leg /\ legStart' = now /\ now' = now + 1  BY <2>1, <2>3 DEF LeaveLeg
    <3>2. LegId' = LegId /\ Protocol' = "TCP"  BY <2>1, <2>3, <3>1 DEF LegId, Protocol
    <3>3. steps = 0 => \A i \in DOMAIN rows : rows[i].ts < now  BY DEF TimesAreLegs
    <3>4. steps = 0 => \A i \in DOMAIN rows : OfThisLeg(rows[i])' /\ Earlier(rows[i])'
        BY <2>1, <2>2, <3>1, <3>2, <3>3 DEF OfThisLeg, Earlier
    <3>5. steps = 0 => \A i \in DOMAIN rows : rows[i].ts < now'  BY <1>0, <1>a, <3>1, <3>3
    <3> QED  BY <1>0, <2>1, <3>1, <3>2, <3>4, <3>5 DEF TimesAreLegs
  <2>4. CASE Protocol # "TCP"
    <3>1. UNCHANGED <<legStart, now>>  BY <2>1, <2>4
    <3>2. phase' = "leg" \/ (phase' = "fill" /\ Protocol' # "TCP")
        BY <2>1, <2>4 DEF LeaveLeg, Protocol
    <3> QED  BY <2>1, <3>1, <3>2 DEF TimesAreLegs
  <2> QED  BY <2>3, <2>4
<1>3. CASE TcpLeg \/ UdpLeg
  <2>1. InLeg /\ LegStep  BY <1>0, <1>3 DEF TcpLeg, UdpLeg, InLeg, TypeOK
  <2>2. /\ UNCHANGED <<scan, legStart, steps>>
        /\ (UNCHANGED leg /\ InLeg') \/ LeaveLeg
      BY <1>0, <2>1, LegMoves
  <2>3. CASE LeaveLeg /\ Protocol # "TCP"
    <3>1. phase' = "leg"  BY <2>3 DEF LeaveLeg
    <3>2. CASE UNCHANGED <<rows, now>>  BY <2>2, <3>1, <3>2 DEF TimesAreLegs
    <3>3. ASSUME NEW p \in Port, NEW state \in States, NEW evidence \in Evidence,
                 NEW ok \in BOOLEAN, Finalize(p, state, evidence, ok)
          PROVE  TimesAreLegs'
      <4>1. /\ DOMAIN rows = 1 .. Len(rows) /\ DOMAIN rows' = 1 .. Len(rows) + 1
            /\ Len(rows) \in Nat
            /\ \A i \in 1 .. Len(rows) : rows'[i] = rows[i]
            /\ rows'[Len(rows) + 1].ts = now /\ now' = now + 1
          BY <1>0, <3>3, FinalizeAppends
      <4>2. \A i \in DOMAIN rows' : i \in DOMAIN rows \/ i = Len(rows) + 1  BY <4>1
      <4> QED  BY <1>0, <1>a, <2>2, <3>1, <4>1, <4>2 DEF TimesAreLegs
    <3> QED  BY <1>0, <2>1, <3>2, <3>3, LegMoves
  <2>4. CASE leg' = leg /\ (InLeg' \/ (phase' = "enrich" /\ Protocol = "TCP"))
    <3>1. LegId' = LegId /\ Protocol' = Protocol /\ Family' = Family
        BY <2>2, <2>4 DEF LegId, Protocol, Family
    <3>2. phase \notin {"idle", "leg"}  BY <2>1 DEF InLeg
    <3>3. \A row : (OfThisLeg(row) /\ Earlier(row)) => (OfThisLeg(row) /\ Earlier(row))'
        BY <2>2, <3>1 DEF OfThisLeg, Earlier
    <3>4. CASE UNCHANGED <<rows, now>>
        BY <2>2, <2>4, <3>1, <3>2, <3>3, <3>4 DEF TimesAreLegs, InLeg
    <3>5. ASSUME NEW p \in Port, NEW state \in States, NEW evidence \in Evidence,
                 NEW ok \in BOOLEAN, Finalize(p, state, evidence, ok)
          PROVE  TimesAreLegs'
      <4>1. /\ DOMAIN rows = 1 .. Len(rows) /\ DOMAIN rows' = 1 .. Len(rows) + 1
            /\ Len(rows) \in Nat
            /\ \A i \in 1 .. Len(rows) : rows'[i] = rows[i]
            /\ LET new == rows'[Len(rows) + 1]
               IN  new.ts = now /\ new.proto = Protocol /\ new.fam = Family /\ new.leg = LegId
            /\ now' = now + 1
          BY <1>0, <3>5, FinalizeAppends
      <4>2. \A i \in DOMAIN rows' : i \in DOMAIN rows \/ i = Len(rows) + 1  BY <4>1
      <4>3. steps = 0 => legStart < now' /\ \A i \in DOMAIN rows' : rows'[i].ts < now'
          BY <1>0, <1>a, <4>1, <4>2 DEF TimesAreLegs
      <4>4. PICK new : new = rows'[Len(rows) + 1]  OBVIOUS
      <4>5. steps = 0 => OfThisLeg(new)' /\ Earlier(new)'
        <5>1. steps = 0 => legStart < now  BY DEF TimesAreLegs
        <5> QED  BY <1>0, <2>2, <3>1, <4>1, <4>4, <5>1 DEF OfThisLeg, Earlier
      <4>6. steps = 0 /\ Protocol = "TCP" =>
                \A i \in DOMAIN rows : (OfThisLeg(rows[i]) /\ Earlier(rows[i]))
          BY <3>2 DEF TimesAreLegs
      <4>7. steps = 0 /\ Protocol = "TCP" =>
                \A i \in DOMAIN rows' : OfThisLeg(rows[i])' /\ Earlier(rows[i])'
        <5> SUFFICES ASSUME steps = 0, Protocol = "TCP", NEW i \in DOMAIN rows'
                     PROVE  OfThisLeg(rows[i])' /\ Earlier(rows[i])'
            OBVIOUS
        <5>1. PICK row : row = rows'[i]  OBVIOUS
        <5>2. (OfThisLeg(row) /\ Earlier(row))'
          <6>1. CASE i \in DOMAIN rows
            <7>1. row = rows[i]  BY <4>1, <5>1, <6>1
            <7> QED  BY <3>3, <4>6, <6>1, <7>1
          <6>2. CASE i = Len(rows) + 1  BY <4>4, <4>5, <5>1, <6>2
          <6> QED  BY <4>2, <6>1, <6>2
        <5> QED  BY <5>1, <5>2 DEF OfThisLeg, Earlier
      <4> QED  BY <2>2, <2>4, <3>1, <4>3, <4>7 DEF TimesAreLegs, InLeg
    <3> QED  BY <1>0, <2>1, <3>4, <3>5, LegMoves
  <2> QED  BY <2>2, <2>3, <2>4 DEF LeaveLeg
<1>4. CASE ClockSteps
  <2>1. steps' # 0 /\ UNCHANGED <<phase, leg>>  BY <1>0, <1>4 DEF ClockSteps
  <2> QED  BY <2>1 DEF TimesAreLegs, Protocol
<1>5. CASE UNCHANGED vars
  <2>1. UNCHANGED <<phase, leg, scan, rows, legStart, now, steps>>  BY <1>5 DEF vars
  <2> QED  BY <2>1 DEF TimesAreLegs, OfThisLeg, Earlier, LegId, Protocol, Family
<1> QED  BY <1>1, <1>2, <1>3, <1>4, <1>5 DEF Next, ScanStep, Done

\* While the wall clock is not set back, the enrichment takes ports this leg found open
\* and no others, and all of them unless a call fails (kbanner_load_open_ports compares
\* times with TCP_SCAN_START_NS).
THEOREM EnrichesRightPorts == Spec => EnrichesThisLeg
<1>1. Init => VerdictInv /\ TimesAreLegs
  <2>1. Init => TimesAreLegs  BY DEF Init, TimesAreLegs
  <2> QED  BY <2>1, VerdictInit
<1>2. VerdictInv /\ TimesAreLegs /\ [Next]_vars => (VerdictInv /\ TimesAreLegs)'
    BY VerdictStep, TimesStep
<1> DEFINE mine == {rows[i].port : i \in {k \in DOMAIN rows :
                      /\ rows[k].leg = LegId /\ rows[k].kept /\ rows[k].state = "OPEN"}}
<1>3. ASSUME VerdictInv, TimesAreLegs, Enrich, steps = 0
      PROVE  enriched' \subseteq mine /\ (faults' = faults => enriched' = mine)
  <2>0. TypeOK /\ faults \in Nat  BY <1>3 DEF VerdictInv, TypeOK
  <2>1. PICK n \in 0 .. Len(rows) :
          /\ n = Len(rows) \/ faults' = faults + 1
          /\ enriched' = FoundOpen(n)
      BY <1>3 DEF Enrich
  <2>2. Protocol = "TCP" /\ \A i \in DOMAIN rows : OfThisLeg(rows[i]) /\ Earlier(rows[i])
      BY <1>3 DEF TimesAreLegs, Enrich
  <2>3. /\ \A i \in DOMAIN rows : rows[i].port \in Port /\ rows[i].ts \in Nat
        /\ legStart \in Nat
      BY <2>0, RowFields DEF TypeOK
  <2>4. \A i \in DOMAIN rows :
            rows[i].leg = LegId <=> /\ rows[i].proto = "TCP" /\ rows[i].fam = Family
                                    /\ rows[i].ts >= legStart
      BY <2>2, <2>3 DEF OfThisLeg, Earlier
  <2>5. DOMAIN rows = 1 .. Len(rows) /\ Len(rows) \in Nat  BY <2>0 DEF TypeOK
  <2>6. \A i \in 1 .. n : i \in DOMAIN rows
    <3>1. PICK len \in Nat : len = Len(rows)  BY <2>5
    <3>2. n \in Nat /\ n <= len  BY <2>1, <3>1
    <3> QED  BY <2>5, <3>1, <3>2
  <2>7. FoundOpen(n) \subseteq mine  BY <2>4, <2>6 DEF FoundOpen
  <2>8. n = Len(rows) => mine \subseteq FoundOpen(n)  BY <2>3, <2>4, <2>5 DEF FoundOpen
  <2>9. faults' = faults => n = Len(rows)  BY <2>0, <2>1
  <2> HIDE DEF mine
  <2> QED  BY <2>1, <2>7, <2>8, <2>9
<1>4. VerdictInv /\ TimesAreLegs /\ [Next]_vars =>
        [Enrich /\ steps = 0
          => enriched' \subseteq mine /\ (faults' = faults => enriched' = mine)]_vars
    BY <1>3
<1> QED  BY <1>1, <1>2, <1>4, PTL DEF Spec, EnrichesThisLeg

-------------------------------------------------------------------------------
(* The readers of .ports.  Each folds over the lines; what it holds after  *)
(* n lines is a function on 0 .. Len(rows), whose recursive definition is  *)
(* satisfied by the induction below.                                       *)

\* A set of numbers that is not empty has a least one.
LEMMA Least ==
    ASSUME NEW S, S \subseteq Nat, S # {}
    PROVE  \E n \in S : \A m \in S : n <= m
<1> DEFINE R == OpToRel(<, Nat)
<1>1. IsWellFoundedOn(R, Nat)  BY NatLessThanWellFounded, Zenon
<1>2. \A m \in Nat, n \in Nat : m < n => <<m, n>> \in R  BY DEF OpToRel
<1> HIDE DEF R
<1>3. PICK n \in S : \A m \in S : <<m, n>> \notin R  BY <1>1, WFMin
<1>4. \A m \in S : ~(m < n)  BY <1>2, <1>3
<1> QED  BY <1>4

\* What holds before the first line and is kept by each line holds after every line.
LEMMA ByLines ==
    ASSUME NEW N \in Nat, NEW S, 0 \in S,
           \A n \in 1 .. N : n - 1 \in S => n \in S
    PROVE  \A n \in 0 .. N : n \in S
<1> DEFINE bad == (0 .. N) \ S
<1>1. SUFFICES ASSUME bad # {} PROVE FALSE  OBVIOUS
<1>2. bad \subseteq Nat  OBVIOUS
<1> HIDE DEF bad
<1>3. PICK n \in bad : \A m \in bad : n <= m  BY <1>1, <1>2, Least
<1>4. n \in 1 .. N /\ n \notin S  BY <1>3 DEF bad
<1>5. n - 1 \in 0 .. N /\ ~(n <= n - 1)  BY <1>4
<1>6. n - 1 \notin bad  BY <1>3, <1>5
<1>7. n - 1 \in S  BY <1>5, <1>6 DEF bad
<1> QED  BY <1>4, <1>7

\* A fold over N lines exists.
LEMMA FoldExists ==
    ASSUME NEW A, NEW a \in A, NEW N \in Nat, NEW step \in [1 .. N -> [A -> A]]
    PROVE  \E t \in [0 .. N -> A] : /\ t[0] = a
                                    /\ \A n \in 1 .. N : t[n] = step[n][t[n - 1]]
<1> DEFINE Upto(n, t) == /\ t \in [0 .. n -> A] /\ t[0] = a
                         /\ \A i \in 1 .. n : t[i] = step[i][t[i - 1]]
           good == {n \in 0 .. N : \E t : Upto(n, t)}
<1>1. 0 \in good
  <2>1. Upto(0, [i \in 0 .. 0 |-> a])  OBVIOUS
  <2> HIDE DEF Upto
  <2> QED  BY <2>1
<1>2. ASSUME NEW n \in 1 .. N, n - 1 \in good PROVE n \in good
  <2>0. n - 1 \in 0 .. N /\ n - 1 \in 0 .. n - 1 /\ n # 0 /\ n \in Nat  OBVIOUS
  <2>1. PICK t : Upto(n - 1, t)  BY <1>2, <2>0
  <2> DEFINE h == [i \in 0 .. n |-> IF i = n THEN step[n][t[n - 1]] ELSE t[i]]
  <2>2. step[n][t[n - 1]] \in A  BY <2>0, <2>1
  <2>3. \A i \in 0 .. n : i # n => i \in 0 .. n - 1  BY <2>0
  <2>4. h \in [0 .. n -> A]  BY <2>1, <2>2, <2>3
  <2>5. h[0] = a  BY <2>0, <2>1
  <2>6. ASSUME NEW i \in 1 .. n PROVE h[i] = step[i][h[i - 1]]
    <3>1. i \in 0 .. n /\ i - 1 \in 0 .. n /\ i - 1 # n  BY <2>0
    <3>2. h[i - 1] = t[i - 1]  BY <3>1
    <3>3. CASE i = n  BY <3>1, <3>2, <3>3
    <3>4. CASE i # n
      <4>1. i \in 1 .. n - 1  BY <2>0, <3>4
      <4>2. h[i] = t[i]  BY <3>1, <3>4
      <4> QED  BY <2>1, <3>2, <4>1, <4>2
    <3> QED  BY <3>3, <3>4
  <2>7. Upto(n, h)  BY <2>4, <2>5, <2>6
  <2> HIDE DEF Upto
  <2> QED  BY <2>0, <2>7
<1> HIDE DEF good
<1>3. N \in good
  <2>1. \A n \in 0 .. N : n \in good  BY <1>1, <1>2, ByLines
  <2> QED  BY <2>1
<1>4. \E t : Upto(N, t)  BY <1>3 DEF good
<1> QED  BY <1>4

-------------------------------------------------------------------------------
(* What the filter and the table hold after each line.                     *)

SelectSlot == [ts : Nat, state : States \cup {"UNKNOWN"}]

\* The line changes the slot only when it is the slot's, asked for and not out of date.
LEMMA SelectionRows ==
    ASSUME TypeOK, NEW ports, NEW s \in Families \X Port
    PROVE  /\ \A n \in 0 .. Len(rows) : Selection(ports)[n][s] \in SelectSlot
           /\ Selection(ports)[0][s] = [ts |-> 0, state |-> "UNKNOWN"]
           /\ \A n \in 1 .. Len(rows) :
                Selection(ports)[n][s] =
                  IF /\ n \in Lines /\ rows[n].proto = "TCP" /\ rows[n].port \in ports
                     /\ s = <<rows[n].fam, rows[n].port>>
                     /\ ~(Selection(ports)[n - 1][s].ts > rows[n].ts)
                  THEN [ts |-> rows[n].ts, state |-> rows[n].state]
                  ELSE Selection(ports)[n - 1][s]
<1> DEFINE N == Len(rows)
           A == [Families \X Port -> SelectSlot]
           a == [q \in Families \X Port |-> [ts |-> 0, state |-> "UNKNOWN"]]
           After(n, acc) == IF n \in Lines THEN SelectLine(ports, acc, rows[n]) ELSE acc
           step == [n \in 1 .. N |-> [acc \in A |-> After(n, acc)]]
           Is(t) == t = [n \in 0 .. N |->
                           IF n = 0 THEN a
                           ELSE IF n \in Lines THEN SelectLine(ports, t[n - 1], rows[n])
                           ELSE t[n - 1]]
<1>0. N \in Nat /\ \A n \in 1 .. N : rows[n] \in Row  BY DEF TypeOK
<1>1. a \in A  BY DEF SelectSlot
<1>2. ASSUME NEW n \in 1 .. N, NEW acc \in A
      PROVE  /\ After(n, acc) \in A
             /\ After(n, acc)[s] =
                  IF /\ n \in Lines /\ rows[n].proto = "TCP" /\ rows[n].port \in ports
                     /\ s = <<rows[n].fam, rows[n].port>> /\ ~(acc[s].ts > rows[n].ts)
                  THEN [ts |-> rows[n].ts, state |-> rows[n].state]
                  ELSE acc[s]
  <2> DEFINE key == <<rows[n].fam, rows[n].port>>
             new == [ts |-> rows[n].ts, state |-> rows[n].state]
  <2>1. key \in Families \X Port /\ new \in SelectSlot  BY <1>0 DEF Row, SelectSlot
  <2>2. After(n, acc) = IF n \notin Lines \/ rows[n].proto # "TCP"
                            \/ rows[n].port \notin ports \/ acc[key].ts > rows[n].ts
                        THEN acc ELSE [acc EXCEPT ![key] = new]
      BY DEF SelectLine
  <2> HIDE DEF After, key, new
  <2>3. [acc EXCEPT ![key] = new] \in A  BY <2>1
  <2>4. [acc EXCEPT ![key] = new][s] = IF s = key THEN new ELSE acc[s]  BY <2>1
  <2>5. After(n, acc) \in A  BY <2>2, <2>3
  <2>6. After(n, acc)[s] = IF /\ n \in Lines /\ rows[n].proto = "TCP"
                              /\ rows[n].port \in ports
                              /\ s = key /\ ~(acc[s].ts > rows[n].ts)
                           THEN new ELSE acc[s]
      BY <2>2, <2>4
  <2> QED  BY <2>5, <2>6 DEF key, new
<1>3. step \in [1 .. N -> [A -> A]]  BY <1>2
<1> HIDE DEF A, a
<1>4. PICK t \in [0 .. N -> A] : t[0] = a /\ \A n \in 1 .. N : t[n] = step[n][t[n - 1]]
  <2> HIDE DEF step, N
  <2> QED  BY <1>0, <1>1, <1>3, FoldExists
<1>5. ASSUME NEW n \in 1 .. N PROVE t[n - 1] \in A /\ t[n] = After(n, t[n - 1])
  <2>1. n - 1 \in 0 .. N  BY <1>0
  <2>2. t[n - 1] \in A  BY <2>1
  <2> HIDE DEF After
  <2>3. step[n][t[n - 1]] = After(n, t[n - 1])  BY <2>2
  <2> QED  BY <1>4, <2>2, <2>3
<1>6. Is(t)
  <2>1. \A n \in 0 .. N : n = 0 \/ n \in 1 .. N  BY <1>0
  <2>2. \A n \in 0 .. N : t[n] = IF n = 0 THEN a ELSE After(n, t[n - 1])
      BY <1>4, <1>5, <2>1
  <2> QED  BY <2>2
<1>7. Selection(ports) = CHOOSE u : Is(u)  BY DEF Selection, a
<1> HIDE DEF Is
<1>8. Is(Selection(ports))  BY <1>6, <1>7
<1>9. PICK T : T = Selection(ports) /\ Is(T)  BY <1>8
<1>10. T[0] = a  BY <1>0, <1>9 DEF Is
<1>11. ASSUME NEW n \in 1 .. N PROVE T[n] = After(n, T[n - 1])
  <2>1. n \in 0 .. N /\ n # 0  BY <1>0
  <2> QED  BY <1>9, <2>1 DEF Is
<1> DEFINE good == {n \in 0 .. N : T[n] \in A}
<1>12. \A n \in 0 .. N : n \in good
  <2>1. 0 \in good  BY <1>0, <1>1, <1>10
  <2>2. ASSUME NEW n \in 1 .. N, n - 1 \in good PROVE n \in good
    <3>1. T[n - 1] \in A /\ n \in 0 .. N  BY <1>0, <2>2
    <3> HIDE DEF After
    <3> QED  BY <1>2, <1>11, <3>1
  <2> HIDE DEF good, N
  <2> QED  BY <1>0, <2>1, <2>2, ByLines
<1>13. \A n \in 0 .. N : T[n][s] \in SelectSlot
  <2>1. \A acc \in A : acc[s] \in SelectSlot  BY DEF A
  <2> QED  BY <1>12, <2>1
<1>14. T[0][s] = [ts |-> 0, state |-> "UNKNOWN"]  BY <1>10 DEF a
<1>15. ASSUME NEW n \in 1 .. N
       PROVE  T[n][s] = IF /\ n \in Lines /\ rows[n].proto = "TCP" /\ rows[n].port \in ports
                           /\ s = <<rows[n].fam, rows[n].port>>
                           /\ ~(T[n - 1][s].ts > rows[n].ts)
                        THEN [ts |-> rows[n].ts, state |-> rows[n].state]
                        ELSE T[n - 1][s]
  <2>1. n - 1 \in 0 .. N  BY <1>0
  <2>2. T[n - 1] \in A  BY <1>12, <2>1
  <2> HIDE DEF After
  <2> QED  BY <1>2, <1>11, <2>2
<1> QED  BY <1>9, <1>13, <1>14, <1>15

DisplaySlot == [present : BOOLEAN, ts : Nat, state : States \cup {"UNKNOWN"},
                evidence : Evidence \cup {"NONE"}, rx : BOOLEAN,
                synack : BOOLEAN, synackTs : Nat, synackRx : BOOLEAN, prior : BOOLEAN]

\* The line r is noted in its slot.
Noted(slot, r) == NoteLine(NoteSynAck(slot, r), r)

\* What noting a line makes of a slot.
LEMMA NoteFacts ==
    ASSUME NEW u \in DisplaySlot, NEW r \in Row
    PROVE  /\ Noted(u, r) \in DisplaySlot
           /\ Noted(u, r).present /\ (Noted(u, r).prior <=> u.prior)
           /\ u.present /\ u.ts > r.ts =>
                /\ Noted(u, r).ts = u.ts /\ Noted(u, r).state = u.state
                /\ Noted(u, r).evidence = u.evidence /\ (Noted(u, r).rx <=> u.rx)
           /\ ~(u.present /\ u.ts > r.ts) =>
                /\ Noted(u, r).ts = r.ts /\ Noted(u, r).state = r.state
                /\ Noted(u, r).evidence = r.evidence /\ (Noted(u, r).rx <=> r.rx)
           /\ Noted(u, r).synack <=> (u.synack \/ IsSynAck(r))
           /\ \/ Noted(u, r).synackRx <=> u.synackRx
              \/ IsSynAck(r) /\ (Noted(u, r).synackRx <=> r.rx)
           /\ IsSynAck(r) /\ ~u.synack => (Noted(u, r).synackRx <=> r.rx)
<1>1. u = [present |-> u.present, ts |-> u.ts, state |-> u.state,
           evidence |-> u.evidence, rx |-> u.rx,
           synack |-> u.synack, synackTs |-> u.synackTs, synackRx |-> u.synackRx,
           prior |-> u.prior]
    BY DEF DisplaySlot
<1> DEFINE w == NoteSynAck(u, r)
<1>2. /\ w \in DisplaySlot /\ (w.present <=> u.present) /\ w.ts = u.ts /\ w.state = u.state
      /\ w.evidence = u.evidence
      /\ (w.rx <=> u.rx) /\ (w.prior <=> u.prior)
      /\ w.synack <=> (u.synack \/ IsSynAck(r))
      /\ (w.synackRx <=> u.synackRx) \/ (IsSynAck(r) /\ (w.synackRx <=> r.rx))
      /\ IsSynAck(r) /\ ~u.synack => (w.synackRx <=> r.rx)
  <2>1. CASE IsSynAck(r) /\ (~u.synack \/ u.synackTs <= r.ts)
    <3>1. w = [present |-> u.present, ts |-> u.ts, state |-> u.state,
               evidence |-> u.evidence, rx |-> u.rx,
               synack |-> TRUE, synackTs |-> r.ts, synackRx |-> r.rx, prior |-> u.prior]
        BY <1>1, <2>1 DEF NoteSynAck, DisplaySlot
    <3> HIDE DEF w
    <3>2. w \in DisplaySlot  BY <3>1 DEF DisplaySlot, Row
    <3> QED  BY <2>1, <3>1, <3>2
  <2>2. CASE ~(IsSynAck(r) /\ (~u.synack \/ u.synackTs <= r.ts))
    <3>1. w = u  BY <2>2 DEF NoteSynAck
    <3> HIDE DEF w
    <3> QED  BY <2>2, <3>1
  <2> QED  BY <2>1, <2>2
<1> DEFINE v == Noted(u, r)
<1>3. v = NoteLine(w, r)  BY DEF Noted
<1> HIDE DEF w
<1>4. w = [present |-> w.present, ts |-> w.ts, state |-> w.state,
           evidence |-> w.evidence, rx |-> w.rx,
           synack |-> w.synack, synackTs |-> w.synackTs, synackRx |-> w.synackRx,
           prior |-> w.prior]
    BY <1>2 DEF DisplaySlot
<1>5. CASE u.present /\ u.ts > r.ts
  <2>1. v = w  BY <1>2, <1>3, <1>5 DEF NoteLine
  <2> HIDE DEF v
  <2>2. v \in DisplaySlot /\ v.present  BY <1>2, <1>5, <2>1
  <2> QED  BY <1>2, <1>5, <2>1, <2>2 DEF v
<1>6. CASE ~(u.present /\ u.ts > r.ts)
  <2>1. v = [present |-> TRUE, ts |-> r.ts, state |-> r.state,
             evidence |-> r.evidence, rx |-> r.rx,
             synack |-> w.synack, synackTs |-> w.synackTs, synackRx |-> w.synackRx,
             prior |-> w.prior]
      BY <1>2, <1>3, <1>4, <1>6 DEF NoteLine, DisplaySlot
  <2> HIDE DEF v
  <2>2. v \in DisplaySlot  BY <1>2, <2>1 DEF DisplaySlot, Row
  <2> QED  BY <1>2, <1>6, <2>1, <2>2 DEF v
<1> QED  BY <1>5, <1>6

Key(r) == <<r.proto, r.fam, r.port>>

\* A line is noted in its own slot and changes no other.
LEMMA TableRows ==
    ASSUME TypeOK, NEW filter, NEW s \in Slots
    PROVE  /\ \A n \in 0 .. Len(rows) : Table(filter)[n][s] \in DisplaySlot
           /\ Table(filter)[0][s] = EmptySlot
           /\ \A n \in 1 .. Len(rows) :
                Table(filter)[n][s] =
                  IF n \in Lines /\ Included(filter, rows[n]) /\ s = Key(rows[n])
                  THEN Noted(Table(filter)[n - 1][s], rows[n])
                  ELSE Table(filter)[n - 1][s]
<1> DEFINE N == Len(rows)
           A == [Slots -> DisplaySlot]
           a == [q \in Slots |-> EmptySlot]
           After(n, acc) == IF n \in Lines THEN DisplayLine(filter, acc, rows[n]) ELSE acc
           step == [n \in 1 .. N |-> [acc \in A |-> After(n, acc)]]
           Is(t) == t = [n \in 0 .. N |->
                           IF n = 0 THEN a
                           ELSE IF n \in Lines THEN DisplayLine(filter, t[n - 1], rows[n])
                           ELSE t[n - 1]]
<1>0. N \in Nat /\ \A n \in 1 .. N : rows[n] \in Row  BY DEF TypeOK
<1>1. a \in A  BY DEF EmptySlot, DisplaySlot
<1>2. ASSUME NEW n \in 1 .. N, NEW acc \in A
      PROVE  /\ After(n, acc) \in A
             /\ After(n, acc)[s] =
                  IF n \in Lines /\ Included(filter, rows[n]) /\ s = Key(rows[n])
                  THEN Noted(acc[s], rows[n]) ELSE acc[s]
  <2> DEFINE key == Key(rows[n])
             new == Noted(acc[key], rows[n])
  <2>1. key \in Slots  BY <1>0 DEF Row, Slots, Key
  <2>2. new \in DisplaySlot
    <3>1. acc[key] \in DisplaySlot /\ rows[n] \in Row  BY <1>0, <2>1
    <3> QED  BY <3>1, NoteFacts
  <2>3. After(n, acc) = IF n \notin Lines \/ ~Included(filter, rows[n])
                        THEN acc ELSE [acc EXCEPT ![key] = new]
      BY DEF DisplayLine, Key, Noted
  <2> HIDE DEF After, key, new
  <2>4. [acc EXCEPT ![key] = new] \in A  BY <2>1, <2>2
  <2>5. [acc EXCEPT ![key] = new][s] = IF s = key THEN new ELSE acc[s]  BY <2>1
  <2>6. After(n, acc) \in A  BY <2>3, <2>4
  <2>7. After(n, acc)[s] = IF n \in Lines /\ Included(filter, rows[n]) /\ s = key
                           THEN new ELSE acc[s]
      BY <2>3, <2>5
  <2>8. s = key => new = Noted(acc[s], rows[n])  BY DEF new
  <2> QED  BY <2>6, <2>7, <2>8 DEF key
<1>3. step \in [1 .. N -> [A -> A]]  BY <1>2
<1> HIDE DEF A, a
<1>4. PICK t \in [0 .. N -> A] : t[0] = a /\ \A n \in 1 .. N : t[n] = step[n][t[n - 1]]
  <2> HIDE DEF step, N
  <2>1. N \in Nat  BY <1>0
  <2>2. \E t \in [0 .. N -> A] : t[0] = a /\ \A n \in 1 .. N : t[n] = step[n][t[n - 1]]
      BY <1>1, <1>3, <2>1, FoldExists, SMTT(30)
  <2> QED  BY <2>2
<1>5. ASSUME NEW n \in 1 .. N PROVE t[n - 1] \in A /\ t[n] = After(n, t[n - 1])
  <2>1. n - 1 \in 0 .. N  BY <1>0
  <2>2. t[n - 1] \in A  BY <2>1
  <2> HIDE DEF After
  <2>3. step[n][t[n - 1]] = After(n, t[n - 1])  BY <2>2
  <2> QED  BY <1>4, <2>2, <2>3
<1>6. Is(t)
  <2>1. \A n \in 0 .. N : n = 0 \/ n \in 1 .. N  BY <1>0
  <2>2. \A n \in 0 .. N : t[n] = IF n = 0 THEN a ELSE After(n, t[n - 1])
      BY <1>4, <1>5, <2>1
  <2> QED  BY <2>2
<1>7. Table(filter) = CHOOSE u : Is(u)  BY DEF Table, a
<1> HIDE DEF Is
<1>8. Is(Table(filter))  BY <1>6, <1>7
<1>9. PICK T : T = Table(filter) /\ Is(T)  BY <1>8
<1>10. T[0] = a  BY <1>0, <1>9 DEF Is
<1>11. ASSUME NEW n \in 1 .. N PROVE T[n] = After(n, T[n - 1])
  <2>1. n \in 0 .. N /\ n # 0  BY <1>0
  <2> QED  BY <1>9, <2>1 DEF Is
<1> DEFINE good == {n \in 0 .. N : T[n] \in A}
<1>12. \A n \in 0 .. N : n \in good
  <2>1. 0 \in good  BY <1>0, <1>1, <1>10
  <2>2. ASSUME NEW n \in 1 .. N, n - 1 \in good PROVE n \in good
    <3>1. T[n - 1] \in A /\ n \in 0 .. N  BY <1>0, <2>2
    <3> HIDE DEF After
    <3> QED  BY <1>2, <1>11, <3>1
  <2> HIDE DEF good, N
  <2> QED  BY <1>0, <2>1, <2>2, ByLines
<1>13. \A n \in 0 .. N : T[n][s] \in DisplaySlot
  <2>1. \A acc \in A : acc[s] \in DisplaySlot  BY DEF A
  <2> QED  BY <1>12, <2>1
<1>14. T[0][s] = EmptySlot  BY <1>10 DEF a
<1>15. ASSUME NEW n \in 1 .. N
       PROVE  T[n][s] = IF n \in Lines /\ Included(filter, rows[n]) /\ s = Key(rows[n])
                        THEN Noted(T[n - 1][s], rows[n]) ELSE T[n - 1][s]
  <2>1. n - 1 \in 0 .. N  BY <1>0
  <2>2. T[n - 1] \in A  BY <1>12, <2>1
  <2> HIDE DEF After
  <2> QED  BY <1>2, <1>11, <2>2
<1> QED  BY <1>9, <1>13, <1>14, <1>15

-------------------------------------------------------------------------------
(* What is printed of a slot.                                              *)

\* Printed plainly OPEN is what the newest line says is OPEN.
LEMMA RenderPlain ==
    ASSUME NEW pr, NEW u \in DisplaySlot, ~u.prior
    PROVE  LET slot == Render(pr, u, FALSE)
           IN  slot.present /\ slot.state = "OPEN" /\ ~slot.prior
                 <=> u.present /\ u.state = "OPEN"
<1> DEFINE shown == [u EXCEPT !.present = u.present /\ Visible(pr, u)]
           past  == [shown EXCEPT !.prior = TRUE, !.ts = u.synackTs, !.rx = u.synackRx,
                                  !.state = "OPEN", !.evidence = "SYN_ACK"]
           final == IF shown.present /\ UsesPrior(pr, u) THEN past ELSE shown
           slot == Render(pr, u, FALSE)
<1>1. /\ shown.state = u.state /\ (shown.prior <=> u.prior)
      /\ shown.present <=> u.present /\ Visible(pr, u)
    BY DEF DisplaySlot
<1>2. past.prior /\ past.state = "OPEN" /\ (past.present <=> shown.present)
    BY DEF DisplaySlot
<1>3. slot = [final EXCEPT !.present = final.present /\ (FALSE => final.rx)]
    BY DEF Render
<1>4. {"present", "state", "prior"} \subseteq DOMAIN final  BY DEF DisplaySlot
<1> HIDE DEF shown, past
<1>5. slot.state = final.state /\ (slot.prior <=> final.prior)
      /\ (slot.present <=> final.present)
  <2> HIDE DEF slot, final
  <2>1. PICK b : b = (final.present /\ (FALSE => final.rx))  OBVIOUS
  <2>2. slot = [final EXCEPT !.present = b]  BY <1>3, <2>1
  <2>3. slot.state = final.state /\ slot.prior = final.prior /\ slot.present = b
      BY <1>4, <2>2
  <2>4. b <=> final.present  BY <2>1
  <2> QED  BY <2>3, <2>4
<1> HIDE DEF slot
<1>6. u.state = "OPEN" => Visible(pr, u) /\ ~UsesPrior(pr, u)
    BY DEF Visible, UsesPrior, IsNegative
<1>7. CASE shown.present /\ UsesPrior(pr, u)
  <2>1. final = past  BY <1>7
  <2> HIDE DEF final
  <2> QED  BY <1>2, <1>5, <1>6, <1>7, <2>1 DEF slot
<1>8. CASE ~(shown.present /\ UsesPrior(pr, u))
  <2>1. final = shown  BY <1>8
  <2> HIDE DEF final
  <2> QED  BY <1>1, <1>5, <1>6, <1>8, <2>1 DEF slot
<1> QED  BY <1>7, <1>8

\* A slot whose newest SYN+ACK was received is printed OPEN, in observed mode too.
LEMMA RenderObserved ==
    ASSUME NEW u \in DisplaySlot, u.present, u.synack, u.synackRx, u.state = "OPEN" => u.rx
    PROVE  LET slot == Render("TCP", u, TRUE) IN slot.present /\ slot.state = "OPEN"
<1> DEFINE shown == [u EXCEPT !.present = u.present /\ Visible("TCP", u)]
           past  == [shown EXCEPT !.prior = TRUE, !.ts = u.synackTs, !.rx = u.synackRx,
                                  !.state = "OPEN", !.evidence = "SYN_ACK"]
           final == IF shown.present /\ UsesPrior("TCP", u) THEN past ELSE shown
           slot == Render("TCP", u, TRUE)
<1>1. UsesPrior("TCP", u) <=> u.state # "OPEN"  BY DEF UsesPrior
<1>2. Visible("TCP", u)  BY <1>1 DEF Visible, IsNegative
<1>3. shown.present /\ shown.state = u.state /\ (shown.rx <=> u.rx)
    BY <1>2 DEF DisplaySlot
<1>4. past.present /\ past.rx /\ past.state = "OPEN"
    BY <1>3 DEF DisplaySlot
<1>5. slot = [final EXCEPT !.present = final.present /\ (TRUE => final.rx)]
    BY DEF Render
<1>6. {"present", "state"} \subseteq DOMAIN final  BY DEF DisplaySlot
<1> HIDE DEF shown, past
<1>7. final.present /\ final.rx /\ final.state = "OPEN"
  <2>1. CASE u.state = "OPEN"
    <3>1. final = shown  BY <1>1, <2>1
    <3> HIDE DEF final
    <3> QED  BY <1>3, <2>1, <3>1
  <2>2. CASE u.state # "OPEN"
    <3>1. final = past  BY <1>1, <1>3, <2>2
    <3> HIDE DEF final
    <3> QED  BY <1>4, <3>1
  <2> QED  BY <2>1, <2>2
<1> HIDE DEF final
<1>8. slot.present /\ slot.state = "OPEN"
  <2> HIDE DEF slot
  <2>1. PICK b : b = (final.present /\ (TRUE => final.rx))  OBVIOUS
  <2>2. slot = [final EXCEPT !.present = b]  BY <1>5, <2>1
  <2>3. slot.state = final.state /\ slot.present = b  BY <1>6, <2>2
  <2>4. b  BY <1>7, <2>1
  <2> QED  BY <1>7, <2>3, <2>4
<1> QED  BY <1>8

\* What is rendered is a slot, and OPEN in it has the evidence of the SYN+ACK if it had.
LEMMA RenderEvidence ==
    ASSUME NEW pr, NEW u \in DisplaySlot, NEW observed \in BOOLEAN
    PROVE  LET slot == Render(pr, u, observed)
           IN  /\ slot \in DisplaySlot
               /\ (u.state = "OPEN" => u.evidence = "SYN_ACK")
                    => (slot.state = "OPEN" => slot.evidence = "SYN_ACK")
<1> DEFINE shown == [u EXCEPT !.present = u.present /\ Visible(pr, u)]
           past  == [shown EXCEPT !.prior = TRUE, !.ts = u.synackTs, !.rx = u.synackRx,
                                  !.state = "OPEN", !.evidence = "SYN_ACK"]
           final == IF shown.present /\ UsesPrior(pr, u) THEN past ELSE shown
           slot == Render(pr, u, observed)
<1>1. shown \in DisplaySlot /\ shown.state = u.state /\ shown.evidence = u.evidence
  <2>1. (u.present /\ Visible(pr, u)) \in BOOLEAN  OBVIOUS
  <2>2. PICK b \in BOOLEAN : b = (u.present /\ Visible(pr, u))  BY <2>1
  <2>3. shown = [u EXCEPT !.present = b]  BY <2>2
  <2> HIDE DEF shown
  <2> QED  BY <2>3 DEF DisplaySlot
<1> HIDE DEF shown
<1>2. past \in DisplaySlot /\ past.evidence = "SYN_ACK"
    BY <1>1 DEF DisplaySlot, States, Evidence
<1> HIDE DEF past
<1>3. /\ final \in DisplaySlot
      /\ (u.state = "OPEN" => u.evidence = "SYN_ACK")
           => (final.state = "OPEN" => final.evidence = "SYN_ACK")
  <2>1. CASE shown.present /\ UsesPrior(pr, u)  BY <1>2, <2>1
  <2>2. CASE ~(shown.present /\ UsesPrior(pr, u))  BY <1>1, <2>2
  <2> QED  BY <2>1, <2>2
<1>4. slot = [final EXCEPT !.present = final.present /\ (observed => final.rx)]
    BY DEF Render, shown, past
<1> HIDE DEF final, slot
<1>5. slot \in DisplaySlot /\ slot.state = final.state /\ slot.evidence = final.evidence
  <2>1. (final.present /\ (observed => final.rx)) \in BOOLEAN  OBVIOUS
  <2>2. PICK b \in BOOLEAN : b = (final.present /\ (observed => final.rx))  BY <2>1
  <2>3. slot = [final EXCEPT !.present = b]  BY <1>4, <2>2
  <2> QED  BY <1>3, <2>3 DEF DisplaySlot
<1>6. /\ slot \in DisplaySlot
      /\ (u.state = "OPEN" => u.evidence = "SYN_ACK")
           => (slot.state = "OPEN" => slot.evidence = "SYN_ACK")
    BY <1>3, <1>5
<1> QED  BY <1>6 DEF slot

\* What a row of the table is printed from.
LEMMA RenderedSlot ==
    ASSUME NEW filter, NEW observed, NEW s \in Slots
    PROVE  Rendered(filter, observed)[s] = Render(s[1], Table(filter)[Len(rows)][s], observed)
BY DEF Rendered

\* A slot is printed as it is rendered, unless the table is full.
LEMMA DisplayedSlot ==
    ASSUME TypeOK, NEW filter, NEW observed \in BOOLEAN, NEW s \in Slots
    PROVE  LET a == Display(filter, observed)[s]
               b == Rendered(filter, observed)[s]
           IN  /\ a.state = b.state /\ (a.prior <=> b.prior)
               /\ a.present <=> b.present /\ Printed(Rendered(filter, observed), s)
<1> DEFINE slots == Rendered(filter, observed)
           b == slots[s]
           a == Display(filter, observed)[s]
<1>1. b \in DisplaySlot
  <2>1. Len(rows) \in 0 .. Len(rows)  BY DEF TypeOK
  <2>2. Table(filter)[Len(rows)][s] \in DisplaySlot  BY <2>1, TableRows
  <2>3. b = Render(s[1], Table(filter)[Len(rows)][s], observed)  BY RenderedSlot
  <2> HIDE DEF b
  <2> QED  BY <2>2, <2>3, RenderEvidence
<1>2. a = [b EXCEPT !.present = b.present /\ Printed(slots, s)]  BY DEF Display
<1> HIDE DEF slots, a, b
<1>3. PICK c : c = (b.present /\ Printed(slots, s))  OBVIOUS
<1>4. a = [b EXCEPT !.present = c]  BY <1>2, <1>3
<1>5. {"present", "state", "prior"} \subseteq DOMAIN b  BY <1>1 DEF DisplaySlot
<1>6. a.state = b.state /\ a.prior = b.prior /\ a.present = c  BY <1>4, <1>5
<1>7. /\ a.state = b.state /\ (a.prior <=> b.prior)
      /\ a.present <=> b.present /\ Printed(slots, s)
    BY <1>3, <1>6
<1> QED  BY <1>7 DEF slots, a, b

\* The rows before a row can be counted.
LEMMA RowsCounted ==
    ASSUME NEW slots, NEW s
    PROVE  RowsBefore(slots, s) \in Nat
<1>1. IsFiniteSet(Port)
  <2>1. 1 \in Int /\ MaxPorts - 1 \in Int  BY MaxPortsAssumption
  <2> QED  BY <2>1, FS_Interval DEF Port
<1>2. IsFiniteSet(Families) /\ IsFiniteSet(Protocols)
  <2>1. /\ IsFiniteSet({}) /\ Families = ({} \cup {"v4"}) \cup {"v6"}
        /\ Protocols = ({} \cup {"TCP"}) \cup {"UDP"}
      BY FS_EmptySet DEF Families, Protocols
  <2>2. IsFiniteSet({} \cup {"v4"}) /\ IsFiniteSet({} \cup {"TCP"})  BY <2>1, FS_AddElement
  <2> QED  BY <2>1, <2>2, FS_AddElement
<1>3. IsFiniteSet(Protocols \X (Families \X Port))  BY <1>1, <1>2, FS_Product
<1>4. IsFiniteSet(Slots)
  <2> DEFINE pairs == Protocols \X (Families \X Port)
             flat == [x \in pairs |-> <<x[1], x[2][1], x[2][2]>>]
  <2>1. flat \in [pairs -> Slots]  BY DEF Slots
  <2>2. ASSUME NEW t \in Slots PROVE \E x \in pairs : flat[x] = t
    <3>1. PICK x : x = <<t[1], <<t[2], t[3]>>>>  OBVIOUS
    <3>2. /\ t[1] \in Protocols /\ t[2] \in Families /\ t[3] \in Port
          /\ t = <<t[1], t[2], t[3]>>
        BY DEF Slots
    <3>3. x \in pairs /\ x[1] = t[1] /\ x[2][1] = t[2] /\ x[2][2] = t[3]  BY <3>1, <3>2
    <3> QED  BY <3>2, <3>3
  <2> HIDE DEF pairs, flat
  <2>3. flat \in Surjection(pairs, Slots)  BY <2>1, <2>2 DEF Surjection
  <2>4. IsFiniteSet(pairs)  BY <1>3 DEF pairs
  <2> QED  BY <2>3, <2>4, FS_Surjection
<1>5. {t \in Slots : slots[t].present /\ Before(t, s)} \in SUBSET Slots  OBVIOUS
<1>6. IsFiniteSet({t \in Slots : slots[t].present /\ Before(t, s)})
    BY <1>4, <1>5, FS_Subset
<1> QED  BY <1>6, FS_CardinalityType DEF RowsBefore

-------------------------------------------------------------------------------
(* What the lines say, and the promises of the readers.                    *)

\* An answer is what makes a line "received" and a TCP port OPEN; while the clock is not
\* set back, the order of the file is the order of the times.
LinesAreTrue ==
    /\ \A i \in DOMAIN rows :
         /\ rows[i].rx <=> rows[i].evidence \notin {"TIMEOUT", "NETWORK_ERROR"}
         /\ rows[i].proto = "TCP" /\ rows[i].state = "OPEN" => rows[i].evidence = "SYN_ACK"
    /\ steps = 0 => \A i, j \in DOMAIN rows : i < j => rows[i].ts < rows[j].ts

LEMMA LinesStep ==
    ASSUME VerdictInv, TimesAreLegs, LinesAreTrue, [Next]_vars
    PROVE  LinesAreTrue'
<1> USE DEF engine, record, world
<1>0. TypeOK /\ steps \in Nat  BY DEF VerdictInv, TypeOK
<1>1. CASE TcpLeg \/ UdpLeg
  <2>1. InLeg /\ LegStep  BY <1>0, <1>1 DEF TcpLeg, UdpLeg, InLeg, TypeOK
  <2>2. steps' = steps  BY <1>0, <2>1, LegMoves
  <2>3. CASE UNCHANGED rows  BY <2>2, <2>3 DEF LinesAreTrue
  <2>4. ASSUME NEW p \in Port, NEW state \in States, NEW evidence \in Evidence,
               NEW ok \in BOOLEAN, Finalize(p, state, evidence, ok),
               Protocol = "TCP" /\ state = "OPEN" => evidence = "SYN_ACK"
        PROVE  LinesAreTrue'
    <3>1. PICK new : new = rows'[Len(rows) + 1]  OBVIOUS
    <3>2. /\ DOMAIN rows = 1 .. Len(rows) /\ DOMAIN rows' = 1 .. Len(rows) + 1
          /\ Len(rows) \in Nat
          /\ \A i \in 1 .. Len(rows) : rows'[i] = rows[i]
          /\ new.ts = now /\ new.proto = Protocol /\ new.state = state
          /\ new.evidence = evidence
          /\ new.rx = (evidence \notin {"TIMEOUT", "NETWORK_ERROR"})
        BY <1>0, <2>4, <3>1, FinalizeAppends
    <3>3. \A i \in DOMAIN rows' : i \in DOMAIN rows \/ i = Len(rows) + 1  BY <3>2
    <3>4. \A i \in DOMAIN rows' :
            /\ rows'[i].rx <=> rows'[i].evidence \notin {"TIMEOUT", "NETWORK_ERROR"}
            /\ rows'[i].proto = "TCP" /\ rows'[i].state = "OPEN"
                 => rows'[i].evidence = "SYN_ACK"
      <4> TAKE i \in DOMAIN rows'
      <4>1. CASE i \in DOMAIN rows  BY <3>2, <4>1 DEF LinesAreTrue
      <4>2. CASE i = Len(rows) + 1
        <5>1. rows'[i] = new  BY <3>1, <4>2
        <5>2. new.rx <=> new.evidence \notin {"TIMEOUT", "NETWORK_ERROR"}  BY <3>2
        <5>3. new.proto = "TCP" /\ new.state = "OPEN" => new.evidence = "SYN_ACK"
            BY <2>4, <3>2
        <5> QED  BY <5>1, <5>2, <5>3
      <4> QED  BY <3>3, <4>1, <4>2
    <3>5. steps = 0 => \A i, j \in DOMAIN rows' : i < j => rows'[i].ts < rows'[j].ts
      <4> SUFFICES ASSUME steps = 0, NEW i \in DOMAIN rows', NEW j \in DOMAIN rows', i < j
                   PROVE  rows'[i].ts < rows'[j].ts
          OBVIOUS
      <4>1. i \in DOMAIN rows /\ rows'[i] = rows[i]  BY <3>2
      <4>2. CASE j \in DOMAIN rows  BY <3>2, <4>1, <4>2 DEF LinesAreTrue
      <4>3. CASE j = Len(rows) + 1
        <5>1. rows[i].ts < now  BY <4>1 DEF TimesAreLegs
        <5> QED  BY <3>1, <3>2, <4>1, <4>3, <5>1
      <4> QED  BY <3>3, <4>2, <4>3
    <3> QED  BY <2>2, <3>4, <3>5 DEF LinesAreTrue
  <2> QED  BY <1>0, <2>1, <2>3, <2>4, LegMoves
<1>2. CASE ClockSteps
  <2>1. steps' # 0 /\ rows' = rows  BY <1>0, <1>2 DEF ClockSteps
  <2> QED  BY <2>1 DEF LinesAreTrue
<1>3. CASE StartScan \/ PassOver \/ BeginLeg \/ SkipLeg \/ Enrich \/ FinishScan
           \/ UNCHANGED vars
  <2>1. UNCHANGED <<rows, steps>>
      BY <1>3 DEF StartScan, PassOver, BeginLeg, SkipLeg, Enrich, FinishScan, vars
  <2> QED  BY <2>1 DEF LinesAreTrue
<1> QED  BY <1>1, <1>2, <1>3 DEF Next, ScanStep, Done

LEMMA ReadersInv == Spec => [](TypeOK /\ LinesAreTrue)
<1>1. Init => VerdictInv /\ TimesAreLegs /\ LinesAreTrue
  <2>1. Init => TimesAreLegs  BY DEF Init, TimesAreLegs
  <2>2. Init => LinesAreTrue  BY DEF Init, LinesAreTrue
  <2> QED  BY <2>1, <2>2, VerdictInit
<1>2. VerdictInv /\ TimesAreLegs /\ LinesAreTrue /\ [Next]_vars
        => (VerdictInv /\ TimesAreLegs /\ LinesAreTrue)'
    BY VerdictStep, TimesStep, LinesStep
<1>3. VerdictInv => TypeOK  BY DEF VerdictInv
<1> QED  BY <1>1, <1>2, <1>3, PTL DEF Spec

\* A TCP slot that is OPEN has the evidence of the SYN+ACK.
LEMMA OpenSlot ==
    ASSUME TypeOK, LinesAreTrue, NEW filter, NEW s \in Slots, s[1] = "TCP"
    PROVE  LET u == Table(filter)[Len(rows)][s]
           IN  u \in DisplaySlot /\ (u.state = "OPEN" => u.evidence = "SYN_ACK")
<1> DEFINE N == Len(rows)
           U(n) == Table(filter)[n][s]
           Proven(n) == U(n).state = "OPEN" => U(n).evidence = "SYN_ACK"
           good == {n \in 0 .. N : Proven(n)}
<1>0. N \in Nat /\ \A n \in 1 .. N : n \in DOMAIN rows /\ rows[n] \in Row  BY DEF TypeOK
<1>1. /\ \A n \in 0 .. N : U(n) \in DisplaySlot
      /\ U(0) = EmptySlot
      /\ \A n \in 1 .. N : U(n) = IF n \in Lines /\ Included(filter, rows[n]) /\ s = Key(rows[n])
                                  THEN Noted(U(n - 1), rows[n]) ELSE U(n - 1)
    BY TableRows
<1> HIDE DEF U
<1>2. Proven(0)  BY <1>1 DEF EmptySlot
<1>3. ASSUME NEW n \in 1 .. N, Proven(n - 1) PROVE Proven(n)
  <2> DEFINE r == rows[n]
             v == U(n - 1)
             w == Noted(v, r)
  <2>1. r \in Row /\ v \in DisplaySlot
    <3>1. n - 1 \in 0 .. N  BY <1>0
    <3> QED  BY <1>0, <1>1, <3>1
  <2>2. U(n) = v \/ (s = Key(r) /\ U(n) = w)  BY <1>1
  <2>3. \/ w.state = v.state /\ w.evidence = v.evidence
        \/ w.state = r.state /\ w.evidence = r.evidence
      BY <2>1, NoteFacts
  <2>4. s = Key(r) => r.proto = "TCP"  BY DEF Key
  <2>5. r.proto = "TCP" /\ r.state = "OPEN" => r.evidence = "SYN_ACK"
      BY <1>0 DEF LinesAreTrue
  <2>6. v.state = "OPEN" => v.evidence = "SYN_ACK"  BY <1>3
  <2> HIDE DEF r, v, w
  <2> QED  BY <2>2, <2>3, <2>4, <2>5, <2>6
<1>4. \A n \in 0 .. N : n \in good
  <2>1. 0 \in good  BY <1>0, <1>2
  <2>2. ASSUME NEW n \in 1 .. N, n - 1 \in good PROVE n \in good
    <3>1. Proven(n - 1) /\ n \in 0 .. N  BY <2>2
    <3> HIDE DEF Proven
    <3> QED  BY <1>3, <3>1
  <2> HIDE DEF good, N
  <2> QED  BY <1>0, <2>1, <2>2, ByLines
<1>5. Proven(N) /\ U(N) \in DisplaySlot
  <2>1. N \in 0 .. N  BY <1>0
  <2> HIDE DEF Proven
  <2> QED  BY <1>1, <1>4, <2>1
<1> QED  BY <1>5 DEF U

\* A full table leaves out no TCP port that is rendered OPEN.
LEMMA OpenIsPrinted ==
    ASSUME TypeOK, LinesAreTrue, NEW filter, NEW observed \in BOOLEAN,
           NEW s \in Slots, s[1] = "TCP", Rendered(filter, observed)[s].state = "OPEN"
    PROVE  Printed(Rendered(filter, observed), s)
<1> DEFINE slots == Rendered(filter, observed)
           u == Table(filter)[Len(rows)][s]
<1>1. u \in DisplaySlot /\ (u.state = "OPEN" => u.evidence = "SYN_ACK")  BY OpenSlot
<1>2. slots[s] = Render("TCP", u, observed)  BY RenderedSlot
<1> HIDE DEF u
<1>3. slots[s].state = "OPEN" => slots[s].evidence = "SYN_ACK"
    BY <1>1, <1>2, RenderEvidence
<1> QED  BY <1>3 DEF Printed, IsTcpSynAck

\* The filter and the table agree on a port that is asked for, after every line.
LEMMA ReadersAgree ==
    ASSUME TypeOK, NEW ports, ports # {}, NEW fam \in Families, NEW p \in Port
    PROVE  LET u == Table(ports)[Len(rows)][<<"TCP", fam, p>>]
               v == Selection(ports)[Len(rows)][<<fam, p>>]
           IN  /\ u \in DisplaySlot /\ ~u.prior
               /\ u.present => v.state = u.state /\ p \in ports
               /\ ~u.present => v.state = "UNKNOWN"
<1> DEFINE N == Len(rows)
           s == <<"TCP", fam, p>>
           q == <<fam, p>>
           U(n) == Table(ports)[n][s]
           V(n) == Selection(ports)[n][q]
           Agree(n) == /\ ~U(n).prior
                       /\ U(n).present => /\ V(n).state = U(n).state /\ V(n).ts = U(n).ts
                                          /\ p \in ports
                       /\ ~U(n).present => V(n).state = "UNKNOWN" /\ V(n).ts = 0
           good == {n \in 0 .. N : Agree(n)}
<1>0. N \in Nat /\ \A n \in 1 .. N : rows[n] \in Row  BY DEF TypeOK
<1>1. s \in Slots /\ q \in Families \X Port  BY DEF Slots, Protocols
<1>2. \A n \in 0 .. N : U(n) \in DisplaySlot /\ V(n) \in SelectSlot
    BY <1>1, SelectionRows, TableRows
<1>3. Agree(0)
  <2>1. U(0) = EmptySlot /\ V(0) = [ts |-> 0, state |-> "UNKNOWN"]
      BY <1>1, SelectionRows, TableRows
  <2>2. ~EmptySlot.present /\ ~EmptySlot.prior  BY DEF EmptySlot
  <2> HIDE DEF U, V
  <2> QED  BY <2>1, <2>2
<1>4. ASSUME NEW n \in 1 .. N, Agree(n - 1) PROVE Agree(n)
  <2> DEFINE r == rows[n]
             hit == n \in Lines /\ r.proto = "TCP" /\ r.port \in ports /\ q = <<r.fam, r.port>>
  <2>1. n - 1 \in 0 .. N /\ r \in Row  BY <1>0
  <2>2. Included(ports, r) <=> r.proto = "TCP" /\ r.port \in ports  BY DEF Included
  <2>3. hit <=> n \in Lines /\ Included(ports, r) /\ s = Key(r)  BY <2>2 DEF Key
  <2>4. U(n) = IF hit THEN Noted(U(n - 1), r) ELSE U(n - 1)
      BY <1>1, <2>3, TableRows
  <2>5. V(n) = IF hit /\ ~(V(n - 1).ts > r.ts) THEN [ts |-> r.ts, state |-> r.state]
               ELSE V(n - 1)
      BY <1>1, SelectionRows
  <2>6. U(n - 1) \in DisplaySlot /\ V(n - 1) \in SelectSlot  BY <1>2, <2>1
  <2>7. hit => p \in ports  BY <1>1
  <2>8. r.ts \in Nat  BY <2>1 DEF Row
  <2> HIDE DEF U, V, r, hit
  <2>9. CASE ~hit  BY <1>4, <2>4, <2>5, <2>9
  <2>10. CASE hit
    <3> DEFINE w == Noted(U(n - 1), r)
    <3>1. U(n) = w  BY <2>4, <2>10
    <3>2. /\ w.present /\ (w.prior <=> U(n - 1).prior)
          /\ U(n - 1).present /\ U(n - 1).ts > r.ts =>
               w.ts = U(n - 1).ts /\ w.state = U(n - 1).state
          /\ ~(U(n - 1).present /\ U(n - 1).ts > r.ts) => w.ts = r.ts /\ w.state = r.state
        BY <2>1, <2>6, NoteFacts DEF r
    <3> HIDE DEF w
    <3>3. V(n - 1).ts > r.ts <=> U(n - 1).present /\ U(n - 1).ts > r.ts
        BY <1>4, <2>6, <2>8 DEF SelectSlot
    <3>4. V(n).ts = w.ts /\ V(n).state = w.state
      <4>1. CASE V(n - 1).ts > r.ts  BY <1>4, <2>5, <3>2, <3>3, <4>1
      <4>2. CASE ~(V(n - 1).ts > r.ts)  BY <2>5, <2>10, <3>2, <3>3, <4>2
      <4> QED  BY <4>1, <4>2
    <3> QED  BY <1>4, <2>7, <2>10, <3>1, <3>2, <3>4
  <2> QED  BY <2>9, <2>10
<1>5. \A n \in 0 .. N : n \in good
  <2>1. 0 \in good  BY <1>0, <1>3
  <2>2. ASSUME NEW n \in 1 .. N, n - 1 \in good PROVE n \in good
    <3>1. Agree(n - 1) /\ n \in 0 .. N  BY <2>2
    <3> HIDE DEF Agree
    <3> QED  BY <1>4, <3>1
  <2> HIDE DEF good, N
  <2> QED  BY <1>0, <2>1, <2>2, ByLines
<1>6. Agree(N) /\ U(N) \in DisplaySlot
  <2>1. N \in 0 .. N  BY <1>0
  <2> HIDE DEF Agree
  <2> QED  BY <1>2, <1>5, <2>1
<1> QED  BY <1>6

\* `targets display -p` keeps a target exactly when the table it then prints shows one of
\* the ports plainly OPEN (kportselect and kportdisplay read the same file alike).
THEOREM ReadersMatch == Spec => []SelectMatchesDisplay
<1>1. ASSUME TypeOK, LinesAreTrue PROVE SelectMatchesDisplay
  <2> SUFFICES ASSUME NEW ports \in (SUBSET Port) \ {{}}
               PROVE  HasOpenTcpPorts(ports) <=>
                        \E fam \in Families, p \in ports :
                          LET slot == Display(ports, FALSE)[<<"TCP", fam, p>>]
                          IN  slot.present /\ slot.state = "OPEN" /\ ~slot.prior
      BY DEF SelectMatchesDisplay
  <2>1. ports \subseteq Port /\ ports # {}  OBVIOUS
  <2> DEFINE Plain(fam, p) ==
               LET slot == Display(ports, FALSE)[<<"TCP", fam, p>>]
               IN  slot.present /\ slot.state = "OPEN" /\ ~slot.prior
             Says(fam, p) == Selection(ports)[Len(rows)][<<fam, p>>].state = "OPEN"
  <2>2. ASSUME NEW fam \in Families, NEW p \in Port
        PROVE  Says(fam, p) <=> p \in ports /\ Plain(fam, p)
    <3> DEFINE s == <<"TCP", fam, p>>
               u == Table(ports)[Len(rows)][s]
    <3>1. s \in Slots /\ s[1] = "TCP"  BY DEF Slots, Protocols
    <3> DEFINE a == Display(ports, FALSE)[s]
               b == Rendered(ports, FALSE)[s]
    <3>2. b = Render("TCP", u, FALSE)  BY <3>1, RenderedSlot
    <3>a. /\ a.state = b.state /\ (a.prior <=> b.prior)
          /\ a.present <=> b.present /\ Printed(Rendered(ports, FALSE), s)
        BY <1>1, <3>1, DisplayedSlot
    <3>b. b.state = "OPEN" => Printed(Rendered(ports, FALSE), s)
        BY <1>1, <3>1, OpenIsPrinted
    <3>3. /\ u \in DisplaySlot /\ ~u.prior
          /\ u.present => Selection(ports)[Len(rows)][<<fam, p>>].state = u.state /\ p \in ports
          /\ ~u.present => Selection(ports)[Len(rows)][<<fam, p>>].state = "UNKNOWN"
        BY <1>1, <2>1, ReadersAgree
    <3> HIDE DEF u, b
    <3>c. b.present /\ b.state = "OPEN" /\ ~b.prior <=> u.present /\ u.state = "OPEN"
        BY <3>2, <3>3, RenderPlain
    <3>4. Plain(fam, p) <=> u.present /\ u.state = "OPEN"
      <4>1. Plain(fam, p) <=> a.present /\ a.state = "OPEN" /\ ~a.prior  OBVIOUS
      <4> HIDE DEF Plain, a
      <4> QED  BY <3>a, <3>b, <3>c, <4>1
    <3> HIDE DEF a
    <3> HIDE DEF Plain
    <3> QED  BY <3>3, <3>4
  <2>3. HasOpenTcpPorts(ports) <=> \E fam \in Families, p \in Port : Says(fam, p)
    <3> DEFINE T == Selection(ports)[Len(rows)]
    <3>1. HasOpenTcpPorts(ports) <=> \E s \in Families \X Port : T[s].state = "OPEN"
        BY DEF HasOpenTcpPorts
    <3>2. (\E s \in Families \X Port : T[s].state = "OPEN")
            <=> \E fam \in Families, p \in Port : T[<<fam, p>>].state = "OPEN"
      <4> HIDE DEF T
      <4>1. \A s \in Families \X Port : s = <<s[1], s[2]>> /\ s[1] \in Families /\ s[2] \in Port
          OBVIOUS
      <4>2. \A fam \in Families, p \in Port : <<fam, p>> \in Families \X Port  OBVIOUS
      <4> QED  BY <4>1, <4>2, Zenon
    <3> QED  BY <3>1, <3>2, Zenon DEF Says
  <2> HIDE DEF Plain, Says
  <2>4. HasOpenTcpPorts(ports) <=> \E fam \in Families, p \in ports : Plain(fam, p)
      BY <2>1, <2>2, <2>3
  <2> QED  BY <2>4 DEF Plain
<1>2. TypeOK /\ LinesAreTrue => SelectMatchesDisplay  BY <1>1
<1> QED  BY <1>2, ReadersInv, PTL

\* The table of all lines: a slot after one more line.
LEMMA WholeTable ==
    ASSUME TypeOK, NEW s \in Slots
    PROVE  /\ Len(rows) \in Nat /\ DOMAIN rows = 1 .. Len(rows)
           /\ \A n \in 1 .. Len(rows) : rows[n] \in Row
           /\ \A n \in 0 .. Len(rows) : Table({})[n][s] \in DisplaySlot
           /\ Table({})[0][s] = EmptySlot
           /\ \A n \in 1 .. Len(rows) :
                Table({})[n][s] = IF n \in Lines /\ s = Key(rows[n])
                                  THEN Noted(Table({})[n - 1][s], rows[n])
                                  ELSE Table({})[n - 1][s]
<1>1. \A r : Included({}, r)  BY DEF Included
<1>2. \A n \in 1 .. Len(rows) :
        Table({})[n][s] = IF n \in Lines /\ Included({}, rows[n]) /\ s = Key(rows[n])
                          THEN Noted(Table({})[n - 1][s], rows[n])
                          ELSE Table({})[n - 1][s]
    BY TableRows
<1>3. /\ \A n \in 0 .. Len(rows) : Table({})[n][s] \in DisplaySlot
      /\ Table({})[0][s] = EmptySlot
    BY TableRows
<1>4. /\ Len(rows) \in Nat /\ DOMAIN rows = 1 .. Len(rows)
      /\ \A n \in 1 .. Len(rows) : rows[n] \in Row
    BY DEF TypeOK
<1> QED  BY <1>1, <1>2, <1>3, <1>4

\* A port that once answered SYN+ACK stays on display as OPEN, whatever is appended to
\* the file later (KPORTDISPLAY_SLOT keeps the newest SYN+ACK beside the newest line).
THEOREM SynAckStays == Spec => []SynAckStaysOnDisplay
<1>1. ASSUME TypeOK, LinesAreTrue, NEW i \in Lines, IsSynAck(rows[i])
      PROVE  LET slot == Display({}, TRUE)[<<"TCP", rows[i].fam, rows[i].port>>]
             IN  HasObserved /\ slot.present /\ slot.state = "OPEN"
  <2> DEFINE N == Len(rows)
             s == <<"TCP", rows[i].fam, rows[i].port>>
             U(n) == Table({})[n][s]
             Kept(n) == /\ n >= i => U(n).present /\ U(n).synack
                        /\ U(n).synack => U(n).synackRx
                        /\ U(n).present /\ U(n).state = "OPEN" => U(n).rx
             good == {n \in 0 .. N : Kept(n)}
  <2>0. i \in 1 .. Len(rows) /\ rows[i] \in Row /\ N \in Nat
      BY <1>1 DEF Lines, TypeOK
  <2>1. s \in Slots /\ s[1] = "TCP" /\ s = Key(rows[i])
      BY <1>1, <2>0 DEF Slots, Protocols, Row, Key, IsSynAck, IsTcpSynAck
  <2>2. /\ \A n \in 1 .. N : n \in DOMAIN rows /\ rows[n] \in Row
        /\ \A n \in 0 .. N : U(n) \in DisplaySlot
        /\ U(0) = EmptySlot
        /\ \A n \in 1 .. N : U(n) = IF n \in Lines /\ s = Key(rows[n])
                                    THEN Noted(U(n - 1), rows[n]) ELSE U(n - 1)
    <3> HIDE DEF s
    <3> QED  BY <1>1, <2>1, WholeTable
  <2>3. \A n \in 1 .. N : IsSynAck(rows[n]) => rows[n].rx
    <3> TAKE n \in 1 .. N
    <3>1. rows[n].rx <=> rows[n].evidence \notin {"TIMEOUT", "NETWORK_ERROR"}
        BY <1>1, <2>2 DEF LinesAreTrue
    <3> QED  BY <3>1 DEF IsSynAck, IsTcpSynAck
  <2>4. \A n \in 1 .. N : rows[n].proto = "TCP" /\ rows[n].state = "OPEN" => IsSynAck(rows[n])
      BY <1>1, <2>2 DEF LinesAreTrue, IsSynAck, IsTcpSynAck
  <2> HIDE DEF U
  <2>5. Kept(0)
    <3>1. ~(0 >= i)  BY <2>0
    <3>2. ~EmptySlot.present /\ ~EmptySlot.synack  BY DEF EmptySlot
    <3> QED  BY <2>2, <3>1, <3>2
  <2>6. ASSUME NEW n \in 1 .. N, Kept(n - 1) PROVE Kept(n)
    <3> DEFINE r == rows[n]
               hit == n \in Lines /\ s = Key(r)
               v == U(n - 1)
               w == Noted(v, r)
    <3>1. r \in Row /\ v \in DisplaySlot /\ n \in Int /\ i \in Int
      <4>1. n - 1 \in 0 .. N  BY <2>0
      <4> QED  BY <2>0, <2>2, <4>1
    <3>2. U(n) = IF hit THEN w ELSE v  BY <2>2
    <3>3. /\ w.present
          /\ v.present /\ v.ts > r.ts => w.state = v.state /\ (w.rx <=> v.rx)
          /\ ~(v.present /\ v.ts > r.ts) => w.state = r.state /\ (w.rx <=> r.rx)
          /\ w.synack <=> (v.synack \/ IsSynAck(r))
          /\ (w.synackRx <=> v.synackRx) \/ (IsSynAck(r) /\ (w.synackRx <=> r.rx))
          /\ IsSynAck(r) /\ ~v.synack => (w.synackRx <=> r.rx)
        BY <3>1, NoteFacts
    <3>4. hit /\ r.state = "OPEN" => IsSynAck(r)
      <4>1. hit => r.proto = "TCP"  BY DEF Key
      <4> QED  BY <2>4, <4>1
    <3>5. IsSynAck(r) => r.rx  BY <2>3
    <3>6. n = i => hit /\ IsSynAck(r)  BY <1>1, <2>1
    <3>7. n >= i => n = i \/ n - 1 >= i  BY <3>1
    <3>8. /\ n - 1 >= i => v.present /\ v.synack
          /\ v.synack => v.synackRx
          /\ v.present /\ v.state = "OPEN" => v.rx
        BY <2>6
    <3> HIDE DEF hit, r, v, w, Kept
    <3>9. CASE ~hit
      <4>1. U(n) = v  BY <3>2, <3>9
      <4> QED  BY <3>6, <3>7, <3>8, <3>9, <4>1 DEF Kept
    <3>10. CASE hit
      <4>1. U(n) = w  BY <3>2, <3>10
      <4>2. n >= i => w.present /\ w.synack  BY <3>3, <3>6, <3>7, <3>8
      <4>3. w.synack => w.synackRx  BY <3>3, <3>5, <3>8
      <4>4. w.present /\ w.state = "OPEN" => w.rx  BY <3>3, <3>4, <3>5, <3>8, <3>10
      <4> QED  BY <4>1, <4>2, <4>3, <4>4 DEF Kept
    <3> QED  BY <3>9, <3>10
  <2>7. \A n \in 0 .. N : n \in good
    <3>1. 0 \in good  BY <2>0, <2>5
    <3>2. ASSUME NEW n \in 1 .. N, n - 1 \in good PROVE n \in good
      <4>1. Kept(n - 1) /\ n \in 0 .. N  BY <3>2
      <4> HIDE DEF Kept
      <4> QED  BY <2>6, <4>1
    <3> HIDE DEF good, N
    <3> QED  BY <2>0, <3>1, <3>2, ByLines
  <2>8. N \in 0 .. N /\ N >= i  BY <2>0
  <2>9. Kept(N) /\ U(N) \in DisplaySlot
    <3> HIDE DEF Kept
    <3> QED  BY <2>2, <2>7, <2>8
  <2>10. LET slot == Render("TCP", U(N), TRUE) IN slot.present /\ slot.state = "OPEN"
    <3>1. /\ U(N).present /\ U(N).synack /\ U(N).synackRx
          /\ U(N).state = "OPEN" => U(N).rx
        BY <2>8, <2>9
    <3>2. U(N) \in DisplaySlot  BY <2>9
    <3> QED  BY <3>1, <3>2, RenderObserved
  <2> DEFINE a == Display({}, TRUE)[s]
             b == Rendered({}, TRUE)[s]
  <2>11. b = Render("TCP", U(N), TRUE)  BY <2>1, RenderedSlot DEF U
  <2>12. HasObserved  BY <1>1, <2>0, <2>3 DEF HasObserved
  <2> HIDE DEF N, s
  <2>a. a.state = b.state /\ (a.present <=> b.present /\ Printed(Rendered({}, TRUE), s))
      BY <1>1, <2>1, DisplayedSlot
  <2>b. b.state = "OPEN" => Printed(Rendered({}, TRUE), s)
      BY <1>1, <2>1, OpenIsPrinted
  <2>c. b.present /\ b.state = "OPEN"  BY <2>10, <2>11
  <2> HIDE DEF a, b
  <2>d. HasObserved /\ a.present /\ a.state = "OPEN"  BY <2>12, <2>a, <2>b, <2>c
  <2>13. LET slot == Display({}, TRUE)[s] IN HasObserved /\ slot.present /\ slot.state = "OPEN"
      BY <2>d DEF a
  <2> QED  BY <2>13 DEF s
<1>2. TypeOK /\ LinesAreTrue => SynAckStaysOnDisplay  BY <1>1 DEF SynAckStaysOnDisplay
<1> QED  BY <1>2, ReadersInv, PTL

\* While the clock is not set back, plainly OPEN is what the last line of the port says:
\* the order of the times is the order of the file.  And what the last line says is
\* printed, but for a UDP port behind a full table (KPORTDISPLAY_TABLE_LIMIT).
THEOREM PlainOpenIsLast == Spec => []PlainOpenIsCurrent
<1>1. ASSUME TypeOK, LinesAreTrue, steps = 0, NEW s \in Slots
      PROVE  LET slot == Rendered({}, FALSE)[s]
                 mine == {i \in Lines : <<rows[i].proto, rows[i].fam, rows[i].port>> = s}
             IN  slot.present /\ slot.state = "OPEN" /\ ~slot.prior
                   <=> \E i \in mine : rows[i].state = "OPEN" /\ \A j \in mine : j <= i
  <2> DEFINE N == Len(rows)
             mine == {i \in Lines : <<rows[i].proto, rows[i].fam, rows[i].port>> = s}
             U(n) == Table({})[n][s]
             LastIs(n, i) == /\ i \in mine /\ i <= n /\ \A j \in mine : j <= n => j <= i
                             /\ U(n).ts = rows[i].ts /\ U(n).state = rows[i].state
             Current(n) == /\ ~U(n).prior
                           /\ U(n).present => \E i \in mine : LastIs(n, i)
                           /\ ~U(n).present => \A j \in mine : ~(j <= n)
             good == {n \in 0 .. N : Current(n)}
  <2>0. N \in Nat /\ mine \subseteq 1 .. N  BY <1>1 DEF Lines, TypeOK
  <2>1. /\ \A n \in 1 .. N : rows[n] \in Row
        /\ \A n \in 0 .. N : U(n) \in DisplaySlot
        /\ U(0) = EmptySlot
        /\ \A n \in 1 .. N : U(n) = IF n \in Lines /\ s = Key(rows[n])
                                    THEN Noted(U(n - 1), rows[n]) ELSE U(n - 1)
      BY <1>1, WholeTable
  <2>2. \A i, j \in 1 .. N : i < j => rows[i].ts < rows[j].ts
    <3>1. DOMAIN rows = 1 .. N  BY <1>1 DEF TypeOK
    <3> QED  BY <1>1, <3>1 DEF LinesAreTrue
  <2>3. \A n : n \in mine <=> n \in Lines /\ s = Key(rows[n])  BY DEF Key
  <2> HIDE DEF U, mine
  <2>4. Current(0)
    <3>1. \A j \in mine : ~(j <= 0)  BY <2>0
    <3>2. ~EmptySlot.present /\ ~EmptySlot.prior  BY DEF EmptySlot
    <3> QED  BY <2>1, <3>1, <3>2
  <2>5. ASSUME NEW n \in 1 .. N, Current(n - 1) PROVE Current(n)
    <3> DEFINE r == rows[n]
               v == U(n - 1)
               w == Noted(v, r)
    <3>1. r \in Row /\ v \in DisplaySlot /\ n \in Nat
      <4>1. n - 1 \in 0 .. N  BY <2>0
      <4> QED  BY <2>0, <2>1, <4>1
    <3>2. U(n) = IF n \in mine THEN w ELSE v  BY <2>1, <2>3
    <3>3. \A j \in mine : j \in Nat /\ (j <= n => j <= n - 1 \/ j = n) /\ (j <= n - 1 => j <= n)
        BY <2>0, <3>1
    <3>4. CASE n \notin mine
      <4>1. U(n) = U(n - 1)  BY <3>2, <3>4
      <4>2. \A j \in mine : j <= n <=> j <= n - 1  BY <3>3, <3>4
      <4>3. \A i \in mine : LastIs(n - 1, i) => LastIs(n, i)  BY <4>1, <4>2
      <4> HIDE DEF LastIs
      <4> QED  BY <2>5, <4>1, <4>2, <4>3
    <3>5. CASE n \in mine
      <4>1. ~(v.present /\ v.ts > r.ts)
        <5>1. SUFFICES ASSUME v.present PROVE ~(v.ts > r.ts)  OBVIOUS
        <5>2. PICK i \in mine : LastIs(n - 1, i)  BY <2>5, <5>1
        <5>3. i \in 1 .. N /\ i < n  BY <2>0, <3>1, <5>2
        <5>4. rows[i].ts < r.ts /\ v.ts = rows[i].ts  BY <2>2, <5>2, <5>3
        <5>5. r.ts \in Nat /\ v.ts \in Nat  BY <3>1 DEF Row, DisplaySlot
        <5> HIDE DEF r, v
        <5> QED  BY <5>4, <5>5
      <4>2. w.present /\ (w.prior <=> v.prior) /\ w.ts = r.ts /\ w.state = r.state
          BY <3>1, <4>1, NoteFacts
      <4>3. U(n) = w  BY <3>2, <3>5
      <4>4. \A j \in mine : j <= n => j <= n  OBVIOUS
      <4>5. ~v.prior  BY <2>5
      <4> HIDE DEF w, v
      <4>6. LastIs(n, n)  BY <3>1, <3>5, <4>2, <4>3
      <4> HIDE DEF LastIs
      <4> QED  BY <3>5, <4>2, <4>3, <4>5, <4>6
    <3> QED  BY <3>4, <3>5
  <2>6. \A n \in 0 .. N : n \in good
    <3>1. 0 \in good  BY <2>0, <2>4
    <3>2. ASSUME NEW n \in 1 .. N, n - 1 \in good PROVE n \in good
      <4>1. Current(n - 1) /\ n \in 0 .. N  BY <3>2
      <4> HIDE DEF Current
      <4> QED  BY <2>5, <4>1
    <3> HIDE DEF good, N
    <3> QED  BY <2>0, <3>1, <3>2, ByLines
  <2>7. N \in 0 .. N  BY <2>0
  <2>8. Current(N) /\ U(N) \in DisplaySlot
    <3> HIDE DEF Current
    <3> QED  BY <2>1, <2>6, <2>7
  <2>9. \A j \in mine : j \in Nat /\ j <= N  BY <2>0
  <2>10. U(N).present /\ U(N).state = "OPEN"
           <=> \E i \in mine : rows[i].state = "OPEN" /\ \A j \in mine : j <= i
    <3>1. CASE U(N).present
      <4>1. PICK k \in mine : LastIs(N, k)  BY <2>8, <3>1
      <4>2. \A i \in mine : (\A j \in mine : j <= i) => i = k  BY <2>9, <4>1
      <4>3. \A j \in mine : j <= k  BY <2>9, <4>1
      <4>4. U(N).state = rows[k].state  BY <4>1
      <4> HIDE DEF LastIs
      <4> QED  BY <3>1, <4>2, <4>3, <4>4
    <3>2. CASE ~U(N).present  BY <2>8, <2>9, <3>2
    <3> QED  BY <3>1, <3>2
  <2>11. LET slot == Render(s[1], U(N), FALSE)
         IN  slot.present /\ slot.state = "OPEN" /\ ~slot.prior
               <=> U(N).present /\ U(N).state = "OPEN"
    <3>1. ~U(N).prior /\ U(N) \in DisplaySlot  BY <2>8
    <3> QED  BY <3>1, RenderPlain
  <2>12. Rendered({}, FALSE)[s] = Render(s[1], U(N), FALSE)  BY RenderedSlot DEF U
  <2> DEFINE D == Rendered({}, FALSE)[s]
  <2>13. D.present /\ D.state = "OPEN" /\ ~D.prior
           <=> \E i \in mine : rows[i].state = "OPEN" /\ \A j \in mine : j <= i
      BY <2>10, <2>11, <2>12
  <2> QED  BY <2>13 DEF mine
<1>2. ASSUME TypeOK, LinesAreTrue, steps = 0, NEW s \in Slots
      PROVE  LET table == Display({}, FALSE)
                 slots == Rendered({}, FALSE)
                 mine  == {i \in Lines : <<rows[i].proto, rows[i].fam, rows[i].port>> = s}
                 isOpen == \E i \in mine : rows[i].state = "OPEN" /\ \A j \in mine : j <= i
                 shown == table[s].present /\ table[s].state = "OPEN" /\ ~table[s].prior
             IN  /\ shown => isOpen
                 /\ isOpen => shown \/ (s[1] = "UDP" /\ RowsBefore(slots, s) >= TableLimit)
  <2> DEFINE slots == Rendered({}, FALSE)
             a == Display({}, FALSE)[s]
             b == slots[s]
             mine == {i \in Lines : <<rows[i].proto, rows[i].fam, rows[i].port>> = s}
             isOpen == \E i \in mine : rows[i].state = "OPEN" /\ \A j \in mine : j <= i
             shown == a.present /\ a.state = "OPEN" /\ ~a.prior
  <2>1. b.present /\ b.state = "OPEN" /\ ~b.prior <=> isOpen  BY <1>1, <1>2
  <2>2. /\ a.state = b.state /\ (a.prior <=> b.prior)
        /\ a.present <=> b.present /\ Printed(slots, s)
      BY <1>2, DisplayedSlot
  <2>3. b.state = "OPEN" /\ s[1] = "TCP" => Printed(slots, s)  BY <1>2, OpenIsPrinted
  <2>4. ~Printed(slots, s) => RowsBefore(slots, s) >= TableLimit
    <3>1. PICK n \in Nat : n = RowsBefore(slots, s)  BY RowsCounted
    <3>2. ~(n < TableLimit) => n >= TableLimit  BY TableLimitAssumption
    <3> HIDE DEF slots
    <3> QED  BY <3>1, <3>2, Zenon DEF Printed
  <2>5. s[1] \in {"TCP", "UDP"}  BY DEF Slots, Protocols
  <2> HIDE DEF a, b, isOpen, slots
  <2>6. /\ shown => isOpen
        /\ isOpen => shown \/ (s[1] = "UDP" /\ RowsBefore(slots, s) >= TableLimit)
      BY <2>1, <2>2, <2>3, <2>4, <2>5
  <2> QED  BY <2>6 DEF a, b, isOpen, slots
<1>3. TypeOK /\ LinesAreTrue => PlainOpenIsCurrent  BY <1>2 DEF PlainOpenIsCurrent
<1> QED  BY <1>3, ReadersInv, PTL
===============================================================================
