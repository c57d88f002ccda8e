------------------------------- MODULE PortScan -------------------------------
(***************************************************************************)
(* The port scanner of src/network/scan/ports: one `scan` command against  *)
(* one target.  A scan is up to four legs, run one after the other:        *)
(* IPv4/TCP, IPv4/UDP, IPv6/TCP, IPv6/UDP.  A leg walks the planned ports  *)
(* in increasing order, a window of probes at a time: stage a batch, reset *)
(* the capture, write the probes, read the capture until a deadline, and   *)
(* give the unanswered probes their timeout verdict.  Every verdict is     *)
(* appended to the target's .ports file, counted in the leg's summary and, *)
(* for TCP, recorded in the PORTS array of the target's petal.  A TCP leg  *)
(* ends with the banner enrichment of the ports it found open; a scan ends *)
(* by writing the petal to disk.                                           *)
(*                                                                         *)
(* The network is the environment: a frame that reaches the wire may be    *)
(* answered by any reply of its protocol; a reply may be lost, delayed     *)
(* past the leg (or the scan) that caused it, and delivered twice.         *)
(***************************************************************************)
EXTENDS Naturals, Sequences, FiniteSets

CONSTANTS
    MaxPorts,    \* MAX_PORTS: ports are 1 .. MaxPorts - 1
    Window,      \* kportscan_window_limit: probes in flight
    MaxScans,    \* bound: scan commands entered
    MaxFaults,   \* bound: failing system calls
    MaxSteps,    \* bound: backward steps of the wall clock
    SeqCycle,    \* 2^16: the sequence number of a SYN has the low 16 bits of the clock
    Gaps,        \* bound: monotonic time, in ns, from one batch to the next
    Unreadable,  \* a petal file that is too short
    Plans,       \* the plans a scan may be given: protocol -> planned ports
    AddressSets  \* the sets of families a target may have an address of

Port      == 1 .. MaxPorts - 1
Families  == {"v4", "v6"}
Protocols == {"TCP", "UDP"}

\* What the scanner uses of TARGET: PORTS, and the scan that set LAST_SCAN_NS (0: none).
Petal == [ports : [Port -> {"none", "open", "closed"}], lastScan : Nat]

ASSUME MaxPortsAssumption == MaxPorts \in Nat /\ MaxPorts >= 2
ASSUME WindowAssumption == Window \in Nat /\ Window >= 1
ASSUME BoundsAssumption == MaxScans \in Nat /\ MaxFaults \in Nat /\ MaxSteps \in Nat
ASSUME CycleAssumption == SeqCycle \in Nat \ {0} /\ Gaps \subseteq Nat \ {0}
ASSUME PlansAssumption ==
    Plans \subseteq {q \in [Protocols -> SUBSET Port] : q["TCP"] # {} \/ q["UDP"] # {}}
ASSUME AddressAssumption == AddressSets \subseteq SUBSET Families
ASSUME UnreadableAssumption == Unreadable \notin Petal

\* The order kportscan_scan_target runs its legs in; position 5 is past the last.
LegOrder == << <<"v4", "TCP">>, <<"v4", "UDP">>, <<"v6", "TCP">>, <<"v6", "UDP">> >>
LegIndex == 1 .. 5

States   == {"OPEN", "CLOSED", "FILTERED", "OPEN_FILTERED", "ERROR"}
Evidence == {"SYN_ACK", "RST", "UDP_REPLY", "ICMP_PORT_UNREACHABLE", "ICMP_FILTERED",
             "TIMEOUT", "NETWORK_ERROR"}

\* What a host can say to a TCP and to a UDP probe.
Answers == [TCP |-> {"SYN_ACK", "RST", "ICMP"}, UDP |-> {"DATA", "PORT_UNREACHABLE", "ICMP"}]

VARIABLES
    phase,     \* where the scanning thread is
    leg,       \* position in LegOrder
    scan,      \* number of scan commands so far
    plan,      \* KPORTSCAN_PLAN: protocol -> planned ports
    addrs,     \* the families the target has an address of
    shared,    \* the last scan ran in target context, on the active target's own petal
    nextPort,  \* NEXT_PORT of the running leg
    pend,      \* PENDING: port -> "free", "staged", "sent" or "done"
    at,        \* port -> the monotonic clock when its probe was staged, or 0
    status,    \* RETURN_STATUS of the running leg
    legStart,  \* TCP_SCAN_START_NS
    summary,   \* KPORTSCAN_SUMMARY: protocol -> verdicts per state
    rows,      \* every verdict given, in order; "kept" ones are lines of .ports
    petal,     \* TARGET in memory
    disk,      \* the petal file
    enriched,  \* the ports the last kbanner_enrich_tcp tried to connect to
    air,       \* replies the host sent and the capture may still deliver
    mono,      \* CLOCK_MONOTONIC, in ns
    now,       \* CLOCK_REALTIME, one unit per reading
    faults,    \* failing calls so far
    steps      \* backward steps of the clock so far

engine == <<phase, leg, scan, plan, addrs, shared, nextPort, pend, at, status,
            legStart>>
record == <<summary, rows, petal, disk, enriched>>
world  == <<air, mono, now, faults, steps>>
vars   == <<engine, record, world>>

Family   == LegOrder[leg][1]
Protocol == LegOrder[leg][2]

\* Identifies a leg of a scan.
LegId == 4 * scan + leg

Staged      == {p \in Port : pend[p] = "staged"}
Outstanding == {p \in Port : pend[p] = "sent"}

\* The port a loop over the probes in increasing order comes to next.
First(S) == {p \in S : \A q \in S : p <= q}

\* Whether .ports or the petal file can be written, once n other calls have failed in
\* the same step: any call may fail while the bound on faults allows it.
Outcomes(n)  == IF faults + n < MaxFaults THEN BOOLEAN ELSE {TRUE}
Spend(n, ok) == faults' = IF ok THEN faults + n ELSE faults + n + 1

NoVerdicts  == [s \in States |-> 0]
BlankPorts  == [p \in Port |-> "none"]

Init ==
    /\ phase = "idle" /\ leg = 1 /\ scan = 0
    /\ plan = [pr \in Protocols |-> {}] /\ addrs = {} /\ shared = FALSE
    /\ nextPort = 1 /\ pend = [p \in Port |-> "free"] /\ at = [p \in Port |-> 0]
    /\ status = "NORMAL" /\ legStart = 0
    /\ summary = [pr \in Protocols |-> NoVerdicts]
    /\ rows = << >>
    /\ petal = [ports |-> BlankPorts, lastScan |-> 0]
    /\ disk = petal
    /\ enriched = {}
    /\ air = {} /\ mono = 0 /\ now = 1 /\ faults = 0 /\ steps = 0

-------------------------------------------------------------------------------
(* One verdict.                                                            *)

\* Mutant: CLOSED overwrites OPEN.
MarkPort_Overwrites(ports, p, state) ==
    IF state = "OPEN" THEN [ports EXCEPT ![p] = "open"]
    ELSE IF state = "CLOSED" THEN [ports EXCEPT ![p] = "closed"] ELSE ports

\* PETAL->PORTS of a TCP verdict: OPEN is sticky, CLOSED never hides it.
MarkPort(ports, p, state) ==
    IF state = "OPEN" THEN [ports EXCEPT ![p] = "open"]
    ELSE IF state = "CLOSED" /\ ports[p] # "open" THEN [ports EXCEPT ![p] = "closed"]
    ELSE ports

\* kportscan_tcp_finalize and kportscan_udp_finalize: stamp the verdict, append it
\* to .ports (which may fail and is then only reported), count it, retire the probe.
Finalize(p, state, evidence, ok) ==
    /\ rows' = Append(rows, [ts |-> now, proto |-> Protocol, fam |-> Family, port |-> p,
                             state |-> state, evidence |-> evidence,
                             rx |-> evidence \notin {"TIMEOUT", "NETWORK_ERROR"},
                             kept |-> ok, leg |-> LegId])
    /\ summary' = [summary EXCEPT ![Protocol][state] = @ + 1]
    /\ petal' = IF Protocol = "TCP"
                THEN [petal EXCEPT !.ports = MarkPort(@, p, state)] ELSE petal
    /\ pend' = [pend EXCEPT ![p] = "done"]
    /\ now' = now + 1

\* Mutant: the timeout of a UDP probe leaves the state of the zeroed result.
TimeoutState_Unset(pr) == IF pr = "TCP" THEN "FILTERED" ELSE "UNKNOWN"

TimeoutState(pr) == IF pr = "TCP" THEN "FILTERED" ELSE "OPEN_FILTERED"

-------------------------------------------------------------------------------
(* One leg.                                                                *)

\* Leaving kportscan_tcp or kportscan_udp: a TCP leg is followed by its enrichment
\* whatever it returned.
LeaveLeg ==
    IF Protocol = "TCP" THEN phase' = "enrich" /\ UNCHANGED leg
    ELSE phase' = "leg" /\ leg' = leg + 1

\* The fill loop walks NEXT_PORT up to the bound or until the window is full.
FillsTo(e) ==
    LET taken == Cardinality(plan[Protocol] \cap (nextPort .. e - 1))
    IN  \/ taken = Window /\ e - 1 \in plan[Protocol]
        \/ taken < Window /\ e = MaxPorts

\* Staging a batch reads the clock once for each probe.
StageAll(batch) ==
    \E d \in Gaps : \E t \in [batch -> mono + 1 .. mono + d] :
        /\ at' = [p \in Port |-> IF p \in batch THEN t[p] ELSE 0]
        /\ mono' = mono + d

\* The bits of the sequence number of a SYN made at time t that differ from one SYN to
\* another of the same port.
Sequence(t) == t % SeqCycle

\* Stage the next batch and reset the capture: replies already queued are dropped,
\* those still on the wire are not.
Fill ==
    /\ phase = "fill" /\ nextPort < MaxPorts
    /\ \E e \in nextPort + 1 .. MaxPorts :
         LET batch == plan[Protocol] \cap (nextPort .. e - 1)
         IN  /\ FillsTo(e)
             /\ nextPort' = e
             /\ pend' = [p \in Port |-> IF p \in batch THEN "staged" ELSE "free"]
             /\ StageAll(batch)
             /\ \/ /\ batch = {}
                   /\ UNCHANGED <<phase, leg, status, air, faults>>
                \/ /\ batch # {}
                   /\ phase' = "send"
                   /\ air' \in SUBSET air
                   /\ UNCHANGED <<leg, status, faults>>
                \/ /\ batch # {} /\ faults < MaxFaults    \* nosix_capture_reset fails
                   /\ status' = "ABNORMAL"
                   /\ faults' = faults + 1
                   /\ LeaveLeg
                   /\ UNCHANGED air
    /\ UNCHANGED <<scan, plan, addrs, shared, legStart, record, now, steps>>

\* What the host may put on the wire in answer to the probe of port p.
Replies(p) ==
    {[fam |-> Family, proto |-> Protocol, port |-> p, leg |-> LegId, at |-> at[p], kind |-> k] :
        k \in Answers[Protocol]}

HostAnswers(p) == air' = air \/ \E r \in Replies(p) : air' = air \cup {r}

\* The probe reached the wire and its frame is in the evidence file.
ProbeSent ==
    /\ phase = "send" /\ Staged # {}
    /\ \E p \in First(Staged) : pend' = [pend EXCEPT ![p] = "sent"] /\ HostAnswers(p)
    /\ UNCHANGED <<phase, leg, scan, plan, addrs, shared, nextPort, at, status, legStart, record,
                   mono, now, faults, steps>>

\* The packet could not be built, its evidence file opened, or the frame written and
\* recorded.  In the last case the frame may be on the wire and be answered.
ProbeFails ==
    /\ phase = "send" /\ Staged # {} /\ faults < MaxFaults
    /\ \E p \in First(Staged), ok \in Outcomes(1) :
         /\ Finalize(p, "ERROR", "NETWORK_ERROR", ok)
         /\ Spend(1, ok)
         /\ HostAnswers(p)
    /\ UNCHANGED <<phase, leg, scan, plan, addrs, shared, nextPort, at, status, legStart, disk,
                   enriched, mono, steps>>

\* No route, no neighbour or no layer 3 fallback: the port gets its ERROR and the leg
\* is abandoned, with the probes already sent still outstanding.
RouteFails ==
    /\ phase = "send" /\ Staged # {} /\ faults < MaxFaults
    /\ \E p \in First(Staged), ok \in Outcomes(1) :
         /\ Finalize(p, "ERROR", "NETWORK_ERROR", ok)
         /\ Spend(1, ok)
    /\ status' = "ABNORMAL"
    /\ LeaveLeg
    /\ UNCHANGED <<scan, plan, addrs, shared, nextPort, at, legStart, disk, enriched, air, mono,
                   steps>>

BatchSent ==
    /\ phase = "send" /\ Staged = {}
    /\ phase' = "receive"
    /\ UNCHANGED <<leg, scan, plan, addrs, shared, nextPort, pend, at, status, legStart, record,
                   world>>

\* Mutant: the acknowledgement number is not compared.
TcpDirect_AnyAck(r) ==
    CASE r.kind = "SYN_ACK" -> <<"OPEN", "SYN_ACK">>
      [] r.kind = "RST"     -> <<"CLOSED", "RST">>
      [] OTHER              -> << >>

\* kportscan_tcp_direct_reply.  A SYN+ACK must acknowledge the probe's sequence number;
\* an RST only names the ports.  << >> is no verdict.
TcpDirect(r) ==
    CASE r.kind = "SYN_ACK" /\ Sequence(r.at) = Sequence(at[r.port]) -> <<"OPEN", "SYN_ACK">>
      [] r.kind = "RST"                                              -> <<"CLOSED", "RST">>
      [] OTHER                                                       -> << >>

\* kportscan_tcp_icmpv4 and kportscan_tcp_icmpv6: the error quotes the probe.
TcpIcmp(r) == IF r.kind = "ICMP" THEN <<"FILTERED", "ICMP_FILTERED">> ELSE << >>

\* kportscan_udp_direct_reply.
UdpDirect(r) == IF r.kind = "DATA" THEN <<"OPEN", "UDP_REPLY">> ELSE << >>

\* kportscan_udp_icmpv4 and kportscan_udp_icmpv6.
UdpIcmp(r) ==
    CASE r.kind = "PORT_UNREACHABLE" -> <<"CLOSED", "ICMP_PORT_UNREACHABLE">>
      [] r.kind = "ICMP"             -> <<"FILTERED", "ICMP_FILTERED">>
      [] OTHER                       -> << >>

\* The first matcher of the protocol that takes the reply.
Verdict(r) ==
    IF Protocol = "TCP" THEN IF TcpDirect(r) # << >> THEN TcpDirect(r) ELSE TcpIcmp(r)
    ELSE IF UdpDirect(r) # << >> THEN UdpDirect(r) ELSE UdpIcmp(r)

\* Mutant: the DONE flag of the probe is not looked at.
Matches_Again(r) ==
    /\ r.fam = Family /\ r.proto = Protocol
    /\ pend[r.port] \in {"sent", "done"}
    /\ Verdict(r) # << >>

\* find_pending: the reply is for this family, this protocol and a probe in flight.
Matches(r) ==
    /\ r.fam = Family /\ r.proto = Protocol
    /\ pend[r.port] = "sent"
    /\ Verdict(r) # << >>

\* The capture hands over a reply; it may see the same one again.
ReceiveReply ==
    /\ phase = "receive" /\ Outstanding # {}
    /\ \E r \in air, again \in BOOLEAN, ok \in Outcomes(0) :
         /\ air' = IF again THEN air ELSE air \ {r}
         /\ \/ /\ Matches(r)
               /\ Finalize(r.port, Verdict(r)[1], Verdict(r)[2], ok)
               /\ Spend(0, ok)
            \/ /\ ~Matches(r) /\ ok
               /\ UNCHANGED <<rows, summary, petal, pend, now, faults>>
    /\ UNCHANGED <<phase, leg, scan, plan, addrs, shared, nextPort, at, status, legStart, disk,
                   enriched, mono, steps>>

\* Mutant: the deadline starts again while probes are outstanding.
ReceiveEnds_Rearms ==
    /\ phase = "receive"
    /\ phase' = IF Outstanding = {} THEN "expire" ELSE "receive"
    /\ UNCHANGED <<leg, scan, plan, addrs, shared, nextPort, pend, at, status, legStart, record,
                   world>>

\* receive_batch returns: nothing is outstanding, or the deadline passed.
ReceiveEnds ==
    /\ phase = "receive"
    /\ phase' = "expire"
    /\ UNCHANGED <<leg, scan, plan, addrs, shared, nextPort, pend, at, status, legStart, record,
                   world>>

\* receive_batch fails: the clock or the capture returned an error.
ReceiveFails ==
    /\ phase = "receive" /\ faults < MaxFaults
    /\ phase' = "expire"
    /\ status' = "ABNORMAL"
    /\ faults' = faults + 1
    /\ UNCHANGED <<leg, scan, plan, addrs, shared, nextPort, pend, at, legStart, record, air,
                   mono, now, steps>>

\* Every probe still outstanding gets the timeout verdict of its protocol.
ExpireProbe ==
    /\ phase = "expire" /\ Outstanding # {}
    /\ \E p \in First(Outstanding), ok \in Outcomes(0) :
         /\ Finalize(p, TimeoutState(Protocol), "TIMEOUT", ok)
         /\ Spend(0, ok)
    /\ UNCHANGED <<phase, leg, scan, plan, addrs, shared, nextPort, at, status, legStart, disk,
                   enriched, air, mono, steps>>

\* Mutant: the next window is filled over probes that never got their verdict.
BatchDone_Early ==
    /\ phase = "expire"
    /\ phase' = "fill"
    /\ UNCHANGED <<leg, scan, plan, addrs, shared, nextPort, pend, at, status, legStart, record,
                   world>>

BatchDone ==
    /\ phase = "expire" /\ Outstanding = {}
    /\ phase' = "fill"
    /\ UNCHANGED <<leg, scan, plan, addrs, shared, nextPort, pend, at, status, legStart, record,
                   world>>

\* NEXT_PORT reached the bound.
LegEnds ==
    /\ phase = "fill" /\ nextPort = MaxPorts
    /\ LeaveLeg
    /\ UNCHANGED <<scan, plan, addrs, shared, nextPort, pend, at, status, legStart, record, world>>

LegStep ==
    \/ Fill \/ ProbeSent \/ ProbeFails \/ RouteFails \/ BatchSent \/ ReceiveReply
    \/ ReceiveEnds \/ ReceiveFails \/ ExpireProbe \/ BatchDone \/ LegEnds

TcpLeg == phase \notin {"idle", "leg", "enrich"} /\ Protocol = "TCP" /\ LegStep
UdpLeg == phase \notin {"idle", "leg", "enrich"} /\ Protocol = "UDP" /\ LegStep

-------------------------------------------------------------------------------
(* One target, one scan.                                                   *)

\* kportscan_run.  In project context it scans a copy read from the petal file; in
\* target context the active target's own petal, which was read from the file when the
\* context was entered and has been in memory since if it was never left.
StartScan ==
    /\ phase = "idle" /\ scan < MaxScans
    /\ scan' = scan + 1
    /\ plan' \in Plans /\ addrs' \in AddressSets /\ shared' \in BOOLEAN
    /\ petal' \in (IF shared /\ shared' THEN {petal, disk} ELSE {disk}) \ {Unreadable}
    /\ summary' = [pr \in Protocols |-> NoVerdicts]
    /\ phase' = "leg" /\ leg' = 1
    /\ UNCHANGED <<nextPort, pend, at, status, legStart, rows, disk, enriched, world>>

\* A target whose petal file cannot be read is passed over in project context.
PassOver ==
    /\ phase = "idle" /\ scan < MaxScans
    /\ scan' = scan + 1 /\ shared' = FALSE
    /\ \/ disk = Unreadable /\ UNCHANGED faults
       \/ faults < MaxFaults /\ faults' = faults + 1
    /\ UNCHANGED <<phase, leg, plan, addrs, nextPort, pend, at, status, legStart, record, air,
                   mono, now, steps>>

\* A leg runs when the target has the address and the plan has ports of the protocol.
\* Only a TCP leg reads the clock at its start.
BeginLeg ==
    /\ phase = "leg" /\ leg < 5
    /\ Family \in addrs /\ plan[Protocol] # {}
    /\ nextPort' = 1 /\ pend' = [p \in Port |-> "free"] /\ at' = [p \in Port |-> 0]
    /\ IF Protocol = "TCP" THEN legStart' = now /\ now' = now + 1
                           ELSE UNCHANGED <<legStart, now>>
    /\ \/ phase' = "fill" /\ status' = "NORMAL" /\ UNCHANGED <<leg, faults>>
       \/ /\ faults < MaxFaults                    \* no memory for PENDING
          /\ status' = "ABNORMAL" /\ faults' = faults + 1
          /\ LeaveLeg
    /\ UNCHANGED <<scan, plan, addrs, shared, record, air, mono, steps>>

SkipLeg ==
    /\ phase = "leg" /\ leg < 5
    /\ Family \notin addrs \/ plan[Protocol] = {}
    /\ leg' = leg + 1
    /\ UNCHANGED <<phase, scan, plan, addrs, shared, nextPort, pend, at, status, legStart, record,
                   world>>

\* Mutant: lines of earlier scans are not told apart.
FoundOpen_Ever(n) ==
    {p \in Port : \E i \in 1 .. n :
        /\ rows[i].kept /\ rows[i].proto = "TCP" /\ rows[i].fam = Family
        /\ rows[i].port = p /\ rows[i].state = "OPEN"}

\* kbanner_load_open_ports: the OPEN lines of .ports stamped since the leg started, of
\* the first n verdicts.
FoundOpen(n) ==
    {p \in Port : \E i \in 1 .. n :
        /\ rows[i].kept /\ rows[i].proto = "TCP" /\ rows[i].fam = Family
        /\ rows[i].port = p /\ rows[i].state = "OPEN" /\ rows[i].ts >= legStart}

\* kbanner_enrich_tcp: connect to each of them, after draining the capture.  A read error
\* ends the file early; without memory, the file or the destination, as with no time for
\* the start of the leg, nothing of it counts.
Enrich ==
    /\ phase = "enrich"
    /\ \E n \in 0 .. Len(rows) :
         /\ \/ n = Len(rows) /\ UNCHANGED faults
            \/ n < Len(rows) /\ faults < MaxFaults /\ faults' = faults + 1
         /\ enriched' = FoundOpen(n)
         /\ IF FoundOpen(n) = {} THEN air' = air ELSE air' \in SUBSET air
    /\ phase' = "leg" /\ leg' = leg + 1
    /\ UNCHANGED <<scan, plan, addrs, shared, nextPort, pend, at, status, legStart, summary, rows,
                   petal, disk, mono, now, steps>>

\* targets_write_petal_data: the file as it was, when it cannot be opened, cut short and
\* reported, cut short unnoticed when the flush fails, or written.
WritePetal(p) ==
    {[file |-> p,          ok |-> TRUE,  cost |-> 0],
     [file |-> disk,       ok |-> FALSE, cost |-> 1],
     [file |-> Unreadable, ok |-> FALSE, cost |-> 1],
     [file |-> Unreadable, ok |-> TRUE,  cost |-> 1]}

\* The end of kportscan_scan_target.  Without an address nothing is stamped.  A write
\* that fails takes back the scan stamp, not the PORTS of the petal in memory.
FinishScan ==
    /\ phase = "leg" /\ leg = 5
    /\ phase' = "idle"
    /\ \/ addrs = {} /\ UNCHANGED <<petal, disk, now, faults>>
       \/ /\ addrs # {}
          /\ LET stamped == [petal EXCEPT !.lastScan = scan]
             IN  \E w \in WritePetal(stamped) :
                   /\ faults + w.cost <= MaxFaults /\ faults' = faults + w.cost
                   /\ disk' = w.file
                   /\ petal' = IF w.ok THEN stamped ELSE petal
          /\ now' = now + 1
    /\ UNCHANGED <<leg, scan, plan, addrs, shared, nextPort, pend, at, status, legStart, summary,
                   rows, enriched, air, mono, steps>>

ScanStep == TcpLeg \/ UdpLeg \/ BeginLeg \/ SkipLeg \/ Enrich \/ FinishScan

\* The wall clock is set back by the administrator or a time daemon.
ClockSteps ==
    /\ steps < MaxSteps /\ now > 1
    /\ now' \in 1 .. now - 1
    /\ steps' = steps + 1
    /\ UNCHANGED <<engine, record, air, mono, faults>>

Done == phase = "idle" /\ scan = MaxScans /\ UNCHANGED vars

Next == StartScan \/ PassOver \/ ScanStep \/ ClockSteps \/ Done

\* The scanning thread keeps running; its reads return by their deadline.
Spec == Init /\ [][Next]_vars /\ WF_vars(ScanStep)

-------------------------------------------------------------------------------
(* What the scanner promises.                                              *)

InLeg == phase \in {"fill", "send", "receive", "expire"}

Row == [ts : Nat, proto : Protocols, fam : Families, port : Port, state : States,
        evidence : Evidence, rx : BOOLEAN, kept : BOOLEAN, leg : Nat]

Reply == [fam : Families, proto : Protocols, port : Port, leg : Nat, at : Nat,
          kind : Answers["TCP"] \cup Answers["UDP"]]

\* The type of every variable.
TypeOK ==
    /\ phase \in {"idle", "leg", "fill", "send", "receive", "expire", "enrich"}
    /\ leg \in LegIndex /\ (phase \notin {"idle", "leg"} => leg < 5)
    /\ scan \in Nat /\ now \in Nat \ {0} /\ legStart \in Nat
    /\ faults \in Nat /\ steps \in Nat
    /\ plan \in [Protocols -> SUBSET Port]
    /\ addrs \subseteq Families /\ shared \in BOOLEAN
    /\ nextPort \in 1 .. MaxPorts
    /\ pend \in [Port -> {"free", "staged", "sent", "done"}]
    /\ at \in [Port -> Nat] /\ mono \in Nat
    /\ status \in {"NORMAL", "ABNORMAL"}
    /\ summary \in [Protocols -> [States -> Nat]]
    /\ rows \in Seq(Row)
    /\ petal \in Petal /\ disk \in Petal \cup {Unreadable}
    /\ enriched \subseteq Port
    /\ air \subseteq Reply

\* Port p was given a verdict in leg l.
HasVerdict(p, l) == \E i \in DOMAIN rows : rows[i].leg = l /\ rows[i].port = p

\* A port gets at most one verdict in a leg, whatever arrives late, arrives twice or
\* arrives after the probe was retired: kportscan_*_finalize retires a probe once.
VerdictOnce ==
    \A i, j \in DOMAIN rows :
        rows[i].leg = rows[j].leg /\ rows[i].port = rows[j].port => i = j

\* A leg that kportscan_tcp or kportscan_udp reports NORMAL gave a verdict to every
\* planned port: the windows cover the plan, and no probe is left behind.
NormalLegIsComplete ==
    [][InLeg /\ ~InLeg' /\ status' = "NORMAL"
         => \A p \in plan[Protocol] : HasVerdict(p, LegId)]_vars

\* The SYN answered by r was made for the same port in an earlier leg, and its number has
\* come round since: the clock went through whole cycles of 2^16 ns.
CameRound(r) ==
    /\ r.leg < LegId /\ r.at + SeqCycle <= at[r.port]
    /\ (at[r.port] - r.at) % SeqCycle = 0

\* A step that appends OPEN over TCP took a SYN+ACK from the wire that answers this leg's
\* own SYN or an earlier one whose number came round.
OpenAnswersTheSyn ==
    \A p \in Port :
        /\ Len(rows') > Len(rows)
        /\ rows'[Len(rows')].port = p /\ rows'[Len(rows')].proto = "TCP"
        /\ rows'[Len(rows')].state = "OPEN"
        => \E r \in air :
             /\ r.fam = Family /\ r.proto = "TCP" /\ r.port = p /\ r.kind = "SYN_ACK"
             /\ r.leg = LegId \/ CameRound(r)

\* OPEN over TCP means that the host answered the SYN of this leg.  An answer to an earlier
\* leg or scan, still under way when the port is probed again, passes for it only when
\* it is late by whole cycles of the number, whatever happened to the wall clock
\* (kportscan_tcp_sequence, kportscan_tcp_direct_reply).
OpenIsProven == [][OpenAnswersTheSyn]_vars

\* A row is of the given scan.
OfScan(row, n) == 4 * n < row.leg /\ row.leg <= 4 * n + 4

\* A petal file that carries the stamp of a scan has every port that scan found open over
\* TCP marked open: a later verdict of the scan, of the other family or with a lost line,
\* hides none, and after a failed or a torn write no later scan gets to it without them.
OpenReachesPetal ==
    disk # Unreadable =>
        \A i \in DOMAIN rows :
            OfScan(rows[i], disk.lastScan) /\ rows[i].proto = "TCP" /\ rows[i].state = "OPEN"
              => disk.ports[rows[i].port] = "open"

\* While the wall clock is not set back, the banners are taken from ports this leg found
\* open, never from those only an earlier scan did; from all of them if no call fails.
EnrichesThisLeg ==
    [][Enrich /\ steps = 0
         => LET mine == {rows[i].port : i \in {k \in DOMAIN rows :
                           /\ rows[k].leg = LegId /\ rows[k].kept /\ rows[k].state = "OPEN"}}
            IN  enriched' \subseteq mine /\ (faults' = faults => enriched' = mine)]_vars

\* A scan that starts ends, though replies, verdicts and calls be lost.
ScanFinishes == phase # "idle" ~> phase = "idle"
===============================================================================
