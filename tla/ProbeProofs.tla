------------------------------ MODULE ProbeProofs ------------------------------
(***************************************************************************)
(* What ping and resolve record, for every number of targets, addresses,   *)
(* servers, retries, commands, answers, restarts and failing calls, and    *)
(* for counters of every size.                                             *)
(***************************************************************************)
EXTENDS Probe, SequenceTheorems, TLAPS

-------------------------------------------------------------------------------
(* The inductive invariant.  An answer is told apart by the number of its  *)
(* request only: that one to another request is a whole cycle old follows  *)
(* from what number the n-th request of a process has.                     *)

Hosts == Addresses \cup ToSet(Servers)
Says == Addresses \cup {"none", "error", "reply"}
Results == {"NEVER", "REPLY", "TIMEOUT", "ERROR"}
Counted == {"v4", "v6", "query"}

Requests == [kind : {"echo", "query"}, target : Targets, family : Families, to : Hosts,
             number : Seq(Nat), command : Nat, process : Nat, n : Nat]
Answers == [of : Requests, says : Says]
Frames == [family : Families, to : Hosts, says : Says \cup {None}, link : Links]
Files == [link : Links, frames : SUBSET Frames, side : SUBSET Frames, torn : BOOLEAN]

PingJobs == [kind : {"ping"}, target : Targets, family : Families, outcome : Results \cup {None}]
ResolveJobs ==
    [kind : {"resolve"}, target : Targets, family : Families, server : Nat, attempt : Nat,
     found : [Families -> Addresses \cup {None}],
     asked : [Families -> [DOMAIN Servers -> Nat]]]

TypeInv ==
    /\ pc \in {"idle", "send", "receive", "record", "query", "listen", "apply"}
    /\ pc \in {"send", "receive", "record"} => job \in PingJobs
    /\ pc = "record" => job.outcome \in Results
    /\ pc \in {"query", "listen", "apply"} => job \in ResolveJobs
    /\ address \in [Targets -> [Families -> Addresses \cup {None}]]
    /\ result \in [Targets -> [Families -> Results]]
    /\ pcap \in Files /\ air \subseteq Answers
    /\ counts \in [command : Nat, process : Nat, sent : [Counted -> Nat]]
    /\ faults \in Nat

\* The n-th value of a counter of size values, from the first: zero is not one of them.
Nth(v, n, size) ==
    IF n = 0 THEN v = 0 ELSE v \in 1..size /\ \E q \in Nat : n = q * size + v

\* The counters, and how often they were used since the process began.
NumberInv ==
    /\ echo \in [Families -> Nat] /\ dns \in [id : Nat, port : Nat]
    /\ \A f \in Families : Nth(echo[f], counts.sent[f], EchoNumbers - 1)
    /\ Nth(dns.id, counts.sent.query, DnsNumbers - 1)
    /\ Nth(dns.port, counts.sent.query, DnsPorts)

Key(of) == IF of.kind = "echo" THEN of.family ELSE "query"

Numbered(of) ==
    IF of.kind = "echo" THEN Nth(of.number[1], of.n, EchoNumbers - 1)
    ELSE /\ Nth(of.number[1], of.n, DnsNumbers - 1)
         /\ Nth(of.number[2], of.n, DnsPorts)

\* A request that was made, by this process or an earlier one.
Issued(of) ==
    /\ of \in Requests /\ of.n > 0 /\ of.process <= counts.process
    /\ of.process = counts.process => of.n <= counts.sent[Key(of)] /\ Numbered(of)

AirInv == \A a \in air : Issued(a.of) /\ a \in AnswersTo(a.of)

\* The request at hand is the last of its kind, and no other has its place.
CurrentInv ==
    pc \in {"send", "receive", "listen"} =>
        /\ Issued(probe) /\ probe.process = counts.process /\ probe.command = counts.command
        /\ probe.n = counts.sent[Key(probe)]
        /\ probe.target = job.target /\ probe.family = job.family
        /\ probe.kind = IF pc = "listen" THEN "query" ELSE "echo"
        /\ probe.to = IF pc = "listen" THEN Servers[job.server]
                      ELSE address[job.target][job.family]
        /\ \A a \in air : a.of.process = counts.process /\ Key(a.of) = Key(probe)
                             /\ a.of.n = probe.n => a.of = probe

Proven(a, t, f) == a.of.family = f /\ (Meant(a, t, f) \/ Repeated(a))

\* What is about to be recorded has its answer.
ProvenInv ==
    /\ pc = "record" /\ job.outcome = "REPLY" =>
        \E a \in air : /\ a.of.kind = "echo" /\ a.of.to = address[job.target][job.family]
                       /\ Proven(a, job.target, job.family)
    /\ pc \in {"query", "listen", "apply"} =>
        \A f \in Families : job.found[f] # None =>
            \E a \in air : a.says = job.found[f] /\ Proven(a, job.target, f)

\* The same in the packets kept.
Sent(f, to) == \E x \in pcap.frames : x.family = f /\ x.says = None /\ x.to = to
Taken(f, to, says) ==
    \E x \in pcap.frames \cup pcap.side : x.family = f /\ x.says = says /\ x.to = to

\* A file under whose header all its frames belong, and those of its sibling do not.
LinkOk(file) ==
    /\ \A x \in file.frames : x.link = file.link
    /\ \A x \in file.side : x.link # file.link
    /\ file.side # {} => file.frames # {}

LinkInv == LinkOk(pcap)

EvidenceInv ==
    \/ pcap.torn
    \/ /\ pc \in {"receive", "listen"} => Sent(probe.family, probe.to)
       /\ pc = "record" =>
            LET to == address[job.target][job.family]
            IN  /\ job.outcome \in {"TIMEOUT", "REPLY"} => Sent(job.family, to)
                /\ job.outcome = "REPLY" => Taken(job.family, to, "reply")
       /\ pc \in {"query", "listen", "apply"} =>
            \A f \in Families : job.found[f] # None =>
                \E to \in ToSet(Servers) : Sent(f, to) /\ Taken(f, to, job.found[f])

\* A family is through: what FallbackIsComplete says of it.
Settled(f) ==
    \/ job.found[f] # None
    \/ \A i \in DOMAIN Servers : job.asked[f][i] = Retries + 1
    \/ \E a \in air : /\ a.of.kind = "query"
                      /\ \/ Meant(a, job.target, f) /\ a.says = "none"
                         \/ Repeated(a)

\* Who was asked so far: the servers before the one at hand as often as the profile says.
AskedInv ==
    /\ pc \in {"query", "listen"} =>
        /\ job.server \in DOMAIN Servers /\ job.attempt <= Retries
        /\ \A i \in DOMAIN Servers :
                job.asked[job.family][i] =
                    IF i < job.server THEN Retries + 1
                    ELSE IF i = job.server THEN job.attempt ELSE 0
        /\ job.family = "v4" => \A i \in DOMAIN Servers : job.asked["v6"][i] = 0
        /\ job.family = "v6" => Settled("v4")
    /\ pc = "apply" => \A f \in Families : Settled(f)

ProbeInv ==
    /\ TypeInv /\ NumberInv /\ AirInv /\ CurrentInv
    /\ ProvenInv /\ LinkInv /\ EvidenceInv /\ AskedInv
-------------------------------------------------------------------------------
(* Counters that wrap around.                                              *)

LEMMA NthIs ==
    ASSUME NEW size \in Nat, NEW v \in 1..size, NEW n \in Nat \ {0}, NEW q \in Nat,
           n = q * size + v
    PROVE  Nth(v, n, size)
BY DEF Nth

LEMMA NthNext ==
    ASSUME NEW size \in Nat \ {0}, NEW v \in Nat, NEW n \in Nat, Nth(v, n, size)
    PROVE  Following(v, size + 1) \in Nat /\ Nth(Following(v, size + 1), n + 1, size)
<1> DEFINE next == Following(v, size + 1)
<1>1. CASE n = 0
  <2>1. next = 1  BY <1>1 DEF Nth, Following
  <2>2. 0 \in Nat /\ n + 1 = 0 * size + 1  BY <1>1
  <2>3. 1 \in 1..size /\ n + 1 # 0  BY <1>1
  <2> QED  BY <2>1, <2>2, <2>3 DEF Nth
<1>2. CASE n # 0
  <2>1. PICK q \in Nat : n = q * size + v  BY <1>2 DEF Nth
  <2>2. v \in 1..size /\ n + 1 # 0  BY <1>2 DEF Nth
  <2>3. q * size \in Nat  OBVIOUS
  <2>4. CASE v = size
    <3>1. next = 1  BY <2>4 DEF Following
    <3>2. (q + 1) * size = q * size + size  OBVIOUS
    <3>3. q + 1 \in Nat /\ n + 1 = (q + 1) * size + 1  BY <2>1, <2>3, <2>4, <3>2
    <3>4. 1 \in 1..size  OBVIOUS
    <3>5. Nth(1, n + 1, size)
      <4>1. PICK r \in Nat : n + 1 = r * size + 1  BY <3>3
      <4>2. n + 1 \in Nat \ {0}  BY <2>2
      <4> HIDE DEF next
      <4> QED  BY <3>4, <4>1, <4>2, NthIs
    <3> QED  BY <3>1, <3>5
  <2>5. CASE v # size
    <3>1. next = v + 1  BY <2>2, <2>5 DEF Following
    <3>2. n + 1 = q * size + (v + 1)  BY <2>1, <2>3
    <3>3. v + 1 \in 1..size  BY <2>2, <2>5
    <3>4. Nth(v + 1, n + 1, size)  BY <2>2, <3>2, <3>3, NthIs
    <3> QED  BY <2>2, <3>1, <3>4
  <2> QED  BY <2>4, <2>5
<1> QED  BY <1>1, <1>2

\* Two uses with one number are whole cycles apart.
LEMMA SameNth ==
    ASSUME NEW size \in Nat \ {0}, NEW v, NEW m \in Nat \ {0}, NEW n \in Nat,
           Nth(v, m, size), Nth(v, n, size), n > m
    PROVE  (n - m) % size = 0
<1>1. PICK p \in Nat : m = p * size + v  BY DEF Nth
<1>2. PICK q \in Nat : n = q * size + v  BY DEF Nth
<1>3. v \in 1..size  BY DEF Nth
<1>4. p * size \in Nat /\ q * size \in Nat  OBVIOUS
<1>5. n - m = q * size - p * size  BY <1>1, <1>2, <1>3, <1>4
<1>6. q * size - p * size = (q - p) * size  OBVIOUS
<1>7. ((q - p) * size) % size = 0  OBVIOUS
<1> QED  BY <1>5, <1>6, <1>7

-------------------------------------------------------------------------------
(* The capture file and the answers.                                       *)

\* Nothing that was put on record is lost, and a gap stays known.
Extends(new, file) ==
    /\ file.frames \subseteq new.frames
    /\ file.frames \cup file.side \subseteq new.frames \cup new.side
    /\ file.torn => new.torn

LEMMA PacketKeeps ==
    ASSUME NEW file \in Files, LinkOk(file), NEW frame \in Frames, CanTake(file, frame.link)
    PROVE  LET new == Packet(file, frame)
           IN  new \in Files /\ LinkOk(new) /\ Extends(new, file) /\ frame \in new.frames
<1> DEFINE new == Packet(file, frame)
<1>1. /\ new \in Files /\ new.link = frame.link /\ new.frames = file.frames \cup {frame}
      /\ new.side = file.side /\ new.torn = file.torn
    BY DEF Packet, Files, Frames
<1> HIDE DEF new
<1>2. LinkOk(new)  BY <1>1 DEF LinkOk, CanTake
<1>3. Extends(new, file) /\ frame \in new.frames  BY <1>1 DEF Extends
<1> QED  BY <1>1, <1>2, <1>3 DEF new

LEMMA TornKeeps ==
    ASSUME NEW file \in Files, LinkOk(file)
    PROVE  LET new == Torn(file)
           IN  new \in Files /\ LinkOk(new) /\ Extends(new, file) /\ new.torn
<1> DEFINE new == Torn(file)
<1>1. /\ new \in Files /\ new.link = file.link /\ new.frames = file.frames
      /\ new.side = file.side /\ new.torn = TRUE
    BY DEF Torn, Files
<1> HIDE DEF new
<1> QED  BY <1>1 DEF LinkOk, Extends, new

LEMMA AcceptedKeeps ==
    ASSUME NEW file \in Files, LinkOk(file), NEW frame \in Frames
    PROVE  LET new == Accepted(file, frame)
           IN  /\ new \in Files /\ LinkOk(new) /\ Extends(new, file)
               /\ frame \in new.frames \cup new.side
<1> DEFINE new == Accepted(file, frame)
<1>1. CASE CanTake(file, frame.link)
    BY <1>1, PacketKeeps DEF Accepted
<1>2. CASE ~CanTake(file, frame.link)
  <2>1. /\ new \in Files /\ new.link = file.link /\ new.frames = file.frames
        /\ new.side = file.side \cup {frame} /\ new.torn = file.torn
      BY <1>2 DEF Accepted, Files
  <2> HIDE DEF new
  <2>2. LinkOk(new)  BY <1>2, <2>1 DEF LinkOk, CanTake
  <2> QED  BY <2>1, <2>2 DEF Extends, new
<1> QED  BY <1>1, <1>2

LEMMA FrameFields ==
    ASSUME NEW of \in Requests, NEW says \in Says \cup {None}, NEW link \in Links
    PROVE  LET x == Frame(of, says, link)
           IN  /\ x \in Frames /\ x.family = of.family /\ x.to = of.to /\ x.says = says
               /\ x.link = link
BY DEF Frame, Frames, Requests

\* The answers sent so far, and perhaps one to of.
AirGrows(of) == air \subseteq air' /\ air' \subseteq air \cup AnswersTo(of)

LEMMA FaultNat == faults \in Nat /\ (Fault \/ UNCHANGED faults) => faults' \in Nat
BY DEF Fault

\* kwire_write: what is reported as sent is on record.
LEMMA Written ==
    ASSUME TypeInv, LinkInv, NEW of \in Requests, NEW ok \in BOOLEAN, Write(of, ok)
    PROVE  /\ pcap' \in Files /\ LinkInv' /\ Extends(pcap', pcap)
           /\ AirGrows(of) /\ faults' \in Nat
           /\ ok => \E x \in pcap'.frames : x.family = of.family /\ x.says = None /\ x.to = of.to
<1> pcap \in Files /\ LinkOk(pcap) /\ faults \in Nat  BY DEF TypeInv, LinkInv
<1> USE DEF LinkInv
<1>1. Extends(pcap, pcap)  BY DEF Extends
<1>2. faults' \in Nat  BY FaultNat DEF Write
<1>3. AirGrows(of)
  <2>1. Answered(of) \/ UNCHANGED air  BY DEF Write
  <2> QED  BY <2>1 DEF Answered, AirGrows
<1>4. CASE ~ok /\ UNCHANGED pcap  BY <1>1, <1>2, <1>3, <1>4
<1>5. CASE ~ok /\ pcap' = Torn(pcap)  BY <1>2, <1>3, <1>5, TornKeeps
<1>6. ASSUME NEW link \in LinksOf(of), CanTake(pcap, link),
             pcap' = Packet(pcap, Frame(of, None, link))
      PROVE  /\ pcap' \in Files /\ LinkInv' /\ Extends(pcap', pcap)
             /\ \E x \in pcap'.frames : x.family = of.family /\ x.says = None /\ x.to = of.to
  <2> DEFINE x == Frame(of, None, link)
  <2>1. link \in Links  BY DEF LinksOf, Links
  <2>2. /\ x \in Frames /\ x.family = of.family /\ x.to = of.to /\ x.says = None
        /\ x.link = link
      BY <2>1, FrameFields
  <2>3. pcap' = Packet(pcap, x)  BY <1>6
  <2> HIDE DEF x
  <2>4. pcap' \in Files /\ LinkOk(pcap') /\ Extends(pcap', pcap) /\ x \in pcap'.frames
      BY <1>6, <2>2, <2>3, PacketKeeps
  <2> QED  BY <2>2, <2>4
<1> QED  BY <1>2, <1>3, <1>4, <1>5, <1>6 DEF Write

\* The receive loops: what is taken is on record, or a gap is.
LEMMA Took ==
    ASSUME TypeInv, LinkInv, probe \in Requests, NEW a, Take(a)
    PROVE  /\ a \in air /\ Matches(a) /\ UNCHANGED air /\ faults' \in Nat
           /\ pcap' \in Files /\ LinkInv' /\ Extends(pcap', pcap)
           /\ \/ pcap'.torn
              \/ \E x \in pcap'.frames \cup pcap'.side :
                    x.family = probe.family /\ x.says = a.says /\ x.to = probe.to
<1> pcap \in Files /\ LinkOk(pcap) /\ faults \in Nat  BY DEF TypeInv, LinkInv
<1> USE DEF LinkInv
<1>1. a \in air /\ Matches(a) /\ UNCHANGED air  BY DEF Take
<1>2. faults' \in Nat  BY FaultNat DEF Take
<1>3. CASE pcap' = Torn(pcap)  BY <1>1, <1>2, <1>3, TornKeeps
<1>4. ASSUME NEW link \in LinksOf(probe), pcap' = Accepted(pcap, Frame(probe, a.says, link))
      PROVE  /\ pcap' \in Files /\ LinkInv' /\ Extends(pcap', pcap)
             /\ \E x \in pcap'.frames \cup pcap'.side :
                    x.family = probe.family /\ x.says = a.says /\ x.to = probe.to
  <2> DEFINE x == Frame(probe, a.says, link)
  <2>1. link \in Links /\ a.says \in Says  BY <1>1 DEF LinksOf, Links, TypeInv, Answers
  <2>2. /\ x \in Frames /\ x.family = probe.family /\ x.to = probe.to /\ x.says = a.says
      BY <2>1, FrameFields
  <2>3. pcap' = Accepted(pcap, x)  BY <1>4
  <2> HIDE DEF x
  <2>4. /\ pcap' \in Files /\ LinkOk(pcap') /\ Extends(pcap', pcap)
        /\ x \in pcap'.frames \cup pcap'.side
      BY <2>2, <2>3, AcceptedKeeps
  <2> QED  BY <2>2, <2>4
<1> QED  BY <1>1, <1>2, <1>3, <1>4 DEF Take

-------------------------------------------------------------------------------
(* Requests, their numbers, and the answers that match.                    *)

Counters == [command : Nat, process : Nat, sent : [Counted -> Nat]]

LEMMA KeyCounted == \A of \in Requests : Key(of) \in Counted
BY DEF Key, Requests, Counted, Families

\* What a process counted it does not forget, and the next is another process.
Onwards ==
    /\ counts' \in Counters
    /\ \/ counts'.process > counts.process
       \/ /\ counts'.process = counts.process
          /\ \A k \in Counted : counts.sent[k] <= counts'.sent[k]

LEMMA IssuedStays ==
    ASSUME counts \in Counters, Onwards, NEW of, Issued(of)
    PROVE  Issued(of)'
<1>1. of \in Requests /\ Key(of) \in Counted  BY KeyCounted DEF Issued
<1>2. counts.process \in Nat /\ counts'.process \in Nat /\ of.process \in Nat /\ of.n \in Nat
    BY <1>1 DEF Counters, Onwards, Requests
<1>3. counts.sent[Key(of)] \in Nat /\ counts'.sent[Key(of)] \in Nat
    BY <1>1 DEF Counters, Onwards
<1>4. CASE counts'.process > counts.process  BY <1>2, <1>4 DEF Issued
<1>5. CASE counts'.process = counts.process /\ counts.sent[Key(of)] <= counts'.sent[Key(of)]
    BY <1>2, <1>3, <1>5 DEF Issued
<1> QED  BY <1>1, <1>4, <1>5 DEF Onwards

\* An answer is still one to the command, or one of another cycle.
LEMMA ProvenStays ==
    ASSUME counts \in Counters, counts' \in Counters, counts'.process = counts.process,
           counts'.command = counts.command,
           \A k \in Counted : counts.sent[k] <= counts'.sent[k],
           NEW a, a.of \in Requests
    PROVE  /\ Repeated(a) => Repeated(a)'
           /\ \A t, f : Meant(a, t, f) => Meant(a, t, f)'
           /\ \A t, f : Proven(a, t, f) => Proven(a, t, f)'
<1> DEFINE k == Key(a.of)
<1>1. k \in Counted /\ counts.sent[k] \in Nat /\ counts'.sent[k] \in Nat
    BY KeyCounted DEF Counters
<1>2. 1..counts.sent[k] \subseteq 1..counts'.sent[k]  BY <1>1
<1>3. Repeated(a) <=>
            \/ a.of.process # counts.process
            \/ \E n \in 1..counts.sent[k] : OneCycle(a.of, n)
    BY DEF Repeated, Key
<1>4. Repeated(a)' <=>
            \/ a.of.process # counts'.process
            \/ \E n \in 1..counts'.sent[k] : OneCycle(a.of, n)
    BY DEF Repeated, Key, OneCycle
<1>5. Repeated(a) => Repeated(a)'  BY <1>2, <1>3, <1>4
<1>6. \A t, f : Meant(a, t, f) => Meant(a, t, f)'  BY DEF Meant
<1> QED  BY <1>5, <1>6 DEF Proven

LEMMA AnswerFields ==
    ASSUME NEW of \in Requests, NEW a \in AnswersTo(of)
    PROVE  a \in Answers /\ a.of = of /\ (of.kind = "echo" => a.says = "reply")
BY DEF AnswersTo, Answers, Says

\* The counters of ICMP echo after a command.
LEMMA PingCounts ==
    ASSUME TypeInv, NumberInv, NEW f \in Families,
           counts' = [counts EXCEPT !.command = @ + 1, !.sent[f] = counts.sent[f] + 1],
           echo' = [echo EXCEPT ![f] = Following(echo[f], EchoNumbers)], UNCHANGED dns
    PROVE  /\ NumberInv' /\ counts' \in Counters
           /\ counts'.command = counts.command + 1 /\ counts'.process = counts.process
           /\ \A k \in Counted : counts'.sent[k] = IF k = f THEN counts.sent[k] + 1
                                                    ELSE counts.sent[k]
           /\ echo'[f] \in Nat /\ echo'[f] = Following(echo[f], EchoNumbers)
<1>1. counts \in Counters  BY DEF TypeInv, Counters
<1>2. f \in Counted  BY DEF Families, Counted
<1>3. /\ counts' \in Counters
      /\ counts'.command = counts.command + 1 /\ counts'.process = counts.process
      /\ \A k \in Counted : counts'.sent[k] = IF k = f THEN counts.sent[k] + 1
                                               ELSE counts.sent[k]
  <2> DEFINE sent == [counts.sent EXCEPT ![f] = counts.sent[f] + 1]
  <2>1. counts.sent \in [Counted -> Nat] /\ counts.command \in Nat /\ counts.process \in Nat
      BY <1>1 DEF Counters
  <2>2. /\ sent \in [Counted -> Nat]
        /\ \A k \in Counted : sent[k] = IF k = f THEN counts.sent[k] + 1 ELSE counts.sent[k]
      BY <1>2, <2>1
  <2>3. counts' = [counts EXCEPT !.command = counts.command + 1, !.sent = sent]
      OBVIOUS
  <2> HIDE DEF sent
  <2>4. /\ counts'.command = counts.command + 1 /\ counts'.process = counts.process
        /\ counts'.sent = sent /\ counts' \in Counters
    <3>1. counts' = [command |-> counts.command + 1, process |-> counts.process, sent |-> sent]
        BY <1>1, <2>3 DEF Counters
    <3> QED  BY <2>1, <2>2, <3>1 DEF Counters
  <2> QED  BY <2>2, <2>4
<1>4. EchoNumbers - 1 \in Nat \ {0} /\ EchoNumbers - 1 + 1 = EchoNumbers
    BY NumbersAssumption
<1>5. /\ Following(echo[f], EchoNumbers) \in Nat
      /\ Nth(Following(echo[f], EchoNumbers), counts.sent[f] + 1, EchoNumbers - 1)
  <2>1. echo[f] \in Nat /\ counts.sent[f] \in Nat /\ Nth(echo[f], counts.sent[f], EchoNumbers - 1)
      BY <1>1, <1>2 DEF NumberInv, Counters
  <2> QED  BY <1>4, <2>1, NthNext
<1>6. /\ echo' \in [Families -> Nat]
      /\ \A g \in Families : echo'[g] = IF g = f THEN Following(echo[f], EchoNumbers) ELSE echo[g]
    BY <1>5 DEF NumberInv
<1>7. \A g \in Families : Nth(echo'[g], counts'.sent[g], EchoNumbers - 1)
    BY <1>3, <1>5, <1>6 DEF NumberInv, Families, Counted
<1>8. counts'.sent.query = counts.sent.query  BY <1>3 DEF Families, Counted
<1>9. NumberInv'
  <2>1. /\ Nth(dns'.id, counts'.sent.query, DnsNumbers - 1)
        /\ Nth(dns'.port, counts'.sent.query, DnsPorts)
      BY <1>8 DEF NumberInv
  <2>2. dns' \in [id : Nat, port : Nat]  BY DEF NumberInv
  <2> QED  BY <1>6, <1>7, <2>1, <2>2 DEF NumberInv, Nth
<1> QED  BY <1>3, <1>5, <1>6, <1>9

\* And those of DNS after a query.
LEMMA QueryCounts ==
    ASSUME TypeInv, NumberInv,
           counts' = [counts EXCEPT !.sent.query = @ + 1],
           dns' = [id |-> Following(dns.id, DnsNumbers),
                   port |-> Following(dns.port, DnsPorts + 1)],
           UNCHANGED echo
    PROVE  /\ NumberInv' /\ counts' \in Counters
           /\ counts'.command = counts.command /\ counts'.process = counts.process
           /\ \A k \in Counted : counts'.sent[k] = IF k = "query" THEN counts.sent[k] + 1
                                                    ELSE counts.sent[k]
<1>1. counts \in Counters  BY DEF TypeInv, Counters
<1>2. /\ counts' \in Counters
      /\ counts'.command = counts.command /\ counts'.process = counts.process
      /\ \A k \in Counted : counts'.sent[k] = IF k = "query" THEN counts.sent[k] + 1
                                               ELSE counts.sent[k]
    BY <1>1 DEF Counters, Counted
<1>3. DnsNumbers - 1 \in Nat \ {0} /\ DnsNumbers - 1 + 1 = DnsNumbers /\ DnsPorts \in Nat \ {0}
    BY NumbersAssumption
<1>4. /\ dns.id \in Nat /\ dns.port \in Nat /\ counts.sent.query \in Nat
      /\ Nth(dns.id, counts.sent.query, DnsNumbers - 1)
      /\ Nth(dns.port, counts.sent.query, DnsPorts)
    BY <1>1 DEF NumberInv, Counters, Counted
<1>5. /\ Following(dns.id, DnsNumbers) \in Nat
      /\ Nth(Following(dns.id, DnsNumbers), counts.sent.query + 1, DnsNumbers - 1)
    BY <1>3, <1>4, NthNext
<1>6. /\ Following(dns.port, DnsPorts + 1) \in Nat
      /\ Nth(Following(dns.port, DnsPorts + 1), counts.sent.query + 1, DnsPorts)
    BY <1>3, <1>4, NthNext
<1>7. /\ dns' \in [id : Nat, port : Nat] /\ dns'.id = Following(dns.id, DnsNumbers)
      /\ dns'.port = Following(dns.port, DnsPorts + 1)
    BY <1>5, <1>6
<1>8. counts'.sent.query = counts.sent.query + 1  BY <1>2 DEF Counted
<1>9. \A g \in Families : counts'.sent[g] = counts.sent[g]  BY <1>2 DEF Families, Counted
<1>10. NumberInv'
  <2>1. \A g \in Families : Nth(echo'[g], counts'.sent[g], EchoNumbers - 1)
      BY <1>9 DEF NumberInv
  <2>2. Nth(dns'.id, counts'.sent.query, DnsNumbers - 1)  BY <1>5, <1>7, <1>8
  <2>3. Nth(dns'.port, counts'.sent.query, DnsPorts)  BY <1>6, <1>7, <1>8
  <2> QED  BY <1>7, <2>1, <2>2, <2>3 DEF NumberInv, Nth
<1> QED  BY <1>2, <1>10

\* An answer with the numbers of the request at hand is one to it, or a cycle old.
LEMMA MatchedAnswer ==
    ASSUME TypeInv, AirInv, CurrentInv, pc \in {"receive", "listen"}, NEW a \in air, Matches(a)
    PROVE  /\ a.of = probe \/ Repeated(a)
           /\ a.of.kind = probe.kind /\ a.of.to = probe.to /\ a.says \in Says
           /\ a.of \in Requests /\ probe \in Requests
           /\ probe.kind = "echo" => a.of.family = probe.family
<1>1. /\ a.of.kind = probe.kind /\ a.of.to = probe.to /\ a.of.number = probe.number
      /\ probe.kind = "echo" => a.of.family = probe.family
    BY DEF Matches, Matches_Any
<1>2. Issued(a.of) /\ Issued(probe) /\ probe.process = counts.process
    BY DEF AirInv, CurrentInv
<1>3. a.of \in Requests /\ probe \in Requests  BY <1>2 DEF Issued
<1>4. Key(a.of) = Key(probe)  BY <1>1 DEF Key
<1>5. CASE a.of.process # counts.process  BY <1>1, <1>3, <1>5 DEF Repeated, TypeInv, Answers
<1>6. CASE a.of.process = counts.process
  <2> DEFINE m == a.of.n
             n == probe.n
  <2>1. m \in Nat \ {0} /\ n \in Nat \ {0}  BY <1>2, <1>3 DEF Issued, Requests
  <2>2. m <= counts.sent[Key(probe)] /\ n = counts.sent[Key(probe)]
      BY <1>2, <1>4, <1>6 DEF Issued, CurrentInv
  <2>3. Numbered(a.of) /\ Numbered(probe)  BY <1>2, <1>6 DEF Issued
  <2>4. m = n => a.of = probe  BY <1>4, <1>6 DEF CurrentInv
  <2>5. ASSUME m < n PROVE OneCycle(a.of, n)
    <3>1. CASE probe.kind = "echo"
      <4>1. EchoNumbers - 1 \in Nat \ {0}  BY NumbersAssumption
      <4>2. Nth(a.of.number[1], m, EchoNumbers - 1) /\ Nth(a.of.number[1], n, EchoNumbers - 1)
          BY <1>1, <2>3, <3>1 DEF Numbered
      <4>3. (n - m) % (EchoNumbers - 1) = 0  BY <2>1, <2>5, <4>1, <4>2, SameNth
      <4> QED  BY <1>1, <2>5, <3>1, <4>3 DEF OneCycle
    <3>2. CASE probe.kind # "echo"
      <4>1. DnsNumbers - 1 \in Nat \ {0} /\ DnsPorts \in Nat \ {0}  BY NumbersAssumption
      <4>2. /\ Nth(a.of.number[1], m, DnsNumbers - 1) /\ Nth(a.of.number[1], n, DnsNumbers - 1)
            /\ Nth(a.of.number[2], m, DnsPorts) /\ Nth(a.of.number[2], n, DnsPorts)
          BY <1>1, <2>3, <3>2 DEF Numbered
      <4>3. (n - m) % (DnsNumbers - 1) = 0  BY <2>1, <2>5, <4>1, <4>2, SameNth
      <4>4. (n - m) % DnsPorts = 0  BY <2>1, <2>5, <4>1, <4>2, SameNth
      <4> QED  BY <1>1, <2>5, <3>2, <4>3, <4>4 DEF OneCycle
    <3> QED  BY <3>1, <3>2
  <2>6. m < n => Repeated(a)
    <3>1. n \in 1..counts.sent[Key(a.of)]  BY <1>4, <2>1, <2>2
    <3> QED  BY <2>5, <3>1 DEF Repeated, Key
  <2>7. m = n \/ m < n  BY <2>1, <2>2
  <2> QED  BY <1>1, <1>3, <2>4, <2>6, <2>7 DEF TypeInv, Answers
<1> QED  BY <1>5, <1>6

-------------------------------------------------------------------------------
(* What outlives a step.                                                   *)

LEMMA EvidenceStays ==
    ASSUME Extends(pcap', pcap)
    PROVE  /\ \A f, to : Sent(f, to) => Sent(f, to)'
           /\ \A f, to, says : Taken(f, to, says) => Taken(f, to, says)'
           /\ pcap.torn => pcap'.torn
BY DEF Extends, Sent, Taken

LEMMA AirStays ==
    ASSUME counts \in Counters, Onwards, AirInv, NEW of, Issued(of)', AirGrows(of)
    PROVE  AirInv'
<1> SUFFICES ASSUME NEW a \in air' PROVE Issued(a.of)' /\ a \in AnswersTo(a.of)
    BY DEF AirInv, AnswersTo
<1>1. CASE a \in air  BY <1>1, IssuedStays DEF AirInv
<1>2. CASE a \in AnswersTo(of)
  <2>1. of \in Requests  BY DEF Issued
  <2>2. a.of = of  BY <1>2, <2>1, AnswerFields
  <2>3. Issued(a.of)'  BY <2>2
  <2>4. a \in AnswersTo(a.of)  BY <1>2, <2>2
  <2> QED  BY <2>3, <2>4
<1> QED  BY <1>1, <1>2 DEF AirGrows

LEMMA AirUnchanged ==
    ASSUME counts \in Counters, Onwards, AirInv, UNCHANGED air
    PROVE  AirInv'
<1>1. \A a \in air : Issued(a.of)' /\ a \in AnswersTo(a.of)  BY IssuedStays DEF AirInv
<1> QED  BY <1>1 DEF AirInv, AnswersTo

LEMMA CountsSame == counts \in Counters /\ UNCHANGED counts => Onwards
BY DEF Onwards, Counters

\* What is known of the counters while a command runs.
Running ==
    /\ counts' \in Counters /\ counts'.process = counts.process
    /\ counts'.command = counts.command
    /\ \A k \in Counted : counts.sent[k] <= counts'.sent[k]

LEMMA RunsOn ==
    /\ counts \in Counters /\ UNCHANGED counts => Running
    /\ Running => Onwards
BY DEF Running, Onwards, Counters

LEMMA SettledStays ==
    ASSUME TypeInv, Running, air \subseteq air', NEW f \in Families, Settled(f),
           job'.target = job.target, job'.found[f] \in {job.found[f]},
           \A i \in DOMAIN Servers : job'.asked[f][i] = job.asked[f][i]
    PROVE  Settled(f)'
<1>1. \A a \in air : /\ Repeated(a) => Repeated(a)'
                     /\ \A t : Meant(a, t, f) => Meant(a, t, f)'
  <2>1. \A a \in air : a.of \in Requests  BY DEF TypeInv, Answers
  <2>2. counts \in Counters  BY DEF TypeInv, Counters
  <2> QED  BY <2>1, <2>2, ProvenStays DEF Running
<1>2. CASE job.found[f] # None  BY <1>2 DEF Settled
<1>3. CASE \A i \in DOMAIN Servers : job.asked[f][i] = Retries + 1  BY <1>3 DEF Settled
<1>4. CASE \E a \in air : /\ a.of.kind = "query"
                          /\ \/ Meant(a, job.target, f) /\ a.says = "none"
                             \/ Repeated(a)
  <2>1. PICK a \in air : /\ a.of.kind = "query"
                         /\ \/ Meant(a, job.target, f) /\ a.says = "none"
                            \/ Repeated(a)
      BY <1>4
  <2>2. PICK t : t = job.target  OBVIOUS
  <2>3. (Meant(a, t, f)' /\ a.says = "none") \/ Repeated(a)'  BY <1>1, <2>1, <2>2
  <2>4. Meant(a, t, f)' => Meant(a, job.target, f)'  BY <2>2 DEF Meant
  <2> QED  BY <2>1, <2>3, <2>4 DEF Settled
<1> QED  BY <1>2, <1>3, <1>4 DEF Settled

\* The answers found so far are still answers to the command.
LEMMA FoundStays ==
    ASSUME TypeInv, Running, air \subseteq air', NEW f \in Families, NEW t, NEW says,
           \E a \in air : a.says = says /\ Proven(a, t, f)
    PROVE  \E a \in air' : a.says = says /\ Proven(a, t, f)'
<1>1. counts \in Counters  BY DEF TypeInv, Counters
<1>2. PICK a \in air : a.says = says /\ Proven(a, t, f)  OBVIOUS
<1>3. a.of \in Requests  BY DEF TypeInv, Answers
<1>4. Proven(a, t, f)'  BY <1>1, <1>2, <1>3, ProvenStays DEF Running
<1> QED  BY <1>2, <1>4

-------------------------------------------------------------------------------
(* What a query came to.                                                   *)

Statuses == {"OK", "ERROR", "NOT_FOUND"}

LEMMA NextAskedIs ==
    ASSUME NEW status \in Statuses, job \in ResolveJobs, job.server \in DOMAIN Servers
    PROVE  LET next == NextAsked(status)
           IN  /\ next \in [family : Families, server : Nat, attempt : Nat]
               /\ \/ /\ status = "ERROR" /\ job.attempt < Retries
                     /\ next.family = job.family /\ next.server = job.server
                     /\ next.attempt = job.attempt + 1
                  \/ /\ status = "ERROR" /\ ~(job.attempt < Retries) /\ job.server < Len(Servers)
                     /\ next.family = job.family /\ next.server = job.server + 1
                     /\ next.attempt = 0
                  \/ /\ status = "ERROR" => ~(job.attempt < Retries) /\ ~(job.server < Len(Servers))
                     /\ next.family = "v6" /\ next.server = 1 /\ next.attempt = 0
<1>1. /\ job.family \in Families /\ job.server \in Nat /\ job.attempt \in Nat
      /\ Len(Servers) \in Nat /\ Retries \in Nat
    BY ServersAssumption DEF ResolveJobs
<1> QED  BY <1>1 DEF NextAsked, NextAsked_Hasty, Families, Statuses

LEMMA CameIs ==
    ASSUME NEW status \in Statuses, NEW says, status = "OK" => says \in Addresses,
           job \in ResolveJobs, job.server \in DOMAIN Servers, Came(status, says)
    PROVE  LET next == NextAsked(status)
           IN  /\ job' \in ResolveJobs /\ job'.target = job.target
               /\ job'.family = next.family /\ job'.server = next.server
               /\ job'.attempt = next.attempt
               /\ \A f \in Families : job'.found[f] = IF f = job.family /\ status = "OK"
                                                      THEN says ELSE job.found[f]
               /\ \A f \in Families : \A i \in DOMAIN Servers :
                        job'.asked[f][i] = IF f = job.family /\ i = job.server
                                           THEN job.asked[f][i] + 1 ELSE job.asked[f][i]
               /\ probe' = Idle
               /\ pc' = IF next.server = 1 /\ next.attempt = 0 /\ job.family = "v6"
                        THEN "apply" ELSE "query"
<1> DEFINE next  == NextAsked(status)
           asked == [job.asked EXCEPT ![job.family][job.server] = @ + 1]
           found == [job.found EXCEPT ![job.family] = IF status = "OK" THEN says ELSE @]
<1>1. /\ next.family \in Families /\ next.server \in Nat /\ next.attempt \in Nat
    BY NextAskedIs
<1>2. /\ job.family \in Families /\ job.kind = "resolve" /\ job.target \in Targets
      /\ job.found \in [Families -> Addresses \cup {None}]
      /\ job.asked \in [Families -> [DOMAIN Servers -> Nat]]
    BY DEF ResolveJobs
<1>3. /\ found \in [Families -> Addresses \cup {None}]
      /\ \A f \in Families : found[f] = IF f = job.family /\ status = "OK"
                                        THEN says ELSE job.found[f]
    BY <1>2
<1>4. /\ asked \in [Families -> [DOMAIN Servers -> Nat]]
      /\ \A f \in Families : \A i \in DOMAIN Servers :
            asked[f][i] = IF f = job.family /\ i = job.server
                          THEN job.asked[f][i] + 1 ELSE job.asked[f][i]
    BY <1>2
<1>5. /\ job' = [job EXCEPT !.family = next.family, !.server = next.server,
                            !.attempt = next.attempt, !.asked = asked, !.found = found]
      /\ probe' = Idle
      /\ pc' = IF next.server = 1 /\ next.attempt = 0 /\ job.family = "v6"
               THEN "apply" ELSE "query"
    BY DEF Came
<1> HIDE DEF next, asked, found
<1>6. job' = [kind |-> job.kind, target |-> job.target, family |-> next.family,
              server |-> next.server, attempt |-> next.attempt, found |-> found,
              asked |-> asked]
    BY <1>5 DEF ResolveJobs
<1>7. job' \in ResolveJobs  BY <1>1, <1>2, <1>3, <1>4, <1>6 DEF ResolveJobs
<1> QED  BY <1>3, <1>4, <1>5, <1>6, <1>7 DEF next


\* After a query that came to status, of family f for target t.
Goes(status, says, t, f) ==
    /\ status \in Statuses /\ (status = "OK" => says \in Addresses)
    /\ t = job.target /\ f = job.family
    /\ pc \in {"query", "listen"} /\ Came(status, says)
    /\ Running /\ air \subseteq air'

LEMMA CameTypes ==
    ASSUME TypeInv, AskedInv, NEW status, NEW says, NEW t, NEW f, Goes(status, says, t, f)
    PROVE  /\ status \in Statuses /\ f \in Families /\ t \in Targets
           /\ job \in ResolveJobs /\ job.server \in DOMAIN Servers /\ job' \in ResolveJobs
           /\ job'.target = t /\ pc' \in {"query", "apply"} /\ probe' = Idle
           /\ \A g \in Families : job'.found[g] = IF g = f /\ status = "OK"
                                                  THEN says ELSE job.found[g]
<1>1. job \in ResolveJobs /\ job.server \in DOMAIN Servers /\ status \in Statuses
    BY DEF Goes, TypeInv, AskedInv
<1>2. job.family \in Families /\ job.target \in Targets  BY <1>1 DEF ResolveJobs
<1> QED  BY <1>1, <1>2, CameIs DEF Goes

\* Whoever is asked next, those before were asked as often as the profile says.
LEMMA CameAsked ==
    ASSUME TypeInv, AskedInv, NEW status, NEW says, NEW t, NEW f, Goes(status, says, t, f),
           status = "NOT_FOUND" =>
                \E a \in air' : /\ a.of.kind = "query"
                                /\ \/ Meant(a, t, f)' /\ a.says = "none"
                                   \/ Repeated(a)'
    PROVE  AskedInv'
<1> DEFINE next == NextAsked(status)
<1>1. /\ status \in Statuses /\ f \in Families /\ job \in ResolveJobs
      /\ job.server \in DOMAIN Servers /\ job' \in ResolveJobs /\ job'.target = t
      /\ \A g \in Families : job'.found[g] = IF g = f /\ status = "OK"
                                             THEN says ELSE job.found[g]
    BY CameTypes
<1>2. /\ job'.family = next.family /\ job'.server = next.server /\ job'.attempt = next.attempt
      /\ \A g \in Families : \A i \in DOMAIN Servers :
            job'.asked[g][i] = IF g = f /\ i = job.server
                               THEN job.asked[g][i] + 1 ELSE job.asked[g][i]
      /\ pc' = IF next.server = 1 /\ next.attempt = 0 /\ f = "v6" THEN "apply" ELSE "query"
    BY <1>1, CameIs DEF Goes
<1>3. /\ \/ /\ status = "ERROR" /\ job.attempt < Retries
            /\ next.family = job.family /\ next.server = job.server
            /\ next.attempt = job.attempt + 1
         \/ /\ status = "ERROR" /\ ~(job.attempt < Retries) /\ job.server < Len(Servers)
            /\ next.family = job.family /\ next.server = job.server + 1
            /\ next.attempt = 0
         \/ /\ status = "ERROR" => ~(job.attempt < Retries) /\ ~(job.server < Len(Servers))
            /\ next.family = "v6" /\ next.server = 1 /\ next.attempt = 0
    BY <1>1, NextAskedIs
<1> HIDE DEF next
<1>4. /\ job.family = f /\ job.target = t /\ Running /\ air \subseteq air'
      /\ pc \in {"query", "listen"} /\ (status = "OK" => says \in Addresses)
    BY DEF Goes
<1>5. /\ job.attempt <= Retries
      /\ \A i \in DOMAIN Servers :
            job.asked[f][i] = IF i < job.server THEN Retries + 1
                              ELSE IF i = job.server THEN job.attempt ELSE 0
      /\ f = "v4" => \A i \in DOMAIN Servers : job.asked["v6"][i] = 0
      /\ f = "v6" => Settled("v4")
    BY <1>4 DEF AskedInv
<1>6. /\ Len(Servers) \in Nat /\ Retries \in Nat /\ DOMAIN Servers = 1..Len(Servers)
      /\ job.server \in 1..Len(Servers) /\ job.attempt \in Nat
    BY <1>1, ServersAssumption DEF ResolveJobs
<1>7. f = "v6" => Settled("v4")'
  <2> SUFFICES ASSUME f = "v6" PROVE Settled("v4")'  OBVIOUS
  <2>1. "v4" \in Families /\ "v4" # f  BY DEF Families
  <2>2. job'.found["v4"] = job.found["v4"]  BY <1>1, <2>1
  <2>3. \A i \in DOMAIN Servers : job'.asked["v4"][i] = job.asked["v4"][i]  BY <1>2, <2>1
  <2>4. Settled("v4")  BY <1>5
  <2>5. job'.target = job.target  BY <1>1, <1>4
  <2> QED  BY <1>4, <2>1, <2>2, <2>3, <2>4, <2>5, SettledStays
<1>8. CASE /\ status = "ERROR" /\ job.attempt < Retries
           /\ next.family = job.family /\ next.server = job.server
           /\ next.attempt = job.attempt + 1
  <2>1. pc' = "query" /\ job'.family = f /\ job'.server = job.server
        /\ job'.attempt = job.attempt + 1 /\ job'.attempt <= Retries
      BY <1>2, <1>4, <1>6, <1>8
  <2>2. \A i \in DOMAIN Servers :
            job'.asked[f][i] = IF i < job.server THEN Retries + 1
                               ELSE IF i = job.server THEN job.attempt + 1 ELSE 0
      BY <1>1, <1>2, <1>5, <1>6
  <2>3. f = "v4" => \A i \in DOMAIN Servers : job'.asked["v6"][i] = 0
      BY <1>2, <1>5 DEF Families
  <2> QED  BY <1>1, <1>7, <2>1, <2>2, <2>3 DEF AskedInv
<1>9. CASE /\ status = "ERROR" /\ ~(job.attempt < Retries) /\ job.server < Len(Servers)
           /\ next.family = job.family /\ next.server = job.server + 1
           /\ next.attempt = 0
  <2>1. /\ job'.family = f /\ job'.server = job.server + 1 /\ job'.attempt = 0
        /\ job'.server \in DOMAIN Servers /\ job.attempt = Retries
      BY <1>2, <1>4, <1>5, <1>6, <1>9
  <2>2. pc' = "query"  BY <1>2, <1>6, <1>9
  <2>3. \A i \in DOMAIN Servers :
            job'.asked[f][i] = IF i < job.server + 1 THEN Retries + 1
                               ELSE IF i = job.server + 1 THEN 0 ELSE 0
      BY <1>1, <1>2, <1>5, <1>6, <2>1
  <2>4. f = "v4" => \A i \in DOMAIN Servers : job'.asked["v6"][i] = 0
      BY <1>2, <1>5 DEF Families
  <2> QED  BY <1>6, <1>7, <2>1, <2>2, <2>3, <2>4 DEF AskedInv
<1>10. CASE /\ status = "ERROR" => ~(job.attempt < Retries) /\ ~(job.server < Len(Servers))
            /\ next.family = "v6" /\ next.server = 1 /\ next.attempt = 0
  <2>1. Settled(f)'
    <3>1. CASE status = "OK"
      <4>1. job'.found[f] = says /\ says \in Addresses  BY <1>1, <1>4, <3>1
      <4> QED  BY <4>1, NoneAssumption DEF Settled
    <3>2. CASE status = "ERROR"
      <4>1. job.attempt = Retries /\ job.server = Len(Servers)  BY <1>5, <1>6, <1>10, <3>2
      <4>2. \A i \in DOMAIN Servers : job'.asked[f][i] = Retries + 1
          BY <1>1, <1>2, <1>5, <1>6, <4>1
      <4> QED  BY <4>2 DEF Settled
    <3>3. CASE status = "NOT_FOUND"
      <4>1. PICK a \in air' : /\ a.of.kind = "query"
                              /\ \/ Meant(a, t, f)' /\ a.says = "none"
                                 \/ Repeated(a)'
          BY <3>3
      <4>2. Meant(a, t, f)' => Meant(a, job.target, f)'  BY <1>1 DEF Meant
      <4> QED  BY <4>1, <4>2 DEF Settled
    <3> QED  BY <1>1, <3>1, <3>2, <3>3 DEF Statuses
  <2>2. CASE f = "v6"
    <3>1. pc' = "apply"  BY <1>2, <1>10, <2>2
    <3> QED  BY <1>7, <2>1, <2>2, <3>1 DEF AskedInv, Families
  <2>3. CASE f = "v4"
    <3>1. /\ pc' = "query" /\ job'.family = "v6" /\ job'.server = 1 /\ job'.attempt = 0
          /\ 1 \in DOMAIN Servers
        BY <1>2, <1>6, <1>10, <2>3
    <3>2. \A i \in DOMAIN Servers : job'.asked["v6"][i] = 0
        BY <1>2, <1>5, <2>3 DEF Families
    <3>3. \A i \in DOMAIN Servers : ~(i < 1)  BY <1>6
    <3> QED  BY <1>6, <2>1, <2>3, <3>1, <3>2, <3>3 DEF AskedInv
  <2> QED  BY <1>1, <2>2, <2>3 DEF Families
<1> QED  BY <1>3, <1>8, <1>9, <1>10

LEMMA CameProven ==
    ASSUME TypeInv, AskedInv, ProvenInv, NEW status, NEW says, NEW t, NEW f,
           Goes(status, says, t, f),
           status = "OK" => \E a \in air' : a.says = says /\ Proven(a, t, f)'
    PROVE  ProvenInv'
<1>1. /\ f \in Families /\ job'.target = t /\ pc' \in {"query", "apply"}
      /\ \A g \in Families : job'.found[g] = IF g = f /\ status = "OK"
                                             THEN says ELSE job.found[g]
    BY CameTypes
<1>2. job.target = t /\ Running /\ air \subseteq air' /\ pc \in {"query", "listen"}
    BY DEF Goes
<1>3. \A g \in Families : job'.found[g] # None =>
            \E a \in air' : a.says = job'.found[g] /\ Proven(a, t, g)'
  <2> SUFFICES ASSUME NEW g \in Families, job'.found[g] # None
               PROVE  \E a \in air' : a.says = job'.found[g] /\ Proven(a, t, g)'
      OBVIOUS
  <2>1. CASE g = f /\ status = "OK"  BY <1>1, <2>1
  <2>2. CASE ~(g = f /\ status = "OK")
    <3>1. PICK s : s = job.found[g]  OBVIOUS
    <3>2. job'.found[g] = s  BY <1>1, <2>2, <3>1
    <3>3. \E a \in air : a.says = s /\ Proven(a, t, g)
        BY <1>2, <3>1, <3>2 DEF ProvenInv
    <3> QED  BY <1>2, <3>2, <3>3, FoundStays
  <2> QED  BY <2>1, <2>2
<1>4. \A a, g : Proven(a, t, g)' => Proven(a, job.target, g)'
    BY <1>1 DEF Proven, Meant
<1> QED  BY <1>1, <1>3, <1>4 DEF ProvenInv

LEMMA CameEvidence ==
    ASSUME TypeInv, AskedInv, EvidenceInv, NEW status, NEW says, NEW t, NEW f,
           Goes(status, says, t, f), Extends(pcap', pcap),
           status = "OK" => pcap'.torn \/ \E to \in ToSet(Servers) :
                                                Sent(f, to)' /\ Taken(f, to, says)'
    PROVE  EvidenceInv'
<1>1. /\ f \in Families /\ pc' \in {"query", "apply"}
      /\ \A g \in Families : job'.found[g] = IF g = f /\ status = "OK"
                                             THEN says ELSE job.found[g]
    BY CameTypes
<1>2. pc \in {"query", "listen"}  BY DEF Goes
<1>3. pcap.torn => pcap'.torn  BY EvidenceStays
<1> SUFFICES ASSUME ~pcap'.torn, NEW g \in Families, job'.found[g] # None
             PROVE  \E to \in ToSet(Servers) : Sent(g, to)' /\ Taken(g, to, job.found[g])'
    BY <1>1 DEF EvidenceInv
<1>4. CASE g = f /\ status = "OK"
  <2>1. PICK to \in ToSet(Servers) : Sent(f, to)' /\ Taken(f, to, says)'  BY <1>4
  <2>2. job'.found[g] = says  BY <1>1, <1>4
  <2>3. Taken(g, to, job.found[g])'  BY <1>4, <2>1, <2>2 DEF Taken
  <2> QED  BY <1>4, <2>1, <2>3
<1>5. CASE ~(g = f /\ status = "OK")
  <2>1. PICK s : s = job.found[g]  OBVIOUS
  <2>2. job'.found[g] = s  BY <1>1, <1>5, <2>1
  <2>3. PICK to \in ToSet(Servers) : Sent(g, to) /\ Taken(g, to, s)
      BY <1>2, <1>3, <2>1, <2>2 DEF EvidenceInv
  <2>4. Sent(g, to)' /\ Taken(g, to, s)'  BY <2>3, EvidenceStays
  <2>5. Taken(g, to, job.found[g])'  BY <2>2, <2>4 DEF Taken
  <2> QED  BY <2>4, <2>5
<1> QED  BY <1>4, <1>5

-------------------------------------------------------------------------------
(* The steps.                                                              *)

LEMMA ProbeInvInit == Init => ProbeInv
<1> SUFFICES ASSUME Init PROVE ProbeInv  OBVIOUS
<1> USE DEF Init
<1>1. pcap \in Files /\ LinkInv  BY DEF NoFile, Files, Links, LinkInv, LinkOk
<1>2. counts \in Counters /\ counts.sent = NoRequests
    BY DEF Counters, Counted, NoRequests
<1>3. \A k \in Counted : counts.sent[k] = 0  BY <1>2 DEF Counted, NoRequests
<1>4. result \in [Targets -> [Families -> Results]]  BY DEF Results
<1>5. TypeInv  BY <1>1, <1>2, <1>4 DEF TypeInv, Counters
<1>6. NumberInv
  <2>1. \A f \in Families : f \in Counted  BY DEF Families, Counted
  <2>2. "query" \in Counted  BY DEF Counted
  <2> QED  BY <1>3, <2>1, <2>2 DEF NumberInv, Nth
<1>7. AirInv  BY DEF AirInv
<1>8. CurrentInv /\ ProvenInv /\ EvidenceInv /\ AskedInv
    BY DEF CurrentInv, ProvenInv, EvidenceInv, AskedInv
<1> QED  BY <1>1, <1>5, <1>6, <1>7, <1>8 DEF ProbeInv

\* Between two commands nothing is at hand.
LEMMA Idles ==
    ASSUME TypeInv', NumberInv', AirInv', LinkInv', pc' = "idle"
    PROVE  ProbeInv'
BY DEF ProbeInv, CurrentInv, ProvenInv, EvidenceInv, AskedInv

LEMMA EndsIs == Ends => pcap' \in Files /\ LinkInv' /\ pc' = "idle"
BY DEF Ends, NoFile, Files, Links, LinkInv, LinkOk

LEMMA StutterKeeps == ASSUME ProbeInv, UNCHANGED vars PROVE ProbeInv'
<1> USE DEF vars, petal
<1>1. TypeInv' /\ NumberInv'  BY DEF ProbeInv, TypeInv, NumberInv, Nth
<1>2. counts \in Counters  BY DEF ProbeInv, TypeInv, Counters
<1>3. AirInv'  BY <1>2, CountsSame, AirUnchanged DEF ProbeInv
<1>4. \A a, t, f : Proven(a, t, f)' = Proven(a, t, f)
    BY DEF Proven, Meant, Repeated, OneCycle
<1>5. \A of : Issued(of)' = Issued(of)  BY DEF Issued, Key, Numbered, Nth
<1>6. CurrentInv'  BY <1>5 DEF ProbeInv, CurrentInv, Key, Issued, Numbered, Nth
<1>7. ProvenInv' /\ LinkInv'
    BY <1>4 DEF ProbeInv, ProvenInv, LinkInv, LinkOk, Proven, Meant, Repeated, OneCycle
<1>8. EvidenceInv' /\ AskedInv'
    BY DEF ProbeInv, EvidenceInv, AskedInv, Settled, Sent, Taken, Meant, Repeated, OneCycle
<1> QED  BY <1>1, <1>3, <1>6, <1>7, <1>8 DEF ProbeInv

-------------------------------------------------------------------------------
(* ping.                                                                   *)

\* No answer has the place of a request that was not made before.
LEMMA FreshRequest ==
    ASSUME TypeInv, AirInv, NEW k \in Counted, NEW a \in air,
           a.of.process = counts.process, Key(a.of) = k
    PROVE  a.of.n # counts.sent[k] + 1
<1>1. Issued(a.of)  BY DEF AirInv
<1>2. a.of.n \in Nat /\ a.of.n <= counts.sent[k]  BY <1>1 DEF Issued, Requests
<1>3. counts.sent[k] \in Nat  BY DEF TypeInv
<1> QED  BY <1>2, <1>3

LEMMA PingKeeps == ASSUME ProbeInv, Ping PROVE ProbeInv'
<1> USE DEF ProbeInv
<1>1. PICK t \in Targets, f \in Families :
        LET seq == Following(echo[f], EchoNumbers)
            n   == counts.sent[f] + 1
        IN  /\ address[t][f] # None
            /\ counts' = [counts EXCEPT !.command = @ + 1, !.sent[f] = n]
            /\ echo' = [echo EXCEPT ![f] = seq]
            /\ \/ /\ pc' = "send"
                  /\ job' = [kind |-> "ping", target |-> t, family |-> f, outcome |-> None]
                  /\ probe' = Request("echo", t, f, address[t][f], <<seq>>, n)
                  /\ UNCHANGED faults
               \/ Fault /\ UNCHANGED <<pc, job, probe>>
    BY DEF Ping
<1>2. pc = "idle" /\ UNCHANGED <<dns, petal, pcap, air>>  BY DEF Ping
<1> DEFINE seq == Following(echo[f], EchoNumbers)
           n   == counts.sent[f] + 1
<1>3. /\ NumberInv' /\ counts' \in Counters
      /\ counts'.command = counts.command + 1 /\ counts'.process = counts.process
      /\ \A k \in Counted : counts'.sent[k] = IF k = f THEN counts.sent[k] + 1
                                               ELSE counts.sent[k]
      /\ echo'[f] \in Nat /\ echo'[f] = seq
  <2>1. counts' = [counts EXCEPT !.command = @ + 1, !.sent[f] = counts.sent[f] + 1]
      BY <1>1
  <2>2. echo' = [echo EXCEPT ![f] = Following(echo[f], EchoNumbers)]  BY <1>1
  <2> QED  BY <1>2, <2>1, <2>2, PingCounts
<1>4. counts \in Counters /\ f \in Counted /\ counts.sent[f] \in Nat /\ counts.process \in Nat
    BY DEF TypeInv, Counters, Families, Counted
<1>5. Onwards
  <2>1. \A k \in Counted : counts.sent[k] \in Nat  BY <1>4 DEF Counters
  <2> QED  BY <1>3, <2>1 DEF Onwards
<1>6. AirInv'  BY <1>2, <1>4, <1>5, AirUnchanged
<1>7. faults' \in Nat  BY <1>1, FaultNat DEF TypeInv
<1>8. LinkInv'  BY <1>2 DEF LinkInv, LinkOk
<1>9. CASE UNCHANGED <<pc, job, probe>>
  <2>1. TypeInv'  BY <1>2, <1>3, <1>7, <1>9 DEF TypeInv, Counters, petal
  <2> QED  BY <1>2, <1>3, <1>6, <1>8, <1>9, <2>1, Idles
<1>10. CASE /\ pc' = "send"
            /\ job' = [kind |-> "ping", target |-> t, family |-> f, outcome |-> None]
            /\ probe' = Request("echo", t, f, address[t][f], <<seq>>, n)
  <2>0. PICK of : of = Request("echo", t, f, address[t][f], <<seq>>, n)  OBVIOUS
  <2>1. job' \in PingJobs /\ job'.target = t /\ job'.family = f  BY <1>10 DEF PingJobs
  <2>2. TypeInv'  BY <1>2, <1>3, <1>7, <1>10, <2>1 DEF TypeInv, Counters, petal
  <2>3. /\ address[t][f] \in Hosts /\ <<seq>> \in Seq(Nat) /\ n \in Nat /\ n > 0
        /\ counts'.command \in Nat
    <3>1. address[t][f] \in Addresses  BY <1>1 DEF TypeInv
    <3>2. seq \in Nat  BY <1>3
    <3> QED  BY <1>3, <1>4, <3>1, <3>2 DEF Hosts, Counters
  <2>4. /\ of \in Requests /\ of.kind = "echo" /\ of.target = t /\ of.family = f
        /\ of.to = address[t][f] /\ of.number = <<seq>> /\ of.n = n
        /\ of.command = counts'.command /\ of.process = counts.process
    <3>1. of = [kind |-> "echo", target |-> t, family |-> f, to |-> address[t][f],
                number |-> <<seq>>, command |-> counts'.command,
                process |-> counts.process, n |-> n]
        BY <2>0 DEF Request
    <3> HIDE DEF seq, n
    <3>2. of \in Requests  BY <1>4, <2>3, <3>1 DEF Requests
    <3> QED  BY <3>1, <3>2
  <2>5. probe' = of  BY <1>10, <2>0
  <2>6. Key(of) = f  BY <2>4 DEF Key
  <2>7. Nth(seq, n, EchoNumbers - 1)
    <3>1. Nth(echo'[f], counts'.sent[f], EchoNumbers - 1)  BY <1>3 DEF NumberInv, Nth
    <3>2. counts'.sent[f] = n  BY <1>3, <1>4
    <3> QED  BY <1>3, <3>1, <3>2
  <2>8. Issued(of)'
    <3>1. of.number[1] = seq  BY <2>4
    <3>2. Numbered(of)  BY <2>4, <2>7, <3>1 DEF Numbered
    <3>3. of.n <= counts'.sent[Key(of)] /\ of.n > 0 /\ of.process <= counts'.process
        BY <1>3, <1>4, <2>3, <2>4, <2>6
    <3> QED  BY <2>4, <3>2, <3>3 DEF Issued, Key, Numbered, Nth
  <2>9. \A a \in air : ~(a.of.process = counts.process /\ Key(a.of) = f /\ a.of.n = n)
      BY <1>4, FreshRequest
  <2>10. of.n = counts'.sent[f]  BY <1>3, <1>4, <2>4
  <2>11. address' = address /\ air' = air  BY <1>2 DEF petal
  <2>12. CurrentInv'
    <3>1. Issued(probe)'  BY <2>5, <2>8 DEF Issued, Key, Numbered, Nth
    <3>2. /\ probe'.process = counts'.process /\ probe'.command = counts'.command
          /\ probe'.target = job'.target /\ probe'.family = job'.family
          /\ probe'.kind = "echo" /\ probe'.to = address'[job'.target][job'.family]
        BY <1>3, <2>1, <2>4, <2>5, <2>11
    <3>3. Key(probe)' = f /\ probe'.n = counts'.sent[f]  BY <2>5, <2>6, <2>10 DEF Key
    <3>4. \A a \in air' : ~(/\ a.of.process = counts'.process /\ Key(a.of) = f
                            /\ a.of.n = probe'.n)
        BY <1>3, <2>4, <2>5, <2>9, <2>11
    <3> QED  BY <1>10, <3>1, <3>2, <3>3, <3>4 DEF CurrentInv, Key
  <2>13. ProvenInv' /\ EvidenceInv' /\ AskedInv'
      BY <1>10 DEF ProvenInv, EvidenceInv, AskedInv
  <2> QED  BY <1>3, <1>6, <1>8, <2>2, <2>12, <2>13
<1> QED  BY <1>1, <1>9, <1>10

LEMMA OutcomeIs ==
    ASSUME job \in PingJobs, NEW r \in Results, Outcome(r)
    PROVE  /\ job' \in PingJobs /\ job'.target = job.target /\ job'.family = job.family
           /\ job'.outcome = r /\ pc' = "record" /\ UNCHANGED <<echo, dns, petal, counts>>
<1>1. job' = [kind |-> job.kind, target |-> job.target, family |-> job.family, outcome |-> r]
    BY DEF Outcome, PingJobs
<1> QED  BY <1>1 DEF Outcome, PingJobs

\* What a step of ping keeps that leaves the counters and the petals alone.
LEMMA SamePetals ==
    ASSUME ProbeInv, UNCHANGED <<echo, dns, petal, counts>>
    PROVE  /\ NumberInv' /\ counts \in Counters /\ Onwards /\ Running
           /\ address' = address /\ result' = result
BY CountsSame, RunsOn DEF ProbeInv, NumberInv, TypeInv, Counters, Nth, petal

\* ping has come to an end other than a reply.
LEMMA NotReplied ==
    ASSUME ProbeInv, pc \in {"send", "receive"}, NEW r \in {"TIMEOUT", "ERROR"}, Outcome(r),
           pcap' \in Files, LinkInv', Extends(pcap', pcap), AirInv', air' \subseteq Answers,
           faults' \in Nat, r = "TIMEOUT" => pc = "receive"
    PROVE  ProbeInv'
<1> USE DEF ProbeInv
<1>1. job \in PingJobs /\ r \in Results  BY DEF TypeInv, Results
<1>2. /\ job' \in PingJobs /\ job'.target = job.target /\ job'.family = job.family
      /\ job'.outcome = r /\ pc' = "record" /\ UNCHANGED <<echo, dns, petal, counts>>
    BY <1>1, OutcomeIs
<1>3. NumberInv' /\ counts \in Counters /\ address' = address /\ result' = result
    BY <1>2, SamePetals
<1>4. TypeInv'  BY <1>1, <1>2, <1>3 DEF TypeInv
<1>5. CurrentInv' /\ ProvenInv' /\ AskedInv'
    BY <1>2 DEF CurrentInv, ProvenInv, AskedInv
<1>6. EvidenceInv'
  <2>1. pcap.torn => pcap'.torn  BY EvidenceStays
  <2>2. CASE r = "ERROR"  BY <1>2, <2>2 DEF EvidenceInv
  <2>3. CASE r = "TIMEOUT" /\ ~pcap'.torn
    <3>1. PICK f, to : f = probe.family /\ to = probe.to  OBVIOUS
    <3>2. Sent(f, to)  BY <2>1, <2>3, <3>1 DEF EvidenceInv
    <3>3. Sent(f, to)'  BY <3>2, EvidenceStays
    <3>4. f = job'.family /\ to = address'[job'.target][job'.family]
        BY <1>2, <1>3, <2>3, <3>1 DEF CurrentInv
    <3>5. Sent(job.family, address[job.target][job.family])'  BY <3>3, <3>4 DEF Sent
    <3> QED  BY <1>2, <2>3, <3>5 DEF EvidenceInv
  <2> QED  BY <2>2, <2>3 DEF EvidenceInv
<1> QED  BY <1>3, <1>4, <1>5, <1>6

\* kwire_write on behalf of the request at hand: an answer to it may be sent.
LEMMA SendAir ==
    ASSUME TypeInv, AirInv, CurrentInv, pc = "send", UNCHANGED counts, AirGrows(probe)
    PROVE  /\ AirInv' /\ air' \subseteq Answers /\ Issued(probe) /\ probe \in Requests
           /\ \A a \in air' : a.of.process = counts.process /\ Key(a.of) = Key(probe)
                                /\ a.of.n = probe.n => a.of = probe
<1>1. counts \in Counters /\ Onwards  BY CountsSame DEF TypeInv, Counters
<1>2. PICK of : of = probe  OBVIOUS
<1>3. Issued(of)  BY <1>2 DEF CurrentInv
<1>4. Issued(of)' /\ of \in Requests  BY <1>1, <1>3, IssuedStays DEF Issued
<1>5. AirGrows(of)  BY <1>2 DEF AirGrows
<1>6. AirInv'  BY <1>1, <1>4, <1>5, AirStays
<1>7. \A a \in AnswersTo(of) : a \in Answers /\ a.of = of  BY <1>4, AnswerFields
<1>8. air' \subseteq Answers  BY <1>5, <1>7 DEF AirGrows, TypeInv
<1>9. \A a \in air' : a.of.process = counts.process /\ Key(a.of) = Key(probe)
                        /\ a.of.n = probe.n => a.of = probe
    BY <1>2, <1>5, <1>7 DEF AirGrows, CurrentInv
<1> QED  BY <1>2, <1>3, <1>4, <1>6, <1>8, <1>9

LEMMA SendKeeps == ASSUME ProbeInv, Send PROVE ProbeInv'
<1> USE DEF ProbeInv
<1>1. pc = "send" /\ job \in PingJobs /\ probe' = probe  BY DEF Send, TypeInv
<1>2. probe \in Requests /\ probe.kind = "echo" /\ Issued(probe)
    BY <1>1 DEF CurrentInv, Issued
<1>3. CASE Write(probe, TRUE) /\ pc' = "receive" /\ UNCHANGED <<job, echo, dns, petal, counts>>
  <2>1. /\ pcap' \in Files /\ LinkInv' /\ Extends(pcap', pcap)
        /\ AirGrows(probe) /\ faults' \in Nat
        /\ \E x \in pcap'.frames : x.family = probe.family /\ x.says = None /\ x.to = probe.to
      BY <1>2, <1>3, Written
  <2>2. NumberInv' /\ counts \in Counters /\ address' = address /\ result' = result
      BY <1>3, SamePetals
  <2>3. /\ AirInv' /\ air' \subseteq Answers
        /\ \A a \in air' : a.of.process = counts.process /\ Key(a.of) = Key(probe)
                             /\ a.of.n = probe.n => a.of = probe
      BY <1>1, <1>3, <2>1, SendAir
  <2>4. TypeInv'  BY <1>1, <1>3, <2>1, <2>2, <2>3 DEF TypeInv
  <2>5. Issued(probe)'
    <3>1. PICK of : of = probe  OBVIOUS
    <3>2. Issued(of)'  BY <1>2, <1>3, <2>2, <3>1, CountsSame, IssuedStays
    <3> QED  BY <1>1, <3>1, <3>2 DEF Issued, Key, Numbered, Nth
  <2>6. Key(probe)' = Key(probe)  BY <1>1 DEF Key
  <2>7. CurrentInv'
    <3>1. /\ probe'.process = counts'.process /\ probe'.command = counts'.command
          /\ probe'.n = counts'.sent[Key(probe)]
          /\ probe'.target = job'.target /\ probe'.family = job'.family
          /\ probe'.kind = "echo" /\ probe'.to = address'[job'.target][job'.family]
        BY <1>1, <1>3, <2>2 DEF CurrentInv
    <3>2. \A a \in air' : a.of.process = counts'.process /\ Key(a.of) = Key(probe)
                            /\ a.of.n = probe'.n => a.of = probe'
        BY <1>1, <1>3, <2>3
    <3> QED  BY <1>3, <2>5, <2>6, <3>1, <3>2 DEF CurrentInv, Key
  <2>8. ProvenInv' /\ AskedInv'  BY <1>3 DEF ProvenInv, AskedInv
  <2>9. EvidenceInv'
    <3>1. Sent(probe.family, probe.to)'  BY <1>1, <2>1 DEF Sent
    <3> QED  BY <1>3, <3>1 DEF EvidenceInv
  <2> QED  BY <2>1, <2>2, <2>3, <2>4, <2>7, <2>8, <2>9
<1>4. CASE Write(probe, FALSE) /\ Outcome("ERROR")
  <2>1. /\ pcap' \in Files /\ LinkInv' /\ Extends(pcap', pcap)
        /\ AirGrows(probe) /\ faults' \in Nat
      BY <1>2, <1>4, Written
  <2>2. UNCHANGED counts  BY <1>4 DEF Outcome
  <2>3. AirInv' /\ air' \subseteq Answers  BY <1>1, <2>1, <2>2, SendAir
  <2> QED  BY <1>1, <1>4, <2>1, <2>3, NotReplied
<1> QED  BY <1>3, <1>4 DEF Send

LEMMA ReceiveKeeps == ASSUME ProbeInv, Receive PROVE ProbeInv'
<1> USE DEF ProbeInv
<1>1. PICK a \in air : Take(a)  BY DEF Receive
<1>2. /\ pc = "receive" /\ Outcome("REPLY") /\ UNCHANGED probe /\ job \in PingJobs
      /\ probe \in Requests /\ probe.kind = "echo"
    BY DEF Receive, TypeInv, CurrentInv, Issued
<1>3. /\ Matches(a) /\ UNCHANGED air /\ faults' \in Nat
      /\ pcap' \in Files /\ LinkInv' /\ Extends(pcap', pcap)
      /\ \/ pcap'.torn
         \/ \E x \in pcap'.frames \cup pcap'.side :
               x.family = probe.family /\ x.says = a.says /\ x.to = probe.to
    BY <1>1, <1>2, Took
<1>4. /\ a.of = probe \/ Repeated(a)
      /\ a.of.kind = "echo" /\ a.of.to = probe.to /\ a.of \in Requests
      /\ a.of.family = probe.family
    BY <1>2, <1>3, MatchedAnswer
<1>5. /\ job' \in PingJobs /\ job'.target = job.target /\ job'.family = job.family
      /\ job'.outcome = "REPLY" /\ pc' = "record" /\ UNCHANGED <<echo, dns, petal, counts>>
    BY <1>2, OutcomeIs DEF Results
<1>6. /\ NumberInv' /\ counts \in Counters /\ Onwards /\ Running
      /\ address' = address /\ result' = result
    BY <1>5, SamePetals
<1>7. AirInv'  BY <1>3, <1>6, AirUnchanged
<1>8. TypeInv'  BY <1>3, <1>5, <1>6 DEF TypeInv, Results
<1>9. PICK t, f, to : t = job.target /\ f = job.family /\ to = address[job.target][job.family]
    OBVIOUS
<1>10. /\ probe.target = t /\ probe.family = f /\ probe.to = to
       /\ probe.command = counts.command
    BY <1>2, <1>9 DEF CurrentInv
<1>11. /\ t = job'.target /\ f = job'.family /\ to = address'[job'.target][job'.family]
    BY <1>5, <1>6, <1>9
<1>12. ProvenInv'
  <2>1. Proven(a, t, f)  BY <1>4, <1>10 DEF Proven, Meant
  <2>2. Proven(a, t, f)'  BY <1>4, <1>6, <2>1, ProvenStays DEF Running
  <2>3. Proven(a, job.target, job.family)'  BY <1>11, <2>2 DEF Proven, Meant
  <2>4. a \in air' /\ a.of.to = address'[job'.target][job'.family]
      BY <1>1, <1>3, <1>4, <1>10, <1>11
  <2> QED  BY <1>4, <1>5, <2>3, <2>4 DEF ProvenInv
<1>13. EvidenceInv'
  <2> SUFFICES ASSUME ~pcap'.torn PROVE EvidenceInv'  BY DEF EvidenceInv
  <2>1. a.says = "reply"  BY <1>4 DEF AirInv, AnswersTo
  <2>2. Taken(f, to, "reply")'  BY <1>3, <1>10, <2>1 DEF Taken
  <2>3. Sent(f, to)
    <3>1. ~pcap.torn  BY <1>3, EvidenceStays
    <3> QED  BY <1>2, <1>10, <3>1 DEF EvidenceInv
  <2>4. Sent(f, to)'  BY <1>3, <2>3, EvidenceStays
  <2> QED  BY <1>5, <1>11, <2>2, <2>4 DEF EvidenceInv, Sent, Taken
<1>14. CurrentInv' /\ AskedInv'  BY <1>5 DEF CurrentInv, AskedInv
<1> QED  BY <1>3, <1>6, <1>7, <1>8, <1>12, <1>13, <1>14

LEMMA NoReplyKeeps == ASSUME ProbeInv, NoReply PROVE ProbeInv'
<1> USE DEF ProbeInv
<1>1. pc = "receive" /\ UNCHANGED <<probe, pcap, air>>  BY DEF NoReply
<1>2. PICK r \in {"TIMEOUT", "ERROR"} : Outcome(r) /\ (UNCHANGED faults \/ Fault)
    BY DEF NoReply
<1>3. faults' \in Nat  BY <1>2, FaultNat DEF TypeInv
<1>4. counts \in Counters /\ Onwards  BY <1>2, CountsSame DEF TypeInv, Counters, Outcome
<1>5. AirInv' /\ air' \subseteq Answers  BY <1>1, <1>4, AirUnchanged DEF TypeInv
<1>6. pcap' \in Files /\ LinkInv' /\ Extends(pcap', pcap)
    BY <1>1 DEF TypeInv, LinkInv, LinkOk, Extends
<1> QED  BY <1>1, <1>2, <1>3, <1>5, <1>6, NotReplied

LEMMA RecordKeeps == ASSUME ProbeInv, RecordResult PROVE ProbeInv'
<1> USE DEF ProbeInv
<1>1. /\ pc = "record" /\ Ends /\ UNCHANGED <<echo, dns, address, air, counts>>
      /\ job \in PingJobs /\ job.outcome \in Results
    BY DEF RecordResult, TypeInv
<1>2. pcap' \in Files /\ LinkInv' /\ pc' = "idle"  BY <1>1, EndsIs
<1>3. faults' \in Nat  BY FaultNat DEF RecordResult, TypeInv
<1>4. result' \in [Targets -> [Families -> Results]]
    BY <1>1 DEF RecordResult, TypeInv, PingJobs
<1>5. NumberInv'  BY <1>1 DEF NumberInv, Nth
<1>6. AirInv'  BY <1>1, CountsSame, AirUnchanged DEF TypeInv, Counters
<1>7. TypeInv'  BY <1>1, <1>2, <1>3, <1>4 DEF TypeInv
<1> QED  BY <1>2, <1>5, <1>6, <1>7, Idles

-------------------------------------------------------------------------------
(* resolve.                                                                *)

LEMMA ResolveKeeps == ASSUME ProbeInv, Resolve PROVE ProbeInv'
<1> USE DEF ProbeInv
<1>1. /\ pc = "idle" /\ UNCHANGED <<probe, echo, dns, petal, pcap, air>>
      /\ counts' = [counts EXCEPT !.command = @ + 2]
    BY DEF Resolve
<1>2. /\ counts \in Counters /\ counts' \in Counters /\ counts'.process = counts.process
      /\ counts'.sent = counts.sent
    BY <1>1 DEF TypeInv, Counters
<1>3. Onwards  BY <1>2 DEF Onwards, Counters
<1>4. NumberInv'  BY <1>1, <1>2 DEF NumberInv, Nth
<1>5. AirInv'  BY <1>1, <1>2, <1>3, AirUnchanged
<1>6. LinkInv'  BY <1>1 DEF LinkInv, LinkOk
<1>7. faults' \in Nat  BY FaultNat DEF Resolve, TypeInv
<1>8. CASE UNCHANGED pc
  <2>1. TypeInv'  BY <1>1, <1>2, <1>7, <1>8 DEF TypeInv, Counters, petal
  <2> QED  BY <1>1, <1>4, <1>5, <1>6, <1>8, <2>1, Idles
<1>9. ASSUME NEW t \in Targets,
             pc' = IF Servers = << >> THEN "apply" ELSE "query",
             job' = [kind |-> "resolve", target |-> t,
                     family |-> "v4", server |-> 1, attempt |-> 0,
                     found |-> [f \in Families |-> None],
                     asked |-> [f \in Families |-> [i \in DOMAIN Servers |-> 0]]]
      PROVE  ProbeInv'
  <2>1. job' \in ResolveJobs  BY <1>9 DEF ResolveJobs, Families
  <2>2. /\ job'.family = "v4" /\ job'.server = 1 /\ job'.attempt = 0
        /\ \A f \in Families : job'.found[f] = None
        /\ \A f \in Families : \A i \in DOMAIN Servers : job'.asked[f][i] = 0
      BY <1>9
  <2>3. TypeInv'  BY <1>1, <1>2, <1>7, <1>9, <2>1 DEF TypeInv, Counters, petal
  <2>4. CurrentInv' /\ ProvenInv' /\ EvidenceInv'
      BY <1>9, <2>2 DEF CurrentInv, ProvenInv, EvidenceInv
  <2>5. AskedInv'
    <3>1. Len(Servers) \in Nat /\ DOMAIN Servers = 1..Len(Servers) /\ Retries \in Nat
        BY ServersAssumption
    <3>2. CASE Servers = << >>
      <4>1. \A i \in DOMAIN Servers : FALSE  BY <3>1, <3>2
      <4> QED  BY <1>9, <3>2, <4>1 DEF AskedInv, Settled
    <3>3. CASE Servers # << >>
      <4>1. 1 \in DOMAIN Servers  BY <3>1, <3>3, ServersAssumption
      <4>2. \A i \in DOMAIN Servers : ~(i < 1)  BY <3>1
      <4>3. "v4" \in Families /\ "v6" \in Families  BY DEF Families
      <4> QED  BY <1>9, <2>2, <3>1, <3>3, <4>1, <4>2, <4>3 DEF AskedInv
    <3> QED  BY <3>2, <3>3
  <2> QED  BY <1>4, <1>5, <1>6, <2>3, <2>4, <2>5
<1> QED  BY <1>8, <1>9 DEF Resolve

\* A query that came to something: what else the invariant asks of the step.
Kept ==
    /\ NumberInv' /\ AirInv' /\ LinkInv' /\ UNCHANGED petal
    /\ counts' \in Counters /\ faults' \in Nat /\ pcap' \in Files /\ air' \subseteq Answers
    /\ Extends(pcap', pcap)

LEMMA CameKeeps ==
    ASSUME ProbeInv, NEW status, NEW says, NEW t, NEW f, Goes(status, says, t, f), Kept,
           status = "NOT_FOUND" =>
                \E a \in air' : /\ a.of.kind = "query"
                                /\ \/ Meant(a, t, f)' /\ a.says = "none"
                                   \/ Repeated(a)',
           status = "OK" =>
                /\ \E a \in air' : a.says = says /\ Proven(a, t, f)'
                /\ pcap'.torn \/ \E to \in ToSet(Servers) :
                                        Sent(f, to)' /\ Taken(f, to, says)'
    PROVE  ProbeInv'
<1>1. TypeInv /\ AskedInv /\ ProvenInv /\ EvidenceInv  BY DEF ProbeInv
<1>2. AskedInv'  BY <1>1, CameAsked
<1>3. ProvenInv'  BY <1>1, CameProven
<1>4. EvidenceInv'  BY <1>1, CameEvidence DEF Kept
<1>5. job' \in ResolveJobs /\ pc' \in {"query", "apply"}  BY <1>1, CameTypes
<1>6. TypeInv'  BY <1>1, <1>5 DEF TypeInv, Kept, petal, Counters
<1>7. CurrentInv'  BY <1>5 DEF CurrentInv
<1> QED  BY <1>2, <1>3, <1>4, <1>6, <1>7 DEF ProbeInv, Kept

LEMMA CameError ==
    ASSUME ProbeInv, pc \in {"query", "listen"}, Came("ERROR", None), Running,
           air \subseteq air', Kept
    PROVE  ProbeInv'
<1>1. PICK t, f : t = job.target /\ f = job.family  OBVIOUS
<1>2. Goes("ERROR", None, t, f)  BY <1>1 DEF Goes, Statuses
<1> QED  BY <1>2, CameKeeps

LEMMA QueryKeeps == ASSUME ProbeInv, Query PROVE ProbeInv'
<1> USE DEF ProbeInv
<1>1. PICK of : of = Request("query", job.target, job.family, Servers[job.server],
                             <<dns'.id, dns'.port>>, counts'.sent.query)
    OBVIOUS
<1>2. /\ pc = "query"
      /\ dns' = [id |-> Following(dns.id, DnsNumbers), port |-> Following(dns.port, DnsPorts + 1)]
      /\ counts' = [counts EXCEPT !.sent.query = @ + 1]
      /\ \/ Write(of, TRUE) /\ pc' = "listen" /\ probe' = of /\ UNCHANGED job
         \/ Write(of, FALSE) /\ Came("ERROR", None)
         \/ Fault /\ Came("ERROR", None) /\ UNCHANGED <<air, pcap>>
      /\ UNCHANGED <<echo, petal>>
    BY <1>1 DEF Query
<1>3. /\ NumberInv' /\ counts' \in Counters
      /\ counts'.command = counts.command /\ counts'.process = counts.process
      /\ \A k \in Counted : counts'.sent[k] = IF k = "query" THEN counts.sent[k] + 1
                                               ELSE counts.sent[k]
    BY <1>2, QueryCounts
<1>4. counts \in Counters  BY DEF TypeInv, Counters
<1>5. Running /\ Onwards
  <2>1. \A k \in Counted : counts.sent[k] \in Nat  BY <1>4 DEF Counters
  <2> QED  BY <1>3, <2>1, RunsOn DEF Running
<1>6. /\ job \in ResolveJobs /\ job.server \in DOMAIN Servers /\ job.target \in Targets
      /\ job.family \in Families
    BY <1>2 DEF TypeInv, AskedInv, ResolveJobs
<1>7. Servers[job.server] \in Hosts
    BY <1>6, ServersAssumption DEF Hosts, ToSet
<1>8. /\ "query" \in Counted /\ counts.sent["query"] \in Nat
      /\ counts'.sent.query = counts.sent["query"] + 1 /\ counts'.process \in Nat
      /\ counts'.command \in Nat
    BY <1>3, <1>4 DEF Counted, Counters
<1>9. /\ of \in Requests /\ of.kind = "query" /\ of.target = job.target
      /\ of.family = job.family /\ of.to = Servers[job.server]
      /\ of.number = <<dns'.id, dns'.port>> /\ of.n = counts'.sent.query
      /\ of.command = counts'.command /\ of.process = counts'.process
  <2>1. of = [kind |-> "query", target |-> job.target, family |-> job.family,
              to |-> Servers[job.server], number |-> <<dns'.id, dns'.port>>,
              command |-> counts'.command, process |-> counts'.process,
              n |-> counts'.sent.query]
      BY <1>1, <1>3 DEF Request
  <2>2. dns'.id \in Nat /\ dns'.port \in Nat  BY <1>3 DEF NumberInv
  <2>3. <<dns'.id, dns'.port>> \in Seq(Nat)  BY <2>2
  <2>4. counts'.sent.query \in Nat  BY <1>8
  <2>5. of \in Requests  BY <1>6, <1>7, <1>8, <2>1, <2>3, <2>4 DEF Requests
  <2> QED  BY <2>1, <2>5
<1>10. Key(of) = "query"  BY <1>9 DEF Key
<1>11. Issued(of)'
  <2>1. Nth(dns'.id, of.n, DnsNumbers - 1) /\ Nth(dns'.port, of.n, DnsPorts)
      BY <1>3, <1>9 DEF NumberInv, Nth
  <2>2. of.number[1] = dns'.id /\ of.number[2] = dns'.port  BY <1>9
  <2>3. Numbered(of)  BY <1>9, <2>1, <2>2 DEF Numbered
  <2>4. of.n > 0 /\ of.process <= counts'.process /\ of.n <= counts'.sent[Key(of)]
      BY <1>8, <1>9, <1>10
  <2> QED  BY <1>9, <2>3, <2>4 DEF Issued, Key, Numbered, Nth
<1>12. ASSUME NEW ok \in BOOLEAN, Write(of, ok)
       PROVE  Kept /\ air \subseteq air' /\ AirGrows(of)
  <2>1. /\ pcap' \in Files /\ LinkInv' /\ Extends(pcap', pcap)
        /\ AirGrows(of) /\ faults' \in Nat
      BY <1>9, <1>12, Written
  <2>2. AirInv'  BY <1>4, <1>5, <1>11, <2>1, AirStays
  <2>3. air' \subseteq Answers  BY <1>9, <2>1, AnswerFields DEF AirGrows, TypeInv
  <2> QED  BY <1>2, <1>3, <2>1, <2>2, <2>3 DEF Kept, AirGrows
<1>13. CASE Fault /\ Came("ERROR", None) /\ UNCHANGED <<air, pcap>>
  <2>1. AirInv'  BY <1>4, <1>5, <1>13, AirUnchanged
  <2>2. faults' \in Nat  BY <1>13, FaultNat DEF TypeInv
  <2>3. Kept
      BY <1>2, <1>3, <1>13, <2>1, <2>2 DEF Kept, TypeInv, LinkInv, LinkOk, Extends
  <2> QED  BY <1>2, <1>5, <1>13, <2>3, CameError
<1>14. CASE Write(of, FALSE) /\ Came("ERROR", None)
    BY <1>2, <1>5, <1>12, <1>14, CameError
<1>15. CASE Write(of, TRUE) /\ pc' = "listen" /\ probe' = of /\ UNCHANGED job
  <2>1. Kept /\ air \subseteq air' /\ AirGrows(of)  BY <1>12, <1>15
  <2>2. TypeInv'  BY <1>6, <1>15, <2>1 DEF TypeInv, Kept, petal, Counters
  <2>3. CurrentInv'
    <3>1. Issued(probe)'  BY <1>11, <1>15 DEF Issued, Key, Numbered, Nth
    <3>2. /\ probe'.process = counts'.process /\ probe'.command = counts'.command
          /\ probe'.target = job'.target /\ probe'.family = job'.family
          /\ probe'.kind = "query" /\ probe'.to = Servers[job'.server]
        BY <1>9, <1>15
    <3>3. Key(probe)' = "query" /\ probe'.n = counts'.sent["query"]
        BY <1>9, <1>10, <1>15 DEF Key
    <3>4. \A a \in air' : a.of.process = counts'.process /\ Key(a.of) = "query"
                            /\ a.of.n = probe'.n => a.of = probe'
      <4> SUFFICES ASSUME NEW a \in air', a.of.process = counts'.process,
                          Key(a.of) = "query", a.of.n = probe'.n
                   PROVE  a.of = probe'
          OBVIOUS
      <4>1. CASE a \in air
        <5>1. a.of.n # counts.sent["query"] + 1  BY <1>3, <1>8, <4>1, FreshRequest
        <5> QED  BY <1>8, <1>9, <1>15, <5>1
      <4>2. CASE a \in AnswersTo(of)
          BY <1>9, <1>15, <4>2, AnswerFields
      <4> QED  BY <2>1, <4>1, <4>2 DEF AirGrows
    <3> QED  BY <1>15, <3>1, <3>2, <3>3, <3>4 DEF CurrentInv, Key
  <2>4. ProvenInv'
    <3>1. PICK t : t = job.target  OBVIOUS
    <3>2. ASSUME NEW f \in Families, job'.found[f] # None
          PROVE  \E a \in air' : a.says = job'.found[f] /\ Proven(a, job.target, f)'
      <4>1. PICK s : s = job.found[f]  OBVIOUS
      <4>2. job'.found[f] = s /\ job'.target = t  BY <1>15, <3>1, <4>1
      <4>3. \E a \in air : a.says = s /\ Proven(a, t, f)
          BY <1>2, <3>1, <3>2, <4>1, <4>2 DEF ProvenInv
      <4>4. PICK a \in air' : a.says = s /\ Proven(a, t, f)'
          BY <1>5, <2>1, <4>3, FoundStays
      <4>5. Proven(a, job.target, f)'  BY <4>2, <4>4 DEF Proven, Meant
      <4> QED  BY <4>2, <4>4, <4>5
    <3> QED  BY <1>15, <3>2 DEF ProvenInv
  <2>5. EvidenceInv'
    <3>1. Extends(pcap', pcap)  BY <2>1 DEF Kept
    <3>2. \E x \in pcap'.frames : x.family = of.family /\ x.says = None /\ x.to = of.to
        BY <1>9, <1>15, Written
    <3>3. Sent(probe.family, probe.to)'  BY <1>15, <3>2 DEF Sent
    <3> SUFFICES ASSUME ~pcap'.torn, NEW f \in Families, job'.found[f] # None
                 PROVE  \E to \in ToSet(Servers) :
                            Sent(f, to)' /\ Taken(f, to, job.found[f])'
        BY <1>15, <3>3 DEF EvidenceInv
    <3>4. PICK s : s = job.found[f]  OBVIOUS
    <3>5. job'.found[f] = s /\ ~pcap.torn  BY <1>15, <3>1, <3>4, EvidenceStays
    <3>6. PICK to \in ToSet(Servers) : Sent(f, to) /\ Taken(f, to, s)
        BY <1>2, <3>4, <3>5 DEF EvidenceInv
    <3>7. Sent(f, to)' /\ Taken(f, to, s)'  BY <3>1, <3>6, EvidenceStays
    <3>8. Taken(f, to, job.found[f])'  BY <3>5, <3>7 DEF Taken
    <3> QED  BY <3>7, <3>8
  <2>6. AskedInv'
    <3>1. job.family = "v6" => Settled("v4")'
      <4> SUFFICES ASSUME job.family = "v6" PROVE Settled("v4")'  OBVIOUS
      <4>1. Settled("v4") /\ "v4" \in Families  BY <1>2 DEF AskedInv, Families
      <4> QED  BY <1>5, <1>15, <2>1, <4>1, SettledStays
    <3> QED  BY <1>2, <1>15, <3>1 DEF AskedInv
  <2> QED  BY <2>1, <2>2, <2>3, <2>4, <2>5, <2>6 DEF Kept
<1> QED  BY <1>2, <1>13, <1>14, <1>15

\* What was taken is what parse_answer makes of it.
LEMMA ParsedIs ==
    ASSUME NEW a, NEW f, f = job.family
    PROVE  /\ Parsed(a) \in Statuses
           /\ Parsed(a) = "OK" => a.says \in Addresses /\ a.of.family = f
           /\ Parsed(a) = "NOT_FOUND" => /\ a.says # "error"
                                         /\ a.says \notin Addresses \/ a.of.family # f
BY DEF Parsed, Statuses

LEMMA ListenKeeps == ASSUME ProbeInv, Listen PROVE ProbeInv'
<1> USE DEF ProbeInv
<1>1. pc = "listen" /\ UNCHANGED <<echo, dns, petal, counts>>  BY DEF Listen
<1>2. /\ NumberInv' /\ counts \in Counters /\ Onwards /\ Running
      /\ address' = address /\ result' = result
    BY <1>1, SamePetals
<1>3. /\ job \in ResolveJobs /\ job.server \in DOMAIN Servers
      /\ probe \in Requests /\ probe.kind = "query" /\ probe.target = job.target
      /\ probe.family = job.family /\ probe.to = Servers[job.server]
      /\ probe.command = counts.command
    BY <1>1 DEF TypeInv, AskedInv, CurrentInv, Issued
<1>4. ASSUME Came("ERROR", None), UNCHANGED <<air, pcap>>, UNCHANGED faults \/ Fault
      PROVE  ProbeInv'
  <2>1. AirInv'  BY <1>2, <1>4, AirUnchanged
  <2>2. faults' \in Nat  BY <1>4, FaultNat DEF TypeInv
  <2>3. Kept
      BY <1>1, <1>2, <1>4, <2>1, <2>2 DEF Kept, TypeInv, LinkInv, LinkOk, Extends, Counters
  <2> QED  BY <1>1, <1>2, <1>4, <2>3, CameError
<1>5. ASSUME NEW a \in air, Take(a), Came(Parsed(a), a.says)
      PROVE  ProbeInv'
  <2>1. /\ Matches(a) /\ UNCHANGED air /\ faults' \in Nat
        /\ pcap' \in Files /\ LinkInv' /\ Extends(pcap', pcap)
        /\ \/ pcap'.torn
           \/ \E x \in pcap'.frames \cup pcap'.side :
                 x.family = probe.family /\ x.says = a.says /\ x.to = probe.to
      BY <1>3, <1>5, Took
  <2>2. /\ a.of = probe \/ Repeated(a)
        /\ a.of.kind = "query" /\ a.of.to = probe.to /\ a.of \in Requests
      BY <1>1, <1>3, <2>1, MatchedAnswer
  <2>3. AirInv'  BY <1>2, <2>1, AirUnchanged
  <2>4. Kept  BY <1>1, <1>2, <2>1, <2>3 DEF Kept, TypeInv, Counters
  <2>5. PICK status, says, t, f :
            status = Parsed(a) /\ says = a.says /\ t = job.target /\ f = job.family
      OBVIOUS
  <2>6. /\ status \in Statuses
        /\ status = "OK" => says \in Addresses /\ a.of.family = f
        /\ status = "NOT_FOUND" => says # "error" /\ (says \notin Addresses \/ a.of.family # f)
      BY <2>5, ParsedIs
  <2>7. Goes(status, says, t, f)  BY <1>1, <1>2, <1>5, <2>1, <2>5, <2>6 DEF Goes
  <2>8. a.of = probe => Meant(a, t, f)  BY <1>3, <2>5 DEF Meant
  <2>9. /\ Repeated(a) => Repeated(a)'
        /\ Meant(a, t, f) => Meant(a, t, f)'
        /\ Proven(a, t, f) => Proven(a, t, f)'
      BY <1>2, <2>2, ProvenStays DEF Running
  <2>10. status = "NOT_FOUND" =>
            \E b \in air' : /\ b.of.kind = "query"
                            /\ \/ Meant(b, t, f)' /\ b.says = "none"
                               \/ Repeated(b)'
    <3> SUFFICES ASSUME status = "NOT_FOUND"
                 PROVE  (Meant(a, t, f)' /\ a.says = "none") \/ Repeated(a)'
        BY <2>1, <2>2
    <3>1. CASE Repeated(a)  BY <2>9, <3>1
    <3>2. CASE a.of = probe
      <4>1. a.of.family = f  BY <1>3, <2>5, <3>2
      <4>2. a.says # "error" /\ a.says \notin Addresses  BY <2>5, <2>6, <4>1
      <4>3. a.says \in Addresses \cup {"none", "error"}  BY <2>2 DEF AirInv, AnswersTo
      <4>4. a.says = "none"  BY <4>2, <4>3
      <4> QED  BY <2>8, <2>9, <3>2, <4>4
    <3> QED  BY <2>2, <3>1, <3>2
  <2>11. status = "OK" => \E b \in air' : b.says = says /\ Proven(b, t, f)'
    <3> SUFFICES ASSUME status = "OK" PROVE Proven(a, t, f)'  BY <2>1, <2>5
    <3>1. Proven(a, t, f)  BY <2>2, <2>6, <2>8 DEF Proven
    <3> QED  BY <2>9, <3>1
  <2>12. pcap'.torn \/ \E to \in ToSet(Servers) : Sent(f, to)' /\ Taken(f, to, says)'
    <3> SUFFICES ASSUME ~pcap'.torn
                 PROVE  \E to \in ToSet(Servers) : Sent(f, to)' /\ Taken(f, to, says)'
        OBVIOUS
    <3>1. PICK to : to = probe.to  OBVIOUS
    <3>2. to \in ToSet(Servers)  BY <1>3, <3>1, ServersAssumption DEF ToSet
    <3>3. Taken(f, to, says)'  BY <1>3, <2>1, <2>5, <3>1 DEF Taken
    <3>4. ~pcap.torn  BY <2>1, EvidenceStays
    <3>5. Sent(f, to)  BY <1>1, <1>3, <2>5, <3>1, <3>4 DEF EvidenceInv
    <3>6. Sent(f, to)'  BY <2>1, <3>5, EvidenceStays
    <3> QED  BY <3>2, <3>3, <3>6
  <2> QED  BY <2>4, <2>7, <2>10, <2>11, <2>12, CameKeeps
<1> QED  BY <1>4, <1>5 DEF Listen

LEMMA ApplyKeeps == ASSUME ProbeInv, ApplyFound PROVE ProbeInv'
<1> USE DEF ProbeInv
<1>1. /\ pc = "apply" /\ Ends /\ UNCHANGED <<echo, dns, result, air, counts>>
      /\ job \in ResolveJobs
    BY DEF ApplyFound, TypeInv
<1>2. pcap' \in Files /\ LinkInv' /\ pc' = "idle"  BY <1>1, EndsIs
<1>3. faults' \in Nat  BY FaultNat DEF ApplyFound, TypeInv
<1>4. address' \in [Targets -> [Families -> Addresses \cup {None}]]
  <2> DEFINE new == [f \in Families |-> IF job.found[f] = None THEN address[job.target][f]
                                        ELSE job.found[f]]
  <2>1. job.target \in Targets /\ job.found \in [Families -> Addresses \cup {None}]
      BY <1>1 DEF ResolveJobs
  <2>2. new \in [Families -> Addresses \cup {None}]  BY <2>1 DEF TypeInv
  <2>3. address' = [address EXCEPT ![job.target] = new] \/ UNCHANGED address
      BY DEF ApplyFound
  <2> HIDE DEF new
  <2> QED  BY <2>1, <2>2, <2>3 DEF TypeInv
<1>5. NumberInv'  BY <1>1 DEF NumberInv, Nth
<1>6. AirInv'  BY <1>1, CountsSame, AirUnchanged DEF TypeInv, Counters
<1>7. TypeInv'  BY <1>1, <1>2, <1>3, <1>4 DEF TypeInv
<1> QED  BY <1>2, <1>5, <1>6, <1>7, Idles

LEMMA RestartKeeps == ASSUME ProbeInv, Restart PROVE ProbeInv'
<1> USE DEF ProbeInv
<1>1. /\ Ends /\ UNCHANGED <<petal, air, faults>>
      /\ counts' = [counts EXCEPT !.process = @ + 1, !.sent = NoRequests]
      /\ echo' = [f \in Families |-> 0] /\ dns' = [id |-> 0, port |-> 0]
    BY DEF Restart
<1>2. pcap' \in Files /\ LinkInv' /\ pc' = "idle"  BY <1>1, EndsIs
<1>3. /\ counts \in Counters /\ counts' \in Counters
      /\ counts'.process > counts.process /\ counts'.sent = NoRequests
  <2>1. counts \in Counters  BY DEF TypeInv, Counters
  <2>2. counts' = [command |-> counts.command, process |-> counts.process + 1,
                   sent |-> NoRequests]
      BY <1>1, <2>1 DEF Counters
  <2>3. NoRequests \in [Counted -> Nat]  BY DEF Counted, NoRequests
  <2>4. counts.command \in Nat /\ counts.process \in Nat  BY <2>1 DEF Counters
  <2> QED  BY <2>1, <2>2, <2>3, <2>4 DEF Counters
<1>4. \A k \in Counted : counts'.sent[k] = 0  BY <1>3 DEF Counted, NoRequests
<1>5. NumberInv'
  <2>1. \A f \in Families : f \in Counted  BY DEF Families, Counted
  <2>2. "query" \in Counted  BY DEF Counted
  <2> QED  BY <1>1, <1>4, <2>1, <2>2 DEF NumberInv, Nth
<1>6. AirInv'  BY <1>1, <1>3, AirUnchanged DEF Onwards
<1>7. TypeInv'  BY <1>1, <1>2, <1>3 DEF TypeInv, Counters, petal
<1> QED  BY <1>2, <1>5, <1>6, <1>7, Idles

LEMMA ProbeInvNext == ProbeInv /\ [Next]_vars => ProbeInv'
<1> SUFFICES ASSUME ProbeInv, [Next]_vars PROVE ProbeInv'  OBVIOUS
<1>1. CASE Ping  BY <1>1, PingKeeps
<1>2. CASE Send  BY <1>2, SendKeeps
<1>3. CASE Receive  BY <1>3, ReceiveKeeps
<1>4. CASE NoReply  BY <1>4, NoReplyKeeps
<1>5. CASE RecordResult  BY <1>5, RecordKeeps
<1>6. CASE Resolve  BY <1>6, ResolveKeeps
<1>7. CASE Query  BY <1>7, QueryKeeps
<1>8. CASE Listen  BY <1>8, ListenKeeps
<1>9. CASE ApplyFound  BY <1>9, ApplyKeeps
<1>10. CASE Restart  BY <1>10, RestartKeeps
<1>11. CASE Done  BY <1>11, StutterKeeps DEF Done
<1>12. CASE UNCHANGED vars  BY <1>12, StutterKeeps
<1> QED
    BY <1>1, <1>2, <1>3, <1>4, <1>5, <1>6, <1>7, <1>8, <1>9, <1>10, <1>11, <1>12 DEF Next

\* The invariant holds in every state of every execution.
THEOREM ProbeInvariant == Spec => []ProbeInv
BY ProbeInvInit, ProbeInvNext, PTL DEF Spec

\* resolve leaves a family of a target without a new address only when a server said that
\* there is none, or every server was asked as often as the profile says.
THEOREM FallbackComplete == Spec => []FallbackIsComplete
<1>1. ProbeInv => FallbackIsComplete
    BY DEF ProbeInv, AskedInv, Settled, FallbackIsComplete
<1> QED  BY <1>1, ProbeInvariant, PTL

-------------------------------------------------------------------------------
(* What is recorded.                                                       *)

\* Only RecordResult changes a result, to the outcome of its ping.
LEMMA RecordedBy ==
    ASSUME ProbeInv, [Next]_vars, NEW t \in Targets, NEW f \in Families,
           result'[t][f] # result[t][f]
    PROVE  /\ pc = "record" /\ t = job.target /\ f = job.family
           /\ result'[t][f] = job.outcome /\ address' = address
<1>1. RecordResult
  <2>1. Ping \/ Send \/ Receive \/ NoReply => UNCHANGED result
      BY DEF petal, Ping, Send, Receive, NoReply, Outcome
  <2>2. Resolve \/ Query \/ Listen \/ ApplyFound => UNCHANGED result
      BY DEF petal, Resolve, Query, Listen, ApplyFound
  <2>3. Restart \/ Done \/ UNCHANGED vars => UNCHANGED result
      BY DEF petal, vars, Restart, Done
  <2> QED  BY <2>1, <2>2, <2>3 DEF Next
<1>2. result' = [result EXCEPT ![job.target][job.family] = job.outcome]
    BY <1>1 DEF RecordResult
<1>3. result \in [Targets -> [Families -> Results]]  BY DEF ProbeInv, TypeInv
<1> QED  BY <1>1, <1>2, <1>3 DEF RecordResult

\* Only ApplyFound changes an address, to the one that was found.
LEMMA AppliedBy ==
    ASSUME ProbeInv, [Next]_vars, NEW t \in Targets, NEW f \in Families,
           address'[t][f] # address[t][f]
    PROVE  /\ pc = "apply" /\ t = job.target /\ job.found[f] # None
           /\ address'[t][f] = job.found[f]
<1>1. ApplyFound
  <2>1. Ping \/ Send \/ Receive \/ NoReply \/ RecordResult => UNCHANGED address
      BY DEF petal, Ping, Send, Receive, NoReply, RecordResult, Outcome
  <2>2. Resolve \/ Query \/ Listen => UNCHANGED address
      BY DEF petal, Resolve, Query, Listen
  <2>3. Restart \/ Done \/ UNCHANGED vars => UNCHANGED address
      BY DEF petal, vars, Restart, Done
  <2> QED  BY <2>1, <2>2, <2>3 DEF Next
<1> DEFINE new == [g \in Families |-> IF job.found[g] = None THEN address[job.target][g]
                                      ELSE job.found[g]]
<1>2. address' = [address EXCEPT ![job.target] = new]  BY <1>1 DEF ApplyFound
<1>3. address \in [Targets -> [Families -> Addresses \cup {None}]]  BY DEF ProbeInv, TypeInv
<1>4. new[f] = IF job.found[f] = None THEN address[job.target][f] ELSE job.found[f]
    OBVIOUS
<1> HIDE DEF new
<1>5. t = job.target /\ address'[t] = new  BY <1>2, <1>3
<1> QED  BY <1>1, <1>4, <1>5 DEF ApplyFound

LEMMA ProvenStep ==
    ASSUME ProbeInv, [Next]_vars, NEW t \in Targets, NEW f \in Families
    PROVE  /\ result'[t][f] # result[t][f] /\ result'[t][f] = "REPLY" =>
                \E a \in air : /\ a.of.kind = "echo" /\ a.of.family = f
                               /\ a.of.to = address[t][f] /\ (Meant(a, t, f) \/ Repeated(a))
           /\ address'[t][f] # address[t][f] =>
                \E a \in air : /\ a.says = address'[t][f] /\ a.of.family = f
                               /\ (Meant(a, t, f) \/ Repeated(a))
<1>1. ASSUME result'[t][f] # result[t][f], result'[t][f] = "REPLY"
      PROVE  \E a \in air : /\ a.of.kind = "echo" /\ a.of.family = f
                            /\ a.of.to = address[t][f] /\ (Meant(a, t, f) \/ Repeated(a))
  <2>1. pc = "record" /\ t = job.target /\ f = job.family /\ job.outcome = "REPLY"
      BY <1>1, RecordedBy
  <2> QED  BY <2>1 DEF ProbeInv, ProvenInv, Proven
<1>2. ASSUME address'[t][f] # address[t][f]
      PROVE  \E a \in air : /\ a.says = address'[t][f] /\ a.of.family = f
                            /\ (Meant(a, t, f) \/ Repeated(a))
  <2>1. /\ pc = "apply" /\ t = job.target /\ job.found[f] # None
        /\ address'[t][f] = job.found[f]
      BY <1>2, AppliedBy
  <2> QED  BY <2>1 DEF ProbeInv, ProvenInv, Proven
<1> QED  BY <1>1, <1>2

\* A target is recorded as having replied, or gets an address, only by an answer to the
\* request that was sent for it now and for this family; but for answers of an earlier
\* process and those a whole cycle of numbers old.
THEOREM RecordProven == Spec => RecordIsProven
<1>1. ProbeInv /\ [Next]_vars =>
        [\A t \in Targets, f \in Families :
            /\ result'[t][f] # result[t][f] /\ result'[t][f] = "REPLY" =>
                \E a \in air : /\ a.of.kind = "echo" /\ a.of.family = f
                               /\ a.of.to = address[t][f] /\ (Meant(a, t, f) \/ Repeated(a))
            /\ address'[t][f] # address[t][f] =>
                \E a \in air : /\ a.says = address'[t][f] /\ a.of.family = f
                               /\ (Meant(a, t, f) \/ Repeated(a))]_vars
    BY ProvenStep
<1> QED  BY <1>1, ProbeInvariant, PTL DEF Spec, RecordIsProven

LEMMA EvidenceStep ==
    ASSUME ProbeInv, [Next]_vars, NEW t \in Targets, NEW f \in Families
    PROVE  LET new      == address'[t][f] # address[t][f]
               sent(to) == \E x \in pcap.frames : x.family = f /\ x.says = None /\ x.to = to
               taken(to, says) ==
                   \E x \in pcap.frames \cup pcap.side : x.family = f /\ x.says = says /\ x.to = to
               reports(r) == result'[t][f] # result[t][f] /\ result'[t][f] = r
           IN  \/ pcap.torn
               \/ /\ reports("TIMEOUT") \/ reports("REPLY") => sent(address[t][f])
                  /\ reports("REPLY") => taken(address[t][f], "reply")
                  /\ new => \E to \in ToSet(Servers) : sent(to) /\ taken(to, address'[t][f])
                  /\ \A x \in pcap.frames : x.link = pcap.link
                  /\ \A x \in pcap.side : x.link # pcap.link
<1> DEFINE new      == address'[t][f] # address[t][f]
           sent(to) == \E x \in pcap.frames : x.family = f /\ x.says = None /\ x.to = to
           taken(to, says) ==
               \E x \in pcap.frames \cup pcap.side : x.family = f /\ x.says = says /\ x.to = to
           reports(r) == result'[t][f] # result[t][f] /\ result'[t][f] = r
<1>1. \A to : Sent(f, to) => sent(to)  BY DEF Sent
<1>2. \A to, says : Taken(f, to, says) => taken(to, says)  BY DEF Taken
<1> HIDE DEF sent, taken
<1>3. /\ \A x \in pcap.frames : x.link = pcap.link
      /\ \A x \in pcap.side : x.link # pcap.link
    BY DEF ProbeInv, LinkInv, LinkOk
<1> SUFFICES ASSUME ~pcap.torn
             PROVE  /\ reports("TIMEOUT") \/ reports("REPLY") => sent(address[t][f])
                    /\ reports("REPLY") => taken(address[t][f], "reply")
                    /\ new => \E to \in ToSet(Servers) : sent(to) /\ taken(to, address'[t][f])
    BY <1>3 DEF sent, taken
<1>4. ASSUME NEW r \in {"TIMEOUT", "REPLY"}, reports(r)
      PROVE  /\ sent(address[t][f])
             /\ r = "REPLY" => taken(address[t][f], "reply")
  <2>1. pc = "record" /\ t = job.target /\ f = job.family /\ job.outcome = r
      BY <1>4, RecordedBy
  <2>2. /\ Sent(f, address[t][f])
        /\ r = "REPLY" => Taken(f, address[t][f], "reply")
      BY <2>1 DEF ProbeInv, EvidenceInv
  <2> QED  BY <1>1, <1>2, <2>2
<1>5. ASSUME new PROVE \E to \in ToSet(Servers) : sent(to) /\ taken(to, address'[t][f])
  <2>1. pc = "apply" /\ job.found[f] # None /\ address'[t][f] = job.found[f]
      BY <1>5, AppliedBy
  <2>2. PICK to \in ToSet(Servers) : Sent(f, to) /\ Taken(f, to, job.found[f])
      BY <2>1 DEF ProbeInv, EvidenceInv
  <2> QED  BY <1>1, <1>2, <2>1, <2>2
<1> QED  BY <1>4, <1>5

\* What is recorded can be read again from the packets kept: the request and the answer
\* are in the capture file, or the answer in its sibling, unless writing them failed.
THEOREM EvidenceComplete == Spec => EvidenceIsComplete
<1>1. ProbeInv /\ [Next]_vars =>
        [\A t \in Targets, f \in Families :
            LET new      == address'[t][f] # address[t][f]
                sent(to) == \E x \in pcap.frames : x.family = f /\ x.says = None /\ x.to = to
                taken(to, says) ==
                    \E x \in pcap.frames \cup pcap.side :
                        x.family = f /\ x.says = says /\ x.to = to
                reports(r) == result'[t][f] # result[t][f] /\ result'[t][f] = r
            IN  \/ pcap.torn
                \/ /\ reports("TIMEOUT") \/ reports("REPLY") => sent(address[t][f])
                   /\ reports("REPLY") => taken(address[t][f], "reply")
                   /\ new => \E to \in ToSet(Servers) : sent(to) /\ taken(to, address'[t][f])
                   /\ \A x \in pcap.frames : x.link = pcap.link
                   /\ \A x \in pcap.side : x.link # pcap.link]_vars
    BY EvidenceStep
<1> QED  BY <1>1, ProbeInvariant, PTL DEF Spec, EvidenceIsComplete
===============================================================================
