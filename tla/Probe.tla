--------------------------------- MODULE Probe ---------------------------------
(***************************************************************************)
(* ping and resolve from the inside: ICMP4 of src/network/ping/ksping.c,   *)
(* ksping6 of ksping6.c and dns_query, profile_query and resolve_target of *)
(* src/network/resolve/kresolve.c, on the wire layer of                    *)
(* src/network/scan/kwire.h.  A command sends one echo request, or asks    *)
(* the servers of the profile for the addresses of both families, each     *)
(* some times; it listens until the answer or a deadline, and keeps what   *)
(* it sent and took in a capture file of its own.  An answer may be        *)
(* captured at any time after its request, again, or never; the answers    *)
(* nobody waits for any more are told apart by numbers that wrap around    *)
(* and begin anew with the process.                                        *)
(*                                                                         *)
(* Frames that answer nothing the program sent are skipped by every        *)
(* receive loop and are no step here.  A host name that is an address, a   *)
(* target without what the command needs and a runtime that is offline     *)
(* send nothing; they are in Shell, as is the file the petal is written    *)
(* to.  Why an echo request could not be sent is left out.                 *)
(***************************************************************************)
EXTENDS Naturals, Sequences, FiniteSets, SequencesExt

CONSTANTS
    Targets,
    Addresses,
    None,         \* no address, and no answer yet
    Servers,      \* the DNS servers of the profile that are set, in order
    Retries,      \* dns_retries
    EchoNumbers,  \* values of KSPING4_SEQUENCE and of KSPING6_SEQUENCE: 2^16
    DnsNumbers,   \* values of DNS_ID: 2^16
    DnsPorts,     \* source ports DNS_SOURCE_PORT runs through: 16384
    MaxCommands,  \* bound: commands, a resolution counting for two
    MaxAnswers,   \* bound: answers of hosts and servers
    MaxRestarts,  \* bound: times the program is started again
    MaxFaults     \* bound: failing calls

ASSUME NoneAssumption == None \notin Addresses \cup {"none", "error"}
ASSUME ServersAssumption ==
    Servers \in Seq(ToSet(Servers)) /\ Len(Servers) \in 0..2 /\ Retries \in Nat
ASSUME NumbersAssumption ==
    EchoNumbers \in Nat \ 0..1 /\ DnsNumbers \in Nat \ 0..1 /\ DnsPorts \in Nat \ {0}
ASSUME BoundsAssumption == {MaxCommands, MaxAnswers, MaxRestarts, MaxFaults} \subseteq Nat

Families == {"v4", "v6"}
Links == {"ethernet", "raw ipv4"}

VARIABLES
    pc,        \* idle; send, receive, record for ping; and for resolve: query, listen, apply
    job,       \* what the command is about and how far it is
    probe,     \* the request at hand
    echo,      \* KSPING4_SEQUENCE and KSPING6_SEQUENCE
    dns,       \* DNS_ID, and DNS_SOURCE_PORT from 49151
    address,   \* of the target and family, in its petal
    result,    \* and what its last ping was recorded as
    pcap,      \* KWIRE_ACTIVE_PCAP and its siblings
    air,       \* the answers that were sent
    counts,    \* commands, processes and requests of this process so far
    faults

petal == <<address, result>>
vars == <<pc, job, probe, echo, dns, petal, pcap, air, counts, faults>>

Fault == faults < MaxFaults /\ faults' = faults + 1

Idle == [kind |-> "idle"]
NoFile == [link |-> "ethernet", frames |-> {}, side |-> {}, torn |-> FALSE]
NoRequests == [v4 |-> 0, v6 |-> 0, query |-> 0]

Init ==
    /\ pc = "idle" /\ job = Idle /\ probe = Idle
    /\ echo = [f \in Families |-> 0] /\ dns = [id |-> 0, port |-> 0]
    /\ address \in [Targets -> [Families -> Addresses \cup {None}]]
    /\ result = [t \in Targets |-> [f \in Families |-> "NEVER"]]
    /\ pcap = NoFile /\ air = {}
    /\ counts = [command |-> 0, process |-> 1, sent |-> NoRequests] /\ faults = 0

-------------------------------------------------------------------------------
(* The capture file.  Its header has one link type for all its frames.     *)

\* kwire_pcap_set_network: it can be changed while the file has no frame.
CanTake(file, link) == file.frames = {} \/ file.link = link

\* A packet, sent or taken, of an exchange of this command: says is what was answered.
Frame(of, says, link) == [family |-> of.family, to |-> of.to, says |-> says, link |-> link]

\* kwire_pcap_packet, behind kwire_pcap_set_network.
Packet(file, frame) == [file EXCEPT !.link = frame.link, !.frames = @ \cup {frame}]

\* A write fails or is cut short; what was sent or taken is not, or not wholly, in it.
Torn(file) == [file EXCEPT !.torn = TRUE]

\* Mutant: what does not fit into the file is dropped.
Accepted_Dropped(file, frame) ==
    IF CanTake(file, frame.link) THEN Packet(file, frame) ELSE file

\* kwire_rx_accept, with kwire_pcap_alternate_rx: what came over another kind of link than
\* the file's goes to a sibling.
Accepted(file, frame) ==
    IF CanTake(file, frame.link) THEN Packet(file, frame)
    ELSE [file EXCEPT !.side = @ \cup {frame}]

-------------------------------------------------------------------------------
(* Requests and answers.                                                   *)

\* The next number: zero is never used.
Following(n, size) == IF n + 1 = size THEN 1 ELSE n + 1

\* A request: for whom, to where, under which number; and, for the properties, of which
\* command and process, and the how manieth of its kind.
Request(kind, t, f, to, number, n) ==
    [kind |-> kind, target |-> t, family |-> f, to |-> to, number |-> number,
     command |-> counts'.command, process |-> counts.process, n |-> n]

\* IPv6 has no link but Ethernet; the servers are IPv4 hosts.
LinksOf(of) == IF of.kind = "echo" /\ of.family = "v6" THEN {"ethernet"} ELSE Links

\* What may be answered to a request: a reply; an address, that there is none, or
\* something that is of no use (a truncated or malformed answer, another response code).
AnswersTo(of) ==
    [of : {of}, says : IF of.kind = "echo" THEN {"reply"} ELSE Addresses \cup {"none", "error"}]

Answered(of) ==
    \/ UNCHANGED air
    \/ Cardinality(air) < MaxAnswers /\ \E a \in AnswersTo(of) : air' = air \cup {a}

\* kwire_write: the status the caller gets.  What went out and could not be put on record,
\* or does not fit into the file, is an error too, and may be answered.
Write(of, ok) ==
    \/ ~ok /\ UNCHANGED <<air, pcap, faults>>
    \/ /\ Answered(of)
       /\ \E link \in LinksOf(of) :
            IF CanTake(pcap, link)
            THEN \/ ok /\ pcap' = Packet(pcap, Frame(of, None, link)) /\ UNCHANGED faults
                 \/ ~ok /\ Fault /\ pcap' \in {pcap, Torn(pcap)}
            ELSE ~ok /\ UNCHANGED <<pcap, faults>>

\* Mutant: whatever number.
Matches_Any(a) ==
    a.of.kind = probe.kind /\ a.of.to = probe.to
    /\ (probe.kind = "echo" => a.of.family = probe.family)

\* The receive loops: the source, the protocol and the numbers.  What was asked is not
\* compared.
Matches(a) == Matches_Any(a) /\ a.of.number = probe.number

\* A frame is taken, and put on record unless that fails, which nobody is told.
Take(a) ==
    /\ a \in air /\ Matches(a)
    /\ \/ /\ \E link \in LinksOf(probe) : pcap' = Accepted(pcap, Frame(probe, a.says, link))
          /\ UNCHANGED faults
       \/ pcap' = Torn(pcap) /\ Fault
    /\ UNCHANGED air

-------------------------------------------------------------------------------
(* ping: ICMP4 and ksping6.                                                *)

\* The command: the next number, and the capture file, without which nothing is sent.
Ping ==
    /\ pc = "idle" /\ counts.command < MaxCommands
    /\ \E t \in Targets, f \in Families :
        LET seq == Following(echo[f], EchoNumbers)
            n   == counts.sent[f] + 1
        IN  /\ address[t][f] # None
            /\ counts' = [counts EXCEPT !.command = @ + 1, !.sent[f] = n]
            /\ echo' = [echo EXCEPT ![f] = seq]
            /\ \/ /\ pc' = "send"
                  /\ job' = [kind |-> "ping", target |-> t, family |-> f, outcome |-> None]
                  /\ probe' = Request("echo", t, f, address[t][f], <<seq>>, n)
                  /\ UNCHANGED faults
               \/ Fault /\ UNCHANGED <<pc, job, probe>>
    /\ UNCHANGED <<dns, petal, pcap, air>>

Outcome(r) ==
    /\ pc' = "record" /\ job' = [job EXCEPT !.outcome = r]
    /\ UNCHANGED <<echo, dns, petal, counts>>

\* The request goes out and the deadline begins, or ERROR is recorded.
Send ==
    /\ pc = "send"
    /\ \/ Write(probe, TRUE) /\ pc' = "receive" /\ UNCHANGED <<job, echo, dns, petal, counts>>
       \/ Write(probe, FALSE) /\ Outcome("ERROR")
    /\ UNCHANGED probe

Receive ==
    /\ pc = "receive" /\ \E a \in air : Take(a)
    /\ Outcome("REPLY") /\ UNCHANGED probe

\* The deadline has passed; the clock or the capture fails.
NoReply ==
    /\ pc = "receive"
    /\ \/ Outcome("TIMEOUT") /\ UNCHANGED faults
       \/ Outcome("ERROR") /\ Fault
    /\ UNCHANGED <<probe, pcap, air>>

Ends == pc' = "idle" /\ job' = Idle /\ probe' = Idle /\ pcap' = NoFile

\* kscan_record_icmpv4 and v6: a result that could not be written is taken back.
RecordResult ==
    /\ pc = "record" /\ Ends
    /\ \/ result' = [result EXCEPT ![job.target][job.family] = job.outcome] /\ UNCHANGED faults
       \/ UNCHANGED result /\ Fault
    /\ UNCHANGED <<echo, dns, address, air, counts>>

-------------------------------------------------------------------------------
(* resolve: resolve_target, profile_query and dns_query.                   *)

\* The command opens one capture file for all its queries.
Resolve ==
    /\ pc = "idle" /\ counts.command + 2 <= MaxCommands
    /\ counts' = [counts EXCEPT !.command = @ + 2]
    /\ \/ \E t \in Targets :
            /\ pc' = IF Servers = << >> THEN "apply" ELSE "query"
            /\ job' = [kind |-> "resolve", target |-> t,
                       family |-> "v4", server |-> 1, attempt |-> 0,
                       found |-> [f \in Families |-> None],
                       asked |-> [f \in Families |-> [i \in DOMAIN Servers |-> 0]]]
            /\ UNCHANGED faults
       \/ Fault /\ UNCHANGED <<pc, job>>
    /\ UNCHANGED <<probe, echo, dns, petal, pcap, air>>

\* Mutant: the first server that fails ends it.
NextAsked_Hasty(status) ==
    IF status = "ERROR" /\ job.attempt < Retries
    THEN [family |-> job.family, server |-> job.server, attempt |-> job.attempt + 1]
    ELSE [family |-> "v6", server |-> 1, attempt |-> 0]

\* Whom profile_query asks next: after an error or a timeout the same server, as often as
\* the profile says, then the other; and then for the other family.
NextAsked(status) ==
    IF status = "ERROR" /\ job.attempt >= Retries /\ job.server < Len(Servers)
    THEN [family |-> job.family, server |-> job.server + 1, attempt |-> 0]
    ELSE NextAsked_Hasty(status)

\* What a query came to.
Came(status, says) ==
    LET next == NextAsked(status)
        last == next.server = 1 /\ next.attempt = 0 /\ job.family = "v6"
    IN  /\ pc' = IF last THEN "apply" ELSE "query"
        /\ job' = [job EXCEPT
                    !.family = next.family, !.server = next.server, !.attempt = next.attempt,
                    !.asked[job.family][job.server] = @ + 1,
                    !.found[job.family] = IF status = "OK" THEN says ELSE @]
        /\ probe' = Idle

\* dns_query up to its receive loop.  The numbers are used up whatever follows; the
\* deadline begins first, and may fail to.
Query ==
    /\ pc = "query"
    /\ dns' = [id |-> Following(dns.id, DnsNumbers), port |-> Following(dns.port, DnsPorts + 1)]
    /\ counts' = [counts EXCEPT !.sent.query = @ + 1]
    /\ LET of == Request("query", job.target, job.family, Servers[job.server],
                         <<dns'.id, dns'.port>>, counts'.sent.query)
       IN  \/ Write(of, TRUE) /\ pc' = "listen" /\ probe' = of /\ UNCHANGED job
           \/ Write(of, FALSE) /\ Came("ERROR", None)
           \/ Fault /\ Came("ERROR", None) /\ UNCHANGED <<air, pcap>>
    /\ UNCHANGED <<echo, petal>>

\* parse_answer: an answer to the question for the other family has no address of this one.
Parsed(a) ==
    CASE a.says = "error" -> "ERROR"
      [] a.says \in Addresses /\ a.of.family = job.family -> "OK"
      [] OTHER -> "NOT_FOUND"

Listen ==
    /\ pc = "listen"
    /\ \/ \E a \in air : Take(a) /\ Came(Parsed(a), a.says)
       \/ Came("ERROR", None) /\ UNCHANGED <<air, pcap, faults>>        \* the deadline
       \/ Came("ERROR", None) /\ Fault /\ UNCHANGED <<air, pcap>>       \* clock, capture
    /\ UNCHANGED <<echo, dns, petal, counts>>

\* The file is closed; the addresses found replace those of the target, and are saved if
\* that changed something.  One that is not saved is lost, unless the target is the one of
\* the context.
ApplyFound ==
    /\ pc = "apply" /\ Ends
    /\ LET new == [f \in Families |-> IF job.found[f] = None THEN address[job.target][f]
                                      ELSE job.found[f]]
       IN  \/ address' = [address EXCEPT ![job.target] = new] /\ UNCHANGED faults
           \/ new # address[job.target] /\ UNCHANGED address /\ Fault
    /\ UNCHANGED <<echo, dns, result, air, counts>>

-------------------------------------------------------------------------------
\* The process ends in the middle of anything and is started again: the numbers begin anew.
Restart ==
    /\ counts.process <= MaxRestarts
    /\ Ends /\ counts' = [counts EXCEPT !.process = @ + 1, !.sent = NoRequests]
    /\ echo' = [f \in Families |-> 0] /\ dns' = [id |-> 0, port |-> 0]
    /\ UNCHANGED <<petal, air, faults>>

\* No command is given any more.
Done == pc = "idle" /\ counts.command + 1 >= MaxCommands /\ UNCHANGED vars

Next ==
    \/ Ping \/ Send \/ Receive \/ NoReply \/ RecordResult
    \/ Resolve \/ Query \/ Listen \/ ApplyFound
    \/ Restart \/ Done

Spec == Init /\ [][Next]_vars

-------------------------------------------------------------------------------
(* Properties.                                                             *)

\* An answer to this very command, and about the target and family it is for.
Meant(a, t, f) ==
    a.of.command = counts.command /\ a.of.target = t /\ a.of.family = f

\* An answer that carries the numbers of a request of this command although it is to
\* another: one of an earlier process, or of one a whole cycle of its numbers ago.
OneCycle(of, n) ==
    /\ n > of.n
    /\ IF of.kind = "echo" THEN (n - of.n) % (EchoNumbers - 1) = 0
       ELSE (n - of.n) % (DnsNumbers - 1) = 0 /\ (n - of.n) % DnsPorts = 0
Repeated(a) ==
    \/ a.of.process # counts.process
    \/ \E n \in 1..counts.sent[IF a.of.kind = "echo" THEN a.of.family ELSE "query"] :
            OneCycle(a.of, n)

\* A target is recorded as having replied, or gets an address, only by an answer to the
\* request that was sent for it now, for this family; not by one to an earlier request,
\* to another target or for the other family, however late.  The exceptions are answers of
\* an earlier process and those a whole cycle of numbers old.
RecordIsProven ==
    [][\A t \in Targets, f \in Families :
        /\ result'[t][f] # result[t][f] /\ result'[t][f] = "REPLY" =>
            \E a \in air : /\ a.of.kind = "echo" /\ a.of.family = f
                           /\ a.of.to = address[t][f] /\ (Meant(a, t, f) \/ Repeated(a))
        /\ address'[t][f] # address[t][f] =>
            \E a \in air : /\ a.says = address'[t][f] /\ a.of.family = f
                           /\ (Meant(a, t, f) \/ Repeated(a))]_vars

\* What is recorded can be read again from the packets kept: the request and the answer
\* are in the capture file, or the answer in its sibling, each under a header of its own
\* kind of link, unless writing them failed.
EvidenceIsComplete ==
    [][\A t \in Targets, f \in Families :
        LET new      == address'[t][f] # address[t][f]
            sent(to) == \E x \in pcap.frames : x.family = f /\ x.says = None /\ x.to = to
            taken(to, says) ==
                \E x \in pcap.frames \cup pcap.side : x.family = f /\ x.says = says /\ x.to = to
            reports(r) == result'[t][f] # result[t][f] /\ result'[t][f] = r
        IN  \/ pcap.torn
            \/ /\ reports("TIMEOUT") \/ reports("REPLY") => sent(address[t][f])
               /\ reports("REPLY") => taken(address[t][f], "reply")
               /\ new => \E to \in ToSet(Servers) : sent(to) /\ taken(to, address'[t][f])
               /\ \A x \in pcap.frames : x.link = pcap.link
               /\ \A x \in pcap.side : x.link # pcap.link]_vars

\* A family of a target is left without a new address only when a server said that there
\* is none, or when every server of the profile was asked as often as it says.
FallbackIsComplete ==
    pc = "apply" =>
    \A f \in Families :
        \/ job.found[f] # None
        \/ \A i \in DOMAIN Servers : job.asked[f][i] = Retries + 1
        \/ \E a \in air : /\ a.of.kind = "query"
                          /\ \/ Meant(a, job.target, f) /\ a.says = "none"
                             \/ Repeated(a)
===============================================================================
