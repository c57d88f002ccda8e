------------------------------ MODULE PortDisplay ------------------------------
(***************************************************************************)
(* The readers of .ports, over the scanner that writes it.  Two functions  *)
(* of the code decide independently what the file says of a port: the      *)
(* filter behind `targets display -p` and `-b` (kportselect) and the table *)
(* that is then printed (kportdisplay, with its display policy).  Each     *)
(* folds over the lines of the file in file order; a line older than what  *)
(* its slot already holds is skipped.                                      *)
(***************************************************************************)
EXTENDS PortScan

CONSTANT TableLimit   \* KPORTDISPLAY_TABLE_LIMIT: rows printed, but for the exempt

ASSUME TableLimitAssumption == TableLimit \in Nat \ {0}

\* The lines that reached .ports, by their numbers.
Lines == {i \in DOMAIN rows : rows[i].kept}

-------------------------------------------------------------------------------
(* kportselect_file_has_open_tcp_ports                                     *)

\* Mutant: of two lines with the same time the first one stays.
SelectLine_Strict(ports, acc, r) ==
    LET s == <<r.fam, r.port>>
    IN  IF r.proto # "TCP" \/ r.port \notin ports \/ acc[s].ts >= r.ts THEN acc
        ELSE [acc EXCEPT ![s] = [ts |-> r.ts, state |-> r.state]]

\* One line: skipped unless it is TCP, asked for, and not older than its slot.
SelectLine(ports, acc, r) ==
    LET s == <<r.fam, r.port>>
    IN  IF r.proto # "TCP" \/ r.port \notin ports \/ acc[s].ts > r.ts THEN acc
        ELSE [acc EXCEPT ![s] = [ts |-> r.ts, state |-> r.state]]

\* The slots after the first n lines.
Selection(ports) ==
    LET table[n \in 0 .. Len(rows)] ==
            IF n = 0 THEN [s \in Families \X Port |-> [ts |-> 0, state |-> "UNKNOWN"]]
            ELSE IF n \in Lines THEN SelectLine(ports, table[n - 1], rows[n])
            ELSE table[n - 1]
    IN  table

HasOpenTcpPorts(ports) ==
    \E s \in Families \X Port : Selection(ports)[Len(rows)][s].state = "OPEN"

-------------------------------------------------------------------------------
(* kportdisplay_target.  A slot has the newest line of its protocol,       *)
(* family and port, and on the side the newest SYN+ACK.                    *)

Slots == Protocols \X Families \X Port
EmptySlot == [present |-> FALSE, ts |-> 0, state |-> "UNKNOWN", evidence |-> "NONE",
              rx |-> FALSE, synack |-> FALSE, synackTs |-> 0, synackRx |-> FALSE, prior |-> FALSE]

\* kportfilter_slot_included; no filter is {}, as an empty one displays nothing.
Included(filter, r) == filter = {} \/ (r.proto = "TCP" /\ r.port \in filter)

IsTcpSynAck(pr, slot) == pr = "TCP" /\ slot.state = "OPEN" /\ slot.evidence = "SYN_ACK"
IsSynAck(r) == IsTcpSynAck(r.proto, r)

NoteSynAck(slot, r) ==
    IF IsSynAck(r) /\ (~slot.synack \/ slot.synackTs <= r.ts)
    THEN [slot EXCEPT !.synack = TRUE, !.synackTs = r.ts, !.synackRx = r.rx]
    ELSE slot

\* Mutant: the comparison of the times is the wrong way round.
NoteLine_Oldest(slot, r) ==
    IF slot.present /\ slot.ts < r.ts THEN slot
    ELSE [slot EXCEPT !.present = TRUE, !.ts = r.ts, !.state = r.state,
                      !.evidence = r.evidence, !.rx = r.rx]

NoteLine(slot, r) ==
    IF slot.present /\ slot.ts > r.ts THEN slot
    ELSE [slot EXCEPT !.present = TRUE, !.ts = r.ts, !.state = r.state,
                      !.evidence = r.evidence, !.rx = r.rx]

\* Mutant: an out-of-date line is skipped before its SYN+ACK is noted.
DisplayLine_SkipsFirst(filter, acc, r) ==
    LET s == <<r.proto, r.fam, r.port>>
    IN  IF ~Included(filter, r) \/ (acc[s].present /\ acc[s].ts > r.ts) THEN acc
        ELSE [acc EXCEPT ![s] = NoteLine(NoteSynAck(@, r), r)]

DisplayLine(filter, acc, r) ==
    IF ~Included(filter, r) THEN acc
    ELSE [acc EXCEPT ![<<r.proto, r.fam, r.port>>] = NoteLine(NoteSynAck(@, r), r)]

\* kportdisplay_policy.h
IsNegative(state) == state \in {"CLOSED", "FILTERED", "OPEN_FILTERED"}
UsesPrior(pr, slot) == pr = "TCP" /\ slot.synack /\ slot.state # "OPEN"
Visible(pr, slot) == ~IsNegative(slot.state) \/ UsesPrior(pr, slot)

\* The render pass: hide what has no positive evidence, put the last SYN+ACK in place
\* of what came after it, and in observed mode hide what no frame answered.
Render(pr, slot, observed) ==
    LET shown == [slot EXCEPT !.present = @ /\ Visible(pr, slot)]
        past  == [shown EXCEPT !.prior = TRUE, !.ts = slot.synackTs, !.rx = slot.synackRx,
                               !.state = "OPEN", !.evidence = "SYN_ACK"]
        final == IF shown.present /\ UsesPrior(pr, slot) THEN past ELSE shown
    IN  [final EXCEPT !.present = @ /\ (observed => final.rx)]

\* The slots after the first n lines.
Table(filter) ==
    LET table[n \in 0 .. Len(rows)] ==
            IF n = 0 THEN [s \in Slots |-> EmptySlot]
            ELSE IF n \in Lines THEN DisplayLine(filter, table[n - 1], rows[n])
            ELSE table[n - 1]
    IN  table

\* The slots as the render pass leaves them.
Rendered(filter, observed) ==
    LET slots == Table(filter)[Len(rows)]
    IN  [s \in Slots |-> Render(s[1], slots[s], observed)]

\* The order of the table: TCP before UDP, then by port, then by family.  What is left to
\* print is OPEN or ERROR, all of the first priority (kportdisplay_slot_priority).
Before(s, t) ==
    \/ s[1] = "TCP" /\ t[1] = "UDP"
    \/ s[1] = t[1] /\ s[3] < t[3]
    \/ s[1] = t[1] /\ s[3] = t[3] /\ s[2] = "v4" /\ t[2] = "v6"

RowsBefore(slots, s) == Cardinality({t \in Slots : slots[t].present /\ Before(t, s)})

\* A full table takes no more rows, except those of a TCP SYN+ACK.
Printed(slots, s) == RowsBefore(slots, s) < TableLimit \/ IsTcpSynAck(s[1], slots[s])

\* The table that is printed; present means that the slot has its row.
Display(filter, observed) ==
    LET slots == Rendered(filter, observed)
    IN  [s \in Slots |-> [slots[s] EXCEPT !.present = @ /\ Printed(slots, s)]]

\* kportdisplay_has_observed
HasObserved == \E i \in Lines : rows[i].rx

-------------------------------------------------------------------------------
(* What the readers promise.                                               *)

\* README:759 promises that -p keeps a target when a selected TCP port is OPEN in its
\* latest persisted result; the table it then prints must agree, port for port: a port
\* the filter finds open is printed plainly OPEN and no other is, even when the clock
\* was set back between two lines.
SelectMatchesDisplay ==
    \A ports \in (SUBSET Port) \ {{}} :
        HasOpenTcpPorts(ports) <=>
            \E fam \in Families, p \in ports :
                LET slot == Display(ports, FALSE)[<<"TCP", fam, p>>]
                IN  slot.present /\ slot.state = "OPEN" /\ ~slot.prior

\* A port that once answered SYN+ACK stays on display as OPEN, plainly or as prior,
\* whatever later scans, errors and clock steps append to the file; and the observed
\* mode, which selects targets by HasObserved, never prints an empty table for it.
SynAckStaysOnDisplay ==
    \A i \in Lines :
        IsSynAck(rows[i]) =>
            LET slot == Display({}, TRUE)[<<"TCP", rows[i].fam, rows[i].port>>]
            IN  HasObserved /\ slot.present /\ slot.state = "OPEN"

\* While the clock is never set back, plainly OPEN means that the last line of the port
\* says so: a newer CLOSED, FILTERED or ERROR demotes it.  And a port whose last line says
\* OPEN is printed so, unless it is UDP and a full table comes before it.
PlainOpenIsCurrent ==
    steps = 0 =>
      LET table == Display({}, FALSE)
          slots == Rendered({}, FALSE)
      IN  \A s \in Slots :
            LET mine   == {i \in Lines : <<rows[i].proto, rows[i].fam, rows[i].port>> = s}
                isOpen == \E i \in mine : rows[i].state = "OPEN" /\ \A j \in mine : j <= i
                shown  == table[s].present /\ table[s].state = "OPEN" /\ ~table[s].prior
            IN  /\ shown => isOpen
                /\ isOpen => shown \/ (s[1] = "UDP" /\ RowsBefore(slots, s) >= TableLimit)
===============================================================================
