------------------------------- MODULE UiChannel -------------------------------
(***************************************************************************)
(* What the user interface promises its callers, whatever threads carry    *)
(* it out: one ordered channel of events.  An event is accepted at the end *)
(* of the channel and handled from its front, each exactly once.  Only a   *)
(* scroll may be folded into the scroll it follows.  Once the channel is   *)
(* shut nothing joins it, and it opens again only when it is empty.  An    *)
(* event may skip the channel only when it would overtake nothing.         *)
(***************************************************************************)
EXTENDS Integers, Sequences

CONSTANTS Event, RowLimit

VARIABLES pending, handled, open

Clamp(rows) == IF rows > RowLimit THEN RowLimit
               ELSE IF rows < -RowLimit THEN -RowLimit ELSE rows

\* A wheel delta nobody waits for.
IsScroll(e) == e.type = "SCROLL" /\ ~e.sync

Scrolls == {[type |-> "SCROLL", rows |-> r, sync |-> FALSE] : r \in -RowLimit .. RowLimit}

\* q with e folded into its last event.
Folded(q, e) == [q EXCEPT ![Len(q)].rows = Clamp(@ + e.rows)]

Init == pending = << >> /\ handled = << >> /\ open \in BOOLEAN

Accept ==
    /\ open /\ pending' # << >>
    /\ LET e == pending'[Len(pending')]
       IN  e \in Event /\ pending' = Append(pending, e) /\ open' = (e.type # "STOP")
    /\ UNCHANGED handled

Fold(e) ==
    /\ open /\ pending # << >>
    /\ IsScroll(e) /\ IsScroll(pending[Len(pending)])
    /\ pending' = Folded(pending, e)
    /\ UNCHANGED <<handled, open>>

Handle ==
    /\ pending # << >>
    /\ handled' = Append(handled, Head(pending))
    /\ pending' = Tail(pending)
    /\ UNCHANGED open

HandleAtOnce ==
    /\ pending = << >> /\ handled' # << >>
    /\ LET e == handled'[Len(handled')]
       IN  e \in Event /\ handled' = Append(handled, e)
    /\ UNCHANGED <<pending, open>>

Shut   == open' = FALSE /\ UNCHANGED <<pending, handled>>
Reopen == pending = << >> /\ open' = TRUE /\ UNCHANGED <<pending, handled>>

Next == Accept \/ (\E e \in Scrolls : Fold(e)) \/ Handle \/ HandleAtOnce \/ Shut \/ Reopen

Spec == Init /\ [][Next]_<<pending, handled, open>>
===============================================================================
