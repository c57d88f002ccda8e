------------------------------- MODULE KuiProofs -------------------------------
(***************************************************************************)
(* What the interface satisfies for every number of producers, capacity of *)
(* the queue, number of calls and number of failures.                      *)
(***************************************************************************)
EXTENDS Kui, SequenceTheorems, TLAPS

-------------------------------------------------------------------------------
(* The inductive invariant.                                                *)

\* STOP is the last event of a queue, and no thread ends, nor is one missing, while
\* anything is queued.
StopIsLast ==
    /\ ~running => queue = << >> /\ \A p \in Producers : pc[p] = "idle"
    /\ renderer = "ended" => closed /\ queue = << >>
    /\ renderer = "handle" => current \in Event
    /\ renderer = "handle" /\ current.type = "STOP" => closed /\ queue = << >>
    /\ \A i \in DOMAIN queue : queue[i].type = "STOP" => closed /\ i = Len(queue)

\* What a producer posts is its own, and only the command thread stops the renderer.
CallsAreOwn ==
    \A p \in Producers :
        pc[p] # "idle" =>
            /\ pc[p] = "join" => p = Main
            /\ pc[p] # "join" => call[p] \in Event /\ call[p].by = p /\ call[p].n <= calls
            /\ pc[p] # "join" /\ call[p].type = "STOP" => p = Main /\ ui # "up"
            /\ pc[p] = "ack" => call[p].sync

\* From the moment it wants to until the renderer is joined, the command thread is in the
\* call that stops it.
MainStops ==
    ui # "up" /\ running =>
        /\ pc[Main] # "idle"
        /\ pc[Main] # "join" => call[Main].type = "STOP" /\ call[Main].sync

\* The events of one caller are in the order of its calls: in what was handled, in the
\* queue, and from the one to the other.
EventsInOrder ==
    /\ \A i, j \in DOMAIN handled :
         i < j /\ handled[i].by = handled[j].by => handled[i].n < handled[j].n
    /\ \A i, j \in DOMAIN queue :
         i < j /\ queue[i].by = queue[j].by => queue[i].n < queue[j].n
    /\ \A i \in DOMAIN handled, j \in DOMAIN queue :
         handled[i].by = queue[j].by => handled[i].n < queue[j].n
    /\ renderer = "handle" =>
         /\ \A i \in DOMAIN handled : handled[i].by = current.by => handled[i].n < current.n
         /\ \A j \in DOMAIN queue : current.by = queue[j].by => current.n < queue[j].n

\* The call a producer is in comes after all it has posted.
CallsComeLater ==
    /\ \A i \in DOMAIN handled : handled[i].n <= calls
    /\ \A i \in DOMAIN queue : queue[i].n <= calls
    /\ renderer = "handle" => current.n <= calls
    /\ \A p \in Producers : pc[p] \in {"post", "space"} =>
         /\ \A i \in DOMAIN handled : handled[i].by = p => handled[i].n < call[p].n
         /\ \A i \in DOMAIN queue : queue[i].by = p => queue[i].n < call[p].n
         /\ renderer = "handle" /\ current.by = p => current.n < call[p].n
    /\ \A p \in Producers : pc[p] = "ack" =>
         \A i \in DOMAIN queue : queue[i].by = p => queue[i].n <= call[p].n

\* An event somebody waits for is the call its caller is in.
Awaited(e) == pc[e.by] = "ack" /\ call[e.by] = e /\ ~acked[e.by]
AcksAreExact ==
    /\ \A i \in DOMAIN queue : queue[i].sync => Awaited(queue[i])
    /\ renderer = "handle" /\ current.sync => Awaited(current)
    /\ \A p \in Producers : pc[p] \in {"post", "space"} => ~acked[p]

KuiInv ==
    /\ TypeOK /\ StopIsLast /\ CallsAreOwn /\ MainStops /\ EventsInOrder
    /\ CallsComeLater /\ AcksAreExact /\ SyncIsBarrier

-------------------------------------------------------------------------------
(* The operators.                                                          *)

\* Folding a delta into the last event of a queue changes its rows only.
LEMMA FoldedKeeps ==
    ASSUME NEW q \in Seq(Event), q # << >>, NEW e \in Event, Channel!IsScroll(e)
    PROVE  /\ Channel!Folded(q, e) \in Seq(Event)
           /\ Len(Channel!Folded(q, e)) = Len(q)
           /\ DOMAIN Channel!Folded(q, e) = DOMAIN q
           /\ Channel!Folded(q, e) # << >>
           /\ \A i \in DOMAIN q : i # Len(q) => Channel!Folded(q, e)[i] = q[i]
           /\ \A i \in DOMAIN q :
                /\ Channel!Folded(q, e)[i].type = q[i].type
                /\ Channel!Folded(q, e)[i].by = q[i].by
                /\ Channel!Folded(q, e)[i].n = q[i].n
                /\ Channel!Folded(q, e)[i].sync = q[i].sync
<1> DEFINE L == Len(q)
           rows == Channel!Clamp(q[L].rows + e.rows)
           last == [q[L] EXCEPT !.rows = rows]
<1>1. L \in 1 .. Len(q) /\ DOMAIN q = 1 .. Len(q) /\ q[L] \in Event  OBVIOUS
<1>2. rows \in -RowLimit .. RowLimit
  <2>1. q[L].rows \in Int /\ e.rows \in Int  BY <1>1, RowAssumption DEF Event
  <2>2. q[L].rows + e.rows \in Int  BY <2>1
  <2> QED  BY <2>2, RowAssumption DEF Channel!Clamp
<1>3. last \in Event /\ last.type = q[L].type /\ last.by = q[L].by /\ last.n = q[L].n
         /\ last.sync = q[L].sync
  BY <1>1, <1>2 DEF Event
<1>4. Channel!Folded(q, e) = [q EXCEPT ![L] = last]  BY DEF Channel!Folded
<1>5. [q EXCEPT ![L] = last] \in Seq(Event) /\ Len([q EXCEPT ![L] = last]) = Len(q)
  BY <1>1, <1>3, ExceptSeq
<1> HIDE DEF last
<1>6. [q EXCEPT ![L] = last] # << >>  BY <1>1, <1>5
<1>7. /\ \A i \in DOMAIN q : i # L => [q EXCEPT ![L] = last][i] = q[i]
      /\ [q EXCEPT ![L] = last][L] = last
      /\ DOMAIN [q EXCEPT ![L] = last] = DOMAIN q
  BY <1>1
<1> QED  BY <1>1, <1>3, <1>4, <1>5, <1>6, <1>7

\* A woken producer goes back to look at the queue; nobody else notices.
LEMMA SpaceSignalled ==
    ASSUME TypeOK, SignalSpace
    PROVE  /\ pc' \in [Producers -> {"idle", "post", "space", "ack", "join"}]
           /\ \A p \in Producers :
                pc'[p] = pc[p] \/ (pc[p] = "space" /\ pc'[p] = "post")
BY DEF SignalSpace, SleepsOnSpace, TypeOK

\* What an event is.
LEMMA EventFields ==
    ASSUME NEW e \in Event
    PROVE  /\ e.type \in {"OUTPUT", "SCROLL", "STOP"} /\ e.by \in Producers
           /\ e.n \in 1 .. MaxCalls /\ e.n \in Nat /\ e.sync \in BOOLEAN
           /\ e.rows \in -RowLimit .. RowLimit
BY BoundsAssumption DEF Event

LEMMA NewCall ==
    ASSUME TypeOK, calls < MaxCalls, NEW p \in Producers
    PROVE  /\ \A e \in Calls(p) :
                e \in Event /\ e.by = p /\ e.n = calls + 1 /\ e.type # "STOP"
           /\ Call(p, "STOP", 0, TRUE) \in Event
           /\ Call(p, "STOP", 0, TRUE).by = p /\ Call(p, "STOP", 0, TRUE).n = calls + 1
           /\ Call(p, "STOP", 0, TRUE).sync
<1>1. calls + 1 \in 1 .. MaxCalls  BY BoundsAssumption DEF TypeOK
<1>2. 0 \in -RowLimit .. RowLimit /\ 1 \in -RowLimit .. RowLimit /\ -1 \in -RowLimit .. RowLimit
  BY RowAssumption
<1>3. ASSUME NEW t \in {"OUTPUT", "SCROLL", "STOP"}, NEW r \in -RowLimit .. RowLimit,
             NEW s \in BOOLEAN
      PROVE  /\ Call(p, t, r, s) \in Event /\ Call(p, t, r, s).by = p
             /\ Call(p, t, r, s).n = calls + 1 /\ Call(p, t, r, s).type = t
             /\ Call(p, t, r, s).sync = s
  BY <1>1 DEF Call, Event
<1>4. ASSUME NEW e \in Calls(p)
      PROVE  e \in Event /\ e.by = p /\ e.n = calls + 1 /\ e.type # "STOP"
  <2>1. \/ e = Call(p, "OUTPUT", 0, TRUE)
        \/ e = Call(p, "SCROLL", 1, FALSE)
        \/ e = Call(p, "SCROLL", -1, FALSE)
    BY <1>4 DEF Calls
  <2>2. "OUTPUT" # "STOP" /\ "SCROLL" # "STOP"  OBVIOUS
  <2>3. CASE e = Call(p, "OUTPUT", 0, TRUE)  BY <1>2, <1>3, <2>2, <2>3
  <2>4. CASE e = Call(p, "SCROLL", 1, FALSE)  BY <1>2, <1>3, <2>2, <2>4
  <2>5. CASE e = Call(p, "SCROLL", -1, FALSE)  BY <1>2, <1>3, <2>2, <2>5
  <2> QED  BY <2>1, <2>3, <2>4, <2>5
<1>5. /\ Call(p, "STOP", 0, TRUE) \in Event
      /\ Call(p, "STOP", 0, TRUE).by = p /\ Call(p, "STOP", 0, TRUE).n = calls + 1
      /\ Call(p, "STOP", 0, TRUE).sync
  BY <1>2, <1>3
<1> QED  BY <1>4, <1>5

\* What is known of everything in sight.
LEMMA Known ==
    ASSUME KuiInv
    PROVE  /\ \A i \in DOMAIN queue :
                queue[i] \in Event /\ queue[i].n \in Nat /\ queue[i].by \in Producers
           /\ \A i \in DOMAIN handled : handled[i] \in Event /\ handled[i].n \in Nat
           /\ renderer = "handle" =>
                current \in Event /\ current.n \in Nat /\ current.by \in Producers
           /\ \A p \in Producers : call[p] \in Event => call[p].n \in Nat
           /\ \A p \in Producers : pc[p] \in {"idle", "post", "space", "ack", "join"}
           /\ calls \in Nat
           /\ DOMAIN queue = 1 .. Len(queue) /\ Len(queue) \in Nat
<1> USE DEF KuiInv
<1>1. /\ \A i \in DOMAIN queue : queue[i] \in Event
      /\ \A i \in DOMAIN handled : handled[i] \in Event
      /\ renderer = "handle" => current \in Event
  BY DEF TypeOK, StopIsLast
<1> QED  BY <1>1, EventFields DEF TypeOK

\* One more element at the end of a sequence.
LEMMA Appended ==
    ASSUME NEW s \in Seq(Event), NEW e \in Event
    PROVE  /\ Append(s, e) \in Seq(Event) /\ Append(s, e) # << >>
           /\ Len(Append(s, e)) = Len(s) + 1 /\ Len(s) \in Nat
           /\ DOMAIN Append(s, e) = 1 .. Len(s) + 1 /\ DOMAIN s = 1 .. Len(s)
           /\ \A i \in DOMAIN s : Append(s, e)[i] = s[i] /\ i < Len(s) + 1 /\ i \in Nat
           /\ Append(s, e)[Len(s) + 1] = e
           /\ \A i \in DOMAIN Append(s, e) : i \in DOMAIN s \/ i = Len(s) + 1
<1>1. Len(s) \in Nat /\ DOMAIN s = 1 .. Len(s)  OBVIOUS
<1> QED  BY <1>1

-------------------------------------------------------------------------------
(* The steps.                                                              *)

LEMMA KuiInvInit == Init => KuiInv
<1> SUFFICES ASSUME Init PROVE KuiInv  OBVIOUS
<1>1. queue = << >> /\ handled = << >> /\ DOMAIN queue = {} /\ DOMAIN handled = {}
         /\ queue \in Seq(Event) /\ handled \in Seq(Event) /\ Len(queue) = 0
  BY DEF Init
<1>2. /\ running <=> renderer # "none"
      /\ running \in BOOLEAN /\ faults \in Nat
      /\ renderer \in {"none", "loop", "sleep", "handle", "ended"}
  <2>1. CASE running = TRUE /\ renderer = "loop" /\ faults = 0  BY <2>1
  <2>2. CASE running = FALSE /\ renderer = "none" /\ faults = 1  BY <2>2
  <2> QED  BY <2>1, <2>2 DEF Init
<1>3. /\ pc \in [Producers -> {"idle", "post", "space", "ack", "join"}]
      /\ call \in [Producers -> Event \cup {NoEvent}]
      /\ acked \in [Producers -> BOOLEAN]
      /\ current \in Event \cup {NoEvent}
      /\ closed \in BOOLEAN /\ calls \in Nat /\ ui \in {"up", "forking", "down"}
  BY DEF Init
<1>4. TypeOK  BY <1>1, <1>2, <1>3, CapacityAssumption DEF TypeOK
<1> QED
  BY <1>1, <1>4 DEF Init, KuiInv, StopIsLast, CallsAreOwn, MainStops, EventsInOrder,
     CallsComeLater, AcksAreExact, SyncIsBarrier

\* A call begins: its event comes after all there are.
LEMMA CallBegins ==
    ASSUME KuiInv, NEW p \in Producers, NEW e \in Event,
           pc[p] = "idle", ui = "up", running, e.by = p, e.n = calls + 1,
           pc' = [pc EXCEPT ![p] = "post"], call' = [call EXCEPT ![p] = e],
           acked' = [acked EXCEPT ![p] = FALSE], calls' = calls + 1, faults' \in Nat,
           ui' \in {"up", "forking", "down"}, e.type = "STOP" => p = Main /\ ui' # "up",
           ui' # "up" => p = Main /\ e.type = "STOP" /\ e.sync,
           UNCHANGED <<queue, closed, running, renderer, current, handled>>
    PROVE  KuiInv'
<1> USE DEF KuiInv
<1>1. /\ pc'[p] = "post" /\ call'[p] = e /\ acked'[p] = FALSE
      /\ \A q \in Producers : q # p => pc'[q] = pc[q] /\ call'[q] = call[q] /\ acked'[q] = acked[q]
  BY DEF TypeOK
<1>2. TypeOK'  BY DEF TypeOK
<1>3. calls \in Nat /\ \A q \in Producers : call[q] \in Event => call[q].n \in Nat
  BY EventFields DEF TypeOK
<1>4. /\ \A i \in DOMAIN queue : queue[i] \in Event
      /\ \A i \in DOMAIN handled : handled[i] \in Event
  BY DEF TypeOK
<1>5. /\ \A i \in DOMAIN queue : queue[i].n \in Nat /\ queue[i].by \in Producers
      /\ \A i \in DOMAIN handled : handled[i].n \in Nat
      /\ renderer = "handle" => current.n \in Nat /\ current.by \in Producers
  BY <1>4, EventFields DEF StopIsLast
<1>6. StopIsLast'  BY DEF StopIsLast
<1>7. CallsAreOwn'  BY <1>1, <1>3 DEF CallsAreOwn
<1>8. EventsInOrder' /\ MainStops'  BY <1>1 DEF EventsInOrder, MainStops, Producers
<1>9. CallsComeLater'  BY <1>1, <1>3, <1>5 DEF CallsComeLater
<1>10. AcksAreExact'  BY <1>1, <1>5 DEF AcksAreExact, Awaited
<1>11. SyncIsBarrier'  BY <1>1 DEF SyncIsBarrier
<1> QED  BY <1>2, <1>6, <1>7, <1>8, <1>9, <1>10, <1>11

LEMMA BeginKeeps ==
    ASSUME KuiInv, NEW p \in Producers, Begin(p)
    PROVE  KuiInv'
<1>1. calls < MaxCalls /\ TypeOK  BY DEF Begin, KuiInv
<1>2. ASSUME NEW e \in Calls(p), e.sync /\ Fault /\ UNCHANGED <<pc, call, acked>>
      PROVE  KuiInv'
  <2> USE DEF KuiInv
  <2>1. calls \in Nat /\ calls' = calls + 1 /\ faults' \in Nat
           /\ UNCHANGED <<queue, closed, running, ui, renderer, current, handled>>
    BY <1>2 DEF Begin, Fault, TypeOK
  <2>2. /\ \A i \in DOMAIN queue : queue[i] \in Event
        /\ \A i \in DOMAIN handled : handled[i] \in Event
        /\ renderer = "handle" => current \in Event
    BY DEF TypeOK, StopIsLast
  <2>3. /\ \A i \in DOMAIN queue : queue[i].n \in Nat
        /\ \A i \in DOMAIN handled : handled[i].n \in Nat
        /\ renderer = "handle" => current.n \in Nat
        /\ \A q \in Producers : call[q] \in Event => call[q].n \in Nat
    BY <2>2, EventFields
  <2>4. TypeOK'  BY <1>2, <2>1 DEF TypeOK
  <2>5. StopIsLast' /\ EventsInOrder' /\ AcksAreExact' /\ SyncIsBarrier' /\ MainStops'
    BY <1>2, <2>1 DEF StopIsLast, MainStops, EventsInOrder, AcksAreExact, Awaited, SyncIsBarrier
  <2>6. CallsAreOwn'  BY <1>2, <2>1, <2>3 DEF CallsAreOwn
  <2>7. CallsComeLater'  BY <1>2, <2>1, <2>3 DEF CallsComeLater
  <2> QED  BY <2>4, <2>5, <2>6, <2>7
<1>3. ASSUME NEW e \in Calls(p),
             pc' = [pc EXCEPT ![p] = "post"] /\ call' = [call EXCEPT ![p] = e]
               /\ acked' = [acked EXCEPT ![p] = FALSE] /\ UNCHANGED faults
      PROVE  KuiInv'
  <2>1. e \in Event /\ e.by = p /\ e.n = calls + 1 /\ e.type # "STOP"  BY <1>1, NewCall
  <2>2. pc[p] = "idle" /\ ui = "up" /\ running /\ calls' = calls + 1
           /\ UNCHANGED <<queue, closed, running, ui, renderer, current, handled>>
    BY DEF Begin, ThroughQueue
  <2>3. faults' \in Nat /\ ui' \in {"up", "forking", "down"}  BY <1>1, <1>3, <2>2 DEF TypeOK
  <2> QED  BY <1>3, <2>1, <2>2, <2>3, CallBegins
<1> QED  BY <1>2, <1>3 DEF Begin

\* Without a renderer nothing is queued, so the event is handled after all others.
LEMMA BeginDirectKeeps ==
    ASSUME KuiInv, BeginDirect
    PROVE  /\ KuiInv' /\ renderer = "none" /\ queue = << >>
           /\ \E e \in Event : handled' = Append(handled, e)
           /\ UNCHANGED <<queue, renderer, current, closed>>
<1> USE DEF KuiInv
<1>1. queue = << >> /\ ~running /\ calls < MaxCalls
  BY DEF BeginDirect, ThroughQueue, StopIsLast
<1>2. PICK e \in Calls(Main) :
         IF e.sync THEN handled' = Append(handled, e) /\ UNCHANGED queue
         ELSE /\ handled' = IF ~closed /\ Merges(queue, e)
                            THEN handled \o Channel!Folded(queue, e)
                            ELSE handled \o Append(queue, e)
              /\ queue' = << >>
  BY DEF BeginDirect
<1>3. e \in Event /\ e.by = Main /\ e.n = calls + 1  BY <1>1, NewCall DEF Producers
<1>4. handled \in Seq(Event)  BY DEF TypeOK
<1>5. handled \o Append(queue, e) = Append(handled, e)
  <2>1. Append(queue, e) = <<e>>  BY <1>1
  <2> QED  BY <1>3, <1>4, <2>1, AppendIsConcat
<1>6. handled' = Append(handled, e) /\ queue' = queue
  BY <1>1, <1>2, <1>5 DEF Merges
<1>7. calls' = calls + 1
         /\ UNCHANGED <<closed, running, ui, renderer, current, pc, call, acked, faults>>
  BY DEF BeginDirect
<1> HIDE DEF KuiInv
<1>8. TypeOK /\ StopIsLast /\ CallsAreOwn /\ MainStops /\ EventsInOrder /\ CallsComeLater
        /\ AcksAreExact /\ SyncIsBarrier
  BY DEF KuiInv
<1>9. renderer = "none" /\ \A p \in Producers : pc[p] = "idle"
  BY <1>1, <1>8 DEF TypeOK, StopIsLast
<1>10. TypeOK'
  <2>1. handled' \in Seq(Event) /\ calls' \in Nat
    BY <1>3, <1>4, <1>6, <1>7, <1>8, Known, Appended
  <2> QED  BY <1>6, <1>7, <1>8, <2>1 DEF TypeOK
<1>11. StopIsLast' /\ CallsAreOwn' /\ MainStops' /\ AcksAreExact' /\ SyncIsBarrier'
  BY <1>1, <1>6, <1>7, <1>8, <1>9
     DEF StopIsLast, CallsAreOwn, MainStops, AcksAreExact, SyncIsBarrier
<1>12. EventsInOrder'
  <2>1. \A i, j \in DOMAIN handled' :
           i < j /\ handled'[i].by = handled'[j].by => handled'[i].n < handled'[j].n
    <3> SUFFICES ASSUME NEW i \in DOMAIN handled', NEW j \in DOMAIN handled',
                        i < j, handled'[i].by = handled'[j].by
                 PROVE  handled'[i].n < handled'[j].n
      OBVIOUS
    <3>1. i \in DOMAIN handled  BY <1>3, <1>4, <1>6, Appended
    <3>2. CASE j \in DOMAIN handled
      BY <1>3, <1>4, <1>6, <1>8, <3>1, <3>2, Appended DEF EventsInOrder
    <3>3. CASE j = Len(handled) + 1
      BY <1>3, <1>4, <1>6, <1>8, <3>1, <3>3, Appended, Known DEF CallsComeLater
    <3> QED  BY <1>3, <1>4, <1>6, <3>2, <3>3, Appended
  <2> QED  BY <1>1, <1>6, <1>7, <1>9, <2>1 DEF EventsInOrder
<1>13. CallsComeLater'
  <2>1. \A i \in DOMAIN handled' : handled'[i].n <= calls'
    BY <1>3, <1>4, <1>6, <1>7, <1>8, Appended, Known DEF CallsComeLater
  <2> QED  BY <1>1, <1>6, <1>7, <1>9, <2>1 DEF CallsComeLater
<1>14. KuiInv'  BY <1>10, <1>11, <1>12, <1>13 DEF KuiInv
<1> QED  BY <1>1, <1>3, <1>6, <1>7, <1>9, <1>14

\* A producer that leaves its call, or moves within it, takes nothing with it.
LEMMA MoveKeeps ==
    ASSUME KuiInv, NEW p \in Producers, NEW next \in {"idle", "space", "join"},
           pc[p] \in {"post", "ack"}, pc[p] = "ack" => acked[p] /\ next # "space",
           next = "join" => call[p].type = "STOP",
           call[p].type = "STOP" => next # "idle",
           pc' = [pc EXCEPT ![p] = next],
           UNCHANGED <<queue, closed, running, ui, renderer, current, call, acked, handled,
                       calls, faults>>
    PROVE  KuiInv'
<1> USE DEF KuiInv
<1>1. pc'[p] = next /\ \A q \in Producers : q # p => pc'[q] = pc[q]  BY DEF TypeOK
<1>2. TypeOK'  BY DEF TypeOK
<1>3. StopIsLast'  BY DEF StopIsLast
<1>4. CallsAreOwn'  BY <1>1 DEF CallsAreOwn
<1>5. MainStops'  BY <1>1 DEF MainStops, Producers
<1>6. EventsInOrder'  BY DEF EventsInOrder
<1>7. CallsComeLater'  BY <1>1 DEF CallsComeLater
<1>8. AcksAreExact'
  <2>1. \A e \in Event : Awaited(e) => Awaited(e)'
    BY <1>1, EventFields DEF Awaited, AcksAreExact
  <2> QED  BY <1>1, <2>1, Known DEF AcksAreExact
<1>9. SyncIsBarrier'  BY <1>1 DEF SyncIsBarrier
<1> QED  BY <1>2, <1>3, <1>4, <1>5, <1>6, <1>7, <1>8, <1>9

LEMMA AcknowledgedKeeps ==
    ASSUME KuiInv, NEW p \in Producers, Acknowledged(p)
    PROVE  KuiInv'
<1> DEFINE next == IF call[p].type = "STOP" THEN "join" ELSE "idle"
<1>1. next \in {"idle", "space", "join"} /\ next # "space"
         /\ (next = "join" => call[p].type = "STOP") /\ (call[p].type = "STOP" => next # "idle")
  OBVIOUS
<1> HIDE DEF next
<1>2. pc[p] = "ack" /\ acked[p] /\ pc' = [pc EXCEPT ![p] = next]
  BY DEF Acknowledged, next
<1> QED  BY <1>1, <1>2, MoveKeeps DEF Acknowledged

\* A wheel delta folded into the last event stands where that event stood.
LEMMA MergeKeeps ==
    ASSUME KuiInv, NEW p \in Producers, pc[p] = "post", ~closed, Merges(queue, call[p]),
           queue' = Channel!Folded(queue, call[p]), pc' = [pc EXCEPT ![p] = "idle"],
           UNCHANGED <<closed, running, ui, renderer, current, call, acked, handled, calls,
                       faults>>
    PROVE  KuiInv'
<1> USE DEF KuiInv
<1>1. pc'[p] = "idle" /\ \A q \in Producers : q # p => pc'[q] = pc[q]  BY DEF TypeOK
<1>2. call[p] \in Event /\ call[p].type = "SCROLL" /\ queue # << >> /\ Channel!IsScroll(call[p])
         /\ queue \in Seq(Event) /\ running
  BY DEF CallsAreOwn, Merges, Channel!IsScroll, TypeOK, StopIsLast
<1>3. ~queue[Len(queue)].sync  BY DEF Merges, Channel!IsScroll
<1>4. /\ queue' \in Seq(Event) /\ Len(queue') = Len(queue)
      /\ DOMAIN queue' = DOMAIN queue /\ queue' # << >>
      /\ \A i \in DOMAIN queue : i # Len(queue) => queue'[i] = queue[i]
      /\ \A i \in DOMAIN queue :
           /\ queue'[i].type = queue[i].type /\ queue'[i].by = queue[i].by
           /\ queue'[i].n = queue[i].n /\ queue'[i].sync = queue[i].sync
  BY <1>2, FoldedKeeps
<1>5. TypeOK'  BY <1>4 DEF TypeOK
<1>6. StopIsLast'  BY <1>2, <1>4 DEF StopIsLast
<1>7. CallsAreOwn'  BY <1>1 DEF CallsAreOwn
<1>8. MainStops'  BY <1>1, <1>2 DEF MainStops, Producers
<1>9. EventsInOrder'
  <2>1. \A i, j \in DOMAIN queue' :
           i < j /\ queue'[i].by = queue'[j].by => queue'[i].n < queue'[j].n
    BY <1>4 DEF EventsInOrder
  <2>2. \A i \in DOMAIN handled', j \in DOMAIN queue' :
           handled'[i].by = queue'[j].by => handled'[i].n < queue'[j].n
    BY <1>4 DEF EventsInOrder
  <2>3. renderer' = "handle" =>
           \A j \in DOMAIN queue' : current'.by = queue'[j].by => current'.n < queue'[j].n
    BY <1>4 DEF EventsInOrder
  <2> QED  BY <2>1, <2>2, <2>3 DEF EventsInOrder
<1>10. CallsComeLater'  BY <1>1, <1>4 DEF CallsComeLater
<1>11. AcksAreExact'
  <2>1. \A e \in Event : Awaited(e) => Awaited(e)'
    BY <1>1, EventFields DEF Awaited, AcksAreExact
  <2>2. ASSUME NEW i \in DOMAIN queue', queue'[i].sync
        PROVE  queue'[i] \in Event /\ queue'[i] = queue[i] /\ Awaited(queue[i])
    BY <1>3, <1>4, <2>2, Known DEF AcksAreExact
  <2>3. ASSUME NEW i \in DOMAIN queue', queue'[i].sync
        PROVE  Awaited(queue[i])'
    <3>1. \E d \in Event : d = queue'[i] /\ Awaited(d)'  BY <2>1, <2>2, <2>3
    <3> QED  BY <3>1 DEF Awaited
  <2>4. ASSUME renderer = "handle", current.sync
        PROVE  Awaited(current)'
    <3>1. \E d \in Event : d = current' /\ Awaited(d)'  BY <2>1, <2>4, Known DEF AcksAreExact
    <3> QED  BY <3>1 DEF Awaited
  <2>5. \A q \in Producers : pc'[q] \in {"post", "space"} => ~acked'[q]
    BY <1>1 DEF AcksAreExact
  <2> QED  BY <2>3, <2>4, <2>5 DEF AcksAreExact, Awaited
<1>12. SyncIsBarrier'  BY <1>1, <1>4 DEF SyncIsBarrier
<1> QED  BY <1>5, <1>6, <1>7, <1>8, <1>9, <1>10, <1>11, <1>12

\* A posted event comes after all of its caller that are queued or handled; if its caller
\* waits for it, nobody else does.
LEMMA AppendKeeps ==
    ASSUME KuiInv, NEW p \in Producers, pc[p] = "post", ~closed, Len(queue) < Capacity,
           queue' = Append(queue, call[p]), WakeRenderer,
           closed' = (call[p].type = "STOP"),
           pc' = [q \in Producers |->
                    IF q = p THEN (IF call[p].sync THEN "ack" ELSE "idle")
                    ELSE IF q \in SleepsOnSpace /\ call[p].type = "STOP" THEN "post"
                    ELSE pc[q]],
           UNCHANGED <<running, ui, current, call, acked, handled, calls, faults>>
    PROVE  KuiInv'
<1> USE DEF KuiInv
<1> DEFINE e == call[p]
<1>1. /\ pc'[p] = IF e.sync THEN "ack" ELSE "idle"
      /\ \A q \in Producers : q # p => pc'[q] = pc[q] \/ (pc[q] = "space" /\ pc'[q] = "post")
      /\ pc' \in [Producers -> {"idle", "post", "space", "ack", "join"}]
  BY DEF TypeOK, SleepsOnSpace
<1>2. e \in Event /\ e.by = p /\ e.n <= calls /\ queue \in Seq(Event) /\ running /\ ~acked[p]
  BY DEF CallsAreOwn, StopIsLast, TypeOK, AcksAreExact
<1>3. e.type \in {"OUTPUT", "SCROLL", "STOP"} /\ e.n \in Nat /\ e.sync \in BOOLEAN
  BY <1>2, EventFields
<1>4. /\ queue' \in Seq(Event) /\ queue' # << >> /\ Len(queue') = Len(queue) + 1
      /\ Len(queue) \in Nat
      /\ \A i \in DOMAIN queue : queue'[i] = queue[i] /\ i < Len(queue) + 1 /\ i \in Nat
      /\ queue'[Len(queue) + 1] = e
      /\ \A i \in DOMAIN queue' : i \in DOMAIN queue \/ i = Len(queue) + 1
  BY <1>2, Appended
<1>5. /\ renderer' \in {"none", "loop", "sleep", "handle", "ended"}
      /\ renderer' = "handle" <=> renderer = "handle"
      /\ renderer' = "ended" <=> renderer = "ended"
      /\ renderer' = "none" <=> renderer = "none"
      /\ renderer # "ended"
  BY DEF WakeRenderer, TypeOK, StopIsLast
<1> HIDE DEF e
<1>6. TypeOK'
  <2>1. Len(queue') <= Capacity  BY <1>4, CapacityAssumption
  <2>2. closed' \in BOOLEAN  OBVIOUS
  <2>3. running' <=> renderer' # "none"  BY <1>5 DEF TypeOK
  <2> QED  BY <1>1, <1>4, <1>5, <2>1, <2>2, <2>3 DEF TypeOK
<1>7. StopIsLast'
  <2>1. \A i \in DOMAIN queue' : queue'[i].type = "STOP" => closed' /\ i = Len(queue')
    BY <1>4 DEF StopIsLast, e
  <2> QED  BY <1>2, <1>5, <2>1 DEF StopIsLast
<1>8. CallsAreOwn'  BY <1>1, <1>2, <1>3 DEF CallsAreOwn, e
<1>9. MainStops'
  <2>1. CASE p = Main  BY <1>1, <1>2, <2>1 DEF MainStops, e
  <2>2. CASE p # Main  BY <1>1, <2>2 DEF MainStops, Producers
  <2> QED  BY <2>1, <2>2
<1>10. EventsInOrder'
  <2>1. ASSUME NEW i \in DOMAIN queue', NEW j \in DOMAIN queue', i < j,
               queue'[i].by = queue'[j].by
        PROVE  queue'[i].n < queue'[j].n
    <3>1. CASE j \in DOMAIN queue
      <4>1. i \in DOMAIN queue  BY <1>4, <2>1, <3>1
      <4> QED  BY <1>4, <2>1, <3>1, <4>1 DEF EventsInOrder
    <3>2. CASE j = Len(queue) + 1
      <4>1. i \in DOMAIN queue  BY <1>4, <2>1, <3>2
      <4> QED  BY <1>2, <1>4, <2>1, <3>2, <4>1 DEF CallsComeLater, e
    <3> QED  BY <1>4, <3>1, <3>2
  <2>2. ASSUME NEW i \in DOMAIN handled, NEW j \in DOMAIN queue',
               handled[i].by = queue'[j].by
        PROVE  handled[i].n < queue'[j].n
    <3>1. CASE j \in DOMAIN queue  BY <1>4, <2>2, <3>1 DEF EventsInOrder
    <3>2. CASE j = Len(queue) + 1  BY <1>2, <1>4, <2>2, <3>2 DEF CallsComeLater, e
    <3> QED  BY <1>4, <3>1, <3>2
  <2>3. ASSUME renderer = "handle", NEW j \in DOMAIN queue', current.by = queue'[j].by
        PROVE  current.n < queue'[j].n
    <3>1. CASE j \in DOMAIN queue  BY <1>4, <2>3, <3>1 DEF EventsInOrder
    <3>2. CASE j = Len(queue) + 1  BY <1>2, <1>4, <2>3, <3>2 DEF CallsComeLater, e
    <3> QED  BY <1>4, <3>1, <3>2
  <2> QED  BY <1>5, <2>1, <2>2, <2>3 DEF EventsInOrder
<1>11. CallsComeLater'
  <2>1. \A i \in DOMAIN queue' : queue'[i].n <= calls  BY <1>2, <1>4 DEF CallsComeLater
  <2>2. ASSUME NEW q \in Producers, pc'[q] \in {"post", "space"}
        PROVE  q # p /\ pc[q] \in {"post", "space"}
    BY <1>1, <1>3, <2>2
  <2>3. \A q \in Producers : pc'[q] \in {"post", "space"} =>
           \A i \in DOMAIN queue' : queue'[i].by = q => queue'[i].n < call[q].n
    BY <1>2, <1>4, <2>2 DEF CallsComeLater
  <2>4. ASSUME NEW q \in Producers, pc'[q] = "ack", NEW i \in DOMAIN queue', queue'[i].by = q
        PROVE  queue'[i].n <= call[q].n
    <3>1. CASE q = p
      <4>1. CASE i \in DOMAIN queue
        <5>1. queue[i].by = p /\ queue[i].n < call[p].n
          BY <1>4, <2>4, <3>1, <4>1 DEF CallsComeLater
        <5> QED  BY <1>3, <1>4, <3>1, <4>1, <5>1, Known DEF e
      <4>2. CASE i = Len(queue) + 1  BY <1>3, <1>4, <3>1, <4>2 DEF e
      <4> QED  BY <1>4, <4>1, <4>2
    <3>2. CASE q # p
      <4>1. pc[q] = "ack" /\ i \in DOMAIN queue  BY <1>1, <1>2, <1>4, <2>4, <3>2
      <4> QED  BY <1>4, <2>4, <4>1 DEF CallsComeLater
    <3> QED  BY <3>1, <3>2
  <2> QED  BY <1>5, <2>1, <2>2, <2>3, <2>4 DEF CallsComeLater
<1>12. AcksAreExact'
  <2>1. \A d \in Event : Awaited(d) => Awaited(d)'
    BY <1>1, EventFields DEF Awaited
  <2>2. ASSUME e.sync
        PROVE  \E d \in Event : d = e /\ Awaited(d)'
    BY <1>1, <1>2, <2>2 DEF Awaited, e
  <2>3. ASSUME NEW i \in DOMAIN queue', queue'[i].sync
        PROVE  \E d \in Event : d = queue'[i] /\ Awaited(d)'
    <3>1. CASE i \in DOMAIN queue
      <4>1. queue'[i] = queue[i] /\ queue[i] \in Event /\ Awaited(queue[i])
        BY <1>4, <2>3, <3>1, Known DEF AcksAreExact
      <4> QED  BY <2>1, <4>1
    <3>2. CASE i = Len(queue) + 1  BY <1>2, <1>4, <2>2, <2>3, <3>2
    <3> QED  BY <1>4, <3>1, <3>2
  <2>4. \A i \in DOMAIN queue' : queue'[i].sync => Awaited(queue[i])'
    BY <2>3 DEF Awaited
  <2>5. renderer' = "handle" /\ current'.sync => Awaited(current)'
    <3> SUFFICES ASSUME renderer = "handle", current.sync
                 PROVE  Awaited(current)'
      BY <1>5
    <3>1. \E d \in Event : d = current' /\ Awaited(d)'  BY <2>1, Known DEF AcksAreExact
    <3> QED  BY <3>1 DEF Awaited
  <2>6. \A q \in Producers : pc'[q] \in {"post", "space"} => ~acked'[q]
    BY <1>1, <1>3 DEF AcksAreExact
  <2> QED  BY <2>4, <2>5, <2>6 DEF AcksAreExact, Awaited
<1>13. SyncIsBarrier'
  <2> SUFFICES ASSUME NEW q \in Producers, pc'[q] = "ack", acked'[q]
               PROVE  /\ \E i \in DOMAIN handled' : handled'[i] = call'[q]
                      /\ \A i \in DOMAIN queue' : queue'[i].by # q
    BY DEF SyncIsBarrier
  <2>1. q # p /\ pc[q] = "ack"  BY <1>1, <1>2
  <2>2. \A i \in DOMAIN queue' : queue'[i].by # q  BY <1>2, <1>4, <2>1 DEF SyncIsBarrier
  <2> QED  BY <2>1, <2>2 DEF SyncIsBarrier
<1> QED  BY <1>6, <1>7, <1>8, <1>9, <1>10, <1>11, <1>12, <1>13

LEMMA PostKeeps ==
    ASSUME KuiInv, NEW p \in Producers, Post(p)
    PROVE  KuiInv'
<1>1. pc[p] = "post" /\ call[p].type \in {"OUTPUT", "SCROLL", "STOP"}
  BY EventFields DEF Post, KuiInv, CallsAreOwn
<1>2. UNCHANGED <<running, ui, current, call, acked, handled, calls, faults>>  BY DEF Post
<1>3. CASE /\ closed
           /\ pc' = [pc EXCEPT ![p] = IF call[p].type = "STOP" THEN "join" ELSE "idle"]
           /\ UNCHANGED <<queue, closed, renderer>>
  <2> DEFINE next == IF call[p].type = "STOP" THEN "join" ELSE "idle"
  <2>1. next \in {"idle", "space", "join"} /\ (next = "join" => call[p].type = "STOP")
           /\ (call[p].type = "STOP" => next # "idle")
    OBVIOUS
  <2>2. pc' = [pc EXCEPT ![p] = next]  BY <1>3
  <2> HIDE DEF next
  <2> QED  BY <1>1, <1>2, <1>3, <2>1, <2>2, MoveKeeps
<1>4. CASE /\ ~closed /\ Merges(queue, call[p])
           /\ queue' = Channel!Folded(queue, call[p])
           /\ pc' = [pc EXCEPT ![p] = "idle"]
           /\ UNCHANGED <<closed, renderer>>
  BY <1>1, <1>2, <1>4, MergeKeeps
<1>5. CASE pc' = [pc EXCEPT ![p] = "space"] /\ UNCHANGED <<queue, closed, renderer>>
  BY <1>1, <1>2, <1>5, MoveKeeps
<1>6. CASE /\ ~closed /\ Len(queue) < Capacity
           /\ queue' = Append(queue, call[p])
           /\ WakeRenderer
           /\ closed' = (call[p].type = "STOP")
           /\ pc' = [q \in Producers |->
                       IF q = p THEN (IF call[p].sync THEN "ack" ELSE "idle")
                       ELSE IF q \in SleepsOnSpace /\ call[p].type = "STOP" THEN "post"
                       ELSE pc[q]]
  BY <1>1, <1>2, <1>6, AppendKeeps
<1> QED  BY <1>3, <1>4, <1>5, <1>6 DEF Post

\* Who is woken finds everything as it was.
LEMMA WakeKeeps ==
    ASSUME KuiInv,
           pc' \in [Producers -> {"idle", "post", "space", "ack", "join"}],
           \A q \in Producers : pc'[q] = pc[q] \/ (pc[q] = "space" /\ pc'[q] = "post"),
           \/ renderer' = renderer
           \/ renderer \in {"loop", "sleep"} /\ renderer' \in {"loop", "sleep"},
           UNCHANGED <<queue, closed, running, ui, current, call, acked, handled, calls, faults>>
    PROVE  KuiInv'
<1> USE DEF KuiInv
<1>1. TypeOK'  BY DEF TypeOK
<1>2. StopIsLast'  BY DEF StopIsLast, TypeOK
<1>3. CallsAreOwn'  BY DEF CallsAreOwn
<1>4. MainStops'  BY DEF MainStops, Producers
<1>5. EventsInOrder'  BY DEF EventsInOrder
<1>6. CallsComeLater'  BY DEF CallsComeLater
<1>7. AcksAreExact'  BY Known DEF AcksAreExact, Awaited
<1>8. SyncIsBarrier'  BY DEF SyncIsBarrier
<1> QED  BY <1>1, <1>2, <1>3, <1>4, <1>5, <1>6, <1>7, <1>8

LEMMA SpuriousWakeupKeeps ==
    ASSUME KuiInv, SpuriousWakeup
    PROVE  KuiInv'
<1>1. TypeOK  BY DEF KuiInv
<1>2. CASE (\E p \in SleepsOnSpace : pc' = [pc EXCEPT ![p] = "post"]) /\ UNCHANGED renderer
  <2>1. /\ pc' \in [Producers -> {"idle", "post", "space", "ack", "join"}]
        /\ \A q \in Producers : pc'[q] = pc[q] \/ (pc[q] = "space" /\ pc'[q] = "post")
    BY <1>1, <1>2 DEF TypeOK, SleepsOnSpace
  <2> QED  BY <1>2, <2>1, WakeKeeps DEF SpuriousWakeup
<1>3. CASE renderer = "sleep" /\ WakeRenderer /\ UNCHANGED pc
  BY <1>1, <1>3, WakeKeeps DEF SpuriousWakeup, WakeRenderer, TypeOK
<1> QED  BY <1>2, <1>3 DEF SpuriousWakeup

LEMMA SleepKeeps ==
    ASSUME KuiInv, Sleep
    PROVE  KuiInv'
BY WakeKeeps DEF Sleep, KuiInv, TypeOK

LEMMA FinishKeeps ==
    ASSUME KuiInv, Finish
    PROVE  KuiInv'
<1> USE DEF KuiInv, Finish
<1>1. TypeOK'  BY DEF TypeOK
<1>2. StopIsLast'  BY DEF StopIsLast
<1>3. CallsAreOwn' /\ MainStops' /\ EventsInOrder' /\ CallsComeLater'
  BY DEF CallsAreOwn, MainStops, EventsInOrder, CallsComeLater
<1>4. AcksAreExact' /\ SyncIsBarrier'  BY DEF AcksAreExact, Awaited, SyncIsBarrier
<1> QED  BY <1>1, <1>2, <1>3, <1>4

\* The front of the queue becomes the current event, and the rest is as it was.
LEMMA TakeKeeps ==
    ASSUME KuiInv, Take
    PROVE  KuiInv'
<1> USE DEF KuiInv, Take
<1>1. /\ queue \in Seq(Event) /\ queue # << >> /\ running
      /\ current' = queue[1] /\ current' \in Event /\ 1 \in DOMAIN queue
      /\ Len(queue') = Len(queue) - 1 /\ queue' \in Seq(Event)
      /\ \A i \in DOMAIN queue' : i + 1 \in DOMAIN queue /\ queue'[i] = queue[i + 1] /\ 1 < i + 1
      /\ \A i, j \in DOMAIN queue' : i < j => i + 1 < j + 1
  BY DEF TypeOK
<1>2. /\ pc' \in [Producers -> {"idle", "post", "space", "ack", "join"}]
      /\ \A q \in Producers : pc'[q] = pc[q] \/ (pc[q] = "space" /\ pc'[q] = "post")
  BY SpaceSignalled
<1>3. TypeOK'  BY <1>1, <1>2, CapacityAssumption DEF TypeOK
<1>4. StopIsLast'
  <2>1. \A i \in DOMAIN queue' : queue'[i].type = "STOP" => closed' /\ i = Len(queue')
    BY <1>1 DEF StopIsLast
  <2>2. current'.type = "STOP" => closed' /\ queue' = << >>
    BY <1>1 DEF StopIsLast
  <2> QED  BY <1>1, <2>1, <2>2 DEF StopIsLast
<1>5. CallsAreOwn'  BY <1>2 DEF CallsAreOwn
<1>6. MainStops'  BY <1>2 DEF MainStops, Producers
<1>7. EventsInOrder'
  <2>1. \A i, j \in DOMAIN queue' :
           i < j /\ queue'[i].by = queue'[j].by => queue'[i].n < queue'[j].n
    BY <1>1 DEF EventsInOrder
  <2>2. \A i \in DOMAIN handled', j \in DOMAIN queue' :
           handled'[i].by = queue'[j].by => handled'[i].n < queue'[j].n
    BY <1>1 DEF EventsInOrder
  <2>3. /\ \A i \in DOMAIN handled' :
             handled'[i].by = current'.by => handled'[i].n < current'.n
        /\ \A j \in DOMAIN queue' : current'.by = queue'[j].by => current'.n < queue'[j].n
    BY <1>1 DEF EventsInOrder
  <2> QED  BY <2>1, <2>2, <2>3 DEF EventsInOrder
<1>8. CallsComeLater'  BY <1>1, <1>2 DEF CallsComeLater
<1>9. AcksAreExact'
  <2>1. /\ \A i \in DOMAIN queue' : queue'[i].sync => Awaited(queue[i])'
        /\ current'.sync => Awaited(current)'
    BY <1>1, <1>2, Known DEF AcksAreExact, Awaited
  <2> QED  BY <1>2, <2>1 DEF AcksAreExact, Awaited
<1>10. SyncIsBarrier'  BY <1>1, <1>2 DEF SyncIsBarrier
<1> QED  BY <1>3, <1>4, <1>5, <1>6, <1>7, <1>8, <1>9, <1>10

\* An event is handled after all of its caller that were, and before all that are queued;
\* the caller whose call it is, if it waits, has nothing else in the queue.
LEMMA HandleEventKeeps ==
    ASSUME KuiInv, HandleEvent
    PROVE  KuiInv'
<1> USE DEF KuiInv
<1>1. /\ renderer = "handle" /\ running /\ current \in Event /\ handled \in Seq(Event)
      /\ handled' = Append(handled, current)
  BY DEF HandleEvent, StopIsLast, TypeOK
<1>2. UNCHANGED <<queue, closed, running, ui, current, pc, call, calls, faults>>
  BY DEF HandleEvent
<1>3. /\ handled' \in Seq(Event) /\ Len(handled) \in Nat
      /\ \A i \in DOMAIN handled :
           handled'[i] = handled[i] /\ i < Len(handled) + 1 /\ i \in Nat /\ i \in DOMAIN handled'
      /\ Len(handled) + 1 \in DOMAIN handled' /\ handled'[Len(handled) + 1] = current
      /\ \A i \in DOMAIN handled' : i \in DOMAIN handled \/ i = Len(handled) + 1
  BY <1>1, Appended
<1>4. /\ renderer' \in {"ended", "loop"}
      /\ renderer' = "ended" => current.type = "STOP"
  BY DEF HandleEvent
<1>5. /\ acked' \in [Producers -> BOOLEAN]
      /\ \A q \in Producers : acked'[q] # acked[q] => current.sync /\ q = current.by /\ acked'[q]
  BY <1>1, EventFields DEF HandleEvent, TypeOK
<1>6. TypeOK'  BY <1>1, <1>2, <1>3, <1>4, <1>5 DEF TypeOK
<1>7. StopIsLast'  BY <1>1, <1>2, <1>4 DEF StopIsLast
<1>8. CallsAreOwn' /\ MainStops'  BY <1>2 DEF CallsAreOwn, MainStops
<1>9. EventsInOrder'
  <2>1. ASSUME NEW i \in DOMAIN handled', NEW j \in DOMAIN handled', i < j,
               handled'[i].by = handled'[j].by
        PROVE  handled'[i].n < handled'[j].n
    <3>1. CASE j \in DOMAIN handled
      <4>1. i \in DOMAIN handled  BY <1>3, <2>1, <3>1
      <4> QED  BY <1>3, <2>1, <3>1, <4>1 DEF EventsInOrder
    <3>2. CASE j = Len(handled) + 1
      <4>1. i \in DOMAIN handled  BY <1>3, <2>1, <3>2
      <4> QED  BY <1>1, <1>3, <2>1, <3>2, <4>1 DEF EventsInOrder
    <3> QED  BY <1>3, <3>1, <3>2
  <2>2. ASSUME NEW i \in DOMAIN handled', NEW j \in DOMAIN queue,
               handled'[i].by = queue[j].by
        PROVE  handled'[i].n < queue[j].n
    <3>1. CASE i \in DOMAIN handled  BY <1>3, <2>2, <3>1 DEF EventsInOrder
    <3>2. CASE i = Len(handled) + 1  BY <1>1, <1>3, <2>2, <3>2 DEF EventsInOrder
    <3> QED  BY <1>3, <3>1, <3>2
  <2> QED  BY <1>2, <1>4, <2>1, <2>2 DEF EventsInOrder
<1>10. CallsComeLater'
  <2>1. ASSUME NEW i \in DOMAIN handled'
        PROVE  /\ handled'[i].n <= calls
               /\ \A q \in Producers : pc[q] \in {"post", "space"} /\ handled'[i].by = q =>
                    handled'[i].n < call[q].n
    <3>1. CASE i \in DOMAIN handled  BY <1>3, <3>1 DEF CallsComeLater
    <3>2. CASE i = Len(handled) + 1  BY <1>1, <1>3, <3>2 DEF CallsComeLater
    <3> QED  BY <1>3, <3>1, <3>2
  <2> QED  BY <1>2, <1>4, <2>1 DEF CallsComeLater
<1>11. ASSUME current.sync, NEW i \in DOMAIN queue
       PROVE  queue[i].by # current.by
  <2>1. Awaited(current)  BY <1>1, <1>11 DEF AcksAreExact
  <2>2. queue[i].by = current.by => current.n < queue[i].n /\ queue[i].n <= current.n
    BY <1>1, <2>1, Known DEF EventsInOrder, CallsComeLater, Awaited
  <2> QED  BY <1>1, <2>2, Known
<1>12. AcksAreExact'
  <2>1. ASSUME NEW i \in DOMAIN queue, queue[i].sync
        PROVE  Awaited(queue[i])'
    BY <1>2, <1>5, <1>11, <2>1, Known DEF AcksAreExact, Awaited
  <2>2. \A q \in Producers : pc'[q] \in {"post", "space"} => ~acked'[q]
    BY <1>1, <1>2, <1>5 DEF AcksAreExact, Awaited
  <2> QED  BY <1>2, <1>4, <2>1, <2>2 DEF AcksAreExact, Awaited
<1>13. SyncIsBarrier'
  <2> SUFFICES ASSUME NEW q \in Producers, pc[q] = "ack", acked'[q]
               PROVE  /\ \E i \in DOMAIN handled' : handled'[i] = call[q]
                      /\ \A i \in DOMAIN queue : queue[i].by # q
    BY <1>2 DEF SyncIsBarrier
  <2>1. CASE acked[q]  BY <1>3, <2>1 DEF SyncIsBarrier
  <2>2. CASE ~acked[q]
    <3>1. current.sync /\ q = current.by /\ call[q] = current
      BY <1>1, <1>5, <2>2 DEF AcksAreExact, Awaited
    <3> QED  BY <1>3, <1>11, <3>1
  <2> QED  BY <2>1, <2>2
<1> QED  BY <1>6, <1>7, <1>8, <1>9, <1>10, <1>12, <1>13

LEMMA BeginStopKeeps ==
    ASSUME KuiInv, NEW next \in {"forking", "down"}, BeginStop(next)
    PROVE  KuiInv'
<1>1. /\ pc[Main] = "idle" /\ ui = "up" /\ running /\ calls < MaxCalls
      /\ calls' = calls + 1 /\ ui' = next
      /\ UNCHANGED <<queue, running, current, handled>>
      /\ TypeOK /\ Main \in Producers
  BY DEF BeginStop, KuiInv, Producers
<1>2. CASE /\ pc' = [pc EXCEPT ![Main] = "post"]
           /\ call' = [call EXCEPT ![Main] = Call(Main, "STOP", 0, TRUE)]
           /\ acked' = [acked EXCEPT ![Main] = FALSE]
           /\ UNCHANGED <<closed, renderer, faults>>
  <2>1. /\ Call(Main, "STOP", 0, TRUE) \in Event
        /\ Call(Main, "STOP", 0, TRUE).by = Main /\ Call(Main, "STOP", 0, TRUE).n = calls + 1
        /\ Call(Main, "STOP", 0, TRUE).sync
    BY <1>1, NewCall
  <2>2. Call(Main, "STOP", 0, TRUE).type = "STOP"  BY DEF Call
  <2>3. faults' \in Nat  BY <1>1, <1>2 DEF TypeOK
  <2> QED  BY <1>1, <1>2, <2>1, <2>2, <2>3, CallBegins
<1>3. CASE /\ Fault
           /\ closed' = TRUE
           /\ WakeRenderer
           /\ pc' = [p \in Producers |->
                       IF p = Main THEN "join" ELSE IF p \in SleepsOnSpace THEN "post" ELSE pc[p]]
           /\ UNCHANGED <<call, acked>>
  <2> USE DEF KuiInv
  <2>1. /\ pc'[Main] = "join"
        /\ pc' \in [Producers -> {"idle", "post", "space", "ack", "join"}]
        /\ \A q \in Producers :
             q # Main => pc'[q] = pc[q] \/ (pc[q] = "space" /\ pc'[q] = "post")
    BY <1>1, <1>3 DEF SleepsOnSpace, TypeOK
  <2>2. /\ renderer' \in {"none", "loop", "sleep", "handle", "ended"}
        /\ renderer' = "handle" <=> renderer = "handle"
        /\ renderer' = "ended" <=> renderer = "ended"
        /\ renderer' = "none" <=> renderer = "none"
    BY <1>1, <1>3 DEF WakeRenderer, TypeOK
  <2>3. calls \in Nat /\ faults' \in Nat  BY <1>1, <1>3 DEF TypeOK, Fault
  <2>4. TypeOK'
    <3>1. running' <=> renderer' # "none"  BY <1>1, <2>2 DEF TypeOK
    <3> QED  BY <1>1, <1>3, <2>1, <2>2, <2>3, <3>1 DEF TypeOK
  <2>5. StopIsLast'  BY <1>1, <1>3, <2>2 DEF StopIsLast
  <2>6. CallsAreOwn'
    <3> SUFFICES ASSUME NEW q \in Producers, q # Main, pc'[q] # "idle"
                 PROVE  /\ pc'[q] # "join" /\ call'[q] \in Event /\ call'[q].by = q
                        /\ call'[q].n <= calls' /\ call'[q].type # "STOP"
                        /\ pc'[q] = "ack" => call'[q].sync
      BY <1>1, <2>1 DEF CallsAreOwn
    <3>1. /\ call[q] \in Event /\ call[q].by = q /\ call[q].n <= calls /\ call[q].type # "STOP"
          /\ pc[q] # "join" /\ pc[q] # "idle" /\ (pc[q] = "ack" => call[q].sync)
      BY <2>1 DEF CallsAreOwn
    <3> QED  BY <1>1, <1>3, <2>1, <2>3, <3>1, Known
  <2>7. MainStops'  BY <2>1 DEF MainStops
  <2>8. EventsInOrder'  BY <1>1, <2>2 DEF EventsInOrder
  <2>9. CallsComeLater'  BY <1>1, <1>3, <2>1, <2>2, <2>3, Known DEF CallsComeLater
  <2>10. AcksAreExact'
    <3>1. \A e \in Event : Awaited(e) =>
             pc'[e.by] = "ack" /\ call'[e.by] = e /\ ~acked'[e.by]
      BY <1>1, <1>3, <2>1, EventFields DEF Awaited
    <3>2. \A i \in DOMAIN queue : queue[i].sync => Awaited(queue[i])'
      BY <1>1, <3>1, Known DEF AcksAreExact, Awaited
    <3>3. renderer = "handle" /\ current.sync => Awaited(current)'
      BY <1>1, <3>1, Known DEF AcksAreExact, Awaited
    <3> QED  BY <1>1, <1>3, <2>1, <2>2, <3>2, <3>3 DEF AcksAreExact
  <2>11. SyncIsBarrier'  BY <1>1, <1>3, <2>1 DEF SyncIsBarrier
  <2> QED  BY <2>4, <2>5, <2>6, <2>7, <2>8, <2>9, <2>10, <2>11
<1> QED  BY <1>2, <1>3 DEF BeginStop

\* Where nothing runs nothing is queued, and stopping changes no event.
LEMMA StopNothingKeeps ==
    ASSUME KuiInv, NEW next \in {"forking", "down"}, StopNothing(next)
    PROVE  /\ KuiInv' /\ UNCHANGED <<queue, handled>>
           /\ ~running /\ closed' \in {closed, TRUE} /\ UNCHANGED <<renderer, current>>
<1> USE DEF KuiInv
<1>1. ~running /\ queue = << >> /\ handled \in Seq(Event) /\ closed \in BOOLEAN
  BY DEF StopNothing, StopIsLast, TypeOK
<1>2. handled \o << >> = handled  BY <1>1, ConcatEmptySeq
<1>3. UNCHANGED <<queue, handled>> /\ closed' \in {closed, TRUE}
  BY <1>1, <1>2 DEF StopNothing
<1>4. ui' = next /\ UNCHANGED <<running, renderer, current, pc, call, acked, calls, faults>>
  BY DEF StopNothing
<1>5. renderer = "none"  BY <1>1 DEF TypeOK
<1>6. TypeOK'  BY <1>1, <1>3, <1>4 DEF TypeOK
<1>7. StopIsLast' /\ CallsAreOwn' /\ MainStops'
  BY <1>1, <1>3, <1>4, <1>5 DEF StopIsLast, CallsAreOwn, MainStops
<1>8. EventsInOrder' /\ CallsComeLater'  BY <1>3, <1>4, <1>5 DEF EventsInOrder, CallsComeLater
<1>9. AcksAreExact' /\ SyncIsBarrier'
  BY <1>3, <1>4, <1>5 DEF AcksAreExact, Awaited, SyncIsBarrier
<1> QED  BY <1>1, <1>3, <1>4, <1>6, <1>7, <1>8, <1>9

\* The renderer has ended with nothing queued, and nobody else is in a call.
LEMMA JoinKeeps ==
    ASSUME KuiInv, Join
    PROVE  KuiInv'
<1> USE DEF KuiInv, Join
<1>1. queue = << >> /\ queue' = << >>  BY DEF StopIsLast
<1>2. /\ pc'[Main] = "idle" /\ \A q \in Producers : pc'[q] = "idle"
      /\ pc' \in [Producers -> {"idle", "post", "space", "ack", "join"}]
  BY DEF ProducersJoined, Producers, TypeOK
<1>3. TypeOK'
  <2>1. closed' \in BOOLEAN  OBVIOUS
  <2>2. running' <=> renderer' # "none"  OBVIOUS
  <2>3. queue' = queue  BY <1>1
  <2> QED  BY <1>2, <2>1, <2>2, <2>3 DEF TypeOK
<1>4. StopIsLast' /\ CallsAreOwn' /\ MainStops'
  BY <1>1, <1>2 DEF StopIsLast, CallsAreOwn, MainStops
<1>5. EventsInOrder' /\ CallsComeLater'  BY <1>1, <1>2 DEF EventsInOrder, CallsComeLater
<1>6. AcksAreExact' /\ SyncIsBarrier'  BY <1>1, <1>2 DEF AcksAreExact, SyncIsBarrier
<1> QED  BY <1>3, <1>4, <1>5, <1>6

\* After the fork the renderer starts with nothing queued and nobody in a call.
LEMMA ForkParentKeeps ==
    ASSUME KuiInv, ForkParent
    PROVE  /\ KuiInv' /\ ~running /\ queue = << >> /\ queue' = << >> /\ ~closed'
           /\ renderer = "none" /\ renderer' \in {"none", "loop"} /\ UNCHANGED handled
<1> USE DEF KuiInv
<1>1. /\ ~running /\ queue = << >> /\ queue' = queue /\ ~closed' /\ closed' \in BOOLEAN
      /\ renderer = "none" /\ \A q \in Producers : pc[q] = "idle"
      /\ ui' = "up" /\ UNCHANGED <<current, pc, call, acked, handled, calls>>
  BY DEF ForkParent, Reset, MainStops, StopIsLast, TypeOK
<1>2. /\ running' <=> renderer' # "none"
      /\ running' \in BOOLEAN /\ faults' \in Nat
      /\ renderer' \in {"none", "loop"}
  <2>1. CASE running' = TRUE /\ renderer' = "loop" /\ UNCHANGED faults  BY <2>1 DEF TypeOK
  <2>2. CASE running' = FALSE /\ renderer' = "none" /\ Fault
    <3>1. faults' \in Nat  BY <2>2 DEF Fault, TypeOK
    <3> QED  BY <2>2, <3>1
  <2> QED  BY <2>1, <2>2 DEF ForkParent
<1>3. TypeOK'  BY <1>1, <1>2 DEF TypeOK
<1>4. StopIsLast' /\ CallsAreOwn' /\ MainStops'
  BY <1>1, <1>2 DEF StopIsLast, CallsAreOwn, MainStops
<1>5. EventsInOrder' /\ CallsComeLater'  BY <1>1, <1>2 DEF EventsInOrder, CallsComeLater
<1>6. AcksAreExact' /\ SyncIsBarrier'  BY <1>1, <1>2 DEF AcksAreExact, SyncIsBarrier
<1> QED  BY <1>1, <1>2, <1>3, <1>4, <1>5, <1>6

LEMMA KuiInvNext == KuiInv /\ [Next]_vars => KuiInv'
<1> SUFFICES ASSUME KuiInv, [Next]_vars PROVE KuiInv'  OBVIOUS
<1>1. ASSUME NEW p \in Producers, Begin(p) PROVE KuiInv'  BY <1>1, BeginKeeps
<1>2. ASSUME NEW p \in Producers, Post(p) PROVE KuiInv'  BY <1>2, PostKeeps
<1>3. ASSUME NEW p \in Producers, Acknowledged(p) PROVE KuiInv'  BY <1>3, AcknowledgedKeeps
<1>4. CASE BeginDirect  BY <1>4, BeginDirectKeeps
<1>5. CASE Take  BY <1>5, TakeKeeps
<1>6. CASE Sleep  BY <1>6, SleepKeeps
<1>7. CASE Finish  BY <1>7, FinishKeeps
<1>8. CASE HandleEvent  BY <1>8, HandleEventKeeps
<1>9. ASSUME NEW next \in {"forking", "down"}, BeginStop(next) PROVE KuiInv'
  BY <1>9, BeginStopKeeps
<1>10. ASSUME NEW next \in {"forking", "down"}, StopNothing(next) PROVE KuiInv'
  BY <1>10, StopNothingKeeps
<1>11. CASE Join  BY <1>11, JoinKeeps
<1>12. CASE ForkParent  BY <1>12, ForkParentKeeps
<1>13. CASE SpuriousWakeup  BY <1>13, SpuriousWakeupKeeps
<1>14. CASE UNCHANGED vars
  <2> USE <1>14 DEF vars
  <2>1. TypeOK' /\ StopIsLast'  BY DEF KuiInv, TypeOK, StopIsLast
  <2>2. CallsAreOwn' /\ MainStops'  BY DEF KuiInv, CallsAreOwn, MainStops
  <2>3. EventsInOrder' /\ CallsComeLater'  BY DEF KuiInv, EventsInOrder, CallsComeLater
  <2>4. AcksAreExact' /\ SyncIsBarrier'  BY DEF KuiInv, AcksAreExact, Awaited, SyncIsBarrier
  <2> QED  BY <2>1, <2>2, <2>3, <2>4, Zenon DEF KuiInv
<1>15. Done => UNCHANGED vars  BY DEF Done, Producers
<1> QED
  BY <1>1, <1>2, <1>3, <1>4, <1>5, <1>6, <1>7, <1>8, <1>9, <1>10, <1>11, <1>12, <1>13, <1>14,
     <1>15
     DEF Next, Produce, Renderer, ForkPrepare, Exit

LEMMA KuiInvAlways == Spec => []KuiInv
BY KuiInvInit, KuiInvNext, PTL DEF Spec

-------------------------------------------------------------------------------
(* The theorems.                                                           *)

\* The queue never exceeds its capacity, and a renderer exists exactly while the code
\* believes one does.
THEOREM TypeCorrect == Spec => []TypeOK
<1>1. KuiInv => TypeOK  BY DEF KuiInv
<1> QED  BY <1>1, KuiInvAlways, PTL

\* Each caller's events are handled in the order of its calls, whatever the number of
\* callers and however often the renderer was stopped or failed to start.
THEOREM CallsHandledInOrder == Spec => []ProgramOrder
<1>1. KuiInv => ProgramOrder  BY DEF KuiInv, EventsInOrder, ProgramOrder
<1> QED  BY <1>1, KuiInvAlways, PTL

\* An acknowledged call has been handled, and so has all its caller posted before.
THEOREM AcknowledgedIsHandled == Spec => []SyncIsBarrier
<1>1. KuiInv => SyncIsBarrier  BY DEF KuiInv
<1> QED  BY <1>1, KuiInvAlways, PTL

\* No event in the queue or at the renderer holds an acknowledgement whose caller has
\* left the frame it lives in.
THEOREM AcksLive == Spec => []AckOutlivesEvent
<1>1. KuiInv => AckOutlivesEvent
  BY DEF KuiInv, AcksAreExact, Awaited, AckOutlivesEvent
<1> QED  BY <1>1, KuiInvAlways, PTL

-------------------------------------------------------------------------------
(* The interface is one channel.                                           *)

\* The renderer's event and the queue behind it, as one sequence.
LEMMA PendingParts ==
    ASSUME KuiInv
    PROVE  /\ queue \in Seq(Event) /\ Pending \in Seq(Event) /\ handled \in Seq(Event)
           /\ renderer # "handle" => Pending = queue
           /\ renderer = "handle" =>
                /\ current \in Event /\ Pending # << >>
                /\ Head(Pending) = current /\ Tail(Pending) = queue
           /\ queue # << >> =>
                /\ Pending # << >> /\ Len(queue) \in 1 .. Len(queue)
                /\ Pending[Len(Pending)] = queue[Len(queue)]
<1>1. queue \in Seq(Event) /\ handled \in Seq(Event)  BY DEF KuiInv, TypeOK
<1>2. CASE renderer # "handle"
  <2>1. Pending = queue  BY <1>1, <1>2, ConcatEmptySeq DEF Pending
  <2> QED  BY <1>1, <1>2, <2>1
<1>3. CASE renderer = "handle"
  <2>1. current \in Event /\ <<current>> \in Seq(Event) /\ Len(<<current>>) = 1
    BY <1>3 DEF KuiInv, StopIsLast
  <2>2. Pending = <<current>> \o queue  BY <1>3 DEF Pending
  <2>3. /\ Pending \in Seq(Event) /\ Len(Pending) = 1 + Len(queue)
        /\ \A i \in 1 .. 1 + Len(queue) :
             Pending[i] = IF i <= 1 THEN <<current>>[i] ELSE queue[i - 1]
    BY <1>1, <2>1, <2>2, ConcatProperties
  <2>4. Pending # << >> /\ Head(Pending) = current  BY <1>1, <2>3
  <2>5. Tail(Pending) = queue
    <3>1. /\ Tail(Pending) \in Seq(Event) /\ Len(Tail(Pending)) = Len(queue)
          /\ \A i \in 1 .. Len(queue) : Tail(Pending)[i] = queue[i]
      BY <1>1, <2>3, <2>4, HeadTailProperties
    <3> QED  BY <1>1, <3>1, SeqEqual
  <2>6. queue # << >> => Len(queue) \in 1 .. Len(queue) /\ Pending[Len(Pending)] = queue[Len(queue)]
    BY <1>1, <2>3
  <2> QED  BY <1>1, <1>3, <2>1, <2>3, <2>4, <2>5, <2>6
<1> QED  BY <1>2, <1>3

\* The renderer's front event stands still while the queue behind it grows.
LEMMA PendingAppended ==
    ASSUME KuiInv, NEW e \in Event, queue' = Append(queue, e),
           renderer' = "handle" <=> renderer = "handle", UNCHANGED current
    PROVE  Pending' = Append(Pending, e) /\ Pending' # << >> /\ Pending'[Len(Pending')] = e
<1> DEFINE front == IF renderer = "handle" THEN <<current>> ELSE << >>
<1>1. queue \in Seq(Event) /\ front \in Seq(Event) /\ <<e>> \in Seq(Event)
  BY DEF KuiInv, TypeOK, StopIsLast
<1>2. Pending = front \o queue /\ Pending' = front \o Append(queue, e)  BY DEF Pending
<1> HIDE DEF front
<1>3. Pending \in Seq(Event)  BY <1>1, <1>2, ConcatProperties
<1>4. Pending' = (front \o queue) \o <<e>>
  BY <1>1, <1>2, AppendIsConcat, ConcatAssociative
<1>5. Pending' = Append(Pending, e)  BY <1>2, <1>3, <1>4, AppendIsConcat
<1> QED  BY <1>3, <1>5, AppendProperties

\* Folding into the end of the queue is folding into the end of the channel.
LEMMA PendingFolded ==
    ASSUME KuiInv, NEW e \in Event, queue # << >>, Channel!IsScroll(e),
           queue' = Channel!Folded(queue, e), UNCHANGED <<renderer, current>>
    PROVE  Pending' = Channel!Folded(Pending, e)
<1>1. /\ queue \in Seq(Event) /\ Pending \in Seq(Event) /\ Pending # << >>
      /\ Pending[Len(Pending)] = queue[Len(queue)]
  BY PendingParts
<1>2. queue' \in Seq(Event) /\ Len(queue') = Len(queue)  BY <1>1, FoldedKeeps
<1>3. Channel!Folded(Pending, e) \in Seq(Event) /\ Len(Channel!Folded(Pending, e)) = Len(Pending)
  BY <1>1, FoldedKeeps
<1>4. CASE renderer # "handle"
  <2>1. Pending = queue  BY <1>4, PendingParts
  <2>2. Pending' = queue'  BY <1>2, <1>4, ConcatEmptySeq DEF Pending
  <2> QED  BY <2>1, <2>2
<1>5. CASE renderer = "handle"
  <2> DEFINE last == [queue[Len(queue)] EXCEPT !.rows = Channel!Clamp(@ + e.rows)]
  <2>1. current \in Event /\ <<current>> \in Seq(Event) /\ Len(<<current>>) = 1
    BY <1>5, PendingParts
  <2>2. Pending = <<current>> \o queue /\ Pending' = <<current>> \o queue'
    BY <1>5 DEF Pending
  <2>3. /\ Len(Pending) = 1 + Len(queue)
        /\ \A i \in 1 .. 1 + Len(queue) :
             Pending[i] = IF i <= 1 THEN <<current>>[i] ELSE queue[i - 1]
    BY <1>1, <2>1, <2>2, ConcatProperties
  <2>4. /\ Pending' \in Seq(Event) /\ Len(Pending') = 1 + Len(queue)
        /\ \A i \in 1 .. 1 + Len(queue) :
             Pending'[i] = IF i <= 1 THEN <<current>>[i] ELSE queue'[i - 1]
    BY <1>1, <1>2, <2>1, <2>2, ConcatProperties
  <2>5. queue' = [queue EXCEPT ![Len(queue)] = last]  BY DEF Channel!Folded
  <2>6. Channel!Folded(Pending, e) = [Pending EXCEPT ![Len(Pending)] = last]
    BY <1>1 DEF Channel!Folded
  <2> HIDE DEF last
  <2>7. Len(queue) \in Nat /\ Len(queue) >= 1  BY <1>1
  <2>8. \A i \in 1 .. Len(Pending) : Pending'[i] = Channel!Folded(Pending, e)[i]
    <3> SUFFICES ASSUME NEW i \in 1 .. 1 + Len(queue)
                 PROVE  Pending'[i] = [Pending EXCEPT ![Len(Pending)] = last][i]
      BY <2>3, <2>6
    <3>1. [Pending EXCEPT ![Len(Pending)] = last][i] = IF i = 1 + Len(queue) THEN last ELSE Pending[i]
      BY <1>1, <2>3
    <3>2. CASE i = 1
      BY <2>3, <2>4, <2>7, <3>1, <3>2
    <3>3. CASE i # 1
      <4>1. i - 1 \in 1 .. Len(queue) /\ (i - 1 = Len(queue) <=> i = 1 + Len(queue))
        BY <2>7, <3>3
      <4>2. queue'[i - 1] = IF i - 1 = Len(queue) THEN last ELSE queue[i - 1]
        BY <1>1, <2>5, <4>1
      <4> QED  BY <2>3, <2>4, <2>7, <3>1, <3>3, <4>1, <4>2
    <3> QED  BY <3>2, <3>3
  <2> QED  BY <1>1, <1>3, <2>3, <2>4, <2>8, SeqEqual
<1> QED  BY <1>4, <1>5

\* Most steps leave the channel alone.
LEMMA ChannelUnmoved ==
    ASSUME renderer' = "handle" <=> renderer = "handle",
           UNCHANGED <<queue, current, handled, closed>>
    PROVE  UNCHANGED <<Pending, handled, ~closed>>
BY DEF Pending

\* Taking an event from the queue moves it within the channel.
LEMMA TakeIsInner ==
    ASSUME KuiInv, Take
    PROVE  UNCHANGED <<Pending, handled, ~closed>>
<1>1. /\ queue \in Seq(Event) /\ queue # << >> /\ Pending = queue
      /\ Head(queue) \in Event /\ Tail(queue) \in Seq(Event) /\ Len(Tail(queue)) = Len(queue) - 1
      /\ \A i \in 1 .. Len(Tail(queue)) : Tail(queue)[i] = queue[i + 1]
  BY PendingParts, HeadTailProperties DEF Take
<1>2. Pending' = <<Head(queue)>> \o Tail(queue)  BY DEF Take, Pending
<1>3. <<Head(queue)>> \in Seq(Event) /\ Len(<<Head(queue)>>) = 1  BY <1>1
<1>4. /\ Pending' \in Seq(Event) /\ Len(Pending') = 1 + Len(Tail(queue))
      /\ \A i \in 1 .. 1 + Len(Tail(queue)) :
           Pending'[i] = IF i <= 1 THEN <<Head(queue)>>[i] ELSE Tail(queue)[i - 1]
  BY <1>1, <1>2, <1>3, ConcatProperties
<1>5. Len(Pending') = Len(queue)  BY <1>1, <1>4
<1>6. \A i \in 1 .. Len(queue) : Pending'[i] = queue[i]
  <2> SUFFICES ASSUME NEW i \in 1 .. Len(queue) PROVE Pending'[i] = queue[i]  OBVIOUS
  <2>1. CASE i = 1  BY <1>1, <1>4, <2>1
  <2>2. CASE i # 1
    <3>1. i - 1 \in 1 .. Len(Tail(queue)) /\ (i - 1) + 1 = i  BY <1>1, <2>2
    <3> QED  BY <1>1, <1>4, <2>2, <3>1
  <2> QED  BY <2>1, <2>2
<1>7. Pending' = queue  BY <1>1, <1>4, <1>5, <1>6, SeqEqual
<1> QED  BY <1>1, <1>7 DEF Take

\* A posted event is accepted at the end of the channel, or folded into its last.
LEMMA PostIsAccept ==
    ASSUME KuiInv, NEW p \in Producers, Post(p)
    PROVE  Channel!Next \/ UNCHANGED <<Pending, handled, ~closed>>
<1>1. pc[p] = "post" /\ call[p] \in Event /\ UNCHANGED <<current, handled>>
  BY DEF Post, KuiInv, CallsAreOwn
<1>2. CASE UNCHANGED <<queue, closed, renderer>>  BY <1>1, <1>2, ChannelUnmoved
<1>3. CASE /\ ~closed /\ Merges(queue, call[p])
           /\ queue' = Channel!Folded(queue, call[p])
           /\ UNCHANGED <<closed, renderer>>
  <2> DEFINE e == [type |-> "SCROLL", rows |-> call[p].rows, sync |-> FALSE]
  <2>1. queue # << >> /\ Channel!IsScroll(call[p]) /\ Channel!IsScroll(queue[Len(queue)])
    BY <1>3 DEF Merges
  <2>2. Pending' = Channel!Folded(Pending, call[p])  BY <1>1, <1>3, <2>1, PendingFolded
  <2>3. Pending' = Channel!Folded(Pending, e)  BY <2>2 DEF Channel!Folded
  <2>4. e \in Channel!Scrolls /\ Channel!IsScroll(e)
    <3>1. call[p].rows \in -RowLimit .. RowLimit  BY <1>1, EventFields
    <3> QED  BY <3>1 DEF Channel!Scrolls, Channel!IsScroll
  <2>5. Pending # << >> /\ Channel!IsScroll(Pending[Len(Pending)])  BY <2>1, PendingParts
  <2> HIDE DEF e
  <2>6. Channel!Fold(e)  BY <1>1, <1>3, <2>3, <2>4, <2>5 DEF Channel!Fold
  <2> QED  BY <2>4, <2>6 DEF Channel!Next
<1>4. CASE /\ ~closed /\ queue' = Append(queue, call[p]) /\ WakeRenderer
           /\ closed' = (call[p].type = "STOP")
  <2>1. renderer' = "handle" <=> renderer = "handle"  BY <1>4 DEF WakeRenderer
  <2>2. Pending' = Append(Pending, call[p]) /\ Pending' # << >> /\ Pending'[Len(Pending')] = call[p]
    BY <1>1, <1>4, <2>1, PendingAppended
  <2>3. (~closed') = (call[p].type # "STOP")  BY <1>4
  <2>4. Channel!Accept  BY <1>1, <1>4, <2>2, <2>3 DEF Channel!Accept
  <2> QED  BY <2>4 DEF Channel!Next
<1> QED  BY <1>2, <1>3, <1>4 DEF Post

LEMMA ChannelStep ==
    ASSUME KuiInv, [Next]_vars
    PROVE  [Channel!Next]_<<Pending, handled, ~closed>>
<1> DEFINE Quiet == UNCHANGED <<Pending, handled, ~closed>>
<1>1. ASSUME NEW p \in Producers, Begin(p) \/ Acknowledged(p) PROVE Quiet
  BY <1>1, ChannelUnmoved DEF Begin, Acknowledged
<1>2. ASSUME NEW p \in Producers, Post(p) PROVE Channel!Next \/ Quiet  BY <1>2, PostIsAccept
<1>3. CASE BeginDirect
  <2>1. /\ Pending = << >> /\ UNCHANGED Pending /\ UNCHANGED closed
        /\ \E e \in Event : handled' = Append(handled, e)
    BY <1>3, BeginDirectKeeps, PendingParts, ChannelUnmoved DEF Pending
  <2>2. PICK e \in Event : handled' = Append(handled, e)  BY <2>1
  <2>3. handled' # << >> /\ handled'[Len(handled')] = e
    BY <2>2, PendingParts, AppendProperties
  <2>4. Channel!HandleAtOnce  BY <2>1, <2>2, <2>3 DEF Channel!HandleAtOnce
  <2> QED  BY <2>4 DEF Channel!Next
<1>4. CASE Take  BY <1>4, TakeIsInner
<1>5. CASE Sleep \/ Finish \/ SpuriousWakeup \/ UNCHANGED vars
  BY <1>5, ChannelUnmoved DEF Sleep, Finish, SpuriousWakeup, WakeRenderer, vars
<1>6. CASE HandleEvent
  <2>1. /\ renderer = "handle" /\ renderer' # "handle"
        /\ handled' = Append(handled, current) /\ UNCHANGED <<queue, closed>>
    BY <1>6 DEF HandleEvent
  <2>2. Pending # << >> /\ Head(Pending) = current /\ Tail(Pending) = queue /\ queue \in Seq(Event)
    BY <2>1, PendingParts
  <2>3. Pending' = queue  BY <2>1, <2>2, ConcatEmptySeq DEF Pending
  <2>4. Channel!Handle  BY <2>1, <2>2, <2>3 DEF Channel!Handle
  <2> QED  BY <2>4 DEF Channel!Next
<1>7. ASSUME NEW next \in {"forking", "down"}, BeginStop(next) PROVE Channel!Next \/ Quiet
  <2>1. UNCHANGED <<queue, current, handled>> /\ (renderer' = "handle" <=> renderer = "handle")
    BY <1>7 DEF BeginStop, WakeRenderer
  <2>2. UNCHANGED <<Pending, handled>>  BY <2>1 DEF Pending
  <2>3. UNCHANGED closed \/ closed' = TRUE  BY <1>7 DEF BeginStop
  <2>4. closed' = TRUE => Channel!Shut  BY <2>2 DEF Channel!Shut
  <2> QED  BY <2>2, <2>3, <2>4 DEF Channel!Next
<1>8. ASSUME NEW next \in {"forking", "down"}, StopNothing(next) PROVE Channel!Next \/ Quiet
  <2>1. UNCHANGED <<queue, current, handled, renderer>> /\ closed' \in {closed, TRUE}
    BY <1>8, StopNothingKeeps
  <2>2. UNCHANGED <<Pending, handled>>  BY <2>1 DEF Pending
  <2>3. closed' = TRUE => Channel!Shut  BY <2>2 DEF Channel!Shut
  <2> QED  BY <2>1, <2>2, <2>3 DEF Channel!Next
<1>9. CASE Join
  <2>1. /\ queue = << >> /\ queue' = << >> /\ renderer # "handle" /\ renderer' # "handle"
        /\ closed /\ closed' \in BOOLEAN /\ UNCHANGED <<current, handled>>
    BY <1>9 DEF Join, KuiInv, StopIsLast
  <2>2. Pending = << >> /\ UNCHANGED Pending  BY <2>1, PendingParts DEF Pending
  <2>3. CASE closed'  BY <2>1, <2>2, <2>3 DEF KuiInv, TypeOK
  <2>4. CASE ~closed'
    <3>1. Channel!Reopen  BY <2>1, <2>2, <2>4 DEF Channel!Reopen
    <3> QED  BY <3>1 DEF Channel!Next
  <2> QED  BY <2>3, <2>4
<1>10. CASE ForkParent
  <2>1. /\ queue = << >> /\ queue' = << >> /\ renderer # "handle" /\ renderer' # "handle"
        /\ ~closed' /\ UNCHANGED handled
    BY <1>10, ForkParentKeeps
  <2>2. Pending = << >> /\ UNCHANGED Pending  BY <2>1, PendingParts DEF Pending
  <2>3. Channel!Reopen  BY <2>1, <2>2 DEF Channel!Reopen
  <2> QED  BY <2>3 DEF Channel!Next
<1>11. Done => UNCHANGED vars  BY DEF Done, Producers
<1> QED
  BY <1>1, <1>2, <1>3, <1>4, <1>5, <1>6, <1>7, <1>8, <1>9, <1>10, <1>11
     DEF Next, Produce, Renderer, ForkPrepare, Exit

\* Queue, renderer, restarts and the direct path are one ordered channel, for every number
\* of producers, every capacity and every pattern of failure.
THEOREM ImplementsChannel == Spec => ChannelSpec
<1>1. Init => Channel!Init
  <2> SUFFICES ASSUME Init PROVE Channel!Init  OBVIOUS
  <2>1. Pending = << >>  BY KuiInvInit, PendingParts DEF Init
  <2> QED  BY <2>1 DEF Init, Channel!Init
<1>2. KuiInv /\ [Next]_vars => [Channel!Next]_<<Pending, handled, ~closed>>  BY ChannelStep
<1> QED  BY <1>1, <1>2, KuiInvAlways, PTL DEF Spec, ChannelSpec, Channel!Spec

===============================================================================
