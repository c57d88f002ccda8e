---------------------------------- MODULE Kui ----------------------------------
(***************************************************************************)
(* The terminal interface of src/ui: callers hand events to a renderer     *)
(* thread through the bounded queue of ui_events.c, whose mutex and two    *)
(* condition variables are modelled; kui.c adds the synchronous call,      *)
(* which waits on an acknowledgement kept on its own stack, the renderer   *)
(* that stops and starts again around every fork, and the direct path      *)
(* taken while no renderer runs.  A critical section is one step; it ends  *)
(* at the unlock or at pthread_cond_wait.                                  *)
(*                                                                         *)
(* Main is the command thread.  It is the only producer the program has    *)
(* today, so Workers is empty for the program as it is; the queue is       *)
(* written for more ("A worker may wait for space"), and a worker stands   *)
(* for such a thread, under the contract of ui_events_reset: the producers *)
(* are joined before the queue is reset.                                   *)
(***************************************************************************)
EXTENDS Integers, Sequences, FiniteSets

CONSTANTS
    Main, Workers,  \* the producers
    Capacity,       \* UI_EVENT_CAPACITY
    RowLimit,       \* INT_MAX
    MaxCalls,       \* bound: calls made
    MaxFaults       \* bound: failing pthread calls

Producers == {Main} \cup Workers

ASSUME MainAssumption == Main \notin Workers
ASSUME CapacityAssumption == Capacity \in Nat /\ Capacity >= 1
ASSUME RowAssumption == RowLimit \in Nat /\ RowLimit >= 1
ASSUME BoundsAssumption == MaxCalls \in Nat /\ MaxFaults \in Nat

VARIABLES
    queue,     \* UI_EVENTS, from HEAD
    closed,    \* UI_EVENT_CLOSED
    running,   \* KUI_RENDER_RUNNING
    ui,        \* "up" from kui_enter, "forking" inside the fork bracket, "down"
    renderer,  \* what the renderer thread does; "none" when there is none
    current,   \* the event the renderer took
    pc,        \* what each producer does
    call,      \* the event each producer is posting
    acked,     \* ack.done of each producer's synchronous call
    handled,   \* every event handled, in order
    calls,     \* calls made so far
    faults     \* failing pthread calls so far

vars == <<queue, closed, running, ui, renderer, current, pc, call, acked, handled, calls,
          faults>>

Event ==
    [type : {"OUTPUT", "SCROLL", "STOP"}, by : Producers, n : 1 .. MaxCalls,
     rows : -RowLimit .. RowLimit, sync : BOOLEAN]

NoEvent == [type |-> "STOP", by |-> Main, n |-> 0, rows |-> 0, sync |-> FALSE]

\* What is accepted and not yet handled, in order.
Pending == (IF renderer = "handle" THEN <<current>> ELSE << >>) \o queue

Channel == INSTANCE UiChannel WITH pending <- Pending, open <- ~closed

Init ==
    /\ queue = << >> /\ closed = FALSE /\ ui = "up"
    /\ \/ running = TRUE /\ renderer = "loop" /\ faults = 0
       \/ running = FALSE /\ renderer = "none" /\ faults = 1 /\ MaxFaults > 0
    /\ current = NoEvent
    /\ pc = [p \in Producers |-> "idle"]
    /\ call = [p \in Producers |-> NoEvent]
    /\ acked = [p \in Producers |-> FALSE]
    /\ handled = << >> /\ calls = 0

Fault == faults < MaxFaults /\ faults' = faults + 1

-------------------------------------------------------------------------------
(* The condition variables.  pthread_cond_signal wakes one waiter if there *)
(* is one; a woken waiter takes the lock again and looks again.            *)

SleepsOnSpace == {p \in Producers : pc[p] = "space"}

\* Mutant: the room made in the queue is not signalled.
SignalSpace_Never == pc' = pc

\* UI_EVENT_SPACE signalled.
SignalSpace ==
    IF SleepsOnSpace = {} THEN pc' = pc
    ELSE \E p \in SleepsOnSpace : pc' = [pc EXCEPT ![p] = "post"]

\* UI_EVENT_AVAILABLE signalled or broadcast: the renderer is its only waiter.
WakeRenderer == renderer' = IF renderer = "sleep" THEN "loop" ELSE renderer

\* pthread_cond_wait may return with nothing signalled.
SpuriousWakeup ==
    /\ \/ /\ \E p \in SleepsOnSpace : pc' = [pc EXCEPT ![p] = "post"]
          /\ UNCHANGED renderer
       \/ renderer = "sleep" /\ WakeRenderer /\ UNCHANGED pc
    /\ UNCHANGED <<queue, closed, running, ui, current, call, acked, handled, calls, faults>>

-------------------------------------------------------------------------------
(* Posting.                                                                *)

\* ui_events_merge_scroll_locked: only into an adjacent scroll nobody waits for.
Merges(q, e) ==
    q # << >> /\ Channel!IsScroll(e) /\ Channel!IsScroll(q[Len(q)])

\* Mutant: Main, the only caller in sight, always takes the direct path.
ThroughQueue_Never(p) == running /\ p # Main

\* The producers for which kui_post_event_sync and kui_post_event take the queue.
ThroughQueue(p) == running

Call(p, type, rows, sync) ==
    [type |-> type, by |-> p, n |-> calls + 1, rows |-> rows, sync |-> sync]

\* kui_add_line and every other synchronous call, or a wheel event from kio.
Calls(p) ==
    {Call(p, "OUTPUT", 0, TRUE)} \cup {Call(p, "SCROLL", r, FALSE) : r \in {-1, 1}}

\* The renderer runs: the event is to be posted.  A synchronous call may fail before.
Begin(p) ==
    /\ pc[p] = "idle" /\ calls < MaxCalls /\ ui = "up"
    /\ ThroughQueue(p)
    /\ \E e \in Calls(p) :
         \/ /\ pc' = [pc EXCEPT ![p] = "post"]
            /\ call' = [call EXCEPT ![p] = e]
            /\ acked' = [acked EXCEPT ![p] = FALSE]
            /\ UNCHANGED faults
         \/ e.sync /\ Fault /\ UNCHANGED <<pc, call, acked>>
    /\ calls' = calls + 1
    /\ UNCHANGED <<queue, closed, running, ui, renderer, current, handled>>

\* No renderer: Main handles the event itself, an asynchronous one by way of the
\* queue, which it then empties.
BeginDirect ==
    /\ pc[Main] = "idle" /\ calls < MaxCalls /\ ui # "down"
    /\ ~ThroughQueue(Main)
    /\ \E e \in Calls(Main) :
         IF e.sync THEN handled' = Append(handled, e) /\ UNCHANGED queue
         ELSE /\ handled' = IF ~closed /\ Merges(queue, e)
                            THEN handled \o Channel!Folded(queue, e)
                            ELSE handled \o Append(queue, e)
              /\ queue' = << >>
    /\ calls' = calls + 1
    /\ UNCHANGED <<closed, running, ui, renderer, current, pc, call, acked, faults>>

\* One pass through ui_events_post_wait or ui_events_post_and_close under the lock.
Post(p) ==
    /\ pc[p] = "post"
    /\ LET e == call[p]
       IN  \/ /\ closed
              /\ pc' = [pc EXCEPT ![p] = IF e.type = "STOP" THEN "join" ELSE "idle"]
              /\ UNCHANGED <<queue, closed, renderer>>
           \/ /\ ~closed /\ Merges(queue, e)
              /\ queue' = Channel!Folded(queue, e)
              /\ pc' = [pc EXCEPT ![p] = "idle"]
              /\ UNCHANGED <<closed, renderer>>
           \/ /\ ~closed /\ ~Merges(queue, e) /\ Len(queue) = Capacity
              /\ pc' = [pc EXCEPT ![p] = "space"]
              /\ UNCHANGED <<queue, closed, renderer>>
           \/ /\ ~closed /\ ~Merges(queue, e) /\ Len(queue) < Capacity
              /\ queue' = Append(queue, e)
              /\ WakeRenderer
              /\ closed' = (e.type = "STOP")
              /\ pc' = [q \in Producers |->
                          IF q = p THEN (IF e.sync THEN "ack" ELSE "idle")
                          ELSE IF q \in SleepsOnSpace /\ e.type = "STOP" THEN "post"
                          ELSE pc[q]]
    /\ UNCHANGED <<running, ui, current, call, acked, handled, calls, faults>>

\* Mutant: the wait for the acknowledgement may end before it is given.
Acknowledged_Early(p) ==
    /\ pc[p] = "ack"
    /\ pc' = [pc EXCEPT ![p] = IF call[p].type = "STOP" THEN "join" ELSE "idle"]
    /\ UNCHANGED <<queue, closed, running, ui, renderer, current, call, acked, handled, calls,
                   faults>>

\* The acknowledgement is seen and the call returns.
Acknowledged(p) ==
    /\ pc[p] = "ack" /\ acked[p]
    /\ pc' = [pc EXCEPT ![p] = IF call[p].type = "STOP" THEN "join" ELSE "idle"]
    /\ UNCHANGED <<queue, closed, running, ui, renderer, current, call, acked, handled, calls,
                   faults>>

-------------------------------------------------------------------------------
(* The renderer thread.                                                    *)

\* Mutant: the caller is let go before its event is handled.
Take_Acks ==
    /\ renderer = "loop" /\ queue # << >>
    /\ current' = Head(queue) /\ queue' = Tail(queue)
    /\ renderer' = "handle"
    /\ SignalSpace
    /\ acked' = [acked EXCEPT ![Head(queue).by] = @ \/ Head(queue).sync]
    /\ UNCHANGED <<closed, running, ui, call, handled, calls, faults>>

\* ui_events_wait_next: take the front event, even of a closed queue.
Take ==
    /\ renderer = "loop" /\ queue # << >>
    /\ current' = Head(queue) /\ queue' = Tail(queue)
    /\ renderer' = "handle"
    /\ SignalSpace
    /\ UNCHANGED <<closed, running, ui, call, acked, handled, calls, faults>>

\* Nothing queued: sleep until something is.
Sleep ==
    /\ renderer = "loop" /\ queue = << >> /\ ~closed
    /\ renderer' = "sleep"
    /\ UNCHANGED <<queue, closed, running, ui, current, pc, call, acked, handled, calls,
                   faults>>

\* Mutant: a closed queue ends the thread, whatever is still in it.
Finish_Closed ==
    /\ renderer = "loop" /\ closed
    /\ renderer' = "ended"
    /\ UNCHANGED <<queue, closed, running, ui, current, pc, call, acked, handled, calls,
                   faults>>

\* Nothing queued and nothing to come: the thread ends.
Finish ==
    /\ renderer = "loop" /\ queue = << >> /\ closed
    /\ renderer' = "ended"
    /\ UNCHANGED <<queue, closed, running, ui, current, pc, call, acked, handled, calls,
                   faults>>

\* kui_handle_event, which ends by acknowledging; STOP ends the thread.
HandleEvent ==
    /\ renderer = "handle"
    /\ handled' = Append(handled, current)
    /\ acked' = IF current.sync THEN [acked EXCEPT ![current.by] = TRUE] ELSE acked
    /\ renderer' = IF current.type = "STOP" THEN "ended" ELSE "loop"
    /\ UNCHANGED <<queue, closed, running, ui, current, pc, call, calls, faults>>

-------------------------------------------------------------------------------
(* Start and stop.                                                         *)

\* ui_events_reset.
Reset == queue' = << >> /\ closed' = FALSE

\* kui_render_thread_stop, from kui_fork_prepare or kui_exit: post STOP and close; if
\* the acknowledgement cannot be initialised, close without it.
BeginStop(next) ==
    /\ pc[Main] = "idle" /\ ui = "up" /\ running /\ calls < MaxCalls
    /\ calls' = calls + 1 /\ ui' = next
    /\ \/ /\ pc' = [pc EXCEPT ![Main] = "post"]
          /\ call' = [call EXCEPT ![Main] = Call(Main, "STOP", 0, TRUE)]
          /\ acked' = [acked EXCEPT ![Main] = FALSE]
          /\ UNCHANGED <<closed, renderer, faults>>
       \/ /\ Fault
          /\ closed' = TRUE
          /\ WakeRenderer
          /\ pc' = [p \in Producers |->
                      IF p = Main THEN "join" ELSE IF p \in SleepsOnSpace THEN "post" ELSE pc[p]]
          /\ UNCHANGED <<call, acked>>
    /\ UNCHANGED <<queue, running, current, handled>>

\* The contract of ui_events_reset.
ProducersJoined == \A w \in Workers : pc[w] = "idle"

\* pthread_join, then the queue is reset.  kui_exit closes it for good.
Join ==
    /\ pc[Main] = "join" /\ renderer = "ended" /\ ProducersJoined
    /\ renderer' = "none" /\ running' = FALSE
    /\ queue' = << >> /\ closed' = (ui = "down")
    /\ pc' = [pc EXCEPT ![Main] = "idle"]
    /\ UNCHANGED <<ui, current, call, acked, handled, calls, faults>>

\* Both when there is no renderer to stop.
StopNothing(next) ==
    /\ pc[Main] = "idle" /\ ui = "up" /\ ~running
    /\ ui' = next
    /\ handled' = IF next = "down" THEN handled \o queue ELSE handled
    /\ queue' = IF next = "down" THEN << >> ELSE queue
    /\ closed' = (next = "down" \/ closed)
    /\ UNCHANGED <<running, renderer, current, pc, call, acked, calls, faults>>

\* kui_fork_parent: kui_render_thread_start, whose pthread_create may fail.
ForkParent ==
    /\ pc[Main] = "idle" /\ ui = "forking"
    /\ ui' = "up"
    /\ Reset
    /\ \/ running' = TRUE /\ renderer' = "loop" /\ UNCHANGED faults
       \/ running' = FALSE /\ renderer' = "none" /\ Fault
    /\ UNCHANGED <<current, pc, call, acked, handled, calls>>

ForkPrepare == BeginStop("forking") \/ StopNothing("forking")
Exit        == BeginStop("down") \/ StopNothing("down")

-------------------------------------------------------------------------------
Produce(p) == Post(p) \/ Acknowledged(p)
Renderer   == Take \/ Sleep \/ Finish \/ HandleEvent

Done == ui = "down" /\ \A p \in Producers : pc[p] = "idle" /\ UNCHANGED vars

Next ==
    \/ \E p \in Producers : Begin(p) \/ Produce(p)
    \/ BeginDirect \/ Renderer \/ ForkPrepare \/ Exit \/ Join \/ ForkParent
    \/ SpuriousWakeup \/ Done

\* Every thread is scheduled again, and a free mutex is granted.
Spec ==
    /\ Init /\ [][Next]_vars
    /\ WF_vars(Renderer) /\ WF_vars(Join)
    /\ \A p \in Producers : WF_vars(Produce(p))

-------------------------------------------------------------------------------
(* What the interface promises.                                            *)

\* The type of every variable, the bound of the queue, and that a renderer exists
\* exactly while KUI_RENDER_RUNNING says so.
TypeOK ==
    /\ queue \in Seq(Event) /\ Len(queue) <= Capacity
    /\ closed \in BOOLEAN /\ running \in BOOLEAN
    /\ ui \in {"up", "forking", "down"}
    /\ renderer \in {"none", "loop", "sleep", "handle", "ended"}
    /\ running <=> renderer # "none"
    /\ current \in Event \cup {NoEvent}
    /\ pc \in [Producers -> {"idle", "post", "space", "ack", "join"}]
    /\ call \in [Producers -> Event \cup {NoEvent}]
    /\ acked \in [Producers -> BOOLEAN]
    /\ handled \in Seq(Event)
    /\ calls \in Nat /\ faults \in Nat

\* Queue, renderer, restarts and the direct path together are one ordered channel:
\* nothing accepted is dropped, doubled or overtaken, no scroll is folded across
\* another event, and nothing follows STOP until all before it was handled
\* (ui_events.c: "Producers that race with shutdown either precede this barrier or fail").
ChannelSpec == Channel!Spec

\* Each caller's events are handled in the order of its calls, also when the renderer
\* was stopped, failed to start, or was started again between them.
ProgramOrder ==
    \A i, j \in DOMAIN handled :
        i < j /\ handled[i].by = handled[j].by => handled[i].n < handled[j].n

\* "Synchronous requests provide an ordering barrier": when one is acknowledged it has
\* been handled, and so has every earlier call of its caller that was accepted.
SyncIsBarrier ==
    \A p \in Producers :
        pc[p] = "ack" /\ acked[p] =>
            /\ \E i \in DOMAIN handled : handled[i] = call[p]
            /\ \A i \in DOMAIN queue : queue[i].by # p

\* The acknowledgement lives on its caller's stack: whoever waits in the queue or is
\* being handled with one, its caller is still inside the call that owns it.
AckOutlivesEvent ==
    LET held == {queue[i] : i \in DOMAIN queue}
                  \cup (IF renderer = "handle" THEN {current} ELSE {})
    IN  \A e \in held : e.sync => pc[e.by] = "ack" /\ call[e.by] = e /\ ~acked[e.by]

\* Every call returns: no wakeup is lost between the producers and the renderer that
\* share two condition variables, and stopping never waits for ever.
CallsReturn == \A p \in Producers : pc[p] # "idle" ~> pc[p] = "idle"
===============================================================================
