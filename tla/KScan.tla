--------------------------------- MODULE KScan ---------------------------------
(***************************************************************************)
(* The scan session of src/network/scan/kscan.c and kscan_dispatch.c, on   *)
(* the worker pool.  The session thread dispatches one build job per       *)
(* target; a worker reads the target and leaves either a transaction in    *)
(* READY_QUEUE or an event in EVENT_QUEUE; the session thread transmits    *)
(* what is ready, one per round, keeps it pending until its deadline, and  *)
(* retires every target once.  BATCH_LIMIT bounds the staged targets and   *)
(* is also the capacity of the job queue and of both result queues, whose  *)
(* pushes fail when full.  CANCELLING and FATAL are shared with the        *)
(* workers as atomics, BUILD_OUTSTANDING counts the jobs that still refer  *)
(* to the session.                                                         *)
(***************************************************************************)
EXTENDS KWorker

CONSTANTS
    Batch,         \* BATCH_LIMIT
    PendingLimit,  \* PENDING_LIMIT
    CaptureTotal   \* CAPTURE_LIMIT_TOTAL, in transactions: all have one size

ASSUME BatchAssumption == Batch = QueueCapacity
ASSUME LimitAssumption ==
    PendingLimit \in Nat \ {0} /\ CaptureTotal \in Nat \ {0}

Targets == Jobs

VARIABLES
    main,         \* where the session thread is
    todo,         \* the targets from NEXT_TARGET on
    staged,       \* STAGED_TARGETS
    outstanding,  \* BUILD_OUTSTANDING
    build,        \* how far each worker is in kscan_worker_build
    ready,        \* READY_QUEUE
    events,       \* EVENT_QUEUE
    held,         \* the transaction kscan_transmit_ready popped, if any
    pending,      \* the pending list
    expired,      \* how many at its head are past their deadline
    paced,        \* NOW_NS < NEXT_TX_NS
    capture,      \* CAPTURE_BYTES_ACTIVE
    blocked,      \* CAPTURE_BLOCKED
    auto,         \* TX_INTERFACE_AUTO
    locked,       \* TX_AUTO_LOCKED
    cancelling,   \* CANCELLING
    fatal,        \* FATAL
    retired       \* how often each target was retired; TARGET_RETIRED is their sum

queues  == <<build, ready, events>>
wire    == <<held, pending, expired, paced, capture, blocked, auto, locked>>
flags   == <<cancelling, fatal>>
vars    == <<poolVars, main, todo, staged, outstanding, queues, wire, flags, retired>>

Init ==
    /\ PoolInit
    /\ main = "open" /\ todo = Targets
    /\ staged = 0 /\ outstanding = 0
    /\ build = [w \in Threads |-> "start"]
    /\ ready = << >> /\ events = << >>
    /\ held = << >> /\ pending = << >> /\ expired = 0
    /\ paced = FALSE /\ capture = 0 /\ blocked = FALSE
    /\ auto \in BOOLEAN /\ locked = FALSE
    /\ cancelling = FALSE /\ fatal = FALSE
    /\ retired = [t \in Targets |-> 0]

TxEvent(t)    == [target |-> t, staged |-> FALSE]  \* TX_ERROR: already unstaged
BuildEvent(t) == [target |-> t, staged |-> TRUE]   \* NO_IPV4 or BUILD_ERROR

\* kscan_event_submit: no memory or no room is fatal.
SubmitEvent(e) ==
    \/ /\ Len(events) < Batch
       /\ events' = Append(events, e) /\ UNCHANGED <<fatal, faults>>
    \/ /\ Len(events) >= Batch
       /\ fatal' = TRUE /\ UNCHANGED <<events, faults>>
    \/ /\ Fault
       /\ fatal' = TRUE /\ UNCHANGED events

-------------------------------------------------------------------------------
(* A worker: kscan_worker_build.  CANCELLING is looked at three times.     *)

Builds(w) == thread[w] = "run"

BuildMoves(w, step) == build' = [build EXCEPT ![w] = step]

\* At the start, and again once the target is read and once the packet is made.
BuildLooks(w) ==
    /\ Builds(w) /\ build[w] \in {"start", "read", "made"}
    /\ IF cancelling THEN BuildMoves(w, "clean") /\ UNCHANGED faults
       ELSE \/ /\ build[w] = "start" /\ BuildMoves(w, "read") /\ UNCHANGED faults
            \/ /\ build[w] = "read" /\ UNCHANGED faults
               /\ BuildMoves(w, "made") \/ BuildMoves(w, "event")  \* no IPv4 address
            \/ /\ build[w] = "made" /\ BuildMoves(w, "push") /\ UNCHANGED faults
            \/ /\ build[w] \in {"start", "read"} /\ Fault /\ BuildMoves(w, "event")
    /\ UNCHANGED <<pool, jobs, stopping, thread, hand, fate, main, todo, staged, outstanding,
                   ready, events, wire, flags, retired>>

\* kscan_dispatch_ready; a full queue makes it a build error.
BuildPushes(w) ==
    /\ Builds(w) /\ build[w] = "push"
    /\ IF Len(ready) < Batch
       THEN ready' = Append(ready, hand[w]) /\ BuildMoves(w, "clean")
       ELSE UNCHANGED ready /\ BuildMoves(w, "event")
    /\ UNCHANGED <<poolVars, main, todo, staged, outstanding, events, wire, flags, retired>>

BuildReports(w) ==
    /\ Builds(w) /\ build[w] = "event"
    /\ SubmitEvent(BuildEvent(hand[w]))
    /\ BuildMoves(w, "clean")
    /\ UNCHANGED <<pool, jobs, stopping, thread, hand, fate, main, todo, staged, outstanding,
                   ready, wire, cancelling, retired>>

\* BUILD_OUTSTANDING goes down last: from here on the worker leaves the session alone.
BuildCleans(w) ==
    /\ Builds(w) /\ build[w] = "clean"
    /\ outstanding' = outstanding - 1
    /\ BuildMoves(w, "done")
    /\ UNCHANGED <<poolVars, main, todo, staged, ready, events, wire, flags, retired>>

BuildReturns(w) ==
    /\ build[w] = "done" /\ Return(w)
    /\ BuildMoves(w, "start")
    /\ UNCHANGED <<main, todo, staged, outstanding, ready, events, wire, flags, retired>>

Worker(w) ==
    \/ BuildLooks(w) \/ BuildPushes(w) \/ BuildReports(w) \/ BuildCleans(w)
    \/ BuildReturns(w)
    \/ /\ ThreadStep(w)
       /\ UNCHANGED <<main, todo, staged, outstanding, queues, wire, flags, retired>>

-------------------------------------------------------------------------------
(* The session thread: kscan_session_run_tx.                               *)

session == <<todo, staged, outstanding, queues, wire, flags, retired>>

\* Mutant: the probes still waiting for their deadline are forgotten.
Complete_Early ==
    /\ todo = {} /\ outstanding = 0
    /\ ready = << >> /\ events = << >>
    /\ staged = 0

\* kscan_session_complete.
Complete ==
    /\ todo = {} /\ outstanding = 0
    /\ ready = << >> /\ events = << >> /\ pending = << >>
    /\ staged = 0

\* kscan_session_open has its pool, or not.
OpenStep ==
    /\ main = "open"
    /\ \/ (CreateThread \/ CreateFails \/ (pool = "failing" /\ Destroy)) /\ UNCHANGED main
       \/ pool = "open" /\ main' = "loop" /\ UNCHANGED poolVars
       \/ pool = "gone" /\ main' = "closed" /\ UNCHANGED poolVars
    /\ UNCHANGED session

\* The head of the loop, and of kscan_session_schedule.
LoopStep ==
    /\ main = "loop"
    /\ \/ Complete /\ main' = "close" /\ UNCHANGED <<flags, faults>>
       \/ /\ ~Complete /\ ~cancelling /\ ~fatal
          /\ main' = "drain" /\ UNCHANGED <<flags, faults>>
       \/ /\ ~Complete /\ (cancelling \/ fatal)
          /\ main' = "close" /\ cancelling' = TRUE /\ UNCHANGED <<fatal, faults>>
       \/ /\ ~Complete /\ Fault                        \* no clock
          /\ main' = "close" /\ cancelling' = TRUE /\ fatal' = TRUE
    /\ UNCHANGED <<pool, jobs, stopping, thread, hand, fate, todo, staged, outstanding, queues,
                   wire, retired>>

\* Mutant: a TX_ERROR event unstages its target a second time.
Unstages_Twice(e) == staged > 0

\* The events that end the stay of their target among the staged ones.
Unstages(e) == e.staged /\ staged > 0

\* kscan_drain_events, before and after the work of a round.
DrainStep ==
    /\ main \in {"drain", "redrain"}
    /\ IF events # << >>
       THEN /\ events' = Tail(events)
            /\ retired' = [retired EXCEPT ![Head(events).target] = @ + 1]
            /\ staged' = IF Unstages(Head(events)) THEN staged - 1 ELSE staged
            /\ UNCHANGED main
       ELSE /\ main' = IF main = "drain" THEN "retire" ELSE "wait"
            /\ UNCHANGED <<events, retired, staged>>
    /\ UNCHANGED <<poolVars, todo, outstanding, build, ready, wire, flags>>

\* Mutant: the reservation is left to the transaction that is freed.
CaptureLeft_Kept(n) == capture

\* kscan_transaction_release, of n transactions.
CaptureLeft(n) == capture - n

\* kscan_retire_expired: the pending list is in the order of the deadlines.
RetireStep ==
    /\ main = "retire" /\ main' = "refill"
    /\ retired' = [t \in Targets |->
                      IF \E i \in 1 .. expired : pending[i] = t THEN retired[t] + 1
                      ELSE retired[t]]
    /\ pending' = SubSeq(pending, expired + 1, Len(pending))
    /\ capture' = CaptureLeft(expired)
    /\ blocked' = (blocked /\ expired = 0)
    /\ expired' = 0
    /\ UNCHANGED <<poolVars, todo, staged, outstanding, queues, held, paced, auto, locked,
                   flags>>

MoreTargets == todo # {} /\ staged < Batch /\ ~cancelling /\ ~fatal

\* kscan_refill_targets and kscan_dispatch_build, one target at a time.
RefillStep ==
    /\ main = "refill"
    /\ \/ /\ MoreTargets /\ Dispatchable
          /\ LET t == CHOOSE x \in todo : TRUE
             IN  Dispatch(t) /\ todo' = todo \ {t}
          /\ staged' = staged + 1 /\ outstanding' = outstanding + 1
          /\ UNCHANGED <<main, flags>>
       \/ /\ ~MoreTargets \/ Deferred
          /\ main' = "transmit"
          /\ UNCHANGED <<poolVars, todo, staged, outstanding, flags>>
       \/ /\ MoreTargets /\ Fault                      \* no memory for the job
          /\ main' = "close" /\ fatal' = TRUE /\ cancelling' = TRUE
          /\ UNCHANGED <<pool, jobs, stopping, thread, hand, fate, todo, staged, outstanding>>
    /\ UNCHANGED <<queues, wire, retired>>

\* Mutant: with an automatic interface nothing is ever sent first.
Gated_NoFirst ==
    \/ Len(pending) >= PendingLimit \/ paced
    \/ blocked /\ pending # << >>
    \/ auto /\ ~locked

\* The gates of kscan_transmit_ready.
Gated ==
    \/ Len(pending) >= PendingLimit \/ paced
    \/ blocked /\ pending # << >>
    \/ auto /\ ~locked /\ pending # << >>

TransmitStep ==
    /\ main = "transmit"
    /\ blocked' = (blocked /\ pending # << >>)
    /\ IF Gated \/ ready = << >>
       THEN main' = "redrain" /\ UNCHANGED <<ready, held>>
       ELSE main' = "send" /\ held' = <<Head(ready)>> /\ ready' = Tail(ready)
    /\ UNCHANGED <<poolVars, todo, staged, outstanding, build, events, pending, expired, paced,
                   capture, auto, locked, flags, retired>>

\* kscan_capture_reserve_tx defers: the transaction goes back to the queue.
SendDeferred ==
    /\ main = "send" /\ capture > CaptureTotal - 1
    /\ held' = << >>
    /\ IF Len(ready) < Batch
       THEN /\ ready' = Append(ready, held[1]) /\ main' = "redrain"
            /\ blocked' = TRUE /\ UNCHANGED flags
       ELSE /\ fatal' = TRUE /\ cancelling' = TRUE /\ main' = "close"
            /\ blocked' = TRUE /\ UNCHANGED ready
    /\ UNCHANGED <<poolVars, todo, staged, outstanding, build, events, pending, expired, paced,
                   capture, auto, locked, retired>>

\* It fails, for want of memory or room, or the write does: the target ends in a
\* TX_ERROR event and is unstaged at once.  A failed write has used up its slot.
SendFails ==
    /\ main = "send" /\ capture <= CaptureTotal - 1
    /\ faults < MaxFaults
    /\ \/ /\ Len(events) < Batch
          /\ events' = Append(events, TxEvent(held[1])) /\ fatal' = fatal
       \/ fatal' = TRUE /\ UNCHANGED events
    /\ faults' = faults + 1
    /\ held' = << >> /\ main' = "redrain"
    /\ staged' = IF staged > 0 THEN staged - 1 ELSE staged
    /\ blocked' = FALSE /\ paced' \in {paced, TRUE}
    /\ UNCHANGED <<pool, jobs, stopping, thread, hand, fate, todo, outstanding, build, ready,
                   pending, expired, capture, auto, locked, cancelling, retired>>

\* The frame was written and the clock then failed.
SendLosesClock ==
    /\ main = "send" /\ capture <= CaptureTotal - 1 /\ Fault
    /\ held' = << >> /\ blocked' = FALSE
    /\ fatal' = TRUE /\ cancelling' = TRUE /\ main' = "close"
    /\ UNCHANGED <<pool, jobs, stopping, thread, hand, fate, todo, staged, outstanding, queues,
                   pending, expired, paced, capture, auto, locked, retired>>

SendSucceeds ==
    /\ main = "send" /\ capture <= CaptureTotal - 1
    /\ capture' = capture + 1 /\ blocked' = FALSE
    /\ paced' = TRUE
    /\ staged' = IF staged > 0 THEN staged - 1 ELSE staged
    /\ locked' \in {locked, auto}                     \* the interface may be locked now
    /\ pending' = pending \o held
    /\ held' = << >> /\ main' = "redrain"
    /\ UNCHANGED <<poolVars, todo, outstanding, queues, expired, auto, flags, retired>>

\* The end of a round: done, out of time, or asleep until the next one.
WaitStep ==
    /\ main = "wait"
    /\ \/ Complete /\ main' = "close" /\ UNCHANGED <<cancelling, faults>>
       \/ ~Complete /\ main' = "loop" /\ UNCHANGED <<cancelling, faults>>
       \/ ~Complete /\ Fault /\ main' = "close" /\ cancelling' = TRUE
    /\ UNCHANGED <<pool, jobs, stopping, thread, hand, fate, todo, staged, outstanding, queues,
                   wire, fatal, retired>>

\* kscan_session_close: stop the pool, the fast way after a failure.
CloseStep ==
    /\ main = "close" /\ pool = "open"
    /\ IF cancelling \/ fatal
       THEN Cancel /\ outstanding' = outstanding - Len(jobs)
       ELSE Close /\ UNCHANGED outstanding
    /\ cancelling' = TRUE /\ main' = "join"
    /\ UNCHANGED <<todo, staged, queues, wire, fatal, retired>>

\* The workers are joined, then everything left is released.
FreeStep ==
    /\ main = "join"
    /\ \/ Destroy /\ UNCHANGED <<main, ready, events, pending, expired, capture, blocked, locked>>
       \/ /\ pool = "gone" /\ UNCHANGED poolVars
          /\ main' = "closed"
          /\ ready' = << >> /\ events' = << >>
          /\ pending' = << >> /\ expired' = 0
          /\ capture' = CaptureLeft(Len(pending)) /\ blocked' = (blocked /\ pending = << >>)
          /\ locked' = FALSE
    /\ UNCHANGED <<todo, staged, outstanding, build, held, paced, auto, flags, retired>>

SendStep == SendDeferred \/ SendFails \/ SendLosesClock \/ SendSucceeds

Session ==
    \/ OpenStep \/ LoopStep \/ DrainStep \/ RetireStep \/ RefillStep \/ TransmitStep
    \/ SendStep \/ WaitStep \/ CloseStep \/ FreeStep

\* Deadlines and the transmit interval pass.
TimePasses ==
    /\ \/ expired < Len(pending) /\ expired' = expired + 1 /\ UNCHANGED paced
       \/ paced /\ paced' = FALSE /\ UNCHANGED expired
    /\ UNCHANGED <<poolVars, main, todo, staged, outstanding, queues, held, pending, capture,
                   blocked, auto, locked, flags, retired>>

Closed == main = "closed" /\ UNCHANGED vars

Next ==
    \/ Session \/ TimePasses \/ Closed
    \/ \E w \in Threads : Worker(w)
    \/ SpuriousWakeup /\ UNCHANGED <<main, session>>

\* Both kinds of thread are scheduled, jobs return, and time goes on.
Spec ==
    /\ Init /\ [][Next]_vars
    /\ WF_vars(Session)
    /\ WF_vars(expired < Len(pending) /\ TimePasses)
    /\ WF_vars(paced /\ TimePasses)
    /\ \A w \in Threads : WF_vars(Worker(w))

-------------------------------------------------------------------------------
(* What the session promises.                                              *)

\* The targets that are staged: their job is queued, their worker has not yet handed
\* over its result, or the result has not been taken up.
Building(w) == thread[w] = "run" /\ build[w] \in {"start", "read", "made", "push", "event"}

StagedTargets ==
    Queued \cup {hand[w] : w \in {v \in Threads : Building(v)}}
      \cup {ready[i] : i \in DOMAIN ready} \cup {held[i] : i \in DOMAIN held}
      \cup {events[i].target : i \in {k \in DOMAIN events : events[k].staged}}

\* The type of every variable.
TypeOK ==
    /\ PoolTypeOK
    /\ main \in {"open", "loop", "drain", "retire", "refill", "transmit", "send",
                  "redrain", "wait", "close", "join", "closed"}
    /\ todo \subseteq Targets /\ staged \in 0 .. Batch /\ outstanding \in Nat
    /\ build \in [Threads -> {"start", "read", "made", "push", "event", "clean", "done"}]
    /\ ready \in Seq(Targets)
    /\ events \in Seq([target : Targets, staged : BOOLEAN])
    /\ held \in {<< >>} \cup {<<t>> : t \in Targets}
    /\ pending \in Seq(Targets) /\ expired \in 0 .. Len(pending)
    /\ paced \in BOOLEAN /\ capture \in Nat /\ blocked \in BOOLEAN
    /\ auto \in BOOLEAN /\ locked \in BOOLEAN
    /\ cancelling \in BOOLEAN /\ fatal \in BOOLEAN
    /\ retired \in [Targets -> Nat]

\* STAGED_TARGETS is exact while the session goes on, so that every push of a worker
\* and of the session thread finds room: no target is refused, and none made fatal,
\* for want of space in a queue of BATCH_LIMIT.
StagedIsExact ==
    /\ main \notin {"close", "join", "closed"} /\ ~cancelling /\ ~fatal
         => staged = Cardinality(StagedTargets)
    /\ \A w \in Threads : Building(w) /\ ~fatal /\ ~cancelling
         => Len(ready) < Batch /\ Len(events) < Batch
    /\ main = "send" /\ ~fatal => Len(ready) < Batch /\ Len(events) < Batch

\* Capture memory is given back with the transaction that reserved it.
CaptureIsExact == capture = Len(pending) /\ capture <= CaptureTotal

\* A target is retired once, and a session that ends without a failure retired them all.
RetiredOnce ==
    /\ \A t \in Targets : retired[t] <= 1
    /\ main = "close" /\ ~cancelling /\ ~fatal => \A t \in Targets : retired[t] = 1

\* The session is freed only when no worker holds it and no build job counts on it.
SessionOutlivesWorkers ==
    main = "closed" =>
        /\ outstanding = 0
        /\ \A w \in Threads : thread[w] \in {"none", "ended"}

\* A session that was opened ends: completely, or after a failure.
SessionEnds == <>(main = "closed")
===============================================================================
