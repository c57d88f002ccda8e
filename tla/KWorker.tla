-------------------------------- MODULE KWorker --------------------------------
(***************************************************************************)
(* The worker pool of src/network/scan/kworker.c: threads that share a     *)
(* bounded queue of jobs, one mutex and the condition HAS_WORK.  One       *)
(* thread owns the pool: it opens it, dispatches jobs, and either closes   *)
(* it, which lets the queued jobs run, or cancels it, which hands them to  *)
(* their CANCEL; both join every thread before the pool is freed.          *)
(* A critical section is one step; pthread_cond_wait is a step of its own  *)
(* and may return with nothing signalled.  What a job does is the client's.*)
(***************************************************************************)
EXTENDS Naturals, Sequences, FiniteSets

CONSTANTS
    Threads,        \* THREAD_COUNT threads
    Jobs,           \* what may be dispatched, each once
    QueueCapacity,  \* QUEUE_CAPACITY
    MaxFaults       \* bound: failing system calls

ASSUME ThreadsAssumption == IsFiniteSet(Threads) /\ Threads # {}
ASSUME JobsAssumption == Jobs # {}
ASSUME CapacityAssumption == QueueCapacity \in Nat /\ QueueCapacity >= 1
ASSUME FaultsAssumption == MaxFaults \in Nat

VARIABLES
    pool,      \* "creating", "open", "failing", "stopping" or "gone"
    jobs,      \* QUEUE, from HEAD to TAIL
    stopping,  \* STOPPING
    thread,    \* what each thread does
    hand,      \* the job each thread took; meaningful while it runs
    fate,      \* what became of each job
    faults     \* failing calls so far

poolVars == <<pool, jobs, stopping, thread, hand, fate, faults>>

Fault == faults < MaxFaults /\ faults' = faults + 1

PoolInit ==
    /\ pool = "creating" /\ jobs = << >> /\ stopping = FALSE
    /\ thread = [w \in Threads |-> "none"]
    /\ hand = [w \in Threads |-> CHOOSE j \in Jobs : TRUE]
    /\ fate = [j \in Jobs |-> "none"]
    /\ faults = 0

Sleepers == {w \in Threads : thread[w] = "sleep"}
\* Mutant: HAS_WORK is signalled where it should be broadcast.
AllWoken_One ==
    LET lucky == CHOOSE w \in Threads : thread[w] = "sleep" \/ Sleepers = {}
    IN  [w \in Threads |-> IF thread[w] = "sleep" /\ w = lucky THEN "loop" ELSE thread[w]]

AllWoken == [w \in Threads |-> IF thread[w] = "sleep" THEN "loop" ELSE thread[w]]

-------------------------------------------------------------------------------
(* The owner.                                                              *)

\* kworker_pool_open: one pthread_create after another.
CreateThread ==
    /\ pool = "creating"
    /\ \E w \in Threads :
         /\ thread[w] = "none"
         /\ thread' = [thread EXCEPT ![w] = "loop"]
         /\ pool' = IF \A v \in Threads \ {w} : thread[v] # "none" THEN "open" ELSE pool
    /\ UNCHANGED <<jobs, stopping, hand, fate, faults>>

\* One fails: the threads made so far are told to stop and joined.
CreateFails ==
    /\ pool = "creating" /\ Fault
    /\ pool' = "failing" /\ stopping' = TRUE /\ thread' = AllWoken
    /\ UNCHANGED <<jobs, hand, fate>>

\* kworker_dispatch: refused while stopping, deferred when full, else queued and one
\* thread woken.
Dispatchable == pool = "open" /\ ~stopping /\ Len(jobs) < QueueCapacity
Deferred     == pool = "open" /\ ~stopping /\ Len(jobs) >= QueueCapacity

Dispatch(j) ==
    /\ Dispatchable
    /\ jobs' = Append(jobs, j)
    /\ fate' = [fate EXCEPT ![j] = "queued"]
    /\ IF Sleepers = {} THEN UNCHANGED thread
       ELSE \E w \in Sleepers : thread' = [thread EXCEPT ![w] = "loop"]
    /\ UNCHANGED <<pool, stopping, hand, faults>>

\* kworker_pool_close: the queued jobs will still run.
Close ==
    /\ pool = "open"
    /\ pool' = "stopping" /\ stopping' = TRUE /\ thread' = AllWoken
    /\ UNCHANGED <<jobs, hand, fate, faults>>

Queued == {jobs[i] : i \in DOMAIN jobs}

\* Mutant: the queue is emptied after the lock was let go and the threads woken.
Cancel_Late ==
    /\ pool = "open"
    /\ pool' = "stopping" /\ stopping' = TRUE /\ thread' = AllWoken
    /\ fate' = [j \in Jobs |-> IF j \in Queued THEN "cancelled" ELSE fate[j]]
    /\ UNCHANGED <<jobs, hand, faults>>

\* kworker_pool_cancel: they go to their CANCEL, under the lock.
Cancel ==
    /\ pool = "open"
    /\ pool' = "stopping" /\ stopping' = TRUE /\ thread' = AllWoken
    /\ jobs' = << >>
    /\ fate' = [j \in Jobs |-> IF j \in Queued THEN "cancelled" ELSE fate[j]]
    /\ UNCHANGED <<hand, faults>>

\* Mutant: the queue and the threads are freed when the jobs are out of the queue.
Destroy_Unjoined ==
    /\ pool \in {"failing", "stopping"} /\ jobs = << >>
    /\ pool' = "gone"
    /\ UNCHANGED <<jobs, stopping, thread, hand, fate, faults>>

\* kworker_pool_destroy, and the end of a failed open: every thread is joined, then
\* the pool is freed.
Destroy ==
    /\ pool \in {"failing", "stopping"}
    /\ \A w \in Threads : thread[w] \in {"none", "ended"}
    /\ pool' = "gone"
    /\ UNCHANGED <<jobs, stopping, thread, hand, fate, faults>>

-------------------------------------------------------------------------------
(* A thread: kworker_thread.                                               *)

Take(w) ==
    /\ thread[w] = "loop" /\ jobs # << >>
    /\ hand' = [hand EXCEPT ![w] = Head(jobs)] /\ jobs' = Tail(jobs)
    /\ thread' = [thread EXCEPT ![w] = "run"]
    /\ fate' = [fate EXCEPT ![Head(jobs)] = "running"]
    /\ UNCHANGED <<pool, stopping, faults>>

Sleep(w) ==
    /\ thread[w] = "loop" /\ jobs = << >> /\ ~stopping
    /\ thread' = [thread EXCEPT ![w] = "sleep"]
    /\ UNCHANGED <<pool, jobs, stopping, hand, fate, faults>>

End(w) ==
    /\ thread[w] = "loop" /\ jobs = << >> /\ stopping
    /\ thread' = [thread EXCEPT ![w] = "ended"]
    /\ UNCHANGED <<pool, jobs, stopping, hand, fate, faults>>

\* RUN returns.
Return(w) ==
    /\ thread[w] = "run"
    /\ thread' = [thread EXCEPT ![w] = "loop"]
    /\ fate' = [fate EXCEPT ![hand[w]] = "ran"]
    /\ UNCHANGED <<pool, jobs, stopping, hand, faults>>

SpuriousWakeup ==
    /\ \E w \in Sleepers : thread' = [thread EXCEPT ![w] = "loop"]
    /\ UNCHANGED <<pool, jobs, stopping, hand, fate, faults>>

ThreadStep(w) == Take(w) \/ Sleep(w) \/ End(w)

\* A client that dispatches each job at most once and then closes or cancels.
PoolDone == pool = "gone" /\ UNCHANGED poolVars

PoolNext ==
    \/ CreateThread \/ CreateFails \/ Close \/ Cancel \/ Destroy
    \/ \E j \in Jobs : fate[j] = "none" /\ Dispatch(j)
    \/ \E w \in Threads : ThreadStep(w) \/ Return(w)
    \/ SpuriousWakeup \/ PoolDone

PoolSpec == PoolInit /\ [][PoolNext]_poolVars

-------------------------------------------------------------------------------
(* What the pool promises.                                                 *)

PoolTypeOK ==
    /\ pool \in {"creating", "open", "failing", "stopping", "gone"}
    /\ jobs \in Seq(Jobs) /\ Len(jobs) <= QueueCapacity
    /\ stopping \in BOOLEAN
    /\ thread \in [Threads -> {"none", "loop", "sleep", "run", "ended"}]
    /\ hand \in [Threads -> Jobs]
    /\ fate \in [Jobs -> {"none", "queued", "running", "ran", "cancelled"}]
    /\ faults \in Nat

\* An accepted job is run by one thread or cancelled, never both and never twice: its
\* payload is freed by whoever got it.
FateIsFinal ==
    [][\A j \in Jobs :
         /\ fate[j] \in {"ran", "cancelled"} => fate'[j] = fate[j]
         /\ fate[j] = "running" => fate'[j] \in {"running", "ran"}]_poolVars

\* When the pool is freed no thread is left that could touch it, and no accepted job
\* is left that nobody will free.
GoneIsQuiet ==
    pool = "gone" =>
        /\ \A w \in Threads : thread[w] \in {"none", "ended"}
        /\ \A j \in Jobs : fate[j] \notin {"queued", "running"}
===============================================================================
