------------------------------ MODULE KScanProofs ------------------------------
(***************************************************************************)
(* What the worker pool satisfies for every number of threads and jobs and *)
(* every queue capacity, and the scan session that runs on it for every    *)
(* number of targets, workers and failures and every batch, window and     *)
(* capture budget.                                                         *)
(***************************************************************************)
EXTENDS KScan, SequenceTheorems, FiniteSetTheorems, TLAPS

-------------------------------------------------------------------------------
(* The pool's inductive invariant.  That it is quiet once freed rests on   *)
(* two facts the state of the pool alone does not give: a job is in the    *)
(* queue or in one hand exactly while its fate says so, and no thread ends *)
(* before the queue is empty.                                              *)

\* The queue holds the jobs that are queued, each at one place.
QueueIsExact ==
    /\ \A j \in Jobs : fate[j] = "queued" <=> \E i \in DOMAIN jobs : jobs[i] = j
    /\ \A i, k \in DOMAIN jobs : jobs[i] = jobs[k] => i = k

\* The threads hold the jobs that are running, each in one hand.
HandsAreExact ==
    /\ \A j \in Jobs :
         fate[j] = "running" <=> \E w \in Threads : thread[w] = "run" /\ hand[w] = j
    /\ \A v, w \in Threads :
         thread[v] = "run" /\ thread[w] = "run" /\ hand[v] = hand[w] => v = w

\* How far the owner is, and what the threads may then do.
OwnerIsInStep ==
    /\ stopping <=> pool \notin {"creating", "open"}
    /\ pool \in {"creating", "failing", "gone"} => jobs = << >>
    /\ pool \in {"open", "stopping"} => \A w \in Threads : thread[w] # "none"
    /\ pool = "gone" => \A w \in Threads : thread[w] \in {"none", "ended"}
    /\ \A w \in Threads : thread[w] = "ended" => jobs = << >> /\ stopping

PoolInv == PoolTypeOK /\ QueueIsExact /\ HandsAreExact /\ OwnerIsInStep

LEMMA PoolInvInit == PoolInit => PoolInv
<1> SUFFICES ASSUME PoolInit PROVE PoolInv  OBVIOUS
<1>1. hand \in [Threads -> Jobs]
  <2>1. (CHOOSE j \in Jobs : TRUE) \in Jobs  BY JobsAssumption
  <2> QED  BY <2>1 DEF PoolInit
<1>2. jobs \in Seq(Jobs) /\ Len(jobs) = 0 /\ DOMAIN jobs = {}  BY DEF PoolInit
<1>3. PoolTypeOK
  <2>1. thread \in [Threads -> {"none", "loop", "sleep", "run", "ended"}]  BY DEF PoolInit
  <2>2. fate \in [Jobs -> {"none", "queued", "running", "ran", "cancelled"}]
      BY DEF PoolInit
  <2>3. Len(jobs) <= QueueCapacity  BY <1>2, CapacityAssumption
  <2> QED  BY <1>1, <1>2, <2>1, <2>2, <2>3 DEF PoolInit, PoolTypeOK
<1> QED  BY <1>2, <1>3 DEF PoolInit, PoolInv, QueueIsExact, HandsAreExact, OwnerIsInStep

\* Waking every sleeper keeps what the other threads do.
LEMMA AllWokenType ==
    ASSUME PoolTypeOK
    PROVE  /\ AllWoken \in [Threads -> {"none", "loop", "sleep", "run", "ended"}]
           /\ \A w \in Threads : \A s \in {"none", "run", "ended"} :
                AllWoken[w] = s <=> thread[w] = s
BY DEF AllWoken, PoolTypeOK

LEMMA PoolInvStep == PoolInv /\ [PoolNext]_poolVars => PoolInv'
<1> SUFFICES ASSUME PoolInv, [PoolNext]_poolVars PROVE PoolInv'  OBVIOUS
<1> USE DEF poolVars, Fault
<1>0. PoolTypeOK  BY DEF PoolInv
<1>1. CASE CreateThread
  <2>1. PICK w \in Threads :
          /\ thread[w] = "none" /\ thread' = [thread EXCEPT ![w] = "loop"]
          /\ pool' = IF \A v \in Threads \ {w} : thread[v] # "none" THEN "open" ELSE pool
      BY <1>1 DEF CreateThread
  <2>2. pool = "creating" /\ UNCHANGED <<jobs, stopping, hand, fate, faults>>
      BY <1>1 DEF CreateThread
  <2>3. PoolTypeOK'  BY <1>0, <2>1, <2>2 DEF PoolTypeOK
  <2>4. QueueIsExact'  BY <2>2 DEF PoolInv, QueueIsExact
  <2>5. \A v \in Threads : thread'[v] = "run" <=> thread[v] = "run"
      BY <1>0, <2>1 DEF PoolTypeOK
  <2>6. HandsAreExact'  BY <2>2, <2>5 DEF PoolInv, HandsAreExact
  <2>7. OwnerIsInStep'
      BY <1>0, <2>1, <2>2 DEF PoolInv, OwnerIsInStep, PoolTypeOK
  <2> QED  BY <2>3, <2>4, <2>6, <2>7 DEF PoolInv
<1>2. CASE CreateFails \/ Close
  <2>1. /\ pool \in {"creating", "open"} /\ stopping' = TRUE /\ thread' = AllWoken
        /\ pool' = IF pool = "creating" THEN "failing" ELSE "stopping"
        /\ faults' \in {faults, faults + 1} /\ UNCHANGED <<jobs, hand, fate>>
      BY <1>2 DEF CreateFails, Close
  <2>2. PoolTypeOK'  BY <1>0, <2>1, AllWokenType DEF PoolTypeOK
  <2>3. QueueIsExact' /\ HandsAreExact'
      BY <1>0, <2>1, AllWokenType DEF PoolInv, QueueIsExact, HandsAreExact
  <2>4. OwnerIsInStep'
      BY <1>0, <2>1, AllWokenType DEF PoolInv, OwnerIsInStep
  <2> QED  BY <2>2, <2>3, <2>4 DEF PoolInv
<1>3. CASE Cancel
  <2>1. /\ pool = "open" /\ pool' = "stopping" /\ stopping' = TRUE /\ thread' = AllWoken
        /\ jobs' = << >> /\ UNCHANGED <<hand, faults>>
        /\ fate' = [j \in Jobs |-> IF j \in Queued THEN "cancelled" ELSE fate[j]]
      BY <1>3 DEF Cancel
  <2>2. PoolTypeOK'  BY <1>0, <2>1, AllWokenType, CapacityAssumption DEF PoolTypeOK
  <2>3. \A j \in Jobs : j \in Queued <=> fate[j] = "queued"
      BY DEF PoolInv, QueueIsExact, Queued
  <2>4. QueueIsExact'  BY <1>0, <2>1, <2>3 DEF QueueIsExact, PoolTypeOK
  <2>5. HandsAreExact'
    <3>1. \A j \in Jobs : fate'[j] = "running" <=> fate[j] = "running"  BY <2>1, <2>3
    <3> QED  BY <1>0, <2>1, <3>1, AllWokenType DEF PoolInv, HandsAreExact
  <2>6. OwnerIsInStep'
      BY <1>0, <2>1, AllWokenType DEF PoolInv, OwnerIsInStep
  <2> QED  BY <2>2, <2>4, <2>5, <2>6 DEF PoolInv
<1>4. CASE Destroy
  <2>1. /\ pool \in {"failing", "stopping"} /\ pool' = "gone"
        /\ \A w \in Threads : thread[w] \in {"none", "ended"}
        /\ UNCHANGED <<jobs, stopping, thread, hand, fate, faults>>
      BY <1>4 DEF Destroy
  <2>2. jobs = << >>
    <3>1. CASE pool = "failing"  BY <3>1 DEF PoolInv, OwnerIsInStep
    <3>2. CASE pool = "stopping"
      <4>1. PICK w \in Threads : thread[w] = "ended"
          BY <2>1, <3>2, ThreadsAssumption DEF PoolInv, OwnerIsInStep
      <4> QED  BY <4>1 DEF PoolInv, OwnerIsInStep
    <3> QED  BY <2>1, <3>1, <3>2
  <2> QED  BY <1>0, <2>1, <2>2 DEF PoolInv, PoolTypeOK, QueueIsExact, HandsAreExact,
                                   OwnerIsInStep
<1>5. ASSUME NEW j \in Jobs, fate[j] = "none", Dispatch(j) PROVE PoolInv'
  <2>1. /\ pool = "open" /\ ~stopping /\ Len(jobs) < QueueCapacity
        /\ jobs' = Append(jobs, j) /\ fate' = [fate EXCEPT ![j] = "queued"]
        /\ UNCHANGED <<pool, stopping, hand, faults>>
      BY <1>5 DEF Dispatch, Dispatchable
  <2>2. /\ thread' \in [Threads -> {"none", "loop", "sleep", "run", "ended"}]
        /\ \A w \in Threads : \A s \in {"none", "run", "ended"} :
             thread'[w] = s <=> thread[w] = s
      BY <1>0, <1>5 DEF Dispatch, Sleepers, PoolTypeOK
  <2>3. jobs \in Seq(Jobs) /\ Len(jobs) \in Nat  BY <1>0 DEF PoolTypeOK
  <2>4. /\ jobs' \in Seq(Jobs) /\ Len(jobs') = Len(jobs) + 1
        /\ DOMAIN jobs = 1 .. Len(jobs) /\ DOMAIN jobs' = 1 .. Len(jobs) + 1
        /\ \A i \in 1 .. Len(jobs) : jobs'[i] = jobs[i]
        /\ jobs'[Len(jobs) + 1] = j
    <3>1. /\ jobs' \in Seq(Jobs) /\ Len(jobs') = Len(jobs) + 1
          /\ \A i \in 1 .. Len(jobs) : jobs'[i] = jobs[i]
          /\ jobs'[Len(jobs) + 1] = j
        BY <1>5, <2>1, <2>3, AppendProperties
    <3>2. DOMAIN jobs = 1 .. Len(jobs) /\ DOMAIN jobs' = 1 .. Len(jobs')
        BY <2>3, <3>1, LenProperties
    <3> QED  BY <3>1, <3>2
  <2>5. PoolTypeOK'
    <3>0. Len(jobs) < QueueCapacity /\ Len(jobs') = Len(jobs) + 1  BY <2>1, <2>4
    <3>1. Len(jobs') <= QueueCapacity  BY <2>3, <3>0, CapacityAssumption
    <3>2. fate' \in [Jobs -> {"none", "queued", "running", "ran", "cancelled"}]
        BY <1>0, <2>1 DEF PoolTypeOK
    <3> QED  BY <1>0, <2>1, <2>2, <2>4, <3>1, <3>2 DEF PoolTypeOK
  <2>6. ~\E i \in DOMAIN jobs : jobs[i] = j  BY <1>5 DEF PoolInv, QueueIsExact
  <2>7. QueueIsExact'
    <3>1. ASSUME NEW k \in Jobs
          PROVE  fate'[k] = "queued" <=> \E i \in DOMAIN jobs' : jobs'[i] = k
      <4>1. CASE k = j
        <5>1. Len(jobs) + 1 \in DOMAIN jobs'  BY <2>3, <2>4
        <5> QED  BY <1>0, <2>1, <2>4, <4>1, <5>1 DEF PoolTypeOK
      <4>2. CASE k # j
        <5>1. fate'[k] = fate[k]  BY <1>0, <2>1, <4>2 DEF PoolTypeOK
        <5>2. (\E i \in DOMAIN jobs' : jobs'[i] = k) <=> \E i \in DOMAIN jobs : jobs[i] = k
            BY <2>3, <2>4, <4>2
        <5> QED  BY <5>1, <5>2 DEF PoolInv, QueueIsExact
      <4> QED  BY <4>1, <4>2
    <3>2. \A i, k \in DOMAIN jobs' : jobs'[i] = jobs'[k] => i = k
        BY <2>3, <2>4, <2>6 DEF PoolInv, QueueIsExact
    <3> QED  BY <3>1, <3>2 DEF QueueIsExact
  <2>8. HandsAreExact'
    <3>1. \A k \in Jobs : fate'[k] = "running" <=> fate[k] = "running"
        BY <1>0, <1>5, <2>1 DEF PoolTypeOK
    <3> QED  BY <2>1, <2>2, <3>1 DEF PoolInv, HandsAreExact
  <2>9. OwnerIsInStep'  BY <2>1, <2>2 DEF PoolInv, OwnerIsInStep
  <2> QED  BY <2>5, <2>7, <2>8, <2>9 DEF PoolInv
<1>6. ASSUME NEW w \in Threads, Take(w) PROVE PoolInv'
  <2>1. /\ thread[w] = "loop" /\ jobs # << >>
        /\ hand' = [hand EXCEPT ![w] = Head(jobs)] /\ jobs' = Tail(jobs)
        /\ thread' = [thread EXCEPT ![w] = "run"]
        /\ fate' = [fate EXCEPT ![Head(jobs)] = "running"]
        /\ UNCHANGED <<pool, stopping, faults>>
      BY <1>6 DEF Take
  <2>2. jobs \in Seq(Jobs) /\ Len(jobs) \in Nat /\ Len(jobs) >= 1
      BY <1>0, <2>1, EmptySeq, LenProperties DEF PoolTypeOK
  <2>3. /\ Head(jobs) = jobs[1] /\ Head(jobs) \in Jobs
        /\ jobs' \in Seq(Jobs) /\ Len(jobs') = Len(jobs) - 1
        /\ DOMAIN jobs = 1 .. Len(jobs) /\ DOMAIN jobs' = 1 .. Len(jobs) - 1
        /\ \A i \in 1 .. Len(jobs) - 1 : jobs'[i] = jobs[i + 1]
      BY <2>1, <2>2, HeadTailProperties
  <2>4. PoolTypeOK'  BY <1>0, <2>1, <2>2, <2>3, CapacityAssumption DEF PoolTypeOK
  <2>5. fate[Head(jobs)] = "queued"
    <3>1. 1 \in DOMAIN jobs  BY <2>2, <2>3
    <3> QED  BY <2>3, <3>1 DEF PoolInv, QueueIsExact
  <2>6. QueueIsExact'
    <3>1. ASSUME NEW k \in Jobs
          PROVE  fate'[k] = "queued" <=> \E i \in DOMAIN jobs' : jobs'[i] = k
      <4>1. CASE k = Head(jobs)
        <5>1. ~\E i \in DOMAIN jobs' : jobs'[i] = k
            BY <2>2, <2>3, <4>1 DEF PoolInv, QueueIsExact
        <5> QED  BY <1>0, <2>1, <4>1, <5>1 DEF PoolTypeOK
      <4>2. CASE k # Head(jobs)
        <5>1. fate'[k] = fate[k]  BY <1>0, <2>1, <4>2 DEF PoolTypeOK
        <5>2. (\E i \in DOMAIN jobs' : jobs'[i] = k) => \E i \in DOMAIN jobs : jobs[i] = k
            BY <2>2, <2>3
        <5>3. ASSUME NEW i \in DOMAIN jobs, jobs[i] = k
              PROVE  \E n \in DOMAIN jobs' : jobs'[n] = k
          <6>1. i # 1 /\ i - 1 \in DOMAIN jobs'  BY <2>2, <2>3, <4>2, <5>3
          <6>2. jobs'[i - 1] = k  BY <2>2, <2>3, <5>3, <6>1
          <6> QED  BY <6>1, <6>2
        <5> QED  BY <5>1, <5>2, <5>3 DEF PoolInv, QueueIsExact
      <4> QED  BY <4>1, <4>2
    <3>2. ASSUME NEW i \in DOMAIN jobs', NEW k \in DOMAIN jobs', jobs'[i] = jobs'[k]
          PROVE  i = k
      <4>1. i \in Nat /\ k \in Nat /\ i + 1 \in DOMAIN jobs /\ k + 1 \in DOMAIN jobs
          BY <2>2, <2>3
      <4>2. jobs[i + 1] = jobs[k + 1]  BY <2>2, <2>3, <3>2
      <4>3. i + 1 = k + 1  BY <4>1, <4>2 DEF PoolInv, QueueIsExact
      <4> QED  BY <4>1, <4>3
    <3> QED  BY <3>1, <3>2 DEF QueueIsExact
  <2>7. HandsAreExact'
    <3>1. ~\E v \in Threads : thread[v] = "run" /\ hand[v] = Head(jobs)
        BY <2>3, <2>5 DEF PoolInv, HandsAreExact
    <3> QED  BY <1>0, <2>1, <2>3, <3>1 DEF PoolInv, HandsAreExact, PoolTypeOK
  <2>8. OwnerIsInStep'
      BY <1>0, <2>1 DEF PoolInv, OwnerIsInStep, PoolTypeOK
  <2> QED  BY <2>4, <2>6, <2>7, <2>8 DEF PoolInv
<1>7. ASSUME NEW w \in Threads, Sleep(w) \/ End(w) PROVE PoolInv'
  <2>1. /\ thread[w] = "loop" /\ jobs = << >>
        /\ \/ ~stopping /\ thread' = [thread EXCEPT ![w] = "sleep"]
           \/ stopping /\ thread' = [thread EXCEPT ![w] = "ended"]
        /\ UNCHANGED <<pool, jobs, stopping, hand, fate, faults>>
      BY <1>7 DEF Sleep, End
  <2>2. \A v \in Threads : thread'[v] = "run" <=> thread[v] = "run"
      BY <1>0, <2>1 DEF PoolTypeOK
  <2>3. PoolTypeOK'  BY <1>0, <2>1 DEF PoolTypeOK
  <2>4. QueueIsExact' /\ HandsAreExact'
      BY <2>1, <2>2 DEF PoolInv, QueueIsExact, HandsAreExact
  <2>5. OwnerIsInStep'
      BY <1>0, <2>1 DEF PoolInv, OwnerIsInStep, PoolTypeOK
  <2> QED  BY <2>3, <2>4, <2>5 DEF PoolInv
<1>8. ASSUME NEW w \in Threads, Return(w) PROVE PoolInv'
  <2>1. /\ thread[w] = "run" /\ thread' = [thread EXCEPT ![w] = "loop"]
        /\ fate' = [fate EXCEPT ![hand[w]] = "ran"]
        /\ UNCHANGED <<pool, jobs, stopping, hand, faults>>
      BY <1>8 DEF Return
  <2>2. hand[w] \in Jobs /\ fate[hand[w]] = "running"
      BY <1>0, <2>1 DEF PoolInv, HandsAreExact, PoolTypeOK
  <2>3. PoolTypeOK'  BY <1>0, <2>1 DEF PoolTypeOK
  <2>4. QueueIsExact'
      BY <1>0, <2>1, <2>2 DEF PoolInv, QueueIsExact, PoolTypeOK
  <2>5. HandsAreExact'
      BY <1>0, <2>1, <2>2 DEF PoolInv, HandsAreExact, PoolTypeOK
  <2>6. OwnerIsInStep'
      BY <1>0, <2>1 DEF PoolInv, OwnerIsInStep, PoolTypeOK
  <2> QED  BY <2>3, <2>4, <2>5, <2>6 DEF PoolInv
<1>9. CASE SpuriousWakeup
  <2>1. PICK w \in Threads : thread[w] = "sleep" /\ thread' = [thread EXCEPT ![w] = "loop"]
      BY <1>9 DEF SpuriousWakeup, Sleepers
  <2>2. UNCHANGED <<pool, jobs, stopping, hand, fate, faults>>  BY <1>9 DEF SpuriousWakeup
  <2> QED  BY <1>0, <2>1, <2>2 DEF PoolInv, PoolTypeOK, QueueIsExact, HandsAreExact,
                                   OwnerIsInStep
<1>10. CASE UNCHANGED poolVars
    BY <1>10 DEF PoolInv, PoolTypeOK, QueueIsExact, HandsAreExact, OwnerIsInStep
<1> QED  BY <1>1, <1>2, <1>3, <1>4, <1>5, <1>6, <1>7, <1>8, <1>9, <1>10
         DEF PoolNext, ThreadStep, PoolDone

\* A step of the pool takes no job from the thread that runs it, and runs none again.
LEMMA FateStep ==
    ASSUME PoolInv, PoolNext, NEW j \in Jobs
    PROVE  /\ fate[j] \in {"ran", "cancelled"} => fate'[j] = fate[j]
           /\ fate[j] = "running" => fate'[j] \in {"running", "ran"}
<1>0. PoolTypeOK  BY DEF PoolInv
<1>1. CASE Cancel
    BY <1>1 DEF Cancel, Queued, PoolInv, QueueIsExact
<1>2. ASSUME NEW k \in Jobs, fate[k] = "none", Dispatch(k)
      PROVE  fate[j] # "none" => fate'[j] = fate[j]
    BY <1>0, <1>2 DEF Dispatch, PoolTypeOK
<1>3. ASSUME NEW w \in Threads, Take(w)
      PROVE  fate[j] # "queued" => fate'[j] = fate[j]
  <2>1. jobs # << >> /\ jobs \in Seq(Jobs)  BY <1>0, <1>3 DEF Take, PoolTypeOK
  <2>2. 1 \in DOMAIN jobs /\ Head(jobs) = jobs[1] /\ Head(jobs) \in Jobs
      BY <2>1, EmptySeq, LenProperties, HeadTailProperties
  <2>3. fate[Head(jobs)] = "queued"  BY <2>2 DEF PoolInv, QueueIsExact
  <2> QED  BY <1>0, <1>3, <2>3 DEF Take, PoolTypeOK
<1>4. ASSUME NEW w \in Threads, Return(w)
      PROVE  /\ fate[j] # "running" => fate'[j] = fate[j]
             /\ fate'[j] \in {fate[j], "ran"}
    BY <1>0, <1>4 DEF Return, PoolInv, HandsAreExact, PoolTypeOK
<1>5. CASE UNCHANGED fate  BY <1>5
<1> QED  BY <1>1, <1>2, <1>3, <1>4, <1>5 DEF PoolNext, ThreadStep, CreateThread,
         CreateFails, Close, Destroy, Sleep, End, SpuriousWakeup, PoolDone, poolVars

-------------------------------------------------------------------------------
(* The theorems.                                                           *)

\* The pool is freed only when every thread was joined and every accepted job was run
\* or cancelled, for any number of threads and jobs (kworker_pool_destroy).
THEOREM FreedPoolIsQuiet == PoolSpec => []GoneIsQuiet
<1>1. PoolInit => PoolInv  BY PoolInvInit
<1>2. PoolInv /\ [PoolNext]_poolVars => PoolInv'  BY PoolInvStep
<1>3. PoolInv => GoneIsQuiet
  <2> SUFFICES ASSUME PoolInv, pool = "gone" PROVE GoneIsQuiet  BY DEF GoneIsQuiet
  <2>1. jobs = << >> /\ \A w \in Threads : thread[w] \in {"none", "ended"}
      BY DEF PoolInv, OwnerIsInStep
  <2> QED  BY <2>1 DEF PoolInv, QueueIsExact, HandsAreExact, GoneIsQuiet
<1> QED  BY <1>1, <1>2, <1>3, PTL DEF PoolSpec

\* A job is run by one thread or cancelled, never both and never twice
\* (kworker_thread, kworker_pool_cancel).
THEOREM OneFate == PoolSpec => FateIsFinal
<1>1. PoolInit => PoolInv  BY PoolInvInit
<1>2. PoolInv /\ [PoolNext]_poolVars => PoolInv'  BY PoolInvStep
<1>3. PoolInv /\ [PoolNext]_poolVars
        => [\A j \in Jobs :
              /\ fate[j] \in {"ran", "cancelled"} => fate'[j] = fate[j]
              /\ fate[j] = "running" => fate'[j] \in {"running", "ran"}]_poolVars
  BY FateStep
<1> QED  BY <1>1, <1>2, <1>3, PTL DEF PoolSpec, FateIsFinal

-------------------------------------------------------------------------------
(* Sequences as sets of targets.                                           *)

Elems(s)    == {s[i] : i \in DOMAIN s}
Distinct(s) == \A i, k \in DOMAIN s : s[i] = s[k] => i = k

\* The targets of a sequence of events.
Names(s) == [i \in DOMAIN s |-> s[i].target]

Event == [target : Targets, staged : BOOLEAN]

-------------------------------------------------------------------------------
(* The inductive invariant, beside that of the pool.                       *)

\* The types of what the session adds to the pool.
ScanTyped ==
    /\ main \in {"open", "loop", "drain", "retire", "refill", "transmit", "send",
                  "redrain", "wait", "close", "join", "closed"}
    /\ todo \subseteq Targets /\ staged \in 0 .. Batch
    /\ build \in [Threads -> {"start", "read", "made", "push", "event", "clean", "done"}]
    /\ ready \in Seq(Targets) /\ events \in Seq(Event)
    /\ held \in {<< >>} \cup {<<t>> : t \in Targets}
    /\ pending \in Seq(Targets) /\ expired \in 0 .. Len(pending)
    /\ paced \in BOOLEAN /\ blocked \in BOOLEAN
    /\ auto \in BOOLEAN /\ locked \in BOOLEAN
    /\ cancelling \in BOOLEAN /\ fatal \in BOOLEAN
    /\ retired \in [Targets -> Nat]

\* How far the session thread is, and what the pool and its jobs then are.
MainInStep ==
    /\ main = "open" => pool # "stopping"
    /\ main \in {"loop", "drain", "retire", "refill", "transmit", "send", "redrain",
                 "wait", "close"} => pool = "open"
    /\ main = "join" => pool \in {"stopping", "gone"} /\ cancelling
    /\ main = "closed" => pool = "gone"
    /\ main = "send" <=> held # << >>
    /\ cancelling => main \in {"close", "join", "closed"}
    /\ \A w \in Threads : thread[w] # "run" => build[w] = "start"
    /\ \A t \in Targets : fate[t] = "none" <=> t \in todo
    /\ \A t \in Targets : fate[t] = "cancelled" => cancelling

\* BUILD_OUTSTANDING counts the jobs that may still touch the session.
Busy == {w \in Threads : thread[w] = "run" /\ build[w] # "done"}

JobsAreCounted == outstanding = Len(jobs) + Cardinality(Busy)

\* The targets whose job is queued or still at work, those whose job has handed over its
\* result, and the places a result may be at.
Making   == Queued \cup {hand[w] : w \in {v \in Threads : Building(v)}}
Made     == {t \in Targets :
               \/ fate[t] = "ran"
               \/ \E w \in Threads :
                    thread[w] = "run" /\ hand[w] = t /\ build[w] \in {"clean", "done"}}
Readied  == Elems(ready)
Kept     == Elems(held)
Reported == Elems(Names(events))
Awaiting == Elems(pending)
Finished == {t \in Targets : retired[t] # 0}

\* The targets of those of a sequence of events that leave their target staged.
StagedOf(s)   == {s[i].target : i \in {k \in DOMAIN s : s[k].staged}}
StagedReports == StagedOf(events)

\* A target handed over is at one place, once, and is retired at most once.
OnePlace ==
    /\ Distinct(ready) /\ Distinct(pending) /\ Distinct(Names(events))
    /\ \A t \in Targets : retired[t] \in {0, 1}
    /\ Readied \cup Kept \cup Reported \cup Awaiting \cup Finished \subseteq Made
    /\ Readied \cap (Kept \cup Reported \cup Awaiting \cup Finished) = {}
    /\ Kept \cap (Reported \cup Awaiting \cup Finished) = {}
    /\ Reported \cap (Awaiting \cup Finished) = {}
    /\ Awaiting \cap Finished = {}

\* Until something fails, it is at one of them.
NoneLost ==
    ~cancelling /\ ~fatal =>
        Made \subseteq Readied \cup Kept \cup Reported \cup Awaiting \cup Finished

StagedCount == ~cancelling /\ ~fatal => staged = Cardinality(StagedTargets)

\* Only the event of a failed send stands for a target that is no longer staged; it is taken
\* up in the same round, and until then leaves room for itself.
UnstagedIsLast ==
    /\ \A i, k \in DOMAIN events : ~events[i].staged /\ ~events[k].staged => i = k
    /\ (\E i \in DOMAIN events : ~events[i].staged) =>
         /\ main \in {"redrain", "close", "join"}
         /\ ~cancelling /\ ~fatal => staged < Batch

CloseIsComplete == main = "close" /\ ~cancelling /\ ~fatal => Complete

ScanInv ==
    /\ PoolInv /\ ScanTyped /\ MainInStep /\ JobsAreCounted /\ CaptureIsExact
    /\ OnePlace /\ NoneLost /\ StagedCount /\ UnstagedIsLast /\ CloseIsComplete

-------------------------------------------------------------------------------
(* Lemmas about sequences.                                                 *)

\* One element more at the end.
LEMMA ElemsAppend ==
    ASSUME NEW S, NEW s \in Seq(S), NEW e \in S
    PROVE  /\ Elems(Append(s, e)) = Elems(s) \cup {e}
           /\ Distinct(s) /\ e \notin Elems(s) => Distinct(Append(s, e))
<1>1. /\ Append(s, e) \in Seq(S) /\ Len(Append(s, e)) = Len(s) + 1 /\ Len(s) \in Nat
      /\ DOMAIN s = 1 .. Len(s) /\ DOMAIN Append(s, e) = 1 .. Len(s) + 1
      /\ \A i \in DOMAIN s : Append(s, e)[i] = s[i]
      /\ Append(s, e)[Len(s) + 1] = e
  OBVIOUS
<1>2. DOMAIN Append(s, e) = DOMAIN s \cup {Len(s) + 1} /\ Len(s) + 1 \notin DOMAIN s
  BY <1>1
<1> QED  BY <1>1, <1>2 DEF Elems, Distinct

\* The first element taken away.
LEMMA ElemsTail ==
    ASSUME NEW S, NEW s \in Seq(S), s # << >>
    PROVE  /\ Head(s) \in Elems(s) /\ Head(s) = s[1] /\ 1 \in DOMAIN s /\ Head(s) \in S
           /\ Elems(s) = Elems(Tail(s)) \cup {Head(s)}
           /\ Distinct(s) => Distinct(Tail(s)) /\ Elems(Tail(s)) = Elems(s) \ {Head(s)}
<1>1. /\ Len(s) \in Nat /\ Len(s) >= 1 /\ DOMAIN s = 1 .. Len(s) /\ Head(s) = s[1] /\ Head(s) \in S
      /\ Tail(s) \in Seq(S) /\ Len(Tail(s)) = Len(s) - 1 /\ DOMAIN Tail(s) = 1 .. Len(s) - 1
      /\ \A i \in DOMAIN Tail(s) : Tail(s)[i] = s[i + 1]
  OBVIOUS
<1>2. \A i \in DOMAIN Tail(s) : i + 1 \in DOMAIN s /\ i + 1 # 1
  BY <1>1
<1>3. \A i \in DOMAIN s : i = 1 \/ (i - 1 \in DOMAIN Tail(s) /\ (i - 1) + 1 = i)
  BY <1>1
<1>4. Elems(s) = Elems(Tail(s)) \cup {Head(s)}
  <2>1. \A x \in Elems(Tail(s)) : x \in Elems(s)  BY <1>1, <1>2 DEF Elems
  <2>2. Head(s) \in Elems(s)  BY <1>1 DEF Elems
  <2>3. ASSUME NEW x \in Elems(s), x # Head(s) PROVE x \in Elems(Tail(s))
    <3>1. PICK i \in DOMAIN s : x = s[i]  BY <2>3 DEF Elems
    <3>2. i - 1 \in DOMAIN Tail(s) /\ Tail(s)[i - 1] = s[i]  BY <1>1, <1>3, <2>3, <3>1
    <3> QED  BY <3>1, <3>2 DEF Elems
  <2> QED  BY <2>1, <2>2, <2>3
<1>5. ASSUME Distinct(s) PROVE Distinct(Tail(s)) /\ Head(s) \notin Elems(Tail(s))
  <2>1. \A i \in DOMAIN Tail(s) : Tail(s)[i] # Head(s)  BY <1>1, <1>2, <1>5 DEF Distinct
  <2>2. \A i, k \in DOMAIN Tail(s) : i + 1 = k + 1 => i = k  BY <1>1
  <2>3. Distinct(Tail(s))  BY <1>1, <1>2, <1>5, <2>2 DEF Distinct
  <2> QED  BY <2>1, <2>3 DEF Elems
<1> QED  BY <1>1, <1>4, <1>5

\* A prefix taken away.
LEMMA ElemsRest ==
    ASSUME NEW S, NEW s \in Seq(S), Distinct(s), NEW n \in 0 .. Len(s)
    PROVE  /\ SubSeq(s, n + 1, Len(s)) \in Seq(S)
           /\ Len(SubSeq(s, n + 1, Len(s))) = Len(s) - n
           /\ Distinct(SubSeq(s, n + 1, Len(s)))
           /\ Elems(SubSeq(s, n + 1, Len(s))) = Elems(s) \ {s[i] : i \in 1 .. n}
           /\ {s[i] : i \in 1 .. n} \subseteq Elems(s)
<1> DEFINE r == SubSeq(s, n + 1, Len(s))
<1>1. /\ Len(s) \in Nat /\ n \in Nat /\ n <= Len(s) /\ DOMAIN s = 1 .. Len(s)
      /\ n + 1 \in Int /\ \A i \in n + 1 .. Len(s) : s[i] \in S
  OBVIOUS
<1>2. /\ r \in Seq(S) /\ Len(r) = Len(s) - n
      /\ \A i \in 1 .. Len(s) - n : r[i] = s[n + i]
  <2>1. /\ r \in Seq(S)
        /\ Len(r) = IF n + 1 <= Len(s) THEN Len(s) - (n + 1) + 1 ELSE 0
        /\ \A i \in 1 .. Len(s) - (n + 1) + 1 : r[i] = s[(n + 1) + i - 1]
    BY <1>1, SubSeqProperties
  <2> QED  BY <1>1, <2>1
<1>3. DOMAIN r = 1 .. Len(s) - n  BY <1>2
<1> HIDE DEF r
<1>4. \A i \in DOMAIN r : n + i \in DOMAIN s /\ n + i > n /\ r[i] = s[n + i]
  BY <1>1, <1>2, <1>3
<1>5. \A i \in DOMAIN s : i \in 1 .. n \/ (i - n \in DOMAIN r /\ n + (i - n) = i)
  BY <1>1, <1>3
<1>6. \A i, k \in DOMAIN r : n + i = n + k => i = k  BY <1>1, <1>3
<1>7. Distinct(r)  BY <1>4, <1>6 DEF Distinct
<1>8. \A i \in 1 .. n : i \in DOMAIN s /\ i <= n  BY <1>1
<1>9. ASSUME NEW x \in Elems(r) PROVE x \in Elems(s) /\ x \notin {s[i] : i \in 1 .. n}
  <2>1. PICK i \in DOMAIN r : x = r[i]  BY <1>9 DEF Elems
  <2>2. \A k \in 1 .. n : k # n + i  BY <1>1, <1>3
  <2> QED  BY <1>4, <1>8, <2>1, <2>2 DEF Elems, Distinct
<1>10. ASSUME NEW x \in Elems(s), x \notin {s[i] : i \in 1 .. n} PROVE x \in Elems(r)
  <2>1. PICK i \in DOMAIN s : x = s[i]  BY <1>10 DEF Elems
  <2>2. i - n \in DOMAIN r /\ n + (i - n) = i  BY <1>5, <1>10, <2>1
  <2> QED  BY <1>4, <2>1, <2>2 DEF Elems
<1> QED  BY <1>2, <1>7, <1>8, <1>9, <1>10 DEF r, Elems

\* A sequence without repetition has as many elements as places.
LEMMA ElemsCount ==
    ASSUME NEW S, NEW s \in Seq(S)
    PROVE  /\ IsFiniteSet(Elems(s))
           /\ Distinct(s) => Cardinality(Elems(s)) = Len(s)
<1>1. Len(s) \in Nat /\ DOMAIN s = 1 .. Len(s) /\ s \in [1 .. Len(s) -> Elems(s)]  BY DEF Elems
<1>2. s \in Surjection(1 .. Len(s), Elems(s))  BY <1>1 DEF Surjection, Elems
<1>3. IsFiniteSet(1 .. Len(s)) /\ Cardinality(1 .. Len(s)) = Len(s)  BY <1>1, FS_Interval
<1>4. IsFiniteSet(Elems(s))
        /\ (Cardinality(Elems(s)) = Cardinality(1 .. Len(s)) <=> s \in Injection(1 .. Len(s), Elems(s)))
  BY <1>2, <1>3, FS_Surjection
<1>5. Distinct(s) => s \in Injection(1 .. Len(s), Elems(s))
  BY <1>1 DEF Distinct, Injection, IsInjective
<1> QED  BY <1>3, <1>4, <1>5

LEMMA EventFields == \A e \in Event : e.target \in Targets /\ e.staged \in BOOLEAN
BY DEF Event

\* The names of a sequence of events grow and shrink with it.
LEMMA NamesOf ==
    ASSUME NEW s \in Seq(Event)
    PROVE  /\ Names(s) \in Seq(Targets) /\ Len(Names(s)) = Len(s) /\ DOMAIN Names(s) = DOMAIN s
           /\ Names(s) = << >> <=> s = << >>
           /\ \A e \in Event : Names(Append(s, e)) = Append(Names(s), e.target)
           /\ s # << >> => Names(Tail(s)) = Tail(Names(s)) /\ Head(Names(s)) = Head(s).target
<1>1. /\ DOMAIN s = 1 .. Len(s) /\ Len(s) \in Nat
      /\ \A i \in DOMAIN s : s[i] \in Event /\ s[i].target \in Targets
  <2>1. DOMAIN s = 1 .. Len(s) /\ Len(s) \in Nat /\ \A i \in DOMAIN s : s[i] \in Event
    OBVIOUS
  <2> QED  BY <2>1, EventFields
<1>2. Names(s) \in Seq(Targets) /\ Len(Names(s)) = Len(s) /\ DOMAIN Names(s) = DOMAIN s
  <2>1. Names(s) \in [1 .. Len(s) -> Targets]  BY <1>1 DEF Names
  <2> QED  BY <1>1, <2>1
<1>3. ASSUME NEW e \in Event PROVE Names(Append(s, e)) = Append(Names(s), e.target)
  <2>1. e.target \in Targets  BY <1>3 DEF Event
  <2>2. /\ DOMAIN Append(s, e) = 1 .. Len(s) + 1
        /\ \A i \in 1 .. Len(s) : Append(s, e)[i] = s[i]
        /\ Append(s, e)[Len(s) + 1] = e
    BY <1>1
  <2>3. /\ DOMAIN Append(Names(s), e.target) = 1 .. Len(s) + 1
        /\ \A i \in 1 .. Len(s) : Append(Names(s), e.target)[i] = s[i].target
        /\ Append(Names(s), e.target)[Len(s) + 1] = e.target
        /\ Append(Names(s), e.target) \in Seq(Targets)
        /\ Len(Append(Names(s), e.target)) = Len(s) + 1
    BY <1>1, <1>2, <2>1 DEF Names
  <2>4. \A i \in 1 .. Len(s) + 1 : Append(s, e)[i].target = Append(Names(s), e.target)[i]
    BY <1>1, <2>2, <2>3
  <2>5. Names(Append(s, e)) = [i \in 1 .. Len(s) + 1 |-> Append(Names(s), e.target)[i]]
    BY <2>2, <2>4 DEF Names
  <2>6. Append(Names(s), e.target) = [i \in 1 .. Len(s) + 1 |-> Append(Names(s), e.target)[i]]
    BY <2>3
  <2> QED  BY <2>5, <2>6
<1>4. ASSUME s # << >> PROVE Names(Tail(s)) = Tail(Names(s)) /\ Head(Names(s)) = Head(s).target
  <2>1. /\ Len(s) >= 1 /\ DOMAIN Tail(s) = 1 .. Len(s) - 1
        /\ \A i \in 1 .. Len(s) - 1 : Tail(s)[i] = s[i + 1] /\ i + 1 \in DOMAIN s
        /\ Head(s) = s[1] /\ 1 \in DOMAIN s
    BY <1>1, <1>4
  <2>2. Names(s) # << >>  BY <1>2, <2>1
  <2>3. /\ DOMAIN Tail(Names(s)) = 1 .. Len(s) - 1
        /\ \A i \in 1 .. Len(s) - 1 : Tail(Names(s))[i] = Names(s)[i + 1]
        /\ Head(Names(s)) = Names(s)[1]
        /\ Tail(Names(s)) \in Seq(Targets) /\ Len(Tail(Names(s))) = Len(s) - 1
    BY <1>1, <1>2, <2>2, HeadTailProperties
  <2>4. Names(Tail(s)) = [i \in 1 .. Len(s) - 1 |-> Tail(Names(s))[i]]
    BY <2>1, <2>3 DEF Names
  <2>5. Tail(Names(s)) = [i \in 1 .. Len(s) - 1 |-> Tail(Names(s))[i]]
    <3>1. Tail(Names(s)) \in [1 .. Len(s) - 1 -> Targets]
      BY <2>3, LenProperties
    <3> QED  BY <3>1
  <2> QED  BY <2>1, <2>3, <2>4, <2>5 DEF Names
<1>5. Names(s) = << >> <=> s = << >>  BY <1>1, <1>2
<1> QED  BY <1>2, <1>3, <1>4, <1>5

-------------------------------------------------------------------------------
(* Who holds what.                                                         *)

\* Two threads never hold the same job, and a job at work is not in the queue.
LEMMA HandsApart ==
    ASSUME PoolInv, ScanTyped
    PROVE  /\ \A w \in Threads : hand[w] \in Targets
           /\ \A t \in Queued : t \in Targets /\ fate[t] = "queued"
           /\ \A w \in Threads : thread[w] = "run" => fate[hand[w]] = "running"
           /\ \A v, w \in Threads :
                thread[v] = "run" /\ thread[w] = "run" /\ hand[v] = hand[w] => v = w
           /\ \A w \in Threads : Building(w) => hand[w] \in Making /\ hand[w] \notin Made
           /\ Making \cap Made = {} /\ Making \subseteq Targets /\ Made \subseteq Targets
<1>1. PoolTypeOK /\ QueueIsExact /\ HandsAreExact  BY DEF PoolInv
<1>2. \A w \in Threads : hand[w] \in Targets  BY <1>1 DEF PoolTypeOK, Targets
<1>3. \A t \in Queued : t \in Targets /\ fate[t] = "queued"
  BY <1>1 DEF PoolTypeOK, QueueIsExact, Queued, Targets
<1>4. \A w \in Threads : thread[w] = "run" => fate[hand[w]] = "running"
  BY <1>1, <1>2 DEF HandsAreExact, Targets
<1>5. \A v, w \in Threads :
         thread[v] = "run" /\ thread[w] = "run" /\ hand[v] = hand[w] => v = w
  BY <1>1 DEF HandsAreExact
<1>6. \A w \in Threads : Building(w) => hand[w] \in Making /\ hand[w] \notin Made
  BY <1>2, <1>4, <1>5 DEF Building, Making, Made
<1>7. Making \cap Made = {}
  BY <1>2, <1>3, <1>4, <1>5 DEF Building, Making, Made
<1>8. Making \subseteq Targets /\ Made \subseteq Targets  BY <1>2, <1>3 DEF Making, Made
<1> QED  BY <1>2, <1>3, <1>4, <1>5, <1>6, <1>7, <1>8

\* The staged targets, place by place, are finitely many.
LEMMA StagedParts ==
    ASSUME PoolInv, ScanTyped
    PROVE  /\ StagedTargets = Making \cup Readied \cup Kept \cup StagedReports
           /\ StagedReports \subseteq Reported
           /\ IsFiniteSet(StagedTargets) /\ Cardinality(StagedTargets) \in Nat
<1>1. StagedTargets = Making \cup Readied \cup Kept \cup StagedReports
  BY DEF StagedTargets, Making, Readied, Kept, StagedReports, StagedOf, Elems
<1>2. StagedReports \subseteq Reported
  BY NamesOf DEF StagedReports, StagedOf, Reported, Elems, Names
<1>3. IsFiniteSet(Making)
  <2> DEFINE B == {v \in Threads : Building(v)}
             H == {hand[w] : w \in B}
  <2>1. IsFiniteSet(B)  BY ThreadsAssumption, FS_Subset
  <2>2. [w \in B |-> hand[w]] \in Surjection(B, H)  BY DEF Surjection
  <2> HIDE DEF B
  <2>3. IsFiniteSet(H)  BY <2>1, <2>2, FS_Surjection
  <2>4. jobs \in Seq(Targets)  BY DEF PoolInv, PoolTypeOK, Targets
  <2>5. IsFiniteSet(Queued)  BY <2>4, ElemsCount DEF Queued, Elems
  <2> QED  BY <2>3, <2>5, FS_Union DEF Making, B
<1>4. IsFiniteSet(Readied) /\ IsFiniteSet(Reported)
  BY ElemsCount, NamesOf DEF ScanTyped, Readied, Reported
<1>5. IsFiniteSet(Kept)
  <2>1. CASE held = << >>  BY <2>1, FS_EmptySet DEF Kept, Elems
  <2>2. ASSUME NEW t \in Targets, held = <<t>> PROVE IsFiniteSet(Kept)
    <3>1. Kept = {t}  BY <2>2 DEF Kept, Elems
    <3> QED  BY <3>1, FS_Singleton
  <2> QED  BY <2>1, <2>2 DEF ScanTyped
<1>6. IsFiniteSet(StagedReports)  BY <1>2, <1>4, FS_Subset
<1>7. IsFiniteSet(StagedTargets)  BY <1>1, <1>3, <1>4, <1>5, <1>6, FS_Union
<1> QED  BY <1>1, <1>2, <1>7, FS_CardinalityType

\* Where only the session thread or a thread without a job moves, nothing changes hands.
LEMMA MakesUnmoved ==
    ASSUME UNCHANGED <<jobs, hand, build, fate>>,
           \A w \in Threads : thread'[w] = "run" <=> thread[w] = "run"
    PROVE  UNCHANGED <<Making, Made, Busy>>
BY DEF Making, Made, Busy, Building, Queued

\* Where no result moves and, unless something failed, no job is handed over, the places
\* stay as they are.
LEMMA PlacesUnmoved ==
    ASSUME OnePlace, NoneLost, StagedCount, PoolInv, ScanTyped,
           UNCHANGED <<ready, events, held, pending, retired>>,
           Made \subseteq Made',
           ~cancelling' /\ ~fatal' =>
               ~cancelling /\ ~fatal /\ UNCHANGED <<Made, Making, staged>>
    PROVE  OnePlace' /\ NoneLost' /\ StagedCount'
<1>1. UNCHANGED <<Readied, Kept, Reported, Awaiting, Finished, StagedReports>>
  BY DEF Readied, Kept, Reported, Awaiting, Finished, StagedReports, StagedOf
<1>2. OnePlace'  BY <1>1 DEF OnePlace
<1>3. NoneLost'  BY <1>1 DEF NoneLost
<1>4. StagedTargets' = Making' \cup Readied' \cup Kept' \cup StagedReports'
  BY DEF StagedTargets, Making, Readied, Kept, StagedReports, StagedOf, Elems
<1>5. StagedCount'  BY <1>1, <1>4, StagedParts DEF StagedCount
<1> QED  BY <1>2, <1>3, <1>5

\* The facts about the pool and the constants that the steps of the session need.
LEMMA PoolFacts ==
    ASSUME PoolInv
    PROVE  /\ pool \in {"creating", "open", "failing", "stopping", "gone"}
           /\ jobs \in Seq(Targets) /\ Len(jobs) \in Nat
           /\ thread \in [Threads -> {"none", "loop", "sleep", "run", "ended"}]
           /\ hand \in [Threads -> Targets]
           /\ fate \in [Targets -> {"none", "queued", "running", "ran", "cancelled"}]
           /\ stopping \in BOOLEAN /\ faults \in Nat
           /\ stopping <=> pool \notin {"creating", "open"}
           /\ Batch \in Nat /\ Batch >= 1 /\ Batch = QueueCapacity /\ Len(jobs) <= Batch
BY BatchAssumption, CapacityAssumption DEF PoolInv, PoolTypeOK, OwnerIsInStep, Targets

\* While a transaction is held it is the only one.
LEMMA HeldOne ==
    ASSUME ScanTyped, MainInStep, main = "send"
    PROVE  \E t \in Targets : held = <<t>> /\ held[1] = t /\ Kept = {t}
<1>1. PICK t \in Targets : held = <<t>>  BY DEF ScanTyped, MainInStep
<1>2. held[1] = t /\ Kept = {t}  BY <1>1 DEF Kept, Elems
<1> QED  BY <1>1, <1>2

\* A step of the session takes one of the pool's, or leaves the pool alone but for a failure.
PoolRests == UNCHANGED <<pool, jobs, stopping, thread, hand, fate>> /\ faults' \in {faults, faults + 1}

LEMMA PoolMoves == ASSUME ScanTyped, MainInStep, [Next]_vars PROVE PoolNext \/ PoolRests
<1> USE DEF queues, wire, flags, session, Fault
<1>1. ASSUME UNCHANGED <<pool, jobs, stopping, thread, hand, fate>>, faults' \in {faults, faults + 1}
      PROVE  PoolNext \/ PoolRests
  BY <1>1 DEF PoolRests
<1>2. ASSUME PoolNext PROVE PoolNext \/ PoolRests  BY <1>2
<1>3. CASE OpenStep
  <2>1. CreateThread \/ CreateFails \/ Destroy \/ UNCHANGED poolVars  BY <1>3 DEF OpenStep
  <2> QED  BY <1>1, <1>2, <2>1 DEF PoolNext, poolVars
<1>4. CASE RefillStep
  <2>1. ASSUME MoreTargets, Dispatch(CHOOSE x \in todo : TRUE) PROVE PoolNext \/ PoolRests
    <3> DEFINE t == CHOOSE x \in todo : TRUE
    <3>1. t \in todo  BY <2>1 DEF MoreTargets
    <3> HIDE DEF t
    <3>2. t \in Jobs /\ fate[t] = "none"  BY <3>1 DEF MainInStep, ScanTyped, Targets
    <3> QED  BY <1>2, <2>1, <3>2 DEF PoolNext, t
  <2>2. \/ MoreTargets /\ Dispatch(CHOOSE x \in todo : TRUE)
        \/ UNCHANGED <<pool, jobs, stopping, thread, hand, fate>> /\ faults' \in {faults, faults + 1}
    BY <1>4 DEF RefillStep, poolVars
  <2> QED  BY <1>1, <2>1, <2>2
<1>5. CASE CloseStep \/ FreeStep
  <2>1. Cancel \/ Close \/ Destroy \/ UNCHANGED poolVars  BY <1>5 DEF CloseStep, FreeStep
  <2> QED  BY <1>1, <1>2, <2>1 DEF PoolNext, poolVars
<1>6. CASE LoopStep  BY <1>1, <1>6 DEF LoopStep
<1>7. CASE DrainStep \/ RetireStep \/ TransmitStep
  BY <1>1, <1>7 DEF DrainStep, RetireStep, TransmitStep, poolVars
<1>8. CASE SendStep \/ WaitStep
  BY <1>1, <1>8 DEF SendStep, SendDeferred, SendFails, SendLosesClock, SendSucceeds, WaitStep, poolVars
<1>9. CASE TimePasses \/ Closed \/ UNCHANGED vars
  BY <1>1, <1>9 DEF TimePasses, Closed, poolVars, vars
<1>10. ASSUME NEW w \in Threads, BuildReturns(w) \/ ThreadStep(w) PROVE PoolNext \/ PoolRests
  BY <1>2, <1>10 DEF PoolNext, BuildReturns
<1>11. ASSUME NEW w \in Threads, BuildLooks(w) \/ BuildPushes(w) \/ BuildReports(w) \/ BuildCleans(w)
       PROVE  PoolNext \/ PoolRests
  BY <1>1, <1>11 DEF BuildLooks, BuildPushes, BuildReports, SubmitEvent, BuildCleans, poolVars
<1>12. CASE SpuriousWakeup  BY <1>2, <1>12 DEF PoolNext
<1> QED
  BY <1>3, <1>4, <1>5, <1>6, <1>7, <1>8, <1>9, <1>10, <1>11, <1>12 DEF Next, Session, Worker

LEMMA PoolKept == ASSUME PoolInv, ScanTyped, MainInStep, [Next]_vars PROVE PoolInv'
<1>1. ASSUME PoolRests PROVE PoolInv'
  <2>1. faults' \in Nat  BY <1>1 DEF PoolRests, PoolInv, PoolTypeOK
  <2> QED
    BY <1>1, <2>1 DEF PoolRests, PoolInv, PoolTypeOK, QueueIsExact, HandsAreExact, OwnerIsInStep
<1>2. ASSUME PoolNext PROVE PoolInv'  BY <1>2, PoolInvStep
<1> QED  BY <1>1, <1>2, PoolMoves

\* The step a worker is at.
LEMMA BuildSet ==
    ASSUME ScanTyped, NEW w \in Threads, NEW s, BuildMoves(w, s),
           s \in {"start", "read", "made", "push", "event", "clean", "done"}
    PROVE  /\ build' \in [Threads -> {"start", "read", "made", "push", "event", "clean", "done"}]
           /\ build'[w] = s /\ \A v \in Threads \ {w} : build'[v] = build[v]
BY DEF ScanTyped, BuildMoves

\* An event that is submitted goes to the end of the queue, or fails the session.
LEMMA Submitted ==
    ASSUME ScanTyped, NEW e \in Event, SubmitEvent(e)
    PROVE  /\ events' \in Seq(Event) /\ fatal' \in BOOLEAN /\ (fatal => fatal')
           /\ \/ Len(events) < Batch /\ events' = Append(events, e) /\ UNCHANGED <<fatal, faults>>
              \/ fatal' /\ UNCHANGED events
<1>1. events \in Seq(Event) /\ Append(events, e) \in Seq(Event) /\ fatal \in BOOLEAN
  <2>1. events \in Seq(Event) /\ fatal \in BOOLEAN  BY DEF ScanTyped
  <2> QED  BY <2>1, AppendProperties
<1>2. CASE Len(events) < Batch /\ events' = Append(events, e) /\ UNCHANGED <<fatal, faults>>
  BY <1>1, <1>2
<1>3. CASE fatal' = TRUE /\ UNCHANGED events  BY <1>1, <1>3
<1> QED  BY <1>2, <1>3 DEF SubmitEvent

LEMMA TypedKept == ASSUME ScanInv, [Next]_vars PROVE ScanTyped'
<1> USE DEF queues, wire, flags, session, Fault
<1>0. PoolInv /\ ScanTyped /\ MainInStep  BY DEF ScanInv
<1>a. Batch \in Nat /\ Batch >= 1  BY <1>0, PoolFacts
<1>b. \A t \in Targets : TxEvent(t) \in Event /\ BuildEvent(t) \in Event
  BY DEF TxEvent, BuildEvent, Event
<1>1. ASSUME NEW w \in Threads, BuildLooks(w) PROVE ScanTyped'
  <2>1. \E s \in {"clean", "read", "made", "event", "push"} : BuildMoves(w, s)
    BY <1>1 DEF BuildLooks
  <2>2. build' \in [Threads -> {"start", "read", "made", "push", "event", "clean", "done"}]
    BY <1>0, <2>1, BuildSet
  <2>3. UNCHANGED <<main, todo, staged, ready, events, held, pending, expired, paced, blocked,
                    auto, locked, cancelling, fatal, retired>>
    BY <1>1 DEF BuildLooks
  <2> QED  BY <1>0, <2>2, <2>3 DEF ScanTyped
<1>2. ASSUME NEW w \in Threads, BuildPushes(w) PROVE ScanTyped'
  <2>1. BuildMoves(w, "clean") \/ BuildMoves(w, "event")  BY <1>2 DEF BuildPushes
  <2>2. build' \in [Threads -> {"start", "read", "made", "push", "event", "clean", "done"}]
    BY <1>0, <2>1, BuildSet
  <2>3. ready' \in Seq(Targets)
    <3>1. hand[w] \in Targets /\ ready \in Seq(Targets)  BY <1>0, HandsApart DEF ScanTyped
    <3>2. Append(ready, hand[w]) \in Seq(Targets)  BY <3>1, AppendProperties
    <3> QED  BY <1>2, <3>1, <3>2 DEF BuildPushes
  <2>4. UNCHANGED <<main, todo, staged, events, held, pending, expired, paced, blocked,
                    auto, locked, cancelling, fatal, retired>>
    BY <1>2 DEF BuildPushes
  <2> QED  BY <1>0, <2>2, <2>3, <2>4 DEF ScanTyped
<1>3. ASSUME NEW w \in Threads, BuildReports(w) PROVE ScanTyped'
  <2>1. build' \in [Threads -> {"start", "read", "made", "push", "event", "clean", "done"}]
    BY <1>0, <1>3, BuildSet DEF BuildReports
  <2>2. events' \in Seq(Event) /\ fatal' \in BOOLEAN
    BY <1>0, <1>3, <1>b, PoolFacts, Submitted DEF BuildReports
  <2>3. UNCHANGED <<main, todo, staged, ready, held, pending, expired, paced, blocked,
                    auto, locked, cancelling, retired>>
    BY <1>3 DEF BuildReports
  <2> QED  BY <1>0, <2>1, <2>2, <2>3 DEF ScanTyped
<1>4. ASSUME NEW w \in Threads, BuildCleans(w) \/ BuildReturns(w) PROVE ScanTyped'
  <2>1. build' \in [Threads -> {"start", "read", "made", "push", "event", "clean", "done"}]
    BY <1>0, <1>4, BuildSet DEF BuildCleans, BuildReturns
  <2> QED  BY <1>0, <1>4, <2>1 DEF ScanTyped, BuildCleans, BuildReturns
<1>5. ASSUME NEW w \in Threads, ThreadStep(w), UNCHANGED <<main, session>> PROVE ScanTyped'
  BY <1>0, <1>5 DEF ScanTyped
<1>6. CASE SpuriousWakeup /\ UNCHANGED <<main, session>>  BY <1>0, <1>6 DEF ScanTyped
<1>7. CASE OpenStep \/ LoopStep \/ WaitStep \/ CloseStep
  BY <1>0, <1>7 DEF OpenStep, LoopStep, WaitStep, CloseStep, ScanTyped
<1>8. CASE DrainStep
  <2>1. CASE events = << >>  BY <1>0, <1>8, <2>1 DEF DrainStep, ScanTyped
  <2>2. CASE events # << >>
    <3>1. Head(events) \in Event /\ Tail(events) \in Seq(Event)
      BY <1>0, <2>2, ElemsTail DEF ScanTyped
    <3>2. Head(events).target \in Targets  BY <3>1, EventFields
    <3>3. retired' \in [Targets -> Nat]
      <4>1. retired' = [retired EXCEPT ![Head(events).target] = @ + 1]
        BY <1>8, <2>2 DEF DrainStep
      <4>2. retired \in [Targets -> Nat]  BY <1>0 DEF ScanTyped
      <4> QED  BY <3>2, <4>1, <4>2
    <3>4. staged' \in 0 .. Batch
      BY <1>0, <1>8, <1>a, <2>2 DEF DrainStep, Unstages, ScanTyped
    <3>5. events' = Tail(events) /\ UNCHANGED main  BY <1>8, <2>2 DEF DrainStep
    <3>6. UNCHANGED <<todo, build, ready, held, pending, expired, paced, blocked,
                      auto, locked, cancelling, fatal>>
      BY <1>8 DEF DrainStep
    <3> QED  BY <1>0, <3>1, <3>3, <3>4, <3>5, <3>6 DEF ScanTyped
  <2> QED  BY <2>1, <2>2
<1>9. CASE RetireStep
  <2>1. pending \in Seq(Targets) /\ expired \in 0 .. Len(pending) /\ Distinct(pending)
    BY <1>0 DEF ScanTyped, ScanInv, OnePlace
  <2>2. pending' \in Seq(Targets) /\ 0 \in 0 .. Len(pending')
    BY <1>9, <2>1, ElemsRest DEF RetireStep
  <2>3. retired' \in [Targets -> Nat]  BY <1>0, <1>9 DEF RetireStep, ScanTyped
  <2>4. blocked' \in BOOLEAN  BY <1>9 DEF RetireStep
  <2>5. main' = "refill" /\ expired' = 0 /\
        UNCHANGED <<todo, staged, build, ready, events, held, paced, auto, locked, cancelling, fatal>>
    BY <1>9 DEF RetireStep
  <2> QED  BY <1>0, <2>2, <2>3, <2>4, <2>5 DEF ScanTyped
<1>10. CASE RefillStep
  <2>1. staged' \in 0 .. Batch  BY <1>0, <1>10, <1>a DEF RefillStep, MoreTargets, ScanTyped
  <2>2. todo' \subseteq Targets  BY <1>0, <1>10 DEF RefillStep, ScanTyped
  <2>3. main' \in {main, "transmit", "close"} /\ fatal' \in BOOLEAN
          /\ cancelling' \in BOOLEAN
    BY <1>0, <1>10 DEF RefillStep, ScanTyped
  <2>4. UNCHANGED <<build, ready, events, held, pending, expired, paced, blocked,
                    auto, locked, retired>>
    BY <1>10 DEF RefillStep
  <2> QED  BY <1>0, <2>1, <2>2, <2>3, <2>4 DEF ScanTyped
<1>11. CASE TransmitStep
  <2>1. ready' \in Seq(Targets) /\ held' \in {<< >>} \cup {<<t>> : t \in Targets}
    <3>1. CASE ready = << >>  BY <1>0, <1>11, <3>1 DEF TransmitStep, ScanTyped
    <3>2. CASE ready # << >>
      <4>1. Head(ready) \in Targets /\ Tail(ready) \in Seq(Targets)
        BY <1>0, <3>2, ElemsTail DEF ScanTyped
      <4> QED  BY <1>0, <1>11, <4>1 DEF TransmitStep, ScanTyped
    <3> QED  BY <3>1, <3>2
  <2>2. main' \in {"redrain", "send"} /\ blocked' \in BOOLEAN  BY <1>11 DEF TransmitStep
  <2>3. UNCHANGED <<todo, staged, build, events, pending, expired, paced,
                    auto, locked, cancelling, fatal, retired>>
    BY <1>11 DEF TransmitStep
  <2> QED  BY <1>0, <2>1, <2>2, <2>3 DEF ScanTyped
<1>12. CASE SendStep
  <2>0. PICK t \in Targets : held = <<t>> /\ held[1] = t
    BY <1>0, <1>12, HeldOne DEF SendStep, SendDeferred, SendFails, SendLosesClock, SendSucceeds
  <2>1. CASE SendDeferred
    <3>1. ready' \in Seq(Targets)
      <4>1. ready \in Seq(Targets)  BY <1>0 DEF ScanTyped
      <4>2. Append(ready, t) \in Seq(Targets)  BY <4>1, AppendProperties
      <4> QED  BY <2>0, <2>1, <4>1, <4>2 DEF SendDeferred
    <3>2. main' \in {"redrain", "close"} /\ fatal' \in BOOLEAN /\ blocked' = TRUE
            /\ cancelling' \in BOOLEAN /\ held' = << >>
      BY <1>0, <2>1 DEF SendDeferred, ScanTyped
    <3>3. UNCHANGED <<todo, staged, build, events, pending, expired, paced, auto, locked, retired>>
      BY <2>1 DEF SendDeferred
    <3> QED  BY <1>0, <3>1, <3>2, <3>3 DEF ScanTyped
  <2>2. CASE SendFails
    <3>1. events' \in Seq(Event)
      <4>1. events \in Seq(Event)  BY <1>0 DEF ScanTyped
      <4>2. Append(events, TxEvent(t)) \in Seq(Event)  BY <1>b, <4>1, AppendProperties
      <4> QED  BY <2>0, <2>2, <4>1, <4>2 DEF SendFails
    <3>2. staged' \in 0 .. Batch  BY <1>0, <1>a, <2>2 DEF SendFails, ScanTyped
    <3>3. main' = "redrain" /\ fatal' \in BOOLEAN /\ blocked' = FALSE /\ held' = << >>
            /\ paced' \in BOOLEAN
      BY <1>0, <2>2 DEF SendFails, ScanTyped
    <3>4. UNCHANGED <<todo, build, ready, pending, expired, auto, locked, cancelling, retired>>
      BY <2>2 DEF SendFails
    <3> QED  BY <1>0, <3>1, <3>2, <3>3, <3>4 DEF ScanTyped
  <2>3. CASE SendLosesClock  BY <1>0, <2>3 DEF SendLosesClock, ScanTyped
  <2>4. CASE SendSucceeds
    <3>1. pending' = Append(pending, t) /\ pending' \in Seq(Targets) /\ expired' \in 0 .. Len(pending')
      BY <1>0, <2>0, <2>4 DEF SendSucceeds, ScanTyped
    <3>2. staged' \in 0 .. Batch  BY <1>0, <1>a, <2>4 DEF SendSucceeds, ScanTyped
    <3>3. main' = "redrain" /\ blocked' = FALSE /\ held' = << >> /\ paced' = TRUE
            /\ locked' \in BOOLEAN
      BY <1>0, <2>4 DEF SendSucceeds, ScanTyped
    <3>4. UNCHANGED <<todo, build, ready, events, auto, cancelling, fatal, retired>>
      BY <2>4 DEF SendSucceeds
    <3> QED  BY <1>0, <3>1, <3>2, <3>3, <3>4 DEF ScanTyped
  <2> QED  BY <1>12, <2>1, <2>2, <2>3, <2>4 DEF SendStep
<1>13. CASE FreeStep
  <2>1. << >> \in Seq(Targets) /\ << >> \in Seq(Event) /\ 0 \in 0 .. Len(<< >>)  OBVIOUS
  <2>2. ready' \in Seq(Targets) /\ events' \in Seq(Event)
    <3>1. ready' \in {ready, << >>} /\ events' \in {events, << >>}  BY <1>13 DEF FreeStep
    <3>2. ready \in Seq(Targets) /\ events \in Seq(Event)  BY <1>0 DEF ScanTyped
    <3> QED  BY <2>1, <3>1, <3>2
  <2>3. pending' \in Seq(Targets) /\ expired' \in 0 .. Len(pending')
    <3>1. \/ pending' = pending /\ expired' = expired
          \/ pending' = << >> /\ expired' = 0
      BY <1>13 DEF FreeStep
    <3>2. pending \in Seq(Targets) /\ expired \in 0 .. Len(pending)  BY <1>0 DEF ScanTyped
    <3> QED  BY <2>1, <3>1, <3>2
  <2>4. main' \in {main, "closed"} /\ locked' \in BOOLEAN /\ blocked' \in BOOLEAN
    BY <1>0, <1>13 DEF FreeStep, ScanTyped
  <2>5. UNCHANGED <<todo, staged, build, held, paced, auto, cancelling, fatal, retired>>
    BY <1>13 DEF FreeStep
  <2> QED  BY <1>0, <2>2, <2>3, <2>4, <2>5 DEF ScanTyped
<1>14. CASE TimePasses
  <2>1. expired' \in 0 .. Len(pending)  BY <1>0, <1>14 DEF TimePasses, ScanTyped
  <2> QED  BY <1>0, <1>14, <2>1 DEF TimePasses, ScanTyped
<1>15. CASE UNCHANGED vars  BY <1>0, <1>15 DEF vars, ScanTyped
<1> QED
  BY <1>1, <1>2, <1>3, <1>4, <1>5, <1>6, <1>7, <1>8, <1>9, <1>10, <1>11, <1>12, <1>13, <1>14, <1>15
  DEF Next, Session, Worker, Closed

\* No thread takes up or lays down a job in a step of the pool's owner, and none does by
\* going to sleep, waking or ending.
LEMMA RunsKept ==
    ASSUME PoolInv,
           \/ CreateThread \/ CreateFails \/ Destroy \/ Close \/ Cancel \/ SpuriousWakeup
           \/ \E t : Dispatch(t)
           \/ \E w \in Threads : Sleep(w) \/ End(w)
           \/ UNCHANGED poolVars
    PROVE  UNCHANGED hand /\ \A w \in Threads : thread'[w] = "run" <=> thread[w] = "run"
<1>0. thread \in [Threads -> {"none", "loop", "sleep", "run", "ended"}]  BY PoolFacts
<1>1. CASE CreateThread  BY <1>0, <1>1 DEF CreateThread
<1>2. CASE CreateFails \/ Close \/ Cancel
  BY <1>0, <1>2 DEF CreateFails, Close, Cancel, AllWoken
<1>3. CASE SpuriousWakeup  BY <1>0, <1>3 DEF SpuriousWakeup, Sleepers
<1>4. CASE \E t : Dispatch(t)
  <2>1. UNCHANGED hand /\ \/ UNCHANGED thread
                          \/ \E w \in Sleepers : thread' = [thread EXCEPT ![w] = "loop"]
    BY <1>4 DEF Dispatch
  <2> QED  BY <1>0, <2>1 DEF Sleepers
<1>5. CASE \E w \in Threads : Sleep(w) \/ End(w)  BY <1>0, <1>5 DEF Sleep, End
<1>6. CASE Destroy \/ UNCHANGED poolVars  BY <1>6 DEF Destroy, poolVars
<1> QED  BY <1>1, <1>2, <1>3, <1>4, <1>5, <1>6

\* The job that is dispatched is new to the pool.
LEMMA Refilled ==
    ASSUME PoolInv, ScanTyped, MainInStep, RefillStep, todo' # todo
    PROVE  \E t \in todo :
             /\ MoreTargets /\ Dispatch(t) /\ todo' = todo \ {t}
             /\ staged' = staged + 1 /\ outstanding' = outstanding + 1
             /\ t \in Targets /\ fate[t] = "none"
             /\ UNCHANGED <<main, cancelling, fatal>>
<1>1. /\ MoreTargets /\ staged' = staged + 1 /\ outstanding' = outstanding + 1
      /\ Dispatch(CHOOSE x \in todo : TRUE) /\ todo' = todo \ {CHOOSE x \in todo : TRUE}
      /\ UNCHANGED <<main, cancelling, fatal>>
  BY DEF RefillStep, flags
<1>2. (CHOOSE x \in todo : TRUE) \in todo  BY <1>1 DEF MoreTargets
<1>3. \A t \in todo : t \in Targets /\ fate[t] = "none"  BY DEF ScanTyped, MainInStep
<1> QED  BY <1>1, <1>2, <1>3

LEMMA StepKept == ASSUME ScanInv, [Next]_vars PROVE MainInStep'
<1> USE DEF queues, wire, flags, session, Fault
<1>0. PoolInv /\ ScanTyped /\ MainInStep  BY DEF ScanInv
<1>1. ASSUME NEW w \in Threads, BuildLooks(w) \/ BuildPushes(w) \/ BuildReports(w) \/ BuildCleans(w)
      PROVE  MainInStep'
  <2>1. /\ UNCHANGED <<main, pool, cancelling, held, thread, fate, todo>> /\ thread[w] = "run"
        /\ \E s \in {"start", "read", "made", "push", "event", "clean", "done"} : BuildMoves(w, s)
    BY <1>1 DEF BuildLooks, BuildPushes, BuildReports, BuildCleans, Builds, poolVars
  <2>2. \A v \in Threads \ {w} : build'[v] = build[v]  BY <1>0, <2>1, BuildSet
  <2> QED  BY <1>0, <2>1, <2>2 DEF MainInStep
<1>2. ASSUME NEW w \in Threads, BuildReturns(w) PROVE MainInStep'
  <2>1. /\ UNCHANGED <<main, pool, cancelling, held, todo>> /\ thread[w] = "run"
        /\ thread' = [thread EXCEPT ![w] = "loop"] /\ fate' = [fate EXCEPT ![hand[w]] = "ran"]
    BY <1>2 DEF BuildReturns, Return
  <2>2. build'[w] = "start" /\ \A v \in Threads \ {w} : build'[v] = build[v]
    BY <1>0, <1>2, BuildSet DEF BuildReturns
  <2>3. fate[hand[w]] = "running" /\ hand[w] \in Targets  BY <1>0, <2>1, HandsApart
  <2>4. \A t \in Targets : \A s \in {"none", "cancelled"} : fate'[t] = s <=> fate[t] = s
    BY <1>0, <2>1, <2>3, PoolFacts
  <2>5. \A v \in Threads : thread'[v] # "run" => build'[v] = "start"
    BY <1>0, <2>1, <2>2, PoolFacts DEF MainInStep
  <2> QED  BY <1>0, <2>1, <2>4, <2>5 DEF MainInStep
<1>3. ASSUME NEW w \in Threads, Take(w), UNCHANGED <<main, session>> PROVE MainInStep'
  <2>1. /\ UNCHANGED <<main, pool, cancelling, held, todo, build>> /\ jobs # << >>
        /\ thread' = [thread EXCEPT ![w] = "run"] /\ fate' = [fate EXCEPT ![Head(jobs)] = "running"]
    BY <1>3 DEF Take
  <2>2. Head(jobs) \in Queued  BY <1>0, <2>1, PoolFacts, ElemsTail DEF Elems, Queued
  <2>3. Head(jobs) \in Targets /\ fate[Head(jobs)] = "queued"  BY <1>0, <2>2, HandsApart
  <2>4. \A t \in Targets : \A s \in {"none", "cancelled"} : fate'[t] = s <=> fate[t] = s
    BY <1>0, <2>1, <2>3, PoolFacts
  <2>5. \A v \in Threads : thread'[v] # "run" => build'[v] = "start"
    BY <1>0, <2>1, PoolFacts DEF MainInStep
  <2> QED  BY <1>0, <2>1, <2>4, <2>5 DEF MainInStep
<1>4. ASSUME SpuriousWakeup \/ \E w \in Threads : Sleep(w) \/ End(w), UNCHANGED <<main, session>>
      PROVE  MainInStep'
  <2>1. \A w \in Threads : thread'[w] = "run" <=> thread[w] = "run"  BY <1>0, <1>4, RunsKept
  <2>2. UNCHANGED <<main, pool, cancelling, held, todo, build, fate>>
    BY <1>4 DEF SpuriousWakeup, Sleep, End
  <2> QED  BY <1>0, <2>1, <2>2 DEF MainInStep
<1>5. CASE OpenStep
  <2>1. \A w \in Threads : thread'[w] = "run" <=> thread[w] = "run"
    BY <1>0, <1>5, RunsKept DEF OpenStep
  <2>2. UNCHANGED <<cancelling, held, todo, build, fate>>
    BY <1>5 DEF OpenStep, CreateThread, CreateFails, Destroy, poolVars
  <2>3. /\ main = "open" /\ main' \in {"open", "loop", "closed"}
        /\ main' = "open" => pool' # "stopping"
        /\ main' = "loop" => pool' = "open"
        /\ main' = "closed" => pool' = "gone"
    <3>1. CASE CreateThread
      BY <1>0, <1>5, <3>1 DEF OpenStep, CreateThread, MainInStep, poolVars
    <3>2. CASE CreateFails
      BY <1>0, <1>5, <3>2 DEF OpenStep, CreateFails, MainInStep, poolVars
    <3>3. CASE Destroy  BY <1>0, <1>5, <3>3 DEF OpenStep, Destroy, MainInStep, poolVars
    <3>4. CASE UNCHANGED poolVars /\ main' = "loop" /\ pool = "open"
      BY <1>5, <3>4 DEF OpenStep, poolVars
    <3>5. CASE UNCHANGED poolVars /\ main' = "closed" /\ pool = "gone"
      BY <1>5, <3>5 DEF OpenStep, poolVars
    <3> QED  BY <1>5, <3>1, <3>2, <3>3, <3>4, <3>5 DEF OpenStep
  <2> QED  BY <1>0, <2>1, <2>2, <2>3 DEF MainInStep
<1>6. CASE RefillStep
  <2>1. CASE todo' = todo
    <3>1. UNCHANGED <<pool, jobs, stopping, thread, hand, fate>>
            /\ ((main' = "transmit" /\ UNCHANGED cancelling) \/ main' = "close")
      <4>1. ASSUME MoreTargets, todo' = todo \ {CHOOSE x \in todo : TRUE} PROVE FALSE
        <5>1. (CHOOSE x \in todo : TRUE) \in todo  BY <4>1 DEF MoreTargets
        <5> QED  BY <2>1, <4>1, <5>1
      <4> QED  BY <1>6, <4>1 DEF RefillStep, poolVars
    <3>2. main = "refill" /\ UNCHANGED <<held, build>> /\ (cancelling' = cancelling \/ main' = "close")
      BY <1>6, <3>1 DEF RefillStep
    <3> QED  BY <1>0, <2>1, <3>1, <3>2 DEF MainInStep
  <2>2. CASE todo' # todo
    <3>1. PICK t \in todo : /\ Dispatch(t) /\ todo' = todo \ {t} /\ t \in Targets /\ fate[t] = "none"
                            /\ UNCHANGED <<main, cancelling, fatal>>
      BY <1>0, <1>6, <2>2, Refilled
    <3>2. fate' = [fate EXCEPT ![t] = "queued"] /\ UNCHANGED pool  BY <3>1 DEF Dispatch
    <3>3. \A w \in Threads : thread'[w] = "run" <=> thread[w] = "run"  BY <1>0, <3>1, RunsKept
    <3>4. /\ \A x \in Targets : fate'[x] = "none" <=> x \in todo'
          /\ \A x \in Targets : fate'[x] = "cancelled" => cancelling'
      BY <1>0, <3>1, <3>2, PoolFacts DEF MainInStep
    <3>5. UNCHANGED <<held, build>>  BY <1>6 DEF RefillStep
    <3>6. \A w \in Threads : thread'[w] # "run" => build'[w] = "start"
      BY <1>0, <3>3, <3>5 DEF MainInStep
    <3>7. UNCHANGED <<main, pool, held, cancelling>>  BY <3>1, <3>2, <3>5
    <3> QED  BY <1>0, <3>4, <3>6, <3>7 DEF MainInStep
  <2> QED  BY <2>1, <2>2
<1>7. CASE CloseStep
  <2>1. \A w \in Threads : thread'[w] = "run" <=> thread[w] = "run"
    BY <1>0, <1>7, RunsKept DEF CloseStep
  <2>2. /\ pool' = "stopping" /\ cancelling' = TRUE /\ main = "close" /\ main' = "join"
        /\ UNCHANGED <<held, todo, build>>
    BY <1>7 DEF CloseStep, Close, Cancel
  <2>3. \A t \in Targets : fate'[t] = "none" <=> fate[t] = "none"
    <3>1. CASE UNCHANGED fate  BY <3>1
    <3>2. CASE fate' = [j \in Jobs |-> IF j \in Queued THEN "cancelled" ELSE fate[j]]
      BY <1>0, <3>2, HandsApart DEF Targets
    <3> QED  BY <1>7, <3>1, <3>2 DEF CloseStep, Close, Cancel
  <2> QED  BY <1>0, <2>1, <2>2, <2>3 DEF MainInStep
<1>8. CASE FreeStep
  <2>1. /\ UNCHANGED <<cancelling, held, todo, build, thread, fate>> /\ main = "join"
        /\ pool' = "gone" /\ main' \in {"join", "closed"}
    BY <1>8 DEF FreeStep, Destroy, poolVars
  <2> QED  BY <1>0, <2>1 DEF MainInStep
<1>9. CASE LoopStep \/ DrainStep \/ RetireStep \/ TransmitStep \/ WaitStep
  <2>1. /\ main \in {"loop", "drain", "redrain", "retire", "transmit", "wait"}
        /\ main' \in {"loop", "drain", "redrain", "retire", "refill", "transmit", "send", "wait",
                      "close"}
        /\ UNCHANGED <<todo, build, thread, fate, pool>>
        /\ cancelling' = cancelling \/ main' = "close"
        /\ main' = "send" <=> held' # << >>
    <3>1. held = << >> => main # "send"  BY <1>0 DEF MainInStep
    <3>2. CASE LoopStep  BY <1>0, <3>2 DEF LoopStep, MainInStep
    <3>3. CASE DrainStep
      <4>1. main \in {"drain", "redrain"} /\ main' \in {main, "retire", "wait"}
        BY <3>3 DEF DrainStep
      <4>2. UNCHANGED <<todo, build, thread, fate, pool, held, cancelling>>
        BY <3>3 DEF DrainStep, poolVars
      <4>3. held = << >>  BY <1>0, <4>1 DEF MainInStep
      <4> QED  BY <4>1, <4>2, <4>3
    <3>4. CASE RetireStep  BY <1>0, <3>4 DEF RetireStep, MainInStep, poolVars
    <3>5. CASE TransmitStep
      <4>1. main = "transmit" /\ UNCHANGED <<todo, build, thread, fate, pool, cancelling>>
        BY <3>5 DEF TransmitStep, poolVars
      <4>2. held = << >>  BY <1>0, <4>1 DEF MainInStep
      <4>3. <<Head(ready)>> # << >>  OBVIOUS
      <4>4. \/ main' = "redrain" /\ UNCHANGED held
            \/ main' = "send" /\ held' = <<Head(ready)>>
        BY <3>5 DEF TransmitStep
      <4>5. main' \in {"redrain", "send"} /\ (main' = "send" <=> held' # << >>)
        BY <4>2, <4>3, <4>4
      <4> QED  BY <4>1, <4>5
    <3>6. CASE WaitStep  BY <1>0, <3>6 DEF WaitStep, MainInStep
    <3> QED  BY <1>9, <3>2, <3>3, <3>4, <3>5, <3>6
  <2> QED  BY <1>0, <2>1 DEF MainInStep
<1>10. CASE SendStep
  <2>1. /\ main = "send" /\ main' \in {"redrain", "close"} /\ held' = << >>
        /\ UNCHANGED <<todo, build, thread, fate, pool>>
        /\ cancelling' = cancelling \/ main' = "close"
    BY <1>10 DEF SendStep, SendDeferred, SendFails, SendLosesClock, SendSucceeds, poolVars
  <2> QED  BY <1>0, <2>1 DEF MainInStep
<1>11. CASE TimePasses \/ Closed \/ UNCHANGED vars
  BY <1>0, <1>11 DEF TimePasses, Closed, vars, poolVars, MainInStep
<1> QED
  BY <1>1, <1>2, <1>3, <1>4, <1>5, <1>6, <1>7, <1>8, <1>9, <1>10, <1>11
  DEF Next, Session, Worker, ThreadStep

LEMMA CountKept == ASSUME ScanInv, PoolInv', ScanTyped', [Next]_vars PROVE JobsAreCounted'
<1> USE DEF queues, wire, flags, session, Fault
<1>0. PoolInv /\ ScanTyped /\ MainInStep /\ JobsAreCounted  BY DEF ScanInv
<1>a. Len(jobs) \in Nat /\ Len(jobs') \in Nat /\ IsFiniteSet(Busy) /\ Cardinality(Busy) \in Nat
  <2>1. Busy \subseteq Threads  BY DEF Busy
  <2>2. IsFiniteSet(Busy)  BY <2>1, ThreadsAssumption, FS_Subset
  <2>3. Len(jobs') \in Nat  BY DEF PoolInv, PoolTypeOK
  <2> QED  BY <1>0, <2>2, <2>3, PoolFacts, FS_CardinalityType
<1>1. ASSUME NEW w \in Threads, BuildLooks(w) \/ BuildPushes(w) \/ BuildReports(w)
      PROVE  JobsAreCounted'
  <2>1. /\ UNCHANGED <<outstanding, jobs, thread>> /\ thread[w] = "run" /\ build[w] # "done"
        /\ \E s \in {"read", "made", "push", "event", "clean"} : BuildMoves(w, s)
    BY <1>1 DEF BuildLooks, BuildPushes, BuildReports, Builds, poolVars
  <2>2. build'[w] # "done" /\ \A v \in Threads \ {w} : build'[v] = build[v]
    BY <1>0, <2>1, BuildSet
  <2>3. Busy' = Busy  BY <2>1, <2>2 DEF Busy
  <2> QED  BY <1>0, <2>1, <2>3 DEF JobsAreCounted
<1>2. ASSUME NEW w \in Threads, BuildCleans(w) PROVE JobsAreCounted'
  <2>1. UNCHANGED <<jobs, thread>> /\ outstanding' = outstanding - 1 /\ w \in Busy
    BY <1>2 DEF BuildCleans, Builds, Busy, poolVars
  <2>2. build'[w] = "done" /\ \A v \in Threads \ {w} : build'[v] = build[v]
    BY <1>0, <1>2, BuildSet DEF BuildCleans
  <2>3. Busy' = Busy \ {w}  BY <2>1, <2>2 DEF Busy
  <2>4. Cardinality(Busy') = Cardinality(Busy) - 1  BY <1>a, <2>1, <2>3, FS_RemoveElement
  <2> QED  BY <1>0, <1>a, <2>1, <2>4 DEF JobsAreCounted
<1>3. ASSUME NEW w \in Threads, BuildReturns(w) PROVE JobsAreCounted'
  <2>1. /\ UNCHANGED <<jobs, outstanding>> /\ w \notin Busy
        /\ thread' = [thread EXCEPT ![w] = "loop"]
    BY <1>3 DEF BuildReturns, Return, Busy
  <2>2. \A v \in Threads \ {w} : build'[v] = build[v]  BY <1>0, <1>3, BuildSet DEF BuildReturns
  <2>3. Busy' = Busy  BY <1>0, <2>1, <2>2, PoolFacts DEF Busy
  <2> QED  BY <1>0, <2>1, <2>3 DEF JobsAreCounted
<1>4. ASSUME NEW w \in Threads, Take(w), UNCHANGED <<main, session>> PROVE JobsAreCounted'
  <2>1. /\ UNCHANGED <<outstanding, build>> /\ thread[w] = "loop" /\ jobs # << >>
        /\ jobs' = Tail(jobs) /\ thread' = [thread EXCEPT ![w] = "run"]
    BY <1>4 DEF Take
  <2>2. build[w] = "start"  BY <1>0, <2>1 DEF MainInStep
  <2>3. Busy' = Busy \cup {w} /\ w \notin Busy  BY <1>0, <2>1, <2>2, PoolFacts DEF Busy
  <2>4. Cardinality(Busy') = Cardinality(Busy) + 1  BY <1>a, <2>3, FS_AddElement
  <2>5. Len(jobs') = Len(jobs) - 1  BY <1>0, <2>1, PoolFacts, HeadTailProperties
  <2> QED  BY <1>0, <1>a, <2>1, <2>4, <2>5 DEF JobsAreCounted
<1>5. ASSUME \A w \in Threads : thread'[w] = "run" <=> thread[w] = "run", UNCHANGED build
      PROVE  Busy' = Busy
  BY <1>5 DEF Busy
<1>6. ASSUME SpuriousWakeup \/ \E w \in Threads : Sleep(w) \/ End(w), UNCHANGED <<main, session>>
      PROVE  JobsAreCounted'
  <2>1. Busy' = Busy  BY <1>0, <1>5, <1>6, RunsKept
  <2>2. UNCHANGED <<jobs, outstanding>>  BY <1>6 DEF SpuriousWakeup, Sleep, End
  <2> QED  BY <1>0, <2>1, <2>2 DEF JobsAreCounted
<1>7. CASE OpenStep
  <2>1. Busy' = Busy  BY <1>0, <1>5, <1>7, RunsKept DEF OpenStep
  <2>2. UNCHANGED <<jobs, outstanding>>
    BY <1>7 DEF OpenStep, CreateThread, CreateFails, Destroy, poolVars
  <2> QED  BY <1>0, <2>1, <2>2 DEF JobsAreCounted
<1>8. CASE RefillStep
  <2>1. CASE todo' = todo
    <3>1. ASSUME MoreTargets, todo' = todo \ {CHOOSE x \in todo : TRUE} PROVE FALSE
      <4>1. (CHOOSE x \in todo : TRUE) \in todo  BY <3>1 DEF MoreTargets
      <4> QED  BY <2>1, <3>1, <4>1
    <3>2. UNCHANGED <<jobs, thread, build, outstanding>>  BY <1>8, <3>1 DEF RefillStep, poolVars
    <3> QED  BY <1>0, <3>2 DEF JobsAreCounted, Busy
  <2>2. CASE todo' # todo
    <3>1. PICK t \in todo : Dispatch(t) /\ outstanding' = outstanding + 1 /\ t \in Targets
      BY <1>0, <1>8, <2>2, Refilled
    <3>2. jobs' = Append(jobs, t) /\ UNCHANGED build  BY <1>8, <3>1 DEF Dispatch, RefillStep
    <3>3. Busy' = Busy  BY <1>0, <1>5, <3>1, <3>2, RunsKept
    <3>4. Len(jobs') = Len(jobs) + 1  BY <1>0, <3>1, <3>2, PoolFacts, AppendProperties
    <3> QED  BY <1>0, <1>a, <3>1, <3>3, <3>4 DEF JobsAreCounted
  <2> QED  BY <2>1, <2>2
<1>9. CASE CloseStep
  <2>1. Busy' = Busy  BY <1>0, <1>5, <1>9, RunsKept DEF CloseStep
  <2>2. \/ UNCHANGED <<jobs, outstanding>>
        \/ jobs' = << >> /\ outstanding' = outstanding - Len(jobs)
    BY <1>9 DEF CloseStep, Close, Cancel
  <2>3. Len(<< >>) = 0  OBVIOUS
  <2> QED  BY <1>0, <1>a, <2>1, <2>2, <2>3 DEF JobsAreCounted
<1>10. CASE \/ LoopStep \/ DrainStep \/ RetireStep \/ TransmitStep \/ SendStep \/ WaitStep \/ FreeStep
            \/ TimePasses \/ UNCHANGED vars
  <2>1. UNCHANGED <<jobs, outstanding, thread, build>>
    BY <1>10 DEF LoopStep, DrainStep, RetireStep, TransmitStep, SendStep, SendDeferred, SendFails,
                 SendLosesClock, SendSucceeds, WaitStep, FreeStep, Destroy, TimePasses, vars, poolVars
  <2> QED  BY <1>0, <2>1 DEF JobsAreCounted, Busy
<1> QED
  BY <1>1, <1>2, <1>3, <1>4, <1>6, <1>7, <1>8, <1>9, <1>10
  DEF Next, Session, Worker, ThreadStep, Closed

LEMMA CaptureKept == ASSUME ScanInv, ScanTyped', [Next]_vars PROVE CaptureIsExact'
<1> USE DEF queues, wire, flags, session, Fault
<1>0. ScanTyped /\ MainInStep /\ CaptureIsExact /\ Distinct(pending)
  BY DEF ScanInv, OnePlace
<1>a. CaptureTotal \in Nat /\ Len(pending) \in Nat /\ pending \in Seq(Targets)
        /\ expired \in 0 .. Len(pending)
  BY <1>0, LimitAssumption, LenProperties DEF ScanTyped
<1>1. CASE RetireStep
  <2>1. Len(pending') = Len(pending) - expired  BY <1>0, <1>1, <1>a, ElemsRest DEF RetireStep
  <2>2. capture' = capture - expired  BY <1>1 DEF RetireStep, CaptureLeft
  <2> QED  BY <1>0, <1>a, <2>1, <2>2 DEF CaptureIsExact
<1>2. CASE SendSucceeds
  <2>1. PICK t \in Targets : held = <<t>>  BY <1>0, <1>2, HeldOne DEF SendSucceeds
  <2>2. pending' = Append(pending, t) /\ capture' = capture + 1 /\ capture <= CaptureTotal - 1
    BY <1>2, <1>a, <2>1 DEF SendSucceeds
  <2>3. Len(pending') = Len(pending) + 1  BY <1>a, <2>2, AppendProperties
  <2> QED  BY <1>0, <1>a, <2>2, <2>3 DEF CaptureIsExact
<1>3. CASE FreeStep
  <2>1. \/ UNCHANGED <<pending, capture>>
        \/ pending' = << >> /\ capture' = capture - Len(pending)
    BY <1>3 DEF FreeStep, CaptureLeft
  <2>2. Len(<< >>) = 0  OBVIOUS
  <2> QED  BY <1>0, <1>a, <2>1, <2>2 DEF CaptureIsExact
<1>4. ASSUME UNCHANGED <<pending, capture>> PROVE CaptureIsExact'
  BY <1>0, <1>4 DEF CaptureIsExact
<1>5. CASE OpenStep \/ LoopStep \/ DrainStep \/ RefillStep \/ TransmitStep
  BY <1>4, <1>5 DEF OpenStep, LoopStep, DrainStep, RefillStep, TransmitStep
<1>6. CASE SendDeferred \/ SendFails \/ SendLosesClock \/ WaitStep \/ CloseStep
  BY <1>4, <1>6 DEF SendDeferred, SendFails, SendLosesClock, WaitStep, CloseStep
<1>7. CASE TimePasses \/ Closed \/ UNCHANGED vars \/ UNCHANGED <<main, session>>
  BY <1>4, <1>7 DEF TimePasses, Closed, vars
<1>8. ASSUME NEW w \in Threads, Worker(w) PROVE CaptureIsExact'
  BY <1>4, <1>8 DEF Worker, BuildLooks, BuildPushes, BuildReports, BuildCleans, BuildReturns
<1> QED
  BY <1>1, <1>2, <1>3, <1>5, <1>6, <1>7, <1>8 DEF Next, Session, SendStep

-------------------------------------------------------------------------------
(* One place for every target.                                             *)

\* The staged targets after a step, place by place.
LEMMA StagedPartsNext == StagedTargets' = Making' \cup Readied' \cup Kept' \cup StagedReports'
BY DEF StagedTargets, Making, Readied, Kept, StagedReports, StagedOf, Elems

\* The staged targets among the events, at an event more and an event less.
LEMMA StagedOfEvents ==
    ASSUME NEW s \in Seq(Event)
    PROVE  /\ \A e \in Event : StagedOf(Append(s, e)) =
                                 StagedOf(s) \cup (IF e.staged THEN {e.target} ELSE {})
           /\ s # << >> => StagedOf(s) =
                             StagedOf(Tail(s)) \cup (IF Head(s).staged THEN {Head(s).target} ELSE {})
           /\ s # << >> => \A x \in StagedOf(Tail(s)) : x \in Elems(Names(Tail(s)))
<1>1. ASSUME NEW e \in Event
      PROVE  StagedOf(Append(s, e)) = StagedOf(s) \cup (IF e.staged THEN {e.target} ELSE {})
  <2>1. /\ Len(s) \in Nat /\ DOMAIN s = 1 .. Len(s) /\ DOMAIN Append(s, e) = 1 .. Len(s) + 1
        /\ \A i \in DOMAIN s : Append(s, e)[i] = s[i]
        /\ Append(s, e)[Len(s) + 1] = e
    OBVIOUS
  <2>2. DOMAIN Append(s, e) = DOMAIN s \cup {Len(s) + 1} /\ Len(s) + 1 \notin DOMAIN s  BY <2>1
  <2> QED  BY <2>1, <2>2 DEF StagedOf
<1>2. ASSUME s # << >>
      PROVE  StagedOf(s) = StagedOf(Tail(s)) \cup (IF Head(s).staged THEN {Head(s).target} ELSE {})
  <2>1. /\ Len(s) \in Nat /\ Len(s) >= 1 /\ DOMAIN s = 1 .. Len(s) /\ Head(s) = s[1]
        /\ DOMAIN Tail(s) = 1 .. Len(s) - 1
        /\ \A i \in DOMAIN Tail(s) : Tail(s)[i] = s[i + 1]
    BY <1>2
  <2>2. \A i \in DOMAIN Tail(s) : i + 1 \in DOMAIN s  BY <2>1
  <2>3. \A i \in DOMAIN s : i = 1 \/ (i - 1 \in DOMAIN Tail(s) /\ (i - 1) + 1 = i)  BY <2>1
  <2>4. ASSUME NEW x \in StagedOf(s)
        PROVE  x \in StagedOf(Tail(s)) \/ (Head(s).staged /\ x = Head(s).target)
    <3>1. PICK i \in DOMAIN s : s[i].staged /\ x = s[i].target  BY <2>4 DEF StagedOf
    <3>2. CASE i = 1  BY <2>1, <3>1, <3>2
    <3>3. CASE i # 1
      <4>1. i - 1 \in DOMAIN Tail(s) /\ Tail(s)[i - 1] = s[i]  BY <2>1, <2>3, <3>1, <3>3
      <4> QED  BY <3>1, <4>1 DEF StagedOf
    <3> QED  BY <3>2, <3>3
  <2>5. \A x \in StagedOf(Tail(s)) : x \in StagedOf(s)  BY <2>1, <2>2 DEF StagedOf
  <2>6. Head(s).staged => Head(s).target \in StagedOf(s)  BY <2>1 DEF StagedOf
  <2> QED  BY <2>4, <2>5, <2>6
<1>3. ASSUME s # << >>, NEW x \in StagedOf(Tail(s)) PROVE x \in Elems(Names(Tail(s)))
  BY <1>3 DEF StagedOf, Elems, Names
<1> QED  BY <1>1, <1>2, <1>3

\* A worker that goes on with its job keeps it; one that is through has handed it over.
LEMMA BuildEnds ==
    ASSUME PoolInv, ScanTyped, NEW w \in Threads, thread[w] = "run",
           build[w] \in {"start", "read", "made", "push", "event"},
           NEW s \in {"read", "made", "push", "event", "clean"}, BuildMoves(w, s),
           UNCHANGED <<jobs, thread, hand, fate>>
    PROVE  /\ s # "clean" => Making' = Making /\ Made' = Made
           /\ s = "clean" => Making' = Making \ {hand[w]} /\ Made' = Made \cup {hand[w]}
<1>1. build'[w] = s /\ \A v \in Threads \ {w} : build'[v] = build[v]  BY BuildSet
<1>2. CASE s # "clean"
  <2>1. \A v \in Threads : Building(v)' <=> Building(v)  BY <1>1, <1>2 DEF Building
  <2>2. \A v \in Threads : build'[v] \in {"clean", "done"} <=> build[v] \in {"clean", "done"}
    BY <1>1, <1>2
  <2> QED  BY <1>2, <2>1, <2>2 DEF Making, Made, Queued
<1>3. CASE s = "clean"
  <2>1. \A v \in Threads : Building(v)' <=> Building(v) /\ v # w  BY <1>1, <1>3 DEF Building
  <2>2. \A v \in Threads : build'[v] \in {"clean", "done"} <=> build[v] \in {"clean", "done"} \/ v = w
    BY <1>1, <1>3
  <2>3. \A v \in Threads : Building(v) /\ v # w => hand[v] # hand[w]  BY HandsApart DEF Building
  <2>4. hand[w] \notin Queued /\ hand[w] \in Targets
    <3>1. fate[hand[w]] = "running" /\ hand[w] \in Targets  BY HandsApart
    <3> QED  BY <3>1, HandsApart
  <2>5. Making' = Making \ {hand[w]}  BY <2>1, <2>3, <2>4 DEF Making, Queued
  <2>6. Made' = Made \cup {hand[w]}  BY <2>2, <2>4 DEF Made
  <2> QED  BY <1>3, <2>5, <2>6
<1> QED  BY <1>2, <1>3

\* A worker hands its result over (kscan_dispatch_ready, kscan_event_submit), or goes on.
LEMMA BuildPlaces ==
    ASSUME ScanInv, PoolInv', ScanTyped', NEW w \in Threads,
           BuildLooks(w) \/ BuildPushes(w) \/ BuildReports(w)
    PROVE  OnePlace' /\ NoneLost' /\ StagedCount'
<1> USE DEF queues, wire, flags, Builds
<1>0. PoolInv /\ ScanTyped /\ OnePlace /\ NoneLost /\ StagedCount  BY DEF ScanInv
<1>1. /\ hand[w] \in Targets /\ Making \cap Made = {}
      /\ Building(w) => hand[w] \in Making /\ hand[w] \notin Made
  BY <1>0, HandsApart
<1>2. StagedTargets = Making \cup Readied \cup Kept \cup StagedReports  BY <1>0, StagedParts
<1>3. CASE BuildLooks(w)
  <2>1. PICK s \in {"read", "made", "push", "event", "clean"} :
          /\ BuildMoves(w, s) /\ (s = "clean" => cancelling)
          /\ thread[w] = "run" /\ build[w] \in {"start", "read", "made"}
    BY <1>3 DEF BuildLooks
  <2>2. UNCHANGED <<jobs, thread, hand, fate, staged, cancelling, fatal>>  BY <1>3 DEF BuildLooks
  <2>3. UNCHANGED <<ready, events, held, pending, retired>>  BY <1>3 DEF BuildLooks
  <2>4. /\ s # "clean" => Making' = Making /\ Made' = Made
        /\ s = "clean" => Made' = Made \cup {hand[w]}
    BY <1>0, <2>1, <2>2, BuildEnds
  <2> QED  BY <1>0, <2>1, <2>2, <2>3, <2>4, PlacesUnmoved
<1>4. CASE BuildPushes(w)
  <2>1. /\ UNCHANGED <<jobs, thread, hand, fate, staged, cancelling, fatal>>
        /\ UNCHANGED <<events, held, pending, retired>>
        /\ thread[w] = "run" /\ build[w] = "push"
    BY <1>4 DEF BuildPushes, poolVars
  <2>2. UNCHANGED <<Kept, Reported, Awaiting, Finished, StagedReports>>
    BY <2>1 DEF Kept, Reported, Awaiting, Finished, StagedReports
  <2>3. hand[w] \in Making /\ hand[w] \notin Made  BY <1>1, <2>1 DEF Building
  <2>4. CASE UNCHANGED ready /\ BuildMoves(w, "event")
    <3>1. Making' = Making /\ Made' = Made  BY <1>0, <2>1, <2>4, BuildEnds
    <3> QED  BY <1>0, <2>1, <2>4, <3>1, PlacesUnmoved
  <2>5. CASE ready' = Append(ready, hand[w]) /\ BuildMoves(w, "clean")
    <3>1. Making' = Making \ {hand[w]} /\ Made' = Made \cup {hand[w]}
      BY <1>0, <2>1, <2>5, BuildEnds
    <3>2. hand[w] \notin Readied  BY <1>0, <2>3 DEF OnePlace
    <3>3. Readied' = Readied \cup {hand[w]} /\ Distinct(ready')
      <4>1. ready \in Seq(Targets) /\ Distinct(ready)  BY <1>0 DEF ScanTyped, OnePlace
      <4> QED  BY <1>1, <2>5, <3>2, <4>1, ElemsAppend DEF Readied
    <3>4. OnePlace'  BY <1>0, <2>1, <2>2, <2>3, <3>1, <3>3 DEF OnePlace
    <3>5. NoneLost'  BY <1>0, <2>1, <2>2, <3>1, <3>3 DEF NoneLost
    <3>6. StagedTargets' = StagedTargets
      BY <1>2, <2>2, <2>3, <3>1, <3>3, StagedPartsNext
    <3>7. StagedCount'  BY <1>0, <2>1, <3>6 DEF StagedCount
    <3> QED  BY <3>4, <3>5, <3>7
  <2> QED  BY <1>4, <2>4, <2>5 DEF BuildPushes
<1>5. CASE BuildReports(w)
  <2> DEFINE e == BuildEvent(hand[w])
  <2>1. /\ UNCHANGED <<jobs, thread, hand, fate, staged, cancelling>>
        /\ UNCHANGED <<ready, held, pending, retired>>
        /\ thread[w] = "run" /\ build[w] = "event" /\ SubmitEvent(e) /\ BuildMoves(w, "clean")
    BY <1>5 DEF BuildReports
  <2>2. UNCHANGED <<Readied, Kept, Awaiting, Finished>>
    BY <2>1 DEF Readied, Kept, Awaiting, Finished
  <2>3. hand[w] \in Making /\ hand[w] \notin Made  BY <1>1, <2>1 DEF Building
  <2>4. Making' = Making \ {hand[w]} /\ Made' = Made \cup {hand[w]}
    BY <1>0, <2>1, BuildEnds
  <2>5. e \in Event /\ e.target = hand[w] /\ e.staged  BY <1>1 DEF BuildEvent, Event
  <2> HIDE DEF e
  <2>6. \/ events' = Append(events, e) /\ UNCHANGED fatal
        \/ fatal' /\ UNCHANGED events
    BY <1>0, <2>1, <2>5, Submitted
  <2>7. CASE fatal' /\ UNCHANGED events
    <3>1. OnePlace'
      <4>1. Reported' = Reported  BY <2>7 DEF Reported
      <4> QED  BY <1>0, <2>1, <2>2, <2>4, <2>7, <4>1 DEF OnePlace
    <3> QED  BY <2>7, <3>1 DEF NoneLost, StagedCount
  <2>8. CASE events' = Append(events, e) /\ UNCHANGED fatal
    <3>1. events \in Seq(Event) /\ Distinct(Names(events)) /\ hand[w] \notin Reported
      BY <1>0, <2>3 DEF ScanTyped, OnePlace
    <3>2. Names(events') = Append(Names(events), hand[w]) /\ Names(events) \in Seq(Targets)
      BY <2>5, <2>8, <3>1, NamesOf
    <3>3. Reported' = Reported \cup {hand[w]} /\ Distinct(Names(events'))
      BY <1>1, <3>1, <3>2, ElemsAppend DEF Reported
    <3>4. OnePlace'  BY <1>0, <2>1, <2>2, <2>3, <2>4, <3>3 DEF OnePlace
    <3>5. NoneLost'  BY <1>0, <2>1, <2>2, <2>4, <2>8, <3>3 DEF NoneLost
    <3>6. StagedReports' = StagedReports \cup {hand[w]}
      BY <2>5, <2>8, <3>1, StagedOfEvents DEF StagedReports
    <3>7. StagedTargets' = StagedTargets
      BY <1>2, <2>2, <2>3, <2>4, <3>6, StagedPartsNext
    <3>8. StagedCount'  BY <1>0, <2>1, <2>8, <3>7 DEF StagedCount
    <3> QED  BY <3>4, <3>5, <3>8
  <2> QED  BY <2>6, <2>7, <2>8
<1> QED  BY <1>3, <1>4, <1>5

\* A job is dispatched (kscan_refill_targets).
LEMMA RefillPlaces ==
    ASSUME ScanInv, PoolInv', RefillStep
    PROVE  OnePlace' /\ NoneLost' /\ StagedCount'
<1> USE DEF queues, wire, flags, Fault
<1>0. PoolInv /\ ScanTyped /\ MainInStep /\ OnePlace /\ NoneLost /\ StagedCount  BY DEF ScanInv
<1>1. UNCHANGED <<build, ready, events, held, pending, retired>>  BY DEF RefillStep
<1>2. CASE todo' = todo
  <2>1. ASSUME MoreTargets, todo' = todo \ {CHOOSE x \in todo : TRUE} PROVE FALSE
    <3>1. (CHOOSE x \in todo : TRUE) \in todo  BY <2>1 DEF MoreTargets
    <3> QED  BY <1>2, <2>1, <3>1
  <2>2. /\ UNCHANGED <<jobs, thread, hand, fate, staged>>
        /\ UNCHANGED <<cancelling, fatal>> \/ fatal' = TRUE
    BY <2>1 DEF RefillStep, poolVars
  <2>3. Making' = Making /\ Made' = Made  BY <1>1, <2>2, MakesUnmoved
  <2> QED  BY <1>0, <1>1, <2>2, <2>3, PlacesUnmoved
<1>3. CASE todo' # todo
  <2>1. PICK t \in todo : /\ MoreTargets /\ Dispatch(t) /\ t \in Targets /\ fate[t] = "none"
                          /\ staged' = staged + 1 /\ UNCHANGED <<main, cancelling, fatal>>
    BY <1>0, <1>3, Refilled
  <2>2. jobs' = Append(jobs, t) /\ fate' = [fate EXCEPT ![t] = "queued"]  BY <2>1 DEF Dispatch
  <2>3. UNCHANGED hand /\ \A w \in Threads : thread'[w] = "run" <=> thread[w] = "run"
    BY <1>0, <2>1, RunsKept
  <2>4. Queued' = Queued \cup {t}
    <3>1. Elems(jobs') = Elems(jobs) \cup {t}  BY <1>0, <2>1, <2>2, PoolFacts, ElemsAppend
    <3> QED  BY <3>1 DEF Queued, Elems
  <2>5. Making' = Making \cup {t}
    <3>1. \A w \in Threads : Building(w)' <=> Building(w)  BY <1>1, <2>3 DEF Building
    <3> QED  BY <2>3, <2>4, <3>1 DEF Making
  <2>6. Made' = Made
    <3>1. \A x \in Targets : fate'[x] = "ran" <=> fate[x] = "ran"  BY <1>0, <2>1, <2>2, PoolFacts
    <3> QED  BY <1>1, <2>3, <3>1 DEF Made
  <2>7. t \notin Making /\ t \notin Made
    <3>1. \A w \in Threads : thread[w] = "run" => hand[w] # t
      <4>1. ASSUME NEW w \in Threads, thread[w] = "run" PROVE fate[hand[w]] = "running"
        BY <1>0, <4>1, HandsApart
      <4> QED  BY <2>1, <4>1
    <3>2. \A x \in Queued : fate[x] = "queued"  BY <1>0, HandsApart
    <3> QED  BY <2>1, <3>1, <3>2 DEF Making, Made, Building
  <2>8. UNCHANGED <<Readied, Kept, Reported, Awaiting, Finished, StagedReports>>
    BY <1>1 DEF Readied, Kept, Reported, Awaiting, Finished, StagedReports
  <2>9. OnePlace'  BY <1>0, <1>1, <2>6, <2>8 DEF OnePlace
  <2>10. NoneLost'  BY <1>0, <2>1, <2>6, <2>8 DEF NoneLost
  <2>11. StagedTargets' = StagedTargets \cup {t} /\ t \notin StagedTargets
    <3>1. /\ StagedTargets = Making \cup Readied \cup Kept \cup StagedReports
          /\ StagedReports \subseteq Reported
      BY <1>0, StagedParts
    <3>2. Readied \cup Kept \cup Reported \subseteq Made  BY <1>0 DEF OnePlace
    <3> QED  BY <2>5, <2>7, <2>8, <3>1, <3>2, StagedPartsNext
  <2>12. Cardinality(StagedTargets') = Cardinality(StagedTargets) + 1
    BY <1>0, <2>11, StagedParts, FS_AddElement
  <2>13. StagedCount'  BY <1>0, <2>1, <2>12 DEF StagedCount
  <2> QED  BY <2>9, <2>10, <2>13
<1> QED  BY <1>2, <1>3

\* An event is taken up (kscan_drain_events).
LEMMA DrainPlaces ==
    ASSUME ScanInv, ScanTyped', DrainStep
    PROVE  OnePlace' /\ NoneLost' /\ StagedCount'
<1> USE DEF queues, wire, flags
<1>0. PoolInv /\ ScanTyped /\ OnePlace /\ NoneLost /\ StagedCount  BY DEF ScanInv
<1>1. /\ UNCHANGED <<jobs, thread, hand, fate, build, cancelling, fatal>>
      /\ UNCHANGED <<ready, held, pending>>
  BY DEF DrainStep, poolVars
<1>2. Making' = Making /\ Made' = Made  BY <1>1, MakesUnmoved
<1>3. CASE events = << >>
  <2>1. UNCHANGED <<events, retired, staged>>  BY <1>3 DEF DrainStep
  <2> QED  BY <1>0, <1>1, <1>2, <2>1, PlacesUnmoved
<1>4. CASE events # << >>
  <2> DEFINE e == Head(events)
             t == e.target
  <2>1. events' = Tail(events) /\ retired' = [retired EXCEPT ![t] = @ + 1]
          /\ staged' = IF e.staged /\ staged > 0 THEN staged - 1 ELSE staged
    BY <1>4 DEF DrainStep, Unstages
  <2>2. events \in Seq(Event) /\ e \in Event /\ Names(events) \in Seq(Targets)
          /\ Names(events) # << >> /\ Distinct(Names(events))
    BY <1>0, <1>4, ElemsTail, NamesOf DEF ScanTyped, OnePlace
  <2>3. t \in Targets /\ e.staged \in BOOLEAN  BY <2>2, EventFields
  <2>4. Names(events') = Tail(Names(events)) /\ Head(Names(events)) = t
    BY <1>4, <2>1, <2>2, NamesOf
  <2>5. t \in Reported /\ Reported' = Reported \ {t} /\ Distinct(Names(events'))
    BY <2>2, <2>4, ElemsTail DEF Reported
  <2>6. StagedReports = StagedReports' \cup (IF e.staged THEN {t} ELSE {}) /\ t \notin StagedReports'
    <3>1. \A x \in StagedReports' : x \in Reported'
      BY <1>4, <2>1, <2>2, StagedOfEvents DEF StagedReports, Reported
    <3> QED  BY <1>4, <2>1, <2>2, <2>5, <3>1, StagedOfEvents DEF StagedReports
  <2> HIDE DEF e, t
  <2>7. retired[t] = 0 /\ retired'[t] = 1 /\ \A x \in Targets \ {t} : retired'[x] = retired[x]
    <3>1. t \notin Finished  BY <1>0, <2>5 DEF OnePlace
    <3>2. retired[t] = 0  BY <2>3, <3>1 DEF Finished
    <3> QED  BY <1>0, <2>1, <2>3, <3>2 DEF ScanTyped
  <2>8. Finished' = Finished \cup {t}  BY <2>3, <2>7 DEF Finished
  <2>9. UNCHANGED <<Readied, Kept, Awaiting>>  BY <1>1 DEF Readied, Kept, Awaiting
  <2>10. \A x \in Targets : retired'[x] \in {0, 1}  BY <1>0, <2>7 DEF OnePlace
  <2>11. OnePlace'  BY <1>0, <1>1, <1>2, <2>5, <2>8, <2>9, <2>10 DEF OnePlace
  <2>12. NoneLost'  BY <1>0, <1>1, <1>2, <2>5, <2>8, <2>9 DEF NoneLost
  <2>13. StagedTargets = Making \cup Readied \cup Kept \cup StagedReports
           /\ IsFiniteSet(StagedTargets) /\ Cardinality(StagedTargets) \in Nat
    BY <1>0, StagedParts
  <2>14. t \notin Making \cup Readied \cup Kept
    <3>1. t \in Made  BY <1>0, <2>5 DEF OnePlace
    <3>2. t \notin Making  BY <1>0, <3>1, HandsApart
    <3> QED  BY <1>0, <2>5, <3>2 DEF OnePlace
  <2>15. StagedCount'
    <3>1. CASE e.staged
      <4>1. StagedTargets' = StagedTargets \ {t} /\ t \in StagedTargets
        BY <1>2, <2>6, <2>9, <2>13, <2>14, <3>1, StagedPartsNext
      <4>2. Cardinality(StagedTargets') = Cardinality(StagedTargets) - 1
        BY <2>13, <4>1, FS_RemoveElement
      <4>3. Cardinality(StagedTargets) # 0  BY <2>13, <4>1, FS_EmptySet
      <4>4. Cardinality(StagedTargets) > 0  BY <2>13, <4>3
      <4> QED  BY <1>0, <1>1, <2>1, <3>1, <4>2, <4>4 DEF StagedCount
    <3>2. CASE ~e.staged
      <4>1. StagedTargets' = StagedTargets
        BY <1>2, <2>6, <2>9, <2>13, <3>2, StagedPartsNext
      <4> QED  BY <1>0, <1>1, <2>1, <3>2, <4>1 DEF StagedCount
    <3> QED  BY <3>1, <3>2
  <2> QED  BY <2>11, <2>12, <2>15
<1> QED  BY <1>3, <1>4

\* Probes are past their deadline (kscan_retire_expired).
LEMMA RetirePlaces ==
    ASSUME ScanInv, RetireStep
    PROVE  OnePlace' /\ NoneLost' /\ StagedCount'
<1> USE DEF queues, wire, flags
<1>0. PoolInv /\ ScanTyped /\ OnePlace /\ NoneLost /\ StagedCount  BY DEF ScanInv
<1>1. /\ UNCHANGED <<jobs, thread, hand, fate, build, staged, cancelling, fatal>>
      /\ UNCHANGED <<ready, events, held>>
  BY DEF RetireStep, poolVars
<1>2. Making' = Making /\ Made' = Made  BY <1>1, MakesUnmoved
<1>3. UNCHANGED <<Readied, Kept, Reported, StagedReports>>
  BY <1>1 DEF Readied, Kept, Reported, StagedReports
<1> DEFINE D == {pending[i] : i \in 1 .. expired}
<1>4. pending \in Seq(Targets) /\ expired \in 0 .. Len(pending) /\ Distinct(pending)
  BY <1>0 DEF ScanTyped, OnePlace
<1>5. Awaiting' = Awaiting \ D /\ D \subseteq Awaiting /\ Distinct(pending')
  BY <1>4, ElemsRest DEF RetireStep, Awaiting
<1>6. \A t \in Targets : retired'[t] = IF t \in D THEN retired[t] + 1 ELSE retired[t]
  BY DEF RetireStep
<1> HIDE DEF D
<1>7. \A t \in Targets : t \in D => retired[t] = 0
  BY <1>0, <1>5 DEF OnePlace, Finished
<1>8. \A t \in Targets : retired'[t] \in {0, 1}  BY <1>0, <1>6, <1>7 DEF OnePlace
<1>9. Finished' = Finished \cup D
  <2>1. D \subseteq Targets
    <3>1. Made \subseteq Targets  BY DEF Made
    <3> QED  BY <1>0, <1>5, <3>1 DEF OnePlace
  <2>2. \A t \in Targets : retired'[t] # 0 <=> retired[t] # 0 \/ t \in D  BY <1>6, <1>7
  <2> QED  BY <2>1, <2>2 DEF Finished
<1>10. OnePlace'  BY <1>0, <1>1, <1>2, <1>3, <1>5, <1>8, <1>9 DEF OnePlace
<1>11. NoneLost'  BY <1>0, <1>1, <1>2, <1>3, <1>5, <1>9 DEF NoneLost
<1>12. StagedTargets' = StagedTargets  BY <1>0, <1>2, <1>3, StagedParts, StagedPartsNext
<1>13. StagedCount'  BY <1>0, <1>1, <1>12 DEF StagedCount
<1> QED  BY <1>10, <1>11, <1>13

\* A transaction is popped (kscan_transmit_ready).
LEMMA TransmitPlaces ==
    ASSUME ScanInv, TransmitStep
    PROVE  OnePlace' /\ NoneLost' /\ StagedCount'
<1> USE DEF queues, wire, flags
<1>0. PoolInv /\ ScanTyped /\ MainInStep /\ OnePlace /\ NoneLost /\ StagedCount  BY DEF ScanInv
<1>1. /\ UNCHANGED <<jobs, thread, hand, fate, build, staged, cancelling, fatal>>
      /\ UNCHANGED <<events, pending, retired>> /\ main = "transmit"
  BY DEF TransmitStep, poolVars
<1>2. Making' = Making /\ Made' = Made  BY <1>1, MakesUnmoved
<1>3. CASE UNCHANGED <<ready, held>>  BY <1>0, <1>1, <1>2, <1>3, PlacesUnmoved
<1>4. CASE ready # << >> /\ held' = <<Head(ready)>> /\ ready' = Tail(ready)
  <2>1. held = << >>  BY <1>0, <1>1 DEF MainInStep
  <2>2. Kept = {} /\ Kept' = {Head(ready)}  BY <1>4, <2>1 DEF Kept, Elems
  <2>3. Head(ready) \in Readied /\ Readied' = Readied \ {Head(ready)} /\ Distinct(ready')
    BY <1>0, <1>4, ElemsTail DEF ScanTyped, OnePlace, Readied
  <2>4. UNCHANGED <<Reported, Awaiting, Finished, StagedReports>>
    BY <1>1 DEF Reported, Awaiting, Finished, StagedReports
  <2>5. OnePlace'  BY <1>0, <1>1, <1>2, <2>2, <2>3, <2>4 DEF OnePlace
  <2>6. NoneLost'  BY <1>0, <1>1, <1>2, <2>2, <2>3, <2>4 DEF NoneLost
  <2>7. StagedTargets' = StagedTargets
    BY <1>0, <1>2, <2>2, <2>3, <2>4, StagedParts, StagedPartsNext
  <2>8. StagedCount'  BY <1>0, <1>1, <2>7 DEF StagedCount
  <2> QED  BY <2>5, <2>6, <2>8
<1> QED  BY <1>3, <1>4 DEF TransmitStep

\* The transaction that was popped is sent, put back or given up (kscan_transmit_transaction).
LEMMA SendPlaces ==
    ASSUME ScanInv, SendStep
    PROVE  OnePlace' /\ NoneLost' /\ StagedCount'
<1> USE DEF queues, wire, flags, Fault
<1>0. PoolInv /\ ScanTyped /\ MainInStep /\ OnePlace /\ NoneLost /\ StagedCount  BY DEF ScanInv
<1>1. UNCHANGED <<jobs, thread, hand, fate, build>> /\ main = "send" /\ held' = << >>
        /\ UNCHANGED retired
  BY DEF SendStep, SendDeferred, SendFails, SendLosesClock, SendSucceeds, poolVars
<1>2. Making' = Making /\ Made' = Made  BY <1>1, MakesUnmoved
<1>3. PICK t \in Targets : held = <<t>> /\ held[1] = t /\ Kept = {t}  BY <1>0, <1>1, HeldOne
<1>4. Kept' = {} /\ Finished' = Finished  BY <1>1 DEF Kept, Elems, Finished
<1>5. /\ StagedTargets = Making \cup Readied \cup Kept \cup StagedReports
      /\ StagedReports \subseteq Reported
      /\ IsFiniteSet(StagedTargets) /\ Cardinality(StagedTargets) \in Nat
  BY <1>0, StagedParts
<1>6. /\ t \in Made /\ t \notin Making /\ t \notin Readied /\ t \notin StagedReports
      /\ t \notin Reported /\ t \notin Awaiting
  <2>1. t \in Made /\ t \notin Readied /\ t \notin Reported /\ t \notin Awaiting
    BY <1>0, <1>3 DEF OnePlace
  <2> QED  BY <1>0, <1>5, <2>1, HandsApart
<1>7. /\ Cardinality(StagedTargets) > 0
      /\ Cardinality(StagedTargets \ {t}) = Cardinality(StagedTargets) - 1
  <2>1. t \in StagedTargets  BY <1>3, <1>5
  <2>2. Cardinality(StagedTargets) # 0  BY <1>5, <2>1, FS_EmptySet
  <2> QED  BY <1>5, <2>1, <2>2, FS_RemoveElement
<1>8. ASSUME fatal' = TRUE, UNCHANGED <<ready, events, pending>>
      PROVE  OnePlace' /\ NoneLost' /\ StagedCount'
  <2>1. UNCHANGED <<Readied, Reported, Awaiting>>  BY <1>8 DEF Readied, Reported, Awaiting
  <2>2. OnePlace'  BY <1>0, <1>1, <1>2, <1>4, <1>8, <2>1 DEF OnePlace
  <2> QED  BY <1>8, <2>2 DEF NoneLost, StagedCount
<1>9. CASE SendDeferred
  <2>1. CASE fatal' = TRUE /\ UNCHANGED ready  BY <1>8, <1>9, <2>1 DEF SendDeferred
  <2>2. CASE ready' = Append(ready, held[1]) /\ UNCHANGED flags
    <3>1. UNCHANGED <<events, pending, staged, cancelling, fatal>>  BY <1>9, <2>2 DEF SendDeferred
    <3>2. Readied' = Readied \cup {t} /\ Distinct(ready')
      <4>1. ready \in Seq(Targets) /\ Distinct(ready)  BY <1>0 DEF ScanTyped, OnePlace
      <4> QED  BY <1>3, <1>6, <2>2, <4>1, ElemsAppend DEF Readied
    <3>3. UNCHANGED <<Reported, Awaiting, StagedReports>>
      BY <3>1 DEF Reported, Awaiting, StagedReports
    <3>4. OnePlace'  BY <1>0, <1>1, <1>2, <1>3, <1>4, <3>1, <3>2, <3>3 DEF OnePlace
    <3>5. NoneLost'  BY <1>0, <1>2, <1>3, <1>4, <3>1, <3>2, <3>3 DEF NoneLost
    <3>6. StagedTargets' = StagedTargets
      BY <1>2, <1>3, <1>4, <1>5, <3>2, <3>3, StagedPartsNext
    <3>7. StagedCount'  BY <1>0, <3>1, <3>6 DEF StagedCount
    <3> QED  BY <3>4, <3>5, <3>7
  <2> QED  BY <1>9, <2>1, <2>2 DEF SendDeferred
<1>10. CASE SendFails
  <2>1. CASE fatal' = TRUE /\ UNCHANGED events  BY <1>8, <1>10, <2>1 DEF SendFails
  <2>2. CASE events' = Append(events, TxEvent(held[1])) /\ fatal' = fatal
    <3>1. /\ UNCHANGED <<ready, pending, cancelling, fatal>>
          /\ staged' = IF staged > 0 THEN staged - 1 ELSE staged
      BY <1>10, <2>2 DEF SendFails
    <3> DEFINE e == TxEvent(t)
    <3>2. e \in Event /\ e.target = t /\ ~e.staged  BY DEF TxEvent, Event
    <3>3. events' = Append(events, e)  BY <1>3, <2>2
    <3> HIDE DEF e
    <3>4. events \in Seq(Event) /\ Distinct(Names(events))  BY <1>0 DEF ScanTyped, OnePlace
    <3>5. Names(events') = Append(Names(events), t) /\ Names(events) \in Seq(Targets)
      BY <3>2, <3>3, <3>4, NamesOf
    <3>6. Reported' = Reported \cup {t} /\ Distinct(Names(events'))
      BY <1>6, <3>4, <3>5, ElemsAppend DEF Reported
    <3>7. StagedReports' = StagedReports
      BY <3>2, <3>3, <3>4, StagedOfEvents DEF StagedReports
    <3>8. UNCHANGED <<Readied, Awaiting>>  BY <3>1 DEF Readied, Awaiting
    <3>9. OnePlace'  BY <1>0, <1>1, <1>2, <1>3, <1>4, <3>1, <3>6, <3>8 DEF OnePlace
    <3>10. NoneLost'  BY <1>0, <1>2, <1>3, <1>4, <3>1, <3>6, <3>8 DEF NoneLost
    <3>11. StagedTargets' = StagedTargets \ {t}
      BY <1>2, <1>3, <1>4, <1>5, <1>6, <3>7, <3>8, StagedPartsNext
    <3>12. StagedCount'  BY <1>0, <1>7, <3>1, <3>11 DEF StagedCount
    <3> QED  BY <3>9, <3>10, <3>12
  <2> QED  BY <1>10, <2>1, <2>2 DEF SendFails
<1>11. CASE SendLosesClock  BY <1>8, <1>11 DEF SendLosesClock
<1>12. CASE SendSucceeds
  <2>1. /\ UNCHANGED <<ready, events, cancelling, fatal>> /\ pending' = pending \o held
        /\ staged' = IF staged > 0 THEN staged - 1 ELSE staged
    BY <1>12 DEF SendSucceeds
  <2>2. pending \in Seq(Targets) /\ Distinct(pending)  BY <1>0 DEF ScanTyped, OnePlace
  <2>3. pending' = Append(pending, t)  BY <1>3, <2>1, <2>2
  <2>4. Awaiting' = Awaiting \cup {t} /\ Distinct(pending')
    BY <1>6, <2>2, <2>3, ElemsAppend DEF Awaiting
  <2>5. UNCHANGED <<Readied, Reported, StagedReports>>
    BY <2>1 DEF Readied, Reported, StagedReports
  <2>6. OnePlace'  BY <1>0, <1>1, <1>2, <1>3, <1>4, <2>1, <2>4, <2>5 DEF OnePlace
  <2>7. NoneLost'  BY <1>0, <1>2, <1>3, <1>4, <2>1, <2>4, <2>5 DEF NoneLost
  <2>8. StagedTargets' = StagedTargets \ {t}
    BY <1>2, <1>3, <1>4, <1>5, <1>6, <2>5, StagedPartsNext
  <2>9. StagedCount'  BY <1>0, <1>7, <2>1, <2>8 DEF StagedCount
  <2> QED  BY <2>6, <2>7, <2>9
<1> QED  BY <1>9, <1>10, <1>11, <1>12 DEF SendStep

\* Nothing changes hands in the other steps of the session and of the pool.
LEMMA QuietPlaces ==
    ASSUME ScanInv, PoolInv', MainInStep',
           \/ OpenStep \/ LoopStep \/ WaitStep \/ CloseStep \/ TimePasses \/ UNCHANGED vars
           \/ SpuriousWakeup /\ UNCHANGED <<main, session>>
           \/ \E w \in Threads :
                \/ BuildCleans(w) \/ BuildReturns(w)
                \/ ThreadStep(w) /\ UNCHANGED <<main, session>>
    PROVE  OnePlace' /\ NoneLost' /\ StagedCount'
<1> USE DEF queues, wire, flags, session, Fault
<1>0. PoolInv /\ ScanTyped /\ MainInStep /\ OnePlace /\ NoneLost /\ StagedCount  BY DEF ScanInv
<1>1. UNCHANGED <<ready, events, held, pending, retired, staged>>
  BY DEF OpenStep, LoopStep, WaitStep, CloseStep, TimePasses, vars, BuildCleans, BuildReturns
<1>2. (~cancelling' /\ ~fatal') => (~cancelling /\ ~fatal)
  BY DEF OpenStep, LoopStep, WaitStep, CloseStep, TimePasses, vars, BuildCleans, BuildReturns
<1>3. ASSUME Made' = Made, ~cancelling' /\ ~fatal' => Making' = Making
      PROVE  OnePlace' /\ NoneLost' /\ StagedCount'
  BY <1>0, <1>1, <1>2, <1>3, PlacesUnmoved
<1>4. CASE \/ OpenStep \/ LoopStep \/ WaitStep \/ TimePasses \/ UNCHANGED vars
           \/ SpuriousWakeup /\ UNCHANGED <<main, session>>
  <2>1. UNCHANGED <<jobs, fate, build>>
    BY <1>4 DEF OpenStep, CreateThread, CreateFails, Destroy, LoopStep, WaitStep, TimePasses,
                SpuriousWakeup, vars, poolVars
  <2>2. \/ CreateThread \/ CreateFails \/ Destroy \/ SpuriousWakeup
        \/ UNCHANGED <<hand, thread>>
    BY <1>4 DEF OpenStep, LoopStep, WaitStep, TimePasses, vars, poolVars
  <2>3. UNCHANGED hand /\ \A w \in Threads : thread'[w] = "run" <=> thread[w] = "run"
    BY <1>0, <2>2, RunsKept
  <2> QED  BY <1>3, <2>1, <2>3, MakesUnmoved
<1>5. CASE CloseStep
  <2>1. UNCHANGED hand /\ \A w \in Threads : thread'[w] = "run" <=> thread[w] = "run"
    BY <1>0, <1>5, RunsKept DEF CloseStep
  <2>2. UNCHANGED build /\ cancelling' = TRUE  BY <1>5 DEF CloseStep
  <2>3. \A t \in Targets : fate'[t] = "ran" <=> fate[t] = "ran"
    <3>1. CASE UNCHANGED fate  BY <3>1
    <3>2. CASE fate' = [j \in Jobs |-> IF j \in Queued THEN "cancelled" ELSE fate[j]]
      BY <1>0, <3>2, HandsApart DEF Targets
    <3> QED  BY <1>5, <3>1, <3>2 DEF CloseStep, Close, Cancel
  <2>4. Made' = Made  BY <2>1, <2>2, <2>3 DEF Made
  <2> QED  BY <1>3, <2>2, <2>4
<1>6. ASSUME NEW w \in Threads, BuildCleans(w) PROVE OnePlace' /\ NoneLost' /\ StagedCount'
  <2>1. UNCHANGED <<jobs, thread, hand, fate>> /\ build[w] = "clean"
    BY <1>6 DEF BuildCleans, poolVars
  <2>2. build'[w] = "done" /\ \A v \in Threads \ {w} : build'[v] = build[v]
    BY <1>0, <1>6, BuildSet DEF BuildCleans
  <2>3. \A v \in Threads : Building(v)' <=> Building(v)  BY <2>1, <2>2 DEF Building
  <2>4. \A v \in Threads : build'[v] \in {"clean", "done"} <=> build[v] \in {"clean", "done"}
    BY <2>1, <2>2
  <2> QED  BY <1>3, <2>1, <2>3, <2>4 DEF Making, Made, Queued
<1>7. ASSUME NEW w \in Threads, BuildReturns(w) PROVE OnePlace' /\ NoneLost' /\ StagedCount'
  <2>1. /\ UNCHANGED <<jobs, hand>> /\ build[w] = "done" /\ thread[w] = "run"
        /\ thread' = [thread EXCEPT ![w] = "loop"] /\ fate' = [fate EXCEPT ![hand[w]] = "ran"]
    BY <1>7 DEF BuildReturns, Return
  <2>2. build'[w] = "start" /\ \A v \in Threads \ {w} : build'[v] = build[v]
    BY <1>0, <1>7, BuildSet DEF BuildReturns
  <2>3. /\ thread'[w] = "loop" /\ \A v \in Threads \ {w} : thread'[v] = thread[v]
        /\ hand[w] \in Targets
        /\ fate'[hand[w]] = "ran" /\ \A x \in Targets \ {hand[w]} : fate'[x] = fate[x]
    BY <1>0, <2>1, PoolFacts
  <2>4. \A v \in Threads : Building(v)' <=> Building(v)  BY <2>1, <2>2, <2>3 DEF Building
  <2>5. Making' = Making  BY <2>1, <2>4 DEF Making, Queued
  <2>6. ASSUME NEW x \in Targets PROVE x \in Made' <=> x \in Made
    <3>1. CASE x = hand[w]  BY <2>1, <2>3, <3>1 DEF Made
    <3>2. CASE x # hand[w]  BY <2>1, <2>2, <2>3, <3>2 DEF Made
    <3> QED  BY <3>1, <3>2
  <2>7. Made' = Made  BY <2>6 DEF Made
  <2> QED  BY <1>3, <2>5, <2>7
<1>8. ASSUME NEW w \in Threads, Take(w), UNCHANGED <<main, session>>
      PROVE  OnePlace' /\ NoneLost' /\ StagedCount'
  <2> DEFINE t == Head(jobs)
  <2>1. /\ jobs # << >> /\ jobs' = Tail(jobs) /\ UNCHANGED build /\ thread[w] = "loop"
        /\ thread' = [thread EXCEPT ![w] = "run"] /\ fate' = [fate EXCEPT ![t] = "running"]
        /\ hand' = [hand EXCEPT ![w] = t]
    BY <1>8 DEF Take
  <2>2. jobs \in Seq(Targets) /\ Distinct(jobs)
    BY <1>0, PoolFacts DEF PoolInv, QueueIsExact, Distinct
  <2>3. t \in Queued /\ Queued' = Queued \ {t}
    <3>1. Queued = Elems(jobs) /\ Queued' = Elems(jobs')  BY DEF Queued, Elems
    <3> QED  BY <2>1, <2>2, <3>1, ElemsTail
  <2>4. t \in Targets /\ fate[t] = "queued"  BY <1>0, <2>3, HandsApart
  <2> HIDE DEF t
  <2>5. /\ thread'[w] = "run" /\ hand'[w] = t /\ build[w] = "start"
        /\ \A v \in Threads \ {w} : thread'[v] = thread[v] /\ hand'[v] = hand[v]
        /\ fate'[t] = "running" /\ \A x \in Targets \ {t} : fate'[x] = fate[x]
    BY <1>0, <2>1, <2>4, PoolFacts DEF MainInStep
  <2>6. /\ Building(w)' /\ ~Building(w)
        /\ \A v \in Threads \ {w} : Building(v)' <=> Building(v)
    BY <2>1, <2>5 DEF Building
  <2>7. Making' = Making  BY <2>3, <2>5, <2>6 DEF Making
  <2>8. Made' = Made
    <3>1. \A x \in Targets : fate'[x] = "ran" <=> fate[x] = "ran"  BY <2>4, <2>5
    <3> QED  BY <2>1, <2>5, <3>1 DEF Made
  <2> QED  BY <1>3, <2>7, <2>8
<1>9. ASSUME NEW w \in Threads, Sleep(w) \/ End(w), UNCHANGED <<main, session>>
      PROVE  OnePlace' /\ NoneLost' /\ StagedCount'
  <2>1. UNCHANGED hand /\ \A v \in Threads : thread'[v] = "run" <=> thread[v] = "run"
    BY <1>0, <1>9, RunsKept
  <2>2. UNCHANGED <<jobs, fate, build>>  BY <1>9 DEF Sleep, End
  <2> QED  BY <1>3, <2>1, <2>2, MakesUnmoved
<1>10. ASSUME NEW w \in Threads,
              \/ BuildCleans(w) \/ BuildReturns(w)
              \/ ThreadStep(w) /\ UNCHANGED <<main, session>>
       PROVE  OnePlace' /\ NoneLost' /\ StagedCount'
  <2>1. CASE ThreadStep(w) /\ UNCHANGED <<main, session>>
    <3>1. CASE Take(w)  BY <1>8, <2>1, <3>1
    <3>2. CASE Sleep(w) \/ End(w)  BY <1>9, <2>1, <3>2
    <3> QED  BY <2>1, <3>1, <3>2 DEF ThreadStep
  <2> QED  BY <1>6, <1>7, <1>10, <2>1
<1>11. CASE \E w \in Threads :
              \/ BuildCleans(w) \/ BuildReturns(w)
              \/ ThreadStep(w) /\ UNCHANGED <<main, session>>
  BY <1>10, <1>11
<1> HIDE DEF queues, wire, flags, session, Fault
<1> QED  BY <1>4, <1>5, <1>11

\* What is left is released once the workers are joined (kscan_session_close).
LEMMA FreePlaces ==
    ASSUME ScanInv, FreeStep
    PROVE  OnePlace' /\ NoneLost' /\ StagedCount'
<1> USE DEF queues, wire, flags
<1>0. PoolInv /\ ScanTyped /\ MainInStep /\ OnePlace  BY DEF ScanInv
<1>1. /\ UNCHANGED <<jobs, thread, hand, fate, build, held, retired>> /\ cancelling' = TRUE
      /\ \/ UNCHANGED <<ready, events, pending>>
         \/ ready' = << >> /\ events' = << >> /\ pending' = << >>
  <2>1. main = "join" /\ UNCHANGED cancelling  BY DEF FreeStep
  <2>2. cancelling  BY <1>0, <2>1 DEF MainInStep
  <2>3. cancelling = TRUE  BY <1>0, <2>2 DEF ScanTyped
  <2> QED  BY <2>1, <2>3 DEF FreeStep, Destroy, poolVars
<1>2. Made' = Made  BY <1>1, MakesUnmoved
<1>3. UNCHANGED <<Kept, Finished>>  BY <1>1 DEF Kept, Finished
<1>4. OnePlace'
  <2>1. CASE UNCHANGED <<ready, events, pending>>
    <3>1. UNCHANGED <<Readied, Reported, Awaiting>>  BY <2>1 DEF Readied, Reported, Awaiting
    <3> QED  BY <1>0, <1>1, <1>2, <1>3, <2>1, <3>1 DEF OnePlace
  <2>2. CASE ready' = << >> /\ events' = << >> /\ pending' = << >>
    <3>1. DOMAIN << >> = {}  OBVIOUS
    <3>2. Readied' = {} /\ Awaiting' = {} /\ Reported' = {}
      BY <2>2, <3>1 DEF Readied, Reported, Awaiting, Elems, Names
    <3>3. Distinct(ready') /\ Distinct(pending') /\ Distinct(Names(events'))
      BY <2>2, <3>1 DEF Distinct, Names
    <3> QED  BY <1>0, <1>1, <1>2, <1>3, <3>2, <3>3 DEF OnePlace
  <2> QED  BY <1>1, <2>1, <2>2
<1> QED  BY <1>1, <1>4 DEF NoneLost, StagedCount

LEMMA PlacesKept ==
    ASSUME ScanInv, PoolInv', ScanTyped', MainInStep', [Next]_vars
    PROVE  OnePlace' /\ NoneLost' /\ StagedCount'
<1>1. CASE \E w \in Threads : Worker(w)
  <2>1. PICK w \in Threads : Worker(w)  BY <1>1
  <2>2. CASE BuildLooks(w) \/ BuildPushes(w) \/ BuildReports(w)  BY <2>2, BuildPlaces
  <2>3. CASE \/ BuildCleans(w) \/ BuildReturns(w)
             \/ ThreadStep(w) /\ UNCHANGED <<main, session>>
    BY <2>3, QuietPlaces
  <2> QED  BY <2>1, <2>2, <2>3 DEF Worker, session
<1>2. CASE RefillStep  BY <1>2, RefillPlaces
<1>3. CASE DrainStep  BY <1>3, DrainPlaces
<1>4. CASE RetireStep  BY <1>4, RetirePlaces
<1>5. CASE TransmitStep  BY <1>5, TransmitPlaces
<1>6. CASE SendStep  BY <1>6, SendPlaces
<1>7. CASE FreeStep  BY <1>7, FreePlaces
<1>8. CASE \/ OpenStep \/ LoopStep \/ WaitStep \/ CloseStep \/ TimePasses \/ UNCHANGED vars
           \/ SpuriousWakeup /\ UNCHANGED <<main, session>>
  BY <1>8, QuietPlaces
<1> QED
  BY <1>1, <1>2, <1>3, <1>4, <1>5, <1>6, <1>7, <1>8 DEF Next, Session, Closed

\* The event of a failed send is the last but for those the workers add, and the round that
\* sent it takes it up.
LEMMA UnstagedKept == ASSUME ScanInv, [Next]_vars PROVE UnstagedIsLast'
<1> USE DEF queues, wire, flags, session, Fault
<1>0. PoolInv /\ ScanTyped /\ MainInStep /\ UnstagedIsLast /\ StagedCount /\ events \in Seq(Event)
  BY DEF ScanInv, ScanTyped
<1> DEFINE Unstaged(s) == {i \in DOMAIN s : ~s[i].staged}
           Alone(s) == \A i, k \in Unstaged(s) : i = k
<1>a. /\ Alone(events)
      /\ Unstaged(events) # {} => main \in {"redrain", "close", "join"}
      /\ Unstaged(events) # {} /\ ~cancelling /\ ~fatal => staged < Batch
  BY <1>0 DEF UnstagedIsLast
<1>b. ASSUME /\ Alone(events')
             /\ Unstaged(events') # {} => main' \in {"redrain", "close", "join"}
             /\ Unstaged(events') # {} /\ ~cancelling' /\ ~fatal' => staged' < Batch
      PROVE  UnstagedIsLast'
  BY <1>b DEF UnstagedIsLast
<1>c. \A e \in Event : /\ e.staged => Unstaged(Append(events, e)) = Unstaged(events)
                       /\ ~e.staged => Unstaged(Append(events, e)) =
                                          Unstaged(events) \cup {Len(events) + 1}
  <2>1. ASSUME NEW e \in Event
        PROVE  /\ Len(events) \in Nat /\ DOMAIN events = 1 .. Len(events)
               /\ DOMAIN Append(events, e) = 1 .. Len(events) + 1
               /\ \A i \in DOMAIN events : Append(events, e)[i] = events[i]
               /\ Append(events, e)[Len(events) + 1] = e
    BY <1>0
  <2>2. ASSUME NEW e \in Event
        PROVE  DOMAIN Append(events, e) = DOMAIN events \cup {Len(events) + 1}
                 /\ Len(events) + 1 \notin DOMAIN events
    BY <2>1
  <2> QED  BY <2>1, <2>2
<1>d. ASSUME events # << >>
      PROVE  \A i \in DOMAIN Tail(events) : i + 1 \in DOMAIN events /\ Tail(events)[i] = events[i + 1]
                                              /\ i \in Int
  BY <1>0, <1>d
<1> HIDE DEF Unstaged
<1>1. ASSUME UNCHANGED events, Unstaged(events) # {} => UNCHANGED <<main, cancelling, fatal, staged>>
      PROVE  UnstagedIsLast'
  <2>1. Unstaged(events') = Unstaged(events)  BY <1>1
  <2> QED  BY <1>1, <1>a, <1>b, <2>1
<1>2. ASSUME NEW w \in Threads, BuildReports(w) PROVE UnstagedIsLast'
  <2>1. BuildEvent(hand[w]) \in Event /\ BuildEvent(hand[w]).staged
    <3>1. hand[w] \in Targets  BY <1>0, HandsApart
    <3> QED  BY <3>1 DEF BuildEvent, Event
  <2>2. \/ events' = Append(events, BuildEvent(hand[w])) /\ UNCHANGED fatal
        \/ fatal' /\ UNCHANGED events
    BY <1>0, <1>2, <2>1, Submitted DEF BuildReports
  <2>3. Unstaged(events') = Unstaged(events) /\ (~fatal' => ~fatal)
    <3>1. CASE events' = Append(events, BuildEvent(hand[w])) /\ UNCHANGED fatal
      BY <1>c, <2>1, <3>1
    <3>2. CASE fatal' /\ UNCHANGED events  BY <3>2
    <3> QED  BY <2>2, <3>1, <3>2
  <2>4. UNCHANGED <<main, cancelling, staged>>  BY <1>2 DEF BuildReports
  <2> QED  BY <1>a, <1>b, <2>3, <2>4
<1>3. CASE DrainStep
  <2>1. CASE events = << >>
    <3>1. DOMAIN events = {}  BY <2>1
    <3>2. Unstaged(events) = {} /\ UNCHANGED events  BY <1>3, <2>1, <3>1 DEF DrainStep, Unstaged
    <3> QED  BY <1>1, <3>2
  <2>2. CASE events # << >>
    <3>1. events' = Tail(events) /\ UNCHANGED <<main, cancelling, fatal>>
            /\ staged' \in {staged, staged - 1}
      BY <1>3, <2>2 DEF DrainStep
    <3>2. \A i \in Unstaged(events') : i + 1 \in Unstaged(events) /\ i \in Int
      BY <1>d, <2>2, <3>1 DEF Unstaged
    <3>3. Alone(events')
      <4>1. ASSUME NEW i \in Unstaged(events'), NEW k \in Unstaged(events') PROVE i = k
        <5>1. i + 1 = k + 1 /\ i \in Int /\ k \in Int  BY <1>a, <3>2
        <5> QED  BY <5>1
      <4> QED  BY <4>1
    <3>4. Unstaged(events') # {} => Unstaged(events) # {}  BY <3>2
    <3>5. staged < Batch => staged' < Batch
      <4>1. staged \in Int /\ Batch \in Int  BY <1>0, PoolFacts DEF ScanTyped
      <4> QED  BY <3>1, <4>1
    <3> QED  BY <1>a, <1>b, <3>1, <3>3, <3>4, <3>5
  <2> QED  BY <2>1, <2>2
<1>4. CASE SendFails
  <2>1. main = "send" /\ main' = "redrain"  BY <1>4 DEF SendFails
  <2>2. Unstaged(events) = {}  BY <1>a, <2>1
  <2>3. CASE UNCHANGED events
    BY <1>1, <2>2, <2>3
  <2>4. CASE events' = Append(events, TxEvent(held[1])) /\ fatal' = fatal
    <3>1. PICK t \in Targets : held = <<t>> /\ held[1] = t /\ Kept = {t}  BY <1>0, <2>1, HeldOne
    <3>2. TxEvent(held[1]) \in Event /\ ~TxEvent(held[1]).staged  BY <3>1 DEF TxEvent, Event
    <3>3. Unstaged(events') = {Len(events) + 1}  BY <1>c, <2>2, <2>4, <3>2
    <3>4. ~cancelling' /\ ~fatal' => staged' < Batch
      <4>1. StagedTargets = Making \cup Readied \cup Kept \cup StagedReports
              /\ IsFiniteSet(StagedTargets) /\ Cardinality(StagedTargets) \in Nat
        BY <1>0, StagedParts
      <4>2. StagedTargets # {}  BY <3>1, <4>1
      <4>3. Cardinality(StagedTargets) # 0  BY <4>1, <4>2, FS_EmptySet
      <4>4. ~cancelling' /\ ~fatal' => staged > 0
        BY <1>0, <1>4, <2>4, <4>1, <4>3 DEF StagedCount, SendFails
      <4>5. staged \in Int /\ Batch \in Int /\ staged <= Batch  BY <1>0, PoolFacts DEF ScanTyped
      <4>6. staged' = IF staged > 0 THEN staged - 1 ELSE staged  BY <1>4 DEF SendFails
      <4> QED  BY <4>4, <4>5, <4>6
    <3> QED  BY <1>b, <2>1, <3>3, <3>4
  <2> QED  BY <1>4, <2>3, <2>4 DEF SendFails
<1>5. CASE CloseStep \/ FreeStep
  <2>1. main \in {"close", "join"} /\ cancelling' = TRUE
    <3>1. CASE CloseStep  BY <3>1 DEF CloseStep
    <3>2. CASE FreeStep
      <4>1. main = "join" /\ UNCHANGED cancelling  BY <3>2 DEF FreeStep
      <4> QED  BY <1>0, <4>1 DEF MainInStep, ScanTyped
    <3> QED  BY <1>5, <3>1, <3>2
  <2>2. \/ UNCHANGED events /\ main' = "join"
        \/ events' = << >>
    <3>1. CASE CloseStep  BY <3>1 DEF CloseStep
    <3>2. CASE FreeStep  BY <3>2 DEF FreeStep
    <3> QED  BY <1>5, <3>1, <3>2
  <2>3. CASE UNCHANGED events /\ main' = "join"
    <3>1. Unstaged(events') = Unstaged(events)  BY <2>3
    <3> QED  BY <1>a, <1>b, <2>1, <2>3, <3>1
  <2>4. CASE events' = << >>
    <3>1. DOMAIN << >> = {}  OBVIOUS
    <3>2. Unstaged(events') = {}  BY <2>4, <3>1 DEF Unstaged
    <3> QED  BY <1>b, <3>2
  <2> QED  BY <2>2, <2>3, <2>4
<1>6. CASE \/ OpenStep \/ LoopStep \/ RetireStep \/ RefillStep \/ TransmitStep \/ WaitStep
           \/ SendDeferred \/ SendLosesClock \/ SendSucceeds
  <2>1. UNCHANGED events /\ main \notin {"redrain", "close", "join"}
    BY <1>6 DEF OpenStep, LoopStep, RetireStep, RefillStep, TransmitStep, WaitStep, SendDeferred,
                SendLosesClock, SendSucceeds
  <2> QED  BY <1>1, <1>a, <2>1
<1>7. CASE TimePasses \/ UNCHANGED vars \/ UNCHANGED <<main, session>>
  BY <1>1, <1>7 DEF TimePasses, vars
<1>8. ASSUME NEW w \in Threads, BuildLooks(w) \/ BuildPushes(w) \/ BuildCleans(w) \/ BuildReturns(w)
      PROVE  UnstagedIsLast'
  BY <1>1, <1>8 DEF BuildLooks, BuildPushes, BuildCleans, BuildReturns
<1> QED
  BY <1>2, <1>3, <1>4, <1>5, <1>6, <1>7, <1>8 DEF Next, Session, SendStep, Worker, Closed

\* Once everything is done no job is at work that could add to it.
LEMMA CloseKept == ASSUME ScanInv, [Next]_vars PROVE CloseIsComplete'
<1> USE DEF queues, wire, flags, session, Fault
<1>0. PoolInv /\ ScanTyped /\ MainInStep /\ JobsAreCounted /\ CloseIsComplete  BY DEF ScanInv
<1>1. ASSUME Complete PROVE Busy = {}
  <2>1. IsFiniteSet(Busy)
    <3>1. Busy \subseteq Threads  BY DEF Busy
    <3> QED  BY <3>1, ThreadsAssumption, FS_Subset
  <2>2. Cardinality(Busy) \in Nat /\ Len(jobs) \in Nat  BY <1>0, <2>1, PoolFacts, FS_CardinalityType
  <2>3. Cardinality(Busy) = 0  BY <1>0, <1>1, <2>2 DEF Complete, JobsAreCounted
  <2> QED  BY <2>1, <2>3, FS_EmptySet
<1>2. ASSUME UNCHANGED <<main, cancelling, fatal, todo, outstanding, ready, events, pending, staged>>
      PROVE  CloseIsComplete'
  BY <1>0, <1>2 DEF CloseIsComplete, Complete
<1>3. ASSUME NEW w \in Threads, BuildPushes(w) \/ BuildReports(w) \/ BuildCleans(w)
      PROVE  CloseIsComplete'
  <2>1. w \in Busy /\ UNCHANGED <<main, cancelling>>
    BY <1>3 DEF BuildPushes, BuildReports, BuildCleans, Builds, Busy
  <2>2. fatal => fatal'
    BY <1>0, <1>3 DEF BuildPushes, BuildReports, SubmitEvent, BuildCleans, ScanTyped
  <2> QED  BY <1>0, <1>1, <2>1, <2>2 DEF CloseIsComplete
<1>4. CASE LoopStep \/ WaitStep
  <2>1. \/ main' # "close" \/ cancelling' = TRUE
        \/ Complete /\ UNCHANGED <<todo, outstanding, ready, events, pending, staged>>
    BY <1>4 DEF LoopStep, WaitStep
  <2> QED  BY <2>1 DEF CloseIsComplete, Complete
<1>5. CASE RefillStep \/ SendStep
  <2>1. main' # "close" \/ cancelling' = TRUE
    BY <1>5 DEF RefillStep, SendStep, SendDeferred, SendFails, SendLosesClock, SendSucceeds
  <2> QED  BY <2>1 DEF CloseIsComplete
<1>6. CASE OpenStep \/ DrainStep \/ RetireStep \/ TransmitStep \/ CloseStep \/ FreeStep
  <2>1. main' # "close"
    BY <1>6 DEF OpenStep, DrainStep, RetireStep, TransmitStep, CloseStep, FreeStep
  <2> QED  BY <2>1 DEF CloseIsComplete
<1>7. CASE TimePasses \/ UNCHANGED vars \/ UNCHANGED <<main, session>>
  BY <1>2, <1>7 DEF TimePasses, vars
<1>8. ASSUME NEW w \in Threads, BuildLooks(w) \/ BuildReturns(w) PROVE CloseIsComplete'
  BY <1>2, <1>8 DEF BuildLooks, BuildReturns
<1> QED
  BY <1>3, <1>4, <1>5, <1>6, <1>7, <1>8 DEF Next, Session, Worker, Closed

-------------------------------------------------------------------------------
(* The invariant.                                                          *)

LEMMA ScanInvInit == Init => ScanInv
<1> SUFFICES ASSUME Init PROVE ScanInv  OBVIOUS
<1>1. PoolInv /\ jobs = << >> /\ \A w \in Threads : thread[w] = "none"
  BY PoolInvInit DEF Init, PoolInit
<1>2. \A t \in Targets : fate[t] = "none"  BY DEF Init, PoolInit, Targets
<1>3. /\ << >> \in Seq(Targets) /\ << >> \in Seq(Event) /\ Len(<< >>) = 0 /\ DOMAIN << >> = {}
      /\ Batch \in Nat /\ CaptureTotal \in Nat /\ 0 \in 0 .. 0 /\ 0 \in 0 .. Batch
  BY BatchAssumption, CapacityAssumption, LimitAssumption
<1>4. ScanTyped  BY <1>3 DEF Init, ScanTyped
<1>5. MainInStep  BY <1>1, <1>2 DEF Init, PoolInit, MainInStep
<1>6. Busy = {} /\ \A w \in Threads : ~Building(w)  BY <1>1 DEF Busy, Building
<1>7. JobsAreCounted  BY <1>1, <1>3, <1>6, FS_EmptySet DEF Init, JobsAreCounted
<1>8. CaptureIsExact  BY <1>3 DEF Init, CaptureIsExact
<1>9. Made = {} /\ Making = {}
  BY <1>1, <1>2, <1>3, <1>6 DEF Made, Making, Queued
<1>10. Readied = {} /\ Kept = {} /\ Awaiting = {} /\ Reported = {} /\ StagedReports = {}
  BY <1>3 DEF Init, Readied, Kept, Awaiting, Reported, StagedReports, StagedOf, Elems, Names
<1>11. \A t \in Targets : retired[t] = 0  BY DEF Init
<1>12. Finished = {}  BY <1>11 DEF Finished
<1>13. Distinct(ready) /\ Distinct(pending) /\ Distinct(Names(events))
  BY <1>3 DEF Init, Distinct, Names
<1>14. OnePlace  BY <1>9, <1>10, <1>11, <1>12, <1>13 DEF OnePlace
<1>15. NoneLost  BY <1>9 DEF NoneLost
<1>16. StagedTargets = {}  BY <1>1, <1>4, <1>9, <1>10, StagedParts
<1>17. StagedCount  BY <1>16, FS_EmptySet DEF Init, StagedCount
<1>18. UnstagedIsLast  BY <1>3 DEF Init, UnstagedIsLast
<1>19. CloseIsComplete  BY DEF Init, CloseIsComplete
<1> QED  BY <1>1, <1>4, <1>5, <1>7, <1>8, <1>14, <1>15, <1>17, <1>18, <1>19 DEF ScanInv

LEMMA ScanInvStep == ScanInv /\ [Next]_vars => ScanInv'
<1> SUFFICES ASSUME ScanInv, [Next]_vars PROVE ScanInv'  OBVIOUS
<1>1. PoolInv'  BY PoolKept DEF ScanInv
<1>2. ScanTyped'  BY TypedKept
<1>3. MainInStep'  BY StepKept
<1>4. JobsAreCounted'  BY <1>1, <1>2, CountKept
<1>5. CaptureIsExact'  BY <1>2, CaptureKept
<1>6. OnePlace' /\ NoneLost' /\ StagedCount'  BY <1>1, <1>2, <1>3, PlacesKept
<1>7. UnstagedIsLast' /\ CloseIsComplete'  BY UnstagedKept, CloseKept
<1> QED  BY <1>1, <1>2, <1>3, <1>4, <1>5, <1>6, <1>7 DEF ScanInv

-------------------------------------------------------------------------------
(* What follows from it.                                                   *)

\* While a target is staged that has not been handed over, both queues of results have a
\* place left for it.
LEMMA RoomIsLeft ==
    ASSUME ScanInv, ~cancelling, ~fatal, NEW t \in StagedTargets,
           t \notin Readied, t \notin Reported
    PROVE  Len(ready) < Batch /\ Len(events) < Batch
<1>0. PoolInv /\ ScanTyped /\ OnePlace /\ StagedCount /\ UnstagedIsLast  BY DEF ScanInv
<1>1. /\ StagedTargets = Making \cup Readied \cup Kept \cup StagedReports
      /\ StagedReports \subseteq Reported
      /\ IsFiniteSet(StagedTargets) /\ Cardinality(StagedTargets) \in Nat
  BY <1>0, StagedParts
<1>2. staged = Cardinality(StagedTargets) /\ staged <= Batch /\ staged \in Nat /\ Batch \in Nat
  BY <1>0, PoolFacts DEF StagedCount, ScanTyped
<1>3. IsFiniteSet(Readied) /\ Cardinality(Readied) = Len(ready) /\ Len(ready) \in Nat
  BY <1>0, ElemsCount DEF ScanTyped, OnePlace, Readied
<1>4. IsFiniteSet(Reported) /\ Cardinality(Reported) = Len(events) /\ Len(events) \in Nat
  BY <1>0, NamesOf, ElemsCount DEF ScanTyped, OnePlace, Reported
<1>5. Len(ready) < Batch
  <2>1. Cardinality(Readied \cup {t}) = Cardinality(Readied) + 1  BY <1>3, FS_AddElement
  <2>2. Cardinality(Readied \cup {t}) <= Cardinality(StagedTargets)  BY <1>1, FS_Subset
  <2> QED  BY <1>2, <1>3, <2>1, <2>2
<1>6. IsFiniteSet(StagedReports) /\ Cardinality(StagedReports) \in Nat
        /\ Cardinality(StagedReports) + 1 <= staged
  <2>1. IsFiniteSet(StagedReports)  BY <1>1, <1>4, FS_Subset
  <2>2. Cardinality(StagedReports \cup {t}) = Cardinality(StagedReports) + 1
    BY <1>1, <2>1, FS_AddElement
  <2>3. Cardinality(StagedReports \cup {t}) <= Cardinality(StagedTargets)  BY <1>1, FS_Subset
  <2> QED  BY <1>2, <2>1, <2>2, <2>3, FS_CardinalityType
<1>7. CASE \A i \in DOMAIN events : events[i].staged
  <2>1. Reported = StagedReports
    BY <1>0, <1>7, NamesOf DEF Reported, StagedReports, StagedOf, Elems, Names
  <2> QED  BY <1>2, <1>4, <1>5, <1>6, <2>1
<1>8. ASSUME NEW k \in DOMAIN events, ~events[k].staged
      PROVE  Len(events) < Batch
  <2>1. staged < Batch /\ \A i \in DOMAIN events : events[i].staged \/ i = k
    BY <1>0, <1>8 DEF UnstagedIsLast
  <2>2. Reported \subseteq StagedReports \cup {events[k].target}
    BY <2>1 DEF Reported, StagedReports, StagedOf, Elems, Names
  <2>3. /\ IsFiniteSet(StagedReports \cup {events[k].target})
        /\ Cardinality(StagedReports \cup {events[k].target}) <= Cardinality(StagedReports) + 1
    BY <1>6, FS_AddElement
  <2>4. Cardinality(Reported) <= Cardinality(StagedReports \cup {events[k].target})
    BY <2>2, <2>3, FS_Subset
  <2>5. Cardinality(StagedReports \cup {events[k].target}) \in Nat  BY <2>3, FS_CardinalityType
  <2> QED  BY <1>2, <1>4, <1>6, <2>1, <2>3, <2>4, <2>5
<1> QED  BY <1>5, <1>7, <1>8

LEMMA RoomHolds == ScanInv => StagedIsExact
<1> SUFFICES ASSUME ScanInv PROVE StagedIsExact  OBVIOUS
<1>0. PoolInv /\ ScanTyped /\ MainInStep /\ OnePlace /\ StagedCount  BY DEF ScanInv
<1>1. StagedTargets = Making \cup Readied \cup Kept \cup StagedReports  BY <1>0, StagedParts
<1>2. ASSUME NEW w \in Threads, Building(w), ~fatal, ~cancelling
      PROVE  Len(ready) < Batch /\ Len(events) < Batch
  <2>1. hand[w] \in Making /\ hand[w] \notin Made  BY <1>0, <1>2, HandsApart
  <2>2. hand[w] \notin Readied /\ hand[w] \notin Reported  BY <1>0, <2>1 DEF OnePlace
  <2> QED  BY <1>1, <1>2, <2>1, <2>2, RoomIsLeft
<1>3. ASSUME main = "send", ~fatal PROVE Len(ready) < Batch /\ Len(events) < Batch
  <2>1. PICK t \in Targets : held = <<t>> /\ held[1] = t /\ Kept = {t}  BY <1>0, <1>3, HeldOne
  <2>2. t \notin Readied /\ t \notin Reported  BY <1>0, <2>1 DEF OnePlace
  <2>3. ~cancelling  BY <1>0, <1>3 DEF MainInStep
  <2> QED  BY <1>1, <1>3, <2>1, <2>2, <2>3, RoomIsLeft
<1> QED  BY <1>0, <1>2, <1>3 DEF StagedIsExact, StagedCount

LEMMA RetiredHolds == ScanInv => RetiredOnce
<1> SUFFICES ASSUME ScanInv PROVE RetiredOnce  OBVIOUS
<1>0. /\ PoolInv /\ ScanTyped /\ MainInStep /\ JobsAreCounted /\ OnePlace /\ NoneLost
      /\ CloseIsComplete
  BY DEF ScanInv
<1>1. \A t \in Targets : retired[t] \in {0, 1}  BY <1>0 DEF OnePlace
<1>2. ASSUME main = "close", ~cancelling, ~fatal, NEW t \in Targets PROVE retired[t] = 1
  <2>1. /\ todo = {} /\ outstanding = 0
        /\ ready = << >> /\ events = << >> /\ pending = << >> /\ held = << >>
    BY <1>0, <1>2 DEF CloseIsComplete, Complete, MainInStep
  <2>2. Readied = {} /\ Reported = {} /\ Awaiting = {} /\ Kept = {}
    <3>1. DOMAIN << >> = {}  OBVIOUS
    <3> QED  BY <2>1, <3>1 DEF Readied, Reported, Awaiting, Kept, Elems, Names
  <2>3. IsFiniteSet(Busy) /\ Cardinality(Busy) \in Nat /\ Len(jobs) \in Nat
    <3>1. Busy \subseteq Threads  BY DEF Busy
    <3>2. IsFiniteSet(Busy)  BY <3>1, ThreadsAssumption, FS_Subset
    <3> QED  BY <1>0, <3>2, PoolFacts, FS_CardinalityType
  <2>4. Cardinality(Busy) = 0 /\ Len(jobs) = 0  BY <1>0, <2>1, <2>3 DEF JobsAreCounted
  <2>5. Busy = {} /\ DOMAIN jobs = {}
    <3>1. DOMAIN jobs = 1 .. Len(jobs)  BY <1>0, PoolFacts
    <3> QED  BY <2>3, <2>4, <3>1, FS_EmptySet
  <2>6. t \in Made
    <3>1. fate[t] \notin {"none", "cancelled"}  BY <1>0, <1>2, <2>1 DEF MainInStep
    <3>2. fate[t] # "queued"  BY <1>0, <2>5 DEF PoolInv, QueueIsExact, Targets
    <3>3. ASSUME fate[t] = "running" PROVE t \in Made
      <4>1. PICK w \in Threads : thread[w] = "run" /\ hand[w] = t
        BY <1>0, <3>3 DEF PoolInv, HandsAreExact, Targets
      <4>2. build[w] = "done"  BY <2>5, <4>1 DEF Busy
      <4> QED  BY <4>1, <4>2 DEF Made
    <3>4. fate[t] \in {"none", "queued", "running", "ran", "cancelled"}  BY <1>0, PoolFacts
    <3> QED  BY <3>1, <3>2, <3>3, <3>4 DEF Made
  <2>7. t \in Finished  BY <1>0, <1>2, <2>2, <2>6 DEF NoneLost
  <2> QED  BY <1>1, <2>7 DEF Finished
<1> QED  BY <1>1, <1>2 DEF RetiredOnce

LEMMA ClosedHolds == ScanInv => SessionOutlivesWorkers
<1> SUFFICES ASSUME ScanInv, main = "closed" PROVE SessionOutlivesWorkers
  BY DEF SessionOutlivesWorkers
<1>0. PoolInv /\ MainInStep /\ JobsAreCounted  BY DEF ScanInv
<1>1. jobs = << >> /\ \A w \in Threads : thread[w] \in {"none", "ended"}
  BY <1>0 DEF MainInStep, PoolInv, OwnerIsInStep
<1>2. Busy = {} /\ Len(jobs) = 0  BY <1>1 DEF Busy
<1>3. outstanding = 0  BY <1>0, <1>2, FS_EmptySet DEF JobsAreCounted
<1> QED  BY <1>1, <1>3 DEF SessionOutlivesWorkers

LEMMA TypeHolds == ScanInv => TypeOK
<1> SUFFICES ASSUME ScanInv PROVE TypeOK  OBVIOUS
<1>0. PoolInv /\ PoolTypeOK /\ ScanTyped /\ JobsAreCounted /\ CaptureIsExact
  BY DEF ScanInv, PoolInv
<1>1. outstanding \in Nat
  <2>1. Busy \subseteq Threads  BY DEF Busy
  <2>2. IsFiniteSet(Busy)  BY <2>1, ThreadsAssumption, FS_Subset
  <2>3. Cardinality(Busy) \in Nat /\ Len(jobs) \in Nat  BY <1>0, <2>2, PoolFacts, FS_CardinalityType
  <2> QED  BY <1>0, <2>3 DEF JobsAreCounted
<1>2. capture \in Nat  BY <1>0 DEF CaptureIsExact, ScanTyped
<1> QED  BY <1>0, <1>1, <1>2 DEF ScanTyped, TypeOK, Event

-------------------------------------------------------------------------------
(* The theorems.                                                           *)

\* The variables of the session keep their types, for every number of targets and workers
\* and every batch, window and capture budget (kscan_session_run_tx).
THEOREM ScanTypeCorrect == Spec => []TypeOK
<1>1. Init => ScanInv  BY ScanInvInit
<1>2. ScanInv /\ [Next]_vars => ScanInv'  BY ScanInvStep
<1>3. ScanInv => TypeOK  BY TypeHolds
<1> QED  BY <1>1, <1>2, <1>3, PTL DEF Spec

\* STAGED_TARGETS counts what is staged, and a queue of BATCH_LIMIT places has one left for
\* every result that is still to come (kscan_dispatch_build, kscan_drain_events,
\* kscan_transmit_transaction).
THEOREM BatchIsEnough == Spec => []StagedIsExact
<1>1. Init => ScanInv  BY ScanInvInit
<1>2. ScanInv /\ [Next]_vars => ScanInv'  BY ScanInvStep
<1>3. ScanInv => StagedIsExact  BY RoomHolds
<1> QED  BY <1>1, <1>2, <1>3, PTL DEF Spec

\* Capture memory is reserved for exactly the pending transactions and stays within the
\* budget (kscan_capture_reserve_tx, kscan_transaction_release).
THEOREM CaptureBounded == Spec => []CaptureIsExact
<1>1. Init => ScanInv  BY ScanInvInit
<1>2. ScanInv /\ [Next]_vars => ScanInv'  BY ScanInvStep
<1>3. ScanInv => CaptureIsExact  BY DEF ScanInv
<1> QED  BY <1>1, <1>2, <1>3, PTL DEF Spec

\* No target is retired twice, and a session that closes without a failure has retired each
\* of them (kscan_session_complete).
THEOREM EachRetiredOnce == Spec => []RetiredOnce
<1>1. Init => ScanInv  BY ScanInvInit
<1>2. ScanInv /\ [Next]_vars => ScanInv'  BY ScanInvStep
<1>3. ScanInv => RetiredOnce  BY RetiredHolds
<1> QED  BY <1>1, <1>2, <1>3, PTL DEF Spec

\* The session is freed only when no worker and no job refers to it (kscan_session_close).
THEOREM FreedSessionIsQuiet == Spec => []SessionOutlivesWorkers
<1>1. Init => ScanInv  BY ScanInvInit
<1>2. ScanInv /\ [Next]_vars => ScanInv'  BY ScanInvStep
<1>3. ScanInv => SessionOutlivesWorkers  BY ClosedHolds
<1> QED  BY <1>1, <1>2, <1>3, PTL DEF Spec

\* A build job is run by one worker or cancelled, never both and never twice, whatever the
\* session does (kworker_thread, kworker_pool_cancel).
THEOREM BuildHasOneFate == Spec => FateIsFinal
<1>1. Init => ScanInv  BY ScanInvInit
<1>2. ScanInv /\ [Next]_vars => ScanInv'  BY ScanInvStep
<1>3. ScanInv /\ [Next]_vars
        => [\A j \in Jobs :
              /\ fate[j] \in {"ran", "cancelled"} => fate'[j] = fate[j]
              /\ fate[j] = "running" => fate'[j] \in {"running", "ran"}]_poolVars
  <2> SUFFICES ASSUME ScanInv, [Next]_vars, NEW j \in Jobs
               PROVE  /\ fate[j] \in {"ran", "cancelled"} => fate'[j] = fate[j]
                      /\ fate[j] = "running" => fate'[j] \in {"running", "ran"}
    OBVIOUS
  <2>0. PoolInv /\ ScanTyped /\ MainInStep  BY DEF ScanInv
  <2>1. CASE PoolNext  BY <2>0, <2>1, FateStep
  <2>2. CASE PoolRests  BY <2>2 DEF PoolRests
  <2> QED  BY <2>0, <2>1, <2>2, PoolMoves
<1> QED  BY <1>1, <1>2, <1>3, PTL DEF Spec, FateIsFinal
===============================================================================
