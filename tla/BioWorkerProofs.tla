-------------------------- MODULE BioWorkerProofs --------------------------
(***************************************************************************)
(* Proofs about BioWorker, for every type of job and any number of jobs    *)
(* and threads: what the critical sections keep true of the queue, its     *)
(* counter and the sleepers, also when killThreads cancels the worker.     *)
(***************************************************************************)
EXTENDS BioWorker, SequenceTheorems, TLAPS

J == 1..MaxJobs

Numbers(n) == [i \in 1..n |-> i]

(* The worker has the mutex at the top of its loop and just after a take.  *)
MutexHeld == mutex = "worker" <=> worker \in {"top", "taken"}

(* It has a job in its hands from the take to the end of the execution.    *)
HandsFull == worker \in {"taken", "run"} <=> job # 0

(* All jobs created, in order, when hand is what is neither done nor listed. *)
InOrder(hand) == done \o hand \o jobs = Numbers(created)

(* There is no worker before threads[type] is set, nor after killThreads.  *)
GoneWhenCancelled ==
  /\ ~thread => worker = "none"
  /\ cancelled => worker = "gone"

Control == MutexHeld /\ HandsFull /\ GoneWhenCancelled

(* PendingCounted, with what holds while the worker has the mutex.         *)
Counter ==
  /\ (mutex = "free" \/ worker = "top") => pending = Len(jobs)
  /\ worker = "taken" => pending = Len(jobs) + 1

(* NoLostWakeup, for every state: a worker that sleeps has no job.         *)
Sleeps == worker = "wait" => jobs = << >>

BioInv == TypeOK /\ OneLostAtMost /\ Control /\ Counter /\ Sleeps /\ WaiterHasStep
-----------------------------------------------------------------------------
(* The numbers of the jobs.                                                *)
LEMMA NumbersProperties ==
  ASSUME NEW n \in Nat
  PROVE  /\ Numbers(n) \in Seq(1..n)
         /\ Len(Numbers(n)) = n
         /\ Append(Numbers(n), n + 1) = Numbers(n + 1)
<1>1. Numbers(n) \in Seq(1..n) /\ Len(Numbers(n)) = n
  BY DEF Numbers
<1>2. Numbers(n + 1) \in Seq(1..(n + 1)) /\ Len(Numbers(n + 1)) = n + 1
  BY DEF Numbers
<1>3. Numbers(n) \in Seq(1..(n + 1))
  BY <1>1, 1..n \subseteq 1..(n + 1), SeqMonotonic
<1>4. /\ Append(Numbers(n), n + 1) \in Seq(1..(n + 1))
      /\ Len(Append(Numbers(n), n + 1)) = n + 1
      /\ \A i \in 1..(n + 1) :
           Append(Numbers(n), n + 1)[i] = IF i = n + 1 THEN n + 1 ELSE Numbers(n)[i]
  BY <1>1, <1>3
<1>5. \A i \in 1..(n + 1) : Append(Numbers(n), n + 1)[i] = Numbers(n + 1)[i]
  BY <1>4 DEF Numbers
<1>6. QED
  BY <1>1, <1>2, <1>4, <1>5, SeqEqual

(* The three parts are sequences of jobs, and none of them is longer than  *)
(* the number of jobs created.                                             *)
LEMMA PartsOfAll ==
  ASSUME TypeOK, NEW hand \in Hands, InOrder(hand)
  PROVE  /\ done \in Seq(J) /\ hand \in Seq(J) /\ jobs \in Seq(J)
         /\ done \o hand \in Seq(J)
         /\ Len(jobs) \in Nat /\ Len(jobs) <= created
<1>1. done \in Seq(J) /\ jobs \in Seq(J) /\ created \in Nat
  BY DEF TypeOK, J
<1>2. hand \in Seq(J)
  <2>1. CASE hand = << >>
    BY <2>1, EmptySeq
  <2>2. CASE \E k \in 1..MaxJobs : hand = <<k>>
    BY <2>2 DEF J
  <2> QED
    BY <2>1, <2>2 DEF Hands
<1>3. done \o hand \in Seq(J) /\ Len(done \o hand) = Len(done) + Len(hand)
  BY <1>1, <1>2, ConcatProperties
<1>4. Len(done \o hand \o jobs) = Len(done) + Len(hand) + Len(jobs)
  BY <1>1, <1>3, ConcatProperties
<1>5. Len(done \o hand \o jobs) = created
  BY <1>1, NumbersProperties DEF InOrder
<1>6. Len(done) \in Nat /\ Len(hand) \in Nat /\ Len(jobs) \in Nat
  BY <1>1, <1>2, LenProperties
<1>7. QED
  BY <1>1, <1>2, <1>3, <1>4, <1>5, <1>6

(* OneLostAtMost, by the job that is neither done nor in the list.         *)
LEMMA LostIffHand ==
  OneLostAtMost <=> \E hand \in Hands : InOrder(hand) /\ (~cancelled => hand = Taken)
BY DEF OneLostAtMost, InOrder, Numbers

LEMMA ListIsShort ==
  ASSUME TypeOK, OneLostAtMost
  PROVE  Len(jobs) \in Nat /\ Len(jobs) <= created
<1>1. PICK hand \in Hands : InOrder(hand)
  BY LostIffHand
<1>2. QED
  BY <1>1, PartsOfAll

LEMMA BioInit == Init => BioInv
<1> SUFFICES ASSUME Init PROVE BioInv
  OBVIOUS
<1>1. TypeOK
  <2>1. jobs \in Seq(1..MaxJobs) /\ done \in Seq(1..MaxJobs)
    BY EmptySeq DEF Init
  <2>2. pending \in 0..MaxJobs /\ job \in 0..MaxJobs /\ created \in 0..MaxJobs
    BY BioAssumption DEF Init
  <2>3. call \in [Threads -> Calls]
    BY DEF Init, Calls
  <2>4. QED
    BY <2>1, <2>2, <2>3 DEF Init, TypeOK, Worker
<1>2. OneLostAtMost
  <2>1. << >> \in Seq(J) /\ << >> \o << >> \o << >> = << >>
    BY EmptySeq, ConcatEmptySeq
  <2>2. Numbers(0) = << >>
    BY NumbersProperties DEF Numbers
  <2>3. Taken = << >> /\ done = << >> /\ jobs = << >> /\ created = 0
    BY DEF Init, Taken
  <2>4. InOrder(Taken) /\ Taken \in Hands
    BY <2>1, <2>2, <2>3 DEF InOrder, Hands
  <2>5. QED
    BY <2>4, LostIffHand
<1>3. Control /\ Counter /\ Sleeps /\ WaiterHasStep
  BY EmptySeq DEF Init, Control, MutexHeld, HandsFull, GoneWhenCancelled, Counter,
                  Sleeps, WaiterHasStep
<1>4. QED
  BY <1>1, <1>2, <1>3 DEF BioInv

(* A push goes behind everything created before.                           *)
LEMMA PushKeepsOrder ==
  ASSUME TypeOK, OneLostAtMost, jobs' = Append(jobs, created + 1),
         created' = created + 1, created < MaxJobs, UNCHANGED <<job, done, cancelled>>
  PROVE  /\ jobs' \in Seq(J) /\ Len(jobs') = Len(jobs) + 1
         /\ OneLostAtMost'
<1> DEFINE x == created + 1
<1>0. PICK hand \in Hands : InOrder(hand) /\ (~cancelled => hand = Taken)
  BY LostIffHand
<1> DEFINE before == done \o hand
<1>1. /\ before \in Seq(J) /\ jobs \in Seq(J)
      /\ created \in Nat /\ x \in J /\ <<x>> \in Seq(J)
  BY <1>0, PartsOfAll, BioAssumption DEF TypeOK, J
<1>2. jobs' \in Seq(J) /\ Len(jobs') = Len(jobs) + 1 /\ jobs' = jobs \o <<x>>
  BY <1>1, AppendProperties, AppendIsConcat
<1>3. before \o (jobs \o <<x>>) = (before \o jobs) \o <<x>>
  BY <1>1, ConcatAssociative
<1>4. before \o jobs = Numbers(created)
  BY <1>0 DEF InOrder
<1>5. before \o jobs \in Seq(J)
  BY <1>1, ConcatProperties
<1>6. (before \o jobs) \o <<x>> = Append(before \o jobs, x)
  BY <1>1, <1>5, AppendIsConcat
<1>7. Append(Numbers(created), x) = Numbers(created')
  BY <1>1, NumbersProperties
<1>8. done' \o hand \o jobs' = Numbers(created')
  BY <1>2, <1>3, <1>4, <1>6, <1>7
<1>9. OneLostAtMost'
  BY <1>0, <1>8 DEF OneLostAtMost, Numbers, Taken, Hands
<1>10. QED
  BY <1>2, <1>9

(* The worker takes the first job of the list into its hands.              *)
LEMMA TakeKeepsOrder ==
  ASSUME TypeOK, OneLostAtMost, ~cancelled, job = 0, jobs # << >>,
         job' = Head(jobs), jobs' = Tail(jobs), UNCHANGED <<created, done, cancelled>>
  PROVE  /\ jobs' \in Seq(J) /\ Len(jobs) = Len(jobs') + 1
         /\ job' \in J
         /\ OneLostAtMost'
<1>0. InOrder(<< >>) /\ << >> \in Hands
  BY LostIffHand DEF Taken, Hands
<1>1. done \in Seq(J) /\ jobs \in Seq(J)
  BY <1>0, PartsOfAll
<1>2. /\ job' \in J /\ jobs' \in Seq(J) /\ Len(jobs') = Len(jobs) - 1
      /\ Len(jobs) \in Nat
  BY <1>1, HeadTailProperties, LenProperties
<1>3. Taken' = <<job'>> /\ <<job'>> \in Seq(J) /\ <<job'>> \in Hands
  BY <1>2, BioAssumption DEF Taken, J, Hands
<1>4. jobs = <<job'>> \o jobs'
  <2> DEFINE whole == <<job'>> \o jobs'
  <2>1. /\ whole \in Seq(J) /\ Len(whole) = 1 + Len(jobs')
        /\ \A i \in 1..(1 + Len(jobs')) : whole[i] = IF i <= 1 THEN job' ELSE jobs'[i - 1]
    BY <1>2, <1>3, ConcatProperties
  <2>2. \A i \in 1..Len(jobs') : jobs'[i] = jobs[i + 1]
    BY <1>1, HeadTailProperties
  <2>3. job' = jobs[1]
    BY <1>1
  <2> HIDE DEF whole
  <2>4. ASSUME NEW i \in 1..Len(jobs) PROVE jobs[i] = whole[i]
    <3>1. CASE i = 1
      BY <2>1, <2>3, <1>2, <3>1
    <3>2. CASE i # 1
      <4>1. i - 1 \in 1..Len(jobs') /\ (i - 1) + 1 = i /\ i \in 1..(1 + Len(jobs')) /\ ~(i <= 1)
        BY <1>2, <3>2
      <4>2. jobs'[i - 1] = jobs[i]
        BY <4>1, <2>2
      <4>3. QED
        BY <4>1, <4>2, <2>1
    <3>3. QED
      BY <3>1, <3>2
  <2>5. Len(jobs) = Len(whole)
    BY <2>1, <1>2
  <2>6. jobs = whole
    BY <2>1, <2>4, <2>5, <1>1, SeqEqual
  <2>7. QED
    BY <2>6 DEF whole
<1>5. done \o << >> = done
  BY <1>1, ConcatEmptySeq
<1>6. done \o jobs = (done \o <<job'>>) \o jobs'
  BY <1>1, <1>2, <1>3, <1>4, ConcatAssociative
<1>7. done \o jobs = Numbers(created)
  BY <1>0, <1>5 DEF InOrder
<1>8. done' \o <<job'>> \o jobs' = Numbers(created')
  BY <1>6, <1>7
<1>9. OneLostAtMost'
  BY <1>3, <1>8 DEF OneLostAtMost, Numbers, Hands
<1>10. QED
  BY <1>2, <1>9

(* Executing the job puts it behind those already done.                    *)
LEMMA ExecuteKeepsOrder ==
  ASSUME TypeOK, OneLostAtMost, ~cancelled, job # 0, job' = 0, done' = Append(done, job),
         UNCHANGED <<jobs, created, cancelled>>
  PROVE  done' \in Seq(J) /\ OneLostAtMost'
<1>0. InOrder(<<job>>) /\ <<job>> \in Hands
  BY LostIffHand DEF Taken
<1>1. done \in Seq(J) /\ job \in J
  BY <1>0, PartsOfAll, BioAssumption DEF TypeOK, J
<1>2. done' \in Seq(J) /\ done' = done \o <<job>>
  BY <1>1, AppendProperties, AppendIsConcat
<1>3. Taken' = << >> /\ done' \o << >> = done'
  BY <1>2, ConcatEmptySeq DEF Taken
<1>4. done' \o << >> \o jobs' = Numbers(created')
  BY <1>0, <1>2, <1>3 DEF InOrder
<1>5. OneLostAtMost'
  BY <1>3, <1>4 DEF OneLostAtMost, Numbers, Hands
<1>6. QED
  BY <1>2, <1>5

(* With the worker, the job in its hands is gone; and nothing else.        *)
LEMMA KillLosesHand ==
  ASSUME OneLostAtMost, cancelled', UNCHANGED <<jobs, created, done>>
  PROVE  OneLostAtMost'
BY DEF OneLostAtMost, Hands
-----------------------------------------------------------------------------
LEMMA BioCreate == BioInv /\ CreateStep => BioInv'
<1> SUFFICES ASSUME BioInv, CreateStep PROVE BioInv'
  OBVIOUS
<1> USE DEF BioInv
<1>1. CASE CreateThread
  <2>1. OneLostAtMost' /\ TypeOK'
    BY <1>1 DEF CreateThread, TypeOK, OneLostAtMost, Taken, Hands, Worker, Calls
  <2>2. worker = "none" /\ worker' = "start"
    BY <1>1 DEF CreateThread, Control, GoneWhenCancelled
  <2>3. Control' /\ Counter' /\ Sleeps'
    BY <1>1, <2>2 DEF CreateThread, Control, MutexHeld, HandsFull, GoneWhenCancelled,
      Counter, Sleeps
  <2>4. \A t \in Threads : call'[t] = "wait" => call[t] = "wait"
    BY <1>1 DEF CreateThread, TypeOK
  <2>5. WaiterHasStep'
    BY <1>1, <2>2, <2>4 DEF CreateThread, WaiterHasStep
  <2>6. QED
    BY <2>1, <2>3, <2>5
<1>2. CASE CreateBackgroundJob
  <2>1. /\ jobs' \in Seq(J) /\ Len(jobs') = Len(jobs) + 1 /\ OneLostAtMost'
        /\ created' = created + 1 /\ created < MaxJobs
        /\ pending' = pending + 1 /\ mutex = "free"
        /\ worker' = IF worker = "wait" THEN "woken" ELSE worker
        /\ call' = [call EXCEPT ![Main] = "none"]
        /\ UNCHANGED <<mutex, thread, job, cancelled, done>>
    BY <1>2, PushKeepsOrder DEF CreateBackgroundJob, Push, WakeWorker
  <2>2. Len(jobs) \in Nat /\ Len(jobs) <= created /\ created \in Nat
    BY ListIsShort DEF TypeOK
  <2>3. jobs' # << >>
    BY <2>1, <2>2, EmptySeq
  <2>4. pending = Len(jobs)
    BY <2>1 DEF Counter
  <2>5. pending' \in 0..MaxJobs /\ created' \in 0..MaxJobs
    BY <2>1, <2>2, <2>4, BioAssumption
  <2>6. worker' \in Worker /\ call' \in [Threads -> Calls]
    BY <2>1 DEF TypeOK, Worker, Calls
  <2>7. TypeOK'
    BY <2>1, <2>5, <2>6 DEF TypeOK, J
  <2>8. Control' /\ Sleeps'
    BY <2>1 DEF Control, MutexHeld, HandsFull, GoneWhenCancelled, Sleeps
  <2>9. Counter'
    <3>1. pending' = Len(jobs')
      BY <2>1, <2>4
    <3>2. worker' # "taken"
      BY <2>1 DEF Control, MutexHeld
    <3>3. QED
      BY <3>1, <3>2 DEF Counter
  <2>10. WaiterHasStep'
    BY <2>3 DEF WaiterHasStep
  <2>11. QED
    BY <2>1, <2>7, <2>8, <2>9, <2>10
<1>3. QED
  BY <1>1, <1>2 DEF CreateStep

(* The steps of the callers of waitStep, and spurious wakeups.             *)
LEMMA BioCalls ==
  BioInv /\ (SpuriousWakeup \/ \E t \in Threads : WaitStep(t) \/ WaitStepReturns(t))
    => BioInv'
<1> SUFFICES ASSUME BioInv,
                    SpuriousWakeup \/ \E t \in Threads : WaitStep(t) \/ WaitStepReturns(t)
             PROVE  BioInv'
  OBVIOUS
<1> USE DEF BioInv
<1>1. /\ UNCHANGED <<jobs, pending, mutex, thread, job, cancelled, created, done>>
      /\ worker' = worker \/ (worker = "wait" /\ worker' = "woken")
      /\ call' \in [Threads -> Calls]
  BY DEF SpuriousWakeup, WaitStep, WaitStepReturns, TypeOK, Calls
<1>2. TypeOK' /\ OneLostAtMost'
  BY <1>1 DEF TypeOK, OneLostAtMost, Taken, Hands, Worker
<1>3. Control' /\ Counter' /\ Sleeps'
  BY <1>1 DEF Control, MutexHeld, HandsFull, GoneWhenCancelled, Counter, Sleeps
<1>4. ASSUME NEW u \in Threads, call'[u] = "wait"
      PROVE  jobs' # << >> \/ worker' \in {"taken", "run", "signal"} \/ cancelled'
  <2>1. CASE call[u] = "wait"
    BY <2>1, <1>1 DEF WaiterHasStep
  <2>2. CASE call[u] # "wait"
    <3>1. mutex = "free" /\ pending # 0
      BY <2>2, <1>4 DEF SpuriousWakeup, WaitStep, WaitStepReturns, TypeOK
    <3>2. jobs # << >>
      BY <3>1, EmptySeq DEF Counter
    <3>3. QED
      BY <3>2, <1>1
  <2>3. QED
    BY <2>1, <2>2
<1>5. QED
  BY <1>2, <1>3, <1>4 DEF WaiterHasStep

(* The steps of the worker that leave the list and the done jobs alone.    *)
LEMMA BioQuiet ==
  BioInv /\ (WorkerStarts \/ WorkerLocks \/ WorkerWaits \/ WorkerUnlocks
               \/ WorkerSignals \/ WorkerDeletes) => BioInv'
<1> SUFFICES ASSUME BioInv,
                    WorkerStarts \/ WorkerLocks \/ WorkerWaits \/ WorkerUnlocks
                      \/ WorkerSignals \/ WorkerDeletes
             PROVE  BioInv'
  OBVIOUS
<1> USE DEF BioInv
<1>1. UNCHANGED <<jobs, job, cancelled, created, done, thread>> /\ OneLostAtMost'
  BY DEF WorkerStarts, WorkerLocks, WorkerWaits, WorkerUnlocks, WorkerSignals,
         WorkerDeletes, OneLostAtMost, Taken, Hands
<1>2. Len(jobs) \in Nat /\ Len(jobs) <= created /\ created \in 0..MaxJobs
  BY ListIsShort DEF TypeOK
<1>3. CASE WorkerUnlocks
  <2>1. pending' = Len(jobs) /\ worker' = "run" /\ mutex' = "free" /\ call' = call
    BY <1>2, <1>3 DEF WorkerUnlocks, Counter
  <2>2. pending' \in 0..MaxJobs
    BY <2>1, <1>2, BioAssumption
  <2>3. TypeOK'
    BY <1>1, <2>1, <2>2 DEF TypeOK, Worker
  <2>4. QED
    BY <1>1, <1>3, <2>1, <2>3 DEF WorkerUnlocks, Control, MutexHeld, HandsFull,
      GoneWhenCancelled, Counter, Sleeps, WaiterHasStep
<1>4. CASE WorkerSignals
  <2>1. /\ call' = [t \in Threads |-> IF call[t] = "wait" THEN "woken" ELSE call[t]]
        /\ worker = "signal" /\ worker' = "delete" /\ UNCHANGED <<mutex, pending>>
    BY <1>4 DEF WorkerSignals, WakeCallers
  <2>2. TypeOK'
    BY <1>1, <2>1 DEF TypeOK, Worker, Calls
  <2>3. WaiterHasStep'
    BY <2>1 DEF WaiterHasStep
  <2>4. QED
    BY <1>1, <2>1, <2>2, <2>3 DEF Control, MutexHeld, HandsFull, GoneWhenCancelled,
      Counter, Sleeps
<1>5. CASE WorkerStarts \/ WorkerLocks \/ WorkerWaits \/ WorkerDeletes
  <2>1. TypeOK'
    BY <1>1, <1>5 DEF WorkerStarts, WorkerLocks, WorkerWaits, WorkerDeletes, TypeOK, Worker
  <2>2. Control' /\ Counter' /\ Sleeps'
    BY <1>1, <1>5 DEF WorkerStarts, WorkerLocks, WorkerWaits, WorkerDeletes, Control,
      MutexHeld, HandsFull, GoneWhenCancelled, Counter, Sleeps
  <2>3. WaiterHasStep'
    BY <1>1, <1>5 DEF WorkerStarts, WorkerLocks, WorkerWaits, WorkerDeletes, WaiterHasStep
  <2>4. QED
    BY <1>1, <2>1, <2>2, <2>3
<1>6. QED
  BY <1>3, <1>4, <1>5

(* Taking and executing a job.                                             *)
LEMMA BioMoves == BioInv /\ (WorkerTakes \/ WorkerExecutes) => BioInv'
<1> SUFFICES ASSUME BioInv, WorkerTakes \/ WorkerExecutes PROVE BioInv'
  OBVIOUS
<1> USE DEF BioInv
<1>1. CASE WorkerTakes
  <2>1. job = 0 /\ ~cancelled
    BY <1>1 DEF WorkerTakes, Control, HandsFull, GoneWhenCancelled
  <2>2. /\ jobs' \in Seq(J) /\ Len(jobs) = Len(jobs') + 1
        /\ job' \in J /\ OneLostAtMost'
    BY <1>1, <2>1, TakeKeepsOrder DEF WorkerTakes
  <2>3. pending = Len(jobs)
    BY <1>1 DEF WorkerTakes, Counter
  <2>4. TypeOK'
    BY <1>1, <2>2, BioAssumption DEF WorkerTakes, TypeOK, J, Worker
  <2>5. job' # 0
    BY <2>2 DEF J
  <2>6. Control' /\ Sleeps' /\ WaiterHasStep'
    BY <1>1, <2>5 DEF WorkerTakes, Control, MutexHeld, HandsFull, GoneWhenCancelled,
      Sleeps, WaiterHasStep
  <2>7. Counter'
    BY <1>1, <2>2, <2>3 DEF WorkerTakes, Counter, Control, MutexHeld
  <2>8. QED
    BY <2>2, <2>4, <2>6, <2>7
<1>2. CASE WorkerExecutes
  <2>1. job # 0 /\ ~cancelled
    BY <1>2 DEF WorkerExecutes, Control, HandsFull, GoneWhenCancelled
  <2>2. done' \in Seq(J) /\ OneLostAtMost'
    BY <1>2, <2>1, ExecuteKeepsOrder DEF WorkerExecutes
  <2>3. TypeOK'
    BY <1>2, <2>2, BioAssumption DEF WorkerExecutes, TypeOK, J, Worker
  <2>4. Control' /\ Counter' /\ Sleeps' /\ WaiterHasStep'
    BY <1>2 DEF WorkerExecutes, Control, MutexHeld, HandsFull, GoneWhenCancelled,
      Counter, Sleeps, WaiterHasStep
  <2>5. QED
    BY <2>2, <2>3, <2>4
<1>3. QED
  BY <1>1, <1>2

(* killThreads leaves the mutex with the dead if the worker had it.        *)
LEMMA BioKill == BioInv /\ KillThreads => BioInv'
<1> SUFFICES ASSUME BioInv, KillThreads PROVE BioInv'
  OBVIOUS
<1> USE DEF BioInv
<1>1. TypeOK' /\ OneLostAtMost'
  BY KillLosesHand, BioAssumption DEF KillThreads, TypeOK, Worker
<1>2. Control' /\ Counter' /\ Sleeps' /\ WaiterHasStep'
  BY DEF KillThreads, TypeOK, Control, MutexHeld, HandsFull, GoneWhenCancelled,
         Counter, Sleeps, WaiterHasStep
<1>3. QED
  BY <1>1, <1>2

LEMMA BioInvariant == Spec => []BioInv
<1>1. BioInv /\ [Next]_vars => BioInv'
  <2>1. BioInv /\ UNCHANGED vars => BioInv'
    <3>1. SUFFICES ASSUME BioInv, UNCHANGED vars PROVE BioInv'
      OBVIOUS
    <3>2. TypeOK' /\ OneLostAtMost'
      BY <3>1 DEF vars, BioInv, TypeOK, OneLostAtMost, Taken, Hands
    <3>3. Control' /\ Counter'
      BY <3>1 DEF vars, BioInv, Control, MutexHeld, HandsFull, GoneWhenCancelled, Counter
    <3>4. Sleeps' /\ WaiterHasStep'
      BY <3>1 DEF vars, BioInv, Sleeps, WaiterHasStep
    <3>5. QED
      BY <3>2, <3>3, <3>4 DEF BioInv
  <2>2. QED
    BY <2>1, BioCreate, BioCalls, BioQuiet, BioMoves, BioKill DEF Next, WorkerStep
<1>2. QED
  BY <1>1, BioInit, PTL DEF Spec
-----------------------------------------------------------------------------
(* The queue, the counter and the positions of the threads keep their      *)
(* types.                                                                  *)
THEOREM BioTypes == Spec => []TypeOK
<1>1. BioInv => TypeOK
  BY DEF BioInv
<1>2. QED
  BY <1>1, BioInvariant, PTL

(* No job is repeated or overtaken, and none is lost but the one that the *)
(* worker has in its hands when killThreads cancels it.                    *)
THEOREM JobsAreInOrder == Spec => []OneLostAtMost
<1>1. BioInv => OneLostAtMost
  BY DEF BioInv
<1>2. QED
  BY <1>1, BioInvariant, PTL

(* Whoever gets the mutex finds the counter equal to the list's length.    *)
THEOREM CounterIsRight == Spec => []PendingCounted
<1>1. BioInv => PendingCounted
  BY DEF BioInv, Counter, PendingCounted
<1>2. QED
  BY <1>1, BioInvariant, PTL

(* The worker does not sleep beside a job.                                 *)
THEOREM WakeupIsNotLost == Spec => []NoLostWakeup
<1>1. BioInv => NoLostWakeup
  BY DEF BioInv, Sleeps, NoLostWakeup
<1>2. QED
  BY <1>1, BioInvariant, PTL

(* No thread sleeps in waitStep without a step that will wake it.          *)
THEOREM WaitersAreWoken == Spec => []WaiterHasStep
<1>1. BioInv => WaiterHasStep
  BY DEF BioInv
<1>2. QED
  BY <1>1, BioInvariant, PTL

(* Jobs and counter agree, for any number of jobs and threads.             *)
THEOREM JobsAreAccounted == Spec => []JobsAccounted
BY JobsAreInOrder, CounterIsRight, PTL DEF JobsAccounted

(* Nobody sleeps without a reason.                                         *)
THEOREM SleepersAreWoken == Spec => []SleepersWoken
BY WakeupIsNotLost, WaitersAreWoken, PTL DEF SleepersWoken
=============================================================================
