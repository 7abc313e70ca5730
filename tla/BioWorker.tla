----------------------------- MODULE BioWorker -----------------------------
(***************************************************************************)
(* One type of background job (bio/BIOHandler.cpp): its queue, its mutex,  *)
(* its two condition variables and the thread made for it when the first   *)
(* job comes.  The arrays of BIOHandler are indexed by the type and share  *)
(* nothing between types.                                                  *)
(*                                                                         *)
(* Threads of the process call createBackgroundJob, waitStep and           *)
(* killThreads; their critical sections are single steps, for nobody sees  *)
(* the queue without the mutex.  Those of the worker are not, for          *)
(* killThreads cancels it asynchronously, at any instruction.              *)
(***************************************************************************)
EXTENDS Naturals, Sequences

CONSTANTS
  Type,      \* BIO_CLOSE_FILE = 0, BIO_AOF_FSYNC = 1, BIO_LAZY_FREE = 2
  Main,      \* the thread of the server, which creates jobs
  Threads,   \* the threads that may call waitStep
  MaxJobs    \* bound: jobs created in a behaviour

ASSUME BioAssumption == Type \in 0..2 /\ Main \in Threads /\ MaxJobs \in Nat

VARIABLES
  jobs,       \* the list of jobs of this type; a job is its number
  pending,    \* the counter of jobs in the list
  mutex,      \* "free"; "worker"; "dead": held by a thread that is no more
  thread,     \* threads[type] is not null
  worker,     \* where the worker is: see Worker
  job,        \* the job the worker has taken, 0 if none
  call,       \* where each thread is in a call of BIOHandler: see Calls
  cancelled,  \* killThreads was called
  created,    \* number of jobs created so far
  done        \* the jobs executed so far, in the order of their execution

vars == <<jobs, pending, mutex, thread, worker, job, call, cancelled, created, done>>

(* "none" before pthread_create; "start"; "lock" waits for the mutex at    *)
(* the end of the loop; "top" of the loop; "wait" in pthread_cond_wait and *)
(* "woken" from it; "taken": popped; "run": executes; "signal"; "delete";  *)
(* "gone": returned or cancelled.                                          *)
Worker == {"none", "start", "lock", "top", "wait", "woken", "taken", "run",
           "signal", "delete", "gone"}

(* "create": it has made the worker and has the job still to put in the    *)
(* list; "wait": in waitStep, on stepCond; "woken": it wants the mutex.    *)
Calls  == {"none", "create", "wait", "woken"}
-----------------------------------------------------------------------------
Init ==
  /\ jobs = << >> /\ pending = 0
  /\ mutex = "free"
  /\ thread = FALSE /\ worker = "none" /\ job = 0
  /\ call = [t \in Threads |-> "none"]
  /\ cancelled = FALSE
  /\ created = 0 /\ done = << >>

(* createBackgroundJob, first part: the thread is created lazily.          *)
CreateThread ==
  /\ call[Main] = "none"
  /\ created < MaxJobs
  /\ ~thread
  /\ thread' = TRUE /\ worker' = "start"
  /\ call' = [call EXCEPT ![Main] = "create"]
  /\ UNCHANGED <<jobs, pending, mutex, job, cancelled, created, done>>

(* pthread_cond_broadcast(newjobCond), pthread_cond_broadcast(stepCond),   *)
(* and mutants that forget them.                                           *)
WakeNoWorker == UNCHANGED worker
WakeNoCaller == UNCHANGED call
WakeWorker  == worker' = IF worker = "wait" THEN "woken" ELSE worker
WakeCallers == call' = [t \in Threads |-> IF call[t] = "wait" THEN "woken" ELSE call[t]]

(* The push; mutants: at the wrong end of the list, and not counted.       *)
PushFront     == jobs' = <<created + 1>> \o jobs /\ pending' = pending + 1
PushUncounted == jobs' = Append(jobs, created + 1) /\ UNCHANGED pending
Push          == jobs' = Append(jobs, created + 1) /\ pending' = pending + 1

(* createBackgroundJob, second part: push and broadcast, under the mutex.  *)
CreateBackgroundJob ==
  /\ call[Main] \in {"none", "create"}
  /\ created < MaxJobs
  /\ thread
  /\ mutex = "free"
  /\ call' = [call EXCEPT ![Main] = "none"]
  /\ created' = created + 1
  /\ Push
  /\ WakeWorker
  /\ UNCHANGED <<mutex, thread, job, cancelled, done>>

(* waitStep: without pending jobs it returns 0 and nothing changes.        *)
WaitStep(t) ==
  /\ call[t] = "none"
  /\ mutex = "free"
  /\ pending # 0
  /\ call' = [call EXCEPT ![t] = "wait"]
  /\ UNCHANGED <<jobs, pending, mutex, thread, worker, job, cancelled, created, done>>

WaitStepReturns(t) ==
  /\ call[t] = "woken"
  /\ mutex = "free"
  /\ call' = [call EXCEPT ![t] = "none"]
  /\ UNCHANGED <<jobs, pending, mutex, thread, worker, job, cancelled, created, done>>

(* processBackgroundJobs: the type is passed as the pointer arg, and a     *)
(* thread with a null arg returns at once.                                 *)
WorkerStarts ==
  /\ worker = "start"
  /\ worker' = IF Type = 0 THEN "gone" ELSE "lock"
  /\ UNCHANGED <<jobs, pending, mutex, thread, job, call, cancelled, created, done>>

WorkerLocks ==
  /\ worker \in {"lock", "woken"}
  /\ mutex = "free"
  /\ mutex' = "worker"
  /\ worker' = "top"
  /\ UNCHANGED <<jobs, pending, thread, job, call, cancelled, created, done>>

(* The list is empty: pthread_cond_wait gives the mutex back.              *)
WorkerWaits ==
  /\ worker = "top"
  /\ jobs = << >>
  /\ worker' = "wait"
  /\ mutex' = "free"
  /\ UNCHANGED <<jobs, pending, thread, job, call, cancelled, created, done>>

WorkerTakes ==
  /\ worker = "top"
  /\ jobs # << >>
  /\ job' = Head(jobs)
  /\ jobs' = Tail(jobs)
  /\ worker' = "taken"
  /\ UNCHANGED <<pending, mutex, thread, call, cancelled, created, done>>

WorkerUnlocks ==
  /\ worker = "taken"
  /\ pending' = pending - 1
  /\ mutex' = "free"
  /\ worker' = "run"
  /\ UNCHANGED <<jobs, thread, job, call, cancelled, created, done>>

WorkerExecutes ==
  /\ worker = "run"
  /\ done' = Append(done, job)
  /\ job' = 0
  /\ worker' = "signal"
  /\ UNCHANGED <<jobs, pending, mutex, thread, call, cancelled, created>>

(* The broadcast to waitStep is made without the mutex.                    *)
WorkerSignals ==
  /\ worker = "signal"
  /\ WakeCallers
  /\ worker' = "delete"
  /\ UNCHANGED <<jobs, pending, mutex, thread, job, cancelled, created, done>>

WorkerDeletes ==
  /\ worker = "delete"
  /\ worker' = "lock"
  /\ UNCHANGED <<jobs, pending, mutex, thread, job, call, cancelled, created, done>>

(* POSIX lets pthread_cond_wait return without a signal.                   *)
SpuriousWakeup ==
  \/ /\ worker = "wait" /\ worker' = "woken"
     /\ UNCHANGED <<jobs, pending, mutex, thread, job, call, cancelled, created, done>>
  \/ \E t \in Threads :
       /\ call[t] = "wait" /\ call' = [call EXCEPT ![t] = "woken"]
       /\ UNCHANGED <<jobs, pending, mutex, thread, worker, job, cancelled, created, done>>

(* killThreads: pthread_cancel and pthread_join.  pthread_cond_wait takes  *)
(* the mutex back before it gives in, and no handler releases it.  A job   *)
(* that was popped and not executed is lost with the worker: nothing puts  *)
(* it back.  Nobody sets threads[type] to null.  A second call would join  *)
(* a joined thread.                                                        *)
KillThreads ==
  /\ call[Main] = "none"
  /\ thread /\ ~cancelled
  /\ worker \in {"wait", "woken"} => mutex = "free"
  /\ cancelled' = TRUE
  /\ worker' = "gone"
  /\ mutex' = IF worker \in {"top", "taken", "wait", "woken"} THEN "dead" ELSE mutex
  /\ job' = 0
  /\ UNCHANGED <<jobs, pending, thread, call, created, done>>

WorkerStep ==
  \/ WorkerStarts \/ WorkerLocks \/ WorkerWaits \/ WorkerTakes \/ WorkerUnlocks
  \/ WorkerExecutes \/ WorkerSignals \/ WorkerDeletes

CreateStep == CreateThread \/ CreateBackgroundJob

Next ==
  \/ CreateStep
  \/ \E t \in Threads : WaitStep(t) \/ WaitStepReturns(t)
  \/ WorkerStep
  \/ SpuriousWakeup
  \/ KillThreads

Spec == Init /\ [][Next]_vars

(* The threads are scheduled, and no thread is kept from a mutex that is   *)
(* released again and again.  Nothing is assumed of spurious wakeups, nor  *)
(* of who calls what.                                                      *)
Fairness ==
  /\ WF_vars(WorkerStep) /\ SF_vars(WorkerLocks)
  /\ SF_vars(call[Main] = "create" /\ CreateBackgroundJob)
  /\ \A t \in Threads : SF_vars(WaitStepReturns(t))

FairSpec == Spec /\ Fairness
-----------------------------------------------------------------------------
(* Properties *)

(* Type invariant: the shape of the queue and of the threads' positions.   *)
TypeOK ==
  /\ jobs \in Seq(1..MaxJobs)
  /\ pending \in 0..MaxJobs
  /\ mutex \in {"free", "worker", "dead"}
  /\ thread \in BOOLEAN
  /\ worker \in Worker
  /\ job \in 0..MaxJobs
  /\ call \in [Threads -> Calls]
  /\ cancelled \in BOOLEAN
  /\ created \in 0..MaxJobs
  /\ done \in Seq(1..MaxJobs)

Taken == IF job = 0 THEN << >> ELSE <<job>>

(* What the worker may have in its hands: one job or none.                 *)
Hands == {<< >>} \cup {<<k>> : k \in 1..MaxJobs}

(* While nobody calls killThreads, every job created is done, in the       *)
(* worker's hands, or in the list, once and in the order of creation.      *)
(* After it one job at most is missing, between those that were done and   *)
(* those that nobody will ever execute: the list is as it was, and goes on *)
(* growing in order.                                                       *)
OneLostAtMost ==
  \E hand \in Hands :
    /\ done \o hand \o jobs = [i \in 1..created |-> i]
    /\ ~cancelled => hand = Taken

(* pending counts the list whenever the mutex lets anybody see the two.    *)
PendingCounted == mutex = "free" => pending = Len(jobs)

(* What the list, the worker and the counter say of the jobs agrees.       *)
JobsAccounted == OneLostAtMost /\ PendingCounted

(* The worker never sleeps on newjobCond while there is a job for it.      *)
NoLostWakeup == (worker = "wait" /\ mutex = "free") => jobs = << >>

(* A thread sleeps in waitStep only while a step is still to come: a job   *)
(* in the list, or one whose broadcast was not made yet.                   *)
WaiterHasStep ==
  \A t \in Threads : call[t] = "wait" =>
    jobs # << >> \/ worker \in {"taken", "run", "signal"} \/ cancelled

(* Neither the worker nor a thread in waitStep sleeps without reason.      *)
SleepersWoken == NoLostWakeup /\ WaiterHasStep

(* Every job is executed, unless killThreads was called.                   *)
EveryJobRuns ==
  \A k \in 1..MaxJobs : (created >= k) ~> (Len(done) >= k \/ cancelled)

(* Every waitStep and createBackgroundJob returns, unless killThreads was  *)
(* called.                                                                 *)
CallsReturn ==
  \A t \in Threads : (call[t] # "none") ~> (call[t] = "none" \/ cancelled)
=============================================================================
