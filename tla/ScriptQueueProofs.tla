------------------------- MODULE ScriptQueueProofs -------------------------
(***************************************************************************)
(* Proofs about ScriptQueue, for every size of the queue and every number  *)
(* of slots, jobs and processes: the counter of running scripts, the bound *)
(* of the queue, the children, and the order in which scripts are tried.   *)
(***************************************************************************)
EXTENDS ScriptQueue, FiniteSetTheorems, TLAPS

(* The job to be looked for by pid 1 is never found: fork() does not give  *)
(* the pid of init, and nothing else puts a pid into a job.                *)
LEMMA NobodyHasPid1 ==
  ASSUME TypeOK, NEW p \in Pids
  PROVE  NodesByPid(waited(p)) = {}
<1>1. waited(p) = 1
  BY ScriptAssumption DEF waited
<1>2. ASSUME NEW j \in Running PROVE scripts[j].pid # 1
  BY ScriptAssumption DEF TypeOK, JobType, Running
<1>3. QED
  BY <1>1, <1>2 DEF NodesByPid

(* So reaping a child changes the process table and nothing else.          *)
LEMMA CollectOnlyReaps ==
  ASSUME TypeOK, NEW p \in Pids, NEW ending, CollectTerminated(p, ending)
  PROVE  /\ proc' = [proc EXCEPT ![p] = "free"]
         /\ UNCHANGED <<scripts, runningScripts, scheduled, pc, nowt, seen, now>>
BY NobodyHasPid1 DEF CollectTerminated

(* A queue of numbered jobs is finite.                                     *)
LEMMA FiniteQueue ==
  ASSUME TypeOK
  PROVE  /\ IsFiniteSet(DOMAIN scripts) /\ Cardinality(DOMAIN scripts) \in Nat
         /\ IsFiniteSet(Running) /\ Cardinality(Running) \in Nat
<1>1. IsFiniteSet(1..scheduled)
  <2>1. 1 \in Int /\ scheduled \in Int
    BY ScriptAssumption DEF TypeOK
  <2>2. QED
    BY <2>1, FS_Interval
<1>2. IsFiniteSet(DOMAIN scripts)
  BY <1>1, FS_Subset DEF TypeOK
<1>3. IsFiniteSet(Running)
  BY <1>2, FS_Subset DEF Running
<1>4. QED
  BY <1>2, <1>3, FS_CardinalityType

(* What one call of scheduleScriptExecution does to the queue: it puts the *)
(* new job in, and takes out at most one, which does not run.              *)
LEMMA ScheduleEffect ==
  ASSUME TypeOK, QueueBounded, scheduleScriptExecution
  PROVE  /\ scheduled' = scheduled + 1 /\ scheduled' \in 0..MaxJobs
         /\ DOMAIN scripts' \subseteq DOMAIN scripts \cup {scheduled + 1}
         /\ \A j \in DOMAIN scripts' :
              scripts'[j] = IF j = scheduled + 1 THEN NewJob ELSE scripts[j]
         /\ scripts' \in [DOMAIN scripts' -> JobType]
         /\ Running' = Running
         /\ \A j \in Running : j \in DOMAIN scripts'
         /\ Cardinality(DOMAIN scripts') <= MAX_QUEUE
         /\ pc = "idle" /\ pc' \in {"idle", "crashed"}
         /\ UNCHANGED <<runningScripts, nowt, seen, now, proc>>
<1> DEFINE new    == scheduled + 1
           queue  == DOMAIN scripts \cup {new}
           pushed == [j \in queue |-> IF j = new THEN NewJob ELSE scripts[j]]
           idle   == {j \in queue : ~pushed[j].running}
<1>1. /\ scheduled \in Nat /\ scheduled < MaxJobs /\ new \notin DOMAIN scripts
      /\ scheduled' = new /\ new \in 0..MaxJobs
  BY ScriptAssumption DEF TypeOK, scheduleScriptExecution, TooLong, Evictable
<1>2. NewJob \in JobType /\ ~NewJob.running
  BY ScriptAssumption DEF NewJob, JobType
<1>3. pushed \in [queue -> JobType]
  BY <1>2 DEF TypeOK
<1>4. new \in idle
  BY <1>2
<1>5. /\ IsFiniteSet(queue)
      /\ Cardinality(queue) = Cardinality(DOMAIN scripts) + 1
  BY <1>1, FiniteQueue, FS_AddElement
<1>6. {j \in queue : pushed[j].running} = Running
  BY <1>1, <1>2 DEF Running
<1>7. CASE Cardinality(queue) > MAX_QUEUE
  <2>1. PICK e \in idle : scripts' = [k \in queue \ {e} |-> pushed[k]]
    BY <1>4, <1>7 DEF scheduleScriptExecution, TooLong, Evictable, First
  <2>2. DOMAIN scripts' = queue \ {e} /\ \A k \in queue \ {e} : scripts'[k] = pushed[k]
    BY <2>1
  <2>3. Running' = Running /\ \A j \in Running : j \in DOMAIN scripts'
    BY <2>1, <2>2, <1>6 DEF Running
  <2>4. Cardinality(DOMAIN scripts') = Cardinality(queue) - 1
    BY <2>1, <2>2, <1>5, FS_RemoveElement
  <2>5. Cardinality(DOMAIN scripts') <= MAX_QUEUE
    BY <2>4, <1>5, FiniteQueue, ScriptAssumption DEF QueueBounded
  <2>6. scripts' \in [DOMAIN scripts' -> JobType]
    BY <2>1, <2>2, <1>3
  <2>7. pc = "idle" /\ pc' \in {"idle", "crashed"}
        /\ UNCHANGED <<runningScripts, nowt, seen, now, proc>>
    BY <1>4, <1>7 DEF scheduleScriptExecution, TooLong, Evictable
  <2>8. QED
    BY <1>1, <2>2, <2>3, <2>5, <2>6, <2>7
<1>8. CASE ~(Cardinality(queue) > MAX_QUEUE)
  <2>1. scripts' = pushed
    BY <1>8 DEF scheduleScriptExecution, TooLong, Evictable
  <2>2. DOMAIN scripts' = queue /\ \A k \in queue : scripts'[k] = pushed[k]
    BY <2>1
  <2>3. Running' = Running /\ \A j \in Running : j \in DOMAIN scripts'
    BY <2>1, <2>2, <1>6 DEF Running
  <2>4. Cardinality(DOMAIN scripts') <= MAX_QUEUE
    BY <2>2, <1>5, <1>8, FiniteQueue, ScriptAssumption
  <2>5. scripts' \in [DOMAIN scripts' -> JobType]
    BY <2>1, <2>2, <1>3
  <2>6. pc = "idle" /\ pc' = "idle" /\ UNCHANGED <<runningScripts, nowt, seen, now, proc>>
    BY <1>8 DEF scheduleScriptExecution, TooLong, Evictable
  <2>7. QED
    BY <1>1, <2>2, <2>3, <2>4, <2>5, <2>6
<1>9. QED
  BY <1>7, <1>8

(* What one turn of the loop does: it takes the first job that may run and *)
(* either notes a failed fork, or marks it running with a child of its own.*)
LEMMA RunEffect ==
  ASSUME TypeOK, NEW j \in DOMAIN scripts, NEW pid \in Pids \cup {-1}, RunPending(j, pid)
  PROVE  /\ DOMAIN scripts' = DOMAIN scripts
         /\ \A k \in DOMAIN scripts : k # j => scripts'[k] = scripts[k]
         /\ scripts'[j] \in JobType
         /\ scripts'[j].retryCount > 0
         /\ scripts' \in [DOMAIN scripts' -> JobType]
         /\ j \notin Running
         /\ \/ /\ pid = -1
               /\ Running' = Running /\ runningScripts' = runningScripts /\ proc' = proc
            \/ /\ pid \in Pids /\ proc[pid] = "free"
               /\ Running' = Running \cup {j} /\ scripts'[j].pid = pid
               /\ runningScripts' = runningScripts + 1 /\ runningScripts < MAX_RUNNING
               /\ proc' = [proc EXCEPT ![pid] = "child"]
         /\ j \in Pending /\ \A k \in Pending : j <= k
         /\ seen' = j /\ pc = "run" /\ UNCHANGED <<scheduled, pc, nowt, now>>
<1>1. /\ j \in Pending /\ (\A k \in Pending : j <= k)
      /\ seen' = j /\ pc = "run" /\ UNCHANGED <<scheduled, pc, nowt, now>>
      /\ runningScripts < MAX_RUNNING
  BY DEF RunPending, SlotFree, First
<1>2. ~scripts[j].running /\ j \notin Running
  BY <1>1 DEF Pending, Running
<1>3. /\ scripts[j] \in JobType /\ nowt \in Nat
      /\ addRetryCount(scripts[j].retryCount) \in 0..MaxCount
      /\ addRetryCount(scripts[j].retryCount) > 0
  BY ScriptAssumption DEF TypeOK, JobType, addRetryCount
<1>4. CASE pid = -1
  <2> DEFINE failed == [scripts[j] EXCEPT !.startTime = nowt, !.pid = 0,
                                          !.retryCount = addRetryCount(@)]
  <2>1. /\ scripts' = [scripts EXCEPT ![j].startTime = nowt, ![j].pid = 0,
                                      ![j].retryCount = addRetryCount(@)]
        /\ runningScripts' = runningScripts /\ proc' = proc
    BY <1>4 DEF RunPending, SlotFree
  <2>2. /\ DOMAIN scripts' = DOMAIN scripts
        /\ \A k \in DOMAIN scripts : k # j => scripts'[k] = scripts[k]
        /\ scripts'[j] = failed
    BY <2>1, <1>3 DEF JobType
  <2>3. /\ failed \in JobType /\ ~failed.running /\ failed.retryCount > 0
    BY <1>2, <1>3 DEF JobType
  <2>4. scripts' \in [DOMAIN scripts' -> JobType]
    BY <2>1, <2>2, <2>3 DEF TypeOK
  <2>5. Running' = Running
    BY <1>2, <2>2, <2>3 DEF Running
  <2>6. QED
    BY <1>1, <1>2, <1>4, <2>1, <2>2, <2>3, <2>4, <2>5
<1>5. CASE pid # -1
  <2> DEFINE started == [scripts[j] EXCEPT !.running = TRUE, !.pid = pid, !.startTime = nowt,
                                           !.retryCount = addRetryCount(@)]
  <2>1. /\ scripts' = [scripts EXCEPT ![j].running = TRUE, ![j].pid = pid, ![j].startTime = nowt,
                                      ![j].retryCount = addRetryCount(@)]
        /\ runningScripts' = runningScripts + 1 /\ proc[pid] = "free"
        /\ proc' = [proc EXCEPT ![pid] = "child"] /\ pid \in Pids
    BY <1>5 DEF RunPending, SlotFree
  <2>2. /\ DOMAIN scripts' = DOMAIN scripts
        /\ \A k \in DOMAIN scripts : k # j => scripts'[k] = scripts[k]
        /\ scripts'[j] = started
    BY <2>1, <1>3 DEF JobType
  <2>3. /\ started \in JobType /\ started.running /\ started.retryCount > 0
        /\ started.pid = pid
    BY <2>1, <1>3 DEF JobType
  <2>4. scripts' \in [DOMAIN scripts' -> JobType]
    BY <2>1, <2>2, <2>3 DEF TypeOK
  <2>5. Running' = Running \cup {j}
    BY <1>2, <2>2, <2>3 DEF Running
  <2>6. QED
    BY <1>1, <1>2, <2>1, <2>2, <2>3, <2>4, <2>5
<1>6. QED
  BY <1>4, <1>5

(* Every other step leaves the queue alone and turns no process into a     *)
(* child.                                                                  *)
LEMMA OtherSteps ==
  ASSUME TypeOK,
         \/ Timer \/ RunPendingEnds \/ CollectEnds \/ KillTimedout \/ World
         \/ \E p \in Pids, ending \in Endings : CollectTerminated(p, ending)
         \/ UNCHANGED vars
  PROVE  /\ UNCHANGED <<scripts, runningScripts, scheduled>>
         /\ pc' \in Places /\ nowt' \in Times /\ now' \in Times
         /\ seen' \in 0..MaxJobs
         /\ (pc' = "run") => (pc = "run" /\ seen' = seen) \/ seen' = 0
         /\ proc' \in [Pids -> ProcType]
         /\ \A p \in Pids : proc'[p] \in {"child", "zombie"} => proc[p] \in {"child", "zombie"}
<1> DEFINE NoNewChild ==
      \A p \in Pids : proc'[p] \in {"child", "zombie"} => proc[p] \in {"child", "zombie"}
<1>1. 0 \in 0..MaxJobs
  BY ScriptAssumption
<1>2. CASE Timer \/ RunPendingEnds \/ CollectEnds \/ UNCHANGED vars
  BY <1>1, <1>2 DEF Timer, RunPendingEnds, CollectEnds, TypeOK, vars, Places
<1>3. CASE KillTimedout
  <2>1. proc' \in [Pids -> ProcType] /\ NoNewChild
    BY <1>3 DEF KillTimedout, TypeOK, ProcType
  <2>2. QED
    BY <1>3, <2>1 DEF KillTimedout, TypeOK, Places
<1>4. CASE World
  <2>1. proc' \in [Pids -> ProcType] /\ NoNewChild
    BY <1>4 DEF World, ChildEnds, OthersRun, Changes, TypeOK, ProcType
  <2>2. QED
    BY <1>4, <2>1 DEF World, TypeOK
<1>5. ASSUME NEW p \in Pids, NEW ending, CollectTerminated(p, ending)
      PROVE  /\ UNCHANGED <<scripts, runningScripts, scheduled, pc, nowt, now, seen>>
             /\ proc' \in [Pids -> ProcType] /\ NoNewChild
  BY <1>5, CollectOnlyReaps DEF TypeOK, ProcType
<1>6. QED
  BY <1>2, <1>3, <1>4, <1>5 DEF TypeOK

-----------------------------------------------------------------------------
(* The order: a job that was never tried is due at once, so the loop comes *)
(* to it before any later one, and is never past it without having tried.  *)
NewIsDue == \A j \in DOMAIN scripts :
              scripts[j].retryCount = 0 => ~scripts[j].running /\ scripts[j].startTime = 0

PastIsTried == pc = "run" =>
                 \A j \in DOMAIN scripts : j <= seen => scripts[j].retryCount > 0

Order == NewIsDue /\ PastIsTried /\ InOrderOfEvents

Counts == RunningCounted /\ QueueBounded /\ ChildrenTracked

ScriptInv == TypeOK /\ Counts /\ Order

LEMMA ScriptInit == Init => ScriptInv
<1> SUFFICES ASSUME Init PROVE ScriptInv
  OBVIOUS
<1>1. DOMAIN scripts = {} /\ Running = {} /\ Cardinality({}) = 0
  BY FS_EmptySet DEF Init, Running
<1>2. TypeOK
  <2>1. scripts \in [DOMAIN scripts -> JobType]
    BY DEF Init
  <2>2. proc \in [Pids -> ProcType]
    BY DEF Init, ProcType
  <2>3. /\ runningScripts \in 0..MAX_RUNNING /\ scheduled \in 0..MaxJobs
        /\ nowt \in Times /\ now \in Times /\ seen \in 0..MaxJobs /\ pc \in Places
    BY ScriptAssumption DEF Init, Places
  <2>4. QED
    BY <1>1, <2>1, <2>2, <2>3 DEF TypeOK
<1>3. Counts
  <2>1. RunningCounted /\ QueueBounded
    BY <1>1, ScriptAssumption DEF Init, RunningCounted, QueueBounded
  <2>2. ChildrenTracked
    BY DEF Init, ChildrenTracked
  <2>3. QED
    BY <2>1, <2>2 DEF Counts
<1>4. Order
  BY <1>1 DEF Order, NewIsDue, PastIsTried, InOrderOfEvents
<1>5. QED
  BY <1>2, <1>3, <1>4 DEF ScriptInv

LEMMA ScriptSchedule == ScriptInv /\ scheduleScriptExecution => ScriptInv'
<1> SUFFICES ASSUME ScriptInv, scheduleScriptExecution PROVE ScriptInv'
  OBVIOUS
<1> DEFINE new == scheduled + 1
<1>1. TypeOK /\ Counts /\ Order /\ QueueBounded
  BY DEF ScriptInv, Counts
<1>2. /\ scheduled' = new /\ scheduled' \in 0..MaxJobs
      /\ DOMAIN scripts' \subseteq DOMAIN scripts \cup {new}
      /\ \A j \in DOMAIN scripts' :
           scripts'[j] = IF j = new THEN NewJob ELSE scripts[j]
      /\ scripts' \in [DOMAIN scripts' -> JobType]
      /\ Running' = Running /\ \A j \in Running : j \in DOMAIN scripts'
      /\ Cardinality(DOMAIN scripts') <= MAX_QUEUE
      /\ pc = "idle" /\ pc' \in {"idle", "crashed"}
      /\ UNCHANGED <<runningScripts, nowt, seen, now, proc>>
  BY <1>1, ScheduleEffect
<1>3. scheduled \in Nat /\ DOMAIN scripts \subseteq 1..scheduled /\ new \notin DOMAIN scripts
  BY <1>1, ScriptAssumption DEF TypeOK
<1>4. TypeOK'
  <2>1. DOMAIN scripts' \subseteq 1..scheduled'
    BY <1>2, <1>3
  <2>2. QED
    BY <1>1, <1>2, <2>1 DEF TypeOK, Places
<1>5. Counts'
  <2>1. RunningCounted' /\ QueueBounded'
    BY <1>1, <1>2 DEF Counts, RunningCounted, QueueBounded
  <2>2. ASSUME NEW p \in Pids, proc'[p] \in {"child", "zombie"} PROVE NodesByPid(p)' # {}
    <3>1. PICK j \in Running : scripts[j].pid = p
      BY <1>1, <1>2, <2>2 DEF Counts, ChildrenTracked, NodesByPid
    <3>2. j \in Running' /\ scripts'[j] = scripts[j]
      BY <3>1, <1>2, <1>3 DEF Running
    <3>3. QED
      BY <3>1, <3>2 DEF NodesByPid
  <2>3. QED
    BY <2>1, <2>2 DEF Counts, ChildrenTracked
<1>6. Order'
  <2>1. NewIsDue'
    BY <1>1, <1>2 DEF Order, NewIsDue, NewJob
  <2>2. PastIsTried'
    BY <1>2 DEF PastIsTried
  <2>3. ASSUME NEW j \in DOMAIN scripts', NEW k \in DOMAIN scripts',
               j < k, scripts'[k].retryCount > 0
        PROVE  scripts'[j].retryCount > 0
    <3>1. k # new
      BY <1>2, <2>3 DEF NewJob
    <3>2. k \in DOMAIN scripts /\ k \in 1..scheduled /\ scripts'[k] = scripts[k]
      BY <3>1, <1>2, <1>3
    <3>3. j # new
      BY <3>2, <2>3, <1>3
    <3>4. j \in DOMAIN scripts /\ scripts'[j] = scripts[j]
      BY <3>3, <1>2
    <3>5. QED
      BY <3>2, <3>4, <2>3, <1>1 DEF Order, InOrderOfEvents
  <2>4. QED
    BY <2>1, <2>2, <2>3 DEF Order, InOrderOfEvents
<1>7. QED
  BY <1>4, <1>5, <1>6 DEF ScriptInv

LEMMA ScriptRun ==
  ASSUME ScriptInv, NEW j \in DOMAIN scripts, NEW pid \in Pids \cup {-1}, RunPending(j, pid)
  PROVE  ScriptInv'
<1>1. TypeOK /\ Counts /\ Order
  BY DEF ScriptInv
<1>2. /\ DOMAIN scripts' = DOMAIN scripts
      /\ \A k \in DOMAIN scripts : k # j => scripts'[k] = scripts[k]
      /\ scripts'[j].retryCount > 0
      /\ scripts' \in [DOMAIN scripts' -> JobType]
      /\ j \notin Running
      /\ \/ /\ pid = -1
            /\ Running' = Running /\ runningScripts' = runningScripts /\ proc' = proc
         \/ /\ pid \in Pids /\ proc[pid] = "free"
            /\ Running' = Running \cup {j} /\ scripts'[j].pid = pid
            /\ runningScripts' = runningScripts + 1 /\ runningScripts < MAX_RUNNING
            /\ proc' = [proc EXCEPT ![pid] = "child"]
      /\ j \in Pending /\ \A k \in Pending : j <= k
      /\ seen' = j /\ pc = "run" /\ UNCHANGED <<scheduled, pc, nowt, now>>
  BY <1>1, RunEffect
<1>3. /\ runningScripts \in Nat /\ seen \in Nat /\ nowt \in Nat /\ scheduled \in Nat
      /\ scheduled <= MaxJobs /\ DOMAIN scripts \subseteq 1..scheduled
  BY <1>1, ScriptAssumption DEF TypeOK
<1>4. TypeOK'
  <2>1. runningScripts' \in 0..MAX_RUNNING
    BY <1>1, <1>2, <1>3, ScriptAssumption DEF TypeOK
  <2>2. proc' \in [Pids -> ProcType]
    BY <1>1, <1>2 DEF TypeOK, ProcType
  <2>3. seen' \in 0..MaxJobs
    BY <1>2, <1>3, ScriptAssumption
  <2>4. QED
    BY <1>1, <1>2, <2>1, <2>2, <2>3 DEF TypeOK
<1>5. Counts'
  <2>1. RunningCounted'
    <3>1. IsFiniteSet(Running) /\ runningScripts = Cardinality(Running)
          /\ runningScripts <= MAX_RUNNING
      BY <1>1, FiniteQueue DEF Counts, RunningCounted
    <3>2. Cardinality(Running \cup {j}) = Cardinality(Running) + 1
      BY <3>1, <1>2, FS_AddElement
    <3>3. CASE Running' = Running /\ runningScripts' = runningScripts
      <4>1. Cardinality(Running') = Cardinality(Running)
        BY <3>3
      <4>2. QED
        BY <3>1, <3>3, <4>1 DEF RunningCounted
    <3>4. CASE /\ Running' = Running \cup {j} /\ runningScripts' = runningScripts + 1
               /\ runningScripts < MAX_RUNNING
      <4>1. Cardinality(Running') = runningScripts'
        BY <3>1, <3>2, <3>4
      <4>2. runningScripts' <= MAX_RUNNING
        BY <3>4, <1>3, ScriptAssumption
      <4>3. QED
        BY <4>1, <4>2 DEF RunningCounted
    <3>5. QED
      BY <3>3, <3>4, <1>2
  <2>2. QueueBounded'
    BY <1>1, <1>2 DEF Counts, QueueBounded
  <2>3. ASSUME NEW p \in Pids, proc'[p] \in {"child", "zombie"} PROVE NodesByPid(p)' # {}
    <3>1. CASE proc[p] \in {"child", "zombie"}
      <4>1. PICK k \in Running : scripts[k].pid = p
        BY <1>1, <3>1 DEF Counts, ChildrenTracked, NodesByPid
      <4>2. k \in Running' /\ scripts'[k] = scripts[k]
        BY <4>1, <1>2 DEF Running
      <4>3. QED
        BY <4>1, <4>2 DEF NodesByPid
    <3>2. CASE proc[p] \notin {"child", "zombie"}
      <4>1. p = pid /\ Running' = Running \cup {j} /\ scripts'[j].pid = pid
        BY <3>2, <2>3, <1>1, <1>2 DEF TypeOK
      <4>2. QED
        BY <4>1 DEF NodesByPid
    <3>3. QED
      BY <3>1, <3>2
  <2>4. QED
    BY <2>1, <2>2, <2>3 DEF Counts, ChildrenTracked
<1>6. Order'
  <2>1. NewIsDue'
    <3>1. ASSUME NEW k \in DOMAIN scripts, scripts'[k].retryCount = 0
          PROVE  k # j
      BY <3>1, <1>2
    <3>2. QED
      BY <3>1, <1>1, <1>2 DEF Order, NewIsDue
  <2>2. ASSUME NEW k \in DOMAIN scripts, k <= j PROVE scripts'[k].retryCount > 0
    <3>1. CASE k = j
      BY <3>1, <1>2
    <3>2. CASE k # j /\ scripts[k].retryCount > 0
      BY <3>2, <1>2
    <3>3. CASE k # j /\ ~(scripts[k].retryCount > 0)
      <4>1. scripts[k].retryCount = 0
        BY <3>3, <1>1, ScriptAssumption DEF TypeOK, JobType
      <4>2. ~scripts[k].running /\ scripts[k].startTime <= nowt
        BY <4>1, <1>1, <1>3 DEF Order, NewIsDue
      <4>3. ~(k <= seen)
        BY <3>3, <1>1, <1>2 DEF Order, PastIsTried
      <4>4. k \in Int /\ j \in Int
        BY <1>3
      <4>5. k \in Pending
        BY <4>2, <4>3, <4>4, <1>3 DEF Pending
      <4>6. QED
        BY <4>4, <4>5, <3>3, <2>2, <1>2
    <3>4. QED
      BY <3>1, <3>2, <3>3
  <2>3. PastIsTried'
    BY <2>2, <1>2 DEF PastIsTried
  <2>4. ASSUME NEW i \in DOMAIN scripts', NEW k \in DOMAIN scripts',
               i < k, scripts'[k].retryCount > 0
        PROVE  scripts'[i].retryCount > 0
    <3>1. i \in Int /\ k \in Int
      BY <1>2, <1>3
    <3>2. CASE k = j
      BY <3>1, <3>2, <2>2, <2>4, <1>2
    <3>3. CASE i = j
      BY <3>3, <1>2
    <3>4. CASE k # j /\ i # j
      BY <3>4, <2>4, <1>1, <1>2 DEF Order, InOrderOfEvents
    <3>5. QED
      BY <3>2, <3>3, <3>4
  <2>5. QED
    BY <2>1, <2>3, <2>4 DEF Order, InOrderOfEvents
<1>7. QED
  BY <1>4, <1>5, <1>6 DEF ScriptInv

LEMMA ScriptOther ==
  ASSUME ScriptInv,
         \/ Timer \/ RunPendingEnds \/ CollectEnds \/ KillTimedout \/ World
         \/ \E p \in Pids, ending \in Endings : CollectTerminated(p, ending)
         \/ UNCHANGED vars
  PROVE  ScriptInv'
<1>1. TypeOK /\ Counts /\ Order
  BY DEF ScriptInv
<1>2. /\ UNCHANGED <<scripts, runningScripts, scheduled>>
      /\ pc' \in Places /\ nowt' \in Times /\ now' \in Times
      /\ seen' \in 0..MaxJobs
      /\ (pc' = "run") => (pc = "run" /\ seen' = seen) \/ seen' = 0
      /\ proc' \in [Pids -> ProcType]
      /\ \A p \in Pids : proc'[p] \in {"child", "zombie"} => proc[p] \in {"child", "zombie"}
  BY <1>1, OtherSteps
<1>3. TypeOK'
  BY <1>1, <1>2 DEF TypeOK
<1>4. Counts'
  <2>1. Running' = Running
    BY <1>2 DEF Running
  <2>2. RunningCounted' /\ QueueBounded'
    BY <1>1, <1>2, <2>1 DEF Counts, RunningCounted, QueueBounded
  <2>3. ChildrenTracked'
    BY <1>1, <1>2, <2>1 DEF Counts, ChildrenTracked, NodesByPid
  <2>4. QED
    BY <2>2, <2>3 DEF Counts
<1>5. Order'
  <2>1. NewIsDue' /\ InOrderOfEvents'
    BY <1>1, <1>2 DEF Order, NewIsDue, InOrderOfEvents
  <2>2. PastIsTried'
    <3>1. CASE seen' = 0
      <4>1. ASSUME NEW k \in DOMAIN scripts PROVE ~(k <= 0)
        BY <1>1, ScriptAssumption DEF TypeOK
      <4>2. QED
        BY <3>1, <4>1, <1>2 DEF PastIsTried
    <3>2. CASE pc = "run" /\ seen' = seen
      BY <3>2, <1>1, <1>2 DEF Order, PastIsTried
    <3>3. CASE pc' # "run"
      BY <3>3 DEF PastIsTried
    <3>4. QED
      BY <3>1, <3>2, <3>3, <1>2
  <2>3. QED
    BY <2>1, <2>2 DEF Order
<1>6. QED
  BY <1>3, <1>4, <1>5 DEF ScriptInv

LEMMA ScriptInvariant == Spec => []ScriptInv
<1>1. ScriptInv /\ [Next]_vars => ScriptInv'
  BY ScriptSchedule, ScriptRun, ScriptOther DEF Next, TimerStep
<1>2. QED
  BY <1>1, ScriptInit, PTL DEF Spec

-----------------------------------------------------------------------------
(* The queue, the counter and the process table keep their types.          *)
THEOREM ScriptTypes == Spec => []TypeOK
<1>1. ScriptInv => TypeOK
  BY DEF ScriptInv
<1>2. QED
  BY <1>1, ScriptInvariant, PTL

(* The counter equals the number of jobs marked running, within its limit, *)
(* for every number of slots.                                              *)
THEOREM SlotsAreCounted == Spec => []RunningCounted
<1>1. ScriptInv => RunningCounted
  BY DEF ScriptInv, Counts
<1>2. QED
  BY <1>1, ScriptInvariant, PTL

(* The queue never stays longer than MAX_QUEUE, whatever is running.       *)
THEOREM QueueIsBounded == Spec => []QueueBounded
<1>1. ScriptInv => QueueBounded
  BY DEF ScriptInv, Counts
<1>2. QED
  BY <1>1, ScriptInvariant, PTL

(* Slots and places are counted right together.                            *)
THEOREM QueueIsCounted == Spec => []QueueCounted
<1>1. ScriptInv => QueueCounted
  BY DEF ScriptInv, Counts, QueueCounted
<1>2. QED
  BY <1>1, ScriptInvariant, PTL

(* No child is without a running job in the queue.                         *)
THEOREM ChildrenAreTracked == Spec => []ChildrenTracked
<1>1. ScriptInv => ChildrenTracked
  BY DEF ScriptInv, Counts
<1>2. QED
  BY <1>1, ScriptInvariant, PTL

(* No script is tried before one that was scheduled earlier.               *)
THEOREM TriedInOrder == Spec => []InOrderOfEvents
<1>1. ScriptInv => InOrderOfEvents
  BY DEF ScriptInv, Order
<1>2. QED
  BY <1>1, ScriptInvariant, PTL
=============================================================================
