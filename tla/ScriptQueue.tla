---------------------------- MODULE ScriptQueue ----------------------------
(***************************************************************************)
(* The queue of notification and reconfiguration scripts of FlySentinel    *)
(* (flysentinel/FlySentinel.cpp, scriptjob/ScriptJob.cpp): scheduling, the *)
(* three passes that timer() makes over it, and the child processes.       *)
(*                                                                         *)
(* A job is named by the number under which it was scheduled.  Jobs are    *)
(* only pushed at the back of scriptsQueue, so the order of the list is    *)
(* the order of these numbers, and the list is a function from the numbers *)
(* in it to what the ScriptJob holds.  Time is a small number that the     *)
(* system clock may set to anything; children run beside the process.      *)
(***************************************************************************)
EXTENDS Integers, FiniteSets

CONSTANTS
  MAX_QUEUE,     \* SENTINEL_SCRIPT_MAX_QUEUE
  MAX_RUNNING,   \* SENTINEL_SCRIPT_MAX_RUNNING
  MAX_RETRY,     \* SENTINEL_SCRIPT_MAX_RETRY
  RETRY_DELAY,   \* SENTINEL_SCRIPT_RETRY_DELAY
  MAX_RUNTIME,   \* SENTINEL_SCRIPT_MAX_RUNTIME
  TimeMod,       \* 2^64: times are uint64_t
  Pids,          \* what fork may return; 1 is init
  Times,         \* bound: the values mstime() takes
  MaxJobs,       \* bound: jobs scheduled in a behaviour
  MaxCount       \* bound: where the model stops counting retryCount

(* A child never has the pid 1 of init. *)
ASSUME ScriptAssumption ==
  /\ MAX_QUEUE \in Nat /\ MAX_RUNNING \in Nat
  /\ MAX_RETRY \in Nat /\ RETRY_DELAY \in Nat /\ MAX_RUNTIME \in Nat
  /\ TimeMod \in Nat \ {0}
  /\ Pids \subseteq Nat \ {0, 1}
  /\ Times \subseteq Nat /\ 0 \in Times
  /\ MaxJobs \in Nat
  /\ MaxCount \in Nat /\ MAX_RETRY < MaxCount

VARIABLES
  scripts,         \* scriptsQueue: the fields of each job in it
  runningScripts,  \* the counter of running scripts
  scheduled,       \* how many jobs were scheduled so far
  pc,              \* where the process is: see Places
  nowt,            \* the local nowt of runPendingScripts
  seen,            \* the job that the loop of runPendingScripts is past
  now,             \* the system clock
  proc             \* the process table

vars == <<scripts, runningScripts, scheduled, pc, nowt, seen, now, proc>>

(* "idle" outside timer(); one place for each pass of timer(). *)
Places   == {"idle", "run", "collect", "kill", "crashed"}
(* A zombie is a child that ended and was not waited for yet.              *)
ProcType == {"free", "child", "zombie", "other"}
(* How a child ends.  argv[0] is the address of a std::string, so execve   *)
(* fails and exit(2) follows, unless a signal comes first.                 *)
Endings  == {"signal", "exit2"}

JobType == [running : BOOLEAN, retryCount : 0..MaxCount,
            startTime : Nat, pid : Pids \cup {0}]
NewJob  == [running |-> FALSE, retryCount |-> 0, startTime |-> 0, pid |-> 0]
Running == {j \in DOMAIN scripts : scripts[j].running}
-----------------------------------------------------------------------------
(* Helpers *)

LastOf(j, S) == j \in S /\ \A k \in S : k <= j   \* mutant of First

First(j, S) == j \in S /\ \A k \in S : j <= k

Erase(j) == [k \in DOMAIN scripts \ {j} |-> scripts[k]]

(* getScriptListNodeByPid: the jobs it may find, of which it takes the first *)
NodesByPid(pid) == {j \in Running : scripts[j].pid = pid}

(* deleteScriptJob: it erases by pid alone, and counts down in any case. *)
deleteScriptJob(pid) ==
  LET same == {j \in DOMAIN scripts : scripts[j].pid = pid}
  IN /\ IF same = {} THEN UNCHANGED scripts
        ELSE \E j \in same : First(j, same) /\ scripts' = Erase(j)
     /\ runningScripts' = runningScripts - 1

(* Nothing limits the retries of a failed fork().  No two counts above     *)
(* MAX_RETRY are told apart, so the model stops at MaxCount.               *)
addRetryCount(count) == IF count < MaxCount THEN count + 1 ELSE count

retryDelay(count) ==
  IF count <= 1 THEN RETRY_DELAY ELSE RETRY_DELAY * 2 ^ (count - 1)

reschedule(j) ==
  scripts' = [scripts EXCEPT
                ![j].running = FALSE, ![j].pid = 0,
                ![j].startTime = now + retryDelay(scripts[j].retryCount)]

(* The value that "pid = wait3(...) > 0" gives to pid. *)
waited(pid) == IF pid > 0 THEN 1 ELSE 0

(* nowt - startTime, unsigned *)
Elapsed(j) == (now - scripts[j].startTime) % TimeMod
-----------------------------------------------------------------------------
Init ==
  /\ scripts = [j \in {} |-> NewJob]
  /\ runningScripts = 0
  /\ scheduled = 0
  /\ pc = "idle" /\ nowt = 0 /\ seen = 0
  /\ now = 0
  /\ proc = [p \in Pids |-> "free"]

(* MAX_QUEUE and MAX_RUNNING, as the code compares with them; the jobs of a *)
(* queue that may be dropped.  Each has its mutant: the size taken before   *)
(* the push, a limit off by one, a job dropped whether it runs or not.      *)
TooLongBefore(queue) == Cardinality(queue) - 1 > MAX_QUEUE
TooLong(queue)       == Cardinality(queue) > MAX_QUEUE

SlotFreeOrOne == runningScripts <= MAX_RUNNING
SlotFree      == runningScripts < MAX_RUNNING

Droppable(queue) == DOMAIN queue
Evictable(queue) == {j \in DOMAIN queue : ~queue[j].running}

(* scheduleScriptExecution: push, then drop the first job that is not      *)
(* running if the queue is too long.  ~ScriptJob looks for the NULL that   *)
(* nobody put behind the arguments: it may free garbage and crash.         *)
scheduleScriptExecution ==
  LET new    == scheduled + 1
      queue  == DOMAIN scripts \cup {new}
      pushed == [j \in queue |-> IF j = new THEN NewJob ELSE scripts[j]]
      idle   == Evictable(pushed)
  IN /\ pc = "idle"
     /\ scheduled < MaxJobs
     /\ scheduled' = new
     /\ IF TooLong(queue) /\ idle # {}
        THEN /\ \E j \in idle :
                  /\ First(j, idle)
                  /\ scripts' = [k \in queue \ {j} |-> pushed[k]]
             /\ pc' \in {"idle", "crashed"}
        ELSE scripts' = pushed /\ UNCHANGED pc
     /\ UNCHANGED <<runningScripts, nowt, seen, now, proc>>

(* timer() begins runPendingScripts. *)
Timer ==
  /\ pc = "idle"
  /\ pc' = "run" /\ nowt' = now /\ seen' = 0
  /\ UNCHANGED <<scripts, runningScripts, scheduled, now, proc>>

(* The jobs that the loop has still to come to and will not skip; mutant:  *)
(* a job that is due this very moment is skipped.                          *)
PendingBefore == {j \in DOMAIN scripts :
                    /\ j > seen
                    /\ ~scripts[j].running
                    /\ scripts[j].startTime < nowt}

Pending == {j \in DOMAIN scripts :
              /\ j > seen
              /\ ~scripts[j].running
              /\ scripts[j].startTime <= nowt}

(* One turn of the loop: fork() fails (-1), or gives a pid. *)
RunPending(j, pid) ==
  /\ pc = "run"
  /\ SlotFree
  /\ First(j, Pending)
  /\ seen' = j
  /\ IF pid = -1
     THEN /\ scripts' = [scripts EXCEPT ![j].startTime = nowt, ![j].pid = 0,
                                        ![j].retryCount = addRetryCount(@)]
          /\ UNCHANGED <<runningScripts, proc>>
     ELSE /\ proc[pid] = "free"
          /\ scripts' = [scripts EXCEPT ![j].running = TRUE, ![j].pid = pid,
                           ![j].startTime = nowt, ![j].retryCount = addRetryCount(@)]
          /\ runningScripts' = runningScripts + 1
          /\ proc' = [proc EXCEPT ![pid] = "child"]
  /\ UNCHANGED <<scheduled, pc, nowt, now>>

(* The loop ends, or returns because MAX_RUNNING scripts run. *)
RunPendingEnds ==
  /\ pc = "run"
  /\ Pending = {} \/ ~SlotFree
  /\ pc' = "collect"
  /\ UNCHANGED <<scripts, runningScripts, scheduled, nowt, seen, now, proc>>

(* collectTerminatedScripts: wait3 reaps the child p. *)
CollectTerminated(p, ending) ==
  LET pid  == waited(p)
      jobs == NodesByPid(pid)
  IN /\ pc = "collect"
     /\ proc[p] = "zombie"
     /\ proc' = [proc EXCEPT ![p] = "free"]
     /\ IF jobs = {} THEN UNCHANGED <<scripts, runningScripts>>
        ELSE \E j \in jobs :
               /\ First(j, jobs)
               /\ IF ending = "signal" /\ scripts[j].retryCount < MAX_RETRY
                  THEN reschedule(j) /\ UNCHANGED runningScripts
                  ELSE deleteScriptJob(pid)
     /\ UNCHANGED <<scheduled, pc, nowt, seen, now>>

(* wait3 finds no terminated child. *)
CollectEnds ==
  /\ pc = "collect"
  /\ \A p \in Pids : proc[p] # "zombie"
  /\ pc' = "kill"
  /\ UNCHANGED <<scripts, runningScripts, scheduled, nowt, seen, now, proc>>

(* killTimedoutScripts sends SIGKILL to the pid of every job past its time, *)
(* whatever has that pid by now; the end of timer().                        *)
KillTimedout ==
  LET late   == {j \in Running : Elapsed(j) > MAX_RUNTIME}
      killed == {scripts[j].pid : j \in late}
  IN /\ pc = "kill"
     /\ proc' = [p \in Pids |->
                   IF p \notin killed THEN proc[p]
                   ELSE CASE proc[p] = "child" -> "zombie"
                          [] proc[p] = "other" -> "free"
                          [] OTHER -> proc[p]]
     /\ pc' = "idle"
     /\ UNCHANGED <<scripts, runningScripts, scheduled, nowt, seen, now>>

(* The world outside: children end, other processes come and go and may    *)
(* get a pid that was used before, and the clock moves, also backwards.    *)
Changes(from, to) ==
  {[proc EXCEPT ![p] = to] : p \in {q \in Pids : proc[q] = from}}

ChildEnds == proc' \in Changes("child", "zombie")
OthersRun == proc' \in Changes("free", "other") \cup Changes("other", "free")

World ==
  /\ pc # "crashed"
  /\ \/ (ChildEnds \/ OthersRun) /\ UNCHANGED now
     \/ now' \in Times \ {now} /\ UNCHANGED proc
  /\ UNCHANGED <<scripts, runningScripts, scheduled, pc, nowt, seen>>

TimerStep ==
  \/ Timer
  \/ \E j \in DOMAIN scripts, pid \in Pids \cup {-1} : RunPending(j, pid)
  \/ RunPendingEnds
  \/ \E p \in Pids, ending \in Endings : CollectTerminated(p, ending)
  \/ CollectEnds
  \/ KillTimedout

Next == scheduleScriptExecution \/ TimerStep \/ World

Spec == Init /\ [][Next]_vars

(* The event loop calls timer() again and again, and timer() goes on to    *)
(* its end: no call in it blocks (wait3 is called with WNOHANG).           *)
FairSpec == Spec /\ WF_vars(TimerStep)
-----------------------------------------------------------------------------
(* Properties *)

(* Type invariant: the shape of the queue, the counter and the processes.  *)
TypeOK ==
  /\ DOMAIN scripts \subseteq 1..scheduled
  /\ scripts \in [DOMAIN scripts -> JobType]
  /\ runningScripts \in 0..MAX_RUNNING
  /\ scheduled \in 0..MaxJobs
  /\ pc \in Places
  /\ nowt \in Times /\ now \in Times /\ seen \in 0..MaxJobs
  /\ proc \in [Pids -> ProcType]

(* runningScripts, kept up by hand in three places, is the number of jobs  *)
(* marked running: no slot is lost by an eviction or a failed fork, and    *)
(* never more than MAX_RUNNING scripts run.                                *)
RunningCounted ==
  /\ runningScripts = Cardinality(Running)
  /\ runningScripts <= MAX_RUNNING

(* The queue is cut back to MAX_QUEUE although running jobs are never      *)
(* evicted: there is always one that does not run.                         *)
QueueBounded == Cardinality(DOMAIN scripts) <= MAX_QUEUE

(* The slots and the places of the queue are both counted right, through   *)
(* evictions and failed forks.                                             *)
QueueCounted == RunningCounted /\ QueueBounded

(* No child runs or waits to be reaped without a running job in the queue  *)
(* that holds its pid: evicting a job never abandons a script.             *)
ChildrenTracked ==
  \A p \in Pids : proc[p] \in {"child", "zombie"} => NodesByPid(p) # {}

(* Scripts are tried in the order of the events that scheduled them, also  *)
(* across failed forks, evictions and a clock that is set back.            *)
InOrderOfEvents ==
  \A j, k \in DOMAIN scripts :
    (j < k /\ scripts[k].retryCount > 0) => scripts[j].retryCount > 0

(* Every scheduled script is tried, unless newer ones push it out or all   *)
(* MAX_RUNNING slots are taken.                                            *)
EveryScriptTried ==
  \A j \in 1..MaxJobs :
    (j \in DOMAIN scripts)
      ~> \/ j \notin DOMAIN scripts
         \/ scripts[j].retryCount > 0
         \/ runningScripts >= MAX_RUNNING
         \/ pc = "crashed"

(* FlySentinel.cpp:290-294 says that collectTerminatedScripts removes the  *)
(* scripts that ended, or schedules them again.  So when it is done, each  *)
(* running job has a child that runs, or ended only just now.              *)
TerminatedCollected ==
  pc = "kill" =>
    \A j \in Running : proc[scripts[j].pid] \in {"child", "zombie"}

(* FlySentinel.cpp:327 says that killTimedoutScripts kills the jobs that   *)
(* are past their time: a process that it ends is a script, and by the     *)
(* clock its job began more than MAX_RUNTIME before.                       *)
KillsOnlyTimedout ==
  [][(pc = "kill" /\ pc' = "idle") =>
       \A p \in Pids : proc'[p] # proc[p] =>
         /\ proc[p] = "child"
         /\ \E j \in NodesByPid(p) : now - scripts[j].startTime > MAX_RUNTIME]_vars
=============================================================================
