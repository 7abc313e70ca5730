----------------------------- MODULE EventLoop -----------------------------
(***************************************************************************)
(* The event loop (event/EventLoop.cpp, FileEvent.cpp, TimeEvent.cpp,      *)
(* Select.cpp): file events, which select() watches, and time events.      *)
(* A turn polls, calls the handlers of the fds that are ready, in the      *)
(* order of the fds, and walks the list of timers.  A handler is any       *)
(* code of the program: it may register and delete file events, create     *)
(* timers and delete timers, and a timer is asked for again after a        *)
(* period or not.  ClientTable has the handlers of clients in full.        *)
(***************************************************************************)
EXTENDS Integers, Sequences, SequencesExt

CONSTANTS
  SetSize,     \* setSize: the fds are 0..SetSize - 1
  Listening,   \* the fds of ipfd
  Periods,     \* what a timeEventProc may return, when it wants to go on
  Second,      \* milliseconds of a second
  StartTime,   \* the time of the constructor
  MaxTime,     \* bound: the clock
  MaxTimerIds  \* bound: time events created in a behaviour

ASSUME EventLoopAssumption ==
  /\ SetSize \in Nat /\ MaxTime \in Nat /\ MaxTimerIds \in Nat
  /\ Listening \subseteq 0..(SetSize - 1)
  /\ Periods \subseteq Nat \ {0} /\ Second \in Nat \ {0} /\ StartTime \in Nat

VARIABLES
  fileEvents,  \* the mask of each fd
  watched,     \* rfds and wfds of the PollState
  maxfd,
  timeEvents,  \* the list, of records of id and when
  nextTimerId, \* timeEventNextId
  clock,       \* gettimeofday()
  lastTime,
  pollRes,     \* the events of this turn still to handle
  passTime,    \* nowt of processTimeEvents
  iter,        \* id of the timer its iterator stands on, or End
  needSort,
  due,         \* history: timers due in this pass that have not fired
  loop         \* "turn", "files", "timers" or "crashed"

fileVars  == <<fileEvents, watched, maxfd>>
timerVars == <<timeEvents, nextTimerId>>
passVars  == <<passTime, iter, needSort, due>>
eventLoopVars == <<fileVars, timerVars, passVars, clock, lastTime, pollRes, loop>>

EventFds == 0..(SetSize - 1)
ES       == {"READABLE", "WRITABLE"}
Masks    == SUBSET ES
End      == -1     \* timeEvents.end()
-----------------------------------------------------------------------------
(* File events                                                             *)

(* Mutant: maxfd only moves when the fd is the first.                      *)
HigherFirst(fd) == IF maxfd = -1 THEN fd ELSE maxfd
Higher(fd)      == IF maxfd < fd THEN fd ELSE maxfd

createFileEvent(fd, mask) ==
  /\ fileEvents' = [fileEvents EXCEPT ![fd] = @ \cup mask]
  /\ watched' = [watched EXCEPT ![fd] = @ \cup mask]
  /\ maxfd' = Higher(fd)

(* maxfd after the last event of the highest fd is gone: the next lower    *)
(* fd that has one; it stays when there is none.                           *)
NextLower(masks) ==
  LET used == {fd \in EventFds : fd < maxfd /\ masks[fd] # {}}
  IN IF used = {} THEN maxfd
     ELSE CHOOSE fd \in used : \A other \in used : other <= fd

(* An fd without events is refused.                                        *)
deleteFileEvent(fd, mask) ==
  IF fileEvents[fd] = {} THEN UNCHANGED fileVars
  ELSE /\ fileEvents' = [fileEvents EXCEPT ![fd] = @ \ mask]
       /\ watched' = [watched EXCEPT ![fd] = @ \ mask]
       /\ maxfd' = IF fd = maxfd /\ fileEvents'[fd] = {}
                   THEN NextLower(fileEvents') ELSE maxfd
-----------------------------------------------------------------------------
(* Time events                                                             *)

(* std::list::sort, which is stable, by TimeEvent::operator<.              *)
Before(list, i, j) ==
  list[i].when < list[j].when \/ (list[i].when = list[j].when /\ i < j)
Place(list, i) == Cardinality({j \in DOMAIN list : Before(list, j, i)}) + 1
Sorted(list)   == [k \in DOMAIN list |-> list[CHOOSE i \in DOMAIN list : Place(list, i) = k]]

(* createTimeEvent, whose time is absolute.                                *)
Pushed(when) == Sorted(<<[id |-> nextTimerId, when |-> when]>> \o timeEvents)

(* deleteTimeEvent                                                         *)
Where(list, id)   == CHOOSE i \in DOMAIN list : list[i].id = id
Without(list, id) == RemoveAt(list, Where(list, id))

Ids(list) == {list[i].id : i \in DOMAIN list}

(* The iterator after id in the list, and at its begin.                    *)
First(list) == IF list = << >> THEN End ELSE list[1].id
After(list, id) ==
  IF Where(list, id) = Len(list) THEN End ELSE list[Where(list, id) + 1].id
-----------------------------------------------------------------------------
(* The constructor of FileEvent does not set its mask; the vector, of more *)
(* elements than there may be clients, comes from fresh pages: it is 0.    *)
(* The first timer is due at the absolute time 1.                          *)
EventLoopInit ==
  /\ fileEvents = [fd \in EventFds |-> IF fd \in Listening THEN {"READABLE"} ELSE {}]
  /\ watched = fileEvents
  /\ maxfd = IF Listening = {} THEN -1
             ELSE CHOOSE fd \in Listening : \A other \in Listening : other <= fd
  /\ timeEvents = <<[id |-> 0, when |-> 1]>> /\ nextTimerId = 1
  /\ clock = StartTime /\ lastTime = StartTime
  /\ pollRes = [fd \in EventFds |-> {}]
  /\ passTime = 0 /\ iter = End /\ needSort = FALSE /\ due = {}
  /\ loop = "turn"

(* How long select() may wait: the milliseconds of the rest are passed as  *)
(* microseconds, so that only whole seconds count.                         *)
WaitFor(list) ==
  IF list = << >> THEN MaxTime
  ELSE IF list[1].when > clock THEN ((list[1].when - clock) \div Second) * Second
  ELSE 0

(* The first half of processEvents: select() returns with any of the       *)
(* events that it watches, up to maxfd, or with none.                      *)
Poll ==
  /\ loop = "turn"
  /\ \E t \in clock..MaxTime : t <= clock + WaitFor(timeEvents) /\ clock' = t
  /\ \E ready \in [EventFds -> Masks] :
       /\ \A fd \in EventFds :
            ready[fd] \subseteq (IF fd <= maxfd
                                 THEN watched[fd] \cap fileEvents[fd] ELSE {})
       /\ pollRes' = ready
  /\ loop' = "files"
  /\ UNCHANGED <<fileVars, timerVars, passVars, lastTime>>

(* What the handler of a file event may do to the loop.                    *)
FileHandlerActs ==
  \/ UNCHANGED fileVars
  \/ \E fd \in EventFds, mask \in Masks \ {{}} :
       createFileEvent(fd, mask) \/ deleteFileEvent(fd, mask)

(* FileEvent::process calls the handlers of the lowest fd that is left,    *)
(* for reading first, even when they were deleted in this turn.            *)
HandleFile ==
  /\ loop = "files"
  /\ \E fd \in EventFds, event \in ES :
       /\ event \in pollRes[fd]
       /\ \A lower \in EventFds : lower < fd => pollRes[lower] = {}
       /\ event = "WRITABLE" => "READABLE" \notin pollRes[fd]
       /\ pollRes' = [pollRes EXCEPT ![fd] = @ \ {event}]
  /\ FileHandlerActs
  /\ UNCHANGED <<timerVars, passVars, clock, lastTime, loop>>

(* The head of processTimeEvents. lastTime is set by the constructor only. *)
BeginTimers ==
  /\ loop = "files" /\ \A fd \in EventFds : pollRes[fd] = {}
  /\ passTime' = clock
  /\ timeEvents' = IF clock < lastTime
                   THEN [i \in DOMAIN timeEvents |-> [timeEvents[i] EXCEPT !.when = 0]]
                   ELSE timeEvents
  /\ due' = {timeEvents'[i].id : i \in {j \in DOMAIN timeEvents : timeEvents'[j].when < clock}}
  /\ iter' = First(timeEvents) /\ needSort' = FALSE
  /\ loop' = "timers"
  /\ UNCHANGED <<fileVars, nextTimerId, clock, lastTime, pollRes>>

When == timeEvents[Where(timeEvents, iter)].when

SkipTimer ==
  /\ loop = "timers" /\ iter # End
  /\ When >= passTime
  /\ iter' = After(timeEvents, iter)
  /\ UNCHANGED <<fileVars, timerVars, passTime, needSort, due, clock, lastTime, pollRes, loop>>

(* The lists that the handler of the timer at iter may leave: it creates a *)
(* timer, deletes another one, or does neither.                            *)
HandlerLeaves ==
  {timeEvents}
  \cup {Pushed(when) : when \in IF nextTimerId < MaxTimerIds THEN 0..MaxTime ELSE {}}
  \cup {Without(timeEvents, id) : id \in Ids(timeEvents) \ {iter}}

(* setWhen for the next period. Mutant: the list is sorted at once.        *)
Later(list, ret) ==
  [i \in DOMAIN list |-> IF list[i].id = iter
                         THEN [list[i] EXCEPT !.when = passTime + ret] ELSE list[i]]
AgainSorted(list, ret) == Sorted(Later(list, ret))
Again(list, ret)       == Later(list, ret)

(* A due timer fires. It asks for another period, or it is deleted; then   *)
(* the iterator is advanced from the node that was freed, which leads to   *)
(* what was the next one, or nowhere.                                      *)
FireTimer ==
  /\ loop = "timers" /\ iter # End
  /\ When < passTime
  /\ \E list \in HandlerLeaves :
       /\ nextTimerId' = IF Len(list) > Len(timeEvents) THEN nextTimerId + 1 ELSE nextTimerId
       /\ due' = (due \cap Ids(list)) \ {iter}
       /\ \/ /\ \E ret \in Periods : timeEvents' = Again(list, ret)
             /\ iter' = After(timeEvents', iter)
             /\ needSort' = TRUE /\ UNCHANGED loop
          \/ /\ timeEvents' = Without(list, iter)
             /\ iter' = After(list, iter)
             /\ loop' \in {"timers", "crashed"} /\ UNCHANGED needSort
  /\ UNCHANGED <<fileVars, passTime, clock, lastTime, pollRes>>

EndTimers ==
  /\ loop = "timers" /\ iter = End
  /\ timeEvents' = IF needSort THEN Sorted(timeEvents) ELSE timeEvents
  /\ loop' = "turn" /\ passTime' = 0 /\ needSort' = FALSE
  /\ UNCHANGED <<fileVars, nextTimerId, iter, due, clock, lastTime, pollRes>>

(* Time passes, or the clock is set.                                       *)
ClockMoves ==
  /\ loop \in {"turn", "files"}
  /\ clock' \in 0..MaxTime
  /\ UNCHANGED <<fileVars, timerVars, passVars, lastTime, pollRes, loop>>

EventLoopNext ==
  \/ Poll \/ HandleFile \/ BeginTimers \/ SkipTimer \/ FireTimer \/ EndTimers \/ ClockMoves

EventLoopSpec == EventLoopInit /\ [][EventLoopNext]_eventLoopVars
-----------------------------------------------------------------------------
EventLoopTypeOK ==
  /\ fileEvents \in [EventFds -> Masks] /\ watched \in [EventFds -> Masks]
  /\ pollRes \in [EventFds -> Masks] /\ maxfd \in EventFds \cup {-1}
  /\ timeEvents \in Seq([id : 0..(MaxTimerIds - 1), when : Nat])
  /\ nextTimerId \in 0..MaxTimerIds
  /\ clock \in Nat /\ lastTime \in Nat /\ passTime \in Nat
  /\ iter \in Ids(timeEvents) \cup {End} /\ due \subseteq Ids(timeEvents)
  /\ needSort \in BOOLEAN
  /\ loop \in {"turn", "files", "timers", "crashed"}

(* Whatever handlers register and delete, in any order, select() is asked  *)
(* for exactly the events that have a handler, and its first argument is   *)
(* above all of them.  An event left out would never be handled.           *)
SelectWatches ==
  \A fd \in EventFds :
    /\ watched[fd] = fileEvents[fd]
    /\ fileEvents[fd] # {} => fd <= maxfd

(* A pass over the timers fires each one that was due when it began and is *)
(* still there, although handlers create, delete and re-sort timers under  *)
(* the iterator; and the loop never sleeps while a timer that is nearer    *)
(* than the front of the list waits.                                       *)
TimersServed ==
  /\ loop = "timers" /\ iter = End => due = {}
  /\ loop = "turn" => \A i \in DOMAIN timeEvents : timeEvents[1].when <= timeEvents[i].when
=============================================================================
