---------------------------- MODULE InstanceLink ----------------------------
(***************************************************************************)
(* A link to a watched instance (instancelink/InstanceLink.cpp), the       *)
(* commands that the sentinel sends over it (flysentinel/FlySentinel.cpp), *)
(* the callbacks for their replies (flyinstance/FlyInstance.cpp), and the  *)
(* adapter between hiredis and the event loop (asyncevent/).  Several      *)
(* instances may share the link.  hiredis is not part of src/: it queues a *)
(* callback for each command, calls it with the reply or, when the         *)
(* connection goes, with a null reply, and asks for events through hooks.  *)
(*                                                                         *)
(* Nothing in the program connects a link, and the read handler of the     *)
(* adapter returns at once since it is registered with a null privdata;    *)
(* connections and replies come from outside here.                         *)
(***************************************************************************)
EXTENDS Integers, Sequences, SequencesExt

CONSTANTS
  Users,              \* the instances that may refer to the link
  MaxPendingCommands, \* SENTINEL_MAX_PENDING_COMMANDS
  PingPeriod,         \* of getDownAfterPeriod() and SENTINEL_PING_PERIOD the smaller one
  MaxQueue,           \* bound: commands without a reply when one more is sent
  MaxCount            \* bound: pendingCommands, either way

ASSUME InstanceLinkAssumption ==
  /\ Users # {} /\ "FlySentinel" \notin Users /\ "null" \notin Users
  /\ MaxPendingCommands \in Nat /\ PingPeriod \in Nat
  /\ MaxQueue \in Nat /\ MaxCount \in Nat

VARIABLES
  users,           \* the instances that refer to the link: use_count
  released,        \* those that gave it back and live on
  command,         \* the command context: "none", "open", or null again
                   \* because it was "closed" or "lost"
  pubsub,          \* pubsubContext is not null
  disconnected,
  pendingCommands,
  sincePong,       \* the time since lastPongTime, no more than PingPeriod + 1
  queue,           \* of hiredis: callback and privdata of each command
  hooks,           \* reading and writing of FlyAsyncEvents
  mask,            \* the events of the command connection's fd in the loop
  link             \* "alive" or "crashed"

linkVars == <<users, released, command, pubsub, disconnected, pendingCommands,
              sincePong, queue, hooks, mask, link>>

Sentinel  == "FlySentinel"   \* sendHello passes the server where an instance is expected
Nobody    == "null"
Callbacks == {"discard", "ping", "publish"}
Hooks     == {"READABLE", "WRITABLE"}

InstanceLinkInit ==
  /\ users = Users /\ released = {}
  /\ command = "none" /\ pubsub = FALSE
  /\ disconnected = TRUE /\ pendingCommands = 0
  /\ sincePong = 0
  /\ queue = << >> /\ hooks = {} /\ mask = {}
  /\ link = "alive"
-----------------------------------------------------------------------------
(* The hooks ask the loop only for what the flags do not say already.      *)
(* Mutant: the flag of an event that is deleted stays.                     *)
AddHook(event)    == hooks' = hooks \cup {event} /\ mask' = mask \cup {event}
FlagStays(event)  == hooks' = hooks /\ mask' = mask \ {event}
DelHook(event)    == hooks' = hooks \ {event} /\ mask' = mask \ {event}
CleanUp           == hooks' = {} /\ mask' = mask \ hooks

(* redisAsyncCommand, which returns 0.                                     *)
Queued(q, fn, privdata) == Append(q, [fn |-> fn, privdata |-> privdata])

(* What the count is when hiredis has called each callback with a null     *)
(* reply: only the discard callback does not look at the reply, and it     *)
(* returns when context->data is null.                                     *)
Drained(count, data) ==
  IF data THEN count - Cardinality({i \in DOMAIN queue : queue[i].fn = "discard"}) ELSE count

(* closeConnection of the command context: null pointer, count 0, data     *)
(* null, then redisAsyncFree. Mutant: data is still there when it runs.    *)
FreedWithData(count) == Drained(count, TRUE)
Freed(count)         == Drained(count, FALSE)

CloseCommand(count) ==
  /\ command' = IF command = "open" THEN "closed" ELSE command
  /\ pendingCommands' = IF command = "open" THEN Freed(0) ELSE count
  /\ IF command = "open" THEN queue' = << >> /\ CleanUp ELSE UNCHANGED <<queue, hooks, mask>>

(* closeConnection from outside, of either context.                        *)
closeConnection ==
  /\ \/ command = "open" /\ CloseCommand(pendingCommands) /\ UNCHANGED pubsub
     \/ /\ pubsub /\ pubsub' = FALSE
        /\ UNCHANGED <<command, pendingCommands, queue, hooks, mask>>
  /\ disconnected' = TRUE
  /\ UNCHANGED <<users, released, sincePong, link>>

reset ==
  /\ CloseCommand(0) /\ pubsub' = FALSE
  /\ disconnected' = TRUE
  /\ sincePong' = 0
  /\ UNCHANGED <<users, released, link>>

(* hiredis loses the command connection: it calls the callbacks and cleans *)
(* up, and connectionError forgets the context, but not the count.         *)
connectionError ==
  /\ command = "open"
  /\ command' = "lost" /\ disconnected' = TRUE
  /\ pendingCommands' = Drained(pendingCommands, TRUE)
  /\ queue' = << >> /\ CleanUp
  /\ UNCHANGED <<users, released, pubsub, sincePong, link>>

(* From outside: both contexts, with a new FlyAsyncEvents.                 *)
Connect ==
  /\ command # "open" /\ users # {}
  /\ command' = "open" /\ pubsub' = TRUE /\ disconnected' = FALSE
  /\ hooks' = {} /\ UNCHANGED mask
  /\ UNCHANGED <<users, released, pendingCommands, sincePong, queue, link>>

AskForEvents ==
  /\ command = "open"
  /\ \E event \in Hooks : AddHook(event) \/ DelHook(event)
  /\ UNCHANGED <<users, released, command, pubsub, disconnected, pendingCommands,
                 sincePong, queue, link>>
-----------------------------------------------------------------------------
(* sendPeriodicCommands for one user. No INFO is sent: 0 == flags & ...    *)
(* is 0 for every instance. lastPingTime stays 0, for sendPing takes the 0 *)
(* of redisAsyncCommand for a failure. lastPubTime is never initialised,   *)
(* and sendHello may fail: a hello is sent or not.                         *)
PingDue == sincePong > PingPeriod

TooMany(count) == count > MaxPendingCommands * Cardinality(users)
Room           == Len(queue) <= MaxQueue

sendPing(q, i) == IF PingDue THEN Queued(q, "ping", i) ELSE q
sendHello(q)   == Queued(q, "publish", Sentinel)

sendPeriodicCommands(i) ==
  /\ i \in users /\ Room
  /\ ~disconnected /\ ~TooMany(pendingCommands)
  /\ \/ /\ queue' = sendPing(queue, i) /\ UNCHANGED pendingCommands
        /\ IF PingDue THEN AddHook("WRITABLE") ELSE UNCHANGED <<hooks, mask>>
     \/ /\ queue' = sendHello(sendPing(queue, i)) /\ pendingCommands' = pendingCommands + 1
        /\ AddHook("WRITABLE")
  /\ UNCHANGED <<users, released, command, pubsub, disconnected, sincePong, link>>

(* setClientName, and sendSlaveOf: the first counts its command when it    *)
(* fails, the second counts each of its five.                              *)
setClientName(i) ==
  /\ i \in users /\ command = "open" /\ Room
  /\ queue' = Queued(queue, "discard", i) /\ AddHook("WRITABLE")
  /\ UNCHANGED <<users, released, command, pubsub, disconnected, pendingCommands,
                 sincePong, link>>

sendSlaveOf(i) ==
  /\ i \in users /\ command = "open" /\ Room
  /\ queue' = queue \o [k \in 1..5 |-> [fn |-> "discard", privdata |-> i]]
  /\ pendingCommands' = pendingCommands + 5
  /\ AddHook("WRITABLE")
  /\ UNCHANGED <<users, released, command, pubsub, disconnected, sincePong, link>>
-----------------------------------------------------------------------------
(* A reply for the oldest command. The callback of a ping counts down a    *)
(* command that was not counted; that of a hello counts up once more, and, *)
(* unless the reply is an error, calls a method of an instance on the      *)
(* server: it does something else, or the process crashes.                 *)
discardCallback == pendingCommands' = pendingCommands - 1 /\ UNCHANGED <<sincePong, link>>

pingCallback ==
  /\ pendingCommands' = pendingCommands - 1
  /\ sincePong' = 0
  /\ UNCHANGED link

publishCallback ==
  /\ pendingCommands' = pendingCommands + 1
  /\ link' \in {"alive", "crashed"}
  /\ UNCHANGED sincePong

Reply ==
  /\ command = "open" /\ queue # << >>
  /\ CASE Head(queue).fn = "discard" -> discardCallback
       [] Head(queue).fn = "ping"    -> pingCallback
       [] Head(queue).fn = "publish" -> publishCallback
  /\ queue' = Tail(queue)
  /\ UNCHANGED <<users, released, command, pubsub, disconnected, hooks, mask>>

(* releaseLink: a link that others still use forgets whose commands were   *)
(* on their way; the last one to leave destroys it. Mutant: the commands   *)
(* keep their callbacks.                                                   *)
Kept(q, i)     == q
Disowned(q, i) == [k \in DOMAIN q |-> IF q[k].privdata = i
                                      THEN [fn |-> "discard", privdata |-> Nobody] ELSE q[k]]

releaseLink(i) ==
  /\ i \in users
  /\ users' = users \ {i} /\ released' = released \cup {i}
  /\ IF users = {i}
     THEN CloseCommand(pendingCommands) /\ pubsub' = FALSE /\ disconnected' = (command = "open" \/ pubsub \/ disconnected)
     ELSE /\ queue' = IF command = "open" THEN Disowned(queue, i) ELSE queue
          /\ UNCHANGED <<command, pubsub, disconnected, pendingCommands, hooks, mask>>
  /\ UNCHANGED <<sincePong, link>>

(* setLink: an instance shares the link again.                             *)
shareLink(i) ==
  /\ i \in released /\ users # {}
  /\ users' = users \cup {i} /\ released' = released \ {i}
  /\ UNCHANGED <<command, pubsub, disconnected, pendingCommands, sincePong, queue, hooks, mask, link>>

TimePasses ==
  /\ sincePong <= PingPeriod /\ sincePong' = sincePong + 1
  /\ UNCHANGED <<users, released, command, pubsub, disconnected, pendingCommands,
                 queue, hooks, mask, link>>

InstanceLinkNext ==
  /\ link = "alive"
  /\ \/ closeConnection \/ reset \/ connectionError \/ Connect \/ AskForEvents \/ Reply \/ TimePasses
     \/ \E i \in Users : \/ sendPeriodicCommands(i) \/ setClientName(i) \/ sendSlaveOf(i)
                         \/ releaseLink(i) \/ shareLink(i)
  /\ pendingCommands' \in -MaxCount..MaxCount

InstanceLinkSpec == InstanceLinkInit /\ [][InstanceLinkNext]_linkVars
-----------------------------------------------------------------------------
Waits == [fn : Callbacks, privdata : Users \cup {Sentinel, Nobody}]

InstanceLinkTypeOK ==
  /\ users \subseteq Users /\ released = Users \ users
  /\ command \in {"none", "open", "closed", "lost"} /\ pubsub \in BOOLEAN
  /\ disconnected \in BOOLEAN /\ pendingCommands \in Int
  /\ sincePong \in 0..(PingPeriod + 1)
  /\ queue \in Seq(Waits)
  /\ hooks \subseteq Hooks /\ mask \subseteq Hooks
  /\ link \in {"alive", "crashed"}

(* What closing and sharing promise, whatever was on its way: a command    *)
(* connection that is gone leaves no callback and no event behind, and one *)
(* that was closed no pending commands, so that the next connection starts *)
(* from 0; an instance that gave its link back is in no callback; and the  *)
(* flags of the adapter say what the loop watches.                         *)
ClosedIsSilent ==
  /\ command # "open" => queue = << >> /\ mask = {}
  /\ command = "closed" => pendingCommands = 0
  /\ \A k \in DOMAIN queue : queue[k].privdata \notin released
  /\ command = "open" => hooks = mask
=============================================================================
