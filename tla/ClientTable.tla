---------------------------- MODULE ClientTable ----------------------------
(***************************************************************************)
(* The connections of the server and their file descriptors: accepting,    *)
(* looking a client up by the fd of an event, closing at once and closing  *)
(* later (flysentinel/FlySentinel.cpp), under the event loop that calls    *)
(* the handlers (event/EventLoop.cpp, event/Select.cpp).                   *)
(*                                                                         *)
(* A turn of the loop goes through four phases: "sleep" serves the pending *)
(* writes and polls, "accept" and "events" run the handlers of the fds     *)
(* that select() found ready, in the order of the fds, and "timers" may    *)
(* run serverCron, whose loop is "free".  The kernel gives out the lowest  *)
(* free number as the fd of a connection, so that a number comes back once *)
(* it is closed.  ReplyBuffer says what a client's buffers do: here        *)
(* writeToClient ends with everything written, with a rest, or by closing  *)
(* the connection.                                                         *)
(***************************************************************************)
EXTENDS Integers, Sequences, FiniteSets

CONSTANTS
  Fds,         \* numbers that accept() may return, above the listening fd
  MaxClients,  \* maxClients
  MaxConns,    \* bound: clients created in a behaviour
  MaxRejects   \* bound: connections rejected in a behaviour

ASSUME TableAssumption ==
  /\ Fds \subseteq Nat \ {0}
  /\ MaxClients \in Nat /\ MaxConns \in Nat /\ MaxRejects \in Nat

VARIABLES
  clients,       \* the map from fds to clients; 0: the fd is not in it
  created,       \* clients created so far; a client is its number
  fd,            \* getFd() of each client, -1 after unlinkClient
  flags,         \* CLIENT_PENDING_WRITE and CLIENT_CLOSE_ASAP of each client
  output,        \* ~hasNoPending() of each client
  pendingWrite,  \* clientsPendingWrite, in order
  toClose,       \* clientsToClose, in order
  rejected,      \* statRejectedConn
  owner,         \* the kernel: whose connection has the fd, 0 if it is free
  rfds, wfds,    \* the fds registered with select()
  fired,         \* the events of this turn not yet handled
  phase          \* see above; "crashed"

objects == <<created, fd, flags, output>>
lists   == <<pendingWrite, toClose>>
poll    == <<rfds, wfds, fired>>
vars    == <<clients, objects, lists, rejected, owner, poll, phase>>

Clients == 1..MaxConns
Flags   == {"PENDING_WRITE", "CLOSE_ASAP"}
Phases  == {"sleep", "accept", "events", "timers", "free", "crashed"}
Events  == Fds \X {"R", "W"}
-----------------------------------------------------------------------------
(* Helpers *)

(* clients.size() *)
Size == Cardinality({f \in Fds : clients[f] # 0})

(* getFlyClient; 0 is the null pointer.                                    *)
getFlyClient(f) == IF f \in Fds THEN clients[f] ELSE 0

Open(c) == fd[c] \in Fds /\ owner[fd[c]] # 0

(* close(2): the numbers are free again, whoever had them.                 *)
Close(S) == owner' = [f \in Fds |-> IF f \in S THEN 0 ELSE owner[f]]

(* The guard and the effect of freeClientAsync on clientsToClose; mutants:  *)
(* a client marked already is listed again, or no client is ever listed.   *)
MarkedNever(d, left) == FALSE
Marked(d, left)      == "CLOSE_ASAP" \in left[d]
WithNone(d) == toClose
With(d)     == Append(toClose, d)

(* freeClientAsync(fd) and close(fd), at the end of writeToClient of c,    *)
(* when the flags are as left.                                             *)
freeClientAsyncAndClose(c, left) ==
  LET d == getFlyClient(fd[c])
  IN /\ Close({fd[c]})
     /\ IF d = 0 \/ Marked(d, left)
        THEN flags' = left /\ UNCHANGED toClose
        ELSE /\ flags' = [left EXCEPT ![d] = {"CLOSE_ASAP"}]
             /\ toClose' = With(d)

(* How writeToClient may end for client c, whose flags are left as given:  *)
(* "all" is written, a "rest" remains, or the connection is "closed", for  *)
(* an error (the only way with output and no socket) or after the reply.   *)
writeToClient(c, left, end) ==
  /\ \E rest \in BOOLEAN :
       /\ rest => output[c]
       /\ ~Open(c) => rest = output[c]
       /\ CASE end = "all"  -> ~rest
            [] end = "rest" -> rest /\ Open(c)
            [] OTHER        -> TRUE
       /\ output' = [output EXCEPT ![c] = rest]
  /\ IF end = "closed"
     THEN freeClientAsyncAndClose(c, left)
     ELSE flags' = left /\ UNCHANGED <<toClose, owner>>

(* deleteFromPending and deleteFromAsyncClose: left is the list s without  *)
(* the first of its clients whose getFd() is number.                       *)
Deleted(s, number, left) ==
  LET found == {i \in DOMAIN s : fd'[s[i]] = number}
  IN IF found = {} THEN left = s
     ELSE \E i \in found :
            /\ \A j \in found : i <= j
            /\ left = SubSeq(s, 1, i - 1) \o SubSeq(s, i + 1, Len(s))

(* The fd of a client without connection, and when unlinkClient looks for  *)
(* it in clientsPendingWrite.  Mutants: 0 for -1; it never looks.          *)
UnlinkedZero == 0
Unlinked     == -1
IsPendingNever(c) == FALSE
IsPending(c)      == "PENDING_WRITE" \in flags[c]

(* unlinkClient of client c, then close() of more numbers.  It sets fd to  *)
(* -1 before it erases clients[fd], so that nothing is erased; and it      *)
(* looks in the lists for a client with the fd that c has now. The comment *)
(* before it excepts clientsToClose; the code searches that list as well.  *)
unlinkClient(c, more) ==
  LET numbers == IF getFlyClient(fd[c]) # 0 THEN {fd[c]} ELSE {}
  IN /\ rfds' = rfds \ numbers /\ wfds' = wfds \ numbers
     /\ Close(numbers \cup more)
     /\ fd' = [fd EXCEPT ![c] = IF numbers # {} THEN Unlinked ELSE @]
     /\ IF IsPending(c) THEN Deleted(pendingWrite, fd'[c], pendingWrite')
                        ELSE UNCHANGED pendingWrite
     /\ Deleted(toClose, fd'[c], toClose')
     /\ UNCHANGED <<clients, created, flags, output, rejected>>
-----------------------------------------------------------------------------
Init ==
  /\ clients = [f \in Fds |-> 0]
  /\ created = 0
  /\ fd = [c \in Clients |-> -1]
  /\ flags = [c \in Clients |-> {}]
  /\ output = [c \in Clients |-> FALSE]
  /\ pendingWrite = << >> /\ toClose = << >>
  /\ rejected = 0
  /\ owner = [f \in Fds |-> 0]
  /\ rfds = {} /\ wfds = {} /\ fired = {}
  /\ phase = "sleep"

(* handleClientsWithPendingWrites, for the next client of the list.        *)
PendingWrite(end) ==
  /\ phase = "sleep"
  /\ pendingWrite # << >>
  /\ pendingWrite' = Tail(pendingWrite)
  /\ LET c == Head(pendingWrite)
     IN /\ writeToClient(c, [flags EXCEPT ![c] = @ \ {"PENDING_WRITE"}], end)
        /\ wfds' = IF end # "closed" /\ output'[c] THEN wfds \cup {fd[c]} ELSE wfds
  /\ UNCHANGED <<clients, created, fd, rejected, rfds, fired, phase>>

(* select() finds what is ready, or fails when an fd in its sets is not    *)
(* open, which is like finding nothing.  The mutant ignores such fds.      *)
BadFdIgnored == FALSE
BadFd        == \E f \in rfds \cup wfds : owner[f] = 0

Poll ==
  /\ phase = "sleep"
  /\ pendingWrite = << >>
  /\ IF BadFd
     THEN phase' = "timers" /\ UNCHANGED fired
     ELSE /\ fired' \in SUBSET (rfds \X {"R"} \cup wfds \X {"W"})
          /\ phase' \in {"accept", "events"}
  /\ UNCHANGED <<clients, objects, lists, rejected, owner, rfds, wfds>>

(* acceptTcpHandler and createClient: accept() gives the lowest number.    *)
Accept(f) ==
  /\ phase = "accept"
  /\ owner[f] = 0 /\ \A g \in Fds : owner[g] = 0 => f <= g
  /\ IF Size >= MaxClients
     THEN /\ rejected < MaxRejects
          /\ rejected' = rejected + 1
          /\ UNCHANGED <<clients, created, fd, owner, rfds>>
     ELSE /\ created < MaxConns
          /\ created' = created + 1
          /\ clients' = [clients EXCEPT ![f] = created + 1]
          /\ owner' = [owner EXCEPT ![f] = created + 1]
          /\ fd' = [fd EXCEPT ![created + 1] = f]
          /\ rfds' = rfds \cup {f}
          /\ UNCHANGED rejected
  /\ UNCHANGED <<flags, output, lists, wfds, fired, phase>>

AcceptEnds ==
  /\ phase = "accept"
  /\ phase' = "events"
  /\ UNCHANGED <<clients, objects, lists, rejected, owner, poll>>

(* The next event: in the order of the fds, and of one fd ES_READABLE      *)
(* first.                                                                  *)
IsNext(f, kind) ==
  /\ phase = "events"
  /\ <<f, kind>> \in fired
  /\ \A e \in fired : f < e[1] \/ (f = e[1] /\ (kind = "R" \/ e[2] = "W"))

(* readQueryFromClient: nothing to read; or the connection has ended, and  *)
(* freeClient has no return statement; or there is data, which nobody puts *)
(* into queryBuf, and dealWithCommand follows a null argv.                 *)
ReadNothing(f) ==
  /\ IsNext(f, "R")
  /\ owner[f] # 0
  /\ fired' = fired \ {<<f, "R">>}
  /\ UNCHANGED <<clients, objects, lists, rejected, owner, rfds, wfds, phase>>

ReadEnd(f) ==
  /\ IsNext(f, "R")
  /\ fired' = fired \ {<<f, "R">>}
  /\ unlinkClient(getFlyClient(f), {f})
  /\ phase' \in {"events", "crashed"}

ReadData(f) ==
  /\ IsNext(f, "R")
  /\ owner[f] # 0
  /\ phase' = "crashed"
  /\ UNCHANGED <<clients, objects, lists, rejected, owner, poll>>

(* sendReplyToClient: the event may be one of a client that ES_READABLE    *)
(* has just freed.                                                         *)
SendReply(f, end) ==
  /\ IsNext(f, "W")
  /\ fired' = fired \ {<<f, "W">>}
  /\ LET c == getFlyClient(f)
     IN /\ writeToClient(c, flags, end)
        /\ wfds' = IF end # "closed" /\ ~output'[c] THEN wfds \ {fd[c]} ELSE wfds
  /\ UNCHANGED <<clients, created, fd, pendingWrite, rejected, rfds, phase>>

EventsEnd ==
  /\ phase = "events"
  /\ fired = {}
  /\ phase' = "timers"
  /\ UNCHANGED <<clients, objects, lists, rejected, owner, poll>>

(* A handler or a timer replies to client c: addReplyRaw.  The reply may   *)
(* be empty or dropped, and then only the list changes.                    *)
AddReply(c) ==
  /\ phase \in {"events", "timers"}
  /\ c <= created
  /\ fd[c] # -1
  /\ output' \in {output, [output EXCEPT ![c] = TRUE]}
  /\ IF output[c] \/ "PENDING_WRITE" \in flags[c] \/ getFlyClient(fd[c]) = 0
     THEN UNCHANGED <<flags, pendingWrite>>
     ELSE LET d == getFlyClient(fd[c])
          IN /\ flags' = [flags EXCEPT ![d] = @ \cup {"PENDING_WRITE"}]
             /\ pendingWrite' = IF "PENDING_WRITE" \in flags[d] THEN pendingWrite
                                ELSE Append(pendingWrite, d)
  /\ UNCHANGED <<clients, created, fd, toClose, rejected, owner, poll, phase>>

(* serverCron is due.                                                      *)
ServerCron ==
  /\ phase = "timers"
  /\ phase' = "free"
  /\ UNCHANGED <<clients, objects, lists, rejected, owner, poll>>

(* freeClientsInAsyncFreeList: its loop stands on the node that it erases, *)
(* and freeClient has no return statement.                                 *)
FreeNext ==
  /\ phase = "free"
  /\ toClose # << >>
  /\ unlinkClient(Head(toClose), {})
  /\ phase' \in {"free", "crashed"}
  /\ UNCHANGED fired

FreeEnds ==
  /\ phase = "free"
  /\ toClose = << >>
  /\ phase' = "sleep"
  /\ UNCHANGED <<clients, objects, lists, rejected, owner, poll>>

NotDue ==
  /\ phase = "timers"
  /\ phase' = "sleep"
  /\ UNCHANGED <<clients, objects, lists, rejected, owner, poll>>

Ends == {"all", "rest", "closed"}

Loop ==
  \/ \E end \in Ends : PendingWrite(end)
  \/ Poll
  \/ \E f \in Fds : Accept(f)
  \/ AcceptEnds
  \/ \E f \in Fds : ReadNothing(f) \/ ReadEnd(f) \/ ReadData(f)
  \/ \E f \in Fds, end \in Ends : SendReply(f, end)
  \/ EventsEnd
  \/ ServerCron \/ FreeNext \/ FreeEnds
  \/ NotDue

Next == Loop \/ \E c \in Clients : AddReply(c)

Spec == Init /\ [][Next]_vars

(* The loop goes on, whatever is found ready, and serverCron is due again  *)
(* and again.                                                              *)
FairSpec == Spec /\ WF_vars(Loop) /\ SF_vars(ServerCron)
-----------------------------------------------------------------------------
(* Properties *)

Times(c, s) == Cardinality({i \in DOMAIN s : s[i] = c})

(* Type invariant: the shape of the table, of the lists and of the polled  *)
(* sets.                                                                   *)
TypeOK ==
  /\ clients \in [Fds -> 0..created]
  /\ created \in 0..MaxConns
  /\ fd \in [Clients -> Fds \cup {-1}]
  /\ flags \in [Clients -> SUBSET Flags]
  /\ output \in [Clients -> BOOLEAN]
  /\ pendingWrite \in Seq(Clients) /\ toClose \in Seq(Clients)
  /\ rejected \in 0..MaxRejects
  /\ owner \in [Fds -> 0..created]
  /\ rfds \subseteq Fds /\ wfds \subseteq Fds /\ fired \subseteq Events
  /\ phase \in Phases

(* The fd of an event or of a client leads to the client whose connection  *)
(* it is, although writeToClient closes the number long before unlinkClient *)
(* lets go of it, and the kernel gives closed numbers out again.           *)
LookupFindsOwner ==
  /\ \A f \in Fds : owner[f] # 0 => clients[f] = owner[f] /\ fd[owner[f]] = f
  /\ \A c \in Clients : fd[c] # -1 => clients[fd[c]] = c

(* close() never ends the connection of another client: when a connection  *)
(* is closed, its own client is unlinked or waits in clientsToClose.       *)
NoForeignClose ==
  [][\A f \in Fds : (owner[f] # 0 /\ owner'[f] # owner[f]) =>
       \/ fd'[owner[f]] = -1
       \/ \E i \in DOMAIN toClose' : toClose'[i] = owner[f]]_vars

(* Until it is unlinked, a client that is CLIENT_CLOSE_ASAP is exactly     *)
(* once in clientsToClose, and no other is there: none is forgotten.  Nor  *)
(* is any there twice, to be freed twice.                                  *)
CloseListed ==
  \A c \in Clients :
    /\ Times(c, toClose) <= 1
    /\ fd[c] # -1 => Times(c, toClose) = (IF "CLOSE_ASAP" \in flags[c] THEN 1 ELSE 0)

(* A client that was unlinked is not in clientsPendingWrite, so that no    *)
(* later pass writes to it; others are listed as their flag says.          *)
PendingAsFlagged ==
  \A c \in Clients :
    Times(c, pendingWrite) =
      IF "PENDING_WRITE" \in flags[c] /\ fd[c] # -1 THEN 1 ELSE 0

(* Both lists hold each client as its flags say.                           *)
ListsAgree == CloseListed /\ PendingAsFlagged

(* Every connection that is closed is unlinked in the end, and the server  *)
(* can poll again, unless the process crashes.                             *)
ClosedIsUnlinked ==
  \A c \in Clients :
    ("CLOSE_ASAP" \in flags[c]) ~> (fd[c] = -1 \/ phase = "crashed")

(* FlySentinel.cpp:942 says of the rejection that there are more clients   *)
(* than maxClients.  Entries of clients that are gone count, too.          *)
RejectsOnlyWhenFull ==
  [][rejected' > rejected =>
       Cardinality({c \in Clients : fd[c] # -1}) >= MaxClients]_vars
=============================================================================
