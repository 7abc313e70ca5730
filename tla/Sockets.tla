-------------------------------- MODULE Sockets --------------------------------
(***************************************************************************)
(* How sockets are made (net/NetHandler.cpp), and the start of the server, *)
(* which listens with them (listenToPort and initGeneralServer of          *)
(* flysentinel/FlySentinel.cpp, createEvent of coordinator/Coordinator.cpp).*)
(* Each system call may fail.  A call of the handler walks the addresses   *)
(* that getaddrinfo has found and gives the caller one connected or        *)
(* listening socket, or -1.  The program connects to nobody yet: connects  *)
(* come from outside, once it runs.                                        *)
(***************************************************************************)
EXTENDS Integers, FiniteSets

CONSTANTS
  Sockets,      \* the numbers that the kernel gives out
  MaxFound,     \* bound: addresses that getaddrinfo finds
  BindAddrs,    \* bound: bindAddrs in the configuration, at most
  SetLimit      \* setSize of the event loop: a higher fd has no event

ASSUME SocketsAssumption ==
  Sockets \subseteq Nat /\ MaxFound \in Nat /\ BindAddrs \in Nat /\ SetLimit \in Nat

VARIABLES
  opened,     \* the sockets that are open
  s,          \* the socket of the call, or -1
  call,       \* the call that is made: its name, its flags and the addresses left
  toBind,     \* the servers that listenToPort has still to make
  anyAddr,    \* there are no bindAddrs: it takes ipv6 and ipv4, and either may fail
  ipfd, usfd, \* what listens
  links,      \* what connects have returned and nobody has closed
  stage       \* of the start: "listen", "unix", "events", "running" or "exited"

socketVars == <<opened, s, call, toBind, anyAddr, ipfd, usfd, links, stage>>

NoCall == [fn |-> "none", nonblock |-> FALSE, source |-> FALSE, bestEffort |-> FALSE, left |-> 0]

SocketsInit ==
  /\ opened = {} /\ s = -1 /\ call = NoCall
  /\ anyAddr \in BOOLEAN
  /\ toBind \in IF anyAddr THEN {2} ELSE 1..BindAddrs
  /\ ipfd = {} /\ usfd = -1 /\ links = {}
  /\ stage = "listen"

startVars == <<toBind, anyAddr, ipfd, usfd, links, stage>>

(* socket() gives out the lowest number.                                   *)
LowestFree == CHOOSE n \in Sockets \ opened : \A m \in Sockets \ opened : n <= m
CanOpen    == opened # Sockets

(* close(fd): of a number that is not open it does nothing.                *)
close(fd) == opened \ {fd}
-----------------------------------------------------------------------------
(* tcpGenericConnect *)

(* An address is left alone when it gets no socket. Mutant: when connect   *)
(* fails the socket is forgotten before the next address is tried.         *)
Forgotten(fd) == opened' = opened \cup {fd} /\ s' = -1
Refused(fd)   == opened' = close(fd) /\ s' = -1

(* One round of the loop. When getaddrinfo fails nothing is tried again.   *)
(* An option, the block mode, the source address or bind() may fail: then  *)
(* it ends with -1, as it does at its end.                                 *)
tryConnect ==
  /\ call.fn = "connect"
  /\ \/ call.left = 0 /\ call' = NoCall /\ UNCHANGED <<opened, s>>
     \/ /\ call.left > 0
        /\ \/ UNCHANGED opened /\ s' = -1
              /\ call' = [call EXCEPT !.left = @ - 1, !.fn = IF call.left = 1 THEN "return" ELSE @]
           \/ /\ CanOpen /\ Refused(LowestFree)
              /\ call' = [call EXCEPT !.left = @ - 1, !.fn = IF call.left = 1 THEN "return" ELSE @]
           \/ /\ CanOpen /\ opened' = close(LowestFree) /\ s' = -1
              /\ call' = [call EXCEPT !.fn = "return"]
           \/ /\ CanOpen /\ opened' = opened \cup {LowestFree} /\ s' = LowestFree
              /\ call' = [call EXCEPT !.fn = "return"]
  /\ UNCHANGED startVars

(* Best effort: once more without the source address. The caller keeps the *)
(* socket.                                                                 *)
returnConnect ==
  /\ call.fn = "return"
  /\ IF s = -1 /\ call.source /\ call.bestEffort
     THEN /\ \E n \in 0..MaxFound :
               call' = [call EXCEPT !.fn = "connect", !.source = FALSE, !.left = n]
          /\ UNCHANGED links
     ELSE call' = NoCall /\ links' = links \cup ({s} \ {-1})
  /\ s' = -1
  /\ UNCHANGED <<opened, toBind, anyAddr, ipfd, usfd, stage>>

connect ==
  /\ stage = "running" /\ call = NoCall
  /\ \E nonblock, source, bestEffort \in BOOLEAN, n \in 0..MaxFound :
       call' = [fn |-> "connect", nonblock |-> nonblock, source |-> source,
                bestEffort |-> bestEffort, left |-> n]
  /\ UNCHANGED <<opened, s, startVars>>

closeLink ==
  /\ call = NoCall /\ \E fd \in links : links' = links \ {fd} /\ opened' = close(fd)
  /\ UNCHANGED <<s, call, toBind, anyAddr, ipfd, usfd, stage>>
-----------------------------------------------------------------------------
(* tcpGenericServer and unixServer *)

server ==
  /\ stage \in {"listen", "unix"} /\ call = NoCall
  /\ stage = "listen" => toBind > 0
  /\ \E n \in IF stage = "unix" THEN {1} ELSE 0..MaxFound :
       call' = [NoCall EXCEPT !.fn = "server", !.left = n]
  /\ UNCHANGED <<opened, s, startVars>>

(* setListen closes the socket when it fails, and dealError closes the     *)
(* same number once more. Only an address without a socket leads to the    *)
(* next one; when there is none left dealError has nothing to close.       *)
tryServer ==
  /\ call.fn = "server"
  /\ \/ call.left = 0 /\ call' = [call EXCEPT !.fn = "served"] /\ UNCHANGED <<opened, s>>
     \/ /\ call.left > 0
        /\ \/ UNCHANGED opened /\ s' = -1
              /\ call' = [call EXCEPT !.left = @ - 1, !.fn = IF call.left = 1 THEN "served" ELSE @]
           \/ /\ CanOpen /\ opened' = close(LowestFree) /\ s' = -1
              /\ call' = [call EXCEPT !.fn = "served"]
           \/ /\ CanOpen /\ opened' = opened \cup {LowestFree} /\ s' = LowestFree
              /\ call' = [call EXCEPT !.fn = "served"]
  /\ UNCHANGED startVars

(* listenToPort: the first address that fails ends it, without an effect   *)
(* on the rest of the start; the answer is not looked at.                  *)
listenToPort ==
  /\ stage = "listen" /\ call.fn = "served"
  /\ ipfd' = ipfd \cup ({s} \ {-1})
  /\ toBind' = IF s = -1 /\ ~anyAddr THEN 0 ELSE toBind - 1
  /\ s' = -1 /\ call' = NoCall
  /\ UNCHANGED <<opened, anyAddr, usfd, links, stage>>

listened ==
  /\ stage = "listen" /\ toBind = 0
  /\ stage' \in {"unix", "events"}
  /\ UNCHANGED <<opened, s, call, toBind, anyAddr, ipfd, usfd, links>>

initGeneralServer ==
  /\ stage = "unix" /\ call.fn = "served"
  /\ usfd' = s /\ stage' = IF s = -1 THEN "exited" ELSE "events"
  /\ s' = -1 /\ call' = NoCall
  /\ UNCHANGED <<opened, toBind, anyAddr, ipfd, links>>

(* createEvent: an fd that can have no event ends the process; usfd gets   *)
(* none.                                                                   *)
createEvent ==
  /\ stage = "events"
  /\ stage' = IF \A fd \in ipfd : fd < SetLimit THEN "running" ELSE "exited"
  /\ UNCHANGED <<opened, s, call, toBind, anyAddr, ipfd, usfd, links>>

SocketsNext ==
  \/ connect \/ tryConnect \/ returnConnect \/ closeLink
  \/ server \/ tryServer \/ listenToPort \/ listened \/ initGeneralServer \/ createEvent

SocketsSpec == SocketsInit /\ [][SocketsNext]_socketVars
-----------------------------------------------------------------------------
SocketsTypeOK ==
  /\ opened \subseteq Sockets /\ s \in Sockets \cup {-1}
  /\ call.fn \in {"none", "connect", "server", "return", "served"} /\ call.left \in 0..MaxFound \cup {1}
  /\ toBind \in Nat /\ anyAddr \in BOOLEAN
  /\ ipfd \subseteq Sockets /\ usfd \in Sockets \cup {-1} /\ links \subseteq Sockets
  /\ stage \in {"listen", "unix", "events", "running", "exited"}

(* Whichever system calls fail, for whichever of the addresses, and        *)
(* whatever is tried after that: a socket that is open is the one the call *)
(* is about to return or belongs to exactly one that keeps it, and what    *)
(* listens or is linked is open.                                           *)
SocketsAccounted ==
  /\ opened = ipfd \cup links \cup ({usfd, s} \ {-1})
  /\ s \notin ipfd \cup links \cup {usfd} \/ s = -1
  /\ ipfd \cap links = {} /\ usfd \notin ipfd \cup links
=============================================================================
