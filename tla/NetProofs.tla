------------------------------- MODULE NetProofs -------------------------------
(***************************************************************************)
(* What is proved about the event loop, the clock, sockets and the links   *)
(* over them, for any number of fds, timers, sockets, addresses, bytes and *)
(* users: every socket has one owner whichever system calls fail; what     *)
(* reads and writes with a time-out tell is true; a link that is closed    *)
(* leaves nothing behind; select() watches what has a handler; no pass     *)
(* skips a timer that is due; tilt mode lasts as long as it must.          *)
(***************************************************************************)
EXTENDS Sockets, SyncIO, InstanceLink, EventLoop, Tilt, FiniteSetTheorems, SequenceTheorems,
        WellFoundedInduction, TLAPS

(* Sockets                                                                 *)

(* A set of numbers has a least one, which is what CHOOSE then names.      *)
LEMMA LeastExists ==
  ASSUME NEW T \in SUBSET Nat, T # {}
  PROVE  \E x \in T : \A y \in T : x <= y
<1> DEFINE R == OpToRel(<, Nat)
<1>1. IsWellFoundedOn(R, Nat)
  BY NatLessThanWellFounded
<1>2. \E x \in T : \A y \in T : <<y, x>> \notin R
  <2> HIDE DEF R
  <2> QED BY <1>1, WFMin
<1>3. PICK x \in T : \A y \in T : <<y, x>> \notin R
  BY <1>2
<1>4. ASSUME NEW y \in T PROVE x <= y
  <2>1. ~(y < x)
    BY <1>3 DEF OpToRel
  <2> QED BY <2>1
<1> QED BY <1>4

LEMMA NewSocket ==
  ASSUME opened \in SUBSET Sockets, CanOpen
  PROVE  LowestFree \in Sockets \ opened
<1>1. Sockets \ opened \in SUBSET Nat /\ Sockets \ opened # {}
  BY SocketsAssumption DEF CanOpen
<1>2. \E n \in Sockets \ opened : \A m \in Sockets \ opened : n <= m
  BY <1>1, LeastExists
<1> QED BY <1>2 DEF LowestFree

(* A call has a socket when it is about to return; servers are called for  *)
(* while the start is at the stage that takes what they return.            *)
Lefts     == (0..MaxFound) \cup {1}
CallTyped ==
  call \in [fn : {"none", "connect", "server", "return", "served"}, nonblock : BOOLEAN,
            source : BOOLEAN, bestEffort : BOOLEAN, left : Lefts]

CallFits ==
  /\ call.fn \in {"none", "connect", "server"} => s = -1
  /\ call.fn \in {"server", "served"} => stage \in {"listen", "unix"}
  /\ call.fn \in {"server", "served"} /\ stage = "listen" => toBind > 0
  /\ stage \in {"listen", "unix"} => usfd = -1

SocketsInv == SocketsTypeOK /\ CallTyped /\ CallFits /\ SocketsAccounted

LEMMA SocketsStart == SocketsInit => SocketsInv
<1> SUFFICES ASSUME SocketsInit PROVE SocketsInv
  OBVIOUS
<1> USE SocketsAssumption DEF SocketsInit, NoCall
<1>1. SocketsTypeOK
  BY DEF SocketsTypeOK
<1>2. CallTyped
  BY DEF CallTyped, Lefts
<1>3. CallFits /\ SocketsAccounted
  BY DEF CallFits, SocketsAccounted
<1> QED BY <1>1, <1>2, <1>3 DEF SocketsInv

(* A round of either loop: it goes on without a socket, or it is about to  *)
(* return, with a new one or without.                                      *)
LEMMA RoundAccounted ==
  ASSUME SocketsInv, UNCHANGED startVars, call'.fn # "none" \/ call.fn = "connect",
         call.fn \in {"connect", "server"}, call'.fn \in {"none", "connect", "server"} => s' = -1,
         call'.fn \in {"server", "served"} => call.fn = "server",
         CallTyped',
         \/ UNCHANGED <<opened, s>>
         \/ opened' = opened /\ s' = -1
         \/ /\ opened' = opened \cup {LowestFree} /\ s' = LowestFree
            /\ LowestFree \in Sockets \ opened
  PROVE  SocketsInv'
<1> USE SocketsAssumption DEF SocketsInv, startVars
<1>1. s = -1
  BY DEF CallFits
<1>2. SocketsTypeOK'
  BY DEF SocketsTypeOK, CallTyped, Lefts
<1>3. CallFits'
  BY DEF CallFits
<1>4. SocketsAccounted'
  BY <1>1 DEF SocketsAccounted, SocketsTypeOK
<1> QED BY <1>2, <1>3, <1>4

LEMMA ConnectRound == SocketsInv /\ tryConnect => SocketsInv'
<1> SUFFICES ASSUME SocketsInv, tryConnect PROVE SocketsInv'
  OBVIOUS
<1>1. CanOpen => LowestFree \in Sockets \ opened
  BY NewSocket DEF SocketsInv, SocketsTypeOK
<1>2. call.fn = "connect" /\ s = -1 /\ UNCHANGED startVars
  BY DEF tryConnect, SocketsInv, CallFits
<1>3. call.left > 0 => call.left - 1 \in Lefts
  BY SocketsAssumption DEF SocketsInv, CallTyped, Lefts
<1>4. CASE call.left = 0 /\ call' = NoCall /\ UNCHANGED <<opened, s>>
  <2>1. CallTyped' /\ call'.fn = "none"
    BY <1>4, SocketsAssumption DEF CallTyped, NoCall, Lefts
  <2> QED BY <1>2, <1>4, <2>1, RoundAccounted
<1>5. CASE /\ call.left > 0
           /\ opened' = opened /\ s' = -1
           /\ call' = [call EXCEPT !.left = @ - 1, !.fn = IF call.left = 1 THEN "return" ELSE @]
  <2>1. CallTyped' /\ call'.fn \in {"connect", "return"}
    BY <1>2, <1>3, <1>5 DEF SocketsInv, CallTyped
  <2> QED BY <1>2, <1>5, <2>1, RoundAccounted
<1>6. CASE /\ call' = [call EXCEPT !.fn = "return"]
           /\ \/ opened' = opened /\ s' = -1
              \/ CanOpen /\ opened' = opened \cup {LowestFree} /\ s' = LowestFree
  <2>1. CallTyped' /\ call'.fn = "return"
    BY <1>6 DEF SocketsInv, CallTyped
  <2> QED BY <1>1, <1>2, <1>6, <2>1, RoundAccounted
<1>7. CanOpen => close(LowestFree) = opened
  BY <1>1 DEF close
<1> QED BY <1>4, <1>5, <1>6, <1>7 DEF tryConnect, Refused

LEMMA ServerRound == SocketsInv /\ tryServer => SocketsInv'
<1> SUFFICES ASSUME SocketsInv, tryServer PROVE SocketsInv'
  OBVIOUS
<1>1. CanOpen => LowestFree \in Sockets \ opened
  BY NewSocket DEF SocketsInv, SocketsTypeOK
<1>2. call.fn = "server" /\ s = -1 /\ UNCHANGED startVars
  BY DEF tryServer, SocketsInv, CallFits
<1>3. call.left > 0 => call.left - 1 \in Lefts
  BY SocketsAssumption DEF SocketsInv, CallTyped, Lefts
<1>4. CASE /\ call.left > 0
           /\ opened' = opened /\ s' = -1
           /\ call' = [call EXCEPT !.left = @ - 1, !.fn = IF call.left = 1 THEN "served" ELSE @]
  <2>1. CallTyped' /\ call'.fn \in {"server", "served"}
    BY <1>2, <1>3, <1>4 DEF SocketsInv, CallTyped
  <2> QED BY <1>2, <1>4, <2>1, RoundAccounted
<1>5. CASE /\ call' = [call EXCEPT !.fn = "served"]
           /\ \/ opened' = opened /\ s' = -1
              \/ UNCHANGED <<opened, s>>
              \/ CanOpen /\ opened' = opened \cup {LowestFree} /\ s' = LowestFree
  <2>1. CallTyped' /\ call'.fn = "served"
    BY <1>5 DEF SocketsInv, CallTyped
  <2> QED BY <1>1, <1>2, <1>5, <2>1, RoundAccounted
<1>6. CanOpen => close(LowestFree) = opened
  BY <1>1 DEF close
<1> QED BY <1>4, <1>5, <1>6 DEF tryServer

(* What takes the socket of a call that returns, and what closes a link.   *)
LEMMA OwnerTakes ==
  SocketsInv /\ (returnConnect \/ listenToPort \/ initGeneralServer \/ closeLink) => SocketsInv'
<1> SUFFICES ASSUME SocketsInv, returnConnect \/ listenToPort \/ initGeneralServer \/ closeLink
             PROVE  SocketsInv'
  OBVIOUS
<1> USE SocketsAssumption DEF SocketsInv, NoCall
<1>1. CASE returnConnect
  <2>1. call' = NoCall \/ \E n \in 0..MaxFound :
            call' = [call EXCEPT !.fn = "connect", !.source = FALSE, !.left = n]
    BY <1>1 DEF returnConnect
  <2>2. CallTyped' /\ call'.fn \in {"none", "connect"}
    <3>1. CASE call' = NoCall
      BY <3>1 DEF CallTyped, Lefts
    <3>2. CASE \E n \in 0..MaxFound :
                 call' = [call EXCEPT !.fn = "connect", !.source = FALSE, !.left = n]
      BY <3>2 DEF CallTyped, Lefts
    <3> QED BY <2>1, <3>1, <3>2
  <2>3. s' = -1 /\ links' \subseteq Sockets /\ UNCHANGED <<opened, toBind, anyAddr, ipfd, usfd, stage>>
    BY <1>1 DEF returnConnect, SocketsTypeOK
  <2>4. SocketsTypeOK' /\ CallFits'
    BY <2>2, <2>3 DEF SocketsTypeOK, CallTyped, CallFits, Lefts
  <2>5. SocketsAccounted'
    BY <1>1 DEF returnConnect, SocketsAccounted, SocketsTypeOK
  <2> QED BY <2>2, <2>4, <2>5
<1>2. CASE listenToPort
  <2>1. CallTyped' /\ call' = NoCall
    BY <1>2 DEF listenToPort, CallTyped, Lefts
  <2>2. toBind > 0
    BY <1>2 DEF listenToPort, CallFits
  <2>3. SocketsTypeOK' /\ CallFits'
    BY <1>2, <2>1, <2>2 DEF listenToPort, SocketsTypeOK, CallFits, Lefts
  <2>4. SocketsAccounted'
    BY <1>2 DEF listenToPort, SocketsAccounted, SocketsTypeOK
  <2> QED BY <2>1, <2>3, <2>4
<1>3. CASE initGeneralServer
  <2>1. CallTyped' /\ call' = NoCall /\ usfd = -1
    BY <1>3 DEF initGeneralServer, CallTyped, CallFits, Lefts
  <2>2. SocketsTypeOK' /\ CallFits'
    BY <1>3, <2>1 DEF initGeneralServer, SocketsTypeOK, CallFits
  <2>3. SocketsAccounted'
    BY <1>3, <2>1 DEF initGeneralServer, SocketsAccounted, SocketsTypeOK
  <2> QED BY <2>1, <2>2, <2>3
<1>4. CASE closeLink
  <2>1. s = -1 /\ UNCHANGED <<s, call, toBind, anyAddr, ipfd, usfd, stage>>
    BY <1>4 DEF closeLink, CallFits
  <2>2. PICK fd \in links : links' = links \ {fd} /\ opened' = opened \ {fd}
    BY <1>4 DEF closeLink, close
  <2>3. SocketsTypeOK' /\ CallTyped' /\ CallFits'
    BY <2>1, <2>2 DEF SocketsTypeOK, CallTyped, CallFits
  <2>4. SocketsAccounted'
    BY <2>1, <2>2 DEF SocketsAccounted, SocketsTypeOK
  <2> QED BY <2>3, <2>4
<1> QED BY <1>1, <1>2, <1>3, <1>4

(* A call begins, or the start goes on to its next stage.                  *)
LEMMA CallBegins ==
  SocketsInv /\ (connect \/ server \/ listened \/ createEvent) => SocketsInv'
<1> SUFFICES ASSUME SocketsInv, connect \/ server \/ listened \/ createEvent PROVE SocketsInv'
  OBVIOUS
<1> USE SocketsAssumption DEF SocketsInv, NoCall, startVars
<1>1. UNCHANGED <<opened, s, toBind, anyAddr, ipfd, usfd, links>>
  BY DEF connect, server, listened, createEvent
<1>2. SocketsAccounted'
  BY <1>1 DEF SocketsAccounted
<1>3. CASE connect
  <2>1. CallTyped' /\ call'.fn = "connect" /\ s = -1
    BY <1>3 DEF connect, CallTyped, CallFits, Lefts
  <2>2. SocketsTypeOK' /\ CallFits'
    BY <1>3, <2>1 DEF connect, SocketsTypeOK, CallTyped, CallFits, Lefts
  <2> QED BY <1>2, <2>1, <2>2
<1>4. CASE server
  <2>1. CallTyped' /\ call'.fn = "server" /\ s = -1
    BY <1>4 DEF server, CallTyped, CallFits, Lefts
  <2>2. SocketsTypeOK' /\ CallFits'
    BY <1>4, <2>1 DEF server, SocketsTypeOK, CallTyped, CallFits, Lefts
  <2> QED BY <1>2, <2>1, <2>2
<1>5. CASE listened
  <2>1. call' = call /\ call.fn \notin {"server", "served"}
    BY <1>5 DEF listened, CallFits, SocketsTypeOK
  <2>2. SocketsTypeOK' /\ CallTyped' /\ CallFits'
    BY <1>1, <1>5, <2>1 DEF listened, SocketsTypeOK, CallTyped, CallFits
  <2> QED BY <1>2, <2>2
<1>6. CASE createEvent
  <2>1. call' = call /\ stage = "events" /\ stage' \in {"running", "exited"}
    BY <1>6 DEF createEvent
  <2>2. SocketsTypeOK' /\ CallTyped' /\ CallFits'
    BY <1>1, <2>1 DEF SocketsTypeOK, CallTyped, CallFits
  <2> QED BY <1>2, <2>2
<1> QED BY <1>3, <1>4, <1>5, <1>6

LEMMA SocketsInvariant == SocketsSpec => []SocketsInv
<1>1. SocketsInv /\ [SocketsNext]_socketVars => SocketsInv'
  <2>1. SocketsInv /\ UNCHANGED socketVars => SocketsInv'
    BY DEF socketVars, SocketsInv, SocketsTypeOK, CallTyped, CallFits, SocketsAccounted
  <2> QED BY <2>1, ConnectRound, ServerRound, OwnerTakes, CallBegins DEF SocketsNext
<1> QED BY <1>1, SocketsStart, PTL DEF SocketsSpec

(* The stages, the numbers and the call that is made keep their types.     *)
THEOREM SocketsTyped == SocketsSpec => []SocketsTypeOK
<1>1. SocketsInv => SocketsTypeOK
  BY DEF SocketsInv
<1> QED BY <1>1, SocketsInvariant, PTL

(* Whichever system calls of connects and servers fail, a socket that is   *)
(* open is about to be returned or has exactly one owner.                  *)
THEOREM NoSocketIsLost == SocketsSpec => []SocketsAccounted
<1>1. SocketsInv => SocketsAccounted
  BY DEF SocketsInv
<1> QED BY <1>1, SocketsInvariant, PTL
-----------------------------------------------------------------------------
(* Reads and writes with a time-out                                        *)

(* What the call has taken from the stream.                                *)
Took == SubSeq(arrived, start + 1, taken)

IsPlain(line) == \A k \in DOMAIN line : line[k] # "LF"

(* In the middle of a call, the buffer is what it took.                    *)
SoFar ==
  /\ io \in {"read", "line"} => ptr = Took
  /\ io = "read" => size >= 0
  /\ io = "line" => IsPlain(ptr) /\ (size = -1 => ptr = << >>)

Told ==
  io = "none" /\ answer >= 0 =>
    /\ last = "read" => ptr = Took /\ answer = Len(ptr)
    /\ last = "line" =>
         /\ IsPlain(ptr)
         /\ answer > 0 => answer = Len(ptr)
         /\ Took = ptr \/ Took = ptr \o <<"LF">> \/ Took = ptr \o <<"CR", "LF">>
         /\ Took = ptr /\ answer > 0 => size = 0
    /\ last = "write" => answer = Len(moved)

InPlaces == \A k \in DOMAIN moved : moved[k] = k

SyncInv == SyncTypeOK /\ SoFar /\ Told /\ InPlaces

LEMMA TookTyped ==
  ASSUME SyncTypeOK
  PROVE  Took \in Seq(Bytes) /\ Len(Took) = taken - start
<1>1. taken \in Nat /\ start \in Nat /\ start <= taken /\ taken <= Len(arrived)
  BY DEF SyncTypeOK
<1>2. \A i \in (start + 1)..taken : arrived[i] \in Bytes
  BY <1>1 DEF SyncTypeOK
<1> QED BY <1>1, <1>2, SubSeqProperties DEF Took

(* Two pieces that meet are one.                                           *)
LEMMA TwoPieces ==
  ASSUME NEW S, NEW q \in Seq(S), NEW a \in Nat, NEW b \in Nat, NEW c \in Nat,
         a <= b, b <= c, c <= Len(q)
  PROVE  SubSeq(q, a + 1, c) = SubSeq(q, a + 1, b) \o SubSeq(q, b + 1, c)
<1> DEFINE left  == SubSeq(q, a + 1, b)
           right == SubSeq(q, b + 1, c)
           whole == SubSeq(q, a + 1, c)
<1>1. \A i \in (a + 1)..c : q[i] \in S
  OBVIOUS
<1>2. left \in Seq(S) /\ Len(left) = b - a /\ \A i \in 1..(b - a) : left[i] = q[a + i]
  BY <1>1, SubSeqProperties
<1>3. right \in Seq(S) /\ Len(right) = c - b /\ \A i \in 1..(c - b) : right[i] = q[b + i]
  BY <1>1, SubSeqProperties
<1>4. whole \in Seq(S) /\ Len(whole) = c - a /\ \A i \in 1..(c - a) : whole[i] = q[a + i]
  BY <1>1, SubSeqProperties
<1> HIDE DEF left, right, whole
<1>5. /\ left \o right \in Seq(S) /\ Len(left \o right) = c - a
      /\ \A i \in 1..(c - a) : (left \o right)[i] = q[a + i]
  <2>1. /\ left \o right \in Seq(S)
        /\ Len(left \o right) = Len(left) + Len(right)
        /\ \A i \in 1..(Len(left) + Len(right)) :
             (left \o right)[i] = IF i <= Len(left) THEN left[i] ELSE right[i - Len(left)]
    BY <1>2, <1>3, ConcatProperties
  <2>2. ASSUME NEW i \in 1..(c - a) PROVE (left \o right)[i] = q[a + i]
    <3>1. CASE i <= b - a
      BY <1>2, <1>3, <2>1, <3>1
    <3>2. CASE ~(i <= b - a)
      <4>1. PICK j \in 1..(c - b) : j = i - (b - a)
        BY <3>2
      <4>2. j = i - Len(left) /\ b + j = a + i
        BY <1>2, <4>1
      <4>3. i \in 1..(Len(left) + Len(right)) /\ ~(i <= Len(left))
        BY <1>2, <1>3, <3>2
      <4>4. (left \o right)[i] = right[j]
        BY <2>1, <4>2, <4>3
      <4>5. right[j] = q[b + j]
        BY <1>3
      <4>6. right[j] = q[a + i]
        BY <4>2, <4>5
      <4> QED BY <4>4, <4>6
    <3> QED BY <3>1, <3>2
  <2>3. Len(left) + Len(right) = c - a
    BY <1>2, <1>3
  <2>4. Len(left \o right) = c - a
    BY <2>1, <2>3
  <2> QED BY <2>1, <2>2, <2>4
<1>6. whole = left \o right
  BY <1>4, <1>5, SeqEqual
<1> QED BY <1>6 DEF left, right, whole

LEMMA OnePiece ==
  ASSUME NEW S, NEW q \in Seq(S), NEW k \in 1..Len(q)
  PROVE  SubSeq(q, k, k) = <<q[k]>>
<1>1. k \in Int /\ q[k] \in S /\ \A i \in k..k : q[i] \in S
  OBVIOUS
<1>2. SubSeq(q, k, k) = <<q[k]>> \o SubSeq(q, k + 1, k)
  BY <1>1, SubSeqRecursiveFirst
<1>3. SubSeq(q, k + 1, k) = << >>
  BY <1>1, SubSeqEmpty
<1>4. <<q[k]>> \in Seq(S) /\ <<q[k]>> \o << >> = <<q[k]>>
  BY <1>1, ConcatEmptySeq
<1> QED BY <1>2, <1>3, <1>4

LEMMA WithoutLast ==
  ASSUME NEW S, NEW q \in Seq(S), NEW f, f = SubSeq(q, 1, Len(q) - 1), Len(q) # 0
  PROVE  /\ f \in Seq(S) /\ Len(f) = Len(q) - 1
         /\ \A i \in 1..(Len(q) - 1) : f[i] = q[i]
<1>1. PICK n \in Nat : n = Len(q) - 1
  OBVIOUS
<1>2. f = SubSeq(q, 1, n) /\ \A i \in 1..n : q[i] \in S
  BY <1>1
<1>3. f \in Seq(S) /\ Len(f) = n /\ \A i \in 1..n : f[i] = q[i]
  BY <1>2, SubSeqProperties
<1> QED BY <1>1, <1>3

LEMMA CRThenLF ==
  ASSUME NEW q \in Seq(Bytes)
  PROVE  (q \o <<"CR">>) \o <<"LF">> = q \o <<"CR", "LF">>
<1>1. <<"CR">> \in Seq(Bytes) /\ <<"LF">> \in Seq(Bytes)
  BY DEF Bytes
<1>2. (q \o <<"CR">>) \o <<"LF">> = q \o (<<"CR">> \o <<"LF">>)
  BY <1>1, ConcatAssociative
<1>3. <<"CR">> \o <<"LF">> = Append(<<"CR">>, "LF")
  BY <1>1, AppendIsConcat DEF Bytes
<1>4. Append(<<"CR">>, "LF") = <<"CR", "LF">>
  <2>1. "LF" \in Bytes /\ <<"CR", "LF">> \in Seq(Bytes) /\ Len(<<"CR", "LF">>) = 2
    BY DEF Bytes
  <2>2. /\ Append(<<"CR">>, "LF") \in Seq(Bytes) /\ Len(Append(<<"CR">>, "LF")) = 2
        /\ Append(<<"CR">>, "LF")[1] = "CR" /\ Append(<<"CR">>, "LF")[2] = "LF"
    BY <1>1, <2>1, AppendProperties
  <2>3. \A i \in 1..2 : Append(<<"CR">>, "LF")[i] = <<"CR", "LF">>[i]
    BY <2>2
  <2> QED BY <2>1, <2>2, <2>3, SeqEqual
<1> QED BY <1>2, <1>3, <1>4

(* What is taken next comes behind it.                                     *)
LEMMA TookGrows ==
  ASSUME SyncTypeOK, NEW n \in Nat, taken + n <= Len(arrived)
  PROVE  SubSeq(arrived, start + 1, taken + n) = Took \o SubSeq(arrived, taken + 1, taken + n)
<1>1. start \in Nat /\ taken \in Nat /\ start <= taken /\ arrived \in Seq(Bytes)
  BY DEF SyncTypeOK
<1> QED BY <1>1, TwoPieces DEF Took

(* What arrives changes nothing of it.                                     *)
LEMMA TookKept ==
  ASSUME SyncTypeOK, NEW b \in Bytes
  PROVE  SubSeq(Append(arrived, b), start + 1, taken) = Took
<1>1. /\ taken \in Nat /\ start \in Nat /\ start <= taken /\ taken <= Len(arrived)
      /\ arrived \in Seq(Bytes)
  BY DEF SyncTypeOK
<1>2. CASE start = taken
  BY <1>1, <1>2, SubSeqEmpty DEF Took
<1>3. CASE start < taken
  <2>1. Append(arrived, b) = arrived \o <<b>> /\ <<b>> \in Seq(Bytes)
    BY <1>1, AppendIsConcat
  <2>2. start + 1 \in 1..Len(arrived) /\ taken \in 1..Len(arrived)
    BY <1>1, <1>3
  <2> QED BY <1>1, <2>1, <2>2, SubSeqOfConcat1 DEF Took
<1> QED BY <1>1, <1>2, <1>3

LEMMA SyncStarts == SyncInit => SyncInv
<1> SUFFICES ASSUME SyncInit PROVE SyncInv
  OBVIOUS
<1> USE SyncAssumption DEF SyncInit
<1>1. SyncTypeOK
  BY DEF SyncTypeOK
<1>2. SoFar /\ Told /\ InPlaces
  BY DEF SoFar, Told, InPlaces
<1> QED BY <1>1, <1>2 DEF SyncInv

LEMMA PeerKeeps == SyncInv /\ PeerSends => SyncInv'
<1> SUFFICES ASSUME SyncInv, PeerSends PROVE SyncInv'
  OBVIOUS
<1>1. PICK b \in Bytes : arrived' = Append(arrived, b)
  BY DEF PeerSends
<1>2. UNCHANGED <<taken, io, size, ptr, moved, answer, start, last>>
  BY DEF PeerSends
<1>3. Took' = Took
  BY <1>1, <1>2, TookKept DEF Took, SyncInv
<1>4. SyncTypeOK'
  BY <1>1, <1>2 DEF SyncInv, SyncTypeOK
<1>5. SoFar' /\ Told' /\ InPlaces'
  BY <1>2, <1>3 DEF SyncInv, SoFar, Told, InPlaces, IsPlain
<1> QED BY <1>4, <1>5 DEF SyncInv

LEMMA CallKeeps == SyncInv /\ Call => SyncInv'
<1> SUFFICES ASSUME SyncInv, Call PROVE SyncInv'
  OBVIOUS
<1> USE SyncAssumption DEF SyncInv
<1>1. /\ \/ io' \in {"read", "write"} /\ size' \in 0..MaxSize
         \/ io' = "line" /\ size' \in -1..MaxSize
      /\ ptr' = << >> /\ moved' = << >> /\ start' = taken
      /\ UNCHANGED <<arrived, taken, answer, last>>
  BY DEF Call
<1>2. SyncTypeOK'
  BY <1>1 DEF SyncTypeOK
<1>3. Took' = << >>
  BY <1>1, SubSeqEmpty DEF Took, SyncTypeOK
<1>4. SoFar' /\ Told' /\ InPlaces'
  BY <1>1, <1>3 DEF SoFar, Told, InPlaces, IsPlain
<1> QED BY <1>2, <1>4

LEMMA ReadKeeps == SyncInv /\ (ReadEnds \/ ReadSome) => SyncInv'
<1> SUFFICES ASSUME SyncInv, ReadEnds \/ ReadSome PROVE SyncInv'
  OBVIOUS
<1> USE SyncAssumption DEF SyncInv
<1>1. CASE ReadEnds
  <2>1. /\ io = "read" /\ io' = "none" /\ last' = "read" /\ answer' = Len(ptr)
        /\ UNCHANGED <<arrived, taken, size, ptr, moved, start>>
    BY <1>1 DEF ReadEnds, Answers
  <2>2. SyncTypeOK'
    BY <2>1 DEF SyncTypeOK
  <2>3. Took' = Took
    BY <2>1 DEF Took
  <2>4. SoFar' /\ Told' /\ InPlaces'
    BY <2>1, <2>3 DEF SoFar, Told, InPlaces
  <2> QED BY <2>2, <2>4
<1>2. CASE ReadSome
  <2>1. PICK n \in 1..size :
          /\ n <= Waiting
          /\ ptr' = ptr \o SubSeq(arrived, taken + 1, taken + n)
          /\ taken' = taken + n /\ size' = size - n
          /\ IF n = size THEN Answers(Len(ptr')) ELSE GoesOn
    BY <1>2 DEF ReadSome, Filled
  <2>2. io = "read" /\ UNCHANGED <<arrived, moved, start>> /\ ptr = Took
    BY <1>2 DEF ReadSome, SoFar
  <2>3. n \in Nat /\ taken + n <= Len(arrived) /\ size - n >= 0 /\ size \in Int
    BY <2>1, <2>2 DEF Waiting, SyncTypeOK, SoFar
  <2>4. Took' = ptr'
    BY <2>1, <2>2, <2>3, TookGrows DEF Took
  <2>5. SyncTypeOK'
    <3>1. taken' \in 0..Len(arrived') /\ start' \in 0..taken' /\ size' \in -1..MaxSize
      BY <2>1, <2>2, <2>3 DEF SyncTypeOK
    <3>2. SubSeq(arrived, taken + 1, taken + n) \in Seq(Bytes)
      <4>1. \A i \in (taken + 1)..(taken + n) : arrived[i] \in Bytes
        BY <2>3 DEF SyncTypeOK
      <4> QED BY <2>3, <4>1, SubSeqProperties DEF SyncTypeOK
    <3>3. ptr' \in Seq(Bytes)
      BY <2>1, <3>2 DEF SyncTypeOK
    <3>4. io' \in {"none", "read"} /\ last' \in {"read", last} /\ answer' \in Int
      BY <2>1, <2>2, <3>3 DEF SyncTypeOK, Answers, GoesOn
    <3> QED BY <2>2, <3>1, <3>3, <3>4 DEF SyncTypeOK
  <2>6. SoFar' /\ InPlaces'
    BY <2>1, <2>2, <2>3, <2>4 DEF SoFar, InPlaces, Answers, GoesOn
  <2>7. Told'
    BY <2>1, <2>2, <2>4 DEF Told, Answers, GoesOn
  <2> QED BY <2>5, <2>6, <2>7
<1> QED BY <1>1, <1>2

(* A line ends at an end of line, which is not kept, or where the buffer   *)
(* is full; otherwise the answer is 0.                                     *)
LEMMA LineKeeps == SyncInv /\ (LineEnds \/ LineByte) => SyncInv'
<1> SUFFICES ASSUME SyncInv, LineEnds \/ LineByte PROVE SyncInv'
  OBVIOUS
<1> USE SyncAssumption DEF SyncInv
<1>1. CASE LineEnds
  <2>1. /\ io = "line" /\ io' = "none" /\ last' = "line"
        /\ answer' = IF size > 0 THEN 0 ELSE Len(ptr)
        /\ UNCHANGED <<arrived, taken, size, ptr, moved, start>>
    BY <1>1 DEF LineEnds, Answers
  <2>2. SyncTypeOK'
    BY <2>1 DEF SyncTypeOK
  <2>3. Took' = Took /\ ptr = Took /\ IsPlain(ptr)
    BY <2>1 DEF Took, SoFar
  <2>4. answer' > 0 => answer' = Len(ptr) /\ size = 0
    BY <2>1 DEF SoFar, SyncTypeOK
  <2>5. SoFar' /\ Told' /\ InPlaces'
    BY <2>1, <2>3, <2>4 DEF SoFar, Told, InPlaces
  <2> QED BY <2>2, <2>5
<1>2. CASE LineByte
  <2>1. /\ io = "line" /\ size > 0 /\ taken' = taken + 1
        /\ UNCHANGED <<arrived, moved, start>> /\ ptr = Took /\ IsPlain(ptr)
        /\ taken + 1 <= Len(arrived)
    BY <1>2 DEF LineByte, Waiting, SoFar, SyncTypeOK
  <2>2. Took' = ptr \o <<arrived[taken + 1]>>
    <3>1. SubSeq(arrived, taken + 1, taken + 1) = <<arrived[taken + 1]>>
      BY <2>1, OnePiece DEF SyncTypeOK
    <3> QED BY <2>1, <3>1, TookGrows DEF Took
  <2>3. taken' \in 0..Len(arrived') /\ start' \in 0..taken' /\ arrived[taken + 1] \in Bytes
    BY <2>1 DEF SyncTypeOK
  <2>4. CASE arrived[taken'] = "LF"
    <3>1. /\ ptr' = IF ptr = << >> THEN ptr ELSE WithoutCR(ptr)
          /\ io' = "none" /\ last' = "line" /\ answer' = Len(ptr') /\ size' = size
      BY <1>2, <2>1, <2>4 DEF LineByte, Answers
    <3>2. /\ ptr' \in Seq(Bytes) /\ IsPlain(ptr')
          /\ ptr = ptr' \/ ptr = ptr' \o <<"CR">>
      <4>1. CASE ptr = << >> \/ ptr[Len(ptr)] # "CR"
        BY <2>1, <3>1, <4>1 DEF WithoutCR, Last, SyncTypeOK
      <4>2. CASE ptr # << >> /\ ptr[Len(ptr)] = "CR"
        <5>1. ptr \in Seq(Bytes) /\ Len(ptr) \in Nat \ {0}
          BY <4>2 DEF SyncTypeOK
        <5>2. ptr' = SubSeq(ptr, 1, Len(ptr) - 1)
          BY <3>1, <4>2 DEF WithoutCR, Last, Front
        <5>3. /\ ptr' \in Seq(Bytes) /\ Len(ptr') = Len(ptr) - 1
              /\ \A i \in 1..(Len(ptr) - 1) : ptr'[i] = ptr[i]
          BY <5>1, <5>2, WithoutLast
        <5>4. ptr = ptr' \o <<"CR">>
          BY <4>2, <5>1, <5>3, SeqEqual, ConcatProperties DEF Bytes
        <5> QED BY <2>1, <5>1, <5>3, <5>4 DEF IsPlain
      <4> QED BY <4>1, <4>2
    <3>3. Took' = ptr' \o <<"LF">> \/ Took' = ptr' \o <<"CR", "LF">>
      BY <2>1, <2>2, <2>4, <3>2, CRThenLF
    <3>4. Took' # ptr'
      BY <3>2, <3>3
    <3>5. SyncTypeOK'
      BY <2>1, <2>3, <3>1, <3>2 DEF SyncTypeOK
    <3>6. SoFar' /\ Told' /\ InPlaces'
      BY <2>1, <3>1, <3>2, <3>3, <3>4 DEF SoFar, Told, InPlaces
    <3> QED BY <3>5, <3>6
  <2>5. CASE arrived[taken'] # "LF"
    <3>1. /\ ptr' = Append(ptr, arrived[taken + 1]) /\ size' = size - 1
          /\ UNCHANGED <<io, last, answer>>
      BY <1>2, <2>1, <2>5 DEF LineByte, GoesOn
    <3>2. ptr' = Took' /\ ptr' \in Seq(Bytes) /\ IsPlain(ptr')
      BY <2>1, <2>2, <2>3, <2>5, <3>1 DEF IsPlain, SyncTypeOK
    <3>3. SyncTypeOK' /\ size' >= 0
      BY <2>1, <2>3, <3>1, <3>2 DEF SyncTypeOK
    <3>4. SoFar' /\ Told' /\ InPlaces'
      BY <2>1, <3>1, <3>2, <3>3 DEF SoFar, Told, InPlaces
    <3> QED BY <3>3, <3>4
  <2> QED BY <2>4, <2>5
<1> QED BY <1>1, <1>2

LEMMA WriteKeeps == SyncInv /\ (WriteSome \/ WriteEnds \/ Fails) => SyncInv'
<1> SUFFICES ASSUME SyncInv, WriteSome \/ WriteEnds \/ Fails PROVE SyncInv'
  OBVIOUS
<1> USE SyncAssumption DEF SyncInv
<1>1. UNCHANGED <<arrived, taken, size, ptr, start>> /\ Took' = Took
  BY DEF WriteSome, WriteEnds, Fails, Took
<1>2. moved' \in Seq(Nat) /\ InPlaces'
  <2>1. CASE UNCHANGED moved
    BY <2>1 DEF InPlaces, SyncTypeOK
  <2>2. CASE WriteSome
    <3>1. PICK n \in 1..(size - Len(moved)) : moved' = moved \o [k \in 1..n |-> Len(moved) + k]
      BY <2>2 DEF WriteSome, FromRest, Places
    <3>2. [k \in 1..n |-> Len(moved) + k] \in Seq(Nat) /\ Len([k \in 1..n |-> Len(moved) + k]) = n
      BY <3>1 DEF SyncTypeOK
    <3> DEFINE more == [k \in 1..n |-> Len(moved) + k]
    <3>3. \A k \in 1..n : more[k] = Len(moved) + k
      OBVIOUS
    <3> HIDE DEF more
    <3>4. moved' = moved \o more /\ more \in Seq(Nat) /\ Len(more) = n
      BY <3>1, <3>2 DEF more
    <3> QED BY <3>1, <3>3, <3>4, ConcatProperties DEF InPlaces, SyncTypeOK
  <2> QED BY <2>1, <2>2 DEF WriteEnds, Fails
<1>3. \/ /\ io = "write" /\ io' = "none" /\ last' = "write" /\ answer' = Len(moved')
      \/ io = "write" /\ UNCHANGED <<io, last, answer>>
      \/ io # "none" /\ io' = "none" /\ last' = io /\ answer' = -1
  BY DEF WriteSome, WriteEnds, Fails, Answers, GoesOn
<1>4. SyncTypeOK'
  BY <1>1, <1>2, <1>3 DEF SyncTypeOK
<1>5. SoFar' /\ Told'
  BY <1>1, <1>3 DEF SoFar, Told
<1> QED BY <1>2, <1>4, <1>5

LEMMA SyncInvariant == SyncSpec => []SyncInv
<1>1. SyncInv /\ [SyncNext]_syncVars => SyncInv'
  <2>1. SyncInv /\ UNCHANGED syncVars => SyncInv'
    BY DEF syncVars, SyncInv, SyncTypeOK, SoFar, Told, InPlaces, Took
  <2> QED BY <2>1, PeerKeeps, CallKeeps, ReadKeeps, LineKeeps, WriteKeeps DEF SyncNext
<1> QED BY <1>1, SyncStarts, PTL DEF SyncSpec

(* The buffer, the counts and the answers keep their types.                *)
THEOREM SyncTyped == SyncSpec => []SyncTypeOK
<1>1. SyncInv => SyncTypeOK
  BY DEF SyncInv
<1> QED BY <1>1, SyncInvariant, PTL

(* In whatever pieces the bytes move, and wherever time, the stream or the *)
(* socket ends: what syncRead, syncReadLine and syncWrite tell is true.    *)
THEOREM ToldIsTrue == SyncSpec => []AnswersAreTrue
<1>1. SyncInv => AnswersAreTrue
  BY DEF SyncInv, Told, InPlaces, IsPlain, Took, AnswersAreTrue
<1> QED BY <1>1, SyncInvariant, PTL
-----------------------------------------------------------------------------
(* The link to an instance                                                 *)

(* While the link says that it is connected, its command context is open.  *)
LinkInv ==
  InstanceLinkTypeOK /\ ClosedIsSilent /\ (~disconnected => command = "open")

(* A queue is as it must be when its commands are of the types and of      *)
(* instances that have the link.                                           *)
Owned(q, others) == q \in Seq(Waits) /\ \A k \in DOMAIN q : q[k].privdata \notin others

LEMMA QueueOwned == LinkInv => Owned(queue, released) /\ released = Users \ users
  BY DEF LinkInv, InstanceLinkTypeOK, ClosedIsSilent, Owned, Waits

LEMMA OneMore ==
  ASSUME NEW q, NEW others, Owned(q, others), NEW f \in Callbacks,
         NEW p \in Users \cup {Sentinel, Nobody}, p \notin others
  PROVE  Owned(Queued(q, f, p), others)
<1> DEFINE w == [fn |-> f, privdata |-> p]
<1>1. w \in Waits /\ w.privdata = p
  BY DEF Waits
<1> HIDE DEF w
<1>2. Append(q, w) \in Seq(Waits) /\ Len(Append(q, w)) = Len(q) + 1
      /\ \A k \in 1..Len(q) : Append(q, w)[k] = q[k]
      /\ Append(q, w)[Len(q) + 1] = w
  BY <1>1, AppendProperties DEF Owned
<1>3. ASSUME NEW k \in DOMAIN Append(q, w) PROVE Append(q, w)[k].privdata \notin others
  <2>1. k \in 1..Len(q) \/ k = Len(q) + 1
    BY <1>2 DEF Owned
  <2> QED BY <1>1, <1>2, <2>1 DEF Owned
<1>4. Queued(q, f, p) = Append(q, w)
  BY DEF Queued, w
<1> QED BY <1>2, <1>3, <1>4 DEF Owned

LEMMA FiveMore ==
  ASSUME NEW q, NEW others, Owned(q, others), NEW p \in Users, p \notin others
  PROVE  Owned(q \o [k \in 1..5 |-> [fn |-> "discard", privdata |-> p]], others)
<1> DEFINE more == [k \in 1..5 |-> [fn |-> "discard", privdata |-> p]]
<1>1. more \in Seq(Waits) /\ Len(more) = 5 /\ \A k \in 1..5 : more[k].privdata = p
  BY DEF Waits, Callbacks
<1> HIDE DEF more
<1>2. /\ q \o more \in Seq(Waits) /\ Len(q \o more) = Len(q) + Len(more)
      /\ \A k \in 1..(Len(q) + Len(more)) :
           (q \o more)[k] = IF k <= Len(q) THEN q[k] ELSE more[k - Len(q)]
  BY <1>1, ConcatProperties DEF Owned
<1>3. ASSUME NEW k \in DOMAIN (q \o more) PROVE (q \o more)[k].privdata \notin others
  <2>1. k \in 1..(Len(q) + Len(more)) /\ Len(q) \in Nat
    BY <1>1, <1>2 DEF Owned
  <2>2. CASE k <= Len(q)
    BY <1>2, <2>1, <2>2 DEF Owned
  <2>3. CASE ~(k <= Len(q))
    <3>1. k - Len(q) \in 1..5
      BY <1>1, <2>1, <2>3
    <3> QED BY <1>1, <1>2, <2>1, <2>3, <3>1
  <2> QED BY <2>2, <2>3
<1> QED BY <1>2, <1>3 DEF Owned, more

LEMMA OneLess ==
  ASSUME NEW q, NEW others, Owned(q, others), q # << >>
  PROVE  Owned(Tail(q), others)
<1>1. /\ Tail(q) \in Seq(Waits) /\ Len(Tail(q)) = Len(q) - 1
      /\ \A k \in 1..Len(Tail(q)) : Tail(q)[k] = q[k + 1]
  BY HeadTailProperties DEF Owned
<1>2. ASSUME NEW k \in DOMAIN Tail(q) PROVE Tail(q)[k].privdata \notin others
  <2>1. k \in 1..Len(Tail(q)) /\ k + 1 \in DOMAIN q
    BY <1>1 DEF Owned
  <2> QED BY <1>1, <2>1 DEF Owned
<1> QED BY <1>1, <1>2 DEF Owned

(* An instance that gives the link back is in none of its commands.        *)
LEMMA NoneOfIt ==
  ASSUME NEW q, NEW others, Owned(q, others), others \subseteq Users, NEW i \in Users
  PROVE  Owned(Disowned(q, i), others \cup {i})
<1> DEFINE d == Disowned(q, i)
<1>1. Nobody \notin Users
  BY InstanceLinkAssumption DEF Nobody
<1>2. ASSUME NEW k \in DOMAIN q
      PROVE  d[k] \in Waits /\ d[k].privdata \notin others \cup {i}
  <2>1. CASE q[k].privdata = i
    <3>1. d[k] = [fn |-> "discard", privdata |-> Nobody]
      BY <2>1 DEF Disowned
    <3> QED BY <1>1, <3>1 DEF Waits, Callbacks
  <2>2. CASE q[k].privdata # i
    <3>1. d[k] = q[k]
      BY <2>2 DEF Disowned
    <3> QED BY <2>2, <3>1 DEF Owned
  <2> QED BY <2>1, <2>2
<1>3. d \in Seq(Waits) /\ DOMAIN d = DOMAIN q
  <2>1. DOMAIN q = 1..Len(q) /\ Len(q) \in Nat
    BY DEF Owned
  <2>2. d = [k \in 1..Len(q) |-> d[k]]
    BY <2>1 DEF Disowned
  <2> QED BY <1>2, <2>1, <2>2, IsASeq
<1> QED BY <1>2, <1>3 DEF Owned

(* What CloseCommand leaves: no command, no event and, of an open          *)
(* connection, no count.                                                   *)
LEMMA Silent ==
  ASSUME LinkInv, NEW count, CloseCommand(count)
  PROVE  /\ command' # "open" /\ command' \in {"none", "closed", "lost"}
         /\ queue' = << >> /\ mask' = {} /\ hooks' \subseteq Hooks
         /\ command = "open" => command' = "closed" /\ pendingCommands' = 0
         /\ command # "open" => command' = command /\ pendingCommands' = count
<1>1. CASE command = "open"
  BY <1>1 DEF CloseCommand, CleanUp, Freed, Drained, LinkInv, ClosedIsSilent
<1>2. CASE command # "open"
  BY <1>2 DEF CloseCommand, LinkInv, ClosedIsSilent, InstanceLinkTypeOK
<1> QED BY <1>1, <1>2

LEMMA LinkStarts == InstanceLinkInit => LinkInv
<1> SUFFICES ASSUME InstanceLinkInit PROVE LinkInv
  OBVIOUS
<1>1. queue = << >> /\ << >> \in Seq(Waits)
  BY DEF InstanceLinkInit
<1>2. InstanceLinkTypeOK
  <2>1. sincePong \in 0..(PingPeriod + 1)
    BY InstanceLinkAssumption DEF InstanceLinkInit
  <2>2. users \subseteq Users /\ released = Users \ users
    BY DEF InstanceLinkInit
  <2>3. /\ command \in {"none", "open", "closed", "lost"} /\ pubsub \in BOOLEAN
        /\ disconnected \in BOOLEAN /\ link \in {"alive", "crashed"}
    BY DEF InstanceLinkInit
  <2>4. pendingCommands \in Int /\ hooks \subseteq Hooks /\ mask \subseteq Hooks
    BY DEF InstanceLinkInit
  <2>5. queue \in Seq(Waits)
    BY <1>1
  <2> QED BY <2>1, <2>2, <2>3, <2>4, <2>5 DEF InstanceLinkTypeOK
<1>3. ClosedIsSilent
  BY <1>1 DEF InstanceLinkInit, ClosedIsSilent
<1> QED BY <1>2, <1>3 DEF LinkInv, InstanceLinkInit

LEMMA LinkIsSilent ==
  ASSUME LinkInv, pendingCommands' \in Int, users' \subseteq Users, released' = Users \ users',
         disconnected' = TRUE, sincePong' \in {0, sincePong}, UNCHANGED link,
         pubsub' \in {FALSE, pubsub}, command' # "open", command' \in {"none", "closed", "lost"},
         queue' = << >>, mask' = {}, hooks' \subseteq Hooks,
         command' = "closed" => pendingCommands' = 0
  PROVE  LinkInv'
<1>1. InstanceLinkTypeOK'
  <2>1. queue' \in Seq(Waits)
    OBVIOUS
  <2>2. sincePong' \in 0..(PingPeriod + 1)
    BY InstanceLinkAssumption DEF LinkInv, InstanceLinkTypeOK
  <2> QED BY <2>1, <2>2 DEF LinkInv, InstanceLinkTypeOK
<1> QED BY <1>1 DEF LinkInv, ClosedIsSilent

(* What closes a connection.                                               *)
LEMMA ClosingKeeps ==
  ASSUME LinkInv, pendingCommands' \in Int, closeConnection \/ reset \/ connectionError
  PROVE  LinkInv'
<1> USE InstanceLinkAssumption
<1>1. /\ UNCHANGED <<users, released>> /\ disconnected' = TRUE
      /\ users' \subseteq Users /\ released' = Users \ users'
  BY DEF closeConnection, reset, connectionError, LinkInv, InstanceLinkTypeOK
<1>2. sincePong' \in {0, sincePong} /\ UNCHANGED link /\ pubsub' \in {FALSE, pubsub}
  BY DEF closeConnection, reset, connectionError
<1>3. CASE \E count \in {0, pendingCommands} : CloseCommand(count)
  <2>1. PICK count \in {0, pendingCommands} : CloseCommand(count)
    BY <1>3
  <2>2. /\ command' # "open" /\ command' \in {"none", "closed", "lost"}
        /\ queue' = << >> /\ mask' = {} /\ hooks' \subseteq Hooks
        /\ command' = "closed" => pendingCommands' = 0
    BY <2>1, Silent DEF LinkInv, ClosedIsSilent
  <2> QED BY <1>1, <1>2, <2>2, LinkIsSilent
<1>4. CASE UNCHANGED <<command, pendingCommands, queue, hooks, mask>>
  <2>1. ClosedIsSilent'
    BY <1>1, <1>4 DEF LinkInv, ClosedIsSilent
  <2>2. InstanceLinkTypeOK'
    <3>1. sincePong' \in 0..(PingPeriod + 1)
      BY <1>2, InstanceLinkAssumption DEF LinkInv, InstanceLinkTypeOK
    <3> QED BY <1>1, <1>2, <1>4, <3>1 DEF LinkInv, InstanceLinkTypeOK
  <2> QED BY <1>1, <2>1, <2>2 DEF LinkInv
<1>5. CASE connectionError
  <2>1. /\ command' = "lost" /\ queue' = << >> /\ mask' = {} /\ hooks' = {}
    BY <1>5 DEF connectionError, CleanUp, LinkInv, ClosedIsSilent
  <2> QED BY <1>1, <1>2, <2>1, LinkIsSilent
<1> QED BY <1>3, <1>4, <1>5 DEF closeConnection, reset

LEMMA ConnectKeeps ==
  ASSUME LinkInv, Connect \/ AskForEvents \/ TimePasses
  PROVE  LinkInv'
<1> USE InstanceLinkAssumption DEF LinkInv, InstanceLinkTypeOK, ClosedIsSilent
<1>1. CASE Connect
  BY <1>1 DEF Connect
<1>2. CASE AskForEvents
  BY <1>2 DEF AskForEvents, AddHook, DelHook
<1>3. CASE TimePasses
  BY <1>3 DEF TimePasses
<1> QED BY <1>1, <1>2, <1>3

(* What leaves the users alone and queues commands of theirs, or answers.  *)
LEMMA SendingKeeps ==
  ASSUME LinkInv, pendingCommands' \in Int, command = "open", Owned(queue', released),
         UNCHANGED <<users, released, command, pubsub, disconnected>>,
         sincePong' \in {0, sincePong}, link' \in {"alive", "crashed"},
         AddHook("WRITABLE") \/ UNCHANGED <<hooks, mask>>
  PROVE  LinkInv'
<1>1. hooks' = mask' /\ mask' \subseteq Hooks
  BY DEF AddHook, LinkInv, InstanceLinkTypeOK, ClosedIsSilent, Hooks
<1> QED BY <1>1, InstanceLinkAssumption
      DEF LinkInv, InstanceLinkTypeOK, ClosedIsSilent, Owned, Waits

LEMMA CommandsKeep ==
  ASSUME LinkInv, pendingCommands' \in Int, NEW i \in Users,
         sendPeriodicCommands(i) \/ setClientName(i) \/ sendSlaveOf(i)
  PROVE  LinkInv'
<1>1. Owned(queue, released) /\ i \notin released
  BY QueueOwned DEF sendPeriodicCommands, setClientName, sendSlaveOf
<1>2. Sentinel \notin released /\ "ping" \in Callbacks /\ "publish" \in Callbacks /\ "discard" \in Callbacks
  BY InstanceLinkAssumption, QueueOwned DEF Sentinel, Callbacks
<1>3. /\ command = "open" /\ UNCHANGED <<users, released, command, pubsub, disconnected, sincePong, link>>
      /\ AddHook("WRITABLE") \/ UNCHANGED <<hooks, mask>>
  BY DEF sendPeriodicCommands, setClientName, sendSlaveOf, LinkInv
<1>4. Owned(queue', released)
  <2>1. Owned(sendPing(queue, i), released)
    BY <1>1, <1>2, OneMore DEF sendPing
  <2>2. Owned(sendHello(sendPing(queue, i)), released)
    <3>1. Sentinel \in Users \cup {Sentinel, Nobody}
      OBVIOUS
    <3> QED BY <1>2, <2>1, <3>1, OneMore DEF sendHello
  <2>3. Owned(Queued(queue, "discard", i), released)
    BY <1>1, <1>2, OneMore
  <2>4. Owned(queue \o [k \in 1..5 |-> [fn |-> "discard", privdata |-> i]], released)
    BY <1>1, FiveMore
  <2> QED BY <2>1, <2>2, <2>3, <2>4 DEF sendPeriodicCommands, setClientName, sendSlaveOf
<1>5. link' \in {"alive", "crashed"}
  BY <1>3 DEF LinkInv, InstanceLinkTypeOK
<1> QED BY <1>3, <1>4, <1>5, SendingKeeps

LEMMA ReplyKeeps ==
  ASSUME LinkInv, pendingCommands' \in Int, Reply, link = "alive"
  PROVE  LinkInv'
<1>1. Owned(Tail(queue), released)
  BY QueueOwned, OneLess DEF Reply
<1>2. Head(queue).fn \in Callbacks
  <2>1. Head(queue) \in Waits
    BY HeadTailProperties DEF Reply, LinkInv, InstanceLinkTypeOK, Waits
  <2> QED BY <2>1 DEF Waits
<1>3. sincePong' \in {0, sincePong} /\ link' \in {"alive", "crashed"}
  BY <1>2 DEF Reply, discardCallback, pingCallback, publishCallback, Callbacks
<1> QED BY <1>1, <1>3, SendingKeeps DEF Reply

LEMMA SharingKeeps ==
  ASSUME LinkInv, pendingCommands' \in Int, NEW i \in Users, releaseLink(i) \/ shareLink(i)
  PROVE  LinkInv'
<1> USE InstanceLinkAssumption
<1>1. CASE shareLink(i)
  BY <1>1 DEF shareLink, LinkInv, InstanceLinkTypeOK, ClosedIsSilent
<1>2. CASE releaseLink(i) /\ users = {i}
  <2>1. /\ users' = users \ {i} /\ released' = released \cup {i}
        /\ CloseCommand(pendingCommands) /\ pubsub' = FALSE
        /\ disconnected' = (command = "open" \/ pubsub \/ disconnected)
        /\ UNCHANGED <<sincePong, link>>
    BY <1>2 DEF releaseLink
  <2>2. users' \subseteq Users /\ released' = Users \ users'
    BY <2>1 DEF LinkInv, InstanceLinkTypeOK
  <2>3. disconnected' = TRUE
    BY <2>1 DEF LinkInv, InstanceLinkTypeOK
  <2>4. /\ command' # "open" /\ command' \in {"none", "closed", "lost"}
        /\ queue' = << >> /\ mask' = {} /\ hooks' \subseteq Hooks
        /\ command' = "closed" => pendingCommands' = 0
    BY <2>1, Silent DEF LinkInv, ClosedIsSilent
  <2> QED BY <2>1, <2>2, <2>3, <2>4, LinkIsSilent
<1>3. CASE releaseLink(i) /\ users # {i}
  <2>1. /\ users' = users \ {i} /\ released' = released \cup {i}
        /\ queue' = IF command = "open" THEN Disowned(queue, i) ELSE queue
        /\ UNCHANGED <<command, pubsub, disconnected, pendingCommands, hooks, mask, sincePong, link>>
    BY <1>3 DEF releaseLink
  <2>2. users' \subseteq Users /\ released' = Users \ users'
    BY <2>1 DEF LinkInv, InstanceLinkTypeOK
  <2>3. Owned(queue', released') /\ (command # "open" => queue' = << >>)
    <3>1. CASE command = "open"
      BY <2>1, <3>1, QueueOwned, NoneOfIt
    <3>2. CASE command # "open"
      BY <2>1, <3>2 DEF LinkInv, ClosedIsSilent, Owned, Waits
    <3> QED BY <3>1, <3>2
  <2> QED BY <2>1, <2>2, <2>3 DEF LinkInv, InstanceLinkTypeOK, ClosedIsSilent, Owned, Waits
<1> QED BY <1>1, <1>2, <1>3

LEMMA LinkInvariant == InstanceLinkSpec => []LinkInv
<1>1. LinkInv /\ [InstanceLinkNext]_linkVars => LinkInv'
  <2>1. LinkInv /\ UNCHANGED linkVars => LinkInv'
    BY DEF linkVars, LinkInv, InstanceLinkTypeOK, ClosedIsSilent
  <2>2. ASSUME LinkInv, InstanceLinkNext PROVE LinkInv'
    <3>1. pendingCommands' \in Int /\ link = "alive"
      BY <2>2, InstanceLinkAssumption DEF InstanceLinkNext
    <3> QED BY <2>2, <3>1, ClosingKeeps, ConnectKeeps, ReplyKeeps, CommandsKeep, SharingKeeps
          DEF InstanceLinkNext
  <2> QED BY <2>1, <2>2
<1> QED BY <1>1, LinkStarts, PTL DEF InstanceLinkSpec

(* The connections, the count and the queue of a shared link keep their    *)
(* types, whoever shares it and gives it back.                             *)
THEOREM LinkTyped == InstanceLinkSpec => []InstanceLinkTypeOK
<1>1. LinkInv => InstanceLinkTypeOK
  BY DEF LinkInv
<1> QED BY <1>1, LinkInvariant, PTL

(* A command connection that is gone leaves no callback and no event, one  *)
(* that was closed no count; who gave the link back is in no callback; and *)
(* the flags of the adapter say what the loop watches.                     *)
THEOREM ClosedLinkIsSilent == InstanceLinkSpec => []ClosedIsSilent
<1>1. LinkInv => ClosedIsSilent
  BY DEF LinkInv
<1> QED BY <1>1, LinkInvariant, PTL
-----------------------------------------------------------------------------
(***************************************************************************)
(* The event loop and the clock.                                           *)
(*                                                                         *)
(* select() watches what has a handler, for any number of fds, whatever    *)
(* the handlers register and delete.  The only case with an argument is    *)
(* the deletion of the highest fd: NextLower names the highest that is     *)
(* left, for a set of numbers below a bound has a greatest one.            *)
(*                                                                         *)
(* No pass over the timers skips one that was due when the pass began,     *)
(* whatever the handlers create and delete on the way: what is due and has *)
(* not fired is at or after the iterator.  The hard step is the one that   *)
(* sorts the list in the middle of the pass: the sort is stable, and the   *)
(* timer that fired is put back with a later time, so that what is due     *)
(* stays ahead.                                                            *)
(*                                                                         *)
(* Tilt mode lasts until the clock has been regular for its period.  The   *)
(* history variable calm counts regular time and stops at the period;      *)
(* until it stops, calm is what lies between tiltStartTime and the last    *)
(* check.                                                                  *)
(***************************************************************************)

LEMMA GreatestExists ==
  ASSUME NEW n \in Nat, NEW T \in SUBSET (0..n), T # {}
  PROVE  \E x \in T : \A y \in T : y <= x
<1> DEFINE U == {n - x : x \in T}
           R == OpToRel(<, Nat)
<1>1. U \subseteq Nat /\ U # {}
  <2>1. ASSUME NEW x \in T PROVE n - x \in Nat
    OBVIOUS
  <2>2. U \subseteq Nat
    BY <2>1
  <2>3. PICK x \in T : TRUE
    OBVIOUS
  <2>4. n - x \in U
    OBVIOUS
  <2> QED BY <2>2, <2>4
<1>2. \E u \in U : \A v \in U : <<v, u>> \notin R
  <2>1. IsWellFoundedOn(R, Nat)
    BY NatLessThanWellFounded
  <2> HIDE DEF U, R
  <2> QED BY <1>1, <2>1, WFMin
<1>3. PICK u \in U : \A v \in U : <<v, u>> \notin R
  BY <1>2
<1>4. PICK x \in T : u = n - x
  BY <1>3
<1>5. ASSUME NEW y \in T PROVE y <= x
  <2>1. n - y \in U /\ n - y \in Nat /\ n - x \in Nat
    OBVIOUS
  <2>2. <<n - y, n - x>> \notin R
    BY <1>3, <1>4, <2>1
  <2>3. ~(n - y < n - x)
    BY <2>1, <2>2 DEF OpToRel
  <2> QED BY <2>3
<1> QED BY <1>5

(* The sets of fds that NextLower and EventLoopInit choose from.           *)
LEMMA GreatestFd ==
  ASSUME NEW T \in SUBSET EventFds, T # {}
  PROVE  LET g == CHOOSE x \in T : \A y \in T : y <= x
         IN g \in T /\ \A y \in T : y <= g
<1>1. SetSize - 1 \in Nat /\ T \in SUBSET (0..(SetSize - 1))
  <2>1. T \subseteq 0..(SetSize - 1) /\ SetSize \in Nat
    BY EventLoopAssumption DEF EventFds
  <2>2. PICK x \in T : x \in 0..(SetSize - 1)
    BY <2>1
  <2>3. SetSize - 1 \in Nat
    BY <2>1, <2>2
  <2> QED BY <2>1, <2>3
<1>2. \E x \in T : \A y \in T : y <= x
  BY <1>1, GreatestExists
<1> QED BY <1>2

WatchInv ==
  /\ fileEvents \in [EventFds -> Masks]
  /\ watched = fileEvents
  /\ maxfd \in EventFds \cup {-1}
  /\ \A fd \in EventFds : fileEvents[fd] # {} => fd <= maxfd

LEMMA WatchStarts == EventLoopInit => WatchInv
<1> SUFFICES ASSUME EventLoopInit PROVE WatchInv
  OBVIOUS
<1>1. fileEvents = [fd \in EventFds |-> IF fd \in Listening THEN {"READABLE"} ELSE {}]
  BY DEF EventLoopInit
<1>2. fileEvents \in [EventFds -> Masks] /\ watched = fileEvents
  BY <1>1 DEF EventLoopInit, Masks, ES
<1>3. CASE Listening = {}
  BY <1>1, <1>2, <1>3 DEF EventLoopInit, WatchInv
<1>4. CASE Listening # {}
  <2>1. maxfd = CHOOSE fd \in Listening : \A other \in Listening : other <= fd
    BY <1>4 DEF EventLoopInit
  <2>2. Listening \in SUBSET EventFds
    BY EventLoopAssumption DEF EventFds
  <2>3. maxfd \in Listening /\ \A fd \in Listening : fd <= maxfd
    BY <1>4, <2>1, <2>2, GreatestFd
  <2> QED BY <1>1, <1>2, <2>2, <2>3 DEF WatchInv
<1> QED BY <1>3, <1>4

LEMMA CreateWatches ==
  ASSUME WatchInv, NEW fd \in EventFds, NEW kinds \in Masks, createFileEvent(fd, kinds)
  PROVE  WatchInv'
<1>1. fileEvents' = [fileEvents EXCEPT ![fd] = @ \cup kinds] /\ watched' = fileEvents'
  BY DEF createFileEvent, WatchInv
<1>2. fileEvents' \in [EventFds -> Masks]
  BY <1>1 DEF WatchInv, Masks
<1>3. maxfd' \in EventFds \cup {-1} /\ maxfd <= maxfd' /\ fd <= maxfd'
  BY EventLoopAssumption DEF createFileEvent, Higher, WatchInv, EventFds
<1>4. ASSUME NEW g \in EventFds, fileEvents'[g] # {} PROVE g <= maxfd'
  <2>1. CASE g = fd
    BY <2>1, <1>3
  <2>2. CASE g # fd
    <3>1. fileEvents[g] # {}
      BY <1>1, <1>4, <2>2 DEF WatchInv
    <3>2. g <= maxfd /\ g \in Int /\ maxfd \in Int /\ maxfd' \in Int
      BY <3>1, <1>3, EventLoopAssumption DEF WatchInv, EventFds
    <3> QED BY <3>2, <1>3
  <2> QED BY <2>1, <2>2
<1> QED BY <1>1, <1>2, <1>3, <1>4 DEF WatchInv

LEMMA DeleteWatches ==
  ASSUME WatchInv, NEW fd \in EventFds, NEW kinds \in Masks, deleteFileEvent(fd, kinds)
  PROVE  WatchInv'
<1>1. CASE fileEvents[fd] = {}
  BY <1>1 DEF deleteFileEvent, WatchInv, fileVars
<1>2. CASE fileEvents[fd] # {}
  <2>1. /\ fileEvents' = [fileEvents EXCEPT ![fd] = @ \ kinds]
        /\ watched' = fileEvents'
        /\ maxfd' = IF fd = maxfd /\ fileEvents'[fd] = {} THEN NextLower(fileEvents') ELSE maxfd
    BY <1>2 DEF deleteFileEvent, WatchInv
  <2>2. fileEvents' \in [EventFds -> Masks]
    BY <2>1 DEF WatchInv, Masks
  <2>3. \A g \in EventFds : fileEvents'[g] # {} => g <= maxfd
    BY <2>1 DEF WatchInv
  <2>4. CASE ~(fd = maxfd /\ fileEvents'[fd] = {})
    BY <2>1, <2>2, <2>3, <2>4 DEF WatchInv
  <2>5. CASE fd = maxfd /\ fileEvents'[fd] = {}
    <3> DEFINE used == {g \in EventFds : g < maxfd /\ fileEvents'[g] # {}}
    <3>1. maxfd' = IF used = {} THEN maxfd
                   ELSE CHOOSE g \in used : \A other \in used : other <= g
      BY <2>1, <2>5 DEF NextLower
    <3>2. ASSUME NEW g \in EventFds, fileEvents'[g] # {} PROVE g \in used
      <4>1. g <= maxfd /\ g # maxfd
        BY <2>3, <2>5, <3>2
      <4>2. g \in Int /\ maxfd \in Int
        BY <2>5, EventLoopAssumption DEF EventFds
      <4> QED BY <3>2, <4>1, <4>2
    <3>3. CASE used = {}
      <4>1. maxfd' = maxfd
        BY <3>1, <3>3
      <4> QED BY <2>1, <2>2, <2>3, <4>1 DEF WatchInv
    <3>4. CASE used # {}
      <4>1. used \in SUBSET EventFds
        OBVIOUS
      <4>2. maxfd' = CHOOSE g \in used : \A other \in used : other <= g
        BY <3>1, <3>4
      <4> HIDE DEF used
      <4>3. maxfd' \in used /\ \A g \in used : g <= maxfd'
        BY <3>4, <4>1, <4>2, GreatestFd
      <4> QED BY <2>1, <2>2, <3>2, <4>1, <4>3 DEF WatchInv
    <3> QED BY <3>3, <3>4
  <2> QED BY <2>4, <2>5
<1> QED BY <1>1, <1>2

LEMMA WatchStep == WatchInv /\ [EventLoopNext]_eventLoopVars => WatchInv'
<1> SUFFICES ASSUME WatchInv, [EventLoopNext]_eventLoopVars PROVE WatchInv'
  OBVIOUS
<1>1. ASSUME UNCHANGED fileVars PROVE WatchInv'
  BY <1>1 DEF fileVars, WatchInv
<1>2. CASE HandleFile
  <2>1. FileHandlerActs
    BY <1>2 DEF HandleFile
  <2> QED BY <2>1, <1>1, CreateWatches, DeleteWatches DEF FileHandlerActs
<1>3. CASE Poll \/ BeginTimers \/ SkipTimer \/ FireTimer \/ EndTimers \/ ClockMoves
  BY <1>1, <1>3 DEF Poll, BeginTimers, SkipTimer, FireTimer, EndTimers, ClockMoves
<1>4. CASE UNCHANGED eventLoopVars
  BY <1>1, <1>4 DEF eventLoopVars
<1> QED BY <1>2, <1>3, <1>4 DEF EventLoopNext

(* Whatever the handlers register and delete, select() is asked for the    *)
(* events that have a handler, and its first argument is above them all.   *)
THEOREM EverythingIsWatched == EventLoopSpec => []SelectWatches
<1>1. WatchInv => SelectWatches
  BY DEF WatchInv, SelectWatches
<1> QED BY <1>1, WatchStarts, WatchStep, PTL DEF EventLoopSpec
-----------------------------------------------------------------------------
(* Sorting: Place is a permutation of the positions that keeps the order   *)
(* Before, so that Sorted(list)[Place(list, i)] = list[i].                 *)

Timers == [id : Nat, when : Nat]

LEMMA TimesAreNat ==
  ASSUME NEW L \in Seq(Timers), NEW i \in DOMAIN L
  PROVE  L[i].when \in Nat /\ L[i].id \in Nat
<1>1. L[i] \in Timers
  OBVIOUS
<1> QED BY <1>1 DEF Timers

LEMMA BeforeIsOrder ==
  ASSUME NEW L \in Seq(Timers), NEW i \in DOMAIN L, NEW j \in DOMAIN L, NEW k \in DOMAIN L
  PROVE  /\ ~Before(L, i, i)
         /\ Before(L, i, j) /\ Before(L, j, k) => Before(L, i, k)
         /\ i # j => Before(L, i, j) \/ Before(L, j, i)
<1>1. L[i].when \in Nat /\ L[j].when \in Nat /\ L[k].when \in Nat
  BY TimesAreNat
<1>2. i \in Nat /\ j \in Nat /\ k \in Nat
  OBVIOUS
<1> QED BY <1>1, <1>2 DEF Before

LEMMA PlaceTyped ==
  ASSUME NEW L \in Seq(Timers), NEW i \in DOMAIN L
  PROVE  Place(L, i) \in DOMAIN L
<1> DEFINE below == {j \in DOMAIN L : Before(L, j, i)}
<1>1. DOMAIN L = 1..Len(L) /\ Len(L) \in Nat
  OBVIOUS
<1>2. IsFiniteSet(DOMAIN L) /\ Cardinality(DOMAIN L) = Len(L)
  <2>1. /\ IsFiniteSet(1..Len(L))
        /\ Cardinality(1..Len(L)) = IF 1 > Len(L) THEN 0 ELSE Len(L) - 1 + 1
    BY <1>1, FS_Interval
  <2>2. Cardinality(1..Len(L)) = Len(L)
    BY <1>1, <2>1
  <2> QED BY <1>1, <2>1, <2>2
<1>3. below \in SUBSET (DOMAIN L \ {i})
  BY BeforeIsOrder
<1>4. IsFiniteSet(DOMAIN L \ {i}) /\ Cardinality(DOMAIN L \ {i}) = Len(L) - 1
  BY <1>2, FS_RemoveElement
<1>5. Cardinality(below) \in Nat /\ Cardinality(below) <= Len(L) - 1
  BY <1>3, <1>4, FS_Subset, FS_CardinalityType
<1> QED BY <1>1, <1>5 DEF Place

LEMMA PlaceKeepsOrder ==
  ASSUME NEW L \in Seq(Timers), NEW i \in DOMAIN L, NEW j \in DOMAIN L, Before(L, i, j)
  PROVE  Place(L, i) < Place(L, j)
<1> DEFINE below(n) == {m \in DOMAIN L : Before(L, m, n)}
<1>1. DOMAIN L = 1..Len(L) /\ Len(L) \in Nat
  OBVIOUS
<1>2. IsFiniteSet(DOMAIN L)
  BY <1>1, FS_Interval
<1>3. IsFiniteSet(below(i)) /\ IsFiniteSet(below(j))
  BY <1>2, FS_Subset
<1>4. below(i) \in SUBSET below(j) /\ below(i) # below(j)
  <2>1. below(i) \subseteq below(j)
    BY BeforeIsOrder
  <2>2. i \in below(j) /\ i \notin below(i)
    BY BeforeIsOrder
  <2> QED BY <2>1, <2>2
<1>5. Cardinality(below(i)) \in Nat /\ Cardinality(below(j)) \in Nat
  BY <1>3, FS_CardinalityType
<1>6. Cardinality(below(i)) < Cardinality(below(j))
  <2> HIDE DEF below
  <2>1. Cardinality(below(i)) <= Cardinality(below(j)) /\ Cardinality(below(i)) # Cardinality(below(j))
    BY <1>3, <1>4, FS_Subset
  <2> QED BY <1>5, <2>1
<1> QED BY <1>5, <1>6 DEF Place

LEMMA PlaceIsPermutation ==
  ASSUME NEW L \in Seq(Timers)
  PROVE  /\ \A i \in DOMAIN L, j \in DOMAIN L : Place(L, i) = Place(L, j) => i = j
         /\ \A k \in DOMAIN L : \E i \in DOMAIN L : Place(L, i) = k
<1>1. ASSUME NEW i \in DOMAIN L, NEW j \in DOMAIN L, i # j PROVE Place(L, i) # Place(L, j)
  <2>1. Place(L, i) \in Nat /\ Place(L, j) \in Nat
    BY PlaceTyped
  <2>2. Place(L, i) < Place(L, j) \/ Place(L, j) < Place(L, i)
    BY <1>1, BeforeIsOrder, PlaceKeepsOrder
  <2> QED BY <2>1, <2>2
<1> DEFINE f == [i \in DOMAIN L |-> Place(L, i)]
<1>2. f \in Injection(DOMAIN L, DOMAIN L)
  BY <1>1, PlaceTyped DEF Injection, IsInjective
<1>3. IsFiniteSet(DOMAIN L)
  <2>1. DOMAIN L = 1..Len(L) /\ Len(L) \in Int
    OBVIOUS
  <2> QED BY <2>1, FS_Interval
<1>4. f \in Surjection(DOMAIN L, DOMAIN L)
  BY <1>2, <1>3, FS_Injection
<1>5. \A k \in DOMAIN L : \E i \in DOMAIN L : Place(L, i) = k
  BY <1>4 DEF Surjection
<1> QED BY <1>1, <1>5

LEMMA SortedMoves ==
  ASSUME NEW L \in Seq(Timers)
  PROVE  /\ Sorted(L) \in Seq(Timers) /\ Len(Sorted(L)) = Len(L)
         /\ \A i \in DOMAIN L : Sorted(L)[Place(L, i)] = L[i]
<1>1. DOMAIN L = 1..Len(L) /\ Len(L) \in Nat
  OBVIOUS
<1>2. ASSUME NEW i \in DOMAIN L PROVE Sorted(L)[Place(L, i)] = L[i]
  <2>1. Place(L, i) \in DOMAIN L
    BY PlaceTyped
  <2>2. (CHOOSE j \in DOMAIN L : Place(L, j) = Place(L, i)) = i
    BY PlaceIsPermutation
  <2> QED BY <2>1, <2>2 DEF Sorted
<1>3. ASSUME NEW k \in DOMAIN L PROVE Sorted(L)[k] \in Timers
  <2>1. PICK i \in DOMAIN L : Place(L, i) = k
    BY PlaceIsPermutation
  <2> QED BY <1>2, <2>1
<1>4. Sorted(L) = [k \in 1..Len(L) |-> Sorted(L)[k]]
  BY <1>1 DEF Sorted
<1>5. Sorted(L) \in Seq(Timers) /\ DOMAIN Sorted(L) = 1..Len(L)
  BY <1>1, <1>3, <1>4
<1>6. Len(Sorted(L)) = Len(L)
  BY <1>1, <1>5
<1> QED BY <1>2, <1>5, <1>6

(* In the order of the time, from position n on.                           *)
InOrder(L, n) ==
  \A i \in DOMAIN L, j \in DOMAIN L : n <= i /\ i <= j => L[i].when <= L[j].when

LEMMA SortedInOrder ==
  ASSUME NEW L \in Seq(Timers)
  PROVE  InOrder(Sorted(L), 1)
<1>1. DOMAIN Sorted(L) = DOMAIN L
  BY DEF Sorted
<1>2. ASSUME NEW k \in DOMAIN L, NEW m \in DOMAIN L, k <= m
      PROVE  Sorted(L)[k].when <= Sorted(L)[m].when
  <2>1. PICK i \in DOMAIN L, j \in DOMAIN L : Place(L, i) = k /\ Place(L, j) = m
    BY PlaceIsPermutation
  <2>2. Sorted(L)[k] = L[i] /\ Sorted(L)[m] = L[j] /\ L[i].when \in Nat /\ L[j].when \in Nat
    BY <2>1, SortedMoves, TimesAreNat
  <2>3. ~Before(L, j, i)
    <3>1. k \in Nat /\ m \in Nat
      OBVIOUS
    <3> QED BY <1>2, <2>1, <3>1, PlaceKeepsOrder
  <2> QED BY <2>2, <2>3 DEF Before
<1> QED BY <1>1, <1>2 DEF InOrder
-----------------------------------------------------------------------------
(* The list of timers in a pass. Listed: ids are handed out once. Ahead:   *)
(* from the iterator, at position q, the list is in the order of the time, *)
(* and what is due and has not fired is there.                             *)

Listed(L, n) ==
  /\ L \in Seq(Timers)
  /\ \A i \in DOMAIN L, j \in DOMAIN L : L[i].id = L[j].id => i = j
  /\ \A i \in DOMAIN L : L[i].id < n

Ahead(L, q, D, p) ==
  /\ q \in DOMAIN L /\ InOrder(L, q)
  /\ \A d \in D : \E i \in DOMAIN L : q <= i /\ L[i].id = d /\ L[i].when < p

LEMMA WhereIs ==
  ASSUME NEW n, NEW L, Listed(L, n), NEW i \in DOMAIN L
  PROVE  Where(L, L[i].id) = i
BY DEF Listed, Where

LEMMA SortKeeps ==
  ASSUME NEW n, NEW L, Listed(L, n)
  PROVE  /\ Listed(Sorted(L), n) /\ Len(Sorted(L)) = Len(L)
         /\ \A q \in DOMAIN L : \A D, p : Ahead(L, q, D, p) =>
              Ahead(Sorted(L), Place(L, q), D, p) /\ Sorted(L)[Place(L, q)] = L[q]
<1> DEFINE M == Sorted(L)
<1>1. /\ L \in Seq(Timers) /\ M \in Seq(Timers) /\ Len(M) = Len(L) /\ DOMAIN M = DOMAIN L
      /\ \A i \in DOMAIN L : M[Place(L, i)] = L[i]
  BY SortedMoves DEF Listed
<1>2. InOrder(M, 1)
  BY <1>1, SortedInOrder
<1>3. /\ \A i \in DOMAIN L : Place(L, i) \in DOMAIN L
      /\ \A k \in DOMAIN L : \E i \in DOMAIN L : Place(L, i) = k
  BY <1>1, PlaceTyped, PlaceIsPermutation
<1> HIDE DEF M
<1>4. Listed(M, n)
  <2>1. ASSUME NEW k \in DOMAIN M, NEW m \in DOMAIN M PROVE M[k].id < n /\ (M[k].id = M[m].id => k = m)
    <3>1. PICK i \in DOMAIN L, j \in DOMAIN L : Place(L, i) = k /\ Place(L, j) = m
      BY <1>1, <1>3
    <3>2. M[k] = L[i] /\ M[m] = L[j]
      BY <1>1, <3>1
    <3> QED BY <3>1, <3>2 DEF Listed
  <2> QED BY <1>1, <2>1 DEF Listed
<1>5. ASSUME NEW q \in DOMAIN L, NEW D, NEW p, Ahead(L, q, D, p)
      PROVE  Ahead(M, Place(L, q), D, p)
  <2>1. Place(L, q) \in DOMAIN M /\ InOrder(M, Place(L, q))
    BY <1>1, <1>2, <1>3 DEF InOrder
  <2>2. ASSUME NEW d \in D
        PROVE  \E k \in DOMAIN M : Place(L, q) <= k /\ M[k].id = d /\ M[k].when < p
    <3>1. PICK i \in DOMAIN L : q <= i /\ L[i].id = d /\ L[i].when < p
      BY <1>5 DEF Ahead
    <3>2. i \in Nat /\ q \in Nat /\ Place(L, i) \in Nat /\ Place(L, q) \in Nat
      <4>1. DOMAIN L \subseteq Nat
        BY <1>1
      <4> QED BY <1>3, <4>1
    <3>3. L[q].when <= L[i].when /\ L[i].when \in Nat /\ L[q].when \in Nat
      BY <1>1, <1>5, <3>1, <3>2, TimesAreNat DEF Ahead, InOrder
    <3>4. i = q \/ Before(L, q, i)
      BY <3>1, <3>2, <3>3 DEF Before
    <3>5. Place(L, q) <= Place(L, i)
      BY <1>1, <3>2, <3>4, PlaceKeepsOrder
    <3> QED BY <1>1, <1>3, <3>1, <3>5
  <2> QED BY <2>1, <2>2 DEF Ahead
<1> QED BY <1>1, <1>4, <1>5 DEF M

(* push_front with a new id.                                               *)
LEMMA FrontKeeps ==
  ASSUME NEW n \in Nat, NEW L, Listed(L, n), NEW w \in Nat, NEW M,
         M = <<[id |-> n, when |-> w]>> \o L
  PROVE  /\ Listed(M, n + 1) /\ Len(M) = Len(L) + 1
         /\ \A q \in DOMAIN L : \A D, p :
              Ahead(L, q, D, p) => Ahead(M, q + 1, D, p) /\ M[q + 1] = L[q]
<1> DEFINE e == [id |-> n, when |-> w]
<1>1. e \in Timers /\ e.id = n /\ L \in Seq(Timers) /\ Len(L) \in Nat
  BY DEF Timers, Listed
<1> HIDE DEF e
<1>2. <<e>> \in Seq(Timers) /\ Len(<<e>>) = 1 /\ <<e>>[1] = e /\ M = <<e>> \o L
  BY <1>1 DEF e
<1>3. /\ M \in Seq(Timers) /\ Len(M) = Len(<<e>>) + Len(L)
      /\ \A k \in 1..(Len(<<e>>) + Len(L)) :
           M[k] = IF k <= Len(<<e>>) THEN <<e>>[k] ELSE L[k - Len(<<e>>)]
  BY <1>1, <1>2, ConcatProperties
<1>4. /\ Len(M) = Len(L) + 1 /\ M[1] = e
      /\ \A k \in 1..(Len(L) + 1) : k = 1 \/ M[k] = L[k - 1]
  BY <1>1, <1>2, <1>3
<1>5. DOMAIN L = 1..Len(L) /\ DOMAIN M = 1..(Len(L) + 1)
  BY <1>1, <1>3, <1>4
<1>6. \A q \in DOMAIN L : q + 1 \in DOMAIN M /\ M[q + 1] = L[q]
  <2> TAKE q \in DOMAIN L
  <2>1. q + 1 \in 1..(Len(L) + 1) /\ q + 1 # 1 /\ (q + 1) - 1 = q
    BY <1>1, <1>5
  <2> QED BY <1>4, <1>5, <2>1
<1>7. \A k \in DOMAIN M : k = 1 \/ \E q \in DOMAIN L : k = q + 1
  <2> TAKE k \in DOMAIN M
  <2> SUFFICES ASSUME k # 1 PROVE \E q \in DOMAIN L : k = q + 1
    OBVIOUS
  <2>1. k - 1 \in DOMAIN L /\ k = (k - 1) + 1
    BY <1>1, <1>5
  <2> QED BY <2>1
<1>8. Listed(M, n + 1)
  <2>1. \A q \in DOMAIN L : L[q].id < n /\ L[q].id \in Nat
    BY <1>1, TimesAreNat DEF Listed
  <2>2. ASSUME NEW k \in DOMAIN M PROVE M[k].id < n + 1
    BY <1>1, <1>4, <1>6, <1>7, <2>1
  <2>3. ASSUME NEW k \in DOMAIN M, NEW m \in DOMAIN M, M[k].id = M[m].id PROVE k = m
    <3>1. CASE k = 1 /\ m # 1
      BY <1>1, <1>4, <1>6, <1>7, <2>1, <2>3, <3>1
    <3>2. CASE k # 1 /\ m = 1
      BY <1>1, <1>4, <1>6, <1>7, <2>1, <2>3, <3>2
    <3>3. CASE k # 1 /\ m # 1
      <4>1. PICK i \in DOMAIN L, j \in DOMAIN L : k = i + 1 /\ m = j + 1
        BY <1>7, <3>3
      <4>2. L[i].id = L[j].id
        BY <1>6, <2>3, <4>1
      <4> QED BY <4>1, <4>2 DEF Listed
    <3> QED BY <3>1, <3>2, <3>3
  <2> QED BY <1>3, <2>2, <2>3 DEF Listed
<1>9. ASSUME NEW q \in DOMAIN L, NEW D, NEW p, Ahead(L, q, D, p)
      PROVE  Ahead(M, q + 1, D, p)
  <2>1. ASSUME NEW k \in DOMAIN M, NEW m \in DOMAIN M, q + 1 <= k, k <= m
        PROVE  M[k].when <= M[m].when
    <3> k # 1 /\ m # 1
      BY <1>1, <1>5, <2>1
    <3>1. PICK i \in DOMAIN L, j \in DOMAIN L : k = i + 1 /\ m = j + 1
      BY <1>7
    <3>2. q <= i /\ i <= j
      BY <1>5, <2>1, <3>1
    <3> QED BY <1>6, <1>9, <3>1, <3>2 DEF Ahead, InOrder
  <2>2. ASSUME NEW d \in D
        PROVE  \E k \in DOMAIN M : q + 1 <= k /\ M[k].id = d /\ M[k].when < p
    <3>1. PICK i \in DOMAIN L : q <= i /\ L[i].id = d /\ L[i].when < p
      BY <1>9 DEF Ahead
    <3>2. q + 1 <= i + 1
      BY <1>5, <3>1
    <3> QED BY <1>6, <3>1, <3>2
  <2> QED BY <1>6, <2>1, <2>2 DEF Ahead, InOrder
<1> QED BY <1>4, <1>6, <1>8, <1>9

(* The deletion of the timer at position i moves up what is behind it.     *)
LEMMA WithoutMoves ==
  ASSUME NEW n, NEW L, Listed(L, n), NEW i \in DOMAIN L, NEW M, M = Without(L, L[i].id)
  PROVE  /\ M \in Seq(Timers) /\ Len(M) = Len(L) - 1
         /\ \A k \in 1..(Len(L) - 1) : M[k] = IF k < i THEN L[k] ELSE L[k + 1]
<1> DEFINE left  == SubSeq(L, 1, i - 1)
           right == SubSeq(L, i + 1, Len(L))
<1>1. L \in Seq(Timers) /\ Len(L) \in Nat /\ DOMAIN L = 1..Len(L) /\ i \in 1..Len(L)
  BY DEF Listed
<1>2. M = left \o right
  BY WhereIs DEF Without, RemoveAt
<1>3. left \in Seq(Timers) /\ Len(left) = i - 1 /\ \A k \in 1..(i - 1) : left[k] = L[k]
  <2>1. PICK m \in Nat : m = i - 1
    BY <1>1
  <2>2. \A k \in 1..m : L[k] \in Timers
    BY <1>1, <2>1
  <2>3. SubSeq(L, 1, m) \in Seq(Timers) /\ Len(SubSeq(L, 1, m)) = m
        /\ \A k \in 1..m : SubSeq(L, 1, m)[k] = L[k]
    BY <2>2, SubSeqProperties
  <2> QED BY <2>1, <2>3
<1>4. right \in Seq(Timers) /\ Len(right) = Len(L) - i
      /\ \A k \in 1..(Len(L) - i) : right[k] = L[i + k]
  <2>1. \A k \in (i + 1)..Len(L) : L[k] \in Timers
    BY <1>1
  <2>2. /\ right \in Seq(Timers)
        /\ Len(right) = IF i + 1 <= Len(L) THEN Len(L) - (i + 1) + 1 ELSE 0
        /\ \A k \in 1..(Len(L) - (i + 1) + 1) : right[k] = L[i + 1 + k - 1]
    BY <1>1, <2>1, SubSeqProperties
  <2> HIDE DEF right
  <2>3. Len(right) = Len(L) - i
    BY <1>1, <2>2
  <2>4. ASSUME NEW k \in 1..(Len(L) - i) PROVE right[k] = L[i + k]
    <3>1. k \in 1..(Len(L) - (i + 1) + 1) /\ i + 1 + k - 1 = i + k
      BY <1>1
    <3> QED BY <2>2, <3>1
  <2> QED BY <2>2, <2>3, <2>4
<1> HIDE DEF left, right
<1>5. /\ M \in Seq(Timers) /\ Len(M) = Len(left) + Len(right)
      /\ \A k \in 1..(Len(left) + Len(right)) :
           M[k] = IF k <= Len(left) THEN left[k] ELSE right[k - Len(left)]
  BY <1>2, <1>3, <1>4, ConcatProperties
<1>6. Len(left) + Len(right) = Len(L) - 1
  BY <1>1, <1>3, <1>4
<1>7. ASSUME NEW k \in 1..(Len(L) - 1) PROVE M[k] = IF k < i THEN L[k] ELSE L[k + 1]
  <2>1. CASE k < i
    <3>1. k \in 1..(i - 1) /\ k <= Len(left) /\ k \in 1..(Len(left) + Len(right))
      BY <1>1, <1>3, <1>6, <2>1
    <3> QED BY <1>3, <1>5, <2>1, <3>1
  <2>2. CASE ~(k < i)
    <3>1. PICK m \in 1..(Len(L) - i) : m = k - (i - 1)
      BY <1>1, <2>2
    <3>2. ~(k <= Len(left)) /\ k \in 1..(Len(left) + Len(right)) /\ m = k - Len(left) /\ i + m = k + 1
      BY <1>1, <1>3, <1>6, <2>2, <3>1
    <3>3. M[k] = right[m] /\ right[m] = L[i + m]
      BY <1>4, <1>5, <3>2
    <3> QED BY <2>2, <3>2, <3>3
  <2> QED BY <2>1, <2>2
<1> QED BY <1>5, <1>6, <1>7

(* So each position left stands for one of before, in the same order.      *)
Was(i, k) == IF k < i THEN k ELSE k + 1

LEMMA WithoutKeeps ==
  ASSUME NEW n, NEW L, Listed(L, n), NEW i \in DOMAIN L, NEW M, M = Without(L, L[i].id)
  PROVE  /\ Listed(M, n) /\ L[i].id \notin Ids(M) /\ Len(M) = Len(L) - 1
         /\ \A k \in DOMAIN M : Was(i, k) \in DOMAIN L \ {i} /\ M[k] = L[Was(i, k)]
         /\ \A m \in DOMAIN L \ {i} : \E k \in DOMAIN M : Was(i, k) = m
         /\ InOrder(L, 1) => InOrder(M, 1)
<1>1. L \in Seq(Timers) /\ Len(L) \in Nat /\ DOMAIN L = 1..Len(L) /\ i \in 1..Len(L)
  BY DEF Listed
<1>2. M \in Seq(Timers) /\ Len(M) = Len(L) - 1 /\ DOMAIN M = 1..(Len(L) - 1)
  BY WithoutMoves
<1> DEFINE l == Len(L)
<1>3. l \in Nat /\ i \in 1..l /\ DOMAIN L = 1..l /\ DOMAIN M = 1..(l - 1)
      /\ \A k \in 1..(l - 1) : M[k] = IF k < i THEN L[k] ELSE L[k + 1]
  BY <1>1, <1>2, WithoutMoves
<1> HIDE DEF l
<1>4. ASSUME NEW k \in DOMAIN M
      PROVE  Was(i, k) \in DOMAIN L \ {i} /\ M[k] = L[Was(i, k)]
  <2>1. k \in 1..(l - 1) /\ M[k] = IF k < i THEN L[k] ELSE L[k + 1]
    BY <1>3
  <2>2. Was(i, k) \in (1..l) \ {i}
    BY <1>3, <2>1 DEF Was
  <2> QED BY <1>3, <2>1, <2>2 DEF Was
<1>5. ASSUME NEW m \in DOMAIN L \ {i} PROVE \E k \in DOMAIN M : Was(i, k) = m
  <2>1. m \in 1..l /\ m # i
    BY <1>3
  <2>2. CASE m < i
    <3>1. m \in 1..(l - 1) /\ Was(i, m) = m
      BY <1>3, <2>1, <2>2 DEF Was
    <3> QED BY <1>3, <3>1
  <2>3. CASE ~(m < i)
    <3>1. m - 1 \in 1..(l - 1) /\ Was(i, m - 1) = m
      BY <1>3, <2>1, <2>3 DEF Was
    <3> QED BY <1>3, <3>1
  <2> QED BY <2>2, <2>3
<1>6. ASSUME NEW k \in DOMAIN M, NEW m \in DOMAIN M
      PROVE  (k <= m => Was(i, k) <= Was(i, m)) /\ (Was(i, k) = Was(i, m) => k = m)
             /\ 1 <= Was(i, k)
  <2>1. k \in 1..(l - 1) /\ m \in 1..(l - 1)
    BY <1>3
  <2> QED BY <1>3, <2>1 DEF Was
<1>7. ASSUME NEW k \in DOMAIN M PROVE M[k].id < n /\ M[k].id # L[i].id
  BY <1>4 DEF Listed
<1>8. ASSUME NEW k \in DOMAIN M, NEW m \in DOMAIN M, M[k].id = M[m].id PROVE k = m
  BY <1>4, <1>6, <1>8 DEF Listed
<1>9. ASSUME InOrder(L, 1) PROVE InOrder(M, 1)
  BY <1>4, <1>6, <1>9 DEF InOrder
<1> QED BY <1>2, <1>4, <1>5, <1>7, <1>8, <1>9 DEF Listed, Ids

(* A handler deletes another timer.                                        *)
LEMMA OtherDeleted ==
  ASSUME NEW n, NEW L, Listed(L, n), NEW q, NEW D, NEW p, Ahead(L, q, D, p),
         NEW i \in DOMAIN L, i # q, NEW M, M = Without(L, L[i].id)
  PROVE  \E k \in DOMAIN M : Ahead(M, k, D \cap Ids(M), p) /\ M[k] = L[q]
<1>1. /\ \A k \in DOMAIN M : Was(i, k) \in DOMAIN L \ {i} /\ M[k] = L[Was(i, k)]
      /\ \A m \in DOMAIN L \ {i} : \E k \in DOMAIN M : Was(i, k) = m
      /\ L[i].id \notin Ids(M) /\ Len(M) = Len(L) - 1 /\ Listed(M, n)
  BY WithoutKeeps
<1>2. PICK k \in DOMAIN M : Was(i, k) = q
  BY <1>1 DEF Ahead
<1>3. DOMAIN M \subseteq Nat /\ i \in Nat
  BY <1>1 DEF Listed
<1>4. ASSUME NEW a \in DOMAIN M, NEW b \in DOMAIN M PROVE a <= b <=> Was(i, a) <= Was(i, b)
  BY <1>3 DEF Was
<1>5. InOrder(M, k)
  BY <1>1, <1>2, <1>4 DEF Ahead, InOrder
<1>6. ASSUME NEW d \in D \cap Ids(M)
      PROVE  \E m \in DOMAIN M : k <= m /\ M[m].id = d /\ M[m].when < p
  <2>1. PICK j \in DOMAIN L : q <= j /\ L[j].id = d /\ L[j].when < p
    BY DEF Ahead
  <2>2. j # i
    BY <1>1, <2>1
  <2>3. PICK m \in DOMAIN M : Was(i, m) = j
    BY <1>1, <2>2
  <2> QED BY <1>1, <1>2, <1>4, <2>1, <2>3
<1> QED BY <1>1, <1>2, <1>5, <1>6 DEF Ahead

(* What is due apart from the timer at q is behind it.                     *)
LEMMA DueBehind ==
  ASSUME NEW n, NEW L, Listed(L, n), NEW q, NEW D, NEW p, Ahead(L, q, D, p),
         NEW d \in D \ {L[q].id}
  PROVE  \E i \in DOMAIN L : q + 1 <= i /\ L[i].id = d /\ L[i].when < p
<1>1. PICK i \in DOMAIN L : q <= i /\ L[i].id = d /\ L[i].when < p
  BY DEF Ahead
<1>2. i # q /\ i \in Nat /\ q \in Nat
  BY <1>1 DEF Ahead, Listed
<1> QED BY <1>1, <1>2

(* The timer that fired is deleted, and the iterator moves on.             *)
LEMMA SelfDeleted ==
  ASSUME NEW n, NEW L, Listed(L, n), NEW q, NEW D, NEW p, Ahead(L, q, D, p),
         NEW M, M = Without(L, L[q].id)
  PROVE  IF q = Len(L) THEN D \subseteq {L[q].id}
         ELSE /\ q + 1 \in DOMAIN L /\ q \in DOMAIN M /\ M[q].id = L[q + 1].id
              /\ Ahead(M, q, D \ {L[q].id}, p)
<1>1. L \in Seq(Timers) /\ Len(L) \in Nat /\ DOMAIN L = 1..Len(L) /\ q \in 1..Len(L)
  BY DEF Listed, Ahead
<1>2. CASE q = Len(L)
  <2>1. ASSUME NEW d \in D \ {L[q].id} PROVE FALSE
    <3>1. PICK i \in DOMAIN L : q + 1 <= i
      BY DueBehind
    <3> QED BY <1>1, <1>2, <3>1
  <2> QED BY <1>2, <2>1
<1>3. CASE q # Len(L)
  <2> DEFINE l == Len(L)
  <2>1. /\ M \in Seq(Timers) /\ Len(M) = l - 1
        /\ \A k \in 1..(l - 1) : M[k] = IF k < q THEN L[k] ELSE L[k + 1]
    BY <1>1, WithoutMoves
  <2>2. l \in Nat /\ q \in 1..(l - 1) /\ DOMAIN L = 1..l /\ DOMAIN M = 1..(l - 1)
        /\ q + 1 \in DOMAIN L /\ \A k \in 1..(l - 1) : q <= k => M[k] = L[k + 1]
    <3>1. l \in Nat /\ q \in 1..l /\ q # l /\ DOMAIN L = 1..l /\ DOMAIN M = 1..(l - 1)
      <4>1. DOMAIN M = 1..Len(M)
        BY <2>1, LenProperties
      <4> QED BY <1>1, <1>3, <2>1, <4>1
    <3> HIDE DEF l
    <3>2. q \in 1..(l - 1) /\ q + 1 \in 1..l /\ q \in Nat
      BY <3>1
    <3>3. ASSUME NEW k \in 1..(l - 1), q <= k PROVE M[k] = L[k + 1]
      <4>1. ~(k < q)
        BY <3>2, <3>3
      <4> QED BY <2>1, <4>1
    <3> QED BY <3>1, <3>2, <3>3
  <2> HIDE DEF l
  <2>3. InOrder(M, q)
    <3>1. ASSUME NEW k \in 1..(l - 1), NEW m \in 1..(l - 1), q <= k, k <= m
          PROVE  M[k].when <= M[m].when
      <4>1. /\ k + 1 \in 1..l /\ m + 1 \in 1..l /\ q <= k + 1 /\ k + 1 <= m + 1
            /\ q <= m
        BY <2>2, <3>1
      <4>2. M[k] = L[k + 1] /\ M[m] = L[m + 1]
        BY <2>2, <3>1, <4>1
      <4> QED BY <2>2, <4>1, <4>2 DEF Ahead, InOrder
    <3> QED BY <2>2, <3>1 DEF InOrder
  <2>4. ASSUME NEW d \in D \ {L[q].id}
        PROVE  \E k \in DOMAIN M : q <= k /\ M[k].id = d /\ M[k].when < p
    <3>1. PICK i \in DOMAIN L : q + 1 <= i /\ L[i].id = d /\ L[i].when < p
      BY DueBehind
    <3>2. PICK k \in 1..(l - 1) : i = k + 1
      <4>1. i - 1 \in 1..(l - 1) /\ i = (i - 1) + 1
        BY <2>2, <3>1
      <4> QED BY <4>1
    <3>3. q <= k
      BY <2>2, <3>1, <3>2
    <3> QED BY <2>2, <3>1, <3>2, <3>3
  <2>5. q \in DOMAIN M /\ M[q] = L[q + 1]
    BY <2>2
  <2> QED BY <1>3, <2>2, <2>3, <2>4, <2>5 DEF Ahead
<1> QED BY <1>2, <1>3

(* The timer that fired gets a new time, and the iterator moves on.        *)
LEMMA AskedAgain ==
  ASSUME NEW n, NEW L, Listed(L, n), NEW q, NEW D, NEW p, Ahead(L, q, D, p),
         NEW M, M \in [DOMAIN L -> Timers], M[q].id = L[q].id,
         \A k \in DOMAIN L \ {q} : M[k] = L[k]
  PROVE  /\ Listed(M, n) /\ Len(M) = Len(L) /\ q \in DOMAIN M /\ M[q].id = L[q].id
         /\ IF q = Len(M) THEN D \subseteq {L[q].id}
            ELSE q + 1 \in DOMAIN M /\ Ahead(M, q + 1, D \ {L[q].id}, p)
<1>1. L \in Seq(Timers) /\ Len(L) \in Nat /\ DOMAIN L = 1..Len(L) /\ q \in 1..Len(L)
  BY DEF Listed, Ahead
<1>2. /\ DOMAIN M = DOMAIN L
      /\ \A k \in DOMAIN L \ {q} : M[k] = L[k]
  OBVIOUS
<1>3. ASSUME NEW k \in DOMAIN L PROVE M[k] \in Timers /\ M[k].id = L[k].id
  <2>1. L[k] \in Timers
    BY <1>1
  <2> QED BY <1>2, <2>1 DEF Timers
<1>4. M \in Seq(Timers) /\ Len(M) = Len(L)
  <2>1. M = [k \in 1..Len(L) |-> M[k]]
    BY <1>1
  <2> QED BY <1>1, <1>3, <2>1
<1>5. Listed(M, n)
  BY <1>2, <1>3, <1>4 DEF Listed
<1>6. CASE q = Len(L)
  <2>1. ASSUME NEW d \in D \ {L[q].id} PROVE FALSE
    <3>1. PICK i \in DOMAIN L : q + 1 <= i
      BY DueBehind
    <3> QED BY <1>1, <1>6, <3>1
  <2> QED BY <1>1, <1>2, <1>3, <1>4, <1>5, <1>6, <2>1
<1>7. CASE q # Len(L)
  <2>1. q + 1 \in DOMAIN M
    <3> DEFINE l == Len(L)
    <3>1. l \in Nat /\ q \in 1..l /\ q # l /\ DOMAIN M = 1..l
      BY <1>1, <1>2, <1>7
    <3> HIDE DEF l
    <3> QED BY <3>1
  <2>2. ASSUME NEW k \in DOMAIN M, q + 1 <= k PROVE M[k] = L[k]
    BY <1>1, <1>2, <2>2
  <2>3. InOrder(M, q + 1)
    <3>1. ASSUME NEW k \in DOMAIN M, NEW m \in DOMAIN M, q + 1 <= k, k <= m
          PROVE  M[k].when <= M[m].when
      <4>1. q <= k /\ q + 1 <= m
        BY <1>1, <1>2, <3>1
      <4>2. M[k] = L[k] /\ M[m] = L[m]
        BY <2>2, <3>1, <4>1
      <4> QED BY <1>2, <3>1, <4>1, <4>2 DEF Ahead, InOrder
    <3> QED BY <3>1 DEF InOrder
  <2>4. ASSUME NEW d \in D \ {L[q].id}
        PROVE  \E k \in DOMAIN M : q + 1 <= k /\ M[k].id = d /\ M[k].when < p
    <3>1. PICK i \in DOMAIN L : q + 1 <= i /\ L[i].id = d /\ L[i].when < p
      BY DueBehind
    <3> QED BY <1>2, <2>2, <3>1
  <2> QED BY <1>1, <1>2, <1>3, <1>4, <1>5, <1>7, <2>1, <2>3, <2>4 DEF Ahead
<1> QED BY <1>6, <1>7
-----------------------------------------------------------------------------
(* The invariant of the timers.  A list that is not in order was changed   *)
(* in this pass, and only before the iterator.                             *)
TimersInv ==
  /\ nextTimerId \in Nat /\ clock \in Nat /\ passTime \in Nat /\ needSort \in BOOLEAN
  /\ Listed(timeEvents, nextTimerId)
  /\ loop \in {"turn", "files"} => InOrder(timeEvents, 1)
  /\ loop = "timers" =>
       /\ ~needSort => InOrder(timeEvents, 1)
       /\ iter = End => due = {}
       /\ iter # End => \E q \in DOMAIN timeEvents :
            timeEvents[q].id = iter /\ Ahead(timeEvents, q, due, passTime)

LEMMA TimersStart == EventLoopInit => TimersInv
<1> SUFFICES ASSUME EventLoopInit PROVE TimersInv
  OBVIOUS
<1> DEFINE e == [id |-> 0, when |-> 1]
<1>1. /\ timeEvents = <<e>> /\ nextTimerId = 1 /\ clock = StartTime /\ passTime = 0
      /\ needSort = FALSE /\ loop = "turn"
  BY DEF EventLoopInit
<1>2. e \in Timers /\ e.id = 0
  BY DEF Timers
<1> HIDE DEF e
<1>3. /\ timeEvents \in Seq(Timers) /\ DOMAIN timeEvents = {1} /\ timeEvents[1] = e
  BY <1>1, <1>2
<1>4. Listed(timeEvents, nextTimerId)
  BY <1>1, <1>2, <1>3 DEF Listed
<1>5. InOrder(timeEvents, 1)
  BY <1>3, TimesAreNat DEF InOrder
<1> QED BY <1>1, <1>4, <1>5, EventLoopAssumption DEF TimersInv

(* A pass begins at the front of a list that is in order.                  *)
LEMMA BeginKeeps == TimersInv /\ BeginTimers => TimersInv'
<1> SUFFICES ASSUME TimersInv, BeginTimers PROVE TimersInv'
  OBVIOUS
<1> DEFINE L == timeEvents
           M == timeEvents'
<1>1. /\ L \in Seq(Timers) /\ Listed(L, nextTimerId) /\ InOrder(L, 1)
      /\ Len(L) \in Nat /\ DOMAIN L = 1..Len(L)
  BY DEF TimersInv, BeginTimers, Listed
<1>2. M = IF clock < lastTime THEN [i \in DOMAIN L |-> [L[i] EXCEPT !.when = 0]] ELSE L
  BY DEF BeginTimers
<1>3. /\ due' = {M[i].id : i \in {j \in DOMAIN L : M[j].when < clock}}
      /\ iter' = First(L) /\ needSort' = FALSE /\ loop' = "timers" /\ passTime' = clock
      /\ UNCHANGED <<nextTimerId, clock>>
  BY DEF BeginTimers
<1>4. ASSUME NEW i \in DOMAIN L
      PROVE  M[i] \in Timers /\ M[i].id = L[i].id
             /\ IF clock < lastTime THEN M[i].when = 0 ELSE M[i] = L[i]
  <2>1. L[i] \in Timers
    BY <1>1
  <2> QED BY <1>2, <2>1 DEF Timers
<1>5. M \in Seq(Timers) /\ DOMAIN M = DOMAIN L
  <2>1. DOMAIN M = 1..Len(L) /\ M = [i \in 1..Len(L) |-> M[i]]
    BY <1>1, <1>2
  <2> QED BY <1>1, <1>4, <2>1
<1> HIDE DEF L, M
<1>6. Listed(M, nextTimerId)
  BY <1>1, <1>4, <1>5 DEF Listed
<1>7. InOrder(M, 1)
  BY <1>1, <1>4, <1>5 DEF InOrder
<1>8. CASE L = << >>
  <2>1. DOMAIN L = {}
    BY <1>8
  <2>2. due' = {} /\ iter' = End
    BY <1>3, <1>8, <2>1 DEF First
  <2> QED BY <1>3, <1>6, <1>7, <2>2 DEF TimersInv, M
<1>9. CASE L # << >>
  <2>1. 1 \in DOMAIN L /\ iter' = M[1].id
    BY <1>1, <1>3, <1>4, <1>9 DEF First
  <2>2. Ahead(M, 1, due', passTime')
    <3>1. ASSUME NEW d \in due'
          PROVE  \E i \in DOMAIN M : 1 <= i /\ M[i].id = d /\ M[i].when < passTime'
      <4>1. PICK i \in DOMAIN L : M[i].when < clock /\ M[i].id = d
        BY <1>3
      <4>2. 1 <= i
        BY <1>1
      <4> QED BY <1>3, <1>5, <4>1, <4>2
    <3> QED BY <1>5, <1>7, <2>1, <3>1 DEF Ahead
  <2>3. iter' # End
    BY <1>5, <2>1, TimesAreNat DEF End
  <2> QED BY <1>3, <1>5, <1>6, <1>7, <2>1, <2>2, <2>3 DEF TimersInv, M
<1> QED BY <1>8, <1>9

(* From the timer under the iterator on, no time is earlier: when it is    *)
(* not due, nothing is left that is.                                       *)
LEMMA SkipKeeps == TimersInv /\ SkipTimer => TimersInv'
<1> SUFFICES ASSUME TimersInv, SkipTimer PROVE TimersInv'
  OBVIOUS
<1> DEFINE L == timeEvents
<1>1. /\ loop = "timers" /\ iter # End /\ When >= passTime /\ iter' = After(L, iter)
      /\ UNCHANGED <<timeEvents, nextTimerId, passTime, needSort, due, clock, loop>>
  BY DEF SkipTimer, timerVars
<1>2. /\ Listed(L, nextTimerId) /\ L \in Seq(Timers) /\ DOMAIN L = 1..Len(L) /\ Len(L) \in Nat
      /\ passTime \in Nat
  BY DEF TimersInv, Listed
<1>3. PICK q \in DOMAIN L : L[q].id = iter /\ Ahead(L, q, due, passTime)
  BY <1>1 DEF TimersInv
<1>4. Where(L, iter) = q
  BY <1>2, <1>3, WhereIs
<1> HIDE DEF L
<1>5. L[q].when >= passTime
  BY <1>1, <1>4 DEF When, L
<1>6. due = {}
  <2> SUFFICES ASSUME NEW d \in due PROVE FALSE
    OBVIOUS
  <2>1. PICK i \in DOMAIN L : q <= i /\ L[i].when < passTime
    BY <1>3 DEF Ahead
  <2>2. L[q].when <= L[i].when /\ L[i].when \in Nat /\ L[q].when \in Nat
    BY <1>2, <1>3, <2>1, TimesAreNat DEF Ahead, InOrder
  <2> QED BY <1>2, <1>5, <2>1, <2>2
<1>7. CASE q = Len(L)
  <2>1. iter' = End
    BY <1>1, <1>4, <1>7 DEF After
  <2> QED BY <1>1, <1>6, <2>1 DEF TimersInv
<1>8. CASE q # Len(L)
  <2>1. q + 1 \in DOMAIN L /\ q \in Nat /\ iter' = L[q + 1].id
    BY <1>1, <1>2, <1>4, <1>8 DEF After
  <2>2. InOrder(L, q + 1)
    <3>1. ASSUME NEW i \in DOMAIN L, q + 1 <= i PROVE q <= i
      BY <1>2, <2>1, <3>1
    <3> QED BY <1>3, <3>1 DEF Ahead, InOrder
  <2>3. Ahead(L, q + 1, due, passTime)
    BY <1>6, <2>1, <2>2 DEF Ahead
  <2> QED BY <1>1, <1>6, <2>1, <2>3 DEF TimersInv, L
<1> QED BY <1>7, <1>8

(* What the handler of a timer may do: the timer stays under the iterator, *)
(* and what is due is still ahead of it.                                   *)
LEMMA HandlerKeepsAhead ==
  ASSUME TimersInv, loop = "timers", iter # End, NEW list \in HandlerLeaves
  PROVE  LET n == IF Len(list) > Len(timeEvents) THEN nextTimerId + 1 ELSE nextTimerId
         IN /\ n \in Nat /\ Listed(list, n)
            /\ \E q \in DOMAIN list :
                 list[q].id = iter /\ Ahead(list, q, due \cap Ids(list), passTime)
            /\ InOrder(timeEvents, 1) => InOrder(list, 1)
<1> DEFINE L == timeEvents
           n == IF Len(list) > Len(L) THEN nextTimerId + 1 ELSE nextTimerId
<1>1. /\ Listed(L, nextTimerId) /\ L \in Seq(Timers) /\ Len(L) \in Nat
      /\ nextTimerId \in Nat /\ passTime \in Nat
  BY DEF TimersInv, Listed
<1>2. PICK q \in DOMAIN L : L[q].id = iter /\ Ahead(L, q, due, passTime)
  BY DEF TimersInv
<1>3. \/ list = L
      \/ \E w \in Nat : list = Pushed(w)
      \/ \E id \in Ids(L) \ {iter} : list = Without(L, id)
  BY EventLoopAssumption DEF HandlerLeaves
<1> SUFFICES /\ n \in Nat /\ Listed(list, n)
             /\ \E k \in DOMAIN list :
                  list[k].id = iter /\ Ahead(list, k, due \cap Ids(list), passTime)
             /\ InOrder(L, 1) => InOrder(list, 1)
  OBVIOUS
<1> HIDE DEF L
<1>4. CASE list = L
  <2>1. n = nextTimerId
    BY <1>1, <1>4
  <2> QED BY <1>1, <1>2, <1>4, <2>1 DEF Ahead
<1>5. CASE \E w \in Nat : list = Pushed(w)
  <2>1. PICK w \in Nat : list = Pushed(w)
    BY <1>5
  <2> DEFINE F == <<[id |-> nextTimerId, when |-> w]>> \o L
  <2>2. list = Sorted(F)
    BY <2>1 DEF Pushed, L
  <2>3. F = <<[id |-> nextTimerId, when |-> w]>> \o L
    OBVIOUS
  <2> HIDE DEF F
  <2>4. /\ Listed(F, nextTimerId + 1) /\ Len(F) = Len(L) + 1
        /\ Ahead(F, q + 1, due, passTime) /\ F[q + 1] = L[q]
    <3>1. /\ Listed(F, nextTimerId + 1) /\ Len(F) = Len(L) + 1
          /\ \A r \in DOMAIN L : \A due1, p :
               Ahead(L, r, due1, p) => Ahead(F, r + 1, due1, p) /\ F[r + 1] = L[r]
      <4>1. \A M : M = <<[id |-> nextTimerId, when |-> w]>> \o L =>
              /\ Listed(M, nextTimerId + 1) /\ Len(M) = Len(L) + 1
              /\ \A r \in DOMAIN L : \A due1, p :
                   Ahead(L, r, due1, p) => Ahead(M, r + 1, due1, p) /\ M[r + 1] = L[r]
        BY <1>1, FrontKeeps
      <4> QED BY <2>3, <4>1
    <3> QED BY <1>2, <3>1
  <2>5. /\ Listed(list, nextTimerId + 1) /\ Len(list) = Len(F)
        /\ Ahead(list, Place(F, q + 1), due, passTime) /\ list[Place(F, q + 1)] = F[q + 1]
    <3>1. /\ Listed(Sorted(F), nextTimerId + 1) /\ Len(Sorted(F)) = Len(F)
          /\ \A r \in DOMAIN F : \A due1, p : Ahead(F, r, due1, p) =>
               Ahead(Sorted(F), Place(F, r), due1, p) /\ Sorted(F)[Place(F, r)] = F[r]
      BY <2>4, SortKeeps
    <3>2. q + 1 \in DOMAIN F
      BY <2>4 DEF Ahead
    <3> QED BY <2>2, <2>4, <3>1, <3>2
  <2>6. n = nextTimerId + 1 /\ n \in Nat
    BY <1>1, <2>4, <2>5
  <2>7. InOrder(list, 1)
    BY <2>2, <2>4, SortedInOrder DEF Listed
  <2> QED BY <1>2, <2>4, <2>5, <2>6, <2>7 DEF Ahead
<1>6. CASE \E id \in Ids(L) \ {iter} : list = Without(L, id)
  <2>1. PICK i \in DOMAIN L : L[i].id # iter /\ list = Without(L, L[i].id)
    BY <1>6 DEF Ids
  <2>2. Listed(list, nextTimerId) /\ Len(list) = Len(L) - 1 /\ (InOrder(L, 1) => InOrder(list, 1))
    BY <1>1, <2>1, WithoutKeeps
  <2>3. \E k \in DOMAIN list : Ahead(list, k, due \cap Ids(list), passTime) /\ list[k] = L[q]
    <3>1. i # q /\ Listed(L, nextTimerId) /\ Ahead(L, q, due, passTime)
      BY <1>1, <1>2, <2>1
    <3>2. \A j \in DOMAIN L : j # q => \A M : M = Without(L, L[j].id) =>
            \E k \in DOMAIN M : Ahead(M, k, due \cap Ids(M), passTime) /\ M[k] = L[q]
      BY <3>1, OtherDeleted
    <3>3. list = Without(L, L[i].id)
      BY <2>1
    <3> QED BY <3>1, <3>2, <3>3
  <2>4. n = nextTimerId
    BY <1>1, <2>2
  <2> QED BY <1>1, <1>2, <2>2, <2>3, <2>4
<1> QED BY <1>3, <1>4, <1>5, <1>6

LEMMA FireKeeps == TimersInv /\ FireTimer => TimersInv'
<1> SUFFICES ASSUME TimersInv, FireTimer PROVE TimersInv'
  OBVIOUS
<1>1. loop = "timers" /\ iter # End /\ UNCHANGED <<passTime, clock>> /\ passTime \in Nat
  BY DEF FireTimer, TimersInv
<1>2. PICK list \in HandlerLeaves :
        /\ nextTimerId' = IF Len(list) > Len(timeEvents) THEN nextTimerId + 1 ELSE nextTimerId
        /\ due' = (due \cap Ids(list)) \ {iter}
        /\ \/ /\ \E ret \in Periods : timeEvents' = Again(list, ret)
              /\ iter' = After(timeEvents', iter)
              /\ needSort' = TRUE /\ UNCHANGED loop
           \/ /\ timeEvents' = Without(list, iter)
              /\ iter' = After(list, iter)
              /\ loop' \in {"timers", "crashed"} /\ UNCHANGED needSort
  BY DEF FireTimer
<1> DEFINE D == due \cap Ids(list)
           n == nextTimerId'
           M == timeEvents'
<1>3. /\ n \in Nat /\ Listed(list, n)
      /\ \E q \in DOMAIN list : list[q].id = iter /\ Ahead(list, q, D, passTime)
      /\ InOrder(timeEvents, 1) => InOrder(list, 1)
  BY <1>1, <1>2, HandlerKeepsAhead
<1>4. PICK q \in DOMAIN list : list[q].id = iter /\ Ahead(list, q, D, passTime)
  BY <1>3
<1>5. Where(list, iter) = q /\ due' = D \ {iter}
  BY <1>2, <1>3, <1>4, WhereIs
<1>6. \A k \in DOMAIN list : list[k].id \in Nat
  BY <1>3, TimesAreNat DEF Listed
<1> HIDE DEF D, n, M
<1>7. CASE /\ \E ret \in Periods : M = Again(list, ret)
           /\ iter' = After(M, iter) /\ needSort' = TRUE /\ UNCHANGED loop
  <2>1. PICK ret \in Periods : M = Again(list, ret)
    BY <1>7
  <2>2. /\ Listed(M, n) /\ Len(M) = Len(list) /\ q \in DOMAIN M /\ M[q].id = iter
        /\ IF q = Len(M) THEN D \subseteq {iter}
           ELSE q + 1 \in DOMAIN M /\ Ahead(M, q + 1, D \ {iter}, passTime)
    <3>1. passTime + ret \in Nat
      BY <1>1, EventLoopAssumption
    <3>2. ASSUME NEW k \in DOMAIN list
          PROVE  /\ M[k] \in Timers /\ M[k].id = list[k].id
                 /\ k # q => M[k] = list[k]
      <4>1. M[k] = IF k = q THEN [list[k] EXCEPT !.when = passTime + ret] ELSE list[k]
        BY <1>3, <1>4, <2>1 DEF Again, Later, Listed
      <4>2. list[k] \in Timers
        BY <1>3 DEF Listed
      <4> QED BY <3>1, <4>1, <4>2 DEF Timers
    <3>3. M \in [DOMAIN list -> Timers]
      <4>1. M = [k \in DOMAIN list |-> M[k]]
        BY <2>1 DEF Again, Later
      <4> QED BY <3>2, <4>1
    <3>4. /\ Listed(M, n) /\ Len(M) = Len(list) /\ q \in DOMAIN M /\ M[q].id = list[q].id
          /\ IF q = Len(M) THEN D \subseteq {list[q].id}
             ELSE q + 1 \in DOMAIN M /\ Ahead(M, q + 1, D \ {list[q].id}, passTime)
      <4>1. Listed(list, n) /\ Ahead(list, q, D, passTime)
        BY <1>3, <1>4
      <4> QED BY <3>1, <3>2, <3>3, <4>1, AskedAgain
    <3> QED BY <1>4, <3>4
  <2>3. Where(M, iter) = q
    BY <2>2, WhereIs
  <2>4. IF q = Len(M) THEN iter' = End /\ due' = {}
        ELSE iter' = M[q + 1].id /\ M[q + 1].id \in Nat
    <3>1. q # Len(M) => M[q + 1].id \in Nat
      BY <2>2, TimesAreNat DEF Listed
    <3> QED BY <1>5, <1>7, <2>2, <2>3, <3>1 DEF After
  <2> QED BY <1>1, <1>3, <1>5, <1>7, <2>2, <2>4 DEF TimersInv, M, n, End
<1>8. CASE /\ M = Without(list, iter) /\ iter' = After(list, iter)
           /\ loop' \in {"timers", "crashed"} /\ UNCHANGED needSort
  <2>1. /\ Listed(M, n) /\ (InOrder(list, 1) => InOrder(M, 1))
    BY <1>3, <1>4, <1>8, WithoutKeeps
  <2>2. ~needSort' => InOrder(M, 1)
    BY <1>1, <1>3, <1>8, <2>1 DEF TimersInv
  <2>3. IF q = Len(list) THEN D \subseteq {iter}
        ELSE /\ q + 1 \in DOMAIN list /\ q \in DOMAIN M /\ M[q].id = list[q + 1].id
             /\ Ahead(M, q, D \ {iter}, passTime)
    BY <1>3, <1>4, <1>8, SelfDeleted
  <2>4. IF q = Len(list) THEN iter' = End /\ due' = {}
        ELSE iter' = M[q].id /\ M[q].id \in Nat
    BY <1>5, <1>6, <1>8, <2>3 DEF After
  <2>5. needSort' \in BOOLEAN
    BY <1>8 DEF TimersInv
  <2> QED BY <1>1, <1>3, <1>5, <1>8, <2>1, <2>2, <2>3, <2>4, <2>5 DEF TimersInv, M, n, End
<1> QED BY <1>2, <1>7, <1>8 DEF M

LEMMA EndKeeps == TimersInv /\ EndTimers => TimersInv'
<1> SUFFICES ASSUME TimersInv, EndTimers PROVE TimersInv'
  OBVIOUS
<1>1. /\ loop = "timers" /\ loop' = "turn" /\ passTime' = 0 /\ needSort' = FALSE
      /\ UNCHANGED <<nextTimerId, clock>>
      /\ timeEvents' = IF needSort THEN Sorted(timeEvents) ELSE timeEvents
  BY DEF EndTimers
<1>2. Listed(timeEvents', nextTimerId)
  BY <1>1, SortKeeps DEF TimersInv
<1>3. InOrder(timeEvents', 1)
  BY <1>1, SortedInOrder DEF TimersInv, Listed
<1> QED BY <1>1, <1>2, <1>3 DEF TimersInv

LEMMA TimersStep == TimersInv /\ [EventLoopNext]_eventLoopVars => TimersInv'
<1> SUFFICES ASSUME TimersInv, [EventLoopNext]_eventLoopVars PROVE TimersInv'
  OBVIOUS
<1>1. ASSUME UNCHANGED <<timerVars, passVars>>, clock' \in Nat,
             loop' = loop \/ {loop, loop'} \subseteq {"turn", "files"}
      PROVE  TimersInv'
  BY <1>1 DEF timerVars, passVars, TimersInv
<1>2. CASE Poll
  <2>1. clock' \in Nat
    BY <1>2, EventLoopAssumption DEF Poll, TimersInv
  <2> QED BY <1>1, <1>2, <2>1 DEF Poll
<1>3. CASE HandleFile
  BY <1>1, <1>3 DEF HandleFile, TimersInv
<1>4. CASE ClockMoves
  <2>1. clock' \in Nat
    BY <1>4, EventLoopAssumption DEF ClockMoves
  <2> QED BY <1>1, <1>4, <2>1 DEF ClockMoves
<1>5. CASE UNCHANGED eventLoopVars
  BY <1>5 DEF eventLoopVars, timerVars, passVars, TimersInv
<1>6. CASE BeginTimers \/ SkipTimer
  BY <1>6, BeginKeeps, SkipKeeps
<1>7. CASE FireTimer \/ EndTimers
  BY <1>7, FireKeeps, EndKeeps
<1> QED BY <1>2, <1>3, <1>4, <1>5, <1>6, <1>7 DEF EventLoopNext

(* A pass fires each timer that was due when it began and is still there,  *)
(* whatever handlers create, delete and re-sort under the iterator, and    *)
(* select() never waits for a timer that is not the nearest.               *)
THEOREM DueTimersFire == EventLoopSpec => []TimersServed
<1>1. TimersInv => TimersServed
  <2> SUFFICES ASSUME TimersInv PROVE TimersServed
    OBVIOUS
  <2>1. ASSUME loop = "turn", NEW i \in DOMAIN timeEvents
        PROVE  timeEvents[1].when <= timeEvents[i].when
    <3>1. 1 \in DOMAIN timeEvents /\ 1 <= i
      BY DEF TimersInv, Listed
    <3> QED BY <2>1, <3>1 DEF TimersInv, InOrder
  <2> QED BY <2>1 DEF TimersInv, TimersServed
<1> QED BY <1>1, TimersStart, TimersStep, PTL DEF EventLoopSpec
-----------------------------------------------------------------------------
(* Tilt mode                                                               *)

(* The count of regular time, and the clock since the last check.          *)
CalmCounted ==
  /\ tilt = TRUE => calm = TiltPeriod \/ calm = previousTime - tiltStartTime
  /\ setSince = FALSE => time >= previousTime

TimesTyped ==
  /\ time \in Nat /\ previousTime \in Nat /\ tiltStartTime \in Nat
  /\ calm \in 0..TiltPeriod

FlagsTyped == tilt \in BOOLEAN /\ judged \in BOOLEAN /\ setSince \in BOOLEAN

TiltIInv == TimesTyped /\ FlagsTyped /\ CalmCounted

LEMMA TiltStarts == TiltInit => TiltIInv
<1> SUFFICES ASSUME TiltInit PROVE TiltIInv
  OBVIOUS
<1>1. TimesTyped /\ CalmCounted
  BY TiltAssumption DEF TiltInit, TimesTyped, CalmCounted
<1>2. FlagsTyped
  BY DEF TiltInit, FlagsTyped
<1> QED BY <1>1, <1>2 DEF TiltIInv

LEMMA FlagsStep == FlagsTyped /\ [TiltNext]_tiltVars => FlagsTyped'
<1> SUFFICES ASSUME FlagsTyped, [TiltNext]_tiltVars PROVE FlagsTyped'
  OBVIOUS
<1> USE DEF FlagsTyped
<1>1. CASE checkTiltCondition
  BY <1>1 DEF checkTiltCondition
<1>2. CASE handleFlyInstance
  BY <1>2 DEF handleFlyInstance, StillTilted
<1>3. CASE TimeGoesOn
  BY <1>3 DEF TimeGoesOn
<1>4. CASE ClockIsSet
  BY <1>4 DEF ClockIsSet
<1>5. CASE UNCHANGED tiltVars
  BY <1>5 DEF tiltVars
<1> QED BY <1>1, <1>2, <1>3, <1>4, <1>5 DEF TiltNext

LEMMA TiltStep == TiltIInv /\ [TiltNext]_tiltVars => TiltIInv'
<1> SUFFICES ASSUME TiltIInv, [TiltNext]_tiltVars PROVE TimesTyped' /\ CalmCounted'
  BY FlagsStep DEF TiltIInv
<1> USE TiltAssumption DEF TiltIInv, TimesTyped, CalmCounted
<1>1. CASE checkTiltCondition
  <2>1. CASE Exceeds(time, previousTime, TiltTrigger)
    BY <1>1, <2>1 DEF checkTiltCondition, NewStart
  <2>2. CASE ~Exceeds(time, previousTime, TiltTrigger)
    <3>1. time - previousTime \in Nat
      BY <2>2 DEF Exceeds
    <3>2. /\ calm' = AtMost(calm + time - previousTime)
          /\ UNCHANGED <<tilt, tiltStartTime, time>>
          /\ previousTime' = time
      BY <1>1, <2>2 DEF checkTiltCondition
    <3>3. calm' \in 0..TiltPeriod /\ calm' \in {TiltPeriod, calm + time - previousTime}
      BY <3>1, <3>2 DEF AtMost
    <3>4. CASE calm = TiltPeriod
      BY <3>4, <3>1, <3>2, <3>3
    <3>5. CASE calm = previousTime - tiltStartTime
      BY <3>5, <3>1, <3>2, <3>3
    <3>6. CASE tilt # TRUE
      BY <3>6, <3>1, <3>2, <3>3
    <3> QED BY <3>4, <3>5, <3>6
  <2> QED BY <2>1, <2>2
<1>2. CASE handleFlyInstance
  <2>1. tilt' = TRUE => tilt = TRUE
    BY <1>2 DEF handleFlyInstance, StillTilted, FlagsTyped
  <2> QED BY <1>2, <2>1 DEF handleFlyInstance
<1>3. CASE TimeGoesOn
  BY <1>3 DEF TimeGoesOn
<1>4. CASE ClockIsSet
  BY <1>4 DEF ClockIsSet
<1>5. CASE UNCHANGED tiltVars
  BY <1>5 DEF tiltVars
<1> QED BY <1>1, <1>2, <1>3, <1>4, <1>5 DEF TiltNext

LEMMA TiltInvariant == TiltSpec => []TiltIInv
  BY TiltStarts, TiltStep, PTL DEF TiltSpec

(* The times and the flags keep their types.                               *)
THEOREM TiltTypes == TiltSpec => []TiltTypeOK
<1>1. TiltIInv => TiltTypeOK
  BY DEF TiltIInv, TimesTyped, FlagsTyped, TiltTypeOK
<1> QED BY <1>1, TiltInvariant, PTL

(* handleFlyInstance leaves tilt mode no sooner than a whole period of     *)
(* regular time after the last check that was irregular, and judges        *)
(* nothing in tilt mode.                                                   *)
THEOREM TiltLasts == TiltSpec => JudgedInCalm
<1> DEFINE Lasts == /\ tilt /\ ~tilt' /\ ~setSince => calm + (time - previousTime) >= TiltPeriod
                    /\ judged' => ~tilt'
<1>1. TiltIInv /\ [TiltNext]_tiltVars => [Lasts]_tiltVars
  <2> SUFFICES ASSUME TiltIInv, TiltNext PROVE Lasts
    OBVIOUS
  <2> USE TiltAssumption DEF TiltIInv, TimesTyped, CalmCounted, FlagsTyped
  <2>1. CASE checkTiltCondition
    BY <2>1 DEF checkTiltCondition
  <2>2. CASE handleFlyInstance
    <3>1. tilt' = StillTilted /\ judged' = ~StillTilted
      BY <2>2 DEF handleFlyInstance
    <3>2. ASSUME tilt, ~tilt', ~setSince PROVE calm + (time - previousTime) >= TiltPeriod
      <4>1. Exceeds(time, tiltStartTime, TiltPeriod - 1)
        BY <3>1, <3>2 DEF StillTilted
      <4>2. time < tiltStartTime \/ time - tiltStartTime > TiltPeriod - 1
        BY <4>1 DEF Exceeds
      <4> QED BY <3>2, <4>2
    <3> QED BY <3>1, <3>2
  <2>3. CASE TimeGoesOn \/ ClockIsSet
    BY <2>3 DEF TimeGoesOn, ClockIsSet
  <2> QED BY <2>1, <2>2, <2>3 DEF TiltNext
<1> QED BY <1>1, TiltInvariant, PTL DEF TiltSpec, JudgedInCalm
=============================================================================
