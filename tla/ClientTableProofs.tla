------------------------- MODULE ClientTableProofs -------------------------
(***************************************************************************)
(* Proofs about ClientTable, for any set of file descriptors and any       *)
(* number of clients: a number that is closed before its client is         *)
(* unlinked cannot come back in between, because it stays registered and   *)
(* select() then finds nothing to accept.                                  *)
(*                                                                         *)
(* And about PubSub, for any clients, names and commands: the clients and  *)
(* the handler agree about every channel (Agreed).  Each of the four calls *)
(* keeps that for one name; HandledKeeps carries it over the names of a    *)
(* command, for a first name at which it failed would have one before it.  *)
(***************************************************************************)
EXTENDS ClientTable, PubSub, SequenceTheorems, FiniteSetTheorems, WellFoundedInduction, TLAPS

Elems(s) == {s[i] : i \in DOMAIN s}

Once(s) == \A i, j \in DOMAIN s : s[i] = s[j] => i = j

(* A number leads to its client or to one that is gone.                    *)
Lookup ==
  /\ LookupFindsOwner
  /\ \A f \in Fds : clients[f] # 0 => fd[clients[f]] \in {f, -1}

(* A number is registered from accept() until unlinkClient, closed or not; *)
(* so when one of them is closed, select() fails and nothing is accepted.  *)
Polled ==
  /\ \A c \in Clients : fd[c] # -1 => fd[c] \in rfds
  /\ \A f \in rfds \cup wfds : clients[f] # 0
  /\ \A e \in fired : clients[e[1]] # 0
  /\ phase = "accept" => /\ \A f \in rfds \cup wfds : owner[f] # 0
                         /\ \A e \in fired : owner[e[1]] # 0
  /\ phase \in {"sleep", "timers", "free"} => fired = {}

(* A client that sendReplyToClient writes for is not listed in             *)
(* clientsPendingWrite, and its connection is open.                        *)
OneWriter ==
  \A c \in Clients : fd[c] # -1 =>
    /\ <<fd[c], "W">> \in fired => owner[fd[c]] # 0
    /\ (owner[fd[c]] # 0 /\ (fd[c] \in wfds \/ <<fd[c], "W">> \in fired))
         => output[c] /\ "PENDING_WRITE" \notin flags[c]

Fresh == \A c \in Clients : c > created => fd[c] = -1 /\ flags[c] = {}

Closing ==
  \A c \in Clients : ("CLOSE_ASAP" \in flags[c] /\ fd[c] # -1) => owner[fd[c]] = 0

(* CloseListed and PendingAsFlagged, without counting.                     *)
Listed ==
  /\ Once(pendingWrite) /\ Once(toClose)
  /\ \A c \in Clients :
       /\ c \in Elems(pendingWrite) <=> fd[c] # -1 /\ "PENDING_WRITE" \in flags[c]
       /\ c \in Elems(toClose) <=> fd[c] # -1 /\ "CLOSE_ASAP" \in flags[c]

TableInv ==
  TypeOK /\ Lookup /\ Polled /\ OneWriter /\ Fresh /\ Closing /\ Listed
-----------------------------------------------------------------------------
(* Sequences in which nothing occurs twice *)

LEMMA OnceTail ==
  ASSUME NEW S, NEW s \in Seq(S), s # << >>, Once(s)
  PROVE  /\ Head(s) \in S /\ Tail(s) \in Seq(S)
         /\ Head(s) \in Elems(s)
         /\ Once(Tail(s))
         /\ \A a : a \in Elems(Tail(s)) <=> a \in Elems(s) /\ a # Head(s)
<1>1. /\ Head(s) \in S /\ Tail(s) \in Seq(S) /\ Len(Tail(s)) = Len(s) - 1
      /\ \A i \in 1..Len(Tail(s)) : Tail(s)[i] = s[i + 1]
      /\ Len(s) \in Nat /\ Len(s) # 0
  BY HeadTailProperties, EmptySeq
<1>2. DOMAIN s = 1..Len(s) /\ DOMAIN Tail(s) = 1..(Len(s) - 1) /\ Head(s) = s[1]
  BY <1>1, LenProperties
<1>3. Head(s) \in Elems(s)
  BY <1>1, <1>2 DEF Elems
<1>4. Once(Tail(s))
  <2> SUFFICES ASSUME NEW i \in 1..(Len(s) - 1), NEW j \in 1..(Len(s) - 1),
                      Tail(s)[i] = Tail(s)[j]
               PROVE  i = j
    BY <1>2 DEF Once
  <2>1. s[i + 1] = s[j + 1] /\ i + 1 \in DOMAIN s /\ j + 1 \in DOMAIN s
    BY <1>1, <1>2
  <2>2. i + 1 = j + 1
    BY <2>1 DEF Once
  <2>3. QED
    BY <2>2
<1>5. ASSUME NEW a, a \in Elems(Tail(s)) PROVE a \in Elems(s) /\ a # Head(s)
  <2>1. PICK i \in 1..(Len(s) - 1) : a = Tail(s)[i]
    BY <1>5, <1>2 DEF Elems
  <2>2. a = s[i + 1] /\ i + 1 \in DOMAIN s /\ i + 1 # 1 /\ 1 \in DOMAIN s
    BY <2>1, <1>1, <1>2
  <2>3. s[i + 1] # s[1]
    BY <2>2 DEF Once
  <2>4. QED
    BY <2>2, <2>3, <1>2 DEF Elems
<1>6. ASSUME NEW a, a \in Elems(s), a # Head(s) PROVE a \in Elems(Tail(s))
  <2>1. PICK i \in DOMAIN s : a = s[i]
    BY <1>6 DEF Elems
  <2>2. i - 1 \in 1..(Len(s) - 1) /\ (i - 1) + 1 = i
    BY <2>1, <1>2, <1>6, <1>1
  <2>3. Tail(s)[i - 1] = a
    BY <2>1, <2>2, <1>1
  <2>4. QED
    BY <2>2, <2>3, <1>2 DEF Elems
<1>7. QED
  BY <1>1, <1>3, <1>4, <1>5, <1>6

LEMMA OnceAppend ==
  ASSUME NEW S, NEW s \in Seq(S), Once(s), NEW e \in S, e \notin Elems(s)
  PROVE  /\ Append(s, e) \in Seq(S)
         /\ Once(Append(s, e))
         /\ \A a : a \in Elems(Append(s, e)) <=> a \in Elems(s) \/ a = e
<1> DEFINE t == Append(s, e)
<1>1. /\ t \in Seq(S) /\ Len(t) = Len(s) + 1 /\ Len(s) \in Nat
      /\ \A i \in 1..Len(s) : t[i] = s[i]
      /\ t[Len(s) + 1] = e
  BY AppendProperties, LenProperties
<1>2. DOMAIN s = 1..Len(s) /\ DOMAIN t = 1..(Len(s) + 1)
  BY <1>1, LenProperties
<1> HIDE DEF t
<1>3. \A i \in DOMAIN t : i \in DOMAIN s \/ i = Len(s) + 1
  BY <1>1, <1>2
<1>4. \A i \in DOMAIN s : i \in DOMAIN t /\ t[i] = s[i] /\ t[i] # e
  BY <1>1, <1>2 DEF Elems
<1>5. Once(t)
  BY <1>1, <1>3, <1>4 DEF Once
<1>6. Len(s) + 1 \in DOMAIN t
  BY <1>1, <1>2
<1>7. \A a : a \in Elems(t) <=> a \in Elems(s) \/ a = e
  BY <1>1, <1>3, <1>4, <1>6 DEF Elems
<1>8. QED
  BY <1>1, <1>5, <1>7 DEF t

(* Taking out the element at position i.                                   *)
LEMMA RemoveProperties ==
  ASSUME NEW S, NEW s \in Seq(S), NEW i \in 1..Len(s)
  PROVE  LET r == SubSeq(s, 1, i - 1) \o SubSeq(s, i + 1, Len(s))
         IN /\ r \in Seq(S) /\ Len(r) = Len(s) - 1
            /\ \A k \in 1..(Len(s) - 1) : r[k] = IF k < i THEN s[k] ELSE s[k + 1]
<1> DEFINE p == SubSeq(s, 1, i - 1)
           q == SubSeq(s, i + 1, Len(s))
           r == p \o q
<1>1. Len(s) \in Nat /\ i \in Nat /\ i >= 1 /\ i <= Len(s)
  BY LenProperties
<1>2. (\A k \in 1..(i - 1) : s[k] \in S) /\ (\A k \in (i + 1)..Len(s) : s[k] \in S)
  BY <1>1, ElementOfSeq
<1>3. /\ p \in Seq(S) /\ Len(p) = i - 1
      /\ \A k \in 1..(i - 1) : p[k] = s[k]
  <2>1. /\ p \in Seq(S) /\ Len(p) = IF 1 <= i - 1 THEN (i - 1) - 1 + 1 ELSE 0
        /\ \A k \in 1..((i - 1) - 1 + 1) : p[k] = s[1 + k - 1]
    BY <1>1, <1>2, SubSeqProperties
  <2>2. Len(p) = i - 1
    BY <2>1, <1>1
  <2>3. ASSUME NEW k \in 1..(i - 1) PROVE p[k] = s[k]
    <3>1. 1 + k - 1 = k /\ k \in 1..((i - 1) - 1 + 1)
      BY <1>1
    <3>2. QED
      BY <3>1, <2>1
  <2>4. QED
    BY <2>1, <2>2, <2>3
<1>4. /\ q \in Seq(S) /\ Len(q) = Len(s) - i
      /\ \A k \in 1..(Len(s) - i) : q[k] = s[i + k]
  <2>1. /\ q \in Seq(S)
        /\ Len(q) = IF i + 1 <= Len(s) THEN Len(s) - (i + 1) + 1 ELSE 0
        /\ \A k \in 1..(Len(s) - (i + 1) + 1) : q[k] = s[i + 1 + k - 1]
    BY <1>1, <1>2, SubSeqProperties
  <2>2. Len(q) = Len(s) - i
    BY <2>1, <1>1
  <2>3. ASSUME NEW k \in 1..(Len(s) - i) PROVE q[k] = s[i + k]
    <3>1. i + 1 + k - 1 = i + k /\ k \in 1..(Len(s) - (i + 1) + 1)
      BY <1>1
    <3>2. QED
      BY <3>1, <2>1
  <2>4. QED
    BY <2>1, <2>2, <2>3
<1> HIDE DEF p, q
<1>5. /\ r \in Seq(S) /\ Len(r) = Len(p) + Len(q)
      /\ \A k \in 1..(Len(p) + Len(q)) : r[k] = IF k <= Len(p) THEN p[k] ELSE q[k - Len(p)]
  BY <1>3, <1>4, ConcatProperties
<1> HIDE DEF r
<1>6. Len(r) = Len(s) - 1
  BY <1>1, <1>3, <1>4, <1>5
<1>7. ASSUME NEW k \in 1..(Len(s) - 1) PROVE r[k] = IF k < i THEN s[k] ELSE s[k + 1]
  <2>1. k \in 1..(Len(p) + Len(q))
    BY <1>1, <1>3, <1>4
  <2>2. CASE k < i
    <3>1. k <= Len(p) /\ k \in 1..(i - 1)
      BY <2>2, <1>1, <1>3
    <3>2. QED
      BY <2>1, <2>2, <3>1, <1>3, <1>5
  <2>3. CASE ~(k < i)
    <3>1. ~(k <= Len(p)) /\ k - Len(p) \in 1..(Len(s) - i) /\ i + (k - Len(p)) = k + 1
      BY <2>3, <1>1, <1>3
    <3>2. r[k] = q[k - Len(p)]
      BY <2>1, <3>1, <1>5
    <3>3. q[k - Len(p)] = s[i + (k - Len(p))]
      BY <3>1, <1>4
    <3>4. QED
      BY <2>3, <3>1, <3>2, <3>3
  <2>4. QED
    BY <2>2, <2>3
<1>8. QED
  BY <1>5, <1>6, <1>7 DEF r, p, q

(* Deleted takes out exactly c, the only client of its number in the list; *)
(* g stands for fd'.                                                       *)
DeletedFrom(s, g, number, left) ==
  LET found == {i \in DOMAIN s : g[s[i]] = number}
  IN IF found = {} THEN left = s
     ELSE \E i \in found :
            /\ \A j \in found : i <= j
            /\ left = SubSeq(s, 1, i - 1) \o SubSeq(s, i + 1, Len(s))

OnlyOne(s, g, number, c) == \A a \in Elems(s) : g[a] = number <=> a = c

LEMMA DeletedProperties ==
  ASSUME NEW S, NEW s \in Seq(S), Once(s), NEW g, NEW number, NEW left,
         DeletedFrom(s, g, number, left),
         NEW c, OnlyOne(s, g, number, c)
  PROVE  /\ left \in Seq(S) /\ Once(left)
         /\ \A a : a \in Elems(left) <=> a \in Elems(s) /\ a # c
<1>1. DOMAIN s = 1..Len(s) /\ Len(s) \in Nat
  BY LenProperties
<1>2. CASE {i \in DOMAIN s : g[s[i]] = number} = {}
  BY <1>2 DEF DeletedFrom, Elems, OnlyOne
<1>3. CASE {i \in DOMAIN s : g[s[i]] = number} # {}
  <2>1. PICK i \in 1..Len(s) :
          /\ g[s[i]] = number
          /\ left = SubSeq(s, 1, i - 1) \o SubSeq(s, i + 1, Len(s))
    BY <1>1, <1>3 DEF DeletedFrom
  <2>2. s[i] = c
    BY <2>1, <1>1 DEF Elems, OnlyOne
  <2>3. /\ left \in Seq(S) /\ Len(left) = Len(s) - 1
        /\ \A k \in 1..(Len(s) - 1) : left[k] = IF k < i THEN s[k] ELSE s[k + 1]
    BY <2>1, RemoveProperties
  <2>4. DOMAIN left = 1..(Len(s) - 1)
    BY <2>3, LenProperties
  <2> DEFINE from(k) == IF k < i THEN k ELSE k + 1
  <2>5. ASSUME NEW k \in DOMAIN left
        PROVE from(k) \in DOMAIN s /\ from(k) # i /\ left[k] = s[from(k)]
    BY <2>3, <2>4, <1>1
  <2>6. ASSUME NEW j \in DOMAIN left, NEW k \in DOMAIN left, from(j) = from(k) PROVE j = k
    BY <2>6, <2>4, <1>1
  <2>7. ASSUME NEW j \in DOMAIN s, j # i PROVE \E k \in DOMAIN left : from(k) = j
    <3>1. CASE j < i
      <4>1. j \in DOMAIN left /\ from(j) = j
        BY <3>1, <2>4, <1>1
      <4>2. QED
        BY <4>1
    <3>2. CASE ~(j < i)
      <4>1. j - 1 \in DOMAIN left /\ from(j - 1) = j
        BY <3>2, <2>7, <2>4, <1>1
      <4>2. QED
        BY <4>1
    <3>3. QED
      BY <3>1, <3>2
  <2> HIDE DEF from
  <2>8. Once(left)
    BY <2>5, <2>6 DEF Once
  <2>9. ASSUME NEW a, a \in Elems(left) PROVE a \in Elems(s) /\ a # c
    <3>1. PICK k \in DOMAIN left : a = left[k]
      BY <2>9 DEF Elems
    <3>2. from(k) \in DOMAIN s /\ from(k) # i /\ a = s[from(k)] /\ i \in DOMAIN s
      BY <3>1, <2>5, <1>1
    <3>3. a # s[i]
      BY <3>2 DEF Once
    <3>4. QED
      BY <3>2, <3>3, <2>2 DEF Elems
  <2>10. ASSUME NEW a, a \in Elems(s), a # c PROVE a \in Elems(left)
    <3>1. PICK j \in DOMAIN s : a = s[j]
      BY <2>10 DEF Elems
    <3>2. j # i
      BY <3>1, <2>10, <2>2
    <3>3. PICK k \in DOMAIN left : from(k) = j
      BY <3>2, <2>7
    <3>4. left[k] = a
      BY <3>1, <3>3, <2>5
    <3>5. QED
      BY <3>4 DEF Elems
  <2>11. QED
    BY <2>3, <2>8, <2>9, <2>10
<1>4. QED
  BY <1>2, <1>3
-----------------------------------------------------------------------------
(* What the invariant says of a client and its number *)

LEMMA Numbers ==
  ASSUME TableInv
  PROVE  /\ -1 \notin Fds /\ created \in Nat /\ Clients = 1..MaxConns
         /\ \A f \in Fds : clients[f] # 0 => clients[f] \in Clients
         /\ \A c \in Clients : fd[c] # -1 =>
              /\ fd[c] \in Fds /\ clients[fd[c]] = c /\ c # 0 /\ c <= created
              /\ getFlyClient(fd[c]) = c
         /\ \A c \in Clients : fd[c] = -1 => getFlyClient(fd[c]) = 0
         /\ \A a, c \in Clients : (fd[a] # -1 /\ fd[a] = fd[c]) => a = c
<1>1. -1 \notin Fds
  BY TableAssumption
<1>2. /\ created \in 0..MaxConns /\ Clients = 1..MaxConns /\ MaxConns \in Nat
      /\ clients \in [Fds -> 0..created] /\ fd \in [Clients -> Fds \cup {-1}]
  BY TableAssumption DEF TableInv, TypeOK, Clients
<1>3. \A f \in Fds : clients[f] # 0 => clients[f] \in Clients
  BY <1>2
<1>4. ASSUME NEW c \in Clients, fd[c] # -1
      PROVE  fd[c] \in Fds /\ clients[fd[c]] = c /\ c # 0 /\ c <= created
  <2>1. fd[c] \in Fds /\ clients[fd[c]] = c
    BY <1>2, <1>4 DEF TableInv, Lookup, LookupFindsOwner
  <2>2. c \in 0..created /\ c \in 1..MaxConns
    BY <1>2, <2>1
  <2>3. QED
    BY <2>1, <2>2
<1>5. QED
  BY <1>1, <1>2, <1>3, <1>4 DEF getFlyClient

LEMMA TableInit == Init => TableInv
<1> SUFFICES ASSUME Init PROVE TableInv
  OBVIOUS
<1>1. MaxConns \in Nat /\ MaxRejects \in Nat /\ Clients = 1..MaxConns
  BY TableAssumption DEF Clients
<1>2. TypeOK
  <2>1. /\ pendingWrite \in Seq(Clients) /\ toClose \in Seq(Clients)
        /\ created \in 0..MaxConns /\ rejected \in 0..MaxRejects
    BY <1>1, EmptySeq DEF Init
  <2>2. /\ clients \in [Fds -> 0..created] /\ owner \in [Fds -> 0..created]
        /\ fd \in [Clients -> Fds \cup {-1}] /\ flags \in [Clients -> SUBSET Flags]
        /\ output \in [Clients -> BOOLEAN]
    BY DEF Init
  <2>3. QED
    BY <2>1, <2>2 DEF Init, TypeOK, Phases
<1>3. Lookup /\ Polled /\ OneWriter /\ Fresh /\ Closing
  BY DEF Init, Lookup, LookupFindsOwner, Polled, OneWriter, Fresh, Closing
<1>4. Listed
  <2>1. DOMAIN << >> = {}
    OBVIOUS
  <2>2. QED
    BY <2>1 DEF Init, Listed, Once, Elems
<1>5. QED
  BY <1>2, <1>3, <1>4 DEF TableInv

(* Steps that only move the place in the turn, or use up an event.         *)
LEMMA QuietKeeps ==
  ASSUME TableInv,
         UNCHANGED <<clients, objects, lists, rejected, owner, rfds, wfds>>,
         fired' \subseteq fired, phase' \in Phases \ {"accept"},
         phase' \in {"sleep", "timers", "free"} => fired' = {}
  PROVE  TableInv'
<1>1. UNCHANGED <<clients, created, fd, flags, output, pendingWrite, toClose, rejected,
                  owner, rfds, wfds>>
  BY DEF objects, lists
<1>2. TypeOK'
  BY <1>1 DEF TableInv, TypeOK
<1>3. Lookup' /\ Fresh' /\ Closing' /\ Listed'
  BY <1>1 DEF TableInv, Lookup, LookupFindsOwner, Fresh, Closing, Listed, Once, Elems
<1>4. Polled'
  BY <1>1 DEF TableInv, Polled
<1>5. OneWriter'
  BY <1>1 DEF TableInv, OneWriter
<1>6. QED
  BY <1>2, <1>3, <1>4, <1>5 DEF TableInv

(* select(): only with every registered number open is anything found.     *)
LEMMA PollKeeps == TableInv /\ Poll => TableInv'
<1> SUFFICES ASSUME TableInv, Poll PROVE TableInv'
  OBVIOUS
<1>1. /\ UNCHANGED <<clients, objects, lists, rejected, owner, rfds, wfds>>
      /\ pendingWrite = << >> /\ phase = "sleep"
  BY DEF Poll
<1>2. CASE BadFd
  <2>1. phase' = "timers" /\ fired' = fired /\ fired = {}
    BY <1>2 DEF Poll, TableInv, Polled
  <2>2. QED
    BY <1>1, <2>1, QuietKeeps DEF Phases
<1>3. CASE ~BadFd
  <2>1. /\ fired' \in SUBSET (rfds \X {"R"} \cup wfds \X {"W"})
        /\ phase' \in {"accept", "events"}
        /\ \A f \in rfds \cup wfds : owner[f] # 0
    BY <1>3 DEF Poll, BadFd
  <2>2. UNCHANGED <<clients, created, fd, flags, output, pendingWrite, toClose, rejected,
                    owner, rfds, wfds>>
    BY <1>1 DEF objects, lists
  <2>3. rfds \subseteq Fds /\ wfds \subseteq Fds
    BY DEF TableInv, TypeOK
  <2>4. \A e \in fired' : /\ e[1] \in rfds \cup wfds
                          /\ e \in Fds \X {"R", "W"}
                          /\ \A f : e = <<f, "W">> => f \in wfds
    BY <2>1, <2>3
  <2>5. TypeOK'
    BY <2>1, <2>2, <2>4 DEF TableInv, TypeOK, Phases, Events
  <2>6. Lookup' /\ Fresh' /\ Closing' /\ Listed'
    BY <2>2 DEF TableInv, Lookup, LookupFindsOwner, Fresh, Closing, Listed, Once, Elems
  <2>7. Polled'
    BY <2>1, <2>2, <2>4 DEF TableInv, Polled
  <2>8. OneWriter'
    <3>1. \A c \in Clients : <<fd[c], "W">> \in fired' => fd[c] \in wfds
      BY <2>4
    <3>2. QED
      BY <2>1, <2>2, <3>1 DEF TableInv, OneWriter
  <2>9. QED
    BY <2>5, <2>6, <2>7, <2>8 DEF TableInv
<1>4. QED
  BY <1>2, <1>3

(* What unlinkClient does to a client and to the lists; the numbers closed *)
(* besides are of no other client.                                         *)
LEMMA UnlinkEffect ==
  ASSUME TableInv, NEW c \in Clients, NEW more \in SUBSET Fds,
         \A f \in more : clients[f] = c, unlinkClient(c, more)
  PROVE  /\ fd' = [fd EXCEPT ![c] = -1]
         /\ rfds' = rfds \ {fd[c]} /\ wfds' = wfds \ {fd[c]}
         /\ owner' = [f \in Fds |-> IF f = fd[c] THEN 0 ELSE owner[f]]
         /\ pendingWrite' \in Seq(Clients) /\ Once(pendingWrite')
         /\ toClose' \in Seq(Clients) /\ Once(toClose')
         /\ \A a \in Clients :
              /\ a \in Elems(pendingWrite') <=> a \in Elems(pendingWrite) /\ a # c
              /\ a \in Elems(toClose') <=> a \in Elems(toClose) /\ a # c
         /\ UNCHANGED <<clients, created, flags, output, rejected>>
<1> DEFINE numbers == IF getFlyClient(fd[c]) # 0 THEN {fd[c]} ELSE {}
<1>1. /\ rfds' = rfds \ numbers /\ wfds' = wfds \ numbers
      /\ owner' = [f \in Fds |-> IF f \in numbers \cup more THEN 0 ELSE owner[f]]
      /\ fd' = [fd EXCEPT ![c] = IF numbers # {} THEN -1 ELSE @]
      /\ IF IsPending(c) THEN Deleted(pendingWrite, fd'[c], pendingWrite')
                         ELSE pendingWrite' = pendingWrite
      /\ Deleted(toClose, fd'[c], toClose')
      /\ UNCHANGED <<clients, created, flags, output, rejected>>
  BY DEF unlinkClient, Close, Unlinked
<1>2. /\ fd \in [Clients -> Fds \cup {-1}] /\ owner \in [Fds -> 0..created]
      /\ rfds \subseteq Fds /\ wfds \subseteq Fds
      /\ pendingWrite \in Seq(Clients) /\ toClose \in Seq(Clients) /\ -1 \notin Fds
  BY Numbers DEF TableInv, TypeOK
<1>3. numbers = IF fd[c] = -1 THEN {} ELSE {fd[c]}
  BY Numbers
<1> HIDE DEF numbers
<1>4. fd' = [fd EXCEPT ![c] = -1] /\ fd'[c] = -1
  BY <1>1, <1>2, <1>3
<1>5. rfds' = rfds \ {fd[c]} /\ wfds' = wfds \ {fd[c]}
  BY <1>1, <1>2, <1>3
<1>6. ASSUME NEW f \in more, f # fd[c] PROVE owner[f] = 0
  BY <1>6 DEF TableInv, Lookup, LookupFindsOwner
<1>7. ASSUME NEW f \in Fds
      PROVE (IF f \in numbers \cup more THEN 0 ELSE owner[f]) = IF f = fd[c] THEN 0 ELSE owner[f]
  BY <1>2, <1>3, <1>6
<1>8. owner' = [f \in Fds |-> IF f = fd[c] THEN 0 ELSE owner[f]]
  BY <1>1, <1>7
<1>9. (\A a \in Elems(pendingWrite) : a \in Clients) /\ (\A a \in Elems(toClose) : a \in Clients)
  BY <1>2, ElementOfSeq, LenProperties DEF Elems
<1>10. \A a \in Elems(pendingWrite) \cup Elems(toClose) : fd[a] # -1
  BY <1>9 DEF TableInv, Listed
<1>11. \A a \in Elems(pendingWrite) \cup Elems(toClose) : fd'[a] = -1 <=> a = c
  BY <1>2, <1>4, <1>9, <1>10
<1>12. Once(pendingWrite) /\ Once(toClose)
  BY DEF TableInv, Listed
<1>13. /\ toClose' \in Seq(Clients) /\ Once(toClose')
       /\ \A a : a \in Elems(toClose') <=> a \in Elems(toClose) /\ a # c
  <2>1. DeletedFrom(toClose, fd', -1, toClose')
    BY <1>1, <1>4 DEF Deleted, DeletedFrom
  <2>2. OnlyOne(toClose, fd', -1, c) /\ toClose \in Seq(Clients)
    BY <1>2, <1>11 DEF OnlyOne
  <2>3. QED
    BY <1>12, <2>1, <2>2, DeletedProperties
<1>14. /\ pendingWrite' \in Seq(Clients) /\ Once(pendingWrite')
       /\ \A a : a \in Elems(pendingWrite') <=> a \in Elems(pendingWrite) /\ a # c
  <2>1. CASE IsPending(c)
    <3>1. DeletedFrom(pendingWrite, fd', -1, pendingWrite')
      BY <1>1, <1>4, <2>1 DEF Deleted, DeletedFrom
    <3>2. OnlyOne(pendingWrite, fd', -1, c) /\ pendingWrite \in Seq(Clients)
      BY <1>2, <1>11 DEF OnlyOne
    <3>3. QED
      BY <1>12, <3>1, <3>2, DeletedProperties
  <2>2. CASE ~IsPending(c)
    <3>1. pendingWrite' = pendingWrite /\ c \notin Elems(pendingWrite)
      BY <1>1, <2>2 DEF IsPending, TableInv, Listed
    <3>2. QED
      BY <3>1, <1>2, <1>12
  <2>3. QED
    BY <2>1, <2>2
<1>15. QED
  BY <1>1, <1>4, <1>5, <1>8, <1>13, <1>14

LEMMA UnlinkKeeps ==
  ASSUME TableInv, NEW c \in Clients, NEW more \in SUBSET Fds,
         \A f \in more : clients[f] = c, unlinkClient(c, more),
         fired' \subseteq fired, phase' \in Phases \ {"accept"},
         phase' \in {"sleep", "timers", "free"} => fired' = {}
  PROVE  TableInv'
<1>1. /\ fd' = [fd EXCEPT ![c] = -1]
      /\ rfds' = rfds \ {fd[c]} /\ wfds' = wfds \ {fd[c]}
      /\ owner' = [f \in Fds |-> IF f = fd[c] THEN 0 ELSE owner[f]]
      /\ pendingWrite' \in Seq(Clients) /\ Once(pendingWrite')
      /\ toClose' \in Seq(Clients) /\ Once(toClose')
      /\ \A a \in Clients :
           /\ a \in Elems(pendingWrite') <=> a \in Elems(pendingWrite) /\ a # c
           /\ a \in Elems(toClose') <=> a \in Elems(toClose) /\ a # c
      /\ UNCHANGED <<clients, created, flags, output, rejected>>
  BY UnlinkEffect
<1>2. /\ fd \in [Clients -> Fds \cup {-1}] /\ owner \in [Fds -> 0..created]
      /\ clients \in [Fds -> 0..created] /\ created \in Nat
      /\ rfds \subseteq Fds /\ wfds \subseteq Fds /\ -1 \notin Fds
  BY Numbers DEF TableInv, TypeOK
<1>3. \A a \in Clients : fd'[a] = IF a = c THEN -1 ELSE fd[a]
  BY <1>1, <1>2
<1>4. \A f \in Fds : owner'[f] = IF f = fd[c] THEN 0 ELSE owner[f]
  BY <1>1
<1>5. \A a \in Clients : (a # c /\ fd[a] # -1) => fd[a] # fd[c] /\ fd[a] \in Fds
  BY Numbers
<1>6. TypeOK'
  <2>1. fd' \in [Clients -> Fds \cup {-1}]
    BY <1>1, <1>2
  <2>2. owner' \in [Fds -> 0..created']
    BY <1>1, <1>2
  <2>3. QED
    BY <1>1, <2>1, <2>2 DEF TableInv, TypeOK
<1>7. Lookup'
  <2>1. ASSUME NEW f \in Fds, owner'[f] # 0 PROVE clients'[f] = owner'[f] /\ fd'[owner'[f]] = f
    <3>1. f # fd[c] /\ owner[f] # 0 /\ owner'[f] = owner[f]
      BY <2>1, <1>4
    <3>2. clients[f] = owner[f] /\ fd[owner[f]] = f /\ owner[f] \in Clients
      BY <3>1, Numbers DEF TableInv, Lookup, LookupFindsOwner
    <3>3. QED
      BY <3>1, <3>2, <1>1, <1>3
  <2>2. ASSUME NEW a \in Clients, fd'[a] # -1 PROVE clients'[fd'[a]] = a
    BY <2>2, <1>1, <1>3, Numbers
  <2>3. ASSUME NEW f \in Fds, clients'[f] # 0 PROVE fd'[clients'[f]] \in {f, -1}
    <3>1. clients[f] \in Clients /\ fd[clients[f]] \in {f, -1}
      BY <2>3, <1>1, Numbers DEF TableInv, Lookup
    <3>2. QED
      BY <3>1, <1>1, <1>3
  <2>4. QED
    BY <2>1, <2>2, <2>3 DEF Lookup, LookupFindsOwner
<1>8. Polled'
  <2>1. \A a \in Clients : fd'[a] # -1 => fd'[a] \in rfds'
    BY <1>1, <1>3, <1>5 DEF TableInv, Polled
  <2>2. (\A f \in rfds' \cup wfds' : clients'[f] # 0) /\ (\A e \in fired' : clients'[e[1]] # 0)
    BY <1>1 DEF TableInv, Polled
  <2>3. QED
    BY <2>1, <2>2 DEF Polled
<1>9. OneWriter'
  <2> SUFFICES ASSUME NEW a \in Clients, fd'[a] # -1
               PROVE  /\ <<fd'[a], "W">> \in fired' => owner'[fd'[a]] # 0
                      /\ (owner'[fd'[a]] # 0 /\ (fd'[a] \in wfds' \/ <<fd'[a], "W">> \in fired'))
                            => output'[a] /\ "PENDING_WRITE" \notin flags'[a]
    BY DEF OneWriter
  <2>1. fd'[a] = fd[a] /\ fd[a] # -1 /\ owner'[fd[a]] = owner[fd[a]]
    BY <1>3, <1>4, <1>5
  <2>2. QED
    BY <2>1, <1>1 DEF TableInv, OneWriter
<1>10. Fresh' /\ Closing'
  <2>1. Fresh'
    BY <1>1, <1>3 DEF TableInv, Fresh
  <2>2. Closing'
    BY <1>1, <1>3, <1>4, <1>5 DEF TableInv, Closing
  <2>3. QED
    BY <2>1, <2>2
<1>11. Listed'
  BY <1>1, <1>3 DEF TableInv, Listed
<1>12. QED
  BY <1>6, <1>7, <1>8, <1>9, <1>10, <1>11 DEF TableInv

(* How writeToClient leaves client c and its connection.                   *)
LEMMA WriteEffect ==
  ASSUME TableInv, NEW c \in Clients, NEW left \in [Clients -> SUBSET Flags],
         NEW end \in Ends, writeToClient(c, left, end)
  PROVE  /\ output' \in [Clients -> BOOLEAN]
         /\ \A a \in Clients : a # c => output'[a] = output[a]
         /\ end = "all" => ~output'[c]
         /\ end = "rest" => output'[c] /\ fd[c] # -1
         /\ owner' = [f \in Fds |-> IF end = "closed" /\ f = fd[c] THEN 0 ELSE owner[f]]
         /\ \/ /\ flags' = left /\ toClose' = toClose
               /\ end = "closed" => fd[c] = -1 \/ "CLOSE_ASAP" \in left[c]
            \/ /\ end = "closed" /\ fd[c] # -1 /\ "CLOSE_ASAP" \notin left[c]
               /\ flags' = [left EXCEPT ![c] = {"CLOSE_ASAP"}]
               /\ toClose' = Append(toClose, c)
<1>1. /\ output \in [Clients -> BOOLEAN] /\ owner \in [Fds -> 0..created] /\ -1 \notin Fds
      /\ fd \in [Clients -> Fds \cup {-1}]
  BY Numbers DEF TableInv, TypeOK
<1>2. PICK rest \in BOOLEAN :
        /\ CASE end = "all"  -> ~rest
             [] end = "rest" -> rest /\ Open(c)
             [] OTHER        -> TRUE
        /\ output' = [output EXCEPT ![c] = rest]
  BY DEF writeToClient
<1>3. output'[c] = rest /\ \A a \in Clients : a # c => output'[a] = output[a]
  BY <1>1, <1>2
<1>4. output' \in [Clients -> BOOLEAN]
  BY <1>1, <1>2
<1>5. (end = "all" => ~output'[c]) /\ (end = "rest" => output'[c] /\ fd[c] # -1)
  <2>1. end = "all" => ~rest
    BY <1>2
  <2>2. end = "rest" => rest /\ Open(c)
    BY <1>2
  <2>3. QED
    BY <2>1, <2>2, <1>1, <1>3 DEF Open
<1>6. CASE end = "closed"
  <2>1. freeClientAsyncAndClose(c, left)
    BY <1>6 DEF writeToClient
  <2>2. owner' = [f \in Fds |-> IF f \in {fd[c]} THEN 0 ELSE owner[f]]
    BY <2>1 DEF freeClientAsyncAndClose, Close
  <2>3. CASE fd[c] = -1
    <3>1. flags' = left /\ toClose' = toClose
      BY <2>1, <2>3, Numbers DEF freeClientAsyncAndClose
    <3>2. QED
      BY <1>3, <1>4, <1>5, <1>6, <2>2, <2>3, <3>1
  <2>4. CASE fd[c] # -1
    <3>1. getFlyClient(fd[c]) = c /\ c # 0
      BY <2>4, Numbers
    <3>2. IF "CLOSE_ASAP" \in left[c]
          THEN flags' = left /\ toClose' = toClose
          ELSE /\ flags' = [left EXCEPT ![c] = {"CLOSE_ASAP"}]
               /\ toClose' = Append(toClose, c)
      BY <2>1, <3>1 DEF freeClientAsyncAndClose, Marked, With
    <3>3. QED
      BY <1>3, <1>4, <1>5, <1>6, <2>2, <2>4, <3>2
  <2>5. QED
    BY <2>3, <2>4
<1>7. CASE end # "closed"
  <2>1. flags' = left /\ toClose' = toClose /\ owner' = owner
    BY <1>7 DEF writeToClient
  <2>2. owner' = [f \in Fds |-> IF end = "closed" /\ f = fd[c] THEN 0 ELSE owner[f]]
    BY <1>1, <1>7, <2>1
  <2>3. QED
    BY <1>3, <1>4, <1>5, <1>7, <2>1, <2>2
<1>8. QED
  BY <1>6, <1>7

(* What both callers of writeToClient keep, of the table and of            *)
(* clientsToClose; left differs from flags in CLIENT_PENDING_WRITE only.   *)
LEMMA WriteKeeps ==
  ASSUME TableInv, NEW c \in Clients, NEW left \in [Clients -> SUBSET Flags],
         \A a \in Clients : /\ "CLOSE_ASAP" \in left[a] <=> "CLOSE_ASAP" \in flags[a]
                            /\ a # c => left[a] = flags[a],
         c <= created,
         NEW end \in Ends, writeToClient(c, left, end),
         UNCHANGED <<clients, created, fd, rejected, rfds>>
  PROVE  /\ Lookup' /\ Fresh' /\ Closing'
         /\ flags' \in [Clients -> SUBSET Flags]
         /\ output' \in [Clients -> BOOLEAN]
         /\ owner' \in [Fds -> 0..created]
         /\ toClose' \in Seq(Clients) /\ Once(toClose')
         /\ \A a \in Clients :
              a \in Elems(toClose') <=> fd[a] # -1 /\ "CLOSE_ASAP" \in flags'[a]
<1>1. /\ output' \in [Clients -> BOOLEAN]
      /\ owner' = [f \in Fds |-> IF end = "closed" /\ f = fd[c] THEN 0 ELSE owner[f]]
      /\ \/ /\ flags' = left /\ toClose' = toClose
            /\ end = "closed" => fd[c] = -1 \/ "CLOSE_ASAP" \in left[c]
         \/ /\ end = "closed" /\ fd[c] # -1 /\ "CLOSE_ASAP" \notin left[c]
            /\ flags' = [left EXCEPT ![c] = {"CLOSE_ASAP"}]
            /\ toClose' = Append(toClose, c)
  BY WriteEffect
<1>2. /\ owner \in [Fds -> 0..created] /\ created \in Nat /\ toClose \in Seq(Clients)
      /\ fd \in [Clients -> Fds \cup {-1}] /\ Once(toClose)
  BY Numbers DEF TableInv, TypeOK, Listed
<1>3. owner' \in [Fds -> 0..created]
  BY <1>1, <1>2
<1>4. \A f \in Fds : owner'[f] = owner[f] \/ owner'[f] = 0
  BY <1>1
<1>5. Lookup'
  BY <1>4 DEF TableInv, Lookup, LookupFindsOwner
<1>6. /\ flags' \in [Clients -> SUBSET Flags]
      /\ \A a \in Clients : a # c => flags'[a] = flags[a]
  BY <1>1 DEF Flags
<1>7. Fresh'
  <2>1. ASSUME NEW a \in Clients, a > created PROVE a # c
    BY <2>1, TableAssumption, <1>2 DEF Clients
  <2>2. QED
    BY <2>1, <1>6 DEF TableInv, Fresh
<1>8. Closing'
  <2> SUFFICES ASSUME NEW a \in Clients, "CLOSE_ASAP" \in flags'[a], fd[a] # -1
               PROVE  owner'[fd[a]] = 0
    BY DEF Closing
  <2>1. fd[a] \in Fds
    BY Numbers
  <2>2. CASE "CLOSE_ASAP" \in flags[a]
    BY <2>1, <2>2, <1>4 DEF TableInv, Closing
  <2>3. CASE "CLOSE_ASAP" \notin flags[a]
    <3>1. a = c /\ end = "closed"
      BY <2>3, <1>1, <1>6
    <3>2. QED
      BY <3>1, <2>1, <1>1
  <2>4. QED
    BY <2>2, <2>3
<1>9. /\ toClose' \in Seq(Clients) /\ Once(toClose')
      /\ \A a \in Clients :
           a \in Elems(toClose') <=> fd[a] # -1 /\ "CLOSE_ASAP" \in flags'[a]
  <2>1. CASE flags' = left /\ toClose' = toClose
    BY <2>1, <1>2 DEF TableInv, Listed
  <2>2. CASE /\ fd[c] # -1 /\ "CLOSE_ASAP" \notin left[c]
             /\ flags' = [left EXCEPT ![c] = {"CLOSE_ASAP"}]
             /\ toClose' = Append(toClose, c)
    <3>1. c \notin Elems(toClose)
      BY <2>2 DEF TableInv, Listed
    <3>2. /\ Append(toClose, c) \in Seq(Clients) /\ Once(Append(toClose, c))
          /\ \A a : a \in Elems(Append(toClose, c)) <=> a \in Elems(toClose) \/ a = c
      BY <3>1, <1>2, OnceAppend
    <3>3. "CLOSE_ASAP" \in flags'[c]
      BY <2>2
    <3>4. QED
      BY <2>2, <3>2, <3>3, <1>6 DEF TableInv, Listed
  <2>3. QED
    BY <1>1, <2>1, <2>2
<1>10. QED
  BY <1>1, <1>3, <1>5, <1>6, <1>7, <1>8, <1>9

LEMMA PendingKeeps == TableInv /\ (\E end \in Ends : PendingWrite(end)) => TableInv'
<1> SUFFICES ASSUME TableInv, NEW end \in Ends, PendingWrite(end) PROVE TableInv'
  OBVIOUS
<1> DEFINE c == Head(pendingWrite)
           left == [flags EXCEPT ![c] = @ \ {"PENDING_WRITE"}]
<1>1. /\ phase = "sleep" /\ pendingWrite # << >> /\ pendingWrite' = Tail(pendingWrite)
      /\ writeToClient(c, left, end)
      /\ wfds' = IF end # "closed" /\ output'[c] THEN wfds \cup {fd[c]} ELSE wfds
      /\ UNCHANGED <<clients, created, fd, rejected, rfds, fired, phase>>
  BY DEF PendingWrite
<1>2. /\ pendingWrite \in Seq(Clients) /\ Once(pendingWrite)
      /\ flags \in [Clients -> SUBSET Flags]
      /\ wfds \subseteq Fds /\ fired = {} /\ fd \in [Clients -> Fds \cup {-1}]
  BY <1>1 DEF TableInv, TypeOK, Listed, Polled
<1>3. /\ c \in Clients /\ Tail(pendingWrite) \in Seq(Clients)
      /\ c \in Elems(pendingWrite) /\ Once(Tail(pendingWrite))
      /\ \A a : a \in Elems(Tail(pendingWrite)) <=> a \in Elems(pendingWrite) /\ a # c
  BY <1>1, <1>2, OnceTail
<1>4. fd[c] # -1 /\ "PENDING_WRITE" \in flags[c]
  BY <1>3 DEF TableInv, Listed
<1>5. /\ fd[c] \in Fds /\ clients[fd[c]] = c /\ c # 0 /\ c <= created
      /\ \A a \in Clients : fd[a] = fd[c] => a = c
  BY <1>3, <1>4, Numbers
<1>6. /\ left \in [Clients -> SUBSET Flags]
      /\ left[c] = flags[c] \ {"PENDING_WRITE"}
      /\ \A a \in Clients : /\ "CLOSE_ASAP" \in left[a] <=> "CLOSE_ASAP" \in flags[a]
                            /\ a # c => left[a] = flags[a]
  BY <1>2, <1>3
<1> HIDE DEF left, c
<1>7. /\ output' \in [Clients -> BOOLEAN]
      /\ \A a \in Clients : a # c => output'[a] = output[a]
      /\ end = "all" => ~output'[c]
      /\ owner' = [f \in Fds |-> IF end = "closed" /\ f = fd[c] THEN 0 ELSE owner[f]]
      /\ \/ /\ flags' = left /\ toClose' = toClose
         \/ /\ flags' = [left EXCEPT ![c] = {"CLOSE_ASAP"}]
            /\ toClose' = Append(toClose, c)
  BY <1>1, <1>3, <1>6, WriteEffect
<1>8. /\ Lookup' /\ Fresh' /\ Closing'
      /\ flags' \in [Clients -> SUBSET Flags]
      /\ output' \in [Clients -> BOOLEAN]
      /\ owner' \in [Fds -> 0..created]
      /\ toClose' \in Seq(Clients) /\ Once(toClose')
      /\ \A a \in Clients :
           a \in Elems(toClose') <=> fd[a] # -1 /\ "CLOSE_ASAP" \in flags'[a]
  BY <1>1, <1>3, <1>5, <1>6, WriteKeeps
<1>9. "PENDING_WRITE" \notin flags'[c] /\ \A a \in Clients : a # c => flags'[a] = flags[a]
  BY <1>3, <1>6, <1>7
<1>10. wfds' \subseteq wfds \cup {fd[c]} /\ (fd[c] \in wfds' \ wfds => output'[c])
  BY <1>1
<1>11. TypeOK'
  BY <1>1, <1>2, <1>3, <1>5, <1>8, <1>10 DEF TableInv, TypeOK
<1>12. Polled'
  BY <1>1, <1>2, <1>5, <1>10 DEF TableInv, Polled
<1>13. OneWriter'
  <2> SUFFICES ASSUME NEW a \in Clients, fd[a] # -1, owner'[fd[a]] # 0, fd[a] \in wfds'
               PROVE  output'[a] /\ "PENDING_WRITE" \notin flags'[a]
    BY <1>1, <1>2 DEF OneWriter
  <2>1. owner[fd[a]] # 0
    BY <1>7, Numbers
  <2>2. CASE a = c
    <3>1. fd[c] \notin wfds
      BY <2>1, <2>2, <1>4 DEF TableInv, OneWriter
    <3>2. QED
      BY <2>2, <3>1, <1>9, <1>10
  <2>3. CASE a # c
    <3>1. fd[a] \in wfds
      BY <2>3, <1>5, <1>10
    <3>2. QED
      BY <2>1, <2>3, <3>1, <1>7, <1>9 DEF TableInv, OneWriter
  <2>4. QED
    BY <2>2, <2>3
<1>14. Listed'
  <2>1. ASSUME NEW a \in Clients
        PROVE  a \in Elems(pendingWrite') <=> fd[a] # -1 /\ "PENDING_WRITE" \in flags'[a]
    BY <1>1, <1>3, <1>9 DEF TableInv, Listed
  <2>2. QED
    BY <2>1, <1>1, <1>3, <1>8 DEF Listed
<1>15. QED
  BY <1>8, <1>11, <1>12, <1>13, <1>14 DEF TableInv

(* The event of a client that was freed in this turn changes nothing.      *)
LEMMA SendKeeps == TableInv /\ (\E f \in Fds, end \in Ends : SendReply(f, end)) => TableInv'
<1> SUFFICES ASSUME TableInv, NEW f \in Fds, NEW end \in Ends, SendReply(f, end)
             PROVE  TableInv'
  OBVIOUS
<1> DEFINE c == getFlyClient(f)
<1>1. /\ phase = "events" /\ <<f, "W">> \in fired
      /\ fired' = fired \ {<<f, "W">>}
      /\ writeToClient(c, flags, end)
      /\ wfds' = IF end # "closed" /\ ~output'[c] THEN wfds \ {fd[c]} ELSE wfds
      /\ UNCHANGED <<clients, created, fd, pendingWrite, rejected, rfds, phase>>
  BY DEF SendReply, IsNext
<1>2. clients[f] # 0 /\ c = clients[f]
  BY <1>1 DEF TableInv, Polled, getFlyClient
<1>3. c \in Clients /\ fd[c] \in {f, -1} /\ clients \in [Fds -> 0..created] /\ c <= created
  <2>1. clients \in [Fds -> 0..created] /\ created \in Nat
    BY Numbers DEF TableInv, TypeOK
  <2>2. QED
    BY <1>2, <2>1, Numbers DEF TableInv, Lookup
<1>4. /\ flags \in [Clients -> SUBSET Flags] /\ wfds \subseteq Fds
      /\ pendingWrite \in Seq(Clients) /\ fd \in [Clients -> Fds \cup {-1}] /\ -1 \notin Fds
  BY Numbers DEF TableInv, TypeOK
<1> HIDE DEF c
<1>5. /\ output' \in [Clients -> BOOLEAN]
      /\ \A a \in Clients : a # c => output'[a] = output[a]
      /\ owner' = [g \in Fds |-> IF end = "closed" /\ g = fd[c] THEN 0 ELSE owner[g]]
      /\ \/ flags' = flags
         \/ fd[c] # -1 /\ flags' = [flags EXCEPT ![c] = {"CLOSE_ASAP"}]
  BY <1>1, <1>3, <1>4, WriteEffect
<1>6. /\ Lookup' /\ Fresh' /\ Closing'
      /\ flags' \in [Clients -> SUBSET Flags]
      /\ output' \in [Clients -> BOOLEAN]
      /\ owner' \in [Fds -> 0..created]
      /\ toClose' \in Seq(Clients) /\ Once(toClose')
      /\ \A a \in Clients :
           a \in Elems(toClose') <=> fd[a] # -1 /\ "CLOSE_ASAP" \in flags'[a]
  BY <1>1, <1>3, <1>4, WriteKeeps
<1>7. fd[c] # -1 => /\ fd[c] = f /\ owner[f] # 0 /\ output[c]
                    /\ "PENDING_WRITE" \notin flags[c]
  BY <1>1, <1>3 DEF TableInv, OneWriter
<1>8. \A a \in Clients : "PENDING_WRITE" \in flags'[a] <=> "PENDING_WRITE" \in flags[a]
  BY <1>3, <1>4, <1>5, <1>7
<1>9. TypeOK'
  BY <1>1, <1>4, <1>6 DEF TableInv, TypeOK
<1>10. Polled'
  BY <1>1 DEF TableInv, Polled
<1>11. OneWriter'
  <2> SUFFICES ASSUME NEW a \in Clients, fd[a] # -1
               PROVE  /\ <<fd[a], "W">> \in fired' => owner'[fd[a]] # 0
                      /\ (owner'[fd[a]] # 0 /\ (fd[a] \in wfds' \/ <<fd[a], "W">> \in fired'))
                            => output'[a] /\ "PENDING_WRITE" \notin flags'[a]
    BY <1>1 DEF OneWriter
  <2>1. CASE a = c
    <3>1. fd[a] = f /\ <<fd[a], "W">> \notin fired'
      BY <2>1, <1>1, <1>7
    <3>2. "PENDING_WRITE" \notin flags'[a]
      BY <2>1, <1>7, <1>8
    <3>3. (owner'[fd[a]] # 0 /\ fd[a] \in wfds') => output'[a]
      BY <2>1, <3>1, <1>1, <1>3, <1>5
    <3>4. QED
      BY <3>1, <3>2, <3>3
  <2>2. CASE a # c
    <3>1. fd[a] \in Fds /\ fd[a] # fd[c]
      BY <2>2, <1>3, Numbers
    <3>2. owner'[fd[a]] = owner[fd[a]] /\ output'[a] = output[a]
      BY <2>2, <3>1, <1>5
    <3>3. fd[a] \in wfds' => fd[a] \in wfds
      BY <1>1
    <3>4. QED
      BY <3>2, <3>3, <1>1, <1>8 DEF TableInv, OneWriter
  <2>3. QED
    BY <2>1, <2>2
<1>12. Listed'
  BY <1>1, <1>6, <1>8 DEF TableInv, Listed
<1>13. QED
  BY <1>6, <1>9, <1>10, <1>11, <1>12 DEF TableInv

(* accept() gives a number that no client has: all that are registered are *)
(* open, and the number given is not.                                      *)
LEMMA AcceptKeeps == TableInv /\ (\E f \in Fds : Accept(f)) => TableInv'
<1> SUFFICES ASSUME TableInv, NEW f \in Fds, Accept(f) PROVE TableInv'
  OBVIOUS
<1>1. /\ phase = "accept" /\ owner[f] = 0
      /\ UNCHANGED <<flags, output, pendingWrite, toClose, wfds, fired, phase>>
  BY DEF Accept, lists
<1>2. /\ clients \in [Fds -> 0..created] /\ owner \in [Fds -> 0..created]
      /\ created \in 0..MaxConns /\ MaxConns \in Nat /\ MaxRejects \in Nat
      /\ rejected \in 0..MaxRejects /\ rfds \subseteq Fds
      /\ fd \in [Clients -> Fds \cup {-1}] /\ Clients = 1..MaxConns
  BY TableAssumption DEF TableInv, TypeOK, Clients
<1>3. CASE Size >= MaxClients
  <2>1. /\ rejected < MaxRejects /\ rejected' = rejected + 1
        /\ UNCHANGED <<clients, created, fd, owner, rfds>>
    BY <1>3 DEF Accept
  <2>2. rejected' \in 0..MaxRejects
    BY <2>1, <1>2
  <2>3. TypeOK'
    BY <1>1, <2>1, <2>2 DEF TableInv, TypeOK
  <2>4. Lookup' /\ Polled' /\ Fresh' /\ Closing'
    BY <1>1, <2>1 DEF TableInv, Lookup, LookupFindsOwner, Polled, Fresh, Closing
  <2>5. OneWriter' /\ Listed'
    BY <1>1, <2>1 DEF TableInv, OneWriter, Listed, Once, Elems
  <2>6. QED
    BY <2>3, <2>4, <2>5 DEF TableInv
<1>4. CASE ~(Size >= MaxClients)
  <2> DEFINE new == created + 1
  <2>1. /\ created < MaxConns /\ created' = new
        /\ clients' = [clients EXCEPT ![f] = new]
        /\ owner' = [owner EXCEPT ![f] = new]
        /\ fd' = [fd EXCEPT ![new] = f]
        /\ rfds' = rfds \cup {f} /\ UNCHANGED rejected
    BY <1>4 DEF Accept
  <2>2. new \in Clients /\ new > created /\ new # 0 /\ new \notin 0..created
        /\ 0..created \subseteq 0..new /\ new \in 0..new /\ new \in 0..MaxConns
    BY <2>1, <1>2
  <2>3. fd[new] = -1 /\ flags[new] = {}
    BY <2>2 DEF TableInv, Fresh
  <2>4. \A c \in Clients : c > new => c > created
    BY <2>2, <1>2
  <2> HIDE DEF new
  <2>5. /\ f \notin rfds /\ f \notin wfds /\ \A e \in fired : e[1] # f
    BY <1>1 DEF TableInv, Polled
  <2>6. /\ \A c \in Clients : fd'[c] = IF c = new THEN f ELSE fd[c]
        /\ \A g \in Fds : /\ clients'[g] = IF g = f THEN new ELSE clients[g]
                          /\ owner'[g] = IF g = f THEN new ELSE owner[g]
    BY <2>1, <2>2, <1>2
  <2>7. \A c \in Clients : fd[c] # -1 => fd[c] # f /\ fd[c] \in Fds /\ fd[c] \in rfds
    BY <2>5, Numbers DEF TableInv, Polled
  <2>8. TypeOK'
    <3>1. /\ clients' \in [Fds -> 0..created'] /\ owner' \in [Fds -> 0..created']
          /\ fd' \in [Clients -> Fds \cup {-1}]
      BY <2>1, <2>2, <1>2
    <3>2. QED
      BY <3>1, <1>1, <2>1, <2>2, <1>2 DEF TableInv, TypeOK
  <2>9. Lookup'
    <3>1. ASSUME NEW g \in Fds, owner'[g] # 0 PROVE clients'[g] = owner'[g] /\ fd'[owner'[g]] = g
      <4>1. CASE g = f
        BY <4>1, <2>2, <2>6
      <4>2. CASE g # f
        <5>1. owner[g] # 0 /\ owner'[g] = owner[g] /\ clients'[g] = clients[g]
          BY <4>2, <3>1, <2>6
        <5>2. /\ clients[g] = owner[g] /\ fd[owner[g]] = g /\ owner[g] \in Clients
              /\ owner[g] # new
          BY <5>1, <1>2, <2>2, Numbers DEF TableInv, Lookup, LookupFindsOwner
        <5>3. QED
          BY <5>1, <5>2, <2>6
      <4>3. QED
        BY <4>1, <4>2
    <3>2. ASSUME NEW c \in Clients, fd'[c] # -1 PROVE clients'[fd'[c]] = c
      <4>1. CASE c = new
        BY <4>1, <2>6
      <4>2. CASE c # new
        BY <4>2, <3>2, <2>6, <2>7, Numbers
      <4>3. QED
        BY <4>1, <4>2
    <3>3. ASSUME NEW g \in Fds, clients'[g] # 0 PROVE fd'[clients'[g]] \in {g, -1}
      <4>1. CASE g = f
        BY <4>1, <2>2, <2>6
      <4>2. CASE g # f
        <5>1. clients[g] # 0 /\ clients'[g] = clients[g]
          BY <4>2, <3>3, <2>6
        <5>2. clients[g] \in Clients /\ clients[g] # new /\ fd[clients[g]] \in {g, -1}
          BY <5>1, <1>2, <2>2, Numbers DEF TableInv, Lookup
        <5>3. QED
          BY <5>1, <5>2, <2>6
      <4>3. QED
        BY <4>1, <4>2
    <3>4. QED
      BY <3>1, <3>2, <3>3 DEF Lookup, LookupFindsOwner
  <2>10. Polled'
    <3>1. \A c \in Clients : fd'[c] # -1 => fd'[c] \in rfds'
      BY <2>1, <2>6, <2>7
    <3>2. \A g \in rfds' \cup wfds' : g \in Fds /\ clients'[g] # 0 /\ owner'[g] # 0
      <4>1. wfds \subseteq Fds
        BY DEF TableInv, TypeOK
      <4>2. QED
        BY <4>1, <1>1, <1>2, <2>1, <2>2, <2>6 DEF TableInv, Polled
    <3>3. \A e \in fired' : e[1] \in Fds /\ clients'[e[1]] # 0 /\ owner'[e[1]] # 0
      <4>1. \A e \in fired : e[1] \in Fds
        BY DEF TableInv, TypeOK, Events
      <4>2. QED
        BY <4>1, <1>1, <2>5, <2>6 DEF TableInv, Polled
    <3>4. QED
      BY <3>1, <3>2, <3>3, <1>1 DEF Polled
  <2>11. OneWriter'
    <3> SUFFICES ASSUME NEW c \in Clients, fd'[c] # -1
                 PROVE  /\ <<fd'[c], "W">> \in fired' => owner'[fd'[c]] # 0
                        /\ (owner'[fd'[c]] # 0 /\ (fd'[c] \in wfds' \/ <<fd'[c], "W">> \in fired'))
                              => output'[c] /\ "PENDING_WRITE" \notin flags'[c]
      BY DEF OneWriter
    <3>1. CASE c = new
      <4>1. fd'[c] = f /\ <<f, "W">> \notin fired
        BY <3>1, <2>5, <2>6
      <4>2. QED
        BY <4>1, <2>5, <1>1
    <3>2. CASE c # new
      <4>1. fd'[c] = fd[c] /\ fd[c] # -1 /\ owner'[fd[c]] = owner[fd[c]]
        BY <3>2, <2>6, <2>7
      <4>2. QED
        BY <4>1, <1>1 DEF TableInv, OneWriter
    <3>3. QED
      BY <3>1, <3>2
  <2>12. Fresh'
    <3> SUFFICES ASSUME NEW c \in Clients, c > created' PROVE fd'[c] = -1 /\ flags'[c] = {}
      BY DEF Fresh
    <3>1. c > new /\ c # new
      BY <2>1, <2>2, <1>2
    <3>2. QED
      BY <3>1, <2>4, <2>6, <1>1 DEF TableInv, Fresh
  <2>13. Closing'
    <3> SUFFICES ASSUME NEW c \in Clients, "CLOSE_ASAP" \in flags'[c], fd'[c] # -1
                 PROVE  owner'[fd'[c]] = 0
      BY DEF Closing
    <3>1. c # new /\ fd'[c] = fd[c] /\ fd[c] # -1
      BY <2>3, <2>6, <1>1
    <3>2. QED
      BY <3>1, <2>6, <2>7, <1>1 DEF TableInv, Closing
  <2>14. Listed'
    <3>1. \A c \in Clients :
            c # new => (fd'[c] = fd[c])
      BY <2>6
    <3>2. new \notin Elems(pendingWrite) /\ new \notin Elems(toClose)
      BY <2>2, <2>3 DEF TableInv, Listed
    <3>3. QED
      BY <3>1, <3>2, <1>1, <2>3 DEF TableInv, Listed, Elems, Once
  <2>15. QED
    BY <2>8, <2>9, <2>10, <2>11, <2>12, <2>13, <2>14 DEF TableInv
<1>5. QED
  BY <1>3, <1>4

(* A client is listed for its first pending output only, and not while an  *)
(* ES_WRITABLE event is to write it.                                       *)
LEMMA ReplyKeeps == TableInv /\ (\E c \in Clients : AddReply(c)) => TableInv'
<1> SUFFICES ASSUME TableInv, NEW c \in Clients, AddReply(c) PROVE TableInv'
  OBVIOUS
<1>1. /\ phase \in {"events", "timers"} /\ fd[c] # -1
      /\ output' \in {output, [output EXCEPT ![c] = TRUE]}
      /\ UNCHANGED <<clients, created, fd, toClose, rejected, owner, rfds, wfds, fired, phase>>
  BY DEF AddReply, poll
<1>2. fd[c] \in Fds /\ getFlyClient(fd[c]) = c /\ c # 0 /\ c <= created
  BY <1>1, Numbers
<1>3. \/ UNCHANGED <<flags, pendingWrite>>
      \/ /\ ~output[c] /\ "PENDING_WRITE" \notin flags[c]
         /\ flags' = [flags EXCEPT ![c] = @ \cup {"PENDING_WRITE"}]
         /\ pendingWrite' = Append(pendingWrite, c)
  BY <1>2 DEF AddReply
<1>4. /\ output \in [Clients -> BOOLEAN] /\ flags \in [Clients -> SUBSET Flags]
      /\ pendingWrite \in Seq(Clients) /\ Once(pendingWrite) /\ created \in Nat
  BY Numbers DEF TableInv, TypeOK, Listed
<1>5. /\ output' \in [Clients -> BOOLEAN]
      /\ \A a \in Clients : output[a] => output'[a]
  BY <1>1, <1>4
<1>6. /\ flags' \in [Clients -> SUBSET Flags]
      /\ \A a \in Clients : /\ "CLOSE_ASAP" \in flags'[a] <=> "CLOSE_ASAP" \in flags[a]
                            /\ a # c => flags'[a] = flags[a]
  BY <1>3, <1>4 DEF Flags
<1>7. /\ pendingWrite' \in Seq(Clients) /\ Once(pendingWrite')
      /\ \A a \in Clients :
           a \in Elems(pendingWrite') <=> fd[a] # -1 /\ "PENDING_WRITE" \in flags'[a]
  <2>1. CASE UNCHANGED <<flags, pendingWrite>>
    BY <2>1, <1>4 DEF TableInv, Listed
  <2>2. CASE /\ ~output[c] /\ "PENDING_WRITE" \notin flags[c]
             /\ flags' = [flags EXCEPT ![c] = @ \cup {"PENDING_WRITE"}]
             /\ pendingWrite' = Append(pendingWrite, c)
    <3>1. c \notin Elems(pendingWrite)
      BY <2>2 DEF TableInv, Listed
    <3>2. /\ Append(pendingWrite, c) \in Seq(Clients) /\ Once(Append(pendingWrite, c))
          /\ \A a : a \in Elems(Append(pendingWrite, c)) <=> a \in Elems(pendingWrite) \/ a = c
      BY <3>1, <1>4, OnceAppend
    <3>3. "PENDING_WRITE" \in flags'[c]
      BY <2>2, <1>4
    <3>4. QED
      BY <2>2, <3>2, <3>3, <1>1, <1>6 DEF TableInv, Listed
  <2>3. QED
    BY <1>3, <2>1, <2>2
<1>8. TypeOK'
  BY <1>1, <1>5, <1>6, <1>7 DEF TableInv, TypeOK
<1>9. Lookup' /\ Polled'
  BY <1>1 DEF TableInv, Lookup, LookupFindsOwner, Polled
<1>10. OneWriter'
  <2> SUFFICES ASSUME NEW a \in Clients, fd[a] # -1
               PROVE  /\ <<fd[a], "W">> \in fired => owner[fd[a]] # 0
                      /\ (owner[fd[a]] # 0 /\ (fd[a] \in wfds \/ <<fd[a], "W">> \in fired))
                            => output'[a] /\ "PENDING_WRITE" \notin flags'[a]
    BY <1>1 DEF OneWriter
  <2>1. "PENDING_WRITE" \in flags'[a] => "PENDING_WRITE" \in flags[a] \/ ~output[a]
    BY <1>3, <1>4
  <2>2. QED
    BY <2>1, <1>5 DEF TableInv, OneWriter
<1>11. Fresh' /\ Closing'
  <2>1. ASSUME NEW a \in Clients, a > created PROVE a # c
    BY <2>1, <1>2, <1>4, TableAssumption DEF Clients
  <2>2. QED
    BY <2>1, <1>1, <1>6 DEF TableInv, Fresh, Closing
<1>12. Listed'
  BY <1>1, <1>6, <1>7 DEF TableInv, Listed
<1>13. QED
  BY <1>8, <1>9, <1>10, <1>11, <1>12 DEF TableInv

(* The two actions that unlink a client.                                   *)
LEMMA FreeKeeps == TableInv /\ ((\E f \in Fds : ReadEnd(f)) \/ FreeNext) => TableInv'
<1>1. ASSUME TableInv, NEW f \in Fds, ReadEnd(f) PROVE TableInv'
  <2>1. /\ <<f, "R">> \in fired /\ fired' \subseteq fired
        /\ unlinkClient(getFlyClient(f), {f})
        /\ phase' \in {"events", "crashed"}
    BY <1>1 DEF ReadEnd, IsNext
  <2>2. clients[f] # 0 /\ getFlyClient(f) = clients[f] /\ clients[f] \in Clients
    BY <1>1, <2>1, Numbers DEF TableInv, Polled, getFlyClient
  <2>3. \A g \in {f} : clients[g] = getFlyClient(f)
    BY <2>2
  <2>4. QED
    BY <1>1, <2>1, <2>2, <2>3, UnlinkKeeps DEF Phases
<1>2. ASSUME TableInv, FreeNext PROVE TableInv'
  <2>1. /\ toClose # << >> /\ toClose \in Seq(Clients) /\ fired = {}
        /\ unlinkClient(Head(toClose), {}) /\ fired' = fired
        /\ phase' \in {"free", "crashed"}
    BY <1>2 DEF FreeNext, TableInv, TypeOK, Polled
  <2>2. Head(toClose) \in Clients
    BY <2>1, HeadTailProperties
  <2>3. QED
    BY <1>2, <2>1, <2>2, UnlinkKeeps DEF Phases
<1>3. QED
  BY <1>1, <1>2

LEMMA OtherKeep ==
  TableInv /\ ((\E f \in Fds : ReadNothing(f) \/ ReadData(f)) \/ AcceptEnds \/ EventsEnd
                 \/ ServerCron \/ FreeEnds \/ NotDue \/ UNCHANGED vars) => TableInv'
<1> SUFFICES ASSUME TableInv,
                    (\E f \in Fds : ReadNothing(f) \/ ReadData(f)) \/ AcceptEnds \/ EventsEnd
                      \/ ServerCron \/ FreeEnds \/ NotDue \/ UNCHANGED vars
             PROVE  TableInv'
  OBVIOUS
<1>1. CASE UNCHANGED vars
  <2>1. UNCHANGED <<clients, created, fd, flags, output, pendingWrite, toClose, rejected,
                    owner, rfds, wfds, fired, phase>>
    BY <1>1 DEF vars, objects, lists, poll
  <2>2. TypeOK' /\ Lookup' /\ Polled' /\ Fresh'
    BY <2>1 DEF TableInv, TypeOK, Lookup, LookupFindsOwner, Polled, Fresh
  <2>3. OneWriter' /\ Closing' /\ Listed'
    BY <2>1 DEF TableInv, OneWriter, Closing, Listed, Once, Elems
  <2>4. QED
    BY <2>2, <2>3 DEF TableInv
<1>2. CASE (\E f \in Fds : ReadNothing(f) \/ ReadData(f)) \/ AcceptEnds \/ EventsEnd
             \/ ServerCron \/ FreeEnds \/ NotDue
  <2>1. /\ UNCHANGED <<clients, objects, lists, rejected, owner, rfds, wfds>>
        /\ fired' \subseteq fired
    BY <1>2 DEF ReadNothing, ReadData, AcceptEnds, EventsEnd, ServerCron, FreeEnds, NotDue, poll
  <2>2. phase' \in Phases \ {"accept"}
    BY <1>2 DEF ReadNothing, ReadData, AcceptEnds, EventsEnd, ServerCron, FreeEnds, NotDue,
      IsNext, Phases
  <2>3. phase' \in {"sleep", "timers", "free"} => fired = {}
    BY <1>2 DEF ReadNothing, ReadData, AcceptEnds, EventsEnd, ServerCron, FreeEnds, NotDue,
      IsNext, TableInv, Polled
  <2>4. QED
    BY <2>1, <2>2, <2>3, QuietKeeps
<1>3. QED
  BY <1>1, <1>2

LEMMA TableNext == TableInv /\ [Next]_vars => TableInv'
BY PollKeeps, PendingKeeps, SendKeeps, AcceptKeeps, ReplyKeeps, FreeKeeps, OtherKeep
   DEF Next, Loop

LEMMA TableInvariant == Spec => []TableInv
BY TableInit, TableNext, PTL DEF Spec
-----------------------------------------------------------------------------
(* The table, the lists and the polled sets keep their types.              *)
THEOREM TableTypes == Spec => []TypeOK
<1>1. TableInv => TypeOK
  BY DEF TableInv
<1>2. QED
  BY <1>1, TableInvariant, PTL

(* The number of an open connection always leads to its own client, for    *)
(* any number of fds and clients.                                          *)
THEOREM LookupIsRight == Spec => []LookupFindsOwner
<1>1. TableInv => LookupFindsOwner
  BY DEF TableInv, Lookup
<1>2. QED
  BY <1>1, TableInvariant, PTL

(* How often a client occurs in a list without repetitions.                *)
LEMMA TimesOnce ==
  ASSUME NEW S, NEW s \in Seq(S), Once(s), NEW c
  PROVE  Times(c, s) = IF c \in Elems(s) THEN 1 ELSE 0
<1>1. CASE c \in Elems(s)
  <2>1. PICK k \in DOMAIN s : s[k] = c
    BY <1>1 DEF Elems
  <2>2. {i \in DOMAIN s : s[i] = c} = {k}
    BY <2>1 DEF Once
  <2>3. QED
    BY <1>1, <2>2, FS_Singleton DEF Times
<1>2. CASE c \notin Elems(s)
  <2>1. {i \in DOMAIN s : s[i] = c} = {}
    BY <1>2 DEF Elems
  <2>2. QED
    BY <1>2, <2>1, FS_EmptySet DEF Times
<1>3. QED
  BY <1>1, <1>2

LEMMA ListFacts ==
  ASSUME TableInv, NEW c \in Clients
  PROVE  /\ Times(c, toClose) = IF "CLOSE_ASAP" \in flags[c] /\ fd[c] # -1 THEN 1 ELSE 0
         /\ Times(c, pendingWrite) = IF "PENDING_WRITE" \in flags[c] /\ fd[c] # -1 THEN 1 ELSE 0
<1>1. /\ toClose \in Seq(Clients) /\ pendingWrite \in Seq(Clients)
      /\ Once(toClose) /\ Once(pendingWrite)
      /\ c \in Elems(pendingWrite) <=> fd[c] # -1 /\ "PENDING_WRITE" \in flags[c]
      /\ c \in Elems(toClose) <=> fd[c] # -1 /\ "CLOSE_ASAP" \in flags[c]
  BY DEF TableInv, TypeOK, Listed
<1>2. Times(c, toClose) = IF c \in Elems(toClose) THEN 1 ELSE 0
  BY <1>1, TimesOnce
<1>3. Times(c, pendingWrite) = IF c \in Elems(pendingWrite) THEN 1 ELSE 0
  BY <1>1, TimesOnce
<1>4. QED
  BY <1>1, <1>2, <1>3

(* A client that is to be freed is listed exactly once until it is          *)
(* unlinked, and none is ever listed twice.                                *)
THEOREM ClosingIsListed == Spec => []CloseListed
<1>1. TableInv => CloseListed
  BY ListFacts DEF CloseListed
<1>2. QED
  BY <1>1, TableInvariant, PTL

(* A client with pending output is listed as its flag says, and one that   *)
(* was unlinked is not.                                                    *)
THEOREM PendingIsFlagged == Spec => []PendingAsFlagged
<1>1. TableInv => PendingAsFlagged
  BY ListFacts DEF PendingAsFlagged
<1>2. QED
  BY <1>1, TableInvariant, PTL

(* close() ends only the connection of the client that is being unlinked,  *)
(* or that was put into clientsToClose with it.                            *)
LEMMA CloseStep ==
  ASSUME TableInv, [Next]_vars, NEW f \in Fds, owner[f] # 0, owner'[f] # owner[f]
  PROVE  fd'[owner[f]] = -1 \/ \E i \in DOMAIN toClose' : toClose'[i] = owner[f]
<1> DEFINE a == owner[f]
<1>1. /\ a \in Clients /\ fd[a] = f /\ clients[f] = a /\ fd[a] # -1
      /\ fd \in [Clients -> Fds \cup {-1}]
      /\ toClose \in Seq(Clients) /\ Once(toClose) /\ flags \in [Clients -> SUBSET Flags]
  <2>1. clients[f] = owner[f] /\ fd[owner[f]] = f
    BY DEF TableInv, Lookup, LookupFindsOwner
  <2>2. QED
    BY <2>1, Numbers DEF TableInv, TypeOK, Listed
<1>2. "CLOSE_ASAP" \notin flags[a]
  BY <1>1 DEF TableInv, Closing
<1>3. ASSUME NEW c \in Clients, NEW left \in [Clients -> SUBSET Flags], NEW end \in Ends,
             "CLOSE_ASAP" \in left[a] <=> "CLOSE_ASAP" \in flags[a],
             writeToClient(c, left, end)
      PROVE  \E i \in DOMAIN toClose' : toClose'[i] = a
  <2>1. /\ owner' = [g \in Fds |-> IF end = "closed" /\ g = fd[c] THEN 0 ELSE owner[g]]
        /\ \/ /\ flags' = left /\ toClose' = toClose
              /\ end = "closed" => fd[c] = -1 \/ "CLOSE_ASAP" \in left[c]
           \/ toClose' = Append(toClose, c)
    BY <1>3, WriteEffect
  <2>2. end = "closed" /\ fd[c] = f
    BY <2>1
  <2>3. c = a
    BY <2>2, <1>1, Numbers
  <2>4. toClose' = Append(toClose, a)
    BY <2>1, <2>2, <2>3, <1>1, <1>2, <1>3
  <2>5. Len(toClose) + 1 \in DOMAIN toClose' /\ toClose'[Len(toClose) + 1] = a
    BY <2>4, <1>1, AppendProperties, LenProperties
  <2>6. QED
    BY <2>5
<1>4. ASSUME NEW end \in Ends, PendingWrite(end) PROVE \E i \in DOMAIN toClose' : toClose'[i] = a
  <2> DEFINE c == Head(pendingWrite)
             left == [flags EXCEPT ![c] = @ \ {"PENDING_WRITE"}]
  <2>1. writeToClient(c, left, end) /\ pendingWrite # << >> /\ pendingWrite \in Seq(Clients)
    BY <1>4 DEF PendingWrite, TableInv, TypeOK
  <2>2. c \in Clients
    BY <2>1, HeadTailProperties
  <2>3. left \in [Clients -> SUBSET Flags] /\ ("CLOSE_ASAP" \in left[a] <=> "CLOSE_ASAP" \in flags[a])
    BY <2>2, <1>1
  <2>4. QED
    BY <2>1, <2>2, <2>3, <1>3
<1>5. ASSUME NEW g \in Fds, NEW end \in Ends, SendReply(g, end)
      PROVE  \E i \in DOMAIN toClose' : toClose'[i] = a
  <2>1. writeToClient(getFlyClient(g), flags, end) /\ <<g, "W">> \in fired
    BY <1>5 DEF SendReply, IsNext
  <2>2. getFlyClient(g) \in Clients
    <3>1. clients[g] # 0
      BY <2>1 DEF TableInv, Polled
    <3>2. QED
      BY <3>1, Numbers DEF getFlyClient
  <2>3. QED
    BY <2>1, <2>2, <1>1, <1>3
<1>6. ASSUME NEW c \in Clients, NEW more \in SUBSET Fds, \A g \in more : clients[g] = c,
             unlinkClient(c, more)
      PROVE  fd'[a] = -1
  <2>1. /\ fd' = [fd EXCEPT ![c] = -1]
        /\ owner' = [g \in Fds |-> IF g = fd[c] THEN 0 ELSE owner[g]]
    BY <1>6, UnlinkEffect
  <2>2. f = fd[c]
    BY <2>1
  <2>3. c = a
    BY <2>2, <1>1, Numbers
  <2>4. QED
    BY <2>1, <2>3, <1>1
<1>7. ASSUME NEW g \in Fds, ReadEnd(g) PROVE fd'[a] = -1
  <2>1. unlinkClient(getFlyClient(g), {g}) /\ <<g, "R">> \in fired
    BY <1>7 DEF ReadEnd, IsNext
  <2>2. clients[g] # 0 /\ getFlyClient(g) = clients[g] /\ clients[g] \in Clients
    BY <2>1, Numbers DEF TableInv, Polled, getFlyClient
  <2>3. \A h \in {g} : clients[h] = getFlyClient(g)
    BY <2>2
  <2>4. QED
    BY <2>1, <2>2, <2>3, <1>6
<1>8. ASSUME FreeNext PROVE fd'[a] = -1
  <2>1. unlinkClient(Head(toClose), {}) /\ toClose # << >>
    BY <1>8 DEF FreeNext
  <2>2. Head(toClose) \in Clients
    BY <2>1, <1>1, HeadTailProperties
  <2>3. QED
    BY <2>1, <2>2, <1>6
<1>9. ASSUME NEW g \in Fds, Accept(g) PROVE FALSE
  <2>1. owner[g] = 0 /\ (owner' = owner \/ owner' = [owner EXCEPT ![g] = created + 1])
    BY <1>9 DEF Accept
  <2>2. owner \in [Fds -> 0..created]
    BY DEF TableInv, TypeOK
  <2>3. QED
    BY <2>1, <2>2
<1>10. ASSUME Poll \/ AcceptEnds \/ EventsEnd \/ ServerCron \/ FreeEnds \/ NotDue
              \/ (\E g \in Fds : ReadNothing(g) \/ ReadData(g))
              \/ (\E c \in Clients : AddReply(c)) \/ UNCHANGED vars
       PROVE FALSE
  <2>1. owner' = owner
    BY <1>10 DEF Poll, AcceptEnds, EventsEnd, ServerCron, FreeEnds, NotDue, ReadNothing,
      ReadData, AddReply, vars
  <2>2. QED
    BY <2>1
<1>11. QED
  BY <1>4, <1>5, <1>7, <1>8, <1>9, <1>10 DEF Next, Loop

(* No client's connection is ever closed by another client's close.        *)
THEOREM ClosesItsOwn == Spec => NoForeignClose
<1> DEFINE Step == \A f \in Fds : (owner[f] # 0 /\ owner'[f] # owner[f]) =>
                     \/ fd'[owner[f]] = -1
                     \/ \E i \in DOMAIN toClose' : toClose'[i] = owner[f]
<1>1. TableInv /\ [Next]_vars => Step
  BY CloseStep
<1>2. TableInv /\ [Next]_vars => [Step]_vars
  BY <1>1
<1> HIDE DEF Step
<1>3. Spec => [][Step]_vars
  BY <1>2, TableInvariant, PTL DEF Spec
<1>4. QED
  BY <1>3 DEF Step, NoForeignClose

(* The lists of clients agree with the clients' flags.                     *)
THEOREM ListsAreRight == Spec => []ListsAgree
BY ClosingIsListed, PendingIsFlagged, PTL DEF ListsAgree
-----------------------------------------------------------------------------
(* Publish and subscribe                                                   *)

(* The two sides agree about the channel ch: its list is there when        *)
(* somebody is subscribed, and names whom its clients say, each one once.  *)
ChannelAgreed(s, ch) ==
  /\ ch \in DOMAIN s.channels =>
       /\ s.channels[ch] \in Seq(Subscribers)
       /\ s.channels[ch] # << >>
       /\ Once(s.channels[ch])
       /\ \A d \in Subscribers : d \in Elems(s.channels[ch]) <=> ch \in s.chans[d]
  /\ ch \notin DOMAIN s.channels => \A d \in Subscribers : ch \notin s.chans[d]

Entries == [client : Subscribers, pattern : Names]

SubsTyped(s) ==
  /\ s = [chans |-> s.chans, pats |-> s.pats, channels |-> s.channels, patterns |-> s.patterns]
  /\ s.chans \in [Subscribers -> SUBSET Names] /\ s.pats \in [Subscribers -> SUBSET Names]
  /\ DOMAIN s.channels \subseteq Names
  /\ s.patterns \in Seq(Entries)

Agreed(s) ==
  /\ SubsTyped(s)
  /\ \A d \in Subscribers : IsFiniteSet(s.chans[d]) /\ IsFiniteSet(s.pats[d])
  /\ \A ch \in Names : ChannelAgreed(s, ch)

(* A step of a command keeps the agreement and what the other clients have *)
(* subscribed to; an unsubscription adds nothing.                          *)
Reached(command, c, s, t) ==
  /\ Agreed(t)
  /\ \A d \in Subscribers \ {c} : t.chans[d] = s.chans[d] /\ t.pats[d] = s.pats[d]
  /\ command \in {"unsubscribe", "punsubscribe"} =>
       t.chans[c] \subseteq s.chans[c] /\ t.pats[c] \subseteq s.pats[c]

Commands == {"subscribe", "unsubscribe", "psubscribe", "punsubscribe"}

LEMMA LeastExists ==
  ASSUME NEW T \in SUBSET Nat, T # {}
  PROVE  \E x \in T : \A y \in T : x <= y
<1> DEFINE R == OpToRel(<, Nat)
<1>1. \E x \in T : \A y \in T : <<y, x>> \notin R
  <2>1. IsWellFoundedOn(R, Nat)
    BY NatLessThanWellFounded
  <2> HIDE DEF R
  <2> QED BY <2>1, WFMin
<1>2. ASSUME NEW x \in T, NEW y \in T, <<y, x>> \notin R PROVE x <= y
  BY <1>2 DEF OpToRel
<1> QED BY <1>1, <1>2

LEMMA WithoutFirstTyped ==
  ASSUME NEW S, NEW L \in Seq(S), NEW P \in SUBSET DOMAIN L
  PROVE  WithoutFirst(L, P) \in Seq(S)
<1>1. CASE P = {}
  BY <1>1 DEF WithoutFirst
<1>2. CASE P # {}
  <2> DEFINE i == CHOOSE i \in P : \A j \in P : i <= j
  <2>1. DOMAIN L = 1..Len(L) /\ Len(L) \in Nat
    BY LenProperties
  <2>2. \E x \in P : \A y \in P : x <= y
    BY <1>2, <2>1, LeastExists
  <2>3. i \in 1..Len(L)
    BY <2>1, <2>2
  <2>4. WithoutFirst(L, P) = SubSeq(L, 1, i - 1) \o SubSeq(L, i + 1, Len(L))
    BY <1>2 DEF WithoutFirst, RemoveAt
  <2> HIDE DEF i
  <2> QED BY <2>3, <2>4, RemoveProperties
<1> QED BY <1>1, <1>2

(* The list of a channel loses the one place that a client has in it.      *)
LEMMA LeftIs ==
  ASSUME NEW s, NEW ch, NEW L, L = s.channels[ch], L \in Seq(Subscribers), Once(L),
         NEW c \in Subscribers
  PROVE  /\ Left(s, c, ch) \in Seq(Subscribers) /\ Once(Left(s, c, ch))
         /\ \A a : a \in Elems(Left(s, c, ch)) <=> a \in Elems(L) /\ a # c
<1> DEFINE g     == [d \in Subscribers |-> d]
           found == {i \in DOMAIN L : g[L[i]] = c}
           P     == {i \in DOMAIN L : L[i] = c}
           M     == Left(s, c, ch)
<1>1. DOMAIN L = 1..Len(L) /\ Len(L) \in Nat /\ \A i \in DOMAIN L : L[i] \in Subscribers
  BY LenProperties, ElementOfSeq
<1>2. found = P /\ M = WithoutFirst(L, P)
  BY <1>1 DEF Left
<1>3. OnlyOne(L, g, c, c)
  BY <1>1 DEF OnlyOne, Elems
<1>4. DeletedFrom(L, g, c, M)
  <2>1. CASE P = {}
    BY <1>2, <2>1 DEF DeletedFrom, WithoutFirst
  <2>2. CASE P # {}
    <3> DEFINE i == CHOOSE i \in P : \A j \in P : i <= j
    <3>1. PICK k \in P : TRUE
      BY <2>2
    <3>2. \A j \in P : j = k /\ k <= j
      BY <1>1, <3>1 DEF Once
    <3>3. i \in P /\ \A j \in P : i <= j
      BY <3>1, <3>2
    <3>4. M = SubSeq(L, 1, i - 1) \o SubSeq(L, i + 1, Len(L))
      BY <1>2, <2>2 DEF WithoutFirst, RemoveAt
    <3> HIDE DEF i, g, M
    <3> QED BY <1>2, <3>3, <3>4 DEF DeletedFrom
  <2> QED BY <2>1, <2>2
<1> HIDE DEF g, M
<1>5. /\ M \in Seq(Subscribers) /\ Once(M)
      /\ \A a : a \in Elems(M) <=> a \in Elems(L) /\ a # c
  BY <1>3, <1>4, DeletedProperties
<1> QED BY <1>5 DEF M

LEMMA OneElement ==
  ASSUME NEW S, NEW e \in S
  PROVE  <<e>> \in Seq(S) /\ <<e>> # << >> /\ Once(<<e>>) /\ Elems(<<e>>) = {e}
<1> DEFINE s == <<e>>
<1>1. s \in Seq(S) /\ Len(s) = 1 /\ s[1] = e
  OBVIOUS
<1>2. DOMAIN s = 1..1
  BY <1>1, LenProperties
<1> HIDE DEF s
<1>3. s # << >>
  BY <1>1, EmptySeq
<1>4. Once(s) /\ Elems(s) = {e}
  BY <1>1, <1>2 DEF Once, Elems
<1> QED BY <1>1, <1>3, <1>4 DEF s

LEMMA SubscribeKeeps ==
  ASSUME NEW s, Agreed(s), NEW c \in Subscribers, NEW x \in Names,
         NEW t, t = subscribeChannel(s, c, x)
  PROVE  Reached("subscribe", c, s, t) /\ x \in t.chans[c]
<1>1. CASE x \in s.chans[c]
  BY <1>1 DEF subscribeChannel, Reached
<1>2. CASE x \notin s.chans[c]
  <2> DEFINE L == IF x \in DOMAIN s.channels THEN s.channels[x] ELSE << >>
             M == IF x \in DOMAIN s.channels THEN Append(s.channels[x], c) ELSE <<c>>
             channels == [y \in DOMAIN s.channels \cup {x} |->
                            IF y # x THEN s.channels[y] ELSE M]
  <2>1. t = [s EXCEPT !.chans = [s.chans EXCEPT ![c] = @ \cup {x}], !.channels = channels]
    BY <1>2 DEF subscribeChannel, Entered
  <2>2. SubsTyped(s) /\ ChannelAgreed(s, x)
    BY DEF Agreed
  <2>3. /\ t = [chans |-> t.chans, pats |-> t.pats, channels |-> t.channels, patterns |-> t.patterns]
        /\ t.chans = [s.chans EXCEPT ![c] = @ \cup {x}]
        /\ t.pats = s.pats /\ t.patterns = s.patterns /\ t.channels = channels
    <3> HIDE DEF channels
    <3> QED BY <2>1, <2>2 DEF SubsTyped
  <2>4. \A d \in Subscribers : t.chans[d] = IF d = c THEN s.chans[c] \cup {x} ELSE s.chans[d]
    BY <2>2, <2>3 DEF SubsTyped
  <2>5. SubsTyped(t)
    BY <2>2, <2>3 DEF SubsTyped
  <2>6. /\ M \in Seq(Subscribers) /\ M # << >> /\ Once(M)
        /\ \A d \in Subscribers : d \in Elems(M) <=> x \in t.chans[d]
    <3>1. CASE x \in DOMAIN s.channels
      <4>1. /\ s.channels[x] \in Seq(Subscribers) /\ Once(s.channels[x])
            /\ \A d \in Subscribers : d \in Elems(s.channels[x]) <=> x \in s.chans[d]
        BY <2>2, <3>1 DEF ChannelAgreed
      <4>2. /\ M \in Seq(Subscribers) /\ Once(M)
            /\ \A a : a \in Elems(M) <=> a \in Elems(s.channels[x]) \/ a = c
        BY <1>2, <3>1, <4>1, OnceAppend
      <4>3. M # << >>
        BY <3>1, <4>1, AppendProperties
      <4> QED BY <2>4, <4>1, <4>2, <4>3
    <3>2. CASE x \notin DOMAIN s.channels
      <4>1. M = <<c>> /\ \A d \in Subscribers : x \notin s.chans[d]
        BY <2>2, <3>2 DEF ChannelAgreed
      <4> HIDE DEF M
      <4>2. M \in Seq(Subscribers) /\ M # << >> /\ Once(M) /\ Elems(M) = {c}
        BY <4>1, OneElement
      <4> QED BY <2>4, <4>1, <4>2
    <3> QED BY <3>1, <3>2
  <2> HIDE DEF M
  <2>7. ASSUME NEW ch \in Names PROVE ChannelAgreed(t, ch)
    <3>1. CASE ch = x
      BY <2>3, <2>6, <3>1 DEF ChannelAgreed
    <3>2. CASE ch # x
      <4>1. ChannelAgreed(s, ch)
        BY DEF Agreed
      <4>2. /\ ch \in DOMAIN t.channels <=> ch \in DOMAIN s.channels
            /\ ch \in DOMAIN t.channels => t.channels[ch] = s.channels[ch]
        BY <2>3, <3>2
      <4>3. \A d \in Subscribers : ch \in t.chans[d] <=> ch \in s.chans[d]
        BY <2>4, <3>2
      <4> QED BY <4>1, <4>2, <4>3 DEF ChannelAgreed
    <3> QED BY <3>1, <3>2
  <2>8. ASSUME NEW d \in Subscribers PROVE IsFiniteSet(t.chans[d]) /\ IsFiniteSet(t.pats[d])
    <3>1. IsFiniteSet(s.chans[d]) /\ IsFiniteSet(s.pats[d]) /\ IsFiniteSet(s.chans[c])
      BY DEF Agreed
    <3>2. IsFiniteSet(s.chans[c] \cup {x})
      BY <3>1, FS_AddElement
    <3> QED BY <2>3, <2>4, <3>1, <3>2
  <2> QED BY <2>3, <2>4, <2>5, <2>7, <2>8 DEF Reached, Agreed
<1> QED BY <1>1, <1>2

LEMMA UnsubscribeKeeps ==
  ASSUME NEW s, Agreed(s), NEW c \in Subscribers, NEW x \in Names,
         NEW t, t = unsubscribeChannel(s, c, x)
  PROVE  Reached("unsubscribe", c, s, t)
<1>1. CASE x \notin s.chans[c]
  BY <1>1 DEF unsubscribeChannel, Reached
<1>2. CASE x \in s.chans[c]
  <2> DEFINE M == Left(s, c, x)
             channels == IF M = << >> THEN [y \in DOMAIN s.channels \ {x} |-> s.channels[y]]
                         ELSE [s.channels EXCEPT ![x] = M]
  <2>1. t = [s EXCEPT !.chans = [s.chans EXCEPT ![c] = @ \ {x}], !.channels = channels]
    BY <1>2 DEF unsubscribeChannel
  <2>2. SubsTyped(s) /\ ChannelAgreed(s, x)
    BY DEF Agreed
  <2>3. /\ t = [chans |-> t.chans, pats |-> t.pats, channels |-> t.channels, patterns |-> t.patterns]
        /\ t.chans = [s.chans EXCEPT ![c] = @ \ {x}]
        /\ t.pats = s.pats /\ t.patterns = s.patterns /\ t.channels = channels
    <3> HIDE DEF channels
    <3> QED BY <2>1, <2>2 DEF SubsTyped
  <2>4. \A d \in Subscribers : t.chans[d] = IF d = c THEN s.chans[c] \ {x} ELSE s.chans[d]
    BY <2>2, <2>3 DEF SubsTyped
  <2>5. /\ x \in DOMAIN s.channels
        /\ s.channels[x] \in Seq(Subscribers) /\ Once(s.channels[x])
        /\ \A d \in Subscribers : d \in Elems(s.channels[x]) <=> x \in s.chans[d]
    BY <1>2, <2>2 DEF ChannelAgreed
  <2>6. /\ M \in Seq(Subscribers) /\ Once(M)
        /\ \A a : a \in Elems(M) <=> a \in Elems(s.channels[x]) /\ a # c
    <3>1. \A L : L = s.channels[x] /\ L \in Seq(Subscribers) /\ Once(L) =>
            /\ M \in Seq(Subscribers) /\ Once(M)
            /\ \A a : a \in Elems(M) <=> a \in Elems(L) /\ a # c
      BY LeftIs
    <3> QED BY <2>5, <3>1
  <2>7. \A d \in Subscribers : d \in Elems(M) <=> x \in t.chans[d]
    BY <2>4, <2>5, <2>6
  <2> HIDE DEF M
  <2>8. ASSUME NEW ch \in Names PROVE ChannelAgreed(t, ch)
    <3>1. CASE ch = x /\ M = << >>
      <4>1. ch \notin DOMAIN t.channels
        BY <2>3, <3>1
      <4>2. \A d \in Subscribers : ch \notin t.chans[d]
        BY <2>7, <3>1 DEF Elems
      <4> QED BY <4>1, <4>2 DEF ChannelAgreed
    <3>2. CASE ch = x /\ M # << >>
      <4>1. ch \in DOMAIN t.channels /\ t.channels[ch] = M
        BY <2>3, <2>5, <3>2
      <4> QED BY <2>6, <2>7, <3>2, <4>1 DEF ChannelAgreed
    <3>3. CASE ch # x
      <4>1. ChannelAgreed(s, ch)
        BY DEF Agreed
      <4>2. /\ ch \in DOMAIN t.channels <=> ch \in DOMAIN s.channels
            /\ ch \in DOMAIN t.channels => t.channels[ch] = s.channels[ch]
        BY <2>3, <3>3
      <4>3. \A d \in Subscribers : ch \in t.chans[d] <=> ch \in s.chans[d]
        BY <2>4, <3>3
      <4> QED BY <4>1, <4>2, <4>3 DEF ChannelAgreed
    <3> QED BY <3>1, <3>2, <3>3
  <2>9. SubsTyped(t)
    BY <2>2, <2>3 DEF SubsTyped
  <2>10. ASSUME NEW d \in Subscribers PROVE IsFiniteSet(t.chans[d]) /\ IsFiniteSet(t.pats[d])
    BY <2>3, <2>4, FS_RemoveElement DEF Agreed
  <2> QED BY <2>3, <2>4, <2>8, <2>9, <2>10 DEF Reached, Agreed
<1> QED BY <1>1, <1>2

(* Patterns are no matter of channels.                                     *)
LEMMA PatternsApart ==
  ASSUME NEW s, Agreed(s), NEW t, t.chans = s.chans, t.channels = s.channels
  PROVE  \A ch \in Names : ChannelAgreed(t, ch)
BY DEF Agreed, ChannelAgreed

LEMMA SubscribePatternKeeps ==
  ASSUME NEW s, Agreed(s), NEW c \in Subscribers, NEW x \in Names,
         NEW t, t = subscribePattern(s, c, x)
  PROVE  Reached("psubscribe", c, s, t) /\ x \in t.pats[c]
<1>1. CASE x \in s.pats[c]
  BY <1>1 DEF subscribePattern, Reached
<1>2. CASE x \notin s.pats[c]
  <2> DEFINE P == Append(s.patterns, [client |-> c, pattern |-> x])
  <2>1. t = [s EXCEPT !.pats = [s.pats EXCEPT ![c] = @ \cup {x}], !.patterns = P]
    BY <1>2 DEF subscribePattern
  <2>2. SubsTyped(s)
    BY DEF Agreed
  <2>3. P \in Seq(Entries)
    <3>1. [client |-> c, pattern |-> x] \in Entries
      BY DEF Entries
    <3> QED BY <2>2, <3>1, AppendProperties DEF SubsTyped
  <2> HIDE DEF P
  <2>4. /\ t = [chans |-> t.chans, pats |-> t.pats, channels |-> t.channels, patterns |-> t.patterns]
        /\ t.pats = [s.pats EXCEPT ![c] = @ \cup {x}]
        /\ t.chans = s.chans /\ t.channels = s.channels /\ t.patterns = P
    BY <2>1, <2>2 DEF SubsTyped
  <2>5. \A d \in Subscribers : t.pats[d] = IF d = c THEN s.pats[c] \cup {x} ELSE s.pats[d]
    BY <2>2, <2>4 DEF SubsTyped
  <2>6. SubsTyped(t)
    BY <2>2, <2>3, <2>4 DEF SubsTyped
  <2>7. ASSUME NEW d \in Subscribers PROVE IsFiniteSet(t.chans[d]) /\ IsFiniteSet(t.pats[d])
    BY <2>4, <2>5, FS_AddElement DEF Agreed
  <2>8. \A ch \in Names : ChannelAgreed(t, ch)
    BY <2>4, PatternsApart
  <2> QED BY <2>4, <2>5, <2>6, <2>7, <2>8 DEF Reached, Agreed
<1> QED BY <1>1, <1>2

LEMMA UnsubscribePatternKeeps ==
  ASSUME NEW s, Agreed(s), NEW c \in Subscribers, NEW x \in Names,
         NEW t, t = unsubscribePattern(s, c, x)
  PROVE  Reached("punsubscribe", c, s, t)
<1>1. CASE x \notin s.pats[c]
  BY <1>1 DEF unsubscribePattern, Reached
<1>2. CASE x \in s.pats[c]
  <2> DEFINE others == {i \in DOMAIN s.patterns :
                          s.patterns[i].pattern # x /\ s.patterns[i].client = c}
             P == WithoutFirst(s.patterns, others)
  <2>1. t = [s EXCEPT !.pats = [s.pats EXCEPT ![c] = @ \ {x}], !.patterns = P]
    BY <1>2 DEF unsubscribePattern
  <2>2. SubsTyped(s)
    BY DEF Agreed
  <2>3. P \in Seq(Entries)
    BY <2>2, WithoutFirstTyped DEF SubsTyped
  <2> HIDE DEF P
  <2>4. /\ t = [chans |-> t.chans, pats |-> t.pats, channels |-> t.channels, patterns |-> t.patterns]
        /\ t.pats = [s.pats EXCEPT ![c] = @ \ {x}]
        /\ t.chans = s.chans /\ t.channels = s.channels /\ t.patterns = P
    BY <2>1, <2>2 DEF SubsTyped
  <2>5. \A d \in Subscribers : t.pats[d] = IF d = c THEN s.pats[c] \ {x} ELSE s.pats[d]
    BY <2>2, <2>4 DEF SubsTyped
  <2>6. SubsTyped(t)
    BY <2>2, <2>3, <2>4 DEF SubsTyped
  <2>7. ASSUME NEW d \in Subscribers PROVE IsFiniteSet(t.chans[d]) /\ IsFiniteSet(t.pats[d])
    BY <2>4, <2>5, FS_RemoveElement DEF Agreed
  <2>8. \A ch \in Names : ChannelAgreed(t, ch)
    BY <2>4, PatternsApart
  <2> QED BY <2>4, <2>5, <2>6, <2>7, <2>8 DEF Reached, Agreed
<1> QED BY <1>1, <1>2

LEMMA AppliedKeeps ==
  ASSUME NEW command \in Commands, NEW s, Agreed(s), NEW c \in Subscribers, NEW x \in Names,
         NEW t, t = Applied(command, s, c, x)
  PROVE  /\ Reached(command, c, s, t)
         /\ command = "subscribe" => x \in t.chans[c]
         /\ command = "psubscribe" => x \in t.pats[c]
<1>1. CASE command = "subscribe"
  BY <1>1, SubscribeKeeps DEF Applied
<1>2. CASE command = "unsubscribe"
  BY <1>2, UnsubscribeKeeps DEF Applied
<1>3. CASE command = "psubscribe"
  BY <1>3, SubscribePatternKeeps DEF Applied
<1>4. CASE command = "punsubscribe"
  BY <1>4, UnsubscribePatternKeeps DEF Applied
<1> QED BY <1>1, <1>2, <1>3, <1>4 DEF Commands

LEMMA ReachedOn ==
  ASSUME NEW command, NEW c, NEW r, NEW s, NEW t, Reached(command, c, r, s), Reached(command, c, s, t)
  PROVE  Reached(command, c, r, t)
BY DEF Reached

Loops(f, command, c, names) ==
  f = [n \in 0..Len(names) |->
         IF n = 0 THEN subs ELSE Applied(command, f[n - 1], c, names[n])]

(* The recursion of Handled has a solution: there is one up to each place, *)
(* for a first place without one would extend the one before it.           *)
LEMMA LoopExists ==
  ASSUME NEW command, NEW c, NEW names, Len(names) \in Nat
  PROVE  \E f : Loops(f, command, c, names)
<1> DEFINE Up(f, m) == f = [n \in 0..m |->
                 IF n = 0 THEN subs ELSE Applied(command, f[n - 1], c, names[n])]
           None == {m \in 0..Len(names) : ~ \E f : Up(f, m)}
<1>1. ASSUME None # {} PROVE FALSE
  <2>1. PICK m \in None : \A y \in None : m <= y
    <3>1. None \in SUBSET Nat
      OBVIOUS
    <3> HIDE DEF None
    <3> QED BY <1>1, <3>1, LeastExists
  <2>2. m \in 0..Len(names) /\ ~ \E f : Up(f, m)
    OBVIOUS
  <2>3. CASE m = 0
    <3> DEFINE g == [n \in 0..0 |-> subs]
    <3>1. Up(g, 0)
      OBVIOUS
    <3> QED BY <2>2, <2>3, <3>1
  <2>4. CASE m # 0
    <3>1. m - 1 \in 0..Len(names) /\ ~(m <= m - 1) /\ m \in Nat /\ m - 1 \in Nat
      BY <2>2, <2>4
    <3>2. m - 1 \notin None
      BY <2>1, <3>1
    <3>3. PICK f : Up(f, m - 1)
      BY <3>1, <3>2
    <3> DEFINE g == [n \in 0..m |-> IF n = m THEN Applied(command, f[m - 1], c, names[m]) ELSE f[n]]
    <3>4. ASSUME NEW n \in 0..m
          PROVE  g[n] = IF n = 0 THEN subs ELSE Applied(command, g[n - 1], c, names[n])
      <4>1. CASE n = m
        <5>1. g[n] = Applied(command, f[m - 1], c, names[m]) /\ g[n - 1] = f[m - 1] /\ n # 0
          BY <2>4, <3>1, <4>1
        <5> QED BY <4>1, <5>1
      <4>2. CASE n # m /\ n # 0
        <5>1. n \in 0..(m - 1) /\ n - 1 \in 0..m /\ n - 1 # m
          BY <3>1, <4>2
        <5>2. g[n] = f[n] /\ g[n - 1] = f[n - 1]
          BY <4>2, <5>1
        <5>3. f[n] = Applied(command, f[n - 1], c, names[n])
          BY <3>3, <4>2, <5>1
        <5> QED BY <4>2, <5>2, <5>3
      <4>3. CASE n # m /\ n = 0
        <5>1. 0 \in 0..(m - 1)
          BY <3>1
        <5>2. g[0] = f[0] /\ f[0] = subs
          BY <3>3, <4>3, <5>1
        <5> QED BY <4>3, <5>2
      <4> QED BY <4>1, <4>2, <4>3
    <3>5. Up(g, m)
      <4>1. g = [n \in 0..m |-> g[n]]
        OBVIOUS
      <4> HIDE DEF g
      <4> QED BY <3>4, <4>1
    <3> QED BY <2>2, <3>5
  <2> QED BY <2>3, <2>4
<1>2. Len(names) \notin None /\ Len(names) \in 0..Len(names)
  BY <1>1
<1> QED BY <1>2 DEF Loops

(* Whatever names a command is given, its loop keeps the agreement.        *)
LEMMA HandledKeeps ==
  ASSUME Agreed(subs), NEW command \in Commands, NEW c \in Subscribers,
         NEW names \in Seq(Names), NEW t, t = Handled(command, c, names)
  PROVE  /\ Reached(command, c, subs, t)
         /\ command = "subscribe" /\ Len(names) # 0 => t.chans[c] # {}
         /\ command = "psubscribe" /\ Len(names) # 0 => t.pats[c] # {}
<1> DEFINE l == Len(names)
           s == CHOOSE f : Loops(f, command, c, names)
           Bad == {n \in 0..l : ~Reached(command, c, subs, s[n])}
<1>1. l \in Nat /\ \A n \in 1..l : names[n] \in Names
  BY LenProperties, ElementOfSeq
<1>2. s = [n \in 0..l |-> IF n = 0 THEN subs ELSE Applied(command, s[n - 1], c, names[n])]
  <2>1. Loops(s, command, c, names)
    BY <1>1, LoopExists
  <2> HIDE DEF s
  <2> QED BY <2>1 DEF Loops
<1>3. t = s[l]
  BY DEF Handled, Loops
<1> HIDE DEF s, l
<1>4. s[0] = subs /\ \A n \in 1..l : n - 1 \in 0..l /\ s[n] = Applied(command, s[n - 1], c, names[n])
  <2>1. 0 \in 0..l /\ \A n \in 1..l : n \in 0..l /\ n # 0 /\ n - 1 \in 0..l
    BY <1>1
  <2>2. \A n \in 0..l : s[n] = IF n = 0 THEN subs ELSE Applied(command, s[n - 1], c, names[n])
    BY <1>2
  <2> QED BY <2>1, <2>2
<1>5. ASSUME Bad # {} PROVE FALSE
  <2>1. PICK m \in Bad : \A y \in Bad : m <= y
    <3>1. Bad \in SUBSET Nat
      BY <1>1
    <3> HIDE DEF Bad
    <3> QED BY <1>5, <3>1, LeastExists
  <2>2. m # 0
    <3>1. Reached(command, c, subs, subs)
      BY DEF Reached
    <3> QED BY <1>4, <2>1, <3>1
  <2>3. m \in 1..l /\ m - 1 \in 0..l /\ ~(m <= m - 1)
    BY <1>1, <2>1, <2>2
  <2>4. Reached(command, c, subs, s[m - 1])
    BY <2>1, <2>3
  <2>5. Reached(command, c, s[m - 1], s[m])
    <3>1. Agreed(s[m - 1])
      BY <2>4 DEF Reached
    <3> QED BY <1>1, <1>4, <2>3, <3>1, AppliedKeeps
  <2>6. Reached(command, c, subs, s[m])
    BY <2>4, <2>5, ReachedOn
  <2> QED BY <2>1, <2>6
<1>6. l \in 0..l /\ \A n \in 0..l : Reached(command, c, subs, s[n])
  BY <1>1, <1>5
<1>7. ASSUME l # 0
      PROVE  /\ command = "subscribe" => t.chans[c] # {}
             /\ command = "psubscribe" => t.pats[c] # {}
  <2>1. l \in 1..l /\ l - 1 \in 0..l
    BY <1>1, <1>7
  <2>2. Agreed(s[l - 1]) /\ names[l] \in Names /\ t = Applied(command, s[l - 1], c, names[l])
    BY <1>1, <1>3, <1>4, <1>6, <2>1 DEF Reached
  <2>3. /\ command = "subscribe" => names[l] \in t.chans[c]
        /\ command = "psubscribe" => names[l] \in t.pats[c]
    BY <2>2, AppliedKeeps
  <2> QED BY <2>3
<1> QED BY <1>3, <1>6, <1>7 DEF l

(* The arguments of a command, which start with its name.                  *)
LEMMA ArgvIs ==
  ASSUME NEW command \in Commands, NEW argv \in Argv(command)
  PROVE  argv \in Seq(Names) /\ Len(argv) \in Nat \ {0}
<1>1. Arity[command] - 1 \in Nat /\ CommandName[command] \in Names
  BY PubSubAssumption DEF Arity, Commands
<1>2. PICK n \in (Arity[command] - 1)..(MaxArgc - 1) :
        \E args \in [1..n -> Arguments] : argv = <<CommandName[command]>> \o args
  BY DEF Argv
<1>3. n \in Nat
  BY <1>1, <1>2, PubSubAssumption
<1> PICK args \in [1..n -> Arguments] : argv = <<CommandName[command]>> \o args
  BY <1>2
<1>4. args \in Seq(Names) /\ Len(args) = n
  BY <1>2, <1>3, PubSubAssumption
<1>5. <<CommandName[command]>> \in Seq(Names) /\ Len(<<CommandName[command]>>) = 1
  BY <1>1
<1>6. argv \in Seq(Names) /\ Len(argv) = 1 + n
  BY <1>2, <1>4, <1>5, ConcatProperties
<1> QED BY <1>3, <1>6

(* What a client leaves when it leaves everything, in some order.          *)
LEMMA OrderIs ==
  ASSUME NEW S \in SUBSET Names, IsFiniteSet(S), NEW names \in SetToSeqs(S)
  PROVE  names \in Seq(Names)
<1>1. Cardinality(S) \in Nat
  BY FS_CardinalityType
<1>2. names \in [1..Cardinality(S) -> S]
  BY DEF SetToSeqs
<1> QED BY <1>1, <1>2

PubSubInv ==
  /\ Agreed(subs)
  /\ flagged = {c \in Subscribers : subs.chans[c] # {} \/ subs.pats[c] # {}}
  /\ handler \in {"alive", "crashed"}

LEMMA CountIs ==
  ASSUME NEW s, Agreed(s), NEW c \in Subscribers
  PROVE  /\ getSubscriptionsCount(s, c) \in Nat
         /\ getSubscriptionsCount(s, c) = 0 <=> s.chans[c] = {} /\ s.pats[c] = {}
<1>1. IsFiniteSet(s.chans[c]) /\ IsFiniteSet(s.pats[c])
  BY DEF Agreed
<1>2. Cardinality(s.chans[c]) \in Nat /\ Cardinality(s.pats[c]) \in Nat
  BY <1>1, FS_CardinalityType
<1>3. (Cardinality(s.chans[c]) = 0 <=> s.chans[c] = {}) /\ (Cardinality(s.pats[c]) = 0 <=> s.pats[c] = {})
  BY <1>1, FS_EmptySet
<1> QED BY <1>2, <1>3 DEF getSubscriptionsCount

LEMMA PubSubStarts == PubSubInit => PubSubInv
<1> SUFFICES ASSUME PubSubInit PROVE PubSubInv
  OBVIOUS
<1>1. /\ subs = [chans |-> subs.chans, pats |-> subs.pats,
                 channels |-> subs.channels, patterns |-> subs.patterns]
      /\ subs.chans = [c \in Subscribers |-> {}] /\ subs.pats = [c \in Subscribers |-> {}]
      /\ subs.channels = << >> /\ subs.patterns = << >>
  BY DEF PubSubInit
<1>2. SubsTyped(subs)
  <2>1. DOMAIN subs.channels = {} /\ subs.patterns \in Seq(Entries)
    BY <1>1
  <2> QED BY <1>1, <2>1 DEF SubsTyped
<1>3. \A d \in Subscribers : IsFiniteSet(subs.chans[d]) /\ IsFiniteSet(subs.pats[d])
  BY <1>1, FS_EmptySet
<1>4. \A ch \in Names : ChannelAgreed(subs, ch)
  <2>1. DOMAIN subs.channels = {}
    BY <1>1
  <2> QED BY <1>1, <2>1 DEF ChannelAgreed
<1>5. flagged = {c \in Subscribers : subs.chans[c] # {} \/ subs.pats[c] # {}}
  BY <1>1 DEF PubSubInit
<1> QED BY <1>2, <1>3, <1>4, <1>5 DEF PubSubInv, Agreed, PubSubInit

(* The flag of a client that (p)subscribes and of one that (p)unsubscribes.*)
LEMMA FlagSet ==
  ASSUME PubSubInv, NEW command, NEW c \in Subscribers, Reached(command, c, subs, subs'),
         subs'.chans[c] # {} \/ subs'.pats[c] # {}, flagged' = flagged \cup {c},
         handler' \in {"alive", "crashed"}
  PROVE  PubSubInv'
BY DEF PubSubInv, Reached

LEMMA FlagTaken ==
  ASSUME PubSubInv, NEW command \in {"unsubscribe", "punsubscribe"}, NEW c \in Subscribers,
         Reached(command, c, subs, subs'), EndCommand(subs', c), handler' \in {"alive", "crashed"}
  PROVE  PubSubInv'
<1>1. Agreed(subs')
  BY DEF Reached
<1>2. flagged' = IF subs'.chans[c] = {} /\ subs'.pats[c] = {} THEN flagged \ {c} ELSE flagged
  BY <1>1, CountIs DEF EndCommand
<1>3. \A d \in Subscribers \ {c} : subs'.chans[d] = subs.chans[d] /\ subs'.pats[d] = subs.pats[d]
  BY DEF Reached
<1>4. subs'.chans[c] \subseteq subs.chans[c] /\ subs'.pats[c] \subseteq subs.pats[c]
  BY DEF Reached
<1>5. flagged' = {d \in Subscribers : subs'.chans[d] # {} \/ subs'.pats[d] # {}}
  BY <1>2, <1>3, <1>4 DEF PubSubInv
<1> QED BY <1>1, <1>5 DEF PubSubInv

LEMMA PubSubStep == PubSubInv /\ [PubSubNext]_pubSubVars => PubSubInv'
<1> SUFFICES ASSUME PubSubInv, [PubSubNext]_pubSubVars PROVE PubSubInv'
  OBVIOUS
<1>0. Agreed(subs) /\ handler \in {"alive", "crashed"}
  BY DEF PubSubInv
<1>1. ASSUME NEW c \in Subscribers, subscribeCommand(c) PROVE PubSubInv'
  <2>1. PICK argv \in Argv("subscribe") :
          subs' = Handled("subscribe", c, argv) /\ flagged' = flagged \cup {c} /\ UNCHANGED handler
    BY <1>1 DEF subscribeCommand
  <2>2. argv \in Seq(Names) /\ Len(argv) # 0
    BY ArgvIs DEF Commands
  <2>3. Reached("subscribe", c, subs, subs') /\ subs'.chans[c] # {}
    BY <1>0, <2>1, <2>2, HandledKeeps DEF Commands
  <2> QED BY <1>0, <2>1, <2>3, FlagSet
<1>2. ASSUME NEW c \in Subscribers, psubscribeCommand(c) PROVE PubSubInv'
  <2>1. PICK argv \in Argv("psubscribe") :
          subs' = Handled("psubscribe", c, argv) /\ flagged' = flagged \cup {c} /\ UNCHANGED handler
    BY <1>2 DEF psubscribeCommand
  <2>2. argv \in Seq(Names) /\ Len(argv) # 0
    BY ArgvIs DEF Commands
  <2>3. Reached("psubscribe", c, subs, subs') /\ subs'.pats[c] # {}
    BY <1>0, <2>1, <2>2, HandledKeeps DEF Commands
  <2> QED BY <1>0, <2>1, <2>3, FlagSet
<1>3. ASSUME NEW c \in Subscribers, unsubscribeCommand(c) PROVE PubSubInv'
  <2>1. PICK argv \in Argv("unsubscribe") :
          \E names \in IF Len(argv) = 1 THEN SetToSeqs(subs.chans[c]) ELSE {argv} :
             /\ subs' = Handled("unsubscribe", c, names) /\ EndCommand(subs', c)
             /\ handler' \in {"alive", "crashed"}
    BY <1>3 DEF unsubscribeCommand
  <2>2. PICK names \in IF Len(argv) = 1 THEN SetToSeqs(subs.chans[c]) ELSE {argv} :
             /\ subs' = Handled("unsubscribe", c, names) /\ EndCommand(subs', c)
             /\ handler' \in {"alive", "crashed"}
    BY <2>1
  <2>3. names \in Seq(Names)
    <3>1. argv \in Seq(Names)
      BY ArgvIs DEF Commands
    <3>2. subs.chans[c] \in SUBSET Names /\ IsFiniteSet(subs.chans[c])
      BY <1>0 DEF Agreed, SubsTyped
    <3> QED BY <3>1, <3>2, OrderIs
  <2>4. Reached("unsubscribe", c, subs, subs')
    BY <1>0, <2>2, <2>3, HandledKeeps DEF Commands
  <2> QED BY <2>2, <2>4, FlagTaken
<1>4. ASSUME NEW c \in Subscribers, punsubscribeCommand(c) PROVE PubSubInv'
  <2>1. PICK argv \in Argv("punsubscribe") :
          \E names \in IF Len(argv) = 1 THEN SetToSeqs(subs.pats[c]) ELSE {argv} :
             /\ subs' = Handled("punsubscribe", c, names) /\ EndCommand(subs', c)
             /\ handler' \in {"alive", "crashed"}
    BY <1>4 DEF punsubscribeCommand
  <2>2. PICK names \in IF Len(argv) = 1 THEN SetToSeqs(subs.pats[c]) ELSE {argv} :
             /\ subs' = Handled("punsubscribe", c, names) /\ EndCommand(subs', c)
             /\ handler' \in {"alive", "crashed"}
    BY <2>1
  <2>3. names \in Seq(Names)
    <3>1. argv \in Seq(Names)
      BY ArgvIs DEF Commands
    <3>2. subs.pats[c] \in SUBSET Names /\ IsFiniteSet(subs.pats[c])
      BY <1>0 DEF Agreed, SubsTyped
    <3> QED BY <3>1, <3>2, OrderIs
  <2>4. Reached("punsubscribe", c, subs, subs')
    BY <1>0, <2>2, <2>3, HandledKeeps DEF Commands
  <2> QED BY <2>2, <2>4, FlagTaken
<1>5. CASE UNCHANGED pubSubVars
  <2>1. subs' = subs /\ flagged' = flagged /\ handler' = handler
    BY <1>5 DEF pubSubVars
  <2> QED BY <2>1 DEF PubSubInv
<1> QED BY <1>1, <1>2, <1>3, <1>4, <1>5 DEF PubSubNext

LEMMA PubSubInvariant == PubSubSpec => []PubSubInv
  BY PubSubStarts, PubSubStep, PTL DEF PubSubSpec

(* What the clients and the handler keep of subscriptions has its type.    *)
THEOREM SubscriptionsTyped == PubSubSpec => []PubSubTypeOK
<1>1. PubSubInv => PubSubTypeOK
  BY DEF PubSubInv, Agreed, SubsTyped, ChannelAgreed, Entries, PubSubTypeOK
<1> QED BY <1>1, PubSubInvariant, PTL

(* After any commands of any clients a message of a channel goes once to   *)
(* each client that is subscribed to it, and to no other; no channel stays *)
(* in the map that everybody left; and the flag says who has subscriptions.*)
THEOREM SidesAgree == PubSubSpec => []DirectionsAgree
<1>1. PubSubInv => DirectionsAgree
  <2> SUFFICES ASSUME PubSubInv PROVE DirectionsAgree
    OBVIOUS
  <2>1. Agreed(subs)
    BY DEF PubSubInv
  <2>2. ASSUME NEW c \in Subscribers, NEW ch \in Names,
               \A i \in DOMAIN subs.patterns : subs.patterns[i].client # c
        PROVE  Messages(c, ch) = IF ch \in subs.chans[c] THEN 1 ELSE 0
    <3> DEFINE L == Listeners(ch)
               Q == {i \in DOMAIN subs.patterns :
                       subs.patterns[i].client = c /\ <<subs.patterns[i].pattern, ch>> \in Fits}
               T == {i \in DOMAIN L : L[i] = c}
    <3>1. Q = {} /\ Cardinality(Q) = 0
      BY <2>2, FS_EmptySet
    <3>2. Once(L) /\ (c \in Elems(L) <=> ch \in subs.chans[c])
      <4>1. ChannelAgreed(subs, ch)
        BY <2>1 DEF Agreed
      <4>2. CASE ch \in DOMAIN subs.channels
        BY <4>1, <4>2 DEF ChannelAgreed, Listeners
      <4>3. CASE ch \notin DOMAIN subs.channels
        BY <4>1, <4>3 DEF ChannelAgreed, Listeners, Once, Elems
      <4> QED BY <4>2, <4>3
    <3> HIDE DEF L
    <3>3. CASE ch \in subs.chans[c]
      <4>1. PICK i \in DOMAIN L : L[i] = c
        BY <3>2, <3>3 DEF Elems
      <4>2. T = {i}
        BY <3>2, <4>1 DEF Once
      <4>3. Cardinality(T) = 1
        BY <4>2, FS_Singleton
      <4> QED BY <3>1, <3>3, <4>3 DEF Messages, L
    <3>4. CASE ch \notin subs.chans[c]
      <4>1. T = {}
        BY <3>2, <3>4 DEF Elems
      <4>2. Cardinality(T) = 0
        BY <4>1, FS_EmptySet
      <4> QED BY <3>1, <3>4, <4>2 DEF Messages, L
    <3> QED BY <3>3, <3>4
  <2>3. DOMAIN subs.channels = UNION {subs.chans[c] : c \in Subscribers}
    <3>1. ASSUME NEW ch \in DOMAIN subs.channels
          PROVE  \E d \in Subscribers : ch \in subs.chans[d]
      <4> DEFINE L == subs.channels[ch]
      <4>1. /\ L \in Seq(Subscribers) /\ L # << >>
            /\ \A d \in Subscribers : d \in Elems(L) <=> ch \in subs.chans[d]
        BY <2>1 DEF Agreed, SubsTyped, ChannelAgreed
      <4> HIDE DEF L
      <4>2. 1 \in DOMAIN L /\ L[1] \in Subscribers
        BY <4>1, EmptySeq, LenProperties
      <4> QED BY <4>1, <4>2 DEF Elems
    <3>2. ASSUME NEW d \in Subscribers, NEW ch \in subs.chans[d] PROVE ch \in DOMAIN subs.channels
      <4>1. ch \in Names /\ ChannelAgreed(subs, ch)
        BY <2>1 DEF Agreed, SubsTyped
      <4> QED BY <4>1 DEF ChannelAgreed
    <3> QED BY <3>1, <3>2
  <2>4. flagged = {c \in Subscribers : getSubscriptionsCount(subs, c) > 0}
    <3>1. \A c \in Subscribers :
            getSubscriptionsCount(subs, c) > 0 <=> subs.chans[c] # {} \/ subs.pats[c] # {}
      BY <2>1, CountIs
    <3> QED BY <3>1 DEF PubSubInv
  <2> QED BY <2>2, <2>3, <2>4 DEF DirectionsAgree
<1> QED BY <1>1, PubSubInvariant, PTL
=============================================================================
