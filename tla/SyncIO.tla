-------------------------------- MODULE SyncIO --------------------------------
(***************************************************************************)
(* The calls of net/NetHandler.cpp that read and write a socket with a     *)
(* time-out: syncRead, syncReadLine and syncWrite.  The peer sends in      *)
(* between, and the socket may fail.  read() and write() move a part of    *)
(* what they are asked for.  EAGAIN and wait() let the loop go on and are  *)
(* no steps here: the answer of wait(), whose retmask is never             *)
(* initialised, is not looked at.  Nothing in the program calls them yet.  *)
(***************************************************************************)
EXTENDS Integers, Sequences, SequencesExt

CONSTANTS
  MaxArrived,   \* bound: bytes that the peer sends
  MaxSize       \* bound: the size that a call is asked for

ASSUME SyncAssumption == MaxArrived \in Nat /\ MaxSize \in Nat

VARIABLES
  arrived,   \* all that the peer has sent
  taken,     \* how much of it was read
  io,        \* the call that is made: its name, or "none"
  size,      \* what it is still asked for; of a write all of it
  ptr,       \* the buffer that a read fills
  moved,     \* the bytes that a write has moved, by their places in str
  answer,    \* of the last call
  start,     \* history: taken when the call began
  last       \* history: the name of the last call

syncVars == <<arrived, taken, io, size, ptr, moved, answer, start, last>>

Bytes == {"x", "CR", "LF"}

SyncInit ==
  /\ arrived = << >> /\ taken = 0
  /\ io = "none" /\ size = 0 /\ ptr = << >> /\ moved = << >>
  /\ answer = 0 /\ start = 0 /\ last = "none"

Waiting == Len(arrived) - taken
Places(from, n) == [k \in 1..n |-> from + k]
Answers(n) == io' = "none" /\ last' = io /\ answer' = n
GoesOn     == UNCHANGED <<io, last, answer>>
-----------------------------------------------------------------------------
(* The peer, and the caller                                                *)

PeerSends ==
  /\ Len(arrived) < MaxArrived
  /\ \E b \in Bytes : arrived' = Append(arrived, b)
  /\ UNCHANGED <<taken, io, size, ptr, moved, answer, start, last>>

(* syncReadLine keeps a byte for the 0 at the end.                         *)
Call ==
  /\ io = "none"
  /\ \E n \in 0..MaxSize :
       \/ io' \in {"read", "write"} /\ size' = n
       \/ io' = "line" /\ size' = n - 1
  /\ ptr' = << >> /\ moved' = << >> /\ start' = taken
  /\ UNCHANGED <<arrived, taken, answer, last>>
-----------------------------------------------------------------------------
(* syncRead. Mutant: the call starts at the begin of its buffer again.     *)
Overwritten(bytes) == ptr' = bytes
Filled(bytes)      == ptr' = ptr \o bytes

(* The end of its time or of the stream, or nothing was asked for.         *)
ReadEnds ==
  /\ io = "read"
  /\ Answers(Len(ptr))
  /\ UNCHANGED <<arrived, taken, size, ptr, moved, start>>

ReadSome ==
  /\ io = "read"
  /\ \E n \in 1..size :
       /\ n <= Waiting
       /\ Filled(SubSeq(arrived, taken + 1, taken + n))
       /\ taken' = taken + n /\ size' = size - n
       /\ IF n = size THEN Answers(Len(ptr')) ELSE GoesOn
  /\ UNCHANGED <<arrived, moved, start>>

(* syncReadLine, which reads one byte with each syncRead, and gives each   *)
(* the whole time.                                                         *)
WithoutCR(line) == IF Last(line) = "CR" THEN Front(line) ELSE line

LineEnds ==
  /\ io = "line"
  /\ Answers(IF size > 0 THEN 0 ELSE Len(ptr))
  /\ UNCHANGED <<arrived, taken, size, ptr, moved, start>>

LineByte ==
  /\ io = "line" /\ size > 0 /\ Waiting > 0
  /\ taken' = taken + 1
  /\ IF arrived[taken'] = "LF"
     THEN /\ ptr' = IF ptr = << >> THEN ptr ELSE WithoutCR(ptr)
          /\ Answers(Len(ptr')) /\ UNCHANGED size
     ELSE ptr' = Append(ptr, arrived[taken']) /\ size' = size - 1 /\ GoesOn
  /\ UNCHANGED <<arrived, moved, start>>

(* syncWrite ends well when one write() moves all, or in time: with        *)
(* nothing left write() moves nothing, which counts as an error. Mutant:   *)
(* the rest of str is not found behind what was moved.                     *)
FromBegin(n) == moved' = moved \o Places(0, n)
FromRest(n)  == moved' = moved \o Places(Len(moved), n)

WriteSome ==
  /\ io = "write"
  /\ \E n \in 1..(size - Len(moved)) :
       FromRest(n) /\ IF n = size THEN Answers(Len(moved')) ELSE GoesOn
  /\ UNCHANGED <<arrived, taken, size, ptr, start>>

WriteEnds ==
  /\ io = "write"
  /\ Answers(Len(moved))
  /\ UNCHANGED <<arrived, taken, size, ptr, moved, start>>

(* An error of the socket, at any call of read() or write().               *)
Fails ==
  /\ io # "none" /\ (io = "write" \/ size > 0)
  /\ Answers(-1)
  /\ UNCHANGED <<arrived, taken, size, ptr, moved, start>>

SyncNext ==
  \/ PeerSends \/ Call \/ ReadEnds \/ ReadSome \/ LineEnds \/ LineByte
  \/ WriteSome \/ WriteEnds \/ Fails

SyncSpec == SyncInit /\ [][SyncNext]_syncVars
-----------------------------------------------------------------------------
SyncTypeOK ==
  /\ arrived \in Seq(Bytes) /\ taken \in 0..Len(arrived)
  /\ io \in {"none", "read", "line", "write"} /\ last \in {"none", "read", "line", "write"}
  /\ size \in -1..MaxSize /\ start \in 0..taken
  /\ ptr \in Seq(Bytes) /\ moved \in Seq(Nat) /\ answer \in Int

(* However the bytes come in pieces, and wherever time or the stream ends: *)
(* a read gives the bytes it took, in order, and says how many; a line     *)
(* that is given ends before its end of line or fills its buffer, and      *)
(* nothing behind it is taken; of what is written each byte goes out once  *)
(* and in order, and a number of bytes that is told has gone out.          *)
AnswersAreTrue ==
  LET took == SubSeq(arrived, start + 1, taken)
  IN /\ \A k \in DOMAIN moved : moved[k] = k
     /\ io = "none" /\ answer >= 0 /\ last = "read" => ptr = took /\ answer = Len(ptr)
     /\ io = "none" /\ answer >= 0 /\ last = "line" =>
          /\ \A k \in DOMAIN ptr : ptr[k] # "LF"
          /\ answer > 0 => answer = Len(ptr)
          /\ took = ptr \/ took = ptr \o <<"LF">> \/ took = ptr \o <<"CR", "LF">>
          /\ took = ptr /\ answer > 0 => size = 0
     /\ io = "none" /\ answer >= 0 /\ last = "write" => answer = Len(moved)
=============================================================================
