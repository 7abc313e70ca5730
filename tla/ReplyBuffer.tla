---------------------------- MODULE ReplyBuffer ----------------------------
(***************************************************************************)
(* The output side of one FlyClient (flyclient/FlyClient.cpp) together     *)
(* with the server code that drives it: the list of clients with pending   *)
(* writes served before every poll, the ES_WRITABLE file event, and the    *)
(* list of clients that serverCron closes.                                 *)
(*                                                                         *)
(* A reply byte is the number under which it was accepted, so that order,  *)
(* loss and duplication are visible.  The process has one thread: while    *)
(* writeToClient loops (pc = "writing") nothing else runs, but every       *)
(* write(2) of the loop is a step, and it can be cut short or fail.        *)
(***************************************************************************)
EXTENDS Integers, Sequences

CONSTANTS
  BufSize,      \* sizeof(FlyClient::buf), FLY_REPLY_CHUNK_BYTES
  ChunkBytes,   \* PROTO_REPLY_CHUNK_BYTES
  MaxReply,     \* longest reply: the char msg[1024] of addReply, less one
  MaxWrites,    \* NET_MAX_WRITES_PER_EVENT
  MaxBytes      \* bound of the exploration: bytes accepted in a behaviour

(* 1023 <= 16 * 1024: no reply is longer than a chunk of the list. *)
ASSUME SizesAssumption ==
  /\ BufSize \in Nat
  /\ ChunkBytes \in Nat
  /\ MaxReply \in Nat
  /\ MaxReply <= ChunkBytes
  /\ MaxWrites \in Nat
  /\ MaxBytes \in Nat

VARIABLES
  buf,         \* buf[0 .. bufpos-1], so bufpos = Len(buf)
  replies,     \* the list of chunks used when buf is full
  replyBytes,  \* the counter of bytes in replies
  sendLen,     \* how much of buf, or of the first chunk, is already written
  flags,       \* the CLIENT_* flags that the output path reads or writes
  listed,      \* occurrences of the client in clientsPendingWrite
  handler,     \* the ES_WRITABLE file event is installed
  toClose,     \* the client is in clientsToClose
  sock,        \* "open"; "closed", with the fd number kept; "none": fd = -1
  pc,          \* "idle", "writing" inside writeToClient, or "crashed"
  installed,   \* the argument handlerInstalled of writeToClient
  total,       \* totalCount of writeToClient
  result,      \* onceCount and errno: "wrote", "EAGAIN" or "error"
  accepted,    \* number of bytes put into the buffers so far
  delivered    \* the bytes written to the socket so far, in order

output == <<buf, replies, replyBytes, sendLen>>
server == <<listed, handler, toClose>>
loop   == <<installed, total, result>>
stream == <<accepted, delivered>>
vars   == <<output, flags, server, sock, pc, loop, stream>>

Flags   == {"CLOSE_AFTER_REPLY", "PENDING_WRITE", "CLOSE_ASAP"}
Results == {"wrote", "EAGAIN", "error"}
-----------------------------------------------------------------------------
(* Helpers *)

(* Mutants of these operators, for the properties they would break: see    *)
(* PROJECT.json.                                                           *)
hasNoPendingInBuf        == buf = << >>
FitsBufferBesideList(len) == BufSize - Len(buf) >= len
FitsBufferMore(len)      == replies = << >> /\ BufSize - Len(buf) + 1 >= len

hasNoPending == buf = << >> /\ replies = << >>

(* The bytes of a reply of length len. *)
NewBytes(len) == [i \in 1..len |-> accepted + i]

(* addReplyToBuffer, the case that returns 1 after copying *)
FitsBuffer(len) ==
  /\ replies = << >>
  /\ BufSize - Len(buf) >= len

addReplyToBuffer(len) ==
  /\ buf' = buf \o NewBytes(len)
  /\ UNCHANGED <<replies, replyBytes>>

(* Mutant of the next: a chunk, and replyBytes not counted.                *)
addReplyToReplyListUncounted(len) ==
  /\ replies' = Append(replies, NewBytes(len))
  /\ UNCHANGED <<buf, replyBytes>>

(* Mutant of the next: the last chunk takes every reply.                   *)
addReplyToReplyListUnbounded(len) ==
  LET n == Len(replies)
  IN /\ replies' = IF n # 0 THEN [replies EXCEPT ![n] = @ \o NewBytes(len)]
                   ELSE <<NewBytes(len)>>
     /\ replyBytes' = replyBytes + len
     /\ UNCHANGED buf

(* replies.back() of an empty list reads the list's size field, 0 in both  *)
(* standard libraries: it compares equal to nullptr and a chunk is pushed. *)
addReplyToReplyList(len) ==
  LET n == Len(replies)
  IN /\ replies' =
          IF n # 0 /\ Len(replies[n]) + len <= ChunkBytes
          THEN [replies EXCEPT ![n] = @ \o NewBytes(len)]
          ELSE Append(replies, NewBytes(len))
     /\ replyBytes' = replyBytes + len
     /\ UNCHANGED buf

(* prepareClientToWrite and addToClientsPendingToWrite; the flags after it *)
MustListAlways == "PENDING_WRITE" \notin flags   \* mutant of MustList

MustList == hasNoPending /\ "PENDING_WRITE" \notin flags

FlagsUnchanged == flags   \* mutant of FlagsWhenListed

FlagsWhenListed == IF MustList THEN flags \cup {"PENDING_WRITE"} ELSE flags

(* addReplyRaw, with the flags that the caller adds afterwards *)
addReplyRaw(len, extra) ==
  /\ IF sock = "none"
     THEN /\ flags' = flags \cup extra
          /\ UNCHANGED <<output, listed, accepted>>
     ELSE /\ listed' = IF MustList THEN listed + 1 ELSE listed
          /\ flags' = FlagsWhenListed \cup extra
          /\ IF "CLOSE_AFTER_REPLY" \in flags
             THEN UNCHANGED <<output, accepted>>
             ELSE /\ accepted' = accepted + len
                  /\ IF FitsBuffer(len)
                     THEN addReplyToBuffer(len)
                     ELSE addReplyToReplyList(len)
                  /\ UNCHANGED sendLen
  /\ UNCHANGED <<handler, toClose, sock, loop, delivered>>

(* Mutant of the next: the client is flagged, and not put into the list.   *)
closeUnlisted ==
  /\ flags' = {"CLOSE_ASAP"}
  /\ sock' = IF sock = "open" THEN "closed" ELSE sock
  /\ UNCHANGED toClose

(* freeClientAsync followed by close(fd), as writeToClient ends *)
freeClientAsyncAndClose ==
  /\ IF "CLOSE_ASAP" \in flags \/ sock = "none"
     THEN UNCHANGED <<flags, toClose>>
     ELSE /\ flags' = {"CLOSE_ASAP"}
          /\ toClose' = TRUE
  /\ sock' = IF sock = "open" THEN "closed" ELSE sock

(* A function that ends without its return statement may crash the build.  *)
MayCrash == pc' \in {"idle", "crashed"}

(* freeClient, which is unlinkClient and no return statement               *)
freeClient ==
  /\ MayCrash
  /\ sock' = "none"
  /\ handler' = FALSE
  /\ toClose' = FALSE
  /\ listed' = IF "PENDING_WRITE" \in flags /\ listed > 0
               THEN listed - 1 ELSE listed
-----------------------------------------------------------------------------
Init ==
  /\ buf = << >> /\ replies = << >> /\ replyBytes = 0 /\ sendLen = 0
  /\ flags = {}
  /\ listed = 0 /\ handler = FALSE /\ toClose = FALSE
  /\ sock = "open"
  /\ pc = "idle" /\ installed = FALSE /\ total = 0 /\ result = "wrote"
  /\ accepted = 0 /\ delivered = << >>

(* A command, or a message published to the client, replies. *)
AddReply(len) ==
  /\ pc = "idle"
  /\ accepted + len <= MaxBytes
  /\ addReplyRaw(len, {})
  /\ UNCHANGED pc

(* A malformed request: addReplyError, then setProtocolError, an int       *)
(* function that returns nothing.                                          *)
ProtocolError(len) ==
  /\ pc = "idle"
  /\ sock = "open"
  /\ accepted + len <= MaxBytes
  /\ addReplyRaw(len, {"CLOSE_AFTER_REPLY"})
  /\ MayCrash

(* handleClientsWithPendingWrites, up to the loop of writeToClient(0).     *)
(* errno is whatever an earlier system call left in it.                    *)
BeforeSleep ==
  /\ pc = "idle"
  /\ listed > 0
  /\ flags' = flags \ {"PENDING_WRITE"}
  /\ pc' = "writing" /\ installed' = FALSE /\ total' = 0
  /\ result' \in {"EAGAIN", "error"}
  /\ UNCHANGED <<output, server, sock, stream>>

(* The socket is writable: sendReplyToClient, up to the loop. *)
SendReplyToClient ==
  /\ pc = "idle"
  /\ handler /\ sock = "open"
  /\ pc' = "writing" /\ installed' = TRUE /\ total' = 0
  /\ result' \in {"EAGAIN", "error"}
  /\ UNCHANGED <<output, flags, server, sock, stream>>

(* The loop goes round (again): something is left to write, and the budget *)
(* of one event is not spent.                                              *)
LoopGoesOn ==
  /\ pc = "writing"
  /\ ~hasNoPending
  /\ total <= MaxWrites

(* The bytes offered to write(2). *)
Offered ==
  IF buf # << >> THEN SubSeq(buf, sendLen + 1, Len(buf))
                 ELSE SubSeq(replies[1], sendLen + 1, Len(replies[1]))

(* write(2) takes the first n bytes; sendLen, buf and replies follow. *)
Write(n) ==
  /\ delivered' = delivered \o SubSeq(Offered, 1, n)
  /\ total' = total + n
  /\ result' = "wrote"
  /\ IF n < Len(Offered)
     THEN /\ sendLen' = sendLen + n
          /\ UNCHANGED <<buf, replies, replyBytes>>
     ELSE /\ sendLen' = 0
          /\ IF buf # << >>
             THEN buf' = << >> /\ UNCHANGED <<replies, replyBytes>>
             ELSE /\ replies' = Tail(replies)
                  /\ replyBytes' = replyBytes - Len(replies[1])
                  /\ UNCHANGED buf
  /\ UNCHANGED <<flags, server, sock, pc, installed, accepted>>

WriteSome ==
  /\ LoopGoesOn
  /\ sock = "open"
  /\ \E n \in 1..Len(Offered) : Write(n)

(* The end of writeToClient, and of the function that called it: the write *)
(* that stopped the loop, if one did, gave res.                            *)
Finish(res) ==
  /\ pc' = "idle"
  /\ result' = res
  /\ IF res = "error"
     THEN /\ freeClientAsyncAndClose
          /\ UNCHANGED <<handler, sendLen>>
     ELSE IF hasNoPending
     THEN /\ sendLen' = 0
          /\ handler' = (handler /\ ~installed)
          /\ IF "CLOSE_AFTER_REPLY" \in flags
             THEN freeClientAsyncAndClose
             ELSE UNCHANGED <<flags, toClose, sock>>
     ELSE /\ handler' = TRUE
          /\ UNCHANGED <<sendLen, flags, toClose, sock>>
  /\ listed' = IF installed THEN listed ELSE 0
  /\ UNCHANGED <<buf, replies, replyBytes, installed, total, stream>>

(* write(2) fails with EAGAIN, or for good (the peer reset, the fd closed). *)
(* An empty offer would make it return 0, which leaves errno as it was.     *)
WriteFails(res) ==
  /\ LoopGoesOn
  /\ res = "EAGAIN" => sock = "open"
  /\ Finish(res)

(* The loop condition, or the limit on one event, ends the loop. *)
LoopEnds ==
  /\ pc = "writing"
  /\ ~LoopGoesOn
  /\ Finish(result)

(* The peer closed its end: readQueryFromClient reads 0 and frees. *)
PeerCloses ==
  /\ pc = "idle"
  /\ sock = "open"
  /\ freeClient
  /\ UNCHANGED <<output, flags, loop, stream>>

(* serverCron: freeClientsInAsyncFreeList, whose loop steps on from the    *)
(* list node that unlinkClient has just erased: it, too, may crash.        *)
ServerCron ==
  /\ pc = "idle"
  /\ toClose
  /\ freeClient
  /\ UNCHANGED <<output, flags, loop, stream>>

Next ==
  \/ \E len \in 0..MaxReply : AddReply(len)
  \/ \E len \in 0..MaxReply : ProtocolError(len)
  \/ BeforeSleep
  \/ SendReplyToClient
  \/ WriteSome
  \/ \E res \in {"EAGAIN", "error"} : WriteFails(res)
  \/ LoopEnds
  \/ PeerCloses
  \/ ServerCron

Spec == Init /\ [][Next]_vars

(* eventMain never stops, and one turn of it serves the pending list,      *)
(* polls, and runs the timers that are due: none of the three can be       *)
(* passed over for ever (strong fairness), whatever happens in between.    *)
(* Every write(2) returns.  That it also makes progress again and again is *)
(* an assumption about the peer: it keeps reading.                         *)
Fairness ==
  /\ SF_vars(BeforeSleep)
  /\ SF_vars(SendReplyToClient)
  /\ SF_vars(ServerCron)
  /\ WF_vars(WriteSome \/ \E res \in {"EAGAIN", "error"} : WriteFails(res))
  /\ WF_vars(LoopEnds)
  /\ SF_vars(WriteSome)

FairSpec == Spec /\ Fairness
-----------------------------------------------------------------------------
(* Properties *)

(* Type invariant: the shape of every variable of the output path.         *)
TypeOK ==
  /\ buf \in Seq(Nat)
  /\ replies \in Seq(Seq(Nat))
  /\ replyBytes \in Nat
  /\ sendLen \in Nat
  /\ flags \in SUBSET Flags
  /\ listed \in Nat
  /\ handler \in BOOLEAN
  /\ toClose \in BOOLEAN
  /\ sock \in {"open", "closed", "none"}
  /\ pc \in {"idle", "writing", "crashed"}
  /\ installed \in BOOLEAN
  /\ total \in Nat
  /\ result \in Results
  /\ accepted \in Nat
  /\ delivered \in Seq(Nat)

(* The number of bytes before the first byte of the list: what is          *)
(* delivered, less the part of buf or chunk counted twice, plus buf.       *)
Base == Len(delivered) + Len(buf) - sendLen

(* The peer has received the accepted bytes 1, 2, 3, ... in order, with no *)
(* gap and no repetition, across both buffers, partial writes and errors.  *)
InOrder ==
  /\ Len(delivered) <= accepted
  /\ \A i \in 1..Len(delivered) : delivered[i] = i

(* sendLen is one cursor for two buffers.  It lies inside the one that is  *)
(* being written, and the fixed buffer holds the bytes right after those   *)
(* delivered: a cursor left over from one buffer is never used in another. *)
CursorSound ==
  /\ IF buf # << >> THEN sendLen < Len(buf)
     ELSE IF replies # << >> THEN sendLen < Len(replies[1])
     ELSE sendLen = 0
  /\ Len(buf) <= BufSize
  /\ \A i \in 1..Len(buf) : buf[i] = Len(delivered) - sendLen + i

(* The chunks of the list continue the fixed buffer and one another, up to *)
(* the last byte accepted, and replyBytes counts exactly the bytes in them *)
(* (partly written ones included): addReplyToReplyList against             *)
(* replyPopFront.                                                          *)
ListSound ==
  /\ replyBytes = accepted - Base
  /\ (replies = << >>) => (Base = accepted)
  /\ (replies # << >>) =>
       /\ replies[1][1] = Base + 1
       /\ replies[Len(replies)][Len(replies[Len(replies)])] = accepted
  /\ \A k \in 1..Len(replies) : \A i \in 1..Len(replies[k]) :
       /\ replies[k][i] = replies[k][1] + i - 1
       /\ replies[k][i] <= accepted
  /\ \A k \in 1..(Len(replies) - 1) :
       replies[k + 1][1] = replies[k][Len(replies[k])] + 1

(* No chunk is empty: an empty chunk at the front would make write return  *)
(* 0, which writeToClient takes for an error and closes the connection.    *)
(* None is longer than PROTO_REPLY_CHUNK_BYTES.                            *)
ChunksSound ==
  \A k \in 1..Len(replies) : Len(replies[k]) \in 1..ChunkBytes

(* The fixed buffer, the list and the one cursor together always hold the  *)
(* bytes accepted and not delivered, in order, however replies and writes  *)
(* of any length alternate.                                                *)
BuffersSound == CursorSound /\ ListSound /\ ChunksSound

(* Output that waits on an open connection has exactly one thing that will *)
(* write it: the pending-write list or the ES_WRITABLE event.              *)
OutputScheduled ==
  (pc = "idle" /\ sock = "open" /\ ~hasNoPending) => (handler # (listed > 0))

(* An installed ES_WRITABLE event has something to write: otherwise it     *)
(* fires on every poll, and writeToClient closes the client on whatever    *)
(* errno it finds.                                                         *)
WriterHasWork == (handler /\ pc = "idle" /\ sock = "open") => ~hasNoPending

(* The list holds the client once at most, and CLIENT_PENDING_WRITE says   *)
(* whether it does, although freeClientAsync overwrites all the flags; a   *)
(* client that was unlinked is no longer listed.                           *)
ListedAsFlagged ==
  /\ listed <= 1
  /\ (pc = "idle" /\ sock # "none") => (listed = 1 <=> "PENDING_WRITE" \in flags)
  /\ sock = "none" => listed = 0

(* Waiting output has exactly one writer, a writer has output, and the     *)
(* flag says which one it is, whatever closes or errors come between.      *)
WriterScheduled == OutputScheduled /\ WriterHasWork /\ ListedAsFlagged

(* Only an error closes the socket while accepted bytes are undelivered:   *)
(* CLIENT_CLOSE_AFTER_REPLY waits for the whole reply.                     *)
CloseLosesNothing ==
  [][ (sock = "open" /\ sock' = "closed" /\ result' # "error")
        => Len(delivered) = accepted ]_vars

(* FlyClient.cpp:280 says that the client is deleted if writing failed.    *)
(* Closed with nothing to write and without CLOSE_AFTER_REPLY, it was not. *)
ClosedOnlyOnWriteError ==
  [][ (sock = "open" /\ sock' = "closed" /\ "CLOSE_AFTER_REPLY" \notin flags)
        => ~hasNoPending ]_vars

(* Every accepted byte reaches the socket of a peer that keeps reading,    *)
(* unless the connection ends or the process crashes.                      *)
EverythingDelivered ==
  \A k \in 1..MaxBytes :
    (accepted >= k) ~> (Len(delivered) >= k \/ sock # "open" \/ pc = "crashed")

(* After a protocol error the connection is closed, also when its reply    *)
(* was dropped or empty, and a connection marked for closing is freed,     *)
(* unless the process crashes.                                             *)
ErrorClosesClient ==
  ("CLOSE_AFTER_REPLY" \in flags) ~> (sock = "none" \/ pc = "crashed")

(* The output path implements the abstract byte stream. *)
Stream == INSTANCE ReplyStream WITH open <- (sock = "open")

ImplementsStream == Stream!SSpec
=============================================================================
