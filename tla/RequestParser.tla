---------------------------- MODULE RequestParser ----------------------------
(***************************************************************************)
(* How the bytes of a client become the argv of a command                  *)
(* (flyclient/FlyClient.cpp 67-85, 203-486, 776-816, dealWithCommand of    *)
(* flysentinel/FlySentinel.cpp).  A client sends requests one after        *)
(* another, without waiting, in RESP or as an inline line, and the network *)
(* cuts them anywhere.  A byte is a symbol, and so is the number after     *)
(* '*' or '$' together with that sign: a part of it parses as no line end. *)
(*                                                                         *)
(* Reading and the end of a connection are in ClientTable.  The read       *)
(* handler drops what it has read instead of calling addToQueryBuf; both   *)
(* are actions here.  processInputBuffer and analyseMultiBulk end without  *)
(* a return: the caller goes on, or the process crashes.  After a protocol *)
(* error nothing more is read: the client goes when it has its reply.      *)
(***************************************************************************)
EXTENDS Integers, FiniteSets, Sequences, SequencesExt

CONSTANTS
  BulkRequests,    \* the argv of requests in RESP; an argument is a sequence of symbols
  InlineRequests,  \* the argv of requests in a line, words that a line can hold
  Garbage,         \* other input, as symbols
  MaxRequests,     \* bound: requests and garbage that a client sends
  PROTO_REQ_MULTIBULK_MAX_LEN,
  PROTO_REQ_BULK_MAX_LEN,
  PROTO_INLINE_MAX_SIZE

CR    == <<"CR", 0>>
LF    == <<"LF", 0>>
Space == <<"space", 0>>
NotANumber == -2
Symbols == {CR, LF, Space} \cup ({"*", "$", "byte"} \X Int)

IsWord(word) ==
  /\ word # << >> /\ \A p \in DOMAIN word : word[p] # Space
  /\ \A p \in 1..(Len(word) - 1) : ~(word[p] = CR /\ word[p + 1] = LF)

ASSUME RequestParserAssumption ==
  /\ BulkRequests \subseteq Seq(Seq(Symbols)) \ {<< >>}
  /\ InlineRequests \subseteq Seq(Seq(Symbols)) \ {<< >>}
  /\ \A words \in InlineRequests :
       words[1][1][1] # "*" /\ \A i \in DOMAIN words : IsWord(words[i])
  /\ Garbage \subseteq Seq(Symbols)
  /\ MaxRequests \in Nat
  /\ PROTO_REQ_MULTIBULK_MAX_LEN \in Nat /\ PROTO_REQ_BULK_MAX_LEN \in Nat
  /\ PROTO_INLINE_MAX_SIZE \in Nat

VARIABLES
  queryBuf,
  argv,          \* its first argc objects
  allocated,     \* argv is not null
  multiBulkLen,
  isMultiBulk,   \* reqType is PROTO_REQ_MULTIBULK
  closing,       \* CLIENT_CLOSE_AFTER_REPLY
  sent,          \* the symbols that the client has sent
  got,           \* how many of them have come
  requests,      \* history: the argv of each request sent, and where it ends
  executed,      \* history: the argv of each command that was run
  sane,          \* history: the client sends no garbage
  parser         \* "idle", "parse", "bulks" or "crashed"

parserVars == <<queryBuf, argv, allocated, multiBulkLen, isMultiBulk, closing, sent, got,
                requests, executed, sane, parser>>

(* What a client sends for a request: an array of bulk strings, or words   *)
(* with a space between them.                                              *)
Bulk(arg)      == <<<<"$", Len(arg)>>, CR, LF>> \o arg \o <<CR, LF>>
InBulks(args)  == <<<<"*", Len(args)>>, CR, LF>> \o FlattenSeq([i \in DOMAIN args |-> Bulk(args[i])])
InLine(args)   ==
  FlattenSeq([i \in DOMAIN args |-> IF i = 1 THEN args[i] ELSE <<Space>> \o args[i]]) \o <<CR, LF>>

RequestParserInit ==
  /\ queryBuf = << >> /\ argv = << >> /\ allocated = FALSE
  /\ multiBulkLen = 0 /\ isMultiBulk = FALSE /\ closing = FALSE
  /\ sent = << >> /\ got = 0 /\ requests = << >> /\ executed = << >> /\ sane = TRUE
  /\ parser = "idle"
-----------------------------------------------------------------------------
(* find("\r\n", from): the place of the first line end, or 0.              *)
LineEnd(buf, from) ==
  LET ends == {p \in from..(Len(buf) - 1) : buf[p] = CR /\ buf[p + 1] = LF}
  IN IF ends = {} THEN 0 ELSE CHOOSE p \in ends : \A q \in ends : p <= q

(* string2int64 of a line without its first sign.                          *)
Number(line) == IF Len(line) = 1 THEN line[1][2] ELSE NotANumber

(* A length of a multi bulk that is refused. Mutant: any number goes.      *)
Unlimited(n)   == n = NotANumber
BadLength(n)   == n = NotANumber \/ n > PROTO_REQ_MULTIBULK_MAX_LEN

(* trimQueryBuf: substr() throws for a begin behind the end.               *)
From(buf, p) == SubSeq(buf, p, Len(buf))

(* setProtocolError after an answer, for the place of a line end, where    *)
(* pos + 2 is the second symbol behind it, or for the first symbol.        *)
setProtocolError(buf, p) ==
  /\ closing' = TRUE /\ queryBuf' = From(buf, p + 2)
  /\ parser' = IF p + 1 > Len(buf) THEN "crashed" ELSE "idle"

(* A header without a line end waits for more, unless it is too long.      *)
WaitForLine ==
  IF Len(queryBuf) > PROTO_INLINE_MAX_SIZE
  THEN setProtocolError(queryBuf, 1)
  ELSE parser' = "idle" /\ UNCHANGED <<queryBuf, closing>>

(* allocArgv(count) after freeArgv. Mutant: argc is not reset.             *)
KeptArgv  == argv' = argv /\ allocated' = TRUE
allocArgv == argv' = << >> /\ allocated' = TRUE

sentVars == <<sent, got, requests, sane>>
-----------------------------------------------------------------------------
(* From outside                                                            *)

Sent(bytes, args) ==
  sent' = sent \o bytes /\ requests' = Append(requests, [args |-> args, ends |-> Len(sent')])

SendRequest ==
  /\ Len(requests) < MaxRequests
  /\ \/ \E args \in BulkRequests : Sent(InBulks(args), args) /\ UNCHANGED sane
     \/ \E args \in InlineRequests : Sent(InLine(args), args) /\ UNCHANGED sane
     \/ \E bytes \in Garbage : Sent(bytes, << >>) /\ sane' = FALSE
  /\ parser = "idle"
  /\ UNCHANGED <<queryBuf, argv, allocated, multiBulkLen, isMultiBulk, closing, got, executed, parser>>

(* A piece of what was sent is added with addToQueryBuf.                   *)
Receive ==
  /\ parser = "idle" /\ ~closing
  /\ \E n \in (got + 1)..Len(sent) : queryBuf' = queryBuf \o SubSeq(sent, got + 1, n) /\ got' = n
  /\ parser' = "parse"
  /\ UNCHANGED <<argv, allocated, multiBulkLen, isMultiBulk, closing, sent, requests, executed, sane>>

(* readQueryFromClient adds nothing: with an empty buffer the command of   *)
(* before is run again, which the history leaves out, or a null argv is    *)
(* followed.                                                               *)
ReadQuery ==
  /\ parser = "idle" /\ ~closing
  /\ IF queryBuf # << >> THEN parser' = "parse"
     ELSE IF argv # << >> THEN parser' = "idle" ELSE parser' = "crashed"
  /\ UNCHANGED <<queryBuf, argv, allocated, multiBulkLen, isMultiBulk, closing, executed, sentVars>>
-----------------------------------------------------------------------------
(* processInputBuffer, a round of its loop at a time                       *)

InMultiBulk == Head(queryBuf)[1] = "*" \/ isMultiBulk

(* processInlineBuffer: a line without words is never taken away. Words    *)
(* are what spiltString finds between spaces.                              *)
WordStarts(line) == {p \in DOMAIN line : line[p] # Space /\ (p = 1 \/ line[p - 1] = Space)}
WordAt(line, p) ==
  LET ends == {q \in p..Len(line) : \A k \in p..q : line[k] # Space}
  IN SubSeq(line, p, CHOOSE q \in ends : \A k \in ends : k <= q)
Words(line) ==
  LET starts == WordStarts(line)
      nth(i) == CHOOSE p \in starts : Cardinality({q \in starts : q <= p}) = i
  IN [i \in 1..Cardinality(starts) |-> WordAt(line, nth(i))]

processInlineBuffer ==
  /\ parser = "parse" /\ queryBuf # << >> /\ ~InMultiBulk
  /\ LET eol   == LineEnd(queryBuf, 1)
         words == Words(SubSeq(queryBuf, 1, eol - 1))
     IN IF eol = 0 THEN WaitForLine /\ UNCHANGED <<argv, allocated>>
        ELSE IF words = << >>
        THEN parser' = "idle" /\ UNCHANGED <<queryBuf, closing, argv, allocated>>
        ELSE /\ argv' = words /\ allocated' = TRUE
             /\ queryBuf' = From(queryBuf, eol + 2)
             /\ UNCHANGED <<parser, closing>>
  /\ UNCHANGED <<multiBulkLen, isMultiBulk, executed, sentVars>>

(* analyseMultiBulkLen, when no multi bulk is under way. A negative length *)
(* leaves the argv of before.                                              *)
analyseMultiBulkLen ==
  /\ parser = "parse" /\ queryBuf # << >> /\ InMultiBulk /\ multiBulkLen = 0
  /\ isMultiBulk' = TRUE
  /\ LET eol == LineEnd(queryBuf, 1)
         n   == Number(SubSeq(queryBuf, 1, eol - 1))
     IN IF eol = 0 THEN WaitForLine /\ UNCHANGED <<argv, allocated, multiBulkLen>>
        ELSE IF BadLength(n)
        THEN setProtocolError(queryBuf, eol) /\ UNCHANGED <<argv, allocated, multiBulkLen>>
        ELSE /\ queryBuf' = From(queryBuf, eol + 2) /\ parser' = "bulks"
             /\ IF n < 0 THEN UNCHANGED <<argv, allocated, multiBulkLen>>
                ELSE allocArgv /\ multiBulkLen' = n
             /\ UNCHANGED closing
  /\ UNCHANGED <<executed, sentVars>>

continueMultiBulk ==
  /\ parser = "parse" /\ queryBuf # << >> /\ InMultiBulk /\ multiBulkLen # 0
  /\ parser' = "bulks" /\ isMultiBulk' = TRUE
  /\ UNCHANGED <<queryBuf, argv, allocated, multiBulkLen, closing, executed, sentVars>>

(* analyseBulk. An invalid length is a protocol error, but the rest of the *)
(* function goes on, in the shorter buffer; a length must be the distance  *)
(* to the next line end, so that no argument holds one.                    *)
analyseBulk ==
  /\ parser = "bulks" /\ Len(argv) < multiBulkLen
  /\ LET eol   == LineEnd(queryBuf, 2)
         n     == Number(SubSeq(queryBuf, 1, eol - 1))
         valid == n \in 0..PROTO_REQ_BULK_MAX_LEN
         rest  == IF valid THEN queryBuf ELSE From(queryBuf, eol + 2)
         begin == eol + 2
         end   == LineEnd(rest, begin)
     IN IF queryBuf = << >> THEN parser' = "idle" /\ UNCHANGED <<queryBuf, closing, argv>>
        ELSE IF Head(queryBuf)[1] # "$" THEN setProtocolError(queryBuf, 1) /\ UNCHANGED argv
        ELSE IF eol = 0 THEN WaitForLine /\ UNCHANGED argv
        ELSE IF end = 0
        THEN /\ parser' = "idle" /\ queryBuf' = rest
             /\ closing' = (closing \/ ~valid) /\ UNCHANGED argv
        ELSE IF end - begin # (IF n = NotANumber THEN 0 ELSE n)
        THEN setProtocolError(rest, end) /\ UNCHANGED argv
        ELSE /\ argv' = Append(argv, SubSeq(rest, begin, end - 1))
             /\ queryBuf' = From(rest, end + 2)
             /\ closing' = (closing \/ ~valid) /\ UNCHANGED parser
  /\ UNCHANGED <<allocated, multiBulkLen, isMultiBulk, executed, sentVars>>

(* The end of analyseMultiBulk and of processMultiBulkBuffer.              *)
MultiBulkEnds ==
  /\ parser = "bulks" /\ Len(argv) >= multiBulkLen
  /\ \/ parser' = "parse" /\ multiBulkLen' = 0 /\ isMultiBulk' = FALSE
     \/ parser' = "crashed" /\ UNCHANGED <<multiBulkLen, isMultiBulk>>
  /\ UNCHANGED <<queryBuf, argv, allocated, closing, executed, sentVars>>

(* dealWithCommand, when the buffer is empty. What it does with argv is in *)
(* PubSub; it reads argv[0] also if there is none.                         *)
dealWithCommand ==
  /\ parser = "parse" /\ queryBuf = << >>
  /\ IF argv = << >>
     THEN parser' \in (IF allocated THEN {"idle", "crashed"} ELSE {"crashed"}) /\ UNCHANGED executed
     ELSE parser' \in {"idle", "crashed"} /\ executed' = Append(executed, argv)
  /\ UNCHANGED <<queryBuf, argv, allocated, multiBulkLen, isMultiBulk, closing, sentVars>>

RequestParserNext ==
  \/ SendRequest \/ Receive \/ ReadQuery
  \/ processInlineBuffer \/ analyseMultiBulkLen \/ continueMultiBulk \/ analyseBulk
  \/ MultiBulkEnds \/ dealWithCommand

RequestParserSpec == RequestParserInit /\ [][RequestParserNext]_parserVars
-----------------------------------------------------------------------------
RequestParserTypeOK ==
  /\ queryBuf \in Seq(Symbols) /\ sent \in Seq(Symbols) /\ got \in 0..Len(sent)
  /\ argv \in Seq(Seq(Symbols)) /\ allocated \in BOOLEAN
  /\ multiBulkLen \in 0..PROTO_REQ_MULTIBULK_MAX_LEN
  /\ isMultiBulk \in BOOLEAN /\ closing \in BOOLEAN /\ sane \in BOOLEAN
  /\ requests \in Seq([args : Seq(Seq(Symbols)), ends : Nat])
  /\ executed \in Seq(Seq(Seq(Symbols)))
  /\ parser \in {"idle", "parse", "bulks", "crashed"}

(* Where the first k requests end, and the ways to choose n of them.       *)
Ends(k)      == IF k = 0 THEN 0 ELSE requests[k].ends
Increasing(n, k) == {at \in [1..n -> 1..k] : \A i, j \in 1..n : i < j => at[i] < at[j]}

(* Wherever the network cuts the requests, the commands that are run are   *)
(* requests that were sent, whole, in their order and none of them twice;  *)
(* and when the last byte of a request has come, with nothing after it,    *)
(* that request is the one that was run last.  (Of requests that come in   *)
(* one piece only the last is run: the loop keeps one argv.)               *)
PiecesDoNotMatter ==
  parser = "idle" /\ sane /\ ~closing =>
    \E k \in 0..Len(requests) :
      /\ Ends(k) <= got /\ (k < Len(requests) => got < Ends(k + 1))
      /\ \E at \in Increasing(Len(executed), k) :
           /\ \A i \in DOMAIN executed : executed[i] = requests[at[i]].args
           /\ got = Ends(k) /\ k > 0 =>
                executed # << >> /\ at[Len(executed)] = k /\ queryBuf = << >>
=============================================================================
