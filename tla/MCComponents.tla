----------------------------- MODULE MCComponents -----------------------------
(***************************************************************************)
(* The components that have no run of their own, one at a time: the first  *)
(* state chooses which one moves, and the others keep a first state.       *)
(***************************************************************************)
EXTENDS EventLoop, SentinelView, PubSub, InstanceLink, Tilt, InstanceInfo,
        RequestParser, SkipList, DictScan, MCDict, Sockets, SyncIO, GlobMatch, TLC

CONSTANTS n1, n2, sub, uns, psub, puns

VARIABLE component

MCListening == {0}

MCFits == {<<n1, n1>>}
MCCommandName ==
  [ping |-> n1, subscribe |-> sub, unsubscribe |-> uns, psubscribe |-> psub,
   punsubscribe |-> puns, publish |-> n1, role |-> n1]

(* Arguments with a carriage return and a line feed at their ends, or both *)
(* of them; then what is wrong with a header, a payload or a line.         *)
MCByte    == <<"byte", 1>>
MCBulks   == {<<<<MCByte>>, << >>>>, <<<<MCByte, CR>>, <<LF>>>>, <<<<CR, LF>>>>}
MCInlines == {<<<<MCByte>>, <<MCByte, MCByte>>>>}
MCGarbage ==
  {<<<<"*", n>>, CR, LF>> : n \in {-1, 0, 9}}
  \cup {<<Space, CR, LF>>, [i \in 1..9 |-> MCByte],
        <<<<"*", 1>>, CR, LF, MCByte, MCByte>>,
        <<<<"*", 1>>, CR, LF, <<"$", NotANumber>>, CR, LF, CR, LF, CR, LF>>}

MCTables == ({20, 40, 80} \X {0}) \cup {<<40, 20>>}

(* Patterns with a star in the names as well; the ends are a class that is *)
(* not closed, also in the middle of a range, and a backslash.             *)
MCChars == {Star, 97, 98}
MCClass(negated, items, closed) ==
  [kind |-> "class", negated |-> negated, items |-> items, closed |-> closed]
MCElements ==
  {[kind |-> "star"], [kind |-> "any"], [kind |-> "char", char |-> 97],
   [kind |-> "escaped", char |-> Star], [kind |-> "char", char |-> Backslash],
   MCClass(TRUE, <<<<97>>>>, TRUE), MCClass(FALSE, <<<<98, Dash, 97>>>>, TRUE),
   MCClass(FALSE, <<<<Backslash, Star>>, <<98>>>>, TRUE), MCClass(FALSE, <<<<97>>>>, FALSE),
   MCClass(FALSE, << >>, FALSE), MCClass(FALSE, <<<<97>>, <<Dash>>>>, FALSE)}
MCNames == UNION {[1..n -> MCChars] : n \in 0..3}

MCInit ==
  /\ component \in {"loop", "view", "pubsub", "link", "tilt", "info",
                    "parser", "list", "scan", "dict", "sockets", "sync", "glob"}
  /\ EventLoopInit /\ SentinelViewInit /\ PubSubInit /\ InstanceLinkInit
  /\ TiltInit /\ (component = "tilt" \/ time = 0)
  /\ InstanceInfoInit /\ (component = "info" \/ quorum = 1)
  /\ RequestParserInit /\ SkipListInit
  /\ DictScanInit /\ (component = "scan" \/ sizes = <<20, 0>>)
  /\ Init
  /\ SocketsInit /\ (component = "sockets" \/ anyAddr)
  /\ SyncInit /\ GlobInit

MCNext ==
  /\ UNCHANGED component
  /\ \/ component = "loop" /\ EventLoopNext
     \/ component # "loop" /\ UNCHANGED eventLoopVars
  /\ \/ component = "view" /\ SentinelViewNext
     \/ component # "view" /\ UNCHANGED sentinelVars
  /\ \/ component = "pubsub" /\ PubSubNext
     \/ component # "pubsub" /\ UNCHANGED pubSubVars
  /\ \/ component = "link" /\ InstanceLinkNext
     \/ component # "link" /\ UNCHANGED linkVars
  /\ \/ component = "tilt" /\ TiltNext
     \/ component # "tilt" /\ UNCHANGED tiltVars
  /\ \/ component = "info" /\ InstanceInfoNext
     \/ component # "info" /\ UNCHANGED infoVars
  /\ \/ component = "parser" /\ RequestParserNext
     \/ component # "parser" /\ UNCHANGED parserVars
  /\ \/ component = "list" /\ SkipListNext
     \/ component # "list" /\ UNCHANGED skipVars
  /\ \/ component = "scan" /\ DictScanNext
     \/ component # "scan" /\ UNCHANGED scanVars
  /\ \/ component = "dict" /\ Next
     \/ component # "dict" /\ UNCHANGED vars
  /\ \/ component = "sockets" /\ SocketsNext
     \/ component # "sockets" /\ UNCHANGED socketVars
  /\ \/ component = "sync" /\ SyncNext
     \/ component # "sync" /\ UNCHANGED syncVars
  /\ \/ component = "glob" /\ GlobNext
     \/ component # "glob" /\ UNCHANGED globVars

MCSpec ==
  /\ MCInit
  /\ [][MCNext]_<<component, eventLoopVars, sentinelVars, pubSubVars, linkVars, tiltVars,
                  infoVars, parserVars, skipVars, scanVars, vars, socketVars, syncVars, globVars>>

(* Every variable of every component keeps its type; the values the code   *)
(* indexes and counts with keep their ranges.                              *)
ComponentsTypeOK ==
  /\ EventLoopTypeOK /\ SentinelViewTypeOK /\ PubSubTypeOK /\ InstanceLinkTypeOK
  /\ TiltTypeOK /\ InstanceInfoTypeOK /\ RequestParserTypeOK
  /\ SkipListTypeOK /\ DictScanTypeOK /\ TypeOK /\ SocketsTypeOK
  /\ SyncTypeOK /\ GlobTypeOK
=============================================================================
