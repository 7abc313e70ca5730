------------------------------- MODULE SkipList -------------------------------
(***************************************************************************)
(* The skip list (datastructure/skiplist/SkipList.cpp), a template that    *)
(* nothing instantiates: nodes with a tower of pointers, each with a span, *)
(* the number of nodes that it passes over.  A list is a record of what    *)
(* its nodes hold; a node is the number of its creation, the header is 0.  *)
(* Levels are counted from 1 here.  A span behind which no node comes may  *)
(* be below 0, where the code's unsigned one wraps.  The range deletions   *)
(* are left out: they free nodes that the upper levels still point to.     *)
(***************************************************************************)
EXTENDS Integers, FiniteSets, Sequences

CONSTANTS
  SKIP_LIST_MAX_LEVEL,
  Scores,     \* integers
  Objs,       \* integers: what a node holds, and its order
  MaxNodes    \* bound: insertions

ASSUME SkipListAssumption ==
  /\ SKIP_LIST_MAX_LEVEL \in Nat \ {0} /\ MaxNodes \in Nat
  /\ Scores \subseteq Int /\ Objs \subseteq Int

VARIABLES
  list,      \* score, obj, previous and, for each level, next and span of the
             \* nodes; tailer, level, length and the number of nodes created
  past       \* history: "inserts" only, "deletes" as well, or a delete in a list
             \* of different scores or of a node that is not there: "misled"

skipVars == <<list, past>>

Towers == 1..SKIP_LIST_MAX_LEVEL
Nodes  == 0..MaxNodes
Header == 0
NullNode == -1

SkipListInit ==
  /\ list = [score |-> [n \in Nodes |-> 0], obj |-> [n \in Nodes |-> 0],
             previous |-> [n \in Nodes |-> NullNode],
             next |-> [n \in Nodes |-> [l \in Towers |-> NullNode]],
             span |-> [n \in Nodes |-> [l \in Towers |-> 0]],
             tailer |-> Header, level |-> 1, length |-> 0, created |-> 0]
  /\ past = "inserts"
-----------------------------------------------------------------------------
(* The node where a loop ends that starts at node n of level l and goes on *)
(* while the next one is of a set, and the spans that it has passed.       *)
Reached(s, l, n, passed) ==
  LET f[m \in Nodes] == LET next == s.next[m][l] IN IF next \in passed THEN f[next] ELSE m
  IN f[n]
Passed(s, l, n, passed) ==
  LET f[m \in Nodes] ==
        LET next == s.next[m][l] IN IF next \in passed THEN s.span[m][l] + f[next] ELSE 0
  IN f[n]

(* forwards and rank of insertNode, from the top level down.               *)
Smaller(s, score, obj) ==
  {n \in 1..s.created : s.score[n] < score \/ (s.score[n] = score /\ s.obj[n] < obj)}

Forwards(s, top, passed) ==
  LET f[l \in Towers] == Reached(s, l, IF l >= top THEN Header ELSE f[l + 1], passed)
  IN f
Ranks(s, top, passed) ==
  LET f == Forwards(s, top, passed)
      r[l \in Towers] == IF l >= top THEN Passed(s, l, Header, passed)
                         ELSE r[l + 1] + Passed(s, l, f[l + 1], passed)
  IN r

(* The span of the node before the new one. Mutant: without the new one.   *)
SpanWithout(rank, l) == rank[1] - rank[l]
SpanBefore(rank, l)  == rank[1] - rank[l] + 1

(* insertNode with a level that randomLevel has drawn.                     *)
WithNode(s, score, obj, drawn) ==
  LET n     == s.created + 1
      top   == IF drawn > s.level THEN drawn ELSE s.level
      small == Smaller(s, score, obj)
      f     == [l \in Towers |-> IF l > s.level THEN Header ELSE Forwards(s, top, small)[l]]
      rank  == [l \in Towers |-> IF l > s.level THEN 0 ELSE Ranks(s, top, small)[l]]
      old(l)   == IF l > s.level THEN rank[1] ELSE s.span[f[l]][l]
      after    == s.next[f[1]][1]
  IN [s EXCEPT
       !.score[n] = score, !.obj[n] = obj,
       !.previous = [m \in Nodes |-> IF m = n THEN (IF f[1] = Header THEN NullNode ELSE f[1])
                                     ELSE IF m = after THEN n ELSE @[m]],
       !.next = [m \in Nodes |-> [l \in Towers |->
                   IF l > drawn THEN @[m][l]
                   ELSE IF m = n THEN s.next[f[l]][l] ELSE IF m = f[l] THEN n ELSE @[m][l]]],
       !.span = [m \in Nodes |-> [l \in Towers |->
                   IF l <= drawn
                   THEN IF m = n THEN old(l) - (rank[1] - rank[l])
                        ELSE IF m = f[l] THEN SpanBefore(rank, l) ELSE @[m][l]
                   ELSE IF l <= s.level /\ m = f[l] /\ s.next[m][l] # NullNode
                        THEN @[m][l] + 1 ELSE @[m][l]]],
       !.tailer = IF after = NullNode THEN n ELSE @,
       !.level = top, !.length = @ + 1, !.created = n]

(* deleteNode of a score and an object. A level is searched for the first  *)
(* node with neither a smaller score nor a smaller object, and what stands *)
(* there is taken out of the level, also where that is another node than   *)
(* in the bottom one; the levels above an empty place are left alone.      *)
WithoutNode(s, score, obj) ==
  LET passed == {n \in 1..s.created : s.score[n] < score \/ s.obj[n] < obj}
      f    == [l \in Towers |-> Reached(s, l, Header, passed)]
      found(l) == s.next[f[l]][l]
      done == {l \in 1..s.level : \A k \in 1..l : found(k) # NullNode}
      node == found(1)
      last == s.next[node][1]
  IN IF \/ node = NullNode
        \/ s.score[node] # score /\ s.obj[node] < obj
     THEN s
     ELSE [s EXCEPT
            !.tailer = IF last = NullNode THEN f[1] ELSE @,
            !.previous = [m \in Nodes |-> IF m = last THEN f[1] ELSE @[m]],
            !.next = [m \in Nodes |-> [l \in Towers |->
                        IF l \in done /\ m = f[l] THEN s.next[found(l)][l] ELSE @[m][l]]],
            !.span = [m \in Nodes |-> [l \in Towers |->
                        IF l \in done /\ m = f[l]
                        THEN @[m][l] + s.span[found(l)][l] - 1 ELSE @[m][l]]],
            !.level = @ - Cardinality({l \in done : /\ f[l] = Header
                                                    /\ s.next[found(l)][l] = NullNode}),
            !.length = @ - 1]

(* The nodes from the header on, in order.                                 *)
InOrder(s) ==
  LET f[n \in {NullNode} \cup Nodes] == IF n = NullNode THEN << >> ELSE <<n>> \o f[s.next[n][1]]
  IN f[s.next[Header][1]]

(* The nodes of a level, with the header.                                  *)
Linked(s, l) ==
  LET f[n \in {NullNode} \cup Nodes] == IF n = NullNode THEN {} ELSE {n} \cup f[s.next[n][l]]
  IN f[Header]

Contents(s) == {InOrder(s)[i] : i \in DOMAIN InOrder(s)}

insertNode ==
  /\ list.created < MaxNodes
  /\ \E score \in Scores, obj \in Objs, drawn \in Towers :
       list' = WithNode(list, score, obj, drawn)
  /\ UNCHANGED past

(* The misled search may also run through freed or unlinked nodes: what    *)
(* follows is not looked at.                                               *)
deleteNode ==
  /\ \E score \in Scores, obj \in Objs :
       /\ list' = WithoutNode(list, score, obj)
       /\ past' = IF /\ \E n \in Contents(list) : list.obj[n] = obj
                    /\ \A n \in Contents(list) : list.score[n] = score
                  THEN "deletes" ELSE "misled"

SkipListNext == past # "misled" /\ (insertNode \/ deleteNode)

SkipListSpec == SkipListInit /\ [][SkipListNext]_skipVars
-----------------------------------------------------------------------------
(* getNodeByRank, where a span with no node behind it counts as well.      *)
getNodeByRank(s, rank) ==
  LET walk[l \in 0..SKIP_LIST_MAX_LEVEL] ==
        IF l = 0 THEN [m \in Nodes |-> [r \in Nat |-> NullNode]]
        ELSE LET from[m \in Nodes] ==
                   [r \in Nat |->
                      IF s.next[m][l] # NullNode /\ s.span[m][l] < r
                      THEN from[s.next[m][l]][r - s.span[m][l]]
                      ELSE IF s.span[m][l] = r THEN s.next[m][l] ELSE walk[l - 1][m][r]]
             IN from
  IN walk[s.level][Header][rank]

(* firstInRange of the scores from min on, to max.                         *)
firstInRange(s, min, max) ==
  LET below == {n \in 1..s.created : s.score[n] < min}
      prev  == Forwards(s, s.level, below)
      hit(l) == /\ s.next[prev[l]][l] # NullNode /\ s.score[s.next[prev[l]][l]] \in min..max
                /\ s.span[prev[l]][l] = 1
      hits  == {l \in 1..s.level : hit(l)}
  IN IF hits = {} THEN NullNode
     ELSE LET top == CHOOSE l \in hits : \A k \in hits : k <= l IN s.next[prev[top]][top]

SkipListTypeOK ==
  /\ list.score \in [Nodes -> Int] /\ list.obj \in [Nodes -> Int]
  /\ list.previous \in [Nodes -> Nodes \cup {NullNode}]
  /\ list.next \in [Nodes -> [Towers -> Nodes \cup {NullNode}]]
  /\ list.span \in [Nodes -> [Towers -> Int]]
  /\ list.tailer \in Nodes /\ list.level \in Nat /\ list.length \in Int
  /\ list.created \in Nodes /\ past \in {"inserts", "deletes", "misled"}

(* After any insertions, with towers of any heights, and deletions of      *)
(* nodes that are there from a list of one score, the list is in order,    *)
(* each link passes over as many nodes as its span says, also in a level   *)
(* from which a deletion took another node than its own, and the tail is   *)
(* the last node.  A rank leads to the node of that rank, or, after a      *)
(* deletion, nowhere; and the first node of a range is found.              *)
RanksRight ==
  past # "misled" =>
    LET order    == InOrder(list)
        place(n) == IF n = Header THEN 0 ELSE CHOOSE i \in DOMAIN order : order[i] = n
        inRange(min, max) == {i \in DOMAIN order : list.score[order[i]] \in min..max}
    IN /\ \A i \in 1..(Len(order) - 1) :
            \/ list.score[order[i]] < list.score[order[i + 1]]
            \/ /\ list.score[order[i]] = list.score[order[i + 1]]
               /\ list.obj[order[i]] <= list.obj[order[i + 1]]
       /\ list.length = Len(order)
       /\ list.tailer = IF order = << >> THEN Header ELSE order[Len(order)]
       /\ \A n \in Contents(list) \cup {Header}, l \in 1..list.level :
            n \in Linked(list, l) /\ list.next[n][l] # NullNode =>
              /\ list.next[n][l] \in Contents(list)
              /\ list.span[n][l] = place(list.next[n][l]) - place(n)
       /\ \A i \in DOMAIN order :
            \/ getNodeByRank(list, i) = order[i]
            \/ past = "deletes" /\ getNodeByRank(list, i) = NullNode
       /\ \A min, max \in Scores :
            firstInRange(list, min, max) =
              IF inRange(min, max) = {} THEN NullNode
              ELSE order[CHOOSE i \in inRange(min, max) : \A j \in inRange(min, max) : i <= j]
=============================================================================
