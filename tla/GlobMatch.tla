------------------------------- MODULE GlobMatch -------------------------------
(***************************************************************************)
(* MiscTool::stringmatch (utils/MiscTool.h): does a name match a pattern?  *)
(* A message goes to the clients of each pattern that matches its channel, *)
(* and the masters that a pattern matches are reset.  Both callers tell    *)
(* upper from lower case, so nocase is left out.  A character is its code, *)
(* and behind a pattern the code reads the 0 that ends it.                 *)
(*                                                                         *)
(* A pattern is composed here of elements, and written out as the text     *)
(* that the code reads.  What it means is said of the elements.            *)
(***************************************************************************)
EXTENDS Integers, Sequences, SequencesExt, FiniteSetsExt

CONSTANTS
  GlobElements,   \* records: any character, many of them, one that stands for itself,
                  \* bare or escaped, or a class of characters
  GlobNames,      \* sequences of characters
  MaxElements     \* bound: elements of a pattern

Question  == 63
Star      == 42
Open      == 91
Close     == 93
Caret     == 94
Dash      == 45
Backslash == 92

(* An item of a class is a character, one behind a backslash, or two with  *)
(* a dash in between.  A class that is not closed ends with the pattern,   *)
(* and with it a dash or a backslash that is the last character.           *)
IsItem(items, q, closed) ==
  LET item == items[q]
      last == q = Len(items)
  IN \/ /\ Len(item) = 1 /\ item[1] # Close /\ (item[1] = Backslash => last /\ ~closed)
        /\ \/ last \/ items[q + 1][1] # Dash
           \/ ~closed /\ q + 1 = Len(items) /\ Len(items[q + 1]) = 1
     \/ Len(item) = 2 /\ item[1] = Backslash
     \/ Len(item) = 3 /\ item[1] \notin {Backslash, Close} /\ item[2] = Dash

IsClass(e) ==
  /\ e.negated \in BOOLEAN /\ e.closed \in BOOLEAN /\ e.items \in Seq(Seq(Int))
  /\ \A q \in DOMAIN e.items : IsItem(e.items, q, e.closed)
  /\ e.negated \/ e.items = << >> \/ e.items[1][1] # Caret

IsElement(e) ==
  \/ e.kind \in {"star", "any"}
  \/ e.kind = "char" /\ e.char \in Int \ {Star, Question, Open}
  \/ e.kind = "escaped" /\ e.char \in Int
  \/ e.kind = "class" /\ IsClass(e)

(* Nothing can stand behind it.                                            *)
EndsPattern(e) == (e.kind = "char" /\ e.char = Backslash) \/ (e.kind = "class" /\ ~e.closed)

ASSUME GlobAssumption ==
  /\ \A e \in GlobElements : IsElement(e)
  /\ GlobNames \subseteq Seq(Int) /\ MaxElements \in Nat

VARIABLES
  elements,   \* of the pattern
  name,
  matched     \* the answer for the name

globVars == <<elements, name, matched>>

ClassText(e) ==
  (IF e.negated THEN <<Open, Caret>> ELSE <<Open>>) \o FlattenSeq(e.items)
  \o (IF e.closed THEN <<Close>> ELSE << >>)
ElementText(e) ==
  IF e.kind = "star" THEN <<Star>>
  ELSE IF e.kind = "any" THEN <<Question>>
  ELSE IF e.kind = "char" THEN <<e.char>>
  ELSE IF e.kind = "escaped" THEN <<Backslash, e.char>>
  ELSE ClassText(e)
Text(els) == FlattenSeq([k \in DOMAIN els |-> ElementText(els[k])])

GlobInit == elements = << >> /\ name = << >> /\ matched = TRUE
-----------------------------------------------------------------------------
CharAt(p, i)    == IF i \in DOMAIN p THEN p[i] ELSE 0
CharsLeft(p, i) == Len(p) - i + 1

(* c in the characters between two, in whichever order they stand.         *)
Between(c, start, end) == Min({start, end}) <= c /\ c <= Max({start, end})

(* The loop over a class of characters for the character c: whether one of *)
(* them is c, and the place where the loop ends, on its bracket or, when   *)
(* there is none, on the last character.                                   *)
ClassFrom(class, p, c, i) ==
  LET Either(hit, rest) == [hit |-> hit \/ rest.hit, end |-> rest.end]
  IN IF CharAt(p, i) = Backslash /\ CharsLeft(p, i) >= 2 THEN Either(CharAt(p, i + 1) = c, class[i + 2])
     ELSE IF CharAt(p, i) = Close THEN [hit |-> FALSE, end |-> i]
     ELSE IF CharsLeft(p, i) = 0 THEN [hit |-> FALSE, end |-> i - 1]
     ELSE IF CharAt(p, i + 1) = Dash /\ CharsLeft(p, i) >= 3
     THEN Either(Between(c, CharAt(p, i), CharAt(p, i + 2)), class[i + 3])
     ELSE Either(CharAt(p, i) = c, class[i + 1])
Class(p, from, c) ==
  LET class[i \in from..(Len(p) + 1)] == ClassFrom(class, p, c, i) IN class[from]

(* A star tries every rest of the name but the empty one, after a run of   *)
(* stars that counts as one. Mutant: it takes one character at least.      *)
OrMore(j, len)   == (j + 1)..len
AnyRest(j, len)  == j..len

LastStar(p, i) == Max({k \in i..Len(p) : \A l \in i..k : p[l] = Star})

(* What is left of a pattern when the name has ended.                      *)
OnlyStars(p, from) == \A k \in from..Len(p) : p[k] = Star

(* The match of the pattern from i on with the name from j on.             *)
MatchFrom(match, p, s, i, j) ==
  LET rest(k) == IF j = Len(s) THEN OnlyStars(p, k) ELSE match[k][j + 1]
      negated == CharAt(p, i + 1) = Caret
      class   == Class(p, IF negated THEN i + 2 ELSE i + 1, s[j])
  IN IF i > Len(p) \/ j > Len(s) THEN i > Len(p) /\ j > Len(s)
     ELSE IF p[i] = Star
     THEN LET last == LastStar(p, i)
          IN last = Len(p) \/ \E k \in AnyRest(j, Len(s)) : match[last + 1][k]
     ELSE IF p[i] = Question THEN rest(i + 1)
     ELSE IF p[i] = Open THEN (class.hit <=> ~negated) /\ rest(class.end + 1)
     ELSE IF p[i] = Backslash /\ i < Len(p) THEN p[i + 1] = s[j] /\ rest(i + 2)
     ELSE p[i] = s[j] /\ rest(i + 1)
stringmatchlen(p, s) ==
  LET match[i \in 1..(Len(p) + 1)] ==
        [j \in 1..(Len(s) + 1) |-> MatchFrom(match, p, s, i, j)]
  IN match[1][1]
-----------------------------------------------------------------------------
(* From outside: a pattern is made longer, or another one is begun.        *)
Compose ==
  /\ \/ /\ Len(elements) < MaxElements /\ \A k \in DOMAIN elements : ~EndsPattern(elements[k])
        /\ \E e \in GlobElements : elements' = Append(elements, e)
     \/ elements' = << >>
  /\ name' = << >> /\ matched' = stringmatchlen(Text(elements'), << >>)

stringmatch ==
  /\ \E s \in GlobNames : name' = s /\ matched' = stringmatchlen(Text(elements), s)
  /\ UNCHANGED elements

GlobNext == Compose \/ stringmatch

GlobSpec == GlobInit /\ [][GlobNext]_globVars
-----------------------------------------------------------------------------
(* The characters that an element stands for.                              *)
ItemTakes(item, c) ==
  IF Len(item) = 3 THEN c \in item[1]..item[3] \cup item[3]..item[1] ELSE c = item[Len(item)]
Takes(e, c) ==
  IF e.kind \in {"star", "any"} THEN TRUE
  ELSE IF e.kind \in {"char", "escaped"} THEN c = e.char
  ELSE e.negated <=> ~\E q \in DOMAIN e.items : ItemTakes(e.items[q], c)

(* Ways to divide a name among the elements: how far each of them leads.   *)
Divisions(els, s) ==
  {to \in [DOMAIN els -> 0..Len(s)] :
     \A k \in DOMAIN els :
       LET from == IF k = 1 THEN 0 ELSE to[k - 1]
       IN /\ IF els[k].kind = "star" THEN from <= to[k] ELSE to[k] = from + 1
          /\ \A j \in (from + 1)..to[k] : Takes(els[k], s[j])}

Means(els, s) ==
  IF els = << >> THEN s = << >> ELSE \E to \in Divisions(els, s) : to[Len(els)] = Len(s)

(* With its counters, early ends and recursion the code finds the names    *)
(* that can be divided among the elements of the pattern, and no others,   *)
(* also after runs of stars, for ranges that stand backwards and for a     *)
(* class that is never closed.  Only an empty name is another matter: the  *)
(* loop is not entered, and no pattern but the empty one matches it.       *)
MatchesMeaning ==
  matched = IF name = << >> THEN elements = << >> ELSE Means(elements, name)

GlobTypeOK ==
  /\ elements \in Seq(GlobElements) /\ name \in GlobNames \cup {<< >>}
  /\ matched \in BOOLEAN
=============================================================================
