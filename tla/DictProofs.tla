------------------------------ MODULE DictProofs ------------------------------
(***************************************************************************)
(* Proofs about Dict.  Good(d) says that the tables of d are sound and     *)
(* that rehashSteps has left nothing behind; every call keeps it.  Apart(d) *)
(* says that no key is in both tables, which holds as long as callers do   *)
(* not insert what the old table still holds.  From the two, no step of a  *)
(* rehash changes the value of a key, and the calls do what KeyMap says.   *)
(*                                                                         *)
(* About DictScan: the slots that a scan has seen are the ones before the  *)
(* cursor in the order of the reversed bits, and each step moves the cursor*)
(* to the next slot of the mask, gaps or not.                              *)
(*                                                                         *)
(* And about SkipList: a list is right when there is a set of nodes for each*)
(* level, nested, such that the links of the level lead through the set in *)
(* the order of the nodes and a span is the distance of two places in the  *)
(* bottom one.  Insertions keep that, deletions as long as the search is   *)
(* not misled, and it is what the searches by rank and by range rest on.   *)
(***************************************************************************)
EXTENDS Dict, DictScan, SkipList, FiniteSetTheorems, TLAPS, WellFoundedInduction

Good(d) == Shape(d) /\ SlotsSound(d.t0) /\ SlotsSound(d.t1) /\ Swept(d)
-----------------------------------------------------------------------------
(* Tables *)

(* The least element of a set of numbers, for the CHOOSE of rehashSteps.   *)
LEMMA LeastExists ==
  ASSUME NEW T \in SUBSET Nat, T # {}
  PROVE  \E x \in T : \A y \in T : x <= y
<1>1. \E x \in T : \A y \in T : ~ (<<y, x>> \in OpToRel(<, Nat))
  BY NatLessThanWellFounded, WFMin
<1>2. ASSUME NEW x \in T, NEW y \in T, ~ (<<y, x>> \in OpToRel(<, Nat))
      PROVE  x <= y
  BY <1>2 DEF OpToRel
<1> QED
  BY <1>1, <1>2

(* A new table has no entries, and the null pointer has no slots.          *)
LEMMA NewTableSound ==
  ASSUME NEW n \in Sizes
  PROVE  IsTable(NewTable(n)) /\ SlotsSound(NewTable(n)) /\ isEmpty(NewTable(n))
BY DictAssumption DEF IsTable, SlotsSound, NewTable, isEmpty

LEMMA NullSound == SlotsSound(NULL) /\ isEmpty(NULL)
BY DEF SlotsSound, NULL, NewTable, isEmpty

(* The chain of a key is one of the table's.                               *)
LEMMA ChainOfKey ==
  ASSUME NEW t, IsTable(t), NEW k \in Keys
  PROVE  /\ t.size \in Nat \ {0}
         /\ Index(k, t.size) \in 0..(t.size - 1)
         /\ Chain(t, k) \in SUBSET Entries
BY DictAssumption DEF IsTable, Chain

(* Insertion keeps a table sound, and adds the one entry or nothing.       *)
LEMMA PutSound ==
  ASSUME NEW t, IsTable(t), SlotsSound(t), NEW k \in Keys, NEW v \in Vals
  PROVE  /\ IsTable(Put(t, k, v)) /\ SlotsSound(Put(t, k, v))
         /\ Put(t, k, v).size = t.size
<1> DEFINE i == Index(k, t.size)
           e == [key |-> k, val |-> v]
           s == [t.slot EXCEPT ![i] = @ \cup {e}]
<1>1. t.size \in Nat \ {0} /\ i \in 0..(t.size - 1) /\ t.slot[i] \in SUBSET Entries
  BY ChainOfKey DEF Chain
<1>2. CASE hasKey(t, k)
  BY <1>2 DEF Put
<1>3. CASE ~hasKey(t, k)
  <2>1. Put(t, k, v) = [size |-> t.size, slot |-> s]
    BY <1>3 DEF Put, IsTable
  <2>2. e \in Entries /\ e.key = k
    BY DEF Entries
  <2>3. s \in [0..(t.size - 1) -> SUBSET Entries]
    BY <1>1, <2>2 DEF IsTable
  <2>4. \A f \in t.slot[i] : f.key # k
    BY <1>3 DEF hasKey, Chain
  <2>5. ASSUME NEW j \in 0..(t.size - 1), NEW f \in s[j]
        PROVE  /\ Index(f.key, t.size) = j
               /\ \A g \in s[j] : f.key = g.key => f = g
    <3>1. s[j] = IF j = i THEN t.slot[i] \cup {e} ELSE t.slot[j]
      BY <1>1 DEF IsTable
    <3> HIDE DEF s, e
    <3>2. CASE j = i
      BY <3>1, <3>2, <2>2, <2>4, <2>5, <1>1 DEF SlotsSound
    <3>3. CASE j # i
      BY <3>1, <3>3, <2>5 DEF SlotsSound
    <3> QED
      BY <3>2, <3>3
  <2> HIDE DEF s
  <2> QED
    BY <2>1, <2>3, <2>5 DEF IsTable, SlotsSound
<1> QED
  BY <1>2, <1>3

(* Deletion keeps a table sound.                                           *)
LEMMA WithoutSound ==
  ASSUME NEW t, IsTable(t), SlotsSound(t), NEW k \in Keys
  PROVE  /\ IsTable(WithoutKey(t, k)) /\ SlotsSound(WithoutKey(t, k))
         /\ WithoutKey(t, k).size = t.size
<1> DEFINE i == Index(k, t.size)
           s == [t.slot EXCEPT ![i] = OthersIn(@, k)]
<1>1. t.size \in Nat \ {0} /\ i \in 0..(t.size - 1) /\ t.slot[i] \in SUBSET Entries
  BY ChainOfKey DEF Chain
<1>2. WithoutKey(t, k) = [size |-> t.size, slot |-> s]
  BY DEF WithoutKey, IsTable
<1>3. s \in [0..(t.size - 1) -> SUBSET Entries]
  BY <1>1 DEF IsTable, OthersIn
<1>4. \A j \in 0..(t.size - 1) : s[j] \subseteq t.slot[j]
  BY <1>1 DEF IsTable, OthersIn
<1> HIDE DEF s
<1> QED
  BY <1>2, <1>3, <1>4 DEF IsTable, SlotsSound

(* Moving a chain into a table keeps it sound.                             *)
LEMMA PutAllSound ==
  ASSUME NEW t, IsTable(t), SlotsSound(t), NEW c \in SUBSET Entries,
         \A e, f \in c : e.key = f.key => e = f
  PROVE  /\ IsTable(PutAll(t, c)) /\ SlotsSound(PutAll(t, c))
         /\ PutAll(t, c).size = t.size
<1> DEFINE moved(j) == {e \in c : SlotIn(e, t) = j /\ ~hasKey(t, e.key)}
           s == [j \in 0..(t.size - 1) |-> t.slot[j] \cup moved(j)]
<1>1. PutAll(t, c) = [size |-> t.size, slot |-> s]
  BY DEF PutAll
<1>2. s \in [0..(t.size - 1) -> SUBSET Entries]
  BY DEF IsTable
<1>3. ASSUME NEW j \in 0..(t.size - 1), NEW f \in s[j]
      PROVE  /\ Index(f.key, t.size) = j
             /\ \A g \in s[j] : f.key = g.key => f = g
  <2>1. s[j] = t.slot[j] \cup moved(j)
    OBVIOUS
  <2>2. ASSUME NEW e \in moved(j)
        PROVE  e \in c /\ Index(e.key, t.size) = j /\ \A g \in t.slot[j] : g.key # e.key
    BY DEF SlotIn, hasKey, Chain
  <2> HIDE DEF s, moved
  <2> QED
    BY <2>1, <2>2, <1>3 DEF SlotsSound
<1> HIDE DEF s
<1> QED
  BY <1>1, <1>2, <1>3 DEF IsTable, SlotsSound
-----------------------------------------------------------------------------
(* Which key has which value *)

In(t, k, v) == [key |-> k, val |-> v] \in Chain(t, k)

Has(d, k, v) == In(d.t0, k, v) \/ (isRehashing(d) /\ In(d.t1, k, v))

Present(d, k) == \E v \in Vals : Has(d, k, v)

Apart(d) == isRehashing(d) => \A k \in Keys : ~(hasKey(d.t0, k) /\ hasKey(d.t1, k))

(* A key is in a table with a value, and with no other.                    *)
LEMMA KeyIn ==
  ASSUME NEW t, IsTable(t), SlotsSound(t), NEW k \in Keys
  PROVE  hasKey(t, k) <=> \E v \in Vals : In(t, k, v)
<1>1. Chain(t, k) \in SUBSET Entries
  BY ChainOfKey
<1>2. ASSUME NEW e \in Chain(t, k), e.key = k
      PROVE  e = [key |-> k, val |-> e.val] /\ e.val \in Vals
  BY <1>1, <1>2 DEF Entries
<1> QED
  BY <1>2 DEF hasKey, In

LEMMA OneValue ==
  ASSUME NEW t, IsTable(t), SlotsSound(t), NEW k \in Keys,
         NEW v \in Vals, NEW w \in Vals, In(t, k, v), In(t, k, w)
  PROVE  v = w
<1> DEFINE e == [key |-> k, val |-> v]
           f == [key |-> k, val |-> w]
<1>1. e \in t.slot[Index(k, t.size)] /\ f \in t.slot[Index(k, t.size)]
  BY DEF In, Chain
<1>2. e.key = f.key
  OBVIOUS
<1>3. e = f
  BY <1>1, <1>2, ChainOfKey DEF SlotsSound
<1> QED
  BY <1>3

LEMMA FoundIn ==
  ASSUME NEW t, IsTable(t), SlotsSound(t), NEW k \in Keys, hasKey(t, k)
  PROVE  findEntry(t, k).val \in Vals /\ In(t, k, findEntry(t, k).val)
<1>1. Chain(t, k) \in SUBSET Entries
  BY ChainOfKey
<1>2. findEntry(t, k) \in Chain(t, k) /\ findEntry(t, k).key = k
  BY DEF hasKey, findEntry
<1> QED
  BY <1>1, <1>2 DEF In, Entries

LEMMA NewTableIn ==
  ASSUME NEW n \in Sizes, NEW k \in Keys, NEW v \in Vals
  PROVE  ~In(NewTable(n), k, v)
<1>1. Index(k, n) \in 0..(n - 1)
  BY DictAssumption
<1> QED
  BY <1>1 DEF In, NewTable, Chain

LEMMA PutIn ==
  ASSUME NEW t, IsTable(t), SlotsSound(t), NEW k \in Keys, NEW v \in Vals, ~hasKey(t, k),
         NEW j \in Keys, NEW w \in Vals
  PROVE  In(Put(t, k, v), j, w) <=> In(t, j, w) \/ (j = k /\ w = v)
<1> DEFINE i == Index(k, t.size)
           e == [key |-> k, val |-> v]
           f == [key |-> j, val |-> w]
           s == [t.slot EXCEPT ![i] = @ \cup {e}]
<1>1. i \in 0..(t.size - 1) /\ Index(j, t.size) \in 0..(t.size - 1)
  BY ChainOfKey
<1>2. Put(t, k, v) = [size |-> t.size, slot |-> s]
  BY DEF Put, IsTable
<1>3. In(Put(t, k, v), j, w) <=> f \in s[Index(j, t.size)]
  BY <1>2 DEF In, Chain
<1>4. f = e <=> j = k /\ w = v
  OBVIOUS
<1>5. f \in s[Index(j, t.size)] <=> f \in t.slot[Index(j, t.size)] \/ (f = e)
  <2>1. CASE Index(j, t.size) = i
    BY <2>1, <1>1 DEF IsTable
  <2>2. CASE Index(j, t.size) # i
    BY <2>2, <1>1, <1>4 DEF IsTable
  <2> QED
    BY <2>1, <2>2
<1> QED
  BY <1>3, <1>4, <1>5 DEF In, Chain

LEMMA WithoutIn ==
  ASSUME NEW t, IsTable(t), SlotsSound(t), NEW k \in Keys,
         NEW j \in Keys, NEW w \in Vals
  PROVE  In(WithoutKey(t, k), j, w) <=> In(t, j, w) /\ j # k
<1> DEFINE i == Index(k, t.size)
           f == [key |-> j, val |-> w]
           s == [t.slot EXCEPT ![i] = OthersIn(@, k)]
<1>1. i \in 0..(t.size - 1) /\ Index(j, t.size) \in 0..(t.size - 1)
  BY ChainOfKey
<1>2. WithoutKey(t, k) = [size |-> t.size, slot |-> s]
  BY DEF WithoutKey, IsTable
<1>3. In(WithoutKey(t, k), j, w) <=> f \in s[Index(j, t.size)]
  BY <1>2 DEF In, Chain
<1>4. f \in s[Index(j, t.size)] <=> f \in t.slot[Index(j, t.size)] /\ j # k
  <2>1. CASE Index(j, t.size) = i
    BY <2>1, <1>1 DEF IsTable, OthersIn
  <2>2. CASE Index(j, t.size) # i
    BY <2>2, <1>1 DEF IsTable
  <2> QED
    BY <2>1, <2>2
<1> QED
  BY <1>3, <1>4 DEF In, Chain

LEMMA PutAllIn ==
  ASSUME NEW t, IsTable(t), SlotsSound(t), NEW c \in SUBSET Entries,
         NEW j \in Keys, NEW w \in Vals
  PROVE  In(PutAll(t, c), j, w) <=>
           In(t, j, w) \/ ([key |-> j, val |-> w] \in c /\ ~hasKey(t, j))
<1> DEFINE f == [key |-> j, val |-> w]
           i == Index(j, t.size)
<1>1. i \in 0..(t.size - 1)
  BY ChainOfKey
<1>2. In(PutAll(t, c), j, w) <=>
        f \in t.slot[i] \cup {e \in c : SlotIn(e, t) = i /\ ~hasKey(t, e.key)}
  BY <1>1 DEF In, Chain, PutAll
<1>3. f.key = j
  OBVIOUS
<1> QED
  BY <1>2, <1>3 DEF In, Chain, SlotIn
-----------------------------------------------------------------------------
(* One step of a rehash *)

Rehashing(d) == Good(d) /\ isRehashing(d)

(* If the old table is empty, the new one is sound and takes its place.    *)
LEMMA FinishedGood ==
  ASSUME NEW d, Rehashing(d)
  PROVE  /\ Good(Finished(d))
         /\ \A k \in Keys : Present(Finished(d), k) <=> Present(d, k)
         /\ Apart(d) => Apart(Finished(d))
         /\ \A k \in Keys, v \in Vals : Has(Finished(d), k, v) <=> Has(d, k, v)
<1>1. CASE ~isEmpty(d.t0)
  BY <1>1 DEF Finished, Rehashing
<1>2. CASE isEmpty(d.t0)
  <2> DEFINE f == [t0 |-> d.t1, t1 |-> NULL, index |-> -1]
  <2>1. Finished(d) = f /\ ~isRehashing(f)
    BY <1>2 DEF Finished, isRehashing
  <2>2. Good(f)
    <3>1. Shape(f) /\ SlotsSound(f.t0)
      BY DEF Rehashing, Good, Shape, isRehashing
    <3>2. SlotsSound(f.t1)
      BY NullSound
    <3>3. Swept(f)
      BY DEF Swept
    <3> QED
      BY <3>1, <3>2, <3>3 DEF Good
  <2>3. ASSUME NEW k \in Keys, NEW v \in Vals
        PROVE  ~In(d.t0, k, v)
    BY <1>2, ChainOfKey DEF In, Chain, isEmpty, Rehashing, Good, Shape
  <2> QED
    BY <2>1, <2>2, <2>3 DEF Has, Present, Apart, Rehashing
<1> QED
  BY <1>1, <1>2

(* The entries of the chain are in the new table instead of the old one.   *)
LEMMA MovedGood ==
  ASSUME NEW d, Rehashing(d), NEW i \in 0..(d.t0.size - 1), IsFirst(d, i)
  PROVE  /\ Rehashing(MovedFrom(d, i))
         /\ \A k \in Keys : Present(MovedFrom(d, i), k) <=> Present(d, k)
         /\ Apart(d) => Apart(MovedFrom(d, i))
         /\ Apart(d) => \A k \in Keys, v \in Vals :
                          Has(MovedFrom(d, i), k, v) <=> Has(d, k, v)
<1> DEFINE c == d.t0.slot[i]
           m == MovedFrom(d, i)
           s == [d.t0.slot EXCEPT ![i] = {}]
<1>1. /\ IsTable(d.t0) /\ SlotsSound(d.t0) /\ IsTable(d.t1) /\ SlotsSound(d.t1)
      /\ d.index \in 0..d.t0.size /\ d.t0.size \in Nat \ {0}
  BY DictAssumption DEF Rehashing, Good, Shape, IsTable
<1>2. c \in SUBSET Entries /\ \A e, f \in c : e.key = f.key => e = f
  BY <1>1 DEF IsTable, SlotsSound
<1>3. /\ m.t0 = [size |-> d.t0.size, slot |-> s]
      /\ m.t1 = PutAll(d.t1, c)
      /\ m.index = i + 1
      /\ m = [t0 |-> m.t0, t1 |-> m.t1, index |-> m.index]
  BY <1>1 DEF MovedFrom, IsTable
<1>4. /\ s \in [0..(d.t0.size - 1) -> SUBSET Entries]
      /\ \A j \in 0..(d.t0.size - 1) : s[j] = IF j = i THEN {} ELSE d.t0.slot[j]
  BY <1>1 DEF IsTable
<1> HIDE DEF m, s
<1>5. IsTable(m.t0) /\ SlotsSound(m.t0)
  BY <1>1, <1>3, <1>4 DEF IsTable, SlotsSound
<1>6. IsTable(m.t1) /\ SlotsSound(m.t1)
  BY <1>1, <1>2, <1>3, PutAllSound
<1>7. isRehashing(m) /\ m.index \in 0..m.t0.size
  BY <1>1, <1>3 DEF isRehashing
<1>8. Swept(m)
  <2>1. ASSUME NEW j \in 0..(d.t0.size - 1), j < i + 1
        PROVE  s[j] = {}
    <3>1. CASE j = i
      BY <3>1, <1>4
    <3>2. CASE j < d.index
      BY <3>2, <1>4, <1>1 DEF Swept, Rehashing, Good
    <3>3. CASE j # i /\ j >= d.index
      BY <3>3, <2>1, <1>4, <1>1 DEF IsFirst
    <3> QED
      BY <3>1, <3>2, <3>3, <1>1
  <2> QED
    BY <2>1, <1>3 DEF Swept
<1>9. Rehashing(m)
  BY <1>3, <1>5, <1>6, <1>7, <1>8 DEF Rehashing, Good, Shape
<1>10. ASSUME NEW k \in Keys, NEW v \in Vals
       PROVE  /\ In(m.t0, k, v) <=> In(d.t0, k, v) /\ Index(k, d.t0.size) # i
              /\ In(m.t1, k, v) <=>
                   \/ In(d.t1, k, v)
                   \/ In(d.t0, k, v) /\ Index(k, d.t0.size) = i /\ ~hasKey(d.t1, k)
  <2> DEFINE e == [key |-> k, val |-> v]
  <2>1. Index(k, d.t0.size) \in 0..(d.t0.size - 1)
    BY <1>1, ChainOfKey
  <2>2. In(m.t0, k, v) <=> e \in s[Index(k, d.t0.size)]
    BY <1>3 DEF In, Chain
  <2>3. e \in c <=> In(d.t0, k, v) /\ Index(k, d.t0.size) = i
    <3>1. e.key = k
      OBVIOUS
    <3>2. e \in c => Index(k, d.t0.size) = i
      BY <3>1, <1>1 DEF SlotsSound
    <3> QED
      BY <3>2 DEF In, Chain
  <2>4. In(m.t1, k, v) <=> In(d.t1, k, v) \/ (e \in c /\ ~hasKey(d.t1, k))
    BY <1>1, <1>2, <1>3, PutAllIn
  <2>5. e \in s[Index(k, d.t0.size)] <=> In(d.t0, k, v) /\ Index(k, d.t0.size) # i
    BY <2>1, <1>4 DEF In, Chain
  <2> QED
    BY <2>2, <2>3, <2>4, <2>5
<1>11. ASSUME Apart(d)
       PROVE  Apart(m) /\ \A k \in Keys, v \in Vals : Has(m, k, v) <=> Has(d, k, v)
  <2>1. isRehashing(d)
    BY DEF Rehashing
  <2>2. ASSUME NEW k \in Keys
        PROVE  /\ hasKey(d.t0, k) <=> \E v \in Vals : In(d.t0, k, v)
               /\ hasKey(d.t1, k) <=> \E v \in Vals : In(d.t1, k, v)
               /\ hasKey(m.t0, k) <=> \E v \in Vals : In(m.t0, k, v)
               /\ hasKey(m.t1, k) <=> \E v \in Vals : In(m.t1, k, v)
    BY <1>1, <1>5, <1>6, KeyIn
  <2>3. ASSUME NEW k \in Keys
        PROVE  ~(hasKey(m.t0, k) /\ hasKey(m.t1, k))
    <3>1. ~(hasKey(d.t0, k) /\ hasKey(d.t1, k))
      BY <1>11, <2>1 DEF Apart
    <3> QED
      BY <3>1, <2>2, <1>10
  <2>4. ASSUME NEW k \in Keys, NEW v \in Vals
        PROVE  Has(m, k, v) <=> Has(d, k, v)
    <3>1. In(d.t0, k, v) => ~hasKey(d.t1, k)
      BY <1>11, <2>1, <2>2 DEF Apart
    <3> QED
      BY <3>1, <1>10, <1>7, <2>1 DEF Has
  <2> QED
    BY <2>3, <2>4 DEF Apart
<1>12. ASSUME NEW k \in Keys
       PROVE  Present(m, k) <=> Present(d, k)
  <2>1. isRehashing(d)
    BY DEF Rehashing
  <2>2. ASSUME NEW v \in Vals, In(d.t0, k, v), Index(k, d.t0.size) = i, hasKey(d.t1, k)
        PROVE  \E w \in Vals : In(m.t1, k, w)
    <3>1. PICK w \in Vals : In(d.t1, k, w)
      BY <1>1, <2>2, KeyIn
    <3> QED
      BY <3>1, <1>10
  <2>3. ASSUME NEW v \in Vals, Has(d, k, v)
        PROVE  Present(m, k)
    BY <2>2, <2>3, <1>10, <1>7 DEF Has, Present
  <2>4. ASSUME NEW v \in Vals, Has(m, k, v)
        PROVE  Has(d, k, v)
    BY <2>1, <2>4, <1>10 DEF Has
  <2> QED
    BY <2>3, <2>4 DEF Present
<1> QED
  BY <1>9, <1>11, <1>12 DEF m

(* While the old table holds anything, there is a next chain to move.      *)
LEMMA FirstExists ==
  ASSUME NEW d, Rehashing(d), ~isEmpty(d.t0)
  PROVE  \E i \in 0..(d.t0.size - 1) : IsFirst(d, i)
<1> DEFINE full == {i \in 0..(d.t0.size - 1) : d.t0.slot[i] # {}}
<1>1. full \in SUBSET Nat /\ full # {}
  BY DEF isEmpty
<1>2. d.index \in Nat /\ d.t0.size \in Nat
  BY DictAssumption DEF Rehashing, Good, Shape, IsTable
<1>3. \A i \in full : i >= d.index
  BY <1>2 DEF Rehashing, Good, Swept
<1> HIDE DEF full
<1>4. PICK i \in full : \A j \in full : i <= j
  BY <1>1, LeastExists
<1>5. i \in 0..(d.t0.size - 1) /\ d.t0.slot[i] # {} /\ i >= d.index
  BY <1>3, <1>4 DEF full
<1>6. ASSUME NEW j \in d.index..(i - 1)
      PROVE  d.t0.slot[j] = {}
  <2>1. j \in 0..(d.t0.size - 1) /\ ~(i <= j)
    BY <1>2, <1>5
  <2>2. j \notin full
    BY <1>4, <2>1
  <2> QED
    BY <2>1, <2>2 DEF full
<1> QED
  BY <1>2, <1>5, <1>6 DEF IsFirst

LEMMA StepGood ==
  ASSUME NEW d, Rehashing(d)
  PROVE  /\ Good(rehashSteps(d))
         /\ \A k \in Keys : Present(rehashSteps(d), k) <=> Present(d, k)
         /\ Apart(d) => Apart(rehashSteps(d))
         /\ Apart(d) => \A k \in Keys, v \in Vals :
                          Has(rehashSteps(d), k, v) <=> Has(d, k, v)
<1>1. CASE ~canRehash
  BY <1>1 DEF rehashSteps, Rehashing
<1>2. CASE canRehash /\ isEmpty(d.t0)
  BY <1>2, FinishedGood DEF rehashSteps
<1>3. CASE canRehash /\ ~isEmpty(d.t0)
  <2> DEFINE i == CHOOSE i \in 0..(d.t0.size - 1) : IsFirst(d, i)
  <2>1. i \in 0..(d.t0.size - 1) /\ IsFirst(d, i)
    BY <1>3, FirstExists
  <2>2. rehashSteps(d) = Finished(MovedFrom(d, i))
    BY <1>3, FirstExists DEF rehashSteps
  <2> HIDE DEF i
  <2> DEFINE m == MovedFrom(d, i)
  <2>3. /\ Rehashing(m)
        /\ \A k \in Keys : Present(m, k) <=> Present(d, k)
        /\ Apart(d) => Apart(m)
        /\ Apart(d) => \A k \in Keys, v \in Vals : Has(m, k, v) <=> Has(d, k, v)
    BY <2>1, MovedGood
  <2> HIDE DEF m
  <2>4. /\ Good(Finished(m))
        /\ \A k \in Keys : Present(Finished(m), k) <=> Present(m, k)
        /\ Apart(m) => Apart(Finished(m))
        /\ \A k \in Keys, v \in Vals : Has(Finished(m), k, v) <=> Has(m, k, v)
    BY <2>3, FinishedGood
  <2> QED
    BY <2>2, <2>3, <2>4 DEF m
<1> QED
  BY <1>1, <1>2, <1>3

LEMMA SteppedGood ==
  ASSUME NEW d, Good(d)
  PROVE  /\ Good(Stepped(d))
         /\ \A k \in Keys : Present(Stepped(d), k) <=> Present(d, k)
         /\ Apart(d) => Apart(Stepped(d))
         /\ Apart(d) => \A k \in Keys, v \in Vals :
                          Has(Stepped(d), k, v) <=> Has(d, k, v)
BY StepGood DEF Stepped, Rehashing

(* A resize starts with everything in the old table.                       *)
LEMMA ResizedGood ==
  ASSUME NEW t, IsTable(t), SlotsSound(t), NEW n \in Sizes
  PROVE  /\ Good(Resized(t, n)) /\ Apart(Resized(t, n))
         /\ \A k \in Keys, v \in Vals : Has(Resized(t, n), k, v) <=> In(t, k, v)
<1> DEFINE d == [t0 |-> t, t1 |-> NewTable(n), index |-> 0]
<1>1. Rehashing(d)
  <2>1. t.size \in Nat
    BY DictAssumption DEF IsTable
  <2> QED
    BY <2>1, NewTableSound DEF Rehashing, Good, Shape, Swept, isRehashing
<1>2. \A k \in Keys, v \in Vals : ~In(d.t1, k, v)
  BY NewTableIn
<1>3. \A k \in Keys, v \in Vals : Has(d, k, v) <=> In(t, k, v)
  BY <1>2 DEF Has
<1>4. Apart(d)
  BY <1>1, <1>2, KeyIn, NewTableSound DEF Apart
<1>5. Resized(t, n) = rehashSteps(d)
  BY DEF Resized
<1> HIDE DEF d
<1> QED
  BY <1>1, <1>3, <1>4, <1>5, StepGood
-----------------------------------------------------------------------------
(* The value of a key *)

LEMMA ValueHas ==
  ASSUME NEW d, Good(d), NEW k \in Keys
  PROVE  /\ ValueIn(d, k) \in Vals => Has(d, k, ValueIn(d, k))
         /\ ValueIn(d, k) \in Vals \cup {NoVal}
         /\ ValueIn(d, k) = NoVal => \A v \in Vals : ~Has(d, k, v)
<1>1. IsTable(d.t0) /\ SlotsSound(d.t0)
  BY DEF Good, Shape
<1>2. isRehashing(d) => IsTable(d.t1) /\ SlotsSound(d.t1)
  BY DEF Good, Shape
<1>3. NoVal \notin Vals
  BY DictAssumption
<1>4. CASE hasKey(d.t0, k)
  BY <1>1, <1>3, <1>4, FoundIn DEF ValueIn, Has
<1>5. CASE ~hasKey(d.t0, k) /\ isRehashing(d) /\ hasKey(d.t1, k)
  BY <1>2, <1>3, <1>5, FoundIn DEF ValueIn, Has
<1>6. CASE ~hasKey(d.t0, k) /\ ~(isRehashing(d) /\ hasKey(d.t1, k))
  <2>1. ValueIn(d, k) = NoVal
    BY <1>6 DEF ValueIn
  <2>2. ASSUME NEW v \in Vals PROVE ~Has(d, k, v)
    BY <1>1, <1>2, <1>6, KeyIn DEF Has
  <2> QED
    BY <2>1, <2>2, <1>3
<1> QED
  BY <1>4, <1>5, <1>6

LEMMA HasOne ==
  ASSUME NEW d, Good(d), Apart(d), NEW k \in Keys,
         NEW v \in Vals, NEW w \in Vals, Has(d, k, v), Has(d, k, w)
  PROVE  v = w
<1>1. IsTable(d.t0) /\ SlotsSound(d.t0)
  BY DEF Good, Shape
<1>2. isRehashing(d) => IsTable(d.t1) /\ SlotsSound(d.t1)
  BY DEF Good, Shape
<1>3. CASE In(d.t0, k, v) /\ In(d.t0, k, w)
  BY <1>1, <1>3, OneValue
<1>4. CASE isRehashing(d) /\ In(d.t1, k, v) /\ In(d.t1, k, w)
  BY <1>2, <1>4, OneValue
<1>5. CASE isRehashing(d) /\ hasKey(d.t0, k) /\ hasKey(d.t1, k)
  BY <1>5 DEF Apart
<1> QED
  BY <1>1, <1>2, <1>3, <1>4, <1>5, KeyIn DEF Has

(* ValueIn is the one value that a key has.                                *)
LEMMA ValueIff ==
  ASSUME NEW d, Good(d), Apart(d), NEW k \in Keys, NEW v \in Vals
  PROVE  ValueIn(d, k) = v <=> Has(d, k, v)
<1>1. ValueIn(d, k) # NoVal /\ Has(d, k, v) => ValueIn(d, k) = v
  BY ValueHas, HasOne
<1> QED
  BY <1>1, ValueHas

LEMMA SameValue ==
  ASSUME NEW d, Good(d), Apart(d), NEW f, Good(f), Apart(f), NEW k \in Keys,
         \A v \in Vals : Has(f, k, v) <=> Has(d, k, v)
  PROVE  ValueIn(f, k) = ValueIn(d, k)
<1>1. CASE ValueIn(d, k) \in Vals
  BY <1>1, ValueIff
<1>2. CASE ValueIn(d, k) = NoVal
  <2>1. ValueIn(f, k) \notin Vals
    BY <1>2, ValueHas
  <2> QED
    BY <1>2, <2>1, ValueHas
<1> QED
  BY <1>1, <1>2, ValueHas
-----------------------------------------------------------------------------
(* The calls *)

LEMMA InsertedGood ==
  ASSUME NEW d, Good(d), NEW k \in Keys, NEW v \in Vals, HasRoom(d, k, v)
  PROVE  /\ Good(Inserted(d, k, v))
         /\ ~IsNew(d, k) => Inserted(d, k, v) = d
<1>1. d = [t0 |-> d.t0, t1 |-> d.t1, index |-> d.index]
  BY DEF Good, Shape
<1>2. CASE isRehashing(d)
  <2> DEFINE t == Put(d.t1, k, v)
             f == [t0 |-> d.t0, t1 |-> t, index |-> d.index]
  <2>1. Inserted(d, k, v) = f
    BY <1>1, <1>2 DEF Inserted
  <2>2. IsTable(t) /\ SlotsSound(t)
    BY <1>2, PutSound DEF Good, Shape
  <2>3. ~IsNew(d, k) => t = d.t1
    BY <1>2 DEF IsNew, Put
  <2> HIDE DEF t
  <2>4. Good(f)
    BY <1>2, <2>2 DEF Good, Shape, Swept, isRehashing
  <2> QED
    BY <1>1, <2>1, <2>3, <2>4
<1>3. CASE ~isRehashing(d)
  <2> DEFINE t == Put(d.t0, k, v)
             f == [t0 |-> t, t1 |-> d.t1, index |-> d.index]
  <2>1. IsTable(t) /\ SlotsSound(t) /\ t.size = d.t0.size
    BY PutSound DEF Good, Shape
  <2>2. ~IsNew(d, k) => t = d.t0
    BY <1>3 DEF IsNew, Put
  <2>3. Inserted(d, k, v) =
          IF IsNew(d, k) /\ needExpand(t) THEN Resized(t, 2 * t.size) ELSE f
    BY <1>1, <1>3 DEF Inserted
  <2>4. needExpand(t) => 2 * t.size \in Sizes
    BY <1>3, <2>1 DEF HasRoom
  <2> HIDE DEF t
  <2>5. needExpand(t) => Good(Resized(t, 2 * t.size))
    BY <2>1, <2>4, ResizedGood
  <2>6. Good(f)
    BY <1>3, <2>1 DEF Good, Shape, Swept, isRehashing
  <2> QED
    BY <1>1, <2>2, <2>3, <2>5, <2>6
<1> QED
  BY <1>2, <1>3

(* An insertion adds one value to what the keys have, provided the old     *)
(* table does not hold the key.                                            *)
LEMMA InsertedHas ==
  ASSUME NEW d, Good(d), Apart(d), NEW k \in Keys, NEW v \in Vals, HasRoom(d, k, v),
         isRehashing(d) => ~hasKey(d.t0, k), IsNew(d, k)
  PROVE  /\ Apart(Inserted(d, k, v))
         /\ \A j \in Keys, w \in Vals :
              Has(Inserted(d, k, v), j, w) <=> Has(d, j, w) \/ (j = k /\ w = v)
<1>1. /\ d = [t0 |-> d.t0, t1 |-> d.t1, index |-> d.index]
      /\ IsTable(d.t0) /\ SlotsSound(d.t0)
  BY DEF Good, Shape
<1>2. CASE isRehashing(d)
  <2> DEFINE t == Put(d.t1, k, v)
             f == [t0 |-> d.t0, t1 |-> t, index |-> d.index]
  <2>1. Inserted(d, k, v) = f
    BY <1>1, <1>2 DEF Inserted
  <2>2. IsTable(d.t1) /\ SlotsSound(d.t1) /\ ~hasKey(d.t1, k)
    BY <1>2 DEF Good, Shape, IsNew
  <2>3. \A j \in Keys, w \in Vals : In(t, j, w) <=> In(d.t1, j, w) \/ (j = k /\ w = v)
    BY <2>2, PutIn
  <2>4. IsTable(t) /\ SlotsSound(t)
    BY <2>2, PutSound
  <2> HIDE DEF t
  <2>5. ASSUME NEW j \in Keys PROVE ~(hasKey(d.t0, j) /\ hasKey(t, j))
    <3>1. hasKey(t, j) => hasKey(d.t1, j) \/ j = k
      BY <2>2, <2>3, <2>4, KeyIn
    <3> QED
      BY <3>1, <1>2 DEF Apart
  <2>6. isRehashing(f)
    BY <1>2 DEF isRehashing
  <2> QED
    BY <1>2, <2>1, <2>3, <2>5, <2>6 DEF Apart, Has
<1>3. CASE ~isRehashing(d)
  <2> DEFINE t == Put(d.t0, k, v)
             f == [t0 |-> t, t1 |-> d.t1, index |-> d.index]
  <2>1. IsTable(t) /\ SlotsSound(t) /\ t.size = d.t0.size
    BY <1>1, PutSound
  <2>2. \A j \in Keys, w \in Vals : In(t, j, w) <=> In(d.t0, j, w) \/ (j = k /\ w = v)
    BY <1>1, <1>3, PutIn DEF IsNew
  <2>3. Inserted(d, k, v) = IF needExpand(t) THEN Resized(t, 2 * t.size) ELSE f
    BY <1>1, <1>3 DEF Inserted
  <2>4. needExpand(t) => 2 * t.size \in Sizes
    BY <1>3, <2>1 DEF HasRoom
  <2> HIDE DEF t
  <2>5. CASE needExpand(t)
    <3>1. /\ Apart(Resized(t, 2 * t.size))
          /\ \A j \in Keys, w \in Vals : Has(Resized(t, 2 * t.size), j, w) <=> In(t, j, w)
      BY <2>1, <2>4, <2>5, ResizedGood
    <3> QED
      BY <3>1, <1>3, <2>2, <2>3, <2>5 DEF Has
  <2>6. CASE ~needExpand(t)
    BY <1>3, <2>2, <2>3, <2>6 DEF Has, Apart, isRehashing
  <2> QED
    BY <2>5, <2>6
<1> QED
  BY <1>2, <1>3

(* entry->val = val: a table with the key has it with the new value.       *)
LEMMA RenewedIn ==
  ASSUME NEW t, IsTable(t), SlotsSound(t), NEW k \in Keys, NEW v \in Vals
  PROVE  /\ IsTable(Put(WithoutKey(t, k), k, v)) /\ SlotsSound(Put(WithoutKey(t, k), k, v))
         /\ Put(WithoutKey(t, k), k, v).size = t.size
         /\ \A j \in Keys, w \in Vals :
              In(Put(WithoutKey(t, k), k, v), j, w) <=>
                (j # k /\ In(t, j, w)) \/ (j = k /\ w = v)
<1> DEFINE u == WithoutKey(t, k)
<1>1. /\ IsTable(u) /\ SlotsSound(u) /\ u.size = t.size
      /\ \A j \in Keys, w \in Vals : In(u, j, w) <=> In(t, j, w) /\ j # k
  BY WithoutSound, WithoutIn
<1> HIDE DEF u
<1>2. ~hasKey(u, k)
  BY <1>1, KeyIn
<1>3. \A j \in Keys, w \in Vals : In(Put(u, k, v), j, w) <=> In(u, j, w) \/ (j = k /\ w = v)
  BY <1>1, <1>2, PutIn
<1>4. IsTable(Put(u, k, v)) /\ SlotsSound(Put(u, k, v)) /\ Put(u, k, v).size = u.size
  BY <1>1, PutSound
<1> QED
  BY <1>1, <1>3, <1>4 DEF u

LEMMA AssignedGood ==
  ASSUME NEW d, Good(d), NEW k \in Keys, NEW v \in Vals, Present(d, k)
  PROVE  /\ Good(Assigned(d, k, v))
         /\ Apart(d) => Apart(Assigned(d, k, v))
         /\ Apart(d) => \A j \in Keys, w \in Vals :
              Has(Assigned(d, k, v), j, w) <=> (j # k /\ Has(d, j, w)) \/ (j = k /\ w = v)
<1>1. /\ d = [t0 |-> d.t0, t1 |-> d.t1, index |-> d.index]
      /\ IsTable(d.t0) /\ SlotsSound(d.t0)
      /\ isRehashing(d) => IsTable(d.t1) /\ SlotsSound(d.t1)
  BY DEF Good, Shape
<1>2. CASE hasKey(d.t0, k)
  <2> DEFINE t == Put(WithoutKey(d.t0, k), k, v)
             f == [t0 |-> t, t1 |-> d.t1, index |-> d.index]
  <2>1. Assigned(d, k, v) = f
    BY <1>1, <1>2 DEF Assigned
  <2>2. IsTable(t) /\ SlotsSound(t) /\ t.size = d.t0.size
    BY <1>1, RenewedIn
  <2>3. \A j \in Keys, w \in Vals :
          In(t, j, w) <=> (j # k /\ In(d.t0, j, w)) \/ (j = k /\ w = v)
    BY <1>1, RenewedIn
  <2>4. Swept(d) => \A j \in 0..(t.size - 1) : j < d.index => t.slot[j] = {}
    <3>1. PICK w \in Vals : In(d.t0, k, w)
      BY <1>1, <1>2, KeyIn
    <3>2. /\ t.size \in Nat
          /\ Index(k, d.t0.size) \in 0..(d.t0.size - 1)
          /\ d.t0.slot[Index(k, d.t0.size)] # {}
      BY <3>1, <2>2, <1>1, ChainOfKey DEF In, Chain
    <3>3. ASSUME NEW j \in 0..(t.size - 1), j # Index(k, d.t0.size)
          PROVE  t.slot[j] = d.t0.slot[j]
      <4>1. WithoutKey(d.t0, k).slot[j] = d.t0.slot[j] /\ WithoutKey(d.t0, k).size = d.t0.size
        BY <3>3, <2>2, <1>1 DEF WithoutKey, IsTable
      <4>2. IsTable(WithoutKey(d.t0, k))
        BY <1>1, WithoutSound
      <4> HIDE DEF t
      <4>3. Put(WithoutKey(d.t0, k), k, v).slot[j] = WithoutKey(d.t0, k).slot[j]
        BY <3>3, <4>1, <4>2, <2>2 DEF Put, IsTable
      <4> QED
        BY <4>1, <4>3 DEF t
    <3> HIDE DEF t
    <3> QED
      BY <3>2, <3>3, <2>2 DEF Swept
  <2> HIDE DEF t
  <2>5. Good(f)
    BY <1>1, <2>2, <2>4 DEF Good, Shape, Swept, isRehashing
  <2>6. isRehashing(f) <=> isRehashing(d)
    BY DEF isRehashing
  <2>7. Apart(d) => \A w \in Vals : isRehashing(d) => ~In(d.t1, k, w)
    BY <1>1, <1>2, KeyIn DEF Apart
  <2>8. Apart(d) => Apart(f)
    <3>1. \A j \in Keys : hasKey(t, j) => hasKey(d.t0, j)
      BY <1>1, <1>2, <2>2, <2>3, KeyIn
    <3> QED
      BY <3>1, <2>6 DEF Apart
  <2>9. Apart(d) => \A j \in Keys, w \in Vals :
          Has(f, j, w) <=> (j # k /\ Has(d, j, w)) \/ (j = k /\ w = v)
    BY <2>3, <2>6, <2>7 DEF Has
  <2> QED
    BY <2>1, <2>5, <2>8, <2>9
<1>3. CASE ~hasKey(d.t0, k)
  <2> DEFINE t == Put(WithoutKey(d.t1, k), k, v)
             f == [t0 |-> d.t0, t1 |-> t, index |-> d.index]
  <2>1. Assigned(d, k, v) = f
    BY <1>1, <1>3 DEF Assigned
  <2>2. \A w \in Vals : ~In(d.t0, k, w)
    BY <1>1, <1>3, KeyIn
  <2>3. isRehashing(d) /\ hasKey(d.t1, k)
    BY <1>1, <2>2, KeyIn DEF Present, Has
  <2>4. IsTable(t) /\ SlotsSound(t)
    BY <1>1, <2>3, RenewedIn
  <2>5. \A j \in Keys, w \in Vals :
          In(t, j, w) <=> (j # k /\ In(d.t1, j, w)) \/ (j = k /\ w = v)
    BY <1>1, <2>3, RenewedIn
  <2> HIDE DEF t
  <2>6. Good(f) /\ isRehashing(f)
    BY <1>1, <2>3, <2>4 DEF Good, Shape, Swept, isRehashing
  <2>7. Apart(d) => Apart(f)
    <3>1. \A j \in Keys : hasKey(t, j) => hasKey(d.t1, j)
      BY <1>1, <2>3, <2>4, <2>5, KeyIn
    <3> QED
      BY <3>1, <2>3 DEF Apart
  <2>8. \A j \in Keys, w \in Vals :
          Has(f, j, w) <=> (j # k /\ Has(d, j, w)) \/ (j = k /\ w = v)
    BY <2>2, <2>3, <2>5, <2>6 DEF Has
  <2> QED
    BY <2>1, <2>6, <2>7, <2>8
<1> QED
  BY <1>2, <1>3

LEMMA DeletedGood ==
  ASSUME NEW d, Good(d), NEW k \in Keys
  PROVE  /\ Good(Deleted(d, k))
         /\ Apart(d) => Apart(Deleted(d, k))
         /\ Apart(d) => \A j \in Keys, w \in Vals :
              Has(Deleted(d, k), j, w) <=> Has(d, j, w) /\ j # k
<1> DEFINE t == WithoutKey(d.t0, k)
           u == WithoutKey(d.t1, k)
           f == [t0 |-> t, t1 |-> d.t1, index |-> d.index]
           g == [t0 |-> d.t0, t1 |-> u, index |-> d.index]
<1>1. /\ d = [t0 |-> d.t0, t1 |-> d.t1, index |-> d.index]
      /\ IsTable(d.t0) /\ SlotsSound(d.t0)
      /\ isRehashing(d) => IsTable(d.t1) /\ SlotsSound(d.t1)
  BY DEF Good, Shape
<1>2. /\ IsTable(t) /\ SlotsSound(t) /\ t.size = d.t0.size
      /\ \A j \in Keys, w \in Vals : In(t, j, w) <=> In(d.t0, j, w) /\ j # k
  BY <1>1, WithoutSound, WithoutIn
<1>3. isRehashing(d) =>
        /\ IsTable(u) /\ SlotsSound(u) /\ u.size = d.t1.size
        /\ \A j \in Keys, w \in Vals : In(u, j, w) <=> In(d.t1, j, w) /\ j # k
  BY <1>1, WithoutSound, WithoutIn
<1>4. \A j \in 0..(d.t0.size - 1) : d.t0.slot[j] = {} => t.slot[j] = {}
  BY <1>1, ChainOfKey DEF WithoutKey, IsTable, OthersIn
<1>5. Deleted(d, k) =
        IF hasKey(d.t0, k)
        THEN IF ~isRehashing(d) /\ needShrink(t) THEN Resized(t, t.size \div 2) ELSE f
        ELSE IF isRehashing(d) THEN g ELSE d
  BY <1>1 DEF Deleted
<1>6. needShrink(t) => t.size \div 2 \in Sizes
  BY <1>2, DictAssumption DEF needShrink, IsTable
<1> HIDE DEF t, u
<1>7. CASE hasKey(d.t0, k) /\ ~isRehashing(d) /\ needShrink(t)
  <2>1. /\ Good(Resized(t, t.size \div 2)) /\ Apart(Resized(t, t.size \div 2))
        /\ \A j \in Keys, w \in Vals : Has(Resized(t, t.size \div 2), j, w) <=> In(t, j, w)
    BY <1>2, <1>6, <1>7, ResizedGood
  <2> QED
    BY <2>1, <1>2, <1>5, <1>7 DEF Has
<1>8. CASE hasKey(d.t0, k) /\ ~(~isRehashing(d) /\ needShrink(t))
  <2>1. isRehashing(f) <=> isRehashing(d)
    BY DEF isRehashing
  <2>2. Good(f)
    BY <1>1, <1>2, <1>4 DEF Good, Shape, Swept, isRehashing
  <2>3. Apart(d) => \A w \in Vals : isRehashing(d) => ~In(d.t1, k, w)
    BY <1>1, <1>8, KeyIn DEF Apart
  <2>4. Apart(d) => Apart(f)
    <3>1. \A j \in Keys : hasKey(t, j) => hasKey(d.t0, j)
      BY <1>1, <1>2, KeyIn
    <3> QED
      BY <3>1, <2>1 DEF Apart
  <2>5. Apart(d) => \A j \in Keys, w \in Vals : Has(f, j, w) <=> Has(d, j, w) /\ j # k
    BY <1>2, <2>1, <2>3 DEF Has
  <2> QED
    BY <1>5, <1>8, <2>2, <2>4, <2>5
<1>9. CASE ~hasKey(d.t0, k) /\ isRehashing(d)
  <2>1. Good(g) /\ isRehashing(g)
    BY <1>1, <1>3, <1>9 DEF Good, Shape, Swept, isRehashing
  <2>2. \A w \in Vals : ~In(d.t0, k, w)
    BY <1>1, <1>9, KeyIn
  <2>3. Apart(d) => Apart(g)
    <3>1. \A j \in Keys : hasKey(u, j) => hasKey(d.t1, j)
      BY <1>1, <1>3, <1>9, KeyIn
    <3> QED
      BY <3>1, <1>9 DEF Apart
  <2>4. \A j \in Keys, w \in Vals : Has(g, j, w) <=> Has(d, j, w) /\ j # k
    BY <1>3, <1>9, <2>1, <2>2 DEF Has
  <2> QED
    BY <1>5, <1>9, <2>1, <2>3, <2>4
<1>10. CASE ~hasKey(d.t0, k) /\ ~isRehashing(d)
  BY <1>1, <1>5, <1>10, KeyIn DEF Has
<1> QED
  BY <1>7, <1>8, <1>9, <1>10
-----------------------------------------------------------------------------
(* The calls as steps of the map *)

MapOf(d) == [k \in Keys |-> ValueIn(d, k)]

(* What the tables d and f of two states have in common.                   *)
Sound(d)  == Good(d) /\ Apart(d)
Kept(d, f) == \A j \in Keys, w \in Vals : Has(f, j, w) <=> Has(d, j, w)
Written(d, f, k, v) ==
  \A j \in Keys, w \in Vals : Has(f, j, w) <=> (j # k /\ Has(d, j, w)) \/ (j = k /\ w = v)
Removed(d, f, k) ==
  \A j \in Keys, w \in Vals : Has(f, j, w) <=> Has(d, j, w) /\ j # k

LEMMA KeptMap ==
  ASSUME NEW d, NEW f, Sound(d), Sound(f), Kept(d, f)
  PROVE  MapOf(f) = MapOf(d)
<1>1. ASSUME NEW k \in Keys
      PROVE  ValueIn(f, k) = ValueIn(d, k)
  BY SameValue DEF Sound, Kept
<1> QED
  BY <1>1 DEF MapOf

LEMMA WrittenMap ==
  ASSUME NEW d, NEW f, Sound(d), Sound(f),
         NEW k \in Keys, NEW v \in Vals, Written(d, f, k, v)
  PROVE  MapOf(f) = [MapOf(d) EXCEPT ![k] = v]
<1>1. ValueIn(f, k) = v
  BY ValueIff DEF Sound, Written
<1>2. ASSUME NEW j \in Keys, j # k
      PROVE  ValueIn(f, j) = ValueIn(d, j)
  BY <1>2, SameValue DEF Sound, Written
<1> QED
  BY <1>1, <1>2 DEF MapOf

LEMMA RemovedMap ==
  ASSUME NEW d, NEW f, Sound(d), Sound(f), NEW k \in Keys, Removed(d, f, k)
  PROVE  MapOf(f) = [MapOf(d) EXCEPT ![k] = NoVal]
<1>1. ValueIn(f, k) = NoVal
  <2>1. \A w \in Vals : ~Has(f, k, w)
    BY DEF Removed
  <2> QED
    BY <2>1, ValueHas DEF Sound
<1>2. ASSUME NEW j \in Keys, j # k
      PROVE  ValueIn(f, j) = ValueIn(d, j)
  BY <1>2, SameValue DEF Sound, Removed
<1> QED
  BY <1>1, <1>2 DEF MapOf

(* One step and two steps of a rehash keep the map.                        *)
LEMMA SteppedSound ==
  ASSUME NEW d, Sound(d)
  PROVE  Sound(Stepped(d)) /\ Kept(d, Stepped(d)) /\ MapOf(Stepped(d)) = MapOf(d)
<1>1. Sound(Stepped(d)) /\ Kept(d, Stepped(d))
  BY SteppedGood DEF Sound, Kept
<1> QED
  BY <1>1, KeptMap

(* What the old table does not hold, it does not hold after a step either. *)
NotOld(d, k) == isRehashing(d) => ~hasKey(d.t0, k)

LEMMA SteppedNotOld ==
  ASSUME NEW d, Good(d), NEW k \in Keys, NotOld(d, k)
  PROVE  NotOld(Stepped(d), k)
<1>1. CASE ~isRehashing(d)
  BY <1>1 DEF NotOld, Stepped
<1>2. CASE isRehashing(d)
  <2>1. IsTable(d.t0) /\ ~hasKey(d.t0, k)
    BY <1>2 DEF NotOld, Good, Shape
  <2>2. ASSUME NEW f, f.t0 = d.t0
        PROVE  NotOld(Finished(f), k)
    BY <2>1, <2>2 DEF NotOld, Finished, isRehashing
  <2>3. ASSUME NEW i \in 0..(d.t0.size - 1)
        PROVE  NotOld(Finished(MovedFrom(d, i)), k)
    <3> DEFINE m == MovedFrom(d, i)
    <3>1. Index(k, d.t0.size) \in 0..(d.t0.size - 1)
      BY <2>1, ChainOfKey
    <3>2. /\ m.t0.size = d.t0.size
          /\ m.t0.slot[Index(k, d.t0.size)] \in {{}, d.t0.slot[Index(k, d.t0.size)]}
      BY <2>1, <3>1 DEF MovedFrom, IsTable
    <3>3. ~hasKey(m.t0, k)
      BY <2>1, <3>2 DEF hasKey, Chain
    <3> HIDE DEF m
    <3>4. NotOld(Finished(m), k)
      BY <3>3 DEF NotOld, Finished, isRehashing
    <3> QED
      BY <3>4 DEF m
  <2>4. NotOld([d EXCEPT !.index = d.t0.size], k)
    BY <2>1 DEF NotOld, Good, Shape
  <2>5. NotOld(d, k)
    OBVIOUS
  <2> DEFINE first == CHOOSE i \in 0..(d.t0.size - 1) : IsFirst(d, i)
  <2>6. (\E i \in 0..(d.t0.size - 1) : IsFirst(d, i)) => first \in 0..(d.t0.size - 1)
    OBVIOUS
  <2>7. Stepped(d) =
          IF ~canRehash THEN d
          ELSE IF isEmpty(d.t0) THEN Finished(d)
          ELSE IF \E i \in 0..(d.t0.size - 1) : IsFirst(d, i)
               THEN Finished(MovedFrom(d, first))
               ELSE [d EXCEPT !.index = d.t0.size]
    BY <1>2 DEF Stepped, rehashSteps
  <2> HIDE DEF first
  <2> QED
    BY <2>2, <2>3, <2>4, <2>5, <2>6, <2>7
<1> QED
  BY <1>1, <1>2

(* IsNew asks one table; with NotOld, it tells whether the key is there.   *)
LEMMA IsNewMeans ==
  ASSUME NEW d, Good(d), NEW k \in Keys
  PROVE  /\ ~IsNew(d, k) => Present(d, k) /\ ValueIn(d, k) # NoVal
         /\ IsNew(d, k) /\ NotOld(d, k) => ValueIn(d, k) = NoVal
<1>1. /\ IsTable(d.t0) /\ SlotsSound(d.t0)
      /\ isRehashing(d) => IsTable(d.t1) /\ SlotsSound(d.t1)
  BY DEF Good, Shape
<1>2. ~IsNew(d, k) => Present(d, k)
  BY <1>1, KeyIn DEF IsNew, Present, Has
<1>3. Present(d, k) => ValueIn(d, k) # NoVal
  BY ValueHas DEF Present
<1>4. IsNew(d, k) /\ NotOld(d, k) => ValueIn(d, k) = NoVal
  BY DEF IsNew, NotOld, ValueIn
<1> QED
  BY <1>2, <1>3, <1>4

LEMMA InsertedMap ==
  ASSUME NEW d, Sound(d), NEW k \in Keys, NEW v \in Vals, HasRoom(d, k, v),
         NotOld(d, k), IsNew(d, k)
  PROVE  Sound(Inserted(d, k, v)) /\ MapOf(Inserted(d, k, v)) = [MapOf(d) EXCEPT ![k] = v]
<1>1. Good(d) /\ Apart(d)
  BY DEF Sound
<1>2. \A w \in Vals : ~Has(d, k, w)
  BY <1>1, IsNewMeans, ValueHas
<1>3. Sound(Inserted(d, k, v))
  BY <1>1, InsertedGood, InsertedHas DEF Sound, NotOld
<1>4. Written(d, Inserted(d, k, v), k, v)
  BY <1>1, <1>2, InsertedHas DEF Written, NotOld
<1> QED
  BY <1>3, <1>4, WrittenMap

LEMMA AssignedMap ==
  ASSUME NEW d, Sound(d), NEW k \in Keys, NEW v \in Vals, Present(d, k)
  PROVE  Sound(Assigned(d, k, v)) /\ MapOf(Assigned(d, k, v)) = [MapOf(d) EXCEPT ![k] = v]
<1>1. Sound(Assigned(d, k, v)) /\ Written(d, Assigned(d, k, v), k, v)
  BY AssignedGood DEF Sound, Written
<1> QED
  BY <1>1, WrittenMap

LEMMA DeletedMap ==
  ASSUME NEW d, Sound(d), NEW k \in Keys
  PROVE  Sound(Deleted(d, k)) /\ MapOf(Deleted(d, k)) = [MapOf(d) EXCEPT ![k] = NoVal]
<1>1. Sound(Deleted(d, k)) /\ Removed(d, Deleted(d, k), k)
  BY DeletedGood DEF Sound, Removed
<1> QED
  BY <1>1, RemovedMap

(* A resize is begun from tables that hold no entry but those of the old   *)
(* one.                                                                    *)
LEMMA ResizedMap ==
  ASSUME NEW d, Sound(d), ~isRehashing(d), NEW n \in Sizes
  PROVE  Sound(Resized(d.t0, n)) /\ MapOf(Resized(d.t0, n)) = MapOf(d)
<1>1. IsTable(d.t0) /\ SlotsSound(d.t0)
  BY DEF Sound, Good, Shape
<1>2. Sound(Resized(d.t0, n)) /\ Kept(d, Resized(d.t0, n))
  BY <1>1, ResizedGood DEF Sound, Kept, Has
<1> QED
  BY <1>2, KeptMap

(* A random entry is one of the entries.                                   *)
LEMMA DrawnHas ==
  ASSUME NEW d, Sound(d), NEW e \in Drawn(d)
  PROVE  e.key \in Keys /\ ValueIn(d, e.key) # NoVal
<1>1. /\ IsTable(d.t0) /\ SlotsSound(d.t0)
      /\ isRehashing(d) => IsTable(d.t1) /\ SlotsSound(d.t1) /\ d.index \in Nat
  BY DEF Sound, Good, Shape
<1>2. ASSUME NEW t, IsTable(t), SlotsSound(t), NEW i \in 0..(t.size - 1), e \in t.slot[i]
      PROVE  e.key \in Keys /\ hasKey(t, e.key)
  <2>1. Index(e.key, t.size) = i
    BY <1>2 DEF SlotsSound
  <2>2. e \in Entries
    BY <1>2 DEF IsTable
  <2> QED
    BY <2>1, <2>2, <1>2 DEF hasKey, Chain, Entries
<1>3. d.t0.size \in Nat /\ (isRehashing(d) => d.t1.size \in Nat)
  BY <1>1, DictAssumption DEF IsTable
<1>4. CASE \E i \in 0..(d.t0.size - 1) : e \in d.t0.slot[i]
  <2>1. e.key \in Keys /\ hasKey(d.t0, e.key)
    BY <1>1, <1>2, <1>4
  <2>2. \E v \in Vals : Has(d, e.key, v)
    BY <2>1, <1>1, KeyIn DEF Has
  <2> QED
    BY <2>1, <2>2, ValueHas DEF Sound
<1>5. CASE isRehashing(d) /\ \E i \in 0..(d.t1.size - 1) : e \in d.t1.slot[i]
  <2>1. e.key \in Keys /\ hasKey(d.t1, e.key)
    BY <1>1, <1>2, <1>5
  <2>2. \E v \in Vals : Has(d, e.key, v)
    BY <2>1, <1>1, <1>5, KeyIn DEF Has
  <2> QED
    BY <2>1, <2>2, ValueHas DEF Sound
<1>6. \/ \E i \in 0..(d.t0.size - 1) : e \in d.t0.slot[i]
      \/ isRehashing(d) /\ \E i \in 0..(d.t1.size - 1) : e \in d.t1.slot[i]
  <2>1. CASE ~isRehashing(d)
    BY <2>1 DEF Drawn, EntriesOf
  <2>2. CASE isRehashing(d)
    <3>1. \/ \E i \in d.index..(d.t0.size - 1) : e \in d.t0.slot[i]
          \/ \E i \in 1..(d.t1.size - 1) : e \in d.t1.slot[i]
      BY <2>2 DEF Drawn
    <3>2. /\ d.index..(d.t0.size - 1) \subseteq 0..(d.t0.size - 1)
          /\ 1..(d.t1.size - 1) \subseteq 0..(d.t1.size - 1)
      BY <1>1, <1>3, <2>2
    <3> QED
      BY <3>1, <3>2, <2>2
  <2> QED
    BY <2>1, <2>2
<1> QED
  BY <1>4, <1>5, <1>6
-----------------------------------------------------------------------------
(* The steps of the specification *)

DictInv ==
  /\ Good(dict)
  /\ canRehash \in BOOLEAN
  /\ status \in {"live", "cleared", "crashed"}

MapInv == DictInv /\ Apart(dict)

LEMMA InitSound ==
  ASSUME Init
  PROVE  DictInv /\ Apart(dict) /\ MapOf(dict) = [k \in Keys |-> NoVal]
<1> DEFINE n == HASH_TABLE_INITIAL_SIZE
<1>1. dict = [t0 |-> NewTable(n), t1 |-> NULL, index |-> -1] /\ ~isRehashing(dict)
  BY DEF Init, isRehashing
<1>2. IsTable(NewTable(n)) /\ SlotsSound(NewTable(n)) /\ SlotsSound(NULL)
  BY DictAssumption, NewTableSound, NullSound
<1>3. NewTable(n).size \in Nat
  BY <1>2, DictAssumption DEF IsTable
<1>4. Good(dict) /\ Apart(dict)
  BY <1>1, <1>2, <1>3 DEF Good, Shape, Swept, isRehashing, Apart
<1>5. \A k \in Keys, v \in Vals : ~Has(dict, k, v)
  BY <1>1, DictAssumption, NewTableIn DEF Has
<1>6. \A k \in Keys : ValueIn(dict, k) = NoVal
  BY <1>4, <1>5, ValueHas
<1> QED
  BY <1>4, <1>6 DEF Init, DictInv, MapOf

LEMMA StepKeepsDictInv ==
  ASSUME DictInv, [Next]_vars
  PROVE  DictInv'
<1> USE DEF DictInv
<1>1. /\ Good(Stepped(dict)) /\ Good(Stepped(Stepped(dict)))
      /\ Good(Stepped(Stepped(Stepped(dict))))
  BY SteppedGood
<1>2. ASSUME NEW k \in Keys, NEW v \in Vals, addEntry(k, v)
      PROVE  DictInv'
  BY <1>1, <1>2, InsertedGood DEF addEntry
<1>3. ASSUME NEW k \in Keys, NEW v \in Vals, replace(k, v)
      PROVE  DictInv'
  <2> DEFINE d == Stepped(Stepped(dict))
  <2>1. /\ dict' = IF IsNew(d, k) THEN Inserted(d, k, v) ELSE Assigned(Stepped(d), k, v)
        /\ HasRoom(d, k, v) /\ UNCHANGED <<canRehash, status>>
    BY <1>3 DEF replace
  <2>2. Good(d) /\ Good(Stepped(d))
    BY <1>1
  <2> HIDE DEF d
  <2>3. ~IsNew(d, k) => Present(Stepped(d), k)
    BY <2>2, IsNewMeans, SteppedGood
  <2> QED
    BY <2>1, <2>2, <2>3, InsertedGood, AssignedGood
<1>4. ASSUME NEW k \in Keys, find(k) \/ fetchValue(k)
      PROVE  DictInv'
  BY <1>1, <1>4 DEF find, fetchValue, Found
<1>5. ASSUME NEW k \in Keys, deleteEntry(k)
      PROVE  DictInv'
  BY <1>1, <1>5, DeletedGood DEF deleteEntry
<1>6. CASE getRandomEntry
  <2>1. dict' \in {dict, Stepped(dict)} /\ UNCHANGED canRehash /\ status' \in {status, "crashed"}
    BY <1>6 DEF getRandomEntry
  <2> QED
    BY <1>1, <2>1
<1>7. ASSUME NEW n \in Sizes, ExpandTo(n)
      PROVE  Good(dict')
  BY <1>7, ResizedGood DEF ExpandTo, Expandable, Good, Shape
<1>8. ASSUME NEW n \in Sizes, expand(n)
      PROVE  DictInv'
  BY <1>7, <1>8 DEF expand
<1>9. ASSUME NEW n \in Sizes, shrink(n)
      PROVE  DictInv'
  BY <1>7, <1>9 DEF shrink
<1>10. ASSUME NEW b \in BOOLEAN, setCanRehash(b)
       PROVE  DictInv'
  BY <1>10 DEF setCanRehash
<1>11. CASE clear
  BY <1>11 DEF clear
<1>12. CASE UNCHANGED vars
  BY <1>12 DEF vars
<1> QED
  BY <1>2, <1>3, <1>4, <1>5, <1>6, <1>8, <1>9, <1>10, <1>11, <1>12 DEF Next

(* If callers do not insert what the old table holds, the tables stay      *)
(* apart, and every call is a step of the map.                             *)
LEMMA StepIsMapStep ==
  ASSUME ~ReinsertsOld, MapInv, [Next]_vars
  PROVE  Apart(dict)' /\ [Map!Next]_<<MapOf(dict), lastCall>>
<1>1. Sound(dict) /\ (DictInv' <=> Good(dict') /\ canRehash' \in BOOLEAN
                                    /\ status' \in {"live", "cleared", "crashed"})
  BY DEF MapInv, DictInv, Sound
<1>2. /\ Sound(Stepped(dict)) /\ MapOf(Stepped(dict)) = MapOf(dict)
      /\ \A k \in Keys : NotOld(dict, k) => NotOld(Stepped(dict), k)
  BY <1>1, SteppedSound, SteppedNotOld DEF Sound
<1>3. /\ Sound(Stepped(Stepped(dict))) /\ MapOf(Stepped(Stepped(dict))) = MapOf(dict)
      /\ \A k \in Keys : NotOld(dict, k) => NotOld(Stepped(Stepped(dict)), k)
  BY <1>2, SteppedSound, SteppedNotOld DEF Sound
<1>4. ASSUME NEW d, NEW k \in Keys
      PROVE  MapOf(d)[k] = ValueIn(d, k)
  BY DEF MapOf
<1>5. ASSUME NEW k \in Keys, NEW v \in Vals, addEntry(k, v)
      PROVE  Sound(dict') /\ Map!Add(k, v)
  <2> DEFINE d == Stepped(dict)
  <2>1. /\ HasRoom(d, k, v)
        /\ dict' = Inserted(d, k, v)
        /\ lastCall' = Answer("add", k, IF IsNew(d, k) THEN "done" ELSE "refused")
        /\ Sound(d) /\ MapOf(d) = MapOf(dict) /\ NotOld(d, k)
    BY <1>2, <1>5 DEF addEntry, MayInsert, NotOld
  <2> HIDE DEF d
  <2>2. CASE IsNew(d, k)
    <3>1. Sound(dict') /\ MapOf(dict') = [MapOf(dict) EXCEPT ![k] = v]
      BY <2>1, <2>2, InsertedMap
    <3>2. MapOf(dict)[k] = NoVal
      BY <1>4, <2>1, <2>2, IsNewMeans DEF Sound
    <3> QED
      BY <2>1, <2>2, <3>1, <3>2 DEF Map!Add, Map!Answer, Answer, MapOf
  <2>3. CASE ~IsNew(d, k)
    <3>1. dict' = d
      BY <2>1, <2>3, InsertedGood DEF Sound
    <3>2. MapOf(dict)[k] # NoVal
      BY <1>4, <2>1, <2>3, IsNewMeans DEF Sound
    <3> QED
      BY <2>1, <2>3, <3>1, <3>2 DEF Map!Add, Map!Answer, Answer, MapOf
  <2> QED
    BY <2>2, <2>3
<1>6. ASSUME NEW k \in Keys, NEW v \in Vals, replace(k, v)
      PROVE  Sound(dict') /\ Map!Replace(k, v)
  <2> DEFINE d == Stepped(Stepped(dict))
  <2>1. /\ HasRoom(d, k, v)
        /\ dict' = IF IsNew(d, k) THEN Inserted(d, k, v) ELSE Assigned(Stepped(d), k, v)
        /\ lastCall' = Answer("replace", k, "done")
        /\ Sound(d) /\ MapOf(d) = MapOf(dict) /\ NotOld(d, k)
    BY <1>3, <1>6 DEF replace, MayInsert, NotOld
  <2> HIDE DEF d
  <2>2. Sound(dict') /\ MapOf(dict') = [MapOf(dict) EXCEPT ![k] = v]
    <3>1. CASE IsNew(d, k)
      BY <2>1, <3>1, InsertedMap
    <3>2. CASE ~IsNew(d, k)
      <4>1. Sound(Stepped(d)) /\ MapOf(Stepped(d)) = MapOf(dict)
        BY <2>1, SteppedSound
      <4>2. Present(Stepped(d), k)
        BY <2>1, <3>2, IsNewMeans, SteppedGood DEF Sound
      <4> QED
        BY <2>1, <3>2, <4>1, <4>2, AssignedMap
    <3> QED
      BY <3>1, <3>2
  <2> QED
    BY <2>1, <2>2 DEF Map!Replace, Map!Answer, Answer, MapOf
<1>7. ASSUME NEW k \in Keys, find(k) \/ fetchValue(k)
      PROVE  Sound(dict') /\ Map!Find(k)
  <2>1. PICK d \in {Stepped(dict), Stepped(Stepped(dict))} :
           dict' = d /\ lastCall' = Answer("find", k, ValueIn(d, k))
    BY <1>7 DEF find, fetchValue, Found
  <2>2. Sound(d) /\ MapOf(d) = MapOf(dict)
    BY <1>2, <1>3
  <2>3. ValueIn(d, k) = MapOf(dict)[k]
    BY <1>4, <2>2
  <2> QED
    BY <2>1, <2>2, <2>3 DEF Map!Find, Map!Answer, Answer, MapOf
<1>8. ASSUME NEW k \in Keys, deleteEntry(k)
      PROVE  Sound(dict') /\ Map!Delete(k)
  <2> DEFINE d == Stepped(dict)
  <2>1. /\ dict' = Deleted(d, k)
        /\ lastCall' = Answer("delete", k, IF ValueIn(d, k) = NoVal THEN "refused" ELSE "done")
        /\ Sound(d) /\ MapOf(d) = MapOf(dict)
    BY <1>2, <1>8 DEF deleteEntry
  <2> HIDE DEF d
  <2>2. Sound(dict') /\ MapOf(dict') = [MapOf(dict) EXCEPT ![k] = NoVal]
    BY <2>1, DeletedMap
  <2>3. ValueIn(d, k) = MapOf(dict)[k]
    BY <1>4, <2>1
  <2> QED
    BY <2>1, <2>2, <2>3 DEF Map!Delete, Map!Answer, Answer, MapOf
<1>9. ASSUME getRandomEntry
      PROVE  Sound(dict') /\ Map!Next
  <2>1. dict' \in {dict, Stepped(dict)}
    BY <1>9 DEF getRandomEntry
  <2>2. Sound(dict') /\ MapOf(dict') = MapOf(dict)
    BY <1>1, <1>2, <2>1
  <2>3. ASSUME EntriesOf(dict.t0) \cup EntriesOf(dict.t1) = {}
        PROVE  Map!Next
    <3>1. lastCall' = Answer("random", NoVal, "done")
      BY <1>9, <2>3 DEF getRandomEntry
    <3>2. \A k \in Keys, v \in Vals : ~Has(dict, k, v)
      <4>1. ASSUME NEW t, IsTable(t), EntriesOf(t) = {}, NEW k \in Keys, NEW v \in Vals
            PROVE  ~In(t, k, v)
        BY <4>1, ChainOfKey DEF In, Chain, EntriesOf
      <4> QED
        BY <1>1, <2>3, <4>1 DEF Has, Sound, Good, Shape
    <3>3. \A k \in Keys : MapOf(dict)[k] = NoVal
      BY <1>1, <1>4, <3>2, ValueHas DEF Sound
    <3>4. Map!Random
      BY <2>2, <3>1, <3>3 DEF Map!Random, Map!Answer, Answer, MapOf
    <3> QED
      BY <2>2, <3>4 DEF Map!Next
  <2>4. ASSUME lastCall' = NoAnswer
        PROVE  Map!Next
    BY <2>2, <2>4 DEF Map!Next, Map!Other, Map!NoAnswer, Map!Answer, NoAnswer, Answer, MapOf
  <2>5. ASSUME \E e \in Drawn(Stepped(dict)) : lastCall' = Answer("random", e.key, "done")
        PROVE  Map!Next
    <3>1. PICK e \in Drawn(Stepped(dict)) : lastCall' = Answer("random", e.key, "done")
      BY <2>5
    <3>2. e.key \in Keys /\ MapOf(dict)[e.key] # NoVal /\ NoVal \notin Keys
      BY <1>2, <1>4, DrawnHas, DictAssumption
    <3>3. Map!Random
      BY <2>2, <3>1, <3>2 DEF Map!Random, Map!Answer, Answer, MapOf
    <3> QED
      BY <2>2, <3>3 DEF Map!Next
  <2>6. Map!Next
    BY <1>9, <2>3, <2>4, <2>5 DEF getRandomEntry
  <2> QED
    BY <2>2, <2>6
<1>10. ASSUME NEW n \in Sizes, ExpandTo(n)
       PROVE  Sound(dict') /\ MapOf(dict') = MapOf(dict)
  BY <1>1, <1>10, ResizedMap DEF ExpandTo, Expandable
<1>11. ASSUME Sound(dict'), MapOf(dict') = MapOf(dict), lastCall' = NoAnswer
       PROVE  Map!Other
  BY <1>11 DEF Map!Other, Map!NoAnswer, Map!Answer, NoAnswer, Answer, MapOf
<1>12. ASSUME NEW n \in Sizes, expand(n) \/ shrink(n)
       PROVE  Sound(dict') /\ Map!Other
  <2>1. lastCall' = NoAnswer /\ (ExpandTo(n) \/ dict' = dict)
    BY <1>12 DEF expand, shrink
  <2>2. Sound(dict') /\ MapOf(dict') = MapOf(dict)
    BY <1>1, <1>10, <2>1
  <2> QED
    BY <1>11, <2>1, <2>2
<1>13. ASSUME NEW b \in BOOLEAN, setCanRehash(b) \/ clear
       PROVE  Sound(dict') /\ Map!Other
  <2>1. lastCall' = NoAnswer /\ dict' = dict
    BY <1>13 DEF setCanRehash, clear
  <2> QED
    BY <1>1, <1>11, <2>1
<1>14. CASE UNCHANGED vars
  <2>1. dict' = dict /\ lastCall' = lastCall
    BY <1>14 DEF vars
  <2> QED
    BY <1>1, <2>1 DEF Sound
<1>15. CASE Next
  <2>1. Sound(dict') /\ Map!Next
    BY <1>5, <1>6, <1>7, <1>8, <1>9, <1>12, <1>13, <1>15 DEF Next, Map!Next
  <2> QED
    BY <2>1 DEF Sound
<1> QED
  BY <1>14, <1>15
-----------------------------------------------------------------------------
(* The inductive invariant: sound tables, and nothing behind rehashIndex.  *)
THEOREM DictInvariant == Spec => []DictInv
<1>1. Init => DictInv
  BY InitSound
<1>2. DictInv /\ [Next]_vars => DictInv'
  BY StepKeepsDictInv
<1> QED
  BY <1>1, <1>2, PTL DEF Spec

(* The tables have legal sizes, and the second one is there exactly while  *)
(* entries move to it.                                                     *)
THEOREM DictTypes == Spec => []TypeOK
<1>1. DictInv => TypeOK
  BY DEF DictInv, Good, TypeOK
<1> QED
  BY <1>1, DictInvariant, PTL

(* Every entry lies in the chain where findEntry looks for its key, and no *)
(* table holds a key twice, however calls and steps of a rehash alternate, *)
(* and whether or not callers insert what the old table holds.             *)
THEOREM EntriesAreFound == Spec => []EntriesWhereFound
<1>1. DictInv => EntriesWhereFound
  BY DEF DictInv, Good, EntriesWhereFound
<1> QED
  BY <1>1, DictInvariant, PTL

(* rehashSteps leaves no entry behind rehashIndex, and neither insertion   *)
(* nor assignment puts one there.                                          *)
THEOREM NothingIsLeftBehind == Spec => []NothingLeftBehind
<1>1. DictInv => NothingLeftBehind
  BY DEF DictInv, Good, NothingLeftBehind
<1> QED
  BY <1>1, DictInvariant, PTL

(* Both together: no step of a rehash hides an entry from the calls.       *)
THEOREM NoEntryIsHidden == Spec => []NoEntryHidden
<1>1. DictInv => NoEntryHidden
  BY DEF DictInv, Good, EntriesWhereFound, NothingLeftBehind, NoEntryHidden
<1> QED
  BY <1>1, DictInvariant, PTL

(* For callers that do not insert what the old table still holds, Dict is  *)
(* the map of KeyMap: they see nothing of the rehash.                      *)
THEOREM DictImplementsMap ==
  ASSUME ~ReinsertsOld
  PROVE  Spec => ImplementsMap
<1>1. Init => MapInv /\ Map!Init
  <2>1. Init => MapInv /\ MapOf(dict) = [k \in Keys |-> NoVal]
    BY InitSound DEF MapInv
  <2> QED
    BY <2>1 DEF Init, Map!Init, Map!NoAnswer, Map!Answer, NoAnswer, Answer, MapOf
<1>2. MapInv /\ [Next]_vars => MapInv'
  BY StepKeepsDictInv, StepIsMapStep DEF MapInv
<1>3. MapInv /\ [Next]_vars => [Map!Next]_<<[k \in Keys |-> ValueIn(dict, k)], lastCall>>
  BY StepIsMapStep DEF MapOf
<1> QED
  BY <1>1, <1>2, <1>3, PTL DEF Spec, ImplementsMap, Map!Spec
-----------------------------------------------------------------------------
(* The scan *)

(* s before t in the order of the reversed bits: where they differ first,  *)
(* t has a bit of the mask M that s has not.                               *)
Precedes(s, t, M) ==
  \E b \in t \ s : \A c \in M : c < b => (c \in s <=> c \in t)

(* The slots of the smaller table that were scanned are the ones before    *)
(* the cursor, all of them when the cursor is back at 0.                   *)
ScanInv ==
  /\ sizes[1] # 0
  /\ cursor \subseteq Bits
  /\ ~broken =>
       /\ scan \in {"going", "ended", "outside"}
       /\ scan = "outside" => sizes[2] # 0
       /\ scan # "ended" => \A slot \in Slots(sizes[1]) :
            visits[1][slot] =
              IF Precedes(slot, cursor \cap Mask(sizes[1]), Mask(sizes[1])) THEN 1 ELSE 0
       /\ scan = "ended" => \A slot \in Slots(sizes[1]) : visits[1][slot] = 1

LEMMA LeastBit ==
  ASSUME NEW T \in SUBSET Bits, T # {}
  PROVE  \E x \in T : \A y \in T : x <= y
<1> T \in SUBSET Nat
  BY DictScanAssumption DEF Bits
<1> QED BY LeastExists

(* The greatest bit is the least distance from the top.                    *)
LEMMA GreatestBit ==
  ASSUME NEW T \in SUBSET Bits, T # {}
  PROVE  \E x \in T : \A y \in T : x >= y
<1> DEFINE U == {Width - 1 - x : x \in T}
<1>0. \A x \in T : x \in Nat /\ Width - 1 - x \in Nat
  BY DictScanAssumption DEF Bits
<1>1. U \in SUBSET Nat /\ U # {}
  <2>1. U \subseteq Nat
    BY <1>0
  <2>2. PICK x \in T : TRUE
    OBVIOUS
  <2>3. Width - 1 - x \in U
    OBVIOUS
  <2> QED BY <2>1, <2>3
<1>2. PICK u \in U : \A v \in U : u <= v
  <2> HIDE DEF U
  <2> QED BY <1>1, LeastExists
<1>3. PICK x \in T : u = Width - 1 - x
  BY <1>2
<1>4. ASSUME NEW y \in T PROVE x >= y
  <2>1. Width - 1 - y \in U
    OBVIOUS
  <2>2. Width - 1 - x <= Width - 1 - y
    BY <1>2, <1>3, <2>1
  <2> QED BY <2>2, DictScanAssumption DEF Bits
<1> QED BY <1>4

(* What comes before all of the mask is every other part of it.            *)
LEMMA AllPrecedeLast ==
  ASSUME NEW M \in SUBSET Bits, NEW s \in SUBSET M, s # M
  PROVE  Precedes(s, M, M)
<1>1. PICK b \in M \ s : \A y \in M \ s : b <= y
  BY LeastBit
<1>2. ASSUME NEW c \in M, c < b PROVE c \in s <=> c \in M
  BY <1>1, <1>2, DictScanAssumption DEF Bits
<1> QED BY <1>1, <1>2 DEF Precedes

(* The slot of the next cursor comes right after slot k: it has the        *)
(* highest bit that k lacks, and of the others only those below it.        *)
LEMMA NextPrecedes ==
  ASSUME NEW M \in SUBSET Bits, NEW k \in SUBSET M, NEW s \in SUBSET M,
         NEW high \in M \ k, \A c \in M \ k : high >= c
  PROVE  LET next == {b \in k : b < high} \cup {high}
         IN Precedes(s, next, M) <=> (Precedes(s, k, M) \/ s = k)
<1> DEFINE next == {b \in k : b < high} \cup {high}
<1>0. \A c \in M : c \in Nat
  BY DictScanAssumption DEF Bits
<1>1. ASSUME s = k PROVE Precedes(s, next, M)
  <2>1. high \in next \ s
    BY <1>1
  <2>2. ASSUME NEW c \in M, c < high PROVE c \in s <=> c \in next
    BY <1>0, <1>1, <2>2
  <2> QED BY <2>1, <2>2 DEF Precedes
<1>2. ASSUME Precedes(s, k, M) PROVE Precedes(s, next, M)
  <2>1. PICK b \in k \ s : \A c \in M : c < b => (c \in s <=> c \in k)
    BY <1>2 DEF Precedes
  <2>2. CASE b < high
    <3>1. b \in next \ s
      BY <2>1, <2>2
    <3>2. ASSUME NEW c \in M, c < b PROVE c \in s <=> c \in next
      BY <1>0, <2>1, <2>2, <3>2
    <3> QED BY <3>1, <3>2 DEF Precedes
  <2>3. CASE high < b
    <3>1. high \in next \ s
      BY <2>1, <2>3
    <3>2. ASSUME NEW c \in M, c < high PROVE c \in s <=> c \in next
      BY <1>0, <2>1, <2>3, <3>2
    <3> QED BY <3>1, <3>2 DEF Precedes
  <2> QED BY <1>0, <2>2, <2>3
<1>3. ASSUME Precedes(s, next, M), s # k PROVE Precedes(s, k, M)
  <2>1. PICK b \in next \ s : \A c \in M : c < b => (c \in s <=> c \in next)
    BY <1>3 DEF Precedes
  <2>2. CASE b # high
    <3>1. b \in k \ s /\ b < high
      BY <2>1, <2>2
    <3>2. ASSUME NEW c \in M, c < b PROVE c \in s <=> c \in k
      BY <1>0, <2>1, <3>1, <3>2
    <3> QED BY <3>1, <3>2 DEF Precedes
  <2>3. CASE b = high
    <3>1. ASSUME NEW c \in M, c < high PROVE c \in s <=> c \in k
      BY <1>0, <2>1, <2>3, <3>1
    <3>2. ASSUME NEW c \in M, c > high PROVE c \in k
      BY <1>0, <3>2
    <3>3. high \notin s
      BY <2>1, <2>3
    <3>4. \A c \in s : c \in k
      BY <1>0, <3>1, <3>2, <3>3
    <3>5. k \ s # {}
      BY <1>3, <3>4
    <3>6. PICK d \in k \ s : \A y \in k \ s : d <= y
      BY <3>5, LeastBit
    <3>7. ASSUME NEW c \in M, c < d PROVE c \in s <=> c \in k
      <4>1. c \notin k \ s
        BY <1>0, <3>6, <3>7
      <4> QED BY <3>4, <4>1
    <3> QED BY <3>6, <3>7 DEF Precedes
  <2> QED BY <2>2, <2>3
<1> QED BY <1>1, <1>2, <1>3

(* The part of the next cursor that lies in the mask.                      *)
LEMMA NextCursorIs ==
  ASSUME NEW c \in SUBSET Bits, NEW size
  PROVE  LET M    == Mask(size)
             next == NextCursor(c, size)
         IN /\ M \subseteq c => next = {}
            /\ ~(M \subseteq c) =>
                 /\ next # {} /\ next \subseteq Bits
                 /\ \E high \in M \ c :
                      /\ \A d \in M \ c : high >= d
                      /\ next \cap M = {b \in c \cap M : b < high} \cup {high}
<1> DEFINE M == Mask(size)
           full == c \cup (Bits \ M)
           unset == Bits \ full
           high == CHOOSE b \in unset : \A d \in unset : b >= d
           next == NextCursor(c, size)
<1>1. M \subseteq Bits
  BY DEF Mask
<1>2. unset = M \ c
  BY <1>1
<1>3. next = IF unset = {} THEN {} ELSE {b \in full : b < high} \cup {high}
  BY DEF NextCursor, IncrementHigh
<1>4. ASSUME ~(M \subseteq c)
      PROVE  /\ next # {} /\ next \subseteq Bits
             /\ high \in M \ c
             /\ \A d \in M \ c : high >= d
             /\ next \cap M = {b \in c \cap M : b < high} \cup {high}
  <2>1. unset # {} /\ unset \in SUBSET Bits
    BY <1>2, <1>4
  <2>2. \E b \in unset : \A d \in unset : b >= d
    <3> HIDE DEF unset
    <3> QED BY <2>1, GreatestBit
  <2>3. high \in unset /\ \A d \in unset : high >= d
    <3> HIDE DEF unset
    <3> QED BY <2>2
  <2>4. next = {b \in full : b < high} \cup {high}
    BY <1>3, <2>1
  <2>5. full \cap M = c \cap M /\ full \subseteq Bits
    BY <1>1
  <2> HIDE DEF next, high, full, unset, M
  <2> QED BY <1>1, <1>2, <2>3, <2>4, <2>5
<1> QED BY <1>2, <1>3, <1>4

LEMMA ScanStarts == DictScanInit => ScanInv
<1> SUFFICES ASSUME DictScanInit PROVE ScanInv
  OBVIOUS
<1>1. PICK t \in Tables : sizes = IF t[2] # 0 /\ t[2] < t[1] THEN <<t[2], t[1]>> ELSE t
  BY DEF DictScanInit
<1>2. sizes[1] # 0
  BY <1>1, DictScanAssumption
<1>3. \A slot \in Slots(sizes[1]) : visits[1][slot] = 0
  BY DEF DictScanInit
<1>4. \A slot : ~Precedes(slot, cursor \cap Mask(sizes[1]), Mask(sizes[1]))
  BY DEF DictScanInit, Precedes
<1> QED BY <1>2, <1>3, <1>4 DEF ScanInv, DictScanInit

LEMMA ScanStep == ScanInv /\ [DictScanNext]_scanVars => ScanInv'
<1> SUFFICES ASSUME ScanInv, [DictScanNext]_scanVars PROVE ScanInv'
  OBVIOUS
<1>1. CASE UNCHANGED scanVars
  BY <1>1 DEF scanVars, ScanInv
<1>2. CASE DictScanNext
  <2> DEFINE M == Mask(sizes[1])
             k == cursor \cap M
  <2>0. /\ scan = "going" /\ UNCHANGED sizes /\ sizes[1] # 0 /\ cursor \subseteq Bits
        /\ Slots(sizes[1]) = SUBSET M /\ M \subseteq Bits
    BY <1>2 DEF DictScanNext, dictScanOneStep, ScanInv, Slots, Mask
  <2>1. CASE \E i \in {1, 2} : \E slot \in Scanned[i] : OutOfTable(slot, sizes[i])
    <3>1. scan' = "outside" /\ UNCHANGED <<cursor, visits, broken>>
      BY <1>2, <2>1 DEF DictScanNext, dictScanOneStep
    <3>2. sizes[2] # 0
      <4>1. ~OutOfTable(k, sizes[1])
        BY DEF OutOfTable
      <4>2. PICK i \in {1, 2} : \E slot \in Scanned[i] : OutOfTable(slot, sizes[i])
        BY <2>1
      <4>3. ASSUME sizes[2] = 0 PROVE FALSE
        <5>1. Scanned = <<{k}, {}>>
          BY <4>3 DEF Scanned
        <5>2. Scanned[1] = {k} /\ Scanned[2] = {}
          BY <5>1
        <5> QED BY <4>1, <4>2, <5>2
      <4> QED BY <4>3
    <3> QED BY <2>0, <3>1, <3>2 DEF ScanInv
  <2>2. CASE ~(\E i \in {1, 2} : \E slot \in Scanned[i] : OutOfTable(slot, sizes[i]))
    <3>1. /\ visits' = [i \in {1, 2} |-> [slot \in Slots(sizes[i]) |->
                          visits[i][slot] + (IF slot \in Scanned[i] THEN 1 ELSE 0)]]
          /\ \/ cursor' = NextCursor(cursor, sizes[1]) /\ UNCHANGED broken
             \/ ~broken /\ cursor' = Bits /\ broken' = TRUE
          /\ scan' = IF cursor' = {} THEN "ended" ELSE "going"
      BY <1>2, <2>2 DEF DictScanNext, dictScanOneStep
    <3>2. CASE broken'
      <4>1. NextCursor(cursor, sizes[1]) \subseteq Bits
        BY <2>0, NextCursorIs
      <4> QED BY <2>0, <3>1, <3>2, <4>1 DEF ScanInv
    <3>3. CASE ~broken'
      <4>1. ~broken /\ cursor' = NextCursor(cursor, sizes[1])
        BY <3>1, <3>3
      <4>2. Scanned[1] = {k}
        BY DEF Scanned
      <4>3. \A slot \in SUBSET M :
              visits[1][slot] = IF Precedes(slot, k, M) THEN 1 ELSE 0
        BY <2>0, <4>1 DEF ScanInv
      <4>4. ~Precedes(k, k, M)
        BY DEF Precedes
      <4>5. \A slot \in SUBSET M :
              visits'[1][slot] = IF Precedes(slot, k, M) \/ slot = k THEN 1 ELSE 0
        <5>1. \A slot \in SUBSET M :
                visits'[1][slot] = visits[1][slot] + (IF slot = k THEN 1 ELSE 0)
          BY <2>0, <3>1, <4>2
        <5> HIDE DEF M, k
        <5> QED BY <4>3, <4>4, <5>1
      <4>6. CASE M \subseteq cursor
        <5>1. cursor' = {} /\ scan' = "ended" /\ k = M
          BY <2>0, <3>1, <4>1, <4>6, NextCursorIs
        <5>2. \A slot \in SUBSET M : Precedes(slot, k, M) \/ slot = k
          <6>1. M \in SUBSET Bits
            BY <2>0
          <6> HIDE DEF M, k
          <6> QED BY <5>1, <6>1, AllPrecedeLast
        <5>3. \A slot \in SUBSET M : visits'[1][slot] = 1
          <6> HIDE DEF M, k
          <6> QED BY <4>5, <5>2
        <5> QED BY <2>0, <3>3, <5>1, <5>3 DEF ScanInv
      <4>7. CASE ~(M \subseteq cursor)
        <5>1. cursor' # {} /\ cursor' \subseteq Bits /\ scan' = "going"
          BY <2>0, <3>1, <4>1, <4>7, NextCursorIs
        <5>2. PICK high \in M \ cursor :
                /\ \A d \in M \ cursor : high >= d
                /\ cursor' \cap M = {b \in k : b < high} \cup {high}
          BY <2>0, <4>1, <4>7, NextCursorIs
        <5>3. \A slot \in SUBSET M :
                Precedes(slot, cursor' \cap M, M) <=> (Precedes(slot, k, M) \/ slot = k)
          <6>1. M \ k = M \ cursor
            OBVIOUS
          <6> HIDE DEF M, k
          <6>2. M \in SUBSET Bits /\ k \in SUBSET M
            BY <2>0 DEF k
          <6> QED BY <5>2, <6>1, <6>2, NextPrecedes
        <5>4. \A slot \in SUBSET M :
                visits'[1][slot] = IF Precedes(slot, cursor' \cap M, M) THEN 1 ELSE 0
          BY <4>5, <5>3
        <5> QED BY <2>0, <3>3, <5>1, <5>4 DEF ScanInv
      <4> QED BY <4>6, <4>7
    <3> QED BY <3>2, <3>3
  <2> QED BY <2>1, <2>2
<1> QED BY <1>1, <1>2

(* A scan that scanProc lets go on has scanned no slot twice and at its    *)
(* end all of them, for every size of the table: that the masks have gaps  *)
(* does no harm.                                                           *)
THEOREM ScanIsComplete == DictScanSpec => []EachSlotOnce
<1>1. ScanInv => EachSlotOnce
  <2> SUFFICES ASSUME ScanInv, ~broken PROVE
         /\ sizes[2] = 0 => scan # "outside"
         /\ \A slot \in Slots(sizes[1]) :
              /\ visits[1][slot] <= 1
              /\ scan = "ended" => visits[1][slot] = 1
    BY DEF EachSlotOnce
  <2>1. \A slot \in Slots(sizes[1]) : visits[1][slot] \in {0, 1}
    BY DEF ScanInv
  <2> QED BY <2>1 DEF ScanInv
<1> QED BY <1>1, ScanStarts, ScanStep, PTL DEF DictScanSpec
-----------------------------------------------------------------------------
(* What holds at 0, and from each number on to the next, fails nowhere.    *)
LEMMA NoneFails ==
  ASSUME NEW n \in Nat, NEW T, 0 \in T, \A i \in 0..(n - 1) : i \in T => i + 1 \in T
  PROVE  \A i \in 0..n : i \in T
<1> DEFINE F == {i \in 0..n : i \notin T}
<1>1. ASSUME F # {} PROVE FALSE
  <2>1. F \in SUBSET Nat
    OBVIOUS
  <2>2. PICK i \in F : \A j \in F : i <= j
    <3> HIDE DEF F
    <3> QED BY <1>1, <2>1, LeastExists
  <2>3. i # 0 /\ i \in 1..n
    OBVIOUS
  <2>4. i - 1 \in 0..(n - 1) /\ ~(i <= i - 1)
    BY <2>3
  <2>5. i - 1 \in T
    BY <2>2, <2>4
  <2>6. (i - 1) + 1 = i
    BY <2>3
  <2> QED BY <2>4, <2>5, <2>6
<1> QED BY <1>1
-----------------------------------------------------------------------------
(* The skip list: the order of its nodes, by score, then object; of two    *)
(* that have the same of both the later one comes first.  The header comes *)
(* before all.                                                             *)

Before(s, m, n) ==
  /\ n # Header
  /\ m # Header =>
       \/ s.score[m] < s.score[n]
       \/ s.score[m] = s.score[n] /\ (s.obj[m] < s.obj[n] \/ (s.obj[m] = s.obj[n] /\ n < m))

(* Scores, objects and the number of nodes are what they should be.        *)
Keyed(s) == s.score \in [Nodes -> Int] /\ s.obj \in [Nodes -> Int] /\ s.created \in Nodes

LEMMA NodesAreNumbers ==
  /\ Nodes \in SUBSET Nat /\ Header \in Nodes /\ NullNode \notin Nodes
  /\ MaxNodes \in Nat /\ Header # NullNode
  /\ \A c \in Nodes : 1..c \subseteq Nodes /\ Header \notin 1..c
BY SkipListAssumption DEF Nodes, Header, NullNode

LEMMA NodesAreFinite ==
  ASSUME NEW S \in SUBSET Nodes
  PROVE  IsFiniteSet(S) /\ Cardinality(S) \in Nat
<1>1. IsFiniteSet(Nodes)
  BY FS_Interval, SkipListAssumption DEF Nodes
<1> QED BY <1>1, FS_Subset, FS_CardinalityType

LEMMA KeysTyped ==
  ASSUME NEW s, Keyed(s)
  PROVE  \A x \in Nodes : s.score[x] \in Int /\ s.obj[x] \in Int /\ x \in Int
BY SkipListAssumption DEF Keyed, Nodes

LEMMA NotBeforeItself ==
  ASSUME NEW s, Keyed(s), NEW n \in Nodes
  PROVE  ~Before(s, n, n)
<1>1. s.score[n] \in Int /\ s.obj[n] \in Int /\ n \in Int
  BY SkipListAssumption DEF Keyed, Nodes
<1> QED BY <1>1 DEF Before, Header

LEMMA BeforeTransitive ==
  ASSUME NEW s, Keyed(s), NEW k \in Nodes, NEW m \in Nodes, NEW n \in Nodes,
         Before(s, k, m), Before(s, m, n)
  PROVE  Before(s, k, n)
<1>1. \A x \in Nodes : s.score[x] \in Int /\ s.obj[x] \in Int /\ x \in Int
  BY KeysTyped
<1> QED BY <1>1 DEF Before, Header

LEMMA BeforeTotal ==
  ASSUME NEW s, Keyed(s), NEW m \in Nodes, NEW n \in Nodes, m # n
  PROVE  Before(s, m, n) \/ Before(s, n, m)
<1>1. \A x \in Nodes : s.score[x] \in Int /\ s.obj[x] \in Int /\ x \in Int
  BY KeysTyped
<1> QED BY <1>1 DEF Before, Header

LEMMA BeforeFacts ==
  ASSUME NEW s, Keyed(s)
  PROVE  /\ \A n \in Nodes : ~Before(s, n, n) /\ ~Before(s, n, Header)
         /\ \A n \in Nodes : n # Header => Before(s, Header, n)
         /\ \A m, n \in Nodes : Before(s, m, n) => ~Before(s, n, m)
         /\ \A k, m, n \in Nodes : Before(s, k, m) /\ Before(s, m, n) => Before(s, k, n)
         /\ \A m, n \in Nodes : m = n \/ Before(s, m, n) \/ Before(s, n, m)
<1>1. \A n \in Nodes : ~Before(s, n, n)
  BY NotBeforeItself
<1>2. \A n \in Nodes : ~Before(s, n, Header) /\ (n # Header => Before(s, Header, n))
  BY DEF Before
<1>3. \A k, m, n \in Nodes : Before(s, k, m) /\ Before(s, m, n) => Before(s, k, n)
  BY BeforeTransitive
<1>4. \A m, n \in Nodes : m = n \/ Before(s, m, n) \/ Before(s, n, m)
  BY BeforeTotal
<1> QED BY <1>1, <1>2, <1>3, <1>4

(* How many nodes come behind one: a link leads to a node with fewer.      *)
Height(s) == [n \in Nodes |-> Cardinality({m \in Nodes : Before(s, n, m)})]

LEMMA HeightType ==
  ASSUME NEW s
  PROVE  /\ Height(s) \in [Nodes -> Nat]
         /\ \A n \in Nodes : Height(s)[n] <= Cardinality(Nodes)
<1>1. \A n \in Nodes : {m \in Nodes : Before(s, n, m)} \in SUBSET Nodes
  OBVIOUS
<1>2. \A n \in Nodes : /\ Cardinality({m \in Nodes : Before(s, n, m)}) \in Nat
                       /\ Cardinality({m \in Nodes : Before(s, n, m)}) <= Cardinality(Nodes)
  BY <1>1, NodesAreFinite, FS_Subset
<1> QED BY <1>2 DEF Height

LEMMA HeightDrops ==
  ASSUME NEW s, Keyed(s), NEW m \in Nodes, NEW n \in Nodes, Before(s, m, n)
  PROVE  Height(s)[n] < Height(s)[m]
<1> DEFINE B(x) == {k \in Nodes : Before(s, x, k)}
<1>1. B(n) \subseteq B(m) /\ n \in B(m) /\ n \notin B(n)
  BY BeforeFacts
<1>2. IsFiniteSet(B(m))
  BY NodesAreFinite
<1>3. Cardinality(B(n)) < Cardinality(B(m))
  <2> HIDE DEF B
  <2> QED BY <1>1, <1>2, FS_Subset, FS_CardinalityType
<1> QED BY <1>3 DEF Height

(* Of some nodes one comes last, and one first.                            *)
LEMMA LastNode ==
  ASSUME NEW s, Keyed(s), NEW U \in SUBSET Nodes, U # {}
  PROVE  \E x \in U : \A y \in U : ~Before(s, x, y)
<1> DEFINE T == {Height(s)[x] : x \in U}
<1>1. T \in SUBSET Nat /\ T # {}
  BY HeightType
<1>2. PICK h \in T : \A k \in T : h <= k
  <2> HIDE DEF T
  <2> QED BY <1>1, LeastExists
<1>3. PICK x \in U : h = Height(s)[x]
  BY <1>2
<1>4. ASSUME NEW y \in U, Before(s, x, y) PROVE FALSE
  <2>1. Height(s)[y] < Height(s)[x] /\ Height(s)[y] \in T
    BY <1>4, HeightDrops
  <2>2. h <= Height(s)[y] /\ h \in Nat /\ Height(s)[y] \in Nat
    BY <2>1, <1>1, <1>2
  <2> QED BY <2>1, <2>2, <1>3
<1> QED BY <1>4

LEMMA FirstNode ==
  ASSUME NEW s, Keyed(s), NEW U \in SUBSET Nodes, U # {}
  PROVE  \E x \in U : \A y \in U : ~Before(s, y, x)
<1> DEFINE h(x) == Cardinality({m \in Nodes : Before(s, m, x)})
           T == {h(x) : x \in U}
<1>1. \A x \in Nodes : h(x) \in Nat
  BY NodesAreFinite
<1>2. T \in SUBSET Nat /\ T # {}
  BY <1>1
<1>3. PICK c \in T : \A k \in T : c <= k
  <2> HIDE DEF T
  <2> QED BY <1>2, LeastExists
<1>4. PICK x \in U : c = h(x)
  BY <1>3
<1>5. ASSUME NEW y \in U, Before(s, y, x) PROVE FALSE
  <2> DEFINE B(z) == {m \in Nodes : Before(s, m, z)}
  <2>1. B(y) \subseteq B(x) /\ y \in B(x) /\ y \notin B(y)
    BY <1>5, BeforeFacts
  <2>2. IsFiniteSet(B(x))
    BY NodesAreFinite
  <2>3. Cardinality(B(y)) < Cardinality(B(x))
    <3> HIDE DEF B
    <3> QED BY <2>1, <2>2, FS_Subset, FS_CardinalityType
  <2>4. c <= h(y) /\ h(y) \in Nat /\ c \in Nat
    BY <1>1, <1>3, <1>2
  <2> QED BY <2>3, <2>4, <1>4
<1> QED BY <1>5
-----------------------------------------------------------------------------
(* The place of a node among others: how many of them come no later.       *)

Inner == Nodes \ {Header}

Place(s, S, n) == Cardinality({m \in S : ~Before(s, n, m)})

LEMMA PlaceType ==
  ASSUME NEW s, NEW S \in SUBSET Inner, NEW n
  PROVE  Place(s, S, n) \in Nat /\ Place(s, S, n) <= Cardinality(S)
<1>1. IsFiniteSet(S)
  BY NodesAreFinite DEF Inner
<1>2. {m \in S : ~Before(s, n, m)} \in SUBSET S
  OBVIOUS
<1> QED BY <1>1, <1>2, FS_Subset, FS_CardinalityType DEF Place

LEMMA PlaceOfHeader ==
  ASSUME NEW s, Keyed(s), NEW S \in SUBSET Inner
  PROVE  Place(s, S, Header) = 0
<1>1. {m \in S : ~Before(s, Header, m)} = {}
  BY BeforeFacts DEF Inner
<1> QED BY <1>1, FS_EmptySet DEF Place

LEMMA PlaceGrows ==
  ASSUME NEW s, Keyed(s), NEW S \in SUBSET Inner, NEW m \in Nodes, NEW n \in Nodes,
         ~Before(s, n, m)
  PROVE  /\ Place(s, S, m) <= Place(s, S, n)
         /\ n \in S /\ m # n => Place(s, S, m) < Place(s, S, n)
<1> DEFINE B(x) == {k \in S : ~Before(s, x, k)}
<1>1. S \subseteq Nodes /\ IsFiniteSet(S)
  BY NodesAreFinite DEF Inner
<1>2. B(m) \subseteq B(n)
  <2> SUFFICES ASSUME NEW k \in S, ~Before(s, m, k), Before(s, n, k) PROVE FALSE
    OBVIOUS
  <2>1. k \in Nodes
    BY <1>1
  <2>2. k = m \/ Before(s, k, m)
    BY <2>1, BeforeTotal
  <2> QED BY <2>1, <2>2, BeforeTransitive
<1>3. IsFiniteSet(B(n))
  BY <1>1, FS_Subset
<1>4. n \in S /\ m # n => n \in B(n) /\ n \notin B(m)
  BY BeforeFacts
<1> HIDE DEF B
<1>5. Cardinality(B(m)) <= Cardinality(B(n)) /\ (n \in S /\ m # n => Cardinality(B(m)) # Cardinality(B(n)))
  BY <1>2, <1>3, <1>4, FS_Subset
<1>6. Cardinality(B(m)) \in Nat /\ Cardinality(B(n)) \in Nat
  BY <1>2, <1>3, FS_Subset, FS_CardinalityType
<1>7. Place(s, S, m) = Cardinality(B(m)) /\ Place(s, S, n) = Cardinality(B(n))
  BY DEF Place, B
<1> QED BY <1>5, <1>6, <1>7

LEMMA PlaceOfNext ==
  ASSUME NEW s, Keyed(s), NEW S \in SUBSET Inner, NEW m \in Nodes, NEW n \in S,
         Before(s, m, n), \A k \in S : Before(s, m, k) => ~Before(s, k, n)
  PROVE  Place(s, S, n) = Place(s, S, m) + 1
<1> DEFINE B(x) == {k \in S : ~Before(s, x, k)}
<1>1. S \subseteq Nodes /\ IsFiniteSet(S) /\ n \in Nodes
  BY NodesAreFinite DEF Inner
<1>2. B(n) = B(m) \cup {n} /\ n \notin B(m)
  <2>1. ASSUME NEW k \in S PROVE ~Before(s, n, k) <=> ~Before(s, m, k) \/ k = n
    <3>1. k \in Nodes
      BY <1>1
    <3> QED BY <3>1, <1>1, BeforeFacts
  <2> QED BY <2>1, BeforeFacts
<1>3. IsFiniteSet(B(m))
  BY <1>1, FS_Subset
<1>4. Cardinality(B(n)) = Cardinality(B(m)) + 1
  <2> HIDE DEF B
  <2> QED BY <1>2, <1>3, FS_AddElement
<1> QED BY <1>4 DEF Place

LEMMA PlaceOfLast ==
  ASSUME NEW s, NEW S, NEW n, \A m \in S : ~Before(s, n, m)
  PROVE  Place(s, S, n) = Cardinality(S)
<1>1. {m \in S : ~Before(s, n, m)} = S
  OBVIOUS
<1> QED BY <1>1 DEF Place

LEMMA PlaceWith ==
  ASSUME NEW s, NEW S \in SUBSET Inner, NEW x \in Inner, x \notin S, NEW n
  PROVE  Place(s, S \cup {x}, n) = IF Before(s, n, x) THEN Place(s, S, n) ELSE Place(s, S, n) + 1
<1> DEFINE B(T) == {k \in T : ~Before(s, n, k)}
<1>1. IsFiniteSet(S)
  BY NodesAreFinite DEF Inner
<1>2. IsFiniteSet(B(S)) /\ x \notin B(S)
  BY <1>1, FS_Subset
<1>3. B(S \cup {x}) = IF Before(s, n, x) THEN B(S) ELSE B(S) \cup {x}
  OBVIOUS
<1>4. Cardinality(B(S \cup {x})) = IF Before(s, n, x) THEN Cardinality(B(S)) ELSE Cardinality(B(S)) + 1
  <2> HIDE DEF B
  <2> QED BY <1>2, <1>3, FS_AddElement
<1> QED BY <1>4 DEF Place

LEMMA PlaceWithout ==
  ASSUME NEW s, NEW S \in SUBSET Inner, NEW x \in S, NEW n
  PROVE  Place(s, S \ {x}, n) = IF Before(s, n, x) THEN Place(s, S, n) ELSE Place(s, S, n) - 1
<1>1. S \ {x} \in SUBSET Inner /\ x \in Inner /\ x \notin S \ {x} /\ (S \ {x}) \cup {x} = S
  OBVIOUS
<1>2. \A T \in SUBSET Inner : x \notin T =>
        Place(s, T \cup {x}, n) = IF Before(s, n, x) THEN Place(s, T, n) ELSE Place(s, T, n) + 1
  BY <1>1, PlaceWith
<1>4. Place(s, (S \ {x}) \cup {x}, n)
        = IF Before(s, n, x) THEN Place(s, S \ {x}, n) ELSE Place(s, S \ {x}, n) + 1
  BY <1>1, <1>2
<1>3. Place(s, S \ {x}, n) \in Nat
  BY <1>1, PlaceType
<1> QED BY <1>1, <1>3, <1>4

(* Every number up to how many there are is the place of one of them.      *)
LEMMA PlacesTaken ==
  ASSUME NEW s, Keyed(s), NEW S \in SUBSET Inner, NEW i \in 0..Cardinality(S)
  PROVE  \E n \in S \cup {Header} : Place(s, S, n) = i
<1> DEFINE T == {j \in Nat : \E n \in S \cup {Header} : Place(s, S, n) = j}
<1>0. S \subseteq Nodes /\ Header \in Nodes /\ Cardinality(S) \in Nat
  BY NodesAreFinite, NodesAreNumbers DEF Inner
<1>1. 0 \in T
  BY PlaceOfHeader
<1>2. ASSUME NEW j \in 0..(Cardinality(S) - 1), j \in T PROVE j + 1 \in T
  <2>1. PICK n \in S \cup {Header} : Place(s, S, n) = j
    BY <1>2
  <2> DEFINE U == {m \in S : Before(s, n, m)}
  <2>2. U # {}
    BY <2>1, <1>0, PlaceOfLast
  <2>3. PICK x \in U : \A y \in U : ~Before(s, y, x)
    <3>1. U \in SUBSET Nodes
      BY <1>0
    <3> HIDE DEF U
    <3> QED BY <2>2, <3>1, FirstNode
  <2>4. Place(s, S, x) = Place(s, S, n) + 1
    BY <2>3, <1>0, PlaceOfNext
  <2> QED BY <2>1, <2>4
<1>3. \A j \in 0..Cardinality(S) : j \in T
  <2> HIDE DEF T
  <2> QED BY <1>0, <1>1, <1>2, NoneFails
<1> QED BY <1>3
-----------------------------------------------------------------------------
(* Links lead from a node to a later one, in the list or out of it, so     *)
(* that every loop along them ends.                                        *)

Upward(s) ==
  \A n \in Nodes, l \in Towers : s.next[n][l] # NullNode =>
    n <= s.created /\ s.next[n][l] \in 1..s.created /\ Before(s, n, s.next[n][l])

(* f is computed along links that go on while they lead to A, with G, and  *)
(* B where they end; such a function exists when every link leads down.    *)
Along(f, D, nx, A, G, B) ==
  \A n \in D : f[n] = IF nx[n] \in A THEN G[n][f[nx[n]]] ELSE B[n]

Falling(D, nx, A, h, top) ==
  /\ h \in [D -> Nat] /\ \A n \in D : h[n] <= top
  /\ \A n \in D : nx[n] \in A => nx[n] \in D /\ h[nx[n]] < h[n]

Computing(D, V, G, B) == B \in [D -> V] /\ G \in [D -> [V -> V]]

LEMMA AlongExists ==
  ASSUME NEW D, NEW h, NEW top \in Nat, NEW nx, NEW A, Falling(D, nx, A, h, top),
         NEW V, NEW G, NEW B, Computing(D, V, G, B)
  PROVE  \E f \in [D -> V] : Along(f, D, nx, A, G, B)
<1>a. h \in [D -> Nat] /\ \A n \in D : h[n] <= top
  BY DEF Falling
<1>b. \A n \in D : nx[n] \in A => nx[n] \in D /\ h[nx[n]] < h[n]
  BY DEF Falling
<1>c. (\A n \in D : B[n] \in V) /\ \A n \in D : G[n] \in [V -> V]
  BY DEF Computing
<1> DEFINE Eq(f, n) == f[n] = IF nx[n] \in A THEN G[n][f[nx[n]]] ELSE B[n]
           T == {k \in Nat : \E f \in [D -> V] : \A n \in D : h[n] < k => Eq(f, n)}
<1>1. 0 \in T
  <2>1. [n \in D |-> B[n]] \in [D -> V]
    BY <1>c
  <2>2. \A n \in D : ~(h[n] < 0)
    BY <1>a
  <2> HIDE DEF Eq
  <2> QED BY <2>1, <2>2
<1>2. ASSUME NEW k \in 0..top, k \in T PROVE k + 1 \in T
  <2>1. PICK f \in [D -> V] : \A n \in D : h[n] < k => Eq(f, n)
    BY <1>2
  <2> DEFINE g == [n \in D |-> IF h[n] < k THEN f[n]
                               ELSE IF nx[n] \in A THEN G[n][f[nx[n]]] ELSE B[n]]
  <2>2. g \in [D -> V]
    <3>1. ASSUME NEW n \in D PROVE g[n] \in V
      <4>1. nx[n] \in A => f[nx[n]] \in V
        BY <1>b
      <4> QED BY <4>1, <1>c
    <3> QED BY <3>1
  <2>3. ASSUME NEW n \in D, h[n] < k + 1 PROVE Eq(g, n)
    <3>1. h[n] \in Nat /\ k \in Nat
      BY <1>a
    <3>2. nx[n] \in A => nx[n] \in D /\ h[nx[n]] \in Nat /\ h[nx[n]] < h[n]
      BY <1>a, <1>b
    <3>3. nx[n] \in A => h[nx[n]] < k
      BY <2>3, <3>1, <3>2
    <3>4. nx[n] \in A => g[nx[n]] = f[nx[n]]
      BY <3>2, <3>3
    <3>5. h[n] < k => f[n] = IF nx[n] \in A THEN G[n][f[nx[n]]] ELSE B[n]
      BY <2>1
    <3>6. g[n] = IF nx[n] \in A THEN G[n][f[nx[n]]] ELSE B[n]
      BY <3>5
    <3> HIDE DEF g
    <3> QED BY <3>4, <3>6
  <2>4. k + 1 \in Nat
    OBVIOUS
  <2> HIDE DEF Eq, g
  <2> QED BY <2>2, <2>3, <2>4
<1>3. \A k \in 0..(top + 1) : k \in T
  <2>1. top + 1 \in Nat /\ (top + 1) - 1 = top
    OBVIOUS
  <2>2. \A k \in 0..((top + 1) - 1) : k \in T => k + 1 \in T
    BY <1>2, <2>1
  <2> HIDE DEF T
  <2> QED BY <1>1, <2>1, <2>2, NoneFails
<1>4. top + 1 \in T
  BY <1>3
<1>5. PICK f \in [D -> V] : \A n \in D : h[n] < top + 1 => Eq(f, n)
  BY <1>4
<1>6. \A n \in D : h[n] < top + 1
  BY <1>a
<1> QED BY <1>5, <1>6 DEF Along

LEMMA LinksFall ==
  ASSUME NEW s, Keyed(s), Upward(s), NEW l \in Towers, NEW n \in Nodes, s.next[n][l] # NullNode
  PROVE  /\ s.next[n][l] \in Nodes /\ Before(s, n, s.next[n][l])
         /\ Height(s)[s.next[n][l]] < Height(s)[n]
<1>1. s.next[n][l] \in 1..s.created /\ Before(s, n, s.next[n][l])
  BY DEF Upward
<1>2. s.next[n][l] \in Nodes
  BY <1>1, NodesAreNumbers DEF Keyed
<1> QED BY <1>1, <1>2, HeightDrops

LEMMA LinksAreFalling ==
  ASSUME NEW s, Keyed(s), Upward(s), NEW l \in Towers, NEW A, NullNode \notin A
  PROVE  Falling(Nodes, [n \in Nodes |-> s.next[n][l]], A, Height(s), Cardinality(Nodes))
BY HeightType, LinksFall DEF Falling

LEMMA ReachedStep ==
  ASSUME NEW s, Keyed(s), Upward(s), NEW l \in Towers, NEW A, NullNode \notin A, NEW n \in Nodes
  PROVE  Reached(s, l, n, A) = IF s.next[n][l] \in A THEN Reached(s, l, s.next[n][l], A) ELSE n
<1> DEFINE IsWalk(f) == f = [m \in Nodes |-> LET next == s.next[m][l]
                                             IN IF next \in A THEN f[next] ELSE m]
           G == [m \in Nodes |-> [v \in Nodes |-> v]]
           B == [m \in Nodes |-> m]
           nx == [m \in Nodes |-> s.next[m][l]]
<1>0. PICK f \in [Nodes -> Nodes] : Along(f, Nodes, nx, A, G, B)
  <2>1. Computing(Nodes, Nodes, G, B)
    BY DEF Computing
  <2>2. Falling(Nodes, nx, A, Height(s), Cardinality(Nodes)) /\ Cardinality(Nodes) \in Nat
    BY LinksAreFalling, NodesAreFinite
  <2> HIDE DEF G, B, nx
  <2> QED BY <2>1, <2>2, AlongExists
<1>1. \A m \in Nodes : f[m] = IF s.next[m][l] \in A THEN G[m][f[s.next[m][l]]] ELSE B[m]
  BY <1>0 DEF Along
<1>2. IsWalk(f)
  <2>1. ASSUME NEW m \in Nodes PROVE f[m] = IF s.next[m][l] \in A THEN f[s.next[m][l]] ELSE m
    <3>1. s.next[m][l] \in A => s.next[m][l] \in Nodes
      BY LinksFall
    <3> QED BY <1>1, <3>1
  <2> QED BY <2>1
<1> DEFINE w == CHOOSE f1 : IsWalk(f1)
<1>3. IsWalk(w)
  <2> HIDE DEF IsWalk
  <2> QED BY <1>2
<1>4. \A m \in Nodes : Reached(s, l, m, A) = w[m]
  BY DEF Reached
<1>5. \A m \in Nodes : w[m] = IF s.next[m][l] \in A THEN w[s.next[m][l]] ELSE m
  <2> HIDE DEF w
  <2> QED BY <1>3
<1>6. s.next[n][l] \in A => s.next[n][l] \in Nodes
  BY LinksFall
<1> HIDE DEF w
<1> QED BY <1>4, <1>5, <1>6

LEMMA PassedStep ==
  ASSUME NEW s, Keyed(s), Upward(s), NEW l \in Towers, NEW A, NullNode \notin A, NEW n \in Nodes,
         \A m \in Nodes : s.span[m][l] \in Int
  PROVE  Passed(s, l, n, A) =
           IF s.next[n][l] \in A THEN s.span[n][l] + Passed(s, l, s.next[n][l], A) ELSE 0
<1> DEFINE IsWalk(f) == f = [m \in Nodes |-> LET next == s.next[m][l]
                                             IN IF next \in A THEN s.span[m][l] + f[next] ELSE 0]
           G == [m \in Nodes |-> [v \in Int |-> s.span[m][l] + v]]
           B == [m \in Nodes |-> 0]
           nx == [m \in Nodes |-> s.next[m][l]]
<1>0. PICK f \in [Nodes -> Int] : Along(f, Nodes, nx, A, G, B)
  <2>1. Computing(Nodes, Int, G, B)
    BY DEF Computing
  <2>2. Falling(Nodes, nx, A, Height(s), Cardinality(Nodes)) /\ Cardinality(Nodes) \in Nat
    BY LinksAreFalling, NodesAreFinite
  <2> HIDE DEF G, B, nx
  <2> QED BY <2>1, <2>2, AlongExists
<1>1. \A m \in Nodes : f[m] = IF s.next[m][l] \in A THEN G[m][f[s.next[m][l]]] ELSE B[m]
  BY <1>0 DEF Along
<1>2. IsWalk(f)
  <2>1. ASSUME NEW m \in Nodes
        PROVE  f[m] = IF s.next[m][l] \in A THEN s.span[m][l] + f[s.next[m][l]] ELSE 0
    <3>1. s.next[m][l] \in A => f[s.next[m][l]] \in Int
      BY LinksFall
    <3> QED BY <1>1, <3>1
  <2> QED BY <2>1
<1> DEFINE w == CHOOSE f1 : IsWalk(f1)
<1>3. IsWalk(w)
  <2> HIDE DEF IsWalk
  <2> QED BY <1>2
<1>4. \A m \in Nodes : Passed(s, l, m, A) = w[m]
  BY DEF Passed
<1>5. \A m \in Nodes : w[m] = IF s.next[m][l] \in A THEN s.span[m][l] + w[s.next[m][l]] ELSE 0
  <2> HIDE DEF w
  <2> QED BY <1>3
<1>6. s.next[n][l] \in A => s.next[n][l] \in Nodes
  BY LinksFall
<1> HIDE DEF w
<1> QED BY <1>4, <1>5, <1>6
-----------------------------------------------------------------------------
(* A level links the nodes of S in their order, and the spans of its links *)
(* are distances in the whole list.                                        *)

Follows(s, l, S) ==
  \A n \in S \cup {Header} :
    \/ s.next[n][l] = NullNode /\ \A m \in S : ~Before(s, n, m)
    \/ /\ s.next[n][l] \in S /\ Before(s, n, s.next[n][l])
       /\ \A m \in S : Before(s, n, m) => ~Before(s, m, s.next[n][l])

Spans(s, l, S, all) ==
  \A n \in S \cup {Header} : s.next[n][l] # NullNode =>
    s.span[n][l] = Place(s, all, s.next[n][l]) - Place(s, all, n)

Spanned(s) == \A n \in Nodes, l \in Towers : s.span[n][l] \in Int

(* A has what stands in front of a node of S, and e is the last of them.   *)
Begins(s, S, A) == \A k, m \in S : m \in A /\ Before(s, k, m) => k \in A
Edge(s, S, A, e) == e \in S \cup {Header} /\ \A m \in S : m \in A <=> ~Before(s, e, m)

LEMMA ReachedTyped ==
  ASSUME NEW s, Keyed(s), Upward(s), NEW l \in Towers, NEW A, NullNode \notin A, NEW n \in Nodes
  PROVE  Reached(s, l, n, A) \in Nodes
<1> DEFINE F == {m \in Nodes : Reached(s, l, m, A) \notin Nodes}
<1>1. ASSUME F # {} PROVE FALSE
  <2>1. PICK m \in F : \A k \in F : ~Before(s, m, k)
    <3>1. F \in SUBSET Nodes
      OBVIOUS
    <3> HIDE DEF F
    <3> QED BY <1>1, <3>1, LastNode
  <2>2. s.next[m][l] \in A
    BY <2>1, ReachedStep
  <2>3. s.next[m][l] \in F
    BY <2>1, <2>2, ReachedStep, LinksFall
  <2> QED BY <2>1, <2>2, <2>3, LinksFall
<1> QED BY <1>1

LEMMA PassedTyped ==
  ASSUME NEW s, Keyed(s), Upward(s), Spanned(s),
         NEW l \in Towers, NEW A, NullNode \notin A, NEW n \in Nodes
  PROVE  Passed(s, l, n, A) \in Int
<1> DEFINE F == {m \in Nodes : Passed(s, l, m, A) \notin Int}
<1>0. \A m \in Nodes : s.span[m][l] \in Int
  BY DEF Spanned
<1>1. ASSUME F # {} PROVE FALSE
  <2>1. PICK m \in F : \A k \in F : ~Before(s, m, k)
    <3>1. F \in SUBSET Nodes
      OBVIOUS
    <3> HIDE DEF F
    <3> QED BY <1>1, <3>1, LastNode
  <2>2. s.next[m][l] \in A
    BY <1>0, <2>1, PassedStep
  <2>3. Passed(s, l, m, A) = s.span[m][l] + Passed(s, l, s.next[m][l], A)
    BY <1>0, <2>1, <2>2, PassedStep
  <2>4. s.next[m][l] \in F
    <3>1. s.next[m][l] \in Nodes
      BY <2>1, <2>2, LinksFall
    <3>2. s.span[m][l] \in Int /\ Passed(s, l, m, A) \notin Int
      BY <1>0, <2>1
    <3> QED BY <2>3, <3>1, <3>2
  <2> QED BY <2>1, <2>2, <2>4, LinksFall
<1> QED BY <1>1

LEMMA WalkToEdge ==
  ASSUME NEW s, Keyed(s), Upward(s), Spanned(s), NEW l \in Towers,
         NEW S \in SUBSET Inner, NEW all \in SUBSET Inner,
         Follows(s, l, S), Spans(s, l, S, all), NEW A, NullNode \notin A, Begins(s, S, A),
         NEW n \in S \cup {Header}, n = Header \/ n \in A
  PROVE  /\ Edge(s, S, A, Reached(s, l, n, A))
         /\ Passed(s, l, n, A) = Place(s, all, Reached(s, l, n, A)) - Place(s, all, n)
<1> DEFINE Claim(m) ==
             /\ Edge(s, S, A, Reached(s, l, m, A))
             /\ Passed(s, l, m, A) = Place(s, all, Reached(s, l, m, A)) - Place(s, all, m)
           F == {m \in S \cup {Header} : (m = Header \/ m \in A) /\ ~Claim(m)}
<1>0. S \cup {Header} \subseteq Nodes /\ \A m \in Nodes : s.span[m][l] \in Int
  BY NodesAreNumbers DEF Inner, Spanned
<1>1. ASSUME F # {} PROVE FALSE
  <2>1. PICK m \in F : \A k \in F : ~Before(s, m, k)
    <3>1. F \in SUBSET Nodes
      BY <1>0
    <3> HIDE DEF F
    <3> QED BY <1>1, <3>1, LastNode
  <2>0. m \in S \cup {Header} /\ m \in Nodes /\ (m = Header \/ m \in A)
    BY <1>0, <2>1
  <2>2. CASE s.next[m][l] \in A
    <3> DEFINE x == s.next[m][l]
    <3>1. x \in S /\ Before(s, m, x)
      BY <2>0, <2>2 DEF Follows
    <3>2. x \notin F
      BY <2>1, <3>1
    <3>3. Claim(x)
      BY <2>2, <3>1, <3>2
    <3>4. Reached(s, l, m, A) = Reached(s, l, x, A)
      BY <2>0, <2>2, ReachedStep
    <3>5. Passed(s, l, m, A) = s.span[m][l] + Passed(s, l, x, A)
      BY <1>0, <2>0, <2>2, PassedStep
    <3>6. s.span[m][l] = Place(s, all, x) - Place(s, all, m)
      BY <2>0, <2>2 DEF Spans
    <3>7. /\ Place(s, all, x) \in Nat /\ Place(s, all, m) \in Nat
          /\ Place(s, all, Reached(s, l, x, A)) \in Nat
      BY PlaceType
    <3>8. Claim(m)
      BY <3>3, <3>4, <3>5, <3>6, <3>7
    <3> QED BY <2>1, <3>8
  <2>3. CASE s.next[m][l] \notin A
    <3>1. Reached(s, l, m, A) = m
      BY <2>0, <2>3, ReachedStep
    <3>2. Passed(s, l, m, A) = 0
      BY <1>0, <2>0, <2>3, PassedStep
    <3>3. Place(s, all, m) \in Nat
      BY PlaceType
    <3>4. ASSUME NEW k \in S PROVE k \in A <=> ~Before(s, m, k)
      <4>1. k \in Nodes
        BY <1>0
      <4>2. ASSUME Before(s, m, k) PROVE k \notin A
        <5>1. s.next[m][l] \in S /\ ~Before(s, k, s.next[m][l])
          BY <2>0, <4>2 DEF Follows
        <5>2. k = s.next[m][l] \/ Before(s, s.next[m][l], k)
          BY <1>0, <4>1, <5>1, BeforeTotal
        <5> QED BY <2>3, <5>1, <5>2 DEF Begins
      <4>3. ASSUME ~Before(s, m, k) PROVE k \in A
        <5>1. k # Header
          BY DEF Inner
        <5>2. m # Header
          BY <4>1, <4>3, <5>1, BeforeFacts
        <5>3. m \in S /\ m \in A /\ (k = m \/ Before(s, k, m))
          BY <2>0, <4>1, <4>3, <5>2, BeforeTotal
        <5> QED BY <5>3 DEF Begins
      <4> QED BY <4>2, <4>3
    <3>5. Claim(m)
      BY <2>0, <3>1, <3>2, <3>3, <3>4 DEF Edge
    <3> QED BY <2>1, <3>5
  <2> QED BY <2>2, <2>3
<1>2. n \notin F
  BY <1>1
<1> QED BY <1>2

LEMMA OneEdge ==
  ASSUME NEW s, Keyed(s), NEW S \in SUBSET Inner, NEW A, NEW d, NEW e,
         Edge(s, S, A, d), Edge(s, S, A, e)
  PROVE  d = e
<1>1. d \in Nodes /\ e \in Nodes
  BY NodesAreNumbers DEF Edge, Inner
<1>2. ~Before(s, d, e)
  BY <1>1, BeforeFacts DEF Edge
<1>3. ~Before(s, e, d)
  BY <1>1, BeforeFacts DEF Edge
<1> QED BY <1>1, <1>2, <1>3, BeforeTotal
-----------------------------------------------------------------------------
(* The search goes down the levels, and on each of them from where the     *)
(* one above has stopped.                                                  *)

LEMMA LevelsAreFalling ==
  ASSUME NEW top \in Nat, top <= SKIP_LIST_MAX_LEVEL
  PROVE  /\ Falling(Towers, [l \in Towers |-> l + 1], 2..top,
                    [l \in Towers |-> SKIP_LIST_MAX_LEVEL - l], SKIP_LIST_MAX_LEVEL)
         /\ \A l \in Towers : l + 1 \in 2..top <=> ~(l >= top)
         /\ \A l \in Towers : ~(l >= top) => l + 1 \in Towers
BY SkipListAssumption DEF Falling, Towers

LEMMA ForwardsStep ==
  ASSUME NEW s, Keyed(s), Upward(s), NEW A, NullNode \notin A,
         NEW top \in Nat, top <= SKIP_LIST_MAX_LEVEL, NEW l \in Towers
  PROVE  Forwards(s, top, A)[l] =
           Reached(s, l, IF l >= top THEN Header ELSE Forwards(s, top, A)[l + 1], A)
<1> DEFINE IsWalk(f) ==
             f = [k \in Towers |-> Reached(s, k, IF k >= top THEN Header ELSE f[k + 1], A)]
           G == [k \in Towers |-> [v \in Nodes |-> Reached(s, k, v, A)]]
           B == [k \in Towers |-> Reached(s, k, Header, A)]
           nx == [k \in Towers |-> k + 1]
           h == [k \in Towers |-> SKIP_LIST_MAX_LEVEL - k]
<1>0. PICK f \in [Towers -> Nodes] : Along(f, Towers, nx, 2..top, G, B)
  <2>1. Computing(Towers, Nodes, G, B)
    BY ReachedTyped, NodesAreNumbers DEF Computing
  <2>2. Falling(Towers, nx, 2..top, h, SKIP_LIST_MAX_LEVEL) /\ SKIP_LIST_MAX_LEVEL \in Nat
    BY LevelsAreFalling, SkipListAssumption
  <2> HIDE DEF G, B, nx, h
  <2> QED BY <2>1, <2>2, AlongExists
<1>1. \A k \in Towers : f[k] = IF k + 1 \in 2..top THEN G[k][f[k + 1]] ELSE B[k]
  BY <1>0 DEF Along
<1>2. IsWalk(f)
  <2>1. ASSUME NEW k \in Towers
        PROVE  f[k] = Reached(s, k, IF k >= top THEN Header ELSE f[k + 1], A)
    <3>1. CASE k >= top
      <4>1. k + 1 \notin 2..top
        BY <3>1, LevelsAreFalling
      <4> QED BY <1>1, <3>1, <4>1
    <3>2. CASE ~(k >= top)
      <4>1. k + 1 \in 2..top /\ k + 1 \in Towers
        BY <3>2, LevelsAreFalling
      <4>2. f[k] = G[k][f[k + 1]] /\ f[k + 1] \in Nodes
        BY <1>1, <4>1
      <4> QED BY <3>2, <4>2
    <3> QED BY <3>1, <3>2
  <2> QED BY <2>1
<1> DEFINE w == CHOOSE f1 : IsWalk(f1)
<1>3. IsWalk(w)
  <2> HIDE DEF IsWalk
  <2> QED BY <1>2
<1>4. Forwards(s, top, A) = w
  BY DEF Forwards
<1>5. w[l] = Reached(s, l, IF l >= top THEN Header ELSE w[l + 1], A)
  <2> HIDE DEF w
  <2> QED BY <1>3
<1> HIDE DEF w
<1> QED BY <1>4, <1>5

LEMMA ForwardsTyped ==
  ASSUME NEW s, Keyed(s), Upward(s), NEW A, NullNode \notin A,
         NEW top \in Nat, top <= SKIP_LIST_MAX_LEVEL
  PROVE  \A l \in Towers : Forwards(s, top, A)[l] \in Nodes
<1> DEFINE T == {i \in Nat : SKIP_LIST_MAX_LEVEL - i \in Towers =>
                              Forwards(s, top, A)[SKIP_LIST_MAX_LEVEL - i] \in Nodes}
<1>0. SKIP_LIST_MAX_LEVEL \in Nat \ {0} /\ Towers = 1..SKIP_LIST_MAX_LEVEL
  BY SkipListAssumption DEF Towers
<1>1. \A l \in Towers : l >= top => Forwards(s, top, A)[l] \in Nodes
  BY ForwardsStep, ReachedTyped, NodesAreNumbers
<1>2. 0 \in T
  BY <1>0, <1>1
<1>3. ASSUME NEW i \in 0..(SKIP_LIST_MAX_LEVEL - 1), i \in T PROVE i + 1 \in T
  <2> DEFINE l == SKIP_LIST_MAX_LEVEL - (i + 1)
  <2>1. SUFFICES ASSUME l \in Towers, ~(l >= top) PROVE Forwards(s, top, A)[l] \in Nodes
    BY <1>0, <1>1
  <2>2. l + 1 = SKIP_LIST_MAX_LEVEL - i /\ l + 1 \in Towers
    BY <1>0, <2>1, LevelsAreFalling
  <2>3. Forwards(s, top, A)[l + 1] \in Nodes
    BY <1>3, <2>2
  <2> HIDE DEF l
  <2> QED BY <2>1, <2>3, ForwardsStep, ReachedTyped
<1>4. \A i \in 0..SKIP_LIST_MAX_LEVEL : i \in T
  <2> HIDE DEF T
  <2> QED BY <1>0, <1>2, <1>3, NoneFails
<1>5. ASSUME NEW l \in Towers PROVE Forwards(s, top, A)[l] \in Nodes
  <2>1. SKIP_LIST_MAX_LEVEL - l \in 0..SKIP_LIST_MAX_LEVEL
        /\ SKIP_LIST_MAX_LEVEL - (SKIP_LIST_MAX_LEVEL - l) = l
    BY <1>0
  <2> QED BY <1>4, <2>1
<1> QED BY <1>5

LEMMA RanksStep ==
  ASSUME NEW s, Keyed(s), Upward(s), Spanned(s), NEW A, NullNode \notin A,
         NEW top \in Nat, top <= SKIP_LIST_MAX_LEVEL, NEW l \in Towers
  PROVE  Ranks(s, top, A)[l] =
           IF l >= top THEN Passed(s, l, Header, A)
           ELSE Ranks(s, top, A)[l + 1] + Passed(s, l, Forwards(s, top, A)[l + 1], A)
<1> DEFINE fw == Forwards(s, top, A)
           IsWalk(f) ==
             f = [k \in Towers |-> IF k >= top THEN Passed(s, k, Header, A)
                                   ELSE f[k + 1] + Passed(s, k, fw[k + 1], A)]
           G == [k \in Towers |-> [v \in Int |-> IF k >= top THEN 0
                                                 ELSE v + Passed(s, k, fw[k + 1], A)]]
           B == [k \in Towers |-> Passed(s, k, Header, A)]
           nx == [k \in Towers |-> k + 1]
           h == [k \in Towers |-> SKIP_LIST_MAX_LEVEL - k]
<1>0. PICK f \in [Towers -> Int] : Along(f, Towers, nx, 2..top, G, B)
  <2>1. Computing(Towers, Int, G, B)
    <3>1. \A k \in Towers : Passed(s, k, Header, A) \in Int
      BY PassedTyped, NodesAreNumbers
    <3>2. \A k \in Towers : ~(k >= top) => Passed(s, k, fw[k + 1], A) \in Int
      BY PassedTyped, ForwardsTyped, LevelsAreFalling
    <3> QED BY <3>1, <3>2 DEF Computing
  <2>2. Falling(Towers, nx, 2..top, h, SKIP_LIST_MAX_LEVEL) /\ SKIP_LIST_MAX_LEVEL \in Nat
    BY LevelsAreFalling, SkipListAssumption
  <2> HIDE DEF G, B, nx, h
  <2> QED BY <2>1, <2>2, AlongExists
<1>1. \A k \in Towers : f[k] = IF k + 1 \in 2..top THEN G[k][f[k + 1]] ELSE B[k]
  BY <1>0 DEF Along
<1>2. IsWalk(f)
  <2>1. ASSUME NEW k \in Towers
        PROVE  f[k] = IF k >= top THEN Passed(s, k, Header, A)
                      ELSE f[k + 1] + Passed(s, k, fw[k + 1], A)
    <3>1. CASE k >= top
      <4>1. k + 1 \notin 2..top
        BY <3>1, LevelsAreFalling
      <4> QED BY <1>1, <3>1, <4>1
    <3>2. CASE ~(k >= top)
      <4>1. k + 1 \in 2..top /\ k + 1 \in Towers
        BY <3>2, LevelsAreFalling
      <4>2. f[k] = G[k][f[k + 1]] /\ f[k + 1] \in Int
        BY <1>1, <4>1
      <4> QED BY <3>2, <4>2
    <3> QED BY <3>1, <3>2
  <2> QED BY <2>1
<1> DEFINE w == CHOOSE f1 : IsWalk(f1)
<1>3. IsWalk(w)
  <2> HIDE DEF IsWalk
  <2> QED BY <1>2
<1>4. Ranks(s, top, A) = w
  BY DEF Ranks
<1>5. w[l] = IF l >= top THEN Passed(s, l, Header, A) ELSE w[l + 1] + Passed(s, l, fw[l + 1], A)
  <2> HIDE DEF w
  <2> QED BY <1>3
<1> HIDE DEF w
<1> QED BY <1>4, <1>5
(* What is in the list at each level, and that the list is what it says:   *)
(* higher levels have less, none up to the list's level is empty, and      *)
(* links, spans, length and tail are right.                                *)
Towered(s, in) ==
  /\ s.level \in Nat /\ s.level <= SKIP_LIST_MAX_LEVEL
  /\ in \in [Towers -> SUBSET (1..s.created)]
  /\ \A k, l \in Towers : k <= l => in[l] \subseteq in[k]
  /\ \A l \in Towers : l > s.level => in[l] = {}
  /\ \A l \in Towers : l > 1 /\ in[l] = {} => l > s.level
  /\ \A l \in Towers : Follows(s, l, in[l]) /\ Spans(s, l, in[l], in[1])
  /\ s.length = Cardinality(in[1])
  /\ s.tailer \in in[1] \cup {Header} /\ \A m \in in[1] : ~Before(s, s.tailer, m)

(* What the searches need of a list: links that lead to later nodes.       *)
SoundList(s) == Keyed(s) /\ Upward(s) /\ Spanned(s)

LEMMA LevelSets ==
  ASSUME NEW s, SoundList(s), NEW in, Towered(s, in)
  PROVE  /\ 1 \in Towers /\ SKIP_LIST_MAX_LEVEL \in Nat /\ Towers = 1..SKIP_LIST_MAX_LEVEL
         /\ s.created \in Nodes /\ s.created \in Nat
         /\ \A l \in Towers : in[l] \in SUBSET Inner /\ in[l] \subseteq in[1]
                              /\ in[l] \in SUBSET (1..s.created) /\ in[l] \subseteq Nodes
<1>1. 1 \in Towers /\ SKIP_LIST_MAX_LEVEL \in Nat /\ Towers = 1..SKIP_LIST_MAX_LEVEL
  BY SkipListAssumption DEF Towers
<1>2. s.created \in Nodes /\ s.created \in Nat
  BY NodesAreNumbers DEF SoundList, Keyed
<1>3. 1..s.created \subseteq Inner /\ 1..s.created \subseteq Nodes
  BY <1>2, NodesAreNumbers DEF Inner
<1>4. \A l \in Towers : in[l] \in SUBSET (1..s.created) /\ in[l] \subseteq in[1]
  BY <1>1 DEF Towered
<1> QED BY <1>1, <1>2, <1>3, <1>4

LEMMA SearchIsRight ==
  ASSUME NEW s, SoundList(s), NEW in, Towered(s, in), NEW A, NullNode \notin A, Begins(s, in[1], A),
         NEW top \in Nat, top <= SKIP_LIST_MAX_LEVEL
  PROVE  \A l \in Towers : /\ Edge(s, in[l], A, Forwards(s, top, A)[l])
                           /\ Ranks(s, top, A)[l] = Place(s, in[1], Forwards(s, top, A)[l])
<1> DEFINE f == Forwards(s, top, A)
           r == Ranks(s, top, A)
           Claim(l) == Edge(s, in[l], A, f[l]) /\ r[l] = Place(s, in[1], f[l])
           T == {i \in Nat : SKIP_LIST_MAX_LEVEL - i \in Towers => Claim(SKIP_LIST_MAX_LEVEL - i)}
<1> USE DEF SoundList
<1>0. SKIP_LIST_MAX_LEVEL \in Nat \ {0} /\ Towers = 1..SKIP_LIST_MAX_LEVEL
  BY SkipListAssumption DEF Towers
<1>1. ASSUME NEW l \in Towers PROVE /\ in[l] \in SUBSET Inner /\ in[1] \in SUBSET Inner
                                    /\ Follows(s, l, in[l]) /\ Spans(s, l, in[l], in[1])
                                    /\ Begins(s, in[l], A)
  <2>1. in[l] \in SUBSET Inner /\ in[1] \in SUBSET Inner /\ in[l] \subseteq in[1]
    BY LevelSets
  <2>2. Begins(s, in[l], A)
    BY <2>1 DEF Begins
  <2> QED BY <2>1, <2>2 DEF Towered
<1>2. ASSUME NEW l \in Towers, l >= top PROVE Claim(l)
  <2>1. f[l] = Reached(s, l, Header, A) /\ r[l] = Passed(s, l, Header, A)
    BY <1>2, ForwardsStep, RanksStep
  <2>2. /\ Edge(s, in[l], A, Reached(s, l, Header, A))
        /\ Passed(s, l, Header, A) = Place(s, in[1], Reached(s, l, Header, A)) - Place(s, in[1], Header)
    BY <1>1, WalkToEdge
  <2>3. Place(s, in[1], Header) = 0 /\ Place(s, in[1], f[l]) \in Nat
    BY <1>1, PlaceOfHeader, PlaceType
  <2> QED BY <2>1, <2>2, <2>3
<1>3. 0 \in T
  BY <1>0, <1>2
<1>4. ASSUME NEW i \in 0..(SKIP_LIST_MAX_LEVEL - 1), i \in T PROVE i + 1 \in T
  <2> DEFINE l == SKIP_LIST_MAX_LEVEL - (i + 1)
  <2>1. SUFFICES ASSUME l \in Towers, ~(l >= top) PROVE Claim(l)
    BY <1>0, <1>2
  <2>2. l + 1 = SKIP_LIST_MAX_LEVEL - i /\ l + 1 \in Towers
    BY <1>0, <2>1, LevelsAreFalling
  <2>3. Claim(l + 1)
    BY <1>4, <2>2
  <2> DEFINE n == f[l + 1]
  <2>4. f[l] = Reached(s, l, n, A) /\ r[l] = r[l + 1] + Passed(s, l, n, A)
    <3> HIDE DEF l
    <3> QED BY <2>1, ForwardsStep, RanksStep
  <2>5. n \in in[l] \cup {Header} /\ (n = Header \/ n \in A)
    <3>1. n \in in[l + 1] \cup {Header} /\ (n \in in[l + 1] => n \in A)
      <4>1. n \in in[l + 1] => n \in Nodes
        BY <1>1, <2>2, LevelSets
      <4> QED BY <2>3, <4>1, BeforeFacts DEF Edge
    <3>2. in[l + 1] \subseteq in[l]
      BY <1>0, <2>1, <2>2 DEF Towered
    <3> QED BY <3>1, <3>2
  <2>6. /\ Edge(s, in[l], A, Reached(s, l, n, A))
        /\ Passed(s, l, n, A) = Place(s, in[1], Reached(s, l, n, A)) - Place(s, in[1], n)
    <3> HIDE DEF l, n
    <3> QED BY <1>1, <2>1, <2>5, WalkToEdge
  <2>7. Place(s, in[1], n) \in Nat /\ Place(s, in[1], f[l]) \in Nat
    BY <1>1, <2>2, PlaceType
  <2>8. r[l + 1] = Place(s, in[1], n)
    BY <2>3
  <2> QED BY <2>4, <2>6, <2>7, <2>8
<1>5. \A i \in 0..SKIP_LIST_MAX_LEVEL : i \in T
  <2> HIDE DEF T
  <2> QED BY <1>0, <1>3, <1>4, NoneFails
<1>6. ASSUME NEW l \in Towers PROVE Claim(l)
  <2>1. SKIP_LIST_MAX_LEVEL - l \in 0..SKIP_LIST_MAX_LEVEL
        /\ SKIP_LIST_MAX_LEVEL - (SKIP_LIST_MAX_LEVEL - l) = l
    BY <1>0
  <2> QED BY <1>5, <2>1
<1> QED BY <1>6
-----------------------------------------------------------------------------
(* insertNode *)

(* A list is a record of these fields.                                     *)
Fields == {"score", "obj", "previous", "next", "span", "tailer", "level", "length", "created"}
IsList(s) == s = [x \in Fields |-> s[x]]

(* The level that the list will have, and what insertNode finds in front   *)
(* of the new node at each level, with its place.                          *)
TopWith(s, drawn) == IF drawn > s.level THEN drawn ELSE s.level
Fronts(s, score, obj, drawn) ==
  [l \in Towers |-> IF l > s.level THEN Header
                    ELSE Forwards(s, TopWith(s, drawn), Smaller(s, score, obj))[l]]
FrontRanks(s, score, obj, drawn) ==
  [l \in Towers |-> IF l > s.level THEN 0
                    ELSE Ranks(s, TopWith(s, drawn), Smaller(s, score, obj))[l]]

(* t is what insertNode makes of s, with the new node n behind f, which is *)
(* at the places rank.                                                     *)
HasFields(s, t, score, obj, n, f, rank, drawn) ==
  /\ IsList(t)
  /\ t.score = [s.score EXCEPT ![n] = score] /\ t.obj = [s.obj EXCEPT ![n] = obj]
  /\ t.previous = [m \in Nodes |-> IF m = n THEN (IF f[1] = Header THEN NullNode ELSE f[1])
                                   ELSE IF m = s.next[f[1]][1] THEN n ELSE s.previous[m]]
  /\ t.next = [m \in Nodes |-> [l \in Towers |->
       IF l > drawn THEN s.next[m][l]
       ELSE IF m = n THEN s.next[f[l]][l] ELSE IF m = f[l] THEN n ELSE s.next[m][l]]]
  /\ t.span = [m \in Nodes |-> [l \in Towers |->
       IF l <= drawn
       THEN IF m = n THEN (IF l > s.level THEN rank[1] ELSE s.span[f[l]][l]) - (rank[1] - rank[l])
            ELSE IF m = f[l] THEN rank[1] - rank[l] + 1 ELSE s.span[m][l]
       ELSE IF l <= s.level /\ m = f[l] /\ s.next[m][l] # NullNode
            THEN s.span[m][l] + 1 ELSE s.span[m][l]]]
  /\ t.tailer = IF s.next[f[1]][1] = NullNode THEN n ELSE s.tailer
  /\ t.level = TopWith(s, drawn) /\ t.length = s.length + 1 /\ t.created = n

LEMMA WithNodeFields ==
  ASSUME NEW s, IsList(s), NEW score, NEW obj, NEW drawn,
         NEW n, n = s.created + 1, NEW f, f = Fronts(s, score, obj, drawn),
         NEW rank, rank = FrontRanks(s, score, obj, drawn),
         NEW t, t = WithNode(s, score, obj, drawn)
  PROVE  HasFields(s, t, score, obj, n, f, rank, drawn)
<1> DEFINE N == s.created + 1
           F == Fronts(s, score, obj, drawn)
           R == FrontRanks(s, score, obj, drawn)
           after == s.next[F[1]][1]
           previous == [m \in Nodes |-> IF m = N THEN (IF F[1] = Header THEN NullNode ELSE F[1])
                                        ELSE IF m = after THEN N ELSE s.previous[m]]
           next == [m \in Nodes |-> [l \in Towers |->
              IF l > drawn THEN s.next[m][l]
              ELSE IF m = N THEN s.next[F[l]][l] ELSE IF m = F[l] THEN N ELSE s.next[m][l]]]
           span == [m \in Nodes |-> [l \in Towers |->
              IF l <= drawn
              THEN IF m = N THEN (IF l > s.level THEN R[1] ELSE s.span[F[l]][l]) - (R[1] - R[l])
                   ELSE IF m = F[l] THEN R[1] - R[l] + 1 ELSE s.span[m][l]
              ELSE IF l <= s.level /\ m = F[l] /\ s.next[m][l] # NullNode
                   THEN s.span[m][l] + 1 ELSE s.span[m][l]]]
<1>1. t = [s EXCEPT !.score[N] = score, !.obj[N] = obj, !.previous = previous, !.next = next,
                    !.span = span, !.tailer = IF after = NullNode THEN N ELSE @,
                    !.level = TopWith(s, drawn), !.length = @ + 1, !.created = N]
  BY DEF WithNode, SpanBefore, Fronts, FrontRanks, TopWith
<1>4. N = n /\ F = f /\ R = rank
  OBVIOUS
<1> HIDE DEF previous, next, span, after, N, F, R
<1>2. IsList(t)
  BY <1>1 DEF IsList
<1>3. /\ t.score = [s.score EXCEPT ![N] = score] /\ t.obj = [s.obj EXCEPT ![N] = obj]
      /\ t.previous = previous /\ t.next = next /\ t.span = span
      /\ t.tailer = (IF after = NullNode THEN N ELSE s.tailer)
      /\ t.level = TopWith(s, drawn) /\ t.length = s.length + 1 /\ t.created = N
  BY <1>1 DEF IsList, Fields
<1> QED BY <1>2, <1>3, <1>4 DEF previous, next, span, after, HasFields

(* A node of an empty level's end has a span that getNodeByRank never      *)
(* takes for a distance, as long as nothing was deleted.                   *)
EndsLow(s, in) ==
  \A l \in Towers : \A n \in in[l] \cup {Header} : s.next[n][l] = NullNode => s.span[n][l] <= 0

(* Where the new node n of t belongs among the others, which keep their    *)
(* order: at each level behind f and before what follows f there.          *)
FitsAt(s, t, in, n, f) ==
  /\ \A k, m \in in[1] \cup {Header} : Before(t, k, m) <=> Before(s, k, m)
  /\ \A m \in in[1] : m # n /\ (Before(t, m, n) <=> ~Before(t, n, m))
  /\ \A l \in Towers : /\ f[l] \in in[l] \cup {Header} /\ Before(t, f[l], n)
                       /\ \A m \in in[l] : Before(s, f[l], m) <=> Before(t, n, m)

LEMMA SearchFits ==
  ASSUME NEW s, SoundList(s), NEW in, Towered(s, in), s.created < MaxNodes,
         NEW score \in Int, NEW obj \in Int, NEW drawn \in Towers,
         NEW n, n = s.created + 1, NEW f, f = Fronts(s, score, obj, drawn),
         NEW rank, rank = FrontRanks(s, score, obj, drawn),
         NEW t, t.score = [s.score EXCEPT ![n] = score], t.obj = [s.obj EXCEPT ![n] = obj],
         t.created = n
  PROVE  /\ n \in Nodes /\ n \in Inner /\ Keyed(t) /\ FitsAt(s, t, in, n, f)
         /\ TopWith(s, drawn) \in Nat /\ TopWith(s, drawn) <= SKIP_LIST_MAX_LEVEL
         /\ \A l \in Towers : rank[l] = Place(s, in[1], f[l])
         /\ \A l \in Towers : l > s.level => f[l] = Header /\ rank[l] = 0
         /\ \A k, m \in 0..s.created : Before(t, k, m) <=> Before(s, k, m)
<1> DEFINE top == TopWith(s, drawn)
           small == Smaller(s, score, obj)
<1>0. /\ 1 \in Towers /\ SKIP_LIST_MAX_LEVEL \in Nat /\ Towers = 1..SKIP_LIST_MAX_LEVEL
      /\ s.created \in Nodes /\ s.created \in Nat
      /\ \A l \in Towers : in[l] \in SUBSET Inner /\ in[l] \subseteq in[1]
                           /\ in[l] \in SUBSET (1..s.created) /\ in[l] \subseteq Nodes
  BY LevelSets
<1>1. n \in Nodes /\ n \in Inner /\ n \in Nat /\ n \notin 0..s.created
  BY <1>0, SkipListAssumption DEF Nodes, Inner, Header
<1>2. Keyed(t)
  BY <1>1 DEF Keyed, SoundList
<1>3. top \in Nat /\ top <= SKIP_LIST_MAX_LEVEL
  BY <1>0 DEF TopWith, Towered
<1>4. s.score \in [Nodes -> Int] /\ s.obj \in [Nodes -> Int] /\ 0..s.created \subseteq Nodes
  BY <1>0, SkipListAssumption DEF SoundList, Keyed, Nodes
<1>5. ASSUME NEW k \in 0..s.created PROVE t.score[k] = s.score[k] /\ t.obj[k] = s.obj[k]
  BY <1>1, <1>4
<1>6. \A k, m \in 0..s.created : Before(t, k, m) <=> Before(s, k, m)
  BY <1>5 DEF Before
<1>7. ASSUME NEW m \in 1..s.created PROVE m # n /\ (m \in small <=> Before(t, m, n))
  <2>1. t.score[n] = score /\ t.obj[n] = obj
    BY <1>1, <1>4
  <2>2. t.score[m] = s.score[m] /\ t.obj[m] = s.obj[m]
    BY <1>5
  <2>3. ~(n < m) /\ m # Header /\ n # Header /\ m # n
    BY <1>0, <1>1 DEF Header
  <2> QED BY <2>1, <2>2, <2>3 DEF Before, Smaller
<1>8. NullNode \notin small /\ Begins(s, in[1], small)
  <2>1. NullNode \notin small
    BY DEF Smaller, NullNode
  <2>2. ASSUME NEW k \in in[1], NEW m \in in[1], m \in small, Before(s, k, m) PROVE k \in small
    <3>1. k \in 1..s.created /\ m \in 1..s.created /\ k \in 0..s.created /\ m \in 0..s.created
      BY <1>0
    <3>2. Before(t, k, m) /\ Before(t, m, n)
      BY <1>6, <1>7, <2>2, <3>1
    <3>3. k \in Nodes /\ m \in Nodes
      BY <1>0
    <3> QED BY <1>1, <1>2, <1>7, <3>1, <3>2, <3>3, BeforeTransitive
  <2> QED BY <2>1, <2>2 DEF Begins
<1>9. ASSUME NEW l \in Towers
      PROVE  /\ Edge(s, in[l], small, f[l]) /\ rank[l] = Place(s, in[1], f[l])
             /\ l > s.level => f[l] = Header /\ rank[l] = 0
  <2>1. CASE l > s.level
    <3>1. in[l] = {} /\ f[l] = Header /\ rank[l] = 0
      BY <2>1 DEF Towered, Fronts, FrontRanks
    <3>2. Place(s, in[1], Header) = 0
      BY <1>0, PlaceOfHeader DEF SoundList
    <3> QED BY <3>1, <3>2 DEF Edge
  <2>2. CASE ~(l > s.level)
    <3>1. f[l] = Forwards(s, top, small)[l] /\ rank[l] = Ranks(s, top, small)[l]
      BY <2>2 DEF Fronts, FrontRanks
    <3> HIDE DEF top, small
    <3> QED BY <1>3, <1>8, <2>2, <3>1, SearchIsRight
  <2> QED BY <2>1, <2>2
<1>10. \A m \in in[1] : m # n /\ (Before(t, m, n) <=> ~Before(t, n, m))
  <2> SUFFICES ASSUME NEW m \in in[1] PROVE m # n /\ (Before(t, m, n) <=> ~Before(t, n, m))
    OBVIOUS
  <2>1. m \in Nodes /\ m # n
    BY <1>0, <1>7
  <2> QED BY <1>1, <1>2, <2>1, BeforeFacts
<1>11. ASSUME NEW l \in Towers
       PROVE  /\ f[l] \in in[l] \cup {Header} /\ Before(t, f[l], n)
              /\ \A m \in in[l] : Before(s, f[l], m) <=> Before(t, n, m)
  <2>1. f[l] \in in[l] \cup {Header}
    BY <1>9 DEF Edge
  <2>2. Before(t, f[l], n)
    <3>1. CASE f[l] = Header
      BY <1>1, <1>2, <3>1, BeforeFacts DEF Inner
    <3>2. CASE f[l] \in in[l]
      <4>1. f[l] \in Nodes /\ f[l] \in 1..s.created
        BY <1>0, <3>2
      <4>2. f[l] \in small
        BY <1>9, <3>2, <4>1, BeforeFacts DEF Edge, SoundList
      <4> QED BY <1>7, <4>1, <4>2
    <3> QED BY <2>1, <3>1, <3>2
  <2>3. ASSUME NEW m \in in[l] PROVE Before(s, f[l], m) <=> Before(t, n, m)
    <3>1. m \in small <=> ~Before(s, f[l], m)
      BY <1>9 DEF Edge
    <3>2. m \in 1..s.created /\ m \in in[1]
      BY <1>0
    <3> QED BY <1>7, <1>10, <3>1, <3>2
  <2> QED BY <2>1, <2>2, <2>3
<1>12. \A k, m \in in[1] \cup {Header} : Before(t, k, m) <=> Before(s, k, m)
  <2>1. in[1] \cup {Header} \subseteq 0..s.created
    BY <1>0 DEF Header
  <2> QED BY <1>6, <2>1
<1>13. FitsAt(s, t, in, n, f)
  BY <1>10, <1>11, <1>12 DEF FitsAt
<1> QED BY <1>1, <1>2, <1>3, <1>6, <1>9, <1>13

(* t is s with the node n behind f.                                        *)
Adds(s, t, in, n, f, rank, drawn) ==
  /\ SoundList(s) /\ Towered(s, in) /\ n = s.created + 1 /\ n \in Inner /\ drawn \in Towers
  /\ Keyed(t) /\ FitsAt(s, t, in, n, f)
  /\ \A k, m \in 0..s.created : Before(t, k, m) <=> Before(s, k, m)
  /\ \A l \in Towers : rank[l] = Place(s, in[1], f[l])
  /\ \A l \in Towers : l > s.level => f[l] = Header /\ rank[l] = 0
  /\ t.next = [m \in Nodes |-> [l \in Towers |->
        IF l > drawn THEN s.next[m][l]
        ELSE IF m = n THEN s.next[f[l]][l] ELSE IF m = f[l] THEN n ELSE s.next[m][l]]]
  /\ t.span = [m \in Nodes |-> [l \in Towers |->
        IF l <= drawn
        THEN IF m = n THEN (IF l > s.level THEN rank[1] ELSE s.span[f[l]][l]) - (rank[1] - rank[l])
             ELSE IF m = f[l] THEN rank[1] - rank[l] + 1 ELSE s.span[m][l]
        ELSE IF l <= s.level /\ m = f[l] /\ s.next[m][l] # NullNode
             THEN s.span[m][l] + 1 ELSE s.span[m][l]]]
  /\ t.created = n

InWith(in, n, drawn) == [l \in Towers |-> IF l <= drawn THEN in[l] \cup {n} ELSE in[l]]

LEMMA AddsFacts ==
  ASSUME NEW s, NEW t, NEW in, NEW n, NEW f, NEW rank, NEW drawn,
         Adds(s, t, in, n, f, rank, drawn)
  PROVE  /\ Keyed(s) /\ Keyed(t) /\ n \in Nodes /\ n \in Int /\ n \notin 0..s.created /\ n # Header
         /\ n \in Inner /\ n # NullNode
         /\ 1 \in Towers /\ drawn \in Nat /\ 1 <= drawn /\ s.level \in Nat
         /\ \A l \in Towers : /\ l \in Nat /\ f[l] \in Nodes /\ f[l] \in 0..s.created
                              /\ f[l] \in in[l] \cup {Header} /\ rank[l] = Place(s, in[1], f[l])
                              /\ l > s.level => f[l] = Header /\ rank[l] = 0
         /\ \A l \in Towers : in[l] \subseteq in[1] /\ in[l] \in SUBSET Inner
         /\ \A l \in Towers : \A m \in in[l] \cup {Header} :
              m \in Nodes /\ m \in 0..s.created /\ m # n /\ m # NullNode
         /\ \A m \in Nodes, l \in Towers :
              /\ t.next[m][l] = IF l > drawn THEN s.next[m][l]
                                ELSE IF m = n THEN s.next[f[l]][l]
                                ELSE IF m = f[l] THEN n ELSE s.next[m][l]
              /\ t.span[m][l] =
                   IF l <= drawn
                   THEN IF m = n
                        THEN (IF l > s.level THEN rank[1] ELSE s.span[f[l]][l]) - (rank[1] - rank[l])
                        ELSE IF m = f[l] THEN rank[1] - rank[l] + 1 ELSE s.span[m][l]
                   ELSE IF l <= s.level /\ m = f[l] /\ s.next[m][l] # NullNode
                        THEN s.span[m][l] + 1 ELSE s.span[m][l]
<1>1. SoundList(s) /\ Towered(s, in) /\ n = s.created + 1 /\ n \in Inner /\ drawn \in Towers /\ Keyed(t)
  BY DEF Adds
<1>2. /\ 1 \in Towers /\ SKIP_LIST_MAX_LEVEL \in Nat /\ Towers = 1..SKIP_LIST_MAX_LEVEL
      /\ s.created \in Nodes /\ s.created \in Nat
      /\ \A l \in Towers : in[l] \in SUBSET Inner /\ in[l] \subseteq in[1]
                           /\ in[l] \in SUBSET (1..s.created) /\ in[l] \subseteq Nodes
  BY <1>1, LevelSets
<1>3. Keyed(s) /\ n \in Nodes /\ n # Header /\ n \in Int /\ n \notin 0..s.created /\ n # NullNode
  BY <1>1, <1>2, SkipListAssumption DEF SoundList, Inner, Nodes, NullNode
<1>4. drawn \in Nat /\ 1 <= drawn /\ s.level \in Nat /\ \A l \in Towers : l \in Nat
  BY <1>1, <1>2 DEF Towered
<1>5. \A l \in Towers : \A m \in in[l] \cup {Header} :
        m \in Nodes /\ m \in 0..s.created /\ m # n /\ m # NullNode
  BY <1>2, <1>3, NodesAreNumbers DEF Header
<1>6. \A l \in Towers : f[l] \in in[l] \cup {Header}
  BY DEF Adds, FitsAt
<1>7. \A l \in Towers : f[l] \in Nodes /\ f[l] \in 0..s.created
  BY <1>5, <1>6
<1>9. \A l \in Towers : /\ rank[l] = Place(s, in[1], f[l])
                        /\ l > s.level => f[l] = Header /\ rank[l] = 0
  BY DEF Adds
<1>8. \A m \in Nodes, l \in Towers :
              /\ t.next[m][l] = IF l > drawn THEN s.next[m][l]
                                ELSE IF m = n THEN s.next[f[l]][l]
                                ELSE IF m = f[l] THEN n ELSE s.next[m][l]
              /\ t.span[m][l] =
                   IF l <= drawn
                   THEN IF m = n
                        THEN (IF l > s.level THEN rank[1] ELSE s.span[f[l]][l]) - (rank[1] - rank[l])
                        ELSE IF m = f[l] THEN rank[1] - rank[l] + 1 ELSE s.span[m][l]
                   ELSE IF l <= s.level /\ m = f[l] /\ s.next[m][l] # NullNode
                        THEN s.span[m][l] + 1 ELSE s.span[m][l]
  BY DEF Adds
<1> QED BY <1>1, <1>2, <1>3, <1>4, <1>5, <1>6, <1>7, <1>8, <1>9

(* What follows f at a level follows n, and any other node and the one     *)
(* that follows it stand on the same side of n.                            *)
LEMMA AddsBetween ==
  ASSUME NEW s, NEW t, NEW in, NEW n, NEW f, NEW rank, NEW drawn,
         Adds(s, t, in, n, f, rank, drawn), NEW l \in Towers,
         NEW m \in in[l] \cup {Header}
  PROVE  /\ \/ s.next[m][l] = NullNode /\ \A k \in in[l] : ~Before(t, m, k)
            \/ /\ s.next[m][l] \in in[l] /\ Before(t, m, s.next[m][l])
               /\ \A k \in in[l] : Before(t, m, k) => ~Before(t, k, s.next[m][l])
         /\ m = f[l] => /\ Before(t, m, n)
                        /\ s.next[m][l] # NullNode => Before(t, n, s.next[m][l])
                        /\ \A k \in in[l] : Before(t, m, k) <=> Before(t, n, k)
         /\ m # f[l] => /\ s.next[m][l] = NullNode => Before(t, n, m)
                        /\ s.next[m][l] # NullNode =>
                             /\ Before(t, m, n) <=> Before(t, s.next[m][l], n)
                             /\ Before(t, n, m) <=> Before(t, n, s.next[m][l])
<1>0. /\ Keyed(t) /\ n \in Nodes /\ f[l] \in Nodes /\ in[l] \subseteq in[1]
      /\ \A k \in in[l] \cup {Header} : k \in Nodes /\ k # n /\ k # NullNode
  BY AddsFacts
<1>1. /\ \A k, j \in in[1] \cup {Header} : Before(t, k, j) <=> Before(s, k, j)
      /\ f[l] \in in[l] \cup {Header} /\ Before(t, f[l], n)
      /\ \A k \in in[l] : Before(s, f[l], k) <=> Before(t, n, k)
  BY DEF Adds, FitsAt
<1>2. \/ s.next[m][l] = NullNode /\ \A k \in in[l] : ~Before(s, m, k)
      \/ /\ s.next[m][l] \in in[l] /\ Before(s, m, s.next[m][l])
         /\ \A k \in in[l] : Before(s, m, k) => ~Before(s, k, s.next[m][l])
  BY DEF Adds, Towered, Follows
<1>3. \/ s.next[m][l] = NullNode /\ \A k \in in[l] : ~Before(t, m, k)
      \/ /\ s.next[m][l] \in in[l] /\ Before(t, m, s.next[m][l])
         /\ \A k \in in[l] : Before(t, m, k) => ~Before(t, k, s.next[m][l])
  BY <1>0, <1>1, <1>2
<1>4. m = f[l] => /\ Before(t, m, n)
                  /\ s.next[m][l] # NullNode => Before(t, n, s.next[m][l])
                  /\ \A k \in in[l] : Before(t, m, k) <=> Before(t, n, k)
  BY <1>0, <1>1, <1>2
<1>5. ASSUME m # f[l]
      PROVE  /\ s.next[m][l] = NullNode => Before(t, n, m)
             /\ s.next[m][l] # NullNode =>
                  /\ Before(t, m, n) <=> Before(t, s.next[m][l], n)
                  /\ Before(t, n, m) <=> Before(t, n, s.next[m][l])
  <2>1. m \in Nodes /\ m # n /\ m # NullNode
    BY <1>0
  <2>2. CASE Before(t, m, n)
    <3>1. Before(t, m, f[l]) /\ f[l] \in in[l]
      <4>1. ~Before(t, f[l], m)
        <5>1. ASSUME Before(t, f[l], m) PROVE FALSE
          <6>1. m \in in[l]
            BY <1>0, <5>1, BeforeFacts
          <6>2. Before(t, n, m)
            BY <1>0, <1>1, <5>1, <6>1
          <6> QED BY <1>0, <2>1, <2>2, <6>2, BeforeFacts
        <5> QED BY <5>1
      <4>2. Before(t, m, f[l])
        BY <1>0, <1>5, <2>1, <4>1, BeforeTotal
      <4>3. f[l] # Header
        BY <1>0, <2>1, <4>2, BeforeFacts
      <4> QED BY <1>1, <4>2, <4>3
    <3>2. s.next[m][l] \in in[l] /\ ~Before(t, f[l], s.next[m][l])
      BY <1>3, <3>1
    <3>3. s.next[m][l] = f[l] \/ Before(t, s.next[m][l], f[l])
      BY <1>0, <3>2, BeforeTotal
    <3>4. Before(t, s.next[m][l], n)
      BY <1>0, <1>1, <3>2, <3>3, BeforeTransitive
    <3>5. s.next[m][l] \in Nodes /\ s.next[m][l] # NullNode
      BY <1>0, <3>2
    <3> QED BY <1>0, <2>1, <2>2, <3>4, <3>5, BeforeFacts
  <2>3. CASE ~Before(t, m, n)
    <3>1. Before(t, n, m)
      BY <1>0, <2>1, <2>3, BeforeTotal
    <3>2. ASSUME s.next[m][l] # NullNode
          PROVE  Before(t, n, s.next[m][l]) /\ ~Before(t, s.next[m][l], n)
      <4>1. s.next[m][l] \in Nodes /\ Before(t, m, s.next[m][l])
        BY <1>0, <1>3, <3>2
      <4>2. Before(t, n, s.next[m][l])
        BY <1>0, <2>1, <3>1, <4>1, BeforeTransitive
      <4> QED BY <1>0, <4>1, <4>2, BeforeFacts
    <3> QED BY <2>3, <3>1, <3>2
  <2> QED BY <2>2, <2>3
<1> QED BY <1>3, <1>4, <1>5

LEMMA AddsFollows ==
  ASSUME NEW s, NEW t, NEW in, NEW n, NEW f, NEW rank, NEW drawn,
         Adds(s, t, in, n, f, rank, drawn), NEW l \in Towers
  PROVE  Follows(t, l, InWith(in, n, drawn)[l])
<1>0. /\ Keyed(t) /\ n \in Nodes /\ n # NullNode /\ n \in Int /\ n # Header
      /\ l \in Nat /\ drawn \in Nat /\ f[l] \in Nodes /\ f[l] \in in[l] \cup {Header}
      /\ \A m \in in[l] \cup {Header} : m \in Nodes /\ m # n /\ m # NullNode
      /\ \A m \in Nodes : t.next[m][l] = IF l > drawn THEN s.next[m][l]
                                         ELSE IF m = n THEN s.next[f[l]][l]
                                         ELSE IF m = f[l] THEN n ELSE s.next[m][l]
  BY AddsFacts
<1>1. ASSUME NEW m \in in[l] \cup {Header}
      PROVE  /\ \/ s.next[m][l] = NullNode /\ \A k \in in[l] : ~Before(t, m, k)
                \/ /\ s.next[m][l] \in in[l] /\ Before(t, m, s.next[m][l])
                   /\ \A k \in in[l] : Before(t, m, k) => ~Before(t, k, s.next[m][l])
             /\ m = f[l] => /\ Before(t, m, n)
                            /\ s.next[m][l] # NullNode => Before(t, n, s.next[m][l])
                            /\ \A k \in in[l] : Before(t, m, k) <=> Before(t, n, k)
             /\ m # f[l] => /\ s.next[m][l] = NullNode => Before(t, n, m)
                            /\ s.next[m][l] # NullNode =>
                                 /\ Before(t, m, n) <=> Before(t, s.next[m][l], n)
                                 /\ Before(t, n, m) <=> Before(t, n, s.next[m][l])
  BY AddsBetween
<1>2. CASE l > drawn
  <2>1. InWith(in, n, drawn)[l] = in[l]
    BY <1>0, <1>2 DEF InWith
  <2>2. \A m \in in[l] \cup {Header} : t.next[m][l] = s.next[m][l]
    BY <1>0, <1>2
  <2> QED BY <1>1, <2>1, <2>2 DEF Follows
<1>3. CASE ~(l > drawn)
  <2>1. InWith(in, n, drawn)[l] = in[l] \cup {n}
    BY <1>0, <1>3 DEF InWith
  <2>2. ASSUME NEW m \in (in[l] \cup {n}) \cup {Header}
        PROVE  \/ t.next[m][l] = NullNode /\ \A k \in in[l] \cup {n} : ~Before(t, m, k)
               \/ /\ t.next[m][l] \in in[l] \cup {n} /\ Before(t, m, t.next[m][l])
                  /\ \A k \in in[l] \cup {n} : Before(t, m, k) => ~Before(t, k, t.next[m][l])
    <3>1. CASE m = n
      <4>1. t.next[m][l] = s.next[f[l]][l]
        BY <1>0, <1>3, <3>1
      <4>2. /\ \/ s.next[f[l]][l] = NullNode /\ \A k \in in[l] : ~Before(t, f[l], k)
               \/ /\ s.next[f[l]][l] \in in[l] /\ Before(t, f[l], s.next[f[l]][l])
                  /\ \A k \in in[l] : Before(t, f[l], k) => ~Before(t, k, s.next[f[l]][l])
            /\ s.next[f[l]][l] # NullNode => Before(t, n, s.next[f[l]][l])
            /\ \A k \in in[l] : Before(t, f[l], k) <=> Before(t, n, k)
        BY <1>0, <1>1
      <4>3. ~Before(t, n, n)
        BY <1>0, BeforeFacts
      <4> QED BY <1>0, <3>1, <4>1, <4>2, <4>3
    <3>2. CASE m = f[l]
      <4>1. t.next[m][l] = n
        BY <1>0, <1>3, <3>2
      <4>2. Before(t, m, n) /\ \A k \in in[l] : Before(t, m, k) <=> Before(t, n, k)
        BY <1>0, <1>1, <3>2
      <4>3. \A k \in in[l] \cup {n} : Before(t, m, k) => ~Before(t, k, n)
        BY <1>0, <4>2, BeforeFacts
      <4> QED BY <4>1, <4>2, <4>3
    <3>3. CASE m # n /\ m # f[l]
      <4>1. t.next[m][l] = s.next[m][l] /\ m \in in[l] \cup {Header} /\ m \in Nodes
        BY <1>0, <1>3, <3>3
      <4>2. /\ \/ s.next[m][l] = NullNode /\ \A k \in in[l] : ~Before(t, m, k)
               \/ /\ s.next[m][l] \in in[l] /\ Before(t, m, s.next[m][l])
                  /\ \A k \in in[l] : Before(t, m, k) => ~Before(t, k, s.next[m][l])
            /\ s.next[m][l] = NullNode => Before(t, n, m)
            /\ s.next[m][l] # NullNode => (Before(t, m, n) <=> Before(t, s.next[m][l], n))
        BY <1>1, <3>3, <4>1
      <4>3. CASE s.next[m][l] = NullNode
        <5>1. ~Before(t, m, n)
          BY <1>0, <4>1, <4>2, <4>3, BeforeFacts
        <5>2. NullNode \notin in[l]
          BY <1>0
        <5> QED BY <4>1, <4>2, <4>3, <5>1, <5>2
      <4>4. CASE s.next[m][l] # NullNode
        <5>1. s.next[m][l] \in Nodes
          BY <1>0, <4>2, <4>4
        <5>2. Before(t, m, n) => ~Before(t, n, s.next[m][l])
          BY <1>0, <4>2, <4>4, <5>1, BeforeFacts
        <5> QED BY <4>1, <4>2, <4>4, <5>2
      <4> QED BY <4>3, <4>4
    <3> QED BY <3>1, <3>2, <3>3
  <2> QED BY <2>1, <2>2 DEF Follows
<1> QED BY <1>2, <1>3

(* The places: those behind n grow by one.                                 *)
LEMMA AddsPlaces ==
  ASSUME NEW s, NEW t, NEW in, NEW n, NEW f, NEW rank, NEW drawn,
         Adds(s, t, in, n, f, rank, drawn)
  PROVE  /\ \A m \in in[1] \cup {Header} :
              /\ Place(s, in[1], m) \in Nat
              /\ Place(t, InWith(in, n, drawn)[1], m) =
                   IF Before(t, m, n) THEN Place(s, in[1], m) ELSE Place(s, in[1], m) + 1
         /\ Place(t, InWith(in, n, drawn)[1], n) = rank[1] + 1
         /\ \A l \in Towers : rank[l] \in Nat /\ rank[l] <= rank[1]
<1>0. /\ Keyed(t) /\ Keyed(s) /\ n \in Nodes /\ n # Header /\ 1 \in Towers
      /\ drawn \in Nat /\ 1 <= drawn /\ in[1] \in SUBSET Inner /\ n \in Inner
      /\ \A m \in in[1] \cup {Header} : m \in Nodes /\ m # n
      /\ \A l \in Towers : in[l] \subseteq in[1]
  BY AddsFacts DEF Inner
<1>1. /\ \A k, j \in in[1] \cup {Header} : Before(t, k, j) <=> Before(s, k, j)
      /\ \A l \in Towers : /\ f[l] \in in[l] \cup {Header} /\ Before(t, f[l], n)
                           /\ \A k \in in[l] : Before(s, f[l], k) <=> Before(t, n, k)
      /\ \A l \in Towers : rank[l] = Place(s, in[1], f[l])
  BY DEF Adds, FitsAt
<1>2. InWith(in, n, drawn)[1] = in[1] \cup {n} /\ n \notin in[1]
  BY <1>0 DEF InWith
<1>3. ASSUME NEW m \in in[1] \cup {Header}
      PROVE  /\ Place(s, in[1], m) \in Nat
             /\ Place(t, InWith(in, n, drawn)[1], m) =
                  IF Before(t, m, n) THEN Place(s, in[1], m) ELSE Place(s, in[1], m) + 1
  <2>1. {k \in in[1] : ~Before(t, m, k)} = {k \in in[1] : ~Before(s, m, k)}
    BY <1>1
  <2>2. Place(t, in[1], m) = Place(s, in[1], m)
    BY <2>1 DEF Place
  <2> QED BY <1>0, <1>2, <2>2, PlaceType, PlaceWith
<1>4. Place(t, InWith(in, n, drawn)[1], n) = rank[1] + 1
  <2>1. {k \in in[1] : ~Before(t, n, k)} = {k \in in[1] : ~Before(s, f[1], k)}
    BY <1>0, <1>1
  <2>2. Place(t, in[1], n) = rank[1]
    BY <1>0, <1>1, <2>1 DEF Place
  <2>3. ~Before(t, n, n)
    BY <1>0, BeforeFacts
  <2> QED BY <1>0, <1>2, <2>2, <2>3, PlaceWith
<1>5. ASSUME NEW l \in Towers PROVE rank[l] \in Nat /\ rank[l] <= rank[1]
  <2>1. f[l] \in in[1] \cup {Header} /\ f[1] \in in[1] \cup {Header}
    BY <1>0, <1>1
  <2>2. ~Before(s, f[1], f[l])
    <3>1. ASSUME Before(s, f[1], f[l]) PROVE FALSE
      <4>1. f[l] \in in[1]
        BY <1>0, <2>1, <3>1, BeforeFacts
      <4>2. Before(t, n, f[l]) /\ Before(t, f[l], n)
        BY <1>0, <1>1, <3>1, <4>1
      <4> QED BY <1>0, <2>1, <4>2, BeforeFacts
    <3> QED BY <3>1
  <2>3. Place(s, in[1], f[l]) <= Place(s, in[1], f[1])
    BY <1>0, <2>1, <2>2, PlaceGrows
  <2> QED BY <1>0, <1>1, <1>3, <2>1, <2>3
<1> QED BY <1>3, <1>4, <1>5

LEMMA AddsSpans ==
  ASSUME NEW s, NEW t, NEW in, NEW n, NEW f, NEW rank, NEW drawn,
         Adds(s, t, in, n, f, rank, drawn), NEW l \in Towers
  PROVE  Spans(t, l, InWith(in, n, drawn)[l], InWith(in, n, drawn)[1])
<1> DEFINE P(m) == Place(s, in[1], m)
           Q(m) == Place(t, InWith(in, n, drawn)[1], m)
<1>0. /\ n \in Nodes /\ n # NullNode /\ Keyed(t) /\ s.level \in Nat
      /\ l \in Nat /\ drawn \in Nat /\ f[l] \in Nodes /\ f[l] \in in[l] \cup {Header}
      /\ in[l] \subseteq in[1] /\ rank[l] = P(f[l])
      /\ \A m \in in[l] \cup {Header} : m \in Nodes /\ m # n /\ m # NullNode
      /\ \A m \in Nodes : t.next[m][l] = IF l > drawn THEN s.next[m][l]
                                         ELSE IF m = n THEN s.next[f[l]][l]
                                         ELSE IF m = f[l] THEN n ELSE s.next[m][l]
  BY AddsFacts
<1>1. ASSUME NEW m \in Nodes
      PROVE  t.span[m][l] =
               IF l <= drawn
               THEN IF m = n THEN (IF l > s.level THEN rank[1] ELSE s.span[f[l]][l]) - (rank[1] - rank[l])
                    ELSE IF m = f[l] THEN rank[1] - rank[l] + 1 ELSE s.span[m][l]
               ELSE IF l <= s.level /\ m = f[l] /\ s.next[m][l] # NullNode
                    THEN s.span[m][l] + 1 ELSE s.span[m][l]
  BY AddsFacts
<1>2. /\ \A m \in in[1] \cup {Header} : P(m) \in Nat /\ Q(m) = IF Before(t, m, n) THEN P(m) ELSE P(m) + 1
      /\ Q(n) = rank[1] + 1 /\ rank[l] \in Nat /\ rank[1] \in Nat
  BY AddsPlaces, AddsFacts
(* The old links: from f over n, or on one side of it.                     *)
<1>3. ASSUME NEW m \in in[l] \cup {Header}, s.next[m][l] # NullNode
      PROVE  /\ s.next[m][l] \in in[l] /\ l <= s.level
             /\ s.span[m][l] = P(s.next[m][l]) - P(m)
             /\ m # f[l] => Q(s.next[m][l]) - Q(m) = P(s.next[m][l]) - P(m)
             /\ m = f[l] => Q(s.next[m][l]) = P(s.next[m][l]) + 1 /\ Q(m) = P(m)
  <2> DEFINE x == s.next[m][l]
  <2>1. x \in in[l] /\ (m = f[l] => Before(t, m, n) /\ Before(t, n, x))
        /\ (m # f[l] => (Before(t, m, n) <=> Before(t, x, n)))
    BY <1>3, AddsBetween
  <2>2. l <= s.level
    BY <1>0, <2>1 DEF Adds, Towered
  <2>3. s.span[m][l] = P(x) - P(m)
    BY <1>3 DEF Adds, Towered, Spans
  <2>4. m \in in[1] \cup {Header} /\ x \in in[1]
    BY <1>0, <2>1
  <2>5. m = f[l] => ~Before(t, x, n)
    BY <1>0, <2>1, BeforeFacts
  <2> HIDE DEF P, Q, x
  <2>6. (m # f[l] => Q(x) - Q(m) = P(x) - P(m)) /\ (m = f[l] => Q(x) = P(x) + 1 /\ Q(m) = P(m))
    BY <1>2, <2>1, <2>4, <2>5
  <2> QED BY <2>1, <2>2, <2>3, <2>6 DEF x
<1>4. Q(f[l]) = rank[l]
  <2>1. Before(t, f[l], n)
    BY DEF Adds, FitsAt
  <2> QED BY <1>0, <1>2, <2>1
<1> HIDE DEF P, Q
<1>5. ASSUME NEW m \in InWith(in, n, drawn)[l] \cup {Header}, t.next[m][l] # NullNode
      PROVE  t.span[m][l] = Q(t.next[m][l]) - Q(m)
  <2>0. m \in Nodes /\ (m # n => m \in in[l] \cup {Header}) /\ (m = n => ~(l > drawn))
    BY <1>0 DEF InWith
  <2>1. CASE m = n
    <3>1. t.next[m][l] = s.next[f[l]][l] /\ s.next[f[l]][l] # NullNode
      BY <1>0, <1>5, <2>0, <2>1
    <3>2. /\ s.next[f[l]][l] \in in[l] /\ l <= s.level
          /\ s.span[f[l]][l] = P(s.next[f[l]][l]) - P(f[l])
          /\ Q(s.next[f[l]][l]) = P(s.next[f[l]][l]) + 1
      BY <1>0, <1>3, <3>1
    <3>3. t.span[m][l] = s.span[f[l]][l] - (rank[1] - rank[l])
      BY <1>0, <1>1, <2>0, <2>1, <3>2
    <3>4. P(s.next[f[l]][l]) \in Nat
      BY <1>0, <1>2, <3>2
    <3> QED BY <1>0, <1>2, <2>1, <3>1, <3>2, <3>3, <3>4
  <2>2. CASE m # n /\ m = f[l] /\ l <= drawn
    <3>1. t.next[m][l] = n
      BY <1>0, <2>0, <2>2
    <3>2. t.span[m][l] = rank[1] - rank[l] + 1
      BY <1>1, <2>0, <2>2
    <3> QED BY <1>2, <1>4, <2>2, <3>1, <3>2
  <2>3. CASE m # n /\ m = f[l] /\ ~(l <= drawn)
    <3>1. t.next[m][l] = s.next[m][l] /\ s.next[m][l] # NullNode
      BY <1>0, <1>5, <2>0, <2>3
    <3>2. /\ s.next[m][l] \in in[l] /\ l <= s.level
          /\ s.span[m][l] = P(s.next[m][l]) - P(m)
          /\ Q(s.next[m][l]) = P(s.next[m][l]) + 1 /\ Q(m) = P(m)
      BY <1>3, <2>0, <2>3, <3>1
    <3>3. t.span[m][l] = s.span[m][l] + 1
      BY <1>1, <2>0, <2>3, <3>1, <3>2
    <3>4. P(s.next[m][l]) \in Nat /\ P(m) \in Nat
      BY <1>0, <1>2, <2>0, <2>3, <3>2
    <3> QED BY <3>1, <3>2, <3>3, <3>4
  <2>4. CASE m # n /\ m # f[l]
    <3>1. t.next[m][l] = s.next[m][l] /\ s.next[m][l] # NullNode
      BY <1>0, <1>5, <2>0, <2>4
    <3>2. /\ s.span[m][l] = P(s.next[m][l]) - P(m)
          /\ Q(s.next[m][l]) - Q(m) = P(s.next[m][l]) - P(m)
      BY <1>3, <2>0, <2>4, <3>1
    <3>3. t.span[m][l] = s.span[m][l]
      BY <1>1, <2>0, <2>4
    <3> QED BY <3>1, <3>2, <3>3
  <2> QED BY <2>1, <2>2, <2>3, <2>4
<1> QED BY <1>5 DEF Spans, Q

LEMMA AddsLow ==
  ASSUME NEW s, NEW t, NEW in, NEW n, NEW f, NEW rank, NEW drawn,
         Adds(s, t, in, n, f, rank, drawn), EndsLow(s, in)
  PROVE  EndsLow(t, InWith(in, n, drawn))
<1> SUFFICES ASSUME NEW l \in Towers, NEW m \in InWith(in, n, drawn)[l] \cup {Header},
                    t.next[m][l] = NullNode
             PROVE  t.span[m][l] <= 0
  BY DEF EndsLow
<1>0. /\ n \in Nodes /\ n # NullNode /\ s.level \in Nat
      /\ l \in Nat /\ drawn \in Nat /\ f[l] \in Nodes /\ f[l] \in in[l] \cup {Header}
      /\ l > s.level => rank[l] = 0
      /\ \A k \in in[l] \cup {Header} : k \in Nodes /\ k # n
  BY AddsFacts
<1>1. /\ t.next[m][l] = IF l > drawn THEN s.next[m][l]
                        ELSE IF m = n THEN s.next[f[l]][l]
                        ELSE IF m = f[l] THEN n ELSE s.next[m][l]
      /\ t.span[m][l] =
           IF l <= drawn
           THEN IF m = n THEN (IF l > s.level THEN rank[1] ELSE s.span[f[l]][l]) - (rank[1] - rank[l])
                ELSE IF m = f[l] THEN rank[1] - rank[l] + 1 ELSE s.span[m][l]
           ELSE IF l <= s.level /\ m = f[l] /\ s.next[m][l] # NullNode
                THEN s.span[m][l] + 1 ELSE s.span[m][l]
      /\ (m # n => m \in in[l] \cup {Header}) /\ (m = n => l <= drawn)
  <2>1. m \in Nodes /\ (m # n => m \in in[l] \cup {Header}) /\ (m = n => l <= drawn)
    BY <1>0 DEF InWith
  <2> QED BY <2>1, AddsFacts
<1>2. rank[l] \in Nat /\ rank[1] \in Nat /\ rank[l] <= rank[1]
  BY AddsPlaces, AddsFacts
<1>3. \A k \in in[l] \cup {Header} : s.next[k][l] = NullNode => s.span[k][l] <= 0
  BY DEF EndsLow
<1>4. \A k \in Nodes : s.span[k][l] \in Int
  BY DEF Adds, SoundList, Spanned
<1>5. CASE m = n
  <2>1. s.next[f[l]][l] = NullNode /\ l <= drawn
    BY <1>0, <1>1, <1>5
  <2>2. s.span[f[l]][l] <= 0 /\ s.span[f[l]][l] \in Int
    BY <1>0, <1>3, <1>4, <2>1
  <2>3. t.span[m][l] = (IF l > s.level THEN rank[1] ELSE s.span[f[l]][l]) - (rank[1] - rank[l])
    BY <1>1, <1>5, <2>1
  <2> QED BY <1>0, <1>2, <2>2, <2>3
<1>6. CASE m # n
  <2>0. l > drawn \/ m # f[l]
    BY <1>0, <1>1, <1>6
  <2>2. s.next[m][l] = NullNode
    BY <1>1, <1>6, <2>0
  <2>3. ~(l <= drawn) \/ m # f[l]
    BY <1>0, <2>0
  <2>1. s.next[m][l] = NullNode /\ t.span[m][l] = s.span[m][l]
    BY <1>1, <1>6, <2>2, <2>3
  <2> QED BY <1>1, <1>3, <1>6, <2>1
<1> QED BY <1>5, <1>6

(* What SkipListTypeOK says of the list.                                   *)
Typed(s) ==
  /\ s.score \in [Nodes -> Int] /\ s.obj \in [Nodes -> Int]
  /\ s.previous \in [Nodes -> Nodes \cup {NullNode}]
  /\ s.next \in [Nodes -> [Towers -> Nodes \cup {NullNode}]]
  /\ s.span \in [Nodes -> [Towers -> Int]]
  /\ s.tailer \in Nodes /\ s.level \in Nat /\ s.length \in Int
  /\ s.created \in Nodes

LEMMA AddsUpward ==
  ASSUME NEW s, NEW t, NEW in, NEW n, NEW f, NEW rank, NEW drawn,
         Adds(s, t, in, n, f, rank, drawn)
  PROVE  Upward(t)
<1>0. t.created = n /\ n = s.created + 1 /\ Upward(s) /\ s.created \in Nat
      /\ \A k, m \in 0..s.created : Before(t, k, m) <=> Before(s, k, m)
  BY LevelSets DEF Adds, SoundList
<1>1. SUFFICES ASSUME NEW m \in Nodes, NEW l \in Towers, t.next[m][l] # NullNode
               PROVE  m <= n /\ t.next[m][l] \in 1..n /\ Before(t, m, t.next[m][l])
  BY <1>0 DEF Upward
<1>2. /\ n \in Nodes /\ n \in Int /\ f[l] \in Nodes /\ f[l] \in 0..s.created
      /\ f[l] \in in[l] \cup {Header}
      /\ \A k \in in[l] \cup {Header} : k \in Nodes /\ k \in 0..s.created
      /\ t.next[m][l] = IF l > drawn THEN s.next[m][l]
                        ELSE IF m = n THEN s.next[f[l]][l]
                        ELSE IF m = f[l] THEN n ELSE s.next[m][l]
  BY AddsFacts
<1>3. CASE t.next[m][l] = s.next[m][l]
  <2>1. m <= s.created /\ s.next[m][l] \in 1..s.created /\ Before(s, m, s.next[m][l])
    BY <1>0, <1>1, <1>3 DEF Upward
  <2>2. m \in 0..s.created /\ s.next[m][l] \in 0..s.created
    BY <1>0, <2>1, SkipListAssumption DEF Nodes
  <2>3. Before(t, m, s.next[m][l])
    BY <1>0, <2>1, <2>2
  <2> QED BY <1>0, <1>3, <2>1, <2>2, <2>3
<1>4. CASE m = n /\ t.next[m][l] = s.next[f[l]][l]
  <2>1. s.next[f[l]][l] \in in[l] /\ Before(t, n, s.next[f[l]][l])
    BY <1>1, <1>2, <1>4, AddsBetween
  <2>2. s.next[f[l]][l] \in 1..s.created
    BY <1>0, <1>1, <1>2, <1>4 DEF Upward
  <2> QED BY <1>0, <1>2, <1>4, <2>1, <2>2
<1>5. CASE m = f[l] /\ t.next[m][l] = n
  <2>1. Before(t, f[l], n)
    BY DEF Adds, FitsAt
  <2> QED BY <1>0, <1>2, <1>5, <2>1
<1> QED BY <1>2, <1>3, <1>4, <1>5

LEMMA AddsTowered ==
  ASSUME NEW s, NEW t, NEW in, NEW n, NEW f, NEW rank, NEW drawn,
         Adds(s, t, in, n, f, rank, drawn),
         t.tailer = (IF s.next[f[1]][1] = NullNode THEN n ELSE s.tailer),
         t.level = TopWith(s, drawn), t.length = s.length + 1
  PROVE  Towered(t, InWith(in, n, drawn))
<1> DEFINE in2 == InWith(in, n, drawn)
<1>0. /\ Keyed(t) /\ n \in Nodes /\ n \in Int /\ n \notin 0..s.created /\ n # Header
      /\ 1 \in Towers /\ drawn \in Nat /\ 1 <= drawn /\ s.level \in Nat
      /\ drawn <= SKIP_LIST_MAX_LEVEL /\ s.level <= SKIP_LIST_MAX_LEVEL
      /\ \A l \in Towers : l \in Nat /\ in[l] \subseteq in[1]
      /\ f[1] \in in[1] \cup {Header}
      /\ \A m \in in[1] \cup {Header} : m \in Nodes /\ m \in 0..s.created /\ m # n /\ m # NullNode
  <2>1. drawn <= SKIP_LIST_MAX_LEVEL /\ s.level <= SKIP_LIST_MAX_LEVEL
    BY SkipListAssumption DEF Adds, Towered, Towers
  <2> QED BY <2>1, AddsFacts
<1>1. t.created = n /\ n = s.created + 1 /\ s.created \in Nat
  BY LevelSets DEF Adds
<1>2. Towered(s, in)
  BY DEF Adds
<1>3. \A l \in Towers : in2[l] = IF l <= drawn THEN in[l] \cup {n} ELSE in[l]
  BY DEF InWith
<1>4. in2 \in [Towers -> SUBSET (1..t.created)]
  <2>1. \A l \in Towers : in[l] \in SUBSET (1..s.created)
    BY <1>2 DEF Towered
  <2>2. 1..s.created \subseteq 1..n /\ n \in 1..n
    BY <1>1
  <2> QED BY <1>1, <2>1, <2>2 DEF InWith
<1>5. \A k, l \in Towers : k <= l => in2[l] \subseteq in2[k]
  <2> SUFFICES ASSUME NEW k \in Towers, NEW l \in Towers, k <= l PROVE in2[l] \subseteq in2[k]
    OBVIOUS
  <2>1. in[l] \subseteq in[k] /\ (l <= drawn => k <= drawn)
    BY <1>0, <1>2 DEF Towered
  <2> QED BY <1>3, <2>1
<1>6. t.level \in Nat /\ t.level <= SKIP_LIST_MAX_LEVEL /\ t.level >= drawn /\ t.level >= s.level
      /\ (t.level = drawn \/ t.level = s.level)
  BY <1>0 DEF TopWith
<1>7. ASSUME NEW l \in Towers
      PROVE  (l > t.level => in2[l] = {}) /\ (l > 1 /\ in2[l] = {} => l > t.level)
  <2>1. (l > s.level => in[l] = {}) /\ (l > 1 /\ in[l] = {} => l > s.level)
    BY <1>2 DEF Towered
  <2>2. l > t.level => l > s.level /\ ~(l <= drawn)
    BY <1>0, <1>6
  <2>3. in2[l] = {} => in[l] = {} /\ ~(l <= drawn)
    BY <1>3
  <2>4. l > s.level /\ ~(l <= drawn) => l > t.level
    BY <1>0, <1>6
  <2> QED BY <1>3, <2>1, <2>2, <2>3, <2>4
<1>8. \A l \in Towers : Follows(t, l, in2[l]) /\ Spans(t, l, in2[l], in2[1])
  BY AddsFollows, AddsSpans
<1>9. t.length = Cardinality(in2[1])
  <2>1. in2[1] = in[1] \cup {n} /\ n \notin in[1]
    BY <1>0, <1>3
  <2>2. IsFiniteSet(in[1])
    BY <1>0, NodesAreFinite
  <2>3. s.length = Cardinality(in[1])
    BY <1>2 DEF Towered
  <2>4. Cardinality(in[1] \cup {n}) = Cardinality(in[1]) + 1
    BY <2>1, <2>2, FS_AddElement
  <2> QED BY <2>1, <2>3, <2>4
<1>10. t.tailer \in in2[1] \cup {Header} /\ \A m \in in2[1] : ~Before(t, t.tailer, m)
  <2>0. in2[1] = in[1] \cup {n} /\ ~Before(t, n, n)
    BY <1>0, <1>3, BeforeFacts
  <2>1. CASE s.next[f[1]][1] = NullNode
    <3>1. \A k \in in[1] : ~Before(t, f[1], k) /\ (Before(t, f[1], k) <=> Before(t, n, k))
      <4>1. \A k \in in[1] : Before(t, f[1], k) <=> Before(t, n, k)
        BY <1>0, AddsBetween
      <4>2. NullNode \notin in[1]
        BY <1>0
      <4>3. \A k \in in[1] : ~Before(t, f[1], k)
        BY <1>0, <2>1, <4>2, AddsBetween
      <4> QED BY <4>1, <4>3
    <3> QED BY <2>0, <2>1, <3>1
  <2>2. CASE s.next[f[1]][1] # NullNode
    <3> DEFINE x == s.next[f[1]][1]
    <3>1. x \in in[1] /\ Before(t, n, x)
      BY <1>0, <2>2, AddsBetween
    <3>2. s.tailer \in in[1] \cup {Header} /\ \A m \in in[1] : ~Before(s, s.tailer, m)
      BY <1>2 DEF Towered
    <3>3. \A m \in in[1] : ~Before(t, s.tailer, m)
      BY <3>2 DEF Adds, FitsAt
    <3>4. x = s.tailer \/ Before(t, x, s.tailer)
      BY <1>0, <3>1, <3>2, <3>3, BeforeTotal
    <3>5. Before(t, n, s.tailer)
      BY <1>0, <3>1, <3>2, <3>4, BeforeTransitive
    <3>6. ~Before(t, s.tailer, n)
      BY <1>0, <3>2, <3>5, BeforeFacts
    <3> QED BY <2>0, <2>2, <3>2, <3>3, <3>6
  <2> QED BY <2>1, <2>2
<1> HIDE DEF in2
<1> QED BY <1>4, <1>5, <1>6, <1>7, <1>8, <1>9, <1>10 DEF Towered, in2

LEMMA InsertKeeps ==
  ASSUME NEW s, IsList(s), Typed(s), Upward(s), NEW in, Towered(s, in), s.created < MaxNodes,
         NEW score \in Int, NEW obj \in Int, NEW drawn \in Towers,
         NEW t, t = WithNode(s, score, obj, drawn)
  PROVE  /\ IsList(t) /\ Typed(t) /\ Upward(t)
         /\ Towered(t, InWith(in, s.created + 1, drawn))
         /\ EndsLow(s, in) => EndsLow(t, InWith(in, s.created + 1, drawn))
<1>n. PICK n : n = s.created + 1
  OBVIOUS
<1>f. PICK f : f = Fronts(s, score, obj, drawn)
  OBVIOUS
<1>r. PICK rank : rank = FrontRanks(s, score, obj, drawn)
  OBVIOUS
<1>0. SoundList(s)
  BY DEF SoundList, Keyed, Spanned, Typed
<1>1. HasFields(s, t, score, obj, n, f, rank, drawn)
  BY <1>n, <1>f, <1>r, WithNodeFields
<1>2. /\ n \in Nodes /\ n \in Inner /\ Keyed(t) /\ FitsAt(s, t, in, n, f)
      /\ TopWith(s, drawn) \in Nat /\ TopWith(s, drawn) <= SKIP_LIST_MAX_LEVEL
      /\ \A l \in Towers : rank[l] = Place(s, in[1], f[l])
      /\ \A l \in Towers : l > s.level => f[l] = Header /\ rank[l] = 0
      /\ \A k, m \in 0..s.created : Before(t, k, m) <=> Before(s, k, m)
  <2>1. /\ t.score = [s.score EXCEPT ![n] = score] /\ t.obj = [s.obj EXCEPT ![n] = obj]
        /\ t.created = n
    BY <1>1 DEF HasFields
  <2> QED BY <1>0, <1>n, <1>f, <1>r, <2>1, SearchFits
<1>3. Adds(s, t, in, n, f, rank, drawn)
  BY <1>0, <1>1, <1>2, <1>n DEF Adds, HasFields
<1>4. Upward(t) /\ Towered(t, InWith(in, n, drawn))
      /\ (EndsLow(s, in) => EndsLow(t, InWith(in, n, drawn)))
  BY <1>1, <1>3, AddsUpward, AddsTowered, AddsLow DEF HasFields
<1>5. /\ \A l \in Towers : f[l] \in Nodes /\ rank[l] \in Nat
      /\ 1 \in Towers /\ s.level \in Nat
  BY <1>3, AddsFacts, AddsPlaces
<1>6. Typed(t)
  <2>1. t.score \in [Nodes -> Int] /\ t.obj \in [Nodes -> Int] /\ t.created \in Nodes
    BY <1>1, <1>2 DEF Typed, HasFields
  <2>2. t.previous \in [Nodes -> Nodes \cup {NullNode}]
    <3>1. \A m \in Nodes : s.previous[m] \in Nodes \cup {NullNode}
      BY DEF Typed
    <3> QED BY <1>1, <1>2, <1>5, <3>1 DEF HasFields
  <2>3. t.next \in [Nodes -> [Towers -> Nodes \cup {NullNode}]]
    <3>1. \A m \in Nodes, l \in Towers : s.next[m][l] \in Nodes \cup {NullNode}
      BY DEF Typed
    <3> QED BY <1>1, <1>2, <1>5, <3>1 DEF HasFields
  <2>4. t.span \in [Nodes -> [Towers -> Int]]
    <3>1. \A m \in Nodes, l \in Towers : s.span[m][l] \in Int
      BY DEF Typed
    <3>2. ASSUME NEW m \in Nodes, NEW l \in Towers
          PROVE  (IF l <= drawn
                  THEN IF m = n THEN (IF l > s.level THEN rank[1] ELSE s.span[f[l]][l]) - (rank[1] - rank[l])
                       ELSE IF m = f[l] THEN rank[1] - rank[l] + 1 ELSE s.span[m][l]
                  ELSE IF l <= s.level /\ m = f[l] /\ s.next[m][l] # NullNode
                       THEN s.span[m][l] + 1 ELSE s.span[m][l]) \in Int
      BY <1>5, <3>1
    <3> QED BY <1>1, <3>2 DEF HasFields
  <2>5. t.tailer \in Nodes /\ t.level \in Nat /\ t.length \in Int
    BY <1>1, <1>2 DEF Typed, HasFields
  <2> QED BY <2>1, <2>2, <2>3, <2>4, <2>5 DEF Typed
<1> QED BY <1>1, <1>4, <1>6, <1>n DEF HasFields
-----------------------------------------------------------------------------
(* deleteNode *)

(* Where the search of deleteNode ends at each level, the levels that it   *)
(* cuts and those that it leaves empty.                                    *)
Stops(s, A) == [l \in Towers |-> Reached(s, l, Header, A)]
Cut(s, f) == {l \in 1..s.level : \A k \in 1..l : s.next[f[k]][k] # NullNode}
Emptied(s, f, done) ==
  {l \in done : f[l] = Header /\ s.next[s.next[f[l]][l]][l] = NullNode}

(* t is what deleteNode makes of s when it takes out what stands behind f. *)
LosesFields(s, t, f, done) ==
  /\ IsList(t)
  /\ t.score = s.score /\ t.obj = s.obj /\ t.created = s.created
  /\ t.previous = [m \in Nodes |-> IF m = s.next[s.next[f[1]][1]][1] THEN f[1] ELSE s.previous[m]]
  /\ t.next = [m \in Nodes |-> [l \in Towers |->
       IF l \in done /\ m = f[l] THEN s.next[s.next[f[l]][l]][l] ELSE s.next[m][l]]]
  /\ t.span = [m \in Nodes |-> [l \in Towers |->
       IF l \in done /\ m = f[l] THEN s.span[m][l] + s.span[s.next[f[l]][l]][l] - 1
       ELSE s.span[m][l]]]
  /\ t.tailer = IF s.next[s.next[f[1]][1]][1] = NullNode THEN f[1] ELSE s.tailer
  /\ t.level = s.level - Cardinality(Emptied(s, f, done))
  /\ t.length = s.length - 1

(* What the search passes.                                                 *)
Lesser(s, score, obj) == {n \in 1..s.created : s.score[n] < score \/ s.obj[n] < obj}

LEMMA WithoutNodeFields ==
  ASSUME NEW s, IsList(s), NEW score, NEW obj,
         NEW f, f = Stops(s, Lesser(s, score, obj)), NEW done, done = Cut(s, f),
         NEW t, t = WithoutNode(s, score, obj)
  PROVE  \/ /\ LosesFields(s, t, f, done)
            /\ s.next[f[1]][1] # NullNode
         \/ /\ t = s
            /\ \/ s.next[f[1]][1] = NullNode
               \/ s.score[s.next[f[1]][1]] # score
<1> DEFINE F == Stops(s, Lesser(s, score, obj))
           D == Cut(s, F)
           node == s.next[F[1]][1]
           last == s.next[node][1]
           previous == [m \in Nodes |-> IF m = last THEN F[1] ELSE s.previous[m]]
           next == [m \in Nodes |-> [l \in Towers |->
              IF l \in D /\ m = F[l] THEN s.next[s.next[F[l]][l]][l] ELSE s.next[m][l]]]
           span == [m \in Nodes |-> [l \in Towers |->
              IF l \in D /\ m = F[l] THEN s.span[m][l] + s.span[s.next[F[l]][l]][l] - 1
              ELSE s.span[m][l]]]
           empty == Emptied(s, F, D)
<1>1. t = IF node = NullNode \/ (s.score[node] # score /\ s.obj[node] < obj) THEN s
          ELSE [s EXCEPT !.tailer = IF last = NullNode THEN F[1] ELSE @,
                         !.previous = previous, !.next = next, !.span = span,
                         !.level = @ - Cardinality(empty), !.length = @ - 1]
  BY DEF WithoutNode, Stops, Lesser, Cut, Emptied
<1>2. F = f /\ D = done
  OBVIOUS
<1> HIDE DEF F, D, node, last, previous, next, span, empty
<1>3. CASE node = NullNode \/ (s.score[node] # score /\ s.obj[node] < obj)
  BY <1>1, <1>2, <1>3 DEF node
<1>4. CASE ~(node = NullNode \/ (s.score[node] # score /\ s.obj[node] < obj))
  <2>1. t = [s EXCEPT !.tailer = IF last = NullNode THEN F[1] ELSE @,
                      !.previous = previous, !.next = next, !.span = span,
                      !.level = @ - Cardinality(empty), !.length = @ - 1]
    BY <1>1, <1>4
  <2>2. IsList(t)
    BY <2>1 DEF IsList
  <2>3. /\ t.score = s.score /\ t.obj = s.obj /\ t.created = s.created
        /\ t.previous = previous /\ t.next = next /\ t.span = span
        /\ t.tailer = (IF last = NullNode THEN F[1] ELSE s.tailer)
        /\ t.level = s.level - Cardinality(empty) /\ t.length = s.length - 1
    BY <2>1 DEF IsList, Fields
  <2> QED BY <1>2, <1>4, <2>2, <2>3 DEF LosesFields, previous, next, span, empty, last, node
<1> QED BY <1>3, <1>4

LEMMA DeleteTyped ==
  ASSUME NEW s, IsList(s), Typed(s), Upward(s), s.level <= SKIP_LIST_MAX_LEVEL,
         NEW score \in Int, NEW obj \in Int, NEW t, t = WithoutNode(s, score, obj)
  PROVE  IsList(t) /\ Typed(t)
<1>f. PICK f : f = Stops(s, Lesser(s, score, obj))
  OBVIOUS
<1>d. PICK done : done = Cut(s, f)
  OBVIOUS
<1>1. LosesFields(s, t, f, done) \/ t = s
  BY <1>f, <1>d, WithoutNodeFields
<1>2. SUFFICES ASSUME LosesFields(s, t, f, done) PROVE Typed(t) /\ IsList(t)
  BY <1>1
<1>3. SKIP_LIST_MAX_LEVEL \in Nat \ {0} /\ Towers = 1..SKIP_LIST_MAX_LEVEL /\ 1 \in Towers
      /\ s.level \in Nat
  BY SkipListAssumption DEF Towers, Typed
<1>4. \A l \in Towers : f[l] \in Nodes
  <2>1. Keyed(s) /\ NullNode \notin Lesser(s, score, obj)
    BY DEF Keyed, Typed, Lesser, NullNode
  <2> QED BY <1>f, <2>1, ReachedTyped, NodesAreNumbers DEF Stops
<1>5. \A l \in done : l \in Towers /\ s.next[f[l]][l] \in Nodes
  <2>1. \A l \in done : l \in Towers /\ s.next[f[l]][l] # NullNode
    BY <1>d, <1>3 DEF Cut
  <2> QED BY <1>4, <2>1 DEF Typed
<1>6. t.level \in Nat
  <2>1. Emptied(s, f, done) \subseteq 1..s.level
    BY <1>d DEF Emptied, Cut
  <2>2. \A k \in Nat : IsFiniteSet(1..k) /\ Cardinality(1..k) = k
    BY FS_Interval
  <2>3. /\ Cardinality(Emptied(s, f, done)) <= s.level
        /\ Cardinality(Emptied(s, f, done)) \in Nat
    BY <1>3, <2>1, <2>2, FS_Subset, FS_CardinalityType
  <2>4. t.level = s.level - Cardinality(Emptied(s, f, done))
    BY <1>2 DEF LosesFields
  <2> QED BY <1>3, <2>3, <2>4
<1>7. t.previous \in [Nodes -> Nodes \cup {NullNode}]
  <2>1. \A m \in Nodes : s.previous[m] \in Nodes \cup {NullNode}
    BY DEF Typed
  <2> QED BY <1>2, <1>3, <1>4, <2>1 DEF LosesFields
<1>8. t.next \in [Nodes -> [Towers -> Nodes \cup {NullNode}]]
  <2>1. \A m \in Nodes, l \in Towers : s.next[m][l] \in Nodes \cup {NullNode}
    BY DEF Typed
  <2>2. \A m \in Nodes, l \in Towers :
          (IF l \in done /\ m = f[l] THEN s.next[s.next[f[l]][l]][l] ELSE s.next[m][l])
            \in Nodes \cup {NullNode}
    BY <1>5, <2>1
  <2>3. t.next = [m \in Nodes |-> [l \in Towers |->
          IF l \in done /\ m = f[l] THEN s.next[s.next[f[l]][l]][l] ELSE s.next[m][l]]]
    BY <1>2 DEF LosesFields
  <2> QED BY <2>2, <2>3
<1>9. t.span \in [Nodes -> [Towers -> Int]]
  <2>1. \A m \in Nodes, l \in Towers : s.span[m][l] \in Int
    BY DEF Typed
  <2>2. \A m \in Nodes, l \in Towers :
          (IF l \in done /\ m = f[l] THEN s.span[m][l] + s.span[s.next[f[l]][l]][l] - 1
           ELSE s.span[m][l]) \in Int
    BY <1>5, <2>1
  <2>3. t.span = [m \in Nodes |-> [l \in Towers |->
          IF l \in done /\ m = f[l] THEN s.span[m][l] + s.span[s.next[f[l]][l]][l] - 1
          ELSE s.span[m][l]]]
    BY <1>2 DEF LosesFields
  <2> QED BY <2>2, <2>3
<1>10. t.tailer \in Nodes /\ t.length \in Int /\ t.created \in Nodes
       /\ t.score \in [Nodes -> Int] /\ t.obj \in [Nodes -> Int]
  <2>1. s.tailer \in Nodes /\ s.length \in Int /\ s.created \in Nodes
        /\ s.score \in [Nodes -> Int] /\ s.obj \in [Nodes -> Int]
    BY DEF Typed
  <2>2. t.created = s.created
    BY <1>2 DEF LosesFields
  <2>3. t.score = s.score /\ t.obj = s.obj
    BY <1>2 DEF LosesFields
  <2>4. t.length = s.length - 1
    BY <1>2 DEF LosesFields
  <2>5. t.tailer = IF s.next[s.next[f[1]][1]][1] = NullNode THEN f[1] ELSE s.tailer
    BY <1>2 DEF LosesFields
  <2> QED BY <1>3, <1>4, <2>1, <2>2, <2>3, <2>4, <2>5
<1>11. IsList(t)
  BY <1>2 DEF LosesFields
<1> QED BY <1>6, <1>7, <1>8, <1>9, <1>10, <1>11 DEF Typed

(* t is s without the first node of each level that is not in A, which     *)
(* has the beginning of the list.                                          *)
Loses(s, t, in, A, f, done) ==
  /\ SoundList(s) /\ Towered(s, in) /\ Begins(s, in[1], A)
  /\ \A l \in Towers : Edge(s, in[l], A, f[l])
  /\ done = {l \in Towers : s.next[f[l]][l] # NullNode} /\ 1 \in done
  /\ LosesFields(s, t, f, done)

InWithout(s, in, f, done) ==
  [l \in Towers |-> IF l \in done THEN in[l] \ {s.next[f[l]][l]} ELSE in[l]]

LEMMA LosesFacts ==
  ASSUME NEW s, NEW t, NEW in, NEW A, NEW f, NEW done, Loses(s, t, in, A, f, done)
  PROVE  /\ Keyed(s) /\ 1 \in Towers /\ 1 \in done /\ done \subseteq Towers
         /\ \A l \in Towers : /\ l \in Nat /\ in[l] \subseteq in[1] /\ in[l] \in SUBSET Inner
                              /\ in[l] \subseteq Nodes
         /\ \A m, n \in Nodes : Before(t, m, n) <=> Before(s, m, n)
         /\ \A m \in Nodes, l \in Towers :
              /\ t.next[m][l] = IF l \in done /\ m = f[l] THEN s.next[s.next[f[l]][l]][l]
                                ELSE s.next[m][l]
              /\ t.span[m][l] = IF l \in done /\ m = f[l]
                                THEN s.span[m][l] + s.span[s.next[f[l]][l]][l] - 1
                                ELSE s.span[m][l]
<1>1. SoundList(s) /\ Towered(s, in) /\ Keyed(s) /\ 1 \in done /\ done \subseteq Towers
  BY DEF Loses, SoundList
<1>2. 1 \in Towers /\ \A l \in Towers : /\ l \in Nat /\ in[l] \subseteq in[1]
                                        /\ in[l] \in SUBSET Inner /\ in[l] \subseteq Nodes
  <2>1. Towers \subseteq Nat
    BY SkipListAssumption DEF Towers
  <2> QED BY <1>1, <2>1, LevelSets
<1>3. t.score = s.score /\ t.obj = s.obj
  BY DEF Loses, LosesFields
<1>4. \A m, n \in Nodes : Before(t, m, n) <=> Before(s, m, n)
  BY <1>3 DEF Before
<1>5. t.next = [m \in Nodes |-> [l \in Towers |->
        IF l \in done /\ m = f[l] THEN s.next[s.next[f[l]][l]][l] ELSE s.next[m][l]]]
  BY DEF Loses, LosesFields
<1>6. t.span = [m \in Nodes |-> [l \in Towers |->
        IF l \in done /\ m = f[l] THEN s.span[m][l] + s.span[s.next[f[l]][l]][l] - 1
        ELSE s.span[m][l]]]
  BY DEF Loses, LosesFields
<1>7. \A m \in Nodes, l \in Towers :
        t.next[m][l] = IF l \in done /\ m = f[l] THEN s.next[s.next[f[l]][l]][l] ELSE s.next[m][l]
  BY <1>5
<1>8. \A m \in Nodes, l \in Towers :
        t.span[m][l] = IF l \in done /\ m = f[l]
                       THEN s.span[m][l] + s.span[s.next[f[l]][l]][l] - 1 ELSE s.span[m][l]
  BY <1>6
<1> QED BY <1>1, <1>2, <1>4, <1>7, <1>8

(* At each level f is the last node of A, and what follows it the first    *)
(* of the others.                                                          *)
LEMMA LosesEdge ==
  ASSUME NEW s, NEW t, NEW in, NEW A, NEW f, NEW done, Loses(s, t, in, A, f, done),
         NEW l \in Towers
  PROVE  /\ f[l] \in in[l] \cup {Header} /\ f[l] \in Nodes
         /\ \A m \in in[l] : (m \in A <=> ~Before(s, f[l], m)) /\ m \in Nodes /\ m # NullNode
                             /\ m # Header
         /\ f[l] # Header => f[l] \in A
         /\ l \notin done => s.next[f[l]][l] = NullNode /\ in[l] \subseteq A
         /\ l \in done => /\ s.next[f[l]][l] \in in[l] \ A /\ Before(s, f[l], s.next[f[l]][l])
                          /\ \A m \in in[l] \ A : m = s.next[f[l]][l] \/ Before(s, s.next[f[l]][l], m)
         /\ \A m \in in[l] \cup {Header} :
              \/ s.next[m][l] = NullNode /\ \A k \in in[l] : ~Before(s, m, k)
              \/ /\ s.next[m][l] \in in[l] /\ Before(s, m, s.next[m][l])
                 /\ \A k \in in[l] : Before(s, m, k) => ~Before(s, k, s.next[m][l])
         /\ \A k, m \in in[l] : m \in A /\ Before(s, k, m) => k \in A
<1>1. /\ Keyed(s) /\ in[l] \subseteq Nodes /\ in[l] \subseteq in[1] /\ in[l] \in SUBSET Inner
  BY LosesFacts
<1>2. f[l] \in in[l] \cup {Header} /\ \A m \in in[l] : m \in A <=> ~Before(s, f[l], m)
  BY DEF Loses, Edge
<1>3. \A m \in in[l] : m \in Nodes /\ m # NullNode /\ m # Header
  BY <1>1, NodesAreNumbers DEF Inner
<1>4. f[l] \in Nodes /\ (f[l] # Header => f[l] \in A)
  BY <1>1, <1>2, BeforeFacts, NodesAreNumbers
<1>5. \A m \in in[l] \cup {Header} :
        \/ s.next[m][l] = NullNode /\ \A k \in in[l] : ~Before(s, m, k)
        \/ /\ s.next[m][l] \in in[l] /\ Before(s, m, s.next[m][l])
           /\ \A k \in in[l] : Before(s, m, k) => ~Before(s, k, s.next[m][l])
  BY DEF Loses, Towered, Follows
<1>6. l \in done <=> s.next[f[l]][l] # NullNode
  BY DEF Loses
<1>7. l \notin done => s.next[f[l]][l] = NullNode /\ in[l] \subseteq A
  BY <1>2, <1>3, <1>5, <1>6
<1>8. ASSUME l \in done
      PROVE  /\ s.next[f[l]][l] \in in[l] \ A /\ Before(s, f[l], s.next[f[l]][l])
             /\ \A m \in in[l] \ A : m = s.next[f[l]][l] \/ Before(s, s.next[f[l]][l], m)
  <2>1. /\ s.next[f[l]][l] \in in[l] \ A /\ Before(s, f[l], s.next[f[l]][l])
        /\ \A k \in in[l] : Before(s, f[l], k) => ~Before(s, k, s.next[f[l]][l])
    BY <1>2, <1>5, <1>6, <1>8
  <2>2. ASSUME NEW m \in in[l] \ A PROVE m = s.next[f[l]][l] \/ Before(s, s.next[f[l]][l], m)
    <3>1. m \in Nodes /\ s.next[f[l]][l] \in Nodes /\ ~Before(s, m, s.next[f[l]][l])
      BY <1>2, <1>3, <2>1
    <3> QED BY <1>1, <3>1, BeforeTotal
  <2> QED BY <2>1, <2>2
<1>9. \A k, m \in in[l] : m \in A /\ Before(s, k, m) => k \in A
  BY <1>1 DEF Loses, Begins
<1> QED BY <1>2, <1>3, <1>4, <1>5, <1>7, <1>8, <1>9

(* A link other than the one behind f stays on its side of A.              *)
LEMMA LosesBetween ==
  ASSUME NEW s, NEW t, NEW in, NEW A, NEW f, NEW done, Loses(s, t, in, A, f, done),
         NEW l \in Towers, NEW m \in in[l] \cup {Header}, m # f[l], s.next[m][l] # NullNode
  PROVE  /\ s.next[m][l] \in in[l] /\ (s.next[m][l] \in A <=> m = Header \/ m \in A)
         /\ l \in done => s.next[m][l] # s.next[f[l]][l]
<1>1. /\ Keyed(s) /\ Header \in Nodes
      /\ f[l] \in in[l] \cup {Header} /\ f[l] \in Nodes
      /\ \A k \in in[l] : (k \in A <=> ~Before(s, f[l], k)) /\ k \in Nodes /\ k # Header
      /\ s.next[m][l] \in in[l] /\ Before(s, m, s.next[m][l])
      /\ \A k \in in[l] : Before(s, m, k) => ~Before(s, k, s.next[m][l])
      /\ \A j, k \in in[l] : k \in A /\ Before(s, j, k) => j \in A
  BY LosesFacts, LosesEdge, NodesAreNumbers
<1>2. CASE m = Header \/ m \in A
  <2>1. m \in Nodes /\ ~Before(s, f[l], m)
    BY <1>1, <1>2, BeforeFacts
  <2>2. Before(s, m, f[l])
    BY <1>1, <2>1, BeforeTotal
  <2>3. f[l] \in in[l]
    BY <1>1, <2>1, <2>2, BeforeFacts
  <2>4. ~Before(s, f[l], s.next[m][l])
    BY <1>1, <2>2, <2>3
  <2>5. s.next[m][l] \in A
    BY <1>1, <2>4
  <2>6. l \in done => s.next[f[l]][l] \notin A
    BY LosesEdge
  <2> QED BY <1>1, <1>2, <2>5, <2>6
<1>3. CASE ~(m = Header \/ m \in A)
  <2>1. m \in in[l] /\ m \notin A
    BY <1>3
  <2>2. s.next[m][l] \notin A
    BY <1>1, <2>1
  <2>3. l \in done => m = s.next[f[l]][l] \/ Before(s, s.next[f[l]][l], m)
    BY <2>1, LosesEdge
  <2>4. s.next[m][l] \in Nodes /\ m \in Nodes
    BY <1>1, <2>1
  <2>5. l \in done => s.next[m][l] # s.next[f[l]][l]
    BY <1>1, <2>3, <2>4, BeforeFacts
  <2> QED BY <1>1, <1>3, <2>2, <2>5
<1> QED BY <1>2, <1>3

LEMMA LosesFollows ==
  ASSUME NEW s, NEW t, NEW in, NEW A, NEW f, NEW done, Loses(s, t, in, A, f, done),
         NEW l \in Towers
  PROVE  Follows(t, l, InWithout(s, in, f, done)[l])
<1>0. /\ Keyed(s) /\ Header \in Nodes
      /\ \A m \in in[l] : m \in Nodes /\ m # NullNode
      /\ f[l] \in in[l] \cup {Header} /\ f[l] \in Nodes
      /\ \A m, n \in Nodes : Before(t, m, n) <=> Before(s, m, n)
      /\ \A m \in Nodes :
           t.next[m][l] = IF l \in done /\ m = f[l] THEN s.next[s.next[f[l]][l]][l] ELSE s.next[m][l]
      /\ \A m \in in[l] \cup {Header} :
           \/ s.next[m][l] = NullNode /\ \A k \in in[l] : ~Before(s, m, k)
           \/ /\ s.next[m][l] \in in[l] /\ Before(s, m, s.next[m][l])
              /\ \A k \in in[l] : Before(s, m, k) => ~Before(s, k, s.next[m][l])
  BY LosesFacts, LosesEdge, NodesAreNumbers
<1>1. CASE l \notin done
  <2>1. InWithout(s, in, f, done)[l] = in[l]
    BY <1>1 DEF InWithout
  <2>2. \A m \in in[l] \cup {Header} : m \in Nodes /\ t.next[m][l] = s.next[m][l]
    BY <1>0, <1>1
  <2> QED BY <1>0, <2>1, <2>2 DEF Follows
<1>2. CASE l \in done
  <2> DEFINE y == s.next[f[l]][l]
  <2>1. InWithout(s, in, f, done)[l] = in[l] \ {y}
    BY <1>2 DEF InWithout
  <2>2. y \in in[l] /\ y \in Nodes /\ Before(s, f[l], y)
    BY <1>0, <1>2, LosesEdge
  <2>3. ASSUME NEW m \in (in[l] \ {y}) \cup {Header}
        PROVE  \/ t.next[m][l] = NullNode /\ \A k \in in[l] \ {y} : ~Before(s, m, k)
               \/ /\ t.next[m][l] \in in[l] \ {y} /\ Before(s, m, t.next[m][l])
                  /\ \A k \in in[l] \ {y} : Before(s, m, k) => ~Before(s, k, t.next[m][l])
    <3>0. m \in Nodes /\ m \in in[l] \cup {Header}
      BY <1>0
    <3>1. CASE m = f[l]
      <4>1. t.next[m][l] = s.next[y][l]
        BY <1>0, <1>2, <3>0, <3>1
      <4>2. ASSUME NEW k \in in[l] \ {y}, Before(s, m, k) PROVE Before(s, y, k)
        <5>1. ~Before(s, k, y) /\ k \in Nodes
          BY <1>0, <2>2, <3>1, <4>2
        <5> QED BY <1>0, <2>2, <5>1, BeforeTotal
      <4>3. CASE s.next[y][l] = NullNode
        <5>1. \A k \in in[l] : ~Before(s, y, k)
          BY <1>0, <2>2, <4>3
        <5> QED BY <4>1, <4>2, <4>3, <5>1
      <4>4. CASE s.next[y][l] # NullNode
        <5>1. /\ s.next[y][l] \in in[l] /\ Before(s, y, s.next[y][l])
              /\ \A k \in in[l] : Before(s, y, k) => ~Before(s, k, s.next[y][l])
          BY <1>0, <2>2, <4>4
        <5>2. s.next[y][l] \in Nodes
          BY <1>0, <5>1
        <5>3. s.next[y][l] # y /\ Before(s, m, s.next[y][l])
          BY <1>0, <2>2, <3>0, <3>1, <5>1, <5>2, BeforeFacts
        <5> QED BY <4>1, <4>2, <5>1, <5>3
      <4> QED BY <4>3, <4>4
    <3>2. CASE m # f[l]
      <4>1. t.next[m][l] = s.next[m][l]
        BY <1>0, <3>0, <3>2
      <4>2. s.next[m][l] # NullNode => s.next[m][l] # y
        BY <1>2, <3>0, <3>2, LosesBetween
      <4> HIDE DEF y
      <4> QED BY <1>0, <3>0, <4>1, <4>2
    <3> QED BY <3>1, <3>2
  <2>4. \A m \in (in[l] \ {y}) \cup {Header} : m \in Nodes
    BY <1>0
  <2>5. \A m \in (in[l] \ {y}) \cup {Header} :
           \/ t.next[m][l] = NullNode /\ \A k \in in[l] \ {y} : ~Before(t, m, k)
           \/ /\ t.next[m][l] \in in[l] \ {y} /\ Before(t, m, t.next[m][l])
              /\ \A k \in in[l] \ {y} : Before(t, m, k) => ~Before(t, k, t.next[m][l])
    <3> HIDE DEF y
    <3> QED BY <1>0, <2>3, <2>4
  <2> HIDE DEF y
  <2> QED BY <2>1, <2>5 DEF Follows
<1> QED BY <1>1, <1>2

LEMMA LosesPlaces ==
  ASSUME NEW s, NEW t, NEW in, NEW A, NEW f, NEW done, Loses(s, t, in, A, f, done),
         NEW l \in Towers, NEW m \in in[l] \cup {Header}
  PROVE  /\ Place(s, in[1], m) \in Nat
         /\ Place(t, InWithout(s, in, f, done)[1], m) =
              IF m = Header \/ m \in A THEN Place(s, in[1], m) ELSE Place(s, in[1], m) - 1
<1> DEFINE d == s.next[f[1]][1]
<1>0. /\ Keyed(s) /\ 1 \in Towers /\ 1 \in done /\ Header \in Nodes /\ in[1] \in SUBSET Inner
      /\ m \in in[1] \cup {Header} /\ m \in Nodes
      /\ \A k, n \in Nodes : Before(t, k, n) <=> Before(s, k, n)
  BY LosesFacts, NodesAreNumbers
<1>1. /\ d \in in[1] \ A /\ d \in Nodes /\ \A k \in in[1] \ A : k = d \/ Before(s, d, k)
      /\ \A j, k \in in[1] : k \in A /\ Before(s, j, k) => j \in A
  BY <1>0, LosesEdge, LosesFacts
<1>2. InWithout(s, in, f, done)[1] = in[1] \ {d}
  BY <1>0 DEF InWithout
<1>3. Place(t, in[1] \ {d}, m) = Place(s, in[1] \ {d}, m)
  <2>1. \A k \in in[1] \ {d} : ~Before(t, m, k) <=> ~Before(s, m, k)
    BY <1>0, LosesFacts
  <2>2. {k \in in[1] \ {d} : ~Before(t, m, k)} = {k \in in[1] \ {d} : ~Before(s, m, k)}
    BY <2>1
  <2> QED BY <2>2 DEF Place
<1>4. Place(s, in[1] \ {d}, m) = IF Before(s, m, d) THEN Place(s, in[1], m) ELSE Place(s, in[1], m) - 1
  <2> HIDE DEF d
  <2> QED BY <1>0, <1>1, PlaceWithout
<1>5. Before(s, m, d) <=> m = Header \/ m \in A
  <2>1. CASE m = Header
    <3>1. d # Header
      BY <1>1, <1>0 DEF Inner
    <3> QED BY <1>0, <1>1, <2>1, <3>1, BeforeFacts
  <2>2. CASE m # Header /\ m \in A
    <3>1. m \in in[1] /\ m # d /\ ~Before(s, d, m)
      BY <1>0, <1>1, <2>2
    <3> QED BY <1>0, <1>1, <2>2, <3>1, BeforeTotal
  <2>3. CASE m # Header /\ m \notin A
    <3>1. m = d \/ Before(s, d, m)
      BY <1>0, <1>1, <2>3
    <3> QED BY <1>0, <1>1, <2>3, <3>1, BeforeFacts
  <2> QED BY <2>1, <2>2, <2>3
<1>6. Place(s, in[1], m) \in Nat
  BY <1>0, PlaceType
<1> HIDE DEF d
<1> QED BY <1>2, <1>3, <1>4, <1>5, <1>6

LEMMA LosesSpans ==
  ASSUME NEW s, NEW t, NEW in, NEW A, NEW f, NEW done, Loses(s, t, in, A, f, done),
         NEW l \in Towers
  PROVE  Spans(t, l, InWithout(s, in, f, done)[l], InWithout(s, in, f, done)[1])
<1> DEFINE P(m) == Place(s, in[1], m)
           Q(m) == Place(t, InWithout(s, in, f, done)[1], m)
           y == s.next[f[l]][l]
<1>0. /\ Keyed(s) /\ Header \in Nodes
      /\ \A m \in in[l] : m \in Nodes /\ m # NullNode /\ m # Header
      /\ f[l] \in in[l] \cup {Header} /\ f[l] \in Nodes
      /\ f[l] # Header => f[l] \in A
      /\ \A m, n \in Nodes : Before(t, m, n) <=> Before(s, m, n)
      /\ \A m \in in[l] \cup {Header} :
           s.next[m][l] # NullNode => s.next[m][l] \in in[l] /\ Before(s, m, s.next[m][l])
      /\ \A k, m \in in[l] : m \in A /\ Before(s, k, m) => k \in A
  BY LosesFacts, LosesEdge, NodesAreNumbers
<1>1. \A m \in in[l] \cup {Header} :
        P(m) \in Nat /\ Q(m) = IF m = Header \/ m \in A THEN P(m) ELSE P(m) - 1
  BY LosesPlaces
<1>2. \A m \in in[l] \cup {Header} : s.next[m][l] # NullNode => s.span[m][l] = P(s.next[m][l]) - P(m)
  BY DEF Loses, Towered, Spans
<1>3. \A m \in Nodes :
        /\ t.next[m][l] = IF l \in done /\ m = f[l] THEN s.next[y][l] ELSE s.next[m][l]
        /\ t.span[m][l] = IF l \in done /\ m = f[l] THEN s.span[m][l] + s.span[y][l] - 1
                          ELSE s.span[m][l]
  BY LosesFacts
<1>4. InWithout(s, in, f, done)[l] \subseteq in[l]
  BY DEF InWithout
<1>5. l \in done => y \in in[l] \ A /\ y # NullNode
  BY <1>0, LosesEdge
<1>6. l \notin done => in[l] \subseteq A
  BY LosesEdge
<1>7. ASSUME NEW m \in in[l] \cup {Header}, m # f[l], s.next[m][l] # NullNode
      PROVE  s.next[m][l] \in in[l] /\ (s.next[m][l] \in A <=> m = Header \/ m \in A)
  BY <1>7, LosesBetween
<1> HIDE DEF P, Q, y
<1>8. ASSUME NEW m \in in[l] \cup {Header}, t.next[m][l] # NullNode
      PROVE  t.span[m][l] = Q(t.next[m][l]) - Q(m)
  <2>0. m \in Nodes
    BY <1>0
  <2>1. CASE l \in done /\ m = f[l]
    <3>1. t.next[m][l] = s.next[y][l] /\ t.span[m][l] = s.span[m][l] + s.span[y][l] - 1
      BY <1>3, <2>0, <2>1
    <3>2. s.next[y][l] \in in[l] /\ Before(s, y, s.next[y][l]) /\ s.span[y][l] = P(s.next[y][l]) - P(y)
      BY <1>0, <1>2, <1>5, <1>8, <2>1, <3>1
    <3>3. s.next[m][l] = y /\ s.span[m][l] = P(y) - P(m)
      BY <1>2, <1>5, <2>1 DEF y
    <3>4. s.next[y][l] \notin A
      BY <1>0, <1>5, <2>1, <3>2
    <3>5. Q(s.next[y][l]) = P(s.next[y][l]) - 1 /\ Q(m) = P(m)
      BY <1>0, <1>1, <2>1, <3>2, <3>4
    <3>6. P(s.next[y][l]) \in Nat /\ P(m) \in Nat /\ P(y) \in Nat
      BY <1>1, <1>5, <2>1, <3>2
    <3> QED BY <3>1, <3>2, <3>3, <3>5, <3>6
  <2>2. CASE l \in done /\ m # f[l]
    <3>1. t.next[m][l] = s.next[m][l] /\ t.span[m][l] = s.span[m][l] /\ s.next[m][l] # NullNode
      BY <1>3, <1>8, <2>0, <2>2
    <3>2. s.next[m][l] \in in[l] /\ (s.next[m][l] \in A <=> m = Header \/ m \in A)
      BY <1>7, <2>2, <3>1
    <3>3. s.next[m][l] # Header /\ s.span[m][l] = P(s.next[m][l]) - P(m)
      BY <1>0, <1>2, <3>1, <3>2
    <3> QED BY <1>1, <3>1, <3>2, <3>3
  <2>3. CASE l \notin done
    <3>1. t.next[m][l] = s.next[m][l] /\ t.span[m][l] = s.span[m][l] /\ s.next[m][l] # NullNode
      BY <1>3, <1>8, <2>0, <2>3
    <3>2. s.next[m][l] \in in[l] /\ s.next[m][l] \in A /\ (m = Header \/ m \in A)
      BY <1>0, <1>6, <2>3, <3>1
    <3>3. s.span[m][l] = P(s.next[m][l]) - P(m)
      BY <1>2, <3>1
    <3> QED BY <1>1, <3>1, <3>2, <3>3
  <2> QED BY <2>1, <2>2, <2>3
<1>9. \A m \in InWithout(s, in, f, done)[l] \cup {Header} : m \in in[l] \cup {Header}
  BY <1>4
<1> QED BY <1>8, <1>9 DEF Spans, Q

LEMMA LosesUpward ==
  ASSUME NEW s, NEW t, NEW in, NEW A, NEW f, NEW done, Loses(s, t, in, A, f, done)
  PROVE  Upward(t)
<1> SUFFICES ASSUME NEW m \in Nodes, NEW l \in Towers, t.next[m][l] # NullNode
             PROVE  m <= t.created /\ t.next[m][l] \in 1..t.created /\ Before(t, m, t.next[m][l])
  BY DEF Upward
<1>1. /\ Keyed(s) /\ s.created \in Nodes /\ t.created = s.created
      /\ \A k, n \in Nodes : Before(t, k, n) <=> Before(s, k, n)
      /\ t.next[m][l] = IF l \in done /\ m = f[l] THEN s.next[s.next[f[l]][l]][l] ELSE s.next[m][l]
  <2>1. s.created \in Nodes /\ t.created = s.created
    BY DEF Loses, SoundList, Keyed, LosesFields
  <2> QED BY <2>1, LosesFacts
<1>2. \A k \in Nodes : s.next[k][l] # NullNode =>
        /\ k <= s.created /\ s.next[k][l] \in 1..s.created /\ s.next[k][l] \in Nodes
        /\ Before(s, k, s.next[k][l])
  <2>1. 1..s.created \subseteq Nodes
    BY <1>1, NodesAreNumbers
  <2> QED BY <2>1 DEF Loses, SoundList, Upward
<1>3. CASE l \in done /\ m = f[l]
  <2>1. s.next[m][l] # NullNode
    BY <1>3 DEF Loses
  <2>2. s.next[m][l] \in Nodes /\ Before(s, m, s.next[m][l]) /\ m <= s.created
    BY <1>2, <2>1
  <2>3. t.next[m][l] = s.next[s.next[m][l]][l]
    BY <1>1, <1>3
  <2>4. /\ t.next[m][l] \in 1..s.created /\ t.next[m][l] \in Nodes
        /\ Before(s, s.next[m][l], t.next[m][l])
    BY <1>2, <2>2, <2>3
  <2>5. Before(s, m, t.next[m][l])
    BY <1>1, <2>2, <2>4, BeforeTransitive
  <2> QED BY <1>1, <2>2, <2>4, <2>5
<1>4. CASE ~(l \in done /\ m = f[l])
  <2>1. t.next[m][l] = s.next[m][l]
    BY <1>1, <1>4
  <2> QED BY <1>1, <1>2, <2>1
<1> QED BY <1>3, <1>4

LEMMA TopEmptied ==
  ASSUME NEW top \in Nat, NEW E \in SUBSET (1..top),
         \A k, l \in 1..top : k \in E /\ k <= l => l \in E
  PROVE  /\ Cardinality(E) \in Nat /\ Cardinality(E) <= top
         /\ \A l \in 1..top : l \in E <=> l > top - Cardinality(E)
<1>1. CASE E = {}
  <2>1. Cardinality(E) = 0
    BY <1>1, FS_EmptySet
  <2> QED BY <1>1, <2>1
<1>2. CASE E # {}
  <2>1. E \in SUBSET Nat
    OBVIOUS
  <2>2. PICK a \in E : \A k \in E : a <= k
    BY <1>2, <2>1, LeastExists
  <2>a. a \in 1..top
    OBVIOUS
  <2>b. \A l \in E : l \in a..top
    BY <2>1, <2>2
  <2>c. \A l \in a..top : l \in E
    <3> SUFFICES ASSUME NEW l \in a..top PROVE l \in E
      OBVIOUS
    <3>1. l \in 1..top /\ a <= l
      BY <2>a
    <3> QED BY <2>a, <3>1
  <2>3. a \in 1..top /\ E = a..top
    BY <2>a, <2>b, <2>c
  <2>4. Cardinality(a..top) = IF a > top THEN 0 ELSE top - a + 1
    BY <2>3, FS_Interval
  <2>5. Cardinality(E) = top - a + 1
    BY <2>3, <2>4
  <2> QED BY <2>3, <2>5
<1> QED BY <1>1, <1>2

LEMMA LosesEmptied ==
  ASSUME NEW s, NEW t, NEW in, NEW A, NEW f, NEW done, Loses(s, t, in, A, f, done),
         NEW l \in Towers
  PROVE  l \in Emptied(s, f, done) <=> in[l] # {} /\ InWithout(s, in, f, done)[l] = {}
<1> DEFINE y == s.next[f[l]][l]
<1>0. /\ Keyed(s) /\ Header \in Nodes
      /\ \A m \in in[l] : m \in Nodes /\ m # NullNode /\ m # Header
      /\ f[l] \in in[l] \cup {Header} /\ f[l] \in Nodes
      /\ l \in done => y \in in[l] /\ Before(s, f[l], y)
      /\ \A m \in in[l] \cup {Header} :
           \/ s.next[m][l] = NullNode /\ \A k \in in[l] : ~Before(s, m, k)
           \/ /\ s.next[m][l] \in in[l] /\ Before(s, m, s.next[m][l])
              /\ \A k \in in[l] : Before(s, m, k) => ~Before(s, k, s.next[m][l])
  BY LosesFacts, LosesEdge, NodesAreNumbers
<1>1. InWithout(s, in, f, done)[l] = IF l \in done THEN in[l] \ {y} ELSE in[l]
  BY DEF InWithout
<1>2. l \in Emptied(s, f, done) <=> l \in done /\ f[l] = Header /\ s.next[y][l] = NullNode
  BY DEF Emptied
<1>3. ASSUME l \in done, f[l] = Header, s.next[y][l] = NullNode PROVE in[l] = {y}
  <2>1. ASSUME NEW k \in in[l] PROVE k = y
    <3>1. Before(s, Header, k) /\ ~Before(s, y, k) /\ k \in Nodes /\ y \in Nodes
      BY <1>0, <1>3, <2>1, BeforeFacts
    <3>2. \A j \in in[l] : Before(s, f[l], j) => ~Before(s, j, s.next[f[l]][l])
      BY <1>0, <1>3
    <3>3. ~Before(s, k, y)
      BY <1>3, <2>1, <3>1, <3>2
    <3> QED BY <1>0, <3>1, <3>3, BeforeTotal
  <2> QED BY <1>0, <1>3, <2>1
<1>4. ASSUME l \in done, in[l] \ {y} = {} PROVE f[l] = Header /\ s.next[y][l] = NullNode
  <2>1. y \in in[l] /\ y \in Nodes /\ \A k \in in[l] : k = y
    BY <1>0, <1>4
  <2>2. f[l] # y
    BY <1>0, <1>4, <2>1, BeforeFacts
  <2>3. s.next[y][l] # y
    <3>1. ~Before(s, y, y)
      BY <1>0, <2>1, BeforeFacts
    <3>2. s.next[y][l] = NullNode \/ Before(s, y, s.next[y][l])
      BY <1>0, <2>1
    <3>3. y # NullNode
      BY <1>0, <2>1
    <3> QED BY <3>1, <3>2, <3>3
  <2>4. s.next[y][l] \notin in[l]
    BY <2>1, <2>3
  <2>5. s.next[y][l] = NullNode
    BY <1>0, <2>1, <2>4
  <2> QED BY <1>0, <2>1, <2>2, <2>5
<1>5. l \in done => in[l] # {}
  BY <1>0
<1> HIDE DEF y
<1> QED BY <1>1, <1>2, <1>3, <1>4, <1>5

LEMMA LosesNested ==
  ASSUME NEW s, NEW t, NEW in, NEW A, NEW f, NEW done, Loses(s, t, in, A, f, done),
         NEW k \in Towers, NEW l \in Towers, k <= l
  PROVE  InWithout(s, in, f, done)[l] \subseteq InWithout(s, in, f, done)[k]
<1> SUFFICES ASSUME NEW x \in InWithout(s, in, f, done)[l], x \notin InWithout(s, in, f, done)[k]
             PROVE  FALSE
  OBVIOUS
<1>1. in[l] \subseteq in[k] /\ Keyed(s) /\ in[l] \subseteq Nodes
  <2>1. Towered(s, in)
    BY DEF Loses
  <2>2. in[l] \subseteq in[k]
    BY <2>1 DEF Towered
  <2> QED BY <2>2, LosesFacts
<1>2. x \in in[l] /\ x \in in[k] /\ (l \in done => x # s.next[f[l]][l])
  BY <1>1 DEF InWithout
<1>3. k \in done /\ x = s.next[f[k]][k]
  BY <1>2 DEF InWithout
<1>4. x \notin A /\ \A m \in in[k] \ A : m = x \/ Before(s, x, m)
  BY <1>3, LosesEdge
<1>5. l \in done
  BY <1>2, <1>4, LosesEdge
<1>6. s.next[f[l]][l] \in in[l] \ A /\ (x = s.next[f[l]][l] \/ Before(s, s.next[f[l]][l], x))
  BY <1>2, <1>4, <1>5, LosesEdge
<1>7. Before(s, s.next[f[l]][l], x) /\ Before(s, x, s.next[f[l]][l])
  BY <1>1, <1>2, <1>4, <1>5, <1>6
<1> QED BY <1>1, <1>2, <1>6, <1>7, BeforeFacts

LEMMA LosesTowered ==
  ASSUME NEW s, NEW t, NEW in, NEW A, NEW f, NEW done, Loses(s, t, in, A, f, done)
  PROVE  Towered(t, InWithout(s, in, f, done))
<1> DEFINE in2 == InWithout(s, in, f, done)
           E == Emptied(s, f, done)
           d == s.next[f[1]][1]
<1>0. /\ Keyed(s) /\ 1 \in Towers /\ 1 \in done /\ Towered(s, in) /\ done \subseteq Towers
      /\ s.level \in Nat /\ s.level <= SKIP_LIST_MAX_LEVEL
      /\ SKIP_LIST_MAX_LEVEL \in Nat /\ Towers = 1..SKIP_LIST_MAX_LEVEL
      /\ \A l \in Towers : in[l] \in SUBSET Nodes
      /\ \A m, n \in Nodes : Before(t, m, n) <=> Before(s, m, n)
  <2>1. Towered(s, in)
    BY DEF Loses
  <2>2. s.level \in Nat /\ s.level <= SKIP_LIST_MAX_LEVEL
    BY <2>1 DEF Towered
  <2> QED BY <2>1, <2>2, LosesFacts, SkipListAssumption DEF Towers
<1>1. \A l \in Towers : in2[l] \subseteq in[l] /\ (l \in E <=> in[l] # {} /\ in2[l] = {})
  BY LosesEmptied DEF InWithout
<1>2. \A k, l \in Towers : k <= l => in2[l] \subseteq in2[k]
  BY LosesNested
<1>3. \A l \in Towers : Follows(t, l, in2[l]) /\ Spans(t, l, in2[l], in2[1])
  BY LosesFollows, LosesSpans
<1>4. in2 \in [Towers -> SUBSET (1..t.created)]
  <2>1. \A l \in Towers : in[l] \in SUBSET (1..s.created)
    BY <1>0 DEF Towered
  <2>2. t.created = s.created
    BY DEF Loses, LosesFields
  <2>3. \A l \in Towers : in2[l] \in SUBSET (1..t.created)
    <3> HIDE DEF in2
    <3> QED BY <1>1, <2>1, <2>2
  <2>4. in2 = [l \in Towers |-> in2[l]]
    BY DEF InWithout
  <2> HIDE DEF in2
  <2> QED BY <2>3, <2>4
<1>5. d \in in[1] /\ in2[1] = in[1] \ {d} /\ d \in Nodes /\ d # NullNode
  <2>1. d \in in[1] /\ d \in Nodes /\ d # NullNode
    BY <1>0, LosesEdge
  <2> QED BY <1>0, <2>1 DEF InWithout
<1>6. t.level = s.level - Cardinality(E)
  BY DEF Loses, LosesFields
<1>7. /\ \A l \in Towers : l > s.level => in[l] = {}
      /\ \A l \in Towers : l <= s.level => in[l] # {}
  <2>1. /\ \A l \in Towers : l > s.level => in[l] = {}
        /\ \A l \in Towers : l > 1 /\ in[l] = {} => l > s.level
    BY <1>0 DEF Towered
  <2>2. \A l \in Towers : l <= s.level => in[l] # {}
    <3> SUFFICES ASSUME NEW l \in Towers, l <= s.level, in[l] = {} PROVE FALSE
      OBVIOUS
    <3>1. l \in Nat /\ l >= 1
      BY <1>0
    <3>2. CASE l = 1
      BY <1>5, <3>2
    <3>3. CASE l > 1
      BY <1>0, <2>1, <3>1, <3>3
    <3> QED BY <3>1, <3>2, <3>3
  <2> QED BY <2>1, <2>2
<1>8. E \in SUBSET (1..s.level) /\ \A k, l \in 1..s.level : k \in E /\ k <= l => l \in E
  <2>0. \A l \in 1..s.level : l \in Towers /\ l <= s.level
    BY <1>0
  <2>1. \A l \in E : l \in Towers
    BY <1>0 DEF Emptied
  <2>2. \A l \in E : l \in 1..s.level
    <3> SUFFICES ASSUME NEW l \in E PROVE l \in 1..s.level
      OBVIOUS
    <3>1. l \in Towers /\ ~(l > s.level)
      BY <1>1, <1>7, <2>1
    <3> QED BY <1>0, <3>1
  <2>3. ASSUME NEW k \in 1..s.level, NEW l \in 1..s.level, k \in E, k <= l PROVE l \in E
    <3>1. in2[k] = {} /\ in[l] # {} /\ k \in Towers /\ l \in Towers
      BY <1>1, <1>7, <2>0, <2>3
    <3>2. in2[l] = {}
      <4> HIDE DEF in2, E
      <4> QED BY <1>2, <2>3, <3>1
    <3> HIDE DEF in2, E
    <3> QED BY <1>1, <3>1, <3>2
  <2> HIDE DEF E
  <2> QED BY <2>2, <2>3
<1> HIDE DEF E, in2, d
<1>9. /\ Cardinality(E) \in Nat /\ Cardinality(E) <= s.level
      /\ \A l \in 1..s.level : l \in E <=> l > s.level - Cardinality(E)
  BY <1>0, <1>8, TopEmptied
<1>10. t.level \in Nat /\ t.level <= s.level /\ t.level <= SKIP_LIST_MAX_LEVEL
  BY <1>0, <1>6, <1>9
<1>11. ASSUME NEW l \in Towers
       PROVE  (l > t.level => in2[l] = {}) /\ (in2[l] = {} => l > t.level)
  <2>1. CASE l > s.level
    <3>1. in2[l] = {}
      BY <1>1, <1>7, <2>1
    <3> QED BY <1>0, <1>10, <2>1, <3>1
  <2>2. CASE l <= s.level
    <3>1. l \in 1..s.level /\ in[l] # {}
      BY <1>0, <1>7, <2>2
    <3>2. l \in E <=> in2[l] = {}
      BY <1>1, <3>1
    <3> QED BY <1>6, <1>9, <3>1, <3>2
  <2>3. l \in Nat
    BY <1>0
  <2> QED BY <1>0, <2>1, <2>2, <2>3
<1>12. t.length = Cardinality(in2[1])
  <2>1. t.length = s.length - 1
    BY DEF Loses, LosesFields
  <2>2. s.length = Cardinality(in[1]) /\ IsFiniteSet(in[1]) /\ Cardinality(in[1]) \in Nat
    BY <1>0, NodesAreFinite DEF Towered
  <2>3. Cardinality(in[1] \ {d}) = Cardinality(in[1]) - 1
    BY <1>5, <2>2, FS_RemoveElement
  <2> QED BY <1>5, <2>1, <2>2, <2>3
<1>13. t.tailer \in in2[1] \cup {Header} /\ \A m \in in2[1] : ~Before(t, t.tailer, m)
  <2>0. t.tailer = IF s.next[d][1] = NullNode THEN f[1] ELSE s.tailer
    BY DEF Loses, LosesFields, d
  <2>1. s.tailer \in in[1] \cup {Header} /\ \A m \in in[1] : ~Before(s, s.tailer, m)
    BY <1>0 DEF Towered
  <2>2. f[1] \in in[1] \cup {Header} /\ f[1] \in Nodes /\ Before(s, f[1], d)
    BY <1>0, LosesEdge DEF d
  <2>3. CASE s.next[d][1] = NullNode
    <3>1. f[1] # d
      BY <1>0, <1>5, <2>2, BeforeFacts
    <3>2. t.next[f[1]][1] = NullNode
      <4>1. t.next[f[1]][1] = s.next[s.next[f[1]][1]][1]
        BY <1>0, <2>2, LosesFacts
      <4> QED BY <2>3, <4>1 DEF d
    <3>3. f[1] \in in2[1] \cup {Header}
      BY <1>5, <2>2, <3>1
    <3>4. NullNode \notin in2[1]
      BY <1>0, <1>5, NodesAreNumbers
    <3>5. \A m \in in2[1] : ~Before(t, f[1], m)
      BY <1>0, <1>3, <3>2, <3>3, <3>4 DEF Follows
    <3> QED BY <2>0, <2>3, <3>3, <3>5
  <2>4. CASE s.next[d][1] # NullNode
    <3>1. s.next[d][1] \in in[1] /\ Before(s, d, s.next[d][1])
      BY <1>0, <1>5, <2>4, LosesEdge
    <3>2. s.tailer # d
      BY <2>1, <3>1
    <3>3. s.tailer \in in2[1] \cup {Header} /\ s.tailer \in Nodes
      BY <1>0, <1>5, <2>1, <3>2, NodesAreNumbers
    <3>4. \A m \in in2[1] : m \in in[1] /\ m \in Nodes
      BY <1>0, <1>5
    <3>5. \A m \in in2[1] : ~Before(t, s.tailer, m)
      BY <1>0, <2>1, <3>3, <3>4
    <3> QED BY <2>0, <2>4, <3>3, <3>5
  <2> QED BY <2>3, <2>4
<1> QED BY <1>2, <1>3, <1>4, <1>10, <1>11, <1>12, <1>13 DEF Towered, in2

LEMMA DeleteKeeps ==
  ASSUME NEW s, IsList(s), Typed(s), Upward(s), NEW in, Towered(s, in),
         NEW score \in Int, NEW obj \in Int,
         \E n \in in[1] : s.obj[n] = obj, \A n \in in[1] : s.score[n] = score,
         NEW t, t = WithoutNode(s, score, obj)
  PROVE  Upward(t) /\ \E in2 : Towered(t, in2)
<1>A. PICK A : A = Lesser(s, score, obj)
  OBVIOUS
<1>f. PICK f : f = Stops(s, A)
  OBVIOUS
<1>d. PICK done : done = Cut(s, f)
  OBVIOUS
<1>0. SoundList(s) /\ Keyed(s) /\ Spanned(s)
  BY DEF SoundList, Keyed, Spanned, Typed
<1>1. /\ 1 \in Towers /\ SKIP_LIST_MAX_LEVEL \in Nat /\ Towers = 1..SKIP_LIST_MAX_LEVEL
      /\ s.created \in Nat
      /\ \A l \in Towers : in[l] \in SUBSET Inner /\ in[l] \subseteq in[1]
                           /\ in[l] \in SUBSET (1..s.created) /\ in[l] \subseteq Nodes
  BY <1>0, LevelSets
<1>2. \A n \in in[1] : n \in A <=> s.obj[n] < obj
  <2>1. \A n \in in[1] : n \in 1..s.created /\ ~(s.score[n] < score)
    BY <1>1
  <2> QED BY <1>A, <2>1 DEF Lesser
<1>3. Begins(s, in[1], A) /\ NullNode \notin A
  <2>1. NullNode \notin A
    BY <1>A DEF Lesser, NullNode
  <2>2. ASSUME NEW k \in in[1], NEW m \in in[1], m \in A, Before(s, k, m) PROVE k \in A
    <3>1. k \in Nodes /\ m \in Nodes /\ k # Header
      BY <1>1 DEF Inner
    <3>2. s.score[k] = s.score[m] /\ s.score[m] \in Int /\ s.obj[k] \in Int /\ s.obj[m] \in Int
      BY <1>0, <3>1, KeysTyped
    <3>3. s.obj[k] < s.obj[m] \/ s.obj[k] = s.obj[m]
      BY <2>2, <3>1, <3>2 DEF Before
    <3>4. s.obj[m] < obj
      BY <1>2, <2>2
    <3> QED BY <1>2, <3>2, <3>3, <3>4
  <2> QED BY <2>1, <2>2 DEF Begins
<1>4. ASSUME NEW l \in Towers PROVE Edge(s, in[l], A, f[l])
  <2>1. Follows(s, l, in[l]) /\ Spans(s, l, in[l], in[1])
    BY DEF Towered
  <2>2. Begins(s, in[l], A)
    BY <1>1, <1>3 DEF Begins
  <2>3. f[l] = Reached(s, l, Header, A)
    BY <1>f DEF Stops
  <2> QED BY <1>0, <1>1, <1>3, <2>1, <2>2, <2>3, WalkToEdge
<1>5. \A l \in Towers : \/ s.next[f[l]][l] = NullNode /\ \A m \in in[l] : m \in A
                        \/ s.next[f[l]][l] \in in[l] /\ s.next[f[l]][l] \notin A
  <2> SUFFICES ASSUME NEW l \in Towers
               PROVE  \/ s.next[f[l]][l] = NullNode /\ \A m \in in[l] : m \in A
                      \/ s.next[f[l]][l] \in in[l] /\ s.next[f[l]][l] \notin A
    OBVIOUS
  <2>1. f[l] \in in[l] \cup {Header} /\ \A m \in in[l] : m \in A <=> ~Before(s, f[l], m)
    BY <1>4 DEF Edge
  <2>2. Follows(s, l, in[l])
    BY DEF Towered
  <2> QED BY <2>1, <2>2 DEF Follows
<1>6. NullNode \notin in[1]
  BY <1>1, NodesAreNumbers
<1>7. PICK n \in in[1] : n \notin A
  <2>1. PICK n \in in[1] : s.obj[n] = obj
    OBVIOUS
  <2> QED BY <1>2, <2>1
<1>8. s.next[f[1]][1] \in in[1] /\ s.next[f[1]][1] # NullNode /\ s.score[s.next[f[1]][1]] = score
  BY <1>1, <1>5, <1>6, <1>7
<1>9. LosesFields(s, t, f, done)
  BY <1>8, <1>A, <1>f, <1>d, WithoutNodeFields
<1>10. \A k, l \in Towers : k <= l /\ s.next[f[l]][l] # NullNode => s.next[f[k]][k] # NullNode
  <2> SUFFICES ASSUME NEW k \in Towers, NEW l \in Towers, k <= l, s.next[f[l]][l] # NullNode,
                      s.next[f[k]][k] = NullNode
               PROVE  FALSE
    OBVIOUS
  <2>1. in[l] \subseteq in[k]
    BY DEF Towered
  <2>2. NullNode \notin in[k] /\ NullNode \notin in[l]
    BY <1>1, <1>6
  <2> QED BY <1>5, <2>1, <2>2
<1>11. \A l \in Towers : s.next[f[l]][l] # NullNode => l <= s.level
  <2>1. \A l \in Towers : l > s.level => in[l] = {}
    BY DEF Towered
  <2>2. s.level \in Nat /\ \A l \in Towers : l \in Nat
    BY <1>1 DEF Towered
  <2> QED BY <1>5, <2>1, <2>2
<1>12. done = {l \in Towers : s.next[f[l]][l] # NullNode}
  <2>0. s.level \in Nat /\ s.level <= SKIP_LIST_MAX_LEVEL
    BY DEF Towered
  <2>1. ASSUME NEW l \in done PROVE l \in Towers /\ s.next[f[l]][l] # NullNode
    BY <1>1, <1>d, <2>0 DEF Cut
  <2>2. ASSUME NEW l \in Towers, s.next[f[l]][l] # NullNode PROVE l \in done
    <3>1. l \in 1..s.level /\ \A k \in 1..l : k \in Towers /\ k <= l
      BY <1>1, <1>11, <2>0, <2>2
    <3>2. \A k \in 1..l : s.next[f[k]][k] # NullNode
      BY <1>10, <2>2, <3>1
    <3> QED BY <1>d, <3>1, <3>2 DEF Cut
  <2> QED BY <2>1, <2>2
<1>13. Loses(s, t, in, A, f, done)
  BY <1>0, <1>1, <1>3, <1>4, <1>8, <1>9, <1>12 DEF Loses
<1> QED BY <1>13, LosesUpward, LosesTowered
-----------------------------------------------------------------------------
(* The nodes of a set in their order, each at its place.                   *)

Sorted(s, S) == [i \in 1..Cardinality(S) |-> CHOOSE n \in S : Place(s, S, n) = i]

LEMMA PlaceIsOwn ==
  ASSUME NEW s, Keyed(s), NEW S \in SUBSET Inner, NEW m \in S \cup {Header}, NEW n \in S \cup {Header},
         Place(s, S, m) = Place(s, S, n)
  PROVE  m = n
<1>1. m \in Nodes /\ n \in Nodes /\ Place(s, S, m) \in Nat
  BY NodesAreNumbers, PlaceType DEF Inner
<1>2. ASSUME Before(s, m, n) PROVE FALSE
  <2>1. n \in S /\ m # n /\ ~Before(s, n, m)
    BY <1>1, <1>2, BeforeFacts
  <2>2. Place(s, S, m) < Place(s, S, n)
    BY <1>1, <2>1, PlaceGrows
  <2> QED BY <1>1, <2>2
<1>3. ASSUME Before(s, n, m) PROVE FALSE
  <2>1. m \in S /\ m # n /\ ~Before(s, m, n)
    BY <1>1, <1>3, BeforeFacts
  <2>2. Place(s, S, n) < Place(s, S, m)
    BY <1>1, <2>1, PlaceGrows
  <2> QED BY <1>1, <2>2
<1> QED BY <1>1, <1>2, <1>3, BeforeTotal

LEMMA SortedFacts ==
  ASSUME NEW s, Keyed(s), NEW S \in SUBSET Inner
  PROVE  /\ Cardinality(S) \in Nat /\ DOMAIN Sorted(s, S) = 1..Cardinality(S)
         /\ \A i \in 1..Cardinality(S) : Sorted(s, S)[i] \in S /\ Place(s, S, Sorted(s, S)[i]) = i
         /\ \A n \in S : Place(s, S, n) \in 1..Cardinality(S) /\ Sorted(s, S)[Place(s, S, n)] = n
         /\ Place(s, S, Header) = 0
<1>1. Cardinality(S) \in Nat /\ Place(s, S, Header) = 0 /\ S \subseteq Nodes /\ Header \notin S
  BY NodesAreFinite, PlaceOfHeader DEF Inner
<1>2. ASSUME NEW i \in 1..Cardinality(S)
      PROVE  Sorted(s, S)[i] \in S /\ Place(s, S, Sorted(s, S)[i]) = i
  <2>1. PICK n \in S \cup {Header} : Place(s, S, n) = i
    BY <1>1, PlacesTaken
  <2>2. n \in S
    BY <1>1, <2>1
  <2>3. Sorted(s, S)[i] = CHOOSE k \in S : Place(s, S, k) = i
    BY DEF Sorted
  <2> QED BY <2>1, <2>2, <2>3
<1>3. ASSUME NEW n \in S PROVE Place(s, S, n) \in 1..Cardinality(S) /\ Sorted(s, S)[Place(s, S, n)] = n
  <2>1. Place(s, S, n) \in Nat /\ Place(s, S, n) <= Cardinality(S)
    BY PlaceType
  <2>2. Place(s, S, n) # 0
    BY <1>1, PlaceIsOwn
  <2>3. Place(s, S, n) \in 1..Cardinality(S)
    BY <1>1, <2>1, <2>2
  <2>4. Sorted(s, S)[Place(s, S, n)] \in S /\ Place(s, S, Sorted(s, S)[Place(s, S, n)]) = Place(s, S, n)
    BY <1>2, <2>3
  <2> QED BY <2>3, <2>4, PlaceIsOwn
<1> QED BY <1>1, <1>2, <1>3 DEF Sorted

(* The nodes behind m.                                                     *)
Rest(s, S, m) == [i \in 1..(Cardinality(S) - Place(s, S, m)) |-> Sorted(s, S)[Place(s, S, m) + i]]

LEMMA LevelOne ==
  ASSUME NEW s, SoundList(s), NEW in, Towered(s, in), NEW l \in Towers, NEW m \in in[l] \cup {Header}
  PROVE  /\ m \in Nodes /\ m \in in[1] \cup {Header} /\ in[l] \in SUBSET Inner
         /\ NullNode \notin in[l] /\ Header \notin in[l]
         /\ \/ s.next[m][l] = NullNode /\ \A k \in in[l] : ~Before(s, m, k)
            \/ /\ s.next[m][l] \in in[l] /\ Before(s, m, s.next[m][l])
               /\ \A k \in in[l] : Before(s, m, k) => ~Before(s, k, s.next[m][l])
         /\ s.next[m][l] # NullNode =>
              s.span[m][l] = Place(s, in[1], s.next[m][l]) - Place(s, in[1], m)
<1>1. in[l] \in SUBSET Inner /\ in[l] \subseteq in[1]
  BY LevelSets
<1>2. Follows(s, l, in[l]) /\ Spans(s, l, in[l], in[1])
  BY DEF Towered
<1> QED BY <1>1, <1>2, NodesAreNumbers DEF Follows, Spans, Inner

LEMMA OrderIsSorted ==
  ASSUME NEW s, SoundList(s), NEW in, Towered(s, in)
  PROVE  InOrder(s) = Sorted(s, in[1])
<1> DEFINE S == in[1]
           N == Cardinality(S)
           D == {NullNode} \cup Nodes
           IsWalk(f) == f = [n \in D |-> IF n = NullNode THEN << >> ELSE <<n>> \o f[s.next[n][1]]]
           nx == [n \in D |-> IF n = NullNode THEN -2 ELSE s.next[n][1]]
           h == [n \in D |-> IF n = NullNode THEN 0 ELSE Height(s)[n] + 1]
           G == [n \in D |-> [v \in Seq(Nodes) |-> IF n = NullNode THEN << >> ELSE <<n>> \o v]]
           B == [n \in D |-> << >>]
<1>0. Keyed(s) /\ Upward(s) /\ 1 \in Towers /\ S \in SUBSET Inner /\ S \subseteq Nodes
      /\ Header \in Nodes /\ NullNode \notin Nodes
  BY LevelSets, NodesAreNumbers DEF SoundList
<1>1. \A n \in Nodes : s.next[n][1] \in D /\ (s.next[n][1] # NullNode =>
        s.next[n][1] \in Nodes /\ Height(s)[s.next[n][1]] < Height(s)[n])
  BY <1>0, LinksFall
<1>2. -2 \notin D
  BY <1>0, NodesAreNumbers DEF NullNode
<1>3. Falling(D, nx, D, h, Cardinality(Nodes) + 1)
  <2>1. Height(s) \in [Nodes -> Nat] /\ Cardinality(Nodes) \in Nat
        /\ \A n \in Nodes : Height(s)[n] <= Cardinality(Nodes)
    BY HeightType, NodesAreFinite
  <2>2. h \in [D -> Nat] /\ \A n \in D : h[n] <= Cardinality(Nodes) + 1
    BY <2>1
  <2>3. ASSUME NEW n \in D, nx[n] \in D PROVE h[nx[n]] < h[n]
    <3>1. n # NullNode /\ n \in Nodes /\ nx[n] = s.next[n][1]
      BY <1>2, <2>3
    <3>2. CASE s.next[n][1] = NullNode
      BY <2>1, <3>1, <3>2
    <3>3. CASE s.next[n][1] # NullNode
      BY <1>1, <2>1, <3>1, <3>3
    <3> QED BY <3>2, <3>3
  <2> HIDE DEF nx, h, D
  <2> QED BY <2>2, <2>3 DEF Falling
<1>4. Computing(D, Seq(Nodes), G, B)
  <2>1. ASSUME NEW n \in Nodes, NEW v \in Seq(Nodes) PROVE <<n>> \o v \in Seq(Nodes)
    OBVIOUS
  <2>2. << >> \in Seq(Nodes)
    OBVIOUS
  <2>3. \A n \in D, v \in Seq(Nodes) : (IF n = NullNode THEN << >> ELSE <<n>> \o v) \in Seq(Nodes)
    BY <2>1, <2>2
  <2>4. G \in [D -> [Seq(Nodes) -> Seq(Nodes)]] /\ B \in [D -> Seq(Nodes)]
    BY <2>2, <2>3
  <2> HIDE DEF G, B, D
  <2> QED BY <2>4 DEF Computing
<1>5. PICK f0 \in [D -> Seq(Nodes)] : Along(f0, D, nx, D, G, B)
  <2>1. Cardinality(Nodes) + 1 \in Nat
    BY NodesAreFinite
  <2> HIDE DEF D, nx, h, G, B
  <2> QED BY <1>3, <1>4, <2>1, AlongExists
<1>6. IsWalk(f0)
  <2>1. \A n \in D : f0[n] = IF nx[n] \in D THEN G[n][f0[nx[n]]] ELSE B[n]
    BY <1>5 DEF Along
  <2>2. ASSUME NEW n \in D PROVE f0[n] = IF n = NullNode THEN << >> ELSE <<n>> \o f0[s.next[n][1]]
    <3>1. CASE n = NullNode
      BY <1>2, <2>1, <3>1
    <3>2. CASE n # NullNode
      <4>1. n \in Nodes /\ s.next[n][1] \in D /\ nx[n] = s.next[n][1]
        BY <1>1, <3>2
      <4>2. f0[s.next[n][1]] \in Seq(Nodes) /\ f0[n] = G[n][f0[s.next[n][1]]]
        BY <2>1, <4>1
      <4> QED BY <3>2, <4>1, <4>2
    <3> QED BY <3>1, <3>2
  <2> QED BY <2>2
<1> DEFINE w == CHOOSE f1 : IsWalk(f1)
<1>7. IsWalk(w)
  <2> HIDE DEF IsWalk
  <2> QED BY <1>6
<1>8. InOrder(s) = w[s.next[Header][1]]
  BY DEF InOrder
<1>9. \A n \in D : w[n] = IF n = NullNode THEN << >> ELSE <<n>> \o w[s.next[n][1]]
  <2> HIDE DEF w
  <2> QED BY <1>7
<1> HIDE DEF w, D, nx, h, G, B, IsWalk
<1> DEFINE F == {m \in S \cup {Header} : w[s.next[m][1]] # Rest(s, S, m)}
<1>10. /\ N \in Nat /\ \A i \in 1..N : Sorted(s, S)[i] \in S
       /\ \A n \in S : Place(s, S, n) \in 1..N /\ Sorted(s, S)[Place(s, S, n)] = n
       /\ Place(s, S, Header) = 0
  BY <1>0, SortedFacts
<1>11. ASSUME F # {} PROVE FALSE
  <2>1. PICK m \in F : \A k \in F : ~Before(s, m, k)
    <3>1. F \in SUBSET Nodes
      BY <1>0
    <3> HIDE DEF F
    <3> QED BY <1>0, <1>11, <3>1, LastNode
  <2>2. m \in S \cup {Header} /\ w[s.next[m][1]] # Rest(s, S, m)
    BY <2>1
  <2> DEFINE x == s.next[m][1]
  <2>3. \/ x = NullNode /\ \A k \in S : ~Before(s, m, k)
        \/ x \in S /\ Before(s, m, x) /\ \A k \in S : Before(s, m, k) => ~Before(s, k, x)
    BY <1>0, <2>2, LevelOne
  <2>4. CASE x = NullNode
    <3>1. \A k \in S : ~Before(s, m, k)
      BY <1>0, <2>2, <2>3, <2>4
    <3>2. Place(s, S, m) = N
      BY <3>1, PlaceOfLast
    <3>3. 1..(N - N) = {}
      BY <1>10
    <3>4. Rest(s, S, m) = << >>
      BY <1>10, <3>2, <3>3 DEF Rest
    <3>5. w[x] = << >>
      BY <1>9, <2>4 DEF D
    <3> QED BY <2>2, <3>4, <3>5
  <2>5. CASE x # NullNode
    <3>1. x \in S /\ x \in Nodes /\ Before(s, m, x) /\ \A k \in S : Before(s, m, k) => ~Before(s, k, x)
      BY <1>0, <2>3, <2>5
    <3>2. Place(s, S, x) = Place(s, S, m) + 1
      BY <1>0, <2>2, <3>1, PlaceOfNext
    <3>3. w[s.next[x][1]] = Rest(s, S, x)
      BY <2>1, <3>1
    <3>4. w[x] = <<x>> \o Rest(s, S, x)
      BY <1>9, <2>5, <3>1, <3>3 DEF D
    <3> DEFINE p == Place(s, S, m)
               q == Rest(s, S, x)
    <3>5. p \in Nat /\ p + 1 \in 1..N /\ Sorted(s, S)[p + 1] = x
      BY <1>0, <1>10, <2>2, <3>1, <3>2, PlaceType
    <3>6. q = [i \in 1..(N - (p + 1)) |-> Sorted(s, S)[(p + 1) + i]]
      BY <3>2 DEF Rest
    <3>7. q \in Seq(Nodes) /\ Len(q) = N - (p + 1)
      <4>1. N - (p + 1) \in Nat /\ \A i \in 1..(N - (p + 1)) : (p + 1) + i \in 1..N
        BY <1>10, <3>5
      <4>2. \A i \in 1..(N - (p + 1)) : Sorted(s, S)[(p + 1) + i] \in Nodes
        BY <1>0, <1>10, <4>1
      <4> HIDE DEF p, q
      <4> QED BY <3>6, <4>1, <4>2
    <3>8. Rest(s, S, m) = [i \in 1..(N - p) |-> Sorted(s, S)[p + i]]
      BY DEF Rest
    <3> HIDE DEF p, q, x
    <3>9. <<x>> \o q = [i \in 1..(N - p) |-> Sorted(s, S)[p + i]]
      <4> HIDE DEF S, N
      <4>1. Len(<<x>> \o q) = N - p /\ <<x>> \o q \in Seq(Nodes)
        BY <1>10, <3>1, <3>5, <3>7
      <4>2. \A i \in 1..(N - p) : (<<x>> \o q)[i] = IF i = 1 THEN x ELSE q[i - 1]
        BY <1>10, <3>1, <3>5, <3>7
      <4>3. ASSUME NEW i \in 1..(N - p), i # 1 PROVE q[i - 1] = Sorted(s, S)[p + i]
        <5>0. N \in Nat /\ p \in Nat /\ i \in Nat /\ i <= N - p /\ i >= 2
          <6>1. N \in Nat /\ p \in Nat
            BY <1>10, <3>5
          <6> QED BY <4>3, <6>1
        <5>1. i - 1 \in 1..(N - (p + 1)) /\ (p + 1) + (i - 1) = p + i
          BY <5>0
        <5> QED BY <3>6, <5>1
      <4>4. \A i \in 1..(N - p) : (<<x>> \o q)[i] = Sorted(s, S)[p + i]
        BY <3>5, <4>2, <4>3
      <4>5. <<x>> \o q = [i \in 1..(N - p) |-> (<<x>> \o q)[i]]
        BY <4>1
      <4> QED BY <4>4, <4>5
    <3> QED BY <2>2, <3>4, <3>8, <3>9 DEF q, x
  <2> QED BY <2>4, <2>5
<1>12. w[s.next[Header][1]] = Rest(s, S, Header)
  BY <1>11
<1>13. Rest(s, S, Header) = Sorted(s, S)
  <2>1. \A i \in 1..N : 0 + i = i
    BY <1>10
  <2>2. N - 0 = N
    BY <1>10
  <2>3. Rest(s, S, Header) = [i \in 1..N |-> Sorted(s, S)[i]]
    BY <1>10, <2>1, <2>2 DEF Rest
  <2> QED BY <2>3 DEF Sorted
<1> QED BY <1>8, <1>12, <1>13

LEMMA ContentsAreLinked ==
  ASSUME NEW s, SoundList(s), NEW in, Towered(s, in)
  PROVE  Contents(s) = in[1]
<1>1. Keyed(s) /\ in[1] \in SUBSET Inner
  BY LevelSets DEF SoundList
<1>2. Contents(s) = {Sorted(s, in[1])[i] : i \in DOMAIN Sorted(s, in[1])}
  BY OrderIsSorted DEF Contents
<1> QED BY <1>1, <1>2, SortedFacts

LEMMA LinkedAreIn ==
  ASSUME NEW s, SoundList(s), NEW in, Towered(s, in), NEW l \in Towers
  PROVE  Linked(s, l) \subseteq in[l] \cup {Header}
<1> DEFINE S == in[l]
           D == {NullNode} \cup Nodes
           V == SUBSET Nodes
           IsWalk(f) == f = [n \in D |-> IF n = NullNode THEN {} ELSE {n} \cup f[s.next[n][l]]]
           nx == [n \in D |-> IF n = NullNode THEN -2 ELSE s.next[n][l]]
           h == [n \in D |-> IF n = NullNode THEN 0 ELSE Height(s)[n] + 1]
           G == [n \in D |-> [v \in V |-> IF n = NullNode THEN {} ELSE {n} \cup v]]
           B == [n \in D |-> {}]
<1>0. Keyed(s) /\ Upward(s) /\ S \in SUBSET Inner /\ S \subseteq Nodes
      /\ Header \in Nodes /\ NullNode \notin Nodes
  BY LevelSets, NodesAreNumbers DEF SoundList
<1>1. \A n \in Nodes : s.next[n][l] \in D /\ (s.next[n][l] # NullNode =>
        s.next[n][l] \in Nodes /\ Height(s)[s.next[n][l]] < Height(s)[n])
  BY <1>0, LinksFall
<1>2. -2 \notin D
  BY <1>0, NodesAreNumbers DEF NullNode
<1>3. Falling(D, nx, D, h, Cardinality(Nodes) + 1)
  <2>1. Height(s) \in [Nodes -> Nat] /\ Cardinality(Nodes) \in Nat
        /\ \A n \in Nodes : Height(s)[n] <= Cardinality(Nodes)
    BY HeightType, NodesAreFinite
  <2>2. h \in [D -> Nat] /\ \A n \in D : h[n] <= Cardinality(Nodes) + 1
    BY <2>1
  <2>3. ASSUME NEW n \in D, nx[n] \in D PROVE h[nx[n]] < h[n]
    <3>1. n # NullNode /\ n \in Nodes /\ nx[n] = s.next[n][l]
      BY <1>2, <2>3
    <3>2. CASE s.next[n][l] = NullNode
      BY <2>1, <3>1, <3>2
    <3>3. CASE s.next[n][l] # NullNode
      BY <1>1, <2>1, <3>1, <3>3
    <3> QED BY <3>2, <3>3
  <2> HIDE DEF nx, h, D
  <2> QED BY <2>2, <2>3 DEF Falling
<1>4. Computing(D, V, G, B)
  <2>1. \A n \in D, v \in V : (IF n = NullNode THEN {} ELSE {n} \cup v) \in V
    OBVIOUS
  <2>2. G \in [D -> [V -> V]] /\ B \in [D -> V]
    <3> HIDE DEF V
    <3>1. {} \in V
      BY DEF V
    <3> QED BY <2>1, <3>1
  <2> HIDE DEF G, B, D, V
  <2> QED BY <2>2 DEF Computing
<1>5. PICK f0 \in [D -> V] : Along(f0, D, nx, D, G, B)
  <2>1. Cardinality(Nodes) + 1 \in Nat
    BY NodesAreFinite
  <2> HIDE DEF D, V, nx, h, G, B
  <2> QED BY <1>3, <1>4, <2>1, AlongExists
<1>6. IsWalk(f0)
  <2>1. \A n \in D : f0[n] = IF nx[n] \in D THEN G[n][f0[nx[n]]] ELSE B[n]
    BY <1>5 DEF Along
  <2>2. ASSUME NEW n \in D PROVE f0[n] = IF n = NullNode THEN {} ELSE {n} \cup f0[s.next[n][l]]
    <3>1. CASE n = NullNode
      BY <1>2, <2>1, <3>1
    <3>2. CASE n # NullNode
      <4>1. n \in Nodes /\ s.next[n][l] \in D /\ nx[n] = s.next[n][l]
        BY <1>1, <3>2
      <4>2. f0[s.next[n][l]] \in V /\ f0[n] = G[n][f0[s.next[n][l]]]
        BY <2>1, <4>1
      <4> QED BY <3>2, <4>1, <4>2
    <3> QED BY <3>1, <3>2
  <2> QED BY <2>2
<1> DEFINE w == CHOOSE f1 : IsWalk(f1)
<1>7. IsWalk(w)
  <2> HIDE DEF IsWalk
  <2> QED BY <1>6
<1>8. Linked(s, l) = w[Header]
  BY DEF Linked
<1>9. \A n \in D : w[n] = IF n = NullNode THEN {} ELSE {n} \cup w[s.next[n][l]]
  <2> HIDE DEF w
  <2> QED BY <1>7
<1> HIDE DEF w, nx, h, G, B, IsWalk
<1> DEFINE F == {m \in S \cup {Header} : ~(w[m] \subseteq S \cup {Header})}
<1>10. ASSUME F # {} PROVE FALSE
  <2>1. PICK m \in F : \A k \in F : ~Before(s, m, k)
    <3>1. F \in SUBSET Nodes
      BY <1>0
    <3> HIDE DEF F
    <3> QED BY <1>0, <1>10, <3>1, LastNode
  <2>2. m \in S \cup {Header} /\ m \in Nodes /\ ~(w[m] \subseteq S \cup {Header})
    BY <1>0, <2>1
  <2>3. s.next[m][l] = NullNode \/ (s.next[m][l] \in S /\ Before(s, m, s.next[m][l]))
    BY <2>2, LevelOne
  <2>4. w[m] = {m} \cup w[s.next[m][l]]
    BY <1>0, <1>9, <2>2
  <2>5. CASE s.next[m][l] = NullNode
    BY <1>9, <2>2, <2>4, <2>5
  <2>6. CASE s.next[m][l] \in S /\ Before(s, m, s.next[m][l])
    BY <2>1, <2>2, <2>4, <2>6
  <2> QED BY <2>3, <2>5, <2>6
<1> QED BY <1>8, <1>10
-----------------------------------------------------------------------------
(* getNodeByRank: what one level gives, when v is what the one below does. *)

(* Where each number of places leads.                                      *)
Ways == [Nat -> Nodes \cup {NullNode}]

Way(s, l, v, f) ==
  f = [m \in Nodes |->
        [r \in Nat |->
           IF s.next[m][l] # NullNode /\ s.span[m][l] < r
           THEN f[s.next[m][l]][r - s.span[m][l]]
           ELSE IF s.span[m][l] = r THEN s.next[m][l] ELSE v[m][r]]]

LEMMA WayExists ==
  ASSUME NEW s, Typed(s), Upward(s), NEW l \in Towers, NEW v \in [Nodes -> Ways]
  PROVE  \E f : Way(s, l, v, f)
<1> DEFINE nx == [m \in Nodes |-> s.next[m][l]]
           G == [m \in Nodes |-> [u \in Ways |-> [r \in Nat |->
                  IF s.span[m][l] < r THEN u[r - s.span[m][l]]
                  ELSE IF s.span[m][l] = r THEN s.next[m][l] ELSE v[m][r]]]]
           B == [m \in Nodes |-> [r \in Nat |->
                  IF s.span[m][l] = r THEN s.next[m][l] ELSE v[m][r]]]
<1>0. /\ Keyed(s) /\ NullNode \notin Nodes
      /\ \A m \in Nodes : s.span[m][l] \in Int /\ s.next[m][l] \in Nodes \cup {NullNode}
      /\ \A m \in Nodes, r \in Nat : v[m][r] \in Nodes \cup {NullNode}
  BY NodesAreNumbers DEF Typed, Keyed, Ways
<1>1. \A m \in Nodes, r \in Nat : s.span[m][l] < r => r - s.span[m][l] \in Nat
  BY <1>0
<1>2. Falling(Nodes, nx, Nodes, Height(s), Cardinality(Nodes))
  BY <1>0, LinksAreFalling
<1>3. Computing(Nodes, Ways, G, B)
  <2>1. B \in [Nodes -> Ways]
    BY <1>0 DEF Ways
  <2>2. ASSUME NEW m \in Nodes, NEW u \in Ways
        PROVE  [r \in Nat |-> IF s.span[m][l] < r THEN u[r - s.span[m][l]]
                              ELSE IF s.span[m][l] = r THEN s.next[m][l] ELSE v[m][r]] \in Ways
    BY <1>0, <1>1 DEF Ways
  <2>3. G \in [Nodes -> [Ways -> Ways]]
    BY <2>2
  <2> HIDE DEF G, B
  <2> QED BY <2>1, <2>3 DEF Computing
<1>4. PICK f \in [Nodes -> Ways] : Along(f, Nodes, nx, Nodes, G, B)
  <2>1. Cardinality(Nodes) \in Nat
    BY NodesAreFinite
  <2> HIDE DEF nx, G, B
  <2> QED BY <1>2, <1>3, <2>1, AlongExists
<1>5. \A m \in Nodes : f[m] = IF nx[m] \in Nodes THEN G[m][f[nx[m]]] ELSE B[m]
  BY <1>4 DEF Along
<1>6. ASSUME NEW m \in Nodes
      PROVE  f[m] = [r \in Nat |->
                       IF s.next[m][l] # NullNode /\ s.span[m][l] < r
                       THEN f[s.next[m][l]][r - s.span[m][l]]
                       ELSE IF s.span[m][l] = r THEN s.next[m][l] ELSE v[m][r]]
  <2>1. CASE s.next[m][l] = NullNode
    <3>1. f[m] = B[m]
      BY <1>0, <1>5, <2>1
    <3> QED BY <2>1, <3>1
  <2>2. CASE s.next[m][l] # NullNode
    <3>1. s.next[m][l] \in Nodes
      BY <1>0, <2>2
    <3>2. f[m] = G[m][f[s.next[m][l]]] /\ f[s.next[m][l]] \in Ways
      BY <1>5, <3>1
    <3> QED BY <2>2, <3>2
  <2> QED BY <2>1, <2>2
<1>7. f = [m \in Nodes |-> f[m]]
  OBVIOUS
<1>8. Way(s, l, v, f)
  BY <1>6, <1>7 DEF Way
<1> QED BY <1>8

LEMMA WayTyped ==
  ASSUME NEW s, Typed(s), Upward(s), NEW l \in Towers, NEW v \in [Nodes -> Ways],
         NEW f, Way(s, l, v, f)
  PROVE  f \in [Nodes -> Ways]
<1> DEFINE F == {m \in Nodes : f[m] \notin Ways}
<1>0. /\ Keyed(s) /\ NullNode \notin Nodes
      /\ \A m \in Nodes : s.span[m][l] \in Int /\ s.next[m][l] \in Nodes \cup {NullNode}
      /\ \A m \in Nodes, r \in Nat : v[m][r] \in Nodes \cup {NullNode}
  BY NodesAreNumbers DEF Typed, Keyed, Ways
<1>1. ASSUME NEW m \in Nodes
      PROVE  f[m] = [r \in Nat |->
                       IF s.next[m][l] # NullNode /\ s.span[m][l] < r
                       THEN f[s.next[m][l]][r - s.span[m][l]]
                       ELSE IF s.span[m][l] = r THEN s.next[m][l] ELSE v[m][r]]
  BY DEF Way
<1>2. ASSUME F # {} PROVE FALSE
  <2>1. PICK m \in F : \A k \in F : ~Before(s, m, k)
    <3>1. F \in SUBSET Nodes
      OBVIOUS
    <3> HIDE DEF F
    <3> QED BY <1>0, <1>2, <3>1, LastNode
  <2>2. s.next[m][l] # NullNode => s.next[m][l] \in Nodes /\ Before(s, m, s.next[m][l])
    BY <1>0, <2>1, LinksFall
  <2>3. s.next[m][l] # NullNode => f[s.next[m][l]] \in Ways
    BY <2>1, <2>2
  <2>4. \A r \in Nat : s.span[m][l] < r => r - s.span[m][l] \in Nat
    BY <1>0, <2>1
  <2>5. f[m] \in Ways
    <3>1. \A r \in Nat : s.next[m][l] # NullNode /\ s.span[m][l] < r =>
            f[s.next[m][l]][r - s.span[m][l]] \in Nodes \cup {NullNode}
      BY <2>3, <2>4 DEF Ways
    <3>2. \A r \in Nat :
            (IF s.next[m][l] # NullNode /\ s.span[m][l] < r
             THEN f[s.next[m][l]][r - s.span[m][l]]
             ELSE IF s.span[m][l] = r THEN s.next[m][l] ELSE v[m][r]) \in Nodes \cup {NullNode}
      BY <1>0, <2>1, <3>1
    <3>3. m \in Nodes
      BY <2>1
    <3>4. [r \in Nat |-> IF s.next[m][l] # NullNode /\ s.span[m][l] < r
                         THEN f[s.next[m][l]][r - s.span[m][l]]
                         ELSE IF s.span[m][l] = r THEN s.next[m][l] ELSE v[m][r]] \in Ways
      BY <3>2 DEF Ways
    <3> QED BY <1>1, <3>3, <3>4
  <2> QED BY <2>1, <2>5
<1>3. \A m \in Nodes : f[m] \in Ways
  BY <1>2
<1>4. f = [m \in Nodes |-> f[m]]
  BY DEF Way
<1> QED BY <1>3, <1>4

(* From a node of S, or from the header, v leads to the node that is as    *)
(* many places further, or, where that is not exact, nowhere.              *)
Leads(s, all, S, exact, v) ==
  \A m \in S \cup {Header}, r \in Nat \ {0} : Place(s, all, m) + r <= Cardinality(all) =>
    v[m][r] = Sorted(s, all)[Place(s, all, m) + r] \/ (~exact /\ v[m][r] = NullNode)

LEMMA WayLeads ==
  ASSUME NEW s, Typed(s), Upward(s), NEW in, Towered(s, in), NEW exact \in BOOLEAN,
         exact => EndsLow(s, in), NEW l \in Towers, NEW v \in [Nodes -> Ways],
         NEW f, Way(s, l, v, f), l = 1 \/ Leads(s, in[1], in[l], exact, v)
  PROVE  Leads(s, in[1], in[l], exact, f)
<1> DEFINE S == in[l]
           all == in[1]
           N == Cardinality(all)
           p(m) == Place(s, all, m)
           Right(m, r, x) == x = Sorted(s, all)[p(m) + r] \/ (~exact /\ x = NullNode)
           Claim(m) == \A r \in Nat \ {0} : p(m) + r <= N => Right(m, r, f[m][r])
           F == {m \in S \cup {Header} : ~Claim(m)}
<1>0. /\ SoundList(s) /\ Keyed(s) /\ all \in SUBSET Inner /\ S \subseteq all
      /\ S \cup {Header} \subseteq Nodes /\ N \in Nat
      /\ \A m \in Nodes : s.span[m][l] \in Int
      /\ \A m \in S \cup {Header} : p(m) \in Nat
  <2>1. SoundList(s) /\ Keyed(s) /\ Spanned(s)
    BY DEF SoundList, Keyed, Spanned, Typed
  <2>2. all \in SUBSET Inner /\ S \subseteq all /\ S \cup {Header} \subseteq Nodes
    BY <2>1, LevelSets, NodesAreNumbers
  <2> QED BY <2>1, <2>2, PlaceType, SortedFacts DEF Spanned
<1>1. \A n \in all : p(n) \in 1..N /\ Sorted(s, all)[p(n)] = n
  BY <1>0, SortedFacts
<1>2. ASSUME NEW m \in Nodes, NEW r \in Nat
      PROVE  f[m][r] = IF s.next[m][l] # NullNode /\ s.span[m][l] < r
                       THEN f[s.next[m][l]][r - s.span[m][l]]
                       ELSE IF s.span[m][l] = r THEN s.next[m][l] ELSE v[m][r]
  <2>1. f[m] = [k \in Nat |->
                  IF s.next[m][l] # NullNode /\ s.span[m][l] < k
                  THEN f[s.next[m][l]][k - s.span[m][l]]
                  ELSE IF s.span[m][l] = k THEN s.next[m][l] ELSE v[m][k]]
    BY DEF Way
  <2> QED BY <2>1
<1>3. ASSUME F # {} PROVE FALSE
  <2>1. PICK m \in F : \A k \in F : ~Before(s, m, k)
    <3>1. F \in SUBSET Nodes
      BY <1>0
    <3> HIDE DEF F
    <3> QED BY <1>0, <1>3, <3>1, LastNode
  <2>2. m \in S \cup {Header} /\ m \in Nodes /\ ~Claim(m)
    BY <1>0, <2>1
  <2>3. PICK r \in Nat \ {0} : p(m) + r <= N /\ ~Right(m, r, f[m][r])
    BY <2>2
  <2>4. /\ \/ s.next[m][l] = NullNode /\ \A k \in S : ~Before(s, m, k)
           \/ /\ s.next[m][l] \in S /\ Before(s, m, s.next[m][l])
              /\ \A k \in S : Before(s, m, k) => ~Before(s, k, s.next[m][l])
        /\ s.next[m][l] # NullNode => s.span[m][l] = p(s.next[m][l]) - p(m)
        /\ NullNode \notin S
    BY <1>0, <2>2, LevelOne
  <2>5. l # 1 => Right(m, r, v[m][r])
    <3>1. l # 1 => Leads(s, all, S, exact, v)
      OBVIOUS
    <3> QED BY <2>2, <2>3, <3>1 DEF Leads
  <2>6. CASE s.next[m][l] # NullNode
    <3> DEFINE x == s.next[m][l]
               k == s.span[m][l]
    <3>1. x \in S /\ Before(s, m, x) /\ k = p(x) - p(m) /\ x \in all /\ x \in Nodes
      BY <1>0, <2>4, <2>6
    <3>2. p(x) \in 1..N /\ p(m) \in Nat /\ Sorted(s, all)[p(x)] = x /\ k \in Int
      BY <1>0, <1>1, <2>2, <3>1
    <3>3. f[m][r] = IF k < r THEN f[x][r - k] ELSE IF k = r THEN x ELSE v[m][r]
      BY <1>2, <2>2, <2>6
    <3>4. k >= 1
      <4>1. ~Before(s, x, m) /\ m # x
        BY <1>0, <2>2, <3>1, BeforeFacts
      <4>2. p(m) < p(x)
        BY <1>0, <2>2, <3>1, <4>1, PlaceGrows
      <4> QED BY <3>1, <3>2, <4>2
    <3> HIDE DEF x, k, p, N, Right, Claim, F
    <3>5. CASE k < r
      <4>1. Claim(x)
        BY <2>1, <3>1 DEF F
      <4>2. r - k \in Nat \ {0} /\ p(x) + (r - k) = p(m) + r /\ p(x) + (r - k) <= N
        BY <1>0, <2>3, <3>1, <3>2, <3>5
      <4>3. Right(x, r - k, f[x][r - k])
        BY <4>1, <4>2 DEF Claim
      <4>4. Right(m, r, f[x][r - k])
        BY <4>2, <4>3 DEF Right
      <4> QED BY <2>3, <3>3, <3>5, <4>4
    <3>6. CASE k = r
      <4>1. p(m) + r = p(x) /\ ~(k < r)
        BY <3>1, <3>2, <3>6
      <4>2. Right(m, r, x)
        BY <3>2, <4>1 DEF Right
      <4> QED BY <2>3, <3>3, <3>6, <4>1, <4>2
    <3>7. CASE k > r
      <4>1. ~(k < r) /\ k # r
        BY <3>2, <3>7
      <4>2. l # 1
        <5>1. ASSUME l = 1 PROVE FALSE
          <6>1. p(x) = p(m) + 1
            <7>1. \A j \in all : Before(s, m, j) => ~Before(s, j, x)
              BY <2>4, <2>6, <5>1 DEF x
            <7> QED BY <1>0, <2>2, <3>1, <7>1, PlaceOfNext DEF p
          <6> QED BY <3>1, <3>2, <3>7, <6>1
        <5> QED BY <5>1
      <4> QED BY <2>3, <2>5, <3>3, <4>1, <4>2
    <3> QED BY <3>2, <3>5, <3>6, <3>7
  <2>7. CASE s.next[m][l] = NullNode
    <3>1. l # 1
      <4>1. ASSUME l = 1 PROVE FALSE
        <5>1. \A j \in all : ~Before(s, m, j)
          BY <2>4, <2>7, <4>1
        <5>2. p(m) = N
          BY <5>1, PlaceOfLast
        <5> QED BY <1>0, <2>3, <5>2
      <4> QED BY <4>1
    <3>2. f[m][r] = IF s.span[m][l] = r THEN NullNode ELSE v[m][r]
      BY <1>2, <2>2, <2>7
    <3>3. CASE exact
      <4>1. s.span[m][l] <= 0 /\ s.span[m][l] \in Int
        BY <1>0, <2>2, <2>7, <3>3 DEF EndsLow
      <4>2. s.span[m][l] # r
        BY <4>1
      <4> HIDE DEF Right
      <4> QED BY <2>3, <2>5, <3>1, <3>2, <4>2
    <3>4. CASE ~exact
      <4>1. Right(m, r, NullNode)
        BY <3>4
      <4> HIDE DEF Right
      <4> QED BY <2>3, <2>5, <3>1, <3>2, <4>1
    <3> QED BY <3>3, <3>4
  <2> QED BY <2>6, <2>7
<1>4. \A m \in S \cup {Header} : Claim(m)
  BY <1>3
<1> QED BY <1>4 DEF Leads

(* What getNodeByRank does from level l down.                              *)
Walk(s, w) ==
  w = [l \in 0..SKIP_LIST_MAX_LEVEL |->
        IF l = 0 THEN [m \in Nodes |-> [r \in Nat |-> NullNode]]
        ELSE CHOOSE f : Way(s, l, w[l - 1], f)]

LEMMA WalkExists ==
  ASSUME NEW s, Typed(s), Upward(s)
  PROVE  \E w : Walk(s, w)
<1> DEFINE D == 0..SKIP_LIST_MAX_LEVEL
           V == [Nodes -> Ways]
           none == [m \in Nodes |-> [r \in Nat |-> NullNode]]
           nx == [l \in D |-> l - 1]
           h == [l \in D |-> l]
           G == [l \in D |-> [v \in V |-> IF l = 0 THEN none ELSE CHOOSE f : Way(s, l, v, f)]]
           B == [l \in D |-> none]
<1>0. SKIP_LIST_MAX_LEVEL \in Nat /\ Towers = 1..SKIP_LIST_MAX_LEVEL
  BY SkipListAssumption DEF Towers
<1>1. none \in V
  BY DEF Ways
<1>2. ASSUME NEW l \in D, l # 0, NEW v \in V PROVE (CHOOSE f : Way(s, l, v, f)) \in V
  <2>1. l \in Towers
    BY <1>0, <1>2
  <2>2. Way(s, l, v, CHOOSE f : Way(s, l, v, f))
    BY <2>1, WayExists
  <2> QED BY <2>1, <2>2, WayTyped
<1>3. Computing(D, V, G, B)
  <2> HIDE DEF V, none, D
  <2>1. \A l \in D, v \in V : (IF l = 0 THEN none ELSE CHOOSE f : Way(s, l, v, f)) \in V
    BY <1>1, <1>2
  <2>2. G \in [D -> [V -> V]]
    BY <2>1
  <2>3. B \in [D -> V]
    BY <1>1
  <2> HIDE DEF G, B
  <2> QED BY <2>2, <2>3 DEF Computing
<1>4. Falling(D, nx, D, h, SKIP_LIST_MAX_LEVEL)
  <2>1. h \in [D -> Nat] /\ \A l \in D : h[l] <= SKIP_LIST_MAX_LEVEL
    BY <1>0
  <2>2. \A l \in D : nx[l] \in D => h[nx[l]] < h[l]
    BY <1>0
  <2> HIDE DEF D, nx, h
  <2> QED BY <2>1, <2>2 DEF Falling
<1>5. PICK w \in [D -> V] : Along(w, D, nx, D, G, B)
  <2> HIDE DEF D, V, nx, h, G, B
  <2> QED BY <1>0, <1>3, <1>4, AlongExists
<1>6. \A l \in D : w[l] = IF nx[l] \in D THEN G[l][w[nx[l]]] ELSE B[l]
  BY <1>5 DEF Along
<1>7. ASSUME NEW l \in D PROVE w[l] = IF l = 0 THEN none ELSE CHOOSE f : Way(s, l, w[l - 1], f)
  <2>1. CASE l = 0
    <3>1. nx[l] \notin D
      BY <1>0, <2>1
    <3> HIDE DEF nx, none
    <3> QED BY <1>6, <2>1, <3>1
  <2>2. CASE l # 0
    <3>1. nx[l] = l - 1 /\ l - 1 \in D
      BY <1>0, <2>2
    <3>2. w[l - 1] \in V
      <4> HIDE DEF V
      <4> QED BY <3>1
    <3>3. w[l] = G[l][w[l - 1]]
      <4> HIDE DEF nx, G, D
      <4> QED BY <1>6, <3>1
    <3>4. G[l][w[l - 1]] = IF l = 0 THEN none ELSE CHOOSE f : Way(s, l, w[l - 1], f)
      <4> HIDE DEF V, none, D
      <4> QED BY <3>2
    <3> QED BY <3>3, <3>4
  <2> QED BY <2>1, <2>2
<1>8. w = [l \in D |-> w[l]]
  OBVIOUS
<1>9. Walk(s, w)
  <2> HIDE DEF D, none
  <2>1. w = [l \in D |-> IF l = 0 THEN none ELSE CHOOSE f : Way(s, l, w[l - 1], f)]
    BY <1>7, <1>8
  <2> QED BY <2>1 DEF Walk, D, none
<1> QED BY <1>9

LEMMA RanksLead ==
  ASSUME NEW s, Typed(s), Upward(s), NEW in, Towered(s, in), NEW exact \in BOOLEAN,
         exact => EndsLow(s, in), NEW i \in 1..Cardinality(in[1])
  PROVE  getNodeByRank(s, i) = Sorted(s, in[1])[i] \/ (~exact /\ getNodeByRank(s, i) = NullNode)
<1> DEFINE w == CHOOSE w1 : Walk(s, w1)
           D == 0..SKIP_LIST_MAX_LEVEL
           V == [Nodes -> Ways]
           T == {l \in Nat : w[l] \in V /\ (l # 0 => Leads(s, in[1], in[l], exact, w[l]))}
<1>0. SKIP_LIST_MAX_LEVEL \in Nat /\ Towers = 1..SKIP_LIST_MAX_LEVEL /\ SoundList(s) /\ Keyed(s)
      /\ 1 \in Towers /\ in[1] \in SUBSET Inner
  <2>1. SoundList(s) /\ Keyed(s)
    BY DEF SoundList, Keyed, Spanned, Typed
  <2> QED BY <2>1, LevelSets
<1>1. Walk(s, w)
  BY WalkExists
<1>2. getNodeByRank(s, i) = w[s.level][Header][i]
  BY DEF getNodeByRank, Walk, Way
<1>3. \A l \in D : w[l] = IF l = 0 THEN [m \in Nodes |-> [r \in Nat |-> NullNode]]
                          ELSE CHOOSE f : Way(s, l, w[l - 1], f)
  <2> HIDE DEF w
  <2> QED BY <1>1 DEF Walk
<1> HIDE DEF w, V
<1>4. 0 \in T
  <2>0. 0 \in D
    BY <1>0
  <2>1. w[0] = [m \in Nodes |-> [r \in Nat |-> NullNode]]
    <3> HIDE DEF D
    <3> QED BY <1>3, <2>0
  <2>2. w[0] \in V
    BY <2>1 DEF V, Ways
  <2> QED BY <2>2
<1>5. ASSUME NEW l \in 0..(SKIP_LIST_MAX_LEVEL - 1), l \in T PROVE l + 1 \in T
  <2>1. l + 1 \in Towers /\ l + 1 \in D /\ l + 1 \in Nat /\ l + 1 # 0 /\ (l + 1) - 1 = l
    BY <1>0
  <2>2. w[l] \in V
    BY <1>5
  <2>3. w[l + 1] = CHOOSE f : Way(s, l + 1, w[l], f)
    BY <1>3, <2>1
  <2>4. Way(s, l + 1, w[l], w[l + 1])
    BY <2>1, <2>2, <2>3, WayExists DEF V
  <2>5. w[l + 1] \in V
    BY <2>1, <2>2, <2>4, WayTyped DEF V
  <2>6. l + 1 = 1 \/ Leads(s, in[1], in[l + 1], exact, w[l])
    <3>1. CASE l = 0
      BY <3>1
    <3>2. CASE l # 0
      <4>1. Leads(s, in[1], in[l], exact, w[l])
        BY <1>5, <3>2
      <4>2. l \in Towers /\ l <= l + 1
        BY <1>0, <3>2
      <4>3. in[l + 1] \subseteq in[l]
        BY <2>1, <4>2 DEF Towered
      <4>4. in[l + 1] \cup {Header} \subseteq in[l] \cup {Header}
        BY <4>3
      <4> QED BY <4>1, <4>4 DEF Leads
    <3> QED BY <3>1, <3>2
  <2>7. Leads(s, in[1], in[l + 1], exact, w[l + 1])
    BY <2>1, <2>2, <2>4, <2>6, WayLeads DEF V
  <2> QED BY <2>1, <2>5, <2>7
<1>6. \A l \in D : l \in T
  <2> HIDE DEF T
  <2> QED BY <1>0, <1>4, <1>5, NoneFails
<1>7. s.level \in D /\ s.level # 0
  <2>1. s.level \in Nat /\ s.level <= SKIP_LIST_MAX_LEVEL /\ (1 > s.level => in[1] = {})
    BY <1>0 DEF Towered
  <2>2. in[1] # {}
    <3>1. ASSUME in[1] = {} PROVE FALSE
      <4>1. Cardinality(in[1]) = 0
        BY <3>1, FS_EmptySet
      <4> QED BY <4>1
    <3> QED BY <3>1
  <2> QED BY <1>0, <2>1, <2>2
<1>8. Leads(s, in[1], in[s.level], exact, w[s.level])
  BY <1>6, <1>7
<1>9. Place(s, in[1], Header) = 0 /\ Cardinality(in[1]) \in Nat
  BY <1>0, SortedFacts
<1>10. i \in Nat \ {0} /\ 0 + i = i /\ i <= Cardinality(in[1])
  BY <1>9
<1>11. w[s.level][Header][i] = Sorted(s, in[1])[i] \/ (~exact /\ w[s.level][Header][i] = NullNode)
  BY <1>8, <1>9, <1>10 DEF Leads
<1> QED BY <1>2, <1>11
-----------------------------------------------------------------------------
(* firstInRange *)

(* The nodes of a smaller score than the range.                            *)
Below(s, min) == {n \in 1..s.created : s.score[n] < min}

(* What follows the nodes below the range in a level, with no other node   *)
(* of the list between, is the first one that is not below.                *)
LEMMA HitIsFirst ==
  ASSUME NEW s, SoundList(s), NEW in, Towered(s, in), NEW min \in Int, NEW l \in Towers,
         NEW m, Edge(s, in[l], Below(s, min), m), s.next[m][l] # NullNode, s.span[m][l] = 1
  PROVE  /\ s.next[m][l] \in in[1] /\ s.score[s.next[m][l]] >= min
         /\ \A n \in in[1] : s.score[n] >= min => ~Before(s, n, s.next[m][l])
<1> DEFINE x == s.next[m][l]
           S == in[1]
<1>0. /\ Keyed(s) /\ S \in SUBSET Inner /\ S \subseteq Nodes /\ Header \in Nodes
      /\ S \in SUBSET (1..s.created) /\ in[l] \subseteq S
      /\ \A n \in Nodes : s.score[n] \in Int /\ s.obj[n] \in Int
      /\ m \in in[l] \cup {Header} /\ m \in Nodes
  BY LevelSets, KeysTyped, NodesAreNumbers DEF SoundList, Edge
<1>1. \A n \in S : n \in Below(s, min) <=> s.score[n] < min
  BY <1>0 DEF Below
<1>2. \A n \in in[l] : n \in Below(s, min) <=> ~Before(s, m, n)
  BY DEF Edge
<1>3. x \in in[l] /\ Before(s, m, x) /\ 1 = Place(s, S, x) - Place(s, S, m)
  BY <1>0, LevelOne
<1>4. x \in S /\ x \in Nodes /\ s.score[x] >= min
  BY <1>0, <1>1, <1>2, <1>3
<1>5. ASSUME NEW n \in S, s.score[n] >= min, Before(s, n, x) PROVE FALSE
  <2>1. ~(s.score[n] < min) /\ n \in Nodes /\ n # Header
    BY <1>0, <1>5 DEF Inner
  <2>2. ~Before(s, n, m) /\ n # m
    <3>1. CASE m = Header
      BY <1>0, <2>1, <3>1, BeforeFacts
    <3>2. CASE m # Header
      <4>1. m \in in[l] /\ m \in S /\ ~Before(s, m, m)
        BY <1>0, <3>2, BeforeFacts
      <4>2. s.score[m] < min
        BY <1>1, <1>2, <4>1
      <4>3. ~Before(s, n, m)
        BY <1>0, <2>1, <3>2, <4>2 DEF Before
      <4> QED BY <2>1, <4>2, <4>3
    <3> QED BY <3>1, <3>2
  <2>3. Before(s, m, n) /\ ~Before(s, n, m) /\ ~Before(s, x, n) /\ n # x
    BY <1>0, <1>4, <1>5, <2>1, <2>2, BeforeFacts
  <2>4. Place(s, S, m) < Place(s, S, n)
    BY <1>0, <2>1, <2>2, PlaceGrows
  <2>5. Place(s, S, n) < Place(s, S, x)
    BY <1>0, <1>4, <2>1, <2>3, PlaceGrows
  <2>6. Place(s, S, m) \in Nat /\ Place(s, S, n) \in Nat /\ Place(s, S, x) \in Nat
    BY <1>0, PlaceType
  <2> QED BY <1>3, <2>4, <2>5, <2>6
<1> QED BY <1>4, <1>5

LEMMA GreatestExists ==
  ASSUME NEW top \in Nat, NEW T \in SUBSET (1..top), T # {}
  PROVE  \E x \in T : \A y \in T : y <= x
<1> DEFINE U == {top - x : x \in T}
<1>1. U \in SUBSET Nat /\ U # {}
  <2>1. \A x \in T : top - x \in Nat
    OBVIOUS
  <2>2. PICK x \in T : TRUE
    OBVIOUS
  <2>3. top - x \in U
    OBVIOUS
  <2> QED BY <2>1, <2>3
<1>2. PICK u \in U : \A y \in U : u <= y
  <2> HIDE DEF U
  <2> QED BY <1>1, LeastExists
<1>3. PICK x \in T : u = top - x
  BY <1>2
<1>4. ASSUME NEW y \in T PROVE y <= x
  <2>1. top - y \in U /\ x \in Nat /\ y \in Nat
    OBVIOUS
  <2>2. top - x <= top - y
    BY <1>2, <1>3, <2>1
  <2> QED BY <2>1, <2>2
<1> QED BY <1>4

LEMMA FirstIsFound ==
  ASSUME NEW s, SoundList(s), NEW in, Towered(s, in), NEW min \in Int, NEW max \in Int,
         NEW R, R = {i \in DOMAIN Sorted(s, in[1]) : s.score[Sorted(s, in[1])[i]] \in min..max}
  PROVE  firstInRange(s, min, max) =
           IF R = {} THEN NullNode
           ELSE Sorted(s, in[1])[CHOOSE i \in R : \A j \in R : i <= j]
<1> DEFINE S == in[1]
           N == Cardinality(S)
           prev == Forwards(s, s.level, Below(s, min))
           x(l) == s.next[prev[l]][l]
           hit(l) == x(l) # NullNode /\ s.score[x(l)] \in min..max /\ s.span[prev[l]][l] = 1
           hits == {l \in 1..s.level : hit(l)}
           first == CHOOSE i \in R : \A j \in R : i <= j
<1>0. /\ Keyed(s) /\ S \in SUBSET Inner /\ S \subseteq Nodes /\ Header \in Nodes
      /\ S \in SUBSET (1..s.created) /\ 1 \in Towers /\ Towers = 1..SKIP_LIST_MAX_LEVEL
      /\ SKIP_LIST_MAX_LEVEL \in Nat
      /\ \A n \in Nodes : s.score[n] \in Int /\ s.obj[n] \in Int
      /\ s.level \in Nat /\ s.level <= SKIP_LIST_MAX_LEVEL
  <2>1. s.level \in Nat /\ s.level <= SKIP_LIST_MAX_LEVEL
    BY DEF Towered
  <2> QED BY <2>1, LevelSets, KeysTyped, NodesAreNumbers DEF SoundList
<1>1. /\ N \in Nat /\ DOMAIN Sorted(s, S) = 1..N
      /\ \A i \in 1..N : Sorted(s, S)[i] \in S /\ Place(s, S, Sorted(s, S)[i]) = i
      /\ \A n \in S : Place(s, S, n) \in 1..N /\ Sorted(s, S)[Place(s, S, n)] = n
  BY <1>0, SortedFacts
<1>2. firstInRange(s, min, max) =
        IF hits = {} THEN NullNode ELSE x(CHOOSE l \in hits : \A k \in hits : k <= l)
  BY DEF firstInRange, Below
<1>3. NullNode \notin Below(s, min) /\ Begins(s, S, Below(s, min))
  <2>1. NullNode \notin Below(s, min)
    BY DEF Below, NullNode
  <2>2. ASSUME NEW k \in S, NEW m \in S, m \in Below(s, min), Before(s, k, m)
        PROVE  k \in Below(s, min)
    <3>1. k \in Nodes /\ m \in Nodes /\ k # Header /\ s.score[m] < min /\ k \in 1..s.created
      BY <1>0, <2>2 DEF Below, Inner
    <3>2. s.score[k] <= s.score[m]
      BY <1>0, <2>2, <3>1 DEF Before
    <3> QED BY <1>0, <3>1, <3>2 DEF Below
  <2> QED BY <2>1, <2>2 DEF Begins
<1>4. \A l \in Towers : Edge(s, in[l], Below(s, min), prev[l])
  BY <1>0, <1>3, SearchIsRight
<1> HIDE DEF prev
<1>5. ASSUME NEW l \in hits
      PROVE  /\ x(l) \in S /\ s.score[x(l)] \in min..max
             /\ \A n \in S : s.score[n] >= min => ~Before(s, n, x(l))
  <2>1. l \in Towers /\ x(l) # NullNode /\ s.score[x(l)] \in min..max /\ s.span[prev[l]][l] = 1
    BY <1>0
  <2> QED BY <1>4, <2>1, HitIsFirst
<1>6. ASSUME NEW l \in hits PROVE R # {} /\ x(l) = Sorted(s, S)[first]
  <2> DEFINE i == Place(s, S, x(l))
  <2>0. x(l) \in S /\ s.score[x(l)] \in min..max
        /\ \A n \in S : s.score[n] >= min => ~Before(s, n, x(l))
    BY <1>5
  <2> HIDE DEF x, hits
  <2>1. i \in 1..N /\ Sorted(s, S)[i] = x(l) /\ i \in R
    BY <1>1, <2>0
  <2>2. ASSUME NEW j \in R PROVE i <= j
    <3> DEFINE n == Sorted(s, S)[j]
    <3>1. j \in 1..N /\ n \in S /\ Place(s, S, n) = j /\ s.score[n] \in min..max
      BY <1>1
    <3>2. ~Before(s, n, x(l))
      BY <2>0, <3>1
    <3> HIDE DEF n
    <3>3. Place(s, S, x(l)) <= Place(s, S, n)
      <4>1. n \in Nodes /\ x(l) \in Nodes
        BY <1>0, <2>0, <3>1
      <4> QED BY <1>0, <3>2, <4>1, PlaceGrows
    <3> QED BY <3>1, <3>3
  <2>3. first \in R /\ \A j \in R : first <= j
    <3> HIDE DEF i
    <3> QED BY <2>1, <2>2
  <2>4. first = i
    <3>1. first <= i /\ i <= first /\ first \in Int /\ i \in Int
      <4>0. R \subseteq 1..N
        BY <1>1
      <4>1. first \in 1..N
        <5> HIDE DEF first, N
        <5> QED BY <2>3, <4>0
      <4> HIDE DEF i, first
      <4> QED BY <2>1, <2>2, <2>3, <4>1
    <3> HIDE DEF i, first
    <3> QED BY <3>1
  <2> QED BY <2>1, <2>4
<1>7. ASSUME NEW i \in R PROVE 1 \in hits
  <2> DEFINE n == Sorted(s, S)[i]
             m == prev[1]
  <2>1. n \in S /\ n \in Nodes /\ s.score[n] >= min /\ s.score[n] <= max
    BY <1>0, <1>1
  <2>2. Edge(s, S, Below(s, min), m)
    BY <1>0, <1>4
  <2> HIDE DEF m, n
  <2>3. m \in S \cup {Header} /\ m \in Nodes /\ \A k \in S : k \in Below(s, min) <=> ~Before(s, m, k)
    BY <1>0, <2>2 DEF Edge
  <2>4. Before(s, m, n)
    BY <1>0, <2>1, <2>3 DEF Below
  <2>5. /\ s.next[m][1] \in S /\ Before(s, m, s.next[m][1])
        /\ \A k \in S : Before(s, m, k) => ~Before(s, k, s.next[m][1])
        /\ s.span[m][1] = Place(s, S, s.next[m][1]) - Place(s, S, m)
        /\ s.next[m][1] # NullNode
    BY <1>0, <2>1, <2>3, <2>4, LevelOne
  <2>6. Place(s, S, s.next[m][1]) = Place(s, S, m) + 1
    BY <1>0, <2>3, <2>5, PlaceOfNext
  <2>7. s.span[m][1] = 1
    <3>1. Place(s, S, m) \in Nat
      BY <1>0, PlaceType
    <3> QED BY <2>5, <2>6, <3>1
  <2>8. s.next[m][1] \notin Below(s, min) /\ s.next[m][1] \in Nodes /\ s.next[m][1] \in 1..s.created
    BY <1>0, <2>3, <2>5
  <2>9. s.score[s.next[m][1]] >= min
    BY <1>0, <2>8 DEF Below
  <2>10. s.score[s.next[m][1]] <= max
    <3>1. n = s.next[m][1] \/ Before(s, s.next[m][1], n)
      BY <1>0, <2>1, <2>4, <2>5, <2>8, BeforeTotal
    <3>2. s.next[m][1] # Header
      BY <1>0, <2>5 DEF Inner
    <3>3. s.score[s.next[m][1]] <= s.score[n]
      BY <1>0, <2>1, <2>8, <3>1, <3>2 DEF Before
    <3>4. s.score[s.next[m][1]] \in Int /\ s.score[n] \in Int
      BY <1>0, <2>1, <2>8
    <3> QED BY <2>1, <3>3, <3>4
  <2>11. 1 \in 1..s.level
    <3>1. 1 > s.level => S = {}
      BY <1>0 DEF Towered
    <3> QED BY <1>0, <2>1, <3>1
  <2>12. s.score[s.next[m][1]] \in min..max
    BY <1>0, <2>8, <2>9, <2>10
  <2> QED BY <2>5, <2>7, <2>11, <2>12 DEF m
<1>8. CASE hits = {}
  <2>1. R = {}
    <3> HIDE DEF hits
    <3> QED BY <1>7, <1>8
  <2> HIDE DEF hits
  <2> QED BY <1>2, <1>8, <2>1
<1>9. CASE hits # {}
  <2>1. hits \in SUBSET (1..s.level)
    OBVIOUS
  <2> HIDE DEF hits, x, first
  <2>2. \E l \in hits : \A k \in hits : k <= l
    BY <1>0, <1>9, <2>1, GreatestExists
  <2>3. (CHOOSE l \in hits : \A k \in hits : k <= l) \in hits
    BY <2>2
  <2>4. R # {} /\ x(CHOOSE l \in hits : \A k \in hits : k <= l) = Sorted(s, S)[first]
    BY <1>6, <2>3
  <2> QED BY <1>2, <1>9, <2>4 DEF first
<1> QED BY <1>8, <1>9
-----------------------------------------------------------------------------
(* The invariant *)

(* The list is what RanksRight says of some sets of nodes, one for each    *)
(* level.  That a span with nothing behind it is not above 0 holds until   *)
(* the first deletion, and is why ranks lead to their nodes until then.    *)
SkipListIInv ==
  /\ IsList(list) /\ SkipListTypeOK
  /\ past # "misled" =>
       /\ Upward(list)
       /\ \E in : Towered(list, in) /\ (past = "inserts" => EndsLow(list, in))

LEMMA SkipListInitIInv == SkipListInit => SkipListIInv
<1> SUFFICES ASSUME SkipListInit PROVE SkipListIInv
  OBVIOUS
<1> DEFINE in == [l \in Towers |-> {}]
<1>0. /\ SKIP_LIST_MAX_LEVEL \in Nat \ {0} /\ Towers = 1..SKIP_LIST_MAX_LEVEL /\ 1 \in Towers
      /\ MaxNodes \in Nat /\ Header \in Nodes
  BY SkipListAssumption, NodesAreNumbers DEF Towers
<1>1. /\ list.score = [n \in Nodes |-> 0] /\ list.obj = [n \in Nodes |-> 0]
      /\ list.previous = [n \in Nodes |-> NullNode]
      /\ list.next = [n \in Nodes |-> [l \in Towers |-> NullNode]]
      /\ list.span = [n \in Nodes |-> [l \in Towers |-> 0]]
      /\ list.tailer = Header /\ list.level = 1 /\ list.length = 0 /\ list.created = 0
      /\ past = "inserts"
  BY DEF SkipListInit
<1>2. IsList(list)
  BY DEF SkipListInit, IsList, Fields
<1>3. SkipListTypeOK
  <2>1. 0 \in Nodes
    BY <1>0 DEF Header
  <2> QED BY <1>0, <1>1, <2>1 DEF SkipListTypeOK
<1>4. Upward(list)
  BY <1>1 DEF Upward
<1>5. Towered(list, in)
  <2>1. list.length = Cardinality(in[1])
    <3>1. in[1] = {}
      BY <1>0
    <3> QED BY <1>1, <3>1, FS_EmptySet
  <2>2. ASSUME NEW l \in Towers PROVE Follows(list, l, in[l]) /\ Spans(list, l, in[l], in[1])
    <3>1. in[l] \cup {Header} = {Header} /\ in[l] = {} /\ list.next[Header][l] = NullNode
      BY <1>0, <1>1
    <3> HIDE DEF in
    <3> QED BY <3>1 DEF Follows, Spans
  <2>3. list.level \in Nat /\ list.level <= SKIP_LIST_MAX_LEVEL
    BY <1>0, <1>1
  <2>4. in \in [Towers -> SUBSET (1..list.created)]
    OBVIOUS
  <2>5. \A l \in Towers : in[l] = {}
    OBVIOUS
  <2>6. list.level = 1 /\ list.tailer = Header
    BY <1>1
  <2> HIDE DEF in
  <2> QED BY <1>0, <2>1, <2>2, <2>3, <2>4, <2>5, <2>6 DEF Towered
<1>6. EndsLow(list, in)
  <2>1. \A l \in Towers : \A n \in in[l] \cup {Header} : list.span[n][l] = 0
    BY <1>0, <1>1
  <2> QED BY <2>1 DEF EndsLow
<1> HIDE DEF in
<1> QED BY <1>2, <1>3, <1>4, <1>5, <1>6 DEF SkipListIInv

LEMMA insertNodeKeepsIInv ==
  ASSUME SkipListIInv, past # "misled", insertNode
  PROVE  SkipListIInv'
<1>1. PICK in : Towered(list, in) /\ (past = "inserts" => EndsLow(list, in))
  BY DEF SkipListIInv
<1>2. /\ IsList(list) /\ Typed(list) /\ Upward(list) /\ past \in {"inserts", "deletes", "misled"}
  BY DEF SkipListIInv, SkipListTypeOK, Typed
<1>3. PICK score \in Scores, obj \in Objs, drawn \in Towers :
        list' = WithNode(list, score, obj, drawn)
  BY DEF insertNode
<1>4. score \in Int /\ obj \in Int /\ list.created < MaxNodes /\ past' = past
  BY SkipListAssumption DEF insertNode
<1> DEFINE in2 == InWith(in, list.created + 1, drawn)
<1>5. /\ IsList(list') /\ Typed(list') /\ Upward(list') /\ Towered(list', in2)
      /\ EndsLow(list, in) => EndsLow(list', in2)
  BY <1>1, <1>2, <1>3, <1>4, InsertKeeps
<1>6. SkipListTypeOK'
  BY <1>2, <1>4, <1>5 DEF SkipListTypeOK, Typed
<1> HIDE DEF in2
<1> QED BY <1>1, <1>4, <1>5, <1>6 DEF SkipListIInv

LEMMA deleteNodeKeepsIInv ==
  ASSUME SkipListIInv, past # "misled", deleteNode
  PROVE  SkipListIInv'
<1>1. PICK in : Towered(list, in)
  BY DEF SkipListIInv
<1>2. IsList(list) /\ Typed(list) /\ Upward(list) /\ SoundList(list) /\ list.level <= SKIP_LIST_MAX_LEVEL
  <2>1. IsList(list) /\ Typed(list) /\ Upward(list)
    BY DEF SkipListIInv, SkipListTypeOK, Typed
  <2>2. SoundList(list)
    BY <2>1 DEF SoundList, Keyed, Spanned, Typed
  <2> QED BY <1>1, <2>1, <2>2 DEF Towered
<1>3. PICK score \in Scores, obj \in Objs :
        /\ list' = WithoutNode(list, score, obj)
        /\ past' = IF /\ \E n \in Contents(list) : list.obj[n] = obj
                      /\ \A n \in Contents(list) : list.score[n] = score
                   THEN "deletes" ELSE "misled"
  BY DEF deleteNode
<1>4. score \in Int /\ obj \in Int
  BY SkipListAssumption
<1>5. IsList(list') /\ Typed(list')
  BY <1>2, <1>3, <1>4, DeleteTyped
<1>6. past' \in {"deletes", "misled"}
  BY <1>3
<1>7. SkipListTypeOK'
  BY <1>5, <1>6 DEF SkipListTypeOK, Typed
<1>8. ASSUME past' # "misled" PROVE Upward(list') /\ \E in2 : Towered(list', in2)
  <2>1. Contents(list) = in[1]
    BY <1>1, <1>2, ContentsAreLinked
  <2>2. (\E n \in in[1] : list.obj[n] = obj) /\ \A n \in in[1] : list.score[n] = score
    BY <1>3, <1>8, <2>1
  <2> QED BY <1>1, <1>2, <1>3, <1>4, <2>2, DeleteKeeps
<1> QED BY <1>5, <1>6, <1>7, <1>8 DEF SkipListIInv

LEMMA SkipListIInvAlways == SkipListSpec => []SkipListIInv
<1>1. SkipListIInv /\ [SkipListNext]_skipVars => SkipListIInv'
  <2> SUFFICES ASSUME SkipListIInv, [SkipListNext]_skipVars PROVE SkipListIInv'
    OBVIOUS
  <2>1. CASE past # "misled" /\ insertNode
    BY <2>1, insertNodeKeepsIInv
  <2>2. CASE past # "misled" /\ deleteNode
    BY <2>2, deleteNodeKeepsIInv
  <2>3. CASE UNCHANGED skipVars
    BY <2>3 DEF SkipListIInv, SkipListTypeOK, skipVars
  <2> QED BY <2>1, <2>2, <2>3 DEF SkipListNext
<1> QED BY <1>1, SkipListInitIInv, PTL DEF SkipListSpec

(* What a skip list holds keeps its type: every link leads to a node or    *)
(* nowhere, and a level is not below 0, whatever is deleted.               *)
THEOREM ListTyped == SkipListSpec => []SkipListTypeOK
<1>1. SkipListIInv => SkipListTypeOK
  BY DEF SkipListIInv
<1> QED BY <1>1, SkipListIInvAlways, PTL

LEMMA RanksRightThere ==
  ASSUME SkipListIInv
  PROVE  RanksRight
<1> SUFFICES ASSUME past # "misled" PROVE RanksRight
  BY DEF RanksRight
<1> DEFINE order == InOrder(list)
           place(n) == IF n = Header THEN 0 ELSE CHOOSE i \in DOMAIN order : order[i] = n
           inRange(min, max) == {i \in DOMAIN order : list.score[order[i]] \in min..max}
<1>1. PICK in : Towered(list, in) /\ (past = "inserts" => EndsLow(list, in))
  BY DEF SkipListIInv
<1>2. Typed(list) /\ Upward(list) /\ SoundList(list) /\ Keyed(list)
      /\ past \in {"inserts", "deletes", "misled"}
  <2>1. Typed(list) /\ Upward(list) /\ past \in {"inserts", "deletes", "misled"}
    BY DEF SkipListIInv, SkipListTypeOK, Typed
  <2> QED BY <2>1 DEF SoundList, Keyed, Spanned, Typed
<1>3. /\ in[1] \in SUBSET Inner /\ in[1] \subseteq Nodes /\ Header \notin in[1]
      /\ 1 \in Towers /\ Towers = 1..SKIP_LIST_MAX_LEVEL /\ SKIP_LIST_MAX_LEVEL \in Nat
      /\ \A l \in Towers : in[l] \subseteq in[1]
  BY <1>1, <1>2, LevelSets DEF Inner
<1> DEFINE N == Cardinality(in[1])
           P(n) == Place(list, in[1], n)
<1>4. order = Sorted(list, in[1]) /\ Contents(list) = in[1]
  BY <1>1, <1>2, OrderIsSorted, ContentsAreLinked
<1>5. /\ N \in Nat /\ DOMAIN order = 1..N /\ P(Header) = 0
      /\ \A i \in 1..N : order[i] \in in[1] /\ P(order[i]) = i
      /\ \A n \in in[1] : P(n) \in 1..N /\ order[P(n)] = n
  BY <1>2, <1>3, <1>4, SortedFacts
<1>6. Len(order) = N
  <2>1. order = [i \in 1..N |-> order[i]]
    BY <1>4 DEF Sorted
  <2> HIDE DEF order, N
  <2> QED BY <1>5, <2>1
<1>7. ASSUME NEW n \in in[1] \cup {Header} PROVE place(n) = P(n)
  <2>1. CASE n = Header
    BY <1>5, <2>1
  <2>2. CASE n # Header
    <3>1. n \in in[1] /\ P(n) \in DOMAIN order /\ order[P(n)] = n
      BY <1>5, <2>2
    <3>2. \A i \in DOMAIN order : order[i] = n => i = P(n)
      BY <1>5
    <3> HIDE DEF order, P
    <3> QED BY <2>2, <3>1, <3>2
  <2> QED BY <2>1, <2>2
<1>8. ASSUME NEW i \in 1..(N - 1)
      PROVE  \/ list.score[order[i]] < list.score[order[i + 1]]
             \/ /\ list.score[order[i]] = list.score[order[i + 1]]
                /\ list.obj[order[i]] <= list.obj[order[i + 1]]
  <2>1. i \in 1..N /\ i + 1 \in 1..N
    BY <1>5
  <2>2. PICK m, n : m = order[i] /\ n = order[i + 1]
    OBVIOUS
  <2>3. m \in in[1] /\ n \in in[1] /\ P(m) = i /\ P(n) = i + 1
    BY <1>5, <2>1, <2>2
  <2>4. m \in Nodes /\ n \in Nodes /\ m # Header /\ n # Header
    BY <1>3, <2>3
  <2>5. Before(list, m, n)
    <3>1. ~Before(list, m, n) => P(n) <= P(m)
      BY <1>2, <1>3, <2>4, PlaceGrows
    <3> HIDE DEF P
    <3> QED BY <2>3, <3>1, <1>5, <2>1
  <2>6. /\ list.score[m] \in Int /\ list.score[n] \in Int
        /\ list.obj[m] \in Int /\ list.obj[n] \in Int
    BY <1>2, <2>4, KeysTyped
  <2>7. \/ list.score[m] < list.score[n]
        \/ list.score[m] = list.score[n] /\ list.obj[m] <= list.obj[n]
    BY <2>4, <2>5, <2>6 DEF Before
  <2> HIDE DEF order
  <2> QED BY <2>2, <2>7
<1>9. list.length = N
  BY <1>1 DEF Towered
<1>10. list.tailer = IF order = << >> THEN Header ELSE order[N]
  <2>1. list.tailer \in in[1] \cup {Header} /\ \A m \in in[1] : ~Before(list, list.tailer, m)
    BY <1>1 DEF Towered
  <2>2. P(list.tailer) = N
    BY <2>1, PlaceOfLast
  <2>3. CASE list.tailer = Header
    <3>1. N = 0
      BY <1>5, <2>2, <2>3
    <3>2. order = << >>
      <4>1. order = [i \in 1..N |-> order[i]]
        BY <1>4 DEF Sorted
      <4>2. 1..N = {}
        BY <3>1
      <4> HIDE DEF order, N
      <4> QED BY <4>1, <4>2
    <3> QED BY <2>3, <3>2
  <2>4. CASE list.tailer # Header
    <3>1. list.tailer \in in[1] /\ N \in 1..N /\ order[N] = list.tailer
      BY <1>5, <2>1, <2>2, <2>4
    <3>2. order # << >>
      <4> HIDE DEF order, N
      <4> QED BY <1>6, <3>1
    <3> QED BY <3>1, <3>2
  <2> QED BY <2>3, <2>4
<1>11. ASSUME NEW n \in Contents(list) \cup {Header}, NEW l \in 1..list.level,
              n \in Linked(list, l), list.next[n][l] # NullNode
       PROVE  /\ list.next[n][l] \in Contents(list)
              /\ list.span[n][l] = place(list.next[n][l]) - place(n)
  <2>1. l \in Towers
    <3>1. list.level \in Nat /\ list.level <= SKIP_LIST_MAX_LEVEL
      BY <1>1 DEF Towered
    <3> QED BY <1>3, <3>1
  <2>2. n \in in[l] \cup {Header} /\ n \in in[1] \cup {Header}
    BY <1>1, <1>2, <1>3, <1>11, <2>1, LinkedAreIn
  <2>3. /\ list.next[n][l] \in in[l] /\ list.span[n][l] = P(list.next[n][l]) - P(n)
    BY <1>1, <1>2, <1>11, <2>1, <2>2, LevelOne
  <2>4. list.next[n][l] \in in[1]
    BY <1>3, <2>1, <2>3
  <2>5. place(list.next[n][l]) = P(list.next[n][l]) /\ place(n) = P(n)
    BY <1>7, <2>2, <2>4
  <2> HIDE DEF place, P
  <2> QED BY <1>4, <2>3, <2>4, <2>5
<1>12. ASSUME NEW i \in 1..N
       PROVE  \/ getNodeByRank(list, i) = order[i]
              \/ past = "deletes" /\ getNodeByRank(list, i) = NullNode
  <2> DEFINE exact == past = "inserts"
  <2>1. exact \in BOOLEAN /\ (exact => EndsLow(list, in)) /\ (~exact => past = "deletes")
    BY <1>1, <1>2
  <2> HIDE DEF exact
  <2>2. getNodeByRank(list, i) = Sorted(list, in[1])[i]
        \/ (~exact /\ getNodeByRank(list, i) = NullNode)
    BY <1>1, <1>2, <2>1, RanksLead
  <2> QED BY <1>4, <2>1, <2>2
<1>13. ASSUME NEW min \in Scores, NEW max \in Scores
       PROVE  firstInRange(list, min, max) =
                IF inRange(min, max) = {} THEN NullNode
                ELSE order[CHOOSE i \in inRange(min, max) : \A j \in inRange(min, max) : i <= j]
  <2>1. min \in Int /\ max \in Int
    BY SkipListAssumption
  <2>2. inRange(min, max) =
          {i \in DOMAIN Sorted(list, in[1]) : list.score[Sorted(list, in[1])[i]] \in min..max}
    BY <1>4
  <2> HIDE DEF inRange
  <2> QED BY <1>1, <1>2, <1>4, <2>1, <2>2, FirstIsFound
<1> HIDE DEF order, place, inRange, P, N
<1> QED BY <1>5, <1>6, <1>8, <1>9, <1>10, <1>11, <1>12, <1>13
        DEF RanksRight, order, place, inRange

(* A skip list of any levels, scores and objects, after any insertions,    *)
(* and deletions of what a list of one score holds: it is in order, every  *)
(* link spans as many places as its span says, ranks lead to their nodes   *)
(* and ranges to their first one.                                          *)
THEOREM RanksAreRight == SkipListSpec => []RanksRight
BY RanksRightThere, SkipListIInvAlways, PTL
=============================================================================
