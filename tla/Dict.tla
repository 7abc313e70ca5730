--------------------------------- MODULE Dict ---------------------------------
(***************************************************************************)
(* The hash table with incremental rehashing (datastructure/dict/Dict.cpp, *)
(* HashTable.cpp): two tables, of which the second exists only while the   *)
(* entries move to it, one chain with each call.  A chain is a set of      *)
(* entries: their order shows in no answer.  used is the number of entries *)
(* in the chains, which change nowhere else than used does.                *)
(*                                                                         *)
(* The loop of rehashSteps reads entry->next from the entry that it has    *)
(* just deleted.  Nothing is allocated between the two, and the field lies *)
(* behind the part of a freed block that the allocator writes to, so that  *)
(* it still leads to the rest of the chain.                                *)
(***************************************************************************)
EXTENDS Integers, FiniteSets

CONSTANTS
  Keys, Vals,
  NoVal,                     \* no value; as a key, the null entry
  Sizes,                     \* sizes of tables: 20, 40, 80 and so on
  Index(_, _),               \* getIndexWithKey: the slot of a key in a table of a size
  HASH_TABLE_INITIAL_SIZE,
  NEED_FORCE_REHASH_RATIO,
  HASHTABLE_MIN_FILL,
  canResize,                 \* the global of main.cpp
  ReinsertsOld               \* are addEntry and replace called for keys that the
                             \* old table still holds?

(* hash & mask is at most mask, which is size - 1.                         *)
ASSUME DictAssumption ==
  /\ NoVal \notin Keys \cup Vals
  /\ Sizes \subseteq Nat \ {0}
  /\ HASH_TABLE_INITIAL_SIZE \in Sizes
  /\ \A n \in Sizes : n > HASH_TABLE_INITIAL_SIZE => n \div 2 \in Sizes
  /\ \A k \in Keys, n \in Sizes : Index(k, n) \in 0..(n - 1)
  /\ NEED_FORCE_REHASH_RATIO \in Nat /\ HASHTABLE_MIN_FILL \in Nat
  /\ canResize \in BOOLEAN /\ ReinsertsOld \in BOOLEAN

VARIABLES
  dict,       \* ht[0], ht[1] and rehashIndex
  canRehash,
  lastCall,   \* the last call: its name, its key, what it returned
  status      \* "live"; "cleared" by clear(), "crashed" by following a bad pointer

vars == <<dict, canRehash, lastCall, status>>
-----------------------------------------------------------------------------
(* HashTable *)

Entries == [key : Keys, val : Vals]

NewTable(n) == [size |-> n, slot |-> [i \in 0..(n - 1) |-> {}]]

(* The null pointer.                                                       *)
NULL == NewTable(0)

EntriesOf(t) == UNION {t.slot[i] : i \in 0..(t.size - 1)}
getUsed(t)   == Cardinality(EntriesOf(t))
isEmpty(t)   == \A i \in 0..(t.size - 1) : t.slot[i] = {}

Chain(t, k)     == t.slot[Index(k, t.size)]
hasKey(t, k)    == \E e \in Chain(t, k) : e.key = k
findEntry(t, k) == CHOOSE e \in Chain(t, k) : e.key = k

(* addEntry of a table: refused if hasKey.                                 *)
Put(t, k, v) ==
  IF hasKey(t, k) THEN t
  ELSE [t EXCEPT !.slot[Index(k, t.size)] = @ \cup {[key |-> k, val |-> v]}]

(* deleteEntry of a table.                                                 *)
OthersIn(chain, k) == {e \in chain : e.key # k}
WithoutKey(t, k) ==
  [t EXCEPT !.slot[Index(k, t.size)] = OthersIn(@, k)]

needExpand(t) ==
  IF canResize THEN getUsed(t) > t.size
  ELSE getUsed(t) > t.size * NEED_FORCE_REHASH_RATIO

needShrink(t) ==
  /\ canResize
  /\ t.size > HASH_TABLE_INITIAL_SIZE
  /\ (getUsed(t) * 100) \div t.size < HASHTABLE_MIN_FILL
-----------------------------------------------------------------------------
(* Rehashing: operators on a value d of dict *)

isRehashing(d) == d.index >= 0

(* addEntry for every entry of a chain of the old table.  The mutant takes *)
(* the slot that it had.                                                   *)
SlotInOld(e, t) == Index(e.key, HASH_TABLE_INITIAL_SIZE)
SlotIn(e, t)    == Index(e.key, t.size)

PutAll(t, chain) ==
  [size |-> t.size,
   slot |-> [j \in 0..(t.size - 1) |->
     t.slot[j] \cup {e \in chain : SlotIn(e, t) = j /\ ~hasKey(t, e.key)}]]

(* The old table is done with when it is empty.  The mutant does not reset *)
(* rehashIndex.                                                            *)
FinishedAsIs(d) ==
  IF isEmpty(d.t0) THEN [t0 |-> d.t1, t1 |-> NULL, index |-> d.index] ELSE d
Finished(d) ==
  IF isEmpty(d.t0) THEN [t0 |-> d.t1, t1 |-> NULL, index |-> -1] ELSE d

(* The first chain from rehashIndex on.  The mutant passes one slot over.  *)
IsFirstAfter(d, i) ==
  /\ i \in (d.index + 1)..(d.t0.size - 1)
  /\ d.t0.slot[i] # {}
  /\ \A j \in (d.index + 1)..(i - 1) : d.t0.slot[j] = {}
IsFirst(d, i) ==
  /\ i \in d.index..(d.t0.size - 1)
  /\ d.t0.slot[i] # {}
  /\ \A j \in d.index..(i - 1) : d.t0.slot[j] = {}

MovedFrom(d, i) ==
  [t0    |-> [d.t0 EXCEPT !.slot[i] = {}],
   t1    |-> PutAll(d.t1, d.t0.slot[i]),
   index |-> i + 1]

(* rehashSteps(1)                                                          *)
rehashSteps(d) ==
  IF ~canRehash THEN d
  ELSE IF isEmpty(d.t0) THEN Finished(d)
  ELSE IF \E i \in 0..(d.t0.size - 1) : IsFirst(d, i)
       THEN Finished(MovedFrom(d, CHOOSE i \in 0..(d.t0.size - 1) : IsFirst(d, i)))
       ELSE [d EXCEPT !.index = d.t0.size]

Stepped(d) == IF isRehashing(d) THEN rehashSteps(d) ELSE d

(* A rehash of table t into a new one begins.                              *)
Resized(t, n) == rehashSteps([t0 |-> t, t1 |-> NewTable(n), index |-> 0])

(* addEntry once its step is done; whether it succeeds, and its effect.    *)
IsNew(d, k) == IF isRehashing(d) THEN ~hasKey(d.t1, k) ELSE ~hasKey(d.t0, k)

Inserted(d, k, v) ==
  IF isRehashing(d) THEN [d EXCEPT !.t1 = Put(@, k, v)]
  ELSE LET t == Put(d.t0, k, v)
       IN IF IsNew(d, k) /\ needExpand(t) THEN Resized(t, 2 * t.size)
          ELSE [d EXCEPT !.t0 = t]

(* Bound: the new table of an insertion is one of Sizes.                   *)
HasRoom(d, k, v) ==
  (~isRehashing(d) /\ needExpand(Put(d.t0, k, v))) => 2 * d.t0.size \in Sizes

(* The value that findEntry leads to once its step is done.                *)
ValueIn(d, k) ==
  IF hasKey(d.t0, k) THEN findEntry(d.t0, k).val
  ELSE IF isRehashing(d) /\ hasKey(d.t1, k) THEN findEntry(d.t1, k).val
  ELSE NoVal

(* entry->val = val for that entry.                                        *)
Assigned(d, k, v) ==
  IF hasKey(d.t0, k)
  THEN [d EXCEPT !.t0 = Put(WithoutKey(@, k), k, v)]
  ELSE [d EXCEPT !.t1 = Put(WithoutKey(@, k), k, v)]
-----------------------------------------------------------------------------
Answer(op, k, out) == [op |-> op, key |-> k, out |-> out]
NoAnswer == Answer("none", NoVal, "done")

Init ==
  /\ dict = [t0 |-> NewTable(HASH_TABLE_INITIAL_SIZE), t1 |-> NULL, index |-> -1]
  /\ canRehash = TRUE
  /\ lastCall = NoAnswer
  /\ status = "live"

(* The keys that callers insert.                                           *)
MayInsert(k) ==
  ReinsertsOld \/ (isRehashing(dict) => ~hasKey(dict.t0, k))

addEntry(k, v) ==
  LET d == Stepped(dict)
  IN /\ status = "live"
     /\ MayInsert(k)
     /\ HasRoom(d, k, v)
     /\ dict' = Inserted(d, k, v)
     /\ lastCall' = Answer("add", k, IF IsNew(d, k) THEN "done" ELSE "refused")
     /\ UNCHANGED <<canRehash, status>>

(* replace: its own step, then addEntry, then findEntry.                   *)
replace(k, v) ==
  LET d == Stepped(Stepped(dict))
  IN /\ status = "live"
     /\ MayInsert(k)
     /\ HasRoom(d, k, v)
     /\ dict' = IF IsNew(d, k) THEN Inserted(d, k, v)
                ELSE Assigned(Stepped(d), k, v)
     /\ lastCall' = Answer("replace", k, "done")
     /\ UNCHANGED <<canRehash, status>>

(* findEntry makes one step, fetchValue two.                               *)
Found(d, k) ==
  /\ status = "live"
  /\ dict' = d
  /\ lastCall' = Answer("find", k, ValueIn(d, k))
  /\ UNCHANGED <<canRehash, status>>

find(k)       == Found(Stepped(dict), k)
fetchValue(k) == Found(Stepped(Stepped(dict)), k)

(* deleteEntry: from the old table, which may shrink; or from the new one. *)
(* The mutant does not look there.                                         *)
DeletedFromOld(d, k) ==
  IF hasKey(d.t0, k) THEN [d EXCEPT !.t0 = WithoutKey(@, k)] ELSE d
Deleted(d, k) ==
  LET t == WithoutKey(d.t0, k)
  IN IF hasKey(d.t0, k)
     THEN IF ~isRehashing(d) /\ needShrink(t) THEN Resized(t, t.size \div 2)
          ELSE [d EXCEPT !.t0 = t]
     ELSE IF isRehashing(d) THEN [d EXCEPT !.t1 = WithoutKey(@, k)]
     ELSE d

deleteEntry(k) ==
  LET d == Stepped(dict)
  IN /\ status = "live"
     /\ dict' = Deleted(d, k)
     /\ lastCall' = Answer("delete", k, IF ValueIn(d, k) = NoVal THEN "refused" ELSE "done")
     /\ UNCHANGED <<canRehash, status>>

(* getRandomEntry.  It draws a slot of the old table from rehashIndex on   *)
(* or a slot of the new one other than the first, until it has found a     *)
(* chain.  Slot size of the old table is drawn, too, and lies outside it;  *)
(* and when its step was the last one, there is no new table.              *)
Drawn(d) ==
  IF isRehashing(d)
  THEN (UNION {d.t0.slot[i] : i \in d.index..(d.t0.size - 1)})
         \cup (UNION {d.t1.slot[i] : i \in 1..(d.t1.size - 1)})
  ELSE EntriesOf(d.t0)

getRandomEntry ==
  /\ status = "live"
  /\ IF EntriesOf(dict.t0) \cup EntriesOf(dict.t1) = {}
     THEN /\ lastCall' = Answer("random", NoVal, "done")
          /\ UNCHANGED <<dict, status>>
     ELSE LET d == Stepped(dict)
          IN /\ dict' = d
             /\ \/ /\ isRehashing(dict)
                   /\ status' = "crashed"
                   /\ lastCall' = NoAnswer
                \/ /\ isRehashing(dict) => isRehashing(d)
                   /\ \E e \in Drawn(d) : lastCall' = Answer("random", e.key, "done")
                   /\ UNCHANGED status
  /\ UNCHANGED canRehash

(* expand(size), where nextPower(size) is n.                               *)
Expandable(n) ==
  /\ ~isRehashing(dict)
  /\ n >= getUsed(dict.t0)
  /\ n # dict.t0.size

ExpandTo(n) ==
  dict' = IF Expandable(n) THEN Resized(dict.t0, n) ELSE dict

expand(n) ==
  /\ status = "live"
  /\ ExpandTo(n)
  /\ lastCall' = NoAnswer
  /\ UNCHANGED <<canRehash, status>>

(* shrinkToMinSize, shrinkToNextPower and tryShrink, which differ in their *)
(* guards; nextPower of the minimal size is n.  They have no return        *)
(* statement on the way where they work.                                   *)
nextPower(n, minimal) ==
  /\ n >= minimal
  /\ \A m \in Sizes : m >= minimal => n <= m

shrink(n) ==
  /\ status = "live"
  /\ IF isRehashing(dict) \/ ~canResize
     THEN UNCHANGED <<dict, status>>
     ELSE /\ nextPower(n, getUsed(dict.t0))
          /\ ExpandTo(n)
          /\ status' \in {"live", "crashed"}
  /\ lastCall' = NoAnswer
  /\ UNCHANGED canRehash

setCanRehash(b) ==
  /\ status = "live"
  /\ canRehash' = b
  /\ lastCall' = NoAnswer
  /\ UNCHANGED <<dict, status>>

(* clear: the tables keep pointers to the deleted entries, and there may   *)
(* be no second table to clear.  What they hold afterwards is not modelled. *)
clear ==
  /\ status = "live"
  /\ status' = IF isRehashing(dict) THEN "cleared" ELSE "crashed"
  /\ lastCall' = NoAnswer
  /\ UNCHANGED <<dict, canRehash>>

Next ==
  \/ \E k \in Keys, v \in Vals : addEntry(k, v) \/ replace(k, v)
  \/ \E k \in Keys : find(k) \/ fetchValue(k) \/ deleteEntry(k)
  \/ getRandomEntry
  \/ \E n \in Sizes : expand(n) \/ shrink(n)
  \/ \E b \in BOOLEAN : setCanRehash(b)
  \/ clear

Spec == Init /\ [][Next]_vars
-----------------------------------------------------------------------------
(* Properties *)

IsTable(t) ==
  /\ t = [size |-> t.size, slot |-> t.slot]
  /\ t.size \in Sizes
  /\ t.slot \in [0..(t.size - 1) -> SUBSET Entries]

Shape(d) ==
  /\ d = [t0 |-> d.t0, t1 |-> d.t1, index |-> d.index]
  /\ IsTable(d.t0)
  /\ IF isRehashing(d) THEN IsTable(d.t1) /\ d.index \in 0..d.t0.size
     ELSE d.t1 = NULL /\ d.index = -1

(* Type invariant: two tables of a legal size, the second one null unless  *)
(* it is being filled.                                                     *)
TypeOK ==
  /\ Shape(dict)
  /\ canRehash \in BOOLEAN
  /\ status \in {"live", "cleared", "crashed"}

(* Whatever was moved, inserted and deleted, and at which size: an entry   *)
(* lies in the chain where findEntry looks for its key, and no table holds *)
(* a key twice.                                                            *)
SlotsSound(t) ==
  \A i \in 0..(t.size - 1) : \A e \in t.slot[i] :
    /\ Index(e.key, t.size) = i
    /\ \A f \in t.slot[i] : e.key = f.key => e = f

EntriesWhereFound == SlotsSound(dict.t0) /\ SlotsSound(dict.t1)

(* While the entries move, nothing is left behind rehashIndex, so that the *)
(* step that passes the last chain also ends the rehash.                   *)
Swept(d) == \A i \in 0..(d.t0.size - 1) : i < d.index => d.t0.slot[i] = {}

NothingLeftBehind == Swept(dict)

(* So at every moment of a rehash an entry is where calls look for it: no  *)
(* step hides one by moving it, passing over it or ending too early.       *)
NoEntryHidden == EntriesWhereFound /\ NothingLeftBehind

(* The callers cannot tell that there is more than a map: no step of a     *)
(* rehash, resize or interleaved deletion loses, revives or changes a      *)
(* value.  It holds when they do not insert what the old table holds.      *)
Map == INSTANCE KeyMap WITH map <- [k \in Keys |-> ValueIn(dict, k)]
ImplementsMap == Map!Spec

(* Dict.cpp:190 says of addEntry in replace that, if it succeeds, the key  *)
(* was not there before.                                                   *)
AddedOnlyIfAbsent ==
  [][\A k \in Keys : lastCall' = Answer("add", k, "done") => ValueIn(dict, k) = NoVal]_vars
=============================================================================
