-------------------------------- MODULE KeyMap --------------------------------
(***************************************************************************)
(* What Dict (datastructure/dict/Dict.h) promises its callers: a map from  *)
(* keys to values, and an answer to each call that depends on nothing but  *)
(* the map.  There are no tables here, and nothing is rehashed.            *)
(***************************************************************************)
CONSTANTS Keys, Vals, NoVal

VARIABLES
  map,     \* the value of each key, NoVal if it has none
  lastCall \* the last call: its name, its key, what it returned

Answer(op, k, out) == [op |-> op, key |-> k, out |-> out]
NoAnswer == Answer("none", NoVal, "done")

Init ==
  /\ map = [k \in Keys |-> NoVal]
  /\ lastCall = NoAnswer

(* addEntry: the key must be new.                                          *)
Add(k, v) ==
  IF map[k] = NoVal
  THEN map' = [map EXCEPT ![k] = v] /\ lastCall' = Answer("add", k, "done")
  ELSE lastCall' = Answer("add", k, "refused") /\ UNCHANGED map

(* replace: always succeeds.                                               *)
Replace(k, v) ==
  /\ map' = [map EXCEPT ![k] = v]
  /\ lastCall' = Answer("replace", k, "done")

(* findEntry and fetchValue.                                               *)
Find(k) ==
  /\ lastCall' = Answer("find", k, map[k])
  /\ UNCHANGED map

(* deleteEntry.                                                            *)
Delete(k) ==
  /\ map' = [map EXCEPT ![k] = NoVal]
  /\ lastCall' = Answer("delete", k, IF map[k] = NoVal THEN "refused" ELSE "done")

(* getRandomEntry: a key that is there, or none if there is none.          *)
Random ==
  /\ \E k \in Keys \cup {NoVal} :
       /\ IF k = NoVal THEN \A j \in Keys : map[j] = NoVal ELSE map[k] # NoVal
       /\ lastCall' = Answer("random", k, "done")
  /\ UNCHANGED map

(* Calls that are not about keys.                                          *)
Other ==
  /\ lastCall' = NoAnswer
  /\ UNCHANGED map

Next ==
  \/ Other \/ Random
  \/ \E k \in Keys : Find(k) \/ Delete(k)
  \/ \E k \in Keys, v \in Vals : Add(k, v) \/ Replace(k, v)

Spec == Init /\ [][Next]_<<map, lastCall>>
=============================================================================
