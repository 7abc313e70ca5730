------------------------------- MODULE MCDict -------------------------------
(* Tables of 3 and 6 slots: as with 20, the mask has a gap, so that some   *)
(* slots are never used and the others hold chains.  Four keys overfill    *)
(* the smaller table.                                                      *)
EXTENDS Dict, TLC
LOCAL INSTANCE Bitwise

CONSTANTS k1, k2, k3, k4

MCHash == k1 :> 0 @@ k2 :> 2 @@ k3 :> 5 @@ k4 :> 7

MCSlots == [k \in Keys, n \in Sizes |-> MCHash[k] & (n - 1)]

MCIndex(k, n) == MCSlots[k, n]
=============================================================================
