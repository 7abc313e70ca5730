------------------------------- MODULE DictScan -------------------------------
(***************************************************************************)
(* Dict::dictScan (datastructure/dict/Dict.cpp 235-317): a cursor walks    *)
(* the slots in the order of their reversed bits, so that the caller keeps *)
(* nothing but the cursor between two steps.  The size of a table is no    *)
(* power of two, 20, 40 and so on, and its mask, size - 1, has gaps: a     *)
(* number is the set of its bits here, and a slot is a part of the mask.   *)
(* No entry moves during the scan; Dict has the moves.                     *)
(***************************************************************************)
EXTENDS Integers

CONSTANTS
  Width,   \* the bits of a number: 32
  Tables   \* the sizes of ht[0] and, or 0, of ht[1]

ASSUME DictScanAssumption ==
  /\ Width \in Nat \ {0}
  /\ Tables \subseteq (Nat \ {0}) \X Nat

VARIABLES
  sizes,    \* the sizes of the smaller table, and of the other one or 0
  cursor,
  visits,   \* history: how often each slot of each table was scanned
  broken,   \* history: scanProc returned -1
  scan      \* "going", "ended", or "outside" of a table

scanVars == <<sizes, cursor, visits, broken, scan>>

(* The places of the bits, of which the mask of a table has some; a slot   *)
(* lies outside of a table when it is a larger number than its mask.       *)
Bits        == 0..(Width - 1)
Mask(size)  == {b \in Bits : ((size - 1) \div 2^b) % 2 = 1}
Slots(size) == IF size = 0 THEN {} ELSE SUBSET Mask(size)

OutOfTable(slot, size) == \E b \in slot \ Mask(size) : \A c \in Mask(size) \ slot : c < b

(* With two tables the smaller one comes first.                            *)
DictScanInit ==
  /\ \E t \in Tables : sizes = IF t[2] # 0 /\ t[2] < t[1] THEN <<t[2], t[1]>> ELSE t
  /\ cursor = {}
  /\ visits = [i \in {1, 2} |-> [slot \in Slots(sizes[i]) |-> 0]]
  /\ broken = FALSE /\ scan = "going"
-----------------------------------------------------------------------------
(* revBits, 1 more, and revBits: the highest bit that is not set is set,   *)
(* and the ones above it are cleared.                                      *)
IncrementHigh(bits) ==
  LET unset == Bits \ bits
      high  == CHOOSE b \in unset : \A c \in unset : b >= c
  IN IF unset = {} THEN {} ELSE {b \in bits : b < high} \cup {high}

(* The bits outside of the mask are set before. Mutant: they are not.      *)
Unmasked(c, size)   == IncrementHigh(c)
NextCursor(c, size) == IncrementHigh(c \cup (Bits \ Mask(size)))

(* The slots that one step scans in each table. For two tables the second  *)
(* slot of the larger one has all the bits of which the masks differ.      *)
Scanned ==
  LET first == cursor \cap Mask(sizes[1])
      other == cursor \cap Mask(sizes[2])
      twin  == other \cup (Mask(sizes[1]) \ Mask(sizes[2])) \cup (Mask(sizes[2]) \ Mask(sizes[1]))
  IN IF sizes[2] = 0 THEN <<{first}, {}>> ELSE <<{first}, {other, twin}>>

(* dictScanOneStep in the loop of dictScan. -1 becomes the unsigned cursor *)
(* of all ones, which is not <= 0: the loop goes on from there.            *)
dictScanOneStep ==
  /\ scan = "going"
  /\ IF \E i \in {1, 2} : \E slot \in Scanned[i] : OutOfTable(slot, sizes[i])
     THEN scan' = "outside" /\ UNCHANGED <<cursor, visits, broken>>
     ELSE /\ visits' = [i \in {1, 2} |-> [slot \in Slots(sizes[i]) |->
                          visits[i][slot] + (IF slot \in Scanned[i] THEN 1 ELSE 0)]]
          /\ \/ cursor' = NextCursor(cursor, sizes[1]) /\ UNCHANGED broken
             \/ ~broken /\ cursor' = Bits /\ broken' = TRUE
          /\ scan' = IF cursor' = {} THEN "ended" ELSE "going"
  /\ UNCHANGED sizes

DictScanNext == dictScanOneStep

DictScanSpec == DictScanInit /\ [][DictScanNext]_scanVars
-----------------------------------------------------------------------------
DictScanTypeOK ==
  /\ sizes \in Nat \X Nat /\ cursor \in SUBSET Bits
  /\ \A i \in {1, 2} : visits[i] \in [Slots(sizes[i]) -> Nat]
  /\ broken \in BOOLEAN /\ scan \in {"going", "ended", "outside"}

(* Until a scan ends it has scanned no slot of the smaller table twice,    *)
(* and at its end each one once, although the mask has gaps; and with one  *)
(* table it does end.  (With two tables Dict.cpp:285 makes the number of a *)
(* slot of the larger one that may lie outside of it; where it does not,   *)
(* slots of that table are missed.)                                        *)
EachSlotOnce ==
  ~broken =>
    /\ sizes[2] = 0 => scan # "outside"
    /\ \A slot \in Slots(sizes[1]) :
         /\ visits[1][slot] <= 1
         /\ scan = "ended" => visits[1][slot] = 1
=============================================================================
