SPECIFICATION Spec
CONSTANTS
  k1 = k1  k2 = k2  k3 = k3  k4 = k4
  Keys = {k1, k2, k3, k4}
  Vals = {v1, v2}
  NoVal = NoVal
  Sizes = {3, 6}
  Index <- MCIndex
  HASH_TABLE_INITIAL_SIZE = 3
  NEED_FORCE_REHASH_RATIO = 5
  HASHTABLE_MIN_FILL = 10
  canResize = TRUE
  ReinsertsOld = TRUE
PROPERTY AddedOnlyIfAbsent
CHECK_DEADLOCK FALSE
