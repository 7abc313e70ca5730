SPECIFICATION MCSpec
CONSTANTS
  \* EventLoop
  SetSize = 3
  Listening <- MCListening
  Periods = {1}
  Second = 2
  StartTime = 1
  MaxTime = 2
  MaxTimerIds = 2
  \* SentinelView
  Masters = {m1, m2}
  Runids = {r1, r2}
  Addrs = {a1, a2}
  FirstAddr = a1
  FirstEpochs = {0}
  MaxEpoch = 2
  MaxLinks = 1
  \* PubSub
  n1 = n1  n2 = n2  sub = sub  uns = uns  psub = psub  puns = puns
  Subscribers = {c1, c2}
  Names = {n1, n2, sub, uns, psub, puns}
  Arguments = {n1, n2}
  Fits <- MCFits
  CommandName <- MCCommandName
  MaxArgc = 3
  MaxPatterns = 3
  \* InstanceLink
  Users = {u1, u2}
  MaxPendingCommands = 1
  PingPeriod = 1
  MaxQueue = 1
  MaxCount = 7
  \* Tilt
  TiltTrigger = 2
  TiltPeriod = 4
  LastTime = 7
  \* InstanceInfo
  Master = m
  Slaves = {s1, s2}
  Peers = {p1, p2, p3}
  Quorums = {1, 2}
  \* RequestParser
  BulkRequests <- MCBulks
  InlineRequests <- MCInlines
  Garbage <- MCGarbage
  MaxRequests = 2
  PROTO_REQ_MULTIBULK_MAX_LEN = 3
  PROTO_REQ_BULK_MAX_LEN = 3
  PROTO_INLINE_MAX_SIZE = 8
  \* SkipList
  SKIP_LIST_MAX_LEVEL = 2
  Scores = {0, 1}
  Objs = {1, 2}
  MaxNodes = 3
  \* DictScan
  Width = 8
  Tables <- MCTables
  \* Dict
  k1 = k1  k2 = k2  k3 = k3  k4 = k4
  Keys = {k1, k2, k3, k4}
  Vals = {v1, v2}
  NoVal = NoVal
  Sizes = {3, 6}
  Index <- MCIndex
  HASH_TABLE_INITIAL_SIZE = 3
  NEED_FORCE_REHASH_RATIO = 5
  HASHTABLE_MIN_FILL = 10
  canResize = TRUE
  ReinsertsOld = FALSE
  \* Sockets
  Sockets = {0, 1, 2, 3}
  MaxFound = 2
  BindAddrs = 3
  SetLimit = 2
  \* SyncIO
  MaxArrived = 3
  MaxSize = 3
  \* GlobMatch
  GlobElements <- MCElements
  GlobNames <- MCNames
  MaxElements = 3
INVARIANTS ComponentsTypeOK SelectWatches TimersServed SentinelsDistinct
           DirectionsAgree ClosedIsSilent FailoverSound PiecesDoNotMatter
           RanksRight EachSlotOnce NoEntryHidden SocketsAccounted AnswersAreTrue MatchesMeaning
PROPERTIES JudgedInCalm ImplementsMap
CHECK_DEADLOCK FALSE
