SPECIFICATION SentinelViewSpec
CONSTANTS
  Masters = {m1, m2}
  Runids = {r1, r2}
  Addrs = {a1, a2}
  FirstAddr = a1
  FirstEpochs = {0}
  MaxEpoch = 2
  MaxLinks = 1
PROPERTIES NewerConfigTaken
CHECK_DEADLOCK FALSE
