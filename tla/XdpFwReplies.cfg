SPECIFICATION MCSpec
CONSTANTS
  MaxObjects = 3
  MaxKills = 2
  Ips <- MCIps
  Configs <- MCConfigs
  MAX_TARGET_COUNT = 2
  MaxConfigs = 2
  Cores = {c1}
  U32 = 2
  Packets <- MCPackets
  MaxFlows = 2
  FwCores = {f1, f2}
  Tcp = {"t", "b"}
  Udp = {"u", "d"}
  Bypass = {"b"}
  DportOnly = {"d"}
  hash <- MChash
  RING_SIZE = 1
  Reals = {"r1", "r2"}
  Cpus = {k1, k2}
  Caches = {"fallback_cache"}
  Cache <- MCCache
  LRU_SIZE = 1
  ONE_SEC = 1
  LRU_UDP_TIMEOUT = 1
  MAX_CONN_RATE = 1
  MaxNow = 2
  MaxRate = 2
INVARIANT AdmittedPacketsLeave
CHECK_DEADLOCK FALSE
