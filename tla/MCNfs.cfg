CONSTANTS
  Keys <- MCKeys
  Capacity = 2
  MaxTime = 3
  Expire_arg = 5
  Uints = 4
  Devices = {0, 1}
  Expiration = 1
  rate = 3
  burst = 4
  SECONDS = 5
  MaxSize = 5
  MaxTicks = 7
  MaxPackets = 3
  MaxBursts = 2
  KeysA <- MCKeysA
  KeysB <- MCKeysB
  hsh_a <- MCHashA
  hsh_b <- MCHashB
  capacity = 2
  MaxClock = 1
SPECIFICATION MCSpec
INVARIANTS
  MCTypeOK
  OpenWhileActive
  TablesCoherent
  CoherentAtLoop
  ExpiresExactly
  
  LossBound
  DoubleMapInSync
PROPERTIES
  PassesSound
  ImplementsMacTable
