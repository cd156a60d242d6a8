SPECIFICATION Spec
CONSTANTS
  TopPort = 5
  WordBits = 3
  Hosts <- SomeHosts
  PermLists <- SomeLines
  InUse <- SomeUsed
  NatpmpRequests <- SomeNatpmp
  PcpRequests <- SomePcp
  AnyRequests <- SomeAny
  Listings <- SomeListings
  MinLifetime = 2
  MaxLifetime = 3
  DscpValues <- SomeDscp
  MaxMaps = 2
  Nats <- SomeNats
  Styles <- SomeStyles
  Rounds = 2
  WaitTime = 1
  MaxStray = 1
  MaxStuns = 2
  OctetBits = 2
  Octets = 2
  PortBits = 3
  Tokens <- SomeTokens
  Targets <- SomeTargets
  AskedPorts = {0, 1, 2, 3, 5, 7}
  Blocks = {1, 2, 3}
  TypeOf <- SomeTypes
  Keys = {1, 2, 3}
  Hash <- SomeHash
  TableSize = 2
  TopSize = 3
  ArraySize = 1
  MaxIndex = 1
  MaxRefs = 1
  Builds <- SomeBuilds
  StackSize = 16
  Quantum = 4
  BufSize = 8
  NameLen = 2
  DataLens = {0, 1, 3, 4, 9}
  MaxGrow = 3
INVARIANT ReservedPortDescribed
CHECK_DEADLOCK FALSE
