SPECIFICATION Spec
CONSTANTS
  c1 = c1
  c2 = c2
  r1 = r1
  Programs = {}
  PhKinds = {"ipt", "pf", "nft"}
  Holes <- SomeHoles
  Senders = {c1, c2}
  Leases = {1}
  UidTop = 4
  UidGap = 1
  MaxHoles = 2
  MaxNow = 3
  Requests <- SomeRequests
  HeadLen = 2
  RespLen = 3
  ContLen = 2
  Room = 2
  Extra = 1
  MaxSubs = 1
  MaxConns = 2
  Second = 3
  Interval = 1
  Repeat = 2
  MSearchDelay = 1
  Services <- SomeServices
  Packets <- SomePackets
  MaxRequests = 1
  MaxIntr = 1
  MaxChanges = 2
INVARIANT ListMatchesChain
INVARIANT ActionOnce
INVARIANT WireOrdered
INVARIANT WakesInTime
PROPERTY CleanComplete
PROPERTY ConnectionEnds
PROPERTY NotBeforeTime
PROPERTY AddressTold
PROPERTY QueueDrains
CHECK_DEADLOCK FALSE
