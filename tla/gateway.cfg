SPECIFICATION FairSpec
CONSTANT MaxData = 2
INVARIANTS
  TypeOK
  InOrderDelivery
  NoDanglingWhileRunning
  NoLeak
  AtMostOneRetired
  NoServiceWithoutDatabase
  EveryReadIsAccounted
PROPERTIES
  CheckedReadDelivers
  ImplementsFeed
  NewDataIsRead
  AwakeManagerStops
  StuckOnlyAsleep
