SPECIFICATION FairSpec
CONSTANTS
  Devices = {d1, d2}
  Clients = {c1, c2}
  NoClient = NoClient
  NoDevice = NoDevice
INVARIANTS TypeOK NothingUnsubscribed OneLoop NoSessionLeft
PROPERTIES EventuallySubscribed ShutdownEnds
