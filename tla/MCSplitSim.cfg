CONSTANTS
  Transporters = {t1, t2}
  NofEvents = 2
  Setups <- MCSetups
  EventSizes <- MCSizes
  Secondaries <- MCSecondaries
  ChannelSize = 2
SPECIFICATION Spec
INVARIANTS DevicesAgree StoredRight
PROPERTIES StoresEveryEvent
CHECK_DEADLOCK FALSE
