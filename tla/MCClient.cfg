\* Everything that may happen to one client; a client that has crashed, or whose
\* connection has ended and whose user does nothing more, stops for good.
CONSTANTS
  u = u
  s = s
  p1 = p1
  Names = {u, s}
  Oversize = {}
  Stranger = s
  Contents = {p1}
  Addresses = {"server", "nobody", "unknown"}
  Others <- AnyOther
  MaxOthers = 2
  MaxClicks = 2
  Trouble = {"lost", "split"}
SPECIFICATION FairSpec
CHECK_DEADLOCK FALSE
INVARIANTS
  TypeOK
  RoomFirst
  ScreenInOrder
  ScreenComplete
  TalksLoggedIn
PROPERTIES
  SendsEnd
  RoomOpens
