\* A server that refuses the connection.
CONSTANTS
  u = u
  s = s
  p1 = p1
  Names = {u, s}
  Oversize = {}
  Stranger = s
  Contents = {p1}
  Addresses = {"nobody"}
  Others <- Chatter
  MaxOthers = 0
  MaxClicks = 1
  Trouble = {}
SPECIFICATION FairSpec
CHECK_DEADLOCK FALSE
PROPERTY EverySendEnds
