\* A login answered while login() is still running.
CONSTANTS
  u = u
  s = s
  p1 = p1
  Names = {u, s}
  Oversize = {}
  Stranger = s
  Contents = {p1}
  Addresses = {"server"}
  Others <- Chatter
  MaxOthers = 0
  MaxClicks = 1
  Trouble = {}
SPECIFICATION Spec
CHECK_DEADLOCK FALSE
INVARIANT RoomMeansLoggedIn
