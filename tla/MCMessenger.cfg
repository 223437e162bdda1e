\* Two clients that click once each; the second uses the name of the first, or another.
CONSTANTS
  u = u
  v = v
  p1 = p1
  Names = {u, v}
  Contents = {p1}
  Oversize = {}
  Conns = {"a", "b"}
  TypedA = {u}
  Addresses = {"server"}
  MaxClicks = 1
  TroubleA = {"lost"}
  TroubleB = {}
SPECIFICATION FairSpec
CHECK_DEADLOCK FALSE
INVARIANTS
  SpeakersWereAnnounced
  OneConversation
PROPERTIES
  ViewSpec
  CatchesUp
