\* Two connections that may vanish at any moment, one name both may claim.
CONSTANTS
  c1 = c1
  c2 = c2
  n1 = n1
  p1 = p1
  Conns = {c1, c2}
  Names = {n1}
  Contents = {p1}
  Oversize = {}
  Sends <- WellFormed
  MaxSends = 2
  SendBuf = 1
  MaxFds = 2
  MaxLines = 1
  MaxParts = 0
  Trouble = {"leave", "reset"}
SPECIFICATION Spec
SYMMETRY Symmetry
INVARIANTS
  TypeOK
  RegistriesAgree
  NoGap
  CaughtUp
  LoginOnce
  ExitHangsUp
  StaysUp
PROPERTY RoomSpec
