\* Clients that leave while others talk.
CONSTANTS
  c1 = c1
  c2 = c2
  n1 = n1
  p1 = p1
  Conns = {c1, c2}
  Names = {n1}
  Contents = {p1}
  Oversize = {}
  Sends <- WellFormed
  MaxSends = 2
  SendBuf = 1
  MaxFds = 2
  MaxLines = 0
  MaxParts = 0
  Trouble = {"leave"}
SPECIFICATION Spec
INVARIANT WriteReportsErrors
