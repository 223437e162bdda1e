\* Fair scheduling, a terminal on standard input.
CONSTANTS
  c1 = c1
  c2 = c2
  n1 = n1
  p1 = p1
  Conns = {c1, c2}
  Names = {n1}
  Contents = {p1}
  Oversize = {}
  Sends <- WellFormed
  MaxSends = 1
  SendBuf = 1
  MaxFds = 2
  MaxLines = 1
  MaxParts = 0
  Trouble = {"leave"}
SPECIFICATION FairSpec
PROPERTIES
  RequestsServed
  ConnectionsAccepted
  ExitStops
