\* Any request, pipelined, oversized, in pieces; one descriptor for two connections.
CONSTANTS
  c1 = c1
  c2 = c2
  n1 = n1
  p1 = p1
  pBig = pBig
  Conns = {c1, c2}
  Names = {n1}
  Contents = {p1, pBig}
  Oversize = {pBig}
  Sends <- AnyRequest
  MaxSends = 2
  SendBuf = 1
  MaxFds = 1
  MaxLines = 2
  MaxParts = 1
  Trouble = {"pipeline", "split", "pipe", "eof", "wait"}
SPECIFICATION Spec
SYMMETRY Symmetry
INVARIANTS
  NothingLost
