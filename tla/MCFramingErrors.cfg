\* Two requests of any kind.
CONSTANTS
  n1 = n1
  p1 = p1
  p5 = p5
  p6 = p6
  p7 = p7
  Names = {n1}
  Contents = {p1, p5, p6, p7}
  Oversize = {p6, p7}
  Sends <- Whatever
  Trees <- WrittenAs
  Size <- SizeOf
  Braces <- BracesOf
  Parts <- PartsOf
  MAX_BUFFER_SIZE = 6
  MaxRequests = 2
SPECIFICATION Spec
INVARIANT ErrorsAreVisited
