\* Two sockets and the eventfd over two descriptors besides standard input and the master's.
CONSTANTS
  s1 = s1
  s2 = s2
  Socks = {s1, s2}
  Limit = 4
SPECIFICATION FairSpec
INVARIANT TypeOK
PROPERTIES
  ChoosesAsServer
  KillPreempts
  KillWakes
