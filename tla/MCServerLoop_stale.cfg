CONSTANTS
  Conns = {c1, c2}
  Free = Free
  Own = Own
  MaxFd = 2
  MaxInbox = 1
  MaxBacklog = 2
  MaxSync = 1
  Others = 0
SPECIFICATION Spec
INVARIANT NoStaleHandler
SYMMETRY Symm
