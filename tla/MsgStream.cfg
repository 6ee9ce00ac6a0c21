CONSTANTS
  Sizes = {8, 10, 16}
  Hdr = 4
  MaxLen = 16
  MaxRead = 20
  MaxBytes = 60
SPECIFICATION FairSpec
INVARIANTS
  NeverMisread
PROPERTIES
  ImplementsFifo
  AllHandled
CHECK_DEADLOCK FALSE
