CONSTANT
  MaxSwitches = 2
SPECIFICATION FairSpec
INVARIANTS
  TerminalRestored
PROPERTIES
  HandsOverQuietly
  VtIsGivenUp
  StopIsObeyed
CHECK_DEADLOCK FALSE
