CONSTANTS
  ModeLists <- AnyList
  Replugged <- AfterPlug
  Requests <- Asked
  MAX_MODES = 3
  MaxModes = 3
  MaxHotplugs = 1
  Nodes = {kbd, combo, gaming, mouse, pad}
  kbd = kbd
  combo = combo
  gaming = gaming
  mouse = mouse
  pad = pad
  NoNode = NoNode
  Caps <- SomeCaps
  Environs <- SomeEnvirons
  UINT8_MAX = 2
  MaxUnplugged = 1
SPECIFICATION StartupSpec
INVARIANTS
  FailureReleases
  LargestModePicked
  ShownIsOffered
  HandlersHaveDevices
  RolesMatchClass
  BestCandidatePicked
CONSTRAINT OneScreen
CHECK_DEADLOCK FALSE
