CONSTANTS
  kbd = kbd mouse = mouse surface = surface trackpad = trackpad
  btn = btn fkey = fkey CONTACT = CONTACT SBTN = SBTN
  LALT = alt LCTRL = alt TAB = TAB ESCAPE = ESCAPE
  VtKeys = {fkey}
  NoClient = NoClient NoDevice = NoDevice NoId = NoId
  c1 = c1 c2 = c2
  Clients = {c1, c2}
  Devices = {kbd, mouse, surface, trackpad}
  Plugs <- Plugged
  Codes <- Hotkeys
  Reports <- OtherEvents
  Touches <- OtherHeld
  Resets <- Releases
  Repeating = {alt, TAB, ESCAPE, fkey}
  Slots = {0, 1, 2} MaxContacts = 2 MaxTouches = 2
  MaxQueue = 2 EV_BUF = 4
  MaxKeys = 3 MaxSurface = 3 MaxPad = 4
  MaxTyped <- Typing
  Removable = {kbd}
  MaxSwitches = 1
SPECIFICATION InputSpec
CONSTRAINT OneTold
CHECK_DEADLOCK FALSE
INVARIANTS
  InputTypeOK
  HeldKeysAreDown
  SwitchKeysStayBehind
  NoGhostTouch
  ContactIsSlot
  NoStuckButton
