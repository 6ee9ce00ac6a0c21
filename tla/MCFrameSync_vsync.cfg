CONSTANTS
  Clients = {c1, c2}
  Width = 1
  Height = 1
  Align = 1
  Slots = 1
  Strokes = {}
  Updates <- OnePixel
  FlagSets <- VsyncFlags
  MaxChan = 1
  MaxOut = 1
  MaxVblanks = 1
SPECIFICATION FairSpec
PROPERTY VsyncIsAcked
CONSTRAINT NoneLost
