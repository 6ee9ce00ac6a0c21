CONSTANTS
  Clients = {c1, c2}
  Width = 4
  Height = 1
  Align = 2
  Slots = 1
  Strokes <- MCUpdates
  Updates <- MCUpdates
  FlagSets <- SafetyFlags
  MaxChan = 1
  MaxOut = 1
  MaxVblanks = 1
SPECIFICATION Spec
INVARIANTS
  NoDamageForgotten
PROPERTIES
  AckedIsShown
  FocusOwnsScreen
SYMMETRY Symm
