CONSTANTS
  Width = 6
  Height = 2
  Align = 3
  Slots = 2
SPECIFICATION SlotsSpec
INVARIANTS
  CopyIncludesReported
  SlotsCanBeEmptied
