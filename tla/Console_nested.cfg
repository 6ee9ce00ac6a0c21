CONSTANT
  MaxSwitches = 2
SPECIFICATION Spec
INVARIANT DroppedWhenSwitched
CHECK_DEADLOCK FALSE
