-------------------------------- MODULE Fifo --------------------------------
(***************************************************************************)
(* What one direction of a connection promises: messages are handled       *)
(* whole, once, and in the order they were written.  A message is known by *)
(* the position of its first byte in all that was ever written.            *)
(***************************************************************************)
EXTENDS Naturals

VARIABLES
  starts,  \* the size of the message that begins at each position
  end,     \* bytes written
  next     \* position of the first message not handled yet

vars == <<starts, end, next>>

Init == starts = <<>> /\ end = 0 /\ next = 0

Write ==
  /\ end' > end
  /\ starts' = [p \in DOMAIN starts \cup {end} |-> IF p = end THEN end' - end ELSE starts[p]]
  /\ UNCHANGED next

Handle ==
  /\ next \in DOMAIN starts
  /\ next' = next + starts[next]
  /\ UNCHANGED <<starts, end>>

Spec == Init /\ [][Write \/ Handle]_vars
=============================================================================
