---- MODULE MCFrameSync ----
EXTENDS FrameSync, TLC

Columns(a, b) == [xmin |-> a, ymin |-> 0, xmax |-> b, ymax |-> 0]

\* A region across the border of two groups of columns.
MCUpdates == {Columns(1, 2)}

\* What clients ask for in the safety run (the server's own redraws add
\* VBLANK), and in the run about waiting.
SafetyFlags == {{"ASYNC"}}
VsyncFlags  == {{"VBLANK"}}

\* One pixel is enough where only the order of events matters.
OnePixel == {Columns(0, 0)}

\* VsyncIsAcked says nothing once an ack was lost.
NoneLost == "ack" \notin lost

Symm == Permutations(Clients)
====
