--------------------------- MODULE MCInputDevices ---------------------------
EXTENDS InputDevices, TLC

CONSTANTS kbd, mouse, btn, fkey, c1, c2,
  MaxKeys, MaxSurface, MaxPad   \* events or reports of a behaviour

\* A keyboard with the keys the server acts upon and a mouse with one button,
\* or a surface, or a trackpad.
Plugged == {{kbd, mouse}, {surface}, {trackpad}}
Hotkeys == [d \in Devices |-> CASE d = kbd   -> {LALT, LCTRL, TAB, ESCAPE, fkey}
                                [] d = mouse -> {btn}
                                [] OTHER     -> {}]
Typing  == [d \in Devices |-> CASE d = surface  -> MaxSurface
                                [] d = trackpad -> MaxPad
                                [] OTHER        -> MaxKeys]
OtherEvents == SurfaceEvent \cup PadEvent
OtherHeld   == Contacts \cup {CONTACT, SBTN}

\* c1 does what spr16.h asks for, c2 what sporg does.
Releases == [c \in Clients |-> IF c = c1 THEN Code \cup OtherHeld ELSE {LALT, LCTRL}]

\* Nothing is promised to a client that a write failed to, or that was not told
\* of a flush, until its next RESET.  Followed is what happens while this is so
\* of one client at most.
OneTold == lost \cup untold # Clients
=============================================================================
