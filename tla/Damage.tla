------------------------------- MODULE Damage -------------------------------
(***************************************************************************)
(* Damaged regions of a sprite: how the server remembers them              *)
(* (accumulate_dmg, server.c) and which pixels it copies for one of them   *)
(* (copy_to_fb, fb.c).  Regions include both of their bounds.  A row of    *)
(* the framebuffer has fewer than 2^16 bytes, so that the 16-bit byte      *)
(* counts of copy_to_fb do not wrap.                                       *)
(***************************************************************************)
EXTENDS Integers, Sequences

CONSTANTS
  Width, Height,  \* the framebuffer, in pixels
  Align,          \* PIXL_ALIGN: columns are copied in groups of Align
  Slots           \* SPR16_DMG_SLOTS: regions remembered for one client

ASSUME DamageAssumption ==
  {Width, Height, Align, Slots} \subseteq Nat \ {0}

Pixels == (0..(Width - 1)) \X (0..(Height - 1))

Box == [xmin : Nat, ymin : Nat, xmax : Nat, ymax : Nat]

\* The check of spr16_server_sync: what remains is a region.
valid(r) ==
  /\ r.xmax < Width /\ r.ymax < Height
  /\ r.xmin <= r.xmax /\ r.ymin <= r.ymax

Region == {r \in Box : valid(r)}

\* server_sync_fullscreen, for a sprite of the size of the screen.
Full == [xmin |-> 0, ymin |-> 0, xmax |-> Width - 1, ymax |-> Height - 1]

covered(r) == {p \in Pixels : /\ r.xmin <= p[1] /\ p[1] <= r.xmax
                              /\ r.ymin <= p[2] /\ p[2] <= r.ymax}

-----------------------------------------------------------------------------
(* accumulate_dmg: when the slots are used up, the last one grows.         *)

grow(old, r) ==
  [xmin |-> IF r.xmin < old.xmin THEN r.xmin ELSE old.xmin,
   ymin |-> IF r.ymin < old.ymin THEN r.ymin ELSE old.ymin,
   xmax |-> IF r.xmax > old.xmax THEN r.xmax ELSE old.xmax,
   ymax |-> IF r.ymax > old.ymax THEN r.ymax ELSE old.ymax]

\* Mutant: the last slot is replaced instead of grown.
accumulate_dmg_replaces(dmg, r) ==
  IF Len(dmg) < Slots THEN Append(dmg, r)
  ELSE [i \in 1..Len(dmg) |-> IF i = Slots THEN r ELSE dmg[i]]

accumulate_dmg(dmg, r) ==
  IF Len(dmg) < Slots THEN Append(dmg, r)
  ELSE [i \in 1..Len(dmg) |-> IF i = Slots THEN grow(dmg[i], r) ELSE dmg[i]]

damaged(dmg) == UNION {covered(dmg[i]) : i \in DOMAIN dmg}

-----------------------------------------------------------------------------
(* copy_to_fb: the columns are widened to the grid, the rows are not.      *)

x_start(r) == r.xmin - (r.xmin % Align)

\* Mutant: the extent is aligned downwards.
x_extent_down(r) ==
  IF (r.xmax + 1) % Align = 0 THEN r.xmax + 1
  ELSE IF r.xmax + 1 < Align THEN r.xmax + 1 ELSE r.xmax - (r.xmax % Align)

x_extent(r) ==
  LET e == IF (r.xmax + 1) % Align = 0 THEN r.xmax + 1
           ELSE r.xmax + (Align - (r.xmax % Align))
  IN  IF e > Width THEN Width ELSE e

\* Otherwise copy_to_fb returns -1 before it copies anything.
copies(r) == (x_extent(r) - x_start(r)) % Align = 0

blit(r) == {p \in Pixels : /\ x_start(r) <= p[1] /\ p[1] < x_extent(r)
                           /\ r.ymin <= p[2] /\ p[2] <= r.ymax}
=============================================================================
