---------------------------- MODULE DamageSlots ----------------------------
(***************************************************************************)
(* The damage slots of one client on their own: any valid regions are      *)
(* reported, and now and then the slots are copied and emptied, as         *)
(* FrameSync composes it with clients, clock and terminal.                 *)
(***************************************************************************)
EXTENDS Damage

VARIABLES
  used,      \* client.dmg[0..dmg_count-1]
  reported   \* history: pixels reported since the slots were emptied

slots_vars == <<used, reported>>

SlotsTypeOK == used \in Seq(Region) /\ Len(used) <= Slots /\ reported \subseteq Pixels

SlotsInit == used = <<>> /\ reported = {}

\* The part of spr16_server_sync that remembers the region.
report(r) ==
  /\ valid(r)
  /\ used' = accumulate_dmg(used, r)
  /\ reported' = reported \cup covered(r)

copy_out ==
  /\ \A i \in DOMAIN used : copies(used[i])
  /\ used' = <<>> /\ reported' = {}

\* Regions as they come in a message: any corners, also past the screen.
Corners == [xmin : 0..Width, ymin : 0..Height, xmax : 0..Width, ymax : 0..Height]

SlotsNext == copy_out \/ \E r \in Corners : report(r)

SlotsSpec == SlotsInit /\ [][SlotsNext]_slots_vars

\* What the slots make the card copy includes every pixel that was reported,
\* also after the slots ran out and regions were merged, and although columns
\* are copied in groups (server.c:643-662, fb.c:83-100).
CopyIncludesReported ==
  reported \subseteq UNION {blit(used[i]) : i \in DOMAIN used}

\* On a screen as wide as whole groups of columns no region is refused by
\* copy_to_fb, so that the slots can always be emptied (fb.c:85-103).
SlotsCanBeEmptied ==
  Width % Align = 0 => \A i \in DOMAIN used : copies(used[i])
=============================================================================
