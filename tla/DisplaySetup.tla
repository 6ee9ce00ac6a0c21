---------------------------- MODULE DisplaySetup ----------------------------
(***************************************************************************)
(* The screen of the server: drm_mode_create, drm_kms_connect_sfb and      *)
(* drm_kms_destroy (platform/linux/drm.c).  The first connector is asked   *)
(* for its modes, the mode closest to the request is looked for, and a     *)
(* buffer of its size is made and shown.                                   *)
(*                                                                         *)
(* Displays are plugged and unplugged between any two ioctls, and any of   *)
(* them may fail.  The card has a connector, an encoder and a CRTC: without *)
(* one the code reads through a NULL pointer.                              *)
(***************************************************************************)
EXTENDS Integers, Sequences

CONSTANTS
  ModeLists,     \* the modes a connector may have: sequences of Mode
  Replugged,     \* of these the ones after a change
  Requests,      \* what the user may ask for
  MAX_MODES,
  MaxHotplugs    \* bound: displays plugged or unplugged

Mode    == [hdisplay : Nat, vdisplay : Nat, vrefresh : Nat]
Request == [width : Nat, height : Nat, refresh : Nat, no_connect : BOOLEAN]

ASSUME DisplayAssumption ==
  /\ ModeLists \subseteq Seq(Mode) /\ Replugged \subseteq ModeLists
  /\ Requests \subseteq Request
  /\ MAX_MODES \in Nat /\ MaxHotplugs \in Nat

VARIABLES
  at,             \* the next step of drm_mode_create, or how it ended
  request,        \* its arguments
  offered,        \* kernel: the modes of the connector
  hotplugs,       \* bound
  count,          \* conn.count_modes of the first ioctl
  modes,          \* the array of the second one
  offer,          \* history: what the connector had when it was read
  i, pick,        \* get_mode_idx, counting from 1; 0 for none
  resources,      \* what is open, allocated or mapped and not given back
  crtc            \* kernel: the mode our framebuffer is shown in, if it is: none or one

outside  == <<request, offered, hotplugs>>
choice   == <<count, modes, offer, i, pick>>
drm_vars == <<at, outside, choice, resources, crtc>>

Zero  == [hdisplay |-> 0, vdisplay |-> 0, vrefresh |-> 0]
Steps == {"open", "set_master", "calloc", "res", "count", "conn", "pick",
          "dumb", "fb", "offset", "map", "sfb", "connect", "live"}
Ends  == {"closed", "given_up", "failed", "destroyed"}

DrmInit ==
  /\ at = "open" /\ request \in Requests
  /\ offered \in ModeLists /\ hotplugs = 0
  /\ count = 0 /\ modes = <<>> /\ offer = <<>> /\ i = 1 /\ pick = 0
  /\ resources = {} /\ crtc = {}

\* A display comes or goes, and with it the modes of the connector.  Once
\* they were read a change is not noticed.
hotplug ==
  /\ at \in {"open", "set_master", "calloc", "res", "count", "conn"}
  /\ hotplugs < MaxHotplugs /\ hotplugs' = hotplugs + 1
  /\ offered' \in Replugged
  /\ UNCHANGED <<at, request, choice, resources, crtc>>

-----------------------------------------------------------------------------

\* What drm_kms_destroy leaves of r: destroy_sfb if there is a buffer, then
\* the resources, the connector, the card and the structure.
destroyed(r) ==
  r \ ({"res", "conn", "card_fd", "self"} \cup
       (IF "sfb" \in r THEN {"map", "fb", "dumb", "sfb"} ELSE {}))

\* err gives back what undone names, and free_err of drm_mode_create the rest.
free_err(undone) == at' = "failed" /\ resources' = destroyed(resources \ undone)

\* A step that allocates what.
step(here, what, next) == at = here /\ at' = next /\ resources' = resources \cup what

\* Until there is a structure drm_mode_create only returns.
drm_mode_create ==
  /\ \/ step("open", {"card_fd"}, "set_master")
     \/ step("set_master", {}, "calloc")
     \/ step("calloc", {"self"}, "res")
     \/ step("res", {"res"}, "count")
     \/ at = "open" /\ at' = "closed" /\ UNCHANGED resources
     \/ at \in {"set_master", "calloc"} /\ at' = "given_up" /\ UNCHANGED resources
     \/ at = "res" /\ free_err({})
  /\ UNCHANGED <<outside, choice, crtc>>

\* alloc_connector.  The first ioctl says how much to allocate.
count_modes ==
  /\ \/ step("count", {}, "conn") /\ count' = Len(offered) /\ count' <= MAX_MODES
     \/ at = "count" /\ free_err({}) /\ UNCHANGED count
  /\ UNCHANGED <<outside, modes, offer, i, pick, crtc>>

\* The second one fills the array if it is large enough, and returns the
\* count of the moment.
GETCONNECTOR ==
  /\ offer' = offered
  /\ modes' = IF count >= Len(offered) THEN offered ELSE [k \in 1 .. count |-> Zero]

\* Mutant: the two counts are not compared.
alloc_connector_unchecked ==
  /\ \/ step("conn", {"conn"}, "pick") /\ GETCONNECTOR
     \/ at = "conn" /\ free_err({}) /\ UNCHANGED <<modes, offer>>
  /\ UNCHANGED <<outside, count, i, pick, crtc>>

alloc_connector ==
  /\ \/ step("conn", {"conn"}, "pick") /\ GETCONNECTOR /\ count = Len(offered)
     \/ at = "conn" /\ free_err({}) /\ UNCHANGED <<modes, offer>>
  /\ UNCHANGED <<outside, count, i, pick, crtc>>

-----------------------------------------------------------------------------
(* get_mode_idx, one mode at a time.                                       *)

limit(n) == IF n = 0 THEN 65535 ELSE n

usable(m) ==
  /\ m.hdisplay <= limit(request.width) /\ m.vdisplay <= limit(request.height)
  /\ m.hdisplay % 16 = 0

same_size(m, p) == m.hdisplay = p.hdisplay /\ m.vdisplay = p.vdisplay
off(m) == IF m.vrefresh < request.refresh THEN request.refresh - m.vrefresh
                                          ELSE m.vrefresh - request.refresh

\* Mutant: a lower mode may be closer in its refresh rate.
better_refresh(m, p) ==
  \/ m.hdisplay > p.hdisplay
  \/ m.hdisplay = p.hdisplay /\ off(m) < off(p)

better(m, p) ==
  \/ m.hdisplay > p.hdisplay
  \/ m.vdisplay > p.vdisplay
  \/ same_size(m, p) /\ off(m) < off(p)

get_mode_idx ==
  /\ at = "pick" /\ i <= Len(modes) /\ i' = i + 1
  /\ pick' = IF usable(modes[i]) /\ (pick = 0 \/ better(modes[i], modes[pick]))
             THEN i ELSE pick
  /\ UNCHANGED <<at, outside, count, modes, offer, resources, crtc>>

\* The end of drm_display_load.
drm_display_load ==
  /\ at = "pick" /\ i > Len(modes)
  /\ IF pick # 0 THEN step("pick", {}, "dumb") ELSE free_err({"conn"})
  /\ UNCHANGED <<outside, choice, crtc>>

-----------------------------------------------------------------------------

\* Mutant: the mapping is forgotten when the structure cannot be allocated.
alloc_sfb_keeps_map ==
  /\ \/ step("dumb", {"dumb"}, "fb") \/ step("fb", {"fb"}, "offset")
     \/ step("offset", {}, "map")    \/ step("map", {"map"}, "sfb")
     \/ step("sfb", {"sfb"}, "connect")
     \/ at = "dumb" /\ free_err({})
     \/ at = "fb" /\ free_err({"dumb"})
     \/ at \in {"offset", "map", "sfb"} /\ free_err({"fb", "dumb"})
  /\ UNCHANGED <<outside, choice, crtc>>

\* alloc_sfb undoes its own steps.
alloc_sfb ==
  /\ \/ step("dumb", {"dumb"}, "fb") \/ step("fb", {"fb"}, "offset")
     \/ step("offset", {}, "map")    \/ step("map", {"map"}, "sfb")
     \/ step("sfb", {"sfb"}, "connect")
     \/ at = "dumb" /\ free_err({})
     \/ at = "fb" /\ free_err({"dumb"})
     \/ at \in {"offset", "map"} /\ free_err({"fb", "dumb"})
     \/ at = "sfb" /\ free_err({"map", "fb", "dumb"})
  /\ UNCHANGED <<outside, choice, crtc>>

\* Shown at once, or when the VT is switched to.
drm_kms_connect_sfb ==
  /\ \/ step("connect", {}, "live")
        /\ crtc' = IF request.no_connect THEN crtc ELSE {modes[pick]}
     \/ at = "connect" /\ ~request.no_connect /\ free_err({}) /\ UNCHANGED crtc
     \/ at = "live" /\ crtc' = {modes[pick]} /\ UNCHANGED <<at, resources>>
  /\ UNCHANGED <<outside, choice>>

\* The session on another VT shows something else.
vt_switched ==
  /\ at = "live" /\ crtc' = {}
  /\ UNCHANGED <<at, outside, choice, resources>>

\* The end of main; the framebuffer goes, and with it what the CRTC shows.
drm_kms_destroy ==
  /\ at = "live" /\ at' = "destroyed"
  /\ resources' = destroyed(resources) /\ crtc' = {}
  /\ UNCHANGED <<outside, choice>>

DrmNext ==
  \/ hotplug \/ vt_switched
  \/ drm_mode_create \/ count_modes \/ alloc_connector
  \/ get_mode_idx \/ drm_display_load
  \/ alloc_sfb \/ drm_kms_connect_sfb \/ drm_kms_destroy

DrmSpec == DrmInit /\ [][DrmNext]_drm_vars

-----------------------------------------------------------------------------

DrmTypeOK ==
  /\ at \in Steps \cup Ends /\ request \in Requests
  /\ offered \in ModeLists /\ hotplugs \in 0 .. MaxHotplugs
  /\ count \in Nat /\ modes \in Seq(Mode) /\ offer \in Seq(Mode)
  /\ i \in 1 .. Len(modes) + 1 /\ pick \in 0 .. i - 1
  /\ resources \subseteq {"card_fd", "self", "res", "conn", "dumb", "fb", "map", "sfb"}
  /\ crtc \subseteq Mode

\* drm.c:450, "TODO test failure resource cleanup": whatever step fails, what
\* the earlier ones made is given back.  Only the descriptor of the card is
\* lost, when drm_mode_create returns without drm_kms_destroy.
FailureReleases ==
  /\ at \in {"closed", "failed", "destroyed"} => resources = {}
  /\ at = "given_up" => resources = {"card_fd"}

\* Modes of which each either holds the other or is held by it.
within(m, p) == m.hdisplay <= p.hdisplay /\ m.vdisplay <= p.vdisplay
nested(n) ==
  \A k, l \in 1 .. n : usable(modes[k]) /\ usable(modes[l]) =>
    within(modes[k], modes[l]) \/ within(modes[l], modes[k])

\* Of the modes before n, p fits the request, and is none only if none fits.
\* If of any two that fit one is within the other, whatever their order, it is
\* the largest and the closest in its refresh rate.
largest(n, p) ==
  LET seen == {k \in 1 .. n - 1 : usable(modes[k])} IN
  /\ p = 0 <=> seen = {}
  /\ p # 0 => p \in seen
  /\ nested(n - 1) => \A k \in seen :
       /\ within(modes[k], modes[p])
       /\ same_size(modes[k], modes[p]) => off(modes[p]) <= off(modes[k])

\* get_mode_idx has at any time picked the largest of the modes it has seen,
\* and of the largest the one closest to the refresh rate asked for.
LargestModePicked == largest(i, pick)

\* What is shown is a mode that the display offered in one piece, of whole
\* groups of 16 pixels and no larger than requested, and the framebuffer
\* behind it is still there.
ShownIsOffered ==
  \A m \in crtc :
    /\ \E k \in 1 .. Len(offer) : offer[k] = m
    /\ usable(m)
    /\ {"card_fd", "sfb", "fb", "map"} \subseteq resources

\* "returns the closest <= match preference on width" (drm.c:615): no mode that
\* fits is at least as large in both directions and larger in one.  Three modes
\* of which the first is larger than the third refute it.
ClosestIsPicked ==
  at = "dumb" => \A k \in 1 .. Len(modes) :
    usable(modes[k]) /\ within(modes[pick], modes[k]) => same_size(modes[k], modes[pick])

=============================================================================
