---------------------------- MODULE StartupProof ----------------------------
(***************************************************************************)
(* Theorems about Startup: the set up of the screen, for all lists of      *)
(* modes, all requests and any number of displays plugged and unplugged,   *)
(* and the loading of the input devices, for all nodes.                    *)
(***************************************************************************)
EXTENDS Startup, SequenceTheorems, TLAPS

\* What drm_mode_create holds before each step.
HeldAt ==
  /\ at \in {"open", "closed", "failed", "destroyed"} => resources = {}
  /\ at \in {"set_master", "calloc", "given_up"} => resources = {"card_fd"}
  /\ at = "res" => resources = {"card_fd", "self"}
  /\ at \in {"count", "conn"} => resources = {"card_fd", "self", "res"}
  /\ at \in {"pick", "dumb"} => resources = {"card_fd", "self", "res", "conn"}
  /\ at = "fb" => resources = {"card_fd", "self", "res", "conn", "dumb"}
  /\ at \in {"offset", "map"} => resources = {"card_fd", "self", "res", "conn", "dumb", "fb"}
  /\ at = "sfb" => resources = {"card_fd", "self", "res", "conn", "dumb", "fb", "map"}
  /\ at \in {"connect", "live"} =>
       resources = {"card_fd", "self", "res", "conn", "dumb", "fb", "map", "sfb"}

\* The search has not begun before the modes are read; then the array holds
\* what the display offered, and from drm_display_load on one of it is picked.
Before   == {"open", "set_master", "calloc", "res", "count", "conn"}
Searched == {"dumb", "fb", "offset", "map", "sfb", "connect", "live"}
ModesRead ==
  /\ modes = offer
  /\ at \in Before => i = 1 /\ pick = 0
  /\ at \in Searched => pick # 0
  /\ crtc # {} => at = "live" /\ crtc = {modes[pick]}

IInv == HeldAt /\ ModesRead /\ LargestModePicked

\* The parts of a request and of a mode are numbers.
LEMMA Fields ==
  ASSUME DrmTypeOK
  PROVE  /\ request.width \in Nat /\ request.height \in Nat /\ request.refresh \in Nat
         /\ \A k \in 1 .. Len(modes) :
              /\ modes[k] \in Mode /\ modes[k].hdisplay \in Nat
              /\ modes[k].vdisplay \in Nat /\ modes[k].vrefresh \in Nat
              /\ off(modes[k]) \in Nat
  <1>1. request \in Request
    BY DisplayAssumption DEF DrmTypeOK
  <1>2. ASSUME NEW k \in 1 .. Len(modes)  PROVE modes[k] \in Mode
    BY ElementOfSeq DEF DrmTypeOK
  <1>. QED  BY <1>1, <1>2 DEF Request, Mode, off

LEMMA DrmTyped ==
  ASSUME DrmTypeOK, ModesRead, [DrmNext]_drm_vars
  PROVE  DrmTypeOK'
  <1>. USE DEF drm_vars, outside, choice, Steps, Ends
  <1>0. /\ \A s \in ModeLists : s \in Seq(Mode) /\ Len(s) \in Nat
        /\ Len(modes) \in Nat
        /\ \A k \in 1 .. Len(modes) : modes[k] \in Mode
    BY DisplayAssumption, LenProperties, Fields DEF DrmTypeOK
  <1>1. CASE hotplug
    BY <1>1, DisplayAssumption DEF hotplug, DrmTypeOK
  <1>2. CASE vt_switched
    BY <1>2 DEF vt_switched, DrmTypeOK
  <1>3. CASE drm_mode_create
    BY <1>3 DEF drm_mode_create, step, free_err, destroyed, DrmTypeOK
  <1>4. CASE count_modes
    BY <1>4, <1>0 DEF count_modes, step, free_err, destroyed, DrmTypeOK
  <1>5. CASE alloc_connector
    <2>1. CASE modes' = modes /\ offer' = offer
      BY <1>5, <2>1 DEF alloc_connector, step, free_err, destroyed, DrmTypeOK
    <2>2. CASE step("conn", {"conn"}, "pick") /\ GETCONNECTOR /\ count = Len(offered)
      <3>1. modes' = offered /\ offer' = offered /\ i = 1 /\ pick = 0
        BY <1>0, <2>2 DEF GETCONNECTOR, step, ModesRead, Before, DrmTypeOK
      <3>. QED  BY <1>0, <1>5, <2>2, <3>1 DEF alloc_connector, step, DrmTypeOK
    <2>. QED  BY <1>5, <2>1, <2>2 DEF alloc_connector
  <1>6. CASE get_mode_idx
    BY <1>6, <1>0 DEF get_mode_idx, DrmTypeOK
  <1>7. CASE drm_display_load
    BY <1>7 DEF drm_display_load, step, free_err, destroyed, DrmTypeOK
  <1>8. CASE alloc_sfb
    BY <1>8 DEF alloc_sfb, step, free_err, destroyed, DrmTypeOK
  <1>9. CASE drm_kms_connect_sfb
    <2>1. at \in {"connect", "live"} /\ modes[pick] \in Mode
      <3>1. at \in {"connect", "live"}
        BY <1>9 DEF drm_kms_connect_sfb, step
      <3>2. pick \in 1 .. Len(modes)
        BY <1>0, <3>1 DEF ModesRead, Searched, DrmTypeOK
      <3>. QED  BY <1>0, <3>1, <3>2
    <2>. QED  BY <1>9, <2>1 DEF drm_kms_connect_sfb, step, free_err, destroyed, DrmTypeOK
  <1>10. CASE drm_kms_destroy
    BY <1>10 DEF drm_kms_destroy, destroyed, DrmTypeOK
  <1>11. CASE UNCHANGED drm_vars
    BY <1>11 DEF DrmTypeOK
  <1>. QED  BY <1>1, <1>2, <1>3, <1>4, <1>5, <1>6, <1>7, <1>8, <1>9, <1>10, <1>11 DEF DrmNext

\* Every step acquires or gives back what HeldAt says.
LEMMA HeldKept ==
  ASSUME DrmTypeOK, HeldAt, ModesRead, [DrmNext]_drm_vars
  PROVE  HeldAt'
  <1>. USE DEF drm_vars, outside, choice, step, free_err, destroyed
  <1>1. CASE hotplug
    BY <1>1 DEF hotplug, HeldAt
  <1>2. CASE vt_switched
    BY <1>2 DEF vt_switched, HeldAt
  <1>3. CASE drm_mode_create
    BY <1>3 DEF drm_mode_create, HeldAt
  <1>4. CASE count_modes
    BY <1>4 DEF count_modes, HeldAt
  <1>5. CASE alloc_connector
    BY <1>5 DEF alloc_connector, HeldAt
  <1>6. CASE get_mode_idx
    BY <1>6 DEF get_mode_idx, HeldAt
  <1>7. CASE drm_display_load
    BY <1>7 DEF drm_display_load, HeldAt
  <1>8. CASE alloc_sfb
    BY <1>8 DEF alloc_sfb, HeldAt
  <1>9. CASE drm_kms_connect_sfb
    BY <1>9 DEF drm_kms_connect_sfb, HeldAt
  <1>10. CASE drm_kms_destroy
    BY <1>10 DEF drm_kms_destroy, HeldAt
  <1>11. CASE UNCHANGED drm_vars
    BY <1>11 DEF HeldAt
  <1>. QED  BY <1>1, <1>2, <1>3, <1>4, <1>5, <1>6, <1>7, <1>8, <1>9, <1>10, <1>11 DEF DrmNext

LEMMA ModesReadKept ==
  ASSUME DrmTypeOK, ModesRead, [DrmNext]_drm_vars
  PROVE  ModesRead'
  <1>. USE DEF drm_vars, outside, choice, step, free_err, Before, Searched
  <1>1. CASE hotplug
    BY <1>1 DEF hotplug, ModesRead
  <1>2. CASE vt_switched
    BY <1>2 DEF vt_switched, ModesRead
  <1>3. CASE drm_mode_create
    BY <1>3 DEF drm_mode_create, ModesRead
  <1>4. CASE count_modes
    BY <1>4 DEF count_modes, ModesRead
  <1>5. CASE alloc_connector
    <2>1. Len(offered) \in Nat
      BY DisplayAssumption, LenProperties DEF DrmTypeOK
    <2>. QED  BY <1>5, <2>1 DEF alloc_connector, GETCONNECTOR, ModesRead
  <1>6. CASE get_mode_idx
    BY <1>6 DEF get_mode_idx, ModesRead
  <1>7. CASE drm_display_load
    BY <1>7 DEF drm_display_load, ModesRead
  <1>8. CASE alloc_sfb
    BY <1>8 DEF alloc_sfb, ModesRead
  <1>9. CASE drm_kms_connect_sfb
    BY <1>9 DEF drm_kms_connect_sfb, ModesRead
  <1>10. CASE drm_kms_destroy
    BY <1>10 DEF drm_kms_destroy, ModesRead
  <1>11. CASE UNCHANGED drm_vars
    BY <1>11 DEF ModesRead
  <1>. QED  BY <1>1, <1>2, <1>3, <1>4, <1>5, <1>6, <1>7, <1>8, <1>9, <1>10, <1>11 DEF DrmNext

\* One round of get_mode_idx.  Of nested modes a better one holds the one picked
\* so far, and with it all that were seen.
LEMMA OneMode ==
  ASSUME DrmTypeOK, largest(i, pick), i <= Len(modes), NEW p,
         p = IF usable(modes[i]) /\ (pick = 0 \/ better(modes[i], modes[pick]))
             THEN i ELSE pick
  PROVE  largest(i + 1, p)
  <1>. DEFINE old == {k \in 1 .. i - 1 : usable(modes[k])}
              new == {k \in 1 .. i : usable(modes[k])}
  <1>1. /\ i \in Nat /\ i >= 1 /\ pick \in 0 .. i - 1 /\ Len(modes) \in Nat
        /\ i + 1 - 1 = i
    BY LenProperties DEF DrmTypeOK
  <1>2. \A k \in 1 .. i : /\ modes[k].hdisplay \in Nat /\ modes[k].vdisplay \in Nat
                         /\ off(modes[k]) \in Nat
    BY <1>1, Fields
  <1>3. new = IF usable(modes[i]) THEN old \cup {i} ELSE old
    BY <1>1
  <1>4. /\ pick = 0 <=> old = {}
        /\ pick # 0 => pick \in old
        /\ nested(i - 1) => \A k \in old :
             /\ within(modes[k], modes[pick])
             /\ same_size(modes[k], modes[pick]) => off(modes[pick]) <= off(modes[k])
    BY DEF largest
  <1>. HIDE DEF old, new
  <1>5. /\ p = 0 <=> new = {}
        /\ p # 0 => p \in new
    <2>1. CASE usable(modes[i]) /\ (pick = 0 \/ better(modes[i], modes[pick]))
      <3>1. p = i /\ i # 0 /\ new = old \cup {i}
        BY <1>1, <1>3, <2>1
      <3>. QED  BY <3>1
    <2>2. CASE ~(usable(modes[i]) /\ (pick = 0 \/ better(modes[i], modes[pick])))
      <3>1. p = pick
        BY <2>2
      <3>2. old \subseteq new /\ (pick = 0 => new = old)
        BY <1>3, <2>2
      <3>. QED  BY <1>4, <3>1, <3>2
    <2>. QED  BY <2>1, <2>2
  <1>6. ASSUME nested(i), NEW k \in new
        PROVE  /\ within(modes[k], modes[p])
               /\ same_size(modes[k], modes[p]) => off(modes[p]) <= off(modes[k])
    <2>1. nested(i - 1)
      BY <1>1, <1>6 DEF nested
    <2>2. k \in 1 .. i /\ p \in 1 .. i /\ usable(modes[k]) /\ usable(modes[p])
      BY <1>1, <1>5, <1>6 DEF new
    <2>3. CASE ~usable(modes[i])
      BY <1>3, <1>4, <2>1, <2>3
    <2>4. CASE usable(modes[i]) /\ pick = 0
      <3>1. p = i /\ k = i
        BY <1>3, <1>4, <1>6, <2>4
      <3>. QED  BY <1>2, <2>2, <3>1 DEF within
    <2>5. CASE usable(modes[i]) /\ pick # 0
      <3>1. /\ pick \in 1 .. i - 1 /\ usable(modes[pick])
            /\ within(modes[i], modes[pick]) \/ within(modes[pick], modes[i])
        BY <1>1, <1>4, <1>6, <2>5 DEF old, nested
      <3>2. k # i => /\ k \in 1 .. i - 1 /\ within(modes[k], modes[pick])
                     /\ same_size(modes[k], modes[pick]) => off(modes[pick]) <= off(modes[k])
        BY <1>1, <1>3, <1>4, <1>6, <2>1, <2>2, <2>5
      <3>3. CASE better(modes[i], modes[pick])
        <4>1. p = i
          BY <2>5, <3>3
        <4>2. /\ within(modes[pick], modes[i])
              /\ same_size(modes[pick], modes[i]) => off(modes[i]) <= off(modes[pick])
          BY <1>1, <1>2, <3>1, <3>3 DEF within, same_size, better
        <4>3. CASE k = i
          <5>1. i \in 1 .. i /\ p = k
            BY <1>1, <4>1, <4>3
          <5>2. modes[k].hdisplay \in Nat /\ modes[k].vdisplay \in Nat /\ off(modes[k]) \in Nat
            BY <1>2, <2>2
          <5>3. /\ modes[k].hdisplay <= modes[k].hdisplay /\ modes[k].vdisplay <= modes[k].vdisplay
                /\ off(modes[k]) <= off(modes[k])
            BY ONLY <5>2
          <5>. QED  BY <5>1, <5>3 DEF within
        <4>4. CASE k # i
          <5>1. within(modes[k], modes[i])
            <6>1. \A a \in {k, pick, i} : modes[a].hdisplay \in Nat /\ modes[a].vdisplay \in Nat
              BY <1>1, <1>2, <2>2, <3>1
            <6>2. within(modes[k], modes[pick]) /\ within(modes[pick], modes[i])
              BY <3>2, <4>2, <4>4
            <6>. QED  BY ONLY <6>1, <6>2 DEF within
          <5>2. ASSUME same_size(modes[k], modes[i])  PROVE off(modes[i]) <= off(modes[k])
            <6>1. same_size(modes[k], modes[pick]) /\ same_size(modes[pick], modes[i])
              <7>1. \A a \in {k, pick, i} : modes[a].hdisplay \in Nat /\ modes[a].vdisplay \in Nat
                BY <1>1, <1>2, <2>2, <3>1
              <7>2. within(modes[k], modes[pick]) /\ within(modes[pick], modes[i])
                BY <3>2, <4>2, <4>4
              <7>. QED  BY ONLY <5>2, <7>1, <7>2 DEF within, same_size
            <6>2. /\ off(modes[i]) \in Nat /\ off(modes[pick]) \in Nat /\ off(modes[k]) \in Nat
              BY <1>1, <1>2, <2>2, <3>1
            <6>3. off(modes[i]) <= off(modes[pick]) /\ off(modes[pick]) <= off(modes[k])
              BY <3>2, <4>2, <4>4, <6>1
            <6>. QED  BY ONLY <6>2, <6>3
          <5>. QED  BY <4>1, <5>1, <5>2
        <4>. QED  BY <4>3, <4>4
      <3>4. CASE ~better(modes[i], modes[pick])
        <4>1. p = pick
          BY <2>5, <3>4
        <4>2. CASE k = i
          BY <1>1, <1>2, <3>1, <3>4, <4>1, <4>2 DEF within, same_size, better
        <4>. QED  BY <3>2, <4>1, <4>2
      <3>. QED  BY <3>3, <3>4
    <2>. QED  BY <2>3, <2>4, <2>5
  <1>. QED  BY <1>1, <1>5, <1>6 DEF largest, new

LEMMA LargestKept ==
  ASSUME DrmTypeOK, ModesRead, LargestModePicked, [DrmNext]_drm_vars
  PROVE  LargestModePicked'
  <1>. USE DEF drm_vars, outside, choice, step, free_err
  <1>1. CASE UNCHANGED <<request, modes, i, pick>>
    BY <1>1 DEF LargestModePicked, largest, nested, within, same_size, off, usable
  <1>2. CASE get_mode_idx
    <2>1. largest(i + 1, pick')
      BY <1>2, OneMode DEF get_mode_idx, LargestModePicked
    <2>2. UNCHANGED <<request, modes>> /\ i' = i + 1
      BY <1>2 DEF get_mode_idx
    <2>. QED  BY <2>1, <2>2 DEF LargestModePicked, largest, nested, within, same_size, off, usable
  <1>3. CASE alloc_connector /\ at = "conn"
    <2>1. i' = 1 /\ pick' = 0 /\ 1 .. 1 - 1 = {}
      BY <1>3 DEF alloc_connector, ModesRead, Before
    <2>. QED  BY <2>1 DEF LargestModePicked, largest
  <1>4. CASE ~get_mode_idx /\ ~alloc_connector
    <2>1. UNCHANGED <<request, modes, i, pick>>
      BY <1>4 DEF DrmNext, hotplug, vt_switched, drm_mode_create, count_modes,
                  drm_display_load, alloc_sfb, drm_kms_connect_sfb, drm_kms_destroy
    <2>. QED  BY <1>1, <2>1
  <1>. QED  BY <1>2, <1>3, <1>4 DEF alloc_connector
-----------------------------------------------------------------------------

LEMMA ScreenInductive == StartupSpec => [](DrmTypeOK /\ IInv)
  <1>1. StartupInit => DrmTypeOK /\ IInv
    <2>. SUFFICES ASSUME DrmInit  PROVE DrmTypeOK /\ IInv
      BY DEF StartupInit
    <2>1. DrmTypeOK
      BY DisplayAssumption, EmptySeq, LenProperties DEF DrmInit, DrmTypeOK, Steps
    <2>2. HeldAt /\ ModesRead
      BY DEF DrmInit, HeldAt, ModesRead, Before, Searched
    <2>3. LargestModePicked
      <3>1. i = 1 /\ pick = 0 /\ 1 .. 1 - 1 = {}
        BY DEF DrmInit
      <3>. QED  BY <3>1 DEF LargestModePicked, largest
    <2>. QED  BY <2>1, <2>2, <2>3 DEF IInv
  <1>2. [StartupNext]_<<drm_vars, scan_vars>> => [DrmNext]_drm_vars
    BY DEF StartupNext
  <1>3. DrmTypeOK /\ IInv /\ [DrmNext]_drm_vars => (DrmTypeOK /\ IInv)'
    BY DrmTyped, HeldKept, ModesReadKept, LargestKept DEF IInv
  <1>. QED  BY <1>1, <1>2, <1>3, PTL DEF StartupSpec

-----------------------------------------------------------------------------
(* The input devices.                                                      *)

\* The counters are ahead of what the devices of the list were given.
Numbered ==
  \A k \in DOMAIN input_devices :
    input_devices[k].fd \in 1 .. opened /\ input_devices[k].device_id \in 1 .. g_new_id

\* A class opens at most one descriptor.
OneEach == doing # "loaded" => opened < dev_class

ScanInv == OneEach /\ Numbered /\ HandlersHaveDevices /\ RolesMatchClass

LEMMA ClassTyped ==
  ASSUME ScanTypeOK
  PROVE  class \in {"KEYBOARD", "MOUSE", "TOUCH"}
  BY DEF ScanTypeOK, class, Classes

\* The list after a device was added and configured: the new one first, with
\* the role of its class, then the others as they were.
LEMMA NewDevice ==
  ASSUME ScanTypeOK, NEW n \in Nodes,
         NEW list, list = configured(add_device(device(n)))
  PROVE  /\ list \in Seq(Device) /\ Len(list) = Len(input_devices) + 1
         /\ DOMAIN list = 1 .. Len(input_devices) + 1
         /\ list[1].fd = opened + 1 /\ list[1].device_id = g_new_id + 1
         /\ list[1].class = class
         /\ list[1].func_hotkey = (class = "KEYBOARD")
         /\ list[1].is_trackpad = (class = "TOUCH" /\ is_trackpad)
         /\ \A k \in 1 .. Len(input_devices) : list[k + 1] = input_devices[k]
  <1>. DEFINE d == device(n)
              s == add_device(d)
              e == [d EXCEPT !.func_hotkey = @ \/ class = "KEYBOARD",
                             !.is_trackpad = @ \/ (class = "TOUCH" /\ is_trackpad)]
  <1>1. /\ input_devices \in Seq(Device) /\ Len(input_devices) \in Nat
        /\ opened \in Nat /\ g_new_id \in Nat /\ is_trackpad \in BOOLEAN
    BY LenProperties, ScanAssumption DEF ScanTypeOK
  <1>2. d \in Device /\ d.fd = opened + 1 /\ d.device_id = g_new_id + 1 /\ d.class = class
        /\ d.func_hotkey = FALSE /\ d.is_trackpad = FALSE
    BY <1>1, ClassTyped DEF device, Device
  <1>3. /\ e \in Device /\ e.fd = opened + 1 /\ e.device_id = g_new_id + 1 /\ e.class = class
        /\ e.func_hotkey = (class = "KEYBOARD")
        /\ e.is_trackpad = (class = "TOUCH" /\ is_trackpad)
    BY <1>1, <1>2 DEF Device
  <1>4. /\ s \in Seq(Device) /\ Len(s) = Len(input_devices) + 1
        /\ s[1] = d /\ \A k \in 1 .. Len(input_devices) : s[k + 1] = input_devices[k]
    <2>1. <<d>> \in Seq(Device) /\ Len(<<d>>) = 1 /\ <<d>>[1] = d
      BY <1>2
    <2>2. /\ s \in Seq(Device) /\ Len(s) = 1 + Len(input_devices)
          /\ \A k \in 1 .. 1 + Len(input_devices) :
               s[k] = IF k <= 1 THEN <<d>>[k] ELSE input_devices[k - 1]
      BY <1>1, <2>1, ConcatProperties DEF add_device
    <2>. QED  BY <1>1, <2>1, <2>2
  <1>. HIDE DEF d, s, e
  <1>5. DOMAIN s = 1 .. Len(input_devices) + 1 /\ s = [k \in 1 .. Len(input_devices) + 1 |-> s[k]]
    BY <1>1, <1>4, LenProperties
  <1>6. list = [s EXCEPT ![1] = e]
    BY <1>4 DEF configured, s, d, e
  <1>7. /\ list = [k \in 1 .. Len(input_devices) + 1 |-> IF k = 1 THEN e ELSE s[k]]
    BY <1>1, <1>5, <1>6
  <1>8. \A k \in 1 .. Len(input_devices) + 1 : s[k] \in Device
    BY <1>1, <1>4, <1>5, ElementOfSeq
  <1>9. list \in Seq(Device) /\ Len(list) = Len(input_devices) + 1
    BY <1>1, <1>3, <1>7, <1>8, IsASeq, LenProperties
  <1>. QED  BY <1>1, <1>3, <1>4, <1>7, <1>9

\* A class that is over leaves no more than its one descriptor.
LEMMA NextClass ==
  ASSUME ScanTypeOK, OneEach, doing # "loaded", next_class, opened' \in {opened, opened + 1}
  PROVE  /\ doing' \in {"environ", "loaded"} /\ dev_class' \in 1 .. 3 /\ opened' \in 0 .. 3
         /\ OneEach'
  BY DEF ScanTypeOK, OneEach, next_class

LEMMA ScanTyped ==
  ASSUME ScanTypeOK, OneEach, [ScanNext]_scan_vars
  PROVE  ScanTypeOK' /\ OneEach'
  <1>. USE DEF scan_vars, env, scan, devices
  <1>0. class \in {"KEYBOARD", "MOUSE", "TOUCH"} /\ NoProspect \in Prospect
    BY ClassTyped DEF NoProspect, Prospect
  <1>1. CASE \E n \in Nodes : unplug(n)
    BY <1>1 DEF unplug, ScanTypeOK, OneEach
  <1>2. CASE check_environ
    <2>1. environ[dev_class] \in Nodes \cup {NoNode}
      BY ScanAssumption DEF ScanTypeOK
    <2>2. [NoProspect EXCEPT !.path = environ[dev_class]] \in Prospect
      BY <1>0, <2>1 DEF Prospect
    <2>3. <<>> \in Seq(Nodes)
      BY EmptySeq
    <2>. QED  BY <1>2, <2>2, <2>3 DEF check_environ, ScanTypeOK, OneEach
  <1>3. CASE open_node
    BY <1>3 DEF open_node, ScanTypeOK, OneEach
  <1>4. CASE compare_node
    <2>1. devfd \in Nodes /\ Caps[devfd] \in Capability
      BY <1>4, ScanAssumption DEF compare_node, ScanTypeOK
    <2>2. select_prp(devfd) \in Prospect
      BY <1>0, <2>1 DEF select_prp, ScanTypeOK, Prospect, Capability
    <2>3. Append(tried, devfd) \in Seq(Nodes)
      BY <2>1, AppendProperties DEF ScanTypeOK
    <2>. QED  BY <1>4, <2>2, <2>3 DEF compare_node, ScanTypeOK, OneEach
  <1>5. CASE err_close
    BY <1>5, NextClass DEF err_close, ScanTypeOK
  <1>6. CASE end_of_scan
    BY <1>6, NextClass DEF end_of_scan, ScanTypeOK, OneEach
  <1>7. CASE evdev_instantiate
    <2>1. g_prospect.path \in Nodes
      BY <1>7 DEF evdev_instantiate, ScanTypeOK
    <2>2. input_devices' \in Seq(Device)
      BY <1>7, <2>1, NewDevice DEF evdev_instantiate
    <2>3. g_new_id' \in 0 .. UINT8_MAX
      BY <1>7, ScanAssumption DEF evdev_instantiate, ScanTypeOK
    <2>4. opened' = opened + 1 /\ watched' = watched \cup {opened + 1}
      BY <1>7 DEF evdev_instantiate
    <2>5. watched' \subseteq 1 .. opened'
      BY <2>4 DEF ScanTypeOK
    <2>6. /\ doing' \in {"environ", "loaded"} /\ dev_class' \in 1 .. 3 /\ opened' \in 0 .. 3
          /\ OneEach'
      BY <1>7, <2>4, NextClass DEF evdev_instantiate
    <2>. QED  BY <1>7, <2>2, <2>3, <2>5, <2>6 DEF evdev_instantiate, ScanTypeOK
  <1>8. CASE instantiate_fails
    <2>1. /\ doing' \in {"environ", "loaded"} /\ dev_class' \in 1 .. 3 /\ opened' \in 0 .. 3
          /\ OneEach'
      BY <1>8, NextClass DEF instantiate_fails
    <2>2. watched' \subseteq 1 .. opened'
      BY <1>8 DEF instantiate_fails, ScanTypeOK
    <2>. QED  BY <1>8, <2>1, <2>2 DEF instantiate_fails, ScanTypeOK
  <1>9. CASE too_many_devices
    <2>1. /\ doing' \in {"environ", "loaded"} /\ dev_class' \in 1 .. 3 /\ opened' \in 0 .. 3
          /\ OneEach'
      BY <1>9, NextClass DEF too_many_devices
    <2>2. watched' \subseteq 1 .. opened'
      BY <1>9 DEF too_many_devices, ScanTypeOK
    <2>. QED  BY <1>9, <2>1, <2>2 DEF too_many_devices, ScanTypeOK
  <1>10. CASE UNCHANGED scan_vars
    BY <1>10 DEF ScanTypeOK, OneEach
  <1>. QED  BY <1>1, <1>2, <1>3, <1>4, <1>5, <1>6, <1>7, <1>8, <1>9, <1>10 DEF ScanNext

\* Only evdev_instantiate changes the list, and the new device comes first.
LEMMA ListKept ==
  ASSUME ScanTypeOK, Numbered, HandlersHaveDevices, RolesMatchClass, [ScanNext]_scan_vars
  PROVE  Numbered' /\ HandlersHaveDevices' /\ RolesMatchClass'
  <1>. USE DEF scan_vars, env, scan, devices
  <1>0. Len(input_devices) \in Nat /\ DOMAIN input_devices = 1 .. Len(input_devices)
    BY LenProperties DEF ScanTypeOK
  <1>1. CASE evdev_instantiate
    <2>. DEFINE list == configured(add_device(device(g_prospect.path)))
                n == Len(input_devices)
    <2>1. /\ input_devices' = list /\ opened' = opened + 1 /\ g_new_id' = g_new_id + 1
          /\ watched' = watched \cup {opened + 1} /\ is_trackpad' = is_trackpad
          /\ opened \in Nat /\ g_new_id \in Nat
      BY <1>1, ScanAssumption DEF evdev_instantiate, ScanTypeOK
    <2>2. g_prospect.path \in Nodes
      BY <1>1 DEF evdev_instantiate, ScanTypeOK
    <2>3. /\ DOMAIN list = 1 .. n + 1
          /\ list[1].fd = opened + 1 /\ list[1].device_id = g_new_id + 1
          /\ list[1].class = class
          /\ list[1].func_hotkey = (class = "KEYBOARD")
          /\ list[1].is_trackpad = (class = "TOUCH" /\ is_trackpad)
          /\ \A k \in 1 .. n : list[k + 1] = input_devices[k]
      BY <2>2, NewDevice
    <2>. HIDE DEF list
    <2>4. \A k \in 1 .. n + 1 : k = 1 \/ (k - 1 \in 1 .. n /\ list[k] = input_devices[k - 1])
      BY <1>0, <2>3
    <2>5. \A k \in 1 .. n : /\ input_devices[k].fd \in 1 .. opened
                            /\ input_devices[k].device_id \in 1 .. g_new_id
      BY <1>0 DEF Numbered
    <2>6. Numbered'
      <3>1. ASSUME NEW k \in 1 .. n + 1
            PROVE  list[k].fd \in 1 .. opened + 1 /\ list[k].device_id \in 1 .. g_new_id + 1
        BY <2>1, <2>3, <2>4, <2>5
      <3>. QED  BY <2>1, <2>3, <3>1 DEF Numbered
    <2>7. watched \cup {opened + 1} = {list[k].fd : k \in 1 .. n + 1}
      <3>1. watched = {input_devices[k].fd : k \in 1 .. n}
        BY <1>0 DEF HandlersHaveDevices
      <3>2. ASSUME NEW k \in 1 .. n + 1  PROVE list[k].fd \in watched \cup {opened + 1}
        BY <2>3, <2>4, <3>1
      <3>3. ASSUME NEW f \in watched  PROVE \E k \in 1 .. n + 1 : list[k].fd = f
        <4>1. PICK k \in 1 .. n : input_devices[k].fd = f
          BY <3>1
        <4>2. k + 1 \in 1 .. n + 1 /\ list[k + 1].fd = f
          BY <1>0, <2>3, <4>1
        <4>. QED  BY <4>2
      <3>4. 1 \in 1 .. n + 1
        BY <1>0
      <3>. QED  BY <2>3, <3>2, <3>3, <3>4
    <2>8. ASSUME NEW k \in 1 .. n + 1, NEW l \in 1 .. n + 1, k # l
          PROVE  list[k].fd # list[l].fd /\ list[k].device_id # list[l].device_id
      <3>1. \A a, b \in 1 .. n : a # b => /\ input_devices[a].fd # input_devices[b].fd
                                          /\ input_devices[a].device_id # input_devices[b].device_id
        BY <1>0 DEF HandlersHaveDevices
      <3>2. CASE k = 1
        <4>1. l - 1 \in 1 .. n /\ list[l] = input_devices[l - 1]
          BY <2>4, <2>8, <3>2
        <4>. QED  BY <2>1, <2>3, <2>5, <3>2, <4>1
      <3>3. CASE l = 1
        <4>1. k - 1 \in 1 .. n /\ list[k] = input_devices[k - 1]
          BY <2>4, <2>8, <3>3
        <4>. QED  BY <2>1, <2>3, <2>5, <3>3, <4>1
      <3>4. CASE k # 1 /\ l # 1
        <4>1. /\ k - 1 \in 1 .. n /\ list[k] = input_devices[k - 1]
              /\ l - 1 \in 1 .. n /\ list[l] = input_devices[l - 1]
              /\ k - 1 # l - 1
          BY <1>0, <2>4, <2>8, <3>4
        <4>. QED  BY <3>1, <4>1
      <3>. QED  BY <3>2, <3>3, <3>4
    <2>9. HandlersHaveDevices'
      <3>1. watched' = watched \cup {opened + 1} /\ input_devices' = list
            /\ DOMAIN list = 1 .. n + 1
        BY <2>1, <2>3
      <3>2. watched' = {input_devices'[k].fd : k \in DOMAIN input_devices'}
        BY <2>7, <3>1
      <3>3. \A k, l \in DOMAIN input_devices' : k # l =>
              /\ input_devices'[k].fd # input_devices'[l].fd
              /\ input_devices'[k].device_id # input_devices'[l].device_id
        BY <2>8, <3>1
      <3>. QED  BY <3>2, <3>3 DEF HandlersHaveDevices
    <2>10. ASSUME NEW k \in 1 .. n + 1
           PROVE  /\ list[k].func_hotkey <=> list[k].class = "KEYBOARD"
                  /\ list[k].is_trackpad <=> list[k].class = "TOUCH" /\ is_trackpad
      <3>1. CASE k = 1
        BY <2>3, <3>1
      <3>2. CASE k # 1
        <4>1. k - 1 \in DOMAIN input_devices /\ list[k] = input_devices[k - 1]
          BY <1>0, <2>4, <3>2
        <4>. QED  BY <4>1 DEF RolesMatchClass
      <3>. QED  BY <3>1, <3>2
    <2>11. RolesMatchClass'
      BY <2>1, <2>3, <2>10 DEF RolesMatchClass
    <2>. QED  BY <2>6, <2>9, <2>11
  <1>2. CASE UNCHANGED <<is_trackpad, input_devices, watched, g_new_id>> /\ opened' \in {opened, opened + 1}
    <2>1. /\ HandlersHaveDevices' /\ RolesMatchClass'
      BY <1>2 DEF HandlersHaveDevices, RolesMatchClass
    <2>2. opened \in Nat
      BY DEF ScanTypeOK
    <2>3. Numbered'
      BY <1>2, <2>2 DEF Numbered
    <2>. QED  BY <2>1, <2>3
  <1>3. CASE too_many_devices
    <2>1. opened + 1 \notin watched
      BY DEF ScanTypeOK
    <2>2. watched' = watched
      BY <1>3, <2>1 DEF too_many_devices
    <2>. QED  BY <1>2, <1>3, <2>2 DEF too_many_devices
  <1>4. CASE ~evdev_instantiate /\ ~too_many_devices
    <2>1. UNCHANGED <<is_trackpad, input_devices, watched, g_new_id>> /\ opened' \in {opened, opened + 1}
      BY <1>4 DEF ScanNext, unplug, check_environ, open_node, compare_node, err_close,
                  end_of_scan, instantiate_fails
    <2>. QED  BY <1>2, <2>1
  <1>. QED  BY <1>1, <1>3, <1>4

LEMMA ScanInductive == StartupSpec => [](ScanTypeOK /\ ScanInv)
  <1>1. StartupInit => ScanTypeOK /\ ScanInv
    <2>. SUFFICES ASSUME ScanInit  PROVE ScanTypeOK /\ ScanInv
      BY DEF StartupInit
    <2>1. NoProspect \in Prospect /\ <<>> \in Seq(Nodes) /\ <<>> \in Seq(Device)
      BY EmptySeq DEF NoProspect, Prospect
    <2>2. ScanTypeOK
      BY <2>1, ScanAssumption DEF ScanInit, ScanTypeOK
    <2>3. DOMAIN input_devices = {} /\ watched = {} /\ opened = 0 /\ dev_class = 1
      BY DEF ScanInit
    <2>. QED  BY <2>2, <2>3 DEF ScanInv, OneEach, Numbered, HandlersHaveDevices, RolesMatchClass
  <1>2. [StartupNext]_<<drm_vars, scan_vars>> => [ScanNext]_scan_vars
    BY DEF StartupNext
  <1>3. ScanTypeOK /\ ScanInv /\ [ScanNext]_scan_vars => (ScanTypeOK /\ ScanInv)'
    BY ScanTyped, ListKept DEF ScanInv
  <1>. QED  BY <1>1, <1>2, <1>3, PTL DEF StartupSpec

-----------------------------------------------------------------------------
(* The choice among the nodes.                                             *)

\* g_prospect holds what was stored of the candidate picked: not its LEDs.
Stored(n) ==
  /\ g_prospect.path = n /\ g_prospect.key = Caps[n].key /\ g_prospect.rel = Caps[n].rel
  /\ g_prospect.surface = (class = "TOUCH")

Searching == environ[dev_class] = NoNode /\ doing \in {"scan", "instantiate"}

BestSoFar ==
  Searching => IF found = {} THEN g_prospect = NoProspect
               ELSE \E p \in found : Stored(tried[p]) /\ best(p)

\* One more node is compared: who was found before keeps its place.
LEMMA OneMoreFound ==
  ASSUME ScanTypeOK, compare_node, NEW n, n = Len(tried) + 1
  PROVE  /\ n \in Nat /\ found \subseteq 1 .. n - 1
         /\ tried'[n] = devfd /\ \A k \in found : tried'[k] = tried[k]
         /\ found' = IF candidate(devfd) THEN found \cup {n} ELSE found
         /\ \A k \in found : able(k)' = able(k)
         /\ able(n)' = Caps[devfd]
  <1>1. /\ devfd \in Nodes /\ tried \in Seq(Nodes) /\ tried' = Append(tried, devfd)
        /\ dev_class' = dev_class
    BY DEF ScanTypeOK, compare_node
  <1>2. /\ n \in Nat \ {0} /\ DOMAIN tried = 1 .. n - 1 /\ DOMAIN tried' = 1 .. n
        /\ \A k \in 1 .. n - 1 : tried'[k] = tried[k]
        /\ tried'[n] = devfd
    BY <1>1, AppendProperties, LenProperties
  <1>3. \A m : candidate(m)' = candidate(m)
    BY <1>1 DEF candidate, class
  <1>4. found' = {k \in 1 .. n : candidate(tried'[k])}
    BY <1>2, <1>3 DEF found
  <1>5. found = {k \in 1 .. n - 1 : candidate(tried[k])}
    BY <1>2 DEF found
  <1>6. found' = IF candidate(devfd) THEN found \cup {n} ELSE found
    BY <1>2, <1>4, <1>5
  <1>. QED  BY <1>2, <1>5, <1>6 DEF able

\* The new candidate is picked, or the one before stays the best.
LEMMA StillBest ==
  ASSUME ScanTypeOK, BestSoFar, compare_node, Searching
  PROVE  IF found' = {} THEN g_prospect' = NoProspect
         ELSE \E p \in found' : Stored(tried[p])' /\ best(p)'
  <1>. DEFINE c == Caps[devfd]
  <1>0. PICK n : n = Len(tried) + 1
    OBVIOUS
  <1>1. /\ devfd \in Nodes /\ c \in Capability /\ class' = class
        /\ class \in {"KEYBOARD", "MOUSE", "TOUCH"}
        /\ g_prospect \in Prospect
        /\ g_prospect' = IF candidate(devfd) /\ more_capable(c, g_prospect)
                         THEN select_prp(devfd) ELSE g_prospect
    BY ClassTyped, ScanAssumption DEF compare_node, ScanTypeOK, class
  <1>2. /\ n \in Nat /\ found \subseteq 1 .. n - 1
        /\ tried'[n] = devfd /\ \A k \in found : tried'[k] = tried[k]
        /\ found' = IF candidate(devfd) THEN found \cup {n} ELSE found
        /\ \A k \in found : able(k)' = able(k)
        /\ able(n)' = c
    BY <1>0, OneMoreFound
  <1>3. \A k \in found : /\ able(k).key \in Nat /\ able(k).rel \in Nat /\ able(k).led \in Nat
    <2>. SUFFICES ASSUME NEW k \in found
                  PROVE  /\ able(k).key \in Nat /\ able(k).rel \in Nat /\ able(k).led \in Nat
      OBVIOUS
    <2>1. tried[k] \in Nodes
      BY ElementOfSeq, LenProperties DEF found, ScanTypeOK
    <2>. QED  BY <2>1, ScanAssumption DEF able, Capability
  <1>4. c.key \in Nat /\ c.rel \in Nat /\ c.led \in Nat /\ c.abs \in Nat /\ c.ff \in Nat
    BY <1>1 DEF Capability
  <1>. HIDE DEF c
  <1>5. CASE ~candidate(devfd)
    <2>1. found' = found /\ g_prospect' = g_prospect
      BY <1>1, <1>2, <1>5
    <2>2. ASSUME NEW p \in found, best(p)  PROVE best(p)'
      BY <1>1, <1>2, <2>1, <2>2 DEF best, after_leds
    <2>3. ASSUME NEW p \in found, Stored(tried[p])  PROVE Stored(tried[p])'
      BY <1>1, <1>2, <2>1, <2>3 DEF Stored
    <2>. QED  BY <2>1, <2>2, <2>3 DEF BestSoFar
  <1>6. CASE candidate(devfd) /\ more_capable(c, g_prospect)
    <2>1. g_prospect' = select_prp(devfd) /\ found' = found \cup {n}
      BY <1>1, <1>2, <1>6
    <2>2. Stored(tried[n])'
      BY <1>1, <1>2, <2>1 DEF Stored, select_prp, Prospect
    <2>3. \A k \in found : after_leds(k)' => after_leds(k) /\ c.led = 0
      BY <1>2, <2>1 DEF after_leds
    <2>4. \A k \in found : (after_leds(k) /\ class = "KEYBOARD") => able(k).key <= g_prospect.key
      BY DEF BestSoFar, best, Stored, able
    <2>5. \A k \in found : (class = "MOUSE" /\ \A l \in found : able(l).key > 0)
                             => /\ g_prospect.key > 0 /\ able(k).rel <= g_prospect.rel
      BY DEF BestSoFar, best, Stored, able
    <2>6. class = "TOUCH" => found = {}
      BY <1>1, <1>6 DEF BestSoFar, Stored, more_capable
    <2>7. g_prospect.key \in Nat /\ g_prospect.rel \in Nat /\ g_prospect.led = 0
      BY <1>1 DEF Prospect
    <2>8. CASE class = "KEYBOARD"
      <3>1. ASSUME NEW k \in found, after_leds(k)'  PROVE able(k)'.key <= c.key
        <4>1. able(k).key <= g_prospect.key /\ c.led = 0
          BY <2>3, <2>4, <2>8, <3>1
        <4>2. c.key >= g_prospect.key
          BY <1>4, <1>6, <2>7, <2>8, <4>1 DEF more_capable
        <4>. QED  BY <1>2, <1>3, <1>4, <2>7, <4>1, <4>2
      <3>2. \A k \in found' : after_leds(k)' => able(k)'.key <= able(n)'.key
        <4>. SUFFICES ASSUME NEW k \in found', after_leds(k)'
                      PROVE  able(k)'.key <= able(n)'.key
          OBVIOUS
        <4>1. CASE k \in found
          BY <1>2, <3>1, <4>1
        <4>2. CASE k = n
          BY <1>2, <1>4, <4>2
        <4>. QED  BY <2>1, <4>1, <4>2
      <3>. QED  BY <1>1, <2>1, <2>2, <2>8, <3>2 DEF best
    <2>9. CASE class = "MOUSE"
      <3>1. ASSUME NEW k \in found, \A l \in found : able(l).key > 0
            PROVE  able(k).rel <= c.rel
        <4>1. g_prospect.key > 0 /\ able(k).rel <= g_prospect.rel
          BY <2>5, <2>9, <3>1
        <4>2. c.rel > g_prospect.rel
          BY <1>6, <2>7, <2>9, <4>1 DEF more_capable
        <4>. QED  BY <1>3, <1>4, <2>7, <4>1, <4>2
      <3>2. (\A k \in found' : able(k)'.key > 0) => \A k \in found' : able(k)'.rel <= able(n)'.rel
        <4>. SUFFICES ASSUME \A l \in found' : able(l)'.key > 0, NEW k \in found'
                      PROVE  able(k)'.rel <= able(n)'.rel
          OBVIOUS
        <4>1. \A l \in found : able(l).key > 0
          BY <1>2, <2>1
        <4>2. CASE k \in found
          BY <1>2, <3>1, <4>1, <4>2
        <4>3. CASE k = n
          BY <1>2, <1>4, <4>3
        <4>. QED  BY <2>1, <4>2, <4>3
      <3>. QED  BY <1>1, <2>1, <2>2, <2>9, <3>2 DEF best
    <2>10. CASE class = "TOUCH"
      <3>1. found' = {n}
        BY <2>1, <2>6, <2>10
      <3>. QED  BY <1>1, <1>2, <2>2, <2>10, <3>1 DEF best
    <2>. QED  BY <1>1, <2>8, <2>9, <2>10
  <1>7. CASE candidate(devfd) /\ ~more_capable(c, g_prospect)
    <2>1. g_prospect' = g_prospect /\ found' = found \cup {n}
      BY <1>1, <1>2, <1>7
    <2>2. g_prospect.key \in Nat /\ g_prospect.rel \in Nat /\ g_prospect.led = 0
      BY <1>1 DEF Prospect
    <2>3. found # {}
      <3>1. class = "KEYBOARD" => c.key > 0
        BY <1>1, <1>7, ScanAssumption DEF candidate, c
      <3>2. more_capable(c, NoProspect)
        BY <1>1, <1>4, <3>1 DEF more_capable, NoProspect
      <3>. QED  BY <1>7, <3>2 DEF BestSoFar
    <2>4. PICK p \in found : Stored(tried[p]) /\ best(p)
      BY <2>3 DEF BestSoFar
    <2>5. Stored(tried[p])'
      BY <1>1, <1>2, <2>1, <2>4 DEF Stored
    <2>6. able(p)' = able(p) /\ able(p).key = g_prospect.key /\ able(p).rel = g_prospect.rel
      BY <1>2, <2>4 DEF Stored, able
    <2>7. CASE class = "KEYBOARD"
      <3>1. c.key <= g_prospect.key
        BY <1>4, <1>7, <2>2, <2>7 DEF more_capable
      <3>2. \A k \in found : after_leds(k)' => after_leds(k)
        BY <1>2, <2>1 DEF after_leds
      <3>3. \A k \in found' : after_leds(k)' => able(k)'.key <= able(p)'.key
        BY <1>2, <2>1, <2>4, <2>6, <2>7, <3>1, <3>2 DEF best
      <3>. QED  BY <1>1, <2>1, <2>5, <2>7, <3>3 DEF best
    <2>8. CASE class = "MOUSE"
      <3>1. c.rel <= g_prospect.rel
        BY <1>4, <1>7, <2>2, <2>8 DEF more_capable
      <3>2. (\A k \in found' : able(k)'.key > 0) => \A k \in found' : able(k)'.rel <= able(p)'.rel
        BY <1>2, <2>1, <2>4, <2>6, <2>8, <3>1 DEF best
      <3>. QED  BY <1>1, <2>1, <2>5, <2>8, <3>2 DEF best
    <2>9. CASE class = "TOUCH"
      <3>1. \A k \in found' : p <= k
        BY <1>2, <2>1, <2>4, <2>9 DEF best
      <3>. QED  BY <1>1, <2>1, <2>5, <2>9, <3>1 DEF best
    <2>. QED  BY <1>1, <2>7, <2>8, <2>9
  <1>. QED  BY <1>5, <1>6, <1>7

LEMMA BestKept ==
  ASSUME ScanTypeOK, BestSoFar, [ScanNext]_scan_vars
  PROVE  BestSoFar'
  <1>. USE DEF scan_vars, env, scan, devices
  <1>1. CASE /\ UNCHANGED <<environ, dev_class, g_prospect, tried>>
             /\ doing' \in {"scan", "instantiate"} => doing \in {"scan", "instantiate"}
    <2>1. found' = found /\ class' = class
      BY <1>1 DEF found, candidate, class
    <2>2. \A p : best(p)' = best(p)
      BY <1>1, <2>1 DEF best, after_leds, able
    <2>. QED  BY <1>1, <2>1, <2>2 DEF BestSoFar, Searching, Stored
  <1>2. CASE check_environ
    <2>1. found' = {}
      BY <1>2 DEF check_environ, found
    <2>2. Searching' => g_prospect' = NoProspect
      BY <1>2 DEF check_environ, Searching, NoProspect
    <2>. QED  BY <2>1, <2>2 DEF BestSoFar
  <1>3. CASE compare_node
    <2>1. Searching' => Searching
      BY <1>3 DEF compare_node, Searching
    <2>. QED  BY <1>3, <2>1, StillBest DEF BestSoFar
  <1>4. CASE next_class
    <2>1. doing' \notin {"scan", "instantiate"}
      BY <1>4 DEF next_class
    <2>. QED  BY <2>1 DEF BestSoFar, Searching
  <1>5. CASE end_of_scan
    BY <1>1, <1>4, <1>5 DEF end_of_scan
  <1>6. CASE open_node \/ UNCHANGED scan_vars \/ \E n \in Nodes : unplug(n)
    BY <1>1, <1>6 DEF open_node, unplug
  <1>7. CASE err_close \/ evdev_instantiate \/ instantiate_fails \/ too_many_devices
    BY <1>4, <1>7 DEF err_close, evdev_instantiate, instantiate_fails, too_many_devices
  <1>. QED  BY <1>2, <1>3, <1>5, <1>6, <1>7 DEF ScanNext

LEMMA BestAlways == StartupSpec => [](ScanTypeOK /\ BestSoFar)
  <1>1. StartupInit => BestSoFar
    BY DEF StartupInit, ScanInit, BestSoFar, Searching
  <1>2. [StartupNext]_<<drm_vars, scan_vars>> => [ScanNext]_scan_vars
    BY DEF StartupNext
  <1>. QED  BY <1>1, <1>2, ScanInductive, BestKept, PTL DEF StartupSpec

-----------------------------------------------------------------------------

\* The variables of the screen and of the devices always have their types.
THEOREM StartupTyped == StartupSpec => []StartupTypeOK
  BY ScreenInductive, ScanInductive, PTL DEF StartupTypeOK

\* Whatever fails while the screen is set up, what was made before is given back.
THEOREM NothingLeaks == StartupSpec => []FailureReleases
  <1>1. IInv => FailureReleases
    BY DEF IInv, HeldAt, FailureReleases
  <1>. QED  BY <1>1, ScreenInductive, PTL

\* However the display lists its nested modes, get_mode_idx picks the largest.
THEOREM LargestIsPicked == StartupSpec => []LargestModePicked
  <1>1. IInv => LargestModePicked
    BY DEF IInv
  <1>. QED  BY <1>1, ScreenInductive, PTL

\* The mode shown is one of those the display offered, whatever was plugged
\* between the two ioctls.
THEOREM OfferedIsShown == StartupSpec => []ShownIsOffered
  <1>1. DrmTypeOK /\ IInv => ShownIsOffered
    <2>. SUFFICES ASSUME DrmTypeOK, IInv, NEW m \in crtc
                  PROVE  /\ \E k \in 1 .. Len(offer) : offer[k] = m
                         /\ usable(m)
                         /\ {"card_fd", "sfb", "fb", "map"} \subseteq resources
      BY DEF ShownIsOffered
    <2>1. at = "live" /\ m = modes[pick] /\ pick # 0 /\ modes = offer
      BY DEF IInv, ModesRead, Searched
    <2>2. usable(modes[pick])
      BY <2>1 DEF IInv, LargestModePicked, largest
    <2>3. pick \in 1 .. Len(offer)
      BY <2>1, LenProperties DEF DrmTypeOK
    <2>4. {"card_fd", "sfb", "fb", "map"} \subseteq resources
      BY <2>1 DEF IInv, HeldAt
    <2>. QED  BY <2>1, <2>2, <2>3, <2>4
  <1>. QED  BY <1>1, ScreenInductive, PTL

\* The event loop calls back for exactly the devices of the list.
THEOREM DevicesAreWatched == StartupSpec => []HandlersHaveDevices
  BY ScanInductive, PTL DEF ScanInv

\* The hotkeys are on the keyboard and the trackpad is the touch device.
THEOREM RolesAreRight == StartupSpec => []RolesMatchClass
  BY ScanInductive, PTL DEF ScanInv

\* Whatever the order of the nodes and whichever go, a candidate is found if
\* there was one, and it is the best by what the code stores.
THEOREM BestIsInstantiated == StartupSpec => []BestCandidatePicked
  <1>1. BestSoFar => BestCandidatePicked
    BY DEF BestSoFar, BestCandidatePicked, Searching, Stored, NoProspect
  <1>. QED  BY <1>1, BestAlways, PTL
=============================================================================
