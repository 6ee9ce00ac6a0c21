----------------------------- MODULE DeviceScan -----------------------------
(***************************************************************************)
(* How the server finds its keyboard, mouse and touch device:              *)
(* load_linux_input_drivers (platform/linux/input.c) and what it calls,    *)
(* but for the stdin streams, which the server never asks for              *)
(* (server.c:614).                                                         *)
(*                                                                         *)
(* The nodes of /dev/input come in any order, and may be unplugged between *)
(* any two steps; their ioctls fail from then on.                          *)
(***************************************************************************)
EXTENDS Naturals, Sequences, FiniteSets, SequencesExt

CONSTANTS
  Nodes,         \* /dev/input/event*
  Caps,          \* what each node can do, in the numbers bit_count returns (below)
  Environs,      \* EVDEV_KEYBOARD, EVDEV_MOUSE, EVDEV_TOUCH: a node or NoNode
  NoNode,
  UINT8_MAX,     \* the code loads no more than three devices: its 255 is not reached
  MaxUnplugged   \* bound: nodes that go

\* bit_count shifts an int by up to 63 places (input.c:169): it counts the low bits
\* of a long twice and the high ones hardly.  So its numbers order the nodes, but are
\* not how many keys or axes they have: Caps may be any numbers, and what the
\* properties call more keys or axes is a higher number.
Classes    == <<"KEYBOARD", "MOUSE", "TOUCH">>
Capability == [keyboard : BOOLEAN, surface : BOOLEAN,
               key : Nat, rel : Nat, abs : Nat, led : Nat, ff : Nat]

ASSUME ScanAssumption ==
  /\ Caps \in [Nodes -> Capability] /\ NoNode \notin Nodes
  /\ \A n \in Nodes : Caps[n].keyboard => Caps[n].key > 0   \* possibly_keyboard
  /\ Environs \subseteq [1 .. 3 -> Nodes \cup {NoNode}]
  /\ UINT8_MAX \in Nat /\ MaxUnplugged \in Nat

VARIABLES
  doing,         \* the next step of load_linux_input_drivers
  dev_class,     \* for which of the Classes
  environ,       \* the environment of the server
  is_trackpad,   \* SPR16_TRACKPAD is set in it
  present,       \* kernel: the nodes that are there
  unread,        \* readdir: the nodes to come
  devfd,         \* the node find_most_capable has open
  g_prospect,    \* the best one so far
  tried,         \* history: the nodes compared so far
  opened,        \* descriptors evdev_instantiate has opened, counted from 1
  input_devices, \* the list, newest first
  watched,       \* fdpoll: descriptors with a handler
  g_new_id

env       == <<environ, is_trackpad>>
scan      == <<unread, devfd, g_prospect, tried>>
devices   == <<opened, input_devices, watched, g_new_id>>
scan_vars == <<doing, dev_class, env, present, scan, devices>>

Prospect == [path : Nodes \cup {NoNode}, key : Nat, rel : Nat, abs : Nat, led : {0}, ff : Nat,
             surface : BOOLEAN]

NoProspect ==
  [path |-> NoNode, key |-> 0, rel |-> 0, abs |-> 0, led |-> 0, ff |-> 0, surface |-> FALSE]

ScanInit ==
  /\ doing = "environ" /\ dev_class = 1
  /\ environ \in Environs /\ is_trackpad \in BOOLEAN
  /\ present = Nodes
  /\ unread = {} /\ devfd = NoNode /\ g_prospect = NoProspect /\ tried = <<>>
  /\ opened = 0 /\ input_devices = <<>> /\ watched = {} /\ g_new_id = 0

unplug(n) ==
  /\ n \in present /\ Cardinality(Nodes \ present) < MaxUnplugged
  /\ present' = present \ {n}
  /\ UNCHANGED <<doing, dev_class, env, scan, devices>>

class == Classes[dev_class]

next_class ==
  IF dev_class = 3 THEN doing' = "loaded" /\ UNCHANGED dev_class
                   ELSE doing' = "environ" /\ dev_class' = dev_class + 1

\* A node named by the user is taken without a look at it.
check_environ ==
  /\ doing = "environ"
  /\ g_prospect' = [NoProspect EXCEPT !.path = environ[dev_class]]
  /\ IF environ[dev_class] = NoNode
     THEN doing' = "scan" /\ unread' = present
     ELSE doing' = "instantiate" /\ unread' = {}
  /\ tried' = <<>>
  /\ UNCHANGED <<dev_class, env, present, devfd, devices>>

-----------------------------------------------------------------------------
(* find_most_capable.                                                      *)

\* possibly_keyboard, probably_surface.
candidate(n) ==
  \/ class = "KEYBOARD" /\ Caps[n].keyboard
  \/ class = "MOUSE"    /\ Caps[n].rel >= 2
  \/ class = "TOUCH"    /\ Caps[n].surface

\* A keyboard selected for its LEDs is then compared with itself.
more_capable(c, p) ==
  \/ /\ class = "KEYBOARD"
     /\ \/ c.led > p.led \/ c.key > p.key
        \/ c.key = p.key /\ (c.rel > p.rel \/ c.abs > p.abs \/ c.ff > p.ff)
  \/ class = "MOUSE" /\ (p.key = 0 \/ c.rel > p.rel)
  \/ class = "TOUCH" /\ ~p.surface

\* Mutant: the number of keys is not stored.
select_prp_keyless(n) ==
  [g_prospect EXCEPT !.path = n, !.rel = Caps[n].rel, !.abs = Caps[n].abs,
                     !.ff = Caps[n].ff, !.surface = (class = "TOUCH")]

\* The number of LEDs is not stored.
select_prp(n) ==
  [g_prospect EXCEPT !.path = n, !.key = Caps[n].key, !.rel = Caps[n].rel,
                     !.abs = Caps[n].abs, !.ff = Caps[n].ff, !.surface = (class = "TOUCH")]

\* A node that cannot be opened is passed over.
open_node ==
  /\ doing = "scan" /\ devfd = NoNode
  /\ \E n \in unread :
       unread' = unread \ {n} /\ devfd' = IF n \in present THEN n ELSE NoNode
  /\ UNCHANGED <<doing, dev_class, env, present, g_prospect, tried, devices>>

compare_node ==
  /\ doing = "scan" /\ devfd \in present
  /\ tried' = Append(tried, devfd) /\ devfd' = NoNode
  /\ g_prospect' = IF candidate(devfd) /\ more_capable(Caps[devfd], g_prospect)
                   THEN select_prp(devfd) ELSE g_prospect
  /\ UNCHANGED <<doing, dev_class, env, present, unread, devices>>

\* err_close: one node went while it was open, and nothing is found.
err_close ==
  /\ doing = "scan" /\ devfd \in Nodes \ present
  /\ devfd' = NoNode /\ next_class
  /\ UNCHANGED <<env, present, unread, g_prospect, tried, devices>>

end_of_scan ==
  /\ doing = "scan" /\ devfd = NoNode /\ unread = {}
  /\ IF g_prospect.path = NoNode THEN next_class
     ELSE doing' = "instantiate" /\ UNCHANGED dev_class
  /\ UNCHANGED <<env, present, scan, devices>>

-----------------------------------------------------------------------------
(* evdev_instantiate, and what its caller does to the device it made.      *)

Device == [fd : Nat, device_id : Nat, path : Nodes \cup {NoNode}, class : {"KEYBOARD", "MOUSE", "TOUCH"},
           func_hotkey : BOOLEAN, is_trackpad : BOOLEAN]

device(n) ==
  [fd |-> opened + 1, device_id |-> g_new_id + 1, path |-> n, class |-> class,
   func_hotkey |-> FALSE, is_trackpad |-> FALSE]

\* Mutant: the new device comes last in the list.
add_device_last(d) == Append(input_devices, d)

add_device(d) == <<d>> \o input_devices

\* The caller takes the first device of the list for the new one.
configured(list) ==
  [list EXCEPT ![1].func_hotkey = @ \/ class = "KEYBOARD",
               ![1].is_trackpad = @ \/ (class = "TOUCH" /\ is_trackpad)]

evdev_instantiate ==
  /\ doing = "instantiate" /\ g_prospect.path \in present /\ g_new_id < UINT8_MAX
  /\ opened' = opened + 1
  /\ watched' = watched \cup {opened'}
  /\ g_new_id' = g_new_id + 1
  /\ input_devices' = configured(add_device(device(g_prospect.path)))
  /\ next_class
  /\ UNCHANGED <<env, present, scan>>

\* It cannot be opened; or an ioctl, an allocation or the adding of the handler
\* fails, and the descriptor stays open.
instantiate_fails ==
  /\ doing = "instantiate"
  /\ \/ g_prospect.path \notin present /\ UNCHANGED opened
     \/ g_prospect.path \in present /\ opened' = opened + 1
  /\ next_class
  /\ UNCHANGED <<env, present, scan, input_devices, watched, g_new_id>>

\* Mutant: the handler of the freed device stays.
too_many_devices_watched ==
  /\ doing = "instantiate" /\ g_prospect.path \in present /\ g_new_id >= UINT8_MAX
  /\ opened' = opened + 1
  /\ watched' = watched \cup {opened'}
  /\ next_class
  /\ UNCHANGED <<env, present, scan, input_devices, g_new_id>>

\* add_device fails after the handler was added: it is removed again.
too_many_devices ==
  /\ doing = "instantiate" /\ g_prospect.path \in present /\ g_new_id >= UINT8_MAX
  /\ opened' = opened + 1
  /\ watched' = (watched \cup {opened'}) \ {opened'}
  /\ next_class
  /\ UNCHANGED <<env, present, scan, input_devices, g_new_id>>

ScanNext ==
  \/ \E n \in Nodes : unplug(n)
  \/ check_environ \/ open_node \/ compare_node \/ err_close \/ end_of_scan
  \/ evdev_instantiate \/ instantiate_fails \/ too_many_devices

-----------------------------------------------------------------------------

ScanTypeOK ==
  /\ doing \in {"environ", "scan", "instantiate", "loaded"} /\ dev_class \in 1 .. 3
  /\ environ \in Environs /\ is_trackpad \in BOOLEAN
  /\ present \subseteq Nodes /\ unread \subseteq Nodes
  /\ devfd \in Nodes \cup {NoNode} /\ tried \in Seq(Nodes)
  /\ g_prospect \in Prospect
  /\ opened \in 0 .. 3 /\ watched \subseteq 1 .. opened
  /\ input_devices \in Seq(Device)
  /\ g_new_id \in 0 .. UINT8_MAX

\* Whatever step of evdev_instantiate fails, the event loop calls back for
\* exactly the devices of the list, no two of which share a descriptor or an id.
HandlersHaveDevices ==
  /\ watched = {input_devices[k].fd : k \in DOMAIN input_devices}
  /\ \A k, l \in DOMAIN input_devices : k # l =>
       /\ input_devices[k].fd # input_devices[l].fd
       /\ input_devices[k].device_id # input_devices[l].device_id

\* Hotkeys are looked for on the keyboard, also one that is used as a mouse
\* too, and taps are made clicks on the touch device.
RolesMatchClass ==
  \A k \in DOMAIN input_devices :
    /\ input_devices[k].func_hotkey <=> input_devices[k].class = "KEYBOARD"
    /\ input_devices[k].is_trackpad <=> input_devices[k].class = "TOUCH" /\ is_trackpad

\* The nodes compared so far that may be of the class, by their place.
able(k) == Caps[tried[k]]
found == {k \in DOMAIN tried : candidate(tried[k])}
after_leds(k) == \A l \in found : l > k => able(l).led = 0
best(p) ==
  CASE class = "KEYBOARD" -> \A k \in found : after_leds(k) => able(k).key <= able(p).key
    [] class = "MOUSE" -> (\A k \in found : able(k).key > 0)
                            => \A k \in found : able(k).rel <= able(p).rel
    [] class = "TOUCH" -> \A k \in found : p <= k

\* Whatever the order of the nodes, a candidate is found if there is one, and by
\* the numbers of bit_count it is the keyboard with the most keys since the last one with LEDs; the
\* mouse with the most axes, if all have buttons; the first touch device.
BestCandidatePicked ==
  environ[dev_class] = NoNode /\ doing \in {"scan", "instantiate"} =>
    IF found = {} THEN g_prospect.path = NoNode
    ELSE \E p \in found : tried[p] = g_prospect.path /\ best(p)

=============================================================================
