------------------------------ MODULE KeyInput ------------------------------
(***************************************************************************)
(* Key events from the kernel to the focused client: transceive_evdev of  *)
(* platform/linux/input.c with the flushes of server.c and the flags that *)
(* vt.c's signal handler sets between any two of its steps.  Surface and  *)
(* Trackpad extend it with the other events of transceive_evdev.           *)
(*                                                                         *)
(* A client is modelled by the keys it believes down once it has read      *)
(* everything written to it, as airlock/sporg does: a key message changes  *)
(* that set and the control message RESET takes away what this client lets *)
(* go of, all of it by spr16.h:205, LALT and LCTRL in sporg.               *)
(***************************************************************************)
EXTENDS Naturals, Sequences, FiniteSets, SequencesExt

CONSTANTS
  Clients,
  Devices,
  Plugs,        \* the sets of devices that may be plugged in
  Codes,        \* the keys of each device
  Reports,      \* the events of surfaces and trackpads
  Touches,      \* what their messages make a client hold down
  Resets,       \* what each client lets go of on RESET
  Repeating,    \* keys of devices that repeat
  LALT, LCTRL, TAB, ESCAPE,
  VtKeys,       \* F1 .. F24, LEFT and RIGHT
  NoClient,     \* get_focused_client's -1
  NoDevice,     \* no call in progress
  MaxQueue,     \* events a device holds
  EV_BUF,       \* events of one read
  Removable,    \* devices that a behaviour unplugs
  MaxTyped,     \* events or reports of a behaviour with the device
  MaxSwitches   \* VT switches of a behaviour

Up == 0
Down == 1
Repeat == 2

Code  == UNION {Codes[d] : d \in Devices}
KeyEvent == [code : Code, val : {Up, Down, Repeat}]
Event == KeyEvent \cup Reports

ASSUME KeyAssumption ==
  /\ Plugs \subseteq SUBSET Devices
  /\ Codes \in [Devices -> SUBSET Code]
  /\ KeyEvent \cap Reports = {} /\ Code \cap Touches = {}
  /\ Resets \in [Clients -> SUBSET (Code \cup Touches)] /\ Repeating \subseteq Code
  /\ NoClient \notin Clients /\ NoDevice \notin Devices
  /\ MaxQueue \in Nat \ {0} /\ EV_BUF \in Nat \ {0}
  /\ MaxTyped \in [Devices -> Nat] /\ MaxSwitches \in Nat

VARIABLES
  plugged,         \* the devices found at startup and not unplugged since
  gone,            \* unplugged devices whose handler is still there
  pressed,         \* keys that are physically down
  kqueue,          \* events in each device's kernel buffer
  vt_ours,         \* our VT is in the foreground
  typed, switches, \* bounds
  is_active, g_input_muted, g_unmute_input, g_running,
  screens,         \* the client of main_screen and of each screen after it
  btn_down,        \* btn_down of each struct input_device
  pc,              \* where transceive_evdev is
  self, cl_fd, events,   \* its device, its client, the events not handled yet
  held,            \* keys each client believes down
  kept,            \* history: those it still believed after its last RESET
  lost,            \* history: a write to the client failed since its last RESET
  untold,          \* history: clients never told that their keys were flushed
  fresh            \* history: keys gone down since the last change of focus

kernel  == <<plugged, gone, pressed, kqueue, vt_ours, typed, switches>>
signals == <<is_active, g_input_muted, g_unmute_input>>
call    == <<pc, self, cl_fd, events>>
belief  == <<held, kept>>
history == <<lost, untold, fresh>>
vars == <<kernel, signals, g_running, screens, btn_down, call, belief, history>>

NoKeys == [d \in Devices |-> {}]

Init ==
  /\ plugged \in Plugs /\ gone = {}
  /\ pressed = NoKeys /\ kqueue = [d \in Devices |-> <<>>]
  /\ vt_ours = TRUE /\ typed = 0 /\ switches = 0
  /\ is_active = TRUE /\ g_input_muted = TRUE /\ g_unmute_input = TRUE
  /\ g_running = TRUE
  /\ screens = <<>>
  /\ btn_down = NoKeys
  /\ pc = "poll" /\ self = NoDevice /\ cl_fd = NoClient /\ events = <<>>
  /\ held = [c \in Clients |-> NoKeys] /\ kept = [c \in Clients |-> NoKeys]
  /\ lost = {} /\ untold = {} /\ fresh = NoKeys

-----------------------------------------------------------------------------
(* The kernel: a key goes down, repeats, goes up.  evdev devices report    *)
(* keys whichever VT is in the foreground.                                 *)

type(d) ==
  /\ d \in plugged
  /\ typed < MaxTyped[d] /\ Len(kqueue[d]) < MaxQueue
  /\ \E k \in Codes[d], v \in {Up, Down, Repeat} :
       /\ (k \in pressed[d]) <=> (v # Down)
       /\ v = Repeat => k \in Repeating
       /\ pressed' = [pressed EXCEPT ![d] =
            IF v = Up THEN @ \ {k} ELSE @ \cup {k}]
       /\ kqueue' = [kqueue EXCEPT ![d] =
            Append(@, [code |-> k, val |-> v])]
  /\ typed' = typed + 1
  /\ UNCHANGED <<plugged, gone, vt_ours, switches, signals, g_running, screens, btn_down,
                 call, belief, history>>

\* A device is unplugged: what it had reported is lost, and reads of it fail.
unplug(d) ==
  /\ d \in plugged \cap Removable
  /\ plugged' = plugged \ {d} /\ gone' = gone \cup {d}
  /\ pressed' = [pressed EXCEPT ![d] = {}]
  /\ kqueue' = [kqueue EXCEPT ![d] = <<>>]
  /\ UNCHANGED <<vt_ours, typed, switches, signals, g_running, screens, btn_down,
                 call, belief, history>>

-----------------------------------------------------------------------------
(* vt.c: vt_sig.                                                           *)

\* SIGUSR1: g_unmute_input is set even when drm_acquire_signal fails.
vt_acquire ==
  /\ ~vt_ours /\ vt_ours' = TRUE
  /\ is_active' \in {is_active, TRUE}
  /\ g_unmute_input' = TRUE
  /\ UNCHANGED <<plugged, gone, pressed, kqueue, typed, switches, g_input_muted, g_running,
                 screens, btn_down, call, belief, history>>

\* SIGUSR2.
vt_release ==
  /\ vt_ours /\ switches < MaxSwitches
  /\ vt_ours' = FALSE /\ switches' = switches + 1
  /\ is_active' = FALSE
  /\ g_input_muted' = TRUE
  /\ UNCHANGED <<plugged, gone, pressed, kqueue, typed, g_unmute_input, g_running, screens,
                 btn_down, call, belief, history>>

-----------------------------------------------------------------------------
(* Flushes and resets.                                                     *)

\* Mutant: the key state of the device that raised the hotkey stays.
input_flush_all_devices_but_self ==
  /\ kqueue' = [d \in Devices |-> <<>>]
  /\ btn_down' = [d \in Devices |-> IF d = self THEN btn_down[d] ELSE {}]

\* Unread events of every device are dropped with the server's key state.
input_flush_all_devices ==
  /\ kqueue' = [d \in Devices |-> <<>>]
  /\ btn_down' = NoKeys

\* Mutant: the RESET is sent to no one.
spr16_server_reset_client_forgets(c) ==
  /\ fresh' = NoKeys
  /\ UNCHANGED <<belief, lost, untold>>

\* What a client still believes down after a RESET.
control_input(c) == [d \in Devices |-> held[c][d] \ Resets[c]]

\* RESET is written to c, or the socket is full and nobody looks.
spr16_server_reset_client(c) ==
  /\ fresh' = NoKeys
  /\ \/ /\ held' = [held EXCEPT ![c] = control_input(c)]
        /\ kept' = [kept EXCEPT ![c] = control_input(c)]
        /\ lost' = lost \ {c} /\ untold' = untold \ {c}
     \/ /\ lost' = lost \cup {c}
        /\ UNCHANGED <<belief, untold>>

\* main_screen_switch(-1): the main screen goes to the end of the list.
main_screen_switch ==
  IF Len(screens) < 2
  THEN UNCHANGED <<screens, kqueue, btn_down, belief, history>>
  ELSE /\ screens' = Append(Tail(screens), Head(screens))
       /\ input_flush_all_devices
       /\ spr16_server_reset_client(Head(screens'))

-----------------------------------------------------------------------------
(* server.c, between two input callbacks.                                  *)

server_connect_client(c) ==
  /\ pc = "poll" /\ g_running
  /\ c \notin ToSet(screens)
  /\ screens' = Append(screens, c)
  /\ held' = [held EXCEPT ![c] = NoKeys] /\ kept' = [kept EXCEPT ![c] = NoKeys]
  /\ lost' = lost \ {c} /\ untold' = untold \ {c}
  /\ UNCHANGED <<kernel, signals, g_running, btn_down, call, fresh>>

\* Any client that goes, a pending one too, flushes the devices once there
\* is a screen: the first screen of the walk is the main screen.
server_remove_client ==
  /\ pc = "poll" /\ g_running
  /\ screens # <<>>
  /\ \/ UNCHANGED screens
     \/ \E i \in DOMAIN screens : screens' = RemoveAt(screens, i)
  /\ input_flush_all_devices
  /\ untold' = untold \cup ToSet(screens')
  /\ UNCHANGED <<plugged, gone, pressed, vt_ours, typed, switches, signals, g_running, call,
                 belief, lost, fresh>>

-----------------------------------------------------------------------------
(* input.c: transceive_evdev.  A signal may come between two steps.        *)

return == pc' = "poll" /\ self' = NoDevice /\ cl_fd' = NoClient /\ events' = <<>>

get_focused_client ==
  IF g_input_muted \/ screens = <<>> THEN NoClient ELSE Head(screens)

input_ready(d) ==
  /\ pc = "poll" /\ g_running
  /\ kqueue[d] # <<>> \/ d \in gone
  /\ self' = d /\ cl_fd' = get_focused_client
  /\ pc' = "update"
  /\ UNCHANGED <<kernel, signals, g_running, screens, btn_down, events, belief, history>>

\* update_state, up to the store to g_unmute_input.
update_state ==
  /\ pc = "update"
  /\ pc' = IF g_unmute_input THEN "unmute" ELSE "read"
  /\ g_unmute_input' = FALSE
  /\ UNCHANGED <<kernel, is_active, g_input_muted, g_running, screens, btn_down,
                 self, cl_fd, events, belief, history>>

update_state_unmute ==
  /\ pc = "unmute" /\ pc' = "read"
  /\ g_input_muted' = FALSE
  /\ IF screens = <<>> THEN UNCHANGED <<belief, history>>
     ELSE spr16_server_reset_client(Head(screens))
  /\ input_flush_all_devices
  /\ UNCHANGED <<plugged, gone, pressed, vt_ours, typed, switches, is_active, g_unmute_input,
                 g_running, screens, self, cl_fd, events>>

\* EAGAIN: the flush has taken the events.  One read may leave some.  A read
\* that fails removes the handler; the device stays in the list as it is.
read_events ==
  /\ pc = "read"
  /\ LET q == kqueue[self]
         count == IF Len(q) < EV_BUF THEN Len(q) ELSE EV_BUF
     IN  /\ IF q = <<>> THEN return
            ELSE pc' = "active" /\ events' = SubSeq(q, 1, count) /\ UNCHANGED <<self, cl_fd>>
         /\ kqueue' = [kqueue EXCEPT ![self] = SubSeq(q, count + 1, Len(q))]
  /\ gone' = gone \ {self}
  /\ UNCHANGED <<plugged, pressed, vt_ours, typed, switches, signals, g_running, screens,
                 btn_down, belief, history>>

server_is_active ==
  /\ pc = "active"
  /\ IF is_active THEN pc' = "events" /\ UNCHANGED <<self, cl_fd, events>>
     ELSE return
  /\ UNCHANGED <<kernel, signals, g_running, screens, btn_down, belief, history>>

-----------------------------------------------------------------------------
(* The events of one read, one at a time.                                  *)

continue ==
  IF Len(events) = 1 THEN return
  ELSE events' = Tail(events) /\ UNCHANGED <<pc, self, cl_fd>>

\* EV_KEY: the keys are those that evdev_translate_keycode knows.
key_event == pc = "events" /\ Head(events) \in KeyEvent

\* set_input_msg ignores the up or the repeat of a key not known to be down.
ignored(e) == e.val # Down /\ e.code \notin btn_down[self]

\* set_input_msg of any other event.
set_input_msg(e) ==
  [btn_down EXCEPT ![self] = IF e.val = Up THEN @ \ {e.code} ELSE @ \cup {e.code}]

\* preempt_keycodes looks at key-downs only.
ctrl_alt(e)    == e.val = Down /\ {LALT, LCTRL} \subseteq set_input_msg(e)[self]
vt_switch(e)   == e.val = Down /\ e.code \in VtKeys /\ LALT \in set_input_msg(e)[self]
axe(e)         == ctrl_alt(e) /\ e.code = ESCAPE
next_screen(e) == ctrl_alt(e) /\ e.code = TAB
preempt_keycodes(e) == vt_switch(e) \/ axe(e) \/ next_screen(e)

\* A written key message as the client takes it in.
believe(c, e) ==
  /\ held' = [held EXCEPT ![c][self] =
       IF e.val = Up THEN @ \ {e.code} ELSE @ \cup {e.code}]
  /\ kept' = [kept EXCEPT ![c][self] = @ \ {e.code}]

went_down(e) == IF e.val = Down THEN [fresh EXCEPT ![self] = @ \cup {e.code}] ELSE fresh

key_ignored ==
  /\ key_event /\ ignored(Head(events))
  /\ continue
  /\ UNCHANGED <<kernel, signals, g_running, screens, btn_down, belief, history>>

key_forwarded ==
  LET e == Head(events) IN
  /\ key_event /\ ~ignored(e) /\ ~preempt_keycodes(e)
  /\ btn_down' = set_input_msg(e)
  /\ fresh' = went_down(e)
  /\ IF cl_fd = NoClient
     THEN return /\ UNCHANGED <<belief, lost>>
     ELSE \/ /\ continue
             /\ believe(cl_fd, e)
             /\ UNCHANGED lost
          \/ /\ return   \* the rest of the events is dropped
             /\ lost' = lost \cup {cl_fd}
             /\ UNCHANGED belief
  /\ UNCHANGED <<kernel, signals, g_running, screens, untold>>

key_vt_switch ==
  LET e == Head(events) IN
  /\ key_event /\ ~ignored(e) /\ vt_switch(e)
  /\ btn_down' = set_input_msg(e)
  /\ fresh' = went_down(e)
  /\ continue
  /\ UNCHANGED <<kernel, signals, g_running, screens, belief, lost, untold>>

\* SIGTERM: the loop of server_main ends after this round of callbacks.
key_axe ==
  LET e == Head(events) IN
  /\ key_event /\ ~ignored(e) /\ axe(e)
  /\ btn_down' = set_input_msg(e)
  /\ fresh' = went_down(e)
  /\ g_running' = FALSE
  /\ continue
  /\ UNCHANGED <<kernel, signals, screens, belief, lost, untold>>

key_next_screen ==
  LET e == Head(events) IN
  /\ key_event /\ ~ignored(e) /\ next_screen(e)
  /\ IF Len(screens) < 2
     THEN /\ btn_down' = set_input_msg(e)
          /\ fresh' = went_down(e)
          /\ UNCHANGED <<screens, kqueue, belief, lost, untold>>
     ELSE main_screen_switch
  /\ continue
  /\ UNCHANGED <<plugged, gone, pressed, vt_ours, typed, switches, signals, g_running>>

-----------------------------------------------------------------------------

Around == (\E d \in Devices : type(d) \/ unplug(d)) \/ vt_acquire \/ vt_release

Server ==
  \/ \E c \in Clients : server_connect_client(c)
  \/ server_remove_client
  \/ \E d \in Devices : input_ready(d)
  \/ update_state \/ update_state_unmute \/ read_events \/ server_is_active
  \/ key_ignored

Key == key_forwarded \/ key_vt_switch \/ key_axe \/ key_next_screen

Next == Around \/ Server \/ Key

Spec == Init /\ [][Next]_vars

-----------------------------------------------------------------------------

KeySets  == [Devices -> SUBSET Code]
HeldSets == [Devices -> SUBSET (Code \cup Touches)]

\* The types of the variables; what a call holds only while it runs.
TypeOK ==
  /\ plugged \subseteq Devices /\ gone \subseteq Devices
  /\ pressed \in KeySets /\ btn_down \in KeySets /\ fresh \in KeySets
  /\ kqueue \in [Devices -> Seq(Event)]
  /\ {vt_ours, is_active, g_input_muted, g_unmute_input, g_running} \subseteq BOOLEAN
  /\ typed \in Nat /\ switches \in 0 .. MaxSwitches
  /\ screens \in Seq(Clients)
  /\ pc \in {"poll", "update", "unmute", "read", "active", "events", "tap"}
  /\ self \in IF pc = "poll" THEN {NoDevice} ELSE Devices
  /\ cl_fd \in Clients \cup {NoClient}
  /\ events \in Seq(Event)
  /\ (events # <<>>) <=> (pc \in {"active", "events"})
  /\ held \in [Clients -> HeldSets] /\ kept \in [Clients -> HeldSets]
  /\ lost \subseteq Clients /\ untold \subseteq Clients

\* No stuck keys: while input is not muted, the focused client believes no
\* key down but those of btn_down and those it kept through its last RESET,
\* unless a write to it failed since or its keys were flushed without a RESET
\* (input.c:209, server.c:834, sporg_input.c:388-410).
HeldKeysAreDown ==
  screens # <<>> /\ ~g_input_muted =>
    LET c == Head(screens) IN
    \/ c \in lost \cup untold
    \/ \A d \in Devices : held[c][d] \ Touches \subseteq btn_down[d] \cup kept[c][d]

\* The keys of Ctrl-Alt-Tab, and those down when the VT went away, are not
\* released into the client focused next: a key known to be down went down
\* after the last change of focus, on whatever device.
SwitchKeysStayBehind ==
  \A d \in Devices : btn_down[d] \subseteq fresh[d]

=============================================================================
