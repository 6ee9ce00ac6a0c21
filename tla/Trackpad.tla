------------------------------ MODULE Trackpad ------------------------------
(***************************************************************************)
(* A surface used as a trackpad: the tap clicks and the two-finger scroll  *)
(* of transceive_evdev in platform/linux/input.c.  A second touch soon     *)
(* after a first one is checked for a click at the end of the read it      *)
(* came in; times and distances are left open.                             *)
(***************************************************************************)
EXTENDS KeyInput

CONSTANTS
  trackpad,        \* the device
  CONTACT, SBTN    \* what clients hold down: a click and the scroll button

PadEvent == [code : {"TOUCH", "DOUBLETAP"}, val : {Up, Down}] \cup [code : {"ABS"}, val : {0}]

ASSUME PadAssumption ==
  /\ trackpad \in Devices /\ Codes[trackpad] = {}
  /\ PadEvent \subseteq Reports /\ {CONTACT, SBTN} \subseteq Touches /\ CONTACT # SBTN

VARIABLES
  resting,                    \* kernel: fingers on the pad, two counting for more
  tap_check, tap_reacquire,   \* struct drv_evdev_pvt
  seen,                       \* history: fingers on the pad by the events handled
  late                        \* history: the last finger went up before its tap was checked

pad_vars == <<resting, tap_check, tap_reacquire, seen, late>>

PadInit ==
  /\ resting = 0
  /\ tap_check = FALSE /\ tap_reacquire = 0
  /\ seen = {} /\ late = FALSE

-----------------------------------------------------------------------------
(* The kernel.                                                             *)

button(code, before, after) ==
  IF before = after THEN <<>>
  ELSE <<[code |-> code, val |-> IF after THEN Down ELSE Up]>>

abs == <<[code |-> "ABS", val |-> 0]>>

\* Fingers come, go or move: BTN_TOUCH, BTN_TOOL_DOUBLETAP, positions.
pad_reports ==
  /\ trackpad \in plugged
  /\ typed < MaxTyped[trackpad] /\ typed' = typed + 1
  /\ Len(kqueue[trackpad]) < MaxQueue
  /\ resting' \in 0 .. 2 /\ resting' + resting > 0
  /\ kqueue' = [kqueue EXCEPT ![trackpad] = @
       \o button("TOUCH", resting > 0, resting' > 0)
       \o button("DOUBLETAP", resting = 2, resting' = 2)
       \o (IF resting' > 0 THEN abs \o abs ELSE <<>>)]
  /\ UNCHANGED <<plugged, gone, pressed, vt_ours, switches, signals, g_running, screens,
                 btn_down, call, belief, history, tap_check, tap_reacquire, seen, late>>

-----------------------------------------------------------------------------
(* transceive_evdev, one event at a time.                                  *)

pad_event(code) == pc = "events" /\ self = trackpad /\ Head(events).code = code
value == Head(events).val

\* After the last event the click is looked at.
next_event ==
  IF Len(events) = 1 THEN pc' = "tap" /\ events' = <<>> /\ UNCHANGED <<self, cl_fd>>
  ELSE events' = Tail(events) /\ UNCHANGED <<pc, self, cl_fd>>

\* A client such as airlock/sporg takes in a button.
hold(c, b, v) ==
  /\ held' = [held EXCEPT ![c][trackpad] = IF v = Up THEN @ \ {b} ELSE @ \cup {b}]
  /\ kept' = [kept EXCEPT ![c][trackpad] = @ \ {b}]

\* An event goes out; if it cannot, the rest of the read is dropped and the
\* end of the function is not reached.
forward(b, v) ==
  \/ cl_fd = NoClient /\ return /\ UNCHANGED <<belief, lost>>
  \/ cl_fd # NoClient /\ next_event /\ hold(cl_fd, b, v) /\ UNCHANGED lost
  \/ cl_fd # NoClient /\ return /\ lost' = lost \cup {cl_fd} /\ UNCHANGED belief

pad_rest ==
  UNCHANGED <<kernel, signals, g_running, screens, btn_down, untold, fresh, resting>>

\* Mutant: the release is kept back like the press.
contact_up_kept_back ==
  /\ pad_event("TOUCH") /\ value = Up
  /\ tap_reacquire' = 4
  /\ seen' = seen \ {CONTACT}
  /\ late' = tap_check
  /\ next_event
  /\ UNCHANGED <<tap_check, belief, lost>> /\ pad_rest

\* trackpad_tap_up
contact_up ==
  /\ pad_event("TOUCH") /\ value = Up
  /\ tap_reacquire' = 4
  /\ seen' = seen \ {CONTACT}
  /\ late' = tap_check
  /\ forward(CONTACT, Up)
  /\ UNCHANGED tap_check /\ pad_rest

\* Within tap_delay of the last tap and away from any big motion, or not.
contact_down ==
  /\ pad_event("TOUCH") /\ value = Down
  /\ tap_check' \in {tap_check, TRUE}
  /\ seen' = seen \cup {CONTACT}
  /\ next_event
  /\ UNCHANGED <<tap_reacquire, late, belief, lost>> /\ pad_rest

\* trackpad_tap_up on a press of the scroll button too.
scroll_button ==
  /\ pad_event("DOUBLETAP")
  /\ tap_reacquire' = 4
  /\ seen' = IF value = Up THEN seen \ {SBTN} ELSE seen \cup {SBTN}
  /\ forward(SBTN, value)
  /\ UNCHANGED <<tap_check, late>> /\ pad_rest

\* abs_to_trackpad swallows the first positions of a touch.
pad_motion ==
  /\ pad_event("ABS")
  /\ IF tap_reacquire > 0
     THEN tap_reacquire' = tap_reacquire - 1 /\ next_event /\ UNCHANGED lost
     ELSE /\ UNCHANGED tap_reacquire
          /\ \/ cl_fd # NoClient /\ next_event /\ UNCHANGED lost
             \/ cl_fd # NoClient /\ return /\ lost' = lost \cup {cl_fd}
             \/ cl_fd = NoClient /\ return /\ UNCHANGED lost
  /\ UNCHANGED <<tap_check, seen, late, belief>> /\ pad_rest

\* The end of transceive_evdev: a click, if the finger is near where it was.
tap_click ==
  /\ pc = "tap" /\ return
  /\ tap_check' = FALSE
  /\ tap_reacquire' = IF tap_check THEN 0 ELSE tap_reacquire
  /\ \/ UNCHANGED <<belief, lost>>
     \/ tap_check /\ cl_fd # NoClient /\ hold(cl_fd, CONTACT, Down) /\ UNCHANGED lost
     \/ tap_check /\ cl_fd # NoClient /\ lost' = lost \cup {cl_fd} /\ UNCHANGED belief
  /\ UNCHANGED <<seen, late>> /\ pad_rest

PadNext ==
  \/ pad_reports
  \/ contact_up \/ contact_down \/ scroll_button \/ pad_motion \/ tap_click

-----------------------------------------------------------------------------

PadTypeOK ==
  /\ resting \in 0 .. 2 /\ tap_reacquire \in 0 .. 4
  /\ {tap_check, late} \subseteq BOOLEAN
  /\ seen \subseteq {CONTACT, SBTN}
  /\ pc = "tap" => self = trackpad /\ events = <<>>

\* No button stays down: while input is not muted, the focused client holds a
\* click or a scroll only while the events handled leave the fingers for it
\* on the pad, or if it kept it through its last RESET, unless a write failed
\* since, the devices were flushed without a RESET, or the last finger went
\* up before its tap was checked (input.c:417-429: trackpad_tap_up leaves
\* tap_check, and the click is sent after the release).
NoStuckButton ==
  screens # <<>> /\ ~g_input_muted =>
    LET c == Head(screens) IN
    \/ c \in lost \cup untold
    \/ late
    \/ held[c][trackpad] \subseteq seen \cup kept[c][trackpad]

=============================================================================
