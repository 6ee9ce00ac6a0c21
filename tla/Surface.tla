------------------------------ MODULE Surface ------------------------------
(***************************************************************************)
(* A multi-touch surface: consume_surface_report of platform/linux/input.c *)
(* inside transceive_evdev, from the slots of the kernel's protocol B to   *)
(* the contacts that a client such as examples/touchpaint.c shows.         *)
(*                                                                         *)
(* A client holds the contacts it shows, as it holds keys; a contact is    *)
(* told to it by its number and a magnitude, 0 for a released one.         *)
(* touchpaint ignores RESET and keeps them all (Resets of KeyInput).       *)
(*                                                                         *)
(* Every event but ABS_MT_SLOT carries, for the properties only, the slot  *)
(* that the kernel means by it; the driver does not read it.               *)
(***************************************************************************)
EXTENDS KeyInput

CONSTANTS
  surface,       \* the device
  Slots,         \* the kernel's slots, from 0
  MaxContacts,   \* SPR16_SURFACE_MAX_CONTACTS
  MaxTouches,    \* tracking ids of a behaviour
  NoId           \* tracking id -1

NoContact == 0 - 1
Contacts  == 0 .. MaxContacts - 1
Ids       == 1 .. MaxTouches

SlotEvent == [code : {"SLOT"}, val : Slots]
IdEvent   == [code : {"TRACKING_ID"}, val : Ids \cup {NoId}, at : Slots]
\* POSITION_X and _Y, and PRESSURE or TOUCH_MAJOR scaled to none or some.
AxisEvent == [code : {"POSITION"}, val : {0}, at : Slots]
               \cup [code : {"MAGNITUDE"}, val : {0, 1}, at : Slots]
MtEvent   == SlotEvent \cup IdEvent \cup AxisEvent
EndEvent  == [code : {"BTN_TOUCH", "SYN_REPORT"}, val : {0}, at : Slots]
SurfaceEvent == MtEvent \cup EndEvent

ASSUME SurfaceAssumption ==
  /\ surface \in Devices /\ Codes[surface] = {}
  /\ SurfaceEvent \subseteq Reports /\ Contacts \subseteq Touches
  /\ MaxContacts \in Nat \ {0} /\ MaxTouches \in Nat /\ NoId \notin Ids
  /\ 0 \in Slots /\ Slots \subseteq Nat

VARIABLES
  kslot, fingers, touches,   \* kernel: slot of the last event, finger in each slot
  report, key_touch,         \* kernel: the report being put together, BTN_TOUCH
  active_contact, contact_ids, contact_mag,   \* struct drv_evdev_pvt
  send_msg,                  \* a message is pending in consume_surface_report
  blind                      \* history: the kernel's slot is not known; see missed

hardware == <<kslot, fingers, touches, report, key_touch>>
pvt      == <<active_contact, contact_ids, contact_mag, send_msg>>
surface_vars == <<hardware, pvt, blind>>

NoFinger == [s \in Slots |-> NoId]

\* A device nobody has touched yet: its slot is 0.
SurfaceInit ==
  /\ kslot = 0 /\ fingers = NoFinger /\ touches = 0 /\ report = <<>> /\ key_touch = FALSE
  /\ active_contact = NoContact
  /\ contact_ids = [k \in Contacts |-> NoId]
  /\ contact_mag = [k \in Contacts |-> 0]
  /\ send_msg = FALSE /\ blind = FALSE

-----------------------------------------------------------------------------
(* The kernel.  ABS_MT_SLOT is sent only when the slot changes, and a      *)
(* reader sees whole reports.                                              *)

tracking(s, id) == <<[code |-> "TRACKING_ID", val |-> id, at |-> s]>>
position(s)     == <<[code |-> "POSITION", val |-> 0, at |-> s]>>
pressure(s, m)  == <<[code |-> "MAGNITUDE", val |-> m, at |-> s]>>

\* One slot's part of a report: its finger comes, moves or goes.  Drivers
\* go through their slots in order.
update(s, es, f) ==
  /\ report = <<>> \/ s > kslot
  /\ report' = report
       \o (IF s = kslot THEN <<>> ELSE <<[code |-> "SLOT", val |-> s]>>) \o es
  /\ kslot' = s
  /\ fingers' = [fingers EXCEPT ![s] = f]

touch(s) ==
  /\ fingers[s] = NoId /\ touches < MaxTouches
  /\ touches' = touches + 1
  /\ \E a \in {<<>>, pressure(s, 1)} : update(s, tracking(s, touches') \o a, touches')

move(s) ==
  /\ fingers[s] # NoId
  /\ \E a \in {position(s), pressure(s, 0), pressure(s, 1)} : update(s, a, fingers[s])
  /\ UNCHANGED touches

lift(s) ==
  /\ fingers[s] # NoId
  /\ update(s, tracking(s, NoId), NoId)
  /\ UNCHANGED touches

surface_moves ==
  /\ surface \in plugged
  /\ typed < MaxTyped[surface] /\ typed' = typed + 1
  /\ \E s \in Slots : touch(s) \/ move(s) \/ lift(s)
  /\ UNCHANGED <<plugged, gone, pressed, kqueue, vt_ours, switches, signals, g_running,
                 screens, btn_down, call, belief, history, key_touch, pvt, blind>>

end_event(c) == <<[code |-> c, val |-> 0, at |-> kslot]>>

\* BTN_TOUCH comes with the first and the last finger, SYN_REPORT always.
surface_syncs ==
  /\ surface \in plugged
  /\ report # <<>> /\ Len(kqueue[surface]) < MaxQueue
  /\ key_touch' = (fingers # NoFinger)
  /\ kqueue' = [kqueue EXCEPT ![surface] = @ \o report
       \o (IF key_touch' # key_touch THEN end_event("BTN_TOUCH") ELSE <<>>)
       \o end_event("SYN_REPORT")]
  /\ report' = <<>>
  /\ UNCHANGED <<plugged, gone, pressed, vt_ours, typed, switches, signals, g_running,
                 screens, btn_down, call, belief, history, kslot, fingers, touches,
                 pvt, blind>>

-----------------------------------------------------------------------------
(* consume_surface_report, one event at a time.                            *)

event == Head(events)
surface_event(code) ==
  pc = "events" /\ self = surface /\ event.code = code

\* get_id.  The local active_id is get_id of the active contact throughout.
get_id(k) == IF k \in Contacts THEN contact_ids[k] ELSE NoId

\* update_contact of a client: magnitude 0 takes a contact away.
update_contact(c, k, mag) ==
  /\ held' = [held EXCEPT ![c][surface] = IF mag = 0 THEN @ \ {k} ELSE @ \cup {k}]
  /\ kept' = [kept EXCEPT ![c][surface] = @ \ {k}]

\* spr16_write_msg of contact k, the result of which nobody looks at.
write_contact(k, mag) ==
  \/ cl_fd = NoClient /\ UNCHANGED <<belief, lost>>
  \/ cl_fd # NoClient /\ update_contact(cl_fd, k, mag) /\ UNCHANGED lost
  \/ cl_fd # NoClient /\ lost' = lost \cup {cl_fd} /\ UNCHANGED belief

\* Mutant: a message pending at the end of a read stays pending.
consume_keeps_pending(pending) == continue /\ send_msg' = pending

\* The event is done.  A message pending at the end of a read is lost.
consume(pending) == continue /\ send_msg' = (pending /\ Len(events) > 1)

\* Events of the surface that the driver has not handled yet.
unhandled == (IF self = surface THEN events ELSE <<>>) \o kqueue[surface]

\* The step drops events, by a flush or by an early return, among them a SLOT
\* event: the driver goes on with the contact of the slot before.
missed ==
  /\ plugged' = plugged
  /\ \E i \in 1 .. Len(unhandled) - Len(unhandled') : unhandled[i].code = "SLOT"

surface_rest ==
  UNCHANGED <<kernel, signals, g_running, screens, btn_down, untold, fresh, hardware>>

\* Mutant: a slot that sends the pending message is not taken over.
abs_mt_slot_pending ==
  /\ surface_event("SLOT")
  /\ IF send_msg
     THEN /\ write_contact(active_contact, contact_mag[active_contact])
          /\ UNCHANGED <<active_contact, contact_mag>>
     ELSE /\ UNCHANGED <<belief, lost, contact_mag>>
          /\ active_contact' = IF event.val \in Contacts THEN event.val ELSE NoContact
  /\ blind' = (event.val \notin Contacts)
  /\ consume(FALSE)
  /\ UNCHANGED contact_ids /\ surface_rest

abs_mt_slot ==
  /\ surface_event("SLOT")
  /\ IF send_msg THEN write_contact(active_contact, contact_mag[active_contact])
     ELSE UNCHANGED <<belief, lost>>
  /\ IF event.val \in Contacts
     THEN /\ active_contact' = event.val
          /\ contact_mag' = [contact_mag EXCEPT ![event.val] = IF @ = 0 THEN 1 ELSE @]
     ELSE active_contact' = NoContact /\ UNCHANGED contact_mag
  /\ blind' = (event.val \notin Contacts)
  /\ consume(FALSE)
  /\ UNCHANGED contact_ids /\ surface_rest

\* "protocol b initial contact is -1 !"
initial_contact == IF active_contact = NoContact THEN 0 ELSE active_contact

handle_id ==
  /\ surface_event("TRACKING_ID")
  /\ contact_ids' = [contact_ids EXCEPT ![initial_contact] = event.val]
  /\ surface_rest

finger_down ==
  /\ handle_id /\ event.val # NoId
  /\ active_contact' = initial_contact
  /\ consume(TRUE)
  /\ UNCHANGED <<contact_mag, blind, belief, lost>>

\* Mutant: the message still has the magnitude of the contact.
finger_up_keeps_mag ==
  /\ handle_id /\ event.val = NoId
  /\ write_contact(initial_contact, contact_mag[initial_contact])
  /\ contact_mag' = [contact_mag EXCEPT ![initial_contact] = 0]
  /\ active_contact' = NoContact /\ blind' = TRUE
  /\ consume(FALSE)

\* The active contact is forgotten with its finger, and with it the slot.
finger_up ==
  /\ handle_id /\ event.val = NoId
  /\ write_contact(initial_contact, 0)
  /\ contact_mag' = [contact_mag EXCEPT ![initial_contact] = 0]
  /\ active_contact' = NoContact /\ blind' = TRUE
  /\ consume(FALSE)

\* An axis of a contact that is not touched is ignored.
axis ==
  /\ surface_event("POSITION") \/ surface_event("MAGNITUDE")
  /\ IF get_id(active_contact) = NoId
     THEN consume(send_msg) /\ UNCHANGED contact_mag
     ELSE /\ contact_mag' = IF event.code = "POSITION" THEN contact_mag
                            ELSE [contact_mag EXCEPT ![active_contact] = event.val]
          /\ consume(TRUE)
  /\ UNCHANGED <<active_contact, contact_ids, blind, belief, lost>> /\ surface_rest

\* Any other event ends the report and is left to transceive_evdev.
leave_report ==
  /\ surface_event("BTN_TOUCH") \/ surface_event("SYN_REPORT")
  /\ send_msg /\ send_msg' = FALSE
  /\ IF get_id(active_contact) # NoId
     THEN write_contact(active_contact, contact_mag[active_contact])
     ELSE UNCHANGED <<belief, lost>>
  /\ UNCHANGED <<call, active_contact, contact_ids, contact_mag, blind>> /\ surface_rest

syn_report ==
  /\ surface_event("SYN_REPORT") /\ ~send_msg
  /\ consume(FALSE)
  /\ UNCHANGED <<active_contact, contact_ids, contact_mag, blind, belief, lost>>
  /\ surface_rest

\* BTN_TOUCH goes out as CONTACT; if it cannot, the rest of the read is dropped.
btn_touch ==
  /\ surface_event("BTN_TOUCH") /\ ~send_msg
  /\ \/ cl_fd # NoClient /\ continue /\ UNCHANGED lost
     \/ cl_fd # NoClient /\ return /\ lost' = lost \cup {cl_fd}
     \/ cl_fd = NoClient /\ return /\ UNCHANGED lost
  /\ UNCHANGED <<pvt, belief>> /\ surface_rest
  /\ blind' = (blind \/ missed)

SurfaceNext ==
  \/ surface_moves \/ surface_syncs
  \/ abs_mt_slot \/ finger_down \/ finger_up \/ axis
  \/ leave_report \/ syn_report \/ btn_touch

-----------------------------------------------------------------------------

SurfaceTypeOK ==
  /\ kslot \in Slots
  /\ fingers \in [Slots -> Ids \cup {NoId}]
  /\ touches \in 0 .. MaxTouches
  /\ report \in Seq(MtEvent)
  /\ active_contact \in Contacts \cup {NoContact}
  /\ contact_ids \in [Contacts -> Ids \cup {NoId}]
  /\ contact_mag \in [Contacts -> {0, 1}]
  /\ {key_touch, send_msg, blind} \subseteq BOOLEAN
  /\ send_msg => pc = "events" /\ get_id(active_contact) # NoId

\* No touch stays on a client's screen: while input is not muted, the focused
\* client shows no contact that the driver holds released, but those it kept
\* through its last RESET, unless a write to it failed since or the devices
\* were flushed without a RESET (input.c:818-835, touchpaint.c:50-155).
NoGhostTouch ==
  screens # <<>> /\ ~g_input_muted =>
    LET c == Head(screens) IN
    \/ c \in lost \cup untold
    \/ \A k \in Contacts \cap held[c][surface] :
         contact_ids[k] # NoId \/ k \in kept[c][surface]

\* No finger is taken for another: whatever is read, flushed and dropped, an
\* event is put down to the contact with the number of the slot the kernel
\* means, unless that slot is beyond the contacts, was forgotten when its
\* finger went up (input.c:834), or its SLOT event was dropped; then it may
\* go to contact 0 or to the one before (input.c:801-816).
ContactIsSlot ==
  pc = "events" /\ self = surface /\ event.code # "SLOT"
    => blind \/ initial_contact = event.at

=============================================================================
