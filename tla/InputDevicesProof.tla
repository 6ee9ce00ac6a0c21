------------------------- MODULE InputDevicesProof -------------------------
(***************************************************************************)
(* Theorems about InputDevices, that is, about KeyInput, Surface and       *)
(* Trackpad together: for every set of clients, devices, keys and slots    *)
(* and every value of the bounds.                                          *)
(***************************************************************************)
EXTENDS InputDevices, SequenceTheorems, TLAPS

\* What is left when the first of a sequence, or one of it, is taken away.
LEMMA HeadTail ==
  ASSUME NEW S, NEW s \in Seq(S), s # <<>>
  PROVE  Head(s) \in S /\ Head(s) \in ToSet(s) /\ Tail(s) \in Seq(S)
  <1>1. Len(s) \in Nat /\ Len(s) > 0 /\ DOMAIN s = 1..Len(s)
    BY LenProperties, EmptySeq
  <1>2. Head(s) \in S /\ Tail(s) \in Seq(S) /\ Head(s) = s[1]
    BY HeadTailProperties
  <1>. QED  BY <1>1, <1>2 DEF ToSet

LEMMA Removed ==
  ASSUME NEW S, NEW s \in Seq(S), NEW i \in DOMAIN s
  PROVE  RemoveAt(s, i) \in Seq(S)
  <1>1. /\ DOMAIN s = 1..Len(s) /\ Len(s) \in Nat
        /\ \A k \in 1..Len(s) : s[k] \in S
    BY LenProperties, ElementOfSeq
  <1>2. SubSeq(s, 1, i - 1) \in Seq(S)
    <2>1. \A k \in 1..(i - 1) : s[k] \in S
      BY <1>1
    <2>. QED  BY <1>1, <2>1, SubSeqProperties
  <1>3. SubSeq(s, i + 1, Len(s)) \in Seq(S)
    <2>1. \A k \in (i + 1)..Len(s) : s[k] \in S
      BY <1>1
    <2>. QED  BY <1>1, <2>1, SubSeqProperties
  <1>. QED  BY <1>2, <1>3, ConcatProperties DEF RemoveAt

LEMMA EventQueues ==
  ASSUME NEW s \in Seq(Event), s # <<>>
  PROVE  /\ Head(s) \in Event /\ Tail(s) \in Seq(Event)
         /\ Head(s) \in KeyEvent =>
              Head(s).code \in Code /\ Head(s).val \in {Up, Down, Repeat}
         /\ Len(s) # 1 => Tail(s) # <<>>
  <1>1. Head(s) \in Event /\ Tail(s) \in Seq(Event) /\ Len(Tail(s)) = Len(s) - 1
    BY HeadTailProperties
  <1>2. Len(s) \in Nat /\ (Tail(s) = <<>> => Len(Tail(s)) = 0)
    BY <1>1, LenProperties, EmptySeq
  <1>. QED  BY <1>1, <1>2 DEF KeyEvent

\* What one read takes from a queue and what it leaves.
LEMMA ReadTyped ==
  ASSUME NEW S, NEW q \in Seq(S), NEW count,
         count = IF Len(q) < EV_BUF THEN Len(q) ELSE EV_BUF
  PROVE  /\ SubSeq(q, 1, count) \in Seq(S) /\ SubSeq(q, count + 1, Len(q)) \in Seq(S)
         /\ q # <<>> => SubSeq(q, 1, count) # <<>>
  <1>1. Len(q) \in Nat /\ EV_BUF \in Nat \ {0} /\ (q # <<>> => Len(q) # 0)
    BY LenProperties, EmptySeq, KeyAssumption
  <1>2. count \in Nat /\ count <= Len(q) /\ (q # <<>> => count >= 1)
    BY <1>1
  <1>3. \A i \in 1 .. count : q[i] \in S
    BY <1>2, <1>1, ElementOfSeq
  <1>4. \A i \in count + 1 .. Len(q) : q[i] \in S
    BY <1>2, <1>1, ElementOfSeq
  <1>5. SubSeq(q, 1, count) \in Seq(S) /\ Len(SubSeq(q, 1, count)) = count
    BY <1>1, <1>2, <1>3, SubSeqProperties
  <1>6. SubSeq(q, count + 1, Len(q)) \in Seq(S)
    BY <1>1, <1>2, <1>4, SubSeqProperties
  <1>7. q # <<>> => SubSeq(q, 1, count) # <<>>
    BY <1>2, <1>5, EmptySeq
  <1>. QED  BY <1>5, <1>6, <1>7

LEMMA ResetTyped ==
  ASSUME TypeOK, NEW c \in Clients, spr16_server_reset_client(c)
  PROVE  /\ held' \in [Clients -> HeldSets] /\ kept' \in [Clients -> HeldSets]
         /\ fresh' = NoKeys
         /\ lost' \subseteq Clients /\ untold' \subseteq Clients
         /\ c \in lost' \/ held'[c] = kept'[c]
         /\ NoKeys \in KeySets
  <1>1. NoKeys \in KeySets
    BY DEF NoKeys, KeySets
  <1>2. control_input(c) \in HeldSets
    BY DEF TypeOK, HeldSets, control_input
  <1>. QED  BY <1>1, <1>2 DEF TypeOK, spr16_server_reset_client, belief

LEMMA FlushTyped ==
  ASSUME input_flush_all_devices
  PROVE  /\ kqueue' \in [Devices -> Seq(Event)]
         /\ btn_down' \in KeySets
         /\ \A d \in Devices : btn_down'[d] = {}
  BY DEF input_flush_all_devices, NoKeys, KeySets

\* The main screen's client after main_screen_switch.
LEMMA RotateTyped ==
  ASSUME TypeOK, Len(screens) >= 2, screens' = Append(Tail(screens), Head(screens))
  PROVE  screens' \in Seq(Clients) /\ screens' # <<>> /\ Head(screens') \in Clients
  <1>1. screens \in Seq(Clients) /\ screens # <<>>
    BY LenProperties, EmptySeq DEF TypeOK
  <1>2. Head(screens) \in Clients /\ Tail(screens) \in Seq(Clients)
    BY <1>1, HeadTail
  <1>3. screens' \in Seq(Clients) /\ screens' # <<>>
    BY <1>2, AppendProperties
  <1>. QED  BY <1>3, HeadTail

\* What the handling of one event leaves of the call.
LEMMA CallTyped ==
  ASSUME TypeOK, pc = "events", return \/ continue
  PROVE  /\ pc' \in {"poll", "events"}
         /\ self' \in IF pc' = "poll" THEN {NoDevice} ELSE Devices
         /\ cl_fd' \in Clients \cup {NoClient}
         /\ events' \in Seq(Event)
         /\ (events' # <<>>) <=> (pc' = "events")
         /\ pc' = "events" => cl_fd' = cl_fd
  <1>1. events \in Seq(Event) /\ events # <<>> /\ self \in Devices
    BY DEF TypeOK
  <1>2. CASE return
    BY <1>2, EmptySeq DEF return
  <1>3. CASE continue /\ Len(events) # 1
    BY <1>1, <1>3, EventQueues DEF continue, TypeOK
  <1>. QED  BY <1>2, <1>3 DEF continue

\* set_input_msg and its two readers.
LEMMA KeyTyped ==
  ASSUME TypeOK, key_event
  PROVE  /\ self \in Devices /\ Head(events) \in KeyEvent
         /\ pc = "events" /\ Head(events).val \in {Up, Down, Repeat}
         /\ set_input_msg(Head(events)) \in KeySets
         /\ went_down(Head(events)) \in KeySets
         /\ \A c \in Clients : believe(c, Head(events)) =>
              held' \in [Clients -> HeldSets] /\ kept' \in [Clients -> HeldSets]
  <1>1. events \in Seq(Event) /\ events # <<>> /\ self \in Devices /\ pc = "events"
    BY DEF TypeOK, key_event
  <1>2. Head(events) \in KeyEvent /\ Head(events).code \in Code
        /\ Head(events).val \in {Up, Down, Repeat}
    BY <1>1, EventQueues DEF key_event
  <1>3. ASSUME NEW c \in Clients, believe(c, Head(events))
        PROVE  held' \in [Clients -> HeldSets] /\ kept' \in [Clients -> HeldSets]
    <2>1. held' \in [Clients -> HeldSets]
      BY <1>1, <1>2, <1>3 DEF TypeOK, HeldSets, believe
    <2>2. kept' \in [Clients -> HeldSets]
      BY <1>1, <1>2, <1>3 DEF TypeOK, HeldSets, believe
    <2>. QED  BY <2>1, <2>2
  <1>. QED  BY <1>1, <1>2, <1>3 DEF TypeOK, KeySets, set_input_msg, went_down

-----------------------------------------------------------------------------
(* Types of the keyboards' part.                                           *)

LEMMA InitTyped == Init => TypeOK
  <1>. SUFFICES ASSUME Init  PROVE TypeOK
    OBVIOUS
  <1>1. NoKeys \in KeySets /\ NoKeys \in HeldSets
    BY DEF NoKeys, KeySets, HeldSets
  <1>. QED  BY <1>1, EmptySeq, KeyAssumption DEF Init, TypeOK

LEMMA TypeStep == TypeOK /\ [Next]_vars => TypeOK'
  <1>. SUFFICES ASSUME TypeOK, [Next]_vars  PROVE TypeOK'
    OBVIOUS
  <1>. USE DEF kernel, signals, call, belief, history
  <1>1. ASSUME NEW d \in Devices, type(d)  PROVE TypeOK'
    <2>1. PICK k \in Codes[d], v \in {Up, Down, Repeat} :
            /\ pressed' = [pressed EXCEPT ![d] = IF v = Up THEN @ \ {k} ELSE @ \cup {k}]
            /\ kqueue' = [kqueue EXCEPT ![d] =
                 Append(@, [code |-> k, val |-> v])]
      BY <1>1 DEF type
    <2>2. k \in Code
      BY DEF Code
    <2>3. [code |-> k, val |-> v] \in Event
      BY <2>2 DEF Event, KeyEvent
    <2>4. pressed' \in KeySets /\ kqueue' \in [Devices -> Seq(Event)]
      BY <2>1, <2>2, <2>3, AppendProperties DEF TypeOK, KeySets
    <2>5. typed' \in Nat
      BY <1>1, KeyAssumption DEF type, TypeOK
    <2>. QED  BY <1>1, <2>4, <2>5 DEF type, TypeOK
  <1>17. ASSUME NEW d \in Devices, unplug(d)  PROVE TypeOK'
    <2>1. pressed' \in KeySets
      BY <1>17 DEF unplug, TypeOK, KeySets
    <2>2. kqueue' \in [Devices -> Seq(Event)]
      BY <1>17, EmptySeq DEF unplug, TypeOK
    <2>. QED  BY <1>17, <2>1, <2>2 DEF unplug, TypeOK
  <1>2. ASSUME NEW d \in Devices, input_ready(d)  PROVE TypeOK'
    <2>1. get_focused_client \in Clients \cup {NoClient}
      BY HeadTail DEF get_focused_client, TypeOK
    <2>. QED  BY <1>2, <2>1 DEF input_ready, TypeOK
  <1>3. CASE vt_acquire
    BY <1>3 DEF vt_acquire, TypeOK
  <1>4. CASE vt_release
    <2>1. switches' \in 0 .. MaxSwitches
      BY <1>4, KeyAssumption DEF vt_release, TypeOK
    <2>. QED  BY <1>4, <2>1 DEF vt_release, TypeOK
  <1>5. ASSUME NEW c \in Clients, server_connect_client(c)  PROVE TypeOK'
    <2>1. screens' \in Seq(Clients)
      BY <1>5, AppendProperties DEF server_connect_client, TypeOK
    <2>2. held' \in [Clients -> HeldSets] /\ kept' \in [Clients -> HeldSets]
      BY <1>5 DEF server_connect_client, TypeOK, NoKeys, HeldSets
    <2>. QED  BY <1>5, <2>1, <2>2 DEF server_connect_client, TypeOK
  <1>6. CASE server_remove_client
    <2>1. screens' \in Seq(Clients)
      BY <1>6, Removed DEF server_remove_client, TypeOK
    <2>2. ToSet(screens') \subseteq Clients
      BY <2>1, ElementOfSeq, LenProperties DEF ToSet
    <2>. QED  BY <1>6, <2>1, <2>2, FlushTyped DEF server_remove_client, TypeOK
  <1>7. CASE update_state
    BY <1>7 DEF update_state, TypeOK
  <1>8. CASE update_state_unmute
    <2>1. /\ held' \in [Clients -> HeldSets] /\ kept' \in [Clients -> HeldSets]
          /\ fresh' \in KeySets
          /\ lost' \subseteq Clients /\ untold' \subseteq Clients
      BY <1>8, HeadTail, ResetTyped DEF update_state_unmute, TypeOK
    <2>. QED  BY <1>8, <2>1, FlushTyped DEF update_state_unmute, TypeOK
  <1>9. CASE read_events
    <2>. DEFINE q == kqueue[self]
                count == IF Len(q) < EV_BUF THEN Len(q) ELSE EV_BUF
    <2>1. q \in Seq(Event) /\ self \in Devices /\ pc = "read"
      BY <1>9 DEF read_events, TypeOK
    <2>2. /\ q = <<>> => return
          /\ q # <<>> => pc' = "active" /\ events' = SubSeq(q, 1, count) /\ UNCHANGED <<self, cl_fd>>
          /\ kqueue' = [kqueue EXCEPT ![self] = SubSeq(q, count + 1, Len(q))]
          /\ gone' = gone \ {self}
          /\ UNCHANGED <<plugged, pressed, vt_ours, typed, switches, signals, g_running,
                         screens, btn_down, belief, history>>
      BY <1>9 DEF read_events
    <2>3. /\ SubSeq(q, 1, count) \in Seq(Event) /\ SubSeq(q, count + 1, Len(q)) \in Seq(Event)
          /\ q # <<>> => SubSeq(q, 1, count) # <<>>
      BY <2>1, ReadTyped
    <2>4. kqueue' \in [Devices -> Seq(Event)]
      BY <2>1, <2>2, <2>3 DEF TypeOK
    <2>5. /\ pc' \in {"poll", "active"}
          /\ (pc' = "active") <=> (events' # <<>>)
          /\ self' \in IF pc' = "poll" THEN {NoDevice} ELSE Devices
          /\ cl_fd' \in Clients \cup {NoClient} /\ events' \in Seq(Event)
      BY <2>1, <2>2, <2>3, EmptySeq DEF return, TypeOK
    <2>6. /\ (events' # <<>>) <=> (pc' \in {"active", "events"})
          /\ pc' \in {"poll", "update", "unmute", "read", "active", "events", "tap"}
      BY <2>5
    <2>. HIDE DEF q, count
    <2>. QED  BY <2>2, <2>4, <2>5, <2>6 DEF TypeOK
  <1>10. CASE server_is_active
    BY <1>10, EmptySeq DEF server_is_active, return, TypeOK
  <1>11. CASE key_ignored
    BY <1>11, CallTyped DEF key_ignored, key_event, TypeOK
  <1>12. CASE key_forwarded
    <2>1. return \/ continue
      BY <1>12 DEF key_forwarded
    <2>2. /\ held' \in [Clients -> HeldSets] /\ kept' \in [Clients -> HeldSets]
          /\ lost' \subseteq Clients
      BY <1>12, KeyTyped DEF key_forwarded, TypeOK
    <2>. QED  BY <1>12, <2>1, <2>2, CallTyped, KeyTyped DEF key_forwarded, TypeOK
  <1>13. CASE key_vt_switch
    BY <1>13, CallTyped, KeyTyped DEF key_vt_switch, TypeOK
  <1>14. CASE key_axe
    BY <1>14, CallTyped, KeyTyped DEF key_axe, TypeOK
  <1>15. CASE key_next_screen
    <2>1. CASE Len(screens) < 2
      BY <1>15, <2>1, CallTyped, KeyTyped DEF key_next_screen, TypeOK
    <2>2. CASE ~(Len(screens) < 2)
      <3>1. main_screen_switch /\ screens \in Seq(Clients)
        BY <1>15, <2>2 DEF key_next_screen, TypeOK
      <3>2. Len(screens) >= 2
        BY <2>2, <3>1, LenProperties
      <3>3. /\ screens' = Append(Tail(screens), Head(screens))
            /\ input_flush_all_devices
            /\ spr16_server_reset_client(Head(screens'))
        BY <2>2, <3>1 DEF main_screen_switch
      <3>4. screens' \in Seq(Clients) /\ Head(screens') \in Clients
        BY <3>2, <3>3, RotateTyped
      <3>5. /\ held' \in [Clients -> HeldSets] /\ kept' \in [Clients -> HeldSets]
            /\ fresh' \in KeySets
            /\ lost' \subseteq Clients /\ untold' \subseteq Clients
        BY <3>3, <3>4, ResetTyped
      <3>. QED  BY <1>15, <3>3, <3>4, <3>5, FlushTyped, CallTyped
                DEF key_next_screen, key_event, TypeOK
    <2>. QED  BY <2>1, <2>2
  <1>16. CASE UNCHANGED vars
    BY <1>16 DEF vars, TypeOK
  <1>. QED  BY <1>1, <1>2, <1>3, <1>4, <1>5, <1>6, <1>7, <1>8, <1>9, <1>10, <1>11,
               <1>12, <1>13, <1>14, <1>15, <1>16, <1>17 DEF Next, Around, Server, Key

-----------------------------------------------------------------------------
(* Types of the surface and the trackpad.  A device only ever reports its  *)
(* own events, and a message is pending only while the surface is read.    *)

OwnEvents ==
  /\ kqueue[surface] \in Seq(SurfaceEvent) /\ kqueue[trackpad] \in Seq(PadEvent)
  /\ self = surface  => events \in Seq(SurfaceEvent)
  /\ self = trackpad => events \in Seq(PadEvent)
  /\ send_msg => self = surface

Typed == InputTypeOK /\ OwnEvents

LEMMA Kinds ==
  /\ surface \in Devices /\ trackpad \in Devices /\ surface # trackpad
  /\ NoDevice \notin {surface, trackpad} /\ NoClient \notin Clients
  /\ SurfaceEvent \cap KeyEvent = {} /\ PadEvent \cap KeyEvent = {}
  /\ SurfaceEvent \subseteq Event /\ PadEvent \subseteq Event /\ MtEvent \subseteq SurfaceEvent
  /\ Contacts \subseteq Touches /\ {CONTACT, SBTN} \subseteq Touches /\ CONTACT # SBTN
  /\ Code \cap Touches = {}
  /\ 0 \in Contacts /\ NoContact \notin Contacts /\ NoId \notin Ids
  /\ <<>> \in Seq(SurfaceEvent) /\ <<>> \in Seq(PadEvent) /\ <<>> \in Seq(Event)
  /\ <<>> \in Seq(MtEvent)
  <1>1. 0 \in Contacts /\ NoContact \notin Contacts
    BY SurfaceAssumption DEF Contacts, NoContact
  <1>. QED
    BY <1>1, SurfaceAssumption, PadAssumption, DevicesAssumption, KeyAssumption, EmptySeq
       DEF Event, SurfaceEvent

\* The call, after an event.
LEMMA OwnCall ==
  ASSUME Typed, pc = "events", return \/ continue
  PROVE  /\ self' = surface  => events' \in Seq(SurfaceEvent)
         /\ self' = trackpad => events' \in Seq(PadEvent)
         /\ pc' # "tap"
         /\ ~(Len(events) > 1) => pc' = "poll"
         /\ Len(events) > 1 => self' = self \/ return
  <1>1. events # <<>> /\ events \in Seq(Event) /\ Len(events) \in Nat \ {0}
    BY LenProperties, EmptySeq DEF Typed, InputTypeOK, TypeOK
  <1>2. CASE return
    BY <1>2, Kinds DEF return
  <1>3. CASE Len(events) # 1 /\ events' = Tail(events) /\ UNCHANGED <<pc, self, cl_fd>>
    <2>1. self = surface => events' \in Seq(SurfaceEvent)
      BY <1>1, <1>3, HeadTail DEF Typed, OwnEvents
    <2>2. self = trackpad => events' \in Seq(PadEvent)
      BY <1>1, <1>3, HeadTail DEF Typed, OwnEvents
    <2>3. \A n \in Nat \ {0} : n # 1 => n > 1
      OBVIOUS
    <2>4. Len(events) > 1
      BY <1>1, <1>3, <2>3
    <2>. QED  BY <1>3, <2>1, <2>2, <2>4
  <1>. QED  BY <1>1, <1>2, <1>3 DEF continue

LEMMA InputInitTyped == InputInit => Typed
  <1>. SUFFICES ASSUME InputInit  PROVE Typed
    OBVIOUS
  <1>1. TypeOK /\ OwnEvents
    BY InitTyped, Kinds DEF InputInit, Init, OwnEvents, SurfaceInit
  <1>2. SurfaceTypeOK
    BY Kinds, SurfaceAssumption DEF InputInit, SurfaceInit, SurfaceTypeOK, NoFinger
  <1>3. PadTypeOK
    <2>1. pc = "poll"
      BY DEF InputInit, Init
    <2>2. PadInit
      BY DEF InputInit
    <2>3. resting \in 0 .. 2 /\ tap_reacquire \in 0 .. 4
      BY <2>2 DEF PadInit
    <2>4. {tap_check, late} \subseteq BOOLEAN /\ seen \subseteq {CONTACT, SBTN}
      BY <2>2 DEF PadInit
    <2>. QED  BY <2>1, <2>3, <2>4 DEF PadTypeOK
  <1>. QED  BY <1>1, <1>2, <1>3 DEF Typed, InputTypeOK

\* A key event is not of the surface or the trackpad.
LEMMA KeysElsewhere ==
  ASSUME Typed, key_event
  PROVE  self \notin {surface, trackpad} /\ ~send_msg /\ pc = "events"
  <1>1. events # <<>> /\ pc = "events" /\ Head(events) \in KeyEvent
    BY DEF Typed, InputTypeOK, TypeOK, key_event
  <1>2. self = surface => Head(events) \in SurfaceEvent
    BY <1>1, HeadTail DEF Typed, OwnEvents
  <1>3. self = trackpad => Head(events) \in PadEvent
    BY <1>1, HeadTail DEF Typed, OwnEvents
  <1>. QED  BY <1>1, <1>2, <1>3, Kinds DEF Typed, OwnEvents

LEMMA KeyStepTyped ==
  ASSUME Typed, [Next]_vars, UNCHANGED <<hardware, pvt, pad_vars>>, blind' \in BOOLEAN
  PROVE  Typed'
  <1>. USE DEF kernel, signals, call, belief, history
  <1>1. TypeOK'
    BY TypeStep DEF Typed, InputTypeOK
  <1>2. /\ UNCHANGED <<kslot, fingers, touches, report, active_contact,
                       contact_ids, contact_mag, key_touch, send_msg>>
        /\ UNCHANGED <<resting, tap_check, tap_reacquire, seen, late>>
    BY DEF hardware, pvt, pad_vars
  \* What is left to show.
  <1>. SUFFICES /\ OwnEvents'
                /\ send_msg => pc' = "events"
                /\ pc' = "tap" => self' = trackpad /\ events' = <<>>
    BY <1>1, <1>2 DEF Typed, InputTypeOK, SurfaceTypeOK, PadTypeOK, get_id
  <1>3. /\ send_msg => pc = "events" /\ self = surface
        /\ pc = "tap" => self = trackpad /\ events = <<>>
    BY DEF Typed, InputTypeOK, SurfaceTypeOK, PadTypeOK, OwnEvents
  <1>4. CASE UNCHANGED <<kqueue, call>>
    BY <1>2, <1>3, <1>4 DEF OwnEvents, Typed
  <1>5. CASE input_flush_all_devices /\ UNCHANGED call
    <2>1. kqueue'[surface] = <<>> /\ kqueue'[trackpad] = <<>>
      BY <1>5, Kinds DEF input_flush_all_devices
    <2>. QED  BY <1>2, <1>3, <1>5, <2>1, Kinds DEF OwnEvents, Typed
  <1>6. ASSUME NEW d \in Devices, type(d)  PROVE OwnEvents' /\ UNCHANGED call
    <2>1. d \notin {surface, trackpad}
      BY <1>6, SurfaceAssumption, PadAssumption DEF type
    <2>2. kqueue'[surface] = kqueue[surface] /\ kqueue'[trackpad] = kqueue[trackpad]
      BY <1>6, <2>1, Kinds DEF type, Typed, InputTypeOK, TypeOK
    <2>. QED  BY <1>2, <1>6, <2>2 DEF OwnEvents, Typed, type
  <1>18. ASSUME NEW d \in Devices, unplug(d)  PROVE OwnEvents' /\ UNCHANGED call
    <2>1. kqueue'[surface] \in {<<>>, kqueue[surface]} /\ kqueue'[trackpad] \in {<<>>, kqueue[trackpad]}
      BY <1>18, Kinds DEF unplug, Typed, InputTypeOK, TypeOK
    <2>2. kqueue'[surface] \in Seq(SurfaceEvent) /\ kqueue'[trackpad] \in Seq(PadEvent)
      BY <2>1, Kinds DEF Typed, OwnEvents
    <2>. QED  BY <1>2, <1>18, <2>2 DEF OwnEvents, Typed, unplug
  <1>7. ASSUME NEW d \in Devices, input_ready(d)
        PROVE  OwnEvents' /\ ~send_msg /\ pc' = "update"
    <2>1. events' = <<>> /\ kqueue' = kqueue /\ ~send_msg /\ pc' = "update"
      BY <1>3, <1>7 DEF input_ready, Typed, InputTypeOK, TypeOK
    <2>. QED  BY <1>2, <2>1, Kinds DEF OwnEvents, Typed
  <1>8. CASE update_state
    BY <1>2, <1>3, <1>8 DEF update_state, OwnEvents, Typed
  <1>9. CASE update_state_unmute
    <2>1. /\ input_flush_all_devices /\ UNCHANGED <<self, events>>
          /\ ~send_msg /\ pc' = "read"
      BY <1>3, <1>9 DEF update_state_unmute
    <2>2. kqueue'[surface] = <<>> /\ kqueue'[trackpad] = <<>>
      BY <2>1, Kinds DEF input_flush_all_devices
    <2>. QED  BY <1>2, <2>1, <2>2, Kinds DEF OwnEvents, Typed
  <1>10. CASE read_events
    <2>. DEFINE q == kqueue[self]
                count == IF Len(q) < EV_BUF THEN Len(q) ELSE EV_BUF
                took == SubSeq(q, 1, count)
                left == SubSeq(q, count + 1, Len(q))
    <2>1. /\ pc = "read" /\ self \in Devices /\ ~send_msg /\ kqueue \in [Devices -> Seq(Event)]
          /\ kqueue' = [kqueue EXCEPT ![self] = left]
          /\ q = <<>> => return
          /\ q # <<>> => pc' = "active" /\ events' = took /\ self' = self
      BY <1>3, <1>10 DEF read_events, Typed, InputTypeOK, TypeOK
    <2>2. ASSUME NEW S, q \in Seq(S)  PROVE took \in Seq(S) /\ left \in Seq(S)
      BY <2>2, ReadTyped
    <2>3. self = surface => took \in Seq(SurfaceEvent) /\ left \in Seq(SurfaceEvent)
      BY <2>2 DEF Typed, OwnEvents
    <2>4. self = trackpad => took \in Seq(PadEvent) /\ left \in Seq(PadEvent)
      BY <2>2 DEF Typed, OwnEvents
    <2>5. kqueue'[surface] \in Seq(SurfaceEvent) /\ kqueue'[trackpad] \in Seq(PadEvent)
      <3>. HIDE DEF left
      <3>. QED  BY <2>1, <2>3, <2>4, Kinds DEF Typed, OwnEvents
    <2>6. CASE q = <<>>
      BY <1>2, <2>1, <2>5, <2>6, Kinds DEF OwnEvents, return
    <2>7. CASE q # <<>>
      <3>. HIDE DEF took, left, q
      <3>. QED  BY <1>2, <2>1, <2>3, <2>4, <2>5, <2>7 DEF OwnEvents
    <2>. QED  BY <2>6, <2>7
  <1>11. CASE server_is_active
    <2>1. /\ UNCHANGED kqueue /\ ~send_msg
          /\ return \/ (pc' = "events" /\ UNCHANGED <<self, events>>)
      BY <1>3, <1>11 DEF server_is_active
    <2>. QED  BY <1>2, <2>1, Kinds DEF OwnEvents, Typed, return
  <1>12. ASSUME key_event, return \/ continue, UNCHANGED kqueue \/ input_flush_all_devices
         PROVE  OwnEvents' /\ ~send_msg /\ pc' # "tap"
    <2>1. kqueue'[surface] \in Seq(SurfaceEvent) /\ kqueue'[trackpad] \in Seq(PadEvent)
      BY <1>12, Kinds DEF input_flush_all_devices, OwnEvents, Typed
    <2>. QED  BY <1>2, <1>12, <2>1, KeysElsewhere, OwnCall DEF OwnEvents
  <1>13. CASE Key \/ key_ignored
    <2>1. /\ key_event /\ (return \/ continue)
          /\ UNCHANGED kqueue \/ input_flush_all_devices
      BY <1>13 DEF Key, key_ignored, key_forwarded, key_vt_switch, key_axe, key_next_screen,
                   main_screen_switch
    <2>. QED  BY <1>12, <2>1
  <1>14. CASE vt_acquire \/ vt_release
    BY <1>4, <1>14 DEF vt_acquire, vt_release
  <1>15. ASSUME NEW c \in Clients, server_connect_client(c)  PROVE UNCHANGED <<kqueue, call>>
    BY <1>15 DEF server_connect_client
  <1>16. CASE server_remove_client
    BY <1>5, <1>16 DEF server_remove_client
  <1>17. CASE UNCHANGED vars
    BY <1>4, <1>17 DEF vars
  <1>. QED
    BY <1>3, <1>4, <1>6, <1>7, <1>8, <1>9, <1>10, <1>11, <1>13, <1>14, <1>15, <1>16, <1>17,
       <1>18
       DEF Next, Around, Server

\* One event of the surface, and what is written of a contact.
LEMMA SurfaceEvents ==
  ASSUME Typed, NEW code, surface_event(code)
  PROVE  /\ pc = "events" /\ self = surface /\ event \in SurfaceEvent
         /\ code = "SLOT" => event.val \in Slots
         /\ code = "TRACKING_ID" => event.val \in Ids \cup {NoId}
         /\ code = "MAGNITUDE" => event.val \in {0, 1}
         /\ code # "SLOT" => event.at \in Slots
  <1>1. events # <<>> /\ pc = "events" /\ self = surface /\ events \in Seq(SurfaceEvent)
        /\ event.code = code
    BY DEF surface_event, Typed, InputTypeOK, TypeOK, OwnEvents
  <1>2. event \in SurfaceEvent
    BY <1>1, HeadTail DEF event
  <1>. QED
    BY <1>1, <1>2 DEF SurfaceEvent, MtEvent, EndEvent, SlotEvent, IdEvent, AxisEvent

\* What clients believe, typed.
BeliefTyped == held \in [Clients -> HeldSets] /\ kept \in [Clients -> HeldSets]

LEMMA ContactTyped ==
  ASSUME Typed, NEW k \in Contacts, NEW mag, write_contact(k, mag)
  PROVE  BeliefTyped' /\ lost' \subseteq Clients
  <1>. USE DEF belief, BeliefTyped
  <1>1. CASE UNCHANGED <<belief, lost>>
    BY <1>1 DEF Typed, InputTypeOK, TypeOK
  <1>2. CASE cl_fd # NoClient /\ update_contact(cl_fd, k, mag) /\ UNCHANGED lost
    <2>1. cl_fd \in Clients /\ k \in Touches /\ surface \in Devices
          /\ held \in [Clients -> [Devices -> SUBSET (Code \cup Touches)]]
          /\ kept \in [Clients -> [Devices -> SUBSET (Code \cup Touches)]] /\ lost' \subseteq Clients
      BY <1>2, Kinds DEF Typed, InputTypeOK, TypeOK, HeldSets
    <2>2. held' \in [Clients -> HeldSets]
      BY <1>2, <2>1 DEF update_contact, HeldSets
    <2>3. kept' \in [Clients -> HeldSets]
      BY <1>2, <2>1 DEF update_contact, HeldSets
    <2>. QED  BY <2>1, <2>2, <2>3
  <1>3. CASE cl_fd # NoClient /\ lost' = lost \cup {cl_fd} /\ UNCHANGED belief
    BY <1>3 DEF Typed, InputTypeOK, TypeOK
  <1>. QED  BY <1>1, <1>2, <1>3 DEF write_contact

\* What every handler of consume_surface_report leaves typed.
LEMMA HandlerTyped ==
  ASSUME Typed, pc = "events", self = surface, return \/ continue, surface_rest,
         UNCHANGED pad_vars, BeliefTyped', lost' \subseteq Clients
  PROVE  /\ TypeOK' /\ PadTypeOK'
         /\ (send_msg' => self' = surface) => OwnEvents'
  <1>1. TypeOK'
    <2>1. UNCHANGED <<plugged, gone, pressed, kqueue, vt_ours, typed, switches, is_active,
            g_input_muted, g_unmute_input, g_running, screens, btn_down, untold, fresh>>
      BY DEF surface_rest, kernel, signals
    <2>. QED  BY <2>1, CallTyped DEF TypeOK, Typed, InputTypeOK, BeliefTyped
  <1>2. PadTypeOK'
    BY OwnCall DEF pad_vars, PadTypeOK, Typed, InputTypeOK
  <1>3. UNCHANGED kqueue
    BY DEF surface_rest, kernel
  <1>. QED  BY <1>1, <1>2, <1>3, OwnCall DEF OwnEvents, Typed

LEMMA ConsumeTyped ==
  ASSUME Typed, pc = "events", self = surface, NEW pending, consume(pending)
  PROVE  /\ return \/ continue
         /\ send_msg' \in BOOLEAN
         /\ send_msg' => pc' = "events" /\ self' = surface /\ pending
  <1>1. events # <<>> /\ Len(events) \in Nat \ {0}
    BY LenProperties, EmptySeq DEF Typed, InputTypeOK, TypeOK
  <1>2. Len(events) > 1 => Len(events) # 1
    BY <1>1
  <1>. QED  BY <1>1, <1>2 DEF consume, continue

\* get_id of the active contact, when there is a message about it.
LEMMA ActiveTyped ==
  ASSUME Typed
  PROVE  /\ active_contact \in Contacts \cup {NoContact}
         /\ initial_contact \in Contacts
         /\ get_id(active_contact) # NoId =>
              active_contact \in Contacts /\ contact_ids[active_contact] # NoId
         /\ send_msg => get_id(active_contact) # NoId
         /\ contact_ids \in [Contacts -> Ids \cup {NoId}] /\ contact_mag \in [Contacts -> {0, 1}]
         /\ send_msg \in BOOLEAN /\ blind \in BOOLEAN
  BY Kinds DEF Typed, InputTypeOK, SurfaceTypeOK, get_id, initial_contact

LEMMA HandleTyped ==
  ASSUME Typed, abs_mt_slot \/ finger_down \/ finger_up \/ axis \/ leave_report
                \/ syn_report \/ btn_touch,
         UNCHANGED pad_vars
  PROVE  Typed'
  <1>. USE ActiveTyped
  <1>1. /\ pc = "events" /\ self = surface /\ surface_rest
        /\ UNCHANGED <<kslot, fingers, touches, report, key_touch>>
    BY DEF abs_mt_slot, finger_down, finger_up, axis, leave_report, syn_report, btn_touch,
           handle_id, surface_event, surface_rest, hardware
  <1>2. /\ kslot' \in Slots /\ fingers' \in [Slots -> Ids \cup {NoId}]
        /\ touches' \in 0 .. MaxTouches /\ report' \in Seq(MtEvent) /\ key_touch' \in BOOLEAN
    BY <1>1 DEF Typed, InputTypeOK, SurfaceTypeOK
  <1>3. BeliefTyped /\ lost \subseteq Clients
    BY DEF Typed, InputTypeOK, TypeOK, BeliefTyped
  <1>b. UNCHANGED belief => BeliefTyped'
    BY <1>3 DEF belief, BeliefTyped
  \* What each handler has to show.
  <1>4. ASSUME return \/ continue, BeliefTyped', lost' \subseteq Clients,
               active_contact' \in Contacts \cup {NoContact},
               contact_ids' \in [Contacts -> Ids \cup {NoId}],
               contact_mag' \in [Contacts -> {0, 1}],
               send_msg' \in BOOLEAN, blind' \in BOOLEAN,
               send_msg' => /\ pc' = "events" /\ self' = surface
                            /\ active_contact' \in Contacts
                            /\ contact_ids'[active_contact'] # NoId
        PROVE  Typed'
    <2>1. TypeOK' /\ PadTypeOK' /\ OwnEvents'
      BY <1>1, <1>4, HandlerTyped
    <2>2. SurfaceTypeOK'
      BY <1>2, <1>4 DEF SurfaceTypeOK, get_id
    <2>. QED  BY <2>1, <2>2 DEF Typed, InputTypeOK
  <1>5. CASE abs_mt_slot
    <2>1. event.val \in Slots
      BY <1>5, SurfaceEvents DEF abs_mt_slot
    <2>2. BeliefTyped' /\ lost' \subseteq Clients
      BY <1>3, <1>b, <1>5, ContactTyped DEF abs_mt_slot
    <2>3. (return \/ continue) /\ send_msg' = FALSE
      BY <1>1, <1>5, ConsumeTyped DEF abs_mt_slot
    <2>4. /\ active_contact' \in Contacts \cup {NoContact}
          /\ contact_mag' \in [Contacts -> {0, 1}]
      BY <1>5 DEF abs_mt_slot
    <2>5. blind' \in BOOLEAN /\ UNCHANGED contact_ids
      BY <1>5 DEF abs_mt_slot
    <2>. QED  BY <1>4, <2>2, <2>3, <2>4, <2>5
  <1>6. ASSUME handle_id
        PROVE  /\ contact_ids' \in [Contacts -> Ids \cup {NoId}]
               /\ contact_ids'[initial_contact] = event.val
    <2>1. event.val \in Ids \cup {NoId}
      BY <1>6, SurfaceEvents DEF handle_id
    <2>. QED  BY <1>6, <2>1 DEF handle_id
  <1>7. CASE finger_down
    <2>1. /\ return \/ continue
          /\ send_msg' \in BOOLEAN
          /\ send_msg' => pc' = "events" /\ self' = surface
      BY <1>1, <1>7, ConsumeTyped DEF finger_down
    <2>2. /\ active_contact' = initial_contact /\ contact_mag' = contact_mag
          /\ contact_ids'[initial_contact] # NoId
      BY <1>6, <1>7 DEF finger_down
    <2>. QED  BY <1>3, <1>b, <1>4, <1>6, <1>7, <2>1, <2>2 DEF finger_down
  <1>8. CASE finger_up
    <2>1. (return \/ continue) /\ send_msg' = FALSE
      BY <1>1, <1>8, ConsumeTyped DEF finger_up
    <2>2. BeliefTyped' /\ lost' \subseteq Clients
      BY <1>8, ContactTyped DEF finger_up
    <2>3. active_contact' \in Contacts \cup {NoContact} /\ contact_mag' \in [Contacts -> {0, 1}]
      BY <1>8 DEF finger_up
    <2>. QED  BY <1>4, <1>6, <1>8, <2>1, <2>2, <2>3 DEF finger_up
  <1>9. CASE axis
    <2>1. UNCHANGED <<active_contact, contact_ids, blind, belief, lost>>
      BY <1>9 DEF axis
    <2>2. CASE get_id(active_contact) = NoId
      <3>1. (return \/ continue) /\ send_msg' = FALSE /\ contact_mag' = contact_mag
        BY <1>1, <1>9, <2>2, ConsumeTyped DEF axis
      <3>. QED  BY <1>3, <1>b, <1>4, <2>1, <3>1
    <2>3. CASE get_id(active_contact) # NoId
      <3>1. /\ return \/ continue
            /\ send_msg' \in BOOLEAN /\ (send_msg' => pc' = "events" /\ self' = surface)
        BY <1>1, <1>9, <2>3, ConsumeTyped DEF axis
      <3>2. event.code # "POSITION" => event.val \in {0, 1}
        BY <1>9, SurfaceEvents DEF axis, surface_event
      <3>3. contact_mag' \in [Contacts -> {0, 1}]
        BY <1>9, <2>3, <3>2 DEF axis
      <3>. QED  BY <1>3, <1>b, <1>4, <2>1, <2>3, <3>1, <3>3
    <2>. QED  BY <2>2, <2>3
  <1>10. CASE leave_report
    \* The event itself is left to the next step.
    <2>1. /\ UNCHANGED <<call, active_contact, contact_ids, contact_mag, blind>>
          /\ send_msg' = FALSE
      BY <1>10 DEF leave_report
    <2>2. BeliefTyped' /\ lost' \subseteq Clients
      BY <1>3, <1>b, <1>10, ContactTyped DEF leave_report
    <2>3. TypeOK' /\ PadTypeOK' /\ OwnEvents'
      BY <1>1, <2>1, <2>2
         DEF surface_rest, kernel, signals, call, pad_vars, Typed, InputTypeOK, TypeOK, PadTypeOK,
             OwnEvents, BeliefTyped
    <2>4. SurfaceTypeOK'
      BY <1>2, <2>1 DEF SurfaceTypeOK
    <2>. QED  BY <2>3, <2>4 DEF Typed, InputTypeOK
  <1>11. CASE syn_report
    <2>1. (return \/ continue) /\ send_msg' = FALSE
      BY <1>1, <1>11, ConsumeTyped DEF syn_report
    <2>. QED  BY <1>3, <1>b, <1>4, <1>11, <2>1 DEF syn_report
  <1>12. CASE btn_touch
    <2>1. /\ return \/ continue
          /\ send_msg' = FALSE /\ UNCHANGED belief /\ lost' \subseteq Clients
          /\ UNCHANGED <<active_contact, contact_ids, contact_mag>> /\ blind' \in BOOLEAN
      BY <1>3, <1>12 DEF btn_touch, pvt, Typed, InputTypeOK, TypeOK
    <2>. QED  BY <1>3, <1>b, <1>4, <2>1
  <1>. QED  BY <1>5, <1>7, <1>8, <1>9, <1>10, <1>11, <1>12

\* The kernel's part of the surface.
LEMMA MovesTyped ==
  ASSUME Typed, surface_moves, UNCHANGED pad_vars
  PROVE  Typed'
  <1>1. /\ report \in Seq(MtEvent) /\ kslot \in Slots /\ touches \in 0 .. MaxTouches
        /\ fingers \in [Slots -> Ids \cup {NoId}] /\ typed \in Nat
    BY DEF Typed, InputTypeOK, TypeOK, SurfaceTypeOK
  <1>2. ASSUME NEW s \in Slots, NEW es \in Seq(MtEvent), NEW f \in Ids \cup {NoId},
               update(s, es, f)
        PROVE  /\ report' \in Seq(MtEvent) /\ kslot' \in Slots
               /\ fingers' \in [Slots -> Ids \cup {NoId}]
    <2>1. <<[code |-> "SLOT", val |-> s]>> \in Seq(MtEvent)
      <3>1. [code |-> "SLOT", val |-> s] \in MtEvent
        BY DEF MtEvent, SlotEvent
      <3>. QED  BY <3>1
    <2>2. (IF s = kslot THEN <<>> ELSE <<[code |-> "SLOT", val |-> s]>>) \in Seq(MtEvent)
      BY <2>1, Kinds
    <2>3. report' \in Seq(MtEvent)
      BY <1>1, <1>2, <2>2, ConcatProperties DEF update
    <2>. QED  BY <1>1, <1>2, <2>3 DEF update
  <1>3. ASSUME NEW s \in Slots
        PROVE  /\ position(s) \in Seq(MtEvent)
               /\ \A m \in {0, 1} : pressure(s, m) \in Seq(MtEvent)
               /\ \A id \in Ids \cup {NoId} : tracking(s, id) \in Seq(MtEvent)
    <2>1. \A m \in {0, 1} : [code |-> "MAGNITUDE", val |-> m, at |-> s] \in MtEvent
      BY DEF MtEvent, AxisEvent
    <2>2. [code |-> "POSITION", val |-> 0, at |-> s] \in MtEvent
      BY DEF MtEvent, AxisEvent
    <2>3. \A id \in Ids \cup {NoId} : [code |-> "TRACKING_ID", val |-> id, at |-> s] \in MtEvent
      BY DEF MtEvent, IdEvent
    <2>. QED  BY <2>1, <2>2, <2>3 DEF position, pressure, tracking
  <1>4. ASSUME NEW s \in Slots, touch(s) \/ move(s) \/ lift(s)
        PROVE  /\ report' \in Seq(MtEvent) /\ kslot' \in Slots
               /\ fingers' \in [Slots -> Ids \cup {NoId}] /\ touches' \in 0 .. MaxTouches
    <2>1. CASE touch(s)
      <3>1. PICK a \in {<<>>, pressure(s, 1)} : update(s, tracking(s, touches') \o a, touches')
        BY <2>1 DEF touch
      <3>2. touches' \in Ids /\ touches' \in 0 .. MaxTouches
        BY <1>1, <2>1, SurfaceAssumption DEF touch, Ids
      <3>3. a \in Seq(MtEvent) /\ tracking(s, touches') \in Seq(MtEvent)
        BY <1>3, <3>2, Kinds
      <3>4. tracking(s, touches') \o a \in Seq(MtEvent)
        BY <3>3, ConcatProperties
      <3>. QED  BY <1>2, <3>1, <3>2, <3>4
    <2>2. CASE move(s)
      <3>1. PICK a \in {position(s), pressure(s, 0), pressure(s, 1)} : update(s, a, fingers[s])
        BY <2>2 DEF move
      <3>2. a \in Seq(MtEvent)
        BY <1>3
      <3>. QED  BY <1>1, <1>2, <2>2, <3>1, <3>2 DEF move
    <2>3. CASE lift(s)
      <3>1. tracking(s, NoId) \in Seq(MtEvent)
        BY <1>3
      <3>. QED  BY <1>1, <1>2, <2>3, <3>1 DEF lift
    <2>. QED  BY <1>4, <2>1, <2>2, <2>3
  <1>5. /\ report' \in Seq(MtEvent) /\ kslot' \in Slots
        /\ fingers' \in [Slots -> Ids \cup {NoId}] /\ touches' \in 0 .. MaxTouches
    BY <1>4 DEF surface_moves
  <1>6. typed' \in Nat
    BY <1>1 DEF surface_moves
  <1>7. /\ UNCHANGED <<plugged, gone, pressed, kqueue, vt_ours, switches, signals, g_running,
                 screens, btn_down, call, belief, history>>
        /\ UNCHANGED <<key_touch, pvt, blind, pad_vars>>
    BY DEF surface_moves
  <1>8. TypeOK' /\ PadTypeOK'
    BY <1>6, <1>7 DEF signals, call, belief, history, pad_vars, Typed, InputTypeOK, TypeOK, PadTypeOK
  <1>9. OwnEvents' /\ SurfaceTypeOK'
    BY <1>5, <1>7 DEF call, pvt, Typed, InputTypeOK, OwnEvents, SurfaceTypeOK, get_id
  <1>. QED  BY <1>8, <1>9 DEF Typed, InputTypeOK

LEMMA SyncsTyped ==
  ASSUME Typed, surface_syncs, UNCHANGED pad_vars
  PROVE  Typed'
  <1>. DEFINE touched == IF key_touch' # key_touch THEN end_event("BTN_TOUCH") ELSE <<>>
              syn == end_event("SYN_REPORT")
              q == ((kqueue[surface] \o report) \o touched) \o syn
  <1>1. kqueue[surface] \in Seq(SurfaceEvent) /\ report \in Seq(SurfaceEvent)
    <2>1. report \in Seq(MtEvent)
      BY DEF Typed, InputTypeOK, SurfaceTypeOK
    <2>2. \A i \in 1 .. Len(report) : report[i] \in SurfaceEvent
      BY <2>1, Kinds, ElementOfSeq
    <2>3. report \in Seq(SurfaceEvent)
      BY <2>1, <2>2
    <2>. QED  BY <2>3 DEF Typed, OwnEvents
  <1>2. touched \in Seq(SurfaceEvent) /\ syn \in Seq(SurfaceEvent)
    <2>1. /\ [code |-> "BTN_TOUCH", val |-> 0, at |-> kslot] \in SurfaceEvent
          /\ [code |-> "SYN_REPORT", val |-> 0, at |-> kslot] \in SurfaceEvent
      BY DEF SurfaceEvent, EndEvent, Typed, InputTypeOK, SurfaceTypeOK
    <2>. QED  BY <2>1, Kinds DEF end_event
  <1>3. q \in Seq(SurfaceEvent)
    <2>. HIDE DEF touched, syn
    <2>1. kqueue[surface] \o report \in Seq(SurfaceEvent)
      BY <1>1, ConcatProperties
    <2>2. (kqueue[surface] \o report) \o touched \in Seq(SurfaceEvent)
      BY <1>2, <2>1, ConcatProperties
    <2>. QED  BY <1>2, <2>2, ConcatProperties
  <1>4. q \in Seq(Event)
    <2>. HIDE DEF q
    <2>1. \A i \in 1 .. Len(q) : q[i] \in Event
      BY <1>3, Kinds, ElementOfSeq
    <2>. QED  BY <1>3, <2>1
  <1>5. kqueue' = [kqueue EXCEPT ![surface] = q]
    BY DEF surface_syncs
  <1>6. /\ UNCHANGED <<plugged, gone, pressed, vt_ours, typed, switches, signals, g_running,
                       screens, btn_down, call, belief, history>>
        /\ UNCHANGED <<kslot, fingers, touches, pvt, blind>>
        /\ report' = <<>> /\ key_touch' \in BOOLEAN
    BY DEF surface_syncs
  <1>. HIDE DEF q
  <1>7. kqueue' \in [Devices -> Seq(Event)]
    BY <1>4, <1>5 DEF Typed, InputTypeOK, TypeOK
  <1>8. kqueue'[surface] = q /\ kqueue'[trackpad] = kqueue[trackpad]
    BY <1>5, Kinds DEF Typed, InputTypeOK, TypeOK
  <1>9. TypeOK' /\ PadTypeOK'
    BY <1>6, <1>7 DEF signals, call, belief, history, pad_vars, Typed, InputTypeOK, TypeOK, PadTypeOK
  <1>10. OwnEvents' /\ SurfaceTypeOK'
    BY <1>3, <1>6, <1>8, Kinds
       DEF call, pvt, Typed, InputTypeOK, OwnEvents, SurfaceTypeOK, get_id
  <1>. QED  BY <1>9, <1>10 DEF Typed, InputTypeOK

LEMMA SurfaceStepTyped ==
  ASSUME Typed, SurfaceNext, UNCHANGED pad_vars
  PROVE  Typed'
  BY MovesTyped, SyncsTyped, HandleTyped DEF SurfaceNext

\* One event of the trackpad, and the call after it.
LEMMA PadEvents ==
  ASSUME Typed, NEW code, pad_event(code)
  PROVE  /\ pc = "events" /\ self = trackpad /\ ~send_msg
         /\ code \in {"TOUCH", "DOUBLETAP"} => value \in {Up, Down}
  <1>1. /\ events # <<>> /\ pc = "events" /\ self = trackpad /\ events \in Seq(PadEvent)
        /\ Head(events).code = code /\ ~send_msg
    BY Kinds DEF pad_event, Typed, InputTypeOK, TypeOK, OwnEvents
  <1>2. Head(events) \in PadEvent
    BY <1>1, HeadTail
  <1>. QED  BY <1>1, <1>2 DEF PadEvent, value

LEMMA PadCall ==
  ASSUME Typed, pc = "events", self = trackpad, return \/ next_event
  PROVE  /\ pc' \in {"poll", "events", "tap"}
         /\ self' \in IF pc' = "poll" THEN {NoDevice} ELSE Devices
         /\ cl_fd' \in Clients \cup {NoClient} /\ (pc' # "poll" => cl_fd' = cl_fd)
         /\ events' \in Seq(Event) /\ (self' = trackpad => events' \in Seq(PadEvent))
         /\ (events' # <<>>) <=> (pc' = "events")
         /\ pc' = "tap" => self' = trackpad /\ events' = <<>>
         /\ self' # surface
  <1>1. /\ events # <<>> /\ events \in Seq(Event) /\ events \in Seq(PadEvent)
        /\ cl_fd \in Clients \cup {NoClient}
    BY DEF Typed, InputTypeOK, TypeOK, OwnEvents
  <1>2. CASE return
    BY <1>2, Kinds DEF return
  <1>3. CASE pc' = "tap" /\ events' = <<>> /\ UNCHANGED <<self, cl_fd>>
    BY <1>1, <1>3, Kinds
  <1>4. CASE Len(events) # 1 /\ events' = Tail(events) /\ UNCHANGED <<pc, self, cl_fd>>
    <2>1. events' \in Seq(Event) /\ events' \in Seq(PadEvent) /\ events' # <<>>
      BY <1>1, <1>4, HeadTail, EventQueues
    <2>. QED  BY <1>1, <1>4, <2>1, Kinds
  <1>. QED  BY <1>2, <1>3, <1>4 DEF next_event

\* What is written of a button.
LEMMA HoldTyped ==
  ASSUME Typed, cl_fd # NoClient, NEW b \in {CONTACT, SBTN}, NEW v, hold(cl_fd, b, v)
  PROVE  BeliefTyped'
  <1>1. cl_fd \in Clients /\ b \in Touches /\ trackpad \in Devices
        /\ held \in [Clients -> [Devices -> SUBSET (Code \cup Touches)]]
        /\ kept \in [Clients -> [Devices -> SUBSET (Code \cup Touches)]]
    BY Kinds DEF Typed, InputTypeOK, TypeOK, HeldSets
  <1>2. held' \in [Clients -> HeldSets]
    BY <1>1 DEF hold, HeldSets
  <1>3. kept' \in [Clients -> HeldSets]
    BY <1>1 DEF hold, HeldSets
  <1>. QED  BY <1>2, <1>3 DEF BeliefTyped

LEMMA ForwardTyped ==
  ASSUME Typed, NEW b \in {CONTACT, SBTN}, NEW v, forward(b, v)
  PROVE  /\ return \/ next_event
         /\ BeliefTyped' /\ lost' \subseteq Clients
  BY HoldTyped DEF forward, belief, BeliefTyped, Typed, InputTypeOK, TypeOK

LEMMA PadHandleTyped ==
  ASSUME Typed, contact_up \/ contact_down \/ scroll_button \/ pad_motion \/ tap_click,
         UNCHANGED surface_vars
  PROVE  Typed'
  <1>1. /\ (UNCHANGED belief => BeliefTyped') /\ lost \subseteq Clients /\ resting \in 0 .. 2
        /\ tap_reacquire \in 0 .. 4 /\ {tap_check, late} \subseteq BOOLEAN
        /\ seen \subseteq {CONTACT, SBTN} /\ cl_fd \in Clients \cup {NoClient}
        /\ self = trackpad => ~send_msg
    BY Kinds DEF belief, BeliefTyped, Typed, InputTypeOK, TypeOK, PadTypeOK, OwnEvents
  <1>2. pad_rest /\ self = trackpad
    BY PadEvents DEF contact_up, contact_down, scroll_button, pad_motion, tap_click, Typed,
                     InputTypeOK, PadTypeOK
  \* What each handler has to show.
  <1>3. ASSUME pc' \in {"poll", "events", "tap"},
               self' \in IF pc' = "poll" THEN {NoDevice} ELSE Devices,
               cl_fd' \in Clients \cup {NoClient}, events' \in Seq(Event),
               self' = trackpad => events' \in Seq(PadEvent),
               (events' # <<>>) <=> (pc' = "events"),
               pc' = "tap" => self' = trackpad /\ events' = <<>>, self' # surface,
               BeliefTyped', lost' \subseteq Clients,
               tap_reacquire' \in 0 .. 4, {tap_check', late'} \subseteq BOOLEAN,
               seen' \subseteq {CONTACT, SBTN}
        PROVE  Typed'
    <2>1. UNCHANGED <<plugged, gone, pressed, kqueue, vt_ours, typed, switches, is_active,
            g_input_muted, g_unmute_input, g_running, screens, btn_down, untold, fresh, resting>>
      BY <1>2 DEF pad_rest, kernel, signals
    <2>2. (events' # <<>>) <=> (pc' \in {"active", "events"})
      BY <1>3
    <2>3. TypeOK'
      BY <1>3, <2>1, <2>2 DEF TypeOK, Typed, InputTypeOK, BeliefTyped
    <2>4. PadTypeOK'
      BY <1>1, <1>3, <2>1 DEF PadTypeOK
    <2>5. UNCHANGED <<kslot, fingers, touches, report, active_contact,
                      contact_ids, contact_mag, key_touch, send_msg, blind>>
      BY DEF surface_vars, hardware, pvt
    <2>6. SurfaceTypeOK' /\ OwnEvents'
      BY <1>1, <1>2, <1>3, <2>1, <2>5
         DEF SurfaceTypeOK, OwnEvents, Typed, InputTypeOK, get_id
    <2>. QED  BY <2>3, <2>4, <2>6 DEF Typed, InputTypeOK
  <1>4. ASSUME pc = "events", return \/ next_event,
               BeliefTyped', lost' \subseteq Clients,
               tap_reacquire' \in 0 .. 4, {tap_check', late'} \subseteq BOOLEAN,
               seen' \subseteq {CONTACT, SBTN}
        PROVE  Typed'
    BY <1>2, <1>3, <1>4, PadCall
  <1>5. 4 \in 0 .. 4 /\ 0 \in 0 .. 4
    OBVIOUS
  <1>6. CASE contact_up
    BY <1>1, <1>4, <1>5, <1>6, PadEvents, ForwardTyped DEF contact_up
  <1>7. CASE contact_down
    BY <1>1, <1>4, <1>7, PadEvents DEF contact_down
  <1>8. CASE scroll_button
    BY <1>1, <1>4, <1>5, <1>8, PadEvents, ForwardTyped DEF scroll_button
  <1>9. CASE pad_motion
    <2>1. tap_reacquire' \in 0 .. 4
      BY <1>1, <1>9 DEF pad_motion
    <2>. QED  BY <1>1, <1>4, <1>9, <2>1, PadEvents DEF pad_motion
  <1>10. CASE tap_click
    <2>1. return /\ BeliefTyped' /\ lost' \subseteq Clients
      BY <1>1, <1>10, HoldTyped DEF tap_click
    <2>2. /\ pc' = "poll" /\ self' = NoDevice /\ cl_fd' = NoClient /\ events' = <<>>
      BY <2>1 DEF return
    <2>. QED  BY <1>1, <1>3, <1>5, <1>10, <2>1, <2>2, Kinds DEF tap_click
  <1>. QED  BY <1>6, <1>7, <1>8, <1>9, <1>10

LEMMA PadReportsTyped ==
  ASSUME Typed, pad_reports, UNCHANGED surface_vars
  PROVE  Typed'
  <1>1. ASSUME NEW a \in BOOLEAN, NEW b \in BOOLEAN, NEW code \in {"TOUCH", "DOUBLETAP"}
        PROVE  button(code, a, b) \in Seq(PadEvent)
    <2>1. [code |-> code, val |-> Up] \in PadEvent /\ [code |-> code, val |-> Down] \in PadEvent
      BY DEF PadEvent
    <2>. QED  BY <2>1, Kinds DEF button
  <1>2. abs \o abs \in Seq(PadEvent)
    <2>1. [code |-> "ABS", val |-> 0] \in PadEvent
      BY DEF PadEvent
    <2>2. abs \in Seq(PadEvent)
      BY <2>1 DEF abs
    <2>. QED  BY <2>2, ConcatProperties
  <1>. DEFINE b1 == button("TOUCH", resting > 0, resting' > 0)
              b2 == button("DOUBLETAP", resting = 2, resting' = 2)
              b3 == IF resting' > 0 THEN abs \o abs ELSE <<>>
              q  == ((kqueue[trackpad] \o b1) \o b2) \o b3
  <1>3. kqueue' = [kqueue EXCEPT ![trackpad] = q] /\ resting' \in 0 .. 2 /\ resting \in 0 .. 2
    BY DEF pad_reports, Typed, InputTypeOK, PadTypeOK
  <1>4. b1 \in Seq(PadEvent) /\ b2 \in Seq(PadEvent) /\ b3 \in Seq(PadEvent)
    <2>1. (resting > 0) \in BOOLEAN /\ (resting' > 0) \in BOOLEAN
          /\ (resting = 2) \in BOOLEAN /\ (resting' = 2) \in BOOLEAN
      BY <1>3
    <2>. QED  BY <1>1, <1>2, <2>1, Kinds
  <1>5. q \in Seq(PadEvent)
    <2>. HIDE DEF b1, b2, b3
    <2>1. kqueue[trackpad] \in Seq(PadEvent)
      BY DEF Typed, OwnEvents
    <2>2. kqueue[trackpad] \o b1 \in Seq(PadEvent)
      BY <1>4, <2>1, ConcatProperties
    <2>3. (kqueue[trackpad] \o b1) \o b2 \in Seq(PadEvent)
      BY <1>4, <2>2, ConcatProperties
    <2>. QED  BY <1>4, <2>3, ConcatProperties
  <1>. HIDE DEF q
  <1>6. q \in Seq(Event)
    <2>1. \A i \in 1 .. Len(q) : q[i] \in Event
      BY <1>5, Kinds, ElementOfSeq
    <2>. QED  BY <1>5, <2>1
  <1>7. typed' \in Nat
    BY DEF pad_reports, Typed, InputTypeOK, TypeOK
  <1>8. UNCHANGED <<plugged, gone, pressed, vt_ours, switches, signals, g_running, screens,
                    btn_down, call, belief, history, tap_check, tap_reacquire, seen, late>>
    BY DEF pad_reports
  <1>9. /\ kqueue' \in [Devices -> Seq(Event)]
        /\ kqueue'[trackpad] = q /\ kqueue'[surface] = kqueue[surface]
    BY <1>3, <1>6, Kinds DEF Typed, InputTypeOK, TypeOK
  <1>10. TypeOK' /\ PadTypeOK'
    BY <1>3, <1>7, <1>8, <1>9 DEF signals, call, belief, history, Typed, InputTypeOK, TypeOK, PadTypeOK
  <1>11. OwnEvents' /\ SurfaceTypeOK'
    BY <1>5, <1>8, <1>9
       DEF surface_vars, hardware, pvt, call, Typed, InputTypeOK, OwnEvents,
           SurfaceTypeOK, get_id
  <1>. QED  BY <1>10, <1>11 DEF Typed, InputTypeOK

LEMMA InputTypeStep == Typed /\ [InputNext]_input_vars => Typed'
  <1>. SUFFICES ASSUME Typed, [InputNext]_input_vars  PROVE Typed'
    OBVIOUS
  <1>1. CASE Next /\ blind' = (blind \/ missed) /\ UNCHANGED <<hardware, pvt, pad_vars>>
    BY <1>1, KeyStepTyped
  <1>2. CASE SurfaceNext /\ UNCHANGED pad_vars
    BY <1>2, SurfaceStepTyped
  <1>3. CASE PadNext /\ UNCHANGED surface_vars
    BY <1>3, PadReportsTyped, PadHandleTyped DEF PadNext
  <1>4. CASE UNCHANGED input_vars
    BY <1>4, KeyStepTyped, ActiveTyped DEF input_vars, surface_vars
  <1>. QED  BY <1>1, <1>2, <1>3, <1>4 DEF InputNext

\* Every variable keeps its type, a call that has returned holds neither a
\* device nor events, and a message is pending in consume_surface_report
\* only inside a read and about a contact that is touched (input.c:735-866,
\* 948-1115).
THEOREM InputTypeCorrect == InputSpec => []InputTypeOK
  <1>1. Typed => InputTypeOK
    BY DEF Typed
  <1>. QED  BY <1>1, InputInitTyped, InputTypeStep, PTL DEF InputSpec

-----------------------------------------------------------------------------
(* Nothing stuck: what the focused client holds is what the server knows.  *)

\* Client c holds no key, contact or button that the server does not know
\* of, but what it kept through its last RESET and a late click, or it has
\* lost a message.
Agrees(c) ==
  \/ c \in lost \cup untold
  \/ /\ \A d \in Devices : held[c][d] \ Touches \subseteq btn_down[d] \cup kept[c][d]
     /\ \A k \in Contacts \cap held[c][surface] :
          contact_ids[k] # NoId \/ k \in kept[c][surface]
     /\ \A b \in held[c][trackpad] :
          b \in seen \cup kept[c][trackpad] \/ (late /\ b = CONTACT)

\* Client c holds only what it kept, or it has lost a message.
OnlyKept(c) == c \in lost \cup untold \/ held[c] = kept[c]

\* What the client read before update_state (input.c:963) is still worth:
\* until the unmuting it is the main screen's; after that, a main screen's
\* client that is not the call's has just been reset.
FocusOfCall ==
  screens # <<>> /\ ~g_input_muted =>
    /\ Agrees(Head(screens))
    /\ pc \in {"update", "unmute"} => cl_fd = Head(screens)
    /\ pc \in {"read", "active", "events", "tap"} /\ cl_fd # Head(screens)
         => OnlyKept(Head(screens))

\* A tap is checked while its finger is down, or it is late.
TapDown == tap_check => late \/ CONTACT \in seen

IInv == FocusOfCall /\ TapDown

LEMMA KeptAgrees ==
  ASSUME NEW c, OnlyKept(c)
  PROVE  Agrees(c)
  BY Kinds DEF Agrees, OnlyKept

LEMMA KeptAgreesNext ==
  ASSUME NEW c, OnlyKept(c)'
  PROVE  Agrees(c)'
  BY Kinds DEF Agrees, OnlyKept

LEMMA FocusTyped ==
  ASSUME Typed, screens # <<>>
  PROVE  Head(screens) \in Clients /\ Head(screens) # NoClient
  BY HeadTail, Kinds DEF Typed, InputTypeOK, TypeOK

LEMMA InitInv == InputInit => IInv
  BY DEF InputInit, Init, PadInit, IInv, FocusOfCall, TapDown

\* Steps that leave the screens and what is held alone.
LEMMA QuietStep ==
  ASSUME IInv, UNCHANGED <<screens, belief, lost, untold, contact_ids, tap_check, seen, late>>,
         \A d \in Devices : btn_down[d] \subseteq btn_down'[d],
         g_input_muted' = g_input_muted \/ g_input_muted',
         pc' = "poll" \/ (cl_fd' = cl_fd /\ (pc' = pc \/ ({pc, pc'} \subseteq {"read", "active", "events"})))
  PROVE  IInv'
  <1>1. TapDown'
    BY DEF IInv, TapDown
  <1>2. \A c : (Agrees(c) => Agrees(c)') /\ (OnlyKept(c) => OnlyKept(c)')
    BY DEF Agrees, OnlyKept, belief
  <1>. QED  BY <1>1, <1>2 DEF IInv, FocusOfCall

\* The handling of an event by a call: whatever it writes goes to its client.
LEMMA HandlingStep ==
  ASSUME Typed, IInv, pc \in {"events", "tap"},
         UNCHANGED <<screens, g_input_muted, untold>>, lost \subseteq lost',
         pc' = "poll" \/ (pc' \in {"events", "tap"} /\ cl_fd' = cl_fd),
         \A c \in Clients \ {cl_fd} : held'[c] = held[c] /\ kept'[c] = kept[c],
         \A c \in Clients : c = cl_fd /\ Agrees(c) => Agrees(c)'
  PROVE  FocusOfCall'
  <1>. SUFFICES ASSUME screens # <<>>, ~g_input_muted, NEW m \in Clients, m = Head(screens)
                PROVE  Agrees(m)' /\ (cl_fd # m => OnlyKept(m)')
    <2>1. screens # <<>> => Head(screens) \in Clients
      BY FocusTyped
    <2>2. screens' = screens /\ g_input_muted' = g_input_muted
      OBVIOUS
    <2>. QED  BY <2>1, <2>2 DEF FocusOfCall
  <1>1. Agrees(m) /\ (cl_fd # m => OnlyKept(m))
    BY DEF IInv, FocusOfCall
  <1>2. CASE cl_fd = m
    BY <1>1, <1>2
  <1>3. CASE cl_fd # m
    <2>1. OnlyKept(m)'
      BY <1>1, <1>3 DEF OnlyKept
    <2>. QED  BY <2>1, KeptAgreesNext
  <1>. QED  BY <1>2, <1>3

LEMMA KeyForwardedStep ==
  ASSUME Typed, IInv, key_forwarded, UNCHANGED <<pvt, pad_vars>>
  PROVE  IInv'
  <1>. DEFINE e == Head(events)
  <1>. USE DEF signals, belief, history
  <1>t. TypeOK
    BY DEF Typed, InputTypeOK
  <1>1. /\ key_event /\ (return \/ continue) /\ pc = "events"
        /\ UNCHANGED <<screens, g_input_muted, untold>>
        /\ btn_down' = set_input_msg(e) /\ lost \subseteq lost'
    BY DEF key_forwarded, key_event
  <1>2. pc' = "poll" \/ (pc' = "events" /\ cl_fd' = cl_fd)
    BY <1>1, <1>t, CallTyped
  <1>3. \A c \in Clients \ {cl_fd} : held'[c] = held[c] /\ kept'[c] = kept[c]
    BY <1>t DEF key_forwarded, believe, TypeOK
  <1>4. UNCHANGED <<contact_ids, tap_check, seen, late>>
    BY DEF pvt, pad_vars
  <1>5. ASSUME NEW c \in Clients, c = cl_fd, Agrees(c)  PROVE Agrees(c)'
    <2>1. \/ c \in lost'
          \/ believe(c, e) /\ lost' = lost
      BY <1>5, Kinds DEF key_forwarded
    <2>2. CASE believe(c, e) /\ lost' = lost
      <3>1. self \in Devices /\ self \notin {surface, trackpad}
        BY <1>1, <1>t, KeyTyped, KeysElsewhere
      <3>4. ASSUME NEW d \in Devices \ {self}
            PROVE  held'[c][d] = held[c][d] /\ kept'[c][d] = kept[c][d] /\ btn_down'[d] = btn_down[d]
        <4>1. held'[c][d] = held[c][d]
          BY <1>t, <2>2, <3>1 DEF believe, TypeOK, HeldSets
        <4>2. kept'[c][d] = kept[c][d]
          BY <1>t, <2>2, <3>1 DEF believe, TypeOK, HeldSets
        <4>3. btn_down'[d] = btn_down[d]
          BY <1>t, <1>1, <3>1 DEF set_input_msg, TypeOK, KeySets
        <4>. QED  BY <4>1, <4>2, <4>3
      <3>5. /\ held'[c][self] = IF e.val = Up THEN held[c][self] \ {e.code}
                                 ELSE held[c][self] \cup {e.code}
            /\ kept'[c][self] = kept[c][self] \ {e.code}
            /\ btn_down'[self] = IF e.val = Up THEN btn_down[self] \ {e.code}
                                  ELSE btn_down[self] \cup {e.code}
        <4>1. held'[c][self] = IF e.val = Up THEN held[c][self] \ {e.code}
                               ELSE held[c][self] \cup {e.code}
          BY <1>t, <2>2, <3>1 DEF believe, TypeOK, HeldSets
        <4>2. kept'[c][self] = kept[c][self] \ {e.code}
          BY <1>t, <2>2, <3>1 DEF believe, TypeOK, HeldSets
        <4>3. btn_down'[self] = IF e.val = Up THEN btn_down[self] \ {e.code}
                                ELSE btn_down[self] \cup {e.code}
          BY <1>t, <1>1, <3>1 DEF set_input_msg, TypeOK, KeySets
        <4>. QED  BY <4>1, <4>2, <4>3
      <3>2. ASSUME NEW d \in Devices, held[c][d] \ Touches \subseteq btn_down[d] \cup kept[c][d]
            PROVE  held'[c][d] \ Touches \subseteq btn_down'[d] \cup kept'[c][d]
        <4>1. CASE d = self
          BY <3>2, <3>5, <4>1
        <4>2. CASE d # self
          BY <3>2, <3>4, <4>2
        <4>. QED  BY <4>1, <4>2
      <3>3. \A d \in {surface, trackpad} : held'[c][d] = held[c][d] /\ kept'[c][d] = kept[c][d]
        BY <3>1, <3>4, Kinds
      <3>. QED  BY <1>1, <1>4, <1>5, <2>2, <3>2, <3>3 DEF Agrees
    <2>. QED  BY <2>1, <2>2 DEF Agrees
  <1>6. FocusOfCall'
    BY <1>1, <1>2, <1>3, <1>5, HandlingStep
  <1>. QED  BY <1>4, <1>6 DEF IInv, TapDown

LEMMA KeyInvStep ==
  ASSUME Typed, IInv, [Next]_vars, UNCHANGED <<pvt, pad_vars>>
  PROVE  IInv'
  <1>. USE DEF kernel, signals, call, belief, history
  <1>t. TypeOK
    BY DEF Typed, InputTypeOK
  <1>h. screens # <<>> => Head(screens) \in Clients
    BY FocusTyped
  <1>u. UNCHANGED <<contact_ids, tap_check, seen, late>> /\ TapDown'
    BY DEF pvt, pad_vars, IInv, TapDown
  \* What the steps that change the focus show.
  <1>f. ASSUME screens' # <<>> /\ ~g_input_muted' => OnlyKept(Head(screens))',
               pc' \notin {"update", "unmute"}
        PROVE  IInv'
    <2>1. \A c : OnlyKept(c)' => Agrees(c)'
      BY KeptAgreesNext
    <2>. QED  BY <1>f, <1>u, <2>1 DEF IInv, FocusOfCall
  <1>1. ASSUME NEW d \in Devices, type(d)  PROVE IInv'
    BY <1>1, <1>u, QuietStep DEF type
  <1>17. ASSUME NEW d \in Devices, unplug(d)  PROVE IInv'
    BY <1>17, <1>u, QuietStep DEF unplug
  <1>2. ASSUME NEW d \in Devices, input_ready(d)  PROVE IInv'
    <2>1. \A c : Agrees(c) => Agrees(c)'
      BY <1>2, <1>u DEF input_ready, Agrees
    <2>2. /\ pc' = "update" /\ cl_fd' = get_focused_client
          /\ UNCHANGED <<screens, g_input_muted>>
      BY <1>2 DEF input_ready
    <2>. QED  BY <1>u, <2>1, <2>2 DEF get_focused_client, IInv, FocusOfCall
  <1>3. CASE vt_acquire
    BY <1>3, <1>u, QuietStep DEF vt_acquire
  <1>4. CASE vt_release
    BY <1>4, <1>u DEF vt_release, IInv, FocusOfCall
  <1>5. ASSUME NEW c \in Clients, server_connect_client(c)  PROVE IInv'
    <2>1. /\ pc' = "poll" /\ screens' = Append(screens, c) /\ screens \in Seq(Clients)
          /\ g_input_muted' = g_input_muted /\ btn_down' = btn_down
          /\ held' = [held EXCEPT ![c] = NoKeys]
          /\ kept' = [kept EXCEPT ![c] = NoKeys] /\ c \notin ToSet(screens)
          /\ lost' = lost \ {c} /\ untold' = untold \ {c}
      BY <1>5, <1>t DEF server_connect_client, TypeOK
    <2>2. CASE screens = <<>>
      <3>1. Head(screens') = c
        BY <2>1, <2>2
      <3>2. held'[c] = NoKeys /\ kept'[c] = NoKeys
        BY <2>1, <1>t DEF TypeOK
      <3>. QED  BY <1>f, <2>1, <3>1, <3>2 DEF OnlyKept
    <2>3. CASE screens # <<>>
      <3>1. Head(screens') = Head(screens)
        BY <2>1, <2>3, AppendProperties, HeadTailProperties, LenProperties, EmptySeq
      <3>2. Head(screens) # c
        BY <2>1, <2>3, HeadTail
      <3>3. held'[Head(screens)] = held[Head(screens)] /\ kept'[Head(screens)] = kept[Head(screens)]
        BY <2>1, <2>3, <1>h, <3>2, <1>t DEF TypeOK
      <3>4. Agrees(Head(screens)) => Agrees(Head(screens))'
        BY <1>u, <2>1, <3>1, <3>2, <3>3 DEF Agrees
      <3>. QED  BY <1>u, <2>1, <2>3, <3>1, <3>4 DEF IInv, FocusOfCall
    <2>. QED  BY <2>2, <2>3
  <1>6. CASE server_remove_client
    <2>1. screens' \in Seq(Clients) /\ pc' = "poll" /\ untold' = untold \cup ToSet(screens')
      BY <1>6, <1>t, Removed DEF server_remove_client, TypeOK
    <2>2. screens' # <<>> => Head(screens') \in untold'
      BY <2>1, HeadTail
    <2>. QED  BY <1>f, <2>1, <2>2 DEF OnlyKept
  <1>7. CASE update_state
    <2>1. \A c : Agrees(c) => Agrees(c)'
      BY <1>7, <1>u DEF update_state, Agrees
    <2>2. /\ pc = "update" /\ pc' \in {"unmute", "read"}
          /\ UNCHANGED <<screens, g_input_muted, cl_fd>>
      BY <1>7 DEF update_state
    <2>. QED  BY <1>u, <2>1, <2>2 DEF IInv, FocusOfCall
  <1>8. CASE update_state_unmute
    <2>1. /\ pc' = "read" /\ screens' = screens
      BY <1>8 DEF update_state_unmute
    <2>2. screens # <<>> => OnlyKept(Head(screens))'
      BY <1>8, <1>t, <2>1, <1>h, ResetTyped DEF update_state_unmute, OnlyKept
    <2>. QED  BY <1>f, <2>1, <2>2
  <1>9. CASE read_events
    BY <1>9, <1>u, QuietStep DEF read_events, return
  <1>10. CASE server_is_active
    BY <1>10, <1>u, QuietStep DEF server_is_active, return
  <1>11. CASE key_ignored
    BY <1>11, <1>t, <1>u, QuietStep, CallTyped DEF key_ignored, key_event
  <1>12. CASE key_forwarded
    BY <1>12, KeyForwardedStep
  <1>d. ASSUME key_event, Head(events).val = Down, btn_down' = set_input_msg(Head(events))
        PROVE  \A d \in Devices : btn_down[d] \subseteq btn_down'[d]
    BY <1>d, <1>t, KeyTyped DEF set_input_msg, TypeOK, KeySets, Up, Down
  <1>13. CASE key_vt_switch
    BY <1>13, <1>d, <1>t, <1>u, QuietStep, CallTyped DEF key_vt_switch, vt_switch, key_event
  <1>14. CASE key_axe
    BY <1>14, <1>d, <1>t, <1>u, QuietStep, CallTyped DEF key_axe, axe, ctrl_alt, key_event
  <1>15. CASE key_next_screen
    <2>1. CASE Len(screens) < 2
      BY <1>15, <2>1, <1>d, <1>t, <1>u, QuietStep, CallTyped
         DEF key_next_screen, next_screen, ctrl_alt, key_event
    <2>2. CASE ~(Len(screens) < 2)
      <3>1. main_screen_switch /\ screens \in Seq(Clients)
        BY <1>15, <1>t, <2>2 DEF key_next_screen, TypeOK
      <3>2. Len(screens) >= 2
        BY <2>2, <3>1, LenProperties
      <3>3. /\ screens' = Append(Tail(screens), Head(screens))
            /\ spr16_server_reset_client(Head(screens'))
        BY <2>2, <3>1 DEF main_screen_switch
      <3>4. Head(screens') \in Clients
        BY <1>t, <3>2, <3>3, RotateTyped
      <3>5. OnlyKept(Head(screens))'
        BY <1>t, <3>3, <3>4, ResetTyped DEF OnlyKept
      <3>6. pc' \in {"poll", "events"}
        BY <1>15, <1>t, CallTyped DEF key_next_screen, key_event
      <3>. QED  BY <1>f, <3>5, <3>6
    <2>. QED  BY <2>1, <2>2
  <1>16. CASE UNCHANGED vars
    BY <1>16, <1>u, QuietStep DEF vars
  <1>. QED  BY <1>1, <1>2, <1>3, <1>4, <1>5, <1>6, <1>7, <1>8, <1>9, <1>10, <1>11,
               <1>12, <1>13, <1>14, <1>15, <1>16, <1>17 DEF Next, Around, Server, Key

\* A contact is written: as released, or as one that the driver holds.
LEMMA ContactWritten ==
  ASSUME Typed, NEW c \in Clients, c = cl_fd, Agrees(c),
         NEW k \in Contacts, NEW mag, write_contact(k, mag),
         mag = 0 \/ contact_ids'[k] # NoId,
         \A j \in Contacts \ {k} : contact_ids'[j] = contact_ids[j],
         UNCHANGED <<btn_down, untold, seen, late>>
  PROVE  Agrees(c)'
  <1>1. CASE lost' = lost \cup {c}
    BY <1>1 DEF Agrees
  <1>2. CASE update_contact(c, k, mag) /\ UNCHANGED lost
    <2>1. /\ \A d \in Devices \ {surface} : held'[c][d] = held[c][d]
          /\ held'[c][surface] = IF mag = 0 THEN held[c][surface] \ {k}
                                 ELSE held[c][surface] \cup {k}
      BY <1>2, Kinds DEF update_contact, Typed, InputTypeOK, TypeOK, HeldSets
    <2>2. /\ \A d \in Devices \ {surface} : kept'[c][d] = kept[c][d]
          /\ kept'[c][surface] = kept[c][surface] \ {k}
      BY <1>2, Kinds DEF update_contact, Typed, InputTypeOK, TypeOK, HeldSets
    <2>3. ASSUME NEW d \in Devices, held[c][d] \ Touches \subseteq btn_down[d] \cup kept[c][d]
          PROVE  held'[c][d] \ Touches \subseteq btn_down'[d] \cup kept'[c][d]
      <3>1. CASE d = surface
        BY <2>1, <2>2, <2>3, <3>1, Kinds
      <3>2. CASE d # surface
        BY <2>1, <2>2, <2>3, <3>2
      <3>. QED  BY <3>1, <3>2
    <2>4. held'[c][trackpad] = held[c][trackpad] /\ kept'[c][trackpad] = kept[c][trackpad]
      BY <2>1, <2>2, Kinds
    <2>5. ASSUME \A j \in Contacts \cap held[c][surface] :
                   contact_ids[j] # NoId \/ j \in kept[c][surface]
          PROVE  \A j \in Contacts \cap held'[c][surface] :
                   contact_ids'[j] # NoId \/ j \in kept'[c][surface]
      BY <2>1, <2>2, <2>5
    <2>. QED  BY <1>2, <2>3, <2>4, <2>5 DEF Agrees
  <1>. QED  BY <1>1, <1>2, Kinds DEF write_contact, belief

LEMMA SurfaceInvStep ==
  ASSUME Typed, IInv, SurfaceNext, UNCHANGED pad_vars
  PROVE  IInv'
  <1>. USE DEF signals, call, belief, history
  <1>u. UNCHANGED <<tap_check, seen, late>> /\ TapDown'
    BY DEF pad_vars, IInv, TapDown
  <1>1. CASE surface_moves \/ surface_syncs
    BY <1>1, <1>u, QuietStep DEF surface_moves, surface_syncs, pvt
  \* What each handler has to show.
  <1>2. ASSUME pc = "events", self = surface, surface_rest, lost \subseteq lost',
               return \/ continue \/ UNCHANGED call,
               \A c \in Clients \ {cl_fd} : held'[c] = held[c] /\ kept'[c] = kept[c],
               \A c \in Clients : c = cl_fd /\ Agrees(c) => Agrees(c)'
        PROVE  IInv'
    <2>1. UNCHANGED <<screens, g_input_muted, untold>>
      BY <1>2 DEF surface_rest
    <2>2. pc' = "poll" \/ (pc' = "events" /\ cl_fd' = cl_fd)
      BY <1>2, CallTyped DEF Typed, InputTypeOK
    <2>3. FocusOfCall'
      BY <1>2, <2>1, <2>2, HandlingStep
    <2>. QED  BY <1>u, <2>3 DEF IInv
  <1>3. ASSUME NEW k, NEW mag, write_contact(k, mag)
        PROVE  /\ lost \subseteq lost'
               /\ \A c \in Clients \ {cl_fd} : held'[c] = held[c] /\ kept'[c] = kept[c]
    BY <1>3 DEF write_contact, update_contact, belief, Typed, InputTypeOK, TypeOK
  \* Nothing is written.
  <1>4. ASSUME UNCHANGED belief, lost \subseteq lost', surface_rest,
               \A k \in Contacts : contact_ids'[k] = contact_ids[k] \/ contact_ids'[k] # NoId
        PROVE  \A c : Agrees(c) => Agrees(c)'
    BY <1>4, <1>u DEF surface_rest, belief, Agrees
  <1>5. surface_rest => UNCHANGED <<btn_down, untold>>
    BY DEF surface_rest
  <1>6. CASE abs_mt_slot
    <2>1. /\ pc = "events" /\ self = surface /\ surface_rest /\ UNCHANGED contact_ids
          /\ return \/ continue
      BY <1>6, SurfaceEvents, ConsumeTyped DEF abs_mt_slot
    <2>2. CASE send_msg
      <3>1. /\ active_contact \in Contacts /\ contact_ids[active_contact] # NoId
            /\ write_contact(active_contact, contact_mag[active_contact])
        BY <1>6, <2>2, ActiveTyped DEF abs_mt_slot
      <3>2. \A c \in Clients : c = cl_fd /\ Agrees(c) => Agrees(c)'
        BY <1>5, <1>u, <2>1, <3>1, ContactWritten
      <3>. QED  BY <1>2, <1>3, <2>1, <3>1, <3>2
    <2>3. CASE ~send_msg
      BY <1>2, <1>4, <1>6, <2>1, <2>3 DEF abs_mt_slot
    <2>. QED  BY <2>2, <2>3
  <1>7. CASE finger_down
    <2>1. /\ pc = "events" /\ self = surface /\ surface_rest /\ UNCHANGED <<belief, lost>>
          /\ return \/ continue
      BY <1>7, SurfaceEvents, ConsumeTyped DEF finger_down, handle_id
    <2>2. \A k \in Contacts : contact_ids'[k] = contact_ids[k] \/ contact_ids'[k] # NoId
      BY <1>7, ActiveTyped DEF finger_down, handle_id
    <2>. QED  BY <1>2, <1>4, <2>1, <2>2
  <1>8. CASE finger_up
    <2>1. /\ pc = "events" /\ self = surface /\ surface_rest
          /\ return \/ continue
          /\ write_contact(initial_contact, 0) /\ initial_contact \in Contacts
      BY <1>8, SurfaceEvents, ConsumeTyped, ActiveTyped DEF finger_up, handle_id
    <2>2. \A j \in Contacts \ {initial_contact} : contact_ids'[j] = contact_ids[j]
      BY <1>8, ActiveTyped DEF finger_up, handle_id
    <2>3. \A c \in Clients : c = cl_fd /\ Agrees(c) => Agrees(c)'
      BY <1>5, <1>u, <2>1, <2>2, ContactWritten
    <2>. QED  BY <1>2, <1>3, <2>1, <2>3
  <1>9. CASE axis
    <2>1. /\ pc = "events" /\ self = surface /\ surface_rest
          /\ UNCHANGED <<belief, lost, contact_ids>>
          /\ return \/ continue
      BY <1>9, SurfaceEvents, ConsumeTyped DEF axis
    <2>. QED  BY <1>2, <1>4, <2>1
  <1>10. CASE leave_report
    <2>1. /\ pc = "events" /\ self = surface /\ surface_rest
          /\ UNCHANGED <<call, contact_ids>>
      BY <1>10, SurfaceEvents DEF leave_report
    <2>2. CASE get_id(active_contact) # NoId
      <3>1. /\ active_contact \in Contacts /\ contact_ids[active_contact] # NoId
            /\ write_contact(active_contact, contact_mag[active_contact])
        BY <1>10, <2>2, ActiveTyped DEF leave_report
      <3>2. \A c \in Clients : c = cl_fd /\ Agrees(c) => Agrees(c)'
        BY <1>5, <1>u, <2>1, <3>1, ContactWritten
      <3>. QED  BY <1>2, <1>3, <2>1, <3>1, <3>2
    <2>3. CASE get_id(active_contact) = NoId
      BY <1>2, <1>4, <1>10, <2>1, <2>3 DEF leave_report
    <2>. QED  BY <2>2, <2>3
  <1>11. CASE syn_report
    <2>1. /\ pc = "events" /\ self = surface /\ surface_rest
          /\ UNCHANGED <<belief, lost, contact_ids>>
          /\ return \/ continue
      BY <1>11, SurfaceEvents, ConsumeTyped DEF syn_report
    <2>. QED  BY <1>2, <1>4, <2>1
  <1>12. CASE btn_touch
    <2>1. /\ pc = "events" /\ self = surface /\ surface_rest
          /\ UNCHANGED <<belief, contact_ids>> /\ lost \subseteq lost'
          /\ return \/ continue
      BY <1>12, SurfaceEvents DEF btn_touch, pvt
    <2>. QED  BY <1>2, <1>4, <2>1
  <1>. QED  BY <1>1, <1>6, <1>7, <1>8, <1>9, <1>10, <1>11, <1>12 DEF SurfaceNext

\* A button is written: as released, or as one that a finger is down for or
\* that is late.
LEMMA ButtonWritten ==
  ASSUME Typed, NEW c \in Clients, c = cl_fd, Agrees(c),
         NEW b \in {CONTACT, SBTN}, NEW v,
         \/ lost' = lost \cup {c}
         \/ hold(c, b, v) /\ UNCHANGED lost,
         seen \ {b} \subseteq seen',
         v = Up \/ b \in seen' \/ (late' /\ b = CONTACT),
         late' = late \/ (v = Up /\ b = CONTACT),
         UNCHANGED <<btn_down, untold, contact_ids>>
  PROVE  Agrees(c)'
  <1>1. CASE lost' = lost \cup {c}
    BY <1>1 DEF Agrees
  <1>2. CASE hold(c, b, v) /\ UNCHANGED lost
    <2>1. /\ \A d \in Devices \ {trackpad} : held'[c][d] = held[c][d]
          /\ held'[c][trackpad] = IF v = Up THEN held[c][trackpad] \ {b}
                                  ELSE held[c][trackpad] \cup {b}
      BY <1>2, Kinds DEF hold, Typed, InputTypeOK, TypeOK, HeldSets
    <2>2. /\ \A d \in Devices \ {trackpad} : kept'[c][d] = kept[c][d]
          /\ kept'[c][trackpad] = kept[c][trackpad] \ {b}
      BY <1>2, Kinds DEF hold, Typed, InputTypeOK, TypeOK, HeldSets
    <2>3. ASSUME NEW d \in Devices, held[c][d] \ Touches \subseteq btn_down[d] \cup kept[c][d]
          PROVE  held'[c][d] \ Touches \subseteq btn_down'[d] \cup kept'[c][d]
      <3>1. CASE d = trackpad
        BY <2>1, <2>2, <2>3, <3>1, Kinds
      <3>2. CASE d # trackpad
        BY <2>1, <2>2, <2>3, <3>2
      <3>. QED  BY <3>1, <3>2
    <2>4. held'[c][surface] = held[c][surface] /\ kept'[c][surface] = kept[c][surface]
      BY <2>1, <2>2, Kinds
    <2>5. ASSUME \A a \in held[c][trackpad] :
                   a \in seen \cup kept[c][trackpad] \/ (late /\ a = CONTACT)
          PROVE  \A a \in held'[c][trackpad] :
                   a \in seen' \cup kept'[c][trackpad] \/ (late' /\ a = CONTACT)
      <3>. SUFFICES ASSUME NEW a \in held'[c][trackpad]
                    PROVE  a \in seen' \cup kept'[c][trackpad] \/ (late' /\ a = CONTACT)
        OBVIOUS
      <3>1. CASE a = b
        BY <2>1, <3>1
      <3>2. CASE a # b
        BY <2>1, <2>2, <2>5, <3>2
      <3>. QED  BY <3>1, <3>2
    <2>. QED  BY <1>2, <2>3, <2>4, <2>5 DEF Agrees
  <1>. QED  BY <1>1, <1>2

LEMMA PadInvStep ==
  ASSUME Typed, IInv, PadNext, UNCHANGED surface_vars
  PROVE  IInv'
  <1>. USE DEF signals, call, belief, history
  <1>u. UNCHANGED contact_ids /\ late \in BOOLEAN /\ tap_check \in BOOLEAN
    BY DEF surface_vars, pvt, Typed, InputTypeOK, PadTypeOK
  <1>1. CASE pad_reports
    BY <1>1, <1>u, QuietStep DEF pad_reports
  \* What each handler has to show.
  <1>2. ASSUME pc \in {"events", "tap"}, self = trackpad, pad_rest, lost \subseteq lost',
               pc = "events" => return \/ next_event, pc = "tap" => return,
               \A c \in Clients \ {cl_fd} : held'[c] = held[c] /\ kept'[c] = kept[c],
               \A c \in Clients : c = cl_fd /\ Agrees(c) => Agrees(c)'
        PROVE  FocusOfCall'
    <2>1. UNCHANGED <<screens, g_input_muted, untold>>
      BY <1>2 DEF pad_rest
    <2>2. pc' = "poll" \/ (pc' \in {"events", "tap"} /\ cl_fd' = cl_fd)
      BY <1>2, PadCall DEF return
    <2>. QED  BY <1>2, <2>1, <2>2, HandlingStep
  <1>3. pad_rest => UNCHANGED <<btn_down, untold>>
    BY DEF pad_rest
  <1>4. ASSUME NEW b, NEW v, forward(b, v)
        PROVE  /\ lost \subseteq lost' /\ (return \/ next_event)
               /\ \A c \in Clients \ {cl_fd} : held'[c] = held[c] /\ kept'[c] = kept[c]
               /\ \A c \in Clients : c = cl_fd =>
                    \/ lost' = lost \cup {c}
                    \/ hold(c, b, v) /\ UNCHANGED lost
    BY <1>4, Kinds DEF forward, hold, belief, Typed, InputTypeOK, TypeOK
  \* Nothing is written.
  <1>5. ASSUME UNCHANGED <<belief, late>>, lost \subseteq lost', pad_rest, seen \subseteq seen'
        PROVE  \A c : Agrees(c) => Agrees(c)'
    BY <1>3, <1>5, <1>u DEF Agrees, belief
  <1>6. CASE contact_up
    <2>1. /\ pc = "events" /\ self = trackpad /\ pad_rest /\ forward(CONTACT, Up)
          /\ seen' = seen \ {CONTACT} /\ late' = tap_check /\ tap_check' = tap_check
      BY <1>6, PadEvents DEF contact_up
    <2>2. \A c \in Clients : c = cl_fd /\ Agrees(c) => Agrees(c)'
      BY <1>3, <1>4, <1>u, <2>1, ButtonWritten
    <2>3. TapDown'
      BY <2>1 DEF TapDown
    <2>. QED  BY <1>2, <1>4, <2>1, <2>2, <2>3 DEF IInv
  <1>7. CASE contact_down
    <2>1. /\ pc = "events" /\ self = trackpad /\ pad_rest /\ next_event
          /\ seen' = seen \cup {CONTACT} /\ UNCHANGED <<late, belief, lost>>
      BY <1>7, PadEvents DEF contact_down
    <2>2. TapDown'
      BY <2>1 DEF TapDown
    <2>. QED  BY <1>2, <1>5, <2>1, <2>2 DEF IInv
  <1>8. CASE scroll_button
    <2>1. /\ pc = "events" /\ self = trackpad /\ pad_rest /\ forward(SBTN, value)
          /\ seen' = (IF value = Up THEN seen \ {SBTN} ELSE seen \cup {SBTN})
          /\ UNCHANGED <<late, tap_check>>
      BY <1>8, PadEvents DEF scroll_button
    <2>2. \A c \in Clients : c = cl_fd /\ Agrees(c) => Agrees(c)'
      BY <1>3, <1>4, <1>u, <2>1, ButtonWritten
    <2>3. TapDown'
      BY <2>1, Kinds DEF IInv, TapDown
    <2>. QED  BY <1>2, <1>4, <2>1, <2>2, <2>3 DEF IInv
  <1>9. CASE pad_motion
    <2>1. /\ pc = "events" /\ self = trackpad /\ pad_rest /\ (return \/ next_event)
          /\ UNCHANGED <<late, seen, tap_check, belief>> /\ lost \subseteq lost'
      BY <1>9, PadEvents DEF pad_motion
    <2>2. TapDown'
      BY <2>1 DEF IInv, TapDown
    <2>. QED  BY <1>2, <1>5, <2>1, <2>2 DEF IInv
  <1>10. CASE tap_click
    <2>1. /\ pc = "tap" /\ self = trackpad /\ pad_rest /\ return
          /\ UNCHANGED <<late, seen>> /\ tap_check' = FALSE
      BY <1>10 DEF tap_click, Typed, InputTypeOK, PadTypeOK
    <2>2. TapDown'
      BY <2>1 DEF TapDown
    <2>3. CASE UNCHANGED <<belief, lost>>
      BY <1>2, <1>5, <2>1, <2>2, <2>3 DEF IInv
    <2>4. CASE /\ tap_check /\ cl_fd # NoClient
               /\ \/ hold(cl_fd, CONTACT, Down) /\ UNCHANGED lost
                  \/ lost' = lost \cup {cl_fd} /\ UNCHANGED belief
      <3>1. late \/ CONTACT \in seen
        BY <2>4 DEF IInv, TapDown
      <3>2. \A c \in Clients : c = cl_fd /\ Agrees(c) => Agrees(c)'
        BY <1>3, <1>u, <2>1, <2>4, <3>1, ButtonWritten
      <3>3. \A c \in Clients \ {cl_fd} : held'[c] = held[c] /\ kept'[c] = kept[c]
        BY <2>4 DEF hold, belief, Typed, InputTypeOK, TypeOK
      <3>. QED  BY <1>2, <2>1, <2>2, <2>4, <3>2, <3>3 DEF IInv
    <2>. QED  BY <1>10, <2>3, <2>4 DEF tap_click
  <1>. QED  BY <1>1, <1>6, <1>7, <1>8, <1>9, <1>10 DEF PadNext

LEMMA InvStep == Typed /\ IInv /\ [InputNext]_input_vars => Typed' /\ IInv'
  <1>. SUFFICES ASSUME Typed, IInv, [InputNext]_input_vars  PROVE IInv'
    BY InputTypeStep
  <1>1. CASE Next /\ UNCHANGED <<hardware, pvt, pad_vars>>
    BY <1>1, KeyInvStep
  <1>2. CASE SurfaceNext /\ UNCHANGED pad_vars
    BY <1>2, SurfaceInvStep
  <1>3. CASE PadNext /\ UNCHANGED surface_vars
    BY <1>3, PadInvStep
  <1>4. CASE UNCHANGED input_vars
    BY <1>4, KeyInvStep DEF input_vars, surface_vars
  <1>. QED  BY <1>1, <1>2, <1>3, <1>4 DEF InputNext

LEMMA InvHolds == InputSpec => [](Typed /\ IInv)
  BY InputInitTyped, InitInv, InvStep, PTL DEF InputSpec

\* While input is not muted, the focused client believes no key down but
\* those in btn_down, which has a key until its release is handled or the
\* devices are flushed, and those it kept through its last RESET, unless a
\* write to it failed since or server_remove_client flushed the devices
\* without a RESET (server.c:134-169, input.c:194-228).
THEOREM NoStuckKeys == InputSpec => []HeldKeysAreDown
  <1>1. IInv => HeldKeysAreDown
    BY DEF IInv, FocusOfCall, Agrees, HeldKeysAreDown
  <1>. QED  BY <1>1, InvHolds, PTL

\* While input is not muted, the focused client shows no contact that the
\* driver holds released but those it kept through its last RESET, with the
\* same exceptions (input.c:818-835).
THEOREM TouchesEnd == InputSpec => []NoGhostTouch
  <1>1. IInv => NoGhostTouch
    BY DEF IInv, FocusOfCall, Agrees, NoGhostTouch
  <1>. QED  BY <1>1, InvHolds, PTL

\* While input is not muted, the focused client holds a click or a scroll
\* only while the events handled leave the fingers for it on the pad, or if
\* it kept it through its last RESET, with the same exceptions and that of a
\* last finger that went up before its tap was checked (input.c:417-429,
\* 1092-1112).
THEOREM ButtonsEnd == InputSpec => []NoStuckButton
  <1>1. IInv => NoStuckButton
    <2>1. ASSUME NEW c, \A b \in held[c][trackpad] :
                   b \in seen \cup kept[c][trackpad] \/ (late /\ b = CONTACT)
          PROVE  late \/ held[c][trackpad] \subseteq seen \cup kept[c][trackpad]
      BY <2>1
    <2>. QED  BY <2>1 DEF IInv, FocusOfCall, Agrees, NoStuckButton
  <1>. QED  BY <1>1, InvHolds, PTL

-----------------------------------------------------------------------------
(* Contacts and slots.                                                     *)

SlotOf(e) == IF e.code = "SLOT" THEN e.val ELSE e.at

\* None of the events m to n of s selects a slot.
NoSlot(s, m, n) == \A l \in m .. n : s[l].code # "SLOT"

\* An event is of the slot of any event before it, up to the next SLOT event.
Chained(s) ==
  \A i, j \in 1 .. Len(s) : i < j /\ NoSlot(s, i + 1, j) => s[j].at = SlotOf(s[i])

\* The first events of s, up to a SLOT event, are of the slot ic.
Begins(s, b, ic) == \A i \in 1 .. Len(s) : NoSlot(s, 1, i) => b \/ ic = s[i].at

\* The last events of s are of the slot k; and so is ic if no event changes it.
Ends(s, k) == \A i \in 1 .. Len(s) : NoSlot(s, i + 1, Len(s)) => SlotOf(s[i]) = k
Stays(s, k, b, ic) == NoSlot(s, 1, Len(s)) => b \/ ic = k

Good(s, k, b, ic) ==
  s \in Seq(SurfaceEvent) /\ Chained(s) /\ Begins(s, b, ic) /\ Ends(s, k) /\ Stays(s, k, b, ic)

\* The kernel is at slot k when it reports e, and at k1 then.
Follows(e, k, k1) ==
  e \in SurfaceEvent /\ IF e.code = "SLOT" THEN e.val = k1 ELSE e.at = k /\ k1 = k

\* An event is added: of the slot the kernel is at, or one that changes it.
LEMMA OneMore ==
  ASSUME NEW s, NEW e, NEW k, NEW k1, NEW b, NEW ic,
         Good(s, k, b, ic), Follows(e, k, k1)
  PROVE  Good(s \o <<e>>, k1, b, ic)
  <1>. DEFINE t == s \o <<e>>
  <1>0. /\ s \in Seq(SurfaceEvent) /\ e \in SurfaceEvent
        /\ Chained(s) /\ Begins(s, b, ic) /\ Ends(s, k) /\ Stays(s, k, b, ic)
        /\ IF e.code = "SLOT" THEN e.val = k1 ELSE e.at = k /\ k1 = k
    BY DEF Good, Follows
  <1>1. /\ Len(s) \in Nat /\ t \in Seq(SurfaceEvent) /\ Len(t) = Len(s) + 1
        /\ \A i \in 1 .. Len(s) : t[i] = s[i]
        /\ t[Len(s) + 1] = e
    BY <1>0
  <1>. HIDE DEF t
  <1>2. \A i \in Nat \ {0}, j \in 0 .. Len(s) : NoSlot(t, i, j) => NoSlot(s, i, j)
    BY <1>1 DEF NoSlot
  <1>3. \A i \in 0 .. Len(s) : NoSlot(t, i + 1, Len(s) + 1)
                               => NoSlot(s, i + 1, Len(s)) /\ e.code # "SLOT"
    BY <1>1 DEF NoSlot
  <1>4. Chained(t)
    <2>. SUFFICES ASSUME NEW i \in 1 .. Len(t), NEW j \in 1 .. Len(t),
                         i < j, NoSlot(t, i + 1, j)
                  PROVE  t[j].at = SlotOf(t[i])
      BY DEF Chained
    <2>1. CASE j <= Len(s)
      BY <1>0, <1>1, <1>2, <2>1 DEF Chained
    <2>2. CASE j = Len(s) + 1
      BY <1>0, <1>1, <1>3, <2>2 DEF Ends
    <2>. QED  BY <1>0, <1>1, <2>1, <2>2
  <1>5. Begins(t, b, ic)
    <2>. SUFFICES ASSUME NEW i \in 1 .. Len(t), NoSlot(t, 1, i)
                  PROVE  b \/ ic = t[i].at
      BY DEF Begins
    <2>1. CASE i <= Len(s)
      <3>1. NoSlot(s, 1, i)
        BY <1>0, <1>1, <1>2, <2>1
      <3>. QED  BY <1>0, <1>1, <2>1, <3>1 DEF Begins
    <2>2. CASE i = Len(s) + 1
      <3>1. NoSlot(s, 0 + 1, Len(s)) /\ e.code # "SLOT"
        BY <1>0, <1>1, <1>3, <2>2
      <3>. QED  BY <1>0, <1>1, <2>2, <3>1 DEF Stays
    <2>. QED  BY <1>0, <1>1, <2>1, <2>2
  <1>6. Ends(t, k1) /\ Stays(t, k1, b, ic)
    <2>1. ASSUME NEW i \in 1 .. Len(t), NoSlot(t, i + 1, Len(t))  PROVE SlotOf(t[i]) = k1
      <3>1. CASE i <= Len(s)
        <4>1. NoSlot(s, i + 1, Len(s)) /\ e.code # "SLOT"
          BY <1>0, <1>1, <1>3, <2>1, <3>1
        <4>. QED  BY <1>0, <1>1, <3>1, <4>1 DEF Ends
      <3>2. CASE i = Len(s) + 1
        BY <1>0, <1>1, <3>2 DEF SlotOf
      <3>. QED  BY <1>0, <1>1, <3>1, <3>2
    <2>2. ASSUME NoSlot(t, 1, Len(t))  PROVE b \/ ic = k1
      <3>1. NoSlot(s, 0 + 1, Len(s)) /\ e.code # "SLOT"
        BY <1>0, <1>1, <1>3, <2>2
      <3>. QED  BY <1>0, <3>1 DEF Stays
    <2>. QED  BY <2>1, <2>2 DEF Ends, Stays
  <1>. QED  BY <1>0, <1>1, <1>4, <1>5, <1>6 DEF Good, t

\* The first n events are dropped.
From(s, n) == SubSeq(s, n + 1, Len(s))

LEMMA Fewer ==
  ASSUME NEW s \in Seq(SurfaceEvent), NEW n \in 0 .. Len(s),
         NEW k, NEW b, NEW ic
  PROVE  /\ Chained(s) => Chained(From(s, n))
         /\ Ends(s, k) => Ends(From(s, n), k)
         /\ Begins(s, b, ic) /\ NoSlot(s, 1, n) => Begins(From(s, n), b, ic)
         /\ Stays(s, k, b, ic) /\ NoSlot(s, 1, n) => Stays(From(s, n), k, b, ic)
  <1>. DEFINE t == From(s, n)
  <1>1. /\ Len(s) \in Nat /\ Len(t) = Len(s) - n
        /\ \A i \in 1 .. Len(t) : t[i] = s[n + i]
    BY DEF From
  <1>. HIDE DEF t
  <1>2. \A i \in 1 .. Len(t) + 1, j \in 0 .. Len(t) :
          NoSlot(t, i, j) => NoSlot(s, n + i, n + j)
    <2>. SUFFICES ASSUME NEW i \in 1 .. Len(t) + 1, NEW j \in 0 .. Len(t), NoSlot(t, i, j),
                         NEW l \in n + i .. n + j
                  PROVE  s[l].code # "SLOT"
      BY DEF NoSlot
    <2>1. l - n \in i .. j /\ l - n \in 1 .. Len(t) /\ n + (l - n) = l
      BY <1>1
    <2>. QED  BY <1>1, <2>1 DEF NoSlot
  <1>3. \A j \in 0 .. Len(t) : NoSlot(t, 1, j) /\ NoSlot(s, 1, n) => NoSlot(s, 1, n + j)
    <2>. SUFFICES ASSUME NEW j \in 0 .. Len(t), NoSlot(t, 1, j), NoSlot(s, 1, n),
                         NEW l \in 1 .. n + j
                  PROVE  s[l].code # "SLOT"
      BY DEF NoSlot
    <2>1. NoSlot(s, n + 1, n + j)
      BY <1>1, <1>2
    <2>. QED  BY <1>1, <2>1 DEF NoSlot
  <1>4. ASSUME Chained(s)  PROVE Chained(t)
    <2>. SUFFICES ASSUME NEW i \in 1 .. Len(t), NEW j \in 1 .. Len(t),
                         i < j, NoSlot(t, i + 1, j)
                  PROVE  t[j].at = SlotOf(t[i])
      BY DEF Chained
    <2>1. NoSlot(s, n + (i + 1), n + j)
      BY <1>1, <1>2
    <2>2. /\ n + i \in 1 .. Len(s) /\ n + j \in 1 .. Len(s) /\ n + i < n + j
          /\ n + (i + 1) = (n + i) + 1
      BY <1>1
    <2>3. s[n + j].at = SlotOf(s[n + i])
      BY <1>4, <2>1, <2>2 DEF Chained
    <2>. QED  BY <1>1, <2>3
  <1>5. ASSUME Begins(s, b, ic), NoSlot(s, 1, n)  PROVE Begins(t, b, ic)
    <2>. SUFFICES ASSUME NEW i \in 1 .. Len(t), NoSlot(t, 1, i)
                  PROVE  b \/ ic = t[i].at
      BY DEF Begins
    <2>1. n + i \in 1 .. Len(s) /\ NoSlot(s, 1, n + i)
      BY <1>1, <1>3, <1>5
    <2>. QED  BY <1>1, <1>5, <2>1 DEF Begins
  <1>7. Len(t) \in 0 .. Len(t) /\ n + Len(t) = Len(s)
    BY <1>1
  <1>6. ASSUME Ends(s, k), NEW i \in 1 .. Len(t), NoSlot(t, i + 1, Len(t))
        PROVE  SlotOf(t[i]) = k
    <2>1. i + 1 \in 1 .. Len(t) + 1
      BY <1>1
    <2>2. NoSlot(s, n + (i + 1), n + Len(t))
      BY <1>2, <1>6, <1>7, <2>1
    <2>3. n + i \in 1 .. Len(s) /\ n + (i + 1) = (n + i) + 1
      BY <1>1
    <2>4. SlotOf(s[n + i]) = k
      BY <1>6, <1>7, <2>2, <2>3 DEF Ends
    <2>. QED  BY <1>1, <2>4
  <1>8. ASSUME NoSlot(s, 1, n), NoSlot(t, 1, Len(t))  PROVE NoSlot(s, 1, Len(s))
    <2>1. NoSlot(s, 1, n + Len(t))
      BY <1>3, <1>7, <1>8
    <2>. QED  BY <1>7, <2>1
  <1>9. Ends(s, k) => Ends(t, k)
    BY <1>6 DEF Ends
  <1>10. Stays(s, k, b, ic) /\ NoSlot(s, 1, n) => Stays(t, k, b, ic)
    BY <1>8 DEF Stays
  <1>. QED  BY <1>4, <1>5, <1>9, <1>10 DEF t

\* A SLOT event is handled: the contact is its slot, or beyond the contacts.
LEMMA SlotHandled ==
  ASSUME NEW s \in Seq(SurfaceEvent), s # <<>>, s[1].code = "SLOT", Chained(s),
         NEW k, NEW b, NEW ic, b \/ ic = s[1].val
  PROVE  /\ Begins(Tail(s), b, ic)
         /\ Ends(s, k) => Stays(Tail(s), k, b, ic)
  <1>. DEFINE t == Tail(s)
  <1>1. /\ Len(s) \in Nat \ {0} /\ Len(t) = Len(s) - 1
        /\ \A i \in 1 .. Len(t) : t[i] = s[i + 1]
    OBVIOUS
  <1>. HIDE DEF t
  <1>2. \A j \in 0 .. Len(t) : NoSlot(t, 1, j) => NoSlot(s, 1 + 1, j + 1)
    <2>. SUFFICES ASSUME NEW j \in 0 .. Len(t), NoSlot(t, 1, j), NEW l \in 1 + 1 .. j + 1
                  PROVE  s[l].code # "SLOT"
      BY DEF NoSlot
    <2>1. l - 1 \in 1 .. j /\ l - 1 \in 1 .. Len(t) /\ (l - 1) + 1 = l
      BY <1>1
    <2>. QED  BY <1>1, <2>1 DEF NoSlot
  <1>3. Begins(t, b, ic)
    <2>. SUFFICES ASSUME NEW i \in 1 .. Len(t), NoSlot(t, 1, i)
                  PROVE  b \/ ic = t[i].at
      BY DEF Begins
    <2>1. 1 \in 1 .. Len(s) /\ i + 1 \in 1 .. Len(s) /\ 1 < i + 1 /\ NoSlot(s, 1 + 1, i + 1)
      BY <1>1, <1>2
    <2>2. s[i + 1].at = SlotOf(s[1])
      BY <2>1 DEF Chained
    <2>. QED  BY <1>1, <2>2 DEF SlotOf
  <1>4. ASSUME Ends(s, k), NoSlot(t, 1, Len(t))  PROVE b \/ ic = k
    <2>1. Len(t) \in 0 .. Len(t) /\ Len(t) + 1 = Len(s) /\ 1 \in 1 .. Len(s)
      BY <1>1
    <2>2. NoSlot(s, 1 + 1, Len(s))
      BY <1>2, <1>4, <2>1
    <2>3. SlotOf(s[1]) = k
      BY <1>4, <2>1, <2>2 DEF Ends
    <2>. QED  BY <2>3 DEF SlotOf
  <1>. QED  BY <1>3, <1>4 DEF t, Stays

\* All that the kernel has reported and will report with the next SYN_REPORT,
\* and the driver has not handled.
tail   == IF surface \in plugged THEN report ELSE <<>>
Stream == unhandled \o tail

Followed ==
  /\ Chained(Stream) /\ Begins(Stream, blind, initial_contact)
  /\ surface \in plugged =>
       Ends(Stream, kslot) /\ Stays(Stream, kslot, blind, initial_contact)

LEMMA StreamTyped ==
  ASSUME Typed
  PROVE  /\ unhandled \in Seq(SurfaceEvent) /\ tail \in Seq(SurfaceEvent)
         /\ report \in Seq(SurfaceEvent) /\ Stream \in Seq(SurfaceEvent)
         /\ Len(unhandled) \in Nat /\ Len(Stream) = Len(unhandled) + Len(tail)
         /\ \A i \in 1 .. Len(unhandled) : Stream[i] = unhandled[i]
         /\ pc \notin {"active", "events"} \/ self # surface => unhandled = kqueue[surface]
  <1>1. report \in Seq(SurfaceEvent)
    BY Kinds DEF Typed, InputTypeOK, SurfaceTypeOK
  <1>2. tail \in Seq(SurfaceEvent)
    BY <1>1, Kinds DEF tail
  <1>3. /\ kqueue[surface] \in Seq(SurfaceEvent) /\ (self = surface => events \in Seq(SurfaceEvent))
        /\ pc \notin {"active", "events"} => events = <<>>
    BY DEF Typed, OwnEvents, InputTypeOK, TypeOK
  <1>4. unhandled \in Seq(SurfaceEvent)
    BY <1>3, Kinds DEF unhandled
  <1>5. ASSUME pc \notin {"active", "events"} \/ self # surface
        PROVE  unhandled = kqueue[surface]
    <2>1. unhandled = <<>> \o kqueue[surface]
      BY <1>3, <1>5 DEF unhandled
    <2>. QED  BY <1>3, <2>1
  <1>. QED  BY <1>1, <1>2, <1>4, <1>5 DEF Stream

\* A step after which the driver has fewer events before it, for a call that
\* forgets what it knew of the slot when it drops a SLOT event.
LEMMA DropStep ==
  ASSUME Typed, Followed, NEW n \in 0 .. Len(unhandled),
         unhandled' = SubSeq(unhandled, n + 1, Len(unhandled)),
         UNCHANGED <<plugged, report, kslot, active_contact>>,
         blind' = (blind \/ missed)
  PROVE  Followed'
  <1>1. /\ unhandled \in Seq(SurfaceEvent) /\ tail \in Seq(SurfaceEvent)
        /\ Stream \in Seq(SurfaceEvent)
        /\ Len(unhandled) \in Nat /\ Len(Stream) = Len(unhandled) + Len(tail)
        /\ \A i \in 1 .. Len(unhandled) : Stream[i] = unhandled[i]
    BY StreamTyped
  <1>2. tail' = tail /\ initial_contact' = initial_contact
    BY DEF tail, initial_contact
  <1>3. Len(unhandled') = Len(unhandled) - n
    BY <1>1
  <1>6. n \in 0 .. Len(Stream)
    BY <1>1
  <1>4. Stream' = SubSeq(Stream, n + 1, Len(Stream))
    <2>1. /\ Stream' = SubSeq(unhandled, n + 1, Len(unhandled)) \o tail
          /\ Stream' \in Seq(SurfaceEvent)
          /\ Len(Stream') = Len(Stream) - n
          /\ \A i \in 1 .. Len(Stream) - n : Stream'[i] = Stream[n + i]
      BY <1>1, <1>2 DEF Stream
    <2>2. /\ SubSeq(Stream, n + 1, Len(Stream)) \in Seq(SurfaceEvent)
          /\ Len(SubSeq(Stream, n + 1, Len(Stream))) = Len(Stream) - n
          /\ \A i \in 1 .. Len(Stream) - n :
               SubSeq(Stream, n + 1, Len(Stream))[i] = Stream[n + i]
      BY <1>1, <1>6
    <2>. QED  BY <2>1, <2>2, SeqEqual
  <1>5. missed \/ NoSlot(Stream, 1, n)
    <2>1. Len(unhandled) - Len(unhandled') = n
      BY <1>1, <1>3
    <2>2. missed \/ \A i \in 1 .. n : unhandled[i].code # "SLOT"
      BY <2>1 DEF missed
    <2>3. \A i \in 1 .. n : Stream[i] = unhandled[i]
      BY <1>1
    <2>. QED  BY <2>2, <2>3 DEF NoSlot
  <1>. DEFINE s == Stream
              t == Stream'
  <1>7. s \in Seq(SurfaceEvent) /\ n \in 0 .. Len(s) /\ t = From(s, n)
    BY <1>1, <1>4, <1>6 DEF From
  <1>. HIDE DEF s, t
  <1>8. /\ Chained(s) => Chained(t)
        /\ Ends(s, kslot) => Ends(t, kslot)
        /\ Begins(s, blind, initial_contact) /\ NoSlot(s, 1, n)
              => Begins(t, blind, initial_contact)
        /\ Stays(s, kslot, blind, initial_contact) /\ NoSlot(s, 1, n)
              => Stays(t, kslot, blind, initial_contact)
    BY <1>7, Fewer
  <1>9. CASE blind'
    <2>1. Begins(t, blind', initial_contact') /\ Stays(t, kslot', blind', initial_contact')
      BY <1>9 DEF Begins, Stays
    <2>. QED  BY <1>8, <2>1 DEF Followed, s, t
  <1>10. CASE ~blind'
    <2>1. NoSlot(s, 1, n) /\ ~blind
      BY <1>5, <1>10 DEF s
    <2>2. Begins(t, blind', initial_contact') <=> Begins(t, blind, initial_contact)
      BY <1>2, <1>10, <2>1 DEF Begins
    <2>3. Stays(t, kslot', blind', initial_contact') <=> Stays(t, kslot, blind, initial_contact)
      BY <1>2, <1>10, <2>1 DEF Stays
    <2>. QED  BY <1>8, <2>1, <2>2, <2>3 DEF Followed, s, t
  <1>. QED  BY <1>9, <1>10

\* Sequences put together and taken apart.
LEMMA Regrouped ==
  ASSUME NEW a \in Seq(SurfaceEvent), NEW b \in Seq(SurfaceEvent), NEW c \in Seq(SurfaceEvent)
  PROVE  a \o b \in Seq(SurfaceEvent) /\ a \o (b \o c) = (a \o b) \o c
  OBVIOUS

LEMMA ConcatParts ==
  ASSUME NEW a \in Seq(SurfaceEvent), NEW q \in Seq(SurfaceEvent)
  PROVE  q = SubSeq(a \o q, Len(a) + 1, Len(a \o q))
  <1>. DEFINE u == SubSeq(a \o q, Len(a) + 1, Len(a \o q))
  <1>1. /\ Len(a) \in Nat /\ Len(q) \in Nat /\ Len(a \o q) = Len(a) + Len(q)
        /\ a \o q \in Seq(SurfaceEvent)
        /\ \A i \in 1 .. Len(q) : (a \o q)[Len(a) + i] = q[i]
    OBVIOUS
  <1>2. u \in Seq(SurfaceEvent) /\ Len(u) = Len(q) /\ \A i \in 1 .. Len(q) : u[i] = q[i]
    BY <1>1
  <1>. HIDE DEF u
  <1>3. q = u
    BY <1>2, SeqEqual
  <1>. QED  BY <1>3 DEF u

LEMMA PartsConcat ==
  ASSUME NEW q \in Seq(SurfaceEvent), NEW n \in 0 .. Len(q)
  PROVE  SubSeq(q, 1, n) \o SubSeq(q, n + 1, Len(q)) = q /\ <<>> \o q = q
  <1>. DEFINE a == SubSeq(q, 1, n)
              b == SubSeq(q, n + 1, Len(q))
              u == a \o b
  <1>1. /\ a \in Seq(SurfaceEvent) /\ Len(a) = n
        /\ \A i \in 1 .. n : a[i] = q[i]
    OBVIOUS
  <1>2. /\ b \in Seq(SurfaceEvent) /\ Len(b) = Len(q) - n
        /\ \A i \in 1 .. Len(q) - n : b[i] = q[n + i]
    OBVIOUS
  <1>. HIDE DEF a, b
  <1>3. u \in Seq(SurfaceEvent) /\ Len(u) = Len(q)
    BY <1>1, <1>2
  <1>4. ASSUME NEW i \in 1 .. Len(q)  PROVE u[i] = q[i]
    <2>1. CASE i <= n
      BY <1>1, <1>2, <2>1
    <2>2. CASE i > n
      <3>1. u[i] = b[i - n] /\ i - n \in 1 .. Len(q) - n /\ n + (i - n) = i
        BY <1>1, <1>2, <2>2
      <3>. QED  BY <1>2, <3>1
    <2>3. i <= n \/ i > n
      OBVIOUS
    <2>. QED  BY <2>1, <2>2, <2>3, Zenon
  <1>. HIDE DEF u
  <1>5. q = u
    BY <1>3, <1>4, SeqEqual
  <1>6. <<>> \o q = q
    OBVIOUS
  <1>. QED  BY <1>5, <1>6 DEF u, a, b

LEMMA TailOfThree ==
  ASSUME NEW S, NEW a \in Seq(S), a # <<>>, NEW q \in Seq(S), NEW r \in Seq(S)
  PROVE  (Tail(a) \o q) \o r = Tail((a \o q) \o r)
  <1>. DEFINE b == Tail(a)
  <1>1. /\ b \in Seq(S) /\ a = <<Head(a)>> \o b /\ <<Head(a)>> \in Seq(S) /\ Head(a) \in S
    BY HeadTailProperties
  <1>. HIDE DEF b
  <1>. DEFINE c == (b \o q) \o r
              h == Head(a)
  <1>2. c \in Seq(S)
    BY <1>1, ConcatProperties
  <1>3. (a \o q) \o r = <<h>> \o c
    <2>1. (<<h>> \o b) \o q = <<h>> \o (b \o q) /\ b \o q \in Seq(S)
      BY <1>1, ConcatAssociative, ConcatProperties
    <2>2. (<<h>> \o (b \o q)) \o r = <<h>> \o ((b \o q) \o r)
      <3>1. \A x, y, z \in Seq(S) : (x \o y) \o z = x \o (y \o z)
        OBVIOUS
      <3>. QED  BY <1>1, <2>1, <3>1
    <2>. QED  BY <1>1, <2>1, <2>2
  <1>. HIDE DEF c, h
  <1>4. h \in S
    BY <1>1 DEF h
  <1>5. Tail(<<h>> \o c) = c
    BY <1>2, <1>4
  <1>. QED  BY <1>3, <1>5 DEF c, b

\* The event at the head of the stream is handled.
LEMMA HandledStep ==
  ASSUME Typed, Followed, pc = "events", self = surface, continue,
         UNCHANGED <<kqueue, plugged, report, kslot>>,
         \/ blind'
         \/ event.code = "SLOT" /\ initial_contact' = event.val
         \/ event.code # "SLOT" /\ UNCHANGED <<initial_contact, blind>>
  PROVE  Followed'
  <1>1. /\ events \in Seq(SurfaceEvent) /\ events # <<>> /\ kqueue[surface] \in Seq(SurfaceEvent)
        /\ tail \in Seq(SurfaceEvent)
    BY StreamTyped DEF Typed, OwnEvents, InputTypeOK, TypeOK
  <1>2. events' = Tail(events) /\ self' \in {surface, NoDevice}
        /\ (self' = NoDevice => Tail(events) = <<>>)
    <2>1. Len(events) = 1 => Tail(events) = <<>>
      <3>1. Tail(events) \in Seq(SurfaceEvent) /\ Len(Tail(events)) = Len(events) - 1
        BY <1>1, HeadTailProperties
      <3>2. \A s \in Seq(SurfaceEvent) : Len(s) = 0 => s = <<>>
        OBVIOUS
      <3>3. Len(events) = 1 => Len(Tail(events)) = 0
        BY <3>1
      <3>. QED  BY <3>1, <3>2, <3>3
    <2>2. CASE Len(events) = 1
      BY <2>1, <2>2 DEF continue, return
    <2>3. CASE Len(events) # 1
      BY <2>3, Kinds DEF continue
    <2>. QED  BY <2>2, <2>3
  <1>3. unhandled' = Tail(events) \o kqueue[surface]
    BY <1>1, <1>2 DEF unhandled
  <1>4. unhandled = events \o kqueue[surface]
    BY DEF unhandled
  <1>. DEFINE s == Stream
              t == Stream'
  <1>5. /\ s \in Seq(SurfaceEvent) /\ s # <<>> /\ s[1] = event /\ t = Tail(s)
        /\ 1 \in 0 .. Len(s) /\ t = From(s, 1)
    <2>1. tail' = tail
      BY DEF tail
    <2>2. s = (events \o kqueue[surface]) \o tail
      BY <1>4 DEF Stream
    <2>3. t = (Tail(events) \o kqueue[surface]) \o tail
      BY <1>3, <2>1 DEF Stream
    <2>. HIDE DEF s, t
    <2>4. s \in Seq(SurfaceEvent) /\ s # <<>> /\ s[1] = Head(events) /\ Len(s) \in Nat \ {0}
      BY <1>1, <2>2
    <2>5. t = Tail(s)
      <3>1. \A a, q, r \in Seq(SurfaceEvent) :
              a # <<>> => (Tail(a) \o q) \o r = Tail((a \o q) \o r)
        BY TailOfThree
      <3>. QED  BY <1>1, <2>2, <2>3, <3>1
    <2>6. Tail(s) = SubSeq(s, 1 + 1, Len(s)) /\ 1 + 1 = 2
      BY <2>4, TailIsSubSeq
    <2>. QED  BY <2>4, <2>5, <2>6 DEF From, event
  <1>. HIDE DEF s, t
  <1>6. /\ Chained(s) /\ Begins(s, blind, initial_contact)
        /\ surface \in plugged => Ends(s, kslot) /\ Stays(s, kslot, blind, initial_contact)
    BY DEF Followed, s
  <1>7. /\ Chained(t) /\ (Ends(s, kslot) => Ends(t, kslot))
    BY <1>5, <1>6, Fewer
  <1>. SUFFICES /\ Begins(t, blind', initial_contact')
                /\ surface \in plugged => Stays(t, kslot, blind', initial_contact')
    BY <1>6, <1>7 DEF Followed, t
  <1>8. CASE blind'
    BY <1>8 DEF Begins, Stays
  <1>9. CASE event.code = "SLOT" /\ initial_contact' = event.val
    BY <1>5, <1>6, <1>9, SlotHandled
  <1>10. CASE event.code # "SLOT" /\ UNCHANGED <<initial_contact, blind>>
    <2>1. NoSlot(s, 1, 1)
      BY <1>5, <1>10 DEF NoSlot
    <2>2. /\ Begins(t, blind, initial_contact)
          /\ surface \in plugged => Stays(t, kslot, blind, initial_contact)
      BY <1>5, <1>6, <2>1, Fewer
    <2>3. initial_contact' = initial_contact /\ blind' = blind
      BY <1>10
    <2>. QED  BY <2>2, <2>3 DEF Begins, Stays
  <1>. QED  BY <1>8, <1>9, <1>10

\* The kernel adds events.
LEMMA MovesFollowed ==
  ASSUME Typed, Followed, surface_moves
  PROVE  Followed'
  <1>. USE DEF belief, history, call, kernel, signals, pvt
  <1>1. /\ surface \in plugged /\ plugged' = plugged
        /\ UNCHANGED <<self, events, kqueue, active_contact, blind>>
    BY DEF surface_moves
  <1>2. /\ Good(Stream, kslot, blind, initial_contact) /\ tail = report
        /\ unhandled \in Seq(SurfaceEvent) /\ report \in Seq(SurfaceEvent)
    BY <1>1, StreamTyped DEF Followed, Good, tail
  <1>3. PICK s \in Slots : touch(s) \/ move(s) \/ lift(s)
    BY DEF surface_moves
  <1>4. /\ \A id \in Ids \cup {NoId} : [code |-> "TRACKING_ID", val |-> id, at |-> s] \in SurfaceEvent
        /\ [code |-> "POSITION", val |-> 0, at |-> s] \in SurfaceEvent
        /\ \A m \in {0, 1} : [code |-> "MAGNITUDE", val |-> m, at |-> s] \in SurfaceEvent
        /\ [code |-> "SLOT", val |-> s] \in SurfaceEvent
    BY DEF SurfaceEvent, MtEvent, SlotEvent, IdEvent, AxisEvent
  <1>. DEFINE a == IF s = kslot THEN <<>> ELSE <<[code |-> "SLOT", val |-> s]>>
              u == (unhandled \o report) \o a
  <1>5. Good(u, s, blind, initial_contact)
    <2>1. unhandled \o report = Stream
      BY <1>2 DEF Stream
    <2>2. CASE s = kslot
      <3>1. u = Stream
        BY <1>2, <2>1, <2>2 DEF Good
      <3>. QED  BY <1>2, <2>2, <3>1
    <2>3. CASE s # kslot
      <3>1. u = Stream \o <<[code |-> "SLOT", val |-> s]>>
        BY <2>1, <2>3
      <3>2. Follows([code |-> "SLOT", val |-> s], kslot, s)
        BY <1>4 DEF Follows
      <3>. QED  BY <1>2, <3>1, <3>2, OneMore
    <2>. QED  BY <2>2, <2>3
  <1>6. ASSUME NEW e, e \in SurfaceEvent, e.code # "SLOT", e.at = s
        PROVE  Follows(e, s, s)
    BY <1>6 DEF Follows
  <1>7. ASSUME NEW es \in Seq(SurfaceEvent), NEW f, update(s, es, f)
        PROVE  /\ kslot' = s /\ Stream' = u \o es
    <2>1. report' = (report \o a) \o es /\ kslot' = s
      BY <1>7 DEF update
    <2>2. a \in Seq(SurfaceEvent)
      BY <1>4, Kinds
    <2>3. unhandled' = unhandled /\ tail' = report'
      BY <1>1 DEF unhandled, tail
    <2>4. Stream' = unhandled \o ((report \o a) \o es)
      BY <2>1, <2>3 DEF Stream
    <2>. HIDE DEF a
    <2>5. unhandled \o ((report \o a) \o es) = ((unhandled \o report) \o a) \o es
      BY <1>2, <1>7, <2>2, ConcatAssociative, ConcatProperties
    <2>. QED  BY <2>1, <2>4, <2>5
  <1>. HIDE DEF u, a
  <1>8. Good(Stream', kslot', blind, initial_contact)
    <2>1. ASSUME NEW e, e \in SurfaceEvent, e.code # "SLOT", e.at = s, NEW f, update(s, <<e>>, f)
          PROVE  Good(Stream', kslot', blind, initial_contact)
      <3>2. <<e>> \in Seq(SurfaceEvent)
        BY <2>1
      <3>1. kslot' = s /\ Stream' = u \o <<e>>
        BY <1>7, <2>1, <3>2
      <3>. QED  BY <1>5, <1>6, <2>1, <3>1, OneMore
    <2>2. CASE touch(s)
      <3>1. PICK m \in {<<>>, pressure(s, 1)} : update(s, tracking(s, touches') \o m, touches')
        BY <2>2 DEF touch
      <3>. DEFINE e == [code |-> "TRACKING_ID", val |-> touches', at |-> s]
                  g == [code |-> "MAGNITUDE", val |-> 1, at |-> s]
      <3>2. touches' \in Ids
        BY <2>2, SurfaceAssumption DEF touch, Ids, Typed, InputTypeOK, SurfaceTypeOK
      <3>3. /\ e \in SurfaceEvent /\ e.code # "SLOT" /\ e.at = s
            /\ g \in SurfaceEvent /\ g.code # "SLOT" /\ g.at = s
        BY <1>4, <3>2
      <3>4. update(s, <<e>>, touches') \/ update(s, <<e>> \o <<g>>, touches')
        <4>1. CASE m = <<>>
          <5>1. tracking(s, touches') \o m = <<e>>
            BY <4>1 DEF tracking
          <5>. QED  BY <3>1, <5>1
        <4>2. CASE m = pressure(s, 1)
          <5>1. tracking(s, touches') \o m = <<e>> \o <<g>>
            BY <4>2 DEF tracking, pressure
          <5>. QED  BY <3>1, <5>1
        <4>. QED  BY <4>1, <4>2
      <3>. HIDE DEF e, g
      <3>5. CASE update(s, <<e>>, touches')
        BY <2>1, <3>3, <3>5
      <3>6. CASE update(s, <<e>> \o <<g>>, touches')
        <4>1. <<e>> \o <<g>> \in Seq(SurfaceEvent)
          BY <3>3
        <4>2. kslot' = s /\ Stream' = u \o (<<e>> \o <<g>>)
          BY <1>7, <3>6, <4>1
        <4>3. u \in Seq(SurfaceEvent)
          BY <1>5 DEF Good
        <4>4. u \o (<<e>> \o <<g>>) = (u \o <<e>>) \o <<g>>
          BY <3>3, <4>3
        <4>5. Good(u \o <<e>>, s, blind, initial_contact)
          BY <1>5, <1>6, <3>3, OneMore
        <4>. QED  BY <1>6, <3>3, <4>2, <4>4, <4>5, OneMore
      <3>. QED  BY <3>4, <3>5, <3>6
    <2>3. CASE move(s)
      <3>1. PICK es \in {position(s), pressure(s, 0), pressure(s, 1)} : update(s, es, fingers[s])
        BY <2>3 DEF move
      <3>2. \E e \in SurfaceEvent : es = <<e>> /\ e.code # "SLOT" /\ e.at = s
        BY <1>4, <3>1 DEF position, pressure
      <3>. QED  BY <2>1, <3>1, <3>2
    <2>4. CASE lift(s)
      <3>1. update(s, tracking(s, NoId), NoId)
        BY <2>4 DEF lift
      <3>. DEFINE e == [code |-> "TRACKING_ID", val |-> NoId, at |-> s]
      <3>2. tracking(s, NoId) = <<e>>
        BY DEF tracking
      <3>3. e \in SurfaceEvent /\ e.code # "SLOT" /\ e.at = s
        BY <1>4
      <3>. HIDE DEF e
      <3>. QED  BY <2>1, <3>1, <3>2, <3>3
    <2>. QED  BY <1>3, <2>2, <2>3, <2>4
  <1>9. initial_contact' = initial_contact /\ blind' = blind
    BY <1>1 DEF initial_contact
  <1>. QED  BY <1>8, <1>9 DEF Good, Followed, Begins, Stays

LEMMA SyncsFollowed ==
  ASSUME Typed, Followed, surface_syncs
  PROVE  Followed'
  <1>. USE DEF belief, history, call, kernel, signals, pvt
  <1>1. /\ surface \in plugged /\ plugged' = plugged /\ kslot \in Slots
        /\ UNCHANGED <<self, events, active_contact, blind, kslot>>
    BY DEF surface_syncs, Typed, InputTypeOK, SurfaceTypeOK
  <1>2. /\ Good(Stream, kslot, blind, initial_contact) /\ tail = report
        /\ unhandled \in Seq(SurfaceEvent) /\ report \in Seq(SurfaceEvent)
    BY <1>1, StreamTyped DEF Followed, Good, tail
  <1>. DEFINE b == IF key_touch' # key_touch THEN end_event("BTN_TOUCH") ELSE <<>>
              y == [code |-> "SYN_REPORT", val |-> 0, at |-> kslot]
              x == [code |-> "BTN_TOUCH", val |-> 0, at |-> kslot]
  <1>3. Follows(x, kslot, kslot) /\ Follows(y, kslot, kslot) /\ x \in SurfaceEvent /\ y \in SurfaceEvent
    BY <1>1 DEF Follows, SurfaceEvent, EndEvent
  <1>4. b \in {<<>>, <<x>>} /\ end_event("SYN_REPORT") = <<y>>
    BY DEF end_event
  <1>5. kqueue'[surface] = ((kqueue[surface] \o report) \o b) \o <<y>>
    BY <1>4, Kinds DEF surface_syncs, Typed, InputTypeOK, TypeOK
  <1>. HIDE DEF x, y, b
  <1>6. Stream' = (Stream \o b) \o <<y>>
    <2>. DEFINE es == IF self = surface THEN events ELSE <<>>
    <2>1. /\ es \in Seq(SurfaceEvent) /\ kqueue[surface] \in Seq(SurfaceEvent)
          /\ b \in Seq(SurfaceEvent) /\ <<y>> \in Seq(SurfaceEvent)
      <3>1. es \in Seq(SurfaceEvent) /\ kqueue[surface] \in Seq(SurfaceEvent)
        BY Kinds DEF Typed, OwnEvents
      <3>2. <<x>> \in Seq(SurfaceEvent) /\ <<y>> \in Seq(SurfaceEvent)
        BY <1>3
      <3>. HIDE DEF es
      <3>. QED  BY <1>4, <3>1, <3>2, Kinds
    <2>2. /\ unhandled = es \o kqueue[surface]
          /\ unhandled' = es \o (((kqueue[surface] \o report) \o b) \o <<y>>)
      BY <1>1, <1>5 DEF unhandled
    <2>3. tail' = <<>>
      BY DEF tail, surface_syncs
    <2>. HIDE DEF es
    <2>4. Stream' = es \o (((kqueue[surface] \o report) \o b) \o <<y>>)
      <3>1. es \o (((kqueue[surface] \o report) \o b) \o <<y>>) \in Seq(SurfaceEvent)
        BY <1>2, <2>1, ConcatProperties
      <3>2. Stream' = (es \o (((kqueue[surface] \o report) \o b) \o <<y>>)) \o <<>>
        BY <2>2, <2>3 DEF Stream
      <3>. QED  BY <3>1, <3>2, ConcatEmptySeq
    <2>5. Stream = (es \o kqueue[surface]) \o report
      BY <1>2, <2>2 DEF Stream
    <2>. DEFINE q == kqueue[surface]
                d == <<y>>
    <2>6. /\ es \in Seq(SurfaceEvent) /\ q \in Seq(SurfaceEvent) /\ report \in Seq(SurfaceEvent)
          /\ b \in Seq(SurfaceEvent) /\ d \in Seq(SurfaceEvent)
      BY <1>2, <2>1
    <2>9. /\ Stream' = es \o (((q \o report) \o b) \o d) /\ Stream = (es \o q) \o report
      BY <1>2, <2>1, <2>4, <2>5
    <2>. HIDE DEF q, d
    <2>. DEFINE k == q \o report
                n == k \o b
    <2>10. es \o k = (es \o q) \o report
      BY <2>6, Regrouped
    <2>13. k \in Seq(SurfaceEvent)
      BY <2>6, Regrouped
    <2>. HIDE DEF k
    <2>11. es \o n = (es \o k) \o b
      BY <2>6, <2>13, Regrouped
    <2>14. n \in Seq(SurfaceEvent)
      BY <2>6, <2>13, Regrouped
    <2>. HIDE DEF n
    <2>12. es \o (n \o d) = (es \o n) \o d
      <3>1. es \in Seq(SurfaceEvent) /\ n \in Seq(SurfaceEvent) /\ d \in Seq(SurfaceEvent)
        BY <2>6, <2>14
      <3>. QED  BY <3>1, Regrouped
    <2>7. es \o (((q \o report) \o b) \o d) = (((es \o q) \o report) \o b) \o d
      BY <2>10, <2>11, <2>12, Zenon DEF k, n
    <2>8. Stream' = (Stream \o b) \o d
      BY <2>7, <2>9, Zenon
    <2>. QED  BY <2>8 DEF d
  <1>7. Good(Stream \o b, kslot, blind, initial_contact)
    <2>1. CASE b = <<>>
      <3>1. Stream \o b = Stream
        BY <1>2, <2>1 DEF Good
      <3>. QED  BY <1>2, <3>1
    <2>2. CASE b = <<x>>
      BY <1>2, <1>3, <2>2, OneMore
    <2>. QED  BY <1>4, <2>1, <2>2
  <1>8. Good(Stream', kslot, blind, initial_contact)
    BY <1>3, <1>6, <1>7, OneMore
  <1>9. initial_contact' = initial_contact /\ blind' = blind /\ kslot' = kslot
    BY <1>1 DEF initial_contact
  <1>. QED  BY <1>8, <1>9 DEF Good, Followed, Begins, Stays

\* The stream stays as it is.
LEMMA SameStep ==
  ASSUME Typed, Followed, unhandled' = unhandled, blind => blind',
         (surface \in plugged') <=> (surface \in plugged),
         UNCHANGED <<report, kslot, active_contact>>
  PROVE  Followed'
  <1>1. tail' = tail /\ initial_contact' = initial_contact /\ kslot' = kslot
    BY DEF tail, initial_contact
  <1>2. Stream' = Stream
    BY <1>1 DEF Stream
  <1>3. Begins(Stream, blind, initial_contact) => Begins(Stream, blind', initial_contact)
    BY DEF Begins
  <1>4. Stays(Stream, kslot, blind, initial_contact) => Stays(Stream, kslot, blind', initial_contact)
    BY DEF Stays
  <1>. QED  BY <1>1, <1>2, <1>3, <1>4, Zenon DEF Followed

\* Every device is flushed, or the rest of a read of the surface is dropped.
LEMMA FlushStep ==
  ASSUME Typed, Followed, blind' = (blind \/ missed),
         UNCHANGED <<plugged, report, kslot, active_contact>>,
         \/ unhandled' = <<>>
         \/ /\ self = surface /\ self' # surface
            /\ kqueue'[surface] = kqueue[surface]
  PROVE  Followed'
  <1>1. unhandled \in Seq(SurfaceEvent) /\ Len(unhandled) \in Nat
    BY StreamTyped
  <1>2. CASE unhandled' = <<>>
    <2>1. unhandled' = SubSeq(unhandled, Len(unhandled) + 1, Len(unhandled))
      BY <1>1, <1>2, SubSeqEmpty
    <2>. QED  BY <1>1, <2>1, DropStep
  <1>3. CASE /\ self = surface /\ self' # surface
             /\ kqueue'[surface] = kqueue[surface]
    <2>. DEFINE q == kqueue[surface]
    <2>1. events \in Seq(SurfaceEvent) /\ q \in Seq(SurfaceEvent)
      BY <1>3 DEF Typed, OwnEvents
    <2>2. unhandled = events \o q /\ unhandled' = <<>> \o q
      BY <1>3 DEF unhandled
    <2>. HIDE DEF q
    <2>3. unhandled' = q
      BY <2>1, <2>2
    <2>4. Len(events) \in 0 .. Len(unhandled)
      BY <2>1, <2>2
    <2>5. q = SubSeq(events \o q, Len(events) + 1, Len(events \o q))
      BY <2>1, ConcatParts
    <2>. QED  BY <2>2, <2>3, <2>4, <2>5, DropStep
  <1>. QED  BY <1>2, <1>3

\* The surface is unplugged: the reports it has not had read are lost.
LEMMA CutStep ==
  ASSUME Typed, Followed, unplug(surface), blind => blind',
         UNCHANGED <<report, kslot, active_contact>>
  PROVE  Followed'
  <1>. DEFINE a == IF self = surface THEN events ELSE <<>>
              c == kqueue[surface] \o tail
              s == a \o c
  <1>1. a \in Seq(SurfaceEvent) /\ kqueue[surface] \in Seq(SurfaceEvent) /\ tail \in Seq(SurfaceEvent)
    BY StreamTyped, Kinds DEF Typed, OwnEvents
  <1>2. unhandled = a \o kqueue[surface] /\ Stream = (a \o kqueue[surface]) \o tail
    BY DEF unhandled, Stream
  <1>3. surface \notin plugged' /\ kqueue'[surface] = <<>> /\ UNCHANGED <<self, events>>
    BY Kinds DEF unplug, call, Typed, InputTypeOK, TypeOK
  <1>4. unhandled' = a \o <<>> /\ tail' = <<>>
    BY <1>3 DEF unhandled, tail
  <1>. HIDE DEF a
  <1>5. Stream' = a
    <2>1. Stream' = (a \o <<>>) \o <<>>
      BY <1>4 DEF Stream
    <2>. QED  BY <1>1, <2>1
  <1>6. Stream = s /\ c \in Seq(SurfaceEvent)
    BY <1>1, <1>2, Regrouped
  <1>. HIDE DEF c
  <1>7. /\ Len(a) \in Nat /\ Len(s) \in Nat /\ Len(a) <= Len(s)
        /\ \A i \in 1 .. Len(a) : s[i] = a[i]
    BY <1>1, <1>6
  <1>. HIDE DEF s
  <1>8. \A m \in Nat \ {0}, n \in 0 .. Len(a) : NoSlot(a, m, n) => NoSlot(s, m, n)
    BY <1>7 DEF NoSlot
  <1>9. Chained(a)
    <2>. SUFFICES ASSUME NEW i \in 1 .. Len(a), NEW j \in 1 .. Len(a),
                         i < j, NoSlot(a, i + 1, j)
                  PROVE  a[j].at = SlotOf(a[i])
      BY DEF Chained
    <2>1. NoSlot(s, i + 1, j)
      BY <1>7, <1>8
    <2>2. s[j].at = SlotOf(s[i])
      BY <1>6, <1>7, <2>1 DEF Followed, Chained
    <2>. QED  BY <1>7, <2>2
  <1>10. Begins(a, blind', initial_contact')
    <2>. SUFFICES ASSUME NEW i \in 1 .. Len(a), NoSlot(a, 1, i)
                  PROVE  blind' \/ initial_contact = a[i].at
      BY DEF Begins, initial_contact
    <2>1. NoSlot(s, 1, i)
      BY <1>7, <1>8
    <2>2. blind \/ initial_contact = s[i].at
      BY <1>6, <1>7, <2>1 DEF Followed, Begins
    <2>. QED  BY <1>7, <2>2
  <1>. QED  BY <1>3, <1>5, <1>9, <1>10 DEF Followed

\* What is not handled yet, by the parts that a step leaves alone.
LEMMA SameEvents ==
  ASSUME Typed, kqueue'[surface] = kqueue[surface],
         \/ UNCHANGED <<self, events>>
         \/ self # surface /\ self' # surface
         \/ events = <<>> /\ events' = <<>>
  PROVE  unhandled' = unhandled
  BY DEF unhandled

LEMMA NoEvents ==
  ASSUME Typed, input_flush_all_devices, self' # surface \/ events' = <<>>
  PROVE  unhandled' = <<>>
  <1>1. kqueue'[surface] = <<>> /\ <<>> \o <<>> = <<>>
    BY Kinds DEF input_flush_all_devices
  <1>. QED  BY <1>1 DEF unhandled

LEMMA KeyFollowed ==
  ASSUME Typed, Followed, Next, blind' = (blind \/ missed),
         UNCHANGED <<hardware, pvt>>
  PROVE  Followed'
  <1>. USE DEF kernel, signals, call, belief, history
  <1>u. UNCHANGED <<report, kslot, active_contact>> /\ (blind => blind')
    BY DEF hardware, pvt
  <1>t. /\ surface \in Devices /\ kqueue \in [Devices -> Seq(Event)]
        /\ pc \notin {"active", "events"} => events = <<>>
        /\ NoDevice # surface
    BY Kinds DEF Typed, InputTypeOK, TypeOK
  <1>s. ASSUME UNCHANGED plugged, unhandled' = unhandled  PROVE Followed'
    BY <1>u, <1>s, SameStep
  <1>f. ASSUME UNCHANGED plugged, unhandled' = <<>>  PROVE Followed'
    BY <1>u, <1>f, FlushStep
  <1>k. ASSUME key_event, return \/ continue  PROVE self # surface /\ self' # surface
    BY <1>k, <1>t, KeysElsewhere DEF return, continue
  <1>1. ASSUME NEW d \in Devices, type(d)  PROVE Followed'
    <2>1. d # surface
      BY <1>1, SurfaceAssumption DEF type
    <2>2. kqueue'[surface] = kqueue[surface]
      BY <1>1, <1>t, <2>1 DEF type
    <2>. QED  BY <1>1, <1>s, <2>2, SameEvents DEF type
  <1>17. ASSUME NEW d \in Devices, unplug(d)  PROVE Followed'
    <2>1. CASE d = surface
      BY <1>17, <1>u, <2>1, CutStep
    <2>2. CASE d # surface
      <3>1. kqueue'[surface] = kqueue[surface] /\ ((surface \in plugged') <=> (surface \in plugged))
        BY <1>17, <1>t, <2>2 DEF unplug
      <3>2. unhandled' = unhandled
        BY <1>17, <3>1, SameEvents DEF unplug
      <3>. QED  BY <1>u, <3>1, <3>2, SameStep
    <2>. QED  BY <2>1, <2>2
  <1>2. ASSUME NEW d \in Devices, input_ready(d)  PROVE Followed'
    BY <1>2, <1>s, <1>t, SameEvents DEF input_ready
  <1>3. CASE vt_acquire
    BY <1>3, <1>s, SameEvents DEF vt_acquire
  <1>4. CASE vt_release
    BY <1>4, <1>s, SameEvents DEF vt_release
  <1>5. ASSUME NEW c \in Clients, server_connect_client(c)  PROVE Followed'
    BY <1>5, <1>s, SameEvents DEF server_connect_client
  <1>6. CASE server_remove_client
    BY <1>6, <1>f, <1>t, NoEvents DEF server_remove_client
  <1>7. CASE update_state
    BY <1>7, <1>s, SameEvents DEF update_state
  <1>8. CASE update_state_unmute
    BY <1>8, <1>f, <1>t, NoEvents DEF update_state_unmute
  <1>9. CASE read_events
    <2>. DEFINE q == kqueue[self]
                count == IF Len(q) < EV_BUF THEN Len(q) ELSE EV_BUF
    <2>1. /\ pc = "read" /\ self \in Devices /\ events = <<>> /\ plugged' = plugged
          /\ kqueue' = [kqueue EXCEPT ![self] = SubSeq(q, count + 1, Len(q))]
          /\ q = <<>> => return
          /\ q # <<>> => events' = SubSeq(q, 1, count) /\ self' = self
      BY <1>9, <1>t DEF read_events, Typed, InputTypeOK, TypeOK
    <2>2. CASE self # surface
      <3>1. kqueue'[surface] = kqueue[surface]
        BY <1>t, <2>1, <2>2
      <3>2. self' # surface
        BY <1>t, <2>1, <2>2 DEF return
      <3>. QED  BY <1>s, <2>1, <2>2, <3>1, <3>2, SameEvents
    <2>3. CASE self = surface
      <3>1. q \in Seq(SurfaceEvent) /\ kqueue'[surface] = SubSeq(q, count + 1, Len(q))
        BY <1>t, <2>1, <2>3 DEF Typed, OwnEvents
      <3>2. unhandled = <<>> \o q
        BY <2>1, <2>3 DEF unhandled
      <3>3. CASE q = <<>>
        <4>1. kqueue'[surface] = <<>>
          BY <3>1, <3>3, KeyAssumption
        <4>2. unhandled' = <<>> \o <<>>
          BY <2>1, <3>3, <4>1 DEF unhandled, return
        <4>. QED  BY <1>f, <2>1, <4>2
      <3>4. CASE q # <<>>
        <4>1. unhandled' = SubSeq(q, 1, count) \o SubSeq(q, count + 1, Len(q))
          BY <2>1, <2>3, <3>1, <3>4 DEF unhandled
        <4>2. count \in 0 .. Len(q)
          BY <3>1, KeyAssumption
        <4>. HIDE DEF q, count
        <4>3. SubSeq(q, 1, count) \o SubSeq(q, count + 1, Len(q)) = q /\ <<>> \o q = q
          BY <3>1, <4>2, PartsConcat
        <4>. QED  BY <1>s, <2>1, <3>2, <4>1, <4>3
      <3>. QED  BY <3>3, <3>4
    <2>. QED  BY <2>2, <2>3
  <1>10. CASE server_is_active
    <2>1. UNCHANGED <<plugged, kqueue>> /\ (UNCHANGED <<self, events>> \/ return)
      BY <1>10 DEF server_is_active
    <2>2. CASE UNCHANGED <<self, events>>
      BY <1>s, <2>1, <2>2, SameEvents
    <2>3. CASE return /\ self # surface
      BY <1>s, <1>t, <2>1, <2>3, SameEvents DEF return
    <2>4. CASE return /\ self = surface
      BY <1>t, <1>u, <2>1, <2>4, FlushStep DEF return
    <2>. QED  BY <2>1, <2>2, <2>3, <2>4
  <1>11. CASE key_ignored
    BY <1>11, <1>k, <1>s, SameEvents DEF key_ignored
  <1>12. CASE key_forwarded
    BY <1>12, <1>k, <1>s, SameEvents DEF key_forwarded
  <1>13. CASE key_vt_switch
    BY <1>13, <1>k, <1>s, SameEvents DEF key_vt_switch
  <1>14. CASE key_axe
    BY <1>14, <1>k, <1>s, SameEvents DEF key_axe
  <1>15. CASE key_next_screen
    <2>1. plugged' = plugged /\ self # surface /\ self' # surface
      BY <1>15, <1>k DEF key_next_screen
    <2>2. kqueue' = kqueue \/ input_flush_all_devices
      BY <1>15 DEF key_next_screen, main_screen_switch
    <2>3. CASE kqueue' = kqueue
      BY <1>s, <2>1, <2>3, SameEvents
    <2>4. CASE input_flush_all_devices
      BY <1>f, <2>1, <2>4, NoEvents
    <2>. QED  BY <2>2, <2>3, <2>4
  <1>. QED  BY <1>1, <1>2, <1>3, <1>4, <1>5, <1>6, <1>7, <1>8, <1>9, <1>10, <1>11,
               <1>12, <1>13, <1>14, <1>15, <1>17 DEF Next, Around, Server, Key

LEMMA SurfaceFollowed ==
  ASSUME Typed, Followed, SurfaceNext
  PROVE  Followed'
  <1>. USE DEF kernel, signals
  <1>c. 0 \in Contacts /\ NoContact \notin Contacts /\ NoDevice # surface
    BY Kinds
  <1>1. CASE surface_moves
    BY <1>1, MovesFollowed
  <1>2. CASE surface_syncs
    BY <1>2, SyncsFollowed
  <1>3. CASE abs_mt_slot
    <2>1. /\ pc = "events" /\ self = surface /\ continue /\ event.code = "SLOT"
          /\ UNCHANGED <<kqueue, plugged, report, kslot>>
      BY <1>3 DEF abs_mt_slot, surface_event, consume, surface_rest, hardware
    <2>2. blind' \/ initial_contact' = event.val
      <3>1. event.val \in Contacts => active_contact' = event.val
        BY <1>3 DEF abs_mt_slot
      <3>2. event.val \notin Contacts => blind'
        BY <1>3 DEF abs_mt_slot
      <3>. QED  BY <1>c, <3>1, <3>2 DEF initial_contact
    <2>. QED  BY <2>1, <2>2, HandledStep
  <1>4. CASE finger_down
    <2>1. /\ pc = "events" /\ self = surface /\ continue /\ event.code = "TRACKING_ID"
          /\ UNCHANGED <<kqueue, plugged, report, kslot>>
      BY <1>4 DEF finger_down, handle_id, surface_event, consume, surface_rest, hardware
    <2>2. initial_contact' = initial_contact /\ blind' = blind
      BY <1>4, <1>c DEF finger_down, initial_contact
    <2>. QED  BY <2>1, <2>2, HandledStep
  <1>5. CASE finger_up
    <2>1. /\ pc = "events" /\ self = surface /\ continue /\ blind'
          /\ UNCHANGED <<kqueue, plugged, report, kslot>>
      BY <1>5 DEF finger_up, handle_id, surface_event, consume, surface_rest, hardware
    <2>. QED  BY <2>1, HandledStep
  <1>6. CASE axis \/ syn_report
    <2>1. /\ pc = "events" /\ self = surface /\ continue /\ event.code # "SLOT"
          /\ UNCHANGED <<kqueue, plugged, report, kslot, active_contact, blind>>
      BY <1>6 DEF axis, syn_report, surface_event, consume, surface_rest, hardware
    <2>2. initial_contact' = initial_contact /\ blind' = blind
      BY <2>1 DEF initial_contact
    <2>. QED  BY <2>1, <2>2, HandledStep
  <1>7. CASE leave_report
    <2>1. UNCHANGED <<self, events, kqueue, plugged, report, kslot, active_contact, blind>>
      BY <1>7 DEF leave_report, call, surface_rest, hardware
    <2>2. unhandled' = unhandled
      BY <2>1, SameEvents
    <2>. QED  BY <2>1, <2>2, SameStep
  <1>8. CASE btn_touch
    <2>1. /\ pc = "events" /\ self = surface /\ event.code = "BTN_TOUCH" /\ (continue \/ return)
          /\ UNCHANGED <<kqueue, plugged, report, kslot, active_contact>>
          /\ blind' = (blind \/ missed)
      BY <1>8 DEF btn_touch, surface_event, surface_rest, hardware, pvt
    <2>2. CASE return
      BY <1>c, <2>1, <2>2, FlushStep DEF return
    <2>3. CASE continue
      <3>1. initial_contact' = initial_contact
        BY <2>1 DEF initial_contact
      <3>2. blind \in BOOLEAN /\ (blind' \/ (~blind' /\ ~blind))
        BY <2>1 DEF Typed, InputTypeOK, SurfaceTypeOK
      <3>3. CASE blind'
        BY <2>1, <2>3, <3>3, HandledStep
      <3>4. CASE ~blind' /\ ~blind
        <4>1. blind' \in BOOLEAN
          BY <2>1
        <4>2. blind' = blind
          BY <3>2, <3>4, <4>1
        <4>. QED  BY <2>1, <2>3, <3>1, <4>2, HandledStep
      <3>. QED  BY <3>2, <3>3, <3>4
    <2>. QED  BY <2>1, <2>2, <2>3
  <1>. QED  BY <1>1, <1>2, <1>3, <1>4, <1>5, <1>6, <1>7, <1>8 DEF SurfaceNext

LEMMA PadFollowed ==
  ASSUME Typed, Followed, PadNext, UNCHANGED surface_vars
  PROVE  Followed'
  <1>. USE DEF kernel, signals, call
  <1>u. UNCHANGED <<report, kslot, active_contact, blind>>
    BY DEF surface_vars, hardware, pvt
  <1>1. CASE pad_reports
    <2>1. kqueue'[surface] = kqueue[surface]
      BY <1>1, Kinds DEF pad_reports, Typed, InputTypeOK, TypeOK
    <2>2. unhandled' = unhandled /\ plugged' = plugged
      BY <1>1, <2>1, SameEvents DEF pad_reports
    <2>. QED  BY <1>u, <2>2, SameStep
  <1>2. CASE contact_up \/ contact_down \/ scroll_button \/ pad_motion \/ tap_click
    <2>1. self # surface /\ UNCHANGED <<plugged, kqueue>> /\ (next_event \/ return)
      BY <1>2, Kinds DEF contact_up, contact_down, scroll_button, pad_motion, tap_click,
         pad_event, forward, pad_rest, Typed, InputTypeOK, PadTypeOK
    <2>2. self' # surface
      BY <2>1, Kinds DEF next_event, return
    <2>3. unhandled' = unhandled
      BY <2>1, <2>2, SameEvents
    <2>. QED  BY <1>u, <2>1, <2>3, SameStep
  <1>. QED  BY <1>1, <1>2 DEF PadNext

\* Every event of the surface that the driver handles is put down to the contact
\* with the number of the slot the kernel means by it, unless the slot is not
\* known: it was beyond the contacts, its finger went up, or a flush or an
\* early return dropped a SLOT event since the last one handled
\* (input.c:194-211, 801-835, 981, 1075-1092).
THEOREM ContactsAreSlots == InputSpec => []ContactIsSlot
  <1>1. InputInit => Followed
    <2>. SUFFICES ASSUME InputInit  PROVE Followed
      OBVIOUS
    <2>1. /\ self = NoDevice /\ kqueue[surface] = <<>> /\ report = <<>>
          /\ kslot = 0 /\ active_contact = NoContact
      BY Kinds DEF InputInit, Init, SurfaceInit
    <2>2. Stream = <<>> /\ initial_contact = kslot
      <3>1. unhandled = <<>> \o <<>> /\ tail = <<>>
        BY <2>1, Kinds DEF unhandled, tail
      <3>2. Stream = (<<>> \o <<>>) \o <<>> /\ <<>> \o <<>> = <<>>
        BY <3>1 DEF Stream
      <3>. QED  BY <2>1, <3>2 DEF initial_contact
    <2>3. Len(Stream) = 0
      BY <2>2
    <2>. QED  BY <2>2, <2>3 DEF Followed, Chained, Begins, Ends, Stays
  <1>2. Typed /\ Followed /\ [InputNext]_input_vars => Followed'
    <2>. SUFFICES ASSUME Typed, Followed, [InputNext]_input_vars  PROVE Followed'
      OBVIOUS
    <2>1. CASE Next /\ blind' = (blind \/ missed) /\ UNCHANGED <<hardware, pvt, pad_vars>>
      BY <2>1, KeyFollowed
    <2>2. CASE SurfaceNext
      BY <2>2, SurfaceFollowed
    <2>3. CASE PadNext /\ UNCHANGED surface_vars
      BY <2>3, PadFollowed
    <2>4. CASE UNCHANGED input_vars
      <3>1. UNCHANGED <<self, events, kqueue, plugged, report, kslot, active_contact, blind>>
        BY <2>4 DEF input_vars, vars, call, kernel, surface_vars, hardware, pvt
      <3>2. unhandled' = unhandled
        BY <3>1 DEF unhandled
      <3>. QED  BY <3>1, <3>2, SameStep
    <2>. QED  BY <2>1, <2>2, <2>3, <2>4 DEF InputNext
  <1>3. Typed /\ Followed => ContactIsSlot
    <2>. SUFFICES ASSUME Typed, Followed, pc = "events", self = surface, event.code # "SLOT"
                  PROVE  blind \/ initial_contact = event.at
      BY DEF ContactIsSlot
    <2>1. events \in Seq(SurfaceEvent) /\ events # <<>> /\ kqueue[surface] \in Seq(SurfaceEvent)
          /\ tail \in Seq(SurfaceEvent)
      BY StreamTyped DEF Typed, OwnEvents, InputTypeOK, TypeOK
    <2>2. Stream = (events \o kqueue[surface]) \o tail
      BY DEF Stream, unhandled
    <2>3. Len(Stream) \in Nat \ {0} /\ Stream[1] = event
      BY <2>1, <2>2 DEF event
    <2>4. 1 \in 1 .. Len(Stream) /\ NoSlot(Stream, 1, 1)
      BY <2>3 DEF NoSlot
    <2>. QED  BY <2>3, <2>4 DEF Followed, Begins
  <1>4. InputSpec => []Typed
    BY InputInitTyped, InputTypeStep, PTL DEF InputSpec
  <1>. QED  BY <1>1, <1>2, <1>3, <1>4, PTL DEF InputSpec

-----------------------------------------------------------------------------
(* Keys from before a switch.                                              *)

LEMMA BehindStep == Typed /\ SwitchKeysStayBehind /\ [InputNext]_input_vars => SwitchKeysStayBehind'
  <1>. SUFFICES ASSUME TypeOK, SwitchKeysStayBehind, [InputNext]_input_vars
                PROVE  SwitchKeysStayBehind'
    BY DEF Typed, InputTypeOK
  <1>. USE DEF kernel, signals, call, belief, history
  <1>1. CASE UNCHANGED <<btn_down, fresh>>
    BY <1>1 DEF SwitchKeysStayBehind
  <1>2. CASE input_flush_all_devices
    BY <1>2, FlushTyped DEF SwitchKeysStayBehind
  <1>3. ASSUME key_event, ~ignored(Head(events)),
               btn_down' = set_input_msg(Head(events)), fresh' = went_down(Head(events))
        PROVE  SwitchKeysStayBehind'
    <2>. DEFINE e == Head(events)
    <2>1. e.val \in {Up, Down, Repeat}
      BY <1>3, KeyTyped
    <2>2. ASSUME NEW d \in Devices  PROVE btn_down'[d] \subseteq fresh'[d]
      <3>1. btn_down[d] \subseteq fresh[d]
        BY DEF SwitchKeysStayBehind
      <3>2. CASE e.val = Down
        BY <1>3, <3>1, <3>2 DEF set_input_msg, went_down, TypeOK, KeySets, Up, Down
      <3>3. CASE e.val # Down
        \* A key that repeats is known to be down.
        BY <1>3, <2>1, <3>1, <3>3
           DEF ignored, set_input_msg, went_down, TypeOK, KeySets, Up, Down
      <3>. QED  BY <3>2, <3>3
    <2>. QED  BY <2>2 DEF SwitchKeysStayBehind
  <1>4. CASE Around \/ Server
    BY <1>1, <1>2, <1>4
       DEF Around, Server, type, unplug, input_ready, vt_acquire, vt_release, server_connect_client,
           server_remove_client, update_state, update_state_unmute, read_events,
           server_is_active, key_ignored
  <1>5. CASE key_forwarded
    BY <1>3, <1>5 DEF key_forwarded
  <1>6. CASE key_vt_switch
    BY <1>3, <1>6 DEF key_vt_switch
  <1>7. CASE key_axe
    BY <1>3, <1>7 DEF key_axe
  <1>8. CASE key_next_screen
    BY <1>1, <1>2, <1>3, <1>8 DEF key_next_screen, main_screen_switch
  <1>9. CASE UNCHANGED vars
    BY <1>1, <1>9 DEF vars
  \* Contacts and buttons are not keys.
  <1>10. CASE SurfaceNext
    BY <1>1, <1>10
       DEF SurfaceNext, surface_moves, surface_syncs, abs_mt_slot, finger_down, finger_up, axis,
           leave_report, syn_report, btn_touch, handle_id, surface_rest
  <1>11. CASE PadNext
    BY <1>1, <1>11
       DEF PadNext, pad_reports, contact_up, contact_down, scroll_button, pad_motion, tap_click,
           pad_rest
  <1>. QED  BY <1>4, <1>5, <1>6, <1>7, <1>8, <1>9, <1>10, <1>11
            DEF Next, Around, Server, Key, InputNext, input_vars

\* No key that was down before the focus changed is known to be down after
\* it, so its release or repeat is not forwarded to the client focused next
\* (server.c:857-892, input.c:194-228, input.c:353-364).
THEOREM NothingIsCarriedOver == InputSpec => []SwitchKeysStayBehind
  <1>1. InputInit => Typed /\ SwitchKeysStayBehind
    BY InputInitTyped DEF InputInit, Init, SwitchKeysStayBehind, NoKeys
  <1>. QED  BY <1>1, InputTypeStep, BehindStep, PTL DEF InputSpec
=============================================================================
