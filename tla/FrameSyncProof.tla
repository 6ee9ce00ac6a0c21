--------------------------- MODULE FrameSyncProof ---------------------------
(***************************************************************************)
(* Theorems about FrameSync, for every set of clients, every screen and    *)
(* every value of the limits.                                              *)
(***************************************************************************)
EXTENDS FrameSync, DamageProof

Msgs == {"vsync", "input"}

\* A regular sync, or a full redraw, keeps the state of the slots typed and
\* no damage is lost by it.
LEMMA SyncRequest ==
  ASSUME TypeOK, NEW c \in Clients, NEW r \in Region, NEW flags \in SUBSET Flags,
         sync_request(c, r, flags)
  PROVE  /\ dmg' \in [Clients -> Seq(Region)] /\ \A d \in Clients : Len(dmg'[d]) <= Slots
         /\ sync_flags' \in [Clients -> SUBSET Flags]
         /\ slots' \in Seq(Clients)
         /\ damaged(dmg[c]) \cup covered(r) \subseteq damaged(dmg'[c])
         /\ \A d \in Clients \ {c} : dmg'[d] = dmg[d]
  <1>1. dmg \in [Clients -> Seq(Region)] /\ \A d \in Clients : Len(dmg[d]) <= Slots
    BY DEF TypeOK
  <1>2. dmg' = [dmg EXCEPT ![c] = accumulate_dmg(dmg[c], r)]
    BY DEF sync_request
  <1>3. /\ accumulate_dmg(dmg[c], r) \in Seq(Region)
        /\ Len(accumulate_dmg(dmg[c], r)) <= Slots
        /\ damaged(dmg[c]) \cup covered(r) \subseteq damaged(accumulate_dmg(dmg[c], r))
    BY <1>1, Accumulate
  <1>4. dmg'[c] = accumulate_dmg(dmg[c], r) /\ \A d \in Clients \ {c} : dmg'[d] = dmg[d]
    BY <1>1, <1>2
  <1>5. dmg' \in [Clients -> Seq(Region)] /\ \A d \in Clients : Len(dmg'[d]) <= Slots
    BY <1>1, <1>2, <1>3, <1>4
  <1>6. sync_flags' \in [Clients -> SUBSET Flags]
    BY DEF TypeOK, sync_request
  <1>7. slots' \in Seq(Clients)
    <2>1. Append(slots, c) \in Seq(Clients)
      BY AppendProperties DEF TypeOK
    <2>. QED  BY <2>1 DEF TypeOK, sync_request
  <1>. QED  BY <1>3, <1>4, <1>5, <1>6, <1>7

LEMMA Redraw ==
  ASSUME TypeOK, NEW c \in Clients, server_sync_fullscreen(c)
  PROVE  /\ dmg' \in [Clients -> Seq(Region)] /\ \A d \in Clients : Len(dmg'[d]) <= Slots
         /\ sync_flags' \in [Clients -> SUBSET Flags]
         /\ slots' \in Seq(Clients)
         /\ damaged(dmg'[c]) = Pixels
  <1>1. Full \in Region /\ covered(Full) = Pixels /\ {"ASYNC", "VBLANK"} \in SUBSET Flags
    BY FullRegion DEF Flags
  <1>2. sync_request(c, Full, {"ASYNC", "VBLANK"})
    BY DEF server_sync_fullscreen
  <1>3. damaged(dmg'[c]) \subseteq Pixels
    BY DamagedPixels
  <1>4. /\ dmg' \in [Clients -> Seq(Region)] /\ \A d \in Clients : Len(dmg'[d]) <= Slots
        /\ sync_flags' \in [Clients -> SUBSET Flags]
        /\ slots' \in Seq(Clients)
        /\ covered(Full) \subseteq damaged(dmg'[c])
    BY <1>1, <1>2, SyncRequest
  <1>. QED  BY <1>1, <1>3, <1>4

LEMMA WriteInput ==
  ASSUME TypeOK, NEW c \in Clients, NEW n \in Nat, write_input(c, n)
  PROVE  /\ out' \in [Clients -> Seq(Msgs)] /\ \A d \in Clients : Len(out'[d]) <= MaxOut
         /\ \A d \in Clients : /\ Len(out'[d]) >= Len(out[d])
                               /\ Len(out'[d]) > Len(out[d]) => Last(out'[d]) = "input"
  <1>. DEFINE o == out[c]
              room == IF n <= MaxOut - Len(o) THEN n ELSE MaxOut - Len(o)
              new == [i \in 1..room |-> "input"]
              s == o \o new
  <1>1. /\ out \in [Clients -> Seq(Msgs)] /\ o \in Seq(Msgs) /\ Len(o) \in Nat
        /\ \A d \in Clients : Len(out[d]) <= MaxOut /\ Len(out[d]) \in Nat
    BY LenProperties DEF TypeOK, Msgs
  <1>2. MaxOut \in Nat /\ Len(o) <= MaxOut
    BY <1>1, FrameSyncAssumption
  <1>3. room \in Nat /\ Len(o) + room <= MaxOut
    BY <1>1, <1>2
  <1>. HIDE DEF room, o
  <1>4. new \in Seq(Msgs) /\ Len(new) = room
    <2>1. new \in [1..room -> Msgs]
      BY DEF Msgs
    <2>. QED  BY <1>3, <2>1, SeqDef, LenProperties
  <1>5. \A i \in 1..room : new[i] = "input"
    OBVIOUS
  <1>. HIDE DEF new
  <1>6. /\ s \in Seq(Msgs) /\ Len(s) = Len(o) + room
        /\ \A i \in 1..(Len(o) + room) : s[i] = IF i <= Len(o) THEN o[i] ELSE new[i - Len(o)]
    BY <1>1, <1>4, ConcatProperties
  <1>. HIDE DEF s
  <1>7. Len(s) > Len(o) => Last(s) = "input"
    <2>. SUFFICES ASSUME room > 0  PROVE Last(s) = "input"
      BY <1>1, <1>3, <1>6
    <2>. DEFINE l == Len(o)
    <2>1. l \in Nat /\ Len(s) = l + room /\ s[l + room] = IF l + room <= l THEN o[l + room] ELSE new[l + room - l]
      BY <1>1, <1>3, <1>6
    <2>. HIDE DEF l
    <2>2. ~(l + room <= l) /\ l + room - l = room /\ room \in 1..room
      BY <1>3, <2>1
    <2>3. s[Len(s)] = "input"
      BY <1>5, <2>1, <2>2
    <2>. QED  BY <2>3 DEF Last
  <1>8. out' = [out EXCEPT ![c] = s]
    BY DEF write_input, s, new, room, o
  <1>9. out'[c] = s /\ \A d \in Clients \ {c} : out'[d] = out[d]
    BY <1>1, <1>8
  <1>10. Len(s) >= Len(o)
    BY <1>1, <1>3, <1>6
  <1>. QED  BY <1>1, <1>2, <1>3, <1>6, <1>7, <1>8, <1>9, <1>10 DEF o

LEMMA CopyTyped ==
  ASSUME TypeOK, NEW c \in Clients, sync_dmg_to_fb(c)
  PROVE  /\ shown' \in [Clients -> SUBSET Pixels]
         /\ dmg' \in [Clients -> Seq(Region)] /\ \A d \in Clients : Len(dmg'[d]) <= Slots
         /\ \A d \in Clients \ {c} : shown'[d] \subseteq shown[d]
         /\ shown[c] \subseteq shown'[c]
         /\ all_copied(c) => damaged(dmg[c]) \subseteq shown'[c] /\ dmg'[c] = <<>>
         /\ ~all_copied(c) => dmg'[c] = dmg[c]
  <1>1. /\ dmg \in [Clients -> Seq(Region)] /\ shown \in [Clients -> SUBSET Pixels]
        /\ \A d \in Clients : Len(dmg[d]) <= Slots
    BY DEF TypeOK
  <1>2. copied(c) \subseteq Pixels
    BY DEF copied, blit
  <1>3. shown' = [d \in Clients |-> IF d = c THEN shown[d] \cup copied(c)
                                    ELSE shown[d] \ copied(c)]
    BY DEF sync_dmg_to_fb
  <1>4. shown' \in [Clients -> SUBSET Pixels]
    BY <1>1, <1>2, <1>3
  <1>5. dmg' = [dmg EXCEPT ![c] = IF all_copied(c) THEN <<>> ELSE dmg[c]]
    BY DEF sync_dmg_to_fb
  <1>6. <<>> \in Seq(Region) /\ Len(<<>>) <= Slots
    <2>1. <<>> \in Seq(Region) /\ Len(<<>>) = 0
      BY EmptySeq
    <2>. QED  BY <2>1, DamageAssumption
  <1>7. dmg'[c] = (IF all_copied(c) THEN <<>> ELSE dmg[c]) /\ \A d \in Clients \ {c} : dmg'[d] = dmg[d]
    BY <1>1, <1>5
  <1>8. dmg' \in [Clients -> Seq(Region)] /\ \A d \in Clients : Len(dmg'[d]) <= Slots
    BY <1>1, <1>5, <1>6, <1>7
  <1>9. ASSUME all_copied(c)
        PROVE  damaged(dmg[c]) \subseteq copied(c)
    <2>1. dmg[c] \in Seq(Region) /\ DOMAIN dmg[c] = 1..Len(dmg[c]) /\ Len(dmg[c]) \in Nat
      BY <1>1, LenProperties
    <2>2. \A i \in DOMAIN dmg[c] : \A k \in 1..i : copies(dmg[c][k])
      BY <1>9, <2>1 DEF all_copied
    <2>3. copied(c) = UNION {blit(dmg[c][i]) : i \in DOMAIN dmg[c]}
      BY <2>2 DEF copied
    <2>. QED  BY <2>1, <2>3, BlitsDamage
  <1>. QED  BY <1>1, <1>3, <1>4, <1>7, <1>8, <1>9

LEMMA SendVsync ==
  ASSUME TypeOK, NEW c \in Clients, send_vsync(c)
  PROVE  /\ out' \in [Clients -> Seq(Msgs)] /\ \A d \in Clients : Len(out'[d]) <= MaxOut
         /\ lost' \subseteq {"ack", "redraw", "vblank"}
         /\ \A d \in Clients : Len(out'[d]) > Len(out[d]) => d = c
  <1>1. /\ out \in [Clients -> Seq(Msgs)] /\ "vsync" \in Msgs
        /\ \A d \in Clients : Len(out[d]) <= MaxOut /\ Len(out[d]) \in Nat
    BY LenProperties DEF TypeOK, Msgs
  <1>2. CASE Len(out[c]) < MaxOut
    <2>1. Append(out[c], "vsync") \in Seq(Msgs) /\ Len(Append(out[c], "vsync")) = Len(out[c]) + 1
      BY <1>1, AppendProperties
    <2>2. out' = [out EXCEPT ![c] = Append(out[c], "vsync")] /\ lost' = lost
      BY <1>2 DEF send_vsync
    <2>3. Len(out[c]) + 1 <= MaxOut
      BY <1>1, <1>2, FrameSyncAssumption
    <2>. QED  BY <1>1, <2>1, <2>2, <2>3 DEF TypeOK
  <1>3. CASE ~(Len(out[c]) < MaxOut)
    <2>1. out' = out /\ lost' = lost \cup {"ack"}
      BY <1>3 DEF send_vsync
    <2>2. lost' \subseteq {"ack", "redraw", "vblank"}
      BY <2>1 DEF TypeOK
    <2>3. out' \in [Clients -> Seq(Msgs)] /\ (\A d \in Clients : Len(out'[d]) <= MaxOut)
      BY <1>1, <2>1
    <2>4. \A d \in Clients : ~(Len(out'[d]) > Len(out[d]))
      BY <1>1, <2>1
    <2>. QED  BY <2>2, <2>3, <2>4
  <1>. QED  BY <1>2, <1>3

\* Before the first client connects nothing has touched the screen.
Fresh == joined = {} => shown = [c \in Clients |-> Pixels] /\ slots = <<>> /\ vblanks = 0

LEMMA InitInv == Init => TypeOK /\ Fresh /\ NoDamageForgotten
  <1>. SUFFICES ASSUME Init  PROVE TypeOK /\ Fresh /\ NoDamageForgotten
    OBVIOUS
  <1>1. \A S : <<>> \in Seq(S) /\ Len(<<>>) = 0
    BY EmptySeq
  <1>2. 0 <= Slots /\ 0 <= MaxOut /\ 0 \in 0..MaxVblanks
    BY DamageAssumption, FrameSyncAssumption
  <1>3. \A c \in Clients : Len(out[c]) <= MaxOut /\ Len(dmg[c]) <= Slots
    BY <1>1, <1>2 DEF Init
  <1>. QED  BY <1>1, <1>2, <1>3 DEF Init, TypeOK, Fresh, NoDamageForgotten

LEMMA TypeStep == TypeOK /\ [Next]_vars => TypeOK'
  <1>. SUFFICES ASSUME TypeOK, [Next]_vars  PROVE TypeOK'
    OBVIOUS
  <1>. USE DEF sprites, server, vt
  <1>a. \A r : covered(r) \subseteq Pixels
    BY DEF covered
  <1>1. ASSUME NEW c \in Clients, NEW r \in Strokes, draw(c, r)  PROVE TypeOK'
    BY <1>1, <1>a DEF draw, TypeOK
  <1>2. ASSUME NEW c \in Clients, NEW r \in Updates, NEW flags \in FlagSets,
               spr16_client_sync(c, r, flags)
        PROVE  TypeOK'
    <2>1. [region |-> r, flags |-> flags] \in Requests
      BY FrameSyncAssumption DEF Requests
    <2>2. Append(chan[c], [region |-> r, flags |-> flags]) \in Seq(Requests)
      BY <2>1, AppendProperties DEF TypeOK
    <2>. QED  BY <1>2, <1>a, <2>2 DEF spr16_client_sync, TypeOK
  <1>3. ASSUME NEW c \in Clients, spr16_client_update(c)  PROVE TypeOK'
    <2>1. <<>> \in Seq(Msgs) /\ Len(<<>>) = 0 /\ 0 <= MaxOut
      BY EmptySeq, FrameSyncAssumption
    <2>2. out' \in [Clients -> Seq(Msgs)] /\ \A d \in Clients : Len(out'[d]) <= MaxOut
      BY <1>3, <2>1 DEF spr16_client_update, TypeOK, Msgs
    <2>. QED  BY <1>3, <2>2 DEF spr16_client_update, TypeOK, Msgs
  <1>4. ASSUME NEW c \in Clients, spr16_server_sync(c)  PROVE TypeOK'
    <2>1. Head(chan[c]) \in Requests /\ Tail(chan[c]) \in Seq(Requests)
      BY <1>4, HeadTailProperties DEF spr16_server_sync, TypeOK
    <2>2. Head(chan[c]).region \in Region /\ Head(chan[c]).flags \in SUBSET Flags
      BY <2>1 DEF Requests
    <2>3. sync_request(c, Head(chan[c]).region, Head(chan[c]).flags)
      BY <1>4 DEF spr16_server_sync
    <2>4. /\ dmg' \in [Clients -> Seq(Region)] /\ \A d \in Clients : Len(dmg'[d]) <= Slots
          /\ sync_flags' \in [Clients -> SUBSET Flags]
          /\ slots' \in Seq(Clients)
      BY <2>2, <2>3, SyncRequest
    <2>5. chan' \in [Clients -> Seq(Requests)]
      BY <1>4, <2>1 DEF spr16_server_sync, TypeOK
    <2>. QED  BY <1>4, <2>4, <2>5 DEF spr16_server_sync, TypeOK
  <1>5. ASSUME NEW c \in Clients, server_connect_client(c)  PROVE TypeOK'
    BY <1>5 DEF server_connect_client, TypeOK
  <1>6. CASE hotkey_callback
    <2>1. PICK c \in joined \ {focus} : focus' = c /\ server_sync_fullscreen(c) /\ write_input(c, 1)
      BY <1>6 DEF hotkey_callback
    <2>2. c \in Clients
      BY DEF TypeOK
    <2>3. /\ dmg' \in [Clients -> Seq(Region)] /\ \A d \in Clients : Len(dmg'[d]) <= Slots
          /\ sync_flags' \in [Clients -> SUBSET Flags] /\ slots' \in Seq(Clients)
      BY <2>1, <2>2, Redraw
    <2>4. out' \in [Clients -> Seq(Msgs)] /\ \A d \in Clients : Len(out'[d]) <= MaxOut
      BY <2>1, <2>2, WriteInput
    <2>. QED  BY <1>6, <2>1, <2>2, <2>3, <2>4 DEF hotkey_callback, TypeOK, Msgs
  <1>7. CASE input_callback
    <2>1. focus \in Clients
      BY DEF TypeOK
    <2>2. /\ dmg' \in [Clients -> Seq(Region)] /\ \A d \in Clients : Len(dmg'[d]) <= Slots
          /\ sync_flags' \in [Clients -> SUBSET Flags] /\ slots' \in Seq(Clients)
      <3>1. CASE server_sync_fullscreen(focus)
        BY <2>1, <3>1, Redraw
      <3>2. CASE UNCHANGED <<dmg, sync_flags, slots>>
        BY <3>2 DEF TypeOK
      <3>. QED  BY <1>7, <3>1, <3>2 DEF input_callback
    <2>3. out' \in [Clients -> Seq(Msgs)] /\ \A d \in Clients : Len(out'[d]) <= MaxOut
      <3>1. CASE joined # {}
        <4>1. PICK n \in 0..2 : write_input(focus, n)
          BY <1>7, <3>1 DEF input_callback
        <4>. QED  BY <2>1, <4>1, WriteInput
      <3>2. CASE joined = {}
        BY <1>7, <3>2 DEF input_callback, TypeOK, Msgs
      <3>. QED  BY <3>1, <3>2
    <2>. QED  BY <1>7, <2>2, <2>3 DEF input_callback, TypeOK, Msgs
  <1>8. CASE fb_drm_fd_callback
    <2>1. vblanks' \in 0..MaxVblanks
      BY <1>8, FrameSyncAssumption DEF fb_drm_fd_callback, TypeOK
    <2>2. focus \in Clients /\ sync_dmg_to_fb(focus)
      BY <1>8 DEF fb_drm_fd_callback, TypeOK
    <2>3. /\ out' \in [Clients -> Seq(Msgs)] /\ \A d \in Clients : Len(out'[d]) <= MaxOut
          /\ lost' \subseteq {"ack", "redraw", "vblank"}
      <3>1. CASE all_copied(focus)
        BY <1>8, <2>2, <3>1, SendVsync DEF fb_drm_fd_callback
      <3>2. CASE ~all_copied(focus)
        BY <1>8, <3>2 DEF fb_drm_fd_callback, TypeOK, Msgs
      <3>. QED  BY <3>1, <3>2
    <2>4. /\ shown' \in [Clients -> SUBSET Pixels]
          /\ dmg' \in [Clients -> Seq(Region)] /\ \A d \in Clients : Len(dmg'[d]) <= Slots
      BY <2>2, CopyTyped
    <2>. QED  BY <1>8, <2>1, <2>3, <2>4 DEF fb_drm_fd_callback, TypeOK, Msgs
  <1>9. CASE end_poll
    BY <1>9 DEF end_poll, TypeOK
  <1>10. CASE fb_sync_client
    <2>1. Head(slots) \in Clients /\ Tail(slots) \in Seq(Clients)
      BY <1>10, HeadTailProperties DEF fb_sync_client, TypeOK
    <2>2. vblanks' \in 0..MaxVblanks
      <3>1. vblanks \in 0..MaxVblanks /\ MaxVblanks \in Nat
        BY FrameSyncAssumption DEF TypeOK
      <3>2. \/ vblanks' = vblanks
            \/ vblanks < MaxVblanks /\ vblanks' = vblanks + 1
        BY <1>10 DEF fb_sync_client, drm_vblank
      <3>. QED  BY <3>1, <3>2
    <2>3. /\ shown' \in [Clients -> SUBSET Pixels]
          /\ dmg' \in [Clients -> Seq(Region)] /\ \A d \in Clients : Len(dmg'[d]) <= Slots
      <3>1. CASE sync_dmg_to_fb(Head(slots))
        BY <2>1, <3>1, CopyTyped
      <3>2. CASE UNCHANGED <<shown, dmg>>
        BY <3>2 DEF TypeOK
      <3>. QED  BY <1>10, <3>1, <3>2 DEF fb_sync_client
    <2>4. lost' \subseteq {"ack", "redraw", "vblank"}
      BY <1>10 DEF fb_sync_client, drm_vblank, TypeOK
    <2>. QED  BY <1>10, <2>1, <2>2, <2>3, <2>4 DEF fb_sync_client, TypeOK
  <1>11. CASE vt_release
    BY <1>11 DEF vt_release, TypeOK
  <1>12. CASE vt_acquire
    BY <1>12 DEF vt_acquire, TypeOK
  <1>13. CASE UNCHANGED vars
    BY <1>13 DEF vars, TypeOK
  <1>14. \A c \in joined : c \in Clients
    BY DEF TypeOK
  <1>. QED  BY <1>1, <1>2, <1>3, <1>4, <1>5, <1>6, <1>7, <1>8, <1>9, <1>10, <1>11, <1>12,
               <1>13, <1>14
            DEF Next, User, Client

\* Regions, messages and slots stay well formed and within their limits
\* (server.c:643-720, fb.c:137-274).
THEOREM FrameTypeCorrect == Spec => []TypeOK
  <1>1. Init => TypeOK
    BY InitInv
  <1>2. TypeOK /\ [Next]_vars => TypeOK'
    BY TypeStep
  <1>. QED  BY <1>1, <1>2, PTL DEF Spec

LEMMA FreshStep == TypeOK /\ Fresh /\ [Next]_vars => Fresh'
  <1>. SUFFICES ASSUME TypeOK, Fresh, [Next]_vars, joined' = {}
                PROVE  Fresh'
    BY DEF Fresh
  <1>. USE DEF sprites, server, vt
  <1>1. joined = {}
    BY DEF Next, Client, User, draw, spr16_client_sync, spr16_client_update, spr16_server_sync,
           server_connect_client, hotkey_callback, input_callback, fb_drm_fd_callback, end_poll,
           fb_sync_client, vt_release, vt_acquire, vars
  <1>2. shown = [c \in Clients |-> Pixels] /\ slots = <<>> /\ vblanks = 0
    BY <1>1 DEF Fresh
  <1>3. ~fb_drm_fd_callback /\ ~end_poll /\ ~fb_sync_client
    BY <1>2 DEF fb_drm_fd_callback, end_poll, fb_sync_client
  <1>4. ASSUME NEW c \in Clients, server_connect_client(c)  PROVE FALSE
    BY <1>4 DEF server_connect_client
  <1>5. UNCHANGED <<shown, slots, vblanks>>
    BY <1>1, <1>3, <1>4
       DEF Next, User, hotkey_callback, input_callback, vt_release, vt_acquire, vars
  <1>. QED  BY <1>2, <1>5 DEF Fresh

\* The damage a client may still get on the screen.
pending(c) == shown[c] \cup drawn[c] \cup requested(c) \cup damaged(dmg[c])

LEMMA ForgottenStep ==
  TypeOK /\ Fresh /\ NoDamageForgotten /\ [Next]_vars => NoDamageForgotten'
  <1>. SUFFICES ASSUME TypeOK, Fresh, NoDamageForgotten, [Next]_vars, active', ~unmute',
                       "redraw" \notin lost'
                PROVE  Pixels \subseteq pending(focus)'
    BY DEF NoDamageForgotten, forgotten, pending
  <1>. USE DEF sprites, server, vt
  <1>a. focus \in Clients /\ joined \subseteq Clients
    BY DEF TypeOK
  <1>b. ASSUME ~unmute, active, "redraw" \notin lost  PROVE Pixels \subseteq pending(focus)
    BY <1>b DEF NoDamageForgotten, forgotten, pending
  <1>1. ASSUME NEW c \in Clients, NEW r \in Strokes, draw(c, r)
        PROVE  Pixels \subseteq pending(focus)'
    <2>1. shown[focus] \cup drawn[focus] \subseteq shown'[focus] \cup drawn'[focus]
      BY <1>1, <1>a DEF draw, TypeOK
    <2>2. requested(focus)' = requested(focus) /\ dmg' = dmg /\ focus' = focus
      BY <1>1 DEF draw, requested
    <2>. QED  BY <1>1, <1>b, <2>1, <2>2 DEF draw, pending
  <1>2. ASSUME NEW c \in Clients, NEW r \in Updates, NEW flags \in FlagSets,
               spr16_client_sync(c, r, flags)
        PROVE  Pixels \subseteq pending(focus)'
    <2>. DEFINE m == [region |-> r, flags |-> flags]
    <2>1. chan[c] \in Seq(Requests) /\ m \in Requests
      BY FrameSyncAssumption DEF Requests, TypeOK
    <2>2. chan' = [chan EXCEPT ![c] = Append(chan[c], m)]
          /\ drawn' = [drawn EXCEPT ![c] = drawn[c] \ covered(r)]
          /\ shown' = shown /\ dmg' = dmg /\ focus' = focus /\ active' = active
          /\ unmute' = unmute /\ lost' = lost
      BY <1>2 DEF spr16_client_sync
    <2>3. drawn[focus] \ drawn'[focus] \subseteq IF focus = c THEN covered(r) ELSE {}
      BY <1>a, <2>2 DEF TypeOK
    <2>4. /\ \A i \in DOMAIN chan[c] : i \in DOMAIN chan'[c] /\ chan'[c][i] = chan[c][i]
          /\ \E i \in DOMAIN chan'[c] : chan'[c][i] = m
      <3>1. chan'[c] = Append(chan[c], m)
        BY <2>2 DEF TypeOK
      <3>. HIDE DEF m
      <3>2. /\ chan'[c] \in Seq(Requests) /\ Len(chan'[c]) = Len(chan[c]) + 1
            /\ \A i \in 1..Len(chan[c]) : chan'[c][i] = chan[c][i]
            /\ chan'[c][Len(chan[c]) + 1] = m
        BY <2>1, <3>1, AppendProperties
      <3>3. /\ DOMAIN chan[c] = 1..Len(chan[c]) /\ Len(chan[c]) \in Nat
            /\ DOMAIN chan'[c] = 1..(Len(chan[c]) + 1)
        BY <2>1, <3>2, LenProperties
      <3>. QED  BY <3>2, <3>3
    <2>5. requested(focus) \subseteq requested(focus)'
      <3>1. CASE focus = c
        BY <2>2, <2>4, <3>1 DEF requested
      <3>2. CASE focus # c
        <4>1. chan'[focus] = chan[focus]
          BY <1>a, <2>2, <3>2 DEF TypeOK
        <4>. QED  BY <2>2, <4>1 DEF requested
      <3>. QED  BY <3>1, <3>2
    <2>6. focus = c => covered(r) \subseteq requested(focus)'
      <3>1. m.region = r
        OBVIOUS
      <3>. QED  BY <2>2, <2>4, <3>1 DEF requested
    <2>. QED  BY <1>b, <2>2, <2>3, <2>5, <2>6 DEF pending
  <1>3. ASSUME NEW c \in Clients, spr16_client_update(c)
        PROVE  Pixels \subseteq pending(focus)'
    BY <1>3, <1>b DEF spr16_client_update, pending, requested
  <1>4. ASSUME NEW c \in Clients, spr16_server_sync(c)
        PROVE  Pixels \subseteq pending(focus)'
    <2>. DEFINE h == Head(chan[c])
                t == Tail(chan[c])
    <2>1. chan[c] \in Seq(Requests) /\ chan[c] # <<>> /\ h \in Requests
      BY <1>4, HeadTailProperties DEF spr16_server_sync, TypeOK
    <2>2. /\ chan' = [chan EXCEPT ![c] = t] /\ sync_request(c, h.region, h.flags)
          /\ UNCHANGED <<shown, drawn, focus, active, unmute, lost>>
      BY <1>4 DEF spr16_server_sync
    <2>3. /\ damaged(dmg[c]) \cup covered(h.region) \subseteq damaged(dmg'[c])
          /\ \A d \in Clients \ {c} : dmg'[d] = dmg[d]
      <3>1. h.region \in Region /\ h.flags \in SUBSET Flags
        BY <2>1 DEF Requests
      <3>. QED  BY <2>2, <3>1, SyncRequest
    <2>4. /\ t \in Seq(Requests) /\ Len(t) = Len(chan[c]) - 1 /\ Len(chan[c]) \in Nat
          /\ \A i \in 1..Len(t) : t[i] = chan[c][i + 1]
          /\ DOMAIN chan[c] = 1..Len(chan[c]) /\ DOMAIN t = 1..Len(t) /\ h = chan[c][1]
      BY <2>1, HeadTailProperties, LenProperties
    <2>. HIDE DEF h, t
    <2>5. \A i \in DOMAIN chan[c] : i = 1 \/ (i - 1 \in DOMAIN t /\ t[i - 1] = chan[c][i])
      BY <2>4
    <2>6. requested(focus) \subseteq requested(focus)' \cup (IF focus = c THEN covered(h.region) ELSE {})
      <3>1. CASE focus = c
        <4>1. chan'[c] = t
          BY <2>2 DEF TypeOK
        <4>2. ASSUME NEW i \in DOMAIN chan[c]
              PROVE  covered(chan[c][i].region) \subseteq requested(c)' \cup covered(h.region)
          <5>1. CASE i = 1
            BY <2>4, <5>1
          <5>2. CASE i # 1
            <6>1. i - 1 \in DOMAIN t /\ t[i - 1] = chan[c][i]
              BY <2>5, <5>2
            <6>2. covered(t[i - 1].region) \subseteq requested(c)'
              BY <4>1, <6>1 DEF requested
            <6>. QED  BY <6>1, <6>2
          <5>. QED  BY <5>1, <5>2
        <4>3. requested(c) \subseteq requested(c)' \cup covered(h.region)
          BY <4>2 DEF requested
        <4>. QED  BY <2>2, <3>1, <4>3
      <3>2. CASE focus # c
        <4>1. chan'[focus] = chan[focus]
          BY <1>a, <2>2, <3>2 DEF TypeOK
        <4>. QED  BY <2>2, <4>1 DEF requested
      <3>. QED  BY <3>1, <3>2
    <2>7. damaged(dmg[focus]) \subseteq damaged(dmg'[focus])
      BY <1>a, <2>3
    <2>. QED  BY <1>b, <2>2, <2>3, <2>6, <2>7 DEF pending
  <1>5. ASSUME NEW c \in Clients, server_connect_client(c)
        PROVE  Pixels \subseteq pending(focus)'
    <2>1. CASE joined = {}
      BY <1>5, <2>1 DEF server_connect_client, Fresh, pending
    <2>2. CASE joined # {}
      BY <1>5, <1>b, <2>2 DEF server_connect_client, pending, requested
    <2>. QED  BY <2>1, <2>2
  <1>6. CASE hotkey_callback
    <2>1. PICK c \in joined \ {focus} : focus' = c /\ server_sync_fullscreen(c)
      BY <1>6 DEF hotkey_callback
    <2>2. c \in Clients
      BY <1>a
    <2>3. damaged(dmg'[c]) = Pixels
      BY <2>1, <2>2, Redraw
    <2>. QED  BY <2>1, <2>3 DEF pending
  <1>7. CASE input_callback
    <2>1. UNCHANGED <<shown, drawn, chan, focus, active>>
      BY <1>7 DEF input_callback
    <2>2. CASE unmute /\ joined # {}
      <3>1. server_sync_fullscreen(focus)
        BY <1>7, <2>2 DEF input_callback
      <3>2. damaged(dmg'[focus]) = Pixels
        BY <1>a, <3>1, Redraw
      <3>. QED  BY <2>1, <3>2 DEF pending
    <2>3. CASE joined = {}
      <3>1. shown[focus] = Pixels
        BY <1>a, <2>3 DEF Fresh
      <3>. QED  BY <2>1, <3>1 DEF pending
    <2>4. CASE ~unmute
      <3>1. dmg' = dmg /\ lost' = lost
        BY <1>7, <2>4 DEF input_callback
      <3>. QED  BY <1>b, <2>1, <2>4, <3>1 DEF pending, requested
    <2>. QED  BY <2>2, <2>3, <2>4
  <1>8. CASE fb_drm_fd_callback
    <2>1. sync_dmg_to_fb(focus) /\ UNCHANGED <<drawn, chan, focus, active, unmute>>
      BY <1>8 DEF fb_drm_fd_callback
    <2>3. "redraw" \notin lost
      BY <1>8 DEF fb_drm_fd_callback, send_vsync
    <2>2. shown[focus] \cup damaged(dmg[focus]) \subseteq shown'[focus] \cup damaged(dmg'[focus])
      BY <1>a, <2>1, CopyTyped
    <2>. QED  BY <1>b, <2>1, <2>2, <2>3 DEF pending, requested
  <1>9. CASE end_poll
    BY <1>9, <1>b DEF end_poll, pending, requested
  <1>10. CASE fb_sync_client
    <2>1. UNCHANGED <<drawn, chan, focus, active, unmute>>
      BY <1>10 DEF fb_sync_client
    <2>2. UNCHANGED <<shown, dmg>>
      BY <1>10, <2>1 DEF fb_sync_client
    <2>3. "redraw" \notin lost
      BY <1>10 DEF fb_sync_client, drm_vblank
    <2>. QED  BY <1>b, <2>1, <2>2, <2>3 DEF pending, requested
  <1>11. CASE vt_release
    BY <1>11 DEF vt_release
  <1>12. CASE vt_acquire
    BY <1>12 DEF vt_acquire
  <1>13. CASE UNCHANGED vars
    BY <1>13, <1>b DEF vars, pending, requested
  <1>. QED  BY <1>1, <1>2, <1>3, <1>4, <1>5, <1>6, <1>7, <1>8, <1>9, <1>10, <1>11, <1>12,
               <1>13, <1>a
            DEF Next, User, Client

\* However damage is reported, merged, copied, and the screen handed from one
\* client or terminal to another: nothing the screen still has to show of the
\* focused client is forgotten, unless the last redraw it was due was given up
\* because a device could not be flushed (server.c:643-720, fb.c:63-156,
\* input.c:215-228).
THEOREM DamageIsKept == Spec => []NoDamageForgotten
  <1>1. Init => TypeOK /\ Fresh /\ NoDamageForgotten
    BY InitInv
  <1>2. TypeOK /\ Fresh /\ NoDamageForgotten /\ [Next]_vars
          => TypeOK' /\ Fresh' /\ NoDamageForgotten'
    BY TypeStep, FreshStep, ForgottenStep
  <1>. QED  BY <1>1, <1>2, PTL DEF Spec

AckStep ==
  \A c \in Clients :
    Len(out'[c]) > Len(out[c]) /\ Last(out'[c]) = "vsync"
      => /\ dmg'[c] = <<>>
         /\ damaged(dmg[c]) \subseteq shown'[c]

LEMMA AckStepHolds == TypeOK /\ [Next]_vars => AckStep
  <1>. SUFFICES ASSUME TypeOK, [Next]_vars, NEW c \in Clients,
                       Len(out'[c]) > Len(out[c]), Last(out'[c]) = "vsync"
                PROVE  dmg'[c] = <<>> /\ damaged(dmg[c]) \subseteq shown'[c]
    BY DEF AckStep
  <1>. USE DEF sprites, server, vt
  <1>1. out \in [Clients -> Seq(Msgs)] /\ Len(out[c]) \in Nat /\ focus \in Clients
        /\ joined \subseteq Clients
    BY LenProperties DEF TypeOK, Msgs
  <1>2. out' # out
    BY <1>1
  <1>3. ASSUME NEW d \in Clients, spr16_client_update(d)
        PROVE  FALSE
    <2>1. out' = [out EXCEPT ![d] = <<>>]
      BY <1>3 DEF spr16_client_update
    <2>2. Len(out'[c]) <= Len(out[c])
      <3>1. Len(<<>>) = 0
        BY EmptySeq
      <3>. QED  BY <1>1, <2>1, <3>1
    <2>. QED  BY <1>1, <1>2, <2>1, <2>2
  <1>4. ASSUME NEW d \in Clients, NEW n \in Nat, write_input(d, n)
        PROVE  FALSE
    <2>1. Last(out'[c]) = "input"
      BY <1>4, WriteInput
    <2>. QED  BY <2>1
  <1>5. ~hotkey_callback
    BY <1>1, <1>4 DEF hotkey_callback
  <1>6. ~input_callback
    <2>. SUFFICES ASSUME input_callback  PROVE FALSE
      OBVIOUS
    <2>1. PICK n \in 0..2 : write_input(focus, n)
      BY <1>2 DEF input_callback
    <2>. QED  BY <1>1, <1>4, <2>1
  <1>7. fb_drm_fd_callback
    BY <1>1, <1>2, <1>3, <1>5, <1>6
       DEF Next, User, Client, draw, spr16_client_sync, spr16_server_sync, server_connect_client,
           end_poll, fb_sync_client, vt_release, vt_acquire, vars
  <1>8. all_copied(focus) /\ send_vsync(focus) /\ sync_dmg_to_fb(focus)
    BY <1>2, <1>7 DEF fb_drm_fd_callback
  <1>9. c = focus
    BY <1>1, <1>8, SendVsync
  <1>. QED  BY <1>8, <1>9, CopyTyped

\* When the server says VSYNC, all damage it knew of is in the framebuffer and
\* its slots are empty (fb.c:202-210).
THEOREM AcksAreTrue == Spec => AckedIsShown
  <1>1. Init => TypeOK
    BY InitInv
  <1>2. TypeOK /\ [Next]_vars => TypeOK' /\ AckStep
    BY TypeStep, AckStepHolds
  <1>. QED  BY <1>1, <1>2, PTL DEF Spec, AckedIsShown, AckStep

OwnerStep == \A c \in Clients : shown'[c] \subseteq shown[c] \/ c = focus \/ ~active

LEMMA OwnerStepHolds == TypeOK /\ [Next]_vars => OwnerStep
  <1>. SUFFICES ASSUME TypeOK, [Next]_vars, NEW c \in Clients, c # focus, active
                PROVE  shown'[c] \subseteq shown[c]
    BY DEF OwnerStep
  <1>. USE DEF sprites, server, vt
  <1>1. ASSUME NEW d \in Clients, NEW r \in Strokes, draw(d, r)
        PROVE  shown'[c] \subseteq shown[c]
    BY <1>1 DEF draw, TypeOK
  <1>2. CASE fb_drm_fd_callback
    <2>1. focus \in Clients /\ sync_dmg_to_fb(focus)
      BY <1>2 DEF fb_drm_fd_callback, TypeOK
    <2>. QED  BY <2>1, CopyTyped
  <1>3. CASE shown' = shown
    BY <1>3
  <1>4. joined \subseteq Clients
    BY DEF TypeOK
  <1>. QED  BY <1>1, <1>2, <1>3, <1>4
            DEF Next, User, Client, spr16_client_sync, spr16_client_update, spr16_server_sync,
                server_connect_client, hotkey_callback, input_callback, end_poll,
                fb_sync_client, vt_release, vt_acquire, vars

\* While the terminal is active only the client of the main screen reaches
\* the framebuffer; while it is not, a background client that asked for ASYNC
\* is copied too (fb.c:255-274).
THEOREM OnlyFocusIsCopied == Spec => FocusOwnsScreen
  <1>1. Init => TypeOK
    BY InitInv
  <1>2. TypeOK /\ [Next]_vars => TypeOK' /\ OwnerStep
    BY TypeStep, OwnerStepHolds
  <1>. QED  BY <1>1, <1>2, PTL DEF Spec, FocusOwnsScreen, OwnerStep
=============================================================================
