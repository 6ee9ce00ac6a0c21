----------------------------- MODULE FrameSync -----------------------------
(***************************************************************************)
(* From the sprite of a client to the framebuffer, and the VSYNC ack back  *)
(* to the client: spr16_client_sync and spr16_client_update (client.c),    *)
(* spr16_server_sync and the sync_clients loop (server.c), the DRM card    *)
(* (fb.c), the hotkey and the virtual terminal signals, which take the     *)
(* screen away from a client or give it back.                              *)
(*                                                                         *)
(* Pixels have no values here.  shown[c] is the part of the framebuffer    *)
(* that holds what the sprite of c holds, drawn[c] what c has drawn since  *)
(* it last asked for a sync of it.  Clients do not leave (ServerLoop is    *)
(* about that; the next one is then redrawn as by a hotkey) and have       *)
(* sprites as large as the screen, which are copied (there is no           *)
(* SPRITE_FLAG_DIRECT_SHM).                                                *)
(***************************************************************************)
EXTENDS Damage, FiniteSets, SequencesExt

CONSTANTS
  Clients,
  Strokes,      \* the regions clients draw
  Updates,      \* the regions they sync
  FlagSets,     \* the flags they sync them with
  MaxChan,      \* sync messages on their way to the server, in all
  MaxOut,       \* messages to a client that fit into its socket
  MaxVblanks    \* vblank events the DRM queues for one card

Flags == {"ASYNC", "VBLANK", "PAGE_FLIP"}

ASSUME FrameSyncAssumption ==
  /\ IsFiniteSet(Clients) /\ Clients # {}
  /\ Strokes \subseteq Region /\ Updates \subseteq Region
  /\ FlagSets \subseteq SUBSET Flags
  /\ {MaxChan, MaxOut, MaxVblanks} \subseteq Nat \ {0}

VARIABLES
  drawn, shown,  \* per client: sets of pixels
  chan,          \* per client: sync messages on their way to the server
  out,           \* per client: messages on their way to the client
  waiting,       \* clients with g_wait_vsync set
  dmg,           \* per client: client.dmg[0..dmg_count-1]
  sync_flags,    \* per client: flags of all syncs so far
  slots,         \* the used prefix of sync_clients
  joined,        \* clients that have a screen
  focus,         \* the client of main_screen, once there is one
  pc,            \* "poll": callbacks run; "sync": the sync_clients loop runs
  vblanks,       \* vblank events requested and not read yet
  active,        \* g_is_active
  unmute,        \* g_unmute_input
  lost           \* history: "ack": a VSYNC ack did not fit into a client's socket;
                 \* "redraw": the redraw after a terminal switch was given up;
                 \* "vblank": no vblank event was to be had for the focused client

sprites == <<drawn, shown, chan, waiting>>
server  == <<dmg, sync_flags, slots, joined, focus, pc>>
vt      == <<active, unmute>>
vars    == <<sprites, out, server, vt, vblanks, lost>>

Requests == [region : Region, flags : SUBSET Flags]

TypeOK ==
  /\ drawn \in [Clients -> SUBSET Pixels] /\ shown \in [Clients -> SUBSET Pixels]
  /\ chan \in [Clients -> Seq(Requests)]
  /\ out \in [Clients -> Seq({"vsync", "input"})]
  /\ \A c \in Clients : Len(out[c]) <= MaxOut
  /\ waiting \subseteq Clients
  /\ dmg \in [Clients -> Seq(Region)]
  /\ \A c \in Clients : Len(dmg[c]) <= Slots
  /\ sync_flags \in [Clients -> SUBSET Flags]
  /\ slots \in Seq(Clients) /\ joined \subseteq Clients /\ focus \in Clients
  /\ pc \in {"poll", "sync"}
  /\ vblanks \in 0..MaxVblanks
  /\ {active, unmute} \subseteq BOOLEAN /\ lost \subseteq {"ack", "redraw", "vblank"}

\* The new framebuffer and the memory of new sprites are all zero.  vt_init
\* leaves unmute set, so that the first key press redraws.
Init ==
  /\ drawn = [c \in Clients |-> {}] /\ shown = [c \in Clients |-> Pixels]
  /\ chan = [c \in Clients |-> <<>>] /\ out = [c \in Clients |-> <<>>]
  /\ waiting = {}
  /\ dmg = [c \in Clients |-> <<>>] /\ sync_flags = [c \in Clients |-> {}]
  /\ slots = <<>> /\ joined = {} /\ focus \in Clients
  /\ pc = "poll" /\ vblanks = 0
  /\ active = TRUE /\ unmute = TRUE /\ lost = {}

-----------------------------------------------------------------------------
(* The client.                                                             *)

\* It draws into the shared memory of its sprite.
draw(c, r) ==
  /\ drawn' = [drawn EXCEPT ![c] = @ \cup covered(r)]
  /\ shown' = [shown EXCEPT ![c] = @ \ covered(r)]
  /\ UNCHANGED <<chan, waiting, out, server, vt, vblanks, lost>>

spr16_client_sync(c, r, flags) ==
  /\ SumFunction([d \in Clients |-> Len(chan[d])]) < MaxChan
  /\ chan' = [chan EXCEPT ![c] = Append(@, [region |-> r, flags |-> flags])]
  /\ drawn' = [drawn EXCEPT ![c] = @ \ covered(r)]
  /\ waiting' = IF "VBLANK" \in flags THEN waiting \cup {c} ELSE waiting
  /\ UNCHANGED <<shown, out, server, vt, vblanks, lost>>

\* spr16_client_update: all messages of the socket are dispatched.
spr16_client_update(c) ==
  /\ out[c] # <<>>
  /\ out' = [out EXCEPT ![c] = <<>>]
  /\ waiting' = IF "vsync" \in ToSet(out[c]) THEN waiting \ {c} ELSE waiting
  /\ UNCHANGED <<drawn, shown, chan, server, vt, vblanks, lost>>

-----------------------------------------------------------------------------
(* Callbacks of the server.                                                *)

\* spr16_server_sync: the damage is noted, and the client put in line to be
\* synced unless it only reported damage.
sync_request(c, r, flags) ==
  /\ dmg' = [dmg EXCEPT ![c] = accumulate_dmg(@, r)]
  /\ sync_flags' = [sync_flags EXCEPT ![c] = @ \cup flags]
  /\ slots' = IF flags = {} \/ c \in ToSet(slots) THEN slots ELSE Append(slots, c)

server_sync_fullscreen(c) == sync_request(c, Full, {"ASYNC", "VBLANK"})

\* n input messages are written; those that do not fit are dropped.
write_input(c, n) ==
  LET room == IF n <= MaxOut - Len(out[c]) THEN n ELSE MaxOut - Len(out[c])
  IN  out' = [out EXCEPT ![c] = @ \o [i \in 1..room |-> "input"]]

spr16_server_sync(c) ==
  /\ pc = "poll" /\ chan[c] # <<>>
  /\ LET m == Head(chan[c]) IN sync_request(c, m.region, m.flags)
  /\ chan' = [chan EXCEPT ![c] = Tail(@)]
  /\ UNCHANGED <<drawn, shown, waiting, out, joined, focus, pc, vt, vblanks, lost>>

\* server_connect_client: the first client is focused.  Nothing is redrawn.
server_connect_client(c) ==
  /\ pc = "poll" /\ c \notin joined
  /\ joined' = joined \cup {c}
  /\ focus' = IF joined = {} THEN c ELSE focus
  /\ UNCHANGED <<sprites, out, dmg, sync_flags, slots, pc, vt, vblanks, lost>>

\* Mutant: main_screen_switch does not redraw.
hotkey_callback_no_redraw ==
  /\ pc = "poll"
  /\ \E c \in joined \ {focus} : focus' = c /\ write_input(c, 1)
  /\ UNCHANGED <<sprites, dmg, sync_flags, slots, joined, pc, vt, vblanks, lost>>

\* main_screen_switch: another client is focused, redrawn and told to reset.
hotkey_callback ==
  /\ pc = "poll"
  /\ \E c \in joined \ {focus} :
       /\ focus' = c
       /\ server_sync_fullscreen(c)
       /\ write_input(c, 1)
  /\ lost' = lost \ {"redraw"}
  /\ UNCHANGED <<sprites, joined, pc, vt, vblanks>>

\* An input device has events: update_state, then what is forwarded.  When the
\* flush of a device fails, as it does for one that was unplugged and is still
\* in the list, update_state returns before the redraw, with unmute cleared.
input_callback ==
  /\ pc = "poll"
  /\ \/ /\ unmute /\ joined # {}
        /\ server_sync_fullscreen(focus)
        /\ lost' = lost \ {"redraw"}
     \/ /\ unmute /\ joined # {}
        /\ lost' = lost \cup {"redraw"}
        /\ UNCHANGED <<dmg, sync_flags, slots>>
     \/ /\ ~(unmute /\ joined # {})
        /\ UNCHANGED <<dmg, sync_flags, slots, lost>>
  /\ unmute' = FALSE
  /\ IF joined # {} THEN \E n \in 0..2 : write_input(focus, n) ELSE UNCHANGED out
  /\ UNCHANGED <<sprites, joined, focus, pc, active, vblanks>>

-----------------------------------------------------------------------------
(* The DRM card.                                                           *)

\* sync_dmg_to_fb: regions are copied in order up to the first that fails;
\* they are forgotten only if all were copied.
all_copied(c) == \A i \in DOMAIN dmg[c] : copies(dmg[c][i])

copied(c) ==
  UNION {blit(dmg[c][i]) : i \in {j \in DOMAIN dmg[c] : \A k \in 1..j : copies(dmg[c][k])}}

sync_dmg_to_fb(c) ==
  /\ shown' = [d \in Clients |-> IF d = c THEN shown[d] \cup copied(c)
                                 ELSE shown[d] \ copied(c)]
  /\ dmg' = [dmg EXCEPT ![c] = IF all_copied(c) THEN <<>> ELSE @]

\* spr16_send_ack(SPRITEACK_SYNC_VSYNC); its result is not looked at.
send_vsync(c) ==
  IF Len(out[c]) < MaxOut
  THEN out' = [out EXCEPT ![c] = Append(@, "vsync")] /\ UNCHANGED lost
  ELSE lost' = lost \cup {"ack"} /\ UNCHANGED out

\* Mutant: the ack is sent, the copy left to the next event.
fb_drm_fd_callback_acks_first ==
  /\ pc = "poll"
  /\ \E n \in 1..vblanks : vblanks' = vblanks - n
  /\ send_vsync(focus)
  /\ UNCHANGED <<sprites, dmg, sync_flags, slots, joined, focus, pc, vt>>

\* One read may return several events; only the first one copies and acks.
fb_drm_fd_callback ==
  /\ pc = "poll"
  /\ \E n \in 1..vblanks : vblanks' = vblanks - n
  /\ sync_dmg_to_fb(focus)
  /\ IF all_copied(focus) THEN send_vsync(focus) ELSE UNCHANGED <<out, lost>>
  /\ UNCHANGED <<drawn, chan, waiting, sync_flags, slots, joined, focus, pc, vt>>

\* The callbacks are done; the sync_clients loop starts.
end_poll ==
  /\ pc = "poll" /\ slots # <<>>
  /\ pc' = "sync"
  /\ UNCHANGED <<sprites, out, dmg, sync_flags, slots, joined, focus, vt, vblanks, lost>>

\* Mutant: ASYNC clients are synced when the terminal is active.
fb_sync_client_active ==
  /\ pc = "sync" /\ slots # <<>>
  /\ LET c == Head(slots) IN
       \/ /\ "VBLANK" \in sync_flags[c]
          /\ vblanks' = IF active /\ vblanks < MaxVblanks THEN vblanks + 1 ELSE vblanks
          /\ UNCHANGED <<shown, dmg>>
       \/ /\ "VBLANK" \notin sync_flags[c]
          /\ IF sync_flags[c] = {"ASYNC"} /\ active
             THEN sync_dmg_to_fb(c) ELSE UNCHANGED <<shown, dmg>>
          /\ UNCHANGED vblanks
  /\ slots' = Tail(slots)
  /\ pc' = IF Tail(slots) = <<>> THEN "poll" ELSE "sync"
  /\ UNCHANGED <<drawn, chan, waiting, out, sync_flags, joined, focus, vt, lost>>

\* Mutant: the vblank is requested for clients in the background only.
fb_sync_client_focused ==
  /\ pc = "sync" /\ slots # <<>>
  /\ vblanks' = IF active /\ Head(slots) # focus /\ vblanks < MaxVblanks
                THEN vblanks + 1 ELSE vblanks
  /\ slots' = Tail(slots)
  /\ pc' = IF Tail(slots) = <<>> THEN "poll" ELSE "sync"
  /\ UNCHANGED <<sprites, dmg, out, sync_flags, joined, focus, vt, lost>>

\* drm_vblank: an event is requested, or the ioctl fails, because the queue of
\* events is full or for any other reason, and 0 is returned all the same.
drm_vblank(c) ==
  \/ /\ vblanks < MaxVblanks
     /\ vblanks' = vblanks + 1 /\ lost' = lost \ {"vblank"}
  \/ /\ UNCHANGED vblanks
     /\ lost' = IF c = focus /\ vblanks = 0 THEN lost \cup {"vblank"} ELSE lost

\* fb_sync_client for the next slot.  PAGE_FLIP, not implemented, takes
\* precedence over ASYNC.
fb_sync_client ==
  /\ pc = "sync" /\ slots # <<>>
  /\ LET c == Head(slots) IN
       \/ /\ "VBLANK" \in sync_flags[c]
          /\ IF active THEN drm_vblank(c) ELSE UNCHANGED <<vblanks, lost>>
          /\ UNCHANGED <<shown, dmg>>
       \/ /\ "VBLANK" \notin sync_flags[c]
          /\ IF sync_flags[c] = {"ASYNC"} /\ ~active
             THEN sync_dmg_to_fb(c) ELSE UNCHANGED <<shown, dmg>>
          /\ UNCHANGED <<vblanks, lost>>
  /\ slots' = Tail(slots)
  /\ pc' = IF Tail(slots) = <<>> THEN "poll" ELSE "sync"
  /\ UNCHANGED <<drawn, chan, waiting, out, sync_flags, joined, focus, vt>>

-----------------------------------------------------------------------------
(* vt_sig: the signal may come between any two steps.                      *)

vt_release ==
  /\ active
  /\ active' = FALSE
  /\ UNCHANGED <<sprites, out, server, unmute, vblanks, lost>>

vt_acquire ==
  /\ ~active
  /\ active' = TRUE /\ unmute' = TRUE
  /\ UNCHANGED <<sprites, out, server, vblanks, lost>>

Client(c) ==
  \/ \E r \in Strokes : draw(c, r)
  \/ \E r \in Updates, flags \in FlagSets : spr16_client_sync(c, r, flags)
  \/ spr16_client_update(c)

User == hotkey_callback \/ input_callback \/ vt_release \/ vt_acquire

Next ==
  \/ \E c \in joined : Client(c) \/ spr16_server_sync(c)
  \/ \E c \in Clients : server_connect_client(c)
  \/ User \/ fb_drm_fd_callback \/ end_poll \/ fb_sync_client

Spec == Init /\ [][Next]_vars

\* The server loop runs, and each of its rounds serves every descriptor that
\* is ready (ServerLoop!BacklogIsServed shows why), so that none of them can
\* be passed over for ever.  Clients and the user owe nothing.
FairSpec ==
  /\ Spec
  /\ WF_vars(end_poll) /\ WF_vars(fb_sync_client)
  /\ SF_vars(fb_drm_fd_callback)
  /\ \A c \in Clients : SF_vars(spr16_server_sync(c))

-----------------------------------------------------------------------------
(* Properties.                                                             *)

requested(c) == UNION {covered(chan[c][i].region) : i \in DOMAIN chan[c]}

\* Pixels of c the screen does not show and nobody will redraw on his own.
forgotten(c) == Pixels \ (shown[c] \cup drawn[c] \cup requested(c) \cup damaged(dmg[c]))

\* While the terminal is active and the redraw after a switch was asked for,
\* every pixel of the focused client that the screen does not show is either
\* not synced by the client yet, or in a message, or in its damage slots: no
\* merging, copying, focus change or terminal switch loses damage, but the
\* redraw that update_state gives up when a device cannot be flushed
\* (server.c:643-720, fb.c:63-156, input.c:215-228).
NoDamageForgotten == active /\ ~unmute /\ "redraw" \notin lost => forgotten(focus) = {}

\* A VSYNC ack is sent when all damage the server knew of is on the screen
\* (fb.c:202-210).
AckedIsShown ==
  [][\A c \in Clients :
       Len(out'[c]) > Len(out[c]) /\ Last(out'[c]) = "vsync"
         => /\ dmg'[c] = <<>>
            /\ damaged(dmg[c]) \subseteq shown'[c]]_vars

\* While the terminal is active only the focused client gets to the screen,
\* whatever a background client syncs (fb.c:255-274).
FocusOwnsScreen ==
  [][\A c \in Clients : shown'[c] \subseteq shown[c] \/ c = focus \/ ~active]_vars

\* A focused client that waits for VSYNC is acked, unless it loses the
\* screen, the redraw after a terminal switch has not been asked for yet or
\* was given up, the DRM queued no event for it, or an ack was lost on a full
\* socket (client.c:311, fb.c:158-252, input.c:215-228).
VsyncIsAcked ==
  \A c \in Clients :
    (c \in waiting /\ c = focus /\ active /\ ~unmute /\ lost = {})
      ~> (c \notin waiting \/ "vsync" \in ToSet(out[c]) \/ lost # {}
            \/ focus # c \/ ~active \/ unmute)
=============================================================================
