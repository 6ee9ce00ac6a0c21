# Verification of gtscreen

gtscreen is a small display server for Linux.  Clients draw into shared memory
("sprites"), the server copies the sprite of the focused client to a DRM dumb
framebuffer, reads evdev devices, forwards input to the focused client, and
shares the terminal with other VTs.  The server is one thread around
`epoll_wait`, plus two signal handlers for VT switches and one for termination;
every client is a process of its own that links the client library.

The modules here are translated from the C code.  TLC checks them on small
instances, TLAPS proves the theorems in the `*Proof` modules for all values of
the constants.  `PROJECT.json` maps every definition to the lines it stands for.

## Inventory

| part | state it keeps | operations | talks to |
|---|---|---|---|
| server loop: `server.c`, `fdpoll-handler.c`, `screen.c` | screens, `pending_clients`, `sync_clients`, `free_list`, `cb_data`, the handler list and its `count` | `listener_callback`, `client_callback` and the message handlers, `hotkey_callback`, `spr16_server_update` | clients by sockets; frame copy and input by calls |
| damage and frame copy: `server.c`, `fb.c` | `dmg[]`, `dmg_count`, `sync_flags`, the framebuffer | `spr16_server_sync`, `fb_sync_client`, `fb_drm_fd_callback`, `server_sync_fullscreen` | the DRM card by vblank events, the client by VSYNC acks |
| message stream: `messages.c` | `g_msgbuf` | `spr16_write_msg`, `spr16_read_msgs`, descriptor passing | both sides of every socket |
| client library: `client.c` | connection, sprite, `g_handshaking`, `g_wait_vsync` | connect, handshake, `spr16_client_sync`, `spr16_client_update` | the server; callbacks of the program |
| keyboard input: `input.c` | `btn_down` of each device, mute flags | `transceive_evdev`, `update_state`, flushes, `preempt_keycodes` | focused client by messages; server by hotkeys; kernel VT layer |
| touch and trackpad: `input.c` | the active contact, ids and magnitudes of contacts, tap check and swallowed positions | `consume_surface_report`, `transceive_evdev` (tap check), `evdev_translate_btns`, `trackpad_tap_up`, `abs_to_trackpad` | focused client, which tracks contacts (`touchpaint.c`) |
| VT and DRM master: `vt.c`, `drm.c` | `g_is_active`, master, terminal mode | `vt_sig`, `vt_init`, `vt_shutdown`, acquire and release | signals of the kernel |
| startup and shutdown: `main.c` and the init functions | sockets, files, terminal mode, privileges | `main`, `server_main`, `exit_func`, `sig_func` | everything |
| display: `drm.c` | card, connector, chosen mode, buffer, mapping, framebuffer, CRTC | `drm_mode_create`, `get_mode_idx`, `drm_kms_connect_sfb`, `drm_kms_destroy` | DRM ioctls |
| device discovery: `input.c` | the list of devices, `g_prospect`, handlers | `load_linux_input_drivers`, `find_most_capable`, `evdev_instantiate`, `add_device` | `/dev/input`, the event loop |
| Xorg driver: `airlock/sporg` | inside an X server | uses the client library | the server |
| examples, copy kernels in assembly, Makefile | none of interest | | |

What makes each part correct, and what is hard about it:

* **Server loop.**  A client record is on exactly one list, its handler exists as
  long as it is live, its socket is closed once, and nothing that an event of
  the running batch points to is freed.  Hard: peers act between any two
  callbacks of a batch, descriptor numbers are reused, and there are a dozen
  ways to lose a client in the middle of one of its messages.  One answer is
  written for as long as the peer leaves no room for it.
* **Frame copy.**  Damage reported is damage shown; VSYNC is acked only after
  the copy; only the focused client reaches the screen.  Hard: bounded slots,
  column alignment, focus and VT changes between the sync, the vblank request
  and the vblank event.
* **Message stream.**  Messages arrive whole, once, in order.  Hard: a 960 byte
  buffer cuts messages anywhere.
* **Handshake.**  The descriptor is received where it is expected and both sides
  agree on whether there is a sprite.  Hard: either side may fail or go at any
  step, and the descriptor rides on a byte of the message stream.
* **Keyboard.**  No client is left with a stuck key, and keys of a switch do not
  leak into the next client.  Hard: signals between any two statements, batches
  of events, full sockets.

* **VT, startup and shutdown.**  The terminal is as it was once the process is
  gone, the VT is handed over with nothing drawing and the card free, every
  request for it is answered, a stop is obeyed.  Hard: two signal handlers that
  interrupt `main` anywhere and each other, and `exit` called from a third.

* **Touch and trackpad.**  No contact, click or scroll stays with the client when
  the finger is gone, and a contact is the finger it stands for.  Hard: several
  fingers change in one report, a read may end inside one, and devices are
  flushed in the middle of a touch.
* **Display and devices.**  A failed start gives back what it took; what is shown
  is a mode the display offered; handlers and devices are the same.  Hard:
  a dozen steps that may each fail, displays and devices that come and go
  between two ioctls, candidates in any order.

The places where this bites are listed under "hazards" in `PROJECT.json`.

## Modules

| module | models | abstract specification |
|---|---|---|
| `ServerLoop` | clients inside the server, the fdpoll handler list, one round of `spr16_server_update` | `ClientLife` |
| `Damage` | regions: `accumulate_dmg`, `copy_to_fb` (operators only) | |
| `DamageSlots` | the slots of one client, any regions | |
| `FrameSync` | several clients, the sync slots, vblanks, hotkeys and VT switches; composes `Damage` | |
| `MsgStream` | one direction of a socket, with both dispatch loops | `Fifo` |
| `Handshake` | one client and the server, with failures | `SharedSprite` |
| `KeyInput` | key events from the kernel to clients | |
| `Surface` | a multi-touch surface, its contacts in the driver and on the client | |
| `Trackpad` | a surface used as a trackpad: tap clicks, scroll button, motion | |
| `InputDevices` | the three together, served by one thread | |
| `DisplaySetup` | the card, the connector, the choice of a mode, the buffer | |
| `DeviceScan` | the search for a keyboard, a mouse and a touch device | |
| `Startup` | composes the last two, as `main` and `spr16_server_init` do | |
| `Console` | `main`, `vt_init`, `vt_shutdown`, the handlers of all signals, DRM master | |

`MC*` modules give constants their values for TLC.  `*Proof` modules hold lemmas and
theorems; `DamageProof` is about `Damage` and `DamageSlots`.

### How state and actions correspond to the code

*ServerLoop.*  `files` is the descriptor table of the server process, `nodes` the
fdpoll list (a descriptor and the client its `user_data` points to), `count` its
counter.  `stage` folds `connected` and `handshaking`.  `screens` is
`main_screen` and its successors; every screen has one client, because
`server_connect_client` makes a new screen for each.  A failed
`fdpoll_handler_remove` in `server_remove_client` leaves a screen without a
client, entry `Free`.  The round is `epoll_wait`, one action per callback or per
message dispatched in it, `begin_removals` and `queued_removal` for the
`remove[]` array, `sync_loop` and `server_free_list`.  A peer's `connect`,
`client_write`, `client_read` and `client_close` may fall between any of them.
Messages have no content until they are dispatched, when any message is
possible.  `spr16_server_servinfo` writes its answer until it fits or fails:
`servinfo_again` finds the peer's socket full and stays at pc "servinfo", where no
other client is served, until the peer reads (`full`, `client_read`) or goes.
`listener_leaves_dangling` is any failure of `server_addclient` after it linked the
client (`cb_data_add`, `fdpoll_handler_add`): the connection is closed, the client
freed, and `dangling` says that `pending_clients` points to freed memory.
Where a later walk of that list reads it (`walk_meets_freed`), and where a handler
outlived its client (`client_callback_stale`), the model stops in `crashed`.  `Own`
stands for the server's own files, descriptor 0, the terminal, among them;
`listener_rejects` may close it.

*FrameSync.*  `shown[c]` is the part of the framebuffer that agrees with the
sprite of `c`, `drawn[c]` what the client drew and did not sync yet, `dmg`,
`sync_flags`, `slots`, `active`, `unmute` are the variables of the code.
Callbacks are one action each; the drain of `sync_clients` is one action per
slot; signals come between any two.  `lost` is history: a VSYNC ack met a full
socket ("ack"), a flush failed in `update_state` and the redraw was given up
("redraw", `input.c:223`), or the DRM queued no event for the focused client
("vblank", `drm_vblank`, whose failures `fb_sync_client` does not report).

*MsgStream.*  Bytes are positions in all that was ever written; `base`, `len` and
`rdpos` locate `g_msgbuf` in it.  At a position where no message begins any
header may be read, so `NeverMisread` does not rest on luck.

*Handshake.*  One action per message dispatched and per wait loop of `recv_fd`
(`cpc` "clear" and "receive").  A write succeeds or the peer is gone.

*KeyInput.*  `transceive_evdev` is split where the code reads or writes a flag of
the signal handler: lookup of the client, `update_state` in two steps, read,
`is_active`, then one action per event.  `held` is what a client such as `sporg`
believes down once it has read all that was written to it.  What it lets go of on
RESET is the constant `Resets`: in the run c1 lets go of everything, as
`spr16.h:205` asks, and c2 of LALT and LCTRL only, as `sporg` does.  `kept` is what it
went on believing after its last RESET, `lost` that a write to it failed since,
`untold` that its keys were flushed and it was not told, `fresh` the keys gone down
since the last change of focus; all four are history.  An unplugged device
(`unplug`, `gone`) loses its events; its next read fails, which removes the handler,
and it stays in the list of devices with what `btn_down` had (`input.c:971-978`).
`get_focused_client` also looks at `recv_fd_wait` (`input.c:155`), which is left out:
a client that keeps to the handshake gets a screen only after it is cleared.

*Console.*  `pc` is where `main` is; `frames` are the signal handlers that run,
innermost first.  A step of `main` needs that no handler runs, a step of a
handler that it is the innermost: one thread, interrupted between any two
steps.  A frame "left" is one that `exit` was called above of and that is never
resumed.  `term` collects what was changed of the terminal; `vt`, `pending`,
`leave`, `come_back` and `reldisp` are the VT layer of the kernel, external.
`crossed` is history: a switch began before another was over.  `tty_open` says that
descriptor 0 is still the terminal; a round of callbacks may close it
(`server.c:299`), and from then on every ioctl and `tcsetattr` on it fails, those of
`vt_shutdown` and VT_RELDISP among them.

*Surface.*  `kslot`, `fingers`, `report` are the kernel's protocol B: a slot is sent
when it changes, and a reader sees whole reports, though a read may end inside
one.  `active_contact`, `contact_ids` and `contact_mag` are the fields of
`drv_evdev_pvt`.  One action per event; `send_msg` is the message that
`consume_surface_report` has pending, lost when the read ends before the report.
Every event but SLOT carries the slot the kernel means by it, `at`, which the driver
does not read; `ContactIsSlot` compares it with the contact the driver puts the event
down to.  `blind` is history: the driver cannot know the slot, because it was
forgotten with its finger, is beyond the contacts, or was dropped (`missed`).  The
contacts a client shows are part of `held`.

*Trackpad.*  `resting` counts fingers, `seen` are the buttons they hold by the
events handled.  `pc` "tap" is the end of the function, after the last event.
A press within the delay sets `tap_check` or does not.  `late` is history: the last
finger went up before its tap was checked, so that the click comes after the
release; the next release ends it.

*DisplaySetup.*  `at` is the next step of `drm_mode_create`; each goes on or fails
into `free_err` with what it undoes itself.  `resources` collects what was taken,
`crtc` what the card shows of ours.  `get_mode_idx` is one action per mode,
`count` and `modes` are the two calls of the same ioctl.

*DeviceScan.*  `check_environ`, `find_most_capable` (one action per open, compare and
failure) and `evdev_instantiate` for the three classes in turn.  What a device
can do is the record `Caps`, the numbers that `bit_count` returns and the code
compares; `bit_count` shifts an int (`input.c:169`), so they need not be numbers of
bits.  `tried` is
history, for the reference in `BestCandidatePicked`.

## Runs

Every run ends within five minutes with two workers.

| run | shows | bounds, and why they are enough |
|---|---|---|
| `server` | `OneOwner`, `HandlersAgree`, `QueuedRemovalsHitNobody`, `BatchIsFresh`, `SyncClientsAllocated`, `FocusIsRedrawn`; refinement of `ClientLife`; hangups are released, the backlog is served | two peers (lists of two, reuse of a number), descriptors 0 to 2 of which one, two or all are the server's own at the start, so that a listener without a descriptor for a client happens; one message per read, one sync slot (so that it fills up), one further handler, so that drift 2 breaks the server and drift 1 does not; the constraint `HealthyOrUnregistered` follows what comes after a break only while no client has registered a sprite, without hotkeys and after one cause at a time, which is enough for every action to happen; 284 thousand states |
| `damage_slots` | slots cover what was reported and can be emptied | 6 x 2 pixels, groups of 3, 2 slots: merges across both bounds and every alignment |
| `frame_safety` | `NoDamageForgotten`, `AckedIsShown`, `FocusOwnsScreen` | two clients, 4 columns in groups of 2 with an update across the border, one slot, so that every second sync merges; 1.2 million states |
| `frame_vsync` | `VsyncIsAcked` | one pixel: order is what matters; 354 thousand states |
| `stream` | `NeverMisread`, `ImplementsFifo`, `AllHandled` | sizes 8, 10, 16 and a buffer of 20: cuts at every even place of a header and of a body, and ends at a boundary; 60 bytes are three buffers |
| `handshake` | `FdIsExpected`, `ImplementsShared`, `HandshakeEnds`, `BothAgree`, `ClosedIsReleased` | one client; two messages in flight afterwards |
| `input` | `HeldKeysAreDown`, `SwitchKeysStayBehind`, `NoGhostTouch`, `ContactIsSlot`, `NoStuckButton` | two clients with different answers to RESET, one VT switch, and either a keyboard with Alt/Ctrl (one key), Tab, Escape and an F key next to a mouse, or a surface with three slots of which two are contacts, or a trackpad; three key events, three reports of two fingers, four of the trackpad; a queue of two reports and reads of four events, so that a read ends inside a report; the keyboard may be unplugged; the constraint `OneTold` leaves out what comes while a message was lost or a flush not told to both clients, to whom nothing is promised then; 3.9 million states |
| `startup` | `FailureReleases`, `LargestModePicked`, `ShownIsOffered`, `HandlersHaveDevices`, `RolesMatchClass`, `BestCandidatePicked` | every list of up to three of seven modes (nested and crossing, one not a multiple of 16, several rates), one plug or unplug, every failure; then five devices in every order with three keyboards that beat each other in turn, and two ids, so that the third device is one too many; the constraint `OneScreen` looks for devices behind one screen only, because the two parts share nothing |
| `console` | `TerminalRestored`, `HandsOverQuietly`, `VtIsGivenUp`, `StopIsObeyed` | the server is asked for the VT twice, so that one switch meets another; any number of stop and fatal signals |

`CHECK_DEADLOCK FALSE` is set where behaviours end: the bytes, keys and reports
of a behaviour are bounded, a handshake ends with both sides closed, and startup
ends in failure or with the server running.

The type invariants of the modules are proved for all instances; a run repeats
one only where it carries more than types (`Handshake`, which messages travel in
which direction; `InputDevices`, where a message is pending only for a contact
that is touched).

`Healthy` appears in the properties of `ServerLoop`.  It says that the handler
count has not drifted by more than the handlers that are always there (the DRM
card and the devices), that descriptor 0 is still the terminal, and that no freed
client is linked in `pending_clients`.  The code loses each of them: a hangup is
counted twice (`fdpoll-handler.c:163`), a peer is gone before its client has a
socket number (`server.c:299`), and a client is freed where it is already linked
(`server.c:286-294`).  Then nothing is guaranteed; the premise is the condition
under which the rest is true, not a simplification.

`Stuck` is a server that answers a SERVINFO of a peer that does not read.  It is
neither broken nor does it do anything else (see Fairness).

### Disagreements found

Each has a run that TLC must find violated.

* `server_stale`: a hangup lowers `count` twice (`fdpoll-handler.c:163`); when it
  is 0 handlers cannot be removed, and a handler outlives its client's data.
* `server_inflight`: a hangup drops messages already received (`server.c:1036`),
  which the comment in `fdpoll-handler.c:18` warns of.
* `console_nested`: SIGUSR2 interrupts the handler of SIGUSR1, because `vt.c:65`
  masks nothing; the server ends up DRM master of a card whose VT it gave up,
  against `fb.c:228`.

Further ones are in the models and not run on their own, because they follow
from one place of the code each.

Display and devices (`DisplaySetup`, `DeviceScan`):

* `drm.c:615` says that the closest mode that fits is returned.  The code compares
  each mode with the last pick only, and takes one that is larger in either
  direction: of three modes the first may be larger than the third that is
  picked.  `ClosestIsPicked` states the comment; `LargestModePicked` is what
  holds, and that only while of any two modes one is within the other.
* The number of LEDs of a candidate is never stored (`input.c:1125`), so every
  later keyboard with LEDs is preferred to one with more keys; that is the
  premise of `BestCandidatePicked`.
* A device that goes while it is looked at ends the search of its class without
  a result, whatever was found (`err_close`).
* Descriptors are lost: of the card when `drm_mode_create` returns before it has
  a structure, of a device when `evdev_instantiate` fails.
* A node that is the best of two classes is opened twice, and its events come
  twice.
* A card without a connector, an encoder or a CRTC is read through NULL; the
  model starts from a card that has them.

Touch (`Surface`, `Trackpad`):

* `input.c:813` assumes that a tracking id without a slot is that of contact 0.
  The kernel sends a slot only when it changes, so after a lift in another slot
  a new finger there is taken for contact 0.  A flush, and an early return that
  drops the rest of a read, may swallow a slot too; then a finger is taken for
  the contact before it.  With slots beyond the contacts, these are all the
  causes (`blind` in `ContactIsSlot`).
* `touchpaint.c` ignores RESET, and `sporg` lets go of LALT and LCTRL only, against
  `spr16.h:205`: a contact, a click or a key held over a change of focus stays
  (`kept` in `NoGhostTouch`, `NoStuckButton` and `HeldKeysAreDown`).
* A finger that goes up in the read its tap is checked in is clicked after its
  release, and the click stays (`input.c:428`, `late` in `NoStuckButton`).
* A contact pressed with magnitude 0 is told to clients as released.

The loop (`ServerLoop`, `Console`, `FrameSync`):

* A client that asks for SERVINFO and does not read keeps the server in
  `goto again` (`server.c:219-224`): nobody else is served, no stop is obeyed.
* A peer that is gone when `server_addclient` writes to it makes `server.c:299`
  close descriptor 0, because `cl->socket` is not set yet.  That is the terminal:
  `vt_shutdown` restores nothing then, and `VT_RELDISP` fails, so the user cannot
  leave the VT (`tty_open` in `TerminalRestored` and `VtIsGivenUp`).
* A client is linked before `cb_data_add` and `fdpoll_handler_add`, and freed when
  one of them fails (`server.c:286-299`): `pending_clients` points to freed memory.
* A device that was unplugged stays in the list and fails every flush, so
  `update_state` clears `g_unmute_input` and does not redraw (`input.c:223`): what
  background clients copied while the VT was away stays on the screen, and a
  VSYNC that was due then is not asked for again (`lost` in `NoDamageForgotten` and
  `VsyncIsAcked`).

Elsewhere: an ASYNC sync of the focused client on the
active VT is not copied before some other sync (`fb.c:267`); a VT release inside
`update_state` undoes the muting, and keys typed on the other VT are forwarded
(`input.c:217`); `fdpoll_handler_poll` reads `data->fd` from a
node the callback freed (`fdpoll-handler.c:220`); the disconnect of any client
flushes keys and the focused client is not told (`server.c:143`, the reason for
`untold` in `HeldKeysAreDown`); the rest of a batch after a hotkey goes to the
client that lost the focus (`input.c:963`); repeats and releases of VT keys are
forwarded although `input.c:569` prevents the key-downs (`input.c:575`).

### Fairness

* `ServerLoop`: weak fairness of the server thread as a whole: the kernel
  schedules it.  One of its callbacks does wait for a peer, the SERVINFO loop of
  `server.c:219-224`, and peers owe nothing, so the server may stay there for
  ever; `HangupReleasesSocket`, `BacklogIsServed` and `LifeSpec` except a behaviour that ends
  in `Stuck`, and nothing else.  Strong fairness of a successful `accept4`, which may
  fail for want of memory but not for ever; it needs a free descriptor, and
  `BacklogIsServed` excepts a server that has none left for ever.
* `FrameSync`: weak fairness of the sync drain, strong fairness of the DRM
  callback and of each client's pending sync: `epoll` is level triggered and
  each round serves every ready descriptor, so none is passed over for ever.
* `MsgStream`: weak fairness of the reader, for the same reason.
* `Handshake`: both processes run, and the client counts its tries, so its
  timeout happens if nothing else does.

* `Console`: `main` and the handlers run and sent signals are delivered.  The
  end of a wait for events is not fair: nobody need type or draw.

No client and no user action is fair anywhere.

The other modules take the server as one that comes back to its loop.  A server
that spins in `server.c:219-224` is outside of `VsyncIsAcked`, `AllHandled`, `ClosedIsReleased`,
`VtIsGivenUp` and `StopIsObeyed` (signal handlers still run there, so the VT is given up
even so; a stop is not obeyed).  `ClosedIsReleased` is about a server in which the
removal of a client succeeds; when it does not is in `ServerLoop`.

## Proofs

| module | theorems |
|---|---|
| `ServerLoopProof` | `TypeCorrect`, `CountAccounted`, `ClientsOwnedOnce`, `HandlersFollowClients`, `DeferredRemovalHarmless`, `EventsAreFresh`, `StaleOnlyAfterBreak`, `NoSyncOfTheFreed`, `NewFocusIsRedrawn`, `ServerKeepsClientLife` |
| `DamageProof` | `SlotsTypeCorrect`, `NothingReportedIsLost`, `AlignedScreensAreCopied` |
| `FrameSyncProof` | `FrameTypeCorrect`, `DamageIsKept`, `AcksAreTrue`, `OnlyFocusIsCopied` |
| `MsgStreamProof` | `StreamTypeCorrect`, `Reassembly`, `StreamRefinesFifo` |
| `HandshakeProof` | `HandshakeTypeCorrect`, `DescriptorIsExpected`, `HandshakeImplementsShared` |
| `InputDevicesProof` | `InputTypeCorrect`, `NoStuckKeys`, `NothingIsCarriedOver`, `TouchesEnd`, `ButtonsEnd`, `ContactsAreSlots` |
| `ConsoleProof` | `ConsoleTyped`, `TerminalIsRestored`, `QuietHandover`, `MasterIsDropped` |
| `StartupProof` | `StartupTyped`, `NothingLeaks`, `LargestIsPicked`, `OfferedIsShown`, `DevicesAreWatched`, `RolesAreRight`, `BestIsInstantiated` |

The assumptions are the named `ASSUME`s of the modules: constants are natural
numbers, sentinels are no members, message sizes are even and fit.

* *Startup.*  `FailureReleases` needs `HeldAt`, what is held before each of the
  steps.  `LargestModePicked` is inductive over the modes by itself: the pick
  among the first ones is largest or there is none, and within is transitive on
  nested modes.  `ShownIsOffered` needs `ModesRead`, that the array is what one
  ioctl returned, because the counts of both agree.  For the devices `ScanInv`
  adds to the types that the ids and descriptors are numbered in the order of
  the list and that each class occurs once.  `BestSoFar` strengthens
  `BestCandidatePicked` by what `select_prp` stored of the candidate; it needs that
  a keyboard has keys, which `possibly_keyboard` checks (`ScanAssumption`).
* *ServerLoop.*  None of the invariants is inductive alone: that a handler points
  to a live client needs that lists are disjoint, that in turn needs the phase
  of the loop, and all of it holds only while `Healthy`.  The proof carries
  `HealthInv`, that is `Healthy => Core`: ownership, handlers, what retired
  clients still own, the sockets, the backlog and the events of the batch,
  next to `TypeInv` and the count, which hold always.  So does `Records`, what the
  lists keep to even after a break: a client in use is allocated, one to be freed
  is in use nowhere else, and `SlotsEmptied` bounds `sync_clients`.  From these
  follow the two theorems about redraws.  `ServerKeepsClientLife` maps the steps of
  a healthy server to `ClientLife`: accept arrives, the end of the handshake shows,
  every way to drop a client retires, `server_free_list` releases, all others
  stutter; a step that breaks `Healthy` is `Break`.  `StaleOnlyAfterBreak` tells the
  cause of what `server_stale` finds: a server that has lost neither its count nor its
  terminal, and has no freed client linked, never uses freed memory.
* *Damage.*  `accumulate_dmg` never shrinks what the slots cover, and aligned
  columns of a rectangle include the rectangle.
* *FrameSync.*  `TypeOK /\ Fresh /\ NoDamageForgotten`, with the exceptions said there: `Fresh` says that as long as
  no client has joined the screen is untouched and nobody is in line.  `AckedIsShown` and `FocusOwnsScreen` are step
  properties that follow from the same invariant.
* *MsgStream.*  `TypeOK /\ Framed /\ Placed`: written messages tile the stream, and the
  read position is a message boundary in each state of the reader.
* *Handshake.*  Every conjunct of the invariant says what may be on the way in one
  phase: `Announced` that an answer of the server travels alone, `Registering`
  and `Fetching` the same of the client's requests, `Away` what `recv_fd` may find
  when it throws away what is pending, `Flags` how the flags of the two sides
  depend on each other.  They need each other: a descriptor comes alone because
  the request it answers did, and that one because the client had nothing else
  to say while `g_handshaking`.  `HandshakeImplementsShared` shows each step to be
  one of `SharedSprite` or a stutter.
* *InputDevices.*  `Typed` adds to the types that the events of a call are those of
  the device it serves (`OwnEvents`), without which a contact could be written for
  a key.  `FocusOfCall` covers keys, contacts and buttons at once: until
  `update_state` has run the client of a call is the head, and afterwards it is
  the head or the head believes nothing down.  Without it an event written to the
  client that was looked up could not be told from one written to the focused
  client.  `ButtonsEnd` needs `TapDown`: a tap is checked while its finger is down,
  or it is late.  `ContactsAreSlots` looks at all events of the surface that are not
  handled yet, those of the read, of the queue and of the report being put
  together (`Followed`): in that stream an event is of the slot of the event before
  it up to the next SLOT (`Chained`), the first events are of the contact the driver
  is at (`Begins`), the last of the slot the kernel is at (`Ends`), and if there is no
  SLOT at all the two agree (`Stays`), unless the driver is blind.  Handling an
  event, flushing and dropping take away a prefix (`Fewer`), reporting appends
  (`OneMore`).
  The theorems are about the composed module, so they hold for keyboards,
  surface and trackpad served in any order by one thread.
* *Console.*  The nesting bound needs that no signal is handled twice at a time
  (`OneEach`).  `TerminalRestored` needs `Restorable`: `exit_func` is registered
  only once there are settings to restore.  It is about a process whose
  descriptor 0 is still the terminal; otherwise nothing is restored.  `HandsOverQuietly` needs `Quiet`: an
  request that can still be answered is either pending or with the only handler, which has
  put away what comes before the place it is at.  `MasterIsDropped` goes on from
  there (`HandedOver`): until the VT comes back nothing is pending and the handler
  can only return.  So nested handlers are the only cause of what
  `console_nested` finds.

Every safety invariant and every safety property of steps that a passing run
checks is proved.  Only model-checked are the liveness properties
(`HangupReleasesSocket`, `BacklogIsServed`, `VsyncIsAcked`, `AllHandled`, `HandshakeEnds`,
`BothAgree`, `ClosedIsReleased`, `VtIsGivenUp`, `StopIsObeyed`) and the fairness in
`LifeSpec`, that a retired record is released: they need ENABLED, which is out of
the prover's reach.

## Not modelled

* `SPRITE_FLAG_DIRECT_SHM`, in which the card scans out of the sprite.
* Rows of 2^16 bytes and more, where `copy_to_fb` wraps its 16-bit counts.
* Pointer motion and acceleration, which keep no state a client depends on, and
  the ASCII keyboard on stdin, which the server never asks for (`server.c:614`).
* `evdev_load_settings`, which copies the options of the server (acceleration,
  scroll amount, tap delay) to a device, and the hiding of device files from
  clients (`chmod`).
* `SYN_DROPPED`, of which the code only has a comment (`input.c`): an overflow of the
  kernel's own queue drops events, and nothing is done about it.  `MaxQueue` stops
  the hardware before.
* Unplugging of a surface or trackpad in the run: `unplug` takes any device, the
  run unplugs the keyboard only.
* Prime export and import, which belong to `SPRITE_FLAG_DIRECT_SHM`, and
  `drm_kms_print_modes`.
* Times and distances of taps: whether a touch is soon or near enough is open.
* `x86.s`: copy loops without state.  What they are given is in `Damage`.
* The example clients: they draw, and ask of the library what `Handshake` and
  `FrameSync` let any client ask.  The contacts `touchpaint.c` keeps are in
  `Surface`.
* `airlock/sporg`: the state it keeps belongs to an X server whose loop and
  threads are not in this repository.  What it does with key messages and with
  RESET (`sporg_input.c:344-410`) is in `KeyInput` and `Trackpad`.

## Plan

Done, in the order of importance: the server loop, damage and frames, the
stream, keys, the handshake, the console, touch and trackpad, the display and
the input devices.

Left:

* `evdev_load_settings` (`input.c`), which copies options to a device.
