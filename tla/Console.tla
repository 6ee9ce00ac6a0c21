------------------------------ MODULE Console ------------------------------
(***************************************************************************)
(* The terminal and the DRM card over the life of the server: main and     *)
(* server_main (main.c), vt_init, vt_shutdown and the handler of the VT    *)
(* signals (vt.c), drm_mode_create and what the handler calls (drm.c).     *)
(*                                                                         *)
(* Signals arrive between any two steps.  sigaction is called with an      *)
(* empty mask, so the handler of one VT signal is interrupted by the other *)
(* one, but not by its own.  SIGKILL is left out, and the rounds of the    *)
(* server are those of ServerLoop.  A handler that runs while exit runs    *)
(* may call exit again, which C leaves undefined: fatal stops there.       *)
(***************************************************************************)
EXTENDS Naturals, Sequences

CONSTANT MaxSwitches  \* bound: how often the server is asked for the VT

ASSUME ConsoleAssumption == MaxSwitches \in Nat

VARIABLES
  pc,              \* where main is
  term,            \* what was changed of the terminal
  g_origterm,      \* it was saved
  tty_open,        \* descriptor 0, which is g_ttyfd, is still the terminal
  handlers,        \* signals with a handler: "vt", "stop" or both
  exit_registered, \* atexit(exit_func)
  card,            \* g_card0: "none", "live" or "freed"
  master,          \* the card is ours to set modes
  g_is_active, g_input_muted, g_unmute_input, g_running, g_initialized,
  socket_file,     \* the server's socket is in the file system
  killed,          \* a signal without a handler ended the process
  vt,              \* the VT is "ours", "leaving" (SIGUSR2 sent) or "away"
  pending,         \* VT signals sent and not delivered
  frames,          \* the running handlers, innermost first
  switches,        \* bound
  crossed          \* history: a VT switch began before another was over

terminal == <<term, g_origterm, tty_open>>
process  == <<handlers, exit_registered, socket_file, killed>>
flags    == <<g_is_active, g_input_muted, g_unmute_input>>
server   == <<g_running, g_initialized>>
drm      == <<card, master>>
console  == <<vt, pending, switches, crossed>>
vars == <<pc, terminal, process, flags, server, drm, console, frames>>

Changes == {"kbmode", "graphics", "process", "raw", "zeroed"}
VtSignals == {"SIGUSR1", "SIGUSR2"}
Places  == {"create", "kbmode", "graphics", "process", "save", "raw", "atexit", "sigs",
            "socket", "init", "watch", "loop", "wait", "update", "shutdown", "destroy", "exit", "exited"}
Steps   == {"acquire", "set_master", "connect", "activate", "unmute",
            "deactivate", "drop_master", "release", "mute", "left"}

TypeOK ==
  /\ pc \in Places /\ term \subseteq Changes /\ handlers \subseteq {"vt", "stop"}
  /\ card \in {"none", "live", "freed"}
  /\ {g_origterm, tty_open, exit_registered, master, g_is_active, g_input_muted,
      g_unmute_input, g_running, g_initialized, socket_file, killed, crossed} \subseteq BOOLEAN
  /\ vt \in {"ours", "leaving", "away"} /\ pending \subseteq VtSignals
  /\ frames \in Seq([sig : VtSignals, at : Steps]) /\ Len(frames) <= 2
  /\ switches \in 0..MaxSwitches

Init ==
  /\ pc = "create" /\ term = {} /\ g_origterm = FALSE /\ tty_open = TRUE
  /\ handlers = {} /\ exit_registered = FALSE /\ socket_file = FALSE /\ killed = FALSE
  /\ g_is_active = FALSE /\ g_input_muted = FALSE /\ g_unmute_input = FALSE
  /\ g_running = TRUE /\ g_initialized = FALSE
  /\ card = "none" /\ master = FALSE
  /\ vt \in {"ours", "away"} /\ pending = {} /\ switches = 0 /\ crossed = FALSE
  /\ frames = <<>>

-----------------------------------------------------------------------------
(* main, between signals.  A handler that called exit has left the frames  *)
(* it interrupted for good.                                                *)

At(p) == pc = p /\ \A i \in DOMAIN frames : frames[i].at = "left"

\* drm_mode_create: master is set whether the VT is in front or not.
drm_mode_create ==
  /\ At("create")
  /\ \/ pc' = "exit" /\ UNCHANGED <<card, master, g_input_muted, g_unmute_input, handlers>>
     \/ /\ card' = "live" /\ master' = TRUE
        \* vt_init begins
        /\ g_input_muted' = TRUE /\ g_unmute_input' = TRUE
        /\ handlers' = {"vt"}
        /\ pc' = "kbmode"
  /\ UNCHANGED <<terminal, exit_registered, socket_file, killed, g_is_active, server, console, frames>>

\* vt_setmode_textauto: in VT_AUTO a switch that waits for an answer is off.
textauto ==
  /\ term' = term \ {"graphics", "process"}
  /\ vt' = IF vt = "leaving" THEN "ours" ELSE vt

\* vt_shutdown: tcsetattr with whatever g_origterm holds.  All of it goes to
\* descriptor 0, and fails without a trace but a message once that is closed.
vt_shutdown ==
  /\ g_input_muted' = TRUE
  /\ IF tty_open
     THEN /\ term' = IF g_origterm THEN {} ELSE {"zeroed"}
          /\ vt' = IF vt = "leaving" THEN "ours" ELSE vt
     ELSE UNCHANGED <<term, vt>>

\* One ioctl of vt_init: it fails, and undone(p) is what is done about it, or
\* the terminal has changed.
vt_init_step(p, change, next) ==
  /\ At(p)
  /\ \/ /\ term' = term \cup change /\ pc' = next
        /\ UNCHANGED <<vt, g_input_muted>>
     \/ /\ IF p = "kbmode" THEN textauto /\ UNCHANGED g_input_muted ELSE vt_shutdown
        /\ pc' = "destroy"
  /\ UNCHANGED <<tty_open, process, g_is_active, g_unmute_input, server, drm,
                 pending, switches, crossed, frames>>

vt_init ==
  \/ vt_init_step("kbmode", {"kbmode"}, "graphics") /\ UNCHANGED g_origterm
  \/ vt_init_step("graphics", {"graphics"}, "process") /\ UNCHANGED g_origterm
  \/ vt_init_step("process", {"process"}, "save") /\ UNCHANGED g_origterm
  \/ vt_init_step("save", {}, "raw") /\ g_origterm' = (pc' = "raw")
  \/ vt_init_step("raw", {"raw"}, "atexit") /\ UNCHANGED g_origterm

\* server_main, until the server exists.
register_exit ==
  /\ At("atexit")
  /\ \/ exit_registered' = TRUE /\ pc' = "sigs"
     \/ UNCHANGED exit_registered /\ pc' = "destroy"
  /\ UNCHANGED <<terminal, handlers, socket_file, killed, flags, server, drm, console, frames>>

sig_setup ==
  /\ At("sigs") /\ handlers' = {"vt", "stop"} /\ pc' = "socket"
  /\ UNCHANGED <<terminal, exit_registered, socket_file, killed, flags, server, drm, console, frames>>

\* spr16_server_init: it stores g_is_active first, and then server_create_socket
\* may fail before or after the socket is bound.
spr16_server_init ==
  /\ At("socket")
  /\ g_is_active' = TRUE
  /\ \/ pc' = "destroy" /\ socket_file' \in BOOLEAN
     \/ pc' = "init" /\ socket_file' = TRUE
  /\ UNCHANGED <<terminal, handlers, exit_registered, killed, g_input_muted, g_unmute_input,
                 server, drm, console, frames>>

\* Mutant: g_running is set once the server is there, not at the start of main.
initialized_sets_running ==
  /\ At("init") /\ g_initialized' = TRUE /\ g_running' = TRUE /\ pc' = "watch"
  /\ UNCHANGED <<terminal, process, flags, drm, console, frames>>

initialized ==
  /\ At("init") /\ g_initialized' = TRUE /\ pc' = "watch"
  /\ UNCHANGED <<terminal, process, flags, g_running, drm, console, frames>>

\* fdpoll_handler_add of the card.
watch_card ==
  /\ At("watch") /\ pc' \in {"loop", "shutdown"}
  /\ UNCHANGED <<terminal, process, flags, server, drm, console, frames>>

\* The loop of server_main looks at g_running, then waits for ever.
server_main ==
  /\ At("loop") /\ pc' = IF g_running THEN "wait" ELSE "shutdown"
  /\ UNCHANGED <<terminal, process, flags, server, drm, console, frames>>

\* A round with events; it may fail.  Input after the VT came back unmutes, in two
\* steps of update_state.  A peer that connects and is gone before SERVINFO is
\* written to it makes server_addclient close descriptor 0: cl->socket is not
\* set yet (ServerLoop models the callbacks).
spr16_server_update ==
  \/ /\ At("wait") /\ pc' \in {"loop", "shutdown"} /\ tty_open' \in {tty_open, FALSE}
     /\ UNCHANGED <<term, g_origterm, process, flags, server, drm, console, frames>>
  \/ /\ At("wait") /\ g_unmute_input
     /\ g_unmute_input' = FALSE /\ pc' = "update"
     /\ UNCHANGED <<terminal, process, g_is_active, g_input_muted, server, drm, console, frames>>
  \/ /\ At("update") /\ g_input_muted' = FALSE /\ pc' \in {"loop", "shutdown"}
     /\ UNCHANGED <<terminal, process, g_is_active, g_unmute_input, server, drm, console, frames>>

spr16_server_shutdown ==
  /\ At("shutdown") /\ pc' = "destroy"
  /\ UNCHANGED <<terminal, process, flags, server, drm, console, frames>>

\* main, with or without a server: the card is closed and freed.
drm_kms_destroy ==
  /\ At("destroy") /\ pc' = "exit"
  /\ card' = "freed" /\ master' = FALSE
  /\ UNCHANGED <<terminal, process, flags, server, console, frames>>

\* Mutant: the terminal is only restored if there was a server.
exit_func_initialized ==
  /\ socket_file' = (socket_file /\ ~g_initialized)
  /\ IF g_initialized THEN vt_shutdown ELSE UNCHANGED <<g_input_muted, term, vt>>

exit_func ==
  /\ socket_file' = (socket_file /\ ~g_initialized)
  /\ vt_shutdown

exit ==
  /\ At("exit") /\ pc' = "exited"
  /\ IF exit_registered THEN exit_func ELSE UNCHANGED <<socket_file, g_input_muted, term, vt>>
  /\ master' = FALSE
  /\ UNCHANGED <<g_origterm, tty_open, handlers, exit_registered, killed, g_is_active,
                 g_unmute_input, server, card, pending, switches, crossed, frames>>

-----------------------------------------------------------------------------
(* vt.c: vt_sig, and drm_acquire_signal, drm_release_signal.               *)

Running == pc # "exited"

\* The frame that runs.
top == Head(frames)
in(s) == Running /\ frames # <<>> /\ top.at = s
goto(s) == frames' = <<[top EXCEPT !.at = s]>> \o Tail(frames)
return == frames' = Tail(frames)

\* A signal cuts the wait for events short (EINTR), unless it came just before.
interrupt == IF pc = "wait" THEN pc' \in {"loop", "wait"} ELSE UNCHANGED pc

\* The kernel delivers s.
deliver(s) ==
  /\ Running /\ s \in pending
  /\ \A i \in DOMAIN frames : frames[i].sig # s
  /\ pending' = pending \ {s}
  /\ frames' = <<[sig |-> s, at |-> IF s = "SIGUSR1" THEN "acquire" ELSE "deactivate"]>>
                 \o frames
  /\ crossed' = (crossed \/ frames # <<>>)
  /\ interrupt
  /\ UNCHANGED <<terminal, process, flags, server, drm, vt, switches>>

\* VT_RELDISP: with a switch waiting for an answer the kernel takes VT_ACKACQ
\* for a yes as well.  On a closed descriptor it fails, and the handler goes on.
reldisp == vt' = IF vt = "leaving" /\ tty_open THEN "away" ELSE vt

acquire_vt ==
  /\ in("acquire") /\ reldisp /\ goto("set_master")
  /\ UNCHANGED <<pc, terminal, process, flags, server, drm, pending, switches, crossed>>

\* It fails, among others, when another process is the master.
card_set_master ==
  /\ in("set_master")
  /\ \/ card = "live" /\ master' = TRUE /\ goto("connect")
     \/ goto("unmute") /\ UNCHANGED master
  /\ UNCHANGED <<pc, terminal, process, flags, server, card, console>>

\* Our framebuffer goes to the CRTC again, or an ioctl fails.
drm_kms_connect_sfb ==
  /\ in("connect") /\ (goto("activate") \/ goto("unmute"))
  /\ UNCHANGED <<pc, terminal, process, flags, server, drm, console>>

spr16_server_activate ==
  /\ in("activate") /\ g_is_active' = TRUE /\ goto("unmute")
  /\ UNCHANGED <<pc, terminal, process, g_input_muted, g_unmute_input, server, drm, console>>

unmute_input ==
  /\ in("unmute") /\ return /\ g_unmute_input' = TRUE
  /\ UNCHANGED <<pc, terminal, process, g_is_active, g_input_muted, server, drm, console>>

spr16_server_deactivate ==
  /\ in("deactivate") /\ g_is_active' = FALSE /\ goto("drop_master")
  /\ UNCHANGED <<pc, terminal, process, g_input_muted, g_unmute_input, server, drm, console>>

\* Mutant: the VT is given up first.
card_drop_master_late ==
  /\ in("drop_master") /\ goto("release")
  /\ UNCHANGED <<pc, terminal, process, flags, server, drm, console>>

card_drop_master ==
  /\ in("drop_master") /\ master' = FALSE /\ goto("release")
  /\ UNCHANGED <<pc, terminal, process, flags, server, card, console>>

\* Mutant: no answer while the server starts or stops.
release_vt_in_loop ==
  /\ in("release") /\ goto("mute")
  /\ IF pc \in {"loop", "wait", "update"} THEN reldisp ELSE UNCHANGED vt
  /\ UNCHANGED <<pc, terminal, process, flags, server, drm, pending, switches, crossed>>

release_vt ==
  /\ in("release") /\ reldisp /\ goto("mute")
  /\ UNCHANGED <<pc, terminal, process, flags, server, drm, pending, switches, crossed>>

mute_input ==
  /\ in("mute") /\ return /\ g_input_muted' = TRUE
  /\ UNCHANGED <<pc, terminal, process, g_is_active, g_unmute_input, server, drm, console>>

-----------------------------------------------------------------------------
(* The signals that end the server, and the user.                          *)

\* SIGTERM, SIGINT, SIGQUIT, SIGHUP.
stop ==
  /\ Running
  /\ IF "stop" \in handlers
     THEN g_running' = FALSE /\ interrupt /\ UNCHANGED killed
     ELSE killed' = TRUE /\ pc' = "exited" /\ UNCHANGED g_running
  /\ UNCHANGED <<terminal, handlers, exit_registered, socket_file, flags, g_initialized, drm,
                 console, frames>>

\* SIGABRT, SIGALRM, SIGSEGV and the like: the handler calls exit.
fatal ==
  /\ Running /\ pc # "exit"
  /\ IF "stop" \in handlers
     THEN pc' = "exit" /\ frames' = [i \in DOMAIN frames |-> [frames[i] EXCEPT !.at = "left"]]
          /\ UNCHANGED killed
     ELSE killed' = TRUE /\ pc' = "exited" /\ UNCHANGED frames
  /\ UNCHANGED <<terminal, handlers, exit_registered, socket_file, flags, server, drm, console>>

\* The user asks for another VT; in VT_AUTO the kernel asks nobody.
leave ==
  /\ vt = "ours"
  /\ IF "process" \in term /\ Running
     THEN /\ switches < MaxSwitches /\ switches' = switches + 1
          /\ vt' = "leaving" /\ pending' = pending \cup {"SIGUSR2"}
          /\ crossed' = (crossed \/ pending # {} \/ frames # <<>>)
     ELSE vt' = "away" /\ UNCHANGED <<pending, switches, crossed>>
  /\ UNCHANGED <<pc, terminal, process, flags, server, drm, frames>>

come_back ==
  /\ vt = "away" /\ vt' = "ours"
  /\ pending' = IF "process" \in term /\ Running THEN pending \cup {"SIGUSR1"} ELSE pending
  /\ UNCHANGED <<pc, terminal, process, flags, server, drm, switches, crossed, frames>>
-----------------------------------------------------------------------------

Main ==
  \/ drm_mode_create \/ vt_init \/ register_exit \/ sig_setup \/ spr16_server_init
  \/ initialized \/ watch_card \/ server_main \/ spr16_server_update
  \/ spr16_server_shutdown \/ drm_kms_destroy \/ exit

vt_sig ==
  \/ acquire_vt \/ card_set_master \/ drm_kms_connect_sfb \/ spr16_server_activate \/ unmute_input
  \/ spr16_server_deactivate \/ card_drop_master \/ release_vt \/ mute_input

Signals == (\E s \in VtSignals : deliver(s)) \/ stop \/ fatal

Next == Main \/ vt_sig \/ Signals \/ leave \/ come_back

Spec == Init /\ [][Next]_vars

\* main and its handlers run and sent signals are delivered; no event need ever
\* end the wait of spr16_server_update.
FairSpec ==
  /\ Spec /\ WF_vars(Main /\ pc # "wait") /\ WF_vars(vt_sig)
  /\ \A s \in VtSignals : WF_vars(deliver(s))
-----------------------------------------------------------------------------
(* Properties.                                                             *)

\* Once exit_func is registered, however the server ends, be it by a fatal signal
\* in the middle of a VT switch, the terminal is as it was found, unless a refused
\* connection had descriptor 0 closed (server.c:299): then it stays as vt_init left
\* it.  The socket of a server that came up is unlinked in any case.
TerminalRestored ==
  pc = "exited" /\ exit_registered /\ ~killed
    => (tty_open => term = {}) /\ (g_initialized => ~socket_file)

\* As long as no switch met another one, the VT is handed over on request only
\* when nothing draws any more and the card can be had by the next session.
HandsOverQuietly ==
  [][vt = "leaving" /\ vt' = "away" /\ ~crossed => ~g_is_active /\ ~master]_vars

\* A user who asks for another VT gets it, whatever the server is doing, starting
\* and stopping included; except from a server whose descriptor 0 was closed
\* (server.c:299), which cannot answer any more, and from a process that ended
\* before exit_func was registered, whose VT the kernel takes at the next request.
VtIsGivenUp ==
  vt = "leaving"
    ~> vt # "leaving" \/ ~tty_open \/ (pc = "exited" /\ (killed \/ ~exit_registered))

\* SIGTERM and its like are obeyed at any moment after sig_setup, except by a
\* server that was about to wait or waits: it ends with the next event.
StopIsObeyed == ~g_running /\ pc # "wait" ~> pc = "exited"

\* fb.c:228: "drm master, which is dropped when vt is switched".  With both
\* handlers done and the server back in its loop, a VT that was given up leaves
\* the card to others.  A SIGUSR2 that interrupts the SIGUSR1 handler drops the
\* master before the interrupted handler takes it.
DroppedWhenSwitched ==
  pc \in {"loop", "wait", "update"} /\ switches > 0 /\ vt = "away" /\ frames = <<>> /\ pending = {}
    => ~master
=============================================================================
