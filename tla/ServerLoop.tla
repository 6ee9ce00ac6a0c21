----------------------------- MODULE ServerLoop -----------------------------
(***************************************************************************)
(* The life of a client connection inside the gtscreen server:             *)
(* platform/linux/server.c on top of platform/fdpoll-handler.c and         *)
(* screen.c.                                                               *)
(*                                                                         *)
(* The server is one thread.  A round of spr16_server_update is            *)
(*    epoll_wait -> callbacks of the batch -> queued handler removals      *)
(*    -> drain of sync_clients -> drain of free_list,                      *)
(* and what interleaves with it are the peers (client processes), who      *)
(* connect, write and close between any two of these steps.                *)
(*                                                                         *)
(* What a message carries is abstracted: inbox[c] counts the whole         *)
(* messages waiting in the socket, and what each of them was is chosen     *)
(* when it is dispatched, which loses nothing because a peer may have      *)
(* written any of them.                                                    *)
(***************************************************************************)
EXTENDS Integers, Sequences, FiniteSets, SequencesExt

CONSTANTS
  Conns,        \* connections (client processes); each may come back
  Free,         \* a descriptor number that is not open
  Own,          \* a file of the server itself, as the terminal at descriptor 0
  MaxFd,        \* RLIMIT_NOFILE: the largest descriptor a client can get
  MaxInbox,     \* messages a peer may leave unread in its socket
  MaxBacklog,   \* MAX_ACCEPT, connections waiting in listen()
  MaxSync,      \* SPR16_MAXCLIENTS, the slots of sync_clients
  Others        \* handlers besides the listener: DRM card, input devices

ASSUME ConstantsAssumption ==
  /\ Free \notin Conns /\ Own \notin Conns /\ Free # Own
  /\ IsFiniteSet(Conns)
  /\ MaxFd \in Nat /\ MaxInbox \in Nat \ {0} /\ MaxBacklog \in Nat \ {0}
  /\ MaxSync \in Nat \ {0} /\ Others \in Nat

VARIABLES
  open,            \* peers that hold their end of the socket
  backlog,         \* connections not accepted yet, oldest first
  inbox,           \* messages written by the peer and not read
  full,            \* the peer the server found without room for a message to it
  files,           \* the descriptor table of the server
  nodes,           \* fdpoll list: descriptor -> client of its user_data
  count,           \* fdpoll_handler.count
  drift,           \* history: removals that were counted but removed nothing
  pc,              \* where spr16_server_update is
  batch,           \* descriptors whose event is still to be handled
  hup,             \* those of the batch whose event carries EPOLLHUP
  removals,        \* descriptors queued in fdpoll_handler_poll's remove[]
  serving,         \* descriptor whose messages are being dispatched
  unread,          \* messages left in g_msgbuf
  stage,           \* connected and handshaking of struct client
  recv_fd_wait,    \* clients with recv_fd_wait set
  socket,          \* the socket field of struct client
  cb_data,         \* clients whose cl_cb_data is allocated
  pending_clients, \* the pending list
  screens,         \* main_screen and its successors: one client each
  sync_clients,    \* clients with syncing set: the used slots
  free_list,       \* clients to be closed and freed after the batch
  dangling         \* pending_clients points to a client that was freed

kernel  == <<open, backlog, inbox, full, files>>
fdpoll  == <<nodes, count, drift>>
loop    == <<pc, batch, hup, removals, serving, unread>>
clients == <<stage, recv_fd_wait, socket, cb_data>>
lists   == <<pending_clients, screens, sync_clients, free_list, dangling>>
vars    == <<kernel, fdpoll, loop, clients, lists>>

Fds      == 0..MaxFd
ListenFd == MaxFd + 1
KbdFd    == MaxFd + 2
Stages   == {"none", "new", "handshaking", "connected"}
Messages == {"servinfo", "register", "send_fd", "established", "sync", "bad"}
Phases   == {"wait", "dispatch", "messages", "servinfo", "remove", "sync", "free", "crashed"}

Shown == ToSet(screens)
Live  == Shown \cup pending_clients

TypeOK ==
  /\ open \subseteq Conns
  /\ backlog \in Seq(Conns)
  /\ inbox \in [Conns -> 0..MaxInbox] /\ full \subseteq Conns
  /\ files \in [Fds -> Conns \cup {Free, Own}]
  /\ DOMAIN nodes \subseteq Fds /\ nodes \in [DOMAIN nodes -> Conns]
  /\ count \in Nat /\ drift \in Nat
  /\ pc \in Phases
  /\ batch \subseteq Fds \cup {ListenFd, KbdFd} /\ hup \subseteq Fds
  /\ removals \subseteq Fds
  /\ serving \in Fds /\ unread \in 0..MaxInbox
  /\ stage \in [Conns -> Stages] /\ recv_fd_wait \subseteq Conns
  /\ socket \in [Conns -> Fds] /\ cb_data \subseteq Conns
  /\ pending_clients \subseteq Conns /\ screens \in Seq(Conns \cup {Free})
  /\ sync_clients \subseteq Conns /\ free_list \subseteq Conns
  /\ dangling \in BOOLEAN

\* The server has opened its own files, the first of them the terminal, before
\* the first client comes.
Init ==
  /\ open = {} /\ backlog = <<>> /\ inbox = [c \in Conns |-> 0] /\ full = {}
  /\ \E last \in Fds : files = [f \in Fds |-> IF f <= last THEN Own ELSE Free]
  /\ nodes = <<>> /\ count = 1 + Others /\ drift = 0
  /\ pc = "wait" /\ batch = {} /\ hup = {} /\ removals = {}
  /\ serving = 0 /\ unread = 0
  /\ stage = [c \in Conns |-> "none"] /\ recv_fd_wait = {}
  /\ socket = [c \in Conns |-> 0] /\ cb_data = {}
  /\ pending_clients = {} /\ screens = <<>>
  /\ sync_clients = {} /\ free_list = {} /\ dangling = FALSE

-----------------------------------------------------------------------------
(* The peers.                                                              *)

Attached(c) == \/ c \in ToSet(backlog)
               \/ \E f \in Fds : files[f] = c

\* A client process connects; its connection waits for accept4.
connect(c) ==
  /\ c \notin open /\ ~Attached(c) /\ stage[c] = "none"
  /\ Len(backlog) < MaxBacklog
  /\ open' = open \cup {c}
  /\ backlog' = Append(backlog, c)
  /\ inbox' = [inbox EXCEPT ![c] = 0]
  /\ UNCHANGED <<full, files, fdpoll, loop, clients, lists>>

\* spr16_write_msg of the client: header and data in one write.
client_write(c) ==
  /\ c \in open /\ Attached(c) /\ inbox[c] < MaxInbox
  /\ inbox' = [inbox EXCEPT ![c] = @ + 1]
  /\ UNCHANGED <<open, backlog, full, files, fdpoll, loop, clients, lists>>

\* spr16_read_msgs of the client makes room for further messages.
client_read(c) ==
  /\ c \in open \cap full
  /\ full' = full \ {c}
  /\ UNCHANGED <<open, backlog, inbox, files, fdpoll, loop, clients, lists>>

\* spr16_client_shutdown, or the end of the process.
client_close(c) ==
  /\ c \in open
  /\ open' = open \ {c}
  /\ UNCHANGED <<backlog, inbox, full, files, fdpoll, loop, clients, lists>>

-----------------------------------------------------------------------------
(* fdpoll-handler.c                                                        *)

\* epoll still watches f for the connection it was added for.
Watched(f) == f \in DOMAIN nodes /\ files[f] = nodes[f]

\* The events epoll reports, level-triggered.
Readable(f) == Watched(f) /\ (inbox[nodes[f]] > 0 \/ nodes[f] \notin open)
HungUp(f)   == Watched(f) /\ nodes[f] \notin open

\* fdpoll_handler_remove returns 0 ...
remove_succeeds(f) == count > 0 /\ Watched(f)

\* ... and what it does to the handler whether it returns 0 or not: count
\* goes down before the list is searched.
fdpoll_handler_remove(f) ==
  IF count = 0
  THEN UNCHANGED <<nodes, count, drift>>
  ELSE /\ count' = count - 1
       /\ nodes' = [g \in DOMAIN nodes \ {f} |-> nodes[g]]
       /\ drift' = IF f \in DOMAIN nodes THEN drift ELSE drift + 1

\* Mutant: one event per call, the choice being left to the kernel.
epoll_wait_one_event ==
  /\ pc = "wait"
  /\ \/ \E f \in DOMAIN nodes : Readable(f) /\ batch' = {f}
     \/ backlog # <<>> /\ batch' = {ListenFd}
  /\ hup' = {f \in DOMAIN nodes : HungUp(f)}
  /\ pc' = "dispatch"
  /\ UNCHANGED <<kernel, fdpoll, removals, serving, unread, clients, lists>>

\* epoll_wait returns: everything that is ready, and perhaps a key press.
epoll_wait ==
  /\ pc = "wait"
  /\ \E key \in SUBSET {KbdFd} :
       /\ batch' = {f \in DOMAIN nodes : Readable(f)} \cup key
                     \cup (IF backlog = <<>> THEN {} ELSE {ListenFd})
       /\ batch' # {}
  /\ hup' = {f \in DOMAIN nodes : HungUp(f)}
  /\ pc' = "dispatch"
  /\ UNCHANGED <<kernel, fdpoll, removals, serving, unread, clients, lists>>

\* The loop of fdpoll_handler_poll that follows the callbacks.
begin_removals ==
  /\ pc = "dispatch" /\ batch = {}
  /\ pc' = "remove" /\ hup' = {}
  /\ UNCHANGED <<kernel, fdpoll, batch, removals, serving, unread, clients, lists>>

queued_removal(f) ==
  /\ pc = "remove" /\ f \in removals
  /\ fdpoll_handler_remove(f)
  /\ removals' = removals \ {f}
  /\ UNCHANGED <<kernel, pc, batch, hup, serving, unread, clients, lists>>

\* Mutant: free_list is drained before sync_clients.
end_poll_then_free ==
  /\ pc = "remove" /\ removals = {}
  /\ pc' = "free"
  /\ UNCHANGED <<kernel, fdpoll, batch, hup, removals, serving, unread, clients, lists>>

end_poll ==
  /\ pc = "remove" /\ removals = {}
  /\ pc' = "sync"
  /\ UNCHANGED <<kernel, fdpoll, batch, hup, removals, serving, unread, clients, lists>>

-----------------------------------------------------------------------------
(* server.c: accepting a client.                                           *)

\* server_getclient: a client on a screen or pending has this socket.
on_screen(f)        == \E c \in Shown \ {Free} : socket[c] = f
server_getclient(f) == on_screen(f) \/ \E c \in pending_clients : socket[c] = f

\* Whoever looks for f on pending_clients, after the screens, meets the freed
\* client first: no other is linked in front of it.
reads_freed(f) == dangling /\ ~on_screen(f)

LowestFree(f) == files[f] = Free /\ \A g \in 0..(f - 1) : files[g] # Free

Callback(f) == pc = "dispatch" /\ f \in batch
Handled(f)  == batch' = batch \ {f}

\* accept4 fails, for want of a descriptor (EMFILE) or of memory in the
\* kernel; the connection stays in the backlog.
accept_fails ==
  /\ Callback(ListenFd)
  /\ Handled(ListenFd)
  /\ UNCHANGED <<kernel, fdpoll, pc, hup, removals, serving, unread, clients, lists>>

\* server_addclient up to fdpoll_handler_add.
server_addclient(f, c) ==
  /\ files' = [files EXCEPT ![f] = c]
  /\ stage' = [stage EXCEPT ![c] = "new"]
  /\ socket' = [socket EXCEPT ![c] = f]
  /\ pending_clients' = pending_clients \cup {c}
  /\ cb_data' = cb_data \cup {c}
  /\ nodes' = [g \in DOMAIN nodes \cup {f} |-> IF g = f THEN c ELSE nodes[g]]
  /\ count' = count + 1

listener_callback ==
  /\ Callback(ListenFd)
  /\ \E f \in Fds :
       /\ LowestFree(f)
       /\ ~reads_freed(f) /\ ~server_getclient(f) /\ f \notin DOMAIN nodes
       /\ Head(backlog) \in open     \* SERVINFO can be written: the socket is new
       /\ server_addclient(f, Head(backlog))
  /\ backlog' = Tail(backlog)
  /\ Handled(ListenFd)
  /\ UNCHANGED <<open, inbox, full, drift, pc, hup, removals, serving, unread,
                 recv_fd_wait, screens, sync_clients, free_list, dangling>>

\* server_addclient fails before cl is linked: a client with this socket
\* exists, or SERVINFO cannot be written because the peer is gone.  In the
\* latter case cl->socket is still 0 when the error path closes it.
listener_rejects ==
  /\ Callback(ListenFd)
  /\ \E f \in Fds :
       /\ LowestFree(f) /\ ~reads_freed(f)
       /\ \/ server_getclient(f) /\ UNCHANGED files
          \/ /\ ~server_getclient(f) /\ Head(backlog) \notin open
             /\ files' = [files EXCEPT ![0] = Free]
  /\ inbox' = [inbox EXCEPT ![Head(backlog)] = 0]
  /\ backlog' = Tail(backlog)
  /\ Handled(ListenFd)
  /\ UNCHANGED <<open, full, fdpoll, pc, hup, removals, serving, unread, clients, lists>>

\* server_addclient fails after cl was linked: cb_data_add or
\* fdpoll_handler_add has no memory, the kernel takes no more watches, there
\* are too many handlers, or a node for f is still in the list.  The socket
\* is closed and cl freed, while pending_clients still points to it.
listener_leaves_dangling ==
  /\ Callback(ListenFd)
  /\ \E f \in Fds : LowestFree(f) /\ ~reads_freed(f) /\ ~server_getclient(f)
  /\ Head(backlog) \in open
  /\ dangling' = TRUE
  /\ inbox' = [inbox EXCEPT ![Head(backlog)] = 0]
  /\ backlog' = Tail(backlog)
  /\ Handled(ListenFd)
  /\ UNCHANGED <<open, full, files, fdpoll, pc, hup, removals, serving, unread, clients,
                 pending_clients, screens, sync_clients, free_list>>

-----------------------------------------------------------------------------
(* server.c: losing a client.                                              *)

\* server_sync_fullscreen: the focused client gets a slot of sync_clients,
\* if it has none and one is left.
server_sync_fullscreen(scrns) ==
  IF scrns = <<>> \/ Cardinality(sync_clients) >= MaxSync THEN sync_clients
  ELSE sync_clients \cup ({Head(scrns)} \ {Free})

\* server_remove_client for the client c of descriptor f; `failed` is
\* whether it returns -1.  The handler is removed here, inside the callback.
remove_shown(f, c, failed) ==
  /\ \E i \in DOMAIN screens :
       /\ screens[i] = c
       /\ fdpoll_handler_remove(f)
       /\ failed = ~remove_succeeds(f)
       /\ IF failed
          THEN /\ screens' = ReplaceAt(screens, i, Free)
               /\ UNCHANGED <<free_list, sync_clients>>
          ELSE /\ screens' = RemoveAt(screens, i)
               /\ free_list' = free_list \cup {c}
               /\ sync_clients' = server_sync_fullscreen(screens')
  /\ UNCHANGED <<pending_clients, dangling>>

\* Mutant: the handler of a pending client is not removed with it.
remove_pending_keeps_handler(f, c, failed) ==
  /\ c \in pending_clients /\ c \notin Shown /\ ~reads_freed(f)
  /\ failed = FALSE
  /\ free_list' = free_list \cup {c}
  /\ pending_clients' = pending_clients \ {c}
  /\ UNCHANGED <<nodes, count, drift, screens, sync_clients, dangling>>

\* Mutant: server_remove_pending does not unlink the client.
remove_pending_keeps_link(f, c, failed) ==
  /\ c \in pending_clients /\ c \notin Shown /\ ~reads_freed(f)
  /\ fdpoll_handler_remove(f)
  /\ failed = FALSE
  /\ free_list' = IF remove_succeeds(f) THEN free_list \cup {c} ELSE free_list
  /\ UNCHANGED <<pending_clients, screens, sync_clients, dangling>>

remove_pending(f, c, failed) ==
  /\ c \in pending_clients /\ c \notin Shown /\ ~reads_freed(f)
  /\ fdpoll_handler_remove(f)
  /\ failed = FALSE             \* the result of server_free_client is unused
  /\ free_list' = IF remove_succeeds(f) THEN free_list \cup {c} ELSE free_list
  /\ pending_clients' = pending_clients \ {c}
  /\ UNCHANGED <<screens, sync_clients, dangling>>

remove_unknown(f, c, failed) ==
  /\ c \notin Live /\ ~reads_freed(f)
  /\ failed = TRUE
  /\ UNCHANGED <<nodes, count, drift, lists>>

\* Mutant: server_cb_data_remove unlinks the head of its list, whoever it is.
drop_client_frees_head(f) ==
  LET c == nodes[f] IN
  /\ \E failed \in BOOLEAN :
       /\ \/ remove_shown(f, c, failed)
          \/ remove_pending(f, c, failed)
          \/ remove_unknown(f, c, failed)
       /\ removals' = IF failed \/ f \in hup THEN removals \cup {f} ELSE removals
  /\ \E d \in cb_data : cb_data' = cb_data \ {d}

\* Every failing path of client_callback: remove the client, free its
\* cb_data, and have the handler queued for removal when the callback
\* returned FDPOLL_HANDLER_REMOVE or the event says so by itself.  The
\* descriptor that is queued, data->fd, is read from a node the callback may
\* have freed.  Nothing is allocated in between, so it still reads f; any
\* other number that is no watched descriptor would change the same things
\* when it is removed: the count.
drop_client(f) ==
  LET c == nodes[f] IN
  /\ \E failed \in BOOLEAN :
       /\ \/ remove_shown(f, c, failed)
          \/ remove_pending(f, c, failed)
          \/ remove_unknown(f, c, failed)
       /\ removals' = IF failed \/ f \in hup THEN removals \cup {f} ELSE removals
  /\ cb_data' = cb_data \ {c}

\* A write to c does not fail, but with EAGAIN if there is no room for it.
CanWrite(c) == c \in open /\ files[socket[c]] = c

\* The event's user_data must still be allocated to be used at all.
HasData(f) == f \in DOMAIN nodes /\ nodes[f] \in cb_data

\* Mutant: the callback closes the socket itself.
client_callback_hup_closes(f) ==
  /\ Callback(f) /\ f \in hup /\ HasData(f)
  /\ drop_client(f)
  /\ Handled(f)
  /\ files' = [files EXCEPT ![f] = Free]
  /\ UNCHANGED <<open, backlog, inbox, full, pc, hup, serving, unread, stage,
                 recv_fd_wait, socket>>

\* EPOLLHUP or EPOLLERR: the client is removed without reading its socket.
client_callback_hup(f) ==
  /\ Callback(f) /\ f \in hup /\ HasData(f)
  /\ drop_client(f)
  /\ Handled(f)
  /\ UNCHANGED <<kernel, pc, hup, serving, unread, stage, recv_fd_wait, socket>>

\* spr16_read_msgs takes what is in the socket ...
client_callback_read(f) ==
  /\ Callback(f) /\ f \notin hup /\ HasData(f) /\ Watched(f)
  /\ unread' = inbox[nodes[f]]
  /\ inbox' = [inbox EXCEPT ![nodes[f]] = 0]
  /\ serving' = f /\ pc' = "messages"
  /\ Handled(f)
  /\ UNCHANGED <<open, backlog, full, files, fdpoll, hup, removals, clients, lists>>

\* ... or fails, when the socket was closed under the client.
client_callback_read_fails(f) ==
  /\ Callback(f) /\ f \notin hup /\ HasData(f) /\ ~Watched(f)
  /\ drop_client(f)
  /\ Handled(f)
  /\ UNCHANGED <<kernel, pc, hup, serving, unread, stage, recv_fd_wait, socket>>

\* A handler whose cb_data is gone reads freed memory.
client_callback_stale(f) ==
  /\ Callback(f) /\ f \in Fds /\ ~HasData(f)
  /\ pc' = "crashed"
  /\ UNCHANGED <<kernel, fdpoll, batch, hup, removals, serving, unread, clients, lists>>

\* An accept, a registration, the end of a handshake or the loss of a client
\* walks over the freed client on pending_clients.
walk_meets_freed ==
  /\ \/ Callback(ListenFd) /\ \E f \in Fds : LowestFree(f) /\ reads_freed(f)
     \/ \E f \in Fds : /\ Callback(f) /\ HasData(f) /\ reads_freed(f)
                      /\ (f \in hup \/ ~Watched(f))
     \/ pc = "messages" /\ unread > 0 /\ reads_freed(serving)
     \/ pc = "servinfo" /\ ~CanWrite(nodes[serving]) /\ reads_freed(serving)
  /\ pc' = "crashed"
  /\ UNCHANGED <<kernel, fdpoll, batch, hup, removals, serving, unread, clients, lists>>

\* Mutant: main_screen_switch forgets the redraw.
hotkey_callback_no_sync ==
  /\ Callback(KbdFd)
  /\ \/ UNCHANGED screens
     \/ /\ Len(screens) > 1
        /\ screens' = Append(Tail(screens), Head(screens))
  /\ Handled(KbdFd)
  /\ UNCHANGED <<kernel, fdpoll, pc, hup, removals, serving, unread, clients,
                 pending_clients, sync_clients, free_list, dangling>>

\* Hotkeys: NEXTSCREEN and PREVSCREEN both call main_screen_switch(-1).
hotkey_callback ==
  /\ Callback(KbdFd)
  /\ \/ UNCHANGED <<screens, sync_clients>>
     \/ /\ Len(screens) > 1
        /\ screens' = Append(Tail(screens), Head(screens))
        /\ sync_clients' = server_sync_fullscreen(screens')
  /\ Handled(KbdFd)
  /\ UNCHANGED <<kernel, fdpoll, pc, hup, removals, serving, unread, clients,
                 pending_clients, free_list, dangling>>

-----------------------------------------------------------------------------
(* server.c: spr16_dispatch_server_msgs, one message at a time.            *)

Client == nodes[serving]

\* The handler of message m returns 0.
accepts(m, c) ==
  CASE m = "servinfo"    -> CanWrite(c)
    [] m = "register"    -> stage[c] = "new" /\ CanWrite(c)
    [] m = "send_fd"     -> c \in recv_fd_wait /\ CanWrite(c)
    [] m = "established" -> stage[c] = "handshaking" /\ c \in pending_clients
    [] m = "sync"        -> /\ stage[c] # "new"
                            /\ c \in sync_clients \/ Cardinality(sync_clients) < MaxSync
    [] OTHER             -> FALSE

Dispatch(m) == pc = "messages" /\ unread > 0 /\ accepts(m, Client)

\* On to the next message of the buffer; the callback returns after the last.
next_message ==
  /\ unread' = unread - 1
  /\ IF unread = 1 THEN pc' = "dispatch" /\ serving' = 0
                   ELSE pc' = "messages" /\ UNCHANGED serving
  /\ UNCHANGED <<kernel, fdpoll, batch, hup, removals, socket, cb_data>>

\* spr16_server_servinfo writes its answer ...
dispatch_servinfo ==
  /\ \/ Dispatch("servinfo")
     \/ pc = "servinfo" /\ CanWrite(Client)
  /\ Client \notin full
  /\ next_message
  /\ UNCHANGED <<stage, recv_fd_wait, lists>>

\* ... and tries again and again while there is no room for it (EAGAIN), until
\* the peer reads or goes away.  Nothing else is done meanwhile.  What the
\* server has sent to a peer is not counted: its socket may be full whenever
\* the server writes.
servinfo_again ==
  /\ Dispatch("servinfo")
  /\ full' = {Client}
  /\ pc' = "servinfo"
  /\ UNCHANGED <<open, backlog, inbox, files, fdpoll, batch, hup, removals, serving,
                 unread, clients, lists>>

spr16_server_register_sprite ==
  /\ Dispatch("register") /\ ~reads_freed(serving)
  /\ stage' = [stage EXCEPT ![Client] = "handshaking"]
  /\ recv_fd_wait' = recv_fd_wait \cup {Client}
  /\ next_message
  /\ UNCHANGED lists

handle_ack_send_fd ==
  /\ Dispatch("send_fd")
  /\ recv_fd_wait' = recv_fd_wait \ {Client}
  /\ next_message
  /\ UNCHANGED <<stage, lists>>

\* Mutant: client_handshake leaves the client on the pending list.
handle_ack_established_keeps_link ==
  /\ Dispatch("established")
  /\ stage' = [stage EXCEPT ![Client] = "connected"]
  /\ screens' = Append(screens, Client)
  /\ next_message
  /\ UNCHANGED <<recv_fd_wait, pending_clients, sync_clients, free_list, dangling>>

\* client_handshake and server_connect_client: a new screen, last in line.
handle_ack_established ==
  /\ Dispatch("established") /\ ~reads_freed(serving)
  /\ stage' = [stage EXCEPT ![Client] = "connected"]
  /\ pending_clients' = pending_clients \ {Client}
  /\ screens' = Append(screens, Client)
  /\ next_message
  /\ UNCHANGED <<recv_fd_wait, sync_clients, free_list, dangling>>

spr16_server_sync ==
  /\ Dispatch("sync")
  /\ sync_clients' = sync_clients \cup {Client}
  /\ next_message
  /\ UNCHANGED <<stage, recv_fd_wait, pending_clients, screens, free_list, dangling>>

\* Any handler that returns -1, a NACK, a malformed or unknown message: the
\* rest of the buffer is dropped with the client.
dispatch_fails ==
  /\ \/ pc = "messages" /\ unread > 0 /\ \E m \in Messages : ~accepts(m, Client)
     \/ pc = "servinfo" /\ ~CanWrite(Client)
  /\ drop_client(serving)
  /\ unread' = 0 /\ pc' = "dispatch" /\ serving' = 0 /\ full' = {}
  /\ UNCHANGED <<open, backlog, inbox, files, batch, hup, stage, recv_fd_wait, socket>>

-----------------------------------------------------------------------------
(* The rest of spr16_server_update.                                        *)

\* fb_sync_client for every used slot; each slot is emptied.
sync_loop ==
  /\ pc = "sync"
  /\ sync_clients' = {}
  /\ pc' = "free"
  /\ UNCHANGED <<kernel, fdpoll, batch, hup, removals, serving, unread, clients,
                 pending_clients, screens, free_list, dangling>>

\* Mutant: server_free_list does not close the sockets.
server_free_list_keeps_files ==
  /\ pc = "free"
  /\ stage' = [c \in Conns |-> IF c \in free_list THEN "none" ELSE stage[c]]
  /\ socket' = [c \in Conns |-> IF c \in free_list THEN 0 ELSE socket[c]]
  /\ inbox' = [c \in Conns |-> IF c \in free_list THEN 0 ELSE inbox[c]]
  /\ recv_fd_wait' = recv_fd_wait \ free_list
  /\ free_list' = {}
  /\ pc' = "wait"
  /\ UNCHANGED <<open, backlog, full, files, fdpoll, batch, hup, removals, serving, unread,
                 cb_data, pending_clients, screens, sync_clients, dangling>>

\* server_free_list: only now are the sockets closed and the clients freed.
server_free_list ==
  /\ pc = "free"
  /\ files' = [f \in Fds |-> IF \E c \in free_list : files[f] = c /\ socket[c] = f
                             THEN Free ELSE files[f]]
  /\ stage' = [c \in Conns |-> IF c \in free_list THEN "none" ELSE stage[c]]
  /\ socket' = [c \in Conns |-> IF c \in free_list THEN 0 ELSE socket[c]]
  /\ inbox' = [c \in Conns |-> IF c \in free_list THEN 0 ELSE inbox[c]]
  /\ recv_fd_wait' = recv_fd_wait \ free_list
  /\ free_list' = {}
  /\ pc' = "wait"
  /\ UNCHANGED <<open, backlog, full, fdpoll, batch, hup, removals, serving, unread,
                 cb_data, pending_clients, screens, sync_clients, dangling>>

\* After the use of freed memory nothing is known; the model stops.
crashed == pc = "crashed" /\ UNCHANGED vars

Peers ==
  \E c \in Conns : connect(c) \/ client_write(c) \/ client_read(c) \/ client_close(c)

Poll ==
  \/ epoll_wait \/ begin_removals \/ end_poll
  \/ \E f \in Fds : queued_removal(f)

Listener ==
  \/ accept_fails \/ listener_callback \/ listener_rejects \/ listener_leaves_dangling

ClientCallback ==
  \E f \in Fds : \/ client_callback_hup(f) \/ client_callback_read(f)
                 \/ client_callback_read_fails(f) \/ client_callback_stale(f)

Messaging ==
  \/ dispatch_servinfo \/ servinfo_again \/ spr16_server_register_sprite
  \/ handle_ack_send_fd \/ handle_ack_established \/ spr16_server_sync
  \/ dispatch_fails

Server == Poll \/ Listener \/ ClientCallback \/ walk_meets_freed \/ hotkey_callback
            \/ Messaging \/ sync_loop \/ server_free_list

Next == Peers \/ Server \/ crashed

Spec == Init /\ [][Next]_vars

\* The server thread is scheduled as long as it can run; a peer may stop at any
\* time, also one the server waits for in servinfo_again.  With a descriptor
\* left the kernel does not fail every accept4 for ever.
FairSpec ==
  /\ Spec /\ WF_vars(Server)
  /\ SF_vars(listener_callback \/ listener_rejects)
-----------------------------------------------------------------------------
(* Properties.                                                             *)

\* The server keeps its promises while the handlers that were counted down
\* twice are fewer than the handlers that are always there, descriptor 0 is
\* still the terminal, and no freed client is on pending_clients.  None of
\* these can be regained once lost.
Healthy == drift <= Others /\ files[0] = Own /\ ~dangling

\* It writes to a peer that does not read.
Stuck == pc = "servinfo"

Allocated == {c \in Conns : stage[c] # "none"}

OwnedOnce ==
  /\ Allocated = Live \cup free_list
  /\ free_list \cap Live = {} /\ pending_clients \cap Shown = {}
  /\ \A i, j \in DOMAIN screens : screens[i] = screens[j] => i = j
  /\ \A c \in pending_clients : stage[c] \in {"new", "handshaking"}
  /\ \A c \in Shown : stage[c] = "connected"

HandlersOfLive ==
  /\ {nodes[f] : f \in DOMAIN nodes} = Live
  /\ \A f \in DOMAIN nodes :
       socket[nodes[f]] = f /\ files[f] = nodes[f] /\ nodes[f] \in cb_data

\* Every allocated client is in exactly one of pending_clients, the screens
\* and free_list, in the list its handshake stage says, and nobody else is:
\* no path of accept, handshake or removal loses a client or keeps it twice
\* (server.c:114-206).
OneOwner == Healthy => OwnedOnce

\* The event handlers are those of the live clients, each on the client's own
\* open socket and with its cb_data allocated: an event is never delivered to
\* another client than the one that caused it (server.c:228-302, 1017-1065).
HandlersAgree == Healthy => HandlersOfLive

\* A descriptor queued for removal no longer has a handler, in particular not
\* the handler of a client accepted in the same batch on a reused number: the
\* second removal of fdpoll-handler.c:228-235 hits nobody, because sockets
\* stay open until the batch is over (server.c:722-750).
QueuedRemovalsHitNobody == Healthy => removals \cap DOMAIN nodes = {}

\* No callback of a batch frees what a later event of the same batch points
\* to (fdpoll-handler.c:205-226).
BatchIsFresh == Healthy => \A f \in batch \cap Fds : HasData(f)

\* How far fdpoll_handler.count is off: exactly by the removals that were
\* counted and found nothing, whatever else happened
\* (fdpoll-handler.c:152-187).
CountDrift == count + drift = 1 + Others + Cardinality(DOMAIN nodes)

\* sync_clients never holds a client that was freed, also when a client that
\* asked for a sync is dropped in the same round: the slots are drained before
\* free_list is (server.c:761-778).
SyncClientsAllocated ==
  /\ sync_clients \subseteq Allocated
  /\ pc \in {"wait", "free"} => sync_clients = {}

\* Whenever the focused screen changes to another one, its client is put in
\* line for a full redraw in the same step, unless every slot is taken: the
\* redraw is then lost, as server_sync_fullscreen ignores it (server.c:160,
\* 664-679, 807-827, 889).
FocusIsRedrawn ==
  [][(screens # <<>> /\ screens' # <<>> /\ Healthy')
       => \/ Head(screens') = Head(screens)
          \/ Head(screens') \in sync_clients'
          \/ Cardinality(sync_clients) = MaxSync]_vars

\* The socket of a peer that hung up is closed in the end, unless another peer
\* keeps the server in the loop of spr16_server_servinfo for ever by asking
\* and never reading (server.c:1036, 722-750, 219-224).
HangupReleasesSocket ==
  \/ <>[]Stuck
  \/ \A c \in Conns :
       (c \notin open /\ \E f \in Fds : files[f] = c)
         ~> (~Healthy \/ c \in open \/ \A f \in Fds : files[f] # c)

\* A connection does not wait for ever to be accepted, unless a peer keeps the
\* server stuck or the clients that stay leave it no descriptor
\* (server.c:912-948).
BacklogIsServed ==
  \/ <>[]Stuck
  \/ <>[](\A f \in Fds : ~LowestFree(f))
  \/ \A c \in Conns : (c \in ToSet(backlog)) ~> (~Healthy \/ c \notin ToSet(backlog))

\* The detailed server implements ClientLife.
life == [c \in Conns |->
          CASE c \in free_list       -> "retired"
            [] c \in Shown           -> "shown"
            [] c \in pending_clients -> "pending"
            [] OTHER                 -> "absent"]

Life == INSTANCE ClientLife WITH broken <- ~Healthy, stuck <- Stuck
LifeSpec == Life!Spec

\* What comments of the code say and the code does not do.

\* fdpoll-handler.c:18-19: callbacks read after FDPOLLHUP, so that data in
\* flight is received.
InFlightDataIsRead ==
  [][\A c \in Live : c \notin Live' => inbox[c] = 0]_vars

\* fdpoll-handler.c:227: a handler goes after all events that may reference it.
NoStaleHandler == pc # "crashed"
=============================================================================
