----------------------------- MODULE Handshake -----------------------------
(***************************************************************************)
(* From connect(2) to a shown sprite, for one client and the server:       *)
(* spr16_client_handshake_wait and what it calls (client.c), what          *)
(* client_callback dispatches (server.c), and the passing of the           *)
(* descriptor of the shared memory (messages.c).                           *)
(*                                                                         *)
(* Messages are framed as MsgStream shows.  "F" is the byte that carries   *)
(* the descriptor: recvmsg takes it alone, a plain read loses it.  The     *)
(* socket buffers have room for the messages of a handshake.  Either side  *)
(* may go away at any time.                                                *)
(***************************************************************************)
EXTENDS Naturals, Sequences

CONSTANTS MaxSyncs, MaxInputs  \* bounds on what is in flight after the handshake

ASSUME HandshakeAssumption == {MaxSyncs, MaxInputs} \subseteq Nat

VARIABLES
  \* the client
  cpc,            \* "update", recv_fd's loops "clear" and "receive", "failed", "closed"
  batch,          \* messages read and not dispatched yet
  size,           \* of its sprite, compared to the screen; "none" before servinfo
  g_handshaking,
  mapped,         \* it has mapped the memory of its sprite
  \* the server
  spc,            \* the connection: "backlog", "open", "removed" or "closed"
  received,       \* messages read and not dispatched yet
  handshaking, connected, recv_fd_wait,  \* of its struct client
  memory,         \* sprite.shmem.fd is valid
  \* the socket
  to_client, to_server

client == <<cpc, batch, size, g_handshaking, mapped>>
server == <<spc, received, handshaking, connected, recv_fd_wait, memory>>
vars   == <<client, server, to_client, to_server>>

ToClient == {"servinfo", "recv_fd", "F", "input", "nack", "disconnect"}
ToServer == {"register", "send_fd", "established", "sync", "nack"}

TypeOK ==
  /\ cpc \in {"update", "clear", "receive", "failed", "closed"}
  /\ batch \in Seq(ToClient) /\ size \in {"none", "zero", "fits"}
  /\ spc \in {"backlog", "open", "removed", "closed"}
  /\ received \in Seq(ToServer)
  /\ {g_handshaking, mapped, handshaking, connected, recv_fd_wait, memory} \subseteq BOOLEAN
  /\ to_client \in Seq(ToClient) /\ to_server \in Seq(ToServer)

\* After spr16_client_init and spr16_client_connect.
Init ==
  /\ cpc = "update" /\ batch = <<>> /\ size = "none"
  /\ g_handshaking = TRUE /\ mapped = FALSE
  /\ spc = "backlog" /\ received = <<>>
  /\ handshaking = FALSE /\ connected = FALSE /\ recv_fd_wait = FALSE /\ memory = FALSE
  /\ to_client = <<>> /\ to_server = <<>>

-----------------------------------------------------------------------------
(* The client.                                                             *)

\* The program ends, or it reports the failure first and then ends.
close == cpc' = "closed" /\ batch' = <<>>

send_nack == cpc' = "failed" /\ batch' = <<>> /\ to_server' = Append(to_server, "nack")

\* spr16_client_update: a read returns all that is there, or the end of file.
spr16_client_update ==
  /\ cpc = "update" /\ batch = <<>>
  /\ \/ /\ to_client # <<>>
        /\ batch' = to_client /\ to_client' = <<>> /\ UNCHANGED cpc
     \/ /\ to_client = <<>> /\ spc = "closed"
        /\ close /\ UNCHANGED to_client
  /\ UNCHANGED <<size, g_handshaking, mapped, server, to_server>>

\* The servinfo handler of the program starts the handshake.  A sprite larger
\* than the screen is refused by spr16_client_handshake_start.
spr16_client_servinfo ==
  IF size # "none" THEN close /\ UNCHANGED <<size, to_server>>
  ELSE \/ close /\ UNCHANGED <<size, to_server>>
       \/ /\ size' \in {"zero", "fits"}
          /\ to_server' = Append(to_server, "register")
          /\ batch' = Tail(batch) /\ UNCHANGED cpc

\* spr16_dispatch_client_msgs, for the next message of the batch.
spr16_dispatch_client_msgs ==
  /\ cpc = "update" /\ batch # <<>>
  /\ LET m == Head(batch) IN
       \/ m = "servinfo" /\ spr16_client_servinfo
       \/ /\ m = "recv_fd"
          /\ cpc' = "clear" /\ batch' = Tail(batch) /\ UNCHANGED <<size, to_server>>
       \/ /\ m \in {"input", "nack"}
          /\ batch' = Tail(batch) /\ UNCHANGED <<cpc, size, to_server>>
       \/ /\ m \notin {"servinfo", "recv_fd", "input", "nack"}
          /\ close /\ UNCHANGED <<size, to_server>>
  /\ UNCHANGED <<g_handshaking, mapped, server, to_client>>

\* Mutant: the wrong ack.
recv_fd_clear_wrong_ack ==
  /\ cpc = "clear" /\ to_client = <<>> /\ spc # "closed"
  /\ to_server' = Append(to_server, "recv_fd")
  /\ cpc' = "receive"
  /\ UNCHANGED <<batch, size, g_handshaking, mapped, server, to_client>>

\* Mutant: every failed read is tried again.
recv_fd_clear_spins ==
  /\ cpc = "clear"
  /\ IF to_client # <<>> \/ spc = "closed"
     THEN to_client' = <<>> /\ UNCHANGED <<cpc, batch, to_server>>
     ELSE /\ to_server' = Append(to_server, "send_fd")
          /\ cpc' = "receive" /\ UNCHANGED <<batch, to_client>>
  /\ UNCHANGED <<size, g_handshaking, mapped, server>>

\* recv_fd: whatever is pending is read and thrown away, then the server is
\* told to send the descriptor.
recv_fd_clear ==
  /\ cpc = "clear"
  /\ IF to_client # <<>>
     THEN to_client' = <<>> /\ UNCHANGED <<cpc, batch, to_server>>
     ELSE /\ IF spc = "closed" THEN close /\ UNCHANGED to_server
             ELSE /\ to_server' = Append(to_server, "send_fd")
                  /\ cpc' = "receive" /\ UNCHANGED batch
          /\ UNCHANGED to_client
  /\ UNCHANGED <<size, g_handshaking, mapped, server>>

\* Mutant: the server is not told.
recv_fd_silent ==
  /\ cpc = "receive" /\ to_client # <<>>
  /\ to_client' = Tail(to_client)
  /\ mapped' = TRUE /\ g_handshaking' = FALSE
  /\ cpc' = "update" /\ UNCHANGED <<batch, to_server>>
  /\ UNCHANGED <<size, server>>

\* recv_fd: afunix_recv_fd gets a byte.  spr16_open_shmem may fail.
recv_fd ==
  /\ cpc = "receive" /\ to_client # <<>>
  /\ to_client' = Tail(to_client)
  /\ \/ /\ Head(to_client) = "F" /\ spc # "closed"
        /\ mapped' = TRUE /\ g_handshaking' = FALSE
        /\ to_server' = Append(to_server, "established")
        /\ cpc' = "update" /\ UNCHANGED batch
     \/ /\ send_nack /\ UNCHANGED <<mapped, g_handshaking>>
  /\ UNCHANGED <<size, server>>

\* No descriptor within the 5000 tries, or the end of file.
recv_fd_fails ==
  /\ cpc = "receive" /\ to_client = <<>>
  /\ send_nack
  /\ UNCHANGED <<size, g_handshaking, mapped, server, to_client>>

\* spr16_client_handshake_wait gives up.
handshake_timeout ==
  /\ cpc = "update" /\ batch = <<>> /\ g_handshaking
  /\ close
  /\ UNCHANGED <<size, g_handshaking, mapped, server, to_client, to_server>>

\* It returns without an effect during the handshake.
spr16_client_sync ==
  /\ cpc = "update" /\ batch = <<>> /\ ~g_handshaking /\ Len(to_server) < MaxSyncs
  /\ to_server' = Append(to_server, "sync")
  /\ UNCHANGED <<client, server, to_client>>

client_exit ==
  /\ cpc # "closed" /\ close
  /\ UNCHANGED <<size, g_handshaking, mapped, server, to_client, to_server>>

-----------------------------------------------------------------------------
(* The server.                                                             *)

\* A write to a client that is gone fails; otherwise it is delivered.
write(m) == to_client' = IF cpc = "closed" THEN to_client ELSE Append(to_client, m)

server_addclient ==
  /\ spc = "backlog"
  /\ spc' = IF cpc = "closed" THEN "closed" ELSE "open"
  /\ write("servinfo")
  /\ UNCHANGED <<client, received, handshaking, connected, recv_fd_wait, memory, to_server>>

\* server_remove_client: a client with a screen is told.  Its socket is closed
\* at the end of the round.  The removal succeeds here; it fails, and is given up
\* (server.c:118, 149), in a server that lost count of its handlers: ServerLoop.
server_remove_client ==
  /\ spc' = "removed" /\ received' = <<>>
  /\ IF connected THEN write("disconnect") ELSE UNCHANGED to_client

client_callback ==
  /\ spc = "open" /\ received = <<>>
  /\ \/ /\ cpc = "closed"
        /\ server_remove_client /\ UNCHANGED to_server
     \/ /\ cpc # "closed" /\ to_server # <<>>
        /\ received' = to_server /\ to_server' = <<>>
        /\ UNCHANGED <<spc, to_client>>
  /\ UNCHANGED <<client, handshaking, connected, recv_fd_wait, memory>>

\* Mutant: the descriptor follows at once.
spr16_server_register_sprite_sends_fd ==
  /\ handshaking' = TRUE /\ recv_fd_wait' = FALSE /\ memory' = TRUE
  /\ to_client' = IF cpc = "closed" THEN to_client ELSE to_client \o <<"recv_fd", "F">>
  /\ received' = Tail(received) /\ UNCHANGED spc

\* A sprite without pixels is refused.  Creating the memory may fail; what is
\* left in struct client then is released with it.
spr16_server_register_sprite ==
  \/ /\ ~handshaking /\ ~connected /\ size = "fits" /\ cpc # "closed"
     /\ handshaking' = TRUE /\ memory' = TRUE /\ recv_fd_wait' = TRUE
     /\ write("recv_fd")
     /\ received' = Tail(received) /\ UNCHANGED spc
  \/ /\ spc' = "removed" /\ received' = <<>>
     /\ write("nack")
     /\ UNCHANGED <<handshaking, memory, recv_fd_wait>>

\* Mutant: a client is shown as soon as it has been sent the descriptor.
handle_ack_send_fd_connects ==
  /\ connected' = TRUE /\ handshaking' = FALSE
  /\ recv_fd_wait' = FALSE /\ write("F")
  /\ received' = Tail(received) /\ UNCHANGED spc

\* SPRITEACK_SEND_FD.
handle_ack_send_fd ==
  /\ IF recv_fd_wait /\ memory /\ cpc # "closed"
     THEN /\ recv_fd_wait' = FALSE /\ write("F")
          /\ received' = Tail(received) /\ UNCHANGED spc
     ELSE server_remove_client /\ UNCHANGED recv_fd_wait
  /\ UNCHANGED <<handshaking, connected>>

\* SPRITEACK_ESTABLISHED: client_handshake and server_connect_client.
handle_ack_established ==
  IF handshaking
  THEN /\ connected' = TRUE /\ handshaking' = FALSE
       /\ received' = Tail(received) /\ UNCHANGED <<spc, to_client>>
  ELSE server_remove_client /\ UNCHANGED <<connected, handshaking>>

\* spr16_dispatch_server_msgs, for the next message.
spr16_dispatch_server_msgs ==
  /\ spc = "open" /\ received # <<>>
  /\ LET m == Head(received) IN
       \/ m = "register" /\ spr16_server_register_sprite /\ UNCHANGED connected
       \/ m = "send_fd" /\ handle_ack_send_fd /\ UNCHANGED memory
       \/ m = "established" /\ handle_ack_established /\ UNCHANGED <<recv_fd_wait, memory>>
       \/ /\ m = "nack"
          /\ server_remove_client
          /\ UNCHANGED <<handshaking, connected, recv_fd_wait, memory>>
       \/ /\ m = "sync"
          /\ IF memory THEN received' = Tail(received) /\ UNCHANGED <<spc, to_client>>
             ELSE server_remove_client
          /\ UNCHANGED <<handshaking, connected, recv_fd_wait, memory>>
  /\ UNCHANGED <<client, to_server>>

\* Input, and VSYNC acks, for a client with a screen.
server_input ==
  /\ spc = "open" /\ connected /\ Len(to_client) < MaxInputs
  /\ write("input")
  /\ UNCHANGED <<client, server, to_server>>

\* Mutant: a removed client keeps its socket.
server_free_list_keeps ==
  /\ spc = "removed" /\ connected /\ spc' = "closed"
  /\ UNCHANGED <<client, received, handshaking, connected, recv_fd_wait, memory, to_client, to_server>>

server_free_list ==
  /\ spc = "removed" /\ spc' = "closed"
  /\ UNCHANGED <<client, received, handshaking, connected, recv_fd_wait, memory, to_client, to_server>>

\* The process ends: nothing more is read or sent.
server_exit ==
  /\ spc # "closed" /\ spc' = "closed" /\ received' = <<>>
  /\ UNCHANGED <<client, handshaking, connected, recv_fd_wait, memory, to_client, to_server>>

Client ==
  \/ spr16_client_update \/ spr16_dispatch_client_msgs
  \/ recv_fd_clear \/ recv_fd \/ recv_fd_fails

Server ==
  \/ server_addclient \/ client_callback \/ spr16_dispatch_server_msgs \/ server_free_list

Next ==
  \/ Client \/ handshake_timeout \/ spr16_client_sync \/ client_exit
  \/ Server \/ server_input \/ server_exit

Spec == Init /\ [][Next]_vars

\* Both processes run; a client in its handshake counts its tries.
FairSpec ==
  /\ Spec /\ WF_vars(Server) /\ WF_vars(Client)
  /\ WF_vars(handshake_timeout) /\ WF_vars(cpc = "failed" /\ client_exit)

-----------------------------------------------------------------------------
(* Properties.                                                             *)

\* The byte that carries the descriptor is only received by afunix_recv_fd,
\* never by a plain read, which would drop the descriptor (messages.c:281).
\* Nothing is lost when recv_fd throws away what it finds pending and reads
\* into the buffer that is being dispatched (client.c:192-197, 403), as the
\* server is silent between RECV_FD and the descriptor.
FdIsExpected ==
  /\ \A i \in DOMAIN to_client :
       to_client[i] = "F" => i = 1 /\ cpc \in {"receive", "failed", "closed"}
  /\ cpc = "clear" => to_client = <<>> /\ batch = <<>>

\* The handshake implements SharedSprite.
life ==
  IF spc \in {"removed", "closed"} THEN "over"
  ELSE IF connected THEN "shown"
  ELSE IF mapped THEN "mapped"
  ELSE IF memory THEN "created" ELSE "new"

Shared == INSTANCE SharedSprite

ImplementsShared == Shared!Spec

\* The handshake ends, for the client with a screen or with the end of the
\* connection (client.c:319-334).
HandshakeEnds == <>(cpc = "closed" \/ ~g_handshaking)

\* A client that believes it has a sprite gets it shown, unless one of the two
\* goes away (server.c:304-340).
BothAgree ==
  ~g_handshaking ~> (connected \/ cpc = "closed" \/ spc = "closed")

\* A server that keeps count of its handlers forgets every client that is gone
\* (server.c:1036, 722-750).
ClosedIsReleased == cpc = "closed" ~> spc = "closed"
=============================================================================
