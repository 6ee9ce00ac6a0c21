---- MODULE MCServerLoop ----
EXTENDS ServerLoop, TLC

Symm == Permutations(Conns)

\* Nothing is promised once the server is not Healthy.  What it may still do
\* is followed for clients that have not registered a sprite, without hotkeys,
\* and after one cause at a time.
HealthyOrUnregistered ==
  \/ Healthy
  \/ /\ screens = <<>> /\ recv_fd_wait = {} /\ sync_clients = {}
     /\ \A c \in Conns : stage[c] \in {"none", "new"}
     /\ KbdFd \notin batch
     /\ dangling => drift = 0 /\ files[0] = Own
     /\ Stuck => dangling
     /\ drift > Others => files[0] = Own
====
