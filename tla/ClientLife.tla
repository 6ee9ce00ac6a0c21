----------------------------- MODULE ClientLife -----------------------------
(***************************************************************************)
(* What the server promises about one client record (struct client, its    *)
(* socket, its event handler and its shared memory), whatever messages and *)
(* hangups arrive: it is pending from accept4 to the end of the handshake, *)
(* then owns one screen, is retired at most once, and a retired record is  *)
(* released, together with all others retired in the same round, before    *)
(* the connection can come back.                                           *)
(*                                                                         *)
(* The promise is void once `broken` is raised: the count of event         *)
(* handlers has drifted too far, descriptor 0 was closed, or the lists hold *)
(* freed memory.  While `stuck` the server waits for a peer to read, and    *)
(* releases nobody.                                                        *)
(***************************************************************************)
CONSTANT Conns
VARIABLES life, broken, stuck

States == {"absent", "pending", "shown", "retired"}

Init == /\ life = [c \in Conns |-> "absent"]
        /\ broken = FALSE

Move(c, from, to) == /\ life[c] \in from
                     /\ life' = [life EXCEPT ![c] = to]

Arrive(c) == Move(c, {"absent"}, "pending")
Show(c)   == Move(c, {"pending"}, "shown")
Retire(c) == Move(c, {"pending", "shown"}, "retired")

Release ==
  /\ \E c \in Conns : life[c] = "retired"
  /\ life' = [c \in Conns |-> IF life[c] = "retired" THEN "absent" ELSE life[c]]

Keep  == ~broken /\ broken' = FALSE
Break == broken' = TRUE /\ life' \in [Conns -> States]

Next == \/ \E c \in Conns : Keep /\ (Arrive(c) \/ Show(c) \/ Retire(c))
        \/ Keep /\ Release
        \/ Break

\* What may never happen, and what must: a retired record is released, unless
\* the server is stuck for ever.
Safety == Init /\ [][Next]_<<life, broken>>
Spec   == Safety /\ (<>[]stuck \/ WF_<<life, broken>>(Keep /\ Release))
=============================================================================
