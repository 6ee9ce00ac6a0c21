---------------------------- MODULE SharedSprite ----------------------------
(***************************************************************************)
(* What the handshake promises: the memory of a sprite is created once, by *)
(* the server, is then mapped by the client, and only a sprite that both   *)
(* sides share is shown.  At any point the server may end the connection.  *)
(***************************************************************************)
VARIABLE life

Init == life = "new"

Step(from, to) == life = from /\ life' = to

End == life # "over" /\ life' = "over"

Spec == Init /\ [][\/ Step("new", "created") \/ Step("created", "mapped")
                   \/ Step("mapped", "shown") \/ End]_life
=============================================================================
