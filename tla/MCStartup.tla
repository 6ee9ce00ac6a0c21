----------------------------- MODULE MCStartup ------------------------------
EXTENDS Startup, TLC

CONSTANTS kbd, combo, gaming, mouse, pad,   \* the nodes of /dev/input
  MaxModes                                  \* modes of a connector

mode(w, h, r) == [hdisplay |-> w, vdisplay |-> h, vrefresh |-> r]

\* Nested and crossing sizes, one that is no multiple of 16, and rates on both
\* sides of what is asked for.
SomeModes == {mode(32, 1, 60), mode(32, 1, 50), mode(32, 2, 60), mode(16, 1, 60),
              mode(24, 2, 60), mode(16, 3, 60), mode(48, 1, 50)}
AnyList   == SeqOf(SomeModes, MaxModes)
AfterPlug == {<<>>, <<mode(16, 1, 60)>>, <<mode(16, 1, 60), mode(32, 2, 60), mode(32, 1, 50)>>}
Asked     == {[width |-> 0, height |-> 0, refresh |-> 60, no_connect |-> FALSE],
              [width |-> 32, height |-> 2, refresh |-> 50, no_connect |-> TRUE]}

caps(k, s, key, rel, abs_, led, ff) ==
  [keyboard |-> k, surface |-> s, key |-> key, rel |-> rel, abs |-> abs_, led |-> led, ff |-> ff]

\* A keyboard with LEDs, one with a pointer and more keys, one with LEDs and
\* the most keys.
SomeCaps == (kbd    :> caps(TRUE, FALSE, 3, 0, 0, 3, 0))
         @@ (combo  :> caps(TRUE, FALSE, 4, 3, 0, 0, 0))
         @@ (gaming :> caps(TRUE, FALSE, 5, 0, 0, 1, 0))
         @@ (mouse  :> caps(FALSE, FALSE, 2, 2, 0, 0, 1))
         @@ (pad    :> caps(FALSE, TRUE, 1, 0, 2, 0, 0))

\* Nothing set; a keyboard and a mouse set to one node.
SomeEnvirons == {<<NoNode, NoNode, NoNode>>, <<combo, combo, NoNode>>}

\* Bound: the devices are looked for with one screen.
OneScreen ==
  scanning => /\ offer = <<mode(32, 2, 60)>> /\ hotplugs = 0
              /\ ~request.no_connect /\ crtc # {}
=============================================================================
