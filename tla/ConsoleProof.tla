---------------------------- MODULE ConsoleProof ----------------------------
(***************************************************************************)
(* Theorems about Console, for any number of VT switches: types, what is   *)
(* left of the terminal and how the VT is handed over.                     *)
(***************************************************************************)
EXTENDS Console, SequenceTheorems, TLAPS

Frame == [sig : VtSignals, at : Steps]

\* No signal is handled twice at the same time.
OneEach == Len(frames) = 2 => frames[1].sig # frames[2].sig

\* The running handlers, in every kind of step on them.
LEMMA GotoFrames ==
  ASSUME frames \in Seq(Frame), frames # <<>>, NEW s \in Steps, goto(s)
  PROVE  /\ frames' \in Seq(Frame) /\ Len(frames') = Len(frames)
         /\ frames'[1] = [frames[1] EXCEPT !.at = s]
         /\ \A i \in 2..Len(frames) : frames'[i] = frames[i]
  <1>1. frames[1] \in Frame /\ Head(frames) = frames[1] /\ Len(frames) \in Nat \ {0}
    OBVIOUS
  <1>2. Tail(frames) \in Seq(Frame) /\ Len(Tail(frames)) = Len(frames) - 1
        /\ \A i \in 1..Len(frames) - 1 : Tail(frames)[i] = frames[i + 1]
    OBVIOUS
  <1>3. [frames[1] EXCEPT !.at = s] \in Frame
    BY <1>1 DEF Frame
  <1>. DEFINE f == [frames[1] EXCEPT !.at = s]
  <1>4. frames' = <<f>> \o Tail(frames)
    BY <1>1 DEF goto, top
  <1>. HIDE DEF f
  <1>5. /\ frames' \in Seq(Frame) /\ Len(frames') = Len(frames) /\ frames'[1] = f
        /\ \A i \in 2..Len(frames) : frames'[i] = Tail(frames)[i - 1]
    BY <1>1, <1>2, <1>3, <1>4 DEF f
  <1>. QED  BY <1>1, <1>2, <1>5 DEF f

LEMMA ReturnFrames ==
  ASSUME frames \in Seq(Frame), frames # <<>>, return
  PROVE  frames' \in Seq(Frame) /\ Len(frames') = Len(frames) - 1
  BY DEF return

LEMMA DeliverFrames ==
  ASSUME frames \in Seq(Frame), NEW f \in Frame, frames' = <<f>> \o frames
  PROVE  /\ frames' \in Seq(Frame) /\ Len(frames') = Len(frames) + 1
         /\ frames'[1] = f
         /\ \A i \in 1..Len(frames) : frames'[i + 1] = frames[i]
  OBVIOUS

LEMMA FatalFrames ==
  ASSUME frames \in Seq(Frame),
         frames' = [i \in DOMAIN frames |-> [frames[i] EXCEPT !.at = "left"]]
  PROVE  /\ frames' \in Seq(Frame) /\ Len(frames') = Len(frames)
         /\ \A i \in 1..Len(frames) :
              frames'[i].sig = frames[i].sig /\ frames'[i].at = "left"
  <1>1. Len(frames) \in Nat /\ DOMAIN frames = 1..Len(frames)
        /\ \A i \in 1..Len(frames) : frames[i] \in Frame
    OBVIOUS
  <1>2. \A i \in 1..Len(frames) : [frames[i] EXCEPT !.at = "left"] \in Frame
    BY <1>1 DEF Frame, Steps
  <1>3. frames' \in [1..Len(frames) -> Frame]
    BY <1>1, <1>2
  <1>4. frames' \in Seq(Frame) /\ Len(frames') = Len(frames)
    BY <1>1, <1>3, SeqDef, LenProperties
  <1>5. \A i \in 1..Len(frames) :
          frames'[i].sig = frames[i].sig /\ frames'[i].at = "left"
    BY <1>1 DEF Frame
  <1>. QED  BY <1>4, <1>5

\* Arithmetic on the number of frames.
LEMMA AtLeastOne ==
  ASSUME NEW n \in Nat \ {0}, n <= 1
  PROVE  n = 1
  OBVIOUS

LEMMA BelowTwo ==
  ASSUME NEW n \in Nat, n <= 2, n # 2
  PROVE  n <= 1
  OBVIOUS

\* What TypeOK says of the frames, and OneEach, survive every kind of step.
FramesOK == frames \in Seq(Frame) /\ Len(frames) <= 2 /\ OneEach

LEMMA FramesKept ==
  ASSUME FramesOK,
         \/ UNCHANGED frames
         \/ frames # <<>> /\ (return \/ \E s \in Steps : goto(s))
         \/ frames' = [i \in DOMAIN frames |-> [frames[i] EXCEPT !.at = "left"]]
         \/ \E s \in VtSignals : deliver(s)
  PROVE  FramesOK'
  <1>1. Len(frames) \in Nat /\ \A i \in 1..Len(frames) : frames[i] \in Frame
    BY DEF FramesOK
  <1>2. CASE UNCHANGED frames
    BY <1>2 DEF FramesOK, OneEach
  <1>3. CASE frames # <<>> /\ return
    BY <1>1, <1>3, ReturnFrames DEF FramesOK, OneEach
  <1>4. ASSUME frames # <<>>, NEW s \in Steps, goto(s)  PROVE FramesOK'
    <2>1. /\ frames' \in Seq(Frame) /\ Len(frames') = Len(frames)
          /\ frames'[1] = [frames[1] EXCEPT !.at = s]
          /\ \A i \in 2..Len(frames) : frames'[i] = frames[i]
      BY <1>4, GotoFrames DEF FramesOK
    <2>2. Len(frames) = 2 => frames'[1].sig = frames[1].sig /\ frames'[2] = frames[2]
      BY <1>1, <2>1 DEF Frame
    <2>. QED  BY <2>1, <2>2 DEF FramesOK, OneEach
  <1>5. CASE frames' = [i \in DOMAIN frames |-> [frames[i] EXCEPT !.at = "left"]]
    <2>1. /\ frames' \in Seq(Frame) /\ Len(frames') = Len(frames)
          /\ \A i \in 1..Len(frames) : frames'[i].sig = frames[i].sig
      BY <1>5, FatalFrames DEF FramesOK
    <2>. QED  BY <1>1, <2>1 DEF FramesOK, OneEach
  <1>6. ASSUME NEW s \in VtSignals, deliver(s)  PROVE FramesOK'
    <2>. DEFINE f == [sig |-> s, at |-> IF s = "SIGUSR1" THEN "acquire" ELSE "deactivate"]
    <2>1. f \in Frame /\ f.sig = s
      BY DEF Frame, Steps
    <2>2. frames' = <<f>> \o frames /\ \A i \in 1..Len(frames) : frames[i].sig # s
      BY <1>1, <1>6 DEF deliver, FramesOK
    <2>. HIDE DEF f
    <2>3. /\ frames' \in Seq(Frame) /\ Len(frames') = Len(frames) + 1
          /\ frames'[1] = f
          /\ \A i \in 1..Len(frames) : frames'[i + 1] = frames[i]
      BY <2>1, <2>2, DeliverFrames DEF FramesOK
    <2>4. Len(frames) <= 1
      <3>1. Len(frames) = 2 => /\ frames[1].sig \in VtSignals \ {s}
                               /\ frames[2].sig \in VtSignals \ {s}
        BY <1>1, <2>2 DEF Frame
      <3>2. Len(frames) = 2 => frames[1].sig = frames[2].sig
        BY <1>6, <3>1 DEF VtSignals
      <3>3. Len(frames) # 2
        BY <3>2 DEF FramesOK, OneEach
      <3>4. Len(frames) <= 2
        BY DEF FramesOK
      <3>5. Len(frames) \in Nat
        BY <1>1
      <3>. QED  BY <3>3, <3>4, <3>5, BelowTwo
    <2>5. Len(frames') = 2 => frames'[1].sig # frames'[2].sig
      BY <1>1, <2>1, <2>2, <2>3
    <2>. QED  BY <1>1, <2>3, <2>4, <2>5 DEF FramesOK, OneEach
  <1>. QED  BY <1>2, <1>3, <1>4, <1>5, <1>6

-----------------------------------------------------------------------------
(* Types.                                                                  *)

\* TypeOK without the frames.
RestOK ==
  /\ pc \in Places /\ term \subseteq Changes /\ handlers \subseteq {"vt", "stop"}
  /\ card \in {"none", "live", "freed"}
  /\ {g_origterm, tty_open, exit_registered, master, g_is_active, g_input_muted,
      g_unmute_input, g_running, g_initialized, socket_file, killed, crossed} \subseteq BOOLEAN
  /\ vt \in {"ours", "leaving", "away"} /\ pending \subseteq VtSignals
  /\ switches \in 0..MaxSwitches

TypeInv == RestOK /\ FramesOK

LEMMA TypeInvTyped == TypeInv => TypeOK
  BY DEF TypeInv, RestOK, FramesOK, TypeOK, Frame

LEMMA InitTyped == Init => TypeInv
  <1>. SUFFICES ASSUME Init  PROVE TypeInv
    OBVIOUS
  <1>1. RestOK
    <2>1. switches \in 0..MaxSwitches
      BY ConsoleAssumption DEF Init
    <2>2. {g_origterm, tty_open, exit_registered, master, g_is_active, g_input_muted,
           g_unmute_input, g_running, g_initialized, socket_file, killed, crossed} \subseteq BOOLEAN
      BY DEF Init
    <2>. QED  BY <2>1, <2>2 DEF Init, RestOK, Places
  <1>2. FramesOK
    BY DEF Init, FramesOK, OneEach
  <1>. QED  BY <1>1, <1>2 DEF TypeInv

LEMMA TypeStep == TypeInv /\ [Next]_vars => TypeInv'
  <1>. SUFFICES ASSUME TypeInv, [Next]_vars  PROVE TypeInv'
    OBVIOUS
  <1>. USE DEF TypeInv, terminal, process, flags, server, drm, console
  <1>1. CASE drm_mode_create
    <2>1. RestOK'
      BY <1>1 DEF drm_mode_create, RestOK, Places
    <2>. QED  BY <1>1, <2>1, FramesKept DEF drm_mode_create
  <1>2. CASE register_exit
    <2>1. RestOK'
      BY <1>2 DEF register_exit, RestOK, Places
    <2>. QED  BY <1>2, <2>1, FramesKept DEF register_exit
  <1>3. CASE sig_setup
    <2>1. RestOK'
      BY <1>3 DEF sig_setup, RestOK, Places
    <2>. QED  BY <1>3, <2>1, FramesKept DEF sig_setup
  <1>4. CASE spr16_server_init
    <2>1. RestOK'
      BY <1>4 DEF spr16_server_init, RestOK, Places
    <2>. QED  BY <1>4, <2>1, FramesKept DEF spr16_server_init
  <1>5. CASE initialized
    <2>1. RestOK'
      BY <1>5 DEF initialized, RestOK, Places
    <2>. QED  BY <1>5, <2>1, FramesKept DEF initialized
  <1>6. CASE watch_card
    <2>1. RestOK'
      BY <1>6 DEF watch_card, RestOK, Places
    <2>. QED  BY <1>6, <2>1, FramesKept DEF watch_card
  <1>7. CASE server_main
    <2>1. RestOK'
      BY <1>7 DEF server_main, RestOK, Places
    <2>. QED  BY <1>7, <2>1, FramesKept DEF server_main
  <1>8. CASE spr16_server_update
    <2>1. RestOK'
      BY <1>8 DEF spr16_server_update, RestOK, Places
    <2>. QED  BY <1>8, <2>1, FramesKept DEF spr16_server_update
  <1>9. CASE spr16_server_shutdown
    <2>1. RestOK'
      BY <1>9 DEF spr16_server_shutdown, RestOK, Places
    <2>. QED  BY <1>9, <2>1, FramesKept DEF spr16_server_shutdown
  <1>10. CASE drm_kms_destroy
    <2>1. RestOK'
      BY <1>10 DEF drm_kms_destroy, RestOK, Places
    <2>. QED  BY <1>10, <2>1, FramesKept DEF drm_kms_destroy
  <1>11. CASE acquire_vt
    <2>1. RestOK'
      BY <1>11 DEF acquire_vt, reldisp, RestOK
    <2>2. frames # <<>> /\ \E s \in Steps : goto(s)
      BY <1>11 DEF acquire_vt, in, Steps
    <2>. QED  BY <2>1, <2>2, FramesKept
  <1>12. CASE card_set_master
    <2>1. RestOK'
      BY <1>12 DEF card_set_master, RestOK
    <2>2. frames # <<>> /\ \E s \in Steps : goto(s)
      BY <1>12 DEF card_set_master, in, Steps
    <2>. QED  BY <2>1, <2>2, FramesKept
  <1>13. CASE drm_kms_connect_sfb
    <2>1. RestOK'
      BY <1>13 DEF drm_kms_connect_sfb, RestOK
    <2>2. frames # <<>> /\ \E s \in Steps : goto(s)
      BY <1>13 DEF drm_kms_connect_sfb, in, Steps
    <2>. QED  BY <2>1, <2>2, FramesKept
  <1>14. CASE spr16_server_activate
    <2>1. RestOK'
      BY <1>14 DEF spr16_server_activate, RestOK
    <2>2. frames # <<>> /\ \E s \in Steps : goto(s)
      BY <1>14 DEF spr16_server_activate, in, Steps
    <2>. QED  BY <2>1, <2>2, FramesKept
  <1>15. CASE unmute_input
    <2>1. RestOK'
      BY <1>15 DEF unmute_input, RestOK
    <2>2. frames # <<>> /\ return
      BY <1>15 DEF unmute_input, in, Steps
    <2>. QED  BY <2>1, <2>2, FramesKept
  <1>16. CASE spr16_server_deactivate
    <2>1. RestOK'
      BY <1>16 DEF spr16_server_deactivate, RestOK
    <2>2. frames # <<>> /\ \E s \in Steps : goto(s)
      BY <1>16 DEF spr16_server_deactivate, in, Steps
    <2>. QED  BY <2>1, <2>2, FramesKept
  <1>17. CASE card_drop_master
    <2>1. RestOK'
      BY <1>17 DEF card_drop_master, RestOK
    <2>2. frames # <<>> /\ \E s \in Steps : goto(s)
      BY <1>17 DEF card_drop_master, in, Steps
    <2>. QED  BY <2>1, <2>2, FramesKept
  <1>18. CASE release_vt
    <2>1. RestOK'
      BY <1>18 DEF release_vt, reldisp, RestOK
    <2>2. frames # <<>> /\ \E s \in Steps : goto(s)
      BY <1>18 DEF release_vt, in, Steps
    <2>. QED  BY <2>1, <2>2, FramesKept
  <1>19. CASE mute_input
    <2>1. RestOK'
      BY <1>19 DEF mute_input, RestOK
    <2>2. frames # <<>> /\ return
      BY <1>19 DEF mute_input, in, Steps
    <2>. QED  BY <2>1, <2>2, FramesKept
  <1>20. CASE vt_init
    <2>1. RestOK'
      <3>1. ASSUME NEW p, NEW change \in SUBSET Changes, NEW next \in Places,
                   vt_init_step(p, change, next), g_origterm' \in BOOLEAN
            PROVE  RestOK'
        BY <3>1 DEF vt_init_step, textauto, vt_shutdown, RestOK, Places, Changes
      <3>. QED  BY <1>20, <3>1 DEF vt_init, RestOK, Places, Changes
    <2>. QED  BY <1>20, <2>1, FramesKept DEF vt_init, vt_init_step
  <1>21. CASE exit
    <2>1. RestOK'
      BY <1>21 DEF exit, exit_func, vt_shutdown, RestOK, Places, Changes
    <2>. QED  BY <1>21, <2>1, FramesKept DEF exit
  <1>22. ASSUME NEW s \in VtSignals, deliver(s)  PROVE TypeInv'
    <2>1. RestOK'
      BY <1>22 DEF deliver, interrupt, RestOK, Places
    <2>. QED  BY <1>22, <2>1, FramesKept
  <1>23. CASE stop
    <2>1. RestOK'
      BY <1>23 DEF stop, interrupt, RestOK, Places
    <2>. QED  BY <1>23, <2>1, FramesKept DEF stop
  <1>24. CASE fatal
    <2>1. RestOK'
      BY <1>24 DEF fatal, RestOK, Places
    <2>. QED  BY <1>24, <2>1, FramesKept DEF fatal
  <1>25. CASE leave
    <2>1. RestOK'
      <3>1. switches' \in 0..MaxSwitches
        BY <1>25, ConsoleAssumption DEF leave, RestOK
      <3>2. crossed' \in BOOLEAN
        BY <1>25 DEF leave, RestOK
      <3>3. vt' \in {"ours", "leaving", "away"} /\ pending' \subseteq VtSignals
        BY <1>25 DEF leave, RestOK, VtSignals
      <3>. QED  BY <1>25, <3>1, <3>2, <3>3 DEF leave, RestOK
    <2>. QED  BY <1>25, <2>1, FramesKept DEF leave
  <1>26. CASE come_back
    <2>1. RestOK'
      BY <1>26 DEF come_back, RestOK, VtSignals
    <2>. QED  BY <1>26, <2>1, FramesKept DEF come_back
  <1>27. CASE UNCHANGED vars
    <2>1. RestOK'
      BY <1>27 DEF vars, RestOK
    <2>. QED  BY <1>27, <2>1, FramesKept DEF vars
  <1>. QED
    BY <1>1, <1>2, <1>3, <1>4, <1>5, <1>6, <1>7, <1>8, <1>9, <1>10, <1>11, <1>12, <1>13,
       <1>14, <1>15, <1>16, <1>17, <1>18, <1>19, <1>20, <1>21, <1>22, <1>23, <1>24,
       <1>25, <1>26, <1>27 DEF Next, Main, vt_sig, Signals

\* Every reachable state of the terminal, the card and the handlers has its type;
\* in particular no more than two handlers are ever nested.
THEOREM ConsoleTyped == Spec => []TypeOK
  BY InitTyped, TypeStep, TypeInvTyped, PTL DEF Spec
-----------------------------------------------------------------------------
(* The end of the process.                                                 *)

Before == {"create", "kbmode", "graphics", "process", "save", "raw", "atexit"}

\* exit_func is registered when there is a g_origterm to restore.
Restorable ==
  /\ pc \in {"raw", "atexit"} => g_origterm
  /\ exit_registered => g_origterm /\ pc \notin Before

EndInv == Restorable /\ TerminalRestored

LEMMA EndStep == EndInv /\ [Next]_vars => EndInv'
  <1>. SUFFICES ASSUME EndInv, [Next]_vars  PROVE EndInv'
    OBVIOUS
  <1>. USE DEF EndInv, Restorable, TerminalRestored, Before,
               terminal, process, flags, server, drm, console
  <1>1. CASE drm_mode_create
    BY <1>1 DEF drm_mode_create, At
  <1>2. CASE register_exit
    BY <1>2 DEF register_exit, At
  <1>3. CASE sig_setup
    BY <1>3 DEF sig_setup, At
  <1>4. CASE spr16_server_init
    BY <1>4 DEF spr16_server_init, At
  <1>5. CASE initialized
    BY <1>5 DEF initialized, At
  <1>6. CASE watch_card
    BY <1>6 DEF watch_card, At
  <1>7. CASE server_main
    BY <1>7 DEF server_main, At
  <1>8. CASE spr16_server_update
    <2>1. /\ pc \in {"wait", "update"} /\ pc' \in {"loop", "shutdown", "update"}
          /\ UNCHANGED <<exit_registered, g_origterm>>
      BY <1>8 DEF spr16_server_update, At
    <2>. QED  BY <2>1
  <1>9. CASE spr16_server_shutdown
    BY <1>9 DEF spr16_server_shutdown, At
  <1>10. CASE drm_kms_destroy
    BY <1>10 DEF drm_kms_destroy, At
  <1>11. CASE vt_init
    <2>1. /\ pc \in Before \ {"create", "atexit"} /\ pc' # "exited" /\ UNCHANGED exit_registered
          /\ pc' \in {"raw", "atexit"} => g_origterm'
      BY <1>11 DEF vt_init, vt_init_step, At
    <2>. QED  BY <2>1
  <1>12. CASE exit
    BY <1>12 DEF exit, exit_func, vt_shutdown, At
  <1>13. CASE acquire_vt
    BY <1>13 DEF acquire_vt, in, Running
  <1>14. CASE card_set_master
    BY <1>14 DEF card_set_master, in, Running
  <1>15. CASE drm_kms_connect_sfb
    BY <1>15 DEF drm_kms_connect_sfb, in, Running
  <1>16. CASE spr16_server_activate
    BY <1>16 DEF spr16_server_activate, in, Running
  <1>17. CASE unmute_input
    BY <1>17 DEF unmute_input, in, Running
  <1>18. CASE spr16_server_deactivate
    BY <1>18 DEF spr16_server_deactivate, in, Running
  <1>19. CASE card_drop_master
    BY <1>19 DEF card_drop_master, in, Running
  <1>20. CASE release_vt
    BY <1>20 DEF release_vt, in, Running
  <1>21. CASE mute_input
    BY <1>21 DEF mute_input, in, Running
  <1>22. ASSUME NEW s \in VtSignals, deliver(s)  PROVE EndInv'
    BY <1>22 DEF deliver, interrupt, Running
  <1>23. CASE stop
    BY <1>23 DEF stop, interrupt, Running
  <1>24. CASE fatal
    BY <1>24 DEF fatal, Running
  <1>25. CASE leave
    BY <1>25 DEF leave
  <1>26. CASE come_back
    BY <1>26 DEF come_back
  <1>27. CASE UNCHANGED vars
    BY <1>27 DEF vars
  <1>. QED
    BY <1>1, <1>2, <1>3, <1>4, <1>5, <1>6, <1>7, <1>8, <1>9, <1>10, <1>11, <1>12, <1>13,
       <1>14, <1>15, <1>16, <1>17, <1>18, <1>19, <1>20, <1>21, <1>22, <1>23, <1>24,
       <1>25, <1>26, <1>27 DEF Next, Main, vt_sig, Signals

\* Whatever ends a server that registered exit_func, at whatever point of its
\* life, the terminal is as it was found if descriptor 0 still is the terminal,
\* and the socket is gone.
THEOREM TerminalIsRestored == Spec => []TerminalRestored
  <1>1. Init => EndInv
    BY DEF Init, EndInv, Restorable, TerminalRestored
  <1>2. EndInv => TerminalRestored
    BY DEF EndInv
  <1>. QED  BY <1>1, <1>2, EndStep, PTL DEF Spec
-----------------------------------------------------------------------------
(* The handover.                                                           *)

\* Without crossed switches the request is either on its way or in the hands of
\* the only handler, which has put things away as far as it got.
Quiet ==
  /\ Len(frames) <= 1
  /\ vt = "leaving" /\ tty_open
     => \/ pending = {"SIGUSR2"} /\ frames = <<>>
        \/ /\ pending = {} /\ frames # <<>>
           /\ frames[1].at \in {"deactivate", "drop_master", "release", "left"}
  /\ frames # <<>> =>
       /\ frames[1].at \in {"drop_master", "release"} => ~g_is_active
       /\ frames[1].at = "release" => ~master

QuietInv == ~crossed => Quiet

\* In a step of main the frames were all left by exit.
LEMMA MainIsAlone ==
  ASSUME FramesOK, NEW p, At(p), frames # <<>>
  PROVE  frames[1].at = "left"
  <1>1. 1 \in DOMAIN frames
    BY DEF FramesOK
  <1>. QED  BY <1>1 DEF At

\* The only handler moves on or returns.
LEMMA HandlerStep ==
  ASSUME FramesOK, NEW s \in Steps, in(s)
  PROVE  /\ frames # <<>> /\ frames[1].at = s
         /\ \A r \in Steps : goto(r)
              => frames' # <<>> /\ Len(frames') = Len(frames) /\ frames'[1].at = r
         /\ return /\ Len(frames) <= 1 => frames' = <<>>
  <1>1. frames # <<>> /\ frames \in Seq(Frame) /\ Len(frames) \in Nat \ {0}
        /\ frames[1] \in Frame
    BY DEF in, FramesOK
  <1>2. frames[1].at = s
    BY <1>1 DEF in, top
  <1>3. ASSUME NEW r \in Steps, goto(r)
        PROVE  frames' # <<>> /\ Len(frames') = Len(frames) /\ frames'[1].at = r
    <2>1. /\ frames' \in Seq(Frame) /\ Len(frames') = Len(frames)
          /\ frames'[1] = [frames[1] EXCEPT !.at = r]
      BY <1>1, <1>3, GotoFrames
    <2>2. frames'[1].at = r
      BY <1>1, <2>1 DEF Frame
    <2>. QED  BY <1>1, <2>1, <2>2
  <1>4. ASSUME return, Len(frames) <= 1  PROVE frames' = <<>>
    <2>1. Len(frames) = 1
      BY <1>1, <1>4, AtLeastOne
    <2>. QED  BY <1>1, <1>4, <2>1 DEF return
  <1>. QED  BY <1>1, <1>2, <1>3, <1>4

\* History is never undone.
LEMMA CrossedStays == crossed /\ [Next]_vars => crossed'
  <1>. SUFFICES ASSUME crossed, [Next]_vars  PROVE crossed'
    OBVIOUS
  <1>. USE DEF console
  <1>1. CASE Main
    BY <1>1 DEF Main, drm_mode_create, register_exit, sig_setup, spr16_server_init,
       initialized, watch_card, server_main, spr16_server_update, spr16_server_shutdown,
       drm_kms_destroy, vt_init, vt_init_step, exit
  <1>2. CASE vt_sig
    BY <1>2 DEF vt_sig, acquire_vt, card_set_master, drm_kms_connect_sfb,
       spr16_server_activate, unmute_input, spr16_server_deactivate, card_drop_master,
       release_vt, mute_input
  <1>3. CASE Signals
    BY <1>3 DEF Signals, deliver, stop, fatal
  <1>4. CASE leave \/ come_back \/ UNCHANGED vars
    BY <1>4 DEF leave, come_back, vars
  <1>. QED  BY <1>1, <1>2, <1>3, <1>4 DEF Next

LEMMA QuietStep == TypeInv /\ QuietInv /\ [Next]_vars => QuietInv'
  <1>. SUFFICES ASSUME FramesOK, Quiet, [Next]_vars, ~crossed'
                PROVE  Quiet'
    BY CrossedStays DEF QuietInv, TypeInv
  <1>. USE DEF Quiet, terminal, process, flags, server, drm, console
  <1>1. CASE drm_mode_create
    <2>1. frames # <<>> => frames[1].at = "left"
      BY <1>1, MainIsAlone DEF drm_mode_create
    <2>. QED  BY <1>1, <2>1 DEF drm_mode_create
  <1>2. CASE register_exit
    BY <1>2 DEF register_exit
  <1>3. CASE sig_setup
    BY <1>3 DEF sig_setup
  <1>4. CASE spr16_server_init
    <2>1. frames # <<>> => frames[1].at = "left"
      BY <1>4, MainIsAlone DEF spr16_server_init
    <2>. QED  BY <1>4, <2>1 DEF spr16_server_init
  <1>5. CASE initialized
    BY <1>5 DEF initialized
  <1>6. CASE watch_card
    BY <1>6 DEF watch_card
  <1>7. CASE server_main
    BY <1>7 DEF server_main
  <1>8. CASE spr16_server_update
    <2>1. UNCHANGED <<frames, vt, pending, g_is_active, master>>
      BY <1>8 DEF spr16_server_update
    <2>2. tty_open' = tty_open \/ tty_open' = FALSE
      BY <1>8 DEF spr16_server_update
    <2>3. tty_open' => tty_open
      BY <2>2, Zenon
    <2>. QED  BY <2>1, <2>3
  <1>9. CASE spr16_server_shutdown
    BY <1>9 DEF spr16_server_shutdown
  <1>10. CASE drm_kms_destroy
    BY <1>10 DEF drm_kms_destroy
  <1>11. CASE vt_init
    BY <1>11 DEF vt_init, vt_init_step, textauto, vt_shutdown
  <1>12. CASE exit
    BY <1>12 DEF exit, exit_func, vt_shutdown
  <1>13. CASE acquire_vt
    <2>1. /\ frames[1].at = "acquire" /\ frames # <<>> /\ frames' # <<>>
          /\ Len(frames') = Len(frames) /\ frames'[1].at \in {"set_master"}
      BY <1>13, HandlerStep DEF acquire_vt, Steps
    <2>. QED  BY <1>13, <2>1 DEF acquire_vt, reldisp
  <1>14. CASE card_set_master
    <2>1. /\ frames[1].at = "set_master" /\ frames # <<>> /\ frames' # <<>>
          /\ Len(frames') = Len(frames) /\ frames'[1].at \in {"connect", "unmute"}
      BY <1>14, HandlerStep DEF card_set_master, Steps
    <2>. QED  BY <1>14, <2>1 DEF card_set_master
  <1>15. CASE drm_kms_connect_sfb
    <2>1. /\ frames[1].at = "connect" /\ frames # <<>> /\ frames' # <<>>
          /\ Len(frames') = Len(frames) /\ frames'[1].at \in {"activate", "unmute"}
      BY <1>15, HandlerStep DEF drm_kms_connect_sfb, Steps
    <2>. QED  BY <1>15, <2>1 DEF drm_kms_connect_sfb
  <1>16. CASE spr16_server_activate
    <2>1. /\ frames[1].at = "activate" /\ frames # <<>> /\ frames' # <<>>
          /\ Len(frames') = Len(frames) /\ frames'[1].at \in {"unmute"}
      BY <1>16, HandlerStep DEF spr16_server_activate, Steps
    <2>. QED  BY <1>16, <2>1 DEF spr16_server_activate
  <1>17. CASE unmute_input
    <2>1. frames[1].at = "unmute" /\ frames # <<>> /\ frames' = <<>> /\ Len(frames') <= 1
      BY <1>17, HandlerStep DEF unmute_input, Steps
    <2>. QED  BY <1>17, <2>1 DEF unmute_input
  <1>18. CASE spr16_server_deactivate
    <2>1. /\ frames[1].at = "deactivate" /\ frames # <<>> /\ frames' # <<>>
          /\ Len(frames') = Len(frames) /\ frames'[1].at \in {"drop_master"}
      BY <1>18, HandlerStep DEF spr16_server_deactivate, Steps
    <2>. QED  BY <1>18, <2>1 DEF spr16_server_deactivate
  <1>19. CASE card_drop_master
    <2>1. /\ frames[1].at = "drop_master" /\ frames # <<>> /\ frames' # <<>>
          /\ Len(frames') = Len(frames) /\ frames'[1].at \in {"release"}
      BY <1>19, HandlerStep DEF card_drop_master, Steps
    <2>. QED  BY <1>19, <2>1 DEF card_drop_master
  <1>20. CASE release_vt
    <2>1. /\ frames[1].at = "release" /\ frames # <<>> /\ frames' # <<>>
          /\ Len(frames') = Len(frames) /\ frames'[1].at \in {"mute"}
      BY <1>20, HandlerStep DEF release_vt, Steps
    <2>. QED  BY <1>20, <2>1 DEF release_vt, reldisp
  <1>21. CASE mute_input
    <2>1. frames[1].at = "mute" /\ frames # <<>> /\ frames' = <<>> /\ Len(frames') <= 1
      BY <1>21, HandlerStep DEF mute_input, Steps
    <2>. QED  BY <1>21, <2>1 DEF mute_input
  <1>22. ASSUME NEW s \in VtSignals, deliver(s)  PROVE Quiet'
    <2>. DEFINE f == [sig |-> s, at |-> IF s = "SIGUSR1" THEN "acquire" ELSE "deactivate"]
    <2>1. frames = <<>> /\ f \in Frame /\ f.at \in {"acquire", "deactivate"}
      BY <1>22 DEF deliver, Frame, Steps
    <2>2. vt = "leaving" /\ tty_open => pending' = {} /\ f.at = "deactivate"
      BY <1>22, <2>1 DEF deliver
    <2>3. frames' = <<f>>
      BY <1>22, <2>1 DEF deliver
    <2>. HIDE DEF f
    <2>4. frames' # <<>> /\ Len(frames') = 1 /\ frames'[1] = f
      BY <2>3
    <2>. QED  BY <1>22, <2>1, <2>2, <2>4 DEF deliver
  <1>23. CASE stop
    BY <1>23 DEF stop
  <1>24. CASE fatal
    <2>1. CASE UNCHANGED frames
      BY <1>24, <2>1 DEF fatal
    <2>2. CASE frames' = [i \in DOMAIN frames |-> [frames[i] EXCEPT !.at = "left"]]
      <3>1. /\ frames' \in Seq(Frame) /\ Len(frames') = Len(frames)
            /\ \A i \in 1..Len(frames) : frames'[i].at = "left"
        BY <2>2, FatalFrames DEF FramesOK
      <3>2. /\ (frames' = <<>>) <=> (frames = <<>>)
            /\ frames # <<>> => frames'[1].at = "left"
        BY <3>1 DEF FramesOK
      <3>. QED  BY <1>24, <3>1, <3>2 DEF fatal
    <2>. QED  BY <1>24, <2>1, <2>2 DEF fatal
  <1>25. CASE leave
    BY <1>25 DEF leave
  <1>26. CASE come_back
    BY <1>26 DEF come_back
  <1>27. CASE UNCHANGED vars
    BY <1>27 DEF vars
  <1>. QED
    BY <1>1, <1>2, <1>3, <1>4, <1>5, <1>6, <1>7, <1>8, <1>9, <1>10, <1>11, <1>12, <1>13,
       <1>14, <1>15, <1>16, <1>17, <1>18, <1>19, <1>20, <1>21, <1>22, <1>23, <1>24,
       <1>25, <1>26, <1>27 DEF Next, Main, vt_sig, Signals

\* While switches keep apart, the VT changes hands only when nothing draws and the
\* card is free, however main and the other signals interleave.
THEOREM QuietHandover == Spec => HandsOverQuietly
  <1>1. Init => QuietInv
    BY DEF Init, QuietInv, Quiet
  <1>2. TypeInv /\ QuietInv /\ [Next]_vars
        => [vt = "leaving" /\ vt' = "away" /\ ~crossed => ~g_is_active /\ ~master]_vars
    <2>. SUFFICES ASSUME FramesOK, Quiet, Next, vt = "leaving", vt' = "away"
                  PROVE  ~g_is_active /\ ~master
      BY DEF TypeInv, QuietInv
    <2>. USE DEF console, Quiet
    <2>1. CASE acquire_vt
      <3>1. frames # <<>> /\ frames[1].at = "acquire"
        BY <2>1, HandlerStep DEF acquire_vt, Steps
      <3>2. tty_open
        BY <2>1 DEF acquire_vt, reldisp
      <3>. QED  BY <3>1, <3>2
    <2>2. CASE release_vt
      <3>1. frames # <<>> /\ frames[1].at = "release"
        BY <2>2, HandlerStep DEF release_vt, Steps
      <3>. QED  BY <3>1
    <2>3. CASE Main
      BY <2>3 DEF Main, drm_mode_create, register_exit, sig_setup, spr16_server_init,
         initialized, watch_card, server_main, spr16_server_update,
         spr16_server_shutdown, drm_kms_destroy, vt_init, vt_init_step, textauto,
         vt_shutdown, exit, exit_func
    <2>4. CASE vt_sig /\ ~acquire_vt /\ ~release_vt
      BY <2>4 DEF vt_sig, card_set_master, drm_kms_connect_sfb, spr16_server_activate,
         unmute_input, spr16_server_deactivate, card_drop_master, mute_input
    <2>5. CASE Signals \/ leave \/ come_back
      BY <2>5 DEF Signals, deliver, stop, fatal, leave, come_back
    <2>. QED  BY <2>1, <2>2, <2>3, <2>4, <2>5 DEF Next
  <1>. QED  BY <1>1, <1>2, InitTyped, TypeStep, QuietStep, PTL DEF Spec, HandsOverQuietly
-----------------------------------------------------------------------------
(* After the handover.                                                     *)

\* The phases in which the kernel asks before it switches.
InService == {"save", "raw", "atexit", "sigs", "socket", "init", "watch", "loop", "wait",
              "update", "shutdown"}

Asked ==
  /\ pc \in InService => "process" \in term
  /\ pc \in {"create", "kbmode", "graphics", "process"} => "process" \notin term /\ switches = 0

\* What is left of a switch that met no other one.
HandedOver ==
  vt = "away" /\ switches > 0 /\ pc \in InService =>
    /\ ~master /\ pending = {}
    /\ frames # <<>> => frames[1].at \in {"mute", "left"}

HandedInv == ~crossed => HandedOver

LEMMA AskedStep == TypeInv /\ Asked /\ [Next]_vars => Asked'
  <1>. SUFFICES ASSUME TypeInv, Asked, [Next]_vars  PROVE Asked'
    OBVIOUS
  <1>. USE DEF Asked, InService, terminal, process, flags, server, drm, console, At
  <1>1. CASE vt_init
    BY <1>1 DEF vt_init, vt_init_step, textauto, vt_shutdown
  <1>2. CASE Main /\ ~vt_init
    BY <1>2 DEF Main, drm_mode_create, register_exit, sig_setup, spr16_server_init,
       initialized, watch_card, server_main, spr16_server_update, spr16_server_shutdown,
       drm_kms_destroy, exit
  <1>3. CASE vt_sig
    BY <1>3 DEF vt_sig, acquire_vt, card_set_master, drm_kms_connect_sfb,
       spr16_server_activate, unmute_input, spr16_server_deactivate, card_drop_master,
       release_vt, mute_input
  <1>4. CASE Signals
    BY <1>4 DEF Signals, deliver, stop, fatal, interrupt
  <1>5. CASE leave \/ come_back \/ UNCHANGED vars
    BY <1>5 DEF leave, come_back, vars
  <1>. QED  BY <1>1, <1>2, <1>3, <1>4, <1>5 DEF Next

\* A step of main takes nothing back.
LEMMA MainKeeps ==
  ASSUME Main, Asked, pc' \in InService
  PROVE  /\ pc \in InService \/ switches' = 0
         /\ UNCHANGED <<frames, pending, switches, vt, master>>
  <1>. USE DEF Asked, InService, terminal, process, flags, server, drm, console, At
  <1>1. CASE vt_init
    BY <1>1 DEF vt_init, vt_init_step, textauto, vt_shutdown
  <1>2. CASE Main /\ ~vt_init
    BY <1>2 DEF Main, drm_mode_create, register_exit, sig_setup, spr16_server_init,
       initialized, watch_card, server_main, spr16_server_update, spr16_server_shutdown,
       drm_kms_destroy, exit
  <1>. QED  BY <1>1, <1>2

\* A step of the only handler takes the VT or the master only while it is asked to.
LEMMA HandlerHands ==
  ASSUME FramesOK, Quiet, HandedOver, vt_sig
  PROVE  HandedOver'
  <1>. USE DEF terminal, process, flags, server, drm, console
  <1>1. pc' = pc /\ switches' = switches /\ pending' = pending
    BY DEF vt_sig, acquire_vt, card_set_master, drm_kms_connect_sfb,
       spr16_server_activate, unmute_input, spr16_server_deactivate, card_drop_master,
       release_vt, mute_input
  <1>2. CASE acquire_vt
    <2>1. frames # <<>> /\ frames[1].at = "acquire"
      BY <1>2, HandlerStep DEF acquire_vt, Steps
    <2>2. vt' = vt
      BY <1>2, <2>1 DEF Quiet, acquire_vt, reldisp
    <2>. QED  BY <1>1, <2>1, <2>2 DEF HandedOver
  <1>3. CASE card_set_master \/ drm_kms_connect_sfb \/ spr16_server_activate
             \/ spr16_server_deactivate \/ card_drop_master
    <2>1. /\ frames # <<>> /\ vt' = vt
          /\ frames[1].at \in {"set_master", "connect", "activate", "deactivate", "drop_master"}
      BY <1>3, HandlerStep
         DEF card_set_master, drm_kms_connect_sfb, spr16_server_activate,
             spr16_server_deactivate, card_drop_master, Steps
    <2>. QED  BY <1>1, <2>1 DEF HandedOver
  <1>4. CASE unmute_input \/ mute_input
    <2>1. frames' = <<>> /\ UNCHANGED <<vt, master>>
      BY <1>4, HandlerStep DEF unmute_input, mute_input, Steps, Quiet
    <2>. QED  BY <1>1, <2>1 DEF HandedOver
  <1>5. CASE release_vt
    <2>1. /\ frames # <<>> /\ frames[1].at = "release"
          /\ frames' # <<>> /\ frames'[1].at = "mute"
      BY <1>5, HandlerStep DEF release_vt, Steps
    <2>2. master' = master /\ ~master
      BY <1>5, <2>1 DEF Quiet, release_vt
    <2>3. vt = "leaving" /\ tty_open => pending' = {}
      BY <1>1, <2>1 DEF Quiet
    <2>4. vt' = "away" => (vt = "leaving" /\ tty_open) \/ vt = "away"
      BY <1>5 DEF release_vt, reldisp
    <2>. QED  BY <1>1, <2>1, <2>2, <2>3, <2>4 DEF HandedOver
  <1>. QED  BY <1>2, <1>3, <1>4, <1>5 DEF vt_sig

LEMMA HandedStep ==
  TypeInv /\ QuietInv /\ Asked /\ HandedInv /\ [Next]_vars => HandedInv'
  <1>. SUFFICES ASSUME FramesOK, Quiet, Asked, HandedOver, [Next]_vars, ~crossed'
                PROVE  HandedOver'
    BY CrossedStays DEF HandedInv, QuietInv, TypeInv
  <1>. USE DEF terminal, process, flags, server, drm, console
  <1>1. CASE Main
    BY <1>1, MainKeeps DEF HandedOver
  <1>2. CASE vt_sig
    BY <1>2, HandlerHands
  <1>3. ASSUME NEW s \in VtSignals, deliver(s)  PROVE HandedOver'
    <2>1. pending # {} /\ UNCHANGED <<vt, switches>>
      BY <1>3 DEF deliver
    <2>2. pc' \in InService => pc \in InService
      BY <1>3 DEF deliver, interrupt, InService
    <2>. QED  BY <2>1, <2>2 DEF HandedOver
  <1>4. CASE stop
    BY <1>4 DEF stop, interrupt, HandedOver, InService
  <1>5. CASE fatal
    BY <1>5 DEF fatal, HandedOver, InService
  <1>6. CASE leave
    BY <1>6 DEF leave, HandedOver, Asked, InService, Running
  <1>7. CASE come_back
    BY <1>7 DEF come_back, HandedOver
  <1>8. CASE UNCHANGED vars
    BY <1>8 DEF vars, HandedOver
  <1>. QED  BY <1>1, <1>2, <1>3, <1>4, <1>5, <1>6, <1>7, <1>8 DEF Next, Signals

\* The comment of fb.c:228 is true of every switch that met no other one: from
\* the handover until the VT comes back the server is not master of the card.
\* Nested handlers are the only cause of what DroppedWhenSwitched finds.
THEOREM MasterIsDropped == Spec => [](~crossed => DroppedWhenSwitched)
  <1>1. Init => QuietInv /\ Asked /\ HandedInv
    BY DEF Init, QuietInv, Quiet, Asked, HandedInv, HandedOver, InService
  <1>2. HandedInv => (~crossed => DroppedWhenSwitched)
    BY DEF HandedInv, HandedOver, DroppedWhenSwitched, InService
  <1>. QED
    BY <1>1, <1>2, InitTyped, TypeStep, QuietStep, AskedStep, HandedStep, PTL DEF Spec
=============================================================================
