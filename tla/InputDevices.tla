---------------------------- MODULE InputDevices ----------------------------
(***************************************************************************)
(* All that transceive_evdev of platform/linux/input.c handles: keyboards, *)
(* mice, a multi-touch surface and a trackpad, served by one thread.       *)
(***************************************************************************)
EXTENDS Surface, Trackpad

\* A surface is one or the other (is_trackpad of struct drv_evdev_pvt).
ASSUME DevicesAssumption == surface # trackpad

input_vars == <<vars, surface_vars, pad_vars>>

InputInit == Init /\ SurfaceInit /\ PadInit

InputNext ==
  \/ Next /\ blind' = (blind \/ missed) /\ UNCHANGED <<hardware, pvt, pad_vars>>
  \/ SurfaceNext /\ UNCHANGED pad_vars
  \/ PadNext /\ UNCHANGED surface_vars

InputSpec == InputInit /\ [][InputNext]_input_vars

-----------------------------------------------------------------------------

\* The types of the variables of the three modules.
InputTypeOK == TypeOK /\ SurfaceTypeOK /\ PadTypeOK

=============================================================================
