------------------------------ MODULE Startup -------------------------------
(***************************************************************************)
(* main and spr16_server_init up to the first round of the server: the     *)
(* screen is set up, then the input devices are looked for.                *)
(***************************************************************************)
EXTENDS DisplaySetup, DeviceScan

StartupInit == DrmInit /\ ScanInit

\* Not begun, because the server failed to start before, or over.
scanning == doing # "loaded" /\ <<doing, dev_class>> # <<"environ", 1>>

\* main destroys the screen when server_main has returned.
StartupNext ==
  \/ DrmNext /\ (scanning => at' # "destroyed") /\ UNCHANGED scan_vars
  \/ at = "live" /\ ScanNext /\ UNCHANGED drm_vars

StartupSpec == StartupInit /\ [][StartupNext]_<<drm_vars, scan_vars>>

\* The types of the variables of both modules.
StartupTypeOK == DrmTypeOK /\ ScanTypeOK
=============================================================================
