----------------------------- MODULE HandoverMC -----------------------------
(* The three images of the device, on both kinds of hardware. *)
EXTENDS Handover

MCImages == <<"DICE", "L0", "L1">>

=============================================================================
