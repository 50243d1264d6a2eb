--------------------------- MODULE DeviceSecretMC ---------------------------
(* The devices for which TLC checks DeviceSecret. *)
EXTENDS DeviceSecret

\* Any but the one that hides what it got wrong: VerifySeesFlash.
MCHardware == [misprograms : BOOLEAN, dcache : BOOLEAN]
                \ {[misprograms |-> TRUE, dcache |-> TRUE]}

=============================================================================
