---------------------------- MODULE UDSRegister ----------------------------
(***************************************************************************)
(* What DICE promises about the Unique Device Secret: a register that is   *)
(* set at most once in the life of the device.  Provisioning either        *)
(* succeeds, for ever, or is interrupted and leaves the device unusable,   *)
(* for ever.  Every boot that gets as far as deriving its identity uses    *)
(* the one value of the register.                                          *)
(***************************************************************************)
CONSTANTS
  Secrets,   \* the values a provisioned register may hold
  Unset,     \* the register of a device fresh from the linker
  Lost       \* the register of a device whose provisioning was torn

VARIABLES
  reg,       \* the register
  issued     \* every value ever handed to the DICE engine

vars == <<reg, issued>>

Init == reg = Unset /\ issued = {}

\* The secret is generated and stored, once.
Provision ==
  /\ reg = Unset
  /\ reg' \in Secrets
  /\ UNCHANGED issued

\* Provisioning is torn: the device never boots again.
Lose ==
  /\ reg = Unset
  /\ reg' = Lost
  /\ UNCHANGED issued

\* A boot hands the secret to the DICE engine.
Issue ==
  /\ reg \in Secrets
  /\ issued' = issued \cup {reg}
  /\ UNCHANGED reg

Next == Provision \/ Lose \/ Issue

Spec == Init /\ [][Next]_vars

=============================================================================
