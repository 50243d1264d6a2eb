------------------------------ MODULE FlashWord ------------------------------
(***************************************************************************)
(* A flash word as the callers of the flash driver know it: what           *)
(* Flash_Write and Flash_Erase may make of each word they are given, and   *)
(* what their success says about it.  Abstract; FlashDriver implements it  *)
(* for every word of flash, DeviceSecret for the copies of the secret.     *)
(***************************************************************************)
CONSTANTS
  Values,   \* the contents a flash word may have
  Blank     \* the content of a word that is erased

VARIABLES
  hw,      \* the device: may it misprogram a word unnoticed, is flash cached?
  word,    \* what the word holds
  data,    \* what a call is to store in it, Blank when there is no such call
  state    \* "Idle"; "Write", "Programming", "Verify" or "Erase" in a call;
           \* "Done" when the call has returned 0

vars == <<hw, word, data, state>>

Init == word \in Values /\ data = Blank /\ state = "Idle"

\* A call begins that is to store a value in the word, or to erase it.
Begin ==
  /\ state = "Idle"
  /\ \/ state' = "Write" /\ data' \in Values
     \/ state' = "Erase" /\ data' = Blank
  /\ UNCHANGED <<hw, word>>

Start ==
  /\ state = "Write" /\ state' = "Programming"
  /\ UNCHANGED <<hw, word, data>>

\* The controller says that the word is programmed.
Programmed ==
  /\ state = "Programming" /\ state' = "Verify"
  /\ word' \in Values
  /\ word' = data \/ hw.misprograms \/ word # Blank
  /\ UNCHANGED <<hw, data>>

\* It says that it isn't, or a reset comes.
Cut ==
  /\ state = "Programming" /\ state' = "Idle"
  /\ word' \in Values /\ data' = Blank
  /\ UNCHANGED hw

\* The sector of the word is erased, or fails to be, or a reset cuts it short.
Erase ==
  /\ state = "Erase" /\ word' \in Values
  /\ \/ state' = "Erase" /\ data' = data
     \/ state' = "Idle" /\ data' = Blank
  /\ UNCHANGED hw

\* The call returns 0: what it has read back, by way of the D-cache where there
\* is one, was what it had stored; or it has erased the word.
Succeed ==
  /\ state \in {"Verify", "Erase"} /\ state' = "Done"
  /\ state = "Verify" => word = data \/ hw.dcache
  /\ state = "Erase" => word = Blank \/ hw.misprograms
  /\ UNCHANGED <<hw, word, data>>

\* The call fails, at this word or at another one, or its caller goes on.
Leave ==
  /\ state \in {"Write", "Verify", "Erase", "Done"} /\ state' = "Idle"
  /\ data' = Blank
  /\ UNCHANGED <<hw, word>>

Next == Begin \/ Start \/ Programmed \/ Cut \/ Erase \/ Succeed \/ Leave

Spec == Init /\ [][Next]_vars

=============================================================================
