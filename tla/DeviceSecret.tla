---------------------------- MODULE DeviceSecret ----------------------------
(***************************************************************************)
(* The Unique Device Secret: DeviceSecretInitialize (DICE_Image/secret.c), *)
(* the two copies kept in flash (DICE_Image/arm/secret_storage.c), the     *)
(* flash driver that writes them (common/arm/flash.c) and read_uds, which  *)
(* hands the secret to the DICE engine (common/HWAbstraction.c).           *)
(*                                                                         *)
(* A copy is 32 bytes, exactly one flash word, so one HAL_FLASH_Program    *)
(* writes it.  The program counter stops wherever a reset leaves something *)
(* behind or the hardware may answer with an error; a reset may come at    *)
(* any of these points, and one that comes while a word is being           *)
(* programmed leaves any value in it.                                      *)
(***************************************************************************)
EXTENDS Naturals

CONSTANTS
  Values,      \* the contents a flash word may have
  Blank,       \* the content of a word never programmed: all 0xFF
  Unwritten,   \* what a caller's buffer holds when nothing was copied to it
  InsideDICE,  \* the linker placed both copies inside the DICE image
  Hardware,    \* the devices considered: does HAL_FLASH_Program answer HAL_OK
               \* on words it got wrong, is flash read through the D-cache?
  Unset, Lost  \* the states of UDSRegister without a secret

ASSUME BlankAssumption == Blank \in Values
ASSUME UnwrittenAssumption == Unwritten \notin Values
ASSUME InsideAssumption == InsideDICE \in BOOLEAN
ASSUME HardwareAssumption == Hardware \subseteq [misprograms : BOOLEAN, dcache : BOOLEAN]

VARIABLES
  hw,      \* the device, one of Hardware; never changes
  copy,    \* device_secret_1 and device_secret_2, as they are in flash
  stored,  \* the copies this boot has stored to: their D-cache lines hold secret
  secret,  \* DeviceSecretInitialize's local variable
  n,       \* the copy DeviceSecretSet is writing
  pc,      \* where the boot is
  issued   \* history: every value handed to the DICE engine, over all boots

vars == <<hw, copy, stored, secret, n, pc, issued>>

Copies == {1, 2}

PC == {"Get", "Generate", "Write", "Programming", "Verify", "ReadBack",
       "Initialized", "Derived", "Failed"}

\* What the CPU may see of copy c.  A store to a cached flash address updates
\* the D-cache line too, and nothing in Flash_Write invalidates it: a read that
\* hits the line sees what was stored, one that misses sees the flash.
View(c) == {copy[c]} \cup (IF hw.dcache /\ c \in stored THEN {secret} ELSE {})

\* IsSecretValid: some byte is not 0xFF.
IsSecretValid(s) == s # Blank

\* Mutant: only the first copy is looked at.
GetFirstCopy == {IF InsideDICE THEN v ELSE Unwritten : v \in View(1)}

\* DeviceSecretGet: the results it may return, Unwritten for an error.
DeviceSecretGet ==
  {IF InsideDICE /\ v1 = v2 THEN v1 ELSE Unwritten : v1 \in View(1), v2 \in View(2)}

Goto(l) == pc' = l

\* The all-0xFF initialisers of both copies, before the first boot.
Init ==
  /\ hw \in Hardware
  /\ copy = [c \in Copies |-> Blank]
  /\ stored = {}
  /\ secret = Blank
  /\ n = 1
  /\ pc = "Get"
  /\ issued = {}

-----------------------------------------------------------------------------
(* DeviceSecretInitialize *)

\* The secret is there already: nothing else to do.
AlreadySet ==
  /\ pc = "Get"
  /\ \E v \in DeviceSecretGet \ {Unwritten} :
       IsSecretValid(v) /\ secret' = v
  /\ Goto("Initialized")
  /\ UNCHANGED <<hw, copy, stored, n, issued>>

\* Mutant: a secret is generated on every boot.
AlwaysGenerate ==
  /\ pc = "Get"
  /\ DeviceSecretGet # {Unwritten}
  /\ Goto("Generate")
  /\ UNCHANGED <<hw, copy, stored, secret, n, issued>>

\* Both copies are blank: a secret has to be generated.
NotSetYet ==
  /\ pc = "Get"
  /\ \E v \in DeviceSecretGet \ {Unwritten} : ~IsSecretValid(v)
  /\ Goto("Generate")
  /\ UNCHANGED <<hw, copy, stored, secret, n, issued>>

\* Mutant: copies that differ are written anew.
GenerateAgain ==
  /\ pc = "Get"
  /\ Unwritten \in DeviceSecretGet
  /\ Goto("Generate")
  /\ UNCHANGED <<hw, copy, stored, secret, n, issued>>

\* The copies differ: "This HW is unusable."
GetFails ==
  /\ pc = "Get"
  /\ Unwritten \in DeviceSecretGet
  /\ Goto("Failed")
  /\ UNCHANGED <<hw, copy, stored, secret, n, issued>>

\* Draw until the secret is not all 0xFF.
Generate ==
  /\ pc = "Generate"
  /\ secret' \in {s \in Values : IsSecretValid(s)}
  /\ n' = 1
  /\ Goto("Write")
  /\ UNCHANGED <<hw, copy, stored, issued>>

GenerateFails ==
  /\ pc = "Generate"
  /\ Goto("Failed")
  /\ UNCHANGED <<hw, copy, stored, secret, n, issued>>

\* The caller compares what it reads back with what it wrote.
ReadBack ==
  /\ pc = "ReadBack"
  /\ \E v \in DeviceSecretGet :
       Goto(IF v = secret THEN "Initialized" ELSE "Failed")
  /\ UNCHANGED <<hw, copy, stored, secret, n, issued>>

-----------------------------------------------------------------------------
(* DeviceSecretSet and the Flash_Write of one word under it *)

\* HAL_FLASH_Unlock succeeds and the flash controller starts on the word.
StartProgram ==
  /\ pc = "Write"
  /\ Goto("Programming")
  /\ UNCHANGED <<hw, copy, stored, secret, n, issued>>

UnlockFails ==
  /\ pc = "Write"
  /\ Goto("Failed")
  /\ UNCHANGED <<hw, copy, stored, secret, n, issued>>

\* HAL_FLASH_Program answers HAL_OK.
ProgramDone ==
  /\ pc = "Programming"
  /\ \E w \in (IF hw.misprograms THEN Values ELSE {secret}) :
       copy' = [copy EXCEPT ![n] = w]
  /\ stored' = stored \cup {n}
  /\ Goto("Verify")
  /\ UNCHANGED <<hw, secret, n, issued>>

\* HAL_FLASH_Program reports an error: the word may hold anything.
ProgramFails ==
  /\ pc = "Programming"
  /\ \E w \in Values : copy' = [copy EXCEPT ![n] = w]
  /\ stored' = stored \cup {n}
  /\ Goto("Failed")
  /\ UNCHANGED <<hw, secret, n, issued>>

\* Mutant: the loop over the copies has no end.
VerifyOkForEver ==
  /\ pc = "Verify"
  /\ secret \in View(n)
  /\ n' = n + 1 /\ Goto("Write")
  /\ UNCHANGED <<hw, copy, stored, secret, issued>>

\* The memcmp of Flash_Write agrees and HAL_FLASH_Lock succeeds.
VerifyOk ==
  /\ pc = "Verify"
  /\ secret \in View(n)
  /\ IF n = 1 THEN n' = 2 /\ Goto("Write") ELSE n' = n /\ Goto("ReadBack")
  /\ UNCHANGED <<hw, copy, stored, secret, issued>>

VerifyFails ==
  /\ pc = "Verify"
  /\ View(n) # {secret}
  /\ Goto("Failed")
  /\ UNCHANGED <<hw, copy, stored, secret, n, issued>>

\* The word is good, but the controller can't be locked again.
LockFails ==
  /\ pc = "Verify"
  /\ secret \in View(n)
  /\ Goto("Failed")
  /\ UNCHANGED <<hw, copy, stored, secret, n, issued>>

-----------------------------------------------------------------------------
(* The rest of the boot *)

\* read_uds ignores an error of DeviceSecretGet: the engine then works on a
\* buffer nothing was copied to.
ReadUDS ==
  /\ pc = "Initialized"
  /\ \E v \in DeviceSecretGet : issued' = issued \cup {v}
  /\ Goto("Derived")
  /\ UNCHANGED <<hw, copy, stored, secret, n>>

\* Power loss or any other reset.  RAM and the D-cache start afresh; a word
\* that was being programmed may hold anything.
Reset ==
  /\ pc # "Get"
  /\ IF pc = "Programming"
       THEN \E w \in Values : copy' = [copy EXCEPT ![n] = w]
       ELSE UNCHANGED copy
  /\ stored' = {}
  /\ secret' = Blank
  /\ n' = 1
  /\ Goto("Get")
  /\ UNCHANGED <<hw, issued>>

Next ==
  \/ AlreadySet \/ NotSetYet \/ GetFails
  \/ Generate \/ GenerateFails
  \/ StartProgram \/ UnlockFails \/ ProgramDone \/ ProgramFails
  \/ VerifyOk \/ VerifyFails \/ LockFails
  \/ ReadBack \/ ReadUDS \/ Reset

Spec == Init /\ [][Next]_vars

-----------------------------------------------------------------------------
(* Properties *)

TypeOK ==
  /\ hw \in Hardware
  /\ copy \in [Copies -> Values]
  /\ stored \in SUBSET Copies
  /\ secret \in Values
  /\ n \in Copies
  /\ pc \in PC
  /\ issued \in SUBSET (Values \cup {Unwritten})

\* No device hides a misprogrammed word behind a D-cache line.
VerifySeesFlash == \A h \in Hardware : ~(h.misprograms /\ h.dcache)

\* All the boots of a device derive their identity from one secret, whatever
\* resets, torn words and flash errors happened while it was provisioned, and
\* none from a buffer that read_uds left unwritten.
IdentityStable ==
  \A s, t \in issued : s = t /\ IsSecretValid(s) /\ s # Unwritten

\* DeviceSecretInitialize returns 0 only if the secret is in both copies
\* (secret.h: "if the secret is already set or if it has been correctly
\* generated").
SuccessMeansStored ==
  pc \in {"Initialized", "Derived"} =>
    IsSecretValid(secret) /\ \A c \in Copies : copy[c] = secret

\* A flash word is programmed only while it is blank: without an erase, the
\* hardware can't overwrite it, whatever sequence of failures came before.
ProgramOnlyBlank ==
  [][\A c \in Copies : copy'[c] # copy[c] => copy[c] = Blank]_vars

\* Once the copies disagree and no boot is at work on them, no later boot
\* ever gets past DeviceSecretInitialize ("This HW is unusable").
Unusable == copy[1] # copy[2] /\ pc \in {"Get", "Failed"}
UnusableForGood == [][Unusable => Unusable']_vars

-----------------------------------------------------------------------------
(* Refinement *)

\* The first copy is stored and the second one is still blank.
HalfWay ==
  /\ copy[1] = secret /\ copy[2] = Blank
  /\ \/ pc = "Verify" /\ n = 1
     \/ pc \in {"Write", "Programming"} /\ n = 2

reg ==
  CASE copy[1] = Blank /\ copy[2] = Blank -> Unset
    [] copy[1] = copy[2] /\ copy[1] # Blank -> copy[1]
    [] copy[1] # copy[2] -> IF HalfWay THEN Unset ELSE Lost

\* The two copies and the protocol that writes them implement the write-once
\* register of UDSRegister.
Register == INSTANCE UDSRegister WITH Secrets <- Values \ {Blank}
ImplementsRegister == Register!Spec

=============================================================================
