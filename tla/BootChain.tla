----------------------------- MODULE BootChain -----------------------------
(***************************************************************************)
(* The boot of a device: DICE, L0 and L1, one after the other on one core, *)
(* what they leave in flash and in the shared SRAM4, the reset flags, and  *)
(* the resets that may come at any point of it.                            *)
(*                                                                         *)
(* One action stands for what an image does between two points at which a  *)
(* reset would leave different things behind.  The UDS is the write-once   *)
(* register of UDSRegister, which DeviceSecret implements.  A core that    *)
(* hangs is taken out by the watchdogs: by the software one, an interrupt, *)
(* when it is armed and interrupts are served, else by the IWDG.           *)
(***************************************************************************)
EXTENDS Naturals

CONSTANTS
  Secrets, Unset, Lost,  \* see UDSRegister
  L1Images,    \* the contents the L1 slot of the flash may have
  SignedL1,    \* those whose header and hash verify against the key manifest
  Garbled,     \* an L1 whose header gives a size that runs out of the flash
  Stray,       \* what lies where a wrong L0 header says that L1 is
  None,        \* no value
  Residue,     \* what SRAM4 holds after power-on
  Builds,      \* the build options considered
  MaxFaults    \* bound: external resets, hangs and exceptions in a behaviour

ASSUME SecretsAssumption == {Unset, Lost, None} \cap Secrets = {}
ASSUME L1Assumption == SignedL1 \subseteq L1Images /\ Garbled \notin SignedL1
ASSUME BuildsAssumption ==
  Builds \subseteq [ignoreProtections : BOOLEAN, setRss : BOOLEAN, scarCurrent : BOOLEAN]
ASSUME MaxFaultsAssumption == MaxFaults \in Nat

VARIABLES
  \* what never changes: the build, the board, the option bytes but for SCAR
  build, nucleo, optionsOk,
  \* non-volatile: secure area set up, L0 and L1 images, L0's pointer to L1, UDS
  scar, l0, l1, offsetOk, reg, issued,
  \* SRAM4, kept over every reset but a loss of power
  dice_l0, l0_l1,
  \* hardware: the RCC reset flags, the IWDG
  flags, iwdg,
  \* the running image: where it is, its SW watchdog, last_reset_reason, the
  \* image at L1's entry point, L1's test_failed
  pc, swdog, reason, running, test_failed,
  \* history: the most recent reset; whether every watchdog reset since power-on
  \* has been noticed by DICE; the identities that L1 has been given
  last, noticed, given,
  faults

config == <<build, nucleo, optionsOk>>
flash  == <<scar, l0, l1, offsetOk, reg, issued>>
shared == <<dice_l0, l0_l1>>
hw     == <<flags, iwdg>>
image  == <<swdog, reason, running, test_failed>>
hist   == <<last, noticed, given, faults>>
vars   == <<config, flash, shared, hw, pc, image, hist>>

UDS == INSTANCE UDSRegister

Resets == {"power", "pin", "iwdg", "system", "core"}

DICEStages == {"Boot", "Protections", "Reason", "Secret", "CleanDICE_L0",
               "HandleArgs", "DiceCore", "BootToL0"}
\* The part of DICE_main that recovery mode doesn't reach.
NormalBoot == DICEStages \ {"Boot", "Protections", "Reason"}
L0Stages == {"L0", "CleanL0_L1", "L0HandleArgs", "L0Core", "ClearDICE_L0", "BootToL1"}
L1Stages == {"L1", "L1Tests", "L1Menu", "L1Corrupted"}
\* "Hang": the while (1) at the end of a main().  "Stuck", "Masked": the core is
\* caught anywhere else, with interrupts served or not.
Hung == {"Hang", "Stuck", "Masked"}

Cleared == [hw |-> FALSE, dice |-> FALSE, cdi |-> None]
Zero    == [hw |-> FALSE, dice |-> FALSE, l0 |-> FALSE, alias |-> None]

\* The flags each reset sets; the NRST line is driven by all of them but a
\* reset of the core alone (RCC->AHB3RSTR in System_Reset).
ResetFlags ==
  [power |-> {"PIN"}, pin |-> {"PIN"}, iwdg |-> {"IWDG", "PIN"},
   system |-> {"SFT", "PIN"}, core |-> {}]

\* Mutant: the software reset is looked at first.
SoftwareFirst(f) ==
  IF "SFT" \in f THEN "SW_RESET"
  ELSE IF "IWDG" \in f THEN "WATCHDOG"
  ELSE IF "PIN" \in f THEN "HW_RESET" ELSE "UNKNOWN"

\* ResetReason_Update: the first flag of these decides.
ReasonOf(f) ==
  IF "IWDG" \in f THEN "WATCHDOG"
  ELSE IF "LPWR" \in f THEN "LOW_POWER"
  ELSE IF "SFT" \in f THEN "SW_RESET"
  ELSE IF "PIN" \in f THEN "HW_RESET" ELSE "UNKNOWN"

Init ==
  /\ build \in Builds /\ nucleo \in BOOLEAN /\ optionsOk \in BOOLEAN
  /\ scar \in BOOLEAN /\ l0 = "good" /\ l1 \in L1Images /\ offsetOk \in BOOLEAN
  /\ UDS!Init
  /\ dice_l0 = Residue /\ l0_l1 = Residue
  /\ flags = ResetFlags["power"] /\ iwdg = FALSE
  /\ pc = "Boot" /\ swdog = FALSE /\ reason = "UNKNOWN"
  /\ running = None /\ test_failed = FALSE
  /\ last = "power" /\ noticed = TRUE /\ given = {} /\ faults = 0

\* Everything a reset does, whatever caused it.  One that cuts the writing of
\* the secret short may leave it stored, torn or not begun (DeviceSecret).
ResetTo(kind) ==
  /\ flags' = (IF kind = "power" THEN {} ELSE flags) \cup ResetFlags[kind]
  /\ iwdg' \in (IF kind = "core" THEN {FALSE, iwdg} ELSE {FALSE})
  /\ IF kind = "power" THEN dice_l0' = Residue /\ l0_l1' = Residue
                       ELSE UNCHANGED shared
  /\ pc' = "Boot" /\ swdog' = FALSE /\ reason' = "UNKNOWN"
  /\ running' = None /\ test_failed' = FALSE
  /\ last' = kind
  /\ noticed' = (kind = "power" \/ (noticed /\ kind # "iwdg"))
  /\ UNCHANGED given

MayTearSecret ==
  IF pc = "Secret" /\ reg = Unset
    THEN reg' \in Secrets \cup {Unset, Lost} /\ UNCHANGED issued
    ELSE UNCHANGED <<reg, issued>>

Step(from, to) ==
  /\ pc = from /\ pc' = to
  /\ UNCHANGED <<config, hist>>

\* DICE_main returns an error: main() ends the SW watchdog and loops.
FailDICE(from) ==
  /\ Step(from, "Hang")
  /\ swdog' = FALSE
  /\ UNCHANGED <<running, test_failed>>

-----------------------------------------------------------------------------
(* DICE *)

\* main() up to DICE_main.  HAL_IWDG_Init starts the IWDG even when it fails,
\* and a failure to start the SW watchdog is only logged.
StartDICE ==
  /\ pc = "Boot" /\ pc' = "Protections"
  /\ iwdg' = TRUE
  /\ swdog' \in BOOLEAN
  /\ UNCHANGED <<config, flash, shared, flags, reason, running, test_failed, hist>>

ProtectionsHold == build.ignoreProtections \/ (optionsOk /\ scar)

SetUpSecureArea == build.setRss /\ ~scar

\* Mutant: the result of the check is not looked at.
ProtectionsIgnored ==
  /\ Step("Protections", "Reason")
  /\ UNCHANGED <<flash, shared, hw, image>>

ProtectionsPass ==
  /\ build.scarCurrent /\ ~SetUpSecureArea /\ ProtectionsHold
  /\ Step("Protections", "Reason")
  /\ UNCHANGED <<flash, shared, hw, image>>

ProtectionsFail ==
  /\ build.scarCurrent /\ ~SetUpSecureArea /\ ~ProtectionsHold
  /\ FailDICE("Protections")
  /\ UNCHANGED <<flash, shared, hw, reason>>

\* EXPECTED_SCAR_CUR1 is outdated: "don't let the execution continue".
ProtectionsOutdated ==
  /\ ~build.scarCurrent
  /\ Step("Protections", "Stuck")
  /\ UNCHANGED <<flash, shared, hw, image>>

\* resetAndInitializeSecureAreas sets SCAR_CUR1 and resets the system.
ProtectionsSetRss ==
  /\ pc = "Protections" /\ build.scarCurrent /\ SetUpSecureArea
  /\ ResetTo("system")
  /\ scar' = TRUE
  /\ UNCHANGED <<config, l0, l1, offsetOk, reg, issued, faults>>

\* Mutant: the flags aren't cleared.
FlagsKept ==
  /\ pc = "Reason"
  /\ reason' = ReasonOf(flags)
  /\ noticed' = (noticed \/ reason' = "WATCHDOG")
  /\ IF reason' = "WATCHDOG" THEN pc' = "Hang" /\ swdog' = FALSE
                             ELSE pc' = "Secret" /\ UNCHANGED swdog
  /\ UNCHANGED <<config, flash, shared, hw, running, test_failed, last, given, faults>>

\* ResetReason_Update and the decision taken on its result.
UpdateReason ==
  /\ pc = "Reason"
  /\ reason' = ReasonOf(flags)
  /\ flags' = {}
  /\ noticed' = (noticed \/ reason' = "WATCHDOG")
  /\ IF reason' = "WATCHDOG" THEN pc' = "Hang" /\ swdog' = FALSE
                             ELSE pc' = "Secret" /\ UNCHANGED swdog
  /\ UNCHANGED <<config, flash, shared, iwdg, running, test_failed, last, given, faults>>

\* Mutant: a secret is generated on every boot.
SecretRegenerated ==
  /\ Step("Secret", "CleanDICE_L0")
  /\ reg' \in Secrets
  /\ UNCHANGED <<issued, scar, l0, l1, offsetOk, shared, hw, image>>

\* DeviceSecretInitialize returns 0: the secret is there, or is now.
SecretReady ==
  /\ Step("Secret", "CleanDICE_L0")
  /\ \/ reg \in Secrets /\ UNCHANGED <<reg, issued>>
     \/ UDS!Provision
  /\ UNCHANGED <<scar, l0, l1, offsetOk, shared, hw, image>>

\* It fails: before the flash is touched, or while it is, or for good.
SecretFails ==
  /\ FailDICE("Secret")
  /\ \/ reg \notin Secrets /\ UNCHANGED <<reg, issued>>
     \/ UDS!Lose \/ UDS!Provision
  /\ UNCHANGED <<scar, l0, l1, offsetOk, shared, hw, reason>>

\* RunDICE clears the memory it shares with L0.
CleanShared_DICE_L0 ==
  /\ Step("CleanDICE_L0", "HandleArgs")
  /\ dice_l0' = Cleared
  /\ UNCHANGED <<flash, l0_l1, hw, image>>

\* DICEHandleArgsAndDice passes the HW measurement and its version to L0.
DICEHandleArgs ==
  /\ Step("HandleArgs", "DiceCore")
  /\ dice_l0' = [dice_l0 EXCEPT !.hw = TRUE, !.dice = TRUE]
  /\ UNCHANGED <<flash, l0_l1, hw, image>>

\* Mutant: dice_main doesn't authenticate L0.
AnyL0 ==
  /\ Step("DiceCore", "BootToL0")
  /\ UDS!Issue
  /\ dice_l0' = [dice_l0 EXCEPT !.cdi = <<reg, l0>>]
  /\ UNCHANGED <<scar, l0, l1, offsetOk, l0_l1, hw, image>>

\* dice_main authenticates L0, reads the UDS and derives the CDI from both.
DiceMain ==
  /\ l0 = "good"
  /\ Step("DiceCore", "BootToL0")
  /\ UDS!Issue
  /\ dice_l0' = [dice_l0 EXCEPT !.cdi = <<reg, l0>>]
  /\ UNCHANGED <<scar, l0, l1, offsetOk, l0_l1, hw, image>>

\* L0 doesn't verify.
DiceMainFails ==
  /\ l0 # "good"
  /\ FailDICE("DiceCore")
  /\ UNCHANGED <<flash, shared, hw, reason>>

\* SW_Watchdog_End and LaunchImage.
BootToL0 ==
  /\ Step("BootToL0", "L0")
  /\ swdog' = FALSE
  /\ UNCHANGED <<flash, shared, hw, reason, running, test_failed>>

-----------------------------------------------------------------------------
(* L0 *)

StartL0 ==
  /\ Step("L0", "CleanL0_L1")
  /\ swdog' \in BOOLEAN
  /\ UNCHANGED <<flash, shared, hw, reason, running, test_failed>>

\* RunL0 clears the memory it shares with L1.
CleanShared_L0_L1 ==
  /\ Step("CleanL0_L1", "L0HandleArgs")
  /\ l0_l1' = Zero
  /\ UNCHANGED <<flash, dice_l0, hw, image>>

\* L0HandleArgs forwards the versions and the HW measurement.
L0HandleArgs ==
  /\ Step("L0HandleArgs", "L0Core")
  /\ l0_l1' = [l0_l1 EXCEPT !.dice = dice_l0.dice, !.hw = dice_l0.hw, !.l0 = TRUE]
  /\ UNCHANGED <<flash, dice_l0, hw, image>>

\* L0Core measures the image in the L1 slot and derives the alias key from it.
L0Core ==
  /\ l1 # Garbled
  /\ Step("L0Core", "ClearDICE_L0")
  /\ l0_l1' = [l0_l1 EXCEPT !.alias = <<dice_l0.cdi, l1>>]
  /\ UNCHANGED <<flash, dice_l0, hw, image>>

\* Measuring as many bytes as the header of L1 says faults at the end of flash.
L0CoreFaults ==
  /\ l1 = Garbled
  /\ Step("L0Core", "Masked")
  /\ UNCHANGED <<flash, shared, hw, image>>

\* Mutant: the CDI is left behind.
ClearNothing ==
  /\ Step("ClearDICE_L0", "BootToL1")
  /\ UNCHANGED <<flash, shared, hw, image>>

\* RunL0 clears what DICE passed to it.
ClearDICE_L0 ==
  /\ Step("ClearDICE_L0", "BootToL1")
  /\ dice_l0' = Cleared
  /\ UNCHANGED <<flash, l0_l1, hw, image>>

\* BootToL1 jumps where L0's header says L1 is, and only logs if that isn't
\* where the linker put it.
BootToL1 ==
  /\ Step("BootToL1", "L1")
  /\ running' = IF offsetOk THEN l1 ELSE Stray
  /\ swdog' = FALSE
  /\ UNCHANGED <<flash, shared, hw, reason, test_failed>>

-----------------------------------------------------------------------------
(* L1 *)

StartL1 ==
  /\ pc = "L1" /\ running # Stray /\ pc' = "L1Tests"
  /\ swdog' \in BOOLEAN
  /\ given' = given \cup {l0_l1.alias}
  /\ UNCHANGED <<config, flash, shared, hw, reason, running, test_failed, last, noticed, faults>>

\* What lies elsewhere isn't a vector table: the core faults.
StrayFaults ==
  /\ running = Stray
  /\ Step("L1", "Masked")
  /\ UNCHANGED <<flash, shared, hw, image>>

\* Test_ReadDICEL0SharedMemory is the only test that can fail.
L1Tests ==
  /\ Step("L1Tests", "L1Menu")
  /\ test_failed' = (dice_l0 # Cleared)
  /\ UNCHANGED <<flash, shared, hw, swdog, reason, running>>

\* L1_Menu returns at once on any other board, and main() loops.
L1MenuReturns ==
  /\ ~nucleo
  /\ Step("L1Menu", "Hang")
  /\ swdog' = FALSE
  /\ UNCHANGED <<flash, shared, hw, reason, running, test_failed>>

\* Test_Watchdog_SW: seven seconds without a reload of the SW watchdog.
TestWatchdogSW ==
  /\ pc = "L1Menu" /\ nucleo /\ swdog
  /\ ResetTo("core")
  /\ UNCHANGED <<config, flash, faults>>

\* Test_Watchdog_HW: nine seconds without a reload of the IWDG.
TestWatchdogHW ==
  /\ pc = "L1Menu" /\ nucleo /\ iwdg
  /\ ResetTo("iwdg")
  /\ UNCHANGED <<config, flash, faults>>

\* Test_CorruptActiveImage writes zeros over L0, or fails to, and L1 runs on.
TestCorruptActiveImage ==
  /\ nucleo
  /\ Step("L1Menu", "L1Corrupted")
  /\ l0' \in {l0, "corrupt"}
  /\ UNCHANGED <<scar, l1, offsetOk, reg, issued, shared, hw, image>>

\* NVIC_SystemReset, at its end.
CorruptedImageReset ==
  /\ pc = "L1Corrupted"
  /\ ResetTo("system")
  /\ UNCHANGED <<config, flash, faults>>

-----------------------------------------------------------------------------
(* Watchdogs and faults *)

\* The SW watchdog's interrupt finds no reload for three seconds.
SWWatchdogFires ==
  /\ pc = "Stuck" /\ swdog
  /\ ResetTo("core")
  /\ UNCHANGED <<config, flash, faults>>

\* Mutant: nothing reloads or stops the IWDG, and it never fires.
IWDGDead == FALSE /\ UNCHANGED vars

\* The IWDG isn't reloaded for eight seconds.
IWDGFires ==
  /\ iwdg
  /\ pc \in {"Hang", "Masked"} \/ (pc = "Stuck" /\ ~swdog)
  /\ ResetTo("iwdg")
  /\ UNCHANGED <<config, flash, faults>>

\* The core is caught in a loop, or in a fault handler: HAL_Delay never returns
\* there, as SysTick can't interrupt it.
GetStuck ==
  /\ faults < MaxFaults /\ faults' = faults + 1
  /\ pc \in DICEStages \cup L0Stages \cup L1Stages
  /\ pc' \in {"Stuck", "Masked"}
  /\ MayTearSecret
  /\ UNCHANGED <<config, scar, l0, l1, offsetOk, shared, hw, image, last, noticed, given>>

\* Loss of power or a pulse on NRST, at any time.
ExternalReset ==
  /\ faults < MaxFaults /\ faults' = faults + 1
  /\ \E kind \in {"power", "pin"} : ResetTo(kind)
  /\ MayTearSecret
  /\ UNCHANGED <<config, scar, l0, l1, offsetOk>>

DICENext ==
  \/ StartDICE
  \/ ProtectionsPass \/ ProtectionsFail \/ ProtectionsOutdated \/ ProtectionsSetRss
  \/ UpdateReason \/ SecretReady \/ SecretFails
  \/ CleanShared_DICE_L0 \/ DICEHandleArgs \/ DiceMain \/ DiceMainFails \/ BootToL0

L0Next ==
  \/ StartL0 \/ CleanShared_L0_L1 \/ L0HandleArgs \/ L0Core \/ L0CoreFaults
  \/ ClearDICE_L0 \/ BootToL1

L1Next ==
  \/ StartL1 \/ StrayFaults \/ L1Tests \/ L1MenuReturns
  \/ TestWatchdogSW \/ TestWatchdogHW
  \/ TestCorruptActiveImage \/ CorruptedImageReset

Next ==
  \/ DICENext \/ L0Next \/ L1Next
  \/ SWWatchdogFires \/ IWDGFires
  \/ GetStuck \/ ExternalReset

Spec == Init /\ [][Next]_vars

\* The core keeps executing, and a running watchdog counts on by itself.  Nobody
\* has to press a key in the menu, and secrets needn't be lost.
Fairness ==
  /\ WF_vars(DICENext) /\ WF_vars(L0Next)
  /\ WF_vars(StartL1 \/ StrayFaults \/ L1Tests \/ L1MenuReturns \/ CorruptedImageReset)
  /\ WF_vars(SWWatchdogFires) /\ WF_vars(IWDGFires)

FairSpec == Spec /\ Fairness

-----------------------------------------------------------------------------
(* Properties *)

AliasOf(u, image_) == <<<<u, "good">>, image_>>
Alias == {AliasOf(u, i) : u \in Secrets, i \in L1Images}
CDI   == {<<u, "good">> : u \in Secrets}

TypeOK ==
  /\ build \in Builds /\ nucleo \in BOOLEAN /\ optionsOk \in BOOLEAN
  /\ scar \in BOOLEAN /\ l0 \in {"good", "corrupt"} /\ l1 \in L1Images
  /\ offsetOk \in BOOLEAN
  /\ reg \in Secrets \cup {Unset, Lost} /\ issued \subseteq Secrets
  /\ dice_l0 \in {Residue} \cup [hw : BOOLEAN, dice : BOOLEAN, cdi : {None} \cup CDI]
  /\ l0_l1 \in {Residue} \cup
       [hw : BOOLEAN, dice : BOOLEAN, l0 : BOOLEAN, alias : {None} \cup Alias]
  /\ flags \subseteq {"PIN", "IWDG", "SFT"} /\ iwdg \in BOOLEAN
  /\ pc \in DICEStages \cup L0Stages \cup L1Stages \cup Hung
  /\ swdog \in BOOLEAN
  /\ reason \in {"UNKNOWN", "WATCHDOG", "SW_RESET", "HW_RESET"}
  /\ running \in {None, Stray} \cup L1Images
  /\ test_failed \in BOOLEAN
  /\ last \in Resets /\ noticed \in BOOLEAN
  /\ given \subseteq Alias /\ faults \in 0..MaxFaults

\* L1 runs with the identity of the device's one secret, of L0 and of itself,
\* with every version and the HW measurement filled in, and the CDI is gone, so
\* that its test of that passes: no field of the memory it is given is left over
\* from an earlier boot.
L1SeesItsOwnIdentity ==
  pc \in L1Stages /\ offsetOk =>
    /\ dice_l0 = Cleared /\ ~test_failed
    /\ l0_l1 = [hw |-> TRUE, dice |-> TRUE, l0 |-> TRUE, alias |-> AliasOf(reg, running)]

\* All the boots of a device give an L1 image one and the same identity.
SameImageSameIdentity == \A a, b \in given : a[2] = b[2] => a = b

\* No boot goes past DICE before a watchdog reset has been noticed, however
\* many resets of other kinds, or failed boots, came in between: only a loss of
\* power forgets it.
WatchdogResetNoticed ==
  pc \in NormalBoot \cup L0Stages \cup L1Stages => noticed

\* The secret is generated only once the protections that hide it are in force
\* ("Now that RDP protection is enabled we can generate the device secret."),
\* unless the build ignores them.
SecretGeneratedUnderProtection ==
  [][reg = Unset /\ reg' \in Secrets => build.ignoreProtections \/ (optionsOk /\ scar)]_vars

\* "Wait for the watchdog to reboot the CPU": once HW_Watchdog_Init has run, it
\* does, wherever the core hangs, in whatever image, with interrupts or without.
HangEnds == pc \in Hung /\ iwdg ~> pc = "Boot"

\* A healthy device boots up to L1's menu after a reset by power or by pin
\* if no watchdog reset is left to be noticed: recovery mode can be left.
Healthy ==
  /\ build.scarCurrent /\ ProtectionsHold /\ ~SetUpSecureArea
  /\ l0 = "good" /\ l1 # Garbled /\ offsetOk /\ reg \in Secrets
PinResetBoots ==
  (pc = "Boot" /\ Healthy /\ noticed /\ last \in {"power", "pin"} /\ faults = MaxFaults)
    ~> pc = "L1Menu"

\* "Next reboot should trigger a boot of the recovery image": once L0 is corrupt,
\* wherever L1 hangs or is reset before it resets the system itself, and however
\* many resets and hangs come later, the device ends up in recovery mode.  DICE gets
\* there by failing, which the watchdog ends, whose reset the next boot notices.
\* Only a hang before HW_Watchdog_Init, with no watchdog yet, can keep it from there.
RecoveryMode == pc = "Hang" /\ reason = "WATCHDOG"
CorruptL0EndsInRecovery ==
  l0 = "corrupt" ~> RecoveryMode \/ (pc \in Hung /\ ~iwdg)

-----------------------------------------------------------------------------
(* What comments and tests of the repository say, and the code does otherwise *)

\* FailAuthenticateL0: "DICE authenticates both L0 and L1".
L1Authentic == pc \in L1Stages => l1 \in SignedL1
=============================================================================
