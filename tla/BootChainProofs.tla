-------------------------- MODULE BootChainProofs --------------------------
(***************************************************************************)
(* Proofs about BootChain: what no order of resets, hangs and failures     *)
(* can break, for every set of images, secrets and builds, and any number  *)
(* of faults.                                                              *)
(*                                                                         *)
(* The invariant follows the program counter.  A watchdog reset not yet    *)
(* noticed leaves its flag set until UpdateReason, which turns the boot    *)
(* away; and between CheckProtections and the secret's generation nothing  *)
(* undoes the protections.  A second invariant says what each half of      *)
(* SRAM4 holds at each stage.                                              *)
(***************************************************************************)
EXTENDS BootChain, TLAPS

Unnoticed ==
  ~noticed => /\ "IWDG" \in flags
              /\ pc \in {"Boot", "Protections", "Reason"} \cup Hung

Protected == pc \in {"Reason", "Secret"} => ProtectionsHold

IInv == Unnoticed /\ Protected /\ noticed \in BOOLEAN

USE DEF IInv, Unnoticed, Protected, ProtectionsHold, Hung,
        DICEStages, NormalBoot, L0Stages, L1Stages

LEMMA InitIInv == Init => IInv
  BY DEF Init

\* A reset of any kind keeps the invariant.
LEMMA ResetIInv ==
  ASSUME NEW kind \in Resets, ResetTo(kind), IInv
  PROVE  IInv'
<1>1. /\ pc' = "Boot"
      /\ flags' = (IF kind = "power" THEN {} ELSE flags) \cup ResetFlags[kind]
      /\ noticed' = (kind = "power" \/ (noticed /\ kind # "iwdg"))
  BY DEF ResetTo
<1>2. ResetFlags["iwdg"] = {"IWDG", "PIN"}
  BY DEF ResetFlags
<1>3. ~noticed' => "IWDG" \in flags'
  BY <1>1, <1>2
<1> QED
  BY <1>1, <1>3

LEMMA StepIInv == IInv /\ [Next]_vars => IInv'
<1> SUFFICES ASSUME IInv, [Next]_vars PROVE IInv'
  OBVIOUS
<1> USE DEF config, flash, shared, hw, image, hist, Step, FailDICE
<1>1. CASE UNCHANGED vars
  BY <1>1 DEF vars
<1>2. CASE DICENext
  <2>1. CASE StartDICE
    BY <2>1 DEF StartDICE
  <2>2. CASE ProtectionsPass
    BY <2>2 DEF ProtectionsPass
  <2>3. CASE ProtectionsFail
    BY <2>3 DEF ProtectionsFail
  <2>4. CASE ProtectionsOutdated
    BY <2>4 DEF ProtectionsOutdated
  <2>5. CASE ProtectionsSetRss
    BY <2>5, ResetIInv DEF ProtectionsSetRss, Resets
  <2>6. CASE UpdateReason
    <3>1. noticed \/ reason' = "WATCHDOG"
      BY <2>6 DEF UpdateReason, ReasonOf
    <3>2. noticed'
      BY <2>6, <3>1 DEF UpdateReason
    <3> QED
      BY <2>6, <3>2 DEF UpdateReason
  <2>7. CASE SecretReady
    BY <2>7 DEF SecretReady
  <2>8. CASE SecretFails
    BY <2>8 DEF SecretFails
  <2>9. CASE CleanShared_DICE_L0
    BY <2>9 DEF CleanShared_DICE_L0
  <2>10. CASE DICEHandleArgs
    BY <2>10 DEF DICEHandleArgs
  <2>11. CASE DiceMain
    BY <2>11 DEF DiceMain
  <2>12. CASE DiceMainFails
    BY <2>12 DEF DiceMainFails
  <2>13. CASE BootToL0
    BY <2>13 DEF BootToL0
  <2> QED
    BY <1>2, <2>1, <2>2, <2>3, <2>4, <2>5, <2>6, <2>7, <2>8, <2>9, <2>10,
       <2>11, <2>12, <2>13 DEF DICENext
<1>3. CASE L0Next
  <2>1. CASE StartL0
    BY <2>1 DEF StartL0
  <2>2. CASE CleanShared_L0_L1
    BY <2>2 DEF CleanShared_L0_L1
  <2>3. CASE L0HandleArgs
    BY <2>3 DEF L0HandleArgs
  <2>4. CASE L0Core
    BY <2>4 DEF L0Core
  <2>5. CASE L0CoreFaults
    BY <2>5 DEF L0CoreFaults
  <2>6. CASE ClearDICE_L0
    BY <2>6 DEF ClearDICE_L0
  <2>7. CASE BootToL1
    BY <2>7 DEF BootToL1
  <2> QED
    BY <1>3, <2>1, <2>2, <2>3, <2>4, <2>5, <2>6, <2>7 DEF L0Next
<1>4. CASE L1Next
  <2>1. CASE StartL1
    BY <2>1 DEF StartL1
  <2>2. CASE StrayFaults
    BY <2>2 DEF StrayFaults
  <2>3. CASE L1Tests
    BY <2>3 DEF L1Tests
  <2>4. CASE L1MenuReturns
    BY <2>4 DEF L1MenuReturns
  <2>5. CASE TestWatchdogSW
    BY <2>5, ResetIInv DEF TestWatchdogSW, Resets
  <2>6. CASE TestWatchdogHW
    BY <2>6, ResetIInv DEF TestWatchdogHW, Resets
  <2>7. CASE TestCorruptActiveImage
    BY <2>7 DEF TestCorruptActiveImage
  <2>8. CASE CorruptedImageReset
    BY <2>8, ResetIInv DEF CorruptedImageReset, Resets
  <2> QED
    BY <1>4, <2>1, <2>2, <2>3, <2>4, <2>5, <2>6, <2>7, <2>8 DEF L1Next
<1>5. CASE SWWatchdogFires
  BY <1>5, ResetIInv DEF SWWatchdogFires, Resets
<1>6. CASE IWDGFires
  BY <1>6, ResetIInv DEF IWDGFires, Resets
<1>7. CASE GetStuck
  BY <1>7 DEF GetStuck
<1>8. CASE ExternalReset
  BY <1>8, ResetIInv DEF ExternalReset, Resets
<1> QED
  BY <1>1, <1>2, <1>3, <1>4, <1>5, <1>6, <1>7, <1>8 DEF Next

LEMMA Invariance == Spec => []IInv
  BY InitIInv, StepIInv, PTL DEF Spec

\* No boot gets past DICE's test of the reset reason while a watchdog reset
\* since power-on has gone unnoticed, whatever resets came after it.
THEOREM NoticedBeforeBoot == Spec => []WatchdogResetNoticed
<1>1. IInv => WatchdogResetNoticed
  BY DEF WatchdogResetNoticed
<1> QED
  BY <1>1, Invariance, PTL

\* No step stores a secret on a device whose protections aren't in force.
THEOREM ProtectedSecret == Spec => SecretGeneratedUnderProtection
<1> DEFINE Guarded == reg = Unset /\ reg' \in Secrets =>
                        build.ignoreProtections \/ (optionsOk /\ scar)
<1>1. IInv /\ [Next]_vars => [Guarded]_vars
  <2> SUFFICES ASSUME IInv, Next, reg = Unset, reg' \in Secrets
               PROVE  build.ignoreProtections \/ (optionsOk /\ scar)
    BY DEF vars
  <2>1. pc = "Secret"
    <3>1. reg' # reg
      BY SecretsAssumption
    <3> USE DEF config, flash, shared, hw, image, hist, Step, FailDICE
    <3>2. ~(DICENext /\ ~SecretReady /\ ~SecretFails)
      BY <3>1 DEF DICENext, StartDICE, ProtectionsPass, ProtectionsFail,
         ProtectionsOutdated, ProtectionsSetRss, UpdateReason, CleanShared_DICE_L0,
         DICEHandleArgs, DiceMain, DiceMainFails, BootToL0, UDS!Issue
    <3>3. ~L0Next
      BY <3>1 DEF L0Next, StartL0, CleanShared_L0_L1, L0HandleArgs, L0Core,
         L0CoreFaults, ClearDICE_L0, BootToL1
    <3>4. ~L1Next
      BY <3>1 DEF L1Next, StartL1, StrayFaults, L1Tests, L1MenuReturns,
         TestWatchdogSW, TestWatchdogHW, TestCorruptActiveImage, CorruptedImageReset
    <3>5. ~SWWatchdogFires /\ ~IWDGFires
      BY <3>1 DEF SWWatchdogFires, IWDGFires
    <3>6. GetStuck \/ ExternalReset => pc = "Secret"
      BY <3>1 DEF GetStuck, ExternalReset, MayTearSecret
    <3> QED
      BY <3>2, <3>3, <3>4, <3>5, <3>6 DEF Next, SecretReady, SecretFails
  <2> QED
    BY <2>1
<1> QED
  BY <1>1, Invariance, PTL DEF Spec, SecretGeneratedUnderProtection

-----------------------------------------------------------------------------
(* What is in SRAM4 at each stage *)

\* What DICE has passed on once dice_main is done, and L0 once L0Core is.
FromDICE == [hw |-> TRUE, dice |-> TRUE, cdi |-> <<reg, "good">>]
FromL0(a) == [hw |-> TRUE, dice |-> TRUE, l0 |-> TRUE, alias |-> a]

\* Each memory is cleared before it is filled, and filled in one boot.
DICE_L0Inv ==
  /\ pc = "HandleArgs" => dice_l0 = Cleared
  /\ pc = "DiceCore" => dice_l0 = [hw |-> TRUE, dice |-> TRUE, cdi |-> None]
  /\ pc \in {"BootToL0"} \cup (L0Stages \ {"BootToL1"}) => dice_l0 = FromDICE
  /\ pc \in {"BootToL1"} \cup L1Stages => dice_l0 = Cleared

L0_L1Inv ==
  /\ pc = "L0HandleArgs" => l0_l1 = Zero
  /\ pc = "L0Core" => l0_l1 = FromL0(None)
  /\ pc \in {"ClearDICE_L0", "BootToL1"} \cup L1Stages => l0_l1 = FromL0(AliasOf(reg, l1))

\* There is a secret from its generation on.
SecretInv == pc \in NormalBoot \cup L0Stages \cup L1Stages => pc = "Secret" \/ reg \in Secrets

RunningInv ==
  /\ pc \in L1Stages /\ offsetOk => running = l1
  /\ test_failed = FALSE

GivenInv == \A a \in given : reg \in Secrets /\ a = AliasOf(reg, a[2])

SInv == IInv /\ DICE_L0Inv /\ L0_L1Inv /\ SecretInv /\ RunningInv /\ GivenInv

\* Whatever a step does to the UDS, it does by a step of the register.
LEMMA RegisterStep ==
  ASSUME Next
  PROVE  UDS!Next \/ UNCHANGED <<reg, issued>>
<1> USE DEF config, flash, shared, hw, image, hist, Step, FailDICE
<1>1. CASE DICENext
  <2>1. CASE StartDICE
    BY <2>1 DEF UDS!Next, StartDICE
  <2>2. CASE ProtectionsPass
    BY <2>2 DEF UDS!Next, ProtectionsPass
  <2>3. CASE ProtectionsFail
    BY <2>3 DEF UDS!Next, ProtectionsFail
  <2>4. CASE ProtectionsOutdated
    BY <2>4 DEF UDS!Next, ProtectionsOutdated
  <2>5. CASE ProtectionsSetRss
    BY <2>5 DEF UDS!Next, ProtectionsSetRss
  <2>6. CASE UpdateReason
    BY <2>6 DEF UDS!Next, UpdateReason
  <2>7. CASE SecretReady
    BY <2>7 DEF UDS!Next, SecretReady, UDS!Provision
  <2>8. CASE SecretFails
    BY <2>8 DEF UDS!Next, SecretFails, UDS!Provision, UDS!Lose
  <2>9. CASE CleanShared_DICE_L0
    BY <2>9 DEF UDS!Next, CleanShared_DICE_L0
  <2>10. CASE DICEHandleArgs
    BY <2>10 DEF UDS!Next, DICEHandleArgs
  <2>11. CASE DiceMain
    BY <2>11 DEF UDS!Next, DiceMain, UDS!Issue
  <2>12. CASE DiceMainFails
    BY <2>12 DEF UDS!Next, DiceMainFails
  <2>13. CASE BootToL0
    BY <2>13 DEF UDS!Next, BootToL0
  <2> QED
    BY <1>1, <2>1, <2>2, <2>3, <2>4, <2>5, <2>6, <2>7, <2>8, <2>9, <2>10,
       <2>11, <2>12, <2>13 DEF DICENext
<1>2. CASE L0Next
  <2>1. CASE StartL0
    BY <2>1 DEF UDS!Next, StartL0
  <2>2. CASE CleanShared_L0_L1
    BY <2>2 DEF UDS!Next, CleanShared_L0_L1
  <2>3. CASE L0HandleArgs
    BY <2>3 DEF UDS!Next, L0HandleArgs
  <2>4. CASE L0Core
    BY <2>4 DEF UDS!Next, L0Core
  <2>5. CASE L0CoreFaults
    BY <2>5 DEF UDS!Next, L0CoreFaults
  <2>6. CASE ClearDICE_L0
    BY <2>6 DEF UDS!Next, ClearDICE_L0
  <2>7. CASE BootToL1
    BY <2>7 DEF UDS!Next, BootToL1
  <2> QED
    BY <1>2, <2>1, <2>2, <2>3, <2>4, <2>5, <2>6, <2>7 DEF L0Next
<1>3. CASE L1Next
  <2>1. CASE StartL1
    BY <2>1 DEF UDS!Next, StartL1
  <2>2. CASE StrayFaults
    BY <2>2 DEF UDS!Next, StrayFaults
  <2>3. CASE L1Tests
    BY <2>3 DEF UDS!Next, L1Tests
  <2>4. CASE L1MenuReturns
    BY <2>4 DEF UDS!Next, L1MenuReturns
  <2>5. CASE TestWatchdogSW
    BY <2>5 DEF UDS!Next, TestWatchdogSW
  <2>6. CASE TestWatchdogHW
    BY <2>6 DEF UDS!Next, TestWatchdogHW
  <2>7. CASE TestCorruptActiveImage
    BY <2>7 DEF UDS!Next, TestCorruptActiveImage
  <2>8. CASE CorruptedImageReset
    BY <2>8 DEF UDS!Next, CorruptedImageReset
  <2> QED
    BY <1>3, <2>1, <2>2, <2>3, <2>4, <2>5, <2>6, <2>7, <2>8 DEF L1Next
<1>4. CASE SWWatchdogFires
  BY <1>4 DEF UDS!Next, SWWatchdogFires
<1>5. CASE IWDGFires
  BY <1>5 DEF UDS!Next, IWDGFires
<1>6. CASE GetStuck
  BY <1>6 DEF UDS!Next, GetStuck, MayTearSecret, UDS!Lose, UDS!Provision
<1>7. CASE ExternalReset
  BY <1>7 DEF UDS!Next, ExternalReset, MayTearSecret, UDS!Lose, UDS!Provision
<1> QED
  BY <1>1, <1>2, <1>3, <1>4, <1>5, <1>6, <1>7 DEF Next

\* A secret that is there stays.
LEMMA SecretKept ==
  ASSUME Next, reg \in Secrets
  PROVE  reg' = reg
  BY RegisterStep, SecretsAssumption DEF UDS!Next, UDS!Provision, UDS!Lose, UDS!Issue

\* Where the boot begins nothing is said of the memories.
LEMMA ResetSInv ==
  ASSUME NEW kind \in Resets, ResetTo(kind)
  PROVE  DICE_L0Inv' /\ L0_L1Inv' /\ SecretInv' /\ RunningInv'
  BY DEF ResetTo, DICE_L0Inv, L0_L1Inv, SecretInv, RunningInv

\* The memory that DICE hands to L0, and L0 clears.
LEMMA DICE_L0Step ==
  ASSUME SInv, Next
  PROVE  DICE_L0Inv'
<1> USE DEF config, flash, shared, hw, image, hist, Step, FailDICE
<1>1. CASE DICENext
  <2>1. CASE StartDICE
    BY <2>1, SecretKept DEF StartDICE, SInv, DICE_L0Inv, SecretInv, FromDICE
  <2>2. CASE ProtectionsPass
    BY <2>2, SecretKept DEF ProtectionsPass, SInv, DICE_L0Inv, SecretInv, FromDICE
  <2>3. CASE ProtectionsFail
    BY <2>3, SecretKept DEF ProtectionsFail, SInv, DICE_L0Inv, SecretInv, FromDICE
  <2>4. CASE ProtectionsOutdated
    BY <2>4, SecretKept DEF ProtectionsOutdated, SInv, DICE_L0Inv, SecretInv, FromDICE
  <2>5. CASE ProtectionsSetRss
    BY <2>5, SecretKept, ResetSInv DEF ProtectionsSetRss, Resets
  <2>6. CASE UpdateReason
    BY <2>6, SecretKept DEF UpdateReason, SInv, DICE_L0Inv, SecretInv, FromDICE
  <2>7. CASE SecretReady
    BY <2>7, SecretKept DEF SecretReady, UDS!Provision, SInv, DICE_L0Inv, SecretInv, FromDICE
  <2>8. CASE SecretFails
    BY <2>8, SecretKept DEF SecretFails, UDS!Provision, UDS!Lose, SInv, DICE_L0Inv, SecretInv, FromDICE
  <2>9. CASE CleanShared_DICE_L0
    BY <2>9, SecretKept DEF CleanShared_DICE_L0, SInv, DICE_L0Inv, SecretInv, FromDICE
  <2>10. CASE DICEHandleArgs
    <3>1. dice_l0 = [hw |-> FALSE, dice |-> FALSE, cdi |-> None]
      BY <2>10 DEF DICEHandleArgs, SInv, DICE_L0Inv, Cleared
    <3>2. dice_l0' = [dice_l0 EXCEPT !.hw = TRUE, !.dice = TRUE] /\ pc' = "DiceCore"
      BY <2>10 DEF DICEHandleArgs
    <3>3. dice_l0' = [hw |-> TRUE, dice |-> TRUE, cdi |-> None]
      BY <3>1, <3>2
    <3> QED
      BY <3>2, <3>3 DEF DICE_L0Inv
  <2>11. CASE DiceMain
    <3>1. dice_l0 = [hw |-> TRUE, dice |-> TRUE, cdi |-> None]
      BY <2>11 DEF DiceMain, SInv, DICE_L0Inv
    <3>2. dice_l0' = [dice_l0 EXCEPT !.cdi = <<reg, "good">>] /\ pc' = "BootToL0" /\ reg' = reg
      BY <2>11 DEF DiceMain, UDS!Issue
    <3>3. dice_l0' = [hw |-> TRUE, dice |-> TRUE, cdi |-> <<reg, "good">>]
      BY <3>1, <3>2
    <3> QED
      BY <3>2, <3>3 DEF DICE_L0Inv, FromDICE
  <2>12. CASE DiceMainFails
    BY <2>12, SecretKept DEF DiceMainFails, SInv, DICE_L0Inv, SecretInv, FromDICE
  <2>13. CASE BootToL0
    BY <2>13, SecretKept DEF BootToL0, SInv, DICE_L0Inv, SecretInv, FromDICE
  <2> QED
    BY <1>1, <2>1, <2>2, <2>3, <2>4, <2>5, <2>6, <2>7, <2>8, <2>9, <2>10,
       <2>11, <2>12, <2>13 DEF DICENext
<1>2. CASE L0Next
  <2>1. CASE StartL0
    BY <2>1, SecretKept DEF StartL0, SInv, DICE_L0Inv, SecretInv, FromDICE
  <2>2. CASE CleanShared_L0_L1
    BY <2>2, SecretKept DEF CleanShared_L0_L1, SInv, DICE_L0Inv, SecretInv, FromDICE
  <2>3. CASE L0HandleArgs
    BY <2>3, SecretKept DEF L0HandleArgs, SInv, DICE_L0Inv, SecretInv, FromDICE
  <2>4. CASE L0Core
    BY <2>4, SecretKept DEF L0Core, SInv, DICE_L0Inv, SecretInv, FromDICE
  <2>5. CASE L0CoreFaults
    BY <2>5, SecretKept DEF L0CoreFaults, SInv, DICE_L0Inv, SecretInv, FromDICE
  <2>6. CASE ClearDICE_L0
    BY <2>6, SecretKept DEF ClearDICE_L0, SInv, DICE_L0Inv, SecretInv, FromDICE
  <2>7. CASE BootToL1
    BY <2>7, SecretKept DEF BootToL1, SInv, DICE_L0Inv, SecretInv, FromDICE
  <2> QED
    BY <1>2, <2>1, <2>2, <2>3, <2>4, <2>5, <2>6, <2>7 DEF L0Next
<1>3. CASE L1Next
  <2>1. CASE StartL1
    BY <2>1, SecretKept DEF StartL1, SInv, DICE_L0Inv, SecretInv, FromDICE
  <2>2. CASE StrayFaults
    BY <2>2, SecretKept DEF StrayFaults, SInv, DICE_L0Inv, SecretInv, FromDICE
  <2>3. CASE L1Tests
    BY <2>3, SecretKept DEF L1Tests, SInv, DICE_L0Inv, SecretInv, FromDICE
  <2>4. CASE L1MenuReturns
    BY <2>4, SecretKept DEF L1MenuReturns, SInv, DICE_L0Inv, SecretInv, FromDICE
  <2>5. CASE TestWatchdogSW
    BY <2>5, SecretKept, ResetSInv DEF TestWatchdogSW, Resets
  <2>6. CASE TestWatchdogHW
    BY <2>6, SecretKept, ResetSInv DEF TestWatchdogHW, Resets
  <2>7. CASE TestCorruptActiveImage
    BY <2>7, SecretKept DEF TestCorruptActiveImage, SInv, DICE_L0Inv, SecretInv, FromDICE
  <2>8. CASE CorruptedImageReset
    BY <2>8, SecretKept, ResetSInv DEF CorruptedImageReset, Resets
  <2> QED
    BY <1>3, <2>1, <2>2, <2>3, <2>4, <2>5, <2>6, <2>7, <2>8 DEF L1Next
<1>4. CASE SWWatchdogFires
  BY <1>4, SecretKept, ResetSInv DEF SWWatchdogFires, Resets
<1>5. CASE IWDGFires
  BY <1>5, SecretKept, ResetSInv DEF IWDGFires, Resets
<1>6. CASE GetStuck
  BY <1>6, SecretKept DEF GetStuck, MayTearSecret, SInv, DICE_L0Inv, SecretInv, FromDICE
<1>7. CASE ExternalReset
  BY <1>7, SecretKept, ResetSInv DEF ExternalReset, MayTearSecret, Resets
<1> QED
  BY <1>1, <1>2, <1>3, <1>4, <1>5, <1>6, <1>7 DEF Next

\* The memory that L0 hands to L1.
LEMMA L0_L1Step ==
  ASSUME SInv, Next
  PROVE  L0_L1Inv'
<1> USE DEF config, flash, shared, hw, image, hist, Step, FailDICE
<1>1. CASE DICENext
  <2>1. CASE StartDICE
    BY <2>1, SecretKept DEF StartDICE, SInv, L0_L1Inv, SecretInv
  <2>2. CASE ProtectionsPass
    BY <2>2, SecretKept DEF ProtectionsPass, SInv, L0_L1Inv, SecretInv
  <2>3. CASE ProtectionsFail
    BY <2>3, SecretKept DEF ProtectionsFail, SInv, L0_L1Inv, SecretInv
  <2>4. CASE ProtectionsOutdated
    BY <2>4, SecretKept DEF ProtectionsOutdated, SInv, L0_L1Inv, SecretInv
  <2>5. CASE ProtectionsSetRss
    BY <2>5, SecretKept, ResetSInv DEF ProtectionsSetRss, Resets
  <2>6. CASE UpdateReason
    BY <2>6, SecretKept DEF UpdateReason, SInv, L0_L1Inv, SecretInv
  <2>7. CASE SecretReady
    BY <2>7, SecretKept DEF SecretReady, UDS!Provision, SInv, L0_L1Inv, SecretInv
  <2>8. CASE SecretFails
    BY <2>8, SecretKept DEF SecretFails, UDS!Provision, UDS!Lose, SInv, L0_L1Inv, SecretInv
  <2>9. CASE CleanShared_DICE_L0
    BY <2>9, SecretKept DEF CleanShared_DICE_L0, SInv, L0_L1Inv, SecretInv
  <2>10. CASE DICEHandleArgs
    BY <2>10, SecretKept DEF DICEHandleArgs, SInv, L0_L1Inv, SecretInv
  <2>11. CASE DiceMain
    BY <2>11, SecretKept DEF DiceMain, UDS!Issue, SInv, L0_L1Inv, SecretInv
  <2>12. CASE DiceMainFails
    BY <2>12, SecretKept DEF DiceMainFails, SInv, L0_L1Inv, SecretInv
  <2>13. CASE BootToL0
    BY <2>13, SecretKept DEF BootToL0, SInv, L0_L1Inv, SecretInv
  <2> QED
    BY <1>1, <2>1, <2>2, <2>3, <2>4, <2>5, <2>6, <2>7, <2>8, <2>9, <2>10,
       <2>11, <2>12, <2>13 DEF DICENext
<1>2. CASE L0Next
  <2>1. CASE StartL0
    BY <2>1, SecretKept DEF StartL0, SInv, L0_L1Inv, SecretInv
  <2>2. CASE CleanShared_L0_L1
    BY <2>2, SecretKept DEF CleanShared_L0_L1, SInv, L0_L1Inv, SecretInv
  <2>3. CASE L0HandleArgs
    <3>1. /\ dice_l0 = [hw |-> TRUE, dice |-> TRUE, cdi |-> <<reg, "good">>]
          /\ l0_l1 = [hw |-> FALSE, dice |-> FALSE, l0 |-> FALSE, alias |-> None]
      BY <2>3 DEF L0HandleArgs, SInv, DICE_L0Inv, L0_L1Inv, FromDICE, Zero
    <3>2. /\ l0_l1' = [l0_l1 EXCEPT !.dice = dice_l0.dice, !.hw = dice_l0.hw, !.l0 = TRUE]
          /\ pc' = "L0Core"
      BY <2>3 DEF L0HandleArgs
    <3>3. l0_l1' = [hw |-> TRUE, dice |-> TRUE, l0 |-> TRUE, alias |-> None]
      BY <3>1, <3>2
    <3> QED
      BY <3>2, <3>3 DEF L0_L1Inv, FromL0
  <2>4. CASE L0Core
    <3>1. /\ dice_l0 = [hw |-> TRUE, dice |-> TRUE, cdi |-> <<reg, "good">>]
          /\ l0_l1 = [hw |-> TRUE, dice |-> TRUE, l0 |-> TRUE, alias |-> None]
      BY <2>4 DEF L0Core, SInv, DICE_L0Inv, L0_L1Inv, FromDICE, FromL0
    <3>2. /\ l0_l1' = [l0_l1 EXCEPT !.alias = <<dice_l0.cdi, l1>>]
          /\ pc' = "ClearDICE_L0" /\ reg' = reg /\ l1' = l1
      BY <2>4 DEF L0Core
    <3>3. l0_l1' = [hw |-> TRUE, dice |-> TRUE, l0 |-> TRUE, alias |-> <<<<reg, "good">>, l1>>]
      BY <3>1, <3>2
    <3> QED
      BY <3>2, <3>3 DEF L0_L1Inv, FromL0, AliasOf
  <2>5. CASE L0CoreFaults
    BY <2>5, SecretKept DEF L0CoreFaults, SInv, L0_L1Inv, SecretInv
  <2>6. CASE ClearDICE_L0
    BY <2>6, SecretKept DEF ClearDICE_L0, SInv, L0_L1Inv, SecretInv
  <2>7. CASE BootToL1
    BY <2>7, SecretKept DEF BootToL1, SInv, L0_L1Inv, SecretInv
  <2> QED
    BY <1>2, <2>1, <2>2, <2>3, <2>4, <2>5, <2>6, <2>7 DEF L0Next
<1>3. CASE L1Next
  <2>1. CASE StartL1
    BY <2>1, SecretKept DEF StartL1, SInv, L0_L1Inv, SecretInv
  <2>2. CASE StrayFaults
    BY <2>2, SecretKept DEF StrayFaults, SInv, L0_L1Inv, SecretInv
  <2>3. CASE L1Tests
    BY <2>3, SecretKept DEF L1Tests, SInv, L0_L1Inv, SecretInv
  <2>4. CASE L1MenuReturns
    BY <2>4, SecretKept DEF L1MenuReturns, SInv, L0_L1Inv, SecretInv
  <2>5. CASE TestWatchdogSW
    BY <2>5, SecretKept, ResetSInv DEF TestWatchdogSW, Resets
  <2>6. CASE TestWatchdogHW
    BY <2>6, SecretKept, ResetSInv DEF TestWatchdogHW, Resets
  <2>7. CASE TestCorruptActiveImage
    BY <2>7, SecretKept DEF TestCorruptActiveImage, SInv, L0_L1Inv, SecretInv
  <2>8. CASE CorruptedImageReset
    BY <2>8, SecretKept, ResetSInv DEF CorruptedImageReset, Resets
  <2> QED
    BY <1>3, <2>1, <2>2, <2>3, <2>4, <2>5, <2>6, <2>7, <2>8 DEF L1Next
<1>4. CASE SWWatchdogFires
  BY <1>4, SecretKept, ResetSInv DEF SWWatchdogFires, Resets
<1>5. CASE IWDGFires
  BY <1>5, SecretKept, ResetSInv DEF IWDGFires, Resets
<1>6. CASE GetStuck
  BY <1>6, SecretKept DEF GetStuck, MayTearSecret, SInv, L0_L1Inv, SecretInv
<1>7. CASE ExternalReset
  BY <1>7, SecretKept, ResetSInv DEF ExternalReset, MayTearSecret, Resets
<1> QED
  BY <1>1, <1>2, <1>3, <1>4, <1>5, <1>6, <1>7 DEF Next

LEMMA SecretStep ==
  ASSUME SInv, Next
  PROVE  SecretInv'
<1> USE DEF config, flash, shared, hw, image, hist, Step, FailDICE
<1>1. CASE DICENext
  <2>1. CASE StartDICE
    BY <2>1, SecretKept DEF StartDICE, SInv, SecretInv
  <2>2. CASE ProtectionsPass
    BY <2>2, SecretKept DEF ProtectionsPass, SInv, SecretInv
  <2>3. CASE ProtectionsFail
    BY <2>3, SecretKept DEF ProtectionsFail, SInv, SecretInv
  <2>4. CASE ProtectionsOutdated
    BY <2>4, SecretKept DEF ProtectionsOutdated, SInv, SecretInv
  <2>5. CASE ProtectionsSetRss
    BY <2>5, SecretKept, ResetSInv DEF ProtectionsSetRss, Resets
  <2>6. CASE UpdateReason
    BY <2>6, SecretKept DEF UpdateReason, SInv, SecretInv
  <2>7. CASE SecretReady
    BY <2>7, SecretKept DEF SecretReady, UDS!Provision, SInv, SecretInv
  <2>8. CASE SecretFails
    BY <2>8, SecretKept DEF SecretFails, UDS!Provision, UDS!Lose, SInv, SecretInv
  <2>9. CASE CleanShared_DICE_L0
    BY <2>9, SecretKept DEF CleanShared_DICE_L0, SInv, SecretInv
  <2>10. CASE DICEHandleArgs
    BY <2>10, SecretKept DEF DICEHandleArgs, SInv, SecretInv
  <2>11. CASE DiceMain
    BY <2>11, SecretKept DEF DiceMain, UDS!Issue, SInv, SecretInv
  <2>12. CASE DiceMainFails
    BY <2>12, SecretKept DEF DiceMainFails, SInv, SecretInv
  <2>13. CASE BootToL0
    BY <2>13, SecretKept DEF BootToL0, SInv, SecretInv
  <2> QED
    BY <1>1, <2>1, <2>2, <2>3, <2>4, <2>5, <2>6, <2>7, <2>8, <2>9, <2>10,
       <2>11, <2>12, <2>13 DEF DICENext
<1>2. CASE L0Next
  <2>1. CASE StartL0
    BY <2>1, SecretKept DEF StartL0, SInv, SecretInv
  <2>2. CASE CleanShared_L0_L1
    BY <2>2, SecretKept DEF CleanShared_L0_L1, SInv, SecretInv
  <2>3. CASE L0HandleArgs
    BY <2>3, SecretKept DEF L0HandleArgs, SInv, SecretInv
  <2>4. CASE L0Core
    BY <2>4, SecretKept DEF L0Core, SInv, SecretInv
  <2>5. CASE L0CoreFaults
    BY <2>5, SecretKept DEF L0CoreFaults, SInv, SecretInv
  <2>6. CASE ClearDICE_L0
    BY <2>6, SecretKept DEF ClearDICE_L0, SInv, SecretInv
  <2>7. CASE BootToL1
    BY <2>7, SecretKept DEF BootToL1, SInv, SecretInv
  <2> QED
    BY <1>2, <2>1, <2>2, <2>3, <2>4, <2>5, <2>6, <2>7 DEF L0Next
<1>3. CASE L1Next
  <2>1. CASE StartL1
    BY <2>1, SecretKept DEF StartL1, SInv, SecretInv
  <2>2. CASE StrayFaults
    BY <2>2, SecretKept DEF StrayFaults, SInv, SecretInv
  <2>3. CASE L1Tests
    BY <2>3, SecretKept DEF L1Tests, SInv, SecretInv
  <2>4. CASE L1MenuReturns
    BY <2>4, SecretKept DEF L1MenuReturns, SInv, SecretInv
  <2>5. CASE TestWatchdogSW
    BY <2>5, SecretKept, ResetSInv DEF TestWatchdogSW, Resets
  <2>6. CASE TestWatchdogHW
    BY <2>6, SecretKept, ResetSInv DEF TestWatchdogHW, Resets
  <2>7. CASE TestCorruptActiveImage
    BY <2>7, SecretKept DEF TestCorruptActiveImage, SInv, SecretInv
  <2>8. CASE CorruptedImageReset
    BY <2>8, SecretKept, ResetSInv DEF CorruptedImageReset, Resets
  <2> QED
    BY <1>3, <2>1, <2>2, <2>3, <2>4, <2>5, <2>6, <2>7, <2>8 DEF L1Next
<1>4. CASE SWWatchdogFires
  BY <1>4, SecretKept, ResetSInv DEF SWWatchdogFires, Resets
<1>5. CASE IWDGFires
  BY <1>5, SecretKept, ResetSInv DEF IWDGFires, Resets
<1>6. CASE GetStuck
  BY <1>6, SecretKept DEF GetStuck, MayTearSecret, SInv, SecretInv
<1>7. CASE ExternalReset
  BY <1>7, SecretKept, ResetSInv DEF ExternalReset, MayTearSecret, Resets
<1> QED
  BY <1>1, <1>2, <1>3, <1>4, <1>5, <1>6, <1>7 DEF Next

\* L1's self test finds the CDI gone.
LEMMA RunningStep ==
  ASSUME SInv, Next
  PROVE  RunningInv'
<1> USE DEF config, flash, shared, hw, image, hist, Step, FailDICE
<1>1. CASE DICENext
  <2>1. CASE StartDICE
    BY <2>1 DEF StartDICE, SInv, RunningInv
  <2>2. CASE ProtectionsPass
    BY <2>2 DEF ProtectionsPass, SInv, RunningInv
  <2>3. CASE ProtectionsFail
    BY <2>3 DEF ProtectionsFail, SInv, RunningInv
  <2>4. CASE ProtectionsOutdated
    BY <2>4 DEF ProtectionsOutdated, SInv, RunningInv
  <2>5. CASE ProtectionsSetRss
    BY <2>5, ResetSInv DEF ProtectionsSetRss, Resets
  <2>6. CASE UpdateReason
    BY <2>6 DEF UpdateReason, SInv, RunningInv
  <2>7. CASE SecretReady
    BY <2>7 DEF SecretReady, UDS!Provision, SInv, RunningInv
  <2>8. CASE SecretFails
    BY <2>8 DEF SecretFails, UDS!Provision, UDS!Lose, SInv, RunningInv
  <2>9. CASE CleanShared_DICE_L0
    BY <2>9 DEF CleanShared_DICE_L0, SInv, RunningInv
  <2>10. CASE DICEHandleArgs
    BY <2>10 DEF DICEHandleArgs, SInv, RunningInv
  <2>11. CASE DiceMain
    BY <2>11 DEF DiceMain, UDS!Issue, SInv, RunningInv
  <2>12. CASE DiceMainFails
    BY <2>12 DEF DiceMainFails, SInv, RunningInv
  <2>13. CASE BootToL0
    BY <2>13 DEF BootToL0, SInv, RunningInv
  <2> QED
    BY <1>1, <2>1, <2>2, <2>3, <2>4, <2>5, <2>6, <2>7, <2>8, <2>9, <2>10,
       <2>11, <2>12, <2>13 DEF DICENext
<1>2. CASE L0Next
  <2>1. CASE StartL0
    BY <2>1 DEF StartL0, SInv, RunningInv
  <2>2. CASE CleanShared_L0_L1
    BY <2>2 DEF CleanShared_L0_L1, SInv, RunningInv
  <2>3. CASE L0HandleArgs
    BY <2>3 DEF L0HandleArgs, SInv, RunningInv
  <2>4. CASE L0Core
    BY <2>4 DEF L0Core, SInv, RunningInv
  <2>5. CASE L0CoreFaults
    BY <2>5 DEF L0CoreFaults, SInv, RunningInv
  <2>6. CASE ClearDICE_L0
    BY <2>6 DEF ClearDICE_L0, SInv, RunningInv
  <2>7. CASE BootToL1
    BY <2>7 DEF BootToL1, SInv, RunningInv
  <2> QED
    BY <1>2, <2>1, <2>2, <2>3, <2>4, <2>5, <2>6, <2>7 DEF L0Next
<1>3. CASE L1Next
  <2>1. CASE StartL1
    BY <2>1 DEF StartL1, SInv, RunningInv
  <2>2. CASE StrayFaults
    BY <2>2 DEF StrayFaults, SInv, RunningInv
  <2>3. CASE L1Tests
    BY <2>3 DEF L1Tests, SInv, RunningInv, DICE_L0Inv
  <2>4. CASE L1MenuReturns
    BY <2>4 DEF L1MenuReturns, SInv, RunningInv
  <2>5. CASE TestWatchdogSW
    BY <2>5, ResetSInv DEF TestWatchdogSW, Resets
  <2>6. CASE TestWatchdogHW
    BY <2>6, ResetSInv DEF TestWatchdogHW, Resets
  <2>7. CASE TestCorruptActiveImage
    BY <2>7 DEF TestCorruptActiveImage, SInv, RunningInv
  <2>8. CASE CorruptedImageReset
    BY <2>8, ResetSInv DEF CorruptedImageReset, Resets
  <2> QED
    BY <1>3, <2>1, <2>2, <2>3, <2>4, <2>5, <2>6, <2>7, <2>8 DEF L1Next
<1>4. CASE SWWatchdogFires
  BY <1>4, ResetSInv DEF SWWatchdogFires, Resets
<1>5. CASE IWDGFires
  BY <1>5, ResetSInv DEF IWDGFires, Resets
<1>6. CASE GetStuck
  BY <1>6 DEF GetStuck, MayTearSecret, SInv, RunningInv
<1>7. CASE ExternalReset
  BY <1>7, ResetSInv DEF ExternalReset, MayTearSecret, Resets
<1> QED
  BY <1>1, <1>2, <1>3, <1>4, <1>5, <1>6, <1>7 DEF Next

\* Only the start of L1 adds to the identities given.
LEMMA GivenStep ==
  ASSUME SInv, Next
  PROVE  GivenInv'
<1>1. reg \in Secrets => reg' = reg
  BY SecretKept
<1>2. StartL1 \/ given' = given
  <2> USE DEF config, flash, shared, hw, image, hist, Step, FailDICE
  <2>1. CASE DICENext
    <3>1. CASE StartDICE
      BY <3>1 DEF StartDICE
    <3>2. CASE ProtectionsPass
      BY <3>2 DEF ProtectionsPass
    <3>3. CASE ProtectionsFail
      BY <3>3 DEF ProtectionsFail
    <3>4. CASE ProtectionsOutdated
      BY <3>4 DEF ProtectionsOutdated
    <3>5. CASE ProtectionsSetRss
      BY <3>5 DEF ProtectionsSetRss, ResetTo
    <3>6. CASE UpdateReason
      BY <3>6 DEF UpdateReason
    <3>7. CASE SecretReady
      BY <3>7 DEF SecretReady
    <3>8. CASE SecretFails
      BY <3>8 DEF SecretFails
    <3>9. CASE CleanShared_DICE_L0
      BY <3>9 DEF CleanShared_DICE_L0
    <3>10. CASE DICEHandleArgs
      BY <3>10 DEF DICEHandleArgs
    <3>11. CASE DiceMain
      BY <3>11 DEF DiceMain
    <3>12. CASE DiceMainFails
      BY <3>12 DEF DiceMainFails
    <3>13. CASE BootToL0
      BY <3>13 DEF BootToL0
    <3> QED
      BY <2>1, <3>1, <3>2, <3>3, <3>4, <3>5, <3>6, <3>7, <3>8, <3>9, <3>10,
         <3>11, <3>12, <3>13 DEF DICENext
  <2>2. CASE L0Next
    <3>1. CASE StartL0
      BY <3>1 DEF StartL0
    <3>2. CASE CleanShared_L0_L1
      BY <3>2 DEF CleanShared_L0_L1
    <3>3. CASE L0HandleArgs
      BY <3>3 DEF L0HandleArgs
    <3>4. CASE L0Core
      BY <3>4 DEF L0Core
    <3>5. CASE L0CoreFaults
      BY <3>5 DEF L0CoreFaults
    <3>6. CASE ClearDICE_L0
      BY <3>6 DEF ClearDICE_L0
    <3>7. CASE BootToL1
      BY <3>7 DEF BootToL1
    <3> QED
      BY <2>2, <3>1, <3>2, <3>3, <3>4, <3>5, <3>6, <3>7 DEF L0Next
  <2>3. CASE L1Next
    <3>1. CASE StartL1
      BY <3>1
    <3>2. CASE StrayFaults
      BY <3>2 DEF StrayFaults
    <3>3. CASE L1Tests
      BY <3>3 DEF L1Tests
    <3>4. CASE L1MenuReturns
      BY <3>4 DEF L1MenuReturns
    <3>5. CASE TestWatchdogSW
      BY <3>5 DEF TestWatchdogSW, ResetTo
    <3>6. CASE TestWatchdogHW
      BY <3>6 DEF TestWatchdogHW, ResetTo
    <3>7. CASE TestCorruptActiveImage
      BY <3>7 DEF TestCorruptActiveImage
    <3>8. CASE CorruptedImageReset
      BY <3>8 DEF CorruptedImageReset, ResetTo
    <3> QED
      BY <2>3, <3>1, <3>2, <3>3, <3>4, <3>5, <3>6, <3>7, <3>8 DEF L1Next
  <2>4. CASE SWWatchdogFires
    BY <2>4 DEF SWWatchdogFires, ResetTo
  <2>5. CASE IWDGFires
    BY <2>5 DEF IWDGFires, ResetTo
  <2>6. CASE GetStuck
    BY <2>6 DEF GetStuck
  <2>7. CASE ExternalReset
    BY <2>7 DEF ExternalReset, ResetTo
  <2> QED
    BY <2>1, <2>2, <2>3, <2>4, <2>5, <2>6, <2>7 DEF Next
<1>3. CASE given' = given
  BY <1>1, <1>3 DEF SInv, GivenInv, AliasOf
<1>4. CASE StartL1
  <2>1. given' = given \cup {AliasOf(reg, l1)} /\ reg \in Secrets
    BY <1>4 DEF StartL1, SInv, L0_L1Inv, SecretInv, FromL0
  <2> QED
    BY <1>1, <2>1 DEF SInv, GivenInv, AliasOf
<1> QED
  BY <1>2, <1>3, <1>4

LEMMA SInvariance == Spec => []SInv
<1>1. Init => SInv
  BY InitIInv DEF Init, SInv, DICE_L0Inv, L0_L1Inv, SecretInv, RunningInv, GivenInv
<1>2. SInv /\ [Next]_vars => SInv'
  <2>1. ASSUME SInv, Next
        PROVE  SInv'
    BY <2>1, StepIInv, DICE_L0Step, L0_L1Step, SecretStep, RunningStep, GivenStep DEF SInv
  <2>2. ASSUME SInv, UNCHANGED vars
        PROVE  SInv'
    BY <2>2 DEF vars, config, flash, shared, hw, image, hist, SInv, DICE_L0Inv, L0_L1Inv,
       SecretInv, RunningInv, GivenInv, FromDICE, FromL0, AliasOf
  <2> QED
    BY <2>1, <2>2
<1> QED
  BY <1>1, <1>2, PTL DEF Spec

\* L1 runs with the device's one secret behind its identity, and with its own
\* measurement, all of it of this boot.
THEOREM OwnIdentity == Spec => []L1SeesItsOwnIdentity
<1>1. SInv => L1SeesItsOwnIdentity
  BY DEF SInv, DICE_L0Inv, L0_L1Inv, RunningInv, FromL0, L1SeesItsOwnIdentity
<1> QED
  BY <1>1, SInvariance, PTL

\* All boots give an L1 image the same identity.
THEOREM SameIdentity == Spec => []SameImageSameIdentity
<1>1. SInv => SameImageSameIdentity
  BY DEF SInv, GivenInv, AliasOf, SameImageSameIdentity
<1> QED
  BY <1>1, SInvariance, PTL

\* The CDI is gone once anything runs at L1's place: L1, or what an L0 header that is
\* wrong points to, and wherever that may hang.
CDIGone == running # None => dice_l0 = Cleared

\* Nothing runs there before BootToL1.
BeforeL1 == pc \in DICEStages \cup L0Stages => running = None

\* BootToL1 is preceded by the clearing, in the same boot.
LEMMA CDIGoneStep ==
  ASSUME SInv, CDIGone, BeforeL1, Next
  PROVE  CDIGone' /\ BeforeL1'
<1> USE DEF config, flash, shared, hw, image, hist, Step, FailDICE, CDIGone, BeforeL1
<1>1. CASE DICENext
  <2>1. CASE ProtectionsSetRss
    BY <2>1 DEF ProtectionsSetRss, ResetTo
  <2>2. CASE ~ProtectionsSetRss
    <3>1. running' = running /\ pc \in DICEStages
      BY <1>1, <2>2 DEF DICENext, StartDICE, ProtectionsPass, ProtectionsFail,
         ProtectionsOutdated, UpdateReason, SecretReady, SecretFails, CleanShared_DICE_L0,
         DICEHandleArgs, DiceMain, DiceMainFails, BootToL0
    <3> QED
      BY <3>1
  <2> QED
    BY <2>1, <2>2
<1>2. CASE L0Next
  <2>1. CASE BootToL1
    BY <2>1 DEF BootToL1, SInv, DICE_L0Inv
  <2>2. CASE ~BootToL1
    <3>1. running' = running /\ pc \in L0Stages
      BY <1>2, <2>2 DEF L0Next, StartL0, CleanShared_L0_L1, L0HandleArgs, L0Core,
         L0CoreFaults, ClearDICE_L0
    <3> QED
      BY <3>1
  <2> QED
    BY <2>1, <2>2
<1>3. CASE StartL1 \/ StrayFaults \/ L1Tests \/ L1MenuReturns \/ TestCorruptActiveImage
  <2>1. dice_l0' = dice_l0 /\ running' = running /\ pc' \in L1Stages \cup Hung
    BY <1>3 DEF StartL1, StrayFaults, L1Tests, L1MenuReturns, TestCorruptActiveImage
  <2> QED
    BY <2>1
<1>4. CASE TestWatchdogSW \/ TestWatchdogHW \/ CorruptedImageReset
  BY <1>4 DEF TestWatchdogSW, TestWatchdogHW, CorruptedImageReset, ResetTo
<1>5. CASE SWWatchdogFires \/ IWDGFires \/ ExternalReset
  BY <1>5 DEF SWWatchdogFires, IWDGFires, ExternalReset, ResetTo
<1>6. CASE GetStuck
  BY <1>6 DEF GetStuck
<1> QED
  BY <1>1, <1>2, <1>3, <1>4, <1>5, <1>6 DEF Next, L1Next

\* Nothing that L0 launches finds the CDI in SRAM4, not even what an L0 header that
\* is wrong makes it launch, nor once the core hangs there (Test_ReadDICEL0SharedMemory
\* is a test of the L1 that the linker placed): the CDI stays with DICE and L0.
THEOREM CDIStaysBelow == Spec => []CDIGone
<1>1. Init => CDIGone /\ BeforeL1
  BY DEF Init, CDIGone, BeforeL1
<1>2. SInv /\ CDIGone /\ BeforeL1 /\ [Next]_vars => CDIGone' /\ BeforeL1'
  <2>1. ASSUME CDIGone, BeforeL1, UNCHANGED vars
        PROVE  CDIGone' /\ BeforeL1'
    BY <2>1 DEF vars, shared, image, CDIGone, BeforeL1
  <2> QED
    BY <2>1, CDIGoneStep
<1> QED
  BY <1>1, <1>2, SInvariance, PTL DEF Spec

-----------------------------------------------------------------------------
(* Types *)

FlashTypes ==
  /\ build \in Builds /\ nucleo \in BOOLEAN /\ optionsOk \in BOOLEAN
  /\ scar \in BOOLEAN /\ l0 \in {"good", "corrupt"} /\ l1 \in L1Images
  /\ offsetOk \in BOOLEAN
  /\ reg \in Secrets \cup {Unset, Lost} /\ issued \subseteq Secrets

SharedTypes ==
  /\ dice_l0 \in {Residue} \cup [hw : BOOLEAN, dice : BOOLEAN, cdi : {None} \cup CDI]
  /\ l0_l1 \in {Residue} \cup
       [hw : BOOLEAN, dice : BOOLEAN, l0 : BOOLEAN, alias : {None} \cup Alias]

HWTypes == flags \subseteq {"PIN", "IWDG", "SFT"} /\ iwdg \in BOOLEAN

ImageTypes ==
  /\ pc \in DICEStages \cup L0Stages \cup L1Stages \cup Hung
  /\ swdog \in BOOLEAN
  /\ reason \in {"UNKNOWN", "WATCHDOG", "SW_RESET", "HW_RESET"}
  /\ running \in {None, Stray} \cup L1Images

HistTypes == last \in Resets /\ given \subseteq Alias /\ faults \in 0..MaxFaults

Types == FlashTypes /\ SharedTypes /\ HWTypes /\ ImageTypes /\ HistTypes

LEMMA ResetTypes ==
  ASSUME NEW kind \in Resets, ResetTo(kind), Types
  PROVE  SharedTypes' /\ HWTypes' /\ ImageTypes' /\ last' \in Resets /\ given' = given
<1>1. SharedTypes'
  BY DEF ResetTo, Types, SharedTypes, shared
<1>2. HWTypes'
  <2>1. ResetFlags[kind] \subseteq {"PIN", "IWDG", "SFT"}
    BY DEF Resets, ResetFlags
  <2> QED
    BY <2>1 DEF ResetTo, Types, HWTypes
<1>3. ImageTypes' /\ last' \in Resets /\ given' = given
  BY DEF ResetTo, ImageTypes
<1> QED
  BY <1>1, <1>2, <1>3

\* Flash and option bytes.
LEMMA FlashTypesStep ==
  ASSUME Types, Next
  PROVE  FlashTypes'
<1>1. reg' \in Secrets \cup {Unset, Lost} /\ issued' \subseteq Secrets
  BY RegisterStep DEF Types, FlashTypes, UDS!Next, UDS!Provision, UDS!Lose, UDS!Issue
<1>2. /\ UNCHANGED config /\ l1' = l1 /\ offsetOk' = offsetOk
      /\ scar' \in {scar, TRUE} /\ l0' \in {l0, "corrupt"}
  <2> USE DEF config, flash, shared, hw, image, hist, Step, FailDICE
  <2>1. CASE DICENext
    <3>1. CASE StartDICE
      BY <3>1 DEF StartDICE
    <3>2. CASE ProtectionsPass
      BY <3>2 DEF ProtectionsPass
    <3>3. CASE ProtectionsFail
      BY <3>3 DEF ProtectionsFail
    <3>4. CASE ProtectionsOutdated
      BY <3>4 DEF ProtectionsOutdated
    <3>5. CASE ProtectionsSetRss
      BY <3>5 DEF ProtectionsSetRss
    <3>6. CASE UpdateReason
      BY <3>6 DEF UpdateReason
    <3>7. CASE SecretReady
      BY <3>7 DEF SecretReady, UDS!Provision
    <3>8. CASE SecretFails
      BY <3>8 DEF SecretFails, UDS!Provision, UDS!Lose
    <3>9. CASE CleanShared_DICE_L0
      BY <3>9 DEF CleanShared_DICE_L0
    <3>10. CASE DICEHandleArgs
      BY <3>10 DEF DICEHandleArgs
    <3>11. CASE DiceMain
      BY <3>11 DEF DiceMain, UDS!Issue
    <3>12. CASE DiceMainFails
      BY <3>12 DEF DiceMainFails
    <3>13. CASE BootToL0
      BY <3>13 DEF BootToL0
    <3> QED
      BY <2>1, <3>1, <3>2, <3>3, <3>4, <3>5, <3>6, <3>7, <3>8, <3>9, <3>10,
         <3>11, <3>12, <3>13 DEF DICENext
  <2>2. CASE L0Next
    <3>1. CASE StartL0
      BY <3>1 DEF StartL0
    <3>2. CASE CleanShared_L0_L1
      BY <3>2 DEF CleanShared_L0_L1
    <3>3. CASE L0HandleArgs
      BY <3>3 DEF L0HandleArgs
    <3>4. CASE L0Core
      BY <3>4 DEF L0Core
    <3>5. CASE L0CoreFaults
      BY <3>5 DEF L0CoreFaults
    <3>6. CASE ClearDICE_L0
      BY <3>6 DEF ClearDICE_L0
    <3>7. CASE BootToL1
      BY <3>7 DEF BootToL1
    <3> QED
      BY <2>2, <3>1, <3>2, <3>3, <3>4, <3>5, <3>6, <3>7 DEF L0Next
  <2>3. CASE L1Next
    <3>1. CASE StartL1
      BY <3>1 DEF StartL1
    <3>2. CASE StrayFaults
      BY <3>2 DEF StrayFaults
    <3>3. CASE L1Tests
      BY <3>3 DEF L1Tests
    <3>4. CASE L1MenuReturns
      BY <3>4 DEF L1MenuReturns
    <3>5. CASE TestWatchdogSW
      BY <3>5 DEF TestWatchdogSW
    <3>6. CASE TestWatchdogHW
      BY <3>6 DEF TestWatchdogHW
    <3>7. CASE TestCorruptActiveImage
      BY <3>7 DEF TestCorruptActiveImage
    <3>8. CASE CorruptedImageReset
      BY <3>8 DEF CorruptedImageReset
    <3> QED
      BY <2>3, <3>1, <3>2, <3>3, <3>4, <3>5, <3>6, <3>7, <3>8 DEF L1Next
  <2>4. CASE SWWatchdogFires
    BY <2>4 DEF SWWatchdogFires
  <2>5. CASE IWDGFires
    BY <2>5 DEF IWDGFires
  <2>6. CASE GetStuck
    BY <2>6 DEF GetStuck, MayTearSecret
  <2>7. CASE ExternalReset
    BY <2>7 DEF ExternalReset, MayTearSecret
  <2> QED
    BY <2>1, <2>2, <2>3, <2>4, <2>5, <2>6, <2>7 DEF Next
<1> QED
  BY <1>1, <1>2 DEF Types, FlashTypes, config

\* SRAM4.
LEMMA SharedTypesStep ==
  ASSUME SInv, Types, Next
  PROVE  SharedTypes'
<1> USE DEF config, flash, shared, hw, image, hist, Step, FailDICE
<1>1. CASE DICENext
  <2>1. CASE StartDICE
    BY <2>1 DEF StartDICE, Types, SharedTypes
  <2>2. CASE ProtectionsPass
    BY <2>2 DEF ProtectionsPass, Types, SharedTypes
  <2>3. CASE ProtectionsFail
    BY <2>3 DEF ProtectionsFail, Types, SharedTypes
  <2>4. CASE ProtectionsOutdated
    BY <2>4 DEF ProtectionsOutdated, Types, SharedTypes
  <2>5. CASE ProtectionsSetRss
    BY <2>5, ResetTypes DEF ProtectionsSetRss, Resets
  <2>6. CASE UpdateReason
    BY <2>6 DEF UpdateReason, Types, SharedTypes
  <2>7. CASE SecretReady
    BY <2>7 DEF SecretReady, UDS!Provision, Types, SharedTypes
  <2>8. CASE SecretFails
    BY <2>8 DEF SecretFails, UDS!Provision, UDS!Lose, Types, SharedTypes
  <2>9. CASE CleanShared_DICE_L0
    BY <2>9 DEF CleanShared_DICE_L0, Cleared, Types, SharedTypes
  <2>10. CASE DICEHandleArgs
    <3>1. pc' = "DiceCore" /\ l0_l1' = l0_l1
      BY <2>10 DEF DICEHandleArgs
    <3>2. dice_l0' = [hw |-> TRUE, dice |-> TRUE, cdi |-> None]
      BY <3>1, DICE_L0Step DEF DICE_L0Inv, FromDICE
    <3> QED
      BY <3>1, <3>2 DEF Types, SharedTypes
  <2>11. CASE DiceMain
    <3>1. pc' = "BootToL0" /\ l0_l1' = l0_l1
      BY <2>11 DEF DiceMain
    <3>2. dice_l0' = [hw |-> TRUE, dice |-> TRUE, cdi |-> <<reg', "good">>]
      BY <3>1, DICE_L0Step DEF DICE_L0Inv, FromDICE
    <3>3. reg' \in Secrets /\ l1' \in L1Images
      BY <3>1, SecretStep, FlashTypesStep DEF SecretInv, FlashTypes
    <3> QED
      BY <3>1, <3>2, <3>3 DEF Types, SharedTypes, CDI
  <2>12. CASE DiceMainFails
    BY <2>12 DEF DiceMainFails, Types, SharedTypes
  <2>13. CASE BootToL0
    BY <2>13 DEF BootToL0, Types, SharedTypes
  <2> QED
    BY <1>1, <2>1, <2>2, <2>3, <2>4, <2>5, <2>6, <2>7, <2>8, <2>9, <2>10,
       <2>11, <2>12, <2>13 DEF DICENext
<1>2. CASE L0Next
  <2>1. CASE StartL0
    BY <2>1 DEF StartL0, Types, SharedTypes
  <2>2. CASE CleanShared_L0_L1
    BY <2>2 DEF CleanShared_L0_L1, Zero, Types, SharedTypes
  <2>3. CASE L0HandleArgs
    <3>1. pc' = "L0Core" /\ dice_l0' = dice_l0
      BY <2>3 DEF L0HandleArgs
    <3>2. l0_l1' = [hw |-> TRUE, dice |-> TRUE, l0 |-> TRUE, alias |-> None]
      BY <3>1, L0_L1Step DEF L0_L1Inv, FromL0, AliasOf
    <3> QED
      BY <3>1, <3>2 DEF Types, SharedTypes
  <2>4. CASE L0Core
    <3>1. pc' = "ClearDICE_L0" /\ dice_l0' = dice_l0
      BY <2>4 DEF L0Core
    <3>2. l0_l1' = [hw |-> TRUE, dice |-> TRUE, l0 |-> TRUE, alias |-> <<<<reg', "good">>, l1'>>]
      BY <3>1, L0_L1Step DEF L0_L1Inv, FromL0, AliasOf
    <3>3. reg' \in Secrets /\ l1' \in L1Images
      BY <3>1, SecretStep, FlashTypesStep DEF SecretInv, FlashTypes
    <3> QED
      BY <3>1, <3>2, <3>3 DEF Types, SharedTypes, Alias, AliasOf, FlashTypes
  <2>5. CASE L0CoreFaults
    BY <2>5 DEF L0CoreFaults, Types, SharedTypes
  <2>6. CASE ClearDICE_L0
    BY <2>6 DEF ClearDICE_L0, Cleared, Types, SharedTypes
  <2>7. CASE BootToL1
    BY <2>7 DEF BootToL1, Types, SharedTypes
  <2> QED
    BY <1>2, <2>1, <2>2, <2>3, <2>4, <2>5, <2>6, <2>7 DEF L0Next
<1>3. CASE L1Next
  <2>1. CASE StartL1
    BY <2>1 DEF StartL1, Types, SharedTypes
  <2>2. CASE StrayFaults
    BY <2>2 DEF StrayFaults, Types, SharedTypes
  <2>3. CASE L1Tests
    BY <2>3 DEF L1Tests, Types, SharedTypes
  <2>4. CASE L1MenuReturns
    BY <2>4 DEF L1MenuReturns, Types, SharedTypes
  <2>5. CASE TestWatchdogSW
    BY <2>5, ResetTypes DEF TestWatchdogSW, Resets
  <2>6. CASE TestWatchdogHW
    BY <2>6, ResetTypes DEF TestWatchdogHW, Resets
  <2>7. CASE TestCorruptActiveImage
    BY <2>7 DEF TestCorruptActiveImage, Types, SharedTypes
  <2>8. CASE CorruptedImageReset
    BY <2>8, ResetTypes DEF CorruptedImageReset, Resets
  <2> QED
    BY <1>3, <2>1, <2>2, <2>3, <2>4, <2>5, <2>6, <2>7, <2>8 DEF L1Next
<1>4. CASE SWWatchdogFires
  BY <1>4, ResetTypes DEF SWWatchdogFires, Resets
<1>5. CASE IWDGFires
  BY <1>5, ResetTypes DEF IWDGFires, Resets
<1>6. CASE GetStuck
  BY <1>6 DEF GetStuck, MayTearSecret, Types, SharedTypes
<1>7. CASE ExternalReset
  BY <1>7, ResetTypes DEF ExternalReset, MayTearSecret, Resets
<1> QED
  BY <1>1, <1>2, <1>3, <1>4, <1>5, <1>6, <1>7 DEF Next

\* The reset flags and the IWDG.
LEMMA HWTypesStep ==
  ASSUME Types, Next
  PROVE  HWTypes'
<1> USE DEF config, flash, shared, hw, image, hist, Step, FailDICE
<1>1. CASE DICENext
  <2>1. CASE StartDICE
    BY <2>1 DEF StartDICE, Types, HWTypes
  <2>2. CASE ProtectionsPass
    BY <2>2 DEF ProtectionsPass, Types, HWTypes
  <2>3. CASE ProtectionsFail
    BY <2>3 DEF ProtectionsFail, Types, HWTypes
  <2>4. CASE ProtectionsOutdated
    BY <2>4 DEF ProtectionsOutdated, Types, HWTypes
  <2>5. CASE ProtectionsSetRss
    BY <2>5, ResetTypes DEF ProtectionsSetRss, Resets
  <2>6. CASE UpdateReason
    BY <2>6 DEF UpdateReason, Types, HWTypes
  <2>7. CASE SecretReady
    BY <2>7 DEF SecretReady, UDS!Provision, Types, HWTypes
  <2>8. CASE SecretFails
    BY <2>8 DEF SecretFails, UDS!Provision, UDS!Lose, Types, HWTypes
  <2>9. CASE CleanShared_DICE_L0
    BY <2>9 DEF CleanShared_DICE_L0, Types, HWTypes
  <2>10. CASE DICEHandleArgs
    BY <2>10 DEF DICEHandleArgs, Types, HWTypes
  <2>11. CASE DiceMain
    BY <2>11 DEF DiceMain, UDS!Issue, Types, HWTypes
  <2>12. CASE DiceMainFails
    BY <2>12 DEF DiceMainFails, Types, HWTypes
  <2>13. CASE BootToL0
    BY <2>13 DEF BootToL0, Types, HWTypes
  <2> QED
    BY <1>1, <2>1, <2>2, <2>3, <2>4, <2>5, <2>6, <2>7, <2>8, <2>9, <2>10,
       <2>11, <2>12, <2>13 DEF DICENext
<1>2. CASE L0Next
  <2>1. CASE StartL0
    BY <2>1 DEF StartL0, Types, HWTypes
  <2>2. CASE CleanShared_L0_L1
    BY <2>2 DEF CleanShared_L0_L1, Types, HWTypes
  <2>3. CASE L0HandleArgs
    BY <2>3 DEF L0HandleArgs, Types, HWTypes
  <2>4. CASE L0Core
    BY <2>4 DEF L0Core, Types, HWTypes
  <2>5. CASE L0CoreFaults
    BY <2>5 DEF L0CoreFaults, Types, HWTypes
  <2>6. CASE ClearDICE_L0
    BY <2>6 DEF ClearDICE_L0, Types, HWTypes
  <2>7. CASE BootToL1
    BY <2>7 DEF BootToL1, Types, HWTypes
  <2> QED
    BY <1>2, <2>1, <2>2, <2>3, <2>4, <2>5, <2>6, <2>7 DEF L0Next
<1>3. CASE L1Next
  <2>1. CASE StartL1
    BY <2>1 DEF StartL1, Types, HWTypes
  <2>2. CASE StrayFaults
    BY <2>2 DEF StrayFaults, Types, HWTypes
  <2>3. CASE L1Tests
    BY <2>3 DEF L1Tests, Types, HWTypes
  <2>4. CASE L1MenuReturns
    BY <2>4 DEF L1MenuReturns, Types, HWTypes
  <2>5. CASE TestWatchdogSW
    BY <2>5, ResetTypes DEF TestWatchdogSW, Resets
  <2>6. CASE TestWatchdogHW
    BY <2>6, ResetTypes DEF TestWatchdogHW, Resets
  <2>7. CASE TestCorruptActiveImage
    BY <2>7 DEF TestCorruptActiveImage, Types, HWTypes
  <2>8. CASE CorruptedImageReset
    BY <2>8, ResetTypes DEF CorruptedImageReset, Resets
  <2> QED
    BY <1>3, <2>1, <2>2, <2>3, <2>4, <2>5, <2>6, <2>7, <2>8 DEF L1Next
<1>4. CASE SWWatchdogFires
  BY <1>4, ResetTypes DEF SWWatchdogFires, Resets
<1>5. CASE IWDGFires
  BY <1>5, ResetTypes DEF IWDGFires, Resets
<1>6. CASE GetStuck
  BY <1>6 DEF GetStuck, MayTearSecret, Types, HWTypes
<1>7. CASE ExternalReset
  BY <1>7, ResetTypes DEF ExternalReset, MayTearSecret, Resets
<1> QED
  BY <1>1, <1>2, <1>3, <1>4, <1>5, <1>6, <1>7 DEF Next

\* The running image.
LEMMA ImageTypesStep ==
  ASSUME Types, Next
  PROVE  ImageTypes'
<1> USE DEF config, flash, shared, hw, image, hist, Step, FailDICE
<1>1. CASE DICENext
  <2>1. CASE StartDICE
    BY <2>1 DEF StartDICE, Types, ImageTypes
  <2>2. CASE ProtectionsPass
    BY <2>2 DEF ProtectionsPass, Types, ImageTypes
  <2>3. CASE ProtectionsFail
    BY <2>3 DEF ProtectionsFail, Types, ImageTypes
  <2>4. CASE ProtectionsOutdated
    BY <2>4 DEF ProtectionsOutdated, Types, ImageTypes
  <2>5. CASE ProtectionsSetRss
    BY <2>5, ResetTypes DEF ProtectionsSetRss, Resets
  <2>6. CASE UpdateReason
    BY <2>6 DEF UpdateReason, ReasonOf, Types, HWTypes, ImageTypes
  <2>7. CASE SecretReady
    BY <2>7 DEF SecretReady, UDS!Provision, Types, ImageTypes
  <2>8. CASE SecretFails
    BY <2>8 DEF SecretFails, UDS!Provision, UDS!Lose, Types, ImageTypes
  <2>9. CASE CleanShared_DICE_L0
    BY <2>9 DEF CleanShared_DICE_L0, Types, ImageTypes
  <2>10. CASE DICEHandleArgs
    BY <2>10 DEF DICEHandleArgs, Types, ImageTypes
  <2>11. CASE DiceMain
    BY <2>11 DEF DiceMain, UDS!Issue, Types, ImageTypes
  <2>12. CASE DiceMainFails
    BY <2>12 DEF DiceMainFails, Types, ImageTypes
  <2>13. CASE BootToL0
    BY <2>13 DEF BootToL0, Types, ImageTypes
  <2> QED
    BY <1>1, <2>1, <2>2, <2>3, <2>4, <2>5, <2>6, <2>7, <2>8, <2>9, <2>10,
       <2>11, <2>12, <2>13 DEF DICENext
<1>2. CASE L0Next
  <2>1. CASE StartL0
    BY <2>1 DEF StartL0, Types, ImageTypes
  <2>2. CASE CleanShared_L0_L1
    BY <2>2 DEF CleanShared_L0_L1, Types, ImageTypes
  <2>3. CASE L0HandleArgs
    BY <2>3 DEF L0HandleArgs, Types, ImageTypes
  <2>4. CASE L0Core
    BY <2>4 DEF L0Core, Types, ImageTypes
  <2>5. CASE L0CoreFaults
    BY <2>5 DEF L0CoreFaults, Types, ImageTypes
  <2>6. CASE ClearDICE_L0
    BY <2>6 DEF ClearDICE_L0, Types, ImageTypes
  <2>7. CASE BootToL1
    BY <2>7 DEF BootToL1, Types, FlashTypes, ImageTypes
  <2> QED
    BY <1>2, <2>1, <2>2, <2>3, <2>4, <2>5, <2>6, <2>7 DEF L0Next
<1>3. CASE L1Next
  <2>1. CASE StartL1
    BY <2>1 DEF StartL1, Types, ImageTypes
  <2>2. CASE StrayFaults
    BY <2>2 DEF StrayFaults, Types, ImageTypes
  <2>3. CASE L1Tests
    BY <2>3 DEF L1Tests, Types, ImageTypes
  <2>4. CASE L1MenuReturns
    BY <2>4 DEF L1MenuReturns, Types, ImageTypes
  <2>5. CASE TestWatchdogSW
    BY <2>5, ResetTypes DEF TestWatchdogSW, Resets
  <2>6. CASE TestWatchdogHW
    BY <2>6, ResetTypes DEF TestWatchdogHW, Resets
  <2>7. CASE TestCorruptActiveImage
    BY <2>7 DEF TestCorruptActiveImage, Types, ImageTypes
  <2>8. CASE CorruptedImageReset
    BY <2>8, ResetTypes DEF CorruptedImageReset, Resets
  <2> QED
    BY <1>3, <2>1, <2>2, <2>3, <2>4, <2>5, <2>6, <2>7, <2>8 DEF L1Next
<1>4. CASE SWWatchdogFires
  BY <1>4, ResetTypes DEF SWWatchdogFires, Resets
<1>5. CASE IWDGFires
  BY <1>5, ResetTypes DEF IWDGFires, Resets
<1>6. CASE GetStuck
  BY <1>6 DEF GetStuck, MayTearSecret, Types, ImageTypes
<1>7. CASE ExternalReset
  BY <1>7, ResetTypes DEF ExternalReset, MayTearSecret, Resets
<1> QED
  BY <1>1, <1>2, <1>3, <1>4, <1>5, <1>6, <1>7 DEF Next

\* The history.
LEMMA HistTypesStep ==
  ASSUME SInv, Types, Next
  PROVE  HistTypes'
<1> USE DEF config, flash, shared, hw, image, hist, Step, FailDICE
<1>1. CASE DICENext
  <2>1. CASE StartDICE
    BY <2>1 DEF StartDICE, Types, HistTypes
  <2>2. CASE ProtectionsPass
    BY <2>2 DEF ProtectionsPass, Types, HistTypes
  <2>3. CASE ProtectionsFail
    BY <2>3 DEF ProtectionsFail, Types, HistTypes
  <2>4. CASE ProtectionsOutdated
    BY <2>4 DEF ProtectionsOutdated, Types, HistTypes
  <2>5. CASE ProtectionsSetRss
    BY <2>5, ResetTypes DEF ProtectionsSetRss, Resets, Types, HistTypes
  <2>6. CASE UpdateReason
    BY <2>6 DEF UpdateReason, Types, HistTypes
  <2>7. CASE SecretReady
    BY <2>7 DEF SecretReady, UDS!Provision, Types, HistTypes
  <2>8. CASE SecretFails
    BY <2>8 DEF SecretFails, UDS!Provision, UDS!Lose, Types, HistTypes
  <2>9. CASE CleanShared_DICE_L0
    BY <2>9 DEF CleanShared_DICE_L0, Types, HistTypes
  <2>10. CASE DICEHandleArgs
    BY <2>10 DEF DICEHandleArgs, Types, HistTypes
  <2>11. CASE DiceMain
    BY <2>11 DEF DiceMain, UDS!Issue, Types, HistTypes
  <2>12. CASE DiceMainFails
    BY <2>12 DEF DiceMainFails, Types, HistTypes
  <2>13. CASE BootToL0
    BY <2>13 DEF BootToL0, Types, HistTypes
  <2> QED
    BY <1>1, <2>1, <2>2, <2>3, <2>4, <2>5, <2>6, <2>7, <2>8, <2>9, <2>10,
       <2>11, <2>12, <2>13 DEF DICENext
<1>2. CASE L0Next
  <2>1. CASE StartL0
    BY <2>1 DEF StartL0, Types, HistTypes
  <2>2. CASE CleanShared_L0_L1
    BY <2>2 DEF CleanShared_L0_L1, Types, HistTypes
  <2>3. CASE L0HandleArgs
    BY <2>3 DEF L0HandleArgs, Types, HistTypes
  <2>4. CASE L0Core
    BY <2>4 DEF L0Core, Types, HistTypes
  <2>5. CASE L0CoreFaults
    BY <2>5 DEF L0CoreFaults, Types, HistTypes
  <2>6. CASE ClearDICE_L0
    BY <2>6 DEF ClearDICE_L0, Types, HistTypes
  <2>7. CASE BootToL1
    BY <2>7 DEF BootToL1, Types, HistTypes
  <2> QED
    BY <1>2, <2>1, <2>2, <2>3, <2>4, <2>5, <2>6, <2>7 DEF L0Next
<1>3. CASE L1Next
  <2>1. CASE StartL1
    BY <2>1, MaxFaultsAssumption DEF StartL1, Types, HistTypes, FlashTypes, SInv, L0_L1Inv, SecretInv,
       FromL0, Alias
  <2>2. CASE StrayFaults
    BY <2>2 DEF StrayFaults, Types, HistTypes
  <2>3. CASE L1Tests
    BY <2>3 DEF L1Tests, Types, HistTypes
  <2>4. CASE L1MenuReturns
    BY <2>4 DEF L1MenuReturns, Types, HistTypes
  <2>5. CASE TestWatchdogSW
    BY <2>5, ResetTypes DEF TestWatchdogSW, Resets, Types, HistTypes
  <2>6. CASE TestWatchdogHW
    BY <2>6, ResetTypes DEF TestWatchdogHW, Resets, Types, HistTypes
  <2>7. CASE TestCorruptActiveImage
    BY <2>7 DEF TestCorruptActiveImage, Types, HistTypes
  <2>8. CASE CorruptedImageReset
    BY <2>8, ResetTypes DEF CorruptedImageReset, Resets, Types, HistTypes
  <2> QED
    BY <1>3, <2>1, <2>2, <2>3, <2>4, <2>5, <2>6, <2>7, <2>8 DEF L1Next
<1>4. CASE SWWatchdogFires
  BY <1>4, ResetTypes DEF SWWatchdogFires, Resets, Types, HistTypes
<1>5. CASE IWDGFires
  BY <1>5, ResetTypes DEF IWDGFires, Resets, Types, HistTypes
<1>6. CASE GetStuck
  BY <1>6, MaxFaultsAssumption DEF GetStuck, Types, HistTypes
<1>7. CASE ExternalReset
  BY <1>7, ResetTypes, MaxFaultsAssumption DEF ExternalReset, Resets, Types, HistTypes
<1> QED
  BY <1>1, <1>2, <1>3, <1>4, <1>5, <1>6, <1>7 DEF Next

\* Every variable keeps to its values.
THEOREM ChainTypes == Spec => []TypeOK
<1>1. Init => Types
  <2> SUFFICES ASSUME Init PROVE Types
    OBVIOUS
  <2>1. FlashTypes
    BY DEF Init, UDS!Init, FlashTypes
  <2>2. SharedTypes
    BY DEF Init, SharedTypes
  <2>3. HWTypes
    BY DEF Init, ResetFlags, HWTypes
  <2>4. ImageTypes
    BY DEF Init, ImageTypes
  <2>5. HistTypes
    BY MaxFaultsAssumption DEF Init, Resets, HistTypes
  <2> QED
    BY <2>1, <2>2, <2>3, <2>4, <2>5 DEF Types
<1>2. SInv /\ Types /\ [Next]_vars => Types'
  <2>1. ASSUME SInv, Types, Next
        PROVE  Types'
    BY <2>1, FlashTypesStep, SharedTypesStep, HWTypesStep, ImageTypesStep, HistTypesStep DEF Types
  <2>2. ASSUME Types, UNCHANGED vars
        PROVE  Types'
    BY <2>2 DEF vars, config, flash, shared, hw, image, hist, Types, FlashTypes, SharedTypes,
       HWTypes, ImageTypes, HistTypes
  <2> QED
    BY <2>1, <2>2
<1>3. SInv /\ Types => TypeOK
  BY DEF SInv, RunningInv, Types, FlashTypes, SharedTypes, HWTypes, ImageTypes, HistTypes, TypeOK
<1> QED
  BY <1>1, <1>2, <1>3, SInvariance, PTL DEF Spec

=============================================================================
