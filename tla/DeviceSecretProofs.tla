------------------------- MODULE DeviceSecretProofs -------------------------
(***************************************************************************)
(* Proofs about DeviceSecret for every set of flash contents.  Those about *)
(* its safety assume VerifySeesFlash: a misprogrammed word is not hidden   *)
(* by the D-cache from the comparison that is there to find it.  Those     *)
(* about the flash driver in its place, at the end, assume no such thing.  *)
(***************************************************************************)
EXTENDS DeviceSecret, TLAPS

\* The points of DeviceSecretSet at which a secret is on its way into flash.
Writing == {"Write", "Programming", "Verify", "ReadBack"}

\* A boot generates a secret only on a blank device, writes the second copy
\* only when the first one is known to be good, and reads back only when
\* both are.
WriteOrder ==
  /\ pc \notin {"Get", "Failed"} => InsideDICE
  /\ pc = "Generate" => copy[1] = Blank /\ copy[2] = Blank
  /\ pc \in Writing => IsSecretValid(secret)
  /\ pc \in Writing /\ n = 1 => copy[2] = Blank
  /\ pc \in {"Write", "Programming"} => copy[n] = Blank
  /\ pc \in Writing /\ n = 2 => copy[1] = secret
  /\ pc = "ReadBack" => n = 2 /\ copy[2] = secret

\* A cached copy of the running boot is the copy in flash.
CacheCoherent ==
  /\ pc \in {"Get", "Generate"} => stored = {}
  /\ pc \in Writing \cup {"Initialized", "Derived"} /\ hw.dcache =>
       \A c \in stored : copy[c] = secret

\* Whatever was handed out is what both copies hold.
IssuedIsStored ==
  \A s \in issued : IsSecretValid(s) /\ copy[1] = s /\ copy[2] = s

IInv == TypeOK /\ WriteOrder /\ CacheCoherent /\ IssuedIsStored /\ SuccessMeansStored

-----------------------------------------------------------------------------
\* While a boot's writes are coherent with the cache, it sees what flash holds.
LEMMA ViewIsFlash ==
  ASSUME NEW c \in Copies, hw.dcache /\ c \in stored => copy[c] = secret
  PROVE  View(c) = {copy[c]}
BY DEF View

\* Then DeviceSecretGet returns the common content of the copies, or fails.
LEMMA GetReadsFlash ==
  ASSUME \A c \in Copies : hw.dcache /\ c \in stored => copy[c] = secret
  PROVE  DeviceSecretGet =
           {IF InsideDICE /\ copy[1] = copy[2] THEN copy[1] ELSE Unwritten}
<1>1. View(1) = {copy[1]} /\ View(2) = {copy[2]}
  BY ViewIsFlash DEF Copies
<1>2. QED
  BY <1>1 DEF DeviceSecretGet

\* A device remains the device it is.
LEMMA SameHardware == [Next]_vars => hw' = hw
BY DEF Next, vars, AlreadySet, NotSetYet, GetFails, Generate, GenerateFails,
   StartProgram, UnlockFails, ProgramDone, ProgramFails, VerifyOk, VerifyFails,
   LockFails, ReadBack, ReadUDS, Reset

\* Both copies start blank and nothing has been handed out.
LEMMA InitIInv == Init => IInv
BY HardwareAssumption, BlankAssumption DEF Init, IInv, TypeOK, WriteOrder, CacheCoherent,
   IssuedIsStored, SuccessMeansStored, Writing, Copies, PC

\* Every step of a boot, and a reset at any point of it, keeps the invariant.
LEMMA StepIInv == VerifySeesFlash /\ IInv /\ [Next]_vars => IInv'
<1> SUFFICES ASSUME VerifySeesFlash, IInv, [Next]_vars PROVE IInv'
  OBVIOUS
<1>hw. hw' = hw
  BY SameHardware
<1> USE <1>hw, BlankAssumption, UnwrittenAssumption, InsideAssumption, HardwareAssumption
    DEF IInv, TypeOK, WriteOrder, CacheCoherent, IssuedIsStored,
        SuccessMeansStored, IsSecretValid, Copies, PC, Writing, Goto
<1>0. pc \notin {"Failed"} =>
        DeviceSecretGet =
          {IF InsideDICE /\ copy[1] = copy[2] THEN copy[1] ELSE Unwritten}
  BY GetReadsFlash
<1>1. CASE AlreadySet
  BY <1>0, <1>1 DEF AlreadySet
<1>2. CASE NotSetYet
  BY <1>0, <1>2 DEF NotSetYet
<1>3. CASE GetFails
  BY <1>3 DEF GetFails
<1>4. CASE Generate
  BY <1>4 DEF Generate
<1>5. CASE GenerateFails
  BY <1>5 DEF GenerateFails
<1>6. CASE StartProgram
  BY <1>6 DEF StartProgram
<1>7. CASE UnlockFails
  BY <1>7 DEF UnlockFails
<1>8. CASE ProgramDone
  BY <1>8 DEF ProgramDone, VerifySeesFlash
<1>9. CASE ProgramFails
  BY <1>9 DEF ProgramFails
<1>10. CASE VerifyOk
  <2>1. secret = copy[n]
    BY <1>10, ViewIsFlash DEF VerifyOk
  <2>2. QED
    BY <1>10, <2>1 DEF VerifyOk
<1>11. CASE VerifyFails
  BY <1>11 DEF VerifyFails
<1>12. CASE LockFails
  BY <1>12 DEF LockFails
<1>13. CASE ReadBack
  BY <1>0, <1>13 DEF ReadBack
<1>14. CASE ReadUDS
  <2>1. DeviceSecretGet = {copy[1]}
    BY <1>0, <1>14 DEF ReadUDS
  <2>2. QED
    BY <1>14, <2>1 DEF ReadUDS
<1>15. CASE Reset
  BY <1>15 DEF Reset
<1>16. CASE UNCHANGED vars
  BY <1>16 DEF vars, View, DeviceSecretGet
<1>17. QED
  BY <1>1, <1>2, <1>3, <1>4, <1>5, <1>6, <1>7, <1>8, <1>9, <1>10, <1>11,
     <1>12, <1>13, <1>14, <1>15, <1>16 DEF Next

\* The inductive invariant holds in every reachable state.
LEMMA Invariance == VerifySeesFlash => (Spec => []IInv)
<1> SUFFICES ASSUME VerifySeesFlash PROVE Spec => []IInv
  OBVIOUS
<1>1. IInv /\ [Next]_vars => IInv'
  BY StepIInv
<1>2. QED
  BY InitIInv, <1>1, PTL DEF Spec

-----------------------------------------------------------------------------
\* The variables of DeviceSecret keep their types, on any device.
THEOREM TypeCorrect == Spec => []TypeOK
<1>1. Init => TypeOK
  BY BlankAssumption DEF Init, TypeOK, Copies, PC
<1>2. TypeOK /\ [Next]_vars => TypeOK'
  <2> SUFFICES ASSUME TypeOK, [Next]_vars PROVE TypeOK'
    OBVIOUS
  <2> USE DEF TypeOK, Copies, PC, Goto
  <2>1. DeviceSecretGet \subseteq Values \cup {Unwritten}
    BY DEF DeviceSecretGet, View
  <2>2. hw' = hw
    BY SameHardware
  <2>3. CASE AlreadySet \/ NotSetYet \/ GetFails
    BY <2>1, <2>2, <2>3 DEF AlreadySet, NotSetYet, GetFails
  <2>4. CASE Generate \/ GenerateFails
    BY <2>2, <2>4 DEF Generate, GenerateFails
  <2>5. CASE StartProgram \/ UnlockFails
    BY <2>2, <2>5 DEF StartProgram, UnlockFails
  <2>6. CASE ProgramDone \/ ProgramFails
    <3>1. PICK w \in Values : copy' = [copy EXCEPT ![n] = w]
      BY <2>6 DEF ProgramDone, ProgramFails
    <3>2. QED
      BY <2>2, <2>6, <3>1 DEF ProgramDone, ProgramFails
  <2>7. CASE VerifyOk \/ VerifyFails \/ LockFails
    BY <2>2, <2>7 DEF VerifyOk, VerifyFails, LockFails
  <2>8. CASE ReadBack \/ ReadUDS
    BY <2>1, <2>2, <2>8 DEF ReadBack, ReadUDS
  <2>9. CASE Reset
    BY <2>2, <2>9, BlankAssumption DEF Reset
  <2>10. CASE UNCHANGED vars
    BY <2>10 DEF vars
  <2>11. QED
    BY <2>3, <2>4, <2>5, <2>6, <2>7, <2>8, <2>9, <2>10 DEF Next
<1>3. QED
  BY <1>1, <1>2, PTL DEF Spec

\* A boot that gets past DeviceSecretInitialize has its secret in both copies.
THEOREM SuccessIsStored == VerifySeesFlash => (Spec => []SuccessMeansStored)
<1> SUFFICES ASSUME VerifySeesFlash PROVE Spec => []SuccessMeansStored
  OBVIOUS
<1>1. IInv => SuccessMeansStored
  BY DEF IInv
<1>2. QED
  BY <1>1, Invariance, PTL

\* All boots of a device use one and the same valid secret.
THEOREM OneIdentity == VerifySeesFlash => (Spec => []IdentityStable)
<1> SUFFICES ASSUME VerifySeesFlash PROVE Spec => []IdentityStable
  OBVIOUS
<1>1. IInv => IdentityStable
  BY UnwrittenAssumption DEF IInv, IssuedIsStored, IdentityStable, TypeOK, Copies
<1>2. QED
  BY <1>1, Invariance, PTL

\* A flash word is only ever programmed while it is blank.
THEOREM NoOverwrite == VerifySeesFlash => (Spec => ProgramOnlyBlank)
<1> SUFFICES ASSUME VerifySeesFlash PROVE Spec => ProgramOnlyBlank
  OBVIOUS
<1> DEFINE A == \A c \in Copies : copy'[c] # copy[c] => copy[c] = Blank
<1>1. IInv /\ [Next]_vars => [A]_vars
  <2> SUFFICES ASSUME IInv, Next PROVE A
    BY DEF vars
  <2> USE DEF IInv, TypeOK, WriteOrder, Writing, Copies
  <2>1. CASE ProgramDone
    BY <2>1 DEF ProgramDone
  <2>2. CASE ProgramFails
    BY <2>2 DEF ProgramFails
  <2>3. CASE Reset
    BY <2>3 DEF Reset
  <2>4. CASE UNCHANGED copy
    BY <2>4
  <2>5. QED
    BY <2>1, <2>2, <2>3, <2>4
    DEF Next, AlreadySet, NotSetYet, GetFails, Generate, GenerateFails,
        StartProgram, UnlockFails, VerifyOk, VerifyFails, LockFails, ReadBack,
        ReadUDS
<1>2. QED
  BY <1>1, Invariance, PTL DEF Spec, ProgramOnlyBlank

\* A device whose copies disagree between two boots never boots again.
THEOREM UnusableStays == VerifySeesFlash => (Spec => UnusableForGood)
<1> SUFFICES ASSUME VerifySeesFlash PROVE Spec => UnusableForGood
  OBVIOUS
<1>1. IInv /\ [Next]_vars => [Unusable => Unusable']_vars
  <2> SUFFICES ASSUME IInv, Next, Unusable PROVE Unusable'
    BY DEF vars
  <2> USE DEF IInv, TypeOK, CacheCoherent, Copies, Unusable, Goto
  <2>1. CASE pc = "Get"
    <3>1. DeviceSecretGet = {Unwritten}
      BY <2>1, GetReadsFlash
    <3>2. GetFails
      BY <2>1, <3>1 DEF Next, AlreadySet, NotSetYet, GetFails, Generate,
        GenerateFails, StartProgram, UnlockFails, ProgramDone, ProgramFails,
        VerifyOk, VerifyFails, LockFails, ReadBack, ReadUDS, Reset
    <3>3. QED
      BY <3>2 DEF GetFails
  <2>2. CASE pc = "Failed"
    <3>1. Reset
      BY <2>2 DEF Next, AlreadySet, NotSetYet, GetFails, Generate,
        GenerateFails, StartProgram, UnlockFails, ProgramDone, ProgramFails,
        VerifyOk, VerifyFails, LockFails, ReadBack, ReadUDS, Reset
    <3>2. QED
      BY <2>2, <3>1 DEF Reset
  <2>3. QED
    BY <2>1, <2>2
<1>2. QED
  BY <1>1, Invariance, PTL DEF Spec, UnusableForGood

-----------------------------------------------------------------------------
\* A step of the two copies is a step of the write-once register, or none.
LEMMA StepRegister ==
  VerifySeesFlash /\ IInv /\ IInv' /\ [Next]_vars => [Register!Next]_(Register!vars)
<1> SUFFICES ASSUME VerifySeesFlash, IInv, IInv', [Next]_vars
             PROVE  [Register!Next]_(Register!vars)
  OBVIOUS
<1>hw. hw' = hw
  BY SameHardware
<1> USE <1>hw DEF IInv, TypeOK, Copies, Goto, PC, Register!Next, Register!vars,
            Register!Provision, Register!Lose, Register!Issue
<1>1. CASE ProgramDone
  BY <1>1 DEF ProgramDone, reg, HalfWay, WriteOrder, Writing, IsSecretValid
<1>2. CASE ProgramFails
  BY <1>2 DEF ProgramFails, reg, HalfWay, WriteOrder, Writing, IsSecretValid
<1>3. CASE Reset
  BY <1>3 DEF Reset, reg, HalfWay, WriteOrder, Writing, IsSecretValid
<1>4. CASE VerifyFails \/ LockFails
  BY <1>4 DEF VerifyFails, LockFails, reg, HalfWay, WriteOrder, Writing,
              IsSecretValid
<1>5. CASE UnlockFails \/ StartProgram \/ VerifyOk
  BY <1>5 DEF UnlockFails, StartProgram, VerifyOk, reg, HalfWay, WriteOrder,
              Writing, IsSecretValid
<1>6. CASE ReadBack \/ AlreadySet \/ NotSetYet \/ GetFails
  BY <1>6 DEF ReadBack, AlreadySet, NotSetYet, GetFails, reg, HalfWay
<1>7. CASE Generate \/ GenerateFails
  BY <1>7 DEF Generate, GenerateFails, reg, HalfWay, WriteOrder
<1>8. CASE ReadUDS
  <2>1. copy[1] = secret /\ copy[2] = secret /\ secret # Blank
    BY <1>8 DEF ReadUDS, SuccessMeansStored, IsSecretValid
  <2>2. DeviceSecretGet = {secret}
    BY <1>8, <2>1, GetReadsFlash DEF ReadUDS, CacheCoherent, WriteOrder
  <2>3. QED
    BY <1>8, <2>1, <2>2 DEF ReadUDS, reg, HalfWay
<1>9. CASE UNCHANGED vars
  BY <1>9 DEF vars, reg, HalfWay
<1>10. QED
  BY <1>1, <1>2, <1>3, <1>4, <1>5, <1>6, <1>7, <1>8, <1>9 DEF Next

\* The protocol over the two copies implements the write-once register.
THEOREM Refinement == VerifySeesFlash => (Spec => ImplementsRegister)
<1> SUFFICES ASSUME VerifySeesFlash PROVE Spec => ImplementsRegister
  OBVIOUS
<1>1. Init => Register!Init
  BY DEF Init, Register!Init, reg, HalfWay, Copies
<1>2. IInv /\ IInv' /\ [Next]_vars => [Register!Next]_(Register!vars)
  BY StepRegister
<1>3. QED
  BY <1>1, <1>2, Invariance, PTL DEF Spec, ImplementsRegister, Register!Spec

-----------------------------------------------------------------------------
(* The words that are written *)

\* What DeviceSecretSet has done where it is, on any hardware: it writes to blank
\* words only, the second copy after the first.
SetInv ==
  /\ TypeOK
  /\ pc \in {"Get", "Generate"} => stored = {}
  /\ pc = "Generate" => copy[1] = Blank /\ copy[2] = Blank
  /\ pc \in {"Write", "Programming"} => copy[n] = Blank
  /\ pc \in Writing /\ n = 1 => copy[2] = Blank
  /\ pc = "Verify" => n \in stored
  /\ pc = "ReadBack" => n = 2

\* Every step of the provisioning keeps it, whatever the hardware hides.
LEMMA SetStep == SetInv /\ [Next]_vars => SetInv'
<1> SUFFICES ASSUME SetInv, [Next]_vars PROVE SetInv'
  OBVIOUS
<1>hw. hw' = hw
  BY SameHardware
<1> USE <1>hw, BlankAssumption, UnwrittenAssumption, InsideAssumption, HardwareAssumption
    DEF SetInv, TypeOK, IsSecretValid, Copies, PC, Writing, Goto
<1>1. CASE AlreadySet
  <2>1. View(1) = {copy[1]}
    BY <1>1, ViewIsFlash DEF AlreadySet
  <2> QED
    BY <1>1, <2>1 DEF AlreadySet, DeviceSecretGet
<1>2. CASE NotSetYet
  <2>1. View(1) = {copy[1]} /\ View(2) = {copy[2]}
    BY <1>2, ViewIsFlash DEF NotSetYet
  <2> QED
    BY <1>2, <2>1 DEF NotSetYet, DeviceSecretGet
<1>3. CASE GetFails \/ GenerateFails \/ UnlockFails \/ VerifyFails \/ LockFails
  BY <1>3 DEF GetFails, GenerateFails, UnlockFails, VerifyFails, LockFails
<1>4. CASE Generate
  BY <1>4 DEF Generate
<1>5. CASE StartProgram
  BY <1>5 DEF StartProgram
<1>6. CASE ProgramDone
  BY <1>6 DEF ProgramDone
<1>7. CASE ProgramFails
  BY <1>7 DEF ProgramFails
<1>8. CASE VerifyOk
  BY <1>8 DEF VerifyOk
<1>9. CASE ReadBack
  BY <1>9 DEF ReadBack
<1>10. CASE ReadUDS
  <2>1. DeviceSecretGet \subseteq Values \cup {Unwritten}
    BY <1>10 DEF DeviceSecretGet, View
  <2> QED
    BY <1>10, <2>1 DEF ReadUDS
<1>11. CASE Reset
  BY <1>11 DEF Reset
<1>12. CASE UNCHANGED vars
  BY <1>12 DEF vars
<1> QED
  BY <1>1, <1>2, <1>3, <1>4, <1>5, <1>6, <1>7, <1>8, <1>9, <1>10, <1>11, <1>12 DEF Next

\* It holds in every reachable state.
LEMMA SetInvariance == Spec => []SetInv
<1>1. Init => SetInv
  BY HardwareAssumption, BlankAssumption DEF Init, SetInv, TypeOK, Writing, Copies, PC
<1> QED
  BY <1>1, SetStep, PTL DEF Spec

\* Where the boot is with copy c: secret.c goes on to the second copy when
\* Flash_Write has returned 0 for the first, and gives up when it fails.
WordState(c) ==
  IF pc \notin Writing \/ (pc # "ReadBack" /\ n < c) THEN "Idle"
  ELSE IF pc = "ReadBack" \/ n > c THEN "Done" ELSE pc

WordData(c) == IF WordState(c) = "Idle" THEN Blank ELSE secret

Word(c) == INSTANCE FlashWord
  WITH word <- copy[c], data <- WordData(c), state <- WordState(c)

\* DeviceSecret does to either copy what FlashWord allows: the contract that
\* DriverServesWords shows the driver to keep.
THEOREM WritesWords ==
  ASSUME NEW c \in Copies
  PROVE  Spec => Word(c)!Spec
<1>1. Init => Word(c)!Init
  BY BlankAssumption DEF Init, Word!Init, WordState, WordData, Writing, Copies
<1>2. SetInv /\ [Next]_vars => [Word(c)!Next]_(Word(c)!vars)
  <2> SUFFICES ASSUME SetInv, [Next]_vars PROVE Word(c)!Next \/ UNCHANGED Word(c)!vars
    OBVIOUS
  <2>hw. hw' = hw
    BY SameHardware
  <2>0. n \in {1, 2} /\ c \in {1, 2} /\ copy \in [Copies -> Values] /\ secret \in Values
        /\ pc \in PC /\ (pc = "ReadBack" => n = 2)
    BY DEF SetInv, TypeOK, Copies
  <2> USE DEF Goto, WordState, WordData, Writing, Copies, PC
  <2>1. CASE \/ AlreadySet \/ NotSetYet \/ GetFails \/ GenerateFails \/ ReadUDS
             \/ UNCHANGED vars
    BY <2>0, <2>1, <2>hw DEF AlreadySet, NotSetYet, GetFails, GenerateFails, ReadUDS,
       vars, Word!vars
  <2>2. CASE Generate
    BY <2>0, <2>2, <2>hw DEF Generate, Word!vars, Word!Next, Word!Begin
  <2>3. CASE StartProgram
    BY <2>0, <2>3, <2>hw DEF StartProgram, Word!vars, Word!Next, Word!Start
  <2>4. CASE UnlockFails \/ VerifyFails \/ LockFails
    BY <2>0, <2>4, <2>hw DEF UnlockFails, VerifyFails, LockFails, Word!vars, Word!Next,
       Word!Leave
  <2>5. CASE ProgramDone
    BY <2>0, <2>5, <2>hw DEF ProgramDone, Word!vars, Word!Next, Word!Programmed
  <2>6. CASE ProgramFails
    BY <2>0, <2>6, <2>hw DEF ProgramFails, Word!vars, Word!Next, Word!Cut, Word!Leave
  <2>7. CASE VerifyOk
    <3>1. copy[n] = secret \/ hw.dcache
      BY <2>7 DEF VerifyOk, View
    <3> QED
      BY <2>0, <2>7, <2>hw, <3>1 DEF VerifyOk, Word!vars, Word!Next, Word!Begin, Word!Succeed
  <2>8. CASE ReadBack
    BY <2>0, <2>8, <2>hw DEF ReadBack, Word!vars, Word!Next, Word!Leave
  <2>9. CASE Reset
    BY <2>0, <2>9, <2>hw DEF Reset, Word!vars, Word!Next, Word!Cut, Word!Leave
  <2> QED
    BY <2>1, <2>2, <2>3, <2>4, <2>5, <2>6, <2>7, <2>8, <2>9 DEF Next
<1> QED
  BY <1>1, <1>2, SetInvariance, PTL DEF Spec, Word!Spec

-----------------------------------------------------------------------------
(* The driver in DeviceSecret's place *)

VARIABLES word, data, state   \* a word of flash, as FlashWord has it
Driver == INSTANCE FlashWord

\* DeviceSecretSet has called Flash_Write for copy n, and that is where the driver is.
InCall ==
  /\ pc \in {"Write", "Programming", "Verify"}
  /\ word = copy[n] /\ data = secret /\ state = pc

\* What a step of the driver means to secret.c, which waits for the call to return.
Waits ==
  /\ copy' = [copy EXCEPT ![n] = word']
  /\ stored' = IF state = "Programming" THEN stored \cup {n} ELSE stored
  /\ IF state' = "Done" THEN n' = 2 /\ Goto(IF n = 1 THEN "Write" ELSE "ReadBack")
     ELSE n' = n /\ Goto(IF state' = "Idle" THEN "Failed" ELSE state')
  /\ UNCHANGED <<hw, secret, issued>>

\* And there is nothing the driver may do that DeviceSecret has left out: whatever
\* FlashWord allows in a call for a copy is a step of DeviceSecret.  SetInv, which
\* holds in every reachable state, is what secret.c has to keep to for that: only
\* a blank word is sure to hold what it was programmed with.
THEOREM AllOfTheDriver ==
  ASSUME SetInv, InCall, Driver!Next, Waits
  PROVE  Next
<1> USE DEF SetInv, InCall, Waits, TypeOK, Copies, Goto
<1>1. state \notin {"Idle", "Erase", "Done"}
  OBVIOUS
<1>2. CASE Driver!Start
  BY <1>2 DEF Driver!Start, Next, StartProgram
<1>3. CASE Driver!Programmed
  BY <1>3 DEF Driver!Programmed, Next, ProgramDone
<1>4. CASE Driver!Cut
  BY <1>4 DEF Driver!Cut, Next, ProgramFails
<1>5. CASE Driver!Succeed
  <2>1. secret \in View(n)
    BY <1>1, <1>5 DEF Driver!Succeed, View
  <2> QED
    BY <1>1, <1>5, <2>1 DEF Driver!Succeed, Next, VerifyOk
<1>6. CASE Driver!Leave
  <2>1. copy' = copy
    BY <1>6 DEF Driver!Leave
  <2>2. CASE state = "Write"
    BY <1>6, <2>1, <2>2 DEF Driver!Leave, Next, UnlockFails
  <2>3. CASE state = "Verify"
    <3>1. secret \in View(n) \/ View(n) # {secret}
      OBVIOUS
    <3> QED
      BY <1>6, <2>1, <2>3, <3>1 DEF Driver!Leave, Next, VerifyFails, LockFails
  <2> QED
    BY <1>1, <1>6, <2>2, <2>3 DEF Driver!Leave
<1>7. ~Driver!Begin /\ ~Driver!Erase
  BY <1>1 DEF Driver!Begin, Driver!Erase
<1> QED
  BY <1>2, <1>3, <1>4, <1>5, <1>6, <1>7 DEF Driver!Next

=============================================================================
