------------------------- MODULE FlashDriverProofs -------------------------
(***************************************************************************)
(* Proofs about the flash driver, for banks, sectors and calls of any      *)
(* size, and whatever the hardware answers: what a successful call has     *)
(* done, what a failed one leaves, that nothing else changes, and that     *)
(* each word of flash is the FlashWord that callers may take it for.       *)
(***************************************************************************)
EXTENDS FlashDriver, FiniteSetTheorems, TLAPS

-----------------------------------------------------------------------------
(* The invariant *)

\* How far a call can be where it is, and what its arguments are.
CallInv ==
  /\ pc = "Idle" => op = "none"
  /\ op = "none" => n = 0 /\ i = 0 /\ pc \in {"Idle", "Returned"}
  /\ hw.host => pc \in {"Idle", "Returned"} /\ unlocked = {}
  /\ pc \in {"Programming", "Compare"} => op = "write" /\ i < n
  /\ pc = "Erasing" => op = "erase" /\ i < n
  /\ pc = "Unlock" => IF op = "write" THEN i = 0 ELSE i < n
  /\ pc = "Lock" => IF op = "write" THEN i = n ELSE i < n
  /\ op = "write" => data \in [0 .. n - 1 -> Values] /\ \A j \in 0 .. n - 1 : first + j \in Words
  /\ op = "erase" => \A j \in 0 .. n - 1 : first + j \in Sectors

\* The banks are unlocked only where the call needs it, or it has given up.
LockInv ==
  /\ unlocked # {} =>
       \/ refused
       \/ pc \in {"Programming", "Compare", "Erasing", "Lock"}
       \/ pc = "Loop" /\ op = "write"
  /\ pc = "Loop" /\ op = "erase" /\ i > 0 => unlocked = {}

Untouched(j) == flash[first + j] = old[first + j]

\* A line that wasn't there when the call began comes only from the comparison.
WriteInv ==
  op = "write" /\ ~hw.host =>
    /\ \A j \in 0 .. i - 1 : Written(j)
    /\ \A j \in i + 1 .. n - 1 : Untouched(j)
    /\ pc \in {"Unlock", "Loop", "Programming"} => \A j \in i .. n - 1 : Untouched(j)
    /\ pc \in {"Unlock", "Loop", "Programming", "Compare"} =>
         \A j \in i .. n - 1 : line[first + j] # {} => first + j \in cached
    /\ pc = "Compare" =>
         flash[first + i] = data[i] \/ hw.misprograms \/ old[first + i] # Blank

Gone(j) == \A w \in WordsOf(first + j) : flash[w] = Blank \/ hw.misprograms

EraseInv ==
  op = "erase" /\ ~hw.host =>
    /\ \A j \in 0 .. i - 1 : Gone(j)
    /\ pc = "Lock" => Gone(i)

DriverInv ==
  TypeOK /\ CallInv /\ LockInv /\ WriteInv /\ EraseInv /\ OnlyTheTargetChanges /\
  SuccessMeansDone

-----------------------------------------------------------------------------
(* Helpers *)

\* What the models of the hardware have in common.
LEMMA HardwareTypes == \A h \in Hardware : h.host \in BOOLEAN /\ h.misprograms \in BOOLEAN
  BY HardwareAssumption

\* A word may be blank.
LEMMA BlankIsAValue == Blank \in Values
  BY DEF Blank, Values

\* A range of words, or of sectors, with both ends in flash is in flash.
LEMMA WriteRange ==
  ASSUME NEW f \in Words, NEW k \in 0 .. MaxWords, f + k - 1 \in Words \cup {f - 1}
  PROVE  \A j \in 0 .. k - 1 : f + j \in Words
<1> DEFINE last == 2 * BankSectors * SectorWords - 1
<1>1. last \in Int
  BY SizesAssumption
<1>2. Words = 0 .. last
  BY DEF Words
<1> HIDE DEF last
<1> QED
  BY <1>1, <1>2, SizesAssumption

\* What Flash_Erase checks about its range, sector by sector.
LEMMA EraseRange ==
  ASSUME NEW s \in -1 .. 2 * BankSectors, NEW k \in 0 .. 2 * BankSectors + 1,
         RangeIsValid(s, k)
  PROVE  \A j \in 0 .. k - 1 : s + j \in Sectors
  BY SizesAssumption DEF RangeIsValid, Flash_IsAddressValid, Sectors

\* The same of a range that the host erases at once.
LEMMA HostEraseRange ==
  ASSUME NEW s \in Sectors, NEW k \in 0 .. 2 * BankSectors, s + k - 1 \in Sectors \cup {s - 1}
  PROVE  \A j \in 0 .. k - 1 : s + j \in Sectors
  BY SizesAssumption DEF Sectors

\* Locking and unlocking are about the two banks.
LEMMA LocksLeave ==
  ASSUME TypeOK
  PROVE  LockLeaves \subseteq SUBSET Banks /\ UnlockLeaves \subseteq SUBSET Banks
  BY DEF TypeOK, LockLeaves, UnlockLeaves, Banks

\* The bank and the number given to the controller are those of the sector.
LEMMA ErasedIsTheSector ==
  ASSUME NEW s \in Sectors
  PROVE  Erased(Get_Actual_Bank(s), Get_Sector(s)) = WordsOf(s)
<1> USE SizesAssumption
<1>1. CASE s < BankSectors
  <2>1. Get_Actual_Bank(s) = 1 /\ Get_Sector(s) = s
    BY <1>1 DEF Get_Actual_Bank, Get_Sector
  <2>2. (1 - 1) * BankSectors + s = s
    BY DEF Sectors
  <2> QED
    BY <1>1, <2>1, <2>2 DEF Erased
<1>2. CASE ~(s < BankSectors)
  <2>1. Get_Actual_Bank(s) = 2 /\ Get_Sector(s) = s - BankSectors
    BY <1>2 DEF Get_Actual_Bank, Get_Sector
  <2>2. (2 - 1) * BankSectors + (s - BankSectors) = s /\ s - BankSectors < BankSectors
    BY DEF Sectors
  <2> QED
    BY <2>1, <2>2 DEF Erased
<1> QED
  BY <1>1, <1>2

\* In a call, the sector the controller is erasing is the one the loop is at.
LEMMA ErasingIsTheSector ==
  ASSUME TypeOK, CallInv, pc = "Erasing"
  PROVE  Erasing = WordsOf(first + i) /\ Erasing \subseteq Words
<1>1. first + i \in Sectors
  BY DEF TypeOK, CallInv
<1>2. Erasing = WordsOf(first + i)
  BY <1>1, ErasedIsTheSector DEF Erasing
<1> QED
  BY <1>2 DEF WordsOf

\* Sectors have no word in common.
LEMMA SectorsApart ==
  ASSUME NEW s, NEW t, s # t
  PROVE  WordsOf(s) \cap WordsOf(t) = {}
  BY DEF WordsOf

\* An erase changes the words of its sector alone.
LEMMA EraseChanges ==
  ASSUME TypeOK, CallInv, pc = "Erasing", NEW V \in SUBSET Values, Erase(V)
  PROVE  /\ flash' \in [Words -> Values]
         /\ \A w \in Words : IF w \in WordsOf(first + i) THEN flash'[w] \in V
                              ELSE flash'[w] = flash[w]
<1>1. PICK content \in [Erasing -> V] :
        flash' = [w \in Words |-> IF w \in Erasing THEN content[w] ELSE flash[w]]
  BY DEF Erase
<1> QED
  BY <1>1, ErasingIsTheSector DEF TypeOK

\* The stores of one flash word change that word, and its line if it has one.
LEMMA StoredChanges ==
  ASSUME TypeOK, CallInv, pc = "Programming", NEW v \in Values, Stored(first + i, v)
  PROVE  /\ flash' \in [Words -> Values] /\ line' \in [Words -> SUBSET Values]
         /\ first + i \in Words /\ flash'[first + i] = v
         /\ line'[first + i] # {} => line[first + i] # {}
         /\ \A w \in Words : w # first + i => flash'[w] = flash[w] /\ line'[w] = line[w]
<1>1. first + i \in Words /\ data[i] \in Values
  <2>1. i \in 0 .. n - 1 /\ op = "write"
    BY DEF TypeOK, CallInv
  <2>2. data \in [0 .. n - 1 -> Values] /\ (\A j \in 0 .. n - 1 : first + j \in Words)
    BY <2>1 DEF CallInv
  <2> QED
    BY <2>1, <2>2
<1>2. flash' = [flash EXCEPT ![first + i] = v]
  BY DEF Stored
<1> DEFINE filled == IF line[first + i] = {} THEN {} ELSE {data[i]}
<1>3. line' = [line EXCEPT ![first + i] = filled] /\ filled \in SUBSET Values
  BY <1>1 DEF Stored
<1>4. line[first + i] = {} => filled = {}
  OBVIOUS
<1> HIDE DEF filled
<1>5. flash \in [Words -> Values] /\ line \in [Words -> SUBSET Values]
  BY DEF TypeOK
<1>6. line' \in [Words -> SUBSET Values] /\ line'[first + i] = filled
  BY <1>1, <1>3, <1>5
<1>7. flash' \in [Words -> Values] /\ flash'[first + i] = v
  BY <1>1, <1>2, <1>5
<1> QED
  BY <1>1, <1>2, <1>3, <1>4, <1>5, <1>6, <1>7
-----------------------------------------------------------------------------

\* Types.
LEMMA TypeStep ==
  ASSUME CallInv, TypeOK, Next
  PROVE  TypeOK'
<1>1. CASE Rejected
  BY SizesAssumption, <1>1 DEF TypeOK, CallInv, Values, args, device, Rejected,
         Return
<1>2. CASE Flash_Write
  <2>1. PICK f \in Words, k \in 0 .. MaxWords :
          f + k - 1 \in Words \cup {f - 1} /\ (\E d \in [0 .. k - 1 -> Values] : Begin("write", f, k, d))
    BY <1>2 DEF Flash_Write
  <2>2. f \in Int /\ k \in Nat
    BY SizesAssumption DEF Words
  <2>3. op' = "write" /\ first' = f /\ n' = k /\ i' = 0 /\ old' = flash /\ cached' \subseteq Words
    BY <2>1 DEF Begin
  <2> QED
    BY <1>2, <2>2, <2>3 DEF TypeOK, Flash_Write
<1>3. CASE WriteLoop
  BY SizesAssumption, <1>3 DEF TypeOK, CallInv, Values, args, device, WriteLoop
<1>4. CASE Programmed
  <2>1. PICK v \in Values : Stored(first + i, v)
    BY <1>4 DEF Programmed
  <2>2. flash' \in [Words -> Values] /\ line' \in [Words -> SUBSET Values]
    BY <1>4, <2>1, StoredChanges DEF Programmed
  <2> QED
    BY <1>4, <2>2 DEF TypeOK, args, Programmed
<1>5. CASE ProgramFails
  <2>1. PICK v \in Values : Stored(first + i, v)
    BY <1>5 DEF ProgramFails
  <2>2. flash' \in [Words -> Values] /\ line' \in [Words -> SUBSET Values]
    BY <1>5, <2>1, StoredChanges DEF ProgramFails
  <2>3. unlocked' \subseteq Banks
    BY <1>5, LocksLeave DEF ProgramFails, LockAndReturn
  <2>4. refused' \in BOOLEAN
    BY <1>5 DEF TypeOK, ProgramFails, LockAndReturn
  <2> QED
    BY <1>5, <2>2, <2>3, <2>4 DEF TypeOK, args, ProgramFails, LockAndReturn, Return
<1>6. CASE Compare
  <2>1. PICK seen \in View(first + i) :
          /\ line' = [line EXCEPT ![first + i] = IF hw.dcache THEN {seen} ELSE {}]
          /\ IF seen = data[i]
             THEN pc' = "Loop" /\ i' = i + 1 /\ ret' = ret /\ UNCHANGED <<unlocked, refused>>
             ELSE LockAndReturn(-4) /\ i' = i
    BY <1>6 DEF Compare
  <2>2. first + i \in Words /\ seen \in Values
    <3>0. i \in 0 .. n - 1 /\ op = "write"
      BY <1>6 DEF TypeOK, CallInv, Compare
    <3>1. first + i \in Words
      BY <3>0 DEF CallInv
    <3>2. flash[first + i] \in Values /\ line[first + i] \subseteq Values
      BY <3>1 DEF TypeOK
    <3> QED
      BY <3>1, <3>2 DEF View
  <2>3. line' \in [Words -> SUBSET Values]
    BY <2>1, <2>2 DEF TypeOK
  <2>4. unlocked' \subseteq Banks /\ refused' \in BOOLEAN
    BY <2>1, LocksLeave DEF TypeOK, LockAndReturn
  <2>5. i' \in 0 .. n /\ pc' \in {"Loop", "Returned"} /\ ret' \in {-4, ret}
    BY <1>6, <2>1 DEF TypeOK, CallInv, Compare, LockAndReturn, Return
  <2> QED
    BY <1>6, <2>3, <2>4, <2>5 DEF TypeOK, args, Compare
<1>7. CASE Flash_Erase
  BY SizesAssumption, <1>7 DEF TypeOK, CallInv, Values, args, device,
         Flash_Erase, Begin, RangeIsValid, Flash_IsAddressValid
<1>8. CASE EraseLoop
  BY SizesAssumption, <1>8 DEF TypeOK, CallInv, Values, args, device,
         EraseLoop, Return
<1>9. CASE EraseDone
  <2>1. flash' \in [Words -> Values]
    BY <1>9, EraseChanges, BlankIsAValue DEF EraseDone
  <2> QED
    BY <1>9, <2>1 DEF TypeOK, args, EraseDone
<1>10. CASE EraseFails
  BY SizesAssumption, <1>10 DEF TypeOK, CallInv, Values, args, device,
         EraseFails, Erase, LockAndReturn, LockLeaves, Return
<1>11. CASE UnlockRefused
  <2>1. unlocked' \subseteq Banks
    BY <1>11, LocksLeave DEF UnlockRefused
  <2> QED
    BY <1>11, <2>1 DEF TypeOK, args, UnlockRefused, Return
<1>12. CASE Unlock
  BY SizesAssumption, <1>12 DEF TypeOK, CallInv, Values, args, device, Unlock
<1>13. CASE Lock
  BY SizesAssumption, <1>13 DEF TypeOK, CallInv, Values, args, device, Lock,
         LockLeaves, Return
<1>14. CASE HostWrite
  <2>1. PICK f \in Words, k \in 0 .. MaxWords :
          \E d \in [0 .. k - 1 -> Values] :
          /\ Begin("write", f, k, d)
          /\ flash' = [w \in Words |->
               IF w \in f .. f + k - 1 THEN flash[w] \cap d[w - f] ELSE flash[w]]
    BY <1>14 DEF HostWrite
  <2>2. f \in Int /\ k \in Nat
    BY SizesAssumption DEF Words
  <2>3. op' = "write" /\ first' = f /\ n' = k /\ i' = 0 /\ old' = flash /\ cached' \subseteq Words
    BY <2>1 DEF Begin
  <2>4. flash' \in [Words -> Values]
    BY <2>1 DEF TypeOK, Values
  <2> QED
    BY <1>14, <2>2, <2>3, <2>4 DEF TypeOK, HostWrite, Return
<1>15. CASE HostErase
  <2>1. PICK s \in Sectors, k \in 0 .. 2 * BankSectors :
          /\ Begin("erase", s, k, <<>>)
          /\ flash' = [w \in Words |->
               IF \E t \in s .. s + k - 1 : w \in WordsOf(t) THEN Blank ELSE flash[w]]
    BY <1>15 DEF HostErase
  <2>2. s \in Int /\ k \in Nat
    BY SizesAssumption DEF Sectors
  <2>3. op' = "erase" /\ first' = s /\ n' = k /\ i' = 0 /\ old' = flash /\ cached' \subseteq Words
    BY <2>1 DEF Begin
  <2>4. flash' \in [Words -> Values]
    BY <2>1, BlankIsAValue DEF TypeOK
  <2> QED
    BY <1>15, <2>2, <2>3, <2>4 DEF TypeOK, HostErase, Return
<1>16. CASE Continue
  BY SizesAssumption, <1>16 DEF TypeOK, CallInv, Values, args, device, Continue
<1>17. CASE Reset
  BY SizesAssumption, <1>17 DEF TypeOK, CallInv, Values, args, device, Reset,
         Erase, Return
<1> QED
  BY <1>1, <1>2, <1>3, <1>4, <1>5, <1>6, <1>7, <1>8, <1>9, <1>10, <1>11, <1>12,
     <1>13, <1>14, <1>15, <1>16, <1>17 DEF Next

\* Each step goes where the loops say.
LEMMA CallStep ==
  ASSUME TypeOK, TypeOK', CallInv, Next
  PROVE  CallInv'
<1>1. CASE Rejected
  BY SizesAssumption, HardwareTypes, <1>1 DEF TypeOK, CallInv, args, device,
         Rejected, Return
<1>2. CASE Flash_Write
  <2>1. PICK f \in Words, k \in 0 .. MaxWords :
          /\ f + k - 1 \in Words \cup {f - 1}
          /\ \E d \in [0 .. k - 1 -> Values] : Begin("write", f, k, d)
    BY <1>2 DEF Flash_Write
  <2>2. \A j \in 0 .. k - 1 : f + j \in Words
    BY <2>1, WriteRange
  <2>3. op' = "write" /\ first' = f /\ n' = k /\ i' = 0 /\ data' \in [0 .. k - 1 -> Values]
    BY <2>1 DEF Begin
  <2>4. pc' = "Unlock" /\ hw' = hw /\ hw.host = FALSE
    BY <1>2, HardwareTypes DEF TypeOK, Flash_Write
  <2> QED
    BY <2>2, <2>3, <2>4 DEF CallInv
<1>3. CASE WriteLoop
  BY SizesAssumption, HardwareTypes, <1>3 DEF TypeOK, CallInv, args, device,
         WriteLoop
<1>4. CASE Programmed
  BY SizesAssumption, HardwareTypes, <1>4 DEF TypeOK, CallInv, args, device,
         Programmed, Stored
<1>5. CASE ProgramFails
  BY SizesAssumption, HardwareTypes, <1>5 DEF TypeOK, CallInv, args, device,
         ProgramFails, Stored, LockAndReturn, LockLeaves, Return
<1>6. CASE Compare
  BY SizesAssumption, HardwareTypes, <1>6 DEF TypeOK, CallInv, args, device,
         Compare, LockAndReturn, LockLeaves, Return, View
<1>7. CASE Flash_Erase
  <2>1. PICK s \in -1 .. 2 * BankSectors, k \in 0 .. 2 * BankSectors + 1 :
          RangeIsValid(s, k) /\ Begin("erase", s, k, <<>>)
    BY <1>7 DEF Flash_Erase
  <2>2. \A j \in 0 .. k - 1 : s + j \in Sectors
    BY <2>1, EraseRange
  <2>3. op' = "erase" /\ first' = s /\ n' = k /\ i' = 0
    BY <2>1 DEF Begin
  <2>4. pc' = "Loop" /\ hw' = hw /\ hw.host = FALSE
    BY <1>7, HardwareTypes DEF TypeOK, Flash_Erase
  <2> QED
    BY <2>2, <2>3, <2>4 DEF CallInv
<1>8. CASE EraseLoop
  BY SizesAssumption, HardwareTypes, <1>8 DEF TypeOK, CallInv, args, device,
         EraseLoop, Return
<1>9. CASE EraseDone
  BY SizesAssumption, HardwareTypes, <1>9 DEF TypeOK, CallInv, args, device,
         EraseDone, Erase
<1>10. CASE EraseFails
  BY SizesAssumption, HardwareTypes, <1>10 DEF TypeOK, CallInv, args, device,
         EraseFails, Erase, LockAndReturn, LockLeaves, Return
<1>11. CASE UnlockRefused
  BY SizesAssumption, HardwareTypes, <1>11 DEF TypeOK, CallInv, args, device,
         UnlockRefused, UnlockLeaves, Return
<1>12. CASE Unlock
  BY SizesAssumption, HardwareTypes, <1>12 DEF TypeOK, CallInv, args, device,
         Unlock
<1>13. CASE Lock
  BY SizesAssumption, HardwareTypes, <1>13 DEF TypeOK, CallInv, args, device,
         Lock, LockLeaves, Return
<1>14. CASE HostWrite
  <2>1. PICK f \in Words, k \in 0 .. MaxWords :
          /\ f + k - 1 \in Words \cup {f - 1}
          /\ \E d \in [0 .. k - 1 -> Values] : Begin("write", f, k, d)
    BY <1>14 DEF HostWrite
  <2>2. \A j \in 0 .. k - 1 : f + j \in Words
    BY <2>1, WriteRange
  <2>3. op' = "write" /\ first' = f /\ n' = k /\ i' = 0 /\ data' \in [0 .. k - 1 -> Values]
    BY <2>1 DEF Begin
  <2>4. pc' = "Returned" /\ hw' = hw /\ unlocked' = unlocked /\ hw.host
    BY <1>14 DEF HostWrite, Return
  <2> QED
    BY <2>2, <2>3, <2>4 DEF CallInv
<1>15. CASE HostErase
  <2>1. PICK s \in Sectors, k \in 0 .. 2 * BankSectors :
          s + k - 1 \in Sectors \cup {s - 1} /\ Begin("erase", s, k, <<>>)
    BY <1>15 DEF HostErase
  <2>2. \A j \in 0 .. k - 1 : s + j \in Sectors
    BY <2>1, HostEraseRange
  <2>3. op' = "erase" /\ first' = s /\ n' = k /\ i' = 0
    BY <2>1 DEF Begin
  <2>4. pc' = "Returned" /\ hw' = hw /\ unlocked' = unlocked /\ hw.host
    BY <1>15 DEF HostErase, Return
  <2> QED
    BY <2>2, <2>3, <2>4 DEF CallInv
<1>16. CASE Continue
  BY SizesAssumption, HardwareTypes, <1>16 DEF TypeOK, CallInv, args, device,
         Continue
<1>17. CASE Reset
  BY SizesAssumption, HardwareTypes, <1>17 DEF TypeOK, CallInv, args, device,
         Reset, Erase, Return
<1> QED
  BY <1>1, <1>2, <1>3, <1>4, <1>5, <1>6, <1>7, <1>8, <1>9, <1>10, <1>11, <1>12,
     <1>13, <1>14, <1>15, <1>16, <1>17 DEF Next

\* What is unlocked is locked again, or refused.
LEMMA LockStep ==
  ASSUME TypeOK, CallInv, LockInv, Next
  PROVE  LockInv'
<1>1. CASE Rejected
  BY HardwareTypes, <1>1 DEF TypeOK, CallInv, LockInv, args, device, Rejected,
         Return
<1>2. CASE Flash_Write
  BY HardwareTypes, <1>2 DEF TypeOK, CallInv, LockInv, args, device,
         Flash_Write, Begin
<1>3. CASE WriteLoop
  BY HardwareTypes, <1>3 DEF TypeOK, CallInv, LockInv, args, device, WriteLoop
<1>4. CASE Programmed
  BY HardwareTypes, <1>4 DEF TypeOK, CallInv, LockInv, args, device,
         Programmed, Stored
<1>5. CASE ProgramFails
  BY HardwareTypes, <1>5 DEF TypeOK, CallInv, LockInv, args, device,
         ProgramFails, Stored, LockAndReturn, LockLeaves, Return
<1>6. CASE Compare
  BY HardwareTypes, <1>6 DEF TypeOK, CallInv, LockInv, args, device, Compare,
         LockAndReturn, LockLeaves, Return, View
<1>7. CASE Flash_Erase
  BY HardwareTypes, <1>7 DEF TypeOK, CallInv, LockInv, args, device,
         Flash_Erase, Begin, RangeIsValid, Flash_IsAddressValid
<1>8. CASE EraseLoop
  BY HardwareTypes, <1>8 DEF TypeOK, CallInv, LockInv, args, device, EraseLoop,
         Return
<1>9. CASE EraseDone
  BY HardwareTypes, <1>9 DEF TypeOK, CallInv, LockInv, args, device, EraseDone,
         Erase
<1>10. CASE EraseFails
  BY HardwareTypes, <1>10 DEF TypeOK, CallInv, LockInv, args, device,
         EraseFails, Erase, LockAndReturn, LockLeaves, Return
<1>11. CASE UnlockRefused
  BY HardwareTypes, <1>11 DEF TypeOK, CallInv, LockInv, args, device,
         UnlockRefused, UnlockLeaves, Return
<1>12. CASE Unlock
  BY HardwareTypes, <1>12 DEF TypeOK, CallInv, LockInv, args, device, Unlock
<1>13. CASE Lock
  BY HardwareTypes, <1>13 DEF TypeOK, CallInv, LockInv, args, device, Lock,
         LockLeaves, Return
<1>14. CASE HostWrite
  BY HardwareTypes, <1>14 DEF TypeOK, CallInv, LockInv, args, device,
         HostWrite, Begin, Return
<1>15. CASE HostErase
  BY HardwareTypes, <1>15 DEF TypeOK, CallInv, LockInv, args, device,
         HostErase, Begin, Return
<1>16. CASE Continue
  BY HardwareTypes, <1>16 DEF TypeOK, CallInv, LockInv, args, device, Continue
<1>17. CASE Reset
  BY HardwareTypes, <1>17 DEF TypeOK, CallInv, LockInv, args, device, Reset,
         Erase, Return
<1> QED
  BY <1>1, <1>2, <1>3, <1>4, <1>5, <1>6, <1>7, <1>8, <1>9, <1>10, <1>11, <1>12,
     <1>13, <1>14, <1>15, <1>16, <1>17 DEF Next

\* A write goes through the buffer in order, and leaves alone what is ahead.
LEMMA WriteStep ==
  ASSUME TypeOK, CallInv, CallInv', WriteInv, Next
  PROVE  WriteInv'
<1>1. CASE Rejected
  BY <1>1 DEF TypeOK, CallInv, WriteInv, Untouched, Written, Unchecked, args,
         device, Rejected, Return
<1>2. CASE Flash_Write
  <2>1. PICK f \in Words, k \in 0 .. MaxWords :
          \E d \in [0 .. k - 1 -> Values] : Begin("write", f, k, d)
    BY <1>2 DEF Flash_Write
  <2>2. op' = "write" /\ i' = 0 /\ old' = flash /\ cached' = {w \in Words : line[w] # {}}
    BY <2>1 DEF Begin
  <2>3. pc' = "Unlock" /\ flash' = flash /\ line' = line
    BY <1>2 DEF Flash_Write
  <2>4. \A j \in 0 .. n' - 1 : first' + j \in Words
    BY <2>2 DEF CallInv
  <2> QED
    BY <2>2, <2>3, <2>4 DEF WriteInv, Untouched, Written, Unchecked
<1>3. CASE WriteLoop
  BY <1>3 DEF TypeOK, CallInv, WriteInv, Untouched, Written, Unchecked, args,
         device, WriteLoop
<1>4. CASE Programmed
  <2>1. PICK v \in Values : /\ v = data[i] \/ hw.misprograms \/ flash[first + i] # Blank
                          /\ Stored(first + i, v)
    BY <1>4 DEF Programmed
  <2>2. /\ flash'[first + i] = v /\ i \in 0 .. n - 1 /\ op = "write" /\ pc = "Programming"
        /\ line'[first + i] # {} => line[first + i] # {}
        /\ \A w \in Words : w # first + i => flash'[w] = flash[w] /\ line'[w] = line[w]
    BY <1>4, <2>1, StoredChanges DEF Programmed, TypeOK, CallInv
  <2>3. /\ i' = i /\ n' = n /\ first' = first /\ data' = data /\ old' = old /\ cached' = cached
        /\ hw' = hw /\ op' = op /\ pc' = "Compare"
    BY <1>4 DEF Programmed, args
  <2>4. \A j \in 0 .. n - 1 : first + j \in Words
    BY <2>2 DEF CallInv
  <2>5. first \in Int /\ n \in Nat
    BY DEF TypeOK
  <2> QED
    BY <2>1, <2>2, <2>3, <2>4, <2>5 DEF WriteInv, Untouched, Written, Unchecked
<1>5. CASE ProgramFails
  <2>1. PICK v \in Values : Stored(first + i, v)
    BY <1>5 DEF ProgramFails
  <2>2. /\ i \in 0 .. n - 1 /\ op = "write" /\ pc = "Programming"
        /\ \A w \in Words : w # first + i => flash'[w] = flash[w]
    BY <1>5, <2>1, StoredChanges DEF ProgramFails, TypeOK, CallInv
  <2>3. /\ i' = i /\ n' = n /\ first' = first /\ data' = data /\ old' = old /\ cached' = cached
        /\ hw' = hw /\ op' = op /\ pc' = "Returned"
    BY <1>5 DEF ProgramFails, LockAndReturn, Return, args
  <2>4. \A j \in 0 .. n - 1 : first + j \in Words
    BY <2>2 DEF CallInv
  <2>5. first \in Int /\ n \in Nat
    BY DEF TypeOK
  <2> QED
    BY <2>2, <2>3, <2>4, <2>5 DEF WriteInv, Untouched, Written, Unchecked
<1>6. CASE Compare
  <2>1. PICK seen \in View(first + i) :
          /\ line' = [line EXCEPT ![first + i] = IF hw.dcache THEN {seen} ELSE {}]
          /\ IF seen = data[i]
             THEN pc' = "Loop" /\ i' = i + 1 /\ ret' = ret /\ UNCHANGED <<unlocked, refused>>
             ELSE LockAndReturn(-4) /\ i' = i
    BY <1>6 DEF Compare
  <2>2. i \in 0 .. n - 1 /\ op = "write" /\ pc = "Compare" /\ first \in Int /\ n \in Nat
    BY <1>6 DEF Compare, TypeOK, CallInv
  <2>3. /\ n' = n /\ first' = first /\ data' = data /\ old' = old /\ cached' = cached
        /\ hw' = hw /\ op' = op /\ flash' = flash
    BY <1>6 DEF Compare, args
  <2>4. \A j \in 0 .. n - 1 : first + j \in Words
    BY <2>2 DEF CallInv
  <2>5. \A w \in Words : w # first + i => line'[w] = line[w]
    BY <2>1 DEF TypeOK
  <2>6. CASE seen = data[i]
    <3>1. i' = i + 1 /\ pc' = "Loop"
      BY <2>1, <2>6
    <3>2. hw.host => WriteInv'
      BY <2>3 DEF WriteInv
    <3>3. CASE ~hw.host
      <4>1. Written(i)
        BY <2>2, <2>6, <3>3 DEF View, WriteInv, Untouched, Written, Unchecked
      <4> QED
        BY <2>2, <2>3, <2>4, <2>5, <3>1, <3>3, <4>1 DEF WriteInv, Untouched, Written, Unchecked
    <3> QED
      BY <3>2, <3>3
  <2>7. CASE seen # data[i]
    <3>1. i' = i /\ pc' = "Returned"
      BY <2>1, <2>7 DEF LockAndReturn, Return
    <3> QED
      BY <2>2, <2>3, <2>4, <3>1 DEF WriteInv, Untouched, Written, Unchecked
  <2> QED
    BY <2>6, <2>7
<1>7. CASE Flash_Erase
  BY <1>7 DEF WriteInv, args, Flash_Erase, Begin, RangeIsValid, Flash_IsAddressValid
<1>8. CASE EraseLoop
  BY <1>8 DEF CallInv, WriteInv, args, EraseLoop
<1>9. CASE EraseDone
  BY <1>9 DEF CallInv, WriteInv, args, EraseDone
<1>10. CASE EraseFails
  BY <1>10 DEF CallInv, WriteInv, args, EraseFails
<1>11. CASE UnlockRefused
  BY <1>11 DEF TypeOK, CallInv, WriteInv, Untouched, Written, Unchecked, args,
         device, UnlockRefused, UnlockLeaves, Return
<1>12. CASE Unlock
  BY <1>12 DEF TypeOK, CallInv, WriteInv, Untouched, Written, Unchecked, args,
         device, Unlock
<1>13. CASE Lock
  BY <1>13 DEF TypeOK, CallInv, WriteInv, Untouched, Written, Unchecked, args,
         device, Lock, LockLeaves, Return
<1>14. CASE HostWrite
  BY <1>14 DEF WriteInv, HostWrite
<1>15. CASE HostErase
  BY <1>15 DEF WriteInv, args, HostErase, Begin, Return
<1>16. CASE Continue
  BY <1>16 DEF WriteInv, args, Continue
<1>17. CASE Reset
  <2>1. /\ i' = i /\ n' = n /\ first' = first /\ data' = data /\ old' = old /\ cached' = cached
        /\ hw' = hw /\ op' = op /\ pc' = "Returned"
    BY <1>17 DEF Reset, Return, args
  <2>2. first \in Int /\ n \in Nat /\ i \in 0 .. n /\ flash \in [Words -> Values]
    BY DEF TypeOK
  <2>3. CASE op = "write"
    <3>1. \A j \in 0 .. n - 1 : first + j \in Words
      BY <2>3 DEF CallInv
    <3>2. \A w \in Words : w # first + i => flash'[w] = flash[w]
      BY <1>17, <2>2, <2>3 DEF Reset, CallInv
    <3>3. pc # "Programming" => flash' = flash
      BY <1>17, <2>3 DEF Reset, CallInv
    <3>4. pc = "Programming" => i < n
      BY DEF CallInv
    <3> QED
      BY <2>1, <2>2, <2>3, <3>1, <3>2, <3>3, <3>4 DEF WriteInv, Untouched, Written, Unchecked
  <2> QED
    BY <2>1, <2>3 DEF WriteInv
<1> QED
  BY <1>1, <1>2, <1>3, <1>4, <1>5, <1>6, <1>7, <1>8, <1>9, <1>10, <1>11, <1>12,
     <1>13, <1>14, <1>15, <1>16, <1>17 DEF Next

\* What has been erased stays erased while the next sectors are.
LEMMA EraseStep ==
  ASSUME TypeOK, CallInv, EraseInv, Next
  PROVE  EraseInv'
<1>1. CASE Rejected
  BY <1>1 DEF TypeOK, CallInv, EraseInv, Gone, args, device, Rejected, Return
<1>2. CASE Flash_Write
  BY <1>2 DEF EraseInv, Flash_Write, Begin
<1>3. CASE WriteLoop
  BY <1>3 DEF TypeOK, CallInv, EraseInv, Gone, args, device, WriteLoop
<1>4. CASE Programmed
  BY <1>4 DEF CallInv, EraseInv, args, Programmed
<1>5. CASE ProgramFails
  BY <1>5 DEF CallInv, EraseInv, args, ProgramFails
<1>6. CASE Compare
  BY <1>6 DEF CallInv, EraseInv, args, Compare
<1>7. CASE Flash_Erase
  <2>1. i' = 0 /\ pc' = "Loop"
    BY <1>7 DEF Flash_Erase, Begin
  <2> QED
    BY <2>1 DEF EraseInv
<1>8. CASE EraseLoop
  BY <1>8 DEF TypeOK, CallInv, EraseInv, Gone, args, device, EraseLoop, Return
<1>9. CASE EraseDone
  <2> DEFINE V == IF hw.misprograms THEN Values ELSE {Blank}
  <2>1. Erase(V) /\ V \in SUBSET Values /\ pc = "Erasing"
    BY <1>9, BlankIsAValue DEF EraseDone
  <2>2. \A w \in Words : IF w \in WordsOf(first + i) THEN flash'[w] \in V ELSE flash'[w] = flash[w]
    BY <2>1, EraseChanges
  <2>3. n' = n /\ first' = first /\ hw' = hw /\ op' = op /\ i' = i /\ pc' = "Lock"
    BY <1>9 DEF EraseDone, args
  <2>4. first \in Int /\ i \in Nat
    BY DEF TypeOK
  <2>5. Gone(i)'
    BY <2>2, <2>3 DEF Gone, WordsOf
  <2>6. \A j \in 0 .. i - 1 : Gone(j) => Gone(j)'
    BY <2>2, <2>3, <2>4, SectorsApart DEF Gone, WordsOf
  <2> QED
    BY <2>3, <2>5, <2>6 DEF EraseInv
<1>10. CASE EraseFails
  <2>1. Erase(Values) /\ pc = "Erasing"
    BY <1>10 DEF EraseFails
  <2>2. \A w \in Words : w \notin WordsOf(first + i) => flash'[w] = flash[w]
    BY <2>1, EraseChanges
  <2>3. n' = n /\ first' = first /\ hw' = hw /\ op' = op /\ i' = i /\ pc' = "Returned"
    BY <1>10 DEF EraseFails, LockAndReturn, Return, args
  <2>4. first \in Int /\ i \in Nat
    BY DEF TypeOK
  <2>5. \A j \in 0 .. i - 1 : Gone(j) => Gone(j)'
    BY <2>2, <2>3, <2>4 DEF Gone, WordsOf
  <2> QED
    BY <2>3, <2>5 DEF EraseInv
<1>11. CASE UnlockRefused
  BY <1>11 DEF TypeOK, CallInv, EraseInv, Gone, args, device, UnlockRefused,
         UnlockLeaves, Return
<1>12. CASE Unlock
  BY <1>12 DEF TypeOK, CallInv, EraseInv, Gone, args, device, Unlock
<1>13. CASE Lock
  <2>1. n' = n /\ first' = first /\ hw' = hw /\ op' = op /\ flash' = flash /\ pc = "Lock"
    BY <1>13 DEF Lock, args
  <2>2. op = "erase" => pc' \in {"Returned", "Loop"} /\ i' \in {i, i + 1} /\ i \in Nat
    BY <1>13 DEF TypeOK, Lock, Return
  <2> QED
    BY <2>1, <2>2 DEF EraseInv, Gone
<1>14. CASE HostWrite
  BY <1>14 DEF EraseInv, HostWrite, Begin
<1>15. CASE HostErase
  BY <1>15 DEF EraseInv, HostErase
<1>16. CASE Continue
  BY <1>16 DEF EraseInv, Continue
<1>17. CASE Reset
  <2>1. n' = n /\ first' = first /\ hw' = hw /\ op' = op /\ i' = i /\ pc' = "Returned"
    BY <1>17 DEF Reset, Return, args
  <2>2. first \in Int /\ i \in Nat
    BY DEF TypeOK
  <2>3. CASE op = "erase" /\ pc = "Erasing"
    <3>1. \A w \in Words : w \notin WordsOf(first + i) => flash'[w] = flash[w]
      BY <1>17, <2>3, EraseChanges DEF Reset
    <3>2. \A j \in 0 .. i - 1 : Gone(j) => Gone(j)'
      BY <2>1, <2>2, <3>1 DEF Gone, WordsOf
    <3> QED
      BY <2>1, <3>2 DEF EraseInv
  <2>4. CASE op = "erase" /\ pc # "Erasing"
    <3>1. flash' = flash
      BY <1>17, <2>4 DEF Reset, CallInv
    <3> QED
      BY <2>1, <3>1 DEF EraseInv, Gone
  <2> QED
    BY <2>1, <2>3, <2>4 DEF EraseInv
<1> QED
  BY <1>1, <1>2, <1>3, <1>4, <1>5, <1>6, <1>7, <1>8, <1>9, <1>10, <1>11, <1>12,
     <1>13, <1>14, <1>15, <1>16, <1>17 DEF Next

\* Every store and every erase is inside the range of the call.
LEMMA TargetStep ==
  ASSUME TypeOK, CallInv, OnlyTheTargetChanges, Next
  PROVE  OnlyTheTargetChanges'
<1>1. CASE Rejected
  <2>1. Target' = Target /\ old' = old /\ flash' = flash
    BY <1>1 DEF Target, args, Rejected
  <2> QED
    BY <2>1 DEF OnlyTheTargetChanges
<1>2. CASE Flash_Write
  BY <1>2 DEF OnlyTheTargetChanges, Flash_Write, Begin
<1>3. CASE WriteLoop
  <2>1. Target' = Target /\ old' = old /\ flash' = flash
    BY <1>3 DEF Target, args, WriteLoop
  <2> QED
    BY <2>1 DEF OnlyTheTargetChanges
<1>4. CASE Programmed
  <2>1. Target' = Target /\ old' = old
    BY <1>4 DEF Target, args, Programmed
  <2>2. \A w \in Words \ Target : flash'[w] = flash[w]
    <3>1. PICK v \in Values : Stored(first + i, v)
      BY <1>4 DEF Programmed
    <3>2. \A w \in Words : w # first + i => flash'[w] = flash[w]
      BY <1>4, <3>1, StoredChanges DEF Programmed
    <3>3. first + i \in Target
      BY <1>4 DEF Programmed, TypeOK, CallInv, Target
    <3> QED
      BY <3>2, <3>3
  <2> QED
    BY <2>1, <2>2 DEF OnlyTheTargetChanges
<1>5. CASE ProgramFails
  <2>1. Target' = Target /\ old' = old
    BY <1>5 DEF Target, args, ProgramFails
  <2>2. \A w \in Words \ Target : flash'[w] = flash[w]
    <3>1. PICK v \in Values : Stored(first + i, v)
      BY <1>5 DEF ProgramFails
    <3>2. \A w \in Words : w # first + i => flash'[w] = flash[w]
      BY <1>5, <3>1, StoredChanges DEF ProgramFails
    <3>3. first + i \in Target
      BY <1>5 DEF ProgramFails, TypeOK, CallInv, Target
    <3> QED
      BY <3>2, <3>3
  <2> QED
    BY <2>1, <2>2 DEF OnlyTheTargetChanges
<1>6. CASE Compare
  <2>1. Target' = Target /\ old' = old /\ flash' = flash
    BY <1>6 DEF Target, args, Compare
  <2> QED
    BY <2>1 DEF OnlyTheTargetChanges
<1>7. CASE Flash_Erase
  BY <1>7 DEF OnlyTheTargetChanges, Flash_Erase, Begin
<1>8. CASE EraseLoop
  <2>1. Target' = Target /\ old' = old /\ flash' = flash
    BY <1>8 DEF Target, args, EraseLoop
  <2> QED
    BY <2>1 DEF OnlyTheTargetChanges
<1>9. CASE EraseDone
  <2>1. Target' = Target /\ old' = old
    BY <1>9 DEF Target, args, EraseDone
  <2>2. \A w \in Words \ Target : flash'[w] = flash[w]
    <3> DEFINE V == IF hw.misprograms THEN Values ELSE {Blank}
    <3>1. Erase(V) /\ V \in SUBSET Values /\ pc = "Erasing"
      BY <1>9, BlankIsAValue DEF EraseDone
    <3> HIDE DEF V
    <3>2. \A w \in Words : w \notin WordsOf(first + i) => flash'[w] = flash[w]
      BY <3>1, EraseChanges
    <3>3. WordsOf(first + i) \subseteq Target
      BY <1>9 DEF EraseDone, TypeOK, CallInv, Target, WordsOf
    <3> QED
      BY <3>2, <3>3
  <2> QED
    BY <2>1, <2>2 DEF OnlyTheTargetChanges
<1>10. CASE EraseFails
  <2>1. Target' = Target /\ old' = old
    BY <1>10 DEF Target, args, EraseFails
  <2>2. \A w \in Words \ Target : flash'[w] = flash[w]
    <3>1. \A w \in Words : w \notin WordsOf(first + i) => flash'[w] = flash[w]
      BY <1>10, EraseChanges DEF EraseFails
    <3>2. WordsOf(first + i) \subseteq Target
      BY <1>10 DEF EraseFails, TypeOK, CallInv, Target, WordsOf
    <3> QED
      BY <3>1, <3>2
  <2> QED
    BY <2>1, <2>2 DEF OnlyTheTargetChanges
<1>11. CASE UnlockRefused
  <2>1. Target' = Target /\ old' = old /\ flash' = flash
    BY <1>11 DEF Target, args, UnlockRefused
  <2> QED
    BY <2>1 DEF OnlyTheTargetChanges
<1>12. CASE Unlock
  <2>1. Target' = Target /\ old' = old /\ flash' = flash
    BY <1>12 DEF Target, args, Unlock
  <2> QED
    BY <2>1 DEF OnlyTheTargetChanges
<1>13. CASE Lock
  <2>1. Target' = Target /\ old' = old /\ flash' = flash
    BY <1>13 DEF Target, args, Lock
  <2> QED
    BY <2>1 DEF OnlyTheTargetChanges
<1>14. CASE HostWrite
  <2>1. PICK f \in Words, k \in 0 .. MaxWords :
          \E d \in [0 .. k - 1 -> Values] :
          /\ Begin("write", f, k, d)
          /\ flash' = [w \in Words |->
               IF w \in f .. f + k - 1 THEN flash[w] \cap d[w - f] ELSE flash[w]]
    BY <1>14 DEF HostWrite
  <2>2. Target' = f .. f + k - 1 /\ old' = flash
    BY <2>1 DEF Begin, Target
  <2> QED
    BY <2>1, <2>2 DEF OnlyTheTargetChanges
<1>15. CASE HostErase
  <2>1. PICK s \in Sectors, k \in 0 .. 2 * BankSectors :
          /\ Begin("erase", s, k, <<>>)
          /\ flash' = [w \in Words |->
               IF \E t \in s .. s + k - 1 : w \in WordsOf(t) THEN Blank ELSE flash[w]]
    BY <1>15 DEF HostErase
  <2>2. Target' = {w \in Words : \E t \in s .. s + k - 1 : w \in WordsOf(t)} /\ old' = flash
    BY <2>1 DEF Begin, Target
  <2> QED
    BY <2>1, <2>2 DEF OnlyTheTargetChanges
<1>16. CASE Continue
  BY <1>16 DEF OnlyTheTargetChanges, Continue
<1>17. CASE Reset
  <2>1. Target' = Target /\ old' = old
    BY <1>17 DEF Target, args, Reset, Return
  <2>2. \A w \in Words \ Target : flash'[w] = flash[w]
    <3>1. CASE pc = "Programming"
      <4>1. first + i \in Target
        BY <3>1 DEF TypeOK, CallInv, Target
      <4> QED
        BY <1>17, <3>1, <4>1 DEF Reset, TypeOK
    <3>2. CASE pc = "Erasing"
      <4>1. \A w \in Words : w \notin WordsOf(first + i) => flash'[w] = flash[w]
        BY <1>17, <3>2, EraseChanges DEF Reset
      <4>2. WordsOf(first + i) \subseteq Target
        BY <3>2 DEF TypeOK, CallInv, Target, WordsOf
      <4> QED
        BY <4>1, <4>2
    <3> QED
      BY <1>17, <3>1, <3>2 DEF Reset
  <2> QED
    BY <2>1, <2>2 DEF OnlyTheTargetChanges
<1> QED
  BY <1>1, <1>2, <1>3, <1>4, <1>5, <1>6, <1>7, <1>8, <1>9, <1>10, <1>11, <1>12,
     <1>13, <1>14, <1>15, <1>16, <1>17 DEF Next

\* 0 is returned only from the ends of the loops.
LEMMA SuccessStep ==
  ASSUME TypeOK, CallInv, LockInv, WriteInv, EraseInv, SuccessMeansDone, Next
  PROVE  SuccessMeansDone'
<1>1. CASE Rejected
  BY <1>1 DEF SuccessMeansDone, Rejected, Return
<1>2. CASE Flash_Write
  BY <1>2 DEF SuccessMeansDone, Flash_Write
<1>3. CASE WriteLoop
  BY <1>3 DEF SuccessMeansDone, WriteLoop
<1>4. CASE Programmed
  BY <1>4 DEF SuccessMeansDone, Programmed
<1>5. CASE ProgramFails
  BY <1>5 DEF SuccessMeansDone, ProgramFails, LockAndReturn, Return
<1>6. CASE Compare
  BY <1>6 DEF SuccessMeansDone, Compare, LockAndReturn, Return
<1>7. CASE Flash_Erase
  BY <1>7 DEF SuccessMeansDone, Flash_Erase
<1>8. CASE EraseLoop
  <2>1. /\ n' = n /\ first' = first /\ hw' = hw /\ op' = op /\ flash' = flash /\ Target' = Target
        /\ unlocked' = unlocked /\ op = "erase"
    BY <1>8 DEF EraseLoop, args, Target
  <2>2. hw.host = FALSE /\ pc = "Loop"
    BY <1>8, HardwareTypes DEF EraseLoop, TypeOK, CallInv
  <2>3. pc' = "Returned" => i = n
    BY <1>8 DEF EraseLoop, TypeOK
  <2>4. SUFFICES ASSUME i = n, NEW w \in Target
                 PROVE  flash[w] = Blank \/ hw.misprograms
    BY <2>1, <2>2, <2>3 DEF SuccessMeansDone, LockInv, TypeOK
  <2>5. PICK s \in first .. first + n - 1 : w \in WordsOf(s)
    BY <2>1 DEF Target
  <2>6. s - first \in 0 .. n - 1 /\ first + (s - first) = s
    BY DEF TypeOK
  <2>7. Gone(s - first)
    BY <2>1, <2>2, <2>4, <2>6 DEF EraseInv
  <2> QED
    BY <2>5, <2>6, <2>7 DEF Gone
<1>9. CASE EraseDone
  BY <1>9 DEF SuccessMeansDone, EraseDone
<1>10. CASE EraseFails
  BY <1>10 DEF SuccessMeansDone, EraseFails, LockAndReturn, Return
<1>11. CASE UnlockRefused
  BY <1>11 DEF SuccessMeansDone, UnlockRefused, Return
<1>12. CASE Unlock
  BY <1>12 DEF SuccessMeansDone, Unlock
<1>13. CASE Lock
  <2>1. /\ n' = n /\ first' = first /\ hw' = hw /\ op' = op /\ flash' = flash /\ data' = data
        /\ old' = old /\ cached' = cached
    BY <1>13 DEF Lock, args
  <2>2. pc' = "Returned" /\ ret' = 0 => op = "write" /\ unlocked' = {} /\ i = n
    BY <1>13 DEF Lock, Return, CallInv
  <2>3. hw.host = FALSE
    BY <1>13, HardwareTypes DEF Lock, TypeOK, CallInv
  <2> QED
    BY <2>1, <2>2, <2>3 DEF SuccessMeansDone, WriteInv, Written, Unchecked
<1>14. CASE HostWrite
  <2>1. PICK f \in Words, k \in 0 .. MaxWords :
          /\ f + k - 1 \in Words \cup {f - 1}
          /\ \E d \in [0 .. k - 1 -> Values] :
               /\ Begin("write", f, k, d)
               /\ flash' = [w \in Words |->
                    IF w \in f .. f + k - 1 THEN flash[w] \cap d[w - f] ELSE flash[w]]
    BY <1>14 DEF HostWrite
  <2>2. PICK d \in [0 .. k - 1 -> Values] :
          /\ Begin("write", f, k, d)
          /\ flash' = [w \in Words |->
               IF w \in f .. f + k - 1 THEN flash[w] \cap d[w - f] ELSE flash[w]]
    BY <2>1
  <2>3. op' = "write" /\ first' = f /\ n' = k /\ data' = d /\ old' = flash
    BY <2>2 DEF Begin
  <2>4. hw' = hw /\ hw.host /\ unlocked' = {}
    BY <1>14 DEF HostWrite, CallInv
  <2>5. ASSUME NEW j \in 0 .. k - 1
        PROVE  Written(j)'
    <3>1. f \in Int /\ k \in Nat /\ f + j \in Words /\ f + j \in f .. f + k - 1
      BY <2>1, WriteRange, SizesAssumption DEF Words
    <3>2. flash'[f + j] = flash[f + j] \cap d[f + j - f] /\ f + j - f = j
      BY <2>2, <3>1
    <3>3. flash[f + j] = Blank => flash'[f + j] = d[j]
      BY <3>2 DEF Blank, Values
    <3> QED
      BY <2>3, <2>4, <3>3 DEF Written, Unchecked
  <2> QED
    BY <2>3, <2>4, <2>5 DEF SuccessMeansDone
<1>15. CASE HostErase
  <2>1. PICK s \in Sectors, k \in 0 .. 2 * BankSectors :
          /\ Begin("erase", s, k, <<>>)
          /\ flash' = [w \in Words |->
               IF \E t \in s .. s + k - 1 : w \in WordsOf(t) THEN Blank ELSE flash[w]]
    BY <1>15 DEF HostErase
  <2>2. op' = "erase" /\ Target' = {w \in Words : \E t \in s .. s + k - 1 : w \in WordsOf(t)}
    BY <2>1 DEF Begin, Target
  <2>3. unlocked' = {}
    BY <1>15 DEF HostErase, CallInv
  <2> QED
    BY <2>1, <2>2, <2>3 DEF SuccessMeansDone
<1>16. CASE Continue
  BY <1>16 DEF SuccessMeansDone, Continue
<1>17. CASE Reset
  BY <1>17 DEF SuccessMeansDone, Reset, Return, NotReturned
<1> QED
  BY <1>1, <1>2, <1>3, <1>4, <1>5, <1>6, <1>7, <1>8, <1>9, <1>10, <1>11, <1>12,
     <1>13, <1>14, <1>15, <1>16, <1>17 DEF Next

-----------------------------------------------------------------------------
(* The theorems *)

\* Before the first call.
LEMMA InitOK == Init => DriverInv
<1> SUFFICES ASSUME Init
             PROVE  DriverInv
  OBVIOUS
<1>1. TypeOK
  <2>1. line \in [Words -> SUBSET Values]
    BY DEF Init
  <2>2. unlocked \subseteq Banks /\ cached \subseteq Words /\ i \in 0 .. n /\ n \in Nat
    BY DEF Init
  <2>3. hw \in Hardware /\ flash \in [Words -> Values] /\ old \in [Words -> Values]
    BY DEF Init
  <2>4. op = "none" /\ first \in Int /\ pc = "Idle" /\ ret = 0
    BY DEF Init
  <2>5. refused \in BOOLEAN
    BY Zenon DEF Init
  <2> QED
    BY <2>1, <2>2, <2>3, <2>4, <2>5 DEF TypeOK
<1>2. CallInv
  BY DEF Init, CallInv
<1>3. LockInv /\ SuccessMeansDone
  BY DEF Init, LockInv, SuccessMeansDone
<1>4. WriteInv /\ EraseInv /\ OnlyTheTargetChanges
  BY DEF Init, WriteInv, EraseInv, OnlyTheTargetChanges
<1> QED
  BY <1>1, <1>2, <1>3, <1>4 DEF DriverInv

\* Nothing happens.
LEMMA StutterOK ==
  ASSUME DriverInv, UNCHANGED vars
  PROVE  DriverInv'
<1>1. TypeOK' /\ CallInv' /\ LockInv'
  BY DEF DriverInv, vars, TypeOK, CallInv, LockInv
<1>2. WriteInv'
  BY DEF DriverInv, vars, WriteInv, Untouched, Written, Unchecked
<1>3. EraseInv'
  BY DEF DriverInv, vars, EraseInv, Gone
<1>4. OnlyTheTargetChanges' /\ SuccessMeansDone'
  BY DEF DriverInv, vars, OnlyTheTargetChanges, SuccessMeansDone, Target, Written, Unchecked
<1> QED
  BY <1>1, <1>2, <1>3, <1>4 DEF DriverInv

\* The invariant of the driver holds in every reachable state.
THEOREM DriverInvariant == Spec => []DriverInv
<1>1. ASSUME DriverInv, Next
      PROVE  DriverInv'
  <2>1. TypeOK'
    BY <1>1, TypeStep DEF DriverInv
  <2>2. CallInv'
    BY <1>1, <2>1, CallStep DEF DriverInv
  <2>3. LockInv'
    BY <1>1, LockStep DEF DriverInv
  <2>4. WriteInv'
    BY <1>1, <2>2, WriteStep DEF DriverInv
  <2>5. EraseInv'
    BY <1>1, EraseStep DEF DriverInv
  <2>6. OnlyTheTargetChanges'
    BY <1>1, TargetStep DEF DriverInv
  <2>7. SuccessMeansDone'
    BY <1>1, SuccessStep DEF DriverInv
  <2> QED
    BY <2>1, <2>2, <2>3, <2>4, <2>5, <2>6, <2>7 DEF DriverInv
<1>2. DriverInv /\ [Next]_vars => DriverInv'
  BY <1>1, StutterOK
<1> QED
  BY <1>2, InitOK, PTL DEF Spec

\* The driver's state keeps its types.
THEOREM DriverTypes == Spec => []TypeOK
<1>1. DriverInv => TypeOK
  BY DEF DriverInv
<1> QED
  BY <1>1, DriverInvariant, PTL

\* A call that returns 0 has stored, or erased, all it was asked to and locked
\* both banks again, but for the words nobody checked.
THEOREM SuccessIsDone == Spec => []SuccessMeansDone
<1>1. DriverInv => SuccessMeansDone
  BY DEF DriverInv
<1> QED
  BY <1>1, DriverInvariant, PTL

\* A write that fails, or is cut short, leaves a prefix of the buffer.
THEOREM FailureIsAPrefix == Spec => []FailureLeavesAPrefix
<1>1. DriverInv => FailureLeavesAPrefix
  BY DEF DriverInv, WriteInv, Untouched, FailureLeavesAPrefix
<1> QED
  BY <1>1, DriverInvariant, PTL

\* No call changes flash outside its range.
THEOREM TargetAlone == Spec => []OnlyTheTargetChanges
<1>1. DriverInv => OnlyTheTargetChanges
  BY DEF DriverInv
<1> QED
  BY <1>1, DriverInvariant, PTL

\* Between calls the control registers are locked unless the hardware refused.
THEOREM LockedAgain == Spec => []LockedUnlessRefused
<1>1. DriverInv => LockedUnlessRefused
  BY DEF DriverInv, LockInv, LockedUnlessRefused
<1> QED
  BY <1>1, DriverInvariant, PTL

-----------------------------------------------------------------------------
(* The driver as its callers know it: FlashWord, for every word of flash *)

\* This is about the firmware's driver; the host's is a store to memory.
OnBoard == \A h \in Hardware : ~h.host

\* Where the last call is with word w; a call that didn't succeed is over with it.
WordState(w) ==
  IF pc = "Idle" \/ w \notin Target \/ (pc = "Returned" /\ ret # 0) THEN "Idle"
  ELSE IF pc = "Returned" THEN "Done"
  ELSE IF op = "erase" THEN "Erase"
  ELSE IF w < first + i \/ (w = first + i /\ pc = "Compare") THEN "Verify"
  ELSE IF w = first + i /\ pc = "Programming" THEN "Programming" ELSE "Write"

WordData(w) ==
  IF op = "write" /\ WordState(w) # "Idle" THEN data[w - first] ELSE Blank

Word(w) == INSTANCE FlashWord
  WITH word <- flash[w], data <- WordData(w), state <- WordState(w)

\* Lines are there with a D-cache only, and so only there does the comparison
\* agree on a word that isn't right.
ReadInv ==
  /\ ~hw.dcache => \A w \in Words : line[w] = {}
  /\ op = "write" => \A j \in 0 .. i - 1 : flash[first + j] = data[j] \/ hw.dcache

\* No line is left that is allowed none.
LEMMA NoLines ==
  ASSUME NEW lines, Cardinality({w \in Words : lines[w] # {}}) <= 0
  PROVE  \A w \in Words : lines[w] = {}
<1> DEFINE last == 2 * BankSectors * SectorWords - 1
           S == {w \in Words : lines[w] # {}}
<1>1. last \in Int
  BY SizesAssumption
<1>2. Words = 0 .. last
  BY DEF Words
<1>3. IsFiniteSet(Words)
  <2> HIDE DEF last
  <2> QED
    BY <1>1, <1>2, FS_Interval
<1>4. IsFiniteSet(S) /\ S \subseteq Words
  BY <1>3, FS_Subset
<1> HIDE DEF S
<1>5. Cardinality(S) \in Nat
  BY <1>4, FS_CardinalityType
<1>6. S = {}
  BY <1>4, <1>5, FS_EmptySet DEF S
<1> QED
  BY <1>6 DEF S

\* Every step of the driver keeps it; the host's is left out.
LEMMA ReadStep ==
  ASSUME TypeOK, CallInv, ReadInv, ~hw.host, Next
  PROVE  ReadInv'
<1> USE DEF args, device
<1>1. CASE Rejected \/ WriteLoop \/ EraseLoop \/ UnlockRefused \/ Unlock
  BY <1>1 DEF ReadInv, CallInv, Rejected, WriteLoop, EraseLoop, UnlockRefused, Unlock
<1>2. CASE Lock
  BY <1>2 DEF ReadInv, CallInv, Lock, Return
<1>3. CASE Flash_Write \/ Flash_Erase
  BY <1>3 DEF ReadInv, Flash_Write, Flash_Erase, Begin
<1>4. CASE Programmed \/ ProgramFails
  <2>1. PICK v \in Values : Stored(first + i, v)
    BY <1>4 DEF Programmed, ProgramFails
  <2>2. pc = "Programming"
    BY <1>4 DEF Programmed, ProgramFails
  <2>3. /\ line'[first + i] # {} => line[first + i] # {}
        /\ \A w \in Words : w # first + i => flash'[w] = flash[w] /\ line'[w] = line[w]
    BY <2>1, <2>2, StoredChanges
  <2>4. i \in 0 .. n - 1 /\ op = "write" /\ first \in Int /\ n \in Nat
    BY <2>2 DEF TypeOK, CallInv
  <2>5. \A j \in 0 .. n - 1 : first + j \in Words
    BY <2>4 DEF CallInv
  <2>6. i' = i /\ first' = first /\ data' = data /\ hw' = hw /\ op' = op
    BY <1>4 DEF Programmed, ProgramFails
  <2> QED
    BY <2>3, <2>4, <2>5, <2>6 DEF ReadInv
<1>5. CASE Compare
  <2>1. PICK seen \in View(first + i) :
          /\ line' = [line EXCEPT ![first + i] = IF hw.dcache THEN {seen} ELSE {}]
          /\ IF seen = data[i]
             THEN pc' = "Loop" /\ i' = i + 1 /\ ret' = ret /\ UNCHANGED <<unlocked, refused>>
             ELSE LockAndReturn(-4) /\ i' = i
    BY <1>5 DEF Compare
  <2>2. /\ first' = first /\ data' = data /\ hw' = hw /\ op' = op /\ flash' = flash
        /\ pc = "Compare"
    BY <1>5 DEF Compare
  <2>3. i \in 0 .. n - 1 /\ op = "write" /\ first \in Int /\ n \in Nat
    BY <2>2 DEF TypeOK, CallInv
  <2>4. first + i \in Words
    BY <2>3 DEF CallInv
  <2>5. \A w \in Words : line'[w] = IF w = first + i THEN IF hw.dcache THEN {seen} ELSE {}
                                     ELSE line[w]
    BY <2>1, <2>4 DEF TypeOK
  <2>6. seen = data[i] => flash[first + i] = data[i] \/ hw.dcache
    BY <2>4 DEF View, ReadInv
  <2>7. i' = i \/ (i' = i + 1 /\ seen = data[i])
    BY <2>1
  <2>8. ~hw'.dcache => \A w \in Words : line'[w] = {}
    BY <2>2, <2>5 DEF ReadInv
  <2>9. \A j \in 0 .. i' - 1 : flash'[first' + j] = data'[j] \/ hw'.dcache
    BY <2>2, <2>3, <2>6, <2>7 DEF ReadInv
  <2> QED
    BY <2>8, <2>9 DEF ReadInv
<1>6. CASE EraseDone \/ EraseFails
  BY <1>6 DEF ReadInv, CallInv, EraseDone, EraseFails, LockAndReturn, Return
<1>7. CASE HostWrite \/ HostErase
  BY <1>7 DEF HostWrite, HostErase
<1>8. CASE Continue
  <2>1. hw' = hw /\ op' = "none"
    BY <1>8 DEF Continue
  <2>2. ~hw.dcache => Cardinality({w \in Words : line'[w] # {}}) <= 0
    BY <1>8 DEF Continue
  <2>3. ~hw.dcache => \A w \in Words : line'[w] = {}
    <3> SUFFICES ASSUME ~hw.dcache PROVE \A w \in Words : line'[w] = {}
      OBVIOUS
    <3>1. PICK lines : lines = line'
      OBVIOUS
    <3>2. Cardinality({w \in Words : lines[w] # {}}) <= 0
      BY <2>2, <3>1
    <3> QED
      BY <3>1, <3>2, NoLines
  <2> QED
    BY <2>1, <2>3 DEF ReadInv
<1>9. CASE Reset
  <2>1. /\ i' = i /\ first' = first /\ data' = data /\ hw' = hw /\ op' = op
        /\ \A w \in Words : line'[w] = {}
    BY <1>9 DEF Reset
  <2>2. CASE op = "write"
    <3>1. \A j \in 0 .. n - 1 : first + j \in Words
      BY <2>2 DEF CallInv
    <3>2. \A w \in Words : w # first + i => flash'[w] = flash[w]
      BY <1>9, <2>2 DEF Reset, CallInv, TypeOK
    <3>3. first \in Int /\ n \in Nat /\ i \in 0 .. n
      BY DEF TypeOK
    <3> QED
      BY <2>1, <3>1, <3>2, <3>3 DEF ReadInv
  <2> QED
    BY <2>1, <2>2 DEF ReadInv
<1> QED
  BY <1>1, <1>2, <1>3, <1>4, <1>5, <1>6, <1>7, <1>8, <1>9 DEF Next

\* The invariant of the driver on the board.
BoardInv == DriverInv /\ ReadInv /\ ~hw.host

\* It holds in every reachable state.
LEMMA BoardInvariance == OnBoard => (Spec => []BoardInv)
<1> SUFFICES ASSUME OnBoard PROVE Spec => []BoardInv
  OBVIOUS
<1>1. Init => ReadInv
  BY DEF Init, ReadInv
<1>2. DriverInv => ~hw.host
  BY DEF DriverInv, TypeOK, OnBoard
<1>3. DriverInv /\ ReadInv /\ [Next]_vars => ReadInv'
  <2>1. ASSUME DriverInv, ReadInv, UNCHANGED vars PROVE ReadInv'
    BY <2>1 DEF vars, ReadInv
  <2> QED
    BY <1>2, <2>1, ReadStep DEF DriverInv
<1> QED
  BY <1>1, <1>2, <1>3, DriverInvariant, PTL DEF Spec, BoardInv

\* A step of the driver is one of FlashWord, or none, for word w.
WordStepOK(w) == Word(w)!Next \/ UNCHANGED Word(w)!vars

\* What a step that leaves a word, and its place in the call, alone is for it.
LEMMA WordStays ==
  ASSUME NEW w \in Words, hw' = hw, flash'[w] = flash[w],
         WordState(w)' = WordState(w), WordData(w)' = WordData(w)
  PROVE  WordStepOK(w)
  BY DEF WordStepOK, Word!vars

\* A word that the call isn't about.
LEMMA WordOutside ==
  ASSUME NEW w \in Words, w \notin Target
  PROVE  WordState(w) = "Idle" /\ WordData(w) = Blank
  BY DEF WordState, WordData

\* Of a write, word w is the one of its place in the buffer.
LEMMA WriteTarget ==
  ASSUME TypeOK, CallInv, op = "write", NEW w \in Words
  PROVE  /\ w \in Target <=> w - first \in 0 .. n - 1
         /\ w \in Target => data[w - first] \in Values /\ first + (w - first) = w
         /\ w - first \in Int
  BY SizesAssumption DEF TypeOK, CallInv, Target, Words

\* The call ends without success, and not in the middle of programming the word.
LEMMA WordLeaves ==
  ASSUME NEW w \in Words, hw' = hw, flash'[w] = flash[w], op' = op, first' = first, n' = n,
         pc' = "Returned", ret' # 0, WordState(w) # "Programming"
  PROVE  WordStepOK(w)
<1>1. WordState(w)' = "Idle" /\ WordData(w)' = Blank
  BY DEF WordState, WordData
<1>2. WordState(w) \in {"Idle", "Done", "Erase", "Verify", "Write"}
  BY DEF WordState
<1>3. CASE WordState(w) = "Idle"
  BY <1>1, <1>3, WordStays DEF WordData
<1>4. CASE WordState(w) # "Idle"
  BY <1>1, <1>2, <1>4 DEF WordStepOK, Word!Next, Word!Leave
<1> QED
  BY <1>3, <1>4

\* Flash_Write, until its last word has been compared.
LEMMA WordStepOfWrite ==
  ASSUME BoardInv, NEW w \in Words,
         Flash_Write \/ WriteLoop \/ Programmed \/ ProgramFails \/ Compare
  PROVE  WordStepOK(w)
<1> USE DEF args, device
<1>0. TypeOK /\ CallInv /\ ReadInv /\ first \in Int /\ n \in Nat /\ i \in 0 .. n
  BY DEF BoardInv, DriverInv, TypeOK
<1>1. CASE Flash_Write
  <2>1. PICK f \in Words, k \in 0 .. MaxWords :
          /\ f + k - 1 \in Words \cup {f - 1}
          /\ \E d \in [0 .. k - 1 -> Values] : Begin("write", f, k, d)
    BY <1>1 DEF Flash_Write
  <2>2. PICK d \in [0 .. k - 1 -> Values] : Begin("write", f, k, d)
    BY <2>1
  <2>3. /\ op' = "write" /\ first' = f /\ n' = k /\ data' = d /\ i' = 0 /\ pc' = "Unlock"
        /\ hw' = hw /\ flash' = flash /\ pc = "Idle"
    BY <1>1, <2>2 DEF Begin, Flash_Write
  <2>4. WordState(w) = "Idle" /\ WordData(w) = Blank
    BY <2>3 DEF WordState, WordData
  <2>5. w \in Int /\ f \in Int /\ k \in Nat
    BY SizesAssumption DEF Words
  <2>6. w \in Target' <=> w - f \in 0 .. k - 1
    BY <2>3, <2>5 DEF Target
  <2>7. CASE w \in Target'
    <3>1. WordState(w)' = "Write" /\ WordData(w)' = d[w - f]
      BY <2>3, <2>5, <2>6, <2>7 DEF WordState, WordData
    <3>2. d[w - f] \in Values
      BY <2>6, <2>7
    <3> QED
      BY <2>3, <2>4, <3>1, <3>2 DEF WordStepOK, Word!Next, Word!Begin
  <2>8. CASE w \notin Target'
    <3>1. WordState(w)' = "Idle" /\ WordData(w)' = Blank
      BY <2>8 DEF WordState, WordData
    <3> QED
      BY <2>3, <2>4, <3>1, WordStays
  <2> QED
    BY <2>7, <2>8
<1>2. CASE WriteLoop
  <2>1. /\ op = "write" /\ pc = "Loop" /\ pc' = IF i < n THEN "Programming" ELSE "Lock"
        /\ UNCHANGED <<hw, flash, i, ret, op, first, n, data>>
    BY <1>2 DEF WriteLoop
  <2>2. Target' = Target
    BY <2>1 DEF Target
  <2>3. CASE w \notin Target
    <3>1. WordState(w)' = WordState(w) /\ WordData(w)' = WordData(w)
      BY <2>2, <2>3 DEF WordState, WordData
    <3> QED
      BY <2>1, <3>1, WordStays
  <2>4. CASE w \in Target
    <3>1. w - first \in 0 .. n - 1 /\ w \in Int
      BY <1>0, <2>1, <2>4, WriteTarget, SizesAssumption DEF Words
    <3>2. CASE w = first + i
      <4>1. WordState(w) = "Write" /\ WordState(w)' = "Programming"
        BY <1>0, <2>1, <2>2, <2>4, <3>1, <3>2 DEF WordState
      <4>2. WordData(w)' = WordData(w)
        BY <2>1, <4>1 DEF WordData
      <4> QED
        BY <2>1, <4>1, <4>2 DEF WordStepOK, Word!Next, Word!Start
    <3>3. CASE w # first + i
      <4>1. WordState(w)' = WordState(w)
        BY <1>0, <2>1, <2>2, <2>4, <3>1, <3>3 DEF WordState
      <4>2. WordData(w)' = WordData(w)
        BY <2>1, <4>1 DEF WordData
      <4> QED
        BY <2>1, <4>1, <4>2, WordStays
    <3> QED
      BY <3>2, <3>3
  <2> QED
    BY <2>3, <2>4
<1>3. CASE Programmed
  <2>1. PICK v \in Values : /\ v = data[i] \/ hw.misprograms \/ flash[first + i] # Blank
                            /\ Stored(first + i, v)
    BY <1>3 DEF Programmed
  <2>2. /\ op = "write" /\ pc = "Programming" /\ pc' = "Compare"
        /\ UNCHANGED <<hw, i, ret, op, first, n, data>> /\ i \in 0 .. n - 1
    BY <1>0, <1>3 DEF Programmed, CallInv
  <2>3. /\ flash'[first + i] = v /\ first + i \in Words
        /\ \A u \in Words : u # first + i => flash'[u] = flash[u]
    BY <1>0, <2>1, <2>2, StoredChanges
  <2>4. Target' = Target
    BY <2>2 DEF Target
  <2>5. CASE w = first + i
    <3>1. w \in Target /\ w - first = i
      BY <1>0, <2>2, <2>3, <2>5, WriteTarget
    <3>2. WordState(w) = "Programming" /\ WordState(w)' = "Verify"
      BY <1>0, <2>2, <2>4, <2>5, <3>1 DEF WordState
    <3>3. WordData(w) = data[i] /\ WordData(w)' = data[i]
      BY <2>2, <3>1, <3>2 DEF WordData
    <3> QED
      BY <2>1, <2>2, <2>3, <2>5, <3>2, <3>3 DEF WordStepOK, Word!Next, Word!Programmed
  <2>6. CASE w # first + i
    <3>1. WordState(w)' = WordState(w)
      BY <2>2, <2>4, <2>6 DEF WordState
    <3>2. WordData(w)' = WordData(w)
      BY <2>2, <3>1 DEF WordData
    <3> QED
      BY <2>2, <2>3, <2>6, <3>1, <3>2, WordStays
  <2> QED
    BY <2>5, <2>6
<1>4. CASE ProgramFails
  <2>1. PICK v \in Values : Stored(first + i, v)
    BY <1>4 DEF ProgramFails
  <2>2. /\ op = "write" /\ pc = "Programming" /\ pc' = "Returned" /\ ret' = -3
        /\ UNCHANGED <<hw, i, op, first, n, data>> /\ i \in 0 .. n - 1
    BY <1>0, <1>4 DEF ProgramFails, LockAndReturn, Return, CallInv
  <2>3. /\ flash'[first + i] = v /\ first + i \in Words
        /\ \A u \in Words : u # first + i => flash'[u] = flash[u]
    BY <1>0, <2>1, <2>2, StoredChanges
  <2>4. CASE w = first + i
    <3>1. w \in Target
      BY <1>0, <2>2, <2>3, <2>4, WriteTarget
    <3>2. WordState(w) = "Programming" /\ WordState(w)' = "Idle" /\ WordData(w)' = Blank
      BY <1>0, <2>2, <2>4, <3>1 DEF WordState, WordData
    <3> QED
      BY <2>2, <2>3, <2>4, <3>2 DEF WordStepOK, Word!Next, Word!Cut
  <2>5. CASE w # first + i
    <3>1. WordState(w) # "Programming"
      BY <2>2, <2>5 DEF WordState
    <3> QED
      BY <2>2, <2>3, <2>5, <3>1, WordLeaves
  <2> QED
    BY <2>4, <2>5
<1>5. CASE Compare
  <2>1. /\ op = "write" /\ pc = "Compare" /\ i \in 0 .. n - 1
        /\ UNCHANGED <<hw, flash, op, first, n, data>>
        /\ \/ pc' = "Loop" /\ i' = i + 1 /\ ret' = ret
           \/ pc' = "Returned" /\ ret' = -4
    <3>1. \E seen \in View(first + i) :
            IF seen = data[i]
            THEN pc' = "Loop" /\ i' = i + 1 /\ ret' = ret /\ UNCHANGED <<unlocked, refused>>
            ELSE LockAndReturn(-4) /\ i' = i
      BY <1>5 DEF Compare
    <3>2. \/ pc' = "Loop" /\ i' = i + 1 /\ ret' = ret
          \/ pc' = "Returned" /\ ret' = -4
      BY <3>1 DEF LockAndReturn, Return
    <3> QED
      BY <1>0, <1>5, <3>2 DEF Compare, CallInv
  <2>2. CASE pc' = "Returned"
    <3>1. WordState(w) # "Programming"
      BY <2>1 DEF WordState
    <3> QED
      BY <2>1, <2>2, <3>1, WordLeaves
  <2>3. CASE pc' = "Loop"
    <3>1. Target' = Target /\ w \in Int
      BY <2>1, SizesAssumption DEF Target, Words
    <3>2. WordState(w)' = WordState(w)
      BY <1>0, <2>1, <2>3, <3>1 DEF WordState
    <3>3. WordData(w)' = WordData(w)
      BY <2>1, <3>2 DEF WordData
    <3> QED
      BY <2>1, <3>2, <3>3, WordStays
  <2> QED
    BY <2>1, <2>2, <2>3
<1> QED
  BY <1>1, <1>2, <1>3, <1>4, <1>5

\* Of an erase, a word of flash is in a sector of the range or not.
LEMMA EraseTarget ==
  ASSUME op = "erase", NEW w \in Words
  PROVE  w \in Target <=> \E s \in first .. first + n - 1 : w \in WordsOf(s)
  BY DEF Target

\* Flash_Erase and the controller.
LEMMA WordStepOfErase ==
  ASSUME BoardInv, NEW w \in Words,
         Flash_Erase \/ EraseLoop \/ EraseDone \/ EraseFails
  PROVE  WordStepOK(w)
<1> USE DEF args, device
<1>0. TypeOK /\ CallInv /\ EraseInv /\ ~hw.host /\ first \in Int /\ n \in Nat /\ i \in 0 .. n
  BY DEF BoardInv, DriverInv, TypeOK
<1>1. CASE Flash_Erase
  <2>1. /\ op' = "erase" /\ pc = "Idle" /\ pc' = "Loop" /\ hw' = hw /\ flash' = flash
    BY <1>1 DEF Flash_Erase, Begin
  <2>2. WordState(w) = "Idle" /\ WordData(w) = Blank
    BY <2>1 DEF WordState, WordData
  <2>3. WordData(w)' = Blank /\ WordState(w)' \in {"Idle", "Erase"}
    BY <2>1 DEF WordState, WordData
  <2>4. CASE WordState(w)' = "Idle"
    BY <2>1, <2>2, <2>3, <2>4, WordStays
  <2>5. CASE WordState(w)' = "Erase"
    BY <2>1, <2>2, <2>3, <2>5 DEF WordStepOK, Word!Next, Word!Begin
  <2> QED
    BY <2>3, <2>4, <2>5
<1>2. CASE EraseLoop
  <2>1. /\ op = "erase" /\ pc = "Loop" /\ UNCHANGED <<hw, flash, op, first, n, data, i>>
        /\ \/ i < n /\ pc' = "Unlock" /\ ret' = ret
           \/ ~(i < n) /\ pc' = "Returned" /\ ret' = 0
    BY <1>2 DEF EraseLoop, Return
  <2>2. Target' = Target /\ WordData(w) = Blank /\ WordData(w)' = Blank
    BY <2>1 DEF Target, WordData
  <2>3. CASE w \notin Target
    BY <2>1, <2>2, <2>3, WordStays DEF WordState
  <2>4. CASE w \in Target /\ pc' = "Unlock"
    BY <2>1, <2>2, <2>4, WordStays DEF WordState
  <2>5. CASE w \in Target /\ pc' = "Returned"
    <3>1. WordState(w) = "Erase" /\ WordState(w)' = "Done"
      BY <2>1, <2>2, <2>5 DEF WordState
    <3>2. PICK s \in first .. first + n - 1 : w \in WordsOf(s)
      BY <2>1, <2>5, EraseTarget
    <3>3. s - first \in 0 .. i - 1 /\ first + (s - first) = s
      BY <1>0, <2>1, <2>5
    <3>4. Gone(s - first)
      BY <1>0, <2>1, <3>3 DEF EraseInv
    <3>5. flash[w] = Blank \/ hw.misprograms
      BY <3>2, <3>3, <3>4 DEF Gone
    <3> QED
      BY <2>1, <2>2, <3>1, <3>5 DEF WordStepOK, Word!Next, Word!Succeed
  <2> QED
    BY <2>1, <2>3, <2>4, <2>5
<1>3. CASE EraseDone \/ EraseFails
  <2>1. pc = "Erasing" /\ op = "erase" /\ i < n
    BY <1>0, <1>3 DEF EraseDone, EraseFails, CallInv
  <2>2. PICK V \in SUBSET Values : Erase(V)
    <3>1. CASE EraseDone
      <4>1. {Blank} \subseteq Values
        BY BlankIsAValue
      <4> QED
        BY <3>1, <4>1 DEF EraseDone
    <3>2. CASE EraseFails
      BY <3>2 DEF EraseFails
    <3> QED
      BY <1>3, <3>1, <3>2
  <2>3. /\ flash' \in [Words -> Values]
        /\ w \notin WordsOf(first + i) => flash'[w] = flash[w]
    BY <1>0, <2>1, <2>2, EraseChanges
  <2>4. /\ UNCHANGED <<hw, op, first, n, data, i>>
        /\ \/ pc' = "Lock" \/ (pc' = "Returned" /\ ret' = -1)
    BY <1>3 DEF EraseDone, EraseFails, LockAndReturn, Return
  <2>5. Target' = Target /\ WordData(w) = Blank /\ WordData(w)' = Blank
    BY <2>1, <2>4 DEF Target, WordData
  <2>6. w \in WordsOf(first + i) => w \in Target
    <3>1. first + i \in first .. first + n - 1
      BY <1>0, <2>1
    <3> QED
      BY <2>1, <3>1, EraseTarget
  <2>7. CASE w \notin Target
    <3>1. WordState(w) = "Idle" /\ WordState(w)' = "Idle"
      BY <2>5, <2>7 DEF WordState
    <3> QED
      BY <2>3, <2>4, <2>5, <2>6, <2>7, <3>1, WordStays
  <2>8. CASE w \in Target
    <3>1. WordState(w) = "Erase" /\ WordState(w)' \in {"Erase", "Idle"}
      BY <2>1, <2>4, <2>5, <2>8 DEF WordState
    <3>2. flash'[w] \in Values
      BY <2>3
    <3> QED
      BY <2>4, <2>5, <3>1, <3>2 DEF WordStepOK, Word!Next, Word!Erase
  <2> QED
    BY <2>7, <2>8
<1> QED
  BY <1>1, <1>2, <1>3

\* The lock, of either call.
LEMMA WordStepOfLock ==
  ASSUME BoardInv, NEW w \in Words, UnlockRefused \/ Unlock \/ Lock
  PROVE  WordStepOK(w)
<1> USE DEF args, device
<1>0. TypeOK /\ CallInv /\ ReadInv /\ first \in Int /\ n \in Nat /\ i \in 0 .. n
  BY DEF BoardInv, DriverInv, TypeOK
<1>1. CASE UnlockRefused
  <2>1. /\ pc = "Unlock" /\ pc' = "Returned" /\ ret' \in {-1, -2}
        /\ UNCHANGED <<hw, flash, op, first, n, data, i>>
    BY <1>1 DEF UnlockRefused, Return
  <2>2. WordState(w) # "Programming"
    BY <2>1 DEF WordState
  <2> QED
    BY <2>1, <2>2, WordLeaves
<1>2. CASE Unlock
  <2>1. /\ pc = "Unlock" /\ pc' = IF op = "write" THEN "Loop" ELSE "Erasing"
        /\ UNCHANGED <<hw, flash, op, first, n, data, i, ret>>
    BY <1>2 DEF Unlock
  <2>2. Target' = Target
    BY <2>1 DEF Target
  <2>3. WordState(w)' = WordState(w)
    BY <2>1, <2>2 DEF WordState
  <2>4. WordData(w)' = WordData(w)
    BY <2>1, <2>3 DEF WordData
  <2> QED
    BY <2>1, <2>3, <2>4, WordStays
<1>3. CASE Lock
  <2>1. /\ pc = "Lock" /\ UNCHANGED <<hw, flash, op, first, n, data>>
        /\ \/ pc' = "Returned" /\ ret' \in {-5, -1}
           \/ op = "write" /\ pc' = "Returned" /\ ret' = 0 /\ i' = i
           \/ op # "write" /\ pc' = "Loop" /\ i' = i + 1 /\ ret' = ret
    BY <1>3 DEF Lock, Return
  <2>2. Target' = Target
    BY <2>1 DEF Target
  <2>3. CASE pc' = "Returned" /\ ret' \in {-5, -1}
    <3>1. WordState(w) # "Programming"
      BY <2>1 DEF WordState
    <3> QED
      BY <2>1, <2>3, <3>1, WordLeaves
  <2>4. CASE op = "write" /\ pc' = "Returned" /\ ret' = 0 /\ i' = i
    <3>1. CASE w \notin Target
      <4>1. WordState(w) = "Idle" /\ WordState(w)' = "Idle" /\ WordData(w) = Blank
            /\ WordData(w)' = Blank
        BY <2>2, <3>1 DEF WordState, WordData
      <4> QED
        BY <2>1, <4>1, WordStays
    <3>2. CASE w \in Target
      <4>1. i = n
        BY <1>0, <2>1, <2>4 DEF CallInv
      <4>2. w - first \in 0 .. n - 1 /\ first + (w - first) = w
        BY <1>0, <2>4, <3>2, WriteTarget
      <4>3. w < first + i
        BY <1>0, <4>1, <4>2, SizesAssumption DEF Words
      <4>4. WordState(w) = "Verify" /\ WordState(w)' = "Done"
        BY <2>1, <2>2, <2>4, <3>2, <4>3 DEF WordState
      <4>5. WordData(w) = data[w - first] /\ WordData(w)' = data[w - first]
        BY <2>1, <2>4, <4>4 DEF WordData
      <4>6. flash[w] = data[w - first] \/ hw.dcache
        BY <1>0, <2>4, <4>1, <4>2 DEF ReadInv
      <4> QED
        BY <2>1, <4>4, <4>5, <4>6 DEF WordStepOK, Word!Next, Word!Succeed
    <3> QED
      BY <3>1, <3>2
  <2>5. CASE op # "write" /\ pc' = "Loop" /\ i' = i + 1 /\ ret' = ret
    <3>1. op = "erase"
      BY <1>0, <2>1, <2>5 DEF TypeOK, CallInv
    <3>2. WordState(w)' = WordState(w) /\ WordData(w)' = WordData(w)
      BY <2>1, <2>2, <2>5, <3>1 DEF WordState, WordData
    <3> QED
      BY <2>1, <3>2, WordStays
  <2> QED
    BY <2>1, <2>3, <2>4, <2>5
<1> QED
  BY <1>1, <1>2, <1>3

\* A call turned down, and what comes after a call.
LEMMA WordStepOfCaller ==
  ASSUME BoardInv, NEW w \in Words, Rejected \/ Continue
  PROVE  WordStepOK(w)
<1> USE DEF args, device
<1>1. CASE Rejected
  <2>1. /\ pc = "Idle" /\ pc' = "Returned" /\ UNCHANGED <<hw, flash, op, first, n>> /\ ret' = -1
    BY <1>1 DEF Rejected, Return
  <2>2. WordState(w) # "Programming"
    BY <2>1 DEF WordState
  <2> QED
    BY <2>1, <2>2, WordLeaves
<1>2. CASE Continue
  <2>1. pc = "Returned" /\ pc' = "Idle" /\ UNCHANGED <<hw, flash>>
    BY <1>2 DEF Continue
  <2>2. WordState(w)' = "Idle" /\ WordData(w)' = Blank /\ WordState(w) \in {"Idle", "Done"}
    BY <2>1 DEF WordState, WordData
  <2>3. CASE WordState(w) = "Idle"
    BY <2>1, <2>2, <2>3, WordStays DEF WordData
  <2>4. CASE WordState(w) = "Done"
    BY <2>1, <2>2, <2>4 DEF WordStepOK, Word!Next, Word!Leave
  <2> QED
    BY <2>2, <2>3, <2>4
<1> QED
  BY <1>1, <1>2

\* A reset, wherever the call is.
LEMMA WordStepOfReset ==
  ASSUME BoardInv, NEW w \in Words, Reset
  PROVE  WordStepOK(w)
<1> USE DEF args, device
<1>0. TypeOK /\ CallInv /\ first \in Int /\ n \in Nat /\ i \in 0 .. n /\ flash \in [Words -> Values]
  BY DEF BoardInv, DriverInv, TypeOK
<1>1. /\ pc' = "Returned" /\ ret' # 0 /\ UNCHANGED <<hw, op, first, n, data, i>>
  BY DEF Reset, Return, NotReturned
<1>2. WordState(w)' = "Idle" /\ WordData(w)' = Blank
  BY <1>1 DEF WordState, WordData
<1>3. CASE pc = "Programming"
  <2>1. PICK v \in Values : flash' = [flash EXCEPT ![first + i] = v]
    BY <1>3 DEF Reset
  <2>2. op = "write" /\ i \in 0 .. n - 1
    BY <1>0, <1>3 DEF CallInv
  <2>3. CASE w = first + i
    <3>1. w - first \in 0 .. n - 1
      BY <1>0, <2>2, <2>3
    <3>2. w \in Target
      BY <1>0, <2>2, <3>1, WriteTarget
    <3>3. WordState(w) = "Programming"
      BY <1>0, <1>3, <2>2, <2>3, <3>2 DEF WordState
    <3>4. flash'[w] \in Values
      BY <1>0, <2>1, <2>3
    <3> QED
      BY <1>1, <1>2, <3>3, <3>4 DEF WordStepOK, Word!Next, Word!Cut
  <2>4. CASE w # first + i
    <3>1. WordState(w) # "Programming"
      BY <1>3, <2>2, <2>4 DEF WordState
    <3>2. flash'[w] = flash[w]
      BY <1>0, <2>1, <2>4
    <3> QED
      BY <1>1, <3>1, <3>2, WordLeaves
  <2> QED
    BY <2>3, <2>4
<1>4. CASE pc = "Erasing"
  <2>1. Erase(Values) /\ op = "erase" /\ i < n
    BY <1>0, <1>4 DEF Reset, CallInv
  <2>2. /\ flash' \in [Words -> Values]
        /\ w \notin WordsOf(first + i) => flash'[w] = flash[w]
    BY <1>0, <1>4, <2>1, EraseChanges
  <2>3. CASE w \in Target
    <3>1. WordState(w) = "Erase" /\ flash'[w] \in Values
      BY <1>4, <2>1, <2>2, <2>3 DEF WordState
    <3> QED
      BY <1>1, <1>2, <3>1 DEF WordStepOK, Word!Next, Word!Erase
  <2>4. CASE w \notin Target
    <3>1. first + i \in first .. first + n - 1
      BY <1>0, <2>1
    <3>2. flash'[w] = flash[w]
      BY <2>1, <2>2, <2>4, <3>1, EraseTarget
    <3> QED
      BY <1>1, <1>2, <2>4, <3>2, WordOutside, WordStays
  <2> QED
    BY <2>3, <2>4
<1>5. CASE pc \notin {"Programming", "Erasing"}
  <2>1. flash' = flash
    BY <1>5 DEF Reset
  <2>2. WordState(w) # "Programming"
    BY <1>5 DEF WordState
  <2> QED
    BY <1>1, <2>1, <2>2, WordLeaves
<1> QED
  BY <1>3, <1>4, <1>5

\* The driver on the board implements FlashWord for each word of flash, whatever
\* calls the word is part of: a word changes only in a call that it was given to, from
\* what it held to what it should hold or, where a reset or an error cuts it, to
\* anything; and the call returns 0 only after the word was compared.
THEOREM DriverServesWords ==
  ASSUME OnBoard, NEW w \in Words
  PROVE  Spec => Word(w)!Spec
<1>1. Init => Word(w)!Init
  <2> SUFFICES ASSUME Init PROVE Word(w)!Init
    OBVIOUS
  <2>1. pc = "Idle" /\ flash \in [Words -> Values]
    BY DEF Init
  <2> QED
    BY <2>1 DEF Word!Init, WordState, WordData
<1>2. BoardInv /\ [Next]_vars => WordStepOK(w)
  <2> SUFFICES ASSUME BoardInv, [Next]_vars PROVE WordStepOK(w)
    OBVIOUS
  <2>1. CASE UNCHANGED vars
    <3>1. Target' = Target
      BY <2>1 DEF vars, Target
    <3> QED
      BY <2>1, <3>1, WordStays DEF vars, WordState, WordData
  <2>2. ~HostWrite /\ ~HostErase
    BY DEF BoardInv, HostWrite, HostErase
  <2> QED
    BY <2>1, <2>2, WordStepOfWrite, WordStepOfErase, WordStepOfLock, WordStepOfCaller,
       WordStepOfReset DEF Next
<1>3. Spec => []BoardInv
  BY BoardInvariance
<1>4. BoardInv /\ [Next]_vars => [Word(w)!Next]_(Word(w)!vars)
  BY <1>2 DEF WordStepOK
<1> QED
  BY <1>1, <1>3, <1>4, PTL DEF Spec, Word!Spec

=============================================================================
