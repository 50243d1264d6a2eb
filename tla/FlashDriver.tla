----------------------------- MODULE FlashDriver -----------------------------
(***************************************************************************)
(* The flash driver: Flash_Write and Flash_Erase of the firmware           *)
(* (common/arm/flash.c), and of the host build (common/host/flash.c).      *)
(*                                                                         *)
(* Flash is a row of words, grouped in sectors, the first half of which is *)
(* bank 1 and the second half bank 2.  A word is the set of its bits that  *)
(* are 1.  A line of the D-cache is as long as a flash word, so each word  *)
(* has its own line; flash is written through: a store updates the line    *)
(* only when the word has one.  The program counter stops wherever the     *)
(* hardware may refuse or a reset leaves something behind.                 *)
(***************************************************************************)
EXTENDS Integers, FiniteSets

CONSTANTS
  Bits,         \* the bits of a flash word
  BankSectors,  \* sectors of each bank
  SectorWords,  \* flash words of a sector
  MaxWords,     \* bound: words of one Flash_Write
  MaxLines,     \* bound: words that have a line when a call begins
  Hardware      \* the devices considered: does HAL_FLASH_Program answer HAL_OK
                \* on words it got wrong, is flash read through the D-cache, is
                \* it the host build's memory?

Values == SUBSET Bits
Blank == Bits

ASSUME SizesAssumption ==
  /\ BankSectors \in Nat \ {0} /\ SectorWords \in Nat \ {0} /\ MaxWords \in Nat
  /\ MaxLines \in Nat
ASSUME HardwareAssumption ==
  Hardware \subseteq [misprograms : BOOLEAN, dcache : BOOLEAN, host : BOOLEAN]

VARIABLES
  hw,        \* the device, one of Hardware; never changes
  flash,     \* what each word of flash holds
  line,      \* what the word's line in the D-cache holds, {} if it has none
  unlocked,  \* the banks whose control register is unlocked
  op,        \* the last call: "none" since reset, "write" or "erase"
  first, n,  \* its first word (write) or sector (erase), and how many
  data,      \* the caller's buffer
  i,         \* the loop's index: words or sectors done
  pc,        \* where the call is; "Returned": the caller has the result
  ret,       \* what the last call returned
  old,       \* history: flash when the call began
  cached,    \* history: the words that had a line when the call began
  refused    \* history: a LOCK bit did not change when asked to, since reset

device == <<hw, refused>>
args == <<op, first, n, data, old, cached>>
vars == <<hw, flash, line, unlocked, op, first, n, data, i, pc, ret, old,
          cached, refused>>

-----------------------------------------------------------------------------
(* Addresses *)

Banks == {1, 2}
Sectors == 0 .. 2 * BankSectors - 1
Words == 0 .. 2 * BankSectors * SectorWords - 1

WordsOf(s) == {w \in Words : w \div SectorWords = s}

\* Flash_IsAddressValid, of a sector; the end is the last byte of flash.
Flash_IsAddressValid(s) == 0 <= s /\ s <= 2 * BankSectors - 1

\* Mutant: every sector is taken for one of bank 1.
AlwaysBank1(s) == 1

\* Get_Actual_Bank and Get_Sector: the register that is programmed to erase
\* the sector.  The branch for swapped banks is left out: nothing in the firmware
\* sets SWAP_BANK, and CheckProtections has none of a device where it is set.
Get_Actual_Bank(s) == IF s < BankSectors THEN 1 ELSE 2

Get_Sector(s) == IF s < BankSectors THEN s ELSE s - BankSectors

\* The sector of flash that sector number k of bank b is; the controller
\* ignores a number the bank doesn't have.
Erased(b, k) ==
  IF k < BankSectors THEN WordsOf((b - 1) * BankSectors + k) ELSE {}

\* The words the call is about.
Target ==
  IF op = "write" THEN first .. first + n - 1
  ELSE {w \in Words : \E s \in first .. first + n - 1 : w \in WordsOf(s)}

\* What the CPU may read of word w: a line may have been evicted.
View(w) == {flash[w]} \cup line[w]

-----------------------------------------------------------------------------

Init ==
  /\ hw \in Hardware
  /\ flash \in [Words -> Values]
  /\ line = [w \in Words |-> {}]
  /\ unlocked = {}
  /\ op = "none" /\ first = 0 /\ n = 0 /\ data = <<>>
  /\ i = 0
  /\ pc = "Idle"
  /\ ret = 0
  /\ old = flash
  /\ cached = {}
  /\ refused = FALSE

\* The call returns.
Return(r) == pc' = "Returned" /\ ret' = r

\* The call begins; its arguments have passed the checks.
Begin(o, f, k, d) ==
  /\ op' = o /\ first' = f /\ n' = k /\ data' = d
  /\ i' = 0
  /\ old' = flash
  /\ cached' = {w \in Words : line[w] # {}}

-----------------------------------------------------------------------------
(* The lock of the control registers, both banks one after the other *)

\* HAL_FLASH_Lock: the banks it leaves unlocked, none when it answers HAL_OK.
\* It sets the first bank's LOCK bit, checks it, then does the second's.
LockLeaves == {{}, unlocked, unlocked \ {1}}

\* HAL_FLASH_Unlock: both when it answers HAL_OK; a bank that is unlocked
\* already is skipped.
UnlockLeaves == {Banks, unlocked, unlocked \cup {1}}

\* Mutant: the error path forgets to lock.
ReturnUnlocked(r) ==
  Return(r) /\ UNCHANGED <<unlocked, refused>>

\* An error path: lock, whatever the answer, and return r.
LockAndReturn(r) ==
  /\ Return(r)
  /\ unlocked' \in LockLeaves
  /\ refused' = (refused \/ unlocked' # {})

\* HAL_FLASH_Unlock refuses: the call returns at once, and the first bank stays
\* unlocked if it was the second that refused.
UnlockRefused ==
  /\ pc = "Unlock"
  /\ unlocked' \in UnlockLeaves \ {Banks}
  /\ refused' = TRUE
  /\ IF op = "write" THEN Return(-2) ELSE Return(-1)
  /\ UNCHANGED <<hw, flash, line, i, args>>

\* Flash_Write goes on to its loop, Flash_Erase_Sector to the erase.
Unlock ==
  /\ pc = "Unlock"
  /\ unlocked' = Banks
  /\ pc' = IF op = "write" THEN "Loop" ELSE "Erasing"
  /\ UNCHANGED <<hw, refused, flash, line, i, ret, args>>

\* The lock that ends Flash_Write, or Flash_Erase_Sector.
Lock ==
  /\ pc = "Lock"
  /\ unlocked' \in LockLeaves
  /\ refused' = (refused \/ unlocked' # {})
  /\ IF unlocked' # {}
     THEN Return(IF op = "write" THEN -5 ELSE -1) /\ i' = i
     ELSE IF op = "write" THEN Return(0) /\ i' = i
     ELSE pc' = "Loop" /\ i' = i + 1 /\ ret' = ret
  /\ UNCHANGED <<hw, flash, line, args>>

\* Flash_Write and Flash_Erase turn down a null pointer, an overflow, a size or,
\* on the board, an address that isn't aligned; and Flash_Erase there, a range
\* that isn't flash.
Rejected ==
  /\ pc = "Idle"
  /\ Return(-1)
  /\ UNCHANGED <<hw, refused, flash, line, unlocked, i, args>>

-----------------------------------------------------------------------------
(* Flash_Write *)

\* The range is flash: no caller passes another, and nothing checks it.
Flash_Write ==
  /\ pc = "Idle" /\ ~hw.host
  /\ \E f \in Words, k \in 0 .. MaxWords :
       /\ f + k - 1 \in Words \cup {f - 1}
       /\ \E d \in [0 .. k - 1 -> Values] : Begin("write", f, k, d)
  /\ pc' = "Unlock"
  /\ UNCHANGED <<hw, refused, flash, line, unlocked, ret>>

\* while (i < size)
WriteLoop ==
  /\ pc = "Loop" /\ op = "write"
  /\ pc' = IF i < n THEN "Programming" ELSE "Lock"
  /\ UNCHANGED <<hw, refused, flash, line, unlocked, i, ret, args>>

\* The stores of HAL_FLASH_Program put v in the word and data in its line.
Stored(w, v) ==
  /\ flash' = [flash EXCEPT ![w] = v]
  /\ line' = [line EXCEPT ![w] = IF @ = {} THEN {} ELSE {data[i]}]

\* HAL_FLASH_Program answers HAL_OK.  What a word programmed twice between
\* erases holds is not defined.
Programmed ==
  /\ pc = "Programming"
  /\ \E v \in Values :
       /\ v = data[i] \/ hw.misprograms \/ flash[first + i] # Blank
       /\ Stored(first + i, v)
  /\ pc' = "Compare"
  /\ UNCHANGED <<hw, refused, unlocked, i, ret, args>>

\* Mutant: the answer of HAL_FLASH_Program isn't looked at, as memcmp follows.
AnswerIgnored ==
  /\ pc = "Programming"
  /\ \E v \in Values : Stored(first + i, v)
  /\ pc' = "Compare"
  /\ UNCHANGED <<hw, refused, unlocked, i, ret, args>>

ProgramFails ==
  /\ pc = "Programming"
  /\ \E v \in Values : Stored(first + i, v)
  /\ LockAndReturn(-3)
  /\ UNCHANGED <<hw, i, args>>

\* Mutant: what was programmed isn't compared.
CompareNothing ==
  /\ pc = "Compare"
  /\ pc' = "Loop" /\ i' = i + 1 /\ ret' = ret
  /\ UNCHANGED <<hw, refused, flash, line, unlocked, args>>

\* memcmp of the word, which gives it a line when it has none.
Compare ==
  /\ pc = "Compare"
  /\ \E seen \in View(first + i) :
       /\ line' = [line EXCEPT ![first + i] = IF hw.dcache THEN {seen} ELSE {}]
       /\ IF seen = data[i]
          THEN /\ pc' = "Loop" /\ i' = i + 1 /\ ret' = ret
               /\ UNCHANGED <<unlocked, refused>>
          ELSE /\ LockAndReturn(-4)
               /\ i' = i
  /\ UNCHANGED <<hw, flash, args>>

-----------------------------------------------------------------------------
(* Flash_Erase, sector by sector *)

\* Both ends are in flash; the end of no sectors is the byte before the first.
RangeIsValid(s, k) == Flash_IsAddressValid(s) /\ Flash_IsAddressValid(s + k - 1)

Flash_Erase ==
  /\ pc = "Idle" /\ ~hw.host
  /\ \E s \in -1 .. 2 * BankSectors, k \in 0 .. 2 * BankSectors + 1 :
       RangeIsValid(s, k) /\ Begin("erase", s, k, <<>>)
  /\ pc' = "Loop"
  /\ UNCHANGED <<hw, refused, flash, line, unlocked, ret>>

\* Mutant: while (erasedbytes <= size)
EraseOneMore ==
  /\ pc = "Loop" /\ op = "erase"
  /\ IF i <= n THEN pc' = "Unlock" /\ ret' = ret ELSE Return(0)
  /\ UNCHANGED <<hw, refused, flash, line, unlocked, i, args>>

\* while (erasedbytes < size)
EraseLoop ==
  /\ pc = "Loop" /\ op = "erase"
  /\ IF i < n THEN pc' = "Unlock" /\ ret' = ret ELSE Return(0)
  /\ UNCHANGED <<hw, refused, flash, line, unlocked, i, args>>

\* The words the controller is erasing.
Erasing ==
  Erased(Get_Actual_Bank(first + i), Get_Sector(first + i))

\* The controller doesn't go through the D-cache: the lines stay.
Erase(values) ==
  \E content \in [Erasing -> values] :
    flash' = [w \in Words |-> IF w \in Erasing THEN content[w] ELSE flash[w]]

\* HAL_FLASHEx_Erase answers HAL_OK; nothing looks at what it left.
EraseDone ==
  /\ pc = "Erasing"
  /\ Erase(IF hw.misprograms THEN Values ELSE {Blank})
  /\ pc' = "Lock"
  /\ UNCHANGED <<hw, refused, line, unlocked, i, ret, args>>

EraseFails ==
  /\ pc = "Erasing"
  /\ Erase(Values)
  /\ LockAndReturn(-1)
  /\ UNCHANGED <<hw, line, i, args>>

-----------------------------------------------------------------------------
(* The host build: no lock, no loop that can fail, no look at the result *)

\* Bits can only go from 1 to 0.
HostWrite ==
  /\ pc = "Idle" /\ hw.host
  /\ \E f \in Words, k \in 0 .. MaxWords :
       /\ f + k - 1 \in Words \cup {f - 1}
       /\ \E d \in [0 .. k - 1 -> Values] :
            /\ Begin("write", f, k, d)
            /\ flash' = [w \in Words |->
                 IF w \in f .. f + k - 1 THEN flash[w] \cap d[w - f] ELSE flash[w]]
  /\ Return(0)
  /\ UNCHANGED <<hw, refused, line, unlocked>>

HostErase ==
  /\ pc = "Idle" /\ hw.host
  /\ \E s \in Sectors, k \in 0 .. 2 * BankSectors :
       /\ s + k - 1 \in Sectors \cup {s - 1}
       /\ Begin("erase", s, k, <<>>)
       /\ flash' = [w \in Words |->
            IF \E t \in s .. s + k - 1 : w \in WordsOf(t) THEN Blank ELSE flash[w]]
  /\ Return(0)
  /\ UNCHANGED <<hw, refused, line, unlocked>>

-----------------------------------------------------------------------------
(* Between calls, and resets *)

\* The caller goes on.  What runs before the next call evicts lines and, by
\* reading flash, makes others, at most MaxLines of them here.
Continue ==
  /\ pc = "Returned"
  /\ line' \in [Words -> {{}} \cup {{v} : v \in Values}]
  /\ \A w \in Words : line'[w] \subseteq View(w)
  /\ Cardinality({w \in Words : line'[w] # {}}) <= IF hw.dcache THEN MaxLines ELSE 0
  /\ op' = "none" /\ i' = 0 /\ n' = 0 /\ first' = 0 /\ data' = <<>>
  /\ old' = flash /\ cached' = {}
  /\ pc' = "Idle" /\ ret' = 0
  /\ UNCHANGED <<hw, refused, flash, unlocked>>

\* A word or a sector the controller was at may hold anything; both banks are
\* locked and the D-cache is off.  NotReturned: the call never did.
NotReturned == 1

Reset ==
  /\ ~hw.host
  /\ \/ pc = "Programming" /\ \E v \in Values : flash' = [flash EXCEPT ![first + i] = v]
     \/ pc = "Erasing" /\ Erase(Values)
     \/ pc \notin {"Programming", "Erasing"} /\ flash' = flash
  /\ line' = [w \in Words |-> {}]
  /\ unlocked' = {}
  /\ refused' = FALSE
  /\ Return(NotReturned)
  /\ UNCHANGED <<hw, i, args>>

Next ==
  \/ Rejected \/ Flash_Write \/ WriteLoop
  \/ Programmed \/ ProgramFails \/ Compare
  \/ Flash_Erase \/ EraseLoop \/ EraseDone \/ EraseFails
  \/ UnlockRefused \/ Unlock \/ Lock
  \/ HostWrite \/ HostErase
  \/ Continue \/ Reset

Spec == Init /\ [][Next]_vars

-----------------------------------------------------------------------------
(* Properties *)

\* Types, and what the program counter says of the call.
TypeOK ==
  /\ hw \in Hardware
  /\ flash \in [Words -> Values] /\ old \in [Words -> Values]
  /\ line \in [Words -> SUBSET Values]
  /\ unlocked \subseteq Banks
  /\ op \in {"none", "write", "erase"}
  /\ first \in Int /\ n \in Nat /\ i \in 0 .. n
  /\ pc \in {"Idle", "Returned", "Unlock", "Loop", "Programming", "Compare", "Erasing", "Lock"}
  /\ ret \in {-5, -4, -3, -2, -1, 0, NotReturned}
  /\ cached \subseteq Words
  /\ refused \in BOOLEAN

\* The words of a write nobody checked: on the host a word that wasn't erased;
\* on the board one with a line, as memcmp may compare the line with the
\* buffer it was stored from.
Unchecked(w) ==
  \/ hw.host /\ old[w] # Blank
  \/ w \in cached /\ (hw.misprograms \/ old[w] # Blank)

\* Word j of the buffer is in flash.
Written(j) == flash[first + j] = data[j] \/ Unchecked(first + j)

\* A call that returns 0 has done all its work: the whole buffer is in flash or
\* every sector of the range is blank, and both banks are locked, even when an
\* earlier call had to leave one unlocked.  Excepted are the words nobody
\* checked and, for an erase, a controller that says HAL_OK of a bad sector.
SuccessMeansDone ==
  pc = "Returned" /\ ret = 0 =>
    /\ op = "write" => \A j \in 0 .. n - 1 : Written(j)
    /\ op = "erase" => \A w \in Target : flash[w] = Blank \/ hw.misprograms
    /\ n > 0 => unlocked = {}

\* A write that fails, or that a reset cuts short, leaves a prefix of the buffer
\* in flash, at most one word that is neither old nor new, and the rest of the
\* range as it was.
FailureLeavesAPrefix ==
  op = "write" /\ ~hw.host =>
    /\ \A j \in 0 .. i - 1 : Written(j)
    /\ \A j \in i + 1 .. n - 1 : flash[first + j] = old[first + j]

\* Whatever becomes of a call, nothing outside the words or the sectors it was
\* given changes; for an erase, the bank and the sector number given to the
\* controller are those of the address.
OnlyTheTargetChanges ==
  \A w \in Words \ Target : flash[w] = old[w]

\* Between calls the control registers are locked, on every error path too,
\* unless the hardware didn't do what it was asked.
LockedUnlessRefused ==
  pc \in {"Idle", "Returned"} /\ unlocked # {} => refused

=============================================================================
