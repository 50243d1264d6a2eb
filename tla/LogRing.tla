------------------------------ MODULE LogRing ------------------------------
(***************************************************************************)
(* The circular log kept in RAM: LogToMemory, in SRAM2-3 (common/          *)
(* log_ram.c), and LogToPersistentMemory, in the backup SRAM (common/      *)
(* shared_mem_persistent.c), are the same code over the same structure.    *)
(*                                                                         *)
(* Every store is a step of its own.  The SW watchdog's interrupt and the  *)
(* fault handlers log too, in the middle of a message of the code they     *)
(* preempt, and never return to it.  The memory lies behind the D-cache:   *)
(* a line reaches it when it is evicted, or when Backup_SRAM_Disable       *)
(* cleans the cache.  Cells 0 and 1 are log_write_ptr and log_size, the    *)
(* others log[].                                                           *)
(***************************************************************************)
EXTENDS Naturals, Sequences

CONSTANTS
  Size,       \* sizeof(ram->log)
  CopySize,   \* size of the buffer into which GetMemoryLog copies the log
  LineLen,    \* cells in a line of the D-cache
  MaxStr,     \* bound: the longest string logged
  Preempted,  \* handlers may log in the middle of a message
  CutOff,     \* when the IWDG or a pin may reset the device: a set of pc values
  Garbage     \* after power-on the header may look right

ASSUME SizeAssumption == Size \in Nat \ {0} /\ LineLen \in Nat \ {0} /\ MaxStr \in Nat
ASSUME CopyAssumption == CopySize \in Nat
ASSUME FlagsAssumption == {Preempted, Garbage} \subseteq BOOLEAN

VARIABLES
  cell,   \* the structure, as the CPU sees it
  mem,    \* the structure, as it is in the memory behind the D-cache
  pc,     \* the next store of the loop over the string
  left,   \* characters of the string still to be logged
  isr,    \* a handler that never returns is running
  next,   \* the next character
  said,   \* history: the last Size characters logged
  since,  \* history: how many of them since the last reset or interrupt
  calm    \* history: no handler or reset has ever cut the log short

vars == <<cell, mem, pc, left, isr, next, said, since, calm>>

PtrCell == 0
SizeCell == 1
Cells == 0 .. Size + 1
LogCell(i) == i + 2

\* Characters all differ over any stretch longer than the log.
Chars == 1 .. Size + 2

log_write_ptr == cell[PtrCell]
log_size == cell[SizeCell]

LastOf(s) == IF Len(s) > Size THEN Tail(s) ELSE s

Valid(c) == c[PtrCell] < Size /\ c[SizeCell] <= Size

\* Power-on.  The memory may hold an empty log, or anything; calm: nothing that
\* looks like a log with something in it.
Init ==
  /\ \E p, s \in 0 .. Size + 1 :
       /\ calm = (<<p, s>> \in {<<0, 0>>, <<Size, 0>>, <<0, Size + 1>>})
       /\ Garbage \/ calm
       /\ mem = [c \in Cells |-> IF c = PtrCell THEN p ELSE IF c = SizeCell THEN s ELSE 0]
  /\ cell = mem
  /\ pc = "Idle" /\ left = 0 /\ isr = FALSE /\ next = 1 /\ said = <<>> /\ since = 0

\* Mutant: the header is trusted.
HeaderTrusted(c) == c

\* A header that can't be is reset.
Checked(c) == IF Valid(c) THEN c ELSE [c EXCEPT ![PtrCell] = 0, ![SizeCell] = 0]

\* Mutant: the loop looks at the character after having stored it.
LogDoWhile ==
  /\ pc = "Idle" /\ ~isr
  /\ \E n \in 0 .. MaxStr : left' = n
  /\ cell' = Checked(cell)
  /\ pc' = "Put"
  /\ UNCHANGED <<mem, isr, next, said, since, calm>>

\* The logging of a string of left characters begins.
Log ==
  /\ pc = "Idle" /\ ~isr
  /\ \E n \in 1 .. MaxStr : left' = n
  /\ cell' = Checked(cell)
  /\ pc' = "Put"
  /\ UNCHANGED <<mem, isr, next, said, since, calm>>

\* A handler logs, whatever the code it preempts was doing.
Preempt ==
  /\ Preempted /\ isr' = TRUE
  /\ \E n \in 1 .. MaxStr : left' = n
  /\ cell' = Checked(cell)
  /\ pc' = "Put"
  /\ since' = 0 /\ calm' = FALSE
  /\ UNCHANGED <<mem, next, said>>

\* ram->log[ram->log_write_ptr] = c
Put ==
  /\ pc = "Put" /\ pc' = "IncPtr"
  /\ cell' = [cell EXCEPT ![LogCell(log_write_ptr)] = next]
  /\ said' = LastOf(Append(said, next))
  /\ next' = (next % (Size + 2)) + 1
  /\ UNCHANGED <<mem, left, isr, since, calm>>

\* ram->log_write_ptr++
IncPtr ==
  /\ pc = "IncPtr" /\ pc' = "Wrap"
  /\ cell' = [cell EXCEPT ![PtrCell] = @ + 1]
  /\ UNCHANGED <<mem, left, isr, next, said, since, calm>>

\* Back to the start of the log.
Wrap ==
  /\ pc = "Wrap" /\ pc' = "IncSize"
  /\ cell' = [cell EXCEPT ![PtrCell] = IF @ >= Size THEN 0 ELSE @]
  /\ UNCHANGED <<mem, left, isr, next, said, since, calm>>

\* Mutant: the size stops one short of the log's.
SizeStopsShort ==
  /\ pc = "IncSize"
  /\ cell' = [cell EXCEPT ![SizeCell] = IF @ < Size - 1 THEN @ + 1 ELSE @]
  /\ left' = left - 1
  /\ pc' = IF left = 1 THEN "Idle" ELSE "Put"
  /\ since' = IF since < Size THEN since + 1 ELSE since
  /\ UNCHANGED <<mem, isr, next, said, calm>>

IncSize ==
  /\ pc = "IncSize"
  /\ cell' = [cell EXCEPT ![SizeCell] = IF @ < Size THEN @ + 1 ELSE @]
  /\ left' = left - 1
  /\ pc' = IF left = 1 THEN "Idle" ELSE "Put"
  /\ since' = IF since < Size THEN since + 1 ELSE since
  /\ UNCHANGED <<mem, isr, next, said, calm>>

-----------------------------------------------------------------------------
(* Resets *)

\* The D-cache writes a line back.
Evict(line) ==
  /\ mem' = [c \in Cells |-> IF c \div LineLen = line THEN cell[c] ELSE mem[c]]
  /\ UNCHANGED <<cell, pc, left, isr, next, said, since, calm>>

Restart ==
  /\ pc' = "Idle" /\ left' = 0 /\ isr' = FALSE /\ since' = 0
  /\ UNCHANGED <<next, said>>

\* Mutant: the D-cache isn't cleaned first.
NotCleaned ==
  /\ pc = "Idle"
  /\ cell' = mem
  /\ UNCHANGED <<mem, calm>>
  /\ Restart

\* Backup_SRAM_Disable, then the next image or System_Reset.
CleanAndLeave ==
  /\ pc = "Idle"
  /\ mem' = cell
  /\ UNCHANGED <<cell, calm>>
  /\ Restart

\* A reset nobody prepared for: what the D-cache still held is lost.
Reset ==
  /\ pc \in CutOff
  /\ cell' = mem /\ calm' = FALSE
  /\ UNCHANGED mem
  /\ Restart

Next ==
  \/ Log \/ Preempt \/ Put \/ IncPtr \/ Wrap \/ IncSize
  \/ \E line \in 0 .. ((Size + 1) \div LineLen) : Evict(line)
  \/ CleanAndLeave \/ Reset

Spec == Init /\ [][Next]_vars

-----------------------------------------------------------------------------
(* Reading the log *)

Slice(from, to) == [i \in 1 .. (to - from) |-> cell[LogCell(from + i - 1)]]

FirstPart ==
  IF log_size < Size THEN Slice(0, log_size) ELSE Slice(log_write_ptr, Size)

\* Mutant: the second part has the cell at the pointer once more.
PartsOverlap == IF log_size < Size THEN <<>> ELSE Slice(0, log_write_ptr + 1)

SecondPart == IF log_size < Size THEN <<>> ELSE Slice(0, log_write_ptr)

Contents == FirstPart \o SecondPart

Terminator == 0

\* What GetMemoryLog and GetPersistentMemoryLog copy into their buffers.
GetMemoryLog == Append(Contents, Terminator)

-----------------------------------------------------------------------------
(* Properties *)

TypeOK ==
  /\ cell \in [Cells -> Nat] /\ mem \in [Cells -> Nat]
  /\ pc \in {"Idle", "Put", "IncPtr", "Wrap", "IncSize"}
  /\ left \in 0 .. MaxStr /\ isr \in BOOLEAN /\ next \in Chars
  /\ said \in Seq(Chars) /\ Len(said) <= Size /\ since \in 0 .. Size
  /\ calm \in BOOLEAN

\* No character is ever stored outside log[], whatever header the memory held
\* at power-on or was left with by a reset between any two stores, and wherever
\* a handler preempts the loop, its wrap-around included.
WritesInBounds == pc = "Put" => log_write_ptr < Size

\* The log reads back as the last characters logged, in order, over any number
\* of messages, wrap-arounds and changes from one image to the next.
ReadsInOrderInCalm ==
  calm /\ pc = "Idle" /\ said # <<>> => GetMemoryLog = Append(said, Terminator)

\* Whatever state a reset or a handler left the ring in, once Size characters
\* have been logged in peace it reads back right again.
RightAgain == pc = "Idle" /\ since = Size => Contents = said

\* GetMemoryLog: the log and its terminator fit into the buffer they are copied
\* to ("The size includes a null terminator").
TerminatorFits == pc = "Idle" /\ Valid(cell) => Len(GetMemoryLog) <= CopySize

-----------------------------------------------------------------------------
(* What comments of the repository say, and the code does otherwise *)

\* GetMemoryLogParts "returns the contents in two parts sorted in the right
\* order", in a calm device or not: whatever has been lost, nothing older is read
\* behind the newest character.
ReadsInOrder ==
  pc = "Idle" /\ said # <<>> =>
    \A i \in 1 .. Len(Contents) - 1 : Contents[i] # said[Len(said)]

=============================================================================
