---------------------------- MODULE LogRingProofs ----------------------------
(***************************************************************************)
(* Proofs about the log, for one of any size and for messages of any       *)
(* length.  It stays inside its memory: no header it finds, no reset and   *)
(* no handler makes it store a character outside log[].  It reads back as  *)
(* what was logged, in order, as long as nobody cuts it short, and again   *)
(* once Size characters have been logged after somebody did.               *)
(***************************************************************************)
EXTENDS LogRing, SequenceTheorems, TLAPS

\* log_write_ptr is right but between its increment and the wrap-around, where it
\* may be one too far.
PtrInv ==
  /\ pc \in {"Put", "IncPtr", "IncSize"} => log_write_ptr < Size
  /\ pc = "Wrap" => log_write_ptr <= Size
  /\ pc # "Idle" => left > 0

RingInv == TypeOK /\ PtrInv

LEMMA ModBound == \A a \in Nat, b \in Nat \ {0} : a % b \in 0 .. (b - 1)
  BY SMT

\* The two cells of the header are cells.
LEMMA Header == PtrCell \in Cells /\ SizeCell \in Cells /\ PtrCell # SizeCell
  BY SizeAssumption DEF Cells, PtrCell, SizeCell

\* A header that can't be is reset, and then the pointer is in bounds.
LEMMA CheckedInBounds ==
  ASSUME NEW c \in [Cells -> Nat]
  PROVE  Checked(c) \in [Cells -> Nat] /\ Checked(c)[PtrCell] < Size
  BY Header, SizeAssumption DEF Checked, Valid

LEMMA RingInvInit == Init => RingInv
<1> SUFFICES ASSUME Init PROVE RingInv
  OBVIOUS
<1>1. TypeOK
  <2>1. cell \in [Cells -> Nat] /\ mem \in [Cells -> Nat]
    BY DEF Init
  <2>2. said \in Seq(Chars) /\ Len(said) <= Size
    BY SizeAssumption DEF Init
  <2>3. left \in 0 .. MaxStr /\ next \in Chars /\ since \in 0 .. Size
    BY SizeAssumption DEF Init, Chars
  <2>4. pc = "Idle" /\ isr \in BOOLEAN
    BY DEF Init
  <2>5. calm \in BOOLEAN
    BY DEF Init
  <2> QED
    BY <2>1, <2>2, <2>3, <2>4, <2>5 DEF TypeOK
<1>2. PtrInv
  BY DEF Init, PtrInv
<1> QED
  BY <1>1, <1>2 DEF RingInv

\* The history stays as long as the log at most.
LEMMA LastOfAppend ==
  ASSUME NEW s \in Seq(Chars), Len(s) <= Size, NEW c \in Chars
  PROVE  LastOf(Append(s, c)) \in Seq(Chars) /\ Len(LastOf(Append(s, c))) <= Size
  BY SizeAssumption DEF LastOf

LEMMA RingInvNext == RingInv /\ [Next]_vars => RingInv'
<1> SUFFICES ASSUME RingInv, [Next]_vars PROVE RingInv'
  OBVIOUS
<1> USE SizeAssumption
<1>1. CASE Log
  BY <1>1, CheckedInBounds DEF RingInv, TypeOK, PtrInv, log_write_ptr, Log
<1>2. CASE Preempt
  <2>1. TypeOK'
    <3>1. cell' \in [Cells -> Nat] /\ mem' \in [Cells -> Nat]
      BY <1>2, CheckedInBounds DEF RingInv, TypeOK, Preempt
    <3>2. left' \in 0 .. MaxStr /\ since' \in 0 .. Size
      BY <1>2, CheckedInBounds DEF RingInv, TypeOK, Preempt
    <3>3. isr' \in BOOLEAN /\ calm' \in BOOLEAN
      BY <1>2, CheckedInBounds DEF RingInv, TypeOK, Preempt
    <3> QED
      BY <1>2, <3>1, <3>2, <3>3 DEF RingInv, TypeOK, Preempt
  <2>2. PtrInv'
    BY <1>2, CheckedInBounds DEF RingInv, TypeOK, PtrInv, log_write_ptr, Preempt
  <2> QED
    BY <2>1, <2>2 DEF RingInv
<1>3. CASE Put
  <2>1. next' \in Chars
    <3>1. next \in Nat /\ Size + 2 \in Nat \ {0}
      BY DEF RingInv, TypeOK, Chars
    <3>2. next % (Size + 2) \in 0 .. Size + 1
      BY <3>1, ModBound
    <3> QED
      BY <1>3, <3>2 DEF Chars, Put
  <2>2. said' \in Seq(Chars) /\ Len(said') <= Size
    BY <1>3, LastOfAppend DEF RingInv, TypeOK, Put
  <2>3. LogCell(log_write_ptr) # PtrCell
    BY <1>3, Header DEF RingInv, TypeOK, LogCell, PtrCell, log_write_ptr
  <2>4. next \in Nat
    BY DEF RingInv, TypeOK, Chars
  <2>5. TypeOK'
    BY <1>3, <2>1, <2>2, <2>4 DEF RingInv, TypeOK, Put
  <2>6. PtrInv'
    BY <1>3, <2>3, Header DEF RingInv, TypeOK, PtrInv, log_write_ptr, Put
  <2> QED
    BY <2>5, <2>6 DEF RingInv
<1>4. CASE IncPtr
  BY <1>4, Header DEF RingInv, TypeOK, PtrInv, log_write_ptr, log_size, IncPtr
<1>5. CASE Wrap
  BY <1>5, Header DEF RingInv, TypeOK, PtrInv, log_write_ptr, log_size, Wrap
<1>6. CASE IncSize
  <2>1. TypeOK'
    BY <1>6, Header DEF RingInv, TypeOK, PtrInv, IncSize, log_size
  <2>2. PtrInv'
    BY <1>6, Header DEF RingInv, TypeOK, PtrInv, log_write_ptr, IncSize, log_size
  <2> QED
    BY <2>1, <2>2 DEF RingInv
<1>7. ASSUME NEW l \in 0 .. ((Size + 1) \div LineLen), Evict(l)
      PROVE  RingInv'
  BY <1>7 DEF RingInv, TypeOK, PtrInv, log_write_ptr, Evict
<1>8. CASE CleanAndLeave
  <2>1. TypeOK'
    <3>1. cell' \in [Cells -> Nat] /\ mem' \in [Cells -> Nat]
      BY <1>8 DEF RingInv, TypeOK, CleanAndLeave, Restart
    <3>2. left' \in 0 .. MaxStr /\ since' \in 0 .. Size
      BY <1>8 DEF RingInv, TypeOK, CleanAndLeave, Restart
    <3>3. isr' \in BOOLEAN /\ calm' \in BOOLEAN
      BY <1>8 DEF RingInv, TypeOK, CleanAndLeave, Restart
    <3> QED
      BY <1>8, <3>1, <3>2, <3>3 DEF RingInv, TypeOK, CleanAndLeave, Restart
  <2>2. PtrInv'
    BY <1>8 DEF RingInv, TypeOK, PtrInv, log_write_ptr, CleanAndLeave, Restart
  <2> QED
    BY <2>1, <2>2 DEF RingInv
<1>9. CASE Reset
  <2>1. TypeOK'
    <3>1. cell' \in [Cells -> Nat] /\ mem' \in [Cells -> Nat]
      BY <1>9 DEF RingInv, TypeOK, Reset, Restart
    <3>2. left' \in 0 .. MaxStr /\ since' \in 0 .. Size
      BY <1>9 DEF RingInv, TypeOK, Reset, Restart
    <3>3. isr' \in BOOLEAN /\ calm' \in BOOLEAN
      BY <1>9 DEF RingInv, TypeOK, Reset, Restart
    <3> QED
      BY <1>9, <3>1, <3>2, <3>3 DEF RingInv, TypeOK, Reset, Restart
  <2>2. PtrInv'
    BY <1>9 DEF RingInv, TypeOK, PtrInv, log_write_ptr, Reset, Restart
  <2> QED
    BY <2>1, <2>2 DEF RingInv
<1>10. CASE UNCHANGED vars
  BY <1>10 DEF vars, RingInv, TypeOK, PtrInv, log_write_ptr
<1> QED
  BY <1>1, <1>2, <1>3, <1>4, <1>5, <1>6, <1>7, <1>8, <1>9, <1>10 DEF Next

\* Every variable keeps to its values.
THEOREM RingTypes == Spec => []TypeOK
<1>1. RingInv => TypeOK
  BY DEF RingInv
<1> QED
  BY <1>1, RingInvInit, RingInvNext, PTL DEF Spec

\* No character is ever stored outside log[], however large it is, whatever the
\* memory held and wherever the loop is cut short.
THEOREM LogInBounds == Spec => []WritesInBounds
<1>1. RingInv => WritesInBounds
  BY DEF RingInv, PtrInv, WritesInBounds
<1> QED
  BY <1>1, RingInvInit, RingInvNext, PTL DEF Spec

-----------------------------------------------------------------------------
(* The last characters are in place, the j-th last one j cells back. *)

Storing == pc \in {"IncPtr", "Wrap", "IncSize"}

\* The pointer, once the character being stored is dealt with.
Last ==
  IF pc = "IncPtr" THEN (IF log_write_ptr + 1 = Size THEN 0 ELSE log_write_ptr + 1)
  ELSE IF log_write_ptr = Size THEN 0 ELSE log_write_ptr

Back(p, j) == IF j <= p THEN p - j ELSE p - j + Size

UpTo(k) == IF k > Size THEN Size ELSE k

\* How many characters are known to be in place, and counted in the header.
Seen == IF Storing THEN UpTo(since + 1) ELSE since
Kept == IF calm THEN Len(said) ELSE Seen
Held == IF Storing THEN UpTo(log_size + 1) ELSE log_size

InPlace(c, p, s, k) == \A j \in 1 .. k : c[LogCell(Back(p, j))] = s[Len(s) - j + 1]

\* The header counts what is in place, and calm counts it exactly.
CountInv ==
  /\ Seen <= Len(said) /\ since <= log_size
  /\ since > 0 \/ pc # "Idle" => log_size <= Size
  /\ since > 0 /\ pc = "Idle" => log_write_ptr < Size
  /\ calm /\ (said # <<>> \/ pc # "Idle") =>
       /\ Len(said) = Held /\ (Held < Size => Last = Held)
       /\ pc = "Idle" => log_write_ptr < Size
  /\ calm /\ said = <<>> /\ pc = "Idle" /\ Valid(cell) =>
       log_size = 0 /\ log_write_ptr = 0

OrderInv == CountInv /\ InPlace(cell, Last, said, Kept)

FullInv == RingInv /\ OrderInv

LEMMA FullInvInit == Init => FullInv
<1> SUFFICES ASSUME Init PROVE FullInv
  OBVIOUS
<1>1. RingInv
  BY RingInvInit
<1>2. said = <<>> /\ Len(said) = 0 /\ since = 0 /\ pc = "Idle" /\ Kept = 0 /\ Seen = 0
  BY DEF Init, Kept, Seen, Storing
<1>3. InPlace(cell, Last, said, Kept)
  BY <1>2 DEF InPlace
<1>4. log_size \in Nat
  BY <1>1, Header DEF RingInv, TypeOK, log_size
<1>5. calm /\ Valid(cell) => log_size = 0 /\ log_write_ptr = 0
  <2>1. PICK p, z \in 0 .. Size + 1 :
          /\ calm = (<<p, z>> \in {<<0, 0>>, <<Size, 0>>, <<0, Size + 1>>})
          /\ mem = [c \in Cells |-> IF c = PtrCell THEN p ELSE IF c = SizeCell THEN z ELSE 0]
    BY DEF Init
  <2>2. log_write_ptr = p /\ log_size = z
    BY <2>1, Header DEF Init, log_write_ptr, log_size
  <2>3. calm => (p = 0 /\ z = 0) \/ (p = Size /\ z = 0) \/ (p = 0 /\ z = Size + 1)
    BY <2>1
  <2>4. Valid(cell) => p < Size /\ z <= Size
    BY <2>2 DEF Valid, log_write_ptr, log_size
  <2> QED
    BY <2>2, <2>3, <2>4, SizeAssumption
<1>6. CountInv
  BY <1>2, <1>4, <1>5 DEF CountInv
<1> QED
  BY <1>1, <1>3, <1>6 DEF FullInv, OrderInv

\* log[] is apart from the header, and Back stays inside it.
LEMMA LogCells ==
  \A p \in 0 .. Size - 1 : LogCell(p) \in Cells /\ LogCell(p) \notin {PtrCell, SizeCell}
  BY SizeAssumption DEF LogCell, Cells, PtrCell, SizeCell

LEMMA BackInLog == \A p \in 0 .. Size - 1, j \in 1 .. Size : Back(p, j) \in 0 .. Size - 1
  BY SizeAssumption DEF Back

\* The next character goes behind the others; the oldest makes room for it.
LEMMA AppendedLast ==
  ASSUME NEW s \in Seq(Chars), Len(s) <= Size, NEW c \in Chars
  PROVE  LET t == LastOf(Append(s, c))
         IN /\ Len(t) = UpTo(Len(s) + 1)
            /\ t[Len(t)] = c
            /\ \A j \in 2 .. Len(t) : t[Len(t) - j + 1] = s[Len(s) - (j - 1) + 1]
<1> DEFINE u == Append(s, c)
<1>1. Len(s) \in Nat /\ u \in Seq(Chars) /\ Len(u) = Len(s) + 1 /\ u # <<>>
  OBVIOUS
<1>2. \A i \in 1 .. Len(u) : u[i] = IF i <= Len(s) THEN s[i] ELSE c
  OBVIOUS
<1>3. CASE Len(u) > Size
  <2>1. LastOf(u) = Tail(u)
    BY <1>3 DEF LastOf
  <2>2. Len(Tail(u)) = Len(s) /\ \A i \in 1 .. Len(Tail(u)) : Tail(u)[i] = u[i + 1]
    BY <1>1, HeadTailProperties
  <2>3. Len(s) = Size
    BY <1>1, <1>3, SizeAssumption
  <2> HIDE DEF u
  <2> QED
    BY <1>1, <1>2, <2>1, <2>2, <2>3, SizeAssumption DEF UpTo, u
<1>4. CASE ~(Len(u) > Size)
  <2>1. LastOf(u) = u
    BY <1>4 DEF LastOf
  <2> HIDE DEF u
  <2> QED
    BY <1>1, <1>2, <1>4, <2>1, SizeAssumption DEF UpTo, u
<1> QED
  BY <1>3, <1>4

\* The stores of the loop but the first move the pointer and count, and leave the
\* characters where they are.
LEMMA OrderKept ==
  ASSUME RingInv, OrderInv, Last \in 0 .. Size - 1,
         Last' = Last, Kept' = Kept, said' = said, Kept <= Size, Kept \in Nat,
         \A c \in Cells \ {PtrCell, SizeCell} : cell'[c] = cell[c]
  PROVE  InPlace(cell, Last, said, Kept)'
<1>1. \A j \in 1 .. Kept : LogCell(Back(Last, j)) \in Cells \ {PtrCell, SizeCell}
  BY BackInLog, LogCells, SizeAssumption
<1> QED
  BY <1>1 DEF OrderInv, InPlace

\* What every step can rely on.
LEMMA Facts ==
  ASSUME RingInv, OrderInv
  PROVE  /\ log_write_ptr \in Nat /\ log_size \in Nat /\ since \in 0 .. Size
         /\ Len(said) \in 0 .. Size /\ Seen \in 0 .. Size
         /\ Kept \in 0 .. Size /\ Kept <= Len(said)
         /\ pc # "Idle" => Last \in 0 .. Size - 1
<1>1. log_write_ptr \in Nat /\ log_size \in Nat /\ since \in 0 .. Size
  BY Header DEF RingInv, TypeOK, log_write_ptr, log_size
<1>2. Len(said) \in 0 .. Size
  BY DEF RingInv, TypeOK
<1>3. Seen \in 0 .. Size
  BY <1>1, SizeAssumption DEF Seen, UpTo
<1>4. Kept \in 0 .. Size /\ Kept <= Len(said)
  BY <1>2, <1>3 DEF Kept, OrderInv, CountInv
<1>5. pc # "Idle" => Last \in 0 .. Size - 1
  BY <1>1, SizeAssumption DEF RingInv, TypeOK, PtrInv, Last
<1> QED
  BY <1>1, <1>2, <1>3, <1>4, <1>5

LEMMA OrderPut ==
  ASSUME RingInv, RingInv', OrderInv, Put
  PROVE  OrderInv'
<1> USE SizeAssumption
<1> DEFINE p == log_write_ptr
<1>1. p \in 0 .. Size - 1 /\ Last = p /\ Last' = IF p + 1 = Size THEN 0 ELSE p + 1
  <2>1. p \in 0 .. Size - 1
    BY Facts DEF Put, RingInv, PtrInv
  <2>2. log_write_ptr' = log_write_ptr /\ log_size' = log_size
    BY <2>1, Header, LogCells DEF Put, RingInv, TypeOK, log_write_ptr, log_size
  <2> QED
    BY <2>1, <2>2 DEF Put, Last
<1>2. log_write_ptr' = log_write_ptr /\ log_size' = log_size
  BY <1>1, Header, LogCells DEF Put, RingInv, TypeOK, log_write_ptr, log_size
<1>3. /\ Len(said') = UpTo(Len(said) + 1) /\ said'[Len(said')] = next
      /\ \A j \in 2 .. Len(said') : said'[Len(said') - j + 1] = said[Len(said) - (j - 1) + 1]
  BY AppendedLast DEF Put, RingInv, TypeOK
<1>4. Seen' = UpTo(since + 1) /\ Seen = since
  BY DEF Put, Seen, Storing
<1>5. Kept' \in 0 .. Len(said') /\ Kept' <= Kept + 1 /\ Kept' <= Size
  BY <1>3, <1>4, Facts DEF Put, Kept, UpTo, OrderInv, CountInv
<1>6. CountInv'
  <2>1. Held = log_size /\ Held' = UpTo(log_size + 1)
    BY <1>2 DEF Put, Held, Storing
  <2>2. calm => Len(said) = log_size /\ (log_size < Size => p = log_size)
    BY <1>1, <2>1 DEF Put, OrderInv, CountInv
  <2>3. calm' /\ Held' < Size => Last' = Held'
    BY <1>1, <2>1, <2>2, Facts DEF Put, UpTo
  <2>4. calm' => Len(said') = Held'
    BY <1>3, <2>1, <2>2 DEF Put
  <2>5. Seen' <= Len(said')
    BY <1>3, <1>4, Facts DEF UpTo, OrderInv, CountInv
  <2> QED
    BY <1>2, <2>3, <2>4, <2>5 DEF Put, OrderInv, CountInv
<1>7. ASSUME NEW j \in 1 .. Kept'
      PROVE  cell'[LogCell(Back(Last', j))] = said'[Len(said') - j + 1]
  <2>1. cell' = [cell EXCEPT ![LogCell(p)] = next] /\ cell \in [Cells -> Nat]
    BY DEF Put, RingInv, TypeOK
  <2>2. CASE j = 1
    <3>1. Back(Last', 1) = p
      BY <1>1 DEF Back
    <3> QED
      BY <1>1, <1>3, <1>5, <2>1, <2>2, <3>1, LogCells
  <2>3. CASE j > 1
    <3>1. j - 1 \in 1 .. Kept /\ j \in 2 .. Len(said') /\ j <= Size
      BY <1>5, <2>3, Facts
    <3>2. Back(Last', j) = Back(p, j - 1)
      BY <1>1, <3>1 DEF Back
    <3>3. Back(p, j - 1) \in 0 .. Size - 1 /\ Back(p, j - 1) # p
      BY <1>1, <3>1 DEF Back
    <3>4. cell'[LogCell(Back(p, j - 1))] = cell[LogCell(Back(p, j - 1))]
      BY <1>1, <2>1, <3>3, LogCells DEF LogCell
    <3>5. cell[LogCell(Back(p, j - 1))] = said[Len(said) - (j - 1) + 1]
      BY <1>1, <3>1 DEF OrderInv, InPlace
    <3> QED
      BY <1>3, <3>1, <3>2, <3>4, <3>5
  <2> QED
    BY <1>5, <2>2, <2>3
<1> QED
  BY <1>6, <1>7 DEF OrderInv, InPlace

LEMMA OrderIncPtr ==
  ASSUME RingInv, RingInv', OrderInv, IncPtr
  PROVE  OrderInv'
<1> USE SizeAssumption
<1>1. log_write_ptr' = log_write_ptr + 1 /\ log_size' = log_size
  BY Header DEF IncPtr, RingInv, TypeOK, log_write_ptr, log_size
<1>2. Last' = Last /\ Kept' = Kept /\ Seen' = Seen /\ Held' = Held
  BY <1>1, Facts DEF IncPtr, RingInv, PtrInv, Last, Kept, Seen, Held, Storing
<1>3. CountInv'
  BY <1>1, <1>2, Facts DEF IncPtr, OrderInv, CountInv
<1>4. InPlace(cell, Last, said, Kept)'
  BY <1>2, OrderKept, Facts, Header DEF IncPtr, RingInv, TypeOK
<1> QED
  BY <1>3, <1>4 DEF OrderInv

LEMMA OrderWrap ==
  ASSUME RingInv, RingInv', OrderInv, Wrap
  PROVE  OrderInv'
<1> USE SizeAssumption
<1>1. /\ log_write_ptr' = IF log_write_ptr >= Size THEN 0 ELSE log_write_ptr
      /\ log_size' = log_size
  BY Header DEF Wrap, RingInv, TypeOK, log_write_ptr, log_size
<1>2. Last' = Last
  <2>1. log_write_ptr \in 0 .. Size
    BY Facts DEF Wrap, RingInv, PtrInv
  <2>2. Last = IF log_write_ptr = Size THEN 0 ELSE log_write_ptr
    BY DEF Wrap, Last
  <2>3. Last' = IF log_write_ptr' = Size THEN 0 ELSE log_write_ptr'
    BY DEF Wrap, Last
  <2> QED
    BY <1>1, <2>1, <2>2, <2>3
<1>3. Kept' = Kept /\ Seen' = Seen /\ Held' = Held
  BY <1>1 DEF Wrap, Kept, Seen, Held, Storing
<1>4. CountInv'
  BY <1>1, <1>2, <1>3, Facts DEF Wrap, OrderInv, CountInv
<1>5. InPlace(cell, Last, said, Kept)'
  BY <1>2, <1>3, OrderKept, Facts, Header DEF Wrap, RingInv, TypeOK
<1> QED
  BY <1>4, <1>5 DEF OrderInv

LEMMA OrderIncSize ==
  ASSUME RingInv, RingInv', OrderInv, IncSize
  PROVE  OrderInv'
<1> USE SizeAssumption
<1>1. /\ log_write_ptr' = log_write_ptr
      /\ log_size' = IF log_size < Size THEN log_size + 1 ELSE log_size
  BY Header DEF IncSize, RingInv, TypeOK, log_write_ptr, log_size
<1>2. pc' \in {"Idle", "Put"} /\ log_size <= Size
  BY DEF IncSize, OrderInv, CountInv
<1>3. Last' = Last /\ Seen' = Seen /\ Held' = Held
  BY <1>1, <1>2, Facts DEF IncSize, RingInv, PtrInv, Last, Seen, Held, Storing, UpTo
<1>4. Kept' = Kept
  BY <1>3 DEF IncSize, Kept
<1>5. CountInv'
  <2>1. since' <= log_size' /\ log_size' <= Size /\ log_write_ptr' < Size
    BY <1>1, <1>2, Facts DEF IncSize, RingInv, PtrInv, OrderInv, CountInv
  <2>2. calm => Len(said) = Held /\ (Held < Size => Last = Held) /\ Held > 0
    BY <1>2, Facts DEF IncSize, OrderInv, CountInv, Held, Storing, UpTo
  <2>3. Seen' <= Len(said)
    BY <1>3 DEF OrderInv, CountInv
  <2>4. calm => said # <<>>
    BY <2>2
  <2> QED
    BY <1>3, <2>1, <2>2, <2>3, <2>4 DEF IncSize, CountInv
<1>6. InPlace(cell, Last, said, Kept)'
  BY <1>3, <1>4, OrderKept, Facts, Header DEF IncSize, RingInv, TypeOK
<1> QED
  BY <1>5, <1>6 DEF OrderInv

\* A header that can't be has nothing behind it that anybody relies on.
LEMMA OrderLog ==
  ASSUME RingInv, RingInv', OrderInv, Log
  PROVE  OrderInv'
<1> USE SizeAssumption
<1>1. said' = said /\ calm' = calm /\ since' = since /\ pc = "Idle" /\ pc' = "Put"
  BY DEF Log
<1>2. Seen' = since /\ Seen = since /\ Kept' = Kept
  BY <1>1 DEF Seen, Kept, Storing
<1>3. CASE Valid(cell)
  <2>1. cell' = cell /\ log_write_ptr < Size /\ log_size <= Size
    BY <1>3 DEF Log, Checked, Valid, log_write_ptr, log_size
  <2>2. log_write_ptr' = log_write_ptr /\ log_size' = log_size
    BY <2>1 DEF log_write_ptr, log_size
  <2>3. Last' = Last /\ Held' = Held /\ Held = log_size /\ Last = log_write_ptr
    BY <1>1, <2>1, <2>2, Facts DEF Last, Held, Storing
  <2>4. CountInv'
    BY <1>1, <1>2, <1>3, <2>1, <2>2, <2>3 DEF OrderInv, CountInv
  <2> QED
    BY <1>1, <1>2, <2>1, <2>3, <2>4 DEF OrderInv, InPlace
<1>4. CASE ~Valid(cell)
  <2>1. log_write_ptr' = 0 /\ log_size' = 0
    BY <1>4, Header DEF Log, Checked, RingInv, TypeOK, log_write_ptr, log_size
  <2>2. since = 0
    BY <1>1, <1>4, Facts DEF OrderInv, CountInv, Valid, log_write_ptr, log_size
  <2>3. calm => said = <<>>
    BY <1>1, <1>4, Facts DEF OrderInv, CountInv, Valid, Held, Storing, log_write_ptr, log_size
  <2>4. Kept' = 0 /\ Held' = 0 /\ Last' = 0
    BY <1>1, <1>2, <2>1, <2>2, <2>3 DEF Kept, Held, Last, Storing
  <2>5. CountInv'
    BY <1>1, <1>2, <2>1, <2>2, <2>3, <2>4, Facts DEF CountInv
  <2> QED
    BY <2>4, <2>5 DEF OrderInv, InPlace
<1> QED
  BY <1>3, <1>4

\* From a reset or a handler on nothing is known to be in place.
LEMMA OrderCut ==
  ASSUME RingInv, RingInv', OrderInv, Preempt \/ Reset
  PROVE  OrderInv'
<1> USE SizeAssumption
<1>1. since' = 0 /\ calm' = FALSE /\ pc' \in {"Idle", "Put"} /\ said' = said
  BY DEF Preempt, Reset, Restart
<1>2. Seen' = 0 /\ Kept' = 0
  BY <1>1 DEF Seen, Kept, Storing
<1>3. log_size' \in Nat /\ Len(said) \in Nat
  BY Header DEF RingInv, TypeOK, log_size
<1>4. pc' # "Idle" => log_size' <= Size
  BY Header DEF Preempt, Reset, Restart, Checked, Valid, RingInv, TypeOK, log_size
<1>5. CountInv'
  BY <1>1, <1>2, <1>3, <1>4 DEF CountInv
<1> QED
  BY <1>2, <1>5 DEF OrderInv, InPlace

\* A change of image leaves the log as it is, and counts anew.
LEMMA OrderLeave ==
  ASSUME RingInv, RingInv', OrderInv, CleanAndLeave
  PROVE  OrderInv'
<1> USE SizeAssumption
<1>1. /\ cell' = cell /\ said' = said /\ calm' = calm /\ pc = "Idle" /\ pc' = "Idle"
      /\ since' = 0
  BY DEF CleanAndLeave, Restart
<1>2. log_write_ptr' = log_write_ptr /\ log_size' = log_size
  BY <1>1 DEF log_write_ptr, log_size
<1>3. Last' = Last /\ Held' = Held /\ Seen' = 0 /\ Kept' \in 0 .. Kept
  BY <1>1, <1>2, Facts DEF Last, Held, Seen, Kept, Storing
<1>4. CountInv'
  BY <1>1, <1>2, <1>3, Facts DEF OrderInv, CountInv, Valid
<1>5. InPlace(cell, Last, said, Kept)'
  <2>1. Kept \in Nat /\ \A j \in 1 .. Kept : cell[LogCell(Back(Last, j))] = said[Len(said) - j + 1]
    BY Facts DEF OrderInv, InPlace
  <2>2. \A j \in 1 .. Kept' : j \in 1 .. Kept
    BY <1>3, <2>1
  <2>3. \A j \in 1 .. Kept' : cell'[LogCell(Back(Last', j))] = said'[Len(said') - j + 1]
    BY <1>1, <1>3, <2>1, <2>2
  <2> QED
    BY <2>3 DEF InPlace, LogCell, Back
<1> QED
  BY <1>4, <1>5 DEF OrderInv

LEMMA FullInvNext == FullInv /\ [Next]_vars => FullInv'
<1> SUFFICES ASSUME FullInv, [Next]_vars PROVE FullInv'
  OBVIOUS
<1>1. RingInv /\ RingInv' /\ OrderInv
  BY RingInvNext DEF FullInv
<1>2. ASSUME NEW l \in 0 .. ((Size + 1) \div LineLen), Evict(l)
      PROVE  OrderInv'
  BY <1>1, <1>2 DEF Evict, OrderInv, CountInv, InPlace, Last, Kept, Seen, Held, Storing, Valid,
                    log_write_ptr, log_size
<1>3. CASE UNCHANGED vars
  <2>1. /\ cell' = cell /\ pc' = pc /\ said' = said /\ since' = since /\ calm' = calm
        /\ log_write_ptr' = log_write_ptr /\ log_size' = log_size
    BY <1>3 DEF vars, log_write_ptr, log_size
  <2>2. Last' = Last /\ Kept' = Kept /\ Seen' = Seen /\ Held' = Held
    BY <2>1 DEF Last, Kept, Seen, Held, Storing
  <2>3. CountInv'
    BY <1>1, <2>1, <2>2 DEF OrderInv, CountInv, Valid
  <2>4. InPlace(cell, Last, said, Kept)'
    BY <1>1, <2>1, <2>2 DEF OrderInv, InPlace
  <2> QED
    BY <1>1, <2>3, <2>4 DEF FullInv, OrderInv
<1> QED
  BY <1>1, <1>2, <1>3, OrderPut, OrderIncPtr, OrderWrap, OrderIncSize, OrderLog, OrderCut,
     OrderLeave DEF Next, FullInv

-----------------------------------------------------------------------------
(* Reading the log *)

LEMMA SliceProperties ==
  ASSUME cell \in [Cells -> Nat], NEW f \in 0 .. Size, NEW t \in f .. Size
  PROVE  /\ Slice(f, t) \in Seq(Nat) /\ Len(Slice(f, t)) = t - f
         /\ \A i \in 1 .. t - f : Slice(f, t)[i] = cell[LogCell(f + i - 1)]
<1>1. \A i \in 1 .. t - f : LogCell(f + i - 1) \in Cells
  BY SizeAssumption DEF LogCell, Cells
<1>2. \A i \in 1 .. t - f : cell[LogCell(f + i - 1)] \in Nat
  BY <1>1
<1> QED
  BY <1>2, SizeAssumption DEF Slice

\* The parts together are as long as the header says, and the second one goes on
\* where the first one ends.
LEMMA ContentsProperties ==
  ASSUME cell \in [Cells -> Nat], Valid(cell)
  PROVE  /\ Contents \in Seq(Nat) /\ Len(Contents) = log_size
         /\ \A i \in 1 .. log_size :
              Contents[i] = cell[LogCell(IF log_size < Size THEN i - 1
                                         ELSE IF i <= Size - log_write_ptr
                                                THEN log_write_ptr + i - 1
                                                ELSE log_write_ptr + i - 1 - Size)]
<1> USE SizeAssumption
<1>1. log_size \in 0 .. Size /\ log_write_ptr \in 0 .. Size - 1
  BY Header DEF Valid, log_size, log_write_ptr
<1>2. CASE log_size < Size
  <2>1. FirstPart = Slice(0, log_size) /\ SecondPart = <<>>
    BY <1>2 DEF FirstPart, SecondPart
  <2>2. Contents = Slice(0, log_size)
    BY <1>1, <2>1, SliceProperties, ConcatEmptySeq DEF Contents
  <2>3. ASSUME NEW i \in 1 .. log_size
        PROVE  Slice(0, log_size)[i] = cell[LogCell(i - 1)]
    BY <1>1, SliceProperties
  <2>4. Slice(0, log_size) \in Seq(Nat) /\ Len(Slice(0, log_size)) = log_size
    BY <1>1, SliceProperties
  <2> QED
    BY <1>2, <2>2, <2>3, <2>4
<1>3. CASE log_size = Size
  <2> DEFINE a == Slice(log_write_ptr, Size)
             b == Slice(0, log_write_ptr)
  <2>1. Contents = a \o b
    BY <1>3 DEF FirstPart, SecondPart, Contents
  <2>2. /\ a \in Seq(Nat) /\ Len(a) = Size - log_write_ptr
        /\ \A i \in 1 .. Size - log_write_ptr : a[i] = cell[LogCell(log_write_ptr + i - 1)]
    BY <1>1, SliceProperties
  <2>3. /\ b \in Seq(Nat) /\ Len(b) = log_write_ptr
        /\ \A i \in 1 .. log_write_ptr : b[i] = cell[LogCell(i - 1)]
    BY <1>1, SliceProperties
  <2> HIDE DEF a, b
  <2>4. /\ a \o b \in Seq(Nat) /\ Len(a \o b) = Size
        /\ \A i \in 1 .. Size : (a \o b)[i] = IF i <= Size - log_write_ptr THEN a[i]
                                             ELSE b[i - (Size - log_write_ptr)]
    <3>1. Len(a) + Len(b) = Size
      BY <1>1, <2>2, <2>3
    <3>2. /\ a \o b \in Seq(Nat) /\ Len(a \o b) = Len(a) + Len(b)
          /\ \A i \in 1 .. Len(a) + Len(b) :
               (a \o b)[i] = IF i <= Len(a) THEN a[i] ELSE b[i - Len(a)]
      BY <2>2, <2>3, ConcatProperties
    <3> QED
      BY <2>2, <3>1, <3>2
  <2>5. ASSUME NEW i \in 1 .. Size, i > Size - log_write_ptr
        PROVE  b[i - (Size - log_write_ptr)] = cell[LogCell(log_write_ptr + i - 1 - Size)]
    <3>1. i - (Size - log_write_ptr) \in 1 .. log_write_ptr
      BY <1>1, <2>5
    <3>2. i - (Size - log_write_ptr) - 1 = log_write_ptr + i - 1 - Size
      BY <1>1
    <3> QED
      BY <2>3, <3>1, <3>2
  <2>6. ASSUME NEW i \in 1 .. Size
        PROVE  (a \o b)[i] = cell[LogCell(IF i <= Size - log_write_ptr
                                            THEN log_write_ptr + i - 1
                                            ELSE log_write_ptr + i - 1 - Size)]
    <3>1. CASE i <= Size - log_write_ptr
      BY <1>1, <2>2, <2>4, <3>1
    <3>2. CASE i > Size - log_write_ptr
      BY <1>1, <2>4, <2>5, <3>2
    <3>3. i <= Size - log_write_ptr \/ i > Size - log_write_ptr
      BY <1>1
    <3> QED
      BY <3>1, <3>2, <3>3
  <2> QED
    BY <1>3, <2>1, <2>4, <2>6
<1> QED
  BY <1>1, <1>2, <1>3

\* When everything the header counts is in place, that is what is read.
LEMMA ContentsInPlace ==
  ASSUME RingInv, Valid(cell), pc = "Idle", log_size = Len(said),
         log_size < Size => log_write_ptr = log_size,
         InPlace(cell, Last, said, log_size)
  PROVE  Contents = said
<1> USE SizeAssumption
<1>1. /\ log_size \in 0 .. Size /\ log_write_ptr \in 0 .. Size - 1
      /\ Last = log_write_ptr
  BY Header DEF Valid, RingInv, TypeOK, log_size, log_write_ptr, Last
<1>2. said \in Seq(Nat)
  BY SeqMonotonic DEF RingInv, TypeOK, Chars
<1>3. ASSUME NEW i \in 1 .. log_size
      PROVE  Contents[i] = said[i]
  <2> DEFINE j == log_size - i + 1
  <2>1. j \in 1 .. log_size /\ log_size - j + 1 = i
    BY <1>1
  <2>2. cell[LogCell(Back(log_write_ptr, j))] = said[i]
    BY <1>1, <2>1 DEF InPlace
  <2>3. Back(log_write_ptr, j) = IF log_size < Size THEN i - 1
                                 ELSE IF i <= Size - log_write_ptr
                                        THEN log_write_ptr + i - 1
                                        ELSE log_write_ptr + i - 1 - Size
    BY <1>1 DEF Back
  <2> QED
    BY <2>2, <2>3, ContentsProperties DEF RingInv, TypeOK
<1>4. Contents \in Seq(Nat) /\ Len(Contents) = Len(said)
  BY ContentsProperties DEF RingInv, TypeOK
<1> QED
  BY <1>2, <1>3, <1>4, SeqEqual

\* The log reads back as what was logged, in order, in a device that nobody cuts
\* short.
THEOREM LogReadsInOrder == Spec => []ReadsInOrderInCalm
<1>1. ASSUME FullInv PROVE ReadsInOrderInCalm
  <2> SUFFICES ASSUME calm, pc = "Idle", said # <<>>
               PROVE  Contents = said
    BY DEF ReadsInOrderInCalm, GetMemoryLog
  <2>1. /\ log_size = Len(said) /\ log_write_ptr < Size
        /\ log_size < Size => Last = log_size
        /\ Kept = Len(said) /\ log_size <= Size
    BY <1>1, Facts DEF FullInv, OrderInv, CountInv, Held, Storing, Kept
  <2>2. log_size < Size => log_write_ptr = log_size
    BY <2>1 DEF Last
  <2> QED
    BY <1>1, <2>1, <2>2, ContentsInPlace
       DEF FullInv, OrderInv, Valid, log_size, log_write_ptr
<1> QED
  BY <1>1, FullInvInit, FullInvNext, PTL DEF Spec

\* After Size characters in peace, what a handler or a reset did to the ring is
\* forgotten.
THEOREM LogRecovers == Spec => []RightAgain
<1>1. ASSUME FullInv PROVE RightAgain
  <2> SUFFICES ASSUME pc = "Idle", since = Size
               PROVE  Contents = said
    BY DEF RightAgain
  <2>1. log_size = Size /\ log_write_ptr < Size /\ Len(said) = Size /\ Seen = Size
    BY <1>1, Facts, SizeAssumption DEF FullInv, OrderInv, CountInv, Seen, Storing
  <2>2. Kept = Size
    BY <2>1 DEF Kept
  <2> QED
    BY <1>1, <2>1, <2>2, ContentsInPlace
       DEF FullInv, OrderInv, Valid, log_size, log_write_ptr
<1> QED
  BY <1>1, FullInvInit, FullInvNext, PTL DEF Spec

\* The copy fits into a buffer that is one longer than the log, as that of
\* GetPersistentMemoryLog is.
THEOREM CopyFits == ASSUME CopySize > Size PROVE Spec => []TerminatorFits
<1>1. ASSUME FullInv PROVE TerminatorFits
  <2> SUFFICES ASSUME Valid(cell) PROVE Len(GetMemoryLog) <= CopySize
    BY DEF TerminatorFits
  <2>1. Contents \in Seq(Nat) /\ Len(Contents) <= Size
    BY <1>1, ContentsProperties DEF FullInv, RingInv, TypeOK, Valid, log_size
  <2>2. Len(GetMemoryLog) = Len(Contents) + 1
    BY <2>1 DEF GetMemoryLog, Terminator
  <2> QED
    BY <2>1, <2>2, SizeAssumption, CopyAssumption
<1> QED
  BY <1>1, FullInvInit, FullInvNext, PTL DEF Spec

=============================================================================
