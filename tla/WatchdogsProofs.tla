-------------------------- MODULE WatchdogsProofs --------------------------
(***************************************************************************)
(* Proofs about the clock and the two watchdogs, for words, timeouts and   *)
(* periods of any size, wherever SysTick and TIM3 interrupt the image's    *)
(* code and wherever that hangs.                                           *)
(***************************************************************************)
EXTENDS Watchdogs, TLAPS

-----------------------------------------------------------------------------
(* Words *)

LEMMA DivMod == \A a \in Nat, b \in Nat \ {0} :
                  /\ a \div b \in Nat /\ a % b \in 0 .. b - 1
                  /\ a = b * (a \div b) + (a % b)
  BY SMT

LEMMA Times == \A b \in Nat \ {0}, p, q \in Nat : p < q => b * p + b <= b * q
  BY SMT

LEMMA BoundTypes == MaxTime \in Nat /\ Base \in Nat /\ Base > 1
  BY BaseAssumption, SMT

\* A count within the bound is what its two words say.
LEMMA SplitValue ==
  ASSUME NEW v \in 0 .. MaxTime
  PROVE  Split(v) \in Words /\ Value(Split(v)) = v
<1>1. v \in Nat /\ v < Base * Base
  BY BaseAssumption, SMT
<1>2. v \div Base \in Nat /\ v % Base \in 0 .. Base - 1 /\ v = Base * (v \div Base) + (v % Base)
  BY <1>1, BaseAssumption, DivMod
<1>3. v \div Base < Base
  BY <1>1, BaseAssumption, SMT
<1> QED
  BY <1>2, <1>3, BaseAssumption, SMT DEF Split, Words, Value

\* The high word never falls.
LEMMA HighWordRises ==
  ASSUME NEW a \in Nat, NEW b \in Nat, a <= b
  PROVE  Split(a).hi <= Split(b).hi
  BY BaseAssumption, SMT DEF Split

\* Before the wrap-around the low word is the count.
LEMMA BeforeWrap ==
  ASSUME NEW v \in Nat, v < Base
  PROVE  Split(v).lo = v /\ Split(v).hi = 0
  BY BaseAssumption, SMT DEF Split

LEMMA ValueBeforeWrap ==
  ASSUME NEW w \in Words, Value(w) < Base
  PROVE  w.hi = 0 /\ w.lo = Value(w)
<1>1. w.hi \in Nat /\ w.lo \in Nat /\ Value(w) = w.hi * Base + w.lo
  BY BaseAssumption DEF Words, Value
<1>2. w.hi = 0
  BY <1>1, BaseAssumption, SMT
<1> QED
  BY <1>1, <1>2, BaseAssumption

LEMMA WordStored ==
  ASSUME NEW w \in Words, NEW x \in 0 .. Base - 1
  PROVE  /\ [w EXCEPT !.lo = x] = [lo |-> x, hi |-> w.hi]
         /\ [w EXCEPT !.hi = x] = [lo |-> w.lo, hi |-> x]
  BY DEF Words

LEMMA WordNamed ==
  ASSUME NEW w \in Words, NEW s \in Words, NEW n \in {"lo", "hi"}
  PROVE  [w EXCEPT ![n] = s[n]] =
           IF n = "lo" THEN [lo |-> s.lo, hi |-> w.hi] ELSE [lo |-> w.lo, hi |-> s.hi]
<1>1. s.lo \in 0 .. Base - 1 /\ s.hi \in 0 .. Base - 1
  BY DEF Words
<1>2. CASE n = "lo"
  BY <1>1, <1>2, WordStored
<1>3. CASE n = "hi"
  BY <1>1, <1>3, WordStored
<1> QED
  BY <1>2, <1>3

-----------------------------------------------------------------------------
(* The clock and its reader *)

\* What the two words hold between SysTick's stores.
Clock ==
  IF systick = "lo" THEN [lo |-> Split(ticks - 1).lo, hi |-> Split(ticks).hi]
  ELSE IF systick = "hi" THEN [lo |-> Split(ticks).lo, hi |-> Split(ticks - 1).hi]
  ELSE Split(ticks)

\* A tick of the call whose low word is the second reading's, and whose high word
\* lies between those of the two readings.
Between(c) == t2.lo = Split(c).lo /\ t1.hi <= Split(c).hi

ReaderInv ==
  /\ main = "t2.lo" => t1.hi <= Split(ticks).hi
  /\ main = "t2.hi" => \E c \in start .. ticks : Between(c)
  /\ main = "compare" => \E c \in start .. ticks : Between(c) /\ Split(c).hi <= t2.hi
  /\ CallersTimeIsRight

ClockInv ==
  /\ TypeOK
  /\ time = Clock /\ (systick # "idle" => ticks > 0)
  /\ ReaderInv

LEMMA ClockInit == Init => ClockInv
<1> SUFFICES ASSUME Init PROVE ClockInv
  OBVIOUS
<1>1. Zero \in Words /\ Split(0) = Zero
  BY BeforeWrap, BaseAssumption DEF Zero, Words, Split
<1>2. fired \in BOOLEAN
  BY Zenon DEF Init
<1>3. TypeOK
  BY <1>1, <1>2, BoundTypes DEF Init, TypeOK
<1> QED
  BY <1>1, <1>3 DEF Init, ClockInv, Clock, ReaderInv, CallersTimeIsRight

\* SysTick's stores.
LEMMA TickStep ==
  ASSUME ClockInv, TickFirst \/ TickSecond
  PROVE  ClockInv'
<1>1. time \in Words /\ ticks \in 0 .. MaxTime /\ ticks \in Nat
  BY DEF ClockInv, TypeOK
<1>2. ticks' \in 0 .. MaxTime /\ ticks' >= ticks /\ ticks' \in Nat
  BY <1>1, BaseAssumption DEF TickFirst, TickSecond
<1>3. time' = Clock' /\ (systick' # "idle" => ticks' > 0) /\ systick' \in {"idle", "lo", "hi"}
  <2>1. CASE TickFirst
    <3>1. PICK w \in {"lo", "hi"} :
            /\ time' = [time EXCEPT ![w] = Split(ticks')[w]]
            /\ systick' = IF w = "lo" THEN "hi" ELSE "lo"
      BY <2>1, OrdersAssumption DEF TickFirst
    <3>2. ticks' = ticks + 1 /\ time = Split(ticks)
      BY <2>1 DEF TickFirst, ClockInv, Clock
    <3>3. time' = IF w = "lo" THEN [lo |-> Split(ticks').lo, hi |-> time.hi]
                  ELSE [lo |-> time.lo, hi |-> Split(ticks').hi]
      BY <1>1, <1>2, <3>1, SplitValue, WordNamed
    <3>4. ticks' - 1 = ticks /\ ticks' > 0
      BY <1>1, <3>2
    <3> QED
      BY <3>1, <3>2, <3>3, <3>4 DEF Clock
  <2>2. CASE TickSecond
    <3>1. systick \in {"lo", "hi"} /\ systick' = "idle" /\ ticks' = ticks
      BY <2>2 DEF TickSecond, ClockInv, TypeOK
    <3>2. time' = [time EXCEPT ![systick] = Split(ticks)[systick]]
      BY <2>2 DEF TickSecond
    <3>3. time' = IF systick = "lo" THEN [lo |-> Split(ticks).lo, hi |-> time.hi]
                  ELSE [lo |-> time.lo, hi |-> Split(ticks).hi]
      BY <1>1, <3>1, <3>2, SplitValue, WordNamed
    <3>4. time' = [lo |-> Split(ticks).lo, hi |-> Split(ticks).hi]
      BY <3>1, <3>3 DEF ClockInv, Clock
    <3>5. time' = Split(ticks)
      BY <3>4 DEF Split
    <3> QED
      BY <3>1, <3>5 DEF Clock
  <2> QED
    BY <2>1, <2>2
<1>4. /\ UNCHANGED <<main, t1, t2, last_refresh, armed, fired, checked, start, reloaded>>
      /\ ticks' \in {ticks, ticks + 1}
  BY DEF TickFirst, TickSecond
<1>5. time' \in Words
  <2>1. Split(ticks') \in Words
    BY <1>2, SplitValue
  <2>2. ASSUME ticks' > 0
        PROVE  Split(ticks' - 1) \in Words
    <3>1. \A x, b \in Nat : x > 0 /\ x <= b => x - 1 \in 0 .. b
      OBVIOUS
    <3>2. ticks' <= MaxTime
      BY <1>2, BoundTypes
    <3>3. ticks' - 1 \in 0 .. MaxTime
      BY <1>2, <2>2, <3>1, <3>2, BoundTypes
    <3> QED
      BY <3>3, SplitValue
  <2> QED
    BY <1>3, <2>1, <2>2 DEF Clock, Words
<1>6. TypeOK'
  BY <1>2, <1>3, <1>4, <1>5 DEF ClockInv, TypeOK
<1>7. ReaderInv'
  <2>1. Split(ticks).hi <= Split(ticks').hi /\ Split(ticks).hi \in Int /\ Split(ticks').hi \in Int
    BY <1>1, <1>2, SplitValue, HighWordRises DEF Words
  <2>2. start .. ticks \subseteq start' .. ticks'
    BY <1>2, <1>4 DEF ClockInv, TypeOK
  <2>3. t1.hi \in Int /\ Value(t1) \in Int
    BY BaseAssumption DEF ClockInv, TypeOK, Words, Value
  <2>4. main = "t2.lo" => t1.hi <= Split(ticks').hi
    BY <2>1, <2>3 DEF ClockInv, ReaderInv
  <2>5. \A c : Between(c)' <=> Between(c)
    BY <1>4 DEF Between
  <2>6. CallersTimeIsRight'
    BY <1>1, <1>2, <1>4, <2>3 DEF ClockInv, ReaderInv, CallersTimeIsRight, Value
  <2> QED
    BY <1>4, <2>2, <2>4, <2>5, <2>6 DEF ClockInv, ReaderInv
<1> QED
  BY <1>3, <1>6, <1>7 DEF ClockInv

\* The image's code reads while the clock is whole.
LEMMA CallStep ==
  ASSUME ClockInv, Call \/ ReadFirst \/ ReadSecond \/ Compare \/ Refresh
  PROVE  ClockInv'
<1> USE DEF MainStep
<1>1. /\ systick = "idle" /\ UNCHANGED <<time, systick, armed, fired, ticks, checked>>
      /\ time = Split(ticks) /\ ticks \in 0 .. MaxTime
  BY DEF Call, ReadFirst, ReadSecond, Compare, Refresh, ClockInv, Clock, TypeOK
<1>2. time' = Clock' /\ (systick' # "idle" => ticks' > 0)
  BY <1>1 DEF ClockInv, Clock
<1>3. time.lo \in 0 .. Base - 1 /\ time.hi \in 0 .. Base - 1
  BY DEF ClockInv, TypeOK, Words
<1>4. /\ t1 \in Words /\ t2 \in Words /\ last_refresh \in Words /\ start \in 0 .. ticks
      /\ reloaded \in 0 .. ticks /\ ticks \in Nat /\ time \in Words
  BY DEF ClockInv, TypeOK
<1>5. CASE Call
  <2>1. TypeOK'
    BY <1>1, <1>5 DEF Call, ClockInv, TypeOK
  <2> QED
    BY <1>2, <1>5, <2>1 DEF Call, ClockInv, ReaderInv, CallersTimeIsRight
<1>6. CASE ReadFirst
  <2>1. CASE main = "t1.lo"
    <3>1. main' = "t1.hi" /\ t1' = [t1 EXCEPT !.lo = time.lo] /\ UNCHANGED <<t2, last_refresh, start, reloaded>>
      BY <1>6, <2>1 DEF ReadFirst
    <3>2. t1' \in Words
      BY <1>3, <1>4, <3>1, WordStored DEF Words
    <3>3. TypeOK'
      BY <1>1, <1>4, <3>1, <3>2 DEF ClockInv, TypeOK
    <3> QED
      BY <1>2, <3>1, <3>3 DEF ClockInv, ReaderInv, CallersTimeIsRight
  <2>2. CASE main = "t1.hi"
    <3>1. main' = "t2.lo" /\ t1' = [t1 EXCEPT !.hi = time.hi] /\ UNCHANGED <<t2, last_refresh, start, reloaded>>
      BY <1>6, <2>2 DEF ReadFirst
    <3>2. t1' = [lo |-> t1.lo, hi |-> time.hi]
      BY <1>3, <1>4, <3>1, WordStored
    <3>3. t1' \in Words /\ t1'.hi = Split(ticks).hi
      BY <1>1, <1>3, <1>4, <3>2 DEF Words
    <3>4. TypeOK'
      BY <1>1, <1>4, <3>1, <3>3 DEF ClockInv, TypeOK
    <3>5. t1'.hi <= Split(ticks').hi
      BY <1>1, <1>3, <3>3
    <3> QED
      BY <1>2, <3>1, <3>4, <3>5 DEF ClockInv, ReaderInv, CallersTimeIsRight
  <2> QED
    BY <1>6, <2>1, <2>2 DEF ReadFirst
<1>7. CASE ReadSecond
  <2>1. CASE main = "t2.lo"
    <3>1. main' = "t2.hi" /\ t2' = [t2 EXCEPT !.lo = time.lo] /\ UNCHANGED <<t1, last_refresh, start, reloaded>>
      BY <1>7, <2>1 DEF ReadSecond
    <3>2. t2' = [lo |-> time.lo, hi |-> t2.hi]
      BY <1>3, <1>4, <3>1, WordStored
    <3>3. t2' \in Words /\ t2'.lo = Split(ticks).lo
      BY <1>1, <1>3, <1>4, <3>2 DEF Words
    <3>4. TypeOK'
      BY <1>1, <1>4, <3>1, <3>3 DEF ClockInv, TypeOK
    <3>5. Between(ticks)' /\ ticks \in start' .. ticks'
      BY <1>1, <1>4, <2>1, <3>1, <3>3 DEF ClockInv, ReaderInv, Between
    <3> QED
      BY <1>1, <1>2, <3>1, <3>4, <3>5 DEF ClockInv, ReaderInv, CallersTimeIsRight
  <2>2. CASE main = "t2.hi"
    <3>1. main' = "compare" /\ t2' = [t2 EXCEPT !.hi = time.hi] /\ UNCHANGED <<t1, last_refresh, start, reloaded>>
      BY <1>7, <2>2 DEF ReadSecond
    <3>2. t2' = [lo |-> t2.lo, hi |-> time.hi]
      BY <1>3, <1>4, <3>1, WordStored
    <3>3. t2' \in Words /\ t2'.lo = t2.lo /\ t2'.hi = Split(ticks).hi
      BY <1>1, <1>3, <1>4, <3>2 DEF Words
    <3>4. TypeOK'
      BY <1>1, <1>4, <3>1, <3>3 DEF ClockInv, TypeOK
    <3>5. PICK c \in start .. ticks : Between(c)
      BY <2>2 DEF ClockInv, ReaderInv
    <3>6. Between(c)' /\ Split(c).hi <= t2'.hi /\ c \in start' .. ticks'
      BY <1>1, <1>4, <3>1, <3>3, <3>5, HighWordRises DEF Between
    <3> QED
      BY <1>2, <3>1, <3>4, <3>6 DEF ClockInv, ReaderInv, CallersTimeIsRight
  <2> QED
    BY <1>7, <2>1, <2>2 DEF ReadSecond
<1>8. CASE Compare
  <2>1. main = "compare" /\ UNCHANGED <<t1, t2, last_refresh, start, reloaded>>
    BY <1>8 DEF Compare
  <2>2. main' = IF t1 = t2 THEN "refresh.lo" ELSE "t1.lo"
    BY <1>8 DEF Compare
  <2>3. TypeOK'
    BY <1>1, <1>4, <2>1, <2>2 DEF ClockInv, TypeOK
  <2>4. ASSUME t1 = t2
        PROVE  start <= Value(t1) /\ Value(t1) <= ticks
    <3>1. PICK c \in start .. ticks : Between(c) /\ Split(c).hi <= t2.hi
      BY <2>1 DEF ClockInv, ReaderInv
    <3>2. c \in 0 .. MaxTime
      BY <1>1, <1>4, <3>1, BoundTypes, SMT
    <3>3. Split(c) \in Words /\ Value(Split(c)) = c
      BY <3>2, SplitValue
    <3>4. t1.lo = Split(c).lo /\ t1.hi = Split(c).hi
      BY <1>4, <2>4, <3>1, <3>3 DEF Between, Words
    <3>5. Value(t1) = c
      BY <3>3, <3>4 DEF Value
    <3> QED
      BY <1>4, <3>1, <3>5
  <2> QED
    BY <1>1, <1>2, <2>1, <2>2, <2>3, <2>4 DEF ClockInv, ReaderInv, CallersTimeIsRight, Value
<1>9. CASE Refresh
  <2>1. CASE main = "refresh.lo"
    <3>1. main' = "refresh.hi" /\ last_refresh' = [last_refresh EXCEPT !.lo = t1.lo]
          /\ reloaded' = Value(t1) /\ UNCHANGED <<t1, t2, start>>
      BY <1>9, <2>1 DEF Refresh
    <3>2. last_refresh' \in Words
      BY <1>4, <3>1, WordStored DEF Words
    <3>3. Value(t1) \in 0 .. ticks
      BY <1>4, <2>1, BaseAssumption, SMT DEF ClockInv, ReaderInv, CallersTimeIsRight, Value, Words
    <3>4. TypeOK'
      BY <1>1, <1>4, <3>1, <3>2, <3>3 DEF ClockInv, TypeOK
    <3> QED
      BY <1>2, <3>1, <3>4 DEF ClockInv, ReaderInv, CallersTimeIsRight
  <2>2. CASE main = "refresh.hi"
    <3>1. main' = "idle" /\ last_refresh' = [last_refresh EXCEPT !.hi = t1.hi]
          /\ UNCHANGED <<t1, t2, start, reloaded>>
      BY <1>9, <2>2 DEF Refresh
    <3>2. last_refresh' \in Words
      BY <1>4, <3>1, WordStored DEF Words
    <3>3. TypeOK'
      BY <1>1, <1>4, <3>1, <3>2 DEF ClockInv, TypeOK
    <3> QED
      BY <1>2, <3>1, <3>3 DEF ClockInv, ReaderInv, CallersTimeIsRight
  <2> QED
    BY <1>9, <2>1, <2>2 DEF Refresh
<1> QED
  BY <1>5, <1>6, <1>7, <1>8, <1>9

\* TIM3's interrupt leaves the clock alone.
LEMMA TIM3Step ==
  ASSUME ClockInv, TIM3
  PROVE  ClockInv'
<1>1. /\ UNCHANGED <<time, systick, main, t1, t2, armed, ticks, start, reloaded>>
      /\ checked' = ticks /\ last_refresh' \in {time, last_refresh}
  BY DEF TIM3
<1>2. fired' \in BOOLEAN
  <2> DEFINE weird == Value(time) < Value(last_refresh)
  <2> DEFINE late == Late(Value(time) - Value(last_refresh))
  <2>1. fired' = (~weird /\ late)
    BY DEF TIM3
  <2> HIDE DEF weird, late
  <2> QED
    BY <2>1, Zenon
<1>3. TypeOK'
  BY <1>1, <1>2 DEF ClockInv, TypeOK
<1> QED
  BY <1>1, <1>3 DEF ClockInv, Clock, ReaderInv, CallersTimeIsRight, Between, Value

\* So does starting and ending the timer.
LEMMA SwitchStep ==
  ASSUME ClockInv, SW_Watchdog_Init \/ SW_Watchdog_End
  PROVE  ClockInv'
<1>1. /\ UNCHANGED <<time, systick, main, t1, t2, last_refresh, fired, ticks, start, reloaded>>
      /\ \/ armed' = ticks /\ checked' = ticks - Period
         \/ armed' = Off /\ checked' = checked
  BY DEF SW_Watchdog_Init, SW_Watchdog_End
<1>2. ticks \in Nat /\ ticks - Period \in Int /\ ticks - Period <= ticks
  BY BoundTypes, WatchdogAssumption DEF ClockInv, TypeOK
<1>3. TypeOK'
  BY <1>1, <1>2 DEF ClockInv, TypeOK
<1> QED
  BY <1>1, <1>3 DEF ClockInv, Clock, ReaderInv, CallersTimeIsRight, Between, Value

LEMMA ClockStep == ClockInv /\ [Next]_vars => ClockInv'
<1>1. ASSUME ClockInv, UNCHANGED vars
      PROVE  ClockInv'
  BY <1>1 DEF vars, ClockInv, TypeOK, Clock, ReaderInv, CallersTimeIsRight, Between, Value
<1> QED
  BY <1>1, TickStep, CallStep, SwitchStep, TIM3Step DEF Next

LEMMA ClockInvariance == Spec => []ClockInv
  BY ClockInit, ClockStep, PTL DEF Spec

-----------------------------------------------------------------------------
(* The alarm, until the low word wraps around *)

AlarmInv ==
  /\ armed # Off => ticks - checked <= Period
  /\ armed # Off /\ checked < armed => ticks = armed /\ ticks - checked = Period
  /\ ticks < Base =>
       /\ last_refresh = [lo |-> reloaded, hi |-> 0]
       /\ main = "refresh.hi" => t1.hi = 0
       /\ main \notin {"idle", "refresh.hi"} => reloaded <= start
       /\ systick # "idle" => reloaded < ticks
       /\ armed # Off /\ ~fired => checked < armed \/ checked - reloaded <= Timeout + 1
       /\ fired => ticks - reloaded > Timeout

\* What every step of the alarm's proof knows of the counts.
LEMMA Counts ==
  ASSUME ClockInv
  PROVE  /\ ticks \in Nat /\ checked \in Int /\ start \in Nat /\ reloaded \in Nat
         /\ Off = -1 /\ armed \in Int /\ (armed # Off => armed \in Nat /\ armed <= ticks)
         /\ checked <= ticks /\ start <= ticks /\ reloaded <= ticks
         /\ Base \in Nat /\ Timeout \in Nat /\ Period \in Nat /\ Period > 0 /\ fired \in BOOLEAN
  BY BoundTypes, WatchdogAssumption DEF ClockInv, TypeOK, Off

\* Before the wrap-around TIM3 is at most one tick behind.
LEMMA TimeBeforeWrap ==
  ASSUME ClockInv, ticks < Base
  PROVE  /\ Value(time) \in {ticks - 1, ticks} /\ Value(time) \in Nat
         /\ systick = "idle" => Value(time) = ticks
<1>1. Split(ticks).lo = ticks /\ Split(ticks).hi = 0
  BY Counts, BeforeWrap
<1>2. CASE systick = "idle"
  <2>1. time.lo = ticks /\ time.hi = 0
    BY <1>1, <1>2 DEF ClockInv, Clock
  <2> QED
    BY <1>2, <2>1, Counts DEF Value
<1>3. CASE systick # "idle"
  <2>1. ticks - 1 \in Nat /\ ticks - 1 < Base
    BY <1>3, Counts DEF ClockInv
  <2>2. Split(ticks - 1).lo = ticks - 1 /\ Split(ticks - 1).hi = 0
    BY <2>1, BeforeWrap
  <2>3. time.lo \in {ticks - 1, ticks} /\ time.hi = 0
    BY <1>1, <1>3, <2>2 DEF ClockInv, Clock, TypeOK
  <2> QED
    BY <1>3, <2>1, <2>3, Counts DEF Value
<1> QED
  BY <1>2, <1>3

LEMMA AlarmTick ==
  ASSUME ClockInv, AlarmInv, TickFirst \/ TickSecond
  PROVE  AlarmInv'
<1>1. UNCHANGED <<main, t1, last_refresh, armed, fired, checked, start, reloaded>> /\ ~fired
  BY DEF TickFirst, TickSecond
<1>2. CASE TickFirst
  <2>1. ticks' = ticks + 1 /\ (armed # Off => ticks - checked < Period)
    BY <1>2 DEF TickFirst
  <2> QED
    BY <1>1, <2>1, Counts DEF AlarmInv
<1>3. CASE TickSecond
  <2>1. ticks' = ticks /\ systick' = "idle"
    BY <1>3 DEF TickSecond
  <2> QED
    BY <1>1, <2>1, Counts DEF AlarmInv
<1> QED
  BY <1>2, <1>3

LEMMA AlarmReload ==
  ASSUME ClockInv, AlarmInv, Call \/ ReadFirst \/ ReadSecond \/ Compare \/ Refresh
  PROVE  AlarmInv'
<1> USE DEF MainStep
<1>1. /\ systick = "idle" /\ UNCHANGED <<systick, armed, fired, ticks, checked>> /\ ~fired
  BY DEF Call, ReadFirst, ReadSecond, Compare, Refresh
<1>2. CASE Call
  <2>1. /\ main' = "t1.lo" /\ start' = ticks /\ UNCHANGED <<t1, last_refresh, reloaded>>
    BY <1>2 DEF Call
  <2> QED
    BY <1>1, <2>1, Counts DEF AlarmInv
<1>3. CASE ReadFirst \/ ReadSecond \/ Compare
  <2>1. /\ main \notin {"idle", "refresh.hi"} /\ main' \notin {"idle", "refresh.hi"}
        /\ UNCHANGED <<last_refresh, start, reloaded>>
    BY <1>3 DEF ReadFirst, ReadSecond, Compare
  <2> QED
    BY <1>1, <2>1, Counts DEF AlarmInv
<1>4. CASE Refresh
  <2>1. CASE main = "refresh.lo"
    <3>1. main' = "refresh.hi" /\ last_refresh' = [last_refresh EXCEPT !.lo = t1.lo]
          /\ reloaded' = Value(t1) /\ UNCHANGED <<t1, t2, start>>
      BY <1>4, <2>1 DEF Refresh
    <3>2. t1 \in Words /\ last_refresh \in Words /\ start <= Value(t1) /\ Value(t1) <= ticks
      BY <2>1 DEF ClockInv, TypeOK, ReaderInv, CallersTimeIsRight
    <3>3. Value(t1) \in Nat
      BY <3>2, BoundTypes, SMT DEF Value, Words
    <3>4. ASSUME ticks < Base
          PROVE  t1.hi = 0 /\ last_refresh' = [lo |-> reloaded', hi |-> 0] /\ reloaded <= reloaded'
      <4>1. Value(t1) < Base
        BY <3>2, <3>3, <3>4, Counts
      <4>2. t1.hi = 0 /\ t1.lo = Value(t1)
        BY <3>2, <4>1, ValueBeforeWrap
      <4>3. t1.lo \in 0 .. Base - 1
        BY <3>2 DEF Words
      <4>4. last_refresh' = [lo |-> t1.lo, hi |-> last_refresh.hi]
        BY <3>1, <3>2, <4>3, WordStored
      <4>5. last_refresh.hi = 0 /\ reloaded <= start
        BY <2>1, <3>4 DEF AlarmInv
      <4>6. last_refresh' = [lo |-> reloaded', hi |-> 0]
        BY <3>1, <4>2, <4>4, <4>5
      <4>7. reloaded <= reloaded'
        BY <3>1, <3>2, <3>3, <4>5, Counts
      <4> QED
        BY <4>2, <4>6, <4>7
    <3> QED
      BY <1>1, <3>1, <3>3, <3>4, Counts DEF AlarmInv
  <2>2. CASE main = "refresh.hi"
    <3>1. main' = "idle" /\ last_refresh' = [last_refresh EXCEPT !.hi = t1.hi]
          /\ UNCHANGED <<t1, t2, start, reloaded>>
      BY <1>4, <2>2 DEF Refresh
    <3>2. ASSUME ticks < Base
          PROVE  last_refresh' = last_refresh
      <4>1. last_refresh = [lo |-> reloaded, hi |-> 0] /\ t1.hi = 0
        BY <2>2, <3>2 DEF AlarmInv
      <4> QED
        BY <3>1, <4>1
    <3> QED
      BY <1>1, <3>1, <3>2, Counts DEF AlarmInv
  <2> QED
    BY <1>4, <2>1, <2>2 DEF Refresh
<1> QED
  BY <1>2, <1>3, <1>4

LEMMA AlarmCheck ==
  ASSUME ClockInv, AlarmInv, TIM3
  PROVE  AlarmInv'
<1> DEFINE now == Value(time)
<1> DEFINE refreshed == Value(last_refresh)
<1>1. /\ UNCHANGED <<systick, main, t1, armed, ticks, start, reloaded>>
      /\ ~fired /\ ticks - checked = Period /\ checked' = ticks
  BY DEF TIM3
<1>2. /\ last_refresh' = IF now < refreshed THEN time ELSE last_refresh
      /\ fired' = (~(now < refreshed) /\ now - refreshed > Timeout)
  BY DEF TIM3, Late
<1>3. ASSUME ticks < Base
      PROVE  /\ last_refresh' = last_refresh
             /\ ~fired' => ticks - reloaded <= Timeout + 1
             /\ fired' => ticks - reloaded > Timeout
  <2>1. refreshed = reloaded
    BY <1>3, Counts DEF AlarmInv, Value
  <2>2. now \in {ticks - 1, ticks} /\ now \in Nat /\ now >= reloaded
    BY <1>3, TimeBeforeWrap, Counts DEF AlarmInv
  <2>3. ~(now < refreshed)
    BY <2>1, <2>2, Counts
  <2>4. fired' <=> now - reloaded > Timeout
    <3> HIDE DEF now, refreshed
    <3> QED
      BY <1>2, <2>1, <2>3
  <2> HIDE DEF now, refreshed
  <2> QED
    BY <1>2, <2>2, <2>3, <2>4, Counts
<1> QED
  BY <1>1, <1>3, Counts DEF AlarmInv

\* TIM3 starts with its first interrupt due.
LEMMA AlarmSwitch ==
  ASSUME ClockInv, AlarmInv, SW_Watchdog_Init \/ SW_Watchdog_End
  PROVE  AlarmInv'
<1>1. UNCHANGED <<systick, main, t1, last_refresh, fired, ticks, start, reloaded>> /\ ~fired
  BY DEF SW_Watchdog_Init, SW_Watchdog_End
<1>2. \/ armed' = ticks /\ checked' = ticks - Period
      \/ armed' = Off
  BY DEF SW_Watchdog_Init, SW_Watchdog_End
<1>3. armed' # Off => ticks' - checked' = Period /\ ticks' = armed' /\ checked' < armed'
  BY <1>1, <1>2, Counts
<1> QED
  BY <1>1, <1>3, Counts DEF AlarmInv

LEMMA AlarmStep == ClockInv /\ AlarmInv /\ [Next]_vars => AlarmInv'
<1>1. ASSUME ClockInv, AlarmInv, UNCHANGED vars
      PROVE  AlarmInv'
  BY <1>1 DEF vars, AlarmInv
<1> QED
  BY <1>1, AlarmTick, AlarmReload, AlarmSwitch, AlarmCheck DEF Next

LEMMA AlarmInit == Init => AlarmInv
  BY WatchdogAssumption DEF Init, AlarmInv, Zero, Off

LEMMA AlarmInvariance == Spec => []AlarmInv
  BY ClockInvariance, AlarmInit, AlarmStep, PTL DEF Spec

\* AlarmInv says when the alarm may still wait.
LEMMA StillInTime ==
  ASSUME ClockInv, AlarmInv, armed # Off, ~fired, ticks < Base
  PROVE  ticks = armed \/ ticks - reloaded <= Timeout + Period + 1
  BY Counts DEF AlarmInv

\* The types of SystemTime's variables, history included.
THEOREM TimeTypes == Spec => []TypeOK
  BY ClockInvariance, PTL DEF ClockInv

\* System_Time's two readings in a row: what it returns to the image's code is a
\* time at which the clock stood during the call.
THEOREM TimeIsRight == Spec => []CallersTimeIsRight
  BY ClockInvariance, PTL DEF ClockInv, ReaderInv

\* SysTick is between its two stores, of a tick at which the low word wraps around.
Torn == systick # "idle" /\ Split(ticks).hi # Split(ticks - 1).hi
RightUnlessTorn == Torn \/ Value(time) \in {ticks - 1, ticks}

\* System_Time in TIM3's interrupt has two equal readings whatever the clock says
\* (InterruptsTimeIsRight doesn't hold); it misreads the time by more than a tick only
\* when it falls into the tick of such a wrap, at which SysTick stores two words
\* that both change: once in Base ticks.
THEOREM TornAtWrapsOnly == Spec => []RightUnlessTorn
<1>1. ClockInv => RightUnlessTorn
  <2> SUFFICES ASSUME ClockInv, ~Torn PROVE Value(time) \in {ticks - 1, ticks}
    BY DEF RightUnlessTorn
  <2>1. Value(Split(ticks)) = ticks
    BY SplitValue DEF ClockInv, TypeOK
  <2>2. CASE systick = "idle"
    BY <2>1, <2>2 DEF ClockInv, Clock
  <2>3. CASE systick # "idle"
    <3>1. ticks - 1 \in 0 .. MaxTime
      BY <2>3, BoundTypes DEF ClockInv, TypeOK
    <3>2. Value(Split(ticks - 1)) = ticks - 1
      BY <3>1, SplitValue
    <3>3. Split(ticks).hi = Split(ticks - 1).hi
      BY <2>3 DEF Torn
    <3>4. time.hi = Split(ticks).hi /\ time.lo \in {Split(ticks).lo, Split(ticks - 1).lo}
      BY <2>3, <3>3 DEF ClockInv, Clock
    <3> QED
      BY <2>1, <3>2, <3>3, <3>4 DEF Value
  <2> QED
    BY <2>2, <2>3
<1> QED
  BY <1>1, ClockInvariance, PTL

\* HAL_TIM_PeriodElapsedCallback: an alarm before the low word wraps around means
\* a start or a reload that is late, whatever TIM3 interrupts.
THEOREM NoFalseAlarm == Spec => []AlarmMeansLate
  BY AlarmInvariance, PTL DEF AlarmInv, AlarmMeansLate

\* And while the SW watchdog is on, it comes within one period of the timeout, or at
\* once if SW_Watchdog_Init itself is late.
THEOREM AlarmComes == Spec => []AlarmInTime
<1>1. ClockInv /\ AlarmInv => AlarmInTime
  BY StillInTime DEF AlarmInTime
<1> QED
  BY <1>1, ClockInvariance, AlarmInvariance, PTL

-----------------------------------------------------------------------------
(* The two watchdogs *)

\* Each step of an image is one of the clock and the SW watchdog, or none of theirs.
LEMMA ClocksBelow == WSpec => Spec
<1>1. WInit => Init
  BY DEF WInit
<1>2. [WNext]_<<vars, wvars>> => [Next]_vars
  BY DEF WNext, Next, Tick, Check, HWWatchdogFires, StartWatchdog, EndWatchdog,
         Reload, WatchdogReload, HWWatchdogReload, Test, StartTest, Delay, TestLoop, vars, wvars
<1> QED
  BY <1>1, <1>2, PTL DEF WSpec, Spec

\* How far the last reloads of the two watchdogs are apart, and how long a test has
\* been at it.
Apart ==
  doing \in {"start", "image", "Test_Watchdog_SW"} =>
    /\ main = "idle"
    /\ ticks < Base => reloaded - hw <= HWTimeout - Timeout - Period - 2

Loops ==
  /\ until # None => seconds > 0 /\ doing \in Tests
  /\ doing = "Test_Watchdog_SW" =>
       /\ seconds < HWTimeout - 1 => ticks > armed
       /\ until # None => until > armed
       /\ ticks - reloaded >= HWTimeout - 1 - seconds
       /\ until # None => until - reloaded >= HWTimeout - seconds
  /\ doing = "Test_Watchdog_HW" =>
       /\ ticks - hw >= HWTimeout + 1 - seconds
       /\ until # None => until - hw >= HWTimeout + 2 - seconds

\* Where the SW watchdog is off.
Unarmed == doing \in {"start", "end"} => armed = Off

WTypes ==
  /\ hw \in Int /\ hw <= ticks /\ ticks - hw <= HWTimeout /\ hw_fired \in BOOLEAN
  /\ doing \in {"start", "image", "Watchdog_Reload", "end"} \cup Tests
  /\ seconds \in 0 .. HWTimeout + 1 /\ until \in {None} \cup 0 .. MaxTime + Second

\* Some age fits, or no image would start.
Room == Timeout + Period + 2 <= HWTimeout

WInv == WTypes /\ Room /\ Unarmed /\ Apart /\ HardwareIsLast /\ Loops

LEMMA WCounts ==
  /\ HWTimeout \in Nat /\ HWTimeout > 0 /\ HWTimeout > 2 * Timeout
  /\ Second \in Nat /\ Second > 0 /\ None = -1 /\ MaxTime \in Nat
  BY TimeoutsAssumption, WatchdogAssumption, BoundTypes DEF None

LEMMA WInvInit == WInit => WInv
<1> SUFFICES ASSUME WInit PROVE WInv
  OBVIOUS
<1>1. PICK a \in Ages : hw = 0 - a
  BY DEF WInit
<1>2. a \in Nat /\ a <= HWTimeout - Timeout - Period - 2
  BY TimeoutsAssumption, WatchdogAssumption
<1>3. /\ ticks = 0 /\ reloaded = 0 /\ main = "idle" /\ doing = "start" /\ armed = Off
      /\ seconds = 0 /\ until = None /\ hw_fired = FALSE
  BY DEF WInit, Init
<1>4. hw_fired \in BOOLEAN
  BY <1>3, Zenon
<1>5. WTypes
  BY <1>1, <1>2, <1>3, <1>4, WCounts, WatchdogAssumption DEF WTypes
<1> QED
  BY <1>1, <1>2, <1>3, <1>5, WCounts, WatchdogAssumption
  DEF WInv, Room, Unarmed, Apart, HardwareIsLast, Loops, Tests

\* The image's code moves on while the clock and the SW watchdog stay.
LEMMA ImageStep ==
  ASSUME ClockInv, WInv, HWWatchdogReload \/ Test \/ Delay, ~hw_fired
  PROVE  WInv'
<1>1. UNCHANGED vars /\ UNCHANGED hw_fired /\ UNCHANGED <<ticks, reloaded, main, armed>>
  BY DEF HWWatchdogReload, Test, StartTest, Delay, vars
<1>2. HardwareIsLast'
  BY <1>1 DEF HardwareIsLast
<1>3. CASE HWWatchdogReload
  <2>1. hw' = ticks /\ doing' = "image" /\ UNCHANGED <<seconds, until>>
        /\ doing = "Watchdog_Reload" /\ main = "idle"
    BY <1>3 DEF HWWatchdogReload, Runs
  <2>2. Timeout + Period + 2 <= HWTimeout
    BY DEF WInv, Room
  <2>3. WTypes'
    BY <1>1, <2>1, Counts, WCounts DEF WInv, WTypes
  <2> QED
    BY <1>1, <1>2, <2>1, <2>2, <2>3, Counts, WCounts DEF WInv, Unarmed, Apart, Loops, Tests, Room
<1>4. CASE Test
  <2>1. /\ doing = "image" /\ UNCHANGED <<hw, until>>
        /\ \/ doing' = "Test_Watchdog_SW" /\ seconds' = HWTimeout - 1
           \/ doing' = "Test_Watchdog_HW" /\ seconds' = HWTimeout + 1
    BY <1>4 DEF Test, StartTest, Runs
  <2>2. WTypes'
    BY <1>1, <2>1, Counts, WCounts DEF WInv, WTypes, Tests
  <2>3. until = None
    BY <2>1 DEF WInv, Loops, Tests
  <2> QED
    BY <1>1, <1>2, <2>1, <2>2, <2>3, Counts, WCounts DEF WInv, WTypes, Unarmed, Apart, Loops, Tests, Room
<1>5. CASE Delay
  <2>1. /\ doing \in Tests /\ seconds > 0 /\ until' = ticks + Second
        /\ UNCHANGED <<hw, doing, seconds>>
    BY <1>5 DEF Delay, Runs
  <2>2. ticks + Second \in 0 .. MaxTime + Second
    BY Counts, WCounts DEF ClockInv, TypeOK
  <2>3. WTypes'
    BY <1>1, <2>1, <2>2 DEF WInv, WTypes
  <2> QED
    BY <1>1, <1>2, <2>1, <2>3, Counts, WCounts DEF WInv, WTypes, Unarmed, Apart, Loops, Tests, Room
<1> QED
  BY <1>3, <1>4, <1>5

\* A test's loop comes around.
LEMMA LoopStep ==
  ASSUME ClockInv, WInv, TestLoop
  PROVE  WInv' /\ seconds' = seconds - 1
<1>1. /\ until # None /\ ticks >= until /\ until' = None /\ seconds' = seconds - 1
      /\ UNCHANGED <<hw_fired, doing>> /\ doing \in Tests /\ ~hw_fired
  BY DEF TestLoop, DelayOver, Runs, Tests
<1>2. UNCHANGED <<ticks, reloaded, armed>>
  BY DEF TestLoop, Call, MainStep, vars
<1>3. seconds > 0
  BY <1>1 DEF WInv, Loops
<1>4. until \in Nat
  BY <1>1, WCounts DEF WInv, WTypes
<1>5. HardwareIsLast'
  BY <1>1 DEF HardwareIsLast
<1>6. CASE doing = "Test_Watchdog_SW"
  <2>1. hw' = ticks /\ UNCHANGED vars
    BY <1>6 DEF TestLoop, DelayOver, Runs
  <2>2. main' = main
    BY <2>1 DEF vars
  <2>3. WTypes'
    BY <1>1, <1>2, <1>3, <2>1, Counts, WCounts DEF WInv, WTypes
  <2> QED
    BY <1>1, <1>2, <1>3, <1>4, <1>5, <1>6, <2>1, <2>2, <2>3, Counts, WCounts
    DEF WInv, WTypes, Unarmed, Apart, Loops, Room
<1>7. CASE doing = "Test_Watchdog_HW"
  <2>1. hw' = hw
    BY <1>7 DEF TestLoop, DelayOver, Runs
  <2>2. WTypes'
    BY <1>1, <1>2, <1>3, <2>1, Counts, WCounts DEF WInv, WTypes
  <2> QED
    BY <1>1, <1>2, <1>3, <1>4, <1>5, <1>7, <2>1, <2>2, Counts, WCounts
    DEF WInv, WTypes, Unarmed, Apart, Loops, Room
<1> QED
  BY <1>1, <1>6, <1>7 DEF Tests

\* The clock, TIM3 and the SW watchdog's reload.
LEMMA ClocksStep ==
  ASSUME ClockInv, WInv, Tick \/ Check \/ Reload \/ WatchdogReload
  PROVE  WInv'
<1> USE DEF MainStep
<1>1. UNCHANGED <<hw, hw_fired, seconds, until>> /\ ~hw_fired
  BY DEF Tick, Check, Reload, WatchdogReload, Runs, wvars
<1>2. HardwareIsLast'
  BY <1>1 DEF HardwareIsLast
<1>3. CASE Tick
  <2>1. /\ ticks - hw < HWTimeout /\ ticks' \in {ticks, ticks + 1}
        /\ UNCHANGED <<reloaded, main, doing, armed>>
    BY <1>3 DEF Tick, TickFirst, TickSecond, wvars
  <2>2. WTypes'
    BY <1>1, <2>1, Counts, WCounts DEF WInv, WTypes
  <2> QED
    BY <1>1, <1>2, <2>1, <2>2, Counts, WCounts DEF WInv, WTypes, Unarmed, Apart, Loops, Tests, Room
<1>4. CASE Check
  <2>1. UNCHANGED <<ticks, reloaded, main, doing, armed>>
    BY <1>4 DEF Check, TIM3, wvars
  <2> QED
    BY <1>1, <1>2, <2>1 DEF WInv, WTypes, Unarmed, Apart, Loops, Room
<1>5. CASE Reload
  <2>1. main # "idle" /\ UNCHANGED <<ticks, doing, armed>>
    BY <1>5 DEF Reload, ReadFirst, ReadSecond, Compare, Refresh, wvars
  <2>2. doing \in {"Watchdog_Reload", "end", "Test_Watchdog_HW"}
    BY <2>1 DEF WInv, WTypes, Apart, Tests
  <2> QED
    BY <1>1, <1>2, <2>1, <2>2 DEF WInv, WTypes, Unarmed, Apart, Loops, Room
<1>6. CASE WatchdogReload
  <2>1. doing = "image" /\ doing' = "Watchdog_Reload" /\ UNCHANGED <<ticks, reloaded, armed>>
    BY <1>6 DEF WatchdogReload, Runs, Call
  <2>2. until = None
    BY <2>1 DEF WInv, Loops, Tests
  <2> QED
    BY <1>1, <1>2, <2>1, <2>2 DEF WInv, WTypes, Unarmed, Apart, Loops, Tests, Room
<1> QED
  BY <1>3, <1>4, <1>5, <1>6

\* The SW watchdog is started, and ended.
LEMMA SwitchImageStep ==
  ASSUME ClockInv, WInv, StartWatchdog \/ EndWatchdog
  PROVE  WInv'
<1>1. /\ UNCHANGED <<hw, hw_fired, seconds, until>> /\ ~hw_fired
      /\ UNCHANGED <<ticks, reloaded, main>>
      /\ \/ doing = "start" /\ doing' = "image"
         \/ doing = "image" /\ doing' = "end" /\ armed' = Off
  BY DEF StartWatchdog, EndWatchdog, Runs, SW_Watchdog_Init, SW_Watchdog_End, vars
<1>2. HardwareIsLast'
  BY <1>1 DEF HardwareIsLast
<1>3. until = None
  BY <1>1 DEF WInv, Loops, Tests
<1> QED
  BY <1>1, <1>2, <1>3 DEF WInv, WTypes, Unarmed, Apart, Loops, Tests, Room

\* The HW watchdog fires.
LEMMA LastResort ==
  ASSUME ClockInv, AlarmInv, WInv, HWWatchdogFires
  PROVE  WInv'
<1>1. /\ ~fired /\ ticks - hw >= HWTimeout /\ hw_fired' = TRUE
      /\ UNCHANGED <<ticks, reloaded, main, armed, hw, doing, seconds, until>>
  BY DEF HWWatchdogFires, vars
<1>2. ASSUME ticks < Base, armed # Off, armed < ticks,
             doing \in {"start", "image", "end", "Test_Watchdog_SW"}
      PROVE  FALSE
  <2>1. ticks - reloaded <= Timeout + Period + 1
    BY <1>1, <1>2, StillInTime, Counts
  <2>2. reloaded - hw <= HWTimeout - Timeout - Period - 2
    BY <1>2 DEF WInv, Unarmed, Apart
  <2> QED
    BY <1>1, <2>1, <2>2, Counts, WCounts DEF WInv, WTypes
<1>3. HardwareIsLast'
  BY <1>1, <1>2 DEF WInv, WTypes, HardwareIsLast, Tests
<1>4. hw_fired' \in BOOLEAN
  BY <1>1, Zenon
<1> QED
  BY <1>1, <1>3, <1>4 DEF WInv, WTypes, Unarmed, Apart, Loops, Room

LEMMA WInvStep == ClockInv /\ AlarmInv /\ WInv /\ [WNext]_<<vars, wvars>> => WInv'
<1>1. ASSUME WInv, UNCHANGED <<vars, wvars>>
      PROVE  WInv'
  BY <1>1 DEF vars, wvars, WInv, WTypes, Unarmed, Apart, HardwareIsLast, Loops, Room
<1>2. HWWatchdogReload \/ Test \/ Delay => ~hw_fired
  BY DEF HWWatchdogReload, Test, StartTest, Delay, Runs
<1> QED
  BY <1>1, <1>2, ImageStep, LoopStep, ClocksStep, SwitchImageStep, LastResort DEF WNext

LEMMA WInvariance == WSpec => []WInv
<1>1. WSpec => []ClockInv /\ []AlarmInv
  BY ClocksBelow, ClockInvariance, AlarmInvariance, PTL
<1> QED
  BY <1>1, WInvInit, WInvStep, PTL DEF WSpec

\* The types of the watchdogs' variables; the HW watchdog never waits.
THEOREM WatchdogTypes == WSpec => []WTypeOK
<1>1. ClockInv /\ WInv => WTypeOK
  BY DEF ClockInv, WInv, WTypes, WTypeOK
<1> QED
  BY <1>1, ClocksBelow, ClockInvariance, WInvariance, PTL

\* IWDG and SW_Watchdog together: while the SW watchdog is on, wherever the image
\* hangs, it comes first, but between Watchdog_Reload's two reloads and in the test that keeps
\* reloading the SW one.
THEOREM SoftwareComesFirst == WSpec => []HardwareIsLast
  BY WInvariance, PTL DEF WInv

-----------------------------------------------------------------------------
(* L1's tests of the watchdogs *)

TestInv ==
  /\ doing = "Test_Watchdog_HW" => seconds > 0
  /\ doing = "Test_Watchdog_SW" /\ armed # Off /\ ticks < Base => seconds > 0

LEMMA TestInvHolds ==
  ASSUME HWTimeout > Timeout + Period + 2
  PROVE  ClockInv /\ AlarmInv /\ WInv /\ WInv' /\ TestInv /\ [WNext]_<<vars, wvars>> => TestInv'
<1> SUFFICES ASSUME ClockInv, AlarmInv, WInv, WInv', TestInv, [WNext]_<<vars, wvars>>
             PROVE  TestInv'
  OBVIOUS
<1>1. ticks' >= ticks /\ ticks' \in Nat
  BY Counts DEF WNext, Tick, Check, HWWatchdogFires, StartWatchdog, EndWatchdog,
                SW_Watchdog_Init, SW_Watchdog_End, Reload, WatchdogReload,
                HWWatchdogReload, Test, StartTest, Delay, TestLoop, vars, wvars,
                TickFirst, TickSecond, TIM3, Call, ReadFirst, ReadSecond, Compare,
                Refresh, MainStep
<1>2. CASE TestLoop
  <2>1. seconds' = seconds - 1 /\ seconds \in Int /\ seconds' \in Nat /\ doing' = doing
        /\ ~fired /\ UNCHANGED <<ticks, reloaded, armed, fired>>
    BY <1>2, LoopStep, WCounts DEF TestLoop, DelayOver, Runs, Call, MainStep, vars, WInv, WTypes
  <2>2. doing = "Test_Watchdog_HW" => seconds' > 0
    <3>1. hw' \in Int /\ ticks - hw' <= HWTimeout
      BY <2>1 DEF WInv, WTypes
    <3>2. doing = "Test_Watchdog_HW" => ticks - hw' >= HWTimeout + 1 - seconds'
      BY <2>1 DEF WInv, Loops
    <3> QED
      BY <2>1, <3>1, <3>2, Counts, WCounts
  <2>3. doing = "Test_Watchdog_SW" /\ armed # Off /\ ticks < Base => seconds' > 0
    <3>1. armed # Off /\ ticks < Base => ticks = armed \/ ticks - reloaded <= Timeout + Period + 1
      BY <2>1, StillInTime
    <3>2. doing = "Test_Watchdog_SW" /\ seconds' < HWTimeout - 1 => ticks > armed
      BY <2>1 DEF WInv, Loops
    <3>3. doing = "Test_Watchdog_SW" => ticks - reloaded >= HWTimeout - 1 - seconds'
      BY <2>1 DEF WInv, Loops
    <3> QED
      BY <2>1, <3>1, <3>2, <3>3, Counts, WCounts
  <2> QED
    BY <2>1, <2>2, <2>3 DEF TestInv
<1>3. CASE Test
  <2>1. seconds' \in {HWTimeout - 1, HWTimeout + 1}
    BY <1>3 DEF Test, StartTest
  <2>2. HWTimeout > 1
    BY WCounts, WatchdogAssumption
  <2> QED
    BY <2>1, <2>2, WCounts DEF TestInv
<1>4. CASE HWWatchdogReload \/ WatchdogReload \/ StartWatchdog \/ EndWatchdog
  <2>1. doing' \notin Tests
    BY <1>4 DEF HWWatchdogReload, WatchdogReload, StartWatchdog, EndWatchdog, Tests
  <2> QED
    BY <2>1 DEF TestInv, Tests
<1>5. ASSUME UNCHANGED <<doing, seconds, armed>>
      PROVE  TestInv'
  BY <1>1, <1>5, Counts DEF TestInv
<1> QED
  BY <1>2, <1>3, <1>4, <1>5
  DEF WNext, Tick, Check, HWWatchdogFires, Reload, Delay, vars, wvars,
      TickFirst, TickSecond, TIM3, ReadFirst, ReadSecond, Compare, Refresh, MainStep

\* Test_Watchdog_SW and Test_Watchdog_HW: "The board should reboot", provided that
\* the watchdog tested has been started and the HW watchdog leaves the SW one a period of TIM3.
THEOREM TestsDoReboot ==
  ASSUME HWTimeout > Timeout + Period + 2
  PROVE  WSpec => []TestsReboot
<1>1. WInit => TestInv
  BY DEF WInit, TestInv
<1>2. WSpec => []ClockInv /\ []AlarmInv
  BY ClocksBelow, ClockInvariance, AlarmInvariance, PTL
<1>3. TestInv => TestsReboot
  BY DEF TestInv, TestsReboot, Tests
<1> QED
  BY <1>1, <1>2, <1>3, WInvariance, TestInvHolds, PTL DEF WSpec

=============================================================================
