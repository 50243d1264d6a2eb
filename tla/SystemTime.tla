----------------------------- MODULE SystemTime -----------------------------
(***************************************************************************)
(* The 64-bit count of milliseconds since boot, time_since_boot, on a      *)
(* 32-bit core (common/arm/system_setup.c), and the SW watchdog that lives *)
(* on it (common/arm/watchdog.c).                                          *)
(*                                                                         *)
(* SysTick increments the count with two stores.  System_Time reads it     *)
(* twice, and again until both readings agree.  The image's code calls it  *)
(* from Watchdog_Reload, and SysTick may preempt that between any two      *)
(* accesses.  TIM3's interrupt, the watchdog's check, calls it too, and    *)
(* preempts both: SysTick has the lowest priority there is, TIM3 has 3.    *)
(* Nothing preempts that check, so it is one step.  It comes only between  *)
(* SW_Watchdog_Init and SW_Watchdog_End.                                   *)
(***************************************************************************)
EXTENDS Integers

CONSTANTS
  Base,       \* values of a word: 2^32 in the device
  MaxTime,    \* bound: ticks of SysTick in a behaviour
  Timeout,    \* TIMEOUT_SW_WATCHDOG_SECONDS, in ticks
  Period,     \* between two interrupts of TIM3, in ticks
  Orders      \* words of the count SysTick_Handler may store first

ASSUME BaseAssumption == Base \in Nat \ {0, 1} /\ MaxTime \in 1 .. (Base * Base - 1)
ASSUME WatchdogAssumption == Timeout \in Nat /\ Period \in Nat \ {0}
ASSUME OrdersAssumption == Orders \subseteq {"lo", "hi"} /\ Orders # {}

VARIABLES
  time,          \* time_since_boot, its two words
  systick,       \* "idle", or the word SysTick_Handler has still to store
  main,          \* where the image's code is in SW_Watchdog_Reload
  t1, t2,        \* System_Time's two readings, in that call
  last_refresh,  \* its two words
  armed,         \* the tick at which SW_Watchdog_Init has started TIM3, or Off
  fired,         \* the SW watchdog has reset the system
  ticks,         \* history: the milliseconds since boot
  checked,       \* TIM3 counts from here to its next interrupt
  start,         \* history: the one at which the call began
  reloaded       \* history: the one the last call has stored

vars == <<time, systick, main, t1, t2, last_refresh, armed, fired,
          ticks, checked, start, reloaded>>

Words == [lo : 0 .. Base - 1, hi : 0 .. Base - 1]
Zero == [lo |-> 0, hi |-> 0]
Value(w) == w.hi * Base + w.lo
Off == -1
Split(v) == [lo |-> v % Base, hi |-> v \div Base]

Init ==
  /\ time = Zero /\ systick = "idle" /\ main = "idle" /\ t1 = Zero /\ t2 = Zero
  /\ last_refresh = Zero /\ armed = Off /\ fired = FALSE
  /\ ticks = 0 /\ checked = 0 /\ start = 0 /\ reloaded = 0

-----------------------------------------------------------------------------
(* SysTick_Handler: time_since_boot++ *)

\* The first store.  Time passes, and TIM3 is as precise as SysTick.
TickFirst ==
  /\ systick = "idle" /\ ~fired /\ ticks < MaxTime
  /\ armed # Off => ticks - checked < Period
  /\ ticks' = ticks + 1
  /\ \E w \in Orders :
       /\ time' = [time EXCEPT ![w] = Split(ticks')[w]]
       /\ systick' = IF w = "lo" THEN "hi" ELSE "lo"
  /\ UNCHANGED <<main, t1, t2, last_refresh, armed, fired, checked, start, reloaded>>

TickSecond ==
  /\ systick # "idle" /\ ~fired /\ systick' = "idle"
  /\ time' = [time EXCEPT ![systick] = Split(ticks)[systick]]
  /\ UNCHANGED <<main, t1, t2, last_refresh, armed, fired, ticks, checked, start, reloaded>>

-----------------------------------------------------------------------------
(* SW_Watchdog_Reload, in the image's code: last_refresh = System_Time() *)

MainStep(from, to) ==
  /\ systick = "idle" /\ ~fired
  /\ main = from /\ main' = to
  /\ UNCHANGED <<time, systick, armed, fired, ticks, checked>>

Call ==
  /\ MainStep("idle", "t1.lo")
  /\ start' = ticks
  /\ UNCHANGED <<t1, t2, last_refresh, reloaded>>

ReadFirst ==
  /\ \/ MainStep("t1.lo", "t1.hi") /\ t1' = [t1 EXCEPT !.lo = time.lo]
     \/ MainStep("t1.hi", "t2.lo") /\ t1' = [t1 EXCEPT !.hi = time.hi]
  /\ UNCHANGED <<t2, last_refresh, start, reloaded>>

ReadSecond ==
  /\ \/ MainStep("t2.lo", "t2.hi") /\ t2' = [t2 EXCEPT !.lo = time.lo]
     \/ MainStep("t2.hi", "compare") /\ t2' = [t2 EXCEPT !.hi = time.hi]
  /\ UNCHANGED <<t1, last_refresh, start, reloaded>>

\* Mutant: the first reading will do.
FirstWillDo ==
  /\ MainStep("compare", "refresh.lo")
  /\ UNCHANGED <<t1, t2, last_refresh, start, reloaded>>

Compare ==
  /\ MainStep("compare", IF t1 = t2 THEN "refresh.lo" ELSE "t1.lo")
  /\ UNCHANGED <<t1, t2, last_refresh, start, reloaded>>

\* Mutant: a word is stored with the carry that belongs to the other one.
RefreshOff ==
  /\ MainStep("refresh.lo", "idle")
  /\ last_refresh' = [last_refresh EXCEPT !.lo = t1.lo + t1.hi * Base]
  /\ reloaded' = Value(t1)
  /\ UNCHANGED <<t1, t2, start>>

Refresh ==
  /\ \/ /\ MainStep("refresh.lo", "refresh.hi")
        /\ last_refresh' = [last_refresh EXCEPT !.lo = t1.lo]
        /\ reloaded' = Value(t1)
     \/ /\ MainStep("refresh.hi", "idle")
        /\ last_refresh' = [last_refresh EXCEPT !.hi = t1.hi]
        /\ UNCHANGED reloaded
  /\ UNCHANGED <<t1, t2, start>>

-----------------------------------------------------------------------------
(* SW_Watchdog_Init and SW_Watchdog_End, which every image calls once *)

\* The timer starts with its update event pending, as HAL_TIM_Base_Init has
\* generated one: the first check comes at once.
SW_Watchdog_Init ==
  /\ systick = "idle" /\ main = "idle" /\ ~fired /\ armed = Off
  /\ armed' = ticks /\ checked' = ticks - Period
  /\ UNCHANGED <<time, systick, main, t1, t2, last_refresh, fired, ticks, start, reloaded>>

SW_Watchdog_End ==
  /\ systick = "idle" /\ main = "idle" /\ ~fired
  /\ armed' = Off
  /\ UNCHANGED <<time, systick, main, t1, t2, last_refresh, fired, ticks, checked, start, reloaded>>

-----------------------------------------------------------------------------
(* HAL_TIM_PeriodElapsedCallback, in TIM3's interrupt *)

\* Mutant: a reload this old isn't late yet.
NeverLate(delta) == delta > Timeout + Period + 2

\* Mutant: the comparison is off by one.
LateOneEarly(delta) == delta >= Timeout

Late(delta) == delta > Timeout

TIM3 ==
  /\ armed # Off /\ ~fired /\ ticks - checked = Period /\ checked' = ticks
  /\ LET now == Value(time)
         weird == now < Value(last_refresh)
     IN /\ last_refresh' = IF weird THEN time ELSE last_refresh
        /\ fired' = (~weird /\ Late(now - Value(last_refresh)))
  /\ UNCHANGED <<time, systick, main, t1, t2, armed, ticks, start, reloaded>>

Next ==
  \/ TickFirst \/ TickSecond
  \/ Call \/ ReadFirst \/ ReadSecond \/ Compare \/ Refresh
  \/ SW_Watchdog_Init \/ SW_Watchdog_End \/ TIM3

Spec == Init /\ [][Next]_vars

-----------------------------------------------------------------------------
(* Properties *)

TypeOK ==
  /\ {time, t1, t2, last_refresh} \subseteq Words
  /\ systick \in {"idle", "lo", "hi"} /\ fired \in BOOLEAN
  /\ main \in {"idle", "t1.lo", "t1.hi", "t2.lo", "t2.hi", "compare",
               "refresh.lo", "refresh.hi"}
  /\ ticks \in 0 .. MaxTime /\ armed \in {Off} \cup 0 .. ticks
  /\ checked \in Int /\ checked <= ticks
  /\ start \in 0 .. ticks /\ reloaded \in 0 .. ticks

\* What System_Time returns to the image's code is a time at which the clock
\* stood during the call, however often SysTick comes in between the words.
CallersTimeIsRight ==
  main = "refresh.lo" => start <= Value(t1) /\ Value(t1) <= ticks

\* Until the low word wraps around, the SW watchdog resets the system only if the
\* image has neither started nor reloaded it for longer than its timeout, however
\* TIM3 falls into a reload or a tick.
AlarmMeansLate == fired /\ ticks < Base => ticks - reloaded > Timeout

\* And while it is on it does so at the latest one period after the timeout, or at
\* once if the image has taken longer than that to start it.
AlarmInTime ==
  armed # Off /\ ~fired /\ ticks < Base =>
    ticks = armed \/ ticks - reloaded <= Timeout + Period + 1

\* System_Time, called by TIM3's interrupt: "Make sure that we get two valid
\* readings in a row."
InterruptsTimeIsRight ==
  armed # Off /\ ticks - checked = Period => Value(time) \in {ticks - 1, ticks}

=============================================================================
