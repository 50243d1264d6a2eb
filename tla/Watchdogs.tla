------------------------------ MODULE Watchdogs ------------------------------
(***************************************************************************)
(* The SW and the HW watchdog of a running image together, Watchdog_Reload *)
(* (common/watchdog.h), and the two tests in L1's menu that let one or the *)
(* other expire (L1_Image/arm/menu.c).  SystemTime has the clock and the   *)
(* SW watchdog; here the image that starts, reloads and ends it is doing   *)
(* something.                                                              *)
(***************************************************************************)
EXTENDS SystemTime

CONSTANTS
  HWTimeout,  \* TIMEOUT_HW_WATCHDOG_SECONDS, in ticks
  Second,     \* in ticks
  Ages        \* bound: ticks since the HW watchdog's last reload, as the image starts

\* timeouts.h, and its static_assert; and no image starts with a watchdog about
\* to expire.
ASSUME TimeoutsAssumption ==
  /\ Second \in Nat \ {0} /\ HWTimeout \in Nat /\ HWTimeout > 2 * Timeout
  /\ Ages \subseteq 0 .. (HWTimeout - Timeout - Period - 2)

VARIABLES
  hw,       \* the tick of the HW watchdog's last reload
  hw_fired, \* it has reset the system
  doing,    \* what the image's code is in: "start" until SW_Watchdog_Init, then
            \* "image", a reload or a test, "end" after SW_Watchdog_End
  seconds,  \* the variable timeout of a test
  until     \* the end of the test's HAL_Delay, or None

wvars == <<hw, hw_fired, doing, seconds, until>>

None == -1
Tests == {"Test_Watchdog_SW", "Test_Watchdog_HW"}

WInit ==
  /\ Init
  /\ hw \in {0 - a : a \in Ages} /\ hw_fired = FALSE
  /\ doing = "start" /\ seconds = 0 /\ until = None

-----------------------------------------------------------------------------
(* Time and interrupts *)

\* The HW watchdog counts on by itself, and waits for nobody.
Tick ==
  /\ ticks - hw < HWTimeout /\ ~hw_fired
  /\ TickFirst \/ TickSecond
  /\ UNCHANGED wvars

Check == ~hw_fired /\ TIM3 /\ UNCHANGED wvars

HWWatchdogFires ==
  /\ ~fired /\ ~hw_fired /\ ticks - hw >= HWTimeout
  /\ hw_fired' = TRUE
  /\ UNCHANGED <<vars, hw, doing, seconds, until>>

-----------------------------------------------------------------------------
(* The image's code.  It may stay anywhere for any time: it may hang. *)

Runs(what) == systick = "idle" /\ ~fired /\ ~hw_fired /\ doing = what

\* main() logs a failure to start the SW watchdog, and goes on.
StartWatchdog ==
  /\ Runs("start") /\ doing' = "image"
  /\ SW_Watchdog_Init \/ UNCHANGED vars
  /\ UNCHANGED <<hw, hw_fired, seconds, until>>

\* What follows is the launch of the next image, or a loop for the HW watchdog.
EndWatchdog ==
  /\ Runs("image") /\ doing' = "end"
  /\ SW_Watchdog_End
  /\ UNCHANGED <<hw, hw_fired, seconds, until>>

\* SW_Watchdog_Reload, step by step.
Reload ==
  /\ ~hw_fired
  /\ ReadFirst \/ ReadSecond \/ Compare \/ Refresh
  /\ UNCHANGED wvars

\* Watchdog_Reload begins with the SW watchdog's.
WatchdogReload ==
  /\ Runs("image") /\ Call /\ doing' = "Watchdog_Reload"
  /\ UNCHANGED <<hw, hw_fired, seconds, until>>

\* Mutant: the HW watchdog isn't reloaded.
NoHWWatchdogReload ==
  /\ Runs("Watchdog_Reload") /\ main = "idle"
  /\ doing' = "image"
  /\ UNCHANGED <<vars, hw, hw_fired, seconds, until>>

HWWatchdogReload ==
  /\ Runs("Watchdog_Reload") /\ main = "idle"
  /\ hw' = ticks /\ doing' = "image"
  /\ UNCHANGED <<vars, hw_fired, seconds, until>>

StartTest(test, loops) ==
  /\ Runs("image") /\ doing' = test /\ seconds' = loops
  /\ UNCHANGED <<vars, hw, hw_fired, until>>

\* Mutant: the test doesn't wait for longer than the SW watchdog.
ShortTest ==
  \/ StartTest("Test_Watchdog_SW", Timeout)
  \/ StartTest("Test_Watchdog_HW", HWTimeout + 1)

Test ==
  \/ StartTest("Test_Watchdog_SW", HWTimeout - 1)
  \/ StartTest("Test_Watchdog_HW", HWTimeout + 1)

\* HAL_Delay(1000), at least.
Delay ==
  /\ \E test \in Tests : Runs(test)
  /\ main = "idle" /\ until = None /\ seconds > 0
  /\ until' = ticks + Second
  /\ UNCHANGED <<vars, hw, hw_fired, doing, seconds>>

\* After it, each of the tests reloads one of the watchdogs.
DelayOver(test) ==
  /\ Runs(test) /\ until # None /\ ticks >= until
  /\ until' = None /\ seconds' = seconds - 1
  /\ UNCHANGED <<hw_fired, doing>>

TestLoop ==
  \/ DelayOver("Test_Watchdog_SW") /\ hw' = ticks /\ UNCHANGED vars
  \/ DelayOver("Test_Watchdog_HW") /\ Call /\ UNCHANGED hw

WNext ==
  \/ Tick \/ Check \/ HWWatchdogFires
  \/ StartWatchdog \/ EndWatchdog
  \/ Reload \/ WatchdogReload \/ HWWatchdogReload
  \/ Test \/ Delay \/ TestLoop

WSpec == WInit /\ [][WNext]_<<vars, wvars>>

-----------------------------------------------------------------------------
(* Properties *)

WTypeOK ==
  /\ TypeOK
  /\ hw \in Int /\ hw <= ticks /\ ticks - hw <= HWTimeout /\ hw_fired \in BOOLEAN
  /\ doing \in {"start", "image", "Watchdog_Reload", "end"} \cup Tests
  /\ seconds \in 0 .. HWTimeout + 1 /\ until \in {None} \cup 0 .. MaxTime + Second

\* The HW watchdog is the last resort while the SW one is on, interrupts are served
\* and the low word hasn't wrapped around: wherever the image hangs but between its
\* two reloads, the SW watchdog comes first; only the test that reloads that one alone
\* sees the other ("The SW watchdog timeout should be much shorter than the HW
\* watchdog").  Before SW_Watchdog_Init, after SW_Watchdog_End, through the launch
\* of the next image and in the loops at the end of main() there is the HW one alone.
HardwareIsLast ==
  hw_fired /\ ticks < Base /\ armed # Off /\ armed < ticks =>
    doing \in {"Test_Watchdog_HW", "Watchdog_Reload"}

\* Neither test outlasts the watchdog it is for, if that has been started: "The
\* board should reboot".
TestsReboot ==
  /\ doing = "Test_Watchdog_SW" /\ armed # Off /\ ticks < Base => seconds > 0
  /\ doing = "Test_Watchdog_HW" => seconds > 0

=============================================================================
