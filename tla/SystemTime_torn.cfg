\* TIM3 preempts SysTick at the wrap-around of the low word.
CONSTANTS
  Base = 8
  MaxTime = 12
  Timeout = 3
  Period = 2
  Orders = {"lo", "hi"}
SPECIFICATION Spec
CHECK_DEADLOCK FALSE
INVARIANT InterruptsTimeIsRight
