\* The timeouts of the device in seconds, a few ticks past the wrap-around of the
\* low word.
CONSTANTS
  Base = 16
  MaxTime = 20
  Timeout = 3
  Period = 2
  Orders = {"lo", "hi"}
  HWTimeout = 8
  Second = 1
  Ages = {0, 1}
SPECIFICATION WSpec
CHECK_DEADLOCK FALSE
INVARIANT WTypeOK
INVARIANT CallersTimeIsRight
INVARIANT AlarmMeansLate
INVARIANT AlarmInTime
INVARIANT HardwareIsLast
INVARIANT TestsReboot
