SPECIFICATION PacingSpec
CONSTANTS
  Second = 7
  MaxTime = 24
  MaxLate = 2
  EosCopies = 3
  Configs <- MCConfigs
INVARIANTS
  OnSchedule
PROPERTIES
  NeverSilent
  StrictRate
  ControlsApart
\* The sender stops after the last copy and when a deadline is out of range.
CHECK_DEADLOCK FALSE
