SPECIFICATION Spec
CONSTANTS
  Messages = 3
  MaxPerPacket = 2
  StartupCount = 1
  EosCount = 2
  MaxPeriodic = 2
INVARIANTS
  LinesAgree
  ControlTruthful
  EndIsHonest
PROPERTY
  Terminates
\* The sender is a program that ends; Terminates says that it stops nowhere else.
CHECK_DEADLOCK FALSE
