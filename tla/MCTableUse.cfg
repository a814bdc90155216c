SPECIFICATION UseSpec
CONSTANTS
  d1 = d1
  f1 = f1
  f2 = f2
  f3 = f3
  Refs = {d1, f1, f2, f3}
  DirectRefs = {d1}
  BucketCount = 4
  Ways = 1
  Orders = {o1}
  NoOrder = NoOrder
  MaxHeld = 2
SYMMETRY Interchangeable
INVARIANTS
  FindsTheLiving
  DayUnique
CHECK_DEADLOCK FALSE
