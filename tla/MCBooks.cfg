SPECIFICATION Spec
CONSTANTS
  b1 = b1
  b2 = b2
  Locates = {b1, b2}
  r1 = r1
  r2 = r2
  r3 = r3
  Refs = {r1, r2, r3}
  DirectRefs = {r1, r2, r3}
  BucketCount = 1
  Ways = 1
  Orders = {}
  NoOrder = NoOrder
  Parts = 3
  PageCapacity = 2
  MaxCount = 2
  MaxQty = 2
  MaxTotal = 4
  TopLevelCount = 2
  Quantities = {1, 2}
  MaxPrice = 3
SYMMETRY Interchangeable
INVARIANT
  BooksExact
PROPERTY
  ImplementsLimitOrders
