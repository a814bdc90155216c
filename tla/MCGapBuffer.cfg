SPECIFICATION Spec
CONSTANTS
  n1 = n1
  n2 = n2
  n3 = n3
  n4 = n4
  n5 = n5
  Empty = Empty
  Oversize = Oversize
  Capacity = 4
  Packets <- MCPackets
SYMMETRY Interchangeable
PROPERTY
  StoreSpec
