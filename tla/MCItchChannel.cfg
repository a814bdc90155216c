SPECIFICATION Spec
CONSTANTS
  Rejected = Rejected
  Locates = {1, 2}
  Tickers = {"AB", "CD"}
  NoTicker = ""
  IndexCapacity = 4
  Refs = {1, 2, 3}
INVARIANTS
  IndexExact
  BooksFollowDirectory
  OrdersAreIdentified
PROPERTY
  OrdersKeepHours
\* The parser is called no more after a message it failed.
CHECK_DEADLOCK FALSE
