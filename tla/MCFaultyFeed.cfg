CONSTANTS
  s1 = s1
  s2 = s2
  Session = {s1, s2}
  NoSession = NoSession
  Payload <- DayPayload
  ParserState <- DayPhases
  ParserInit = "WaitingStartOfMessages"
  ParserFinal = {"EndOfMessages"}
  ParserApply <- DayParser
  Rejected = Rejected
  Wire <- MCWire
  FirstSeq = 1
  MaxSeq = 12
  MaxStored = 2
  GapCapacity = 2
SPECIFICATION Spec
INVARIANTS
  TypeOK
  ExactlyOnceInOrder
  HealthTruthful
  EndIsComplete
  NoMissedEnd
PROPERTIES
  BufferedUntilApplied
  NothingTakenBack
  FeedSpec
