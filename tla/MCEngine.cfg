CONSTANTS
  s1 = s1
  Session = {s1}
  NoSession = NoSession
  Payload <- DayPayload
  ParserState <- DayPhases
  ParserInit = "WaitingStartOfMessages"
  ParserFinal = {"EndOfMessages"}
  ParserApply <- DayParser
  Rejected = Rejected
  Wire <- MCWire
  FirstSeq = 1
  MaxSeq = 12
  MaxStored = 2
  GapCapacity = 2
  Copies = 2
  StopOnDecodeError = FALSE
  StopOnSequenceGap = FALSE
  CleanBooks <- DayPhases
SPECIFICATION FairEngineSpec
INVARIANT
  SuccessIsComplete
PROPERTIES
  RecoversAndExits
  StopEndsTheProcess
