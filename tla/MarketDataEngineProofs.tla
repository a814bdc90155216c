----------------------- MODULE MarketDataEngineProofs -----------------------
(***************************************************************************)
(* The decoder, for every wire, every parser, every capacity and every first *)
(* sequence number, and the engine process around it, for any number of    *)
(* lines and any configuration: the engine drives the decoder as its       *)
(* specification allows, and a successful exit is backed by packets that   *)
(* some line delivered.                                                    *)
(***************************************************************************)
EXTENDS MarketDataEngine, TLAPS

\* The SMT solver may take up to two minutes on a step.
USE SMTT(120)

-----------------------------------------------------------------------------
\* The decoder.

\* Where the parser stands in the stream, at each point of a call.
PositionInv ==
  /\ pc # "idle" => terminal = "Ok"
  /\ pc = "idle" /\ ~Failed => nextSeq = FirstSeq + Len(applied)
  /\ pc = "drain" => nextSeq = FirstSeq + Len(applied)
  /\ pc = "apply" => /\ at = FirstSeq + Len(applied)
                     /\ nextSeq <= at
                     /\ cur.first <= at
                     /\ at <= PacketEnd(cur)

\* Every accepted message is one a packet carries under its number.
AppliedInv ==
  \A i \in 1 .. Len(applied) :
    \E p \in Data : /\ Covers(p, FirstSeq + i - 1)
                    /\ applied[i] = MessageAt(p, FirstSeq + i - 1)

\* The health of the channel, during calls too.
HealthInv ==
  /\ status = "Invalid" <=> Failed
  /\ HealthTruthful

\* What a pending end marker says about the watermark and the health.
PendingInv ==
  /\ pendingEnd # 0 => pendingEnd \in EndMarks
  /\ terminal = "Ok" /\ pendingEnd # 0
       => \/ watermark = pendingEnd
          \/ watermark = 0 /\ nextSeq >= pendingEnd
          \/ status = "Stale"
  /\ pc = "idle" /\ terminal = "Ok" /\ pendingEnd # 0 => status # "Good"

IndInv ==
  /\ TypeOK
  /\ PositionInv
  /\ AppliedInv
  /\ HealthInv
  /\ PendingInv
  /\ EndIsComplete
-----------------------------------------------------------------------------
\* What WireAssumption says about a packet with messages.
LEMMA DataFacts ==
  ASSUME NEW p \in Data
  PROVE  /\ p \in Wire
         /\ p # NoPacket
         /\ p.first \in Nat
         /\ p.msgs \in Seq(Payload)
         /\ Len(p.msgs) \in Nat
         /\ PacketEnd(p) \in Nat
         /\ \A s \in Nat : Covers(p, s) => MessageAt(p, s) \in Payload
<1>1. p \in Wire /\ p \in Packet /\ p.kind = "data"
  BY WireAssumption DEF Data
<1>2. p.first \in Nat /\ p.msgs \in Seq(Payload)
  BY <1>1, BoundAssumption DEF Packet
<1>3. Len(p.msgs) \in Nat
  BY <1>2
<1>4. PacketEnd(p) \in Nat
  BY <1>2, <1>3 DEF PacketEnd
<1>5. ASSUME NEW s \in Nat, Covers(p, s)
      PROVE  MessageAt(p, s) \in Payload
  <2>1. s - p.first + 1 \in 1 .. Len(p.msgs)
    BY <1>2, <1>3, <1>5 DEF Covers, PacketEnd
  <2> QED
    BY <1>2, <2>1 DEF MessageAt
<1>6. p # NoPacket
  BY <1>1 DEF NoPacket
<1> QED
  BY <1>1, <1>2, <1>3, <1>4, <1>5, <1>6

\* The statuses terminalFailure is called with.
FailureStatus == DecodeStatus \ {"Ok", "EndOfStream", "PacketTooSmall"}

\* A call that ends in terminalFailure before any message is looked at.
LEMMA FailureStep ==
  ASSUME IndInv, pc = "idle", terminal = "Ok",
         NEW s \in FailureStatus, TerminalFailure(s),
         session' \in Session \cup {NoSession},
         UNCHANGED <<nextSeq, watermark, gap, pendingEnd, parserVars, workVars>>
  PROVE  IndInv'
<1> USE DEF parserVars, workVars
<1>1. TypeOK'
  BY DEF IndInv, TypeOK, TerminalFailure, Return, FailureStatus, DecodeStatus, Health
<1>2. Failed'
  BY DEF Failed, TerminalFailure, FailureStatus
<1>3. PositionInv'
  BY <1>2 DEF IndInv, PositionInv
<1>4. AppliedInv'
  BY DEF IndInv, AppliedInv
<1>5. HealthInv'
  BY <1>2 DEF HealthInv, HealthTruthful, TerminalFailure
<1>6. PendingInv'
  BY DEF IndInv, PendingInv, TerminalFailure, FailureStatus
<1>7. EndIsComplete'
  BY DEF EndIsComplete, TerminalFailure, FailureStatus
<1> QED
  BY <1>1, <1>3, <1>4, <1>5, <1>6, <1>7 DEF IndInv

\* A call that ends without touching the parser, the position, the pending
\* end marker or the terminal status.
LEMMA QuietStep ==
  ASSUME IndInv, pc = "idle", terminal = "Ok",
         TypeOK', HealthInv',
         UNCHANGED <<nextSeq, pendingEnd, terminal, parserVars, workVars>>,
         \/ UNCHANGED <<watermark, status>>
         \/ pendingEnd # 0 =>
              /\ status' # "Good"
              /\ \/ watermark' = pendingEnd
                 \/ watermark' = 0 /\ nextSeq >= pendingEnd
                 \/ status' = "Stale"
  PROVE  IndInv'
<1> USE DEF parserVars, workVars
<1>1. PositionInv'
  BY DEF IndInv, PositionInv, Failed
<1>2. AppliedInv'
  BY DEF IndInv, AppliedInv
<1>3. PendingInv'
  BY DEF IndInv, PendingInv
<1>4. EndIsComplete'
  BY DEF EndIsComplete
<1> QED
  BY <1>1, <1>2, <1>3, <1>4 DEF IndInv

\* Every answer to a packet that does not continue the stream, and the start
\* of the call for one that does, preserves the invariant.
LEMMA ReceivePreserves ==
  ASSUME IndInv, NEW p \in Wire, Receive(p)
  PROVE  IndInv'
<1> USE DEF parserVars, workVars, channelVars
<1>1. p \in Packet
  BY WireAssumption
<1>2. /\ p.first \in Nat
      /\ p.session \in Session
      /\ p.msgs \in Seq(Payload)
      /\ Len(p.msgs) \in Nat
  BY <1>1, BoundAssumption DEF Packet
<1>3. HeaderAccepted(p) => /\ pc = "idle"
                           /\ terminal = "Ok"
                           /\ session' \in Session \cup {NoSession}
  BY <1>2 DEF HeaderAccepted, HeaderReadable
<1>4. pc = "idle" /\ terminal = "Ok" =>
        /\ status # "Invalid"
        /\ status = "Good" => gap = {} /\ watermark = 0
        /\ status \in {"GapDetected", "Recovering"}
             => gap # {} \/ watermark > nextSeq
  BY DEF IndInv, HealthInv, HealthTruthful, Failed
<1>5. CASE ReceiveAfterTerminal(p)
  <2> USE <1>5 DEF ReceiveAfterTerminal
  <2>1. TypeOK'
    BY DEF IndInv, TypeOK, Return
  <2>2. PositionInv'
    BY DEF IndInv, PositionInv, Failed
  <2>3. AppliedInv'
    BY DEF IndInv, AppliedInv
  <2>4. HealthInv'
    BY DEF IndInv, HealthInv, HealthTruthful, Failed
  <2>5. PendingInv' /\ EndIsComplete'
    BY DEF IndInv, PendingInv, EndIsComplete, ChannelRecovered
  <2> QED
    BY <2>1, <2>2, <2>3, <2>4, <2>5 DEF IndInv
<1>6. CASE ReceiveShort(p)
  <2>1. TypeOK'
    BY <1>6 DEF ReceiveShort, IndInv, TypeOK, Return, DecodeStatus
  <2>2. HealthInv'
    BY <1>6 DEF ReceiveShort, IndInv, HealthInv, HealthTruthful, Failed
  <2> QED
    BY <1>6, <2>1, <2>2, QuietStep DEF ReceiveShort
<1>7. CASE ReceiveMalformedControl(p)
  <2>1. "InvalidSize" \in FailureStatus
    BY DEF FailureStatus, DecodeStatus
  <2> QED
    BY <1>7, <2>1, FailureStep DEF ReceiveMalformedControl, IndInv, TypeOK
<1>8. CASE ReceiveForeignSession(p)
  <2>1. "InvalidSession" \in FailureStatus
    BY DEF FailureStatus, DecodeStatus
  <2> QED
    BY <1>8, <2>1, FailureStep
       DEF ReceiveForeignSession, HeaderReadable, IndInv, TypeOK
<1>9. CASE EndOfSessionRejected(p)
  <2>1. PICK s \in FailureStatus : TerminalFailure(s)
    BY <1>9 DEF EndOfSessionRejected, FailureStatus, DecodeStatus
  <2> QED
    BY <1>3, <1>9, <2>1, FailureStep DEF EndOfSessionRejected
<1>10. CASE EndOfSessionPending(p)
  <2> USE <1>3, <1>10 DEF EndOfSessionPending
  <2>1. watermark <= p.first
    BY <1>2 DEF EndMisplaced, EndConflicts, IndInv, TypeOK
  <2>2. watermark' = p.first
    BY <1>2, <2>1 DEF IndInv, TypeOK
  <2>3. TypeOK'
    BY <1>2, <2>2 DEF IndInv, TypeOK, Return, Health, DecodeStatus
  <2>4. HealthInv'
    BY <1>2, <2>2 DEF IndInv, HealthInv, HealthTruthful, Failed
  <2>5. PositionInv' /\ AppliedInv'
    BY DEF IndInv, PositionInv, AppliedInv, Failed
  <2>6. PendingInv'
    BY <2>2 DEF PendingInv, EndMarks
  <2>7. EndIsComplete'
    BY DEF EndIsComplete
  <2> QED
    BY <2>3, <2>4, <2>5, <2>6, <2>7 DEF IndInv
<1>11. CASE EndOfSessionAccepted(p)
  <2> USE <1>3, <1>11 DEF EndOfSessionAccepted
  <2>1. ChannelRecovered
    BY DEF EndMisplaced
  <2>2. nextSeq = FirstSeq + Len(applied)
    BY DEF IndInv, PositionInv, Failed
  <2>3. pendingEnd = 0
    BY <2>1 DEF ChannelRecovered, IndInv, PendingInv
  <2>4. TypeOK'
    BY DEF IndInv, TypeOK, Return, DecodeStatus
  <2>5. PositionInv' /\ AppliedInv'
    BY <2>2 DEF IndInv, PositionInv, AppliedInv, Failed
  <2>6. HealthInv'
    BY <2>1 DEF HealthInv, HealthTruthful, Failed, ChannelRecovered
  <2>7. PendingInv'
    BY <2>3 DEF PendingInv
  <2>8. EndIsComplete'
    BY <2>1, <2>2, <2>3 DEF EndIsComplete, ChannelRecovered, EndMarks
  <2> QED
    BY <2>4, <2>5, <2>6, <2>7, <2>8 DEF IndInv
<1>12. CASE HeartbeatRejected(p)
  <2>1. "InvalidSequence" \in FailureStatus
    BY DEF FailureStatus, DecodeStatus
  <2> QED
    BY <1>3, <1>12, <2>1, FailureStep DEF HeartbeatRejected
<1>13. CASE HeartbeatAhead(p)
  <2> USE <1>3, <1>13 DEF HeartbeatAhead
  <2>1. TypeOK'
    BY <1>2 DEF IndInv, TypeOK, Return, Health, DecodeStatus
  <2>2. watermark' > nextSeq
    BY <1>2 DEF IndInv, TypeOK
  <2>3. HealthInv'
    BY <1>4, <2>2 DEF IndInv, HealthInv, HealthTruthful, Failed, Unhealthy
  <2>4. pendingEnd # 0 =>
          /\ status' # "Good"
          /\ watermark' = pendingEnd \/ status' = "Stale"
    BY <1>2, <1>4 DEF IndInv, TypeOK, PendingInv, Unhealthy
  <2> QED
    BY <2>1, <2>3, <2>4, QuietStep
<1>14. CASE HeartbeatCurrent(p)
  <2> USE <1>3, <1>14 DEF HeartbeatCurrent
  <2>1. TypeOK'
    BY DEF IndInv, TypeOK, Return, Health, DecodeStatus
  <2>2. status' = status
    BY <1>4 DEF WatermarkReached, Unhealthy, IndInv, TypeOK, Health
  <2>3. HealthInv'
    BY <1>4, <2>2 DEF IndInv, TypeOK, HealthInv, HealthTruthful, Failed,
                      WatermarkReached
  <2>4. \/ UNCHANGED <<watermark, status>>
        \/ pendingEnd # 0 =>
             /\ status' # "Good"
             /\ \/ watermark' = 0 /\ nextSeq >= pendingEnd
                \/ status' = "Stale"
    BY <2>2 DEF IndInv, TypeOK, PendingInv, WatermarkReached
  <2> QED
    BY <2>1, <2>3, <2>4, QuietStep
<1>15. CASE DataRejected(p)
  <2>1. PICK s \in FailureStatus : TerminalFailure(s)
    BY <1>15 DEF DataRejected, FailureStatus, DecodeStatus
  <2> QED
    BY <1>3, <1>15, <2>1, FailureStep DEF DataRejected
<1>16. CASE DataDuplicate(p)
  <2> USE <1>3, <1>16 DEF DataDuplicate, DataAccepted
  <2>1. TypeOK'
    BY DEF IndInv, TypeOK, Return, DecodeStatus
  <2>2. HealthInv'
    BY DEF IndInv, HealthInv, HealthTruthful, Failed
  <2> QED
    BY <2>1, <2>2, QuietStep, Zenon
<1>17. CASE DataAhead(p)
  <2> USE <1>3, <1>17 DEF DataAhead, DataAccepted
  <2>1. p \in Data
    BY DEF WellFramed, Data
  <2>2. CASE status' = "Invalid"
    <3>1. PICK s \in FailureStatus : TerminalFailure(s)
      BY <1>4, <2>2, Zenon DEF FailureStatus, DecodeStatus
    <3>2. UNCHANGED gap
      BY <1>4, <2>2, Zenon
    <3> QED
      BY <3>1, <3>2, FailureStep
  <2>3. CASE status' # "Invalid"
    <3>1. UNCHANGED terminal
      BY <2>3, Zenon DEF TerminalFailure
    <3>2. \/ status' = "Stale"
          \/ status' = "GapDetected" /\ gap' # {}
      BY <2>3, Zenon DEF TerminalFailure, InsertResult, Buffered
    <3>3. gap' \in {gap, gap \cup {p}}
      BY <2>3, Zenon
    <3>r. result' \in [status : DecodeStatus, hadGap : BOOLEAN]
      <4>1. Return("Ok", TRUE)
        BY <2>3, Zenon DEF TerminalFailure
      <4> QED
        BY <4>1 DEF Return, DecodeStatus
    <3>4. TypeOK'
      BY <2>1, <3>1, <3>2, <3>3, <3>r DEF IndInv, TypeOK, Health
    <3>5. HealthInv'
      BY <3>1, <3>2 DEF HealthInv, HealthTruthful, Failed
    <3>6. status' # "Good" /\ (status = "Stale" => status' = "Stale")
      BY <2>3, <3>2, Zenon
    <3>7. pendingEnd # 0 =>
            /\ status' # "Good"
            /\ \/ watermark' = pendingEnd
               \/ watermark' = 0 /\ nextSeq >= pendingEnd
               \/ status' = "Stale"
      BY <3>6 DEF IndInv, PendingInv
    <3> QED
      BY <3>1, <3>4, <3>5, <3>7, QuietStep
  <2> QED
    BY <2>2, <2>3
<1>18. CASE DataInOrder(p)
  <2> USE <1>3, <1>18 DEF DataInOrder, DataAccepted
  <2>1. p \in Data
    BY Zenon DEF WellFramed, Data
  <2>2. nextSeq = FirstSeq + Len(applied) /\ StartSeq(p) = nextSeq
    BY <1>2 DEF StartSeq, IndInv, TypeOK, PositionInv, Failed
  <2>3. TypeOK'
    BY <1>2, <2>1, <2>2, DataFacts, Zenon DEF IndInv, TypeOK
  <2>4. PositionInv'
    BY <1>2, <2>2 DEF PositionInv, PacketEnd, IndInv, TypeOK
  <2>5. AppliedInv'
    BY DEF IndInv, AppliedInv
  <2>6. HealthInv' /\ PendingInv' /\ EndIsComplete'
    BY DEF IndInv, HealthInv, HealthTruthful, PendingInv, EndIsComplete, Failed
  <2> QED
    BY <2>3, <2>4, <2>5, <2>6 DEF IndInv
<1> QED
  BY <1>5, <1>6, <1>7, <1>8, <1>9, <1>10, <1>11, <1>12, <1>13, <1>14, <1>15,
     <1>16, <1>17, <1>18
     DEF Receive, ReceiveEndOfSession, ReceiveHeartbeat, ReceiveData

\* The parser accepts the next message of the packet in hand.
LEMMA ApplyPreserves ==
  ASSUME IndInv, ApplyMessage
  PROVE  IndInv'
<1> USE DEF ApplyMessage, channelVars
<1>1. cur \in Data
  BY DEF IndInv, TypeOK
<1>2. /\ at \in Nat
      /\ applied \in Seq(Payload)
      /\ at = FirstSeq + Len(applied)
      /\ cur.first <= at
  BY DEF IndInv, TypeOK, PositionInv
<1>3. Covers(cur, at)
  BY <1>2 DEF Covers
<1>4. MessageAt(cur, at) \in Payload
  BY <1>1, <1>2, <1>3, DataFacts
<1>5. parser' \in ParserState
  BY <1>4, ParserAssumption, Zenon DEF ParserVerdict, IndInv, TypeOK
<1>6. /\ applied' \in Seq(Payload)
      /\ Len(applied') = Len(applied) + 1
      /\ \A i \in 1 .. Len(applied) : applied'[i] = applied[i]
      /\ applied'[Len(applied) + 1] = MessageAt(cur, at)
  BY <1>2, <1>4
<1>7. TypeOK'
  BY <1>2, <1>5, <1>6 DEF IndInv, TypeOK
<1>8. PositionInv'
  <2>1. PacketEnd(cur) \in Nat /\ nextSeq \in Nat /\ cur.first \in Nat
    BY <1>1, DataFacts, Zenon DEF IndInv, TypeOK
  <2>2. /\ at' = FirstSeq + Len(applied')
        /\ nextSeq <= at'
        /\ cur.first <= at'
        /\ at' <= PacketEnd(cur)
    BY <1>2, <1>6, <2>1, BoundAssumption DEF IndInv, PositionInv
  <2> QED
    BY <2>2 DEF IndInv, PositionInv, PacketEnd
<1>9. AppliedInv'
  <2> SUFFICES ASSUME NEW i \in 1 .. Len(applied')
               PROVE  \E p \in Data :
                        /\ Covers(p, FirstSeq + i - 1)
                        /\ applied'[i] = MessageAt(p, FirstSeq + i - 1)
    BY DEF AppliedInv
  <2>1. CASE i \in 1 .. Len(applied)
    BY <1>6, <2>1, Zenon DEF IndInv, AppliedInv
  <2>2. CASE i = Len(applied) + 1
    <3>1. FirstSeq + i - 1 = at
      BY <1>2, <2>2, BoundAssumption
    <3> QED
      BY <1>1, <1>3, <1>6, <2>2, <3>1
  <2> QED
    BY <1>2, <1>6, <2>1, <2>2
<1>10. HealthInv' /\ PendingInv'
  BY DEF IndInv, HealthInv, HealthTruthful, PendingInv, Failed
<1>11. EndIsComplete'
  BY DEF IndInv, PositionInv, EndIsComplete
<1> QED
  BY <1>7, <1>8, <1>9, <1>10, <1>11 DEF IndInv

\* The parser refuses a message: the call ends in terminalFailure.
LEMMA RejectPreserves ==
  ASSUME IndInv, RejectMessage
  PROVE  IndInv'
<1> USE DEF RejectMessage, parserVars, TerminalFailure, EndCall
<1>1. TypeOK'
  BY Zenon DEF IndInv, TypeOK, GapAfterPacket, Return, Health, DecodeStatus
<1>2. Failed'
  BY DEF Failed
<1>3. PositionInv' /\ AppliedInv'
  BY <1>2 DEF IndInv, PositionInv, AppliedInv
<1>4. HealthInv'
  BY <1>2 DEF HealthInv, HealthTruthful
<1>5. PendingInv' /\ EndIsComplete'
  BY DEF IndInv, PendingInv, EndIsComplete
<1> QED
  BY <1>1, <1>3, <1>4, <1>5 DEF IndInv

\* The packet in hand is finished and nextSeq moves to its end.
LEMMA FinishPacketPreserves ==
  ASSUME IndInv, FinishPacket
  PROVE  IndInv'
<1> USE DEF FinishPacket, parserVars
<1>1. cur \in Data /\ PacketEnd(cur) \in Nat
  BY DataFacts DEF IndInv, TypeOK
<1>2. /\ nextSeq' = FirstSeq + Len(applied)
      /\ nextSeq' >= nextSeq
      /\ nextSeq \in Nat
      /\ nextSeq' \in Nat
      /\ terminal = "Ok"
  BY <1>1 DEF IndInv, TypeOK, PositionInv
<1>3. /\ status' \in Health
      /\ status' # "Invalid"
      /\ status = "Stale" => status' = "Stale"
  BY <1>2 DEF IndInv, TypeOK, HealthInv, Failed, Health
<1>4. result' \in [status : DecodeStatus, hadGap : BOOLEAN]
  <2>1. CASE fromGap
    BY <2>1 DEF IndInv, TypeOK
  <2>2. CASE ~fromGap
    <3>1. Return("Ok", status' = "Recovering")
      BY <2>2
    <3> QED
      BY <3>1 DEF Return, DecodeStatus
  <2> QED
    BY <2>1, <2>2
<1>5. TypeOK'
  BY <1>2, <1>3, <1>4, Zenon DEF IndInv, TypeOK, GapAfterPacket
<1>6. PositionInv' /\ AppliedInv'
  BY <1>2 DEF IndInv, PositionInv, AppliedInv
<1>7. HealthInv'
  BY <1>2, <1>3, Zenon DEF HealthInv, HealthTruthful, Failed
<1>8. PendingInv'
  BY <1>2, <1>3 DEF IndInv, TypeOK, PendingInv
<1>9. EndIsComplete'
  BY <1>2 DEF EndIsComplete
<1> QED
  BY <1>5, <1>6, <1>7, <1>8, <1>9 DEF IndInv

\* The drain erases a subsumed packet or starts on a buffered one.
LEMMA DrainPreserves ==
  ASSUME IndInv, NEW q \in gap, DrainSubsumed(q) \/ DrainPacket(q)
  PROVE  IndInv'
<1> USE DEF parserVars, workVars, channelVars
<1>1. q \in Data
  BY DEF IndInv, TypeOK
<1>2. q.first \in Nat /\ PacketEnd(q) \in Nat /\ q # NoPacket
  BY <1>1, DataFacts
<1>3. CASE DrainSubsumed(q)
  <2> USE <1>3 DEF DrainSubsumed
  <2>1. TypeOK'
    BY Zenon DEF IndInv, TypeOK
  <2>2. PositionInv' /\ AppliedInv'
    BY DEF IndInv, PositionInv, AppliedInv, Failed
  <2>3. HealthInv' /\ PendingInv'
    BY DEF IndInv, HealthInv, HealthTruthful, PendingInv, Failed
  <2>4. EndIsComplete'
    BY DEF IndInv, PositionInv, EndIsComplete
  <2> QED
    BY <2>1, <2>2, <2>3, <2>4, Zenon DEF IndInv
<1>4. CASE DrainPacket(q)
  <2> USE <1>4 DEF DrainPacket
  <2>1. TypeOK'
    BY <1>1, <1>2 DEF IndInv, TypeOK
  <2>2. PositionInv'
    <3>1. nextSeq \in Nat /\ nextSeq = FirstSeq + Len(applied)
      BY DEF IndInv, TypeOK, PositionInv
    <3>2. q.first <= nextSeq /\ nextSeq <= PacketEnd(q)
      BY <1>2, <3>1 DEF Nearest, InReach, Subsumed
    <3> QED
      BY <3>1, <3>2 DEF IndInv, PositionInv, PacketEnd
  <2>3. AppliedInv'
    BY DEF IndInv, AppliedInv
  <2>4. HealthInv' /\ PendingInv'
    BY Zenon DEF IndInv, HealthInv, HealthTruthful, PendingInv, Failed
  <2>5. EndIsComplete'
    BY DEF IndInv, PositionInv, EndIsComplete
  <2> QED
    BY <2>1, <2>2, <2>3, <2>4, <2>5, Zenon DEF IndInv
<1> QED
  BY <1>3, <1>4

\* The call settles the health and resolves a pending end marker.
LEMMA FinishDrainPreserves ==
  ASSUME IndInv, FinishDrain
  PROVE  IndInv'
<1> USE DEF FinishDrain, EndCall, parserVars
<1>1. /\ terminal = "Ok"
      /\ nextSeq = FirstSeq + Len(applied)
      /\ nextSeq \in Nat /\ watermark \in Nat /\ pendingEnd \in Nat
      /\ status \in Health /\ status # "Invalid"
  BY Zenon DEF IndInv, TypeOK, PositionInv, HealthInv, Failed
<1>2. /\ SettledWatermark \in Nat
      /\ SettledStatus \in Health \ {"Invalid", "GapDetected"}
      /\ SettledStatus = "Good" => gap = {} /\ SettledWatermark = 0
      /\ SettledStatus = "Recovering"
           => gap # {} \/ SettledWatermark > nextSeq
      /\ SettledStatus = "Stale" <=> status = "Stale"
  BY <1>1 DEF SettledWatermark, SettledStatus, Unhealthy, WatermarkReached, Health
<1>3. pendingEnd # 0 =>
        \/ SettledWatermark = pendingEnd
        \/ SettledWatermark = 0 /\ nextSeq >= pendingEnd
        \/ SettledStatus = "Stale"
  BY <1>1, <1>2, Zenon DEF IndInv, PendingInv, SettledWatermark, WatermarkReached
<1>4. pendingEnd # 0 => pendingEnd \in EndMarks
  BY DEF IndInv, PendingInv
<1>5. AppliedInv'
  BY DEF IndInv, AppliedInv
<1>6. CASE /\ \/ pendingEnd = 0
              \/ nextSeq < pendingEnd
              \/ nextSeq = pendingEnd /\ SettledStatus # "Good"
           /\ status' = SettledStatus
           /\ UNCHANGED <<pendingEnd, terminal, result>>
  <2>1. TypeOK'
    BY <1>1, <1>2, <1>6, Zenon DEF IndInv, TypeOK
  <2>2. PositionInv'
    BY <1>1, <1>6, Zenon DEF PositionInv
  <2>3. HealthInv'
    BY <1>1, <1>2, <1>6, Zenon DEF HealthInv, HealthTruthful, Failed
  <2>4. pendingEnd # 0 => SettledStatus # "Good"
    BY <1>1, <1>2, <1>3, <1>6
  <2>5. PendingInv'
    BY <1>1, <1>2, <1>3, <1>4, <1>6, <2>4, Zenon DEF PendingInv
  <2>6. EndIsComplete'
    BY <1>1, <1>6, Zenon DEF EndIsComplete
  <2> QED
    BY <1>5, <2>1, <2>2, <2>3, <2>5, <2>6 DEF IndInv
<1>7. ASSUME NEW s \in FailureStatus, TerminalFailure(s), UNCHANGED pendingEnd
      PROVE  IndInv'
  <2> USE <1>7 DEF TerminalFailure
  <2>1. Failed' /\ terminal' # "Ok" /\ terminal' # "EndOfStream"
    BY DEF Failed, FailureStatus
  <2>2. TypeOK'
    BY <1>1, <1>2, Zenon DEF IndInv, TypeOK, Return, Health, FailureStatus
  <2>3. PositionInv' /\ HealthInv' /\ EndIsComplete'
    BY <2>1, Zenon DEF PositionInv, HealthInv, HealthTruthful, EndIsComplete
  <2>4. PendingInv'
    BY <1>4, <2>1 DEF PendingInv
  <2> QED
    BY <1>5, <2>2, <2>3, <2>4, Zenon DEF IndInv
<1>8. CASE /\ pendingEnd # 0
           /\ nextSeq = pendingEnd
           /\ SettledStatus = "Good"
           /\ parser \in ParserFinal
           /\ status' = SettledStatus
           /\ pendingEnd' = 0
           /\ terminal' = "EndOfStream"
           /\ Return("EndOfStream", result.hadGap)
  <2>1. TypeOK'
    BY <1>1, <1>2, <1>8, Zenon DEF IndInv, TypeOK, Return, DecodeStatus
  <2>2. PositionInv'
    BY <1>1, <1>8, Zenon DEF PositionInv
  <2>3. HealthInv'
    BY <1>2, <1>8 DEF HealthInv, HealthTruthful, Failed
  <2>4. PendingInv'
    BY <1>8, Zenon DEF PendingInv
  <2>5. EndIsComplete'
    BY <1>1, <1>2, <1>4, <1>8 DEF EndIsComplete, ChannelRecovered
  <2> QED
    BY <1>5, <2>1, <2>2, <2>3, <2>4, <2>5 DEF IndInv
<1>9. {"InvalidSequence", "IncompleteSession"} \subseteq FailureStatus
  BY DEF FailureStatus, DecodeStatus
<1> QED
  BY <1>6, <1>7, <1>8, <1>9, Zenon

LEMMA ContinuePreserves ==
  ASSUME IndInv, Continue
  PROVE  IndInv'
BY ApplyPreserves, RejectPreserves, FinishPacketPreserves, DrainPreserves,
   FinishDrainPreserves DEF Continue

LEMMA InitEstablishes == Init => IndInv
<1> SUFFICES ASSUME Init PROVE IndInv
  OBVIOUS
<1> USE DEF Init
<1>1. TypeOK
  <2>1. result \in [status : DecodeStatus, hadGap : BOOLEAN]
    BY DEF DecodeStatus
  <2>2. terminal \in DecodeStatus \ {"PacketTooSmall"} /\ status \in Health
    BY DEF DecodeStatus, Health
  <2>3. pc = "apply" <=> cur # NoPacket
    OBVIOUS
  <2>4. gap \subseteq Data /\ cur \in Data \cup {NoPacket}
    OBVIOUS
  <2>5. applied \in Seq(Payload)
    OBVIOUS
  <2> QED
    BY <2>1, <2>2, <2>3, <2>4, <2>5, ParserAssumption, BoundAssumption, Zenon
       DEF TypeOK
<1>2. PositionInv
  BY BoundAssumption DEF PositionInv
<1>3. AppliedInv
  BY DEF AppliedInv
<1>4. HealthInv
  BY DEF HealthInv, HealthTruthful, Failed
<1>5. PendingInv /\ EndIsComplete
  BY DEF PendingInv, EndIsComplete
<1> QED
  BY <1>1, <1>2, <1>3, <1>4, <1>5 DEF IndInv

LEMMA StutterPreserves ==
  ASSUME IndInv, UNCHANGED vars
  PROVE  IndInv'
<1> USE DEF vars
<1>1. TypeOK' /\ PositionInv' /\ AppliedInv'
  BY Zenon DEF IndInv, TypeOK, PositionInv, AppliedInv, Failed
<1>2. HealthInv' /\ PendingInv' /\ EndIsComplete'
  BY Zenon DEF IndInv, HealthInv, HealthTruthful, PendingInv, EndIsComplete,
         ChannelRecovered, Failed
<1> QED
  BY <1>1, <1>2, Zenon DEF IndInv

\* The inductive invariant holds in every reachable state of the decoder.
THEOREM Invariance == Spec => []IndInv
<1>1. Init => IndInv
  BY InitEstablishes
<1>2. IndInv /\ [Next]_vars => IndInv'
  BY ReceivePreserves, ContinuePreserves, StutterPreserves DEF Next
<1> QED
  BY <1>1, <1>2, PTL DEF Spec

\* The decoder state always has its type (ChannelState, MoldUdpDecoder).
THEOREM TypeCorrect == Spec => []TypeOK
<1>1. IndInv => TypeOK
  BY DEF IndInv
<1> QED
  BY <1>1, Invariance, PTL

\* Whatever the network does, processSequencedPacket and drainGapBuffer give
\* the parser each sequence number once, in order, with a message that a
\* packet carries under that number.
THEOREM OrderedDelivery == Spec => []ExactlyOnceInOrder
<1>1. IndInv => ExactlyOnceInOrder
  <2> SUFFICES ASSUME IndInv PROVE ExactlyOnceInOrder
    OBVIOUS
  <2>1. pc \in {"idle", "apply", "drain"}
    BY DEF IndInv, TypeOK
  <2> QED
    BY <2>1 DEF IndInv, AppliedInv, PositionInv, ExactlyOnceInOrder
<1> QED
  BY <1>1, Invariance, PTL

\* Between calls channel_.status is Good only when nothing is missing,
\* GapDetected or Recovering only when something is, and Invalid exactly
\* after a terminal failure.
THEOREM TruthfulHealth == Spec => []HealthTruthful
<1>1. IndInv => HealthTruthful
  BY DEF IndInv, HealthInv
<1> QED
  BY <1>1, Invariance, PTL

\* processPacket and resolvePendingEndOfStream accept the end of the session
\* only at the advertised number, after End of Messages, fully recovered.
THEOREM CompleteEnd == Spec => []EndIsComplete
<1>1. IndInv => EndIsComplete
  BY DEF IndInv
<1> QED
  BY <1>1, Invariance, PTL

\* The call that brings the stream to a pending end marker decides it, unless
\* packets are still buffered or the channel is stale.
THEOREM EndNotMissed == Spec => []NoMissedEnd
<1>1. IndInv => NoMissedEnd
  <2> SUFFICES ASSUME IndInv, pc = "idle", terminal = "Ok", pendingEnd # 0,
                      nextSeq >= pendingEnd, gap = {}
               PROVE  status = "Stale"
    BY DEF NoMissedEnd
  <2>1. nextSeq \in Nat /\ watermark \in Nat /\ pendingEnd \in Nat
    BY DEF IndInv, TypeOK
  <2>2. status \in Health /\ status # "Good" /\ status # "Invalid"
    BY DEF IndInv, TypeOK, PendingInv, HealthInv, Failed
  <2>3. status \in {"GapDetected", "Recovering"} => watermark > nextSeq
    BY DEF IndInv, HealthInv, HealthTruthful
  <2>4. \/ watermark = pendingEnd
        \/ watermark = 0
        \/ status = "Stale"
    BY DEF IndInv, PendingInv
  <2> QED
    BY <2>1, <2>2, <2>3, <2>4 DEF Health
<1> QED
  BY <1>1, Invariance, PTL
-----------------------------------------------------------------------------
\* Only ApplyMessage appends to the history, and only in an open session; a
\* terminal status is never replaced.
LEMMA StepShape ==
  ASSUME IndInv, [Next]_vars
  PROVE  /\ \/ UNCHANGED applied
            \/ ApplyMessage /\ terminal = "Ok" /\ UNCHANGED terminal
         /\ terminal # "Ok" => UNCHANGED terminal
<1>1. CASE UNCHANGED vars
  BY <1>1 DEF vars
<1>2. ASSUME NEW p \in Wire, Receive(p)
      PROVE  UNCHANGED applied /\ (terminal # "Ok" => UNCHANGED terminal)
  BY <1>2, ZenonT(60) DEF Receive, ReceiveAfterTerminal, ReceiveShort,
       ReceiveMalformedControl, ReceiveForeignSession, ReceiveEndOfSession,
       ReceiveHeartbeat, ReceiveData, EndOfSessionRejected,
       EndOfSessionPending, EndOfSessionAccepted, HeartbeatRejected,
       HeartbeatAhead, HeartbeatCurrent, DataRejected, DataDuplicate,
       DataAhead, DataInOrder, DataAccepted, HeaderAccepted, HeaderReadable,
       parserVars
<1>3. ASSUME Continue
      PROVE  terminal = "Ok"
  BY <1>3, Zenon DEF Continue, ApplyMessage, RejectMessage, FinishPacket,
       DrainSubsumed, DrainPacket, FinishDrain, IndInv, PositionInv
<1>4. ASSUME Continue
      PROVE  UNCHANGED applied \/ (ApplyMessage /\ UNCHANGED terminal)
  BY <1>4, Zenon DEF Continue, ApplyMessage, RejectMessage, FinishPacket,
       DrainSubsumed, DrainPacket, FinishDrain, parserVars
<1> QED
  BY <1>1, <1>2, <1>3, <1>4 DEF Next

\* The decoder implements SessionFeed: ordered, exactly-once delivery of one
\* session, complete at an advertised end or failed for good.
THEOREM ImplementsFeed == Spec => FeedSpec
<1>1. Init => Feed!FeedInit
  BY DEF Init, Feed!FeedInit, Outcome
<1>2. IndInv /\ IndInv' /\ [Next]_vars => [Feed!FeedNext]_(Feed!feedVars)
  <2> SUFFICES ASSUME IndInv, IndInv', [Next]_vars
               PROVE  Feed!FeedNext \/ UNCHANGED <<applied, Outcome>>
    BY DEF Feed!feedVars
  <2>1. CASE ApplyMessage /\ terminal = "Ok" /\ UNCHANGED terminal
    <3>1. /\ cur \in Data
          /\ at \in Nat
          /\ at = FirstSeq + Len(applied)
          /\ cur.first <= at
      BY <2>1, Zenon DEF ApplyMessage, IndInv, TypeOK, PositionInv
    <3>2. Covers(cur, at)
      BY <2>1, <3>1 DEF ApplyMessage, Covers
    <3>3. MessageAt(cur, at) \in Carried[at]
      BY <3>1, <3>2, Zenon DEF Carried
    <3>4. Feed!Deliver
      BY <2>1, <3>1, <3>3, Zenon DEF ApplyMessage, Feed!Deliver, Outcome
    <3> QED
      BY <3>4, Zenon DEF Feed!FeedNext
  <2>2. CASE UNCHANGED <<applied, terminal>>
    BY <2>2 DEF Outcome
  <2>3. CASE UNCHANGED applied /\ terminal = "Ok" /\ terminal' = "EndOfStream"
    <3>1. FirstSeq + Len(applied) \in EndMarks
      BY <2>3 DEF IndInv, EndIsComplete
    <3>2. Feed!Complete
      BY <2>3, <3>1 DEF Feed!Complete, Outcome
    <3> QED
      BY <3>2 DEF Feed!FeedNext
  <2>4. CASE /\ UNCHANGED applied
             /\ terminal = "Ok"
             /\ terminal' \notin {"Ok", "EndOfStream"}
    <3>1. Feed!Fail
      BY <2>4 DEF Feed!Fail, Outcome
    <3> QED
      BY <3>1 DEF Feed!FeedNext
  <2> QED
    BY <2>1, <2>2, <2>3, <2>4, StepShape
<1> QED
  BY <1>1, <1>2, Invariance, PTL DEF Spec, FeedSpec, Feed!FeedSpec
-----------------------------------------------------------------------------
\* No verdict of the decoder is taken back: a terminal status is final, a
\* stale channel stays stale or fails whatever heartbeat, packet or drain
\* comes next, and a pending end marker is given up only by accepting it.
THEOREM VerdictsStand == Spec => NothingTakenBack
<1>1. ASSUME IndInv, [Next]_vars, status = "Stale"
      PROVE  status' \in {"Stale", "Invalid"}
  <2>1. CASE UNCHANGED vars
    BY <1>1, <2>1 DEF vars
  <2>2. ASSUME NEW p \in Wire, Receive(p)
        PROVE  status' \in {"Stale", "Invalid"}
    <3>1. CASE EndOfSessionPending(p)
      BY <1>1, <3>1 DEF EndOfSessionPending, EndMisplaced, EndUnreachable,
                        Unhealthy
    <3>2. CASE ReceiveHeartbeat(p)
      BY <1>1, <3>2, Zenon DEF ReceiveHeartbeat, HeartbeatRejected, HeartbeatAhead,
                        HeartbeatCurrent, Unhealthy, TerminalFailure
    <3>3. CASE ReceiveData(p)
      BY <1>1, <3>3, Zenon DEF ReceiveData, DataRejected, DataDuplicate, DataAhead,
                        DataInOrder, TerminalFailure
    <3> QED
      BY <1>1, <2>2, <3>1, <3>2, <3>3, Zenon
         DEF Receive, ReceiveAfterTerminal, ReceiveShort,
             ReceiveMalformedControl, ReceiveForeignSession,
             ReceiveEndOfSession, EndOfSessionRejected, EndOfSessionAccepted,
             TerminalFailure, channelVars
  <2>3. CASE Continue
    <3>1. CASE FinishDrain
      BY <1>1, <3>1, ZenonT(60) DEF FinishDrain, SettledStatus, Unhealthy, TerminalFailure
    <3> QED
      BY <1>1, <2>3, <3>1, Zenon DEF Continue, ApplyMessage, RejectMessage,
           FinishPacket, DrainSubsumed, DrainPacket, TerminalFailure,
           channelVars
  <2> QED
    BY <1>1, <2>1, <2>2, <2>3 DEF Next
<1>2. ASSUME IndInv, [Next]_vars, terminal # "Ok"
      PROVE  UNCHANGED <<channelVars, terminal, parserVars>>
  <2>1. pc = "idle"
    BY <1>2 DEF IndInv, PositionInv
  <2>2. CASE UNCHANGED vars
    BY <2>2 DEF vars, channelVars, parserVars
  <2>3. ASSUME NEW p \in Wire, Receive(p)
        PROVE  UNCHANGED <<channelVars, terminal, parserVars>>
    <3>1. ~HeaderReadable(p)
      BY <1>2 DEF HeaderReadable
    <3>2. ReceiveAfterTerminal(p)
      BY <1>2, <2>3, <3>1, ZenonT(60)
         DEF Receive, ReceiveShort, ReceiveMalformedControl,
             ReceiveForeignSession, ReceiveEndOfSession, ReceiveHeartbeat,
             ReceiveData, EndOfSessionRejected, EndOfSessionPending,
             EndOfSessionAccepted, HeartbeatRejected, HeartbeatAhead,
             HeartbeatCurrent, DataRejected, DataDuplicate, DataAhead,
             DataInOrder, DataAccepted, HeaderAccepted
    <3> QED
      BY <3>2 DEF ReceiveAfterTerminal
  <2>4. ~Continue
    BY <2>1, Zenon DEF Continue, ApplyMessage, RejectMessage, FinishPacket,
         DrainSubsumed, DrainPacket, FinishDrain
  <2> QED
    BY <1>2, <2>2, <2>3, <2>4 DEF Next
<1>3. ASSUME IndInv, [Next]_vars, pendingEnd # 0
      PROVE  pendingEnd' = pendingEnd \/ terminal' = "EndOfStream"
  <2>1. CASE UNCHANGED vars
    BY <2>1 DEF vars
  <2>2. ASSUME NEW p \in Wire, Receive(p)
        PROVE  pendingEnd' = pendingEnd
    <3>1. CASE EndOfSessionPending(p)
      BY <1>3, <3>1, Zenon DEF EndOfSessionPending, EndMisplaced, EndConflicts
    <3> QED
      BY <2>2, <3>1, Zenon
         DEF Receive, ReceiveAfterTerminal, ReceiveShort,
             ReceiveMalformedControl, ReceiveForeignSession,
             ReceiveEndOfSession, ReceiveHeartbeat, ReceiveData,
             EndOfSessionRejected, EndOfSessionAccepted, HeartbeatRejected,
             HeartbeatAhead, HeartbeatCurrent, DataRejected, DataDuplicate,
             DataAhead, DataInOrder
  <2>3. CASE Continue
    BY <2>3, Zenon DEF Continue, ApplyMessage, RejectMessage, FinishPacket,
         DrainSubsumed, DrainPacket, FinishDrain
  <2> QED
    BY <1>3, <2>1, <2>2, <2>3 DEF Next
<1>4. IndInv /\ [Next]_vars => KeepsVerdicts
  BY <1>1, <1>2, <1>3, Zenon DEF KeepsVerdicts
<1> QED
  BY <1>4, Invariance, PTL DEF Spec, NothingTakenBack

\* A packet leaves the gap buffer only when its messages are all applied or
\* the parser refused one of them.
THEOREM BufferedKept == Spec => BufferedUntilApplied
<1>1. ASSUME IndInv, [Next]_vars, NEW q \in gap
      PROVE  \/ q \in gap'
             \/ PacketEnd(q) <= nextSeq'
             \/ terminal' = "InvalidItchMessage"
  <2>1. CASE UNCHANGED vars
    BY <2>1 DEF vars
  <2>2. ASSUME NEW p \in Wire, Receive(p)
        PROVE  q \in gap'
    BY <2>2, Zenon DEF Receive, ReceiveAfterTerminal, ReceiveShort,
         ReceiveMalformedControl, ReceiveForeignSession, ReceiveEndOfSession,
         ReceiveHeartbeat, ReceiveData, EndOfSessionRejected,
         EndOfSessionPending, EndOfSessionAccepted, HeartbeatRejected,
         HeartbeatAhead, HeartbeatCurrent, DataRejected, DataDuplicate,
         DataAhead, DataInOrder, channelVars
  <2>3. CASE FinishPacket
    <3>1. PacketEnd(cur) \in Nat
      BY <1>1, <2>3, DataFacts, Zenon DEF FinishPacket, IndInv, TypeOK
    <3>2. CASE q = cur
      BY <2>3, <3>1, <3>2 DEF FinishPacket
    <3>3. CASE q # cur
      BY <2>3, <3>3 DEF FinishPacket, GapAfterPacket
    <3> QED
      BY <3>2, <3>3, Zenon
  <2>4. CASE RejectMessage
    BY <2>4 DEF RejectMessage, TerminalFailure
  <2>5. ASSUME NEW r \in gap, DrainSubsumed(r) \/ DrainPacket(r)
        PROVE  q \in gap' \/ PacketEnd(q) <= nextSeq'
    BY <2>5, Zenon DEF DrainSubsumed, DrainPacket, Subsumed, channelVars
  <2>6. CASE ApplyMessage \/ FinishDrain
    BY <2>6, Zenon DEF ApplyMessage, FinishDrain, channelVars
  <2> QED
    BY <1>1, <2>1, <2>2, <2>3, <2>4, <2>5, <2>6 DEF Next, Continue
<1>2. IndInv /\ [Next]_vars => KeepsUnapplied
  BY <1>1, Zenon DEF KeepsUnapplied
<1> QED
  BY <1>2, Invariance, PTL DEF Spec, BufferedUntilApplied

-----------------------------------------------------------------------------
\* The engine.

\* The copies of a packet: on their way, lost, or delivered.
NetInv ==
  /\ inflight \in [Wire -> Nat]
  /\ lost \in [Wire -> Nat]
  /\ \A p \in Wire : inflight[p] + lost[p] <= Copies

\* A delivered end marker named s.
EndSeen(s) == \E p \in Wire : p.kind = "eos" /\ Delivered(p) /\ p.first = s

\* Everything the decoder holds or has used was delivered.
EvidenceInv ==
  /\ \A q \in gap : Delivered(q)
  /\ cur # NoPacket => Delivered(cur)
  /\ \A s \in FirstSeq .. FirstSeq + Len(applied) - 1 :
       \E p \in Data : Covers(p, s) /\ Delivered(p)
  /\ pendingEnd # 0 => EndSeen(pendingEnd)
  /\ terminal = "EndOfStream" => EndSeen(nextSeq)

EngineInv ==
  /\ IndInv
  /\ NetInv
  /\ EvidenceInv
  /\ exitCode = "success" => terminal = "EndOfStream"
-----------------------------------------------------------------------------
\* What the part of a call up to its first message takes from its packet.
LEMMA ReceiveTakes ==
  ASSUME NEW p \in Wire, Receive(p)
  PROVE  /\ gap' \subseteq gap \cup {p}
         /\ cur' = cur \/ cur' = p
         /\ UNCHANGED <<applied, nextSeq>>
         /\ pendingEnd' = pendingEnd \/ (p.kind = "eos" /\ pendingEnd' = p.first)
         /\ terminal' = "EndOfStream" =>
              terminal = "EndOfStream" \/ (p.kind = "eos" /\ p.first = nextSeq)
         /\ terminal = "EndOfStream" => terminal' = "EndOfStream"
<1> USE DEF parserVars, workVars, channelVars, TerminalFailure
<1>1. CASE ReceiveAfterTerminal(p) \/ ReceiveShort(p) \/ ReceiveMalformedControl(p)
           \/ ReceiveForeignSession(p)
  BY <1>1, Zenon DEF ReceiveAfterTerminal, ReceiveShort, ReceiveMalformedControl,
       ReceiveForeignSession, HeaderReadable
<1>2. CASE ReceiveEndOfSession(p)
  BY <1>2, Zenon DEF ReceiveEndOfSession, EndOfSessionRejected, EndOfSessionPending,
       EndOfSessionAccepted, HeaderAccepted, HeaderReadable
<1>3. CASE ReceiveHeartbeat(p)
  BY <1>3, ZenonT(60) DEF ReceiveHeartbeat, HeartbeatRejected, HeartbeatAhead,
       HeartbeatCurrent, HeaderAccepted, HeaderReadable
<1>4. CASE ReceiveData(p)
  BY <1>4, Zenon DEF ReceiveData, DataRejected, DataDuplicate, DataAhead, DataInOrder,
       DataAccepted, HeaderAccepted, HeaderReadable
<1> QED
  BY <1>1, <1>2, <1>3, <1>4, Zenon DEF Receive

\* What the rest of a call uses: packets and markers the decoder already has.
LEMMA ContinueTakes ==
  ASSUME IndInv, Continue
  PROVE  /\ gap' \subseteq gap
         /\ cur' \in gap \cup {cur, NoPacket}
         /\ \/ UNCHANGED applied
            \/ /\ applied' = Append(applied, MessageAt(cur, at))
               /\ cur \in Data
               /\ Covers(cur, FirstSeq + Len(applied))
         /\ pendingEnd' = pendingEnd \/ pendingEnd' = 0
         /\ terminal = "Ok"
         /\ terminal' = "EndOfStream" => pendingEnd # 0 /\ nextSeq' = pendingEnd
<1> USE DEF parserVars, workVars, channelVars, TerminalFailure, EndCall, GapAfterPacket
<1>0. terminal = "Ok"
  BY Zenon DEF Continue, ApplyMessage, RejectMessage, FinishPacket,
       DrainSubsumed, DrainPacket, FinishDrain, IndInv, PositionInv
<1>1. CASE ApplyMessage
  <2>1. cur \in Data /\ at \in Nat /\ at = FirstSeq + Len(applied) /\ cur.first <= at
    BY <1>1, Zenon DEF ApplyMessage, IndInv, TypeOK, PositionInv
  <2>2. Covers(cur, FirstSeq + Len(applied))
    BY <1>1, <2>1, Zenon DEF ApplyMessage, Covers
  <2> QED
    BY <1>0, <1>1, <2>1, <2>2, Zenon DEF ApplyMessage
<1>2. CASE RejectMessage
  BY <1>0, <1>2, Zenon DEF RejectMessage
<1>3. CASE FinishPacket
  BY <1>0, <1>3, Zenon DEF FinishPacket
<1>4. CASE \E q \in gap : DrainSubsumed(q) \/ DrainPacket(q)
  BY <1>0, <1>4, Zenon DEF DrainSubsumed, DrainPacket
<1>5. CASE FinishDrain
  BY <1>0, <1>5, ZenonT(60) DEF FinishDrain
<1> QED
  BY <1>1, <1>2, <1>3, <1>4, <1>5, Zenon DEF Continue

\* A packet that was delivered stays delivered.
LEMMA DeliveredStays ==
  ASSUME NetInv, NEW p \in Wire,
         \A q \in Wire : inflight'[q] + lost'[q] <= inflight[q] + lost[q],
         NetInv', Delivered(p)
  PROVE  Delivered(p)'
BY EngineAssumption DEF NetInv, Delivered

\* A step that takes away no evidence and adds only delivered packets.
LEMMA EvidenceStays ==
  ASSUME EngineInv, NetInv', IndInv',
         \A q \in Wire : inflight'[q] + lost'[q] <= inflight[q] + lost[q],
         \A q \in gap' : q \in gap \/ Delivered(q)',
         cur' # NoPacket => cur' \in gap \cup {cur} \/ Delivered(cur)',
         \/ UNCHANGED applied
         \/ /\ \E m : applied' = Append(applied, m)
            /\ \E p \in Data : Covers(p, FirstSeq + Len(applied)) /\ Delivered(p)',
         pendingEnd' \in {0, pendingEnd} \/ EndSeen(pendingEnd)',
         \/ terminal' # "EndOfStream"
         \/ terminal = "EndOfStream" /\ UNCHANGED nextSeq
         \/ pendingEnd # 0 /\ nextSeq' = pendingEnd
         \/ EndSeen(nextSeq)'
  PROVE  EvidenceInv'
<1>1. \A p \in Wire : Delivered(p) => Delivered(p)'
  BY DeliveredStays, Zenon DEF EngineInv
<1>2. gap \subseteq Data /\ cur \in Data \cup {NoPacket} /\ Data \subseteq Wire
  BY ZenonT(60) DEF EngineInv, IndInv, TypeOK, Data
<1>3. \A q \in gap' : Delivered(q)'
  BY <1>1, <1>2, ZenonT(60) DEF EngineInv, EvidenceInv
<1>4. cur' # NoPacket => Delivered(cur)'
  BY <1>1, <1>2, Zenon DEF EngineInv, EvidenceInv
<1>5. \A s \in Nat : EndSeen(s) => EndSeen(s)'
  BY <1>1, Zenon DEF EndSeen
<1>6. pendingEnd \in Nat /\ nextSeq \in Nat
  BY ZenonT(60) DEF EngineInv, IndInv, TypeOK
<1>7. pendingEnd' # 0 => EndSeen(pendingEnd)'
  BY <1>5, <1>6, ZenonT(60) DEF EngineInv, EvidenceInv, EndSeen
<1>8. terminal' = "EndOfStream" => EndSeen(nextSeq)'
  BY <1>5, <1>6, ZenonT(60) DEF EngineInv, EvidenceInv, EndSeen
<1>9. ASSUME NEW s \in FirstSeq .. FirstSeq + Len(applied') - 1
      PROVE  \E p \in Data : Covers(p, s) /\ Delivered(p)'
  <2>1. applied \in Seq(Payload) /\ Len(applied) \in Nat /\ FirstSeq \in Nat
    <3>1. applied \in Seq(Payload)
      BY Zenon DEF EngineInv, IndInv, TypeOK
    <3> QED
      BY <3>1, BoundAssumption
  <2>2. CASE s \in FirstSeq .. FirstSeq + Len(applied) - 1
    BY <1>1, <1>2, <2>2, Zenon DEF EngineInv, EvidenceInv
  <2>3. CASE s \notin FirstSeq .. FirstSeq + Len(applied) - 1
    <3>1. PICK m : applied' = Append(applied, m)
      BY <1>9, <2>3, Zenon
    <3>2. Len(applied') = Len(applied) + 1
      BY <2>1, <3>1
    <3>3. s = FirstSeq + Len(applied)
      BY <1>9, <2>1, <2>3, <3>2
    <3> QED
      BY <1>9, <2>3, <3>3, Zenon
  <2> QED
    BY <2>2, <2>3, Zenon
<1> QED
  BY <1>3, <1>4, <1>7, <1>8, <1>9, Zenon DEF EvidenceInv
-----------------------------------------------------------------------------
\* The network loses a copy: what was delivered stays so.
LEMMA LosePreserves ==
  ASSUME EngineInv, NEW p \in Wire, Lose(p)
  PROVE  EngineInv'
<1> USE DEF Lose, engineVars
<1>1. IndInv'
  BY StutterPreserves, Zenon DEF EngineInv
<1>2. /\ NetInv'
      /\ \A q \in Wire : inflight'[q] + lost'[q] <= inflight[q] + lost[q]
  BY EngineAssumption DEF EngineInv, NetInv
<1>3. EvidenceInv'
  BY <1>1, <1>2, EvidenceStays, Zenon DEF vars
<1> QED
  BY <1>1, <1>2, <1>3, Zenon DEF EngineInv, vars

\* A packet is read: it counts as delivered from here on.
LEMMA PollPreserves ==
  ASSUME EngineInv, NEW p \in Wire, Poll(p)
  PROVE  EngineInv'
<1> USE DEF Poll
<1>1. IndInv'
  BY ReceivePreserves, Zenon DEF EngineInv
<1>2. /\ NetInv'
      /\ \A q \in Wire : inflight'[q] + lost'[q] <= inflight[q] + lost[q]
      /\ Delivered(p)'
  BY EngineAssumption DEF EngineInv, NetInv, Delivered
<1>3. EvidenceInv'
  <2>1. \A q \in gap' : q \in gap \/ Delivered(q)'
    BY <1>2, ReceiveTakes, ZenonT(60)
  <2>2. cur' # NoPacket => cur' \in gap \cup {cur} \/ Delivered(cur)'
    BY <1>2, ReceiveTakes, Zenon DEF Delivered
  <2>3. pendingEnd' \in {0, pendingEnd} \/ EndSeen(pendingEnd)'
    BY <1>2, ReceiveTakes, Zenon DEF EndSeen
  <2>4. \/ terminal' # "EndOfStream"
        \/ terminal = "EndOfStream" /\ UNCHANGED nextSeq
        \/ EndSeen(nextSeq)'
    BY <1>2, ReceiveTakes, Zenon DEF EndSeen
  <2>5. UNCHANGED applied
    BY ReceiveTakes, Zenon
  <2> QED
    BY <1>1, <1>2, <2>1, <2>2, <2>3, <2>4, <2>5, EvidenceStays, ZenonT(60)
<1>4. exitCode' = "success" => terminal' = "EndOfStream"
  BY ReceiveTakes, Zenon DEF EngineInv
<1> QED
  BY <1>1, <1>2, <1>3, <1>4, Zenon DEF EngineInv

\* A step of the running call uses only what the decoder has.
LEMMA DecodePreserves ==
  ASSUME EngineInv, Decode
  PROVE  EngineInv'
<1> USE DEF Decode, netVars, engineVars
<1>1. IndInv'
  BY ContinuePreserves, Zenon DEF EngineInv
<1>2. /\ NetInv'
      /\ \A q \in Wire : inflight'[q] + lost'[q] <= inflight[q] + lost[q]
      /\ \A q \in Wire : Delivered(q)' <=> Delivered(q)
  BY DEF EngineInv, NetInv, Delivered
<1>3. EvidenceInv'
  <2>1. IndInv /\ EvidenceInv
    BY Zenon DEF EngineInv
  <2>2. \/ UNCHANGED applied
        \/ /\ \E m : applied' = Append(applied, m)
           /\ \E p \in Data : Covers(p, FirstSeq + Len(applied)) /\ Delivered(p)'
    <3>1. CASE UNCHANGED applied
      BY <3>1
    <3>2. CASE /\ applied' = Append(applied, MessageAt(cur, at))
               /\ cur \in Data
               /\ Covers(cur, FirstSeq + Len(applied))
      <4>1. cur # NoPacket /\ cur \in Wire
        BY <3>2, DataFacts
      <4>2. Delivered(cur)
        BY <2>1, <4>1, Zenon DEF EvidenceInv
      <4>3. \E p \in Data : Covers(p, FirstSeq + Len(applied)) /\ Delivered(p)'
        BY <1>2, <3>2, <4>1, <4>2, Zenon
      <4> QED
        BY <3>2, <4>3
    <3> QED
      BY <2>1, <3>1, <3>2, ContinueTakes, Zenon
  <2>3. \A q \in gap' : q \in gap
    BY <2>1, ContinueTakes, Zenon
  <2>4. cur' # NoPacket => cur' \in gap \cup {cur}
    BY <2>1, ContinueTakes
  <2>5. pendingEnd' \in {0, pendingEnd}
    BY <2>1, ContinueTakes, Zenon
  <2>6. terminal' = "EndOfStream" => pendingEnd # 0 /\ nextSeq' = pendingEnd
    BY <2>1, ContinueTakes
  <2> QED
    BY <1>1, <1>2, <2>2, <2>3, <2>4, <2>5, <2>6, EvidenceStays, Zenon
<1>4. exitCode' = "success" => terminal' = "EndOfStream"
  BY ContinueTakes, Zenon DEF EngineInv
<1> QED
  BY <1>1, <1>2, <1>3, <1>4, Zenon DEF EngineInv

\* A step of the loop outside processPacket.
LEMMA LoopPreserves ==
  ASSUME EngineInv, UNCHANGED <<vars, netVars>>,
         exitCode' \in {exitCode, "failure"} \/ terminal = "EndOfStream"
  PROVE  EngineInv'
<1> USE DEF netVars
<1>1. IndInv'
  BY StutterPreserves DEF EngineInv
<1>2. /\ NetInv'
      /\ \A q \in Wire : inflight'[q] + lost'[q] <= inflight[q] + lost[q]
  BY DEF EngineInv, NetInv
<1>3. EvidenceInv'
  BY <1>1, <1>2, EvidenceStays, Zenon DEF vars
<1> QED
  BY <1>1, <1>2, <1>3, Zenon DEF EngineInv, vars

LEMMA EngineInitEstablishes == EngineInit => EngineInv
<1> SUFFICES ASSUME EngineInit PROVE EngineInv
  OBVIOUS
<1> USE DEF EngineInit
<1>1. IndInv
  BY InitEstablishes
<1>2. NetInv
  BY EngineAssumption DEF NetInv
<1>3. EvidenceInv
  BY BoundAssumption DEF EvidenceInv, Init
<1> QED
  BY <1>1, <1>2, <1>3 DEF EngineInv

THEOREM EngineInvariance == EngineSpec => []EngineInv
<1>1. EngineInit => EngineInv
  BY EngineInitEstablishes
<1>2. EngineInv /\ [EngineNext]_allVars => EngineInv'
  <2> SUFFICES ASSUME EngineInv, [EngineNext]_allVars PROVE EngineInv'
    OBVIOUS
  <2>1. CASE \E p \in Wire : Lose(p) \/ Poll(p)
    BY <2>1, LosePreserves, PollPreserves
  <2>2. CASE Decode
    BY <2>2, DecodePreserves
  <2>3. CASE HandleResult \/ Signal \/ IdlePoll \/ UNCHANGED allVars
    <3>1. UNCHANGED <<vars, netVars>> /\ exitCode' = exitCode
      BY <2>3, Zenon DEF HandleResult, Signal, IdlePoll, allVars, netVars
    <3> QED
      BY <3>1, LoopPreserves, Zenon
  <2>4. CASE Exit
    <3>1. UNCHANGED <<vars, netVars>>
      BY <2>4 DEF Exit
    <3>2. exitCode' = "failure" \/ terminal = "EndOfStream"
      BY <2>4 DEF Exit, HealthySession
    <3> QED
      BY <3>1, <3>2, LoopPreserves
  <2> QED
    BY <2>1, <2>2, <2>3, <2>4 DEF EngineNext
<1> QED
  BY <1>1, <1>2, PTL DEF EngineSpec

\* run() calls the decoder only as the decoder's specification allows: the
\* theorems about MoldUdpDecoder hold in the engine, signals and losses
\* included.
THEOREM EngineDrivesDecoder == EngineSpec => Spec
<1>1. EngineInit => Init
  BY Zenon DEF EngineInit
<1>2. [EngineNext]_allVars => [Next]_vars
  BY Zenon DEF EngineNext, allVars, Lose, Poll, Decode, HandleResult, Signal, Exit, IdlePoll, Next
<1> QED
  BY <1>1, <1>2, PTL DEF EngineSpec, Spec

\* main returns EXIT_SUCCESS only for a session that ends where a delivered
\* end marker said and whose every message was in a delivered packet, for any
\* number of lines and whatever they lose, repeat or reorder.
THEOREM SuccessMeansComplete == EngineSpec => []SuccessIsComplete
<1>1. EngineInv => SuccessIsComplete
  <2> SUFFICES ASSUME EngineInv, exitCode = "success"
               PROVE  /\ EndSeen(FirstSeq + Len(applied))
                      /\ \A s \in FirstSeq .. FirstSeq + Len(applied) - 1 :
                           \E p \in Data : Covers(p, s) /\ Delivered(p)
    BY DEF SuccessIsComplete, EndSeen
  <2>1. terminal = "EndOfStream"
    BY DEF EngineInv
  <2>2. nextSeq = FirstSeq + Len(applied)
    BY <2>1 DEF EngineInv, IndInv, EndIsComplete
  <2> QED
    BY <2>1, <2>2 DEF EngineInv, EvidenceInv
<1> QED
  BY <1>1, EngineInvariance, PTL
=============================================================================
