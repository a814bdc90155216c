--------------------------- MODULE MoldUdpDecoder ---------------------------
(***************************************************************************)
(* The MoldUDP64 decoder of one channel: MoldUdpDecoder::processPacket,    *)
(* the channel state it owns, the gap buffer it recovers from, and the     *)
(* pending end-of-session marker.                                          *)
(*                                                                         *)
(* One call of processPacket is one Receive step, followed, for a packet   *)
(* that continues the stream, by the steps of the same call: one           *)
(* ApplyMessage per ITCH message, FinishPacket, the drain of the gap       *)
(* buffer and FinishDrain.  pc says where the call stands; no packet is    *)
(* received before it is "idle" again, as processPacket is synchronous.    *)
(*                                                                         *)
(* The environment may deliver any packet of Wire, in any order and any    *)
(* number of times: what a redundant, lossy, reordering and duplicating    *)
(* network can do is a subset of that.                                     *)
(*                                                                         *)
(* The ITCH parser is a deterministic automaton given by constants; the    *)
(* theorems hold for every such automaton.                                 *)
(***************************************************************************)
EXTENDS Integers, Sequences, FiniteSets

CONSTANTS
  Payload,       \* ITCH messages
  ParserState,   \* states of the parser and of the books behind it
  ParserInit,    \* its state before the first message
  ParserFinal,   \* the states whose channel phase is EndOfMessages
  ParserApply,   \* the state after a message, or Rejected
  Rejected,
  Session,       \* session identifiers in packet headers
  NoSession,     \* no packet has bound the session yet
  Wire,          \* the packets the network may deliver
  FirstSeq,      \* initial_expected_sequence
  MaxSeq,        \* the largest 64-bit sequence number
  MaxStored,     \* kMaxMessagesPerStoredPacket
  GapCapacity    \* GapBuffer::kCapacity

\* A packet as the decoder sees it.  shape is the outcome of the size and
\* framing checks: "badSize" and "badItch" fail them, "oversize" passes them
\* but is larger than a gap-buffer slot.
Packet == [kind    : {"data", "heartbeat", "eos", "short"},
           session : Session,
           first   : 0 .. MaxSeq,
           msgs    : Seq(Payload),
           shape   : {"ok", "oversize", "badSize", "badItch"}]

\* One past the last sequence number of a packet.
PacketEnd(p) == p.first + Len(p.msgs)

Covers(p, s) == p.first <= s /\ s < PacketEnd(p)

MessageAt(p, s) == p.msgs[s - p.first + 1]

ASSUME ParserAssumption ==
  /\ ParserInit \in ParserState
  /\ ParserFinal \subseteq ParserState
  /\ ParserApply \in [ParserState \X Payload -> ParserState \cup {Rejected}]
  /\ Rejected \notin ParserState

ASSUME BoundAssumption ==
  /\ FirstSeq \in Nat
  /\ MaxSeq \in Nat
  /\ MaxStored \in Nat \ {0}
  /\ GapCapacity \in Nat \ {0}
  /\ NoSession \notin Session

\* A data packet carries at least one message (a count of zero is a
\* heartbeat), and one that fits a gap-buffer slot at most MaxStored.
ASSUME WireAssumption ==
  /\ Wire \subseteq Packet
  /\ \A p \in Wire :
       p.kind = "data" =>
         /\ Len(p.msgs) > 0
         /\ p.shape # "oversize" => Len(p.msgs) <= MaxStored

Data == {p \in Wire : p.kind = "data" /\ p.shape \in {"ok", "oversize"}}

VARIABLES
  nextSeq,     \* channel_.next_expected_seq
  status,      \* channel_.status
  watermark,   \* channel_.heartbeat_next_seq_high_watermark
  gap,         \* channel_.gap_buffer, the set of packets it holds
  session,     \* channel_.session, NoSession until first_packet_seen_
  pendingEnd,  \* pending_end_sequence_
  terminal,    \* terminal_status_
  parser,      \* parser_ and, through its phase, channel_.phase
  pc,          \* where the running call of processPacket stands
  cur,         \* the packet processSequencedPacket works on
  fromGap,     \* whether that packet was found in the gap buffer
  at,          \* the sequence number of its next message
  result,      \* the DecodeResult of the last call
  applied      \* history: the messages the parser accepted, in order

channelVars == <<nextSeq, status, watermark, gap, session>>
workVars    == <<pc, cur, fromGap, at>>
parserVars  == <<parser, applied>>
vars == <<nextSeq, status, watermark, gap, session, pendingEnd, terminal,
          parser, pc, cur, fromGap, at, result, applied>>

Health == {"Good", "GapDetected", "Recovering", "Stale", "Invalid"}

DecodeStatus == {"Ok", "PacketTooSmall", "InvalidSize", "InvalidSession",
                 "InvalidSequence", "InvalidItchMessage",
                 "RedundantFeedMismatch", "IncompleteSession", "EndOfStream"}

NoPacket == [kind |-> "none"]

Init ==
  /\ nextSeq = FirstSeq
  /\ status = "Good"
  /\ watermark = 0
  /\ gap = {}
  /\ session = NoSession
  /\ pendingEnd = 0
  /\ terminal = "Ok"
  /\ parser = ParserInit
  /\ pc = "idle"
  /\ cur = NoPacket
  /\ fromGap = FALSE
  /\ at = 0
  /\ result = [status |-> "Ok", hadGap |-> FALSE]
  /\ applied = << >>
-----------------------------------------------------------------------------
Return(s, g) == result' = [status |-> s, hadGap |-> g]

\* terminalFailure: the channel becomes Invalid and every later call returns
\* the same status.
TerminalFailure(s) ==
  /\ status' = "Invalid"
  /\ terminal' = s
  /\ Return(s, FALSE)

ChannelRecovered == status = "Good" /\ gap = {} /\ watermark = 0

\* Mutant of Unhealthy: staleness is forgotten.
UnhealthyInvalidOnly == status = "Invalid"

Unhealthy == status \in {"Stale", "Invalid"}

\* The sticky terminal status answers every later packet.
ReceiveAfterTerminal(p) ==
  /\ pc = "idle"
  /\ terminal # "Ok"
  /\ Return(terminal, FALSE)
  /\ UNCHANGED <<channelVars, pendingEnd, terminal, parserVars, workVars>>

\* Mutant of ReceiveShort: the short datagram becomes the terminal status.
ReceiveShortSticky(p) ==
  /\ pc = "idle"
  /\ terminal = "Ok"
  /\ p.kind = "short"
  /\ terminal' = "PacketTooSmall"
  /\ Return("PacketTooSmall", FALSE)
  /\ UNCHANGED <<channelVars, pendingEnd, parserVars, workVars>>

\* A datagram shorter than the header is reported and otherwise ignored.
ReceiveShort(p) ==
  /\ pc = "idle"
  /\ terminal = "Ok"
  /\ p.kind = "short"
  /\ Return("PacketTooSmall", FALSE)
  /\ UNCHANGED <<channelVars, pendingEnd, terminal, parserVars, workVars>>

\* The call goes past the size check of control packets.
HeaderReadable(p) ==
  /\ pc = "idle"
  /\ terminal = "Ok"
  /\ p.kind # "short"
  /\ ~(p.kind \in {"heartbeat", "eos"} /\ p.shape # "ok")

\* A control packet with a payload is rejected before the session is bound.
ReceiveMalformedControl(p) ==
  /\ pc = "idle"
  /\ terminal = "Ok"
  /\ p.kind \in {"heartbeat", "eos"}
  /\ p.shape # "ok"
  /\ TerminalFailure("InvalidSize")
  /\ UNCHANGED <<nextSeq, watermark, gap, session, pendingEnd, parserVars,
                 workVars>>

ReceiveForeignSession(p) ==
  /\ HeaderReadable(p)
  /\ session \notin {NoSession, p.session}
  /\ TerminalFailure("InvalidSession")
  /\ UNCHANGED <<nextSeq, watermark, gap, session, pendingEnd, parserVars,
                 workVars>>

\* The first packet binds the session; later ones must belong to it.
HeaderAccepted(p) ==
  /\ HeaderReadable(p)
  /\ session \in {NoSession, p.session}
  /\ session' = p.session
-----------------------------------------------------------------------------
(* End-of-session markers *)

\* The marker contradicts what the channel already knows.
EndConflicts(p) ==
  \/ p.first < nextSeq
  \/ pendingEnd \notin {0, p.first}
  \/ watermark > p.first

\* An ahead marker that can no longer be reached.
EndUnreachable == parser \in ParserFinal \/ Unhealthy

\* Mutants of EndMisplaced: recovery is not required; an ahead marker is
\* refused instead of kept.
EndMisplacedLax(p) == EndConflicts(p) \/ (p.first > nextSeq /\ EndUnreachable)
EndMisplacedStrict(p) == p.first # nextSeq \/ ~ChannelRecovered

EndMisplaced(p) ==
  \/ EndConflicts(p)
  \/ p.first > nextSeq /\ EndUnreachable
  \/ p.first = nextSeq /\ ~ChannelRecovered

EndOfSessionRejected(p) ==
  /\ HeaderAccepted(p)
  /\ p.kind = "eos"
  /\ \/ /\ EndMisplaced(p)
        /\ TerminalFailure("InvalidSequence")
     \/ /\ ~EndMisplaced(p)
        /\ p.first = nextSeq
        /\ parser \notin ParserFinal
        /\ TerminalFailure("IncompleteSession")
  /\ UNCHANGED <<nextSeq, watermark, gap, pendingEnd, parserVars, workVars>>

\* One line's marker arrived before the other line filled a gap: it waits.
EndOfSessionPending(p) ==
  /\ HeaderAccepted(p)
  /\ p.kind = "eos"
  /\ ~EndMisplaced(p)
  /\ p.first > nextSeq
  /\ pendingEnd' = p.first
  /\ watermark' = IF watermark > p.first THEN watermark ELSE p.first
  /\ status' = "GapDetected"
  /\ Return("Ok", TRUE)
  /\ UNCHANGED <<nextSeq, gap, terminal, parserVars, workVars>>

EndOfSessionAccepted(p) ==
  /\ HeaderAccepted(p)
  /\ p.kind = "eos"
  /\ ~EndMisplaced(p)
  /\ p.first = nextSeq
  /\ parser \in ParserFinal
  /\ terminal' = "EndOfStream"
  /\ Return("EndOfStream", FALSE)
  /\ UNCHANGED <<nextSeq, status, watermark, gap, pendingEnd, parserVars,
                 workVars>>

ReceiveEndOfSession(p) ==
  \/ EndOfSessionRejected(p)
  \/ EndOfSessionPending(p)
  \/ EndOfSessionAccepted(p)
-----------------------------------------------------------------------------
(* Heartbeats *)

HeartbeatRejected(p) ==
  /\ HeaderAccepted(p)
  /\ p.kind = "heartbeat"
  /\ pendingEnd # 0 /\ p.first > pendingEnd
  /\ TerminalFailure("InvalidSequence")
  /\ UNCHANGED <<nextSeq, watermark, gap, pendingEnd, parserVars, workVars>>

\* An ahead heartbeat is evidence of missing traffic.
HeartbeatAhead(p) ==
  /\ HeaderAccepted(p)
  /\ p.kind = "heartbeat"
  /\ pendingEnd = 0 \/ p.first <= pendingEnd
  /\ p.first > nextSeq
  /\ watermark' = IF watermark > p.first THEN watermark ELSE p.first
  /\ status' = IF Unhealthy THEN status ELSE "GapDetected"
  /\ Return("Ok", TRUE)
  /\ UNCHANGED <<nextSeq, gap, pendingEnd, terminal, parserVars, workVars>>

\* Mutant of WatermarkReached: off by one.
WatermarkPassed == watermark # 0 /\ nextSeq > watermark

\* The advertised high watermark has been reached.
WatermarkReached == watermark # 0 /\ nextSeq >= watermark

HeartbeatCurrent(p) ==
  /\ HeaderAccepted(p)
  /\ p.kind = "heartbeat"
  /\ pendingEnd = 0 \/ p.first <= pendingEnd
  /\ p.first <= nextSeq
  /\ watermark' = IF WatermarkReached THEN 0 ELSE watermark
  /\ status' = IF WatermarkReached /\ gap = {} /\ ~Unhealthy
                THEN "Good" ELSE status
  /\ Return("Ok", FALSE)
  /\ UNCHANGED <<nextSeq, gap, pendingEnd, terminal, parserVars, workVars>>

ReceiveHeartbeat(p) ==
  \/ HeartbeatRejected(p)
  \/ HeartbeatAhead(p)
  \/ HeartbeatCurrent(p)
-----------------------------------------------------------------------------
(* Sequenced packets *)

SequenceOverflows(p) == p.first > MaxSeq - Len(p.msgs)

BeyondPendingEnd(p) == pendingEnd # 0 /\ PacketEnd(p) > pendingEnd

\* validateSequencedPacket checks the framing of the whole packet before any
\* of its messages is applied or buffered.
WellFramed(p) == p.shape \in {"ok", "oversize"}

DataRejected(p) ==
  /\ HeaderAccepted(p)
  /\ p.kind = "data"
  /\ \/ /\ SequenceOverflows(p)
        /\ TerminalFailure("InvalidSequence")
     \/ /\ ~SequenceOverflows(p)
        /\ p.shape = "badSize"
        /\ TerminalFailure("InvalidSize")
     \/ /\ ~SequenceOverflows(p)
        /\ p.shape = "badItch"
        /\ TerminalFailure("InvalidItchMessage")
     \/ /\ ~SequenceOverflows(p)
        /\ WellFramed(p)
        /\ BeyondPendingEnd(p)
        /\ TerminalFailure("InvalidSequence")
  /\ UNCHANGED <<nextSeq, watermark, gap, pendingEnd, parserVars, workVars>>

DataAccepted(p) ==
  /\ HeaderAccepted(p)
  /\ p.kind = "data"
  /\ ~SequenceOverflows(p)
  /\ WellFramed(p)
  /\ ~BeyondPendingEnd(p)

\* Every message of the packet was applied before.
DataDuplicate(p) ==
  /\ DataAccepted(p)
  /\ PacketEnd(p) <= nextSeq
  /\ Return("Ok", FALSE)
  /\ UNCHANGED <<nextSeq, status, watermark, gap, pendingEnd, terminal,
                 parserVars, workVars>>

\* GapBuffer::insert, as a set of packets with distinct first sequence
\* numbers and a capacity.
Buffered(s) == {q \in gap : q.first = s}

InsertResult(p) ==
  IF p \in gap THEN "DuplicateIdentical"
  ELSE IF Buffered(p.first) # {} THEN "ConflictingDuplicate"
  ELSE IF Cardinality(gap) < GapCapacity THEN "Inserted"
  ELSE "CapacityExceeded"

\* A packet ahead of the stream is buffered; a stale channel drops it.
DataAhead(p) ==
  /\ DataAccepted(p)
  /\ p.first > nextSeq
  /\ \/ /\ status = "Stale"
        /\ Return("Ok", TRUE)
        /\ UNCHANGED <<status, gap, terminal>>
     \/ /\ status # "Stale"
        /\ p.shape = "oversize"
        /\ TerminalFailure("InvalidSize")
        /\ UNCHANGED gap
     \/ /\ status # "Stale"
        /\ p.shape = "ok"
        /\ InsertResult(p) = "ConflictingDuplicate"
        /\ TerminalFailure("RedundantFeedMismatch")
        /\ UNCHANGED gap
     \/ /\ status # "Stale"
        /\ p.shape = "ok"
        /\ InsertResult(p) # "ConflictingDuplicate"
        /\ gap' = IF InsertResult(p) = "Inserted" THEN gap \cup {p} ELSE gap
        /\ status' = IF InsertResult(p) = "CapacityExceeded"
                     THEN "Stale" ELSE "GapDetected"
        /\ Return("Ok", TRUE)
        /\ UNCHANGED terminal
  /\ UNCHANGED <<nextSeq, watermark, pendingEnd, parserVars, workVars>>

\* Mutants of StartSeq: the packet is replayed from its start; one message
\* too many is skipped.
StartSeqReplay(p) == p.first
StartSeqSkip(p) == IF nextSeq > p.first THEN nextSeq + 1 ELSE p.first

\* The first message of the packet that the parser has not seen.
StartSeq(p) == IF nextSeq > p.first THEN nextSeq ELSE p.first

\* The packet continues the stream: processSequencedPacket starts on it.
DataInOrder(p) ==
  /\ DataAccepted(p)
  /\ p.first <= nextSeq
  /\ PacketEnd(p) > nextSeq
  /\ pc' = "apply"
  /\ cur' = p
  /\ fromGap' = FALSE
  /\ at' = StartSeq(p)
  /\ UNCHANGED <<nextSeq, status, watermark, gap, pendingEnd, terminal,
                 parserVars, result>>

ReceiveData(p) ==
  \/ DataRejected(p)
  \/ DataDuplicate(p)
  \/ DataAhead(p)
  \/ DataInOrder(p)

Receive(p) ==
  \/ ReceiveAfterTerminal(p)
  \/ ReceiveShort(p)
  \/ ReceiveMalformedControl(p)
  \/ ReceiveForeignSession(p)
  \/ ReceiveEndOfSession(p)
  \/ ReceiveHeartbeat(p)
  \/ ReceiveData(p)
-----------------------------------------------------------------------------
(* The rest of the call, for a packet that continues the stream *)

EndCall ==
  /\ pc' = "idle"
  /\ cur' = NoPacket
  /\ fromGap' = FALSE
  /\ at' = 0

ParserVerdict == ParserApply[<<parser, MessageAt(cur, at)>>]

\* A packet taken from the gap buffer leaves it once it has been processed.
GapAfterPacket == IF fromGap THEN gap \ {cur} ELSE gap

ApplyMessage ==
  /\ pc = "apply"
  /\ at < PacketEnd(cur)
  /\ ParserVerdict # Rejected
  /\ parser' = ParserVerdict
  /\ applied' = Append(applied, MessageAt(cur, at))
  /\ at' = at + 1
  /\ UNCHANGED <<channelVars, pendingEnd, terminal, pc, cur, fromGap, result>>

\* The parser refuses a message: the earlier messages of the packet stay
\* applied, nextSeq does not move and the channel is terminal.
RejectMessage ==
  /\ pc = "apply"
  /\ at < PacketEnd(cur)
  /\ ParserVerdict = Rejected
  /\ gap' = GapAfterPacket
  /\ TerminalFailure("InvalidItchMessage")
  /\ EndCall
  /\ UNCHANGED <<nextSeq, watermark, session, pendingEnd, parserVars>>

FinishPacket ==
  /\ pc = "apply"
  /\ at = PacketEnd(cur)
  /\ nextSeq' = PacketEnd(cur)
  /\ gap' = GapAfterPacket
  /\ IF fromGap THEN UNCHANGED <<status, result>>
     ELSE /\ status' = IF status = "GapDetected" THEN "Recovering" ELSE status
          /\ Return("Ok", status' = "Recovering")
  /\ pc' = "drain"
  /\ cur' = NoPacket
  /\ fromGap' = FALSE
  /\ at' = 0
  /\ UNCHANGED <<watermark, session, pendingEnd, terminal, parserVars>>

\* drainGapBuffer looks for a buffered packet that starts at nextSeq or at
\* most MaxStored before it, nearest first.
InReach(q) == q.first <= nextSeq /\ nextSeq - q.first <= MaxStored

Nearest(q) == InReach(q) /\ \A r \in gap : InReach(r) => r.first <= q.first

\* Mutant of Subsumed: a packet that starts before nextSeq is taken for an
\* old one although its tail is new.
SubsumedByStart(q) == q.first < nextSeq

Subsumed(q) == PacketEnd(q) <= nextSeq

DrainSubsumed(q) ==
  /\ pc = "drain"
  /\ Nearest(q)
  /\ Subsumed(q)
  /\ gap' = gap \ {q}
  /\ UNCHANGED <<nextSeq, status, watermark, session, pendingEnd, terminal,
                 parserVars, workVars, result>>

DrainPacket(q) ==
  /\ pc = "drain"
  /\ Nearest(q)
  /\ ~Subsumed(q)
  /\ pc' = "apply"
  /\ cur' = q
  /\ fromGap' = TRUE
  /\ at' = nextSeq
  /\ UNCHANGED <<channelVars, pendingEnd, terminal, parserVars, result>>

SettledWatermark ==
  IF ~Unhealthy /\ WatermarkReached THEN 0 ELSE watermark

\* Mutant of SettledStatus: messages announced by a heartbeat are ignored.
SettledStatusBufferOnly ==
  IF Unhealthy THEN status ELSE IF gap = {} THEN "Good" ELSE "Recovering"

SettledStatus ==
  IF Unhealthy THEN status
  ELSE IF gap = {} /\ SettledWatermark = 0 THEN "Good" ELSE "Recovering"

\* No buffered packet is in reach: the health is settled, and a pending end
\* marker is resolved (resolvePendingEndOfStream).
FinishDrain ==
  /\ pc = "drain"
  /\ \A q \in gap : ~InReach(q)
  /\ watermark' = SettledWatermark
  /\ \/ /\ \/ pendingEnd = 0
           \/ nextSeq < pendingEnd
           \/ nextSeq = pendingEnd /\ SettledStatus # "Good"
        /\ status' = SettledStatus
        /\ UNCHANGED <<pendingEnd, terminal, result>>
     \/ /\ pendingEnd # 0
        /\ nextSeq > pendingEnd
        /\ TerminalFailure("InvalidSequence")
        /\ UNCHANGED pendingEnd
     \/ /\ pendingEnd # 0
        /\ nextSeq = pendingEnd
        /\ SettledStatus = "Good"
        /\ parser \notin ParserFinal
        /\ TerminalFailure("IncompleteSession")
        /\ UNCHANGED pendingEnd
     \/ /\ pendingEnd # 0
        /\ nextSeq = pendingEnd
        /\ SettledStatus = "Good"
        /\ parser \in ParserFinal
        /\ status' = SettledStatus
        /\ pendingEnd' = 0
        /\ terminal' = "EndOfStream"
        /\ Return("EndOfStream", result.hadGap)
  /\ EndCall
  /\ UNCHANGED <<nextSeq, gap, session, parserVars>>

\* The steps of a running call.
Continue ==
  \/ ApplyMessage
  \/ RejectMessage
  \/ FinishPacket
  \/ \E q \in gap : DrainSubsumed(q) \/ DrainPacket(q)
  \/ FinishDrain

Next == (\E p \in Wire : Receive(p)) \/ Continue

Spec == Init /\ [][Next]_vars
-----------------------------------------------------------------------------
(* Properties *)

Failed == terminal \notin {"Ok", "EndOfStream"}

\* The messages that the sender's packets carry under a sequence number.
Carried == [s \in Nat |-> {MessageAt(p, s) : p \in {d \in Data : Covers(d, s)}}]

EndMarks == {p.first : p \in {d \in Wire : d.kind = "eos"}}

\* Type invariant of the decoder state (ChannelState and the members of
\* MoldUdpDecoder).
TypeOK ==
  /\ nextSeq \in Nat
  /\ status \in Health
  /\ watermark \in Nat
  /\ gap \subseteq Data
  /\ session \in Session \cup {NoSession}
  /\ pendingEnd \in Nat
  /\ terminal \in DecodeStatus \ {"PacketTooSmall"}
  /\ parser \in ParserState
  /\ pc \in {"idle", "apply", "drain"}
  /\ cur \in Data \cup {NoPacket}
  /\ pc = "apply" <=> cur # NoPacket
  /\ fromGap \in BOOLEAN
  /\ at \in Nat
  /\ result \in [status : DecodeStatus, hadGap : BOOLEAN]
  /\ applied \in Seq(Payload)

\* processSequencedPacket and drainGapBuffer give the parser every sequence
\* number once and in order, whatever packets overlap, repeat or arrive
\* late: the i-th message the parser accepted is one that a packet carries
\* under the i-th sequence number, and between calls nextSeq is the number
\* after the last accepted message unless the channel has failed.
ExactlyOnceInOrder ==
  /\ \A i \in 1 .. Len(applied) :
       \E p \in Data : /\ Covers(p, FirstSeq + i - 1)
                       /\ applied[i] = MessageAt(p, FirstSeq + i - 1)
  /\ pc = "apply" => at = FirstSeq + Len(applied)
  /\ pc # "apply" /\ ~Failed => nextSeq = FirstSeq + Len(applied)

\* channel_.status tells the truth between calls: Good means that nothing is
\* buffered and no advertised message is missing, GapDetected and Recovering
\* mean that something is, Invalid means a terminal failure.
HealthTruthful ==
  pc = "idle" =>
    /\ status = "Invalid" <=> Failed
    /\ status = "Good" => gap = {} /\ watermark = 0
    /\ status \in {"GapDetected", "Recovering"}
         => gap # {} \/ watermark > nextSeq

\* processPacket accepts the end of the session only when it was advertised
\* at exactly the sequence number reached, the parser has seen End of
\* Messages and the channel is completely recovered.
EndIsComplete ==
  terminal = "EndOfStream" =>
    /\ ChannelRecovered
    /\ pendingEnd = 0
    /\ parser \in ParserFinal
    /\ nextSeq \in EndMarks
    /\ nextSeq = FirstSeq + Len(applied)

\* resolvePendingEndOfStream never misses its moment: once the stream has
\* reached a pending end marker, the call that reached it decided the session
\* unless the channel is stale or still holds buffered packets.
NoMissedEnd ==
  pc = "idle" /\ terminal = "Ok" /\ pendingEnd # 0 /\ nextSeq >= pendingEnd
    => gap # {} \/ status = "Stale"

\* drainGapBuffer leaves no packet in the buffer that starts at or before
\* nextSeq: what it has applied or what was subsumed is gone.
NothingStranded ==
  pc = "idle" /\ ~Failed => \A q \in gap : q.first > nextSeq

KeepsUnapplied ==
  \A q \in gap : \/ q \in gap'
                 \/ PacketEnd(q) <= nextSeq'
                 \/ terminal' = "InvalidItchMessage"

\* A buffered packet leaves the gap buffer only when all its messages are
\* behind nextSeq, or when the parser refused one of them.
BufferedUntilApplied == [][KeepsUnapplied]_vars

\* What a step never undoes.
KeepsVerdicts ==
  /\ terminal # "Ok" => UNCHANGED <<channelVars, terminal, parserVars>>
  /\ status = "Stale" => status' \in {"Stale", "Invalid"}
  /\ pendingEnd # 0 => pendingEnd' = pendingEnd \/ terminal' = "EndOfStream"

\* No verdict of processPacket is taken back, whatever arrives later: after a
\* terminal status nothing changes that a consumer can see, a stale channel
\* never claims to be healthy or recovering again, and a pending end marker
\* is given up only by accepting it.
NothingTakenBack == [][KeepsVerdicts]_vars

\* The decoder implements the ordered, exactly-once session feed.
Outcome == IF terminal = "Ok" THEN "open"
           ELSE IF terminal = "EndOfStream" THEN "complete" ELSE "failed"

Feed == INSTANCE SessionFeed WITH log <- applied, outcome <- Outcome

FeedSpec == Feed!FeedSpec
=============================================================================
