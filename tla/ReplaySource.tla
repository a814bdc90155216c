---------------------------- MODULE ReplaySource ---------------------------
(***************************************************************************)
(* The source of a replay: an ITCH BinaryFILE cut into MoldUDP64 packets.  *)
(* A record of the file is a message ("O", "S", "Q" and "C" are System     *)
(* Events, "m" any other message, "wide" one that takes twice the room,    *)
(* "huge" one that fits no packet, "bad" one whose type, length or stock   *)
(* locate is refused), the zero-length terminator ("zero"), or the torn    *)
(* end of a truncated file: half a length prefix ("half") or a payload cut *)
(* short ("cut").  One step reads one record.                              *)
(*                                                                         *)
(* The sender scans the file for its premarket window, from System Event S *)
(* to Q, before it makes the source, and in timestamp mode asks the source *)
(* for packets of one message in the window.                               *)
(***************************************************************************)
EXTENDS Integers, Sequences

CONSTANTS
  Files,      \* files, sequences of records
  Room,       \* kMaxPacketBytes, in messages
  PerPacket   \* values of msgs_per_packet, the configured packet size

Records == {"O", "S", "Q", "C", "m", "wide", "huge", "bad", "zero", "half", "cut"}

ASSUME SourceAssumption ==
  /\ Room \in Nat \ {0}
  /\ PerPacket \subseteq Nat \ {0}
  /\ Files \subseteq Seq(Records)

VARIABLES
  file, allowEof,     \* the input and the completion policy
  configured,         \* msgs_per_packet of the sender
  timestamp,          \* the premarket mode: timestamp or flat
  window,             \* what the sender's scan found
  active,             \* premarket_active of the sender
  handled,            \* packets the sender has dealt with
  perPacket,          \* msgs_per_packet_ of the source
  pos,                \* records read
  nextSeq,            \* next_seq_
  sawMessage, lastWasC,
  eof, completed, error,
  calling,            \* a call of next() is in its loop
  building,           \* the messages in the packet buffer
  offset,             \* the room they take in it
  out                 \* the packets returned

state == <<pos, nextSeq, sawMessage, lastWasC, eof, completed, error>>
input == <<file, allowEof, configured, timestamp, window>>
sender == <<active, handled, perPacket>>
buffer == <<building, offset>>
vars  == <<input, sender, state, calling, buffer, out>>

Size(m) == CASE m = "wide" -> 2 [] m = "huge" -> Room + 1 [] OTHER -> 1

\* Mutant of StartsPacket: S does not end its packet in the scan.
StartsPacketFull(w, r) == w.count = configured \/ w.used + Size(r) > Room

\* The scan puts a record into a new packet.
StartsPacket(w, r) == w.afterS \/ w.count = configured \/ w.used + Size(r) > Room

\* One record of scanPremarketWindow.
ScanRecord(w, r) ==
  IF w.over \/ r \in {"zero", "half", "cut"} THEN [w EXCEPT !.over = TRUE]
  ELSE LET fresh == StartsPacket(w, r)
           index == IF fresh THEN w.index + 1 ELSE w.index
           found == r = "Q" /\ w.ss # 0
       IN  [index  |-> index,
            count  |-> 1 + (IF fresh THEN 0 ELSE w.count),
            used   |-> Size(r) + (IF fresh THEN 0 ELSE w.used),
            afterS |-> r = "S",
            ss     |-> IF r = "S" THEN index ELSE w.ss,
            sq     |-> IF found THEN index ELSE 0,
            over   |-> found]

PacketsToPace(w) == IF w.sq <= w.ss THEN 0 ELSE w.sq - w.ss

ScanStart == [index |-> 1, count |-> 0, used |-> 0, afterS |-> FALSE,
              ss |-> 0, sq |-> 0, over |-> FALSE]

\* The scan after each number of records.
Scans[k \in 0 .. Len(file)] ==
  IF k = 0 THEN ScanStart ELSE ScanRecord(Scans[k - 1], file[k])

\* scanPremarketWindow: whether there is a window, and packetsToPace.
Scanned ==
  LET w == Scans[Len(file)] IN [found |-> w.sq # 0, packets |-> PacketsToPace(w)]

Init ==
  /\ file \in Files
  /\ allowEof \in BOOLEAN
  /\ configured \in PerPacket
  /\ timestamp \in BOOLEAN
  /\ window = Scanned
  /\ active = FALSE /\ handled = 0
  /\ perPacket = configured
  /\ pos = 0 /\ nextSeq = 1
  /\ sawMessage = FALSE /\ lastWasC = FALSE
  /\ eof = FALSE /\ completed = FALSE /\ error = FALSE
  /\ calling = FALSE /\ building = << >> /\ offset = 0 /\ out = << >>

\* next() is called; once the end is known it returns false at once.
Call ==
  /\ ~calling /\ ~eof /\ handled = Len(out)
  /\ calling' = TRUE
  /\ building' = << >> /\ offset' = 0
  /\ UNCHANGED <<input, sender, state, out>>

\* The last message of a packet returned.
Event(i) == out[i].msgs[Len(out[i].msgs)]

\* The sender has sent a packet: System Event S opens the premarket window,
\* where setMessagesPerPacket asks for single messages, and Q closes it.  (The
\* times of S and Q are taken to differ: the window has a duration.)
AfterPacket ==
  /\ ~calling /\ handled < Len(out)
  /\ LET event  == Event(Len(out))
         opens  == event = "S" /\ window.found /\ ~active
         closes == event = "Q"
     IN  /\ active' = ((active \/ opens) /\ ~closes)
         /\ perPacket' = IF timestamp /\ opens THEN 1
                         ELSE IF timestamp /\ closes THEN configured ELSE perPacket
  /\ handled' = Len(out)
  /\ UNCHANGED <<input, state, calling, buffer, out>>

\* The loop condition.
MoreToRead == Len(building) < perPacket \/ lastWasC

\* The loop ends: an empty packet is not returned.
Return ==
  /\ calling' = FALSE
  /\ out' = IF building' = << >> THEN out
            ELSE Append(out, [first |-> nextSeq' - Len(building'), msgs |-> building',
                              size  |-> offset'])

Record == file[pos + 1]

\* The reader has met the end of the file or an error in it.
Ends(done) ==
  /\ eof' = TRUE
  /\ completed' = done
  /\ error' = ~done
  /\ UNCHANGED <<input, sender, pos, nextSeq, sawMessage, lastWasC, buffer>>
  /\ Return

ReadEof ==
  /\ calling /\ MoreToRead
  /\ pos = Len(file)
  /\ Ends(allowEof /\ lastWasC)

\* Mutant of ReadTerminator: the terminator is believed whatever it follows.
ReadTerminatorAnywhere ==
  /\ calling /\ MoreToRead
  /\ pos < Len(file) /\ Record = "zero"
  /\ Ends(pos + 1 = Len(file))

ReadTerminator ==
  /\ calling /\ MoreToRead
  /\ pos < Len(file) /\ Record = "zero"
  /\ Ends(pos + 1 = Len(file) /\ lastWasC)

Overflows == offset + Size(Record) > Room

\* The record starts no message the reader accepts.
Refused ==
  \/ Record \in {"half", "cut", "bad"}
  \/ ~sawMessage /\ Record # "O"

ReadRefused ==
  /\ calling /\ MoreToRead
  /\ pos < Len(file) /\ Record # "zero"
  /\ \/ lastWasC
     \/ Record = "half"
     \/ Overflows /\ building = << >>
     \/ ~Overflows /\ Refused
  /\ Ends(FALSE)

\* Mutant of ReadOverflow: the length prefix is not put back, and the message
\* is lost.
ReadOverflowSkips ==
  /\ calling /\ MoreToRead
  /\ pos < Len(file) /\ Record \notin {"zero", "half"} /\ ~lastWasC
  /\ Overflows /\ building # << >>
  /\ pos' = pos + 1
  /\ UNCHANGED <<input, sender, nextSeq, sawMessage, lastWasC,
                 eof, completed, error, buffer>>
  /\ Return

\* Mutant of ReadOverflow: a message that fits no packet is put back too.
ReadOverflowAlways ==
  /\ calling /\ MoreToRead
  /\ pos < Len(file) /\ Record \notin {"zero", "half"} /\ ~lastWasC
  /\ Overflows
  /\ UNCHANGED <<input, sender, state, buffer>>
  /\ Return

\* A message that does not fit is left for the next packet.
ReadOverflow ==
  /\ calling /\ MoreToRead
  /\ pos < Len(file) /\ Record \notin {"zero", "half"} /\ ~lastWasC
  /\ Overflows /\ building # << >>
  /\ UNCHANGED <<input, sender, state, buffer>>
  /\ Return

\* The sender's timing boundaries end their packets.
EndsPacket(m) == m \in {"S", "Q"}

ReadMessage ==
  /\ calling /\ MoreToRead
  /\ pos < Len(file) /\ Record # "zero" /\ ~lastWasC
  /\ ~Overflows /\ ~Refused
  /\ pos' = pos + 1
  /\ nextSeq' = nextSeq + 1
  /\ sawMessage' = TRUE
  /\ lastWasC' = (Record = "C")
  /\ building' = Append(building, Record)
  /\ offset' = offset + Size(Record)
  /\ IF EndsPacket(Record) THEN Return ELSE UNCHANGED <<calling, out>>
  /\ UNCHANGED <<input, sender, eof, completed, error>>

ReadFull ==
  /\ calling /\ ~MoreToRead
  /\ UNCHANGED <<input, sender, state, buffer>>
  /\ Return

Read == ReadEof \/ ReadTerminator \/ ReadRefused \/ ReadOverflow \/ ReadMessage \/ ReadFull

Done == eof /\ ~calling /\ UNCHANGED vars

Next == Call \/ Read \/ AfterPacket \/ Done

\* The sender keeps calling next(), and a call runs to its end.
Spec == Init /\ [][Next]_vars /\ WF_vars(Call \/ Read \/ AfterPacket)
-----------------------------------------------------------------------------
\* The record after the first k packets.
Behind(k) == IF k = 0 THEN 1 ELSE out[k].first + Len(out[k].msgs)

\* The packets are a cut of the file: its messages in order, none lost or
\* repeated where a packet was full or a message did not fit, under sequence
\* numbers without a hole; and none is larger than a datagram.
CutsTheFile ==
  \A i \in DOMAIN out :
    /\ out[i].first = Behind(i - 1)
    /\ Behind(i) <= Len(file) + 1
    /\ \A k \in DOMAIN out[i].msgs : out[i].msgs[k] = file[out[i].first + k - 1]
    /\ out[i].size <= Room

\* A file is a whole trading day: it opens with O, has one C, which only the
\* terminator, or where the policy allows it nothing, follows.
WholeDay ==
  LET n == IF file # << >> /\ file[Len(file)] = "zero" THEN Len(file) - 1 ELSE Len(file)
  IN  /\ n > 0 /\ file[1] = "O" /\ file[n] = "C"
      /\ n = Len(file) => allowEof
      /\ \A i \in 1 .. n : file[i] \notin {"zero", "half", "cut", "bad"}
      /\ \A i \in 1 .. n : Size(file[i]) <= Room
      /\ \A i \in 1 .. n - 1 : file[i] # "C"

\* The source reports completion, which lets the sender announce the end of
\* the session, exactly for a whole day and once all of it is in packets: with
\* the packet that holds C, so that no pacing or heartbeat comes between the
\* last data and the end of session.
CompletionHonest ==
  /\ eof /\ ~calling => /\ completed <=> WholeDay
                        /\ completed # error
                        /\ completed => Behind(Len(out)) >= Len(file)
  /\ ~calling /\ out # << >> /\ Event(Len(out)) = "C" => eof

\* Packet c holds the first Q behind an S, and packet o the last S before it.
Premarket(o, c) ==
  /\ Event(o) = "S" /\ Event(c) = "Q"
  /\ \A i \in o + 1 .. c - 1 : Event(i) # "S"
  /\ \A i \in 1 .. c - 1 : Event(i) = "Q" => \A j \in 1 .. i - 1 : Event(j) # "S"

\* The scan and the source cut the premarket window alike, though each has its
\* own loop: the number of packets the flat interval is computed from is the
\* number the source makes between the last S and Q, and in timestamp mode every packet of the
\* window holds one message.  No message shares a packet with an earlier S or Q.
WindowExact ==
  /\ \A i \in DOMAIN out : \A k \in 1 .. Len(out[i].msgs) - 1 : ~EndsPacket(out[i].msgs[k])
  /\ \A c \in DOMAIN out : \A o \in 1 .. c - 1 : Premarket(o, c) =>
       /\ window.found
       /\ ~timestamp => window.packets = c - o
       /\ timestamp => \A i \in o + 1 .. c : Len(out[i].msgs) = 1

\* The source comes to an end: no record is put back for ever.
ReachesTheEnd == <>eof
=============================================================================
