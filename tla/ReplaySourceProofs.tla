------------------------- MODULE ReplaySourceProofs ------------------------
(***************************************************************************)
(* Proofs about the replay source, for every file, packet size and room of *)
(* a datagram: the packets cut the file, completion is reported exactly    *)
(* for a whole day, and the sender's scan of the premarket window agrees   *)
(* with the packets made in it.                                            *)
(***************************************************************************)
EXTENDS ReplaySource, WellFoundedInduction, TLAPS

\* The SMT solver may take up to two minutes on a step.
USE SMTT(120)

Packets == [first : Nat, msgs : Seq(Records), size : Nat]

SourceTypeOK ==
  /\ file \in Seq(Records)
  /\ allowEof \in BOOLEAN /\ timestamp \in BOOLEAN
  /\ configured \in PerPacket /\ perPacket \in Nat \ {0}
  /\ window = Scanned
  /\ active \in BOOLEAN /\ calling \in BOOLEAN
  /\ handled \in Nat
  /\ pos \in 0 .. Len(file) /\ nextSeq = pos + 1
  /\ sawMessage \in BOOLEAN /\ lastWasC \in BOOLEAN
  /\ eof \in BOOLEAN /\ completed \in BOOLEAN /\ error \in BOOLEAN
  /\ building \in Seq(Records) /\ offset \in Nat
  /\ out \in Seq(Packets)

\* What the flags say of the records read: all were accepted.
ReadInv ==
  /\ \A i \in 1 .. pos : /\ file[i] \notin {"zero", "half", "cut", "bad"}
                         /\ Size(file[i]) <= Room
  /\ \A i \in 1 .. pos - 1 : file[i] # "C"
  /\ pos > 0 => file[1] = "O"
  /\ sawMessage <=> pos > 0
  /\ lastWasC <=> pos > 0 /\ file[pos] = "C"

\* The packets and the packet buffer hold the records read.
CutInv ==
  /\ CutsTheFile
  /\ \A i \in DOMAIN out : out[i].msgs # << >>
  /\ calling => /\ Behind(Len(out)) + Len(building) = pos + 1
                /\ \A k \in DOMAIN building : building[k] = file[Behind(Len(out)) + k - 1]
                /\ offset <= Room
                /\ building = << >> => offset = 0
  /\ ~calling => Behind(Len(out)) = pos + 1

\* The end is reported at most once, and rightly.
EndInv ==
  /\ lastWasC => calling \/ eof
  /\ eof => ~calling /\ (completed <=> WholeDay) /\ completed # error
  /\ eof /\ completed => pos + 1 >= Len(file)
  /\ ~eof => ~completed /\ ~error

SourceInv == SourceTypeOK /\ ReadInv /\ CutInv /\ EndInv

\* The scan has seen S, and not yet Q behind it, in the records read.
Open == Scans[pos].ss # 0 /\ ~Scans[pos].over

\* Packet o holds the last S, and no Q follows it.
OpenedBy(o) ==
  /\ o \in DOMAIN out /\ Event(o) = "S"
  /\ \A i \in o + 1 .. Len(out) : Event(i) \notin {"S", "Q"}

\* No Q of a packet follows an S.
NoneClosed == \A i \in DOMAIN out : Event(i) = "Q" => \A j \in 1 .. i - 1 : Event(j) # "S"

\* The scan has cut the records read like the source has.
Alike(o) ==
  LET w == Scans[pos] IN
  IF calling /\ building # << >>
  THEN /\ w.index + o = w.ss + Len(out) + 1
       /\ w.count = Len(building) /\ w.used = offset /\ ~w.afterS
  ELSE /\ w.index + o = w.ss + Len(out)
       /\ ~eof /\ pos < Len(file) => StartsPacket(w, Record)

SizeInv ==
  /\ calling => handled = Len(out) /\ Len(building) <= perPacket
  /\ handled <= Len(out)
  /\ calling => \A k \in DOMAIN building : ~EndsPacket(building[k])
  /\ timestamp /\ active => perPacket = 1
  /\ ~timestamp => perPacket = configured

\* What is known of the window that packet o has opened.
Opened(o) ==
  /\ OpenedBy(o)
  /\ ~timestamp => Alike(o)
  /\ timestamp /\ window.found => \A i \in o + 1 .. Len(out) : Len(out[i].msgs) = 1

\* The scan and the events of the packets made so far.
EventInv ==
  /\ WindowExact
  /\ \A k \in 0 .. pos : Scans[k].over <=> Scans[k].sq # 0
  /\ Scans[pos].ss = 0 => \A i \in DOMAIN out : Event(i) # "S"
  /\ Scans[pos].over => \E i \in DOMAIN out : Event(i) = "Q" /\ \E j \in 1 .. i - 1 : Event(j) = "S"
  /\ ~Scans[pos].over => NoneClosed

\* The sender paces the window once it has dealt with its S.
ActiveInv ==
  Open /\ window.found /\ (handled = Len(out) \/ Event(Len(out)) # "S") => active

WindowInv == EventInv /\ (Open => \E o \in DOMAIN out : Opened(o)) /\ ActiveInv

ReplayInv == SourceInv /\ SizeInv /\ WindowInv
-----------------------------------------------------------------------------
LEMMA SizeType == \A m : Size(m) \in Nat \ {0}
  BY SourceAssumption DEF Size

\* A packet returned is added behind the others, which stay as they are.
LEMMA Returned ==
  ASSUME out \in Seq(Packets), building' \in Seq(Records), offset' \in Nat,
         nextSeq' - Len(building') \in Nat, Return
  PROVE  /\ out' \in Seq(Packets)
         /\ building' = << >> => out' = out
         /\ building' # << >> =>
              /\ Len(out') = Len(out) + 1
              /\ out'[Len(out) + 1].first = nextSeq' - Len(building')
              /\ out'[Len(out) + 1].msgs = building'
              /\ out'[Len(out) + 1].size = offset'
         /\ Len(out') >= Len(out)
         /\ \A i \in 1 .. Len(out) : out'[i] = out[i]
  <1> DEFINE p == [first |-> nextSeq' - Len(building'), msgs |-> building', size |-> offset']
  <1>1. p \in Packets
    BY DEF Packets
  <1>2. CASE building' = << >>
    BY <1>2 DEF Return
  <1>3. CASE building' # << >>
    <2>1. out' = Append(out, p)
      BY <1>3 DEF Return
    <2>2. /\ p.first = nextSeq' - Len(building') /\ p.msgs = building' /\ p.size = offset'
      OBVIOUS
    <2> HIDE DEF p
    <2>3. out' \in Seq(Packets) /\ Len(out') = Len(out) + 1 /\ out'[Len(out) + 1] = p
      BY <1>1, <2>1
    <2>4. \A i \in 1 .. Len(out) : out'[i] = out[i]
      BY <2>1
    <2> QED  BY <1>3, <2>2, <2>3, <2>4
  <1> QED  BY <1>2, <1>3

LEMMA BehindType ==
  ASSUME out \in Seq(Packets), NEW k \in 0 .. Len(out)
  PROVE  Behind(k) \in Nat
  <1>1. CASE k = 0
    BY <1>1 DEF Behind
  <1>2. CASE k # 0
    <2>1. out[k] \in Packets
      BY <1>2
    <2>2. out[k].first \in Nat /\ Len(out[k].msgs) \in Nat
      BY <2>1 DEF Packets
    <2> QED  BY <1>2, <2>2 DEF Behind
  <1> QED  BY <1>1, <1>2

\* Where the packets keep their places so do the records behind them.
LEMMA BehindSame ==
  ASSUME out \in Seq(Packets), out' \in Seq(Packets),
         \A i \in 1 .. Len(out) : out'[i] = out[i],
         NEW k \in 0 .. Len(out)
  PROVE  Behind(k)' = Behind(k)
  BY DEF Behind

\* The records in the buffer become a packet, the next piece of the file.
LEMMA Flushed ==
  ASSUME file \in Seq(Records), file' = file, out \in Seq(Packets),
         building' \in Seq(Records), offset' \in Nat,
         pos' \in 0 .. Len(file), nextSeq' = pos' + 1,
         CutsTheFile, \A i \in DOMAIN out : out[i].msgs # << >>,
         Behind(Len(out)) + Len(building') = pos' + 1,
         \A k \in DOMAIN building' : building'[k] = file[Behind(Len(out)) + k - 1],
         offset' <= Room,
         Return
  PROVE  CutInv'
  <1>a. PICK n \in Nat : n = Len(out)
    OBVIOUS
  <1>0. Behind(n) \in Nat
    BY <1>a, BehindType
  <1>1. /\ out' \in Seq(Packets)
        /\ building' = << >> => out' = out
        /\ building' # << >> =>
             /\ Len(out') = Len(out) + 1
             /\ out'[Len(out) + 1].first = nextSeq' - Len(building')
             /\ out'[Len(out) + 1].msgs = building'
             /\ out'[Len(out) + 1].size = offset'
        /\ Len(out') >= Len(out)
        /\ \A i \in 1 .. Len(out) : out'[i] = out[i]
    BY <1>0, <1>a, Returned
  <1>2. \A k \in 0 .. Len(out) : Behind(k)' = Behind(k)
    BY <1>1, BehindSame
  <1>3. ~calling'
    BY DEF Return
  <1>4. ASSUME NEW i \in 1 .. Len(out)
        PROVE  /\ out'[i].first = Behind(i - 1)'
               /\ Behind(i)' <= Len(file') + 1
               /\ \A k \in DOMAIN out'[i].msgs : out'[i].msgs[k] = file'[out'[i].first + k - 1]
               /\ out'[i].size <= Room
               /\ out'[i].msgs # << >>
    <2>1. out'[i] = out[i] /\ Behind(i)' = Behind(i) /\ Behind(i - 1)' = Behind(i - 1)
      BY <1>1, <1>2
    <2>2. i \in DOMAIN out
      OBVIOUS
    <2> QED  BY <2>1, <2>2 DEF CutsTheFile
  <1>5. CASE building' = << >>
    <2>1. DOMAIN out' = 1 .. Len(out) /\ Len(out') = n
      BY <1>1, <1>5, <1>a
    <2>2. Behind(n)' = pos' + 1
      BY <1>0, <1>2, <1>5, <1>a
    <2>3. Behind(Len(out))' = pos' + 1
      BY <2>1, <2>2 DEF Behind
    <2> QED  BY <1>3, <1>4, <2>1, <2>3, Zenon DEF CutInv, CutsTheFile
  <1>6. CASE building' # << >>
    <2>0. PICK m \in Nat : m = n + 1
      OBVIOUS
    <2>1. DOMAIN out' = 1 .. m /\ Len(out') = m /\ m # 0
      BY <1>1, <1>6, <1>a, <2>0
    <2>2. out'[m].first = Behind(n) /\ out'[m].msgs = building' /\ out'[m].size = offset'
      BY <1>0, <1>1, <1>6, <1>a, <2>0
    <2>3. Behind(m)' = pos' + 1
      BY <1>0, <1>a, <2>1, <2>2 DEF Behind
    <2>4. Behind(m - 1)' = Behind(n)
      BY <1>2, <1>a, <2>0
    <2>7. Behind(Len(out))' = pos' + 1
      BY <2>1, <2>3 DEF Behind
    <2>5. /\ out'[m].first = Behind(m - 1)'
          /\ Behind(m)' <= Len(file') + 1
          /\ \A k \in DOMAIN out'[m].msgs : out'[m].msgs[k] = file'[out'[m].first + k - 1]
          /\ out'[m].size <= Room
          /\ out'[m].msgs # << >>
      BY <1>6, <1>a, <2>2, <2>3, <2>4
    <2>6. \A i \in 1 .. m : i \in 1 .. Len(out) \/ i = m
      BY <1>a, <2>0
    <2> QED  BY <1>3, <1>4, <2>1, <2>5, <2>6, <2>7, ZenonT(60) DEF CutInv, CutsTheFile
  <1> QED  BY <1>5, <1>6

\* The scan depends on the file and on the configured packet size only.
LEMMA ScanSame ==
  ASSUME UNCHANGED input
  PROVE  Scans' = Scans /\ Scanned' = Scanned
  <1>1. file' = file /\ configured' = configured
    BY DEF input
  <1>2. Scans' = Scans
    BY <1>1 DEF Scans, ScanRecord, StartsPacket
  <1>3. Scanned' = Scanned
    BY <1>1, <1>2 DEF Scanned
  <1> QED  BY <1>2, <1>3

LEMMA InitSource == Init => SourceInv
  <1> SUFFICES ASSUME Init PROVE SourceInv
    OBVIOUS
  <1>1. SourceTypeOK
    <2>1. file \in Seq(Records) /\ configured \in PerPacket /\ perPacket \in Nat \ {0}
      BY SourceAssumption DEF Init
    <2>2. pos \in 0 .. Len(file) /\ nextSeq = pos + 1 /\ handled \in Nat /\ offset \in Nat
      BY <2>1 DEF Init
    <2>3. building \in Seq(Records) /\ out \in Seq(Packets)
      BY DEF Init
    <2>4. /\ active \in BOOLEAN /\ calling \in BOOLEAN /\ sawMessage \in BOOLEAN
          /\ lastWasC \in BOOLEAN /\ eof \in BOOLEAN /\ completed \in BOOLEAN /\ error \in BOOLEAN
          /\ allowEof \in BOOLEAN /\ timestamp \in BOOLEAN /\ window = Scanned
      BY Zenon DEF Init
    <2> QED  BY <2>1, <2>2, <2>3, <2>4 DEF SourceTypeOK
  <1>2. ReadInv
    BY DEF Init, ReadInv
  <1>3. CutInv
    BY DEF Init, CutInv, CutsTheFile, Behind
  <1>4. EndInv
    BY DEF Init, EndInv
  <1> QED  BY <1>1, <1>2, <1>3, <1>4 DEF SourceInv

\* At the end of the file it was a whole day if it ended with C and the policy
\* asks for no terminator.
LEMMA WholeAtEof ==
  ASSUME SourceTypeOK, ReadInv, pos = Len(file)
  PROVE  WholeDay <=> allowEof /\ lastWasC
  <1>1. CASE pos = 0
    BY <1>1 DEF SourceTypeOK, ReadInv, WholeDay
  <1>2. CASE pos # 0
    <2>1. file # << >> /\ pos \in 1 .. Len(file) /\ file[Len(file)] # "zero"
      BY <1>2 DEF SourceTypeOK, ReadInv
    <2> QED  BY <1>2, <2>1 DEF SourceTypeOK, ReadInv, WholeDay
  <1> QED  BY <1>1, <1>2

\* At a terminator it was a whole day if C came last before it and nothing
\* follows.
LEMMA WholeAtTerminator ==
  ASSUME SourceTypeOK, ReadInv, pos < Len(file), Record = "zero"
  PROVE  WholeDay <=> pos + 1 = Len(file) /\ lastWasC
  <1>1. CASE pos + 1 = Len(file)
    <2>1. file # << >> /\ file[Len(file)] = "zero" /\ Len(file) - 1 = pos
      BY <1>1 DEF SourceTypeOK, Record
    <2>4. PICK n : n = Len(file) - 1
      OBVIOUS
    <2>5. WholeDay <=>
            /\ n > 0 /\ file[1] = "O" /\ file[n] = "C"
            /\ n = Len(file) => allowEof
            /\ \A i \in 1 .. n : file[i] \notin {"zero", "half", "cut", "bad"}
            /\ \A i \in 1 .. n : Size(file[i]) <= Room
            /\ \A i \in 1 .. n - 1 : file[i] # "C"
      BY <2>1, <2>4 DEF WholeDay
    <2>6. n = pos /\ pos \in Nat /\ Len(file) \in Nat
      BY <2>1, <2>4 DEF SourceTypeOK
    <2>2. CASE pos = 0
      BY <2>2, <2>5, <2>6 DEF ReadInv
    <2>3. CASE pos # 0
      BY <1>1, <2>3, <2>5, <2>6 DEF ReadInv
    <2> QED  BY <2>2, <2>3
  <1>2. CASE pos + 1 # Len(file)
    <2>1. pos + 1 \in 1 .. Len(file) - 1 /\ file[pos + 1] = "zero" /\ Len(file) \in Nat
      BY <1>2 DEF SourceTypeOK, Record
    <2> QED  BY <1>2, <2>1 DEF WholeDay
  <1> QED  BY <1>1, <1>2

\* A record that is refused is not one of a whole day.
LEMMA WholeAtRefused ==
  ASSUME SourceTypeOK, ReadInv, CutInv, calling, pos < Len(file), Record # "zero",
         \/ lastWasC
         \/ Record = "half"
         \/ Overflows /\ building = << >>
         \/ ~Overflows /\ Refused
  PROVE  ~WholeDay
  <1> SUFFICES ASSUME WholeDay PROVE FALSE
    OBVIOUS
  <1>1. PICK n : n = IF file # << >> /\ file[Len(file)] = "zero" THEN Len(file) - 1 ELSE Len(file)
    OBVIOUS
  <1>2. /\ n > 0 /\ file[1] = "O" /\ file[n] = "C"
        /\ \A i \in 1 .. n : file[i] \notin {"zero", "half", "cut", "bad"}
        /\ \A i \in 1 .. n : Size(file[i]) <= Room
        /\ \A i \in 1 .. n - 1 : file[i] # "C"
    BY <1>1 DEF WholeDay
  <1>3. pos \in Nat /\ pos + 1 \in 1 .. n /\ n \in Nat
    BY <1>1 DEF SourceTypeOK, Record
  <1>4. /\ Record \notin {"half", "cut", "bad"}
        /\ Size(Record) <= Room
        /\ pos = 0 => Record = "O"
    BY <1>2, <1>3 DEF Record
  <1>5. ~lastWasC
    BY <1>2, <1>3 DEF ReadInv
  <1>6. ~(Overflows /\ building = << >>)
    <2> SUFFICES ASSUME Overflows, building = << >> PROVE FALSE
      OBVIOUS
    <2>1. offset = 0
      BY DEF CutInv
    <2> QED  BY <1>4, <2>1, SizeType, SourceAssumption DEF Overflows
  <1>7. ~Refused
    BY <1>3, <1>4 DEF Refused, ReadInv
  <1> QED  BY <1>4, <1>5, <1>6, <1>7

LEMMA CallSource == SourceInv /\ Call => SourceInv'
  <1> SUFFICES ASSUME SourceInv, Call PROVE SourceInv'
    OBVIOUS
  <1>1. UNCHANGED <<input, sender, state, out>> /\ calling' = TRUE /\ ~calling /\ ~eof
    BY DEF Call
  <1>2. building' = << >> /\ offset' = 0 /\ building' \in Seq(Records)
    BY DEF Call
  <1>3. SourceTypeOK'
    <2>1. window' = Scanned'
      BY <1>1, ScanSame DEF SourceInv, SourceTypeOK, input
    <2> QED  BY <1>1, <1>2, <2>1 DEF SourceInv, SourceTypeOK, input, sender, state
  <1>4. ReadInv'
    BY <1>1 DEF SourceInv, ReadInv, input, state
  <1>5. CutInv'
    <2>1. Behind(Len(out))' = Behind(Len(out)) /\ Behind(Len(out)) = pos + 1
      BY <1>1 DEF Behind, SourceInv, CutInv
    <2>2. CutsTheFile'
      BY <1>1 DEF SourceInv, CutInv, CutsTheFile, Behind, input
    <2>3. \A i \in DOMAIN out' : out'[i].msgs # << >>
      BY <1>1 DEF SourceInv, CutInv
    <2>4. Len(building') = 0 /\ DOMAIN building' = {} /\ pos' = pos /\ pos \in Nat
      BY <1>1, <1>2 DEF state, SourceInv, SourceTypeOK
    <2> QED  BY <1>1, <1>2, <2>1, <2>2, <2>3, <2>4, SourceAssumption DEF CutInv
  <1>6. EndInv'
    BY <1>1 DEF SourceInv, EndInv, state
  <1> QED  BY <1>3, <1>4, <1>5, <1>6 DEF SourceInv

LEMMA AfterPacketSource == SourceInv /\ AfterPacket => SourceInv'
  <1> SUFFICES ASSUME SourceInv, AfterPacket PROVE SourceInv'
    OBVIOUS
  <1>1. UNCHANGED <<input, state, calling, buffer, out>> /\ handled' = Len(out)
    BY DEF AfterPacket
  <1>2. PICK opens, closes \in BOOLEAN :
          /\ active' = ((active \/ opens) /\ ~closes)
          /\ perPacket' = IF timestamp /\ opens THEN 1
                          ELSE IF timestamp /\ closes THEN configured ELSE perPacket
    BY Zenon DEF AfterPacket
  <1>3. SourceTypeOK'
    <2>1. window' = Scanned'
      BY <1>1, ScanSame DEF SourceInv, SourceTypeOK, input
    <2>2. perPacket' \in Nat \ {0}
      BY <1>2, SourceAssumption DEF SourceInv, SourceTypeOK
    <2>3. active' \in BOOLEAN
      BY <1>2
    <2>4. handled' \in Nat
      BY <1>1 DEF SourceInv, SourceTypeOK
    <2> QED  BY <1>1, <2>1, <2>2, <2>3, <2>4 DEF SourceInv, SourceTypeOK, input, state, buffer
  <1>4. ReadInv'
    BY <1>1 DEF SourceInv, ReadInv, input, state
  <1>5. CutInv'
    <2>1. \A k : Behind(k)' = Behind(k)
      BY <1>1, Zenon DEF Behind
    <2>2. CutsTheFile'
      BY <1>1, <2>1, Zenon DEF SourceInv, CutInv, CutsTheFile, input
    <2> QED  BY <1>1, <2>1, <2>2, ZenonT(60) DEF SourceInv, CutInv, input, state, buffer
  <1>6. EndInv'
    BY <1>1 DEF SourceInv, EndInv, state, input, WholeDay
  <1> QED  BY <1>3, <1>4, <1>5, <1>6 DEF SourceInv

LEMMA StutterSource == SourceInv /\ UNCHANGED vars => SourceInv'
  <1> SUFFICES ASSUME SourceInv, UNCHANGED vars PROVE SourceInv'
    OBVIOUS
  <1>1. UNCHANGED <<input, sender, state, calling, buffer, out>>
    BY DEF vars
  <1>2. SourceTypeOK'
    <2>1. window' = Scanned'
      BY <1>1, ScanSame DEF SourceInv, SourceTypeOK, input
    <2> QED  BY <1>1, <2>1 DEF SourceInv, SourceTypeOK, input, sender, state, buffer
  <1>3. ReadInv'
    BY <1>1 DEF SourceInv, ReadInv, input, state
  <1>4. CutInv'
    BY <1>1 DEF SourceInv, CutInv, CutsTheFile, Behind, input, state, buffer
  <1>5. EndInv'
    BY <1>1 DEF SourceInv, EndInv, state, input, WholeDay
  <1> QED  BY <1>2, <1>3, <1>4, <1>5 DEF SourceInv

\* The call returns what is in the buffer.
LEMMA ReturnSource ==
  ASSUME SourceInv, calling, UNCHANGED <<input, sender, pos, nextSeq, buffer>>, Return
  PROVE  CutInv' /\ out' \in Seq(Packets) /\ ~calling'
  <1>1. /\ file' = file /\ pos' = pos /\ nextSeq' = nextSeq
        /\ building' = building /\ offset' = offset
    BY DEF input, buffer
  <1>2. CutInv'
    <2>1. PICK b : b = Behind(Len(out))
      OBVIOUS
    <2>2. b + Len(building') = pos' + 1
      BY <1>1, <2>1 DEF SourceInv, CutInv
    <2>3. \A k \in DOMAIN building' : building'[k] = file[b + k - 1]
      BY <1>1, <2>1, Zenon DEF SourceInv, CutInv
    <2>4. offset' <= Room
      BY <1>1 DEF SourceInv, CutInv
    <2>5. /\ file \in Seq(Records) /\ out \in Seq(Packets)
          /\ building' \in Seq(Records) /\ offset' \in Nat
          /\ pos' \in 0 .. Len(file) /\ nextSeq' = pos' + 1
      BY <1>1 DEF SourceInv, SourceTypeOK
    <2>6. CutsTheFile /\ \A i \in DOMAIN out : out[i].msgs # << >>
      BY DEF SourceInv, CutInv
    <2> QED  BY <1>1, <2>1, <2>2, <2>3, <2>4, <2>5, <2>6, Flushed
  <1>3. out' \in Seq(Packets)
    <2>1. /\ Behind(Len(out)) + Len(building) = pos + 1 /\ pos \in Nat /\ nextSeq = pos + 1
          /\ out \in Seq(Packets) /\ building \in Seq(Records) /\ offset \in Nat
      BY DEF SourceInv, SourceTypeOK, CutInv
    <2>2. Behind(Len(out)) \in Nat
      BY <2>1, BehindType
    <2> QED  BY <1>1, <2>1, <2>2, Returned
  <1> QED  BY <1>2, <1>3 DEF Return

LEMMA EndsSource ==
  ASSUME SourceInv, calling, NEW done \in BOOLEAN, Ends(done),
         done <=> WholeDay, done => pos + 1 >= Len(file)
  PROVE  SourceInv'
  <1>1. /\ UNCHANGED <<input, sender, pos, nextSeq, sawMessage, lastWasC, buffer>>
        /\ eof' = TRUE /\ completed' = done /\ error' = ~done /\ Return
    BY DEF Ends
  <1>2. CutInv' /\ out' \in Seq(Packets) /\ ~calling' /\ calling' \in BOOLEAN
    BY <1>1, ReturnSource, Zenon DEF Return
  <1>3. SourceTypeOK'
    <2>1. window' = Scanned'
      BY <1>1, ScanSame DEF SourceInv, SourceTypeOK, input
    <2> QED  BY <1>1, <1>2, <2>1 DEF SourceInv, SourceTypeOK, input, sender, buffer
  <1>4. ReadInv'
    BY <1>1 DEF SourceInv, ReadInv, input
  <1>5. EndInv'
    <2>1. WholeDay' <=> WholeDay
      BY <1>1 DEF WholeDay, input
    <2> QED  BY <1>1, <1>2, <2>1 DEF SourceInv, EndInv, input
  <1> QED  BY <1>2, <1>3, <1>4, <1>5 DEF SourceInv

\* A call that returns without a change of what has been read: the packet is
\* full, or the next message does not fit.
LEMMA PauseSource ==
  ASSUME SourceInv, calling, ~lastWasC, UNCHANGED <<input, sender, state, buffer>>, Return
  PROVE  SourceInv'
  <1>1. CutInv' /\ out' \in Seq(Packets) /\ ~calling' /\ calling' \in BOOLEAN
    BY ReturnSource, Zenon DEF Return, state
  <1>2. SourceTypeOK'
    <2>1. window' = Scanned'
      BY ScanSame DEF SourceInv, SourceTypeOK, input
    <2> QED  BY <1>1, <2>1 DEF SourceInv, SourceTypeOK, input, sender, state, buffer
  <1>3. ReadInv'
    BY DEF SourceInv, ReadInv, input, state
  <1>4. EndInv'
    BY <1>1, Zenon DEF SourceInv, EndInv, state, input, WholeDay
  <1> QED  BY <1>1, <1>2, <1>3, <1>4 DEF SourceInv

\* A message is the next record of the file, behind those in the buffer.
LEMMA MessageBuffer ==
  ASSUME SourceInv, ReadMessage
  PROVE  /\ building' \in Seq(Records) /\ building' # << >>
         /\ Len(building') = Len(building) + 1
         /\ building'[Len(building) + 1] = Record
         /\ \A k \in 1 .. Len(building) : building'[k] = building[k]
         /\ offset' = offset + Size(Record) /\ offset' \in Nat /\ offset' <= Room
         /\ Behind(Len(out)) + Len(building') = pos' + 1
         /\ \A k \in DOMAIN building' : building'[k] = file[Behind(Len(out)) + k - 1]
         /\ pos \in Nat /\ pos' = pos + 1 /\ pos' \in 1 .. Len(file) /\ nextSeq' = pos' + 1
         /\ UNCHANGED <<input, sender, eof, completed, error>>
         /\ Record \in Records
  <1>1. /\ building \in Seq(Records) /\ pos \in 0 .. Len(file) /\ file \in Seq(Records)
        /\ nextSeq = pos + 1 /\ offset \in Nat /\ out \in Seq(Packets)
        /\ Behind(Len(out)) + Len(building) = pos + 1
        /\ \A k \in DOMAIN building : building[k] = file[Behind(Len(out)) + k - 1]
    <2>1. calling
      BY Zenon DEF ReadMessage
    <2> QED  BY <2>1, ZenonT(60) DEF SourceInv, SourceTypeOK, CutInv
  <1>2. /\ pos < Len(file) /\ pos' = pos + 1 /\ nextSeq' = nextSeq + 1
        /\ building' = Append(building, Record) /\ offset' = offset + Size(Record)
        /\ ~(offset + Size(Record) > Room)
        /\ UNCHANGED <<input, sender, eof, completed, error>>
    BY DEF ReadMessage, Overflows
  <1>3. Record \in Records /\ Record = file[pos + 1]
    BY <1>1, <1>2 DEF Record
  <1>4. Behind(Len(out)) \in Nat
    BY <1>1, BehindType
  <1>5. PICK b \in Nat : b = Behind(Len(out))
    BY <1>4
  <1>6. PICK r : r = Record
    OBVIOUS
  <1>7. /\ building' \in Seq(Records) /\ building' # << >> /\ Len(building') = Len(building) + 1
        /\ building'[Len(building) + 1] = r
        /\ \A k \in 1 .. Len(building) : building'[k] = building[k]
    BY <1>1, <1>2, <1>3, <1>6
  <1>8. offset' \in Nat /\ offset' <= Room
    BY <1>1, <1>2, SizeType, SourceAssumption
  <1>9. b + Len(building') = pos' + 1
    BY <1>1, <1>2, <1>5, <1>7
  <1>10. \A k \in DOMAIN building' : building'[k] = file[b + k - 1]
    <2> SUFFICES ASSUME NEW k \in 1 .. Len(building) + 1 PROVE building'[k] = file[b + k - 1]
      BY <1>7
    <2>1. CASE k = Len(building) + 1
      <3>1. b + k - 1 = pos + 1
        BY <1>1, <1>5, <2>1
      <3> QED  BY <1>3, <1>6, <1>7, <2>1, <3>1
    <2>2. CASE k # Len(building) + 1
      <3>1. k \in 1 .. Len(building) /\ k \in DOMAIN building
        BY <1>1, <2>2
      <3>2. building[k] = file[b + k - 1]
        BY <1>1, <1>5, <3>1
      <3> QED  BY <1>7, <3>1, <3>2
    <2> QED  BY <2>1, <2>2
  <1>11. pos \in Nat /\ pos' \in 1 .. Len(file) /\ nextSeq' = pos' + 1
    BY <1>1, <1>2
  <1>12. /\ Behind(Len(out)) + Len(building') = pos' + 1
         /\ \A k \in DOMAIN building' : building'[k] = file[Behind(Len(out)) + k - 1]
    BY <1>5, <1>9, <1>10
  <1> QED  BY <1>2, <1>3, <1>6, <1>7, <1>8, <1>11, <1>12, Zenon

LEMMA MessageRead ==
  ASSUME SourceInv, ReadMessage
  PROVE  ReadInv'
  <1>1. /\ pos \in Nat /\ pos' = pos + 1 /\ file' = file /\ pos' \in 1 .. Len(file)
    BY MessageBuffer DEF input
  <1>2. /\ sawMessage' = TRUE /\ lastWasC' = (Record = "C") /\ ~lastWasC
        /\ Record # "zero" /\ ~Overflows /\ ~Refused
    BY DEF ReadMessage
  <1>3. file[pos + 1] = Record /\ Record \notin {"zero", "half", "cut", "bad"}
    BY <1>2 DEF Record, Refused
  <1>4. Size(Record) <= Room
    BY <1>2, SizeType, SourceAssumption DEF Overflows, SourceInv, SourceTypeOK
  <1>5. pos = 0 => Record = "O"
    BY <1>2 DEF Refused, SourceInv, ReadInv
  <1>6. \A i \in 1 .. pos' : i \in 1 .. pos \/ i = pos + 1
    BY <1>1
  <1>7. \A i \in 1 .. pos : file[i] # "C"
    <2>1. \A i \in 1 .. pos : i \in 1 .. pos - 1 \/ i = pos
      BY <1>1
    <2>2. /\ \A i \in 1 .. pos - 1 : file[i] # "C"
          /\ pos > 0 => file[pos] # "C"
      BY <1>2 DEF SourceInv, ReadInv
    <2> QED  BY <1>1, <2>1, <2>2
  <1>8. \A i \in 1 .. pos' : file'[i] \notin {"zero", "half", "cut", "bad"} /\ Size(file'[i]) <= Room
    BY <1>1, <1>3, <1>4, <1>6 DEF SourceInv, ReadInv
  <1>9. \A i \in 1 .. pos' - 1 : file'[i] # "C"
    BY <1>1, <1>7
  <1>10. pos' > 0 /\ file'[1] = "O" /\ (lastWasC' <=> file'[pos'] = "C")
    <2>1. file[1] = "O"
      BY <1>1, <1>3, <1>5 DEF SourceInv, ReadInv
    <2>2. pos' > 0 /\ file'[1] = "O" /\ file'[pos'] = Record
      BY <1>1, <1>3, <2>1
    <2> QED  BY <1>2, <2>2, Zenon
  <1>11. (sawMessage' <=> pos' > 0) /\ (lastWasC' <=> pos' > 0 /\ file'[pos'] = "C")
    BY <1>2, <1>10
  <1> QED  BY <1>8, <1>9, <1>10, <1>11 DEF ReadInv

LEMMA MessageSource == SourceInv /\ ReadMessage => SourceInv'
  <1> SUFFICES ASSUME SourceInv, ReadMessage PROVE SourceInv'
    OBVIOUS
  <1>1. /\ building' \in Seq(Records) /\ building' # << >>
        /\ offset' \in Nat /\ offset' <= Room
        /\ Behind(Len(out)) + Len(building') = pos' + 1
        /\ \A k \in DOMAIN building' : building'[k] = file[Behind(Len(out)) + k - 1]
        /\ pos' \in 1 .. Len(file) /\ nextSeq' = pos' + 1
        /\ UNCHANGED <<input, sender, eof, completed, error>>
    BY MessageBuffer
  <1>2. /\ file \in Seq(Records) /\ file' = file /\ out \in Seq(Packets)
        /\ CutsTheFile /\ \A i \in DOMAIN out : out[i].msgs # << >>
    BY <1>1, Zenon DEF SourceInv, SourceTypeOK, CutInv, input
  <1>3. ReadInv'
    BY MessageRead
  <1>4. sawMessage' \in BOOLEAN /\ lastWasC' \in BOOLEAN
    BY Zenon DEF ReadMessage
  <1>5. ~eof'
    BY <1>1 DEF SourceInv, EndInv, ReadMessage
  <1>6. CutInv' /\ out' \in Seq(Packets) /\ calling' \in BOOLEAN /\ (lastWasC' => calling')
    <2>1. CASE EndsPacket(Record)
      <3>1. Return
        BY <2>1 DEF ReadMessage
      <3>2. pos' \in 0 .. Len(file)
        BY <1>1
      <3>3. CutInv'
        BY <1>1, <1>2, <3>1, <3>2, Flushed
      <3>4. Behind(Len(out)) \in Nat
        BY <1>2, BehindType
      <3>5. nextSeq' - Len(building') \in Nat
        BY <1>1, <3>4
      <3>6. out' \in Seq(Packets)
        BY <1>1, <1>2, <3>1, <3>5, Returned
      <3>7. ~lastWasC'
        BY <2>1, Zenon DEF EndsPacket, ReadMessage
      <3> QED  BY <3>1, <3>3, <3>6, <3>7, Zenon DEF Return
    <2>2. CASE ~EndsPacket(Record)
      <3>1. UNCHANGED <<calling, out>> /\ calling
        BY <2>2 DEF ReadMessage
      <3>2. Behind(Len(out))' = Behind(Len(out))
        BY <3>1 DEF Behind
      <3>3. CutsTheFile'
        BY <1>2, <3>1 DEF CutsTheFile, Behind
      <3> QED  BY <1>1, <1>2, <3>1, <3>2, <3>3 DEF CutInv
    <2> QED  BY <2>1, <2>2
  <1>7. SourceTypeOK'
    <2>1. window' = Scanned'
      BY <1>1, ScanSame DEF SourceInv, SourceTypeOK, input
    <2>2. pos' \in 0 .. Len(file)
      BY <1>1
    <2> QED  BY <1>1, <1>2, <1>4, <1>6, <2>1, <2>2, Zenon DEF SourceInv, SourceTypeOK, input, sender
  <1>8. EndInv'
    BY <1>1, <1>5, <1>6 DEF SourceInv, EndInv
  <1> QED  BY <1>3, <1>6, <1>7, <1>8 DEF SourceInv

LEMMA ReadSource == SourceInv /\ Read => SourceInv'
  <1> SUFFICES ASSUME SourceInv, Read PROVE SourceInv'
    OBVIOUS
  <1> USE DEF SourceInv
  <1>1. CASE ReadEof
    <2>1. calling /\ pos = Len(file) /\ Ends(allowEof /\ lastWasC)
      BY <1>1 DEF ReadEof
    <2>2. PICK done \in BOOLEAN : done = (allowEof /\ lastWasC)
      BY Zenon
    <2>3. pos + 1 >= Len(file)
      BY <2>1 DEF SourceTypeOK
    <2> QED  BY <2>1, <2>2, <2>3, WholeAtEof, EndsSource, Zenon
  <1>2. CASE ReadTerminator
    <2>1. calling /\ pos < Len(file) /\ Record = "zero" /\ Ends(pos + 1 = Len(file) /\ lastWasC)
      BY <1>2 DEF ReadTerminator
    <2>2. PICK done \in BOOLEAN : done = (pos + 1 = Len(file) /\ lastWasC)
      BY Zenon
    <2>3. pos + 1 = Len(file) => pos + 1 >= Len(file)
      BY DEF SourceTypeOK
    <2> QED  BY <2>1, <2>2, <2>3, WholeAtTerminator, EndsSource, Zenon
  <1>3. CASE ReadRefused
    <2>1. calling /\ Ends(FALSE)
      BY <1>3, Zenon DEF ReadRefused
    <2>2. ~WholeDay
      BY <1>3, WholeAtRefused DEF ReadRefused
    <2> QED  BY <2>1, <2>2, EndsSource, Zenon
  <1>4. CASE ReadOverflow
    BY <1>4, PauseSource DEF ReadOverflow
  <1>5. CASE ReadMessage
    BY <1>5, MessageSource
  <1>6. CASE ReadFull
    BY <1>6, PauseSource DEF ReadFull, MoreToRead
  <1> QED  BY <1>1, <1>2, <1>3, <1>4, <1>5, <1>6 DEF Read

\* What has been read and what is in packets and the buffer are one: the
\* inductive invariant of the source, for every file and packet size.
THEOREM SourceSound == Spec => []SourceInv
  <1>1. SourceInv /\ [Next]_vars => SourceInv'
    BY CallSource, ReadSource, AfterPacketSource, StutterSource DEF Next, Done
  <1> QED  BY <1>1, InitSource, PTL DEF Spec

\* Every file of records is cut into packets in order, none lost or repeated,
\* whatever the packet sizes asked for on the way.
THEOREM CutsSound == Spec => []CutsTheFile
  <1>1. SourceInv => CutsTheFile
    BY DEF SourceInv, CutInv
  <1> QED  BY <1>1, SourceSound, PTL

\* The source completes a file exactly if it is a whole day, and then with the
\* packet that holds C.
THEOREM CompletionSound == Spec => []CompletionHonest
  <1>1. SourceInv => CompletionHonest
    <2> SUFFICES ASSUME SourceInv PROVE CompletionHonest
      OBVIOUS
    <2>1. eof => /\ completed <=> WholeDay
                 /\ completed # error
                 /\ completed => Behind(Len(out)) >= Len(file)
      BY DEF SourceInv, EndInv, CutInv
    <2>2. ASSUME ~calling, out # << >>, Event(Len(out)) = "C" PROVE eof
      <3>1. PICK n \in Nat : n = Len(out)
        BY DEF SourceInv, SourceTypeOK
      <3>2. n \in DOMAIN out /\ out[n] \in Packets /\ n # 0
        BY <2>2, <3>1 DEF SourceInv, SourceTypeOK
      <3>3. PICK k : k = Len(out[n].msgs)
        BY Zenon
      <3>4. k \in DOMAIN out[n].msgs /\ k \in Nat /\ out[n].first \in Nat
        BY <3>2, <3>3 DEF Packets, SourceInv, CutInv
      <3>5. out[n].first + k = pos + 1
        BY <2>2, <3>1, <3>2, <3>3 DEF SourceInv, CutInv, Behind
      <3>6. out[n].msgs[k] = file[out[n].first + k - 1]
        BY <3>2, <3>4 DEF SourceInv, CutInv, CutsTheFile
      <3>7. file[pos] = "C" /\ pos > 0
        <4>1. pos \in Nat
          BY DEF SourceInv, SourceTypeOK
        <4>2. out[n].first + k - 1 = pos
          BY <3>4, <3>5, <4>1
        <4>3. pos # 0
          <5>1. out[n].first = Behind(n - 1)
            BY <3>2 DEF SourceInv, CutInv, CutsTheFile
          <5>2. Behind(n - 1) > 0
            <6>1. CASE n = 1
              BY <6>1 DEF Behind
            <6>2. CASE n # 1
              <7>1. PICK m \in DOMAIN out : m = n - 1
                BY <3>1, <3>2, <6>2 DEF SourceInv, SourceTypeOK
              <7>2. m # 0 /\ out[m] \in Packets /\ out[m].msgs # << >>
                BY <7>1 DEF SourceInv, SourceTypeOK, CutInv
              <7>3. out[m].first \in Nat /\ Len(out[m].msgs) \in Nat \ {0}
                BY <7>2 DEF Packets
              <7> QED  BY <7>1, <7>2, <7>3 DEF Behind
            <6> QED  BY <6>1, <6>2
          <5>3. k > 0
            BY <3>2, <3>3, <3>4 DEF Packets
          <5> QED  BY <3>4, <3>5, <4>1, <5>1, <5>2, <5>3
        <4> QED  BY <2>2, <3>1, <3>3, <3>6, <4>1, <4>2, <4>3 DEF Event
      <3> QED  BY <2>2, <3>7 DEF SourceInv, ReadInv, EndInv
    <2> QED  BY <2>1, <2>2 DEF CompletionHonest
  <1> QED  BY <1>1, SourceSound, PTL
-----------------------------------------------------------------------------
\* Induction over the naturals, for a set.
LEMMA NatSet ==
  ASSUME NEW S, 0 \in S, \A n \in Nat : n \in S => n + 1 \in S
  PROVE  \A n \in Nat : n \in S
  <1> DEFINE Less == {ss \in Nat \X Nat : ss[1] < ss[2]}
             T    == {n \in Nat : n \notin S}
  <1>1. IsWellFoundedOn(Less, Nat)
    BY NatLessThanWellFounded DEF OpToRel
  <1>2. ASSUME NEW m \in Nat, NEW n \in Nat, <<m, n>> \notin Less
        PROVE  n <= m
    BY <1>2 DEF Less
  <1>3. T \subseteq Nat
    OBVIOUS
  <1> SUFFICES ASSUME T # {} PROVE FALSE
    OBVIOUS
  <1> HIDE DEF Less
  <1>4. PICK n \in T : \A m \in T : <<m, n>> \notin Less
    <2> HIDE DEF T
    <2> QED  BY <1>1, <1>3, WFMin, Zenon
  <1>5. n # 0 /\ n - 1 \in Nat
    OBVIOUS
  <1>6. PICK m \in Nat : m = n - 1 /\ ~(n <= m) /\ n = m + 1
    BY <1>5
  <1>7. m \notin T
    BY <1>2, <1>4, <1>6, Zenon
  <1>8. n \in S
    BY <1>6, <1>7
  <1> QED  BY <1>8

LEMMA ScanExists ==
  ASSUME NEW f, NEW N \in Nat
  PROVE  \E g : g = [k \in 0 .. N |-> IF k = 0 THEN ScanStart ELSE ScanRecord(g[k - 1], f[k])]
  <1> DEFINE Good(g, n) == g = [k \in 0 .. n |-> IF k = 0 THEN ScanStart
                                                 ELSE ScanRecord(g[k - 1], f[k])]
             S == {n \in Nat : \E g : Good(g, n)}
  <1>1. 0 \in S
    <2>1. Good([k \in 0 .. 0 |-> ScanStart], 0)
      OBVIOUS
    <2> QED  BY <2>1, Zenon
  <1>2. ASSUME NEW n \in Nat, n \in S PROVE n + 1 \in S
    <2>1. PICK g : Good(g, n)
      BY <1>2
    <2>2. PICK last : last = ScanRecord(g[n], f[n + 1])
      OBVIOUS
    <2> DEFINE h == [k \in 0 .. n + 1 |-> IF k = n + 1 THEN last ELSE g[k]]
    <2>3. ASSUME NEW k \in 0 .. n + 1
          PROVE  h[k] = IF k = 0 THEN ScanStart ELSE ScanRecord(h[k - 1], f[k])
      <3>1. CASE k = n + 1
        <4>1. h[n] = g[n] /\ k - 1 = n /\ k # 0
          BY <3>1
        <4> QED  BY <2>2, <3>1, <4>1
      <3>2. CASE k # n + 1
        <4>1. k \in 0 .. n /\ h[k] = g[k] /\ (k # 0 => h[k - 1] = g[k - 1])
          BY <3>2
        <4>2. g[k] = IF k = 0 THEN ScanStart ELSE ScanRecord(g[k - 1], f[k])
          BY <2>1, <4>1
        <4> HIDE DEF h
        <4> QED  BY <4>1, <4>2, Zenon
      <3> QED  BY <3>1, <3>2
    <2>4. h = [k \in 0 .. n + 1 |-> h[k]]
      OBVIOUS
    <2> HIDE DEF h
    <2>5. Good(h, n + 1)
      BY <2>3, <2>4, Zenon
    <2> QED  BY <2>5
  <1> HIDE DEF S
  <1>3. N \in S
    BY <1>1, <1>2, NatSet
  <1> QED  BY <1>3 DEF S

\* The recursion of the scan.
LEMMA ScanSteps ==
  ASSUME file \in Seq(Records)
  PROVE  /\ Scans[0] = ScanStart
         /\ \A k \in 1 .. Len(file) : Scans[k] = ScanRecord(Scans[k - 1], file[k])
  <1>1. PICK n \in Nat : n = Len(file)
    OBVIOUS
  <1>2. PICK f : f = file
    OBVIOUS
  <1>3. \E g : g = [k \in 0 .. n |-> IF k = 0 THEN ScanStart ELSE ScanRecord(g[k - 1], f[k])]
    BY ScanExists, Zenon
  <1>4. Scans = [k \in 0 .. n |-> IF k = 0 THEN ScanStart ELSE ScanRecord(Scans[k - 1], file[k])]
    BY <1>1, <1>2, <1>3, Zenon DEF Scans
  <1> QED  BY <1>1, <1>4

ScanStates == [index : Nat \ {0}, count : Nat, used : Nat, afterS : BOOLEAN,
               ss : Nat, sq : Nat, over : BOOLEAN]

\* v is what the scan makes of w when it reads the message r.
Scanning(w, r, v) ==
  /\ v.index = IF StartsPacket(w, r) THEN w.index + 1 ELSE w.index
  /\ v.count = IF StartsPacket(w, r) THEN 1 ELSE w.count + 1
  /\ v.used = IF StartsPacket(w, r) THEN Size(r) ELSE w.used + Size(r)
  /\ v.afterS <=> r = "S"
  /\ v.ss = IF r = "S" THEN v.index ELSE w.ss
  /\ v.sq = IF r = "Q" /\ w.ss # 0 THEN v.index ELSE 0
  /\ v.over <=> r = "Q" /\ w.ss # 0
  /\ v \in ScanStates

LEMMA ScanMessage ==
  ASSUME NEW w \in ScanStates, ~w.over, NEW r, r \notin {"zero", "half", "cut"},
         NEW v, v = ScanRecord(w, r)
  PROVE  Scanning(w, r, v)
  <1>1. PICK fresh \in BOOLEAN : fresh = StartsPacket(w, r)
    BY Zenon DEF StartsPacket
  <1>2. PICK index : index = IF fresh THEN w.index + 1 ELSE w.index
    OBVIOUS
  <1>3. PICK found \in BOOLEAN : found = (r = "Q" /\ w.ss # 0)
    BY Zenon
  <1>4. /\ w.index \in Nat \ {0} /\ w.count \in Nat /\ w.used \in Nat /\ w.ss \in Nat
        /\ Size(r) \in Nat
    BY SizeType DEF ScanStates
  <1>5. PICK c, u, s, q : /\ c = 1 + (IF fresh THEN 0 ELSE w.count)
                          /\ u = Size(r) + (IF fresh THEN 0 ELSE w.used)
                          /\ s = IF r = "S" THEN index ELSE w.ss
                          /\ q = IF found THEN index ELSE 0
    OBVIOUS
  <1>6. PICK a \in BOOLEAN : a = (r = "S")
    BY Zenon
  <1>7. v = [index |-> index, count |-> c, used |-> u, afterS |-> a,
             ss |-> s, sq |-> q, over |-> found]
    BY <1>1, <1>2, <1>3, <1>5, <1>6, Zenon DEF ScanRecord
  <1>8. index \in Nat \ {0}
    BY <1>2, <1>4
  <1>9. /\ v.index = index /\ v.count = c /\ v.used = u /\ v.afterS = a
        /\ v.ss = s /\ v.sq = q /\ v.over = found
    BY <1>7
  <1>10. c = (IF fresh THEN 1 ELSE w.count + 1) /\ u = (IF fresh THEN Size(r) ELSE w.used + Size(r))
    BY <1>4, <1>5
  <1>11. c \in Nat /\ u \in Nat /\ s \in Nat /\ q \in Nat
    BY <1>4, <1>5, <1>8
  <1>12. v \in ScanStates
    BY <1>7, <1>8, <1>11 DEF ScanStates
  <1> QED  BY <1>1, <1>2, <1>3, <1>5, <1>6, <1>9, <1>10, <1>12, Zenon DEF Scanning

\* Once over, the scan keeps what it found.
LEMMA ScanOver ==
  ASSUME NEW w \in ScanStates, NEW r, w.over \/ r \in {"zero", "half", "cut"},
         NEW v, v = ScanRecord(w, r)
  PROVE  v \in ScanStates /\ v.over /\ v.ss = w.ss /\ v.sq = w.sq
  BY Zenon DEF ScanRecord, ScanStates

LEMMA ScanType ==
  ASSUME file \in Seq(Records)
  PROVE  \A k \in 0 .. Len(file) : Scans[k] \in ScanStates
  <1>1. PICK w : w = Scans
    OBVIOUS
  <1>2. w[0] = ScanStart /\ \A k \in 1 .. Len(file) : w[k] = ScanRecord(w[k - 1], file[k])
    BY <1>1, ScanSteps
  <1> DEFINE S == {n \in Nat : n <= Len(file) => w[n] \in ScanStates}
  <1>3. 0 \in S
    <2>1. ScanStart \in ScanStates
      <3>1. FALSE \in BOOLEAN /\ 1 \in Nat \ {0} /\ 0 \in Nat
        OBVIOUS
      <3> QED  BY <3>1, Zenon DEF ScanStart, ScanStates
    <2> QED  BY <1>2, <2>1
  <1>4. ASSUME NEW n \in Nat, n \in S PROVE n + 1 \in S
    <2> SUFFICES ASSUME n + 1 <= Len(file) PROVE w[n + 1] \in ScanStates
      OBVIOUS
    <2>1. w[n] \in ScanStates
      BY <1>4
    <2>2. n + 1 \in 1 .. Len(file) /\ (n + 1) - 1 = n
      OBVIOUS
    <2>3. w[n + 1] = ScanRecord(w[n], file[n + 1])
      BY <1>2, <2>2
    <2>4. CASE w[n].over \/ file[n + 1] \in {"zero", "half", "cut"}
      BY <2>1, <2>3, <2>4, ScanOver, Zenon
    <2>5. CASE ~w[n].over /\ file[n + 1] \notin {"zero", "half", "cut"}
      BY <2>1, <2>3, <2>5, ScanMessage, Zenon DEF Scanning
    <2> QED  BY <2>4, <2>5, Zenon
  <1> HIDE DEF S
  <1>5. \A n \in Nat : n \in S
    BY <1>3, <1>4, NatSet
  <1> QED  BY <1>1, <1>5 DEF S

\* What the scan had found when it was over is what it returns.
LEMMA ScanStable ==
  ASSUME file \in Seq(Records), NEW j \in 0 .. Len(file), Scans[j].over
  PROVE  Scans[Len(file)].ss = Scans[j].ss /\ Scans[Len(file)].sq = Scans[j].sq
  <1>1. PICK w : w = Scans
    OBVIOUS
  <1>2. \A k \in 1 .. Len(file) : w[k] = ScanRecord(w[k - 1], file[k])
    BY <1>1, ScanSteps
  <1>3. \A k \in 0 .. Len(file) : w[k] \in ScanStates
    BY <1>1, ScanType
  <1> DEFINE S == {n \in Nat : j + n <= Len(file) =>
                               w[j + n].over /\ w[j + n].ss = w[j].ss /\ w[j + n].sq = w[j].sq}
  <1>4. 0 \in S
    BY <1>1
  <1>5. ASSUME NEW n \in Nat, n \in S PROVE n + 1 \in S
    <2>1. PICK m \in Nat : m = j + n
      OBVIOUS
    <2> SUFFICES ASSUME m + 1 <= Len(file)
                 PROVE  w[m + 1].over /\ w[m + 1].ss = w[j].ss /\ w[m + 1].sq = w[j].sq
      BY <2>1
    <2>2. w[m].over /\ w[m].ss = w[j].ss /\ w[m].sq = w[j].sq
      BY <1>5, <2>1
    <2>3. m + 1 \in 1 .. Len(file) /\ (m + 1) - 1 = m /\ m \in 0 .. Len(file)
      OBVIOUS
    <2>4. w[m + 1] = ScanRecord(w[m], file[m + 1]) /\ w[m] \in ScanStates
      BY <1>2, <1>3, <2>3
    <2> QED  BY <2>2, <2>4, ScanOver
  <1> HIDE DEF S
  <1>6. \A n \in Nat : n \in S
    BY <1>4, <1>5, NatSet
  <1>7. PICK n \in Nat : j + n = Len(file)
    <2>1. Len(file) - j \in Nat /\ j + (Len(file) - j) = Len(file)
      OBVIOUS
    <2> QED  BY <2>1, Zenon
  <1>8. n \in S /\ j + n <= Len(file)
    BY <1>6, <1>7
  <1> QED  BY <1>1, <1>7, <1>8 DEF S
-----------------------------------------------------------------------------
\* No message of packet i but its last is S or Q.
Plain(i) == \A k \in 1 .. Len(out[i].msgs) - 1 : ~EndsPacket(out[i].msgs[k])

\* The scan is right about the window from packet o to packet c.
Right(o, c) ==
  /\ window.found
  /\ ~timestamp => window.packets = c - o
  /\ timestamp => \A i \in o + 1 .. c : Len(out[i].msgs) = 1

LEMMA WindowParts ==
  WindowExact <=> /\ \A i \in DOMAIN out : Plain(i)
                  /\ \A c \in DOMAIN out : \A o \in 1 .. c - 1 : Premarket(o, c) => Right(o, c)
  BY DEF WindowExact, Plain, Right

\* More packets change nothing about the earlier ones.
LEMMA Grown ==
  ASSUME out \in Seq(Packets), out' \in Seq(Packets), Len(out') >= Len(out),
         \A i \in 1 .. Len(out) : out'[i] = out[i],
         UNCHANGED input, WindowExact
  PROVE  /\ \A i \in 1 .. Len(out) : Event(i)' = Event(i) /\ Plain(i)'
         /\ \A c \in 1 .. Len(out) : \A o \in 1 .. c - 1 : Premarket(o, c)' => Right(o, c)'
  <1>1. /\ \A i \in DOMAIN out : Plain(i)
        /\ \A c \in DOMAIN out : \A o \in 1 .. c - 1 : Premarket(o, c) => Right(o, c)
    BY WindowParts
  <1>2. ASSUME NEW i \in 1 .. Len(out) PROVE Event(i)' = Event(i) /\ Plain(i)'
    <2>1. out'[i] = out[i] /\ Plain(i)
      BY <1>1
    <2> QED  BY <2>1 DEF Event, Plain
  <1>3. ASSUME NEW c \in 1 .. Len(out), NEW o \in 1 .. c - 1, Premarket(o, c)'
        PROVE  Right(o, c)'
    <2>1. \A i \in 1 .. c : i \in 1 .. Len(out) /\ Event(i)' = Event(i) /\ out'[i] = out[i]
      BY <1>2
    <2>2. Premarket(o, c)
      <3>1. /\ Event(o)' = "S" /\ Event(c)' = "Q"
            /\ \A i \in o + 1 .. c - 1 : Event(i)' # "S"
            /\ \A i \in 1 .. c - 1 : Event(i)' = "Q" => \A j \in 1 .. i - 1 : Event(j)' # "S"
        BY <1>3 DEF Premarket
      <3>2. Event(o) = "S" /\ Event(c) = "Q"
        BY <2>1, <3>1
      <3>3. \A i \in o + 1 .. c - 1 : Event(i) # "S"
        <4>1. \A i \in o + 1 .. c - 1 : i \in 1 .. c
          OBVIOUS
        <4> QED  BY <2>1, <3>1, <4>1
      <3>4. \A i \in 1 .. c - 1 : Event(i) = "Q" => \A j \in 1 .. i - 1 : Event(j) # "S"
        <4>1. \A i \in 1 .. c - 1 : i \in 1 .. c /\ \A j \in 1 .. i - 1 : j \in 1 .. c
          OBVIOUS
        <4> QED  BY <2>1, <3>1, <4>1
      <3> QED  BY <3>2, <3>3, <3>4 DEF Premarket
    <2>3. Right(o, c)
      BY <1>1, <2>2
    <2>4. \A i \in o + 1 .. c : out'[i] = out[i]
      <3>1. \A i \in o + 1 .. c : i \in 1 .. c
        OBVIOUS
      <3> QED  BY <2>1, <3>1
    <2> QED  BY <2>3, <2>4 DEF Right, input
  <1> QED  BY <1>2, <1>3

\* The packet just made is the only one whose window is new.
LEMMA NewPacket ==
  ASSUME out \in Seq(Packets), out' \in Seq(Packets), building' \in Seq(Records),
         NEW n \in Nat, n = Len(out), Len(out') = n + 1,
         \A i \in 1 .. Len(out) : out'[i] = out[i],
         out'[n + 1].msgs = building',
         \A k \in 1 .. Len(building') - 1 : ~EndsPacket(building'[k]),
         UNCHANGED input, WindowExact,
         \A o \in 1 .. n : Premarket(o, n + 1)' => Right(o, n + 1)'
  PROVE  WindowExact'
  <1>1. PICK m \in Nat : m = n + 1
    OBVIOUS
  <1>2. /\ \A i \in 1 .. n : Event(i)' = Event(i) /\ Plain(i)'
        /\ \A c \in 1 .. n : \A o \in 1 .. c - 1 : Premarket(o, c)' => Right(o, c)'
    <2>1. Len(out') >= Len(out)
      OBVIOUS
    <2> QED  BY <2>1, Grown, Zenon
  <1>3. Plain(m)'
    BY <1>1, Zenon DEF Plain
  <1>4. \A i \in DOMAIN out' : i \in 1 .. n \/ i = m
    BY <1>1
  <1>5. \A i \in DOMAIN out' : Plain(i)'
    BY <1>2, <1>3, <1>4, Zenon
  <1>6. \A c \in DOMAIN out' : \A o \in 1 .. c - 1 : Premarket(o, c)' => Right(o, c)'
    <2>1. \A o \in 1 .. m - 1 : Premarket(o, m)' => Right(o, m)'
      BY <1>1
    <2> QED  BY <1>2, <1>4, <2>1, Zenon
  <1>7. WindowExact' <=> /\ \A i \in DOMAIN out' : Plain(i)'
                         /\ \A c \in DOMAIN out' : \A o \in 1 .. c - 1 : Premarket(o, c)' => Right(o, c)'
    BY Zenon DEF WindowExact, Plain, Right
  <1> QED  BY <1>5, <1>6, <1>7, Zenon

LEMMA InitReplay == Init => ReplayInv
  <1> SUFFICES ASSUME Init PROVE ReplayInv
    OBVIOUS
  <1>1. SourceInv
    BY InitSource
  <1>2. out = << >> /\ pos = 0 /\ calling = FALSE /\ active = FALSE /\ handled = 0 /\ perPacket = configured
    BY DEF Init
  <1>3. SizeInv
    BY <1>2 DEF SizeInv
  <1>4. Scans[0] = ScanStart
    BY <1>1, ScanSteps, Zenon DEF SourceInv, SourceTypeOK
  <1>5. Scans[0].ss = 0 /\ Scans[0].sq = 0 /\ Scans[0].over = FALSE
    BY <1>4 DEF ScanStart
  <1>6. EventInv
    BY <1>2, <1>5 DEF EventInv, WindowExact, NoneClosed
  <1>7. ~Open
    BY <1>2, <1>5 DEF Open
  <1> QED  BY <1>1, <1>3, <1>6, <1>7 DEF ReplayInv, WindowInv, ActiveInv

\* Without a new packet the windows are the same.
LEMMA SameWindow ==
  ASSUME WindowExact, UNCHANGED <<input, out>>
  PROVE  WindowExact'
  <1>1. \A o, c : Premarket(o, c)' <=> Premarket(o, c)
    BY Zenon DEF Premarket, Event
  <1> QED  BY <1>1, ZenonT(60) DEF WindowExact, input

\* Without a new packet or a new record the events are the same.
LEMMA SameEvents ==
  ASSUME EventInv, UNCHANGED <<input, pos, out>>
  PROVE  /\ EventInv' /\ (Open' <=> Open)
         /\ \A o : OpenedBy(o)' <=> OpenedBy(o)
         /\ Scans' = Scans
  <1>1. Scans' = Scans /\ Scanned' = Scanned
    BY ScanSame
  <1>2. WindowExact'
    BY SameWindow, Zenon DEF EventInv
  <1>3. EventInv'
    BY <1>1, <1>2, ZenonT(60) DEF EventInv, NoneClosed, Event
  <1> QED  BY <1>1, <1>3 DEF Open, OpenedBy, Event

LEMMA CallReplay == ReplayInv /\ Call => ReplayInv'
  <1> SUFFICES ASSUME ReplayInv, Call PROVE ReplayInv'
    OBVIOUS
  <1>1. SourceInv'
    BY CallSource DEF ReplayInv
  <1>2. /\ UNCHANGED <<input, sender, state, out>> /\ calling' = TRUE /\ ~calling
        /\ building' = << >> /\ handled = Len(out)
    BY DEF Call
  <1>3. SizeInv'
    BY <1>2 DEF ReplayInv, SizeInv, SourceInv, SourceTypeOK, input, sender
  <1>4. /\ EventInv' /\ (Open' <=> Open) /\ (\A o : OpenedBy(o)' <=> OpenedBy(o)) /\ Scans' = Scans
    BY <1>2, SameEvents DEF ReplayInv, WindowInv, state
  <1>5. ASSUME NEW o, Opened(o) PROVE Opened(o)'
    <2>1. Alike(o)' <=> Alike(o)
      BY <1>2, <1>4, Zenon DEF Alike, StartsPacket, Record, state, input
    <2> QED  BY <1>2, <1>4, <1>5, <2>1, Zenon DEF Opened, input
  <1>6. Open' => \E o \in DOMAIN out' : Opened(o)'
    BY <1>2, <1>4, <1>5, Zenon DEF ReplayInv, WindowInv
  <1>7. ActiveInv'
    BY <1>2, <1>4, Zenon DEF ReplayInv, WindowInv, ActiveInv, input, sender, Event
  <1> QED  BY <1>1, <1>3, <1>4, <1>6, <1>7 DEF ReplayInv, WindowInv

LEMMA StutterReplay == ReplayInv /\ UNCHANGED vars => ReplayInv'
  <1> SUFFICES ASSUME ReplayInv, UNCHANGED vars PROVE ReplayInv'
    OBVIOUS
  <1>1. SourceInv'
    BY StutterSource DEF ReplayInv
  <1>2. UNCHANGED <<input, sender, state, out, calling, buffer>>
    BY DEF vars
  <1>3. SizeInv'
    BY <1>2 DEF ReplayInv, SizeInv, input, sender, buffer
  <1>4. /\ EventInv' /\ (Open' <=> Open) /\ (\A o : OpenedBy(o)' <=> OpenedBy(o)) /\ Scans' = Scans
    BY <1>2, SameEvents DEF ReplayInv, WindowInv, state
  <1>5. ASSUME NEW o, Opened(o) PROVE Opened(o)'
    <2>1. Alike(o)' <=> Alike(o)
      BY <1>2, <1>4, Zenon DEF Alike, StartsPacket, Record, state, input, buffer
    <2> QED  BY <1>2, <1>4, <1>5, <2>1, Zenon DEF Opened, input
  <1>6. Open' => \E o \in DOMAIN out' : Opened(o)'
    BY <1>2, <1>4, <1>5 DEF ReplayInv, WindowInv
  <1>7. ActiveInv'
    BY <1>2, <1>4, Zenon DEF ReplayInv, WindowInv, ActiveInv, input, sender, Event
  <1> QED  BY <1>1, <1>3, <1>4, <1>6, <1>7 DEF ReplayInv, WindowInv

LEMMA AfterPacketReplay == ReplayInv /\ AfterPacket => ReplayInv'
  <1> SUFFICES ASSUME ReplayInv, AfterPacket PROVE ReplayInv'
    OBVIOUS
  <1>1. SourceInv'
    BY AfterPacketSource DEF ReplayInv
  <1>2. /\ UNCHANGED <<input, state, calling, buffer, out>> /\ ~calling
        /\ handled' = Len(out) /\ handled < Len(out) /\ handled \in Nat /\ Len(out) \in Nat
    BY DEF AfterPacket, ReplayInv, SourceInv, SourceTypeOK
  <1>3. PICK opens, closes \in BOOLEAN :
          /\ opens = (Event(Len(out)) = "S" /\ window.found /\ ~active)
          /\ closes = (Event(Len(out)) = "Q")
          /\ active' = ((active \/ opens) /\ ~closes)
          /\ perPacket' = IF timestamp /\ opens THEN 1
                          ELSE IF timestamp /\ closes THEN configured ELSE perPacket
    BY Zenon DEF AfterPacket
  <1>4. SizeInv'
    <2>1. timestamp /\ active' => perPacket' = 1
      BY <1>3, ZenonT(60) DEF ReplayInv, SizeInv
    <2>2. ~timestamp => perPacket' = configured
      BY <1>3 DEF ReplayInv, SizeInv
    <2> QED  BY <1>2, <2>1, <2>2 DEF SizeInv, input
  <1>5. /\ EventInv' /\ (Open' <=> Open) /\ (\A o : OpenedBy(o)' <=> OpenedBy(o)) /\ Scans' = Scans
    BY <1>2, SameEvents DEF ReplayInv, WindowInv, state
  <1>6. ASSUME NEW o, Opened(o) PROVE Opened(o)'
    <2>1. Alike(o)' <=> Alike(o)
      BY <1>2, <1>5, Zenon DEF Alike, StartsPacket, Record, state, input, buffer
    <2> QED  BY <1>2, <1>5, <1>6, <2>1, Zenon DEF Opened, input
  <1>7. Open' => \E o \in DOMAIN out' : Opened(o)'
    BY <1>2, <1>5, <1>6 DEF ReplayInv, WindowInv
  <1>8. ActiveInv'
    <2> SUFFICES ASSUME Open, window.found PROVE active'
      BY <1>2, <1>5 DEF ActiveInv, input
    <2>1. PICK o \in DOMAIN out : OpenedBy(o)
      BY DEF ReplayInv, WindowInv, Opened
    <2>2. Event(Len(out)) # "Q"
      <3>1. CASE o = Len(out)
        BY <2>1, <3>1 DEF OpenedBy
      <3>2. CASE o # Len(out)
        <4>1. Len(out) \in o + 1 .. Len(out)
          BY <1>2, <2>1, <3>2 DEF ReplayInv, SourceInv, SourceTypeOK
        <4> QED  BY <2>1, <4>1 DEF OpenedBy
      <3> QED  BY <3>1, <3>2
    <2>3. Event(Len(out)) # "S" => active
      BY DEF ReplayInv, WindowInv, ActiveInv
    <2> QED  BY <1>3, <2>2, <2>3, Zenon
  <1> QED  BY <1>1, <1>4, <1>5, <1>7, <1>8, Zenon DEF ReplayInv, WindowInv

\* The call returns what is in the buffer, which holds neither S nor Q.
LEMMA ReturnReplay ==
  ASSUME ReplayInv, calling, SourceInv',
         UNCHANGED <<input, sender, pos, nextSeq, buffer>>, Return,
         eof' \/ (~timestamp /\ Open /\ building # << >> => StartsPacket(Scans[pos], Record))
  PROVE  ReplayInv'
  <1> USE DEF ReplayInv
  <1>1. /\ building' = building /\ offset' = offset /\ pos' = pos /\ nextSeq' = nextSeq
        /\ ~calling' /\ handled' = handled /\ active' = active /\ perPacket' = perPacket
        /\ timestamp' = timestamp /\ window' = window /\ file' = file /\ configured' = configured
    BY Zenon DEF Return, buffer, sender, input
  <1>2. /\ out \in Seq(Packets) /\ building \in Seq(Records) /\ offset \in Nat /\ pos \in Nat
        /\ handled \in Nat /\ Len(out) \in Nat /\ Len(building) \in Nat
        /\ out' \in Seq(Packets) /\ perPacket \in Nat \ {0}
    BY DEF SourceInv, SourceTypeOK
  <1>3. /\ handled = Len(out) /\ Len(building) <= perPacket
        /\ \A k \in DOMAIN building : ~EndsPacket(building[k])
    BY DEF SizeInv
  <1>4. Behind(Len(out)) + Len(building) = pos + 1 /\ nextSeq = pos + 1 /\ Behind(Len(out)) \in Nat
    <2>1. Behind(Len(out)) \in Nat
      BY <1>2, BehindType
    <2> QED  BY <2>1, Zenon DEF SourceInv, CutInv, SourceTypeOK
  <1>5. /\ building = << >> => out' = out
        /\ building # << >> => Len(out') = Len(out) + 1 /\ out'[Len(out) + 1].msgs = building
        /\ Len(out') >= Len(out)
        /\ \A i \in 1 .. Len(out) : out'[i] = out[i]
    <2>1. nextSeq' - Len(building') \in Nat
      BY <1>1, <1>2, <1>4
    <2> QED  BY <1>1, <1>2, <2>1, Returned, Zenon
  <1>6. SizeInv'
    BY <1>1, <1>2, <1>3, <1>5, Zenon DEF SizeInv
  <1>7. eof = FALSE
    BY Zenon DEF SourceInv, EndInv, SourceTypeOK
  <1>8. CASE building = << >>
    <2>1. /\ EventInv' /\ (Open' <=> Open) /\ (\A o : OpenedBy(o)' <=> OpenedBy(o)) /\ Scans' = Scans
      BY <1>1, <1>5, <1>8, SameEvents, ZenonT(60) DEF WindowInv
    <2>2. ASSUME NEW o, Opened(o) PROVE Opened(o)'
      <3>1. Alike(o) => Alike(o)'
        BY <1>1, <1>5, <1>7, <1>8, <2>1, Zenon DEF Alike, StartsPacket, Record
      <3> QED  BY <1>1, <1>5, <1>8, <2>1, <2>2, <3>1, Zenon DEF Opened
    <2>3. Open' => \E o \in DOMAIN out' : Opened(o)'
      BY <1>5, <1>8, <2>1, <2>2, Zenon DEF WindowInv
    <2>4. ActiveInv'
      BY <1>1, <1>5, <1>8, <2>1, Zenon DEF WindowInv, ActiveInv, Event
    <2> QED  BY <1>6, <2>1, <2>3, <2>4 DEF WindowInv
  <1>9. CASE building # << >>
    <2>1. PICK n \in Nat : n = Len(out)
      BY <1>2
    <2>2. PICK m \in Nat : m = n + 1
      OBVIOUS
    <2>3. Len(out') = m /\ out'[m].msgs = building /\ DOMAIN out' = 1 .. m
      BY <1>2, <1>5, <1>9, <2>1, <2>2
    <2>4. Event(m)' \notin {"S", "Q"}
      <3>1. Event(m)' = building[Len(building)]
        BY <2>3 DEF Event
      <3>2. Len(building) \in DOMAIN building
        BY <1>2, <1>9
      <3> QED  BY <1>3, <3>1, <3>2, Zenon DEF EndsPacket
    <2>5. /\ Scans' = Scans /\ (Open' <=> Open)
          /\ \A k \in 0 .. pos : Scans[k].over <=> Scans[k].sq # 0
      BY <1>1, ScanSame, ZenonT(60) DEF Open, WindowInv, EventInv
    <2>6. \A i \in 1 .. n : Event(i)' = Event(i)
      BY <1>2, <1>5, <2>1, Grown, Zenon DEF WindowInv, EventInv
    <2>7. WindowExact'
      <3>1. \A o \in 1 .. n : ~Premarket(o, m)'
        BY <2>4 DEF Premarket
      <3>2. \A k \in 1 .. Len(building) - 1 : ~EndsPacket(building[k])
        BY <1>2, <1>3
      <3>3. WindowExact
        BY Zenon DEF WindowInv, EventInv
      <3> QED  BY <1>1, <1>2, <1>5, <2>1, <2>2, <2>3, <3>1, <3>2, <3>3, NewPacket, Zenon
    <2>8. DOMAIN out = 1 .. n /\ \A i \in DOMAIN out' : i \in DOMAIN out \/ i = m
      BY <1>2, <2>1, <2>2, <2>3
    <2>9. EventInv'
      <3>1. Scans[pos].ss = 0 => \A i \in DOMAIN out' : Event(i)' # "S"
        BY <2>4, <2>6, <2>8, Zenon DEF WindowInv, EventInv
      <3>2. Scans[pos].over =>
              \E i \in DOMAIN out' : Event(i)' = "Q" /\ \E j \in 1 .. i - 1 : Event(j)' = "S"
        <4> SUFFICES ASSUME Scans[pos].over
                     PROVE  \E i \in DOMAIN out' : Event(i)' = "Q" /\ \E j \in 1 .. i - 1 : Event(j)' = "S"
          BY Zenon
        <4>1. PICK i \in 1 .. n : Event(i) = "Q" /\ \E j \in 1 .. i - 1 : Event(j) = "S"
          BY <2>8, Zenon DEF WindowInv, EventInv
        <4>2. PICK j \in 1 .. i - 1 : Event(j) = "S"
          BY <4>1, Zenon
        <4>3. i \in DOMAIN out' /\ Event(i)' = "Q" /\ Event(j)' = "S"
          BY <2>2, <2>3, <2>6, <4>1, <4>2
        <4> QED  BY <4>2, <4>3
      <3>3. ~Scans[pos].over => NoneClosed'
        <4> SUFFICES ASSUME NoneClosed, NEW i \in DOMAIN out', Event(i)' = "Q", NEW j \in 1 .. i - 1
                     PROVE  Event(j)' # "S"
          BY Zenon DEF WindowInv, EventInv, NoneClosed
        <4>1. i \in 1 .. n /\ j \in 1 .. n
          BY <2>4, <2>8
        <4>2. Event(i) = "Q" /\ Event(j)' = Event(j)
          BY <2>6, <4>1, Zenon
        <4> QED  BY <2>8, <4>1, <4>2, Zenon DEF NoneClosed
      <3> QED  BY <1>1, <2>5, <2>7, <3>1, <3>2, <3>3, ZenonT(60) DEF EventInv
    <2>10. ActiveInv'
      BY <1>1, <1>3, <2>5, Zenon DEF WindowInv, ActiveInv
    <2>11. Open' => \E o \in DOMAIN out' : Opened(o)'
      <3> SUFFICES ASSUME Open PROVE \E o \in DOMAIN out' : Opened(o)'
        BY <2>5, Zenon
      <3>1. PICK o \in DOMAIN out : Opened(o)
        BY Zenon DEF WindowInv
      <3>2. o \in 1 .. n /\ o \in DOMAIN out'
        BY <2>2, <2>3, <2>8
      <3>3. OpenedBy(o)'
        <4>1. Event(o)' = "S"
          BY <2>6, <3>1, <3>2, Zenon DEF Opened, OpenedBy
        <4>2. \A i \in o + 1 .. m : Event(i)' \notin {"S", "Q"}
          <5>1. \A i \in o + 1 .. m : (i \in o + 1 .. n /\ i \in 1 .. n) \/ i = m
            BY <2>2, <3>2
          <5> QED  BY <2>1, <2>4, <2>6, <3>1, <5>1, Zenon DEF Opened, OpenedBy
        <4> QED  BY <2>3, <3>2, <4>1, <4>2, Zenon DEF OpenedBy
      <3>4. ~timestamp' => Alike(o)'
        <4> SUFFICES ASSUME ~timestamp PROVE Alike(o)'
          BY <1>1
        <4>1. PICK w : w = Scans[pos] /\ w = Scans'[pos']
          BY <1>1, <2>5, ZenonT(60)
        <4>2. w.index + o = w.ss + n + 1
          BY <1>9, <2>1, <3>1, <4>1, Zenon DEF Opened, Alike
        <4>3. w.index + o = w.ss + m
          <5>1. w \in ScanStates
            BY <4>1, ScanType, ZenonT(60) DEF SourceInv, SourceTypeOK
          <5>2. w.index \in Nat /\ w.ss \in Nat
            BY <5>1 DEF ScanStates
          <5> QED  BY <2>2, <4>2, <5>2
        <4>4. ~eof' => StartsPacket(w, Record)'
          <5>1. StartsPacket(w, Record)' <=> StartsPacket(w, Record)
            BY <1>1, Zenon DEF StartsPacket, Record
          <5> QED  BY <1>9, <4>1, <5>1, ZenonT(60)
        <4> QED  BY <1>1, <2>3, <4>1, <4>3, <4>4, Zenon DEF Alike
      <3>5. timestamp' /\ window'.found => \A i \in o + 1 .. Len(out') : Len(out'[i].msgs) = 1
        <4> SUFFICES ASSUME timestamp, window.found, NEW i \in o + 1 .. m
                     PROVE  Len(out'[i].msgs) = 1
          BY <1>1, <2>3, Zenon
        <4>1. CASE i = m
          <5>1. active /\ perPacket = 1
            BY <1>3 DEF WindowInv, ActiveInv, SizeInv
          <5>2. Len(building) # 0
            BY <1>2, <1>9
          <5>3. PICK l \in Nat : l = Len(building)
            BY <1>2
          <5>4. l <= 1 /\ l # 0
            BY <1>3, <5>1, <5>2, <5>3, Zenon
          <5>5. l = 1
            BY <5>4
          <5> QED  BY <2>3, <4>1, <5>3, <5>5, Zenon
        <4>2. CASE i # m
          <5>1. i \in o + 1 .. n /\ i \in 1 .. n
            BY <2>2, <3>2, <4>2
          <5> QED  BY <1>5, <2>1, <3>1, <5>1, Zenon DEF Opened
        <4> QED  BY <4>1, <4>2, Zenon
      <3> QED  BY <3>2, <3>3, <3>4, <3>5, Zenon DEF Opened
    <2> QED  BY <1>6, <2>9, <2>10, <2>11 DEF WindowInv
  <1> QED  BY <1>8, <1>9

\* The scan of the record that the source reads as a message.
LEMMA MessageScan ==
  ASSUME SourceInv, ReadMessage, NEW w, w = Scans[pos]
  PROVE  /\ Scans' = Scans /\ Scans'[pos'] = ScanRecord(w, Record)
         /\ w \in ScanStates /\ Record \notin {"zero", "half", "cut"}
         /\ ScanRecord(w, Record) \in ScanStates
         /\ w.over => /\ ScanRecord(w, Record).over
                      /\ ScanRecord(w, Record).ss = w.ss
                      /\ ScanRecord(w, Record).sq = w.sq
  <1>1. /\ pos \in Nat /\ pos' = pos + 1 /\ pos' \in 1 .. Len(file) /\ UNCHANGED input
        /\ file \in Seq(Records)
    BY MessageBuffer, Zenon DEF SourceInv, SourceTypeOK
  <1>2. Scans' = Scans
    BY <1>1, ScanSame
  <1>3. Scans[pos + 1] = ScanRecord(w, Record)
    <2>1. pos + 1 \in 1 .. Len(file) /\ (pos + 1) - 1 = pos
      BY <1>1
    <2> QED  BY <1>1, <2>1, ScanSteps DEF Record
  <1>4. w \in ScanStates /\ Scans[pos + 1] \in ScanStates
    <2>1. pos \in 0 .. Len(file) /\ pos + 1 \in 0 .. Len(file)
      BY <1>1
    <2> QED  BY <1>1, <2>1, ScanType
  <1>5. Record \notin {"zero", "half", "cut"}
    BY DEF ReadMessage, Refused
  <1>6. w.over => /\ ScanRecord(w, Record).over
                  /\ ScanRecord(w, Record).ss = w.ss
                  /\ ScanRecord(w, Record).sq = w.sq
    BY <1>4, ScanOver
  <1> QED  BY <1>1, <1>2, <1>3, <1>4, <1>5, <1>6, Zenon

\* Where the source starts a packet so does the scan, and only there.
LEMMA MessageAlike ==
  ASSUME ReplayInv, ReadMessage, Open, ~timestamp, NEW o \in DOMAIN out, Opened(o),
         NEW v, v = ScanRecord(Scans[pos], Record)
  PROVE  /\ v.index + o = Scans[pos].ss + Len(out) + 1
         /\ v.count = Len(building') /\ v.used = offset'
  <1> USE DEF ReplayInv
  <1>1. PICK w : w = Scans[pos]
    OBVIOUS
  <1>2. w \in ScanStates /\ Record \notin {"zero", "half", "cut"} /\ ~w.over
    BY <1>1, MessageScan, ZenonT(60) DEF Open
  <1>3. /\ v.index = IF StartsPacket(w, Record) THEN w.index + 1 ELSE w.index
        /\ v.count = IF StartsPacket(w, Record) THEN 1 ELSE w.count + 1
        /\ v.used = IF StartsPacket(w, Record) THEN Size(Record) ELSE w.used + Size(Record)
    <2>1. Scanning(w, Record, v)
      BY <1>1, <1>2, ScanMessage, Zenon
    <2> QED  BY <2>1, Zenon DEF Scanning
  <1>4. /\ w.index \in Nat /\ w.ss \in Nat /\ o \in Nat /\ Len(out) \in Nat /\ Size(Record) \in Nat
        /\ Len(building) \in Nat /\ offset \in Nat
    BY <1>2, SizeType DEF ScanStates, SourceInv, SourceTypeOK
  <1>5. Len(building') = Len(building) + 1 /\ offset' = offset + Size(Record)
    BY MessageBuffer, Zenon
  <1>6. calling /\ ~lastWasC /\ Len(building) < perPacket /\ pos < Len(file) /\ ~Overflows
    BY DEF ReadMessage, MoreToRead
  <1>7. perPacket = configured /\ ~eof
    BY <1>6, Zenon DEF SizeInv, SourceInv, EndInv
  <1>8. CASE building # << >>
    <2>1. /\ w.index + o = w.ss + Len(out) + 1
          /\ w.count = Len(building) /\ w.used = offset /\ ~w.afterS
      BY <1>1, <1>6, <1>8, Zenon DEF Opened, Alike
    <2>2. ~StartsPacket(w, Record)
      <3>1. w.count # configured
        BY <1>4, <1>6, <1>7, <2>1
      <3> QED  BY <1>6, <2>1, <3>1, Zenon DEF StartsPacket, Overflows
    <2> QED  BY <1>1, <1>3, <1>5, <2>1, <2>2, Zenon
  <1>9. CASE building = << >>
    <2>1. w.index + o = w.ss + Len(out) /\ StartsPacket(w, Record)
      BY <1>1, <1>6, <1>7, <1>9, Zenon DEF Opened, Alike
    <2>2. offset = 0 /\ Len(building) = 0
      BY <1>6, <1>9, Zenon DEF SourceInv, CutInv
    <2>3. v.index = w.index + 1 /\ v.count = 1 /\ v.used = Size(Record)
      BY <1>3, <2>1, Zenon
    <2>4. v.index + o = w.ss + Len(out) + 1
      BY <1>4, <2>1, <2>3
    <2>5. Len(building') = 1 /\ offset' = Size(Record)
      BY <1>4, <1>5, <2>2
    <2> QED  BY <1>1, <2>3, <2>4, <2>5, Zenon
  <1> QED  BY <1>8, <1>9, Zenon

LEMMA MessageOver ==
  ASSUME ReplayInv, ReadMessage
  PROVE  \A k \in 0 .. pos' : Scans'[k].over <=> Scans'[k].sq # 0
  <1> USE DEF ReplayInv
  <1>1. PICK w : w = Scans[pos]
    OBVIOUS
  <1>2. PICK v : v = ScanRecord(w, Record)
    BY Zenon
  <1>3. /\ Scans' = Scans /\ Scans'[pos'] = v /\ w \in ScanStates /\ v \in ScanStates
        /\ Record \notin {"zero", "half", "cut"}
        /\ w.over => v.over /\ v.ss = w.ss /\ v.sq = w.sq
    BY <1>1, <1>2, MessageScan, Zenon
  <1>4. pos \in Nat /\ pos' = pos + 1
    BY MessageBuffer, Zenon
  <1>5. \A k \in 0 .. pos : Scans[k].over <=> Scans[k].sq # 0
    BY Zenon DEF WindowInv, EventInv
  <1>6. w.over <=> w.sq # 0
    BY <1>1, <1>4, <1>5
  <1>7. v.over <=> v.sq # 0
    <2>1. CASE w.over
      BY <1>3, <1>6, <2>1, Zenon
    <2>2. CASE ~w.over
      <3>1. /\ v.sq = IF Record = "Q" /\ w.ss # 0 THEN v.index ELSE 0
            /\ v.over <=> Record = "Q" /\ w.ss # 0
        <4>1. Scanning(w, Record, v)
          BY <1>2, <1>3, <2>2, ScanMessage, Zenon
        <4> QED  BY <4>1, Zenon DEF Scanning
      <3>2. v.index # 0
        BY <1>3 DEF ScanStates
      <3> QED  BY <3>1, <3>2, Zenon
    <2> QED  BY <2>1, <2>2, Zenon
  <1>8. \A k \in 0 .. pos' : k \in 0 .. pos \/ k = pos'
    BY <1>4
  <1> QED  BY <1>3, <1>5, <1>7, <1>8, Zenon

LEMMA MessageSize == ReplayInv /\ ReadMessage => SizeInv'
  <1> SUFFICES ASSUME ReplayInv, ReadMessage PROVE SizeInv'
    BY Zenon
  <1> USE DEF ReplayInv
  <1>1. /\ building' \in Seq(Records) /\ Len(building') = Len(building) + 1
        /\ building'[Len(building) + 1] = Record
        /\ \A k \in 1 .. Len(building) : building'[k] = building[k]
        /\ UNCHANGED <<input, sender, eof, completed, error>>
    BY MessageBuffer, Zenon
  <1>2. /\ calling /\ Len(building) < perPacket /\ handled = Len(out)
        /\ \A k \in DOMAIN building : ~EndsPacket(building[k])
    BY Zenon DEF ReadMessage, MoreToRead, SizeInv
  <1>3. /\ building \in Seq(Records) /\ Len(building) \in Nat /\ perPacket \in Nat /\ out \in Seq(Packets)
        /\ Len(out) \in Nat
    BY DEF SourceInv, SourceTypeOK
  <1>4. Len(building') <= perPacket
    BY <1>1, <1>2, <1>3
  <1>5. CASE EndsPacket(Record)
    <2>1. ~calling'
      BY <1>5, Zenon DEF ReadMessage, Return
    <2>2. Len(out') >= Len(out) /\ Len(out') \in Nat
      <3>1. Behind(Len(out)) \in Nat /\ Behind(Len(out)) + Len(building') = pos' + 1 /\ nextSeq' = pos' + 1
            /\ offset' \in Nat /\ Return
        <4>1. Behind(Len(out)) \in Nat
          BY <1>3, BehindType
        <4> QED  BY <1>5, <4>1, MessageBuffer, Zenon DEF ReadMessage
      <3>2. nextSeq' - Len(building') \in Nat
        BY <1>1, <3>1
      <3>3. out' \in Seq(Packets) /\ Len(out') >= Len(out)
        BY <1>1, <1>3, <3>1, <3>2, Returned, Zenon
      <3> QED  BY <3>3
    <2> QED  BY <1>1, <1>2, <2>1, <2>2, Zenon DEF SizeInv, sender, input
  <1>6. CASE ~EndsPacket(Record)
    <2>1. UNCHANGED <<calling, out>>
      BY <1>6, Zenon DEF ReadMessage
    <2>2. \A k \in DOMAIN building' : ~EndsPacket(building'[k])
      <3>1. \A k \in DOMAIN building' : (k \in 1 .. Len(building) /\ k \in DOMAIN building)
                                        \/ k = Len(building) + 1
        BY <1>1, <1>3
      <3> QED  BY <1>1, <1>2, <1>6, <3>1, Zenon
    <2> QED  BY <1>1, <1>2, <1>4, <2>1, <2>2, Zenon DEF SizeInv, sender, input
  <1> QED  BY <1>5, <1>6

\* A message that ends no packet.
LEMMA InsideReplay ==
  ASSUME ReplayInv, ReadMessage, ~EndsPacket(Record)
  PROVE  WindowInv'
  <1> USE DEF ReplayInv
  <1>1. PICK w : w = Scans[pos]
    OBVIOUS
  <1>2. PICK v : v = ScanRecord(w, Record)
    BY Zenon
  <1>3. /\ Scans' = Scans /\ Scans'[pos'] = v /\ w \in ScanStates /\ v \in ScanStates
        /\ Record \notin {"zero", "half", "cut"}
        /\ w.over => v.over /\ v.ss = w.ss /\ v.sq = w.sq
    BY <1>1, <1>2, MessageScan, Zenon
  <1>4. /\ UNCHANGED <<input, sender, calling, out>> /\ calling
        /\ building' # << >> /\ pos' = pos + 1
    BY MessageBuffer, Zenon DEF ReadMessage
  <1>5. (v.over <=> w.over) /\ v.ss = w.ss /\ (~w.over => ~v.afterS)
    <2>1. CASE w.over
      BY <1>3, <2>1
    <2>2. CASE ~w.over
      <3>1. /\ v.afterS <=> Record = "S"
            /\ v.ss = IF Record = "S" THEN v.index ELSE w.ss
            /\ v.over <=> Record = "Q" /\ w.ss # 0
        <4>1. Scanning(w, Record, v)
          BY <1>2, <1>3, <2>2, ScanMessage, Zenon
        <4> QED  BY <4>1, Zenon DEF Scanning
      <3> QED  BY <2>2, <3>1, Zenon DEF EndsPacket
    <2> QED  BY <2>1, <2>2, Zenon
  <1>6. (Open' <=> Open) /\ \A o : OpenedBy(o)' <=> OpenedBy(o)
    BY <1>1, <1>3, <1>4, <1>5, Zenon DEF Open, OpenedBy, Event
  <1>7. EventInv'
    <2>1. WindowExact'
      BY <1>4, SameWindow, Zenon DEF WindowInv, EventInv
    <2>2. \A k \in 0 .. pos' : Scans'[k].over <=> Scans'[k].sq # 0
      BY MessageOver, Zenon
    <2>3. /\ v.ss = 0 => \A i \in DOMAIN out : Event(i) # "S"
          /\ v.over => \E i \in DOMAIN out : Event(i) = "Q" /\ \E j \in 1 .. i - 1 : Event(j) = "S"
          /\ ~v.over => NoneClosed
      BY <1>1, <1>5, Zenon DEF WindowInv, EventInv
    <2>4. (\A i : Event(i)' = Event(i)) /\ (NoneClosed' <=> NoneClosed)
      BY <1>4, Zenon DEF Event, NoneClosed
    <2> QED  BY <1>3, <1>4, <2>1, <2>2, <2>3, <2>4, ZenonT(60) DEF EventInv
  <1>8. ASSUME NEW o \in DOMAIN out, Open, Opened(o) PROVE Opened(o)'
    <2>1. ~timestamp => Alike(o)'
      <3> SUFFICES ASSUME ~timestamp PROVE Alike(o)'
        BY Zenon
      <3>1. v.index + o = w.ss + Len(out) + 1 /\ v.count = Len(building') /\ v.used = offset'
        BY <1>1, <1>2, <1>8, MessageAlike, Zenon
      <3>2. ~v.afterS /\ v.ss = w.ss
        BY <1>1, <1>5, <1>8, Zenon DEF Open
      <3> QED  BY <1>3, <1>4, <3>1, <3>2, Zenon DEF Alike
    <2> QED  BY <1>4, <1>6, <1>8, <2>1, Zenon DEF Opened, input
  <1>9. Open' => \E o \in DOMAIN out' : Opened(o)'
    BY <1>4, <1>6, <1>8, Zenon DEF WindowInv
  <1>10. ActiveInv'
    BY <1>4, <1>6, Zenon DEF WindowInv, ActiveInv, Event, input, sender
  <1> QED  BY <1>7, <1>9, <1>10 DEF WindowInv

\* A message that ends its packet: the packet is made at once.
LEMMA BoundaryPacket ==
  ASSUME ReplayInv, ReadMessage, EndsPacket(Record), NEW n \in Nat, n = Len(out),
         NEW m \in Nat, m = n + 1
  PROVE  /\ out \in Seq(Packets) /\ out' \in Seq(Packets)
         /\ Len(out') = m /\ DOMAIN out' = 1 .. m /\ DOMAIN out = 1 .. n
         /\ out'[m].msgs = building' /\ building' \in Seq(Records)
         /\ \A k \in 1 .. Len(building') - 1 : ~EndsPacket(building'[k])
         /\ Event(m)' = Record
         /\ \A i \in 1 .. n : out'[i] = out[i] /\ Event(i)' = Event(i)
         /\ handled = n /\ UNCHANGED <<input, sender>> /\ ~calling'
         /\ timestamp /\ active => Len(building') = 1
  <1> USE DEF ReplayInv
  <1>1. /\ building' \in Seq(Records) /\ building' # << >> /\ Len(building') = Len(building) + 1
        /\ building'[Len(building) + 1] = Record /\ offset' \in Nat
        /\ \A k \in 1 .. Len(building) : building'[k] = building[k]
        /\ Behind(Len(out)) + Len(building') = pos' + 1 /\ nextSeq' = pos' + 1
        /\ UNCHANGED <<input, sender, eof, completed, error>>
    BY MessageBuffer, Zenon
  <1>2. /\ calling /\ Len(building) < perPacket /\ handled = Len(out) /\ Return
        /\ \A k \in DOMAIN building : ~EndsPacket(building[k])
        /\ timestamp /\ active => perPacket = 1
    BY Zenon DEF ReadMessage, MoreToRead, SizeInv
  <1>3. building \in Seq(Records) /\ Len(building) \in Nat /\ perPacket \in Nat /\ out \in Seq(Packets)
    BY DEF SourceInv, SourceTypeOK
  <1>4. Behind(Len(out)) \in Nat
    BY <1>3, BehindType
  <1>5. nextSeq' - Len(building') \in Nat
    BY <1>1, <1>4
  <1>6. /\ out' \in Seq(Packets) /\ Len(out') = Len(out) + 1
        /\ out'[Len(out) + 1].msgs = building'
        /\ \A i \in 1 .. Len(out) : out'[i] = out[i]
    BY <1>1, <1>2, <1>3, <1>5, Returned, Zenon
  <1>7. Len(out') = m /\ DOMAIN out' = 1 .. m /\ out'[m].msgs = building' /\ DOMAIN out = 1 .. n
    BY <1>3, <1>6
  <1>8. Event(m)' = Record
    BY <1>1, <1>7, Zenon DEF Event
  <1>9. \A i \in 1 .. n : Event(i)' = Event(i)
    BY <1>6, Zenon DEF Event
  <1>10. \A k \in 1 .. Len(building') - 1 : ~EndsPacket(building'[k])
    <2>1. \A k \in 1 .. Len(building') - 1 : k \in 1 .. Len(building) /\ k \in DOMAIN building
      BY <1>1, <1>3
    <2> QED  BY <1>1, <1>2, <2>1, Zenon
  <1>11. timestamp /\ active => Len(building') = 1
    <2> SUFFICES ASSUME timestamp, active PROVE Len(building') = 1
      OBVIOUS
    <2>1. PICK l \in Nat : l = Len(building)
      BY <1>3
    <2>2. l < 1
      BY <1>2, <2>1
    <2>3. l + 1 = 1
      BY <2>2
    <2> QED  BY <1>1, <2>1, <2>3
  <1> QED  BY <1>1, <1>2, <1>3, <1>6, <1>7, <1>8, <1>9, <1>10, <1>11, ZenonT(60) DEF Return

\* A boundary behind the window changes nothing about it.
LEMMA LateBoundary ==
  ASSUME ReplayInv, ReadMessage, EndsPacket(Record), Scans[pos].over
  PROVE  WindowInv'
  <1> USE DEF ReplayInv
  <1>1. PICK v : v = Scans'[pos']
    BY Zenon
  <1>2. v.over /\ v.ss = Scans[pos].ss
    BY <1>1, MessageScan
  <1>3. PICK n \in Nat : n = Len(out)
    BY DEF SourceInv, SourceTypeOK
  <1>4. PICK m \in Nat : m = n + 1
    OBVIOUS
  <1>5. /\ out \in Seq(Packets) /\ out' \in Seq(Packets)
        /\ Len(out') = m /\ DOMAIN out' = 1 .. m /\ DOMAIN out = 1 .. n
        /\ out'[m].msgs = building' /\ building' \in Seq(Records)
        /\ \A k \in 1 .. Len(building') - 1 : ~EndsPacket(building'[k])
        /\ \A i \in 1 .. n : out'[i] = out[i] /\ Event(i)' = Event(i)
        /\ UNCHANGED <<input, sender>>
    BY <1>3, <1>4, BoundaryPacket, ZenonT(60)
  <1>6. PICK i \in 1 .. n : Event(i) = "Q" /\ \E j \in 1 .. i - 1 : Event(j) = "S"
    BY <1>5, Zenon DEF WindowInv, EventInv
  <1>7. PICK j \in 1 .. i - 1 : Event(j) = "S"
    BY <1>6, Zenon
  <1>8. Event(i)' = "Q" /\ Event(j)' = "S" /\ i \in DOMAIN out' /\ j \in 1 .. n
    <2>1. i \in 1 .. m /\ j \in 1 .. n
      BY <1>4
    <2> QED  BY <1>5, <1>6, <1>7, <2>1, Zenon
  <1>9. WindowExact'
    <2>1. \A o \in 1 .. n : ~Premarket(o, m)'
      <3>1. i \in 1 .. m - 1
        BY <1>4
      <3> QED  BY <1>7, <1>8, <3>1, Zenon DEF Premarket
    <2>2. WindowExact
      BY Zenon DEF WindowInv, EventInv
    <2> QED  BY <1>3, <1>4, <1>5, <2>1, <2>2, NewPacket, ZenonT(60)
  <1>10. EventInv'
    <2>1. \A k \in 0 .. pos' : Scans'[k].over <=> Scans'[k].sq # 0
      BY MessageOver, Zenon
    <2>2. v.ss # 0
      <3>1. j \in DOMAIN out
        BY <1>5, <1>8, Zenon
      <3> QED  BY <1>2, <1>7, <3>1, ZenonT(60) DEF WindowInv, EventInv
    <2> QED  BY <1>1, <1>2, <1>8, <1>9, <2>1, <2>2, Zenon DEF EventInv
  <1>11. ~Open'
    BY <1>1, <1>2, Zenon DEF Open
  <1> QED  BY <1>10, <1>11 DEF WindowInv, ActiveInv

\* S opens the window, or opens it again.
LEMMA OpeningBoundary ==
  ASSUME ReplayInv, ReadMessage, Record = "S", ~Scans[pos].over
  PROVE  WindowInv'
  <1> USE DEF ReplayInv
  <1>0. EndsPacket(Record)
    BY DEF EndsPacket
  <1>1. PICK w : w = Scans[pos]
    OBVIOUS
  <1>2. PICK v : v = ScanRecord(w, Record)
    BY Zenon
  <1>3. Scans'[pos'] = v /\ v \in ScanStates /\ w \in ScanStates /\ Record \notin {"zero", "half", "cut"}
    BY <1>1, <1>2, MessageScan, Zenon
  <1>4. v.afterS /\ v.ss = v.index /\ ~v.over
    <2>1. ~w.over
      BY <1>1, Zenon DEF Open
    <2>2. Scanning(w, Record, v)
      BY <1>2, <1>3, <2>1, ScanMessage, Zenon
    <2> QED  BY <2>2, Zenon DEF Scanning
  <1>5. v.index \in Nat \ {0}
    BY <1>3, Zenon DEF ScanStates
  <1>6. PICK n \in Nat : n = Len(out)
    BY DEF SourceInv, SourceTypeOK
  <1>7. PICK m \in Nat : m = n + 1
    OBVIOUS
  <1>8. /\ out \in Seq(Packets) /\ out' \in Seq(Packets)
        /\ Len(out') = m /\ DOMAIN out' = 1 .. m /\ DOMAIN out = 1 .. n
        /\ out'[m].msgs = building' /\ building' \in Seq(Records)
        /\ \A k \in 1 .. Len(building') - 1 : ~EndsPacket(building'[k])
        /\ Event(m)' = "S"
        /\ \A i \in 1 .. n : out'[i] = out[i] /\ Event(i)' = Event(i)
        /\ handled = n /\ UNCHANGED <<input, sender>> /\ ~calling'
    BY <1>0, <1>6, <1>7, BoundaryPacket, Zenon
  <1>9. WindowExact'
    <2>1. \A o \in 1 .. n : ~Premarket(o, m)'
      BY <1>8, Zenon DEF Premarket
    <2>2. WindowExact
      BY Zenon DEF WindowInv, EventInv
    <2> QED  BY <1>6, <1>7, <1>8, <2>1, <2>2, NewPacket, Zenon
  <1>10. NoneClosed'
    <2> SUFFICES ASSUME NEW i \in DOMAIN out', Event(i)' = "Q", NEW j \in 1 .. i - 1
                 PROVE  Event(j)' # "S"
      BY Zenon DEF NoneClosed
    <2>1. i # m
      BY <1>8, Zenon
    <2>2. i \in 1 .. n /\ j \in 1 .. n
      <3>1. i \in 1 .. m
        BY <1>8, Zenon
      <3> QED  BY <1>7, <2>1, <3>1
    <2>3. NoneClosed
      BY Zenon DEF WindowInv, EventInv
    <2> QED  BY <1>8, <2>2, <2>3, Zenon DEF NoneClosed
  <1>11. EventInv'
    <2>1. \A k \in 0 .. pos' : Scans'[k].over <=> Scans'[k].sq # 0
      BY MessageOver, Zenon
    <2> QED  BY <1>3, <1>4, <1>5, <1>9, <1>10, <2>1, ZenonT(60) DEF EventInv
  <1>12. Opened(m)'
    <2>1. \A i \in m + 1 .. m : FALSE
      OBVIOUS
    <2>2. OpenedBy(m)'
      <3>1. m \in 1 .. m
        BY <1>7
      <3> QED  BY <1>8, <2>1, <3>1, Zenon DEF OpenedBy
    <2>3. StartsPacket(v, Record)'
      BY <1>4, Zenon DEF StartsPacket
    <2>4. Alike(m)'
      <3>1. v.index + m = v.ss + m
        BY <1>4
      <3> QED  BY <1>3, <1>8, <2>3, <3>1, Zenon DEF Alike
    <2> QED  BY <1>8, <2>1, <2>2, <2>4, Zenon DEF Opened
  <1>13. ActiveInv'
    <2>1. handled' # Len(out') /\ Event(m)' = "S" /\ Len(out') = m
      <3>1. m # n
        BY <1>7
      <3> QED  BY <1>8, <3>1, Zenon DEF sender
    <2>2. Event(Len(out))' = "S"
      BY <2>1, Zenon DEF Event
    <2> QED  BY <2>1, <2>2, Zenon DEF ActiveInv
  <1>14. m \in DOMAIN out'
    <2>1. m \in 1 .. m
      BY <1>7
    <2> QED  BY <1>8, <2>1, Zenon
  <1> QED  BY <1>11, <1>12, <1>13, <1>14 DEF WindowInv

\* Q closes the window, if there is one: the scan has found it.
LEMMA ClosingBoundary ==
  ASSUME ReplayInv, ReadMessage, Record = "Q", ~Scans[pos].over
  PROVE  WindowInv'
  <1> USE DEF ReplayInv
  <1>0. EndsPacket(Record)
    BY DEF EndsPacket
  <1>1. PICK w : w = Scans[pos]
    OBVIOUS
  <1>2. PICK v : v = ScanRecord(w, Record)
    BY Zenon
  <1>3. /\ Scans' = Scans /\ Scans'[pos'] = v /\ v \in ScanStates /\ w \in ScanStates
        /\ Record \notin {"zero", "half", "cut"}
    BY <1>1, <1>2, MessageScan, Zenon
  <1>4. v.ss = w.ss /\ (v.over <=> w.ss # 0) /\ v.sq = IF w.ss # 0 THEN v.index ELSE 0
    <2>1. ~w.over
      BY <1>1, Zenon DEF Open
    <2>2. Scanning(w, Record, v)
      BY <1>2, <1>3, <2>1, ScanMessage, Zenon
    <2> QED  BY <2>2, Zenon DEF Scanning
  <1>5. v.index \in Nat \ {0} /\ w.ss \in Nat
    BY <1>3, Zenon DEF ScanStates
  <1>6. PICK n \in Nat : n = Len(out)
    BY DEF SourceInv, SourceTypeOK
  <1>7. PICK m \in Nat : m = n + 1
    OBVIOUS
  <1>8. /\ out \in Seq(Packets) /\ out' \in Seq(Packets)
        /\ Len(out') = m /\ DOMAIN out' = 1 .. m /\ DOMAIN out = 1 .. n
        /\ out'[m].msgs = building' /\ building' \in Seq(Records)
        /\ \A k \in 1 .. Len(building') - 1 : ~EndsPacket(building'[k])
        /\ Event(m)' = "Q"
        /\ \A i \in 1 .. n : out'[i] = out[i] /\ Event(i)' = Event(i)
        /\ handled = n /\ UNCHANGED <<input, sender>> /\ ~calling'
        /\ timestamp /\ active => Len(building') = 1
    BY <1>0, <1>6, <1>7, BoundaryPacket, Zenon
  <1>9. WindowExact
    BY Zenon DEF WindowInv, EventInv
  <1>10. \A k \in 0 .. pos' : Scans'[k].over <=> Scans'[k].sq # 0
    BY MessageOver, Zenon
  <1>11. ~Open'
    BY <1>3, <1>4, Zenon DEF Open
  <1>12. CASE w.ss = 0
    <2>1. \A i \in 1 .. n : Event(i)' # "S"
      <3>1. \A i \in DOMAIN out : Event(i) # "S"
        BY <1>1, <1>12, Zenon DEF WindowInv, EventInv
      <3> QED  BY <1>8, <3>1, Zenon
    <2>2. \A o \in 1 .. n : ~Premarket(o, m)'
      BY <2>1 DEF Premarket
    <2>3. WindowExact'
      BY <1>6, <1>7, <1>8, <1>9, <2>2, NewPacket, ZenonT(60)
    <2>4. \A i \in DOMAIN out' : Event(i)' # "S"
      <3>1. \A i \in 1 .. m : i \in 1 .. n \/ i = m
        BY <1>7
      <3> QED  BY <1>8, <2>1, <3>1, Zenon
    <2>5. NoneClosed'
      <3>1. \A i \in 1 .. m : \A j \in 1 .. i - 1 : j \in 1 .. m
        OBVIOUS
      <3> QED  BY <1>8, <2>4, <3>1, Zenon DEF NoneClosed
    <2>6. EventInv'
      BY <1>3, <1>4, <1>10, <1>12, <2>3, <2>4, <2>5, Zenon DEF EventInv
    <2> QED  BY <1>11, <2>6, Zenon DEF WindowInv, ActiveInv
  <1>13. CASE w.ss # 0
    <2>1. Open
      BY <1>1, <1>13, Zenon DEF Open
    <2>2. PICK o \in DOMAIN out : Opened(o)
      BY <2>1, Zenon DEF WindowInv
    <2>3. o \in 1 .. n /\ o \in 1 .. m - 1 /\ Event(o)' = "S" /\ Event(o) = "S"
          /\ \A i \in o + 1 .. n : Event(i)' # "S"
      <3>1. o \in 1 .. n /\ o \in 1 .. m - 1 /\ Event(o) = "S"
        <4>1. o \in 1 .. n /\ Event(o) = "S"
          BY <1>8, <2>2, Zenon DEF Opened, OpenedBy
        <4> QED  BY <1>7, <4>1
      <3>2. \A i \in o + 1 .. n : i \in 1 .. n
        BY <3>1
      <3> QED  BY <1>6, <1>8, <2>2, <3>1, <3>2, Zenon DEF Opened, OpenedBy
    <2>4. PICK z : z = Scans[Len(file)]
      BY Zenon
    <2>5. z.ss = w.ss /\ z.sq = v.index
      <3>1. file \in Seq(Records) /\ pos' \in 1 .. Len(file)
        BY MessageBuffer, Zenon DEF SourceInv, SourceTypeOK
      <3>2. pos' \in 0 .. Len(file) /\ Scans[pos'] = v /\ v.over
        BY <1>3, <1>4, <1>13, <3>1
      <3>3. PICK p \in 0 .. Len(file) : p = pos'
        BY <3>2, Zenon
      <3> QED  BY <1>4, <1>13, <2>4, <3>1, <3>2, <3>3, ScanStable, Zenon
    <2>6. window = [found |-> z.sq # 0, packets |-> PacketsToPace(z)]
      BY <2>4, Zenon DEF SourceInv, SourceTypeOK, Scanned
    <2>7. window.found /\ window.packets = PacketsToPace(z)
      <3>1. z.sq # 0
        BY <1>5, <2>5
      <3>2. window = [found |-> TRUE, packets |-> PacketsToPace(z)]
        BY <2>6, <3>1, ZenonT(60)
      <3> QED  BY <3>2, Zenon
    <2>8. Right(o, m)'
      <3>1. ~timestamp => window.packets = m - o
        <4> SUFFICES ASSUME ~timestamp PROVE window.packets = m - o
          BY Zenon
        <4>1. v.index + o = w.ss + n + 1
          BY <1>1, <1>2, <1>6, <2>1, <2>2, MessageAlike, Zenon
        <4>2. v.index > w.ss /\ v.index - w.ss = m - o
          BY <1>5, <1>7, <2>3, <4>1
        <4>3. PacketsToPace(z) = v.index - w.ss
          BY <1>5, <2>5, <4>2 DEF PacketsToPace
        <4> QED  BY <2>7, <4>2, <4>3, Zenon
      <3>2. timestamp => \A i \in o + 1 .. m : Len(out'[i].msgs) = 1
        <4> SUFFICES ASSUME timestamp, NEW i \in o + 1 .. m PROVE Len(out'[i].msgs) = 1
          BY Zenon
        <4>1. CASE i = m
          <5>1. active
            BY <1>6, <1>8, <2>1, <2>7, Zenon DEF WindowInv, ActiveInv
          <5> QED  BY <1>8, <4>1, <5>1, Zenon
        <4>2. CASE i # m
          <5>1. i \in o + 1 .. n /\ i \in 1 .. n
            BY <1>7, <2>3, <4>2
          <5> QED  BY <1>6, <1>8, <2>2, <2>7, <5>1, Zenon DEF Opened
        <4> QED  BY <4>1, <4>2
      <3> QED  BY <1>8, <2>7, <3>1, <3>2, Zenon DEF Right, input
    <2>9. ASSUME NEW q \in 1 .. n, Premarket(q, m)' PROVE Right(q, m)'
      <3>1. /\ Event(q)' = "S"
            /\ \A i \in q + 1 .. m - 1 : Event(i)' # "S"
        BY <2>9, Zenon DEF Premarket
      <3>2. ~(q > o)
        <4>1. q > o => q \in o + 1 .. n
          BY <2>3
        <4> QED  BY <2>3, <3>1, <4>1, Zenon
      <3>3. ~(q < o)
        <4>1. q < o => o \in q + 1 .. m - 1
          BY <2>3
        <4> QED  BY <2>3, <3>1, <4>1, Zenon
      <3>4. q = o
        BY <2>3, <3>2, <3>3
      <3> QED  BY <2>8, <3>4, Zenon
    <2>10. WindowExact'
      BY <1>6, <1>7, <1>8, <1>9, <2>9, NewPacket, Zenon
    <2>11. EventInv'
      <3>1. m \in DOMAIN out'
        <4>1. m \in 1 .. m
          BY <1>7
        <4> QED  BY <1>8, <4>1, Zenon
      <3>2. \E i \in DOMAIN out' : Event(i)' = "Q" /\ \E j \in 1 .. i - 1 : Event(j)' = "S"
        BY <1>8, <2>3, <3>1, Zenon
      <3> QED  BY <1>3, <1>4, <1>10, <1>13, <2>10, <3>2, ZenonT(60) DEF EventInv
    <2> QED  BY <1>11, <2>11, Zenon DEF WindowInv, ActiveInv
  <1> QED  BY <1>12, <1>13

LEMMA ReadReplay == ReplayInv /\ Read => ReplayInv'
  <1> SUFFICES ASSUME ReplayInv, Read PROVE ReplayInv'
    OBVIOUS
  <1>0. SourceInv'
    BY ReadSource DEF ReplayInv
  <1>1. CASE ReadEof \/ ReadTerminator \/ ReadRefused
    <2>1. /\ calling /\ UNCHANGED <<input, sender, pos, nextSeq, buffer>> /\ Return /\ eof' = TRUE
      BY <1>1, Zenon DEF ReadEof, ReadTerminator, ReadRefused, Ends
    <2> QED  BY <1>0, <2>1, ReturnReplay, Zenon
  <1>2. CASE ReadOverflow
    <2>1. /\ calling /\ UNCHANGED <<input, sender, pos, nextSeq, buffer>> /\ Return
          /\ offset + Size(Record) > Room
      BY <1>2, Zenon DEF ReadOverflow, Overflows, state
    <2>2. ASSUME ~timestamp, Open, building # << >> PROVE StartsPacket(Scans[pos], Record)
      <3>1. PICK o : Alike(o)
        BY <2>2 DEF ReplayInv, WindowInv, Opened
      <3>2. Scans[pos].used = offset
        BY <2>1, <2>2, <3>1, Zenon DEF Alike
      <3> QED  BY <2>1, <3>2, Zenon DEF StartsPacket
    <2> QED  BY <1>0, <2>1, <2>2, ReturnReplay, Zenon
  <1>3. CASE ReadFull
    <2>1. /\ calling /\ UNCHANGED <<input, sender, pos, nextSeq, buffer>> /\ Return
          /\ ~(Len(building) < perPacket)
      BY <1>3, Zenon DEF ReadFull, MoreToRead, state
    <2>2. ASSUME ~timestamp, Open, building # << >> PROVE StartsPacket(Scans[pos], Record)
      <3>1. PICK o : Alike(o)
        BY <2>2 DEF ReplayInv, WindowInv, Opened
      <3>2. Scans[pos].count = Len(building)
        BY <2>1, <2>2, <3>1, ZenonT(60) DEF Alike
      <3>3. Len(building) = configured
        BY <2>1, <2>2 DEF ReplayInv, SizeInv, SourceInv, SourceTypeOK
      <3> QED  BY <3>2, <3>3, Zenon DEF StartsPacket
    <2> QED  BY <1>0, <2>1, <2>2, ReturnReplay, Zenon
  <1>4. CASE ReadMessage
    <2>1. SizeInv'
      BY <1>4, MessageSize
    <2>2. WindowInv'
      <3>1. CASE ~EndsPacket(Record)
        BY <1>4, <3>1, InsideReplay
      <3>2. CASE EndsPacket(Record) /\ Scans[pos].over
        BY <1>4, <3>2, LateBoundary, Zenon
      <3>3. CASE EndsPacket(Record) /\ ~Scans[pos].over
        <4>1. Record = "S" \/ Record = "Q"
          BY <3>3 DEF EndsPacket
        <4> QED  BY <1>4, <3>3, <4>1, OpeningBoundary, ClosingBoundary, Zenon
      <3> QED  BY <3>1, <3>2, <3>3
    <2> QED  BY <1>0, <2>1, <2>2 DEF ReplayInv
  <1> QED  BY <1>1, <1>2, <1>3, <1>4, Zenon DEF Read

\* For every file the sender's scan and the source cut the premarket window
\* alike, though the two loops share no code.
THEOREM WindowSound == Spec => []WindowExact
  <1>1. ReplayInv /\ [Next]_vars => ReplayInv'
    BY CallReplay, ReadReplay, AfterPacketReplay, StutterReplay, Zenon DEF Next, Done
  <1>2. ReplayInv => WindowExact
    BY Zenon DEF ReplayInv, WindowInv, EventInv
  <1> QED  BY <1>1, <1>2, InitReplay, PTL DEF Spec
=============================================================================
