------------------------ MODULE PacketSourcesProofs ------------------------
(***************************************************************************)
(* The buffers of the packet sources, for every size of the pool, of the   *)
(* ring and of a burst, and for every traffic: no buffer of the DPDK pool  *)
(* is lost or freed twice, the packet lent to the caller is not written    *)
(* to, the two frame parsers agree and read inside every frame whatever    *)
(* its lengths are, no line starves; every datagram a socket drops is      *)
(* counted, and every other one is delivered once, in order, or has its    *)
(* rejection counted; and how main starts and stops.                       *)
(***************************************************************************)
EXTENDS PacketSources, KernelReceiverProofs

\* The SMT solver may take up to two minutes on a step.
USE SMTT(120)

\* The parsers.

\* Passes(checks, n): none of the first n checks fails.
Passes(checks, n) == \A j \in 1 .. n : ~checks[j].fails

\* The verdict of a parser is that of the first check that fails.
LEMMA FirstFailingFirst ==
  ASSUME NEW checks, Len(checks) \in Nat
  PROVE  \/ FirstFailing(checks) = 0 /\ Passes(checks, Len(checks))
         \/ /\ FirstFailing(checks) \in 1 .. Len(checks)
            /\ checks[FirstFailing(checks)].fails
            /\ Passes(checks, FirstFailing(checks) - 1)
<1> DEFINE I == {i \in 1 .. Len(checks) : checks[i].fails}
<1>1. FirstFailing(checks) = IF I = {} THEN 0 ELSE Min(I)
  BY DEF FirstFailing
<1>2. CASE I = {}
  BY <1>1, <1>2 DEF Passes
<1>3. CASE I # {}
  <2>0. I \in SUBSET Nat
    OBVIOUS
  <2> HIDE DEF I
  <2>1. Min(I) \in I /\ \A m \in I : Min(I) <= m
    BY <1>3, <2>0, LeastNatural
  <2>2. FirstFailing(checks) \in I /\ \A m \in I : FirstFailing(checks) <= m
    BY <1>1, <1>3, <2>1
  <2> QED
    BY <2>2 DEF I, Passes
<1> QED
  BY <1>2, <1>3

\* The tests of parseFast, one by one.
LEMMA FastTests ==
  ASSUME NEW f, NEW eps
  PROVE  LET c == FastChecks(f, eps)
         IN  /\ Len(c) = 10
             /\ c[1].fails <=> f.len < Ether
             /\ c[2].fails <=> f.tags > 0 \/ ~f.ip
             /\ c[3].fails <=> f.len < Ether + Ipv4 + Udp
             /\ c[4].fails <=> f.version # 4 \/ f.ihl # 5
             /\ c[5].fails <=> f.total < Ipv4 + Udp \/ Ether + f.total > f.len
             /\ c[6].fails <=> f.fragment
             /\ c[7].fails <=> ~f.udp
             /\ c[8].fails <=> f.udpLen < Udp \/ Ipv4 + f.udpLen > f.total
             /\ c[9].fails <=> f.udpLen - Udp > MaxPayload
             /\ c[10].fails <=> LineOf(f, eps) = "none"
BY Zenon DEF FastChecks, Check

LEMMA FastVerdicts ==
  ASSUME NEW f, NEW eps
  PROVE  LET c == FastChecks(f, eps)
         IN  /\ \A i \in {1, 3, 5, 6, 8, 9} : c[i].verdict = "Malformed"
             /\ \A i \in {7, 10} : c[i].verdict = "Filtered"
             /\ \A i \in {2, 4} : c[i].verdict = "General"
BY DEF FastChecks, Check

LEMMA FastReads ==
  ASSUME NEW f, NEW eps
  PROVE  LET c == FastChecks(f, eps)
         IN  /\ \A i \in {1, 9, 10} : c[i].reads = 0
             /\ \A i \in {2, 3} : c[i].reads = Ether
             /\ \A i \in {4, 5, 6, 7} : c[i].reads = Ether + Ipv4
             /\ c[8].reads = Ether + Ipv4 + Udp
BY DEF FastChecks, Check

\* The tests of parseGeneral, one by one.
LEMMA GeneralTests ==
  ASSUME NEW f, NEW eps
  PROVE  LET c   == GeneralChecks(f, eps)
             off == Ipv4Offset(f)
         IN  /\ Len(c) = 15
             /\ c[1].fails <=> f.len < Ether
             /\ c[2].fails <=> f.tags >= 1 /\ Ether + Vlan > f.len
             /\ c[3].fails <=> f.tags >= 2 /\ Ether + 2 * Vlan > f.len
             /\ c[4].fails <=> f.tags > 2 \/ ~f.ip
             /\ c[5].fails <=> off + Ipv4 > f.len
             /\ c[6].fails <=> f.version # 4 \/ 4 * f.ihl < Ipv4
             /\ c[7].fails <=> UdpOffset(f) > f.len
             /\ c[8].fails <=> f.total < 4 * f.ihl \/ off + f.total > f.len
             /\ c[9].fails <=> f.fragment
             /\ c[10].fails <=> ~f.udp
             /\ c[11].fails <=> UdpOffset(f) + Udp > f.len
             /\ c[12].fails <=> f.udpLen < Udp
             /\ c[13].fails <=> 4 * f.ihl + f.udpLen > f.total
             /\ c[14].fails <=> f.udpLen - Udp > MaxPayload
             /\ c[15].fails <=> LineOf(f, eps) = "none"
BY Zenon DEF GeneralChecks, Check

LEMMA GeneralVerdicts ==
  ASSUME NEW f, NEW eps
  PROVE  LET c == GeneralChecks(f, eps)
         IN  /\ \A i \in {1, 2, 3, 5, 6, 7, 8, 9, 11, 12, 13, 14} : c[i].verdict = "Malformed"
             /\ \A i \in {4, 10, 15} : c[i].verdict = "Filtered"
BY DEF GeneralChecks, Check

LEMMA GeneralReads ==
  ASSUME NEW f, NEW eps
  PROVE  LET c   == GeneralChecks(f, eps)
             off == Ipv4Offset(f)
         IN  /\ \A i \in {1, 13, 14, 15} : c[i].reads = 0
             /\ c[2].reads = Ether
             /\ c[3].reads = IF f.tags >= 1 THEN Ether + Vlan ELSE Ether
             /\ \A i \in {4, 5} : c[i].reads = off
             /\ \A i \in {6, 7, 8, 9, 10, 11} : c[i].reads = off + Ipv4
             /\ c[12].reads = UdpOffset(f) + Udp
<1> DEFINE c   == GeneralChecks(f, eps)
           off == Ipv4Offset(f)
<1>1. /\ c[1].reads = 0 /\ c[13].reads = 0 /\ c[14].reads = 0 /\ c[15].reads = 0
      /\ c[2].reads = Ether
      /\ c[3].reads = IF f.tags >= 1 THEN Ether + Vlan ELSE Ether
      /\ c[4].reads = off /\ c[5].reads = off
      /\ c[12].reads = UdpOffset(f) + Udp
  BY Zenon DEF GeneralChecks, Check
<1>2. /\ c[6].reads = off + Ipv4 /\ c[7].reads = off + Ipv4 /\ c[8].reads = off + Ipv4
      /\ c[9].reads = off + Ipv4 /\ c[10].reads = off + Ipv4 /\ c[11].reads = off + Ipv4
  BY Zenon DEF GeneralChecks, Check
<1> HIDE DEF c, off
<1> QED  BY <1>1, <1>2, Zenon DEF c, off

\* Where the IPv4 header starts.
LEMMA OffsetOfTags ==
  ASSUME NEW f, IsFrame(f)
  PROVE  Ipv4Offset(f) = 14 + 4 * (IF f.tags <= 2 THEN f.tags ELSE 2)
BY MinOfTwo, Zenon DEF IsFrame, Ipv4Offset, Ether, Vlan

\* A parser accepts a frame exactly when all its checks pass.
LEMMA AcceptedPasses ==
  ASSUME NEW checks, Len(checks) \in Nat,
         \A i \in 1 .. Len(checks) : checks[i].verdict # "Accepted"
  PROVE  Verdict(checks) = "Accepted" <=> Passes(checks, Len(checks))
BY FirstFailingFirst DEF Verdict, Passes

\* A parser reads inside a frame when each check does as long as no earlier
\* one fails.
LEMMA ReadsInOrder ==
  ASSUME NEW f, NEW checks, Len(checks) \in Nat \ {0},
         \A j \in 1 .. Len(checks) : Passes(checks, j - 1) => checks[j].reads <= f.len
  PROVE  ReadsInside(f, checks)
<1> DEFINE stop == IF FirstFailing(checks) = 0 THEN Len(checks) ELSE FirstFailing(checks)
<1>1. stop \in 1 .. Len(checks) /\ Passes(checks, stop - 1)
  BY FirstFailingFirst DEF Passes
<1> HIDE DEF stop
<1>2. \A j \in 1 .. stop : j \in 1 .. Len(checks) /\ Passes(checks, j - 1)
  BY <1>1 DEF Passes
<1> QED
  BY <1>2, Zenon DEF ReadsInside, stop

\* parseFast reads no byte that an earlier check has not found in the frame.
LEMMA FastInside ==
  ASSUME NEW f, NEW eps, IsFrame(f)
  PROVE  ReadsInside(f, FastChecks(f, eps))
<1> DEFINE c == FastChecks(f, eps)
<1>1. /\ Len(c) = 10
      /\ c[1].fails <=> f.len < 14
      /\ c[3].fails <=> f.len < 42
  BY FastTests DEF Ether, Ipv4, Udp
<1>2. /\ \A i \in {1, 9, 10} : c[i].reads = 0
      /\ \A i \in {2, 3} : c[i].reads = 14
      /\ \A i \in {4, 5, 6, 7} : c[i].reads = 34
      /\ c[8].reads = 42
  BY FastReads DEF Ether, Ipv4, Udp
<1> HIDE DEF c
<1>3. ASSUME NEW j \in 1 .. 10, Passes(c, j - 1)
      PROVE  c[j].reads <= f.len
  <2>1. j > 1 => ~c[1].fails
    BY <1>3 DEF Passes
  <2>2. j > 3 => ~c[3].fails
    BY <1>3 DEF Passes
  <2>3. j \in {1, 9, 10} \/ j \in {2, 3} \/ j \in {4, 5, 6, 7} \/ j = 8
    OBVIOUS
  <2>4. f.len \in Nat
    BY DEF IsFrame
  <2> QED
    BY <1>1, <1>2, <2>1, <2>2, <2>3, <2>4
<1>4. \A j \in 1 .. Len(c) : Passes(c, j - 1) => c[j].reads <= f.len
  BY <1>1, <1>3
<1>5. Len(c) \in Nat \ {0}
  BY <1>1
<1>6. ReadsInside(f, c)
  BY <1>4, <1>5, ReadsInOrder, Zenon
<1> QED
  BY <1>6, Zenon DEF c

\* So does parseGeneral, with the tags and the options a frame may have.
LEMMA GeneralInside ==
  ASSUME NEW f, NEW eps, IsFrame(f)
  PROVE  ReadsInside(f, GeneralChecks(f, eps))
<1> DEFINE c   == GeneralChecks(f, eps)
           off == Ipv4Offset(f)
           udp == UdpOffset(f)
<1>1. /\ Len(c) = 15
      /\ c[1].fails <=> f.len < 14
      /\ c[2].fails <=> f.tags >= 1 /\ 14 + 4 > f.len
      /\ c[3].fails <=> f.tags >= 2 /\ 14 + 2 * 4 > f.len
      /\ c[5].fails <=> off + 20 > f.len
      /\ c[11].fails <=> udp + 8 > f.len
  BY GeneralTests, Zenon DEF Ether, Vlan, Ipv4, Udp
<1>2. /\ \A i \in {1, 13, 14, 15} : c[i].reads = 0
      /\ c[2].reads = 14
      /\ c[3].reads = IF f.tags >= 1 THEN 14 + 4 ELSE 14
      /\ \A i \in {4, 5} : c[i].reads = off
      /\ \A i \in {6, 7, 8, 9, 10, 11} : c[i].reads = off + 20
      /\ c[12].reads = udp + 8
  BY GeneralReads, Zenon DEF Ether, Vlan, Ipv4, Udp
<1>3. /\ f.len \in Nat /\ f.tags \in Nat
      /\ off = 14 + 4 * (IF f.tags <= 2 THEN f.tags ELSE 2)
      /\ udp \in Nat
  BY OffsetOfTags DEF IsFrame, UdpOffset
<1> HIDE DEF c, off, udp
<1>4. ASSUME NEW j \in 1 .. 15, Passes(c, j - 1)
      PROVE  c[j].reads <= f.len
  <2>1. /\ j > 1 => ~c[1].fails
        /\ j > 2 => ~c[2].fails
        /\ j > 3 => ~c[3].fails
        /\ j > 5 => ~c[5].fails
        /\ j > 11 => ~c[11].fails
    BY <1>4 DEF Passes
  <2>2. CASE j \in {1, 13, 14, 15}
    BY <1>2, <1>3, <2>2
  <2>3. CASE j \in {2, 3}
    BY <1>1, <1>2, <1>3, <2>1, <2>3
  <2>4. CASE j \in {4, 5}
    BY <1>1, <1>2, <1>3, <2>1, <2>4
  <2>5. CASE j \in {6, 7, 8, 9, 10, 11}
    BY <1>1, <1>2, <1>3, <2>1, <2>5
  <2>6. CASE j = 12
    BY <1>1, <1>2, <1>3, <2>1, <2>6
  <2> QED
    BY <2>2, <2>3, <2>4, <2>5, <2>6
<1>5. \A j \in 1 .. Len(c) : Passes(c, j - 1) => c[j].reads <= f.len
  BY <1>1, <1>4, Zenon
<1>6. Len(c) \in Nat \ {0}
  BY <1>1
<1>7. ReadsInside(f, c)
  BY <1>5, <1>6, ReadsInOrder
<1> QED
  BY <1>7 DEF c

\* A frame passes parseFast, when it has neither tags nor options.
FastAccepts(f, eps) ==
  /\ f.tags = 0 /\ f.ip /\ f.version = 4 /\ f.ihl = 5
  /\ f.len >= 42 /\ f.total >= 28 /\ 14 + f.total <= f.len
  /\ ~f.fragment /\ f.udp
  /\ f.udpLen >= 8 /\ 20 + f.udpLen <= f.total /\ f.udpLen - 8 <= MaxPayload
  /\ LineOf(f, eps) # "none"

\* A frame passes parseGeneral.
GeneralAccepts(f, eps) ==
  /\ f.tags <= 2 /\ f.ip /\ f.version = 4 /\ f.ihl >= 5
  /\ 14 + 4 * f.tags + f.total <= f.len
  /\ ~f.fragment /\ f.udp
  /\ f.udpLen >= 8 /\ 4 * f.ihl + f.udpLen <= f.total /\ f.udpLen - 8 <= MaxPayload
  /\ LineOf(f, eps) # "none"

\* The frames parseGeneral accepts.
LEMMA GeneralAcceptance ==
  ASSUME NEW f, NEW eps, IsFrame(f)
  PROVE  Verdict(GeneralChecks(f, eps)) = "Accepted" <=> GeneralAccepts(f, eps)
<1> DEFINE c == GeneralChecks(f, eps)
<1>1. Len(c) = 15 /\ \A i \in 1 .. 15 : c[i].verdict # "Accepted"
  <2>1. \A i \in 1 .. 15 : \/ i \in {1, 2, 3, 5, 6, 7, 8, 9, 11, 12, 13, 14}
                           \/ i \in {4, 10, 15}
    OBVIOUS
  <2> QED
    <3>1. /\ \A i \in {1, 2, 3, 5, 6, 7, 8, 9, 11, 12, 13, 14} : c[i].verdict = "Malformed"
          /\ \A i \in {4, 10, 15} : c[i].verdict = "Filtered"
      BY GeneralVerdicts, Zenon
    <3>2. Len(c) = 15
      BY GeneralTests, Zenon
    <3> HIDE DEF c
    <3> QED  BY <2>1, <3>1, <3>2
<1>2. /\ f.len \in Nat /\ f.tags \in Nat /\ f.ihl \in Nat /\ f.total \in Nat
      /\ f.udpLen \in Nat
      /\ Ipv4Offset(f) = 14 + 4 * (IF f.tags <= 2 THEN f.tags ELSE 2)
      /\ UdpOffset(f) = Ipv4Offset(f) + 4 * f.ihl
  BY OffsetOfTags DEF IsFrame, UdpOffset
<1>3. Passes(c, 15) <=> /\ ~c[1].fails /\ ~c[2].fails /\ ~c[3].fails /\ ~c[4].fails
                        /\ ~c[5].fails /\ ~c[6].fails /\ ~c[7].fails /\ ~c[8].fails
                        /\ ~c[9].fails /\ ~c[10].fails /\ ~c[11].fails /\ ~c[12].fails
                        /\ ~c[13].fails /\ ~c[14].fails /\ ~c[15].fails
  <2> HIDE DEF c
  <2>1. \A i \in 1 .. 15 : i \in {1, 2, 3, 4, 5, 6, 7, 8, 9, 10, 11, 12, 13, 14, 15}
    OBVIOUS
  <2> QED
    BY <2>1 DEF Passes
<1>4. Passes(c, 15) <=> GeneralAccepts(f, eps)
  <2> DEFINE off == Ipv4Offset(f)
             udp == UdpOffset(f)
  <2>1. /\ c[1].fails <=> f.len < 14
        /\ c[2].fails <=> f.tags >= 1 /\ 14 + 4 > f.len
        /\ c[3].fails <=> f.tags >= 2 /\ 14 + 2 * 4 > f.len
        /\ c[4].fails <=> f.tags > 2 \/ ~f.ip
        /\ c[5].fails <=> off + 20 > f.len
    BY GeneralTests, Zenon DEF Ether, Vlan, Ipv4
  <2>2. /\ c[6].fails <=> f.version # 4 \/ 4 * f.ihl < 20
        /\ c[7].fails <=> udp > f.len
        /\ c[8].fails <=> f.total < 4 * f.ihl \/ off + f.total > f.len
    <3>1. c[6].fails <=> f.version # 4 \/ 4 * f.ihl < Ipv4
      BY GeneralTests, Zenon
    <3>2. c[7].fails <=> udp > f.len
      BY GeneralTests, Zenon
    <3>3. c[8].fails <=> f.total < 4 * f.ihl \/ off + f.total > f.len
      BY GeneralTests, Zenon
    <3> QED  BY <3>1, <3>2, <3>3, Zenon DEF Ipv4
  <2>3. /\ c[11].fails <=> udp + 8 > f.len
        /\ c[12].fails <=> f.udpLen < 8
        /\ c[13].fails <=> 4 * f.ihl + f.udpLen > f.total
        /\ c[14].fails <=> f.udpLen - 8 > MaxPayload
    BY GeneralTests, Zenon DEF Udp
  <2>7. (c[9].fails <=> f.fragment) /\ (c[10].fails <=> ~f.udp)
        /\ (c[15].fails <=> LineOf(f, eps) = "none")
    BY GeneralTests, Zenon
  <2> HIDE DEF c, off, udp
  <2>4. /\ off = 14 + 4 * (IF f.tags <= 2 THEN f.tags ELSE 2)
        /\ udp = off + 4 * f.ihl
    BY <1>2, Zenon DEF off, udp
  <2>5. ASSUME Passes(c, 15)
        PROVE  GeneralAccepts(f, eps)
    <3>1. /\ ~c[4].fails /\ ~c[6].fails /\ ~c[8].fails /\ ~c[9].fails /\ ~c[10].fails
          /\ ~c[12].fails /\ ~c[13].fails /\ ~c[14].fails /\ ~c[15].fails
      BY <1>3, <2>5, Zenon
    <3>2. ~(f.tags > 2) /\ f.ip
      BY <2>1, <3>1, Zenon
    <3>3. f.version = 4 /\ ~(4 * f.ihl < 20) /\ ~(off + f.total > f.len)
      BY <2>2, <3>1
    <3>4. ~(f.udpLen < 8) /\ ~(4 * f.ihl + f.udpLen > f.total) /\ ~(f.udpLen - 8 > MaxPayload)
      BY <2>3, <3>1, Zenon
    <3>5. ~f.fragment /\ f.udp /\ LineOf(f, eps) # "none"
      BY <2>7, <3>1, Zenon
    <3> QED  BY <1>2, <2>4, <3>2, <3>3, <3>4, <3>5 DEF GeneralAccepts, MaxPayload
  <2>6. ASSUME GeneralAccepts(f, eps)
        PROVE  Passes(c, 15)
    <3>1. f.tags <= 2 /\ f.ip /\ f.version = 4 /\ f.ihl >= 5 /\ off = 14 + 4 * f.tags
          /\ off + f.total <= f.len /\ 4 * f.ihl + f.udpLen <= f.total /\ f.udpLen >= 8
          /\ f.udpLen - 8 <= MaxPayload
      BY <1>2, <2>4, <2>6 DEF GeneralAccepts, MaxPayload
    <3>2. ~c[1].fails /\ ~c[2].fails /\ ~c[3].fails /\ ~c[4].fails /\ ~c[5].fails
      BY <1>2, <2>1, <3>1
    <3>3. ~c[6].fails /\ ~c[7].fails /\ ~c[8].fails
      BY <1>2, <2>2, <2>4, <3>1
    <3>4. ~c[9].fails /\ ~c[10].fails /\ ~c[15].fails
      <4>1. ~f.fragment /\ f.udp /\ LineOf(f, eps) # "none"
        BY <2>6, Zenon DEF GeneralAccepts
      <4> QED  BY <2>7, <4>1
    <3>5. ~c[11].fails /\ ~c[12].fails /\ ~c[13].fails /\ ~c[14].fails
      BY <1>2, <2>3, <2>4, <3>1 DEF MaxPayload
    <3> QED  BY <1>3, <3>2, <3>3, <3>4, <3>5, Zenon
  <2> QED  BY <2>5, <2>6, Zenon
<1> HIDE DEF c
<1>5. Len(c) \in Nat /\ \A i \in 1 .. Len(c) : c[i].verdict # "Accepted"
  BY <1>1
<1>6. Verdict(c) = "Accepted" <=> Passes(c, Len(c))
  BY <1>5, AcceptedPasses, Zenon
<1> QED
  BY <1>1, <1>4, <1>6, Zenon DEF c

\* What parseFast decides on its own: it accepts a plain frame exactly when
\* parseGeneral does.
LEMMA FastAcceptance ==
  ASSUME NEW f, NEW eps, IsFrame(f), Verdict(FastChecks(f, eps)) # "General"
  PROVE  /\ Verdict(FastChecks(f, eps)) = "Accepted" <=> FastAccepts(f, eps)
         /\ FastAccepts(f, eps) <=> GeneralAccepts(f, eps)
<1> DEFINE c == FastChecks(f, eps)
           first == FirstFailing(c)
<1>1. Len(c) = 10
  BY FastTests, Zenon
<1>2. /\ \A i \in {1, 3, 5, 6, 7, 8, 9, 10} : c[i].verdict # "Accepted"
      /\ \A i \in {2, 4} : c[i].verdict = "General"
  <2>1. /\ \A i \in {1, 3, 5, 6, 8, 9} : c[i].verdict = "Malformed"
        /\ \A i \in {7, 10} : c[i].verdict = "Filtered"
        /\ \A i \in {2, 4} : c[i].verdict = "General"
    BY FastVerdicts, Zenon
  <2> HIDE DEF c
  <2> QED  BY <2>1
<1>3. /\ c[1].fails <=> f.len < 14
      /\ c[2].fails <=> f.tags > 0 \/ ~f.ip
      /\ c[3].fails <=> f.len < 42
      /\ c[4].fails <=> f.version # 4 \/ f.ihl # 5
      /\ c[5].fails <=> f.total < 28 \/ 14 + f.total > f.len
      /\ c[6].fails <=> f.fragment
      /\ c[7].fails <=> ~f.udp
      /\ c[8].fails <=> f.udpLen < 8 \/ 20 + f.udpLen > f.total
      /\ c[9].fails <=> f.udpLen - 8 > MaxPayload
      /\ c[10].fails <=> LineOf(f, eps) = "none"
  <2>1. c[1].fails <=> f.len < 14
    BY FastTests, Zenon DEF Ether
  <2>2. (c[2].fails <=> f.tags > 0 \/ ~f.ip) /\ (c[4].fails <=> f.version # 4 \/ f.ihl # 5)
    BY FastTests, Zenon
  <2>3. c[3].fails <=> f.len < 42
    <3>1. c[3].fails <=> f.len < 14 + 20 + 8
      BY FastTests, Zenon DEF Ether, Ipv4, Udp
    <3> HIDE DEF c
    <3> QED  BY <3>1
  <2>4. c[5].fails <=> f.total < 28 \/ 14 + f.total > f.len
    <3>1. c[5].fails <=> f.total < 20 + 8 \/ 14 + f.total > f.len
      BY FastTests, Zenon DEF Ether, Ipv4, Udp
    <3> HIDE DEF c
    <3> QED  BY <3>1
  <2>5. (c[6].fails <=> f.fragment) /\ (c[7].fails <=> ~f.udp)
        /\ (c[10].fails <=> LineOf(f, eps) = "none")
    BY FastTests, Zenon
  <2>6. c[8].fails <=> f.udpLen < 8 \/ 20 + f.udpLen > f.total
    BY FastTests, Zenon DEF Ipv4, Udp
  <2>7. c[9].fails <=> f.udpLen - 8 > MaxPayload
    <3>1. c[9].fails <=> f.udpLen - Udp > MaxPayload
      BY FastTests, Zenon
    <3> QED  BY <3>1, Zenon DEF Udp
  <2> HIDE DEF c
  <2> QED  BY <2>1, <2>2, <2>3, <2>4, <2>5, <2>6, <2>7
<1>4. /\ f.len \in Nat /\ f.tags \in Nat /\ f.ihl \in Nat /\ f.total \in Nat
      /\ f.udpLen \in Nat
  BY DEF IsFrame
<1>5. Verdict(c) # "General" /\ Verdict(c) = IF first = 0 THEN "Accepted" ELSE c[first].verdict
  BY Zenon DEF Verdict
<1> HIDE DEF c
<1>6. \/ first = 0 /\ Passes(c, 10)
      \/ first \in 1 .. 10 /\ c[first].fails /\ Passes(c, first - 1)
  <2>1. Len(c) \in Nat
    BY <1>1
  <2> QED
    BY <1>1, <2>1, FirstFailingFirst, Zenon
<1> HIDE DEF first
<1>7. CASE first = 0
  <2>1. Verdict(c) = "Accepted"
    BY <1>5, <1>7, Zenon
  <2>2. /\ ~c[1].fails /\ ~c[2].fails /\ ~c[3].fails /\ ~c[4].fails /\ ~c[5].fails
        /\ ~c[6].fails /\ ~c[7].fails /\ ~c[8].fails /\ ~c[9].fails /\ ~c[10].fails
    BY <1>6, <1>7 DEF Passes
  <2>3. FastAccepts(f, eps)
    BY <1>3, <1>4, <2>2 DEF FastAccepts, MaxPayload
  <2>4. GeneralAccepts(f, eps)
    BY <1>4, <2>3 DEF FastAccepts, GeneralAccepts
  <2> QED
    BY <2>1, <2>3, <2>4, Zenon DEF c
<1>8. CASE first # 0
  <2>1. first \in {1, 3, 5, 6, 7, 8, 9, 10}
    BY <1>2, <1>5, <1>6, <1>8
  <2>2. Verdict(c) # "Accepted"
    BY <1>2, <1>5, <1>8, <2>1
  <2>3. ~FastAccepts(f, eps)
    <3>1. c[first].fails
      BY <1>6, <1>8, Zenon
    <3>2. FastAccepts(f, eps) => /\ ~c[1].fails /\ ~c[3].fails /\ ~c[5].fails /\ ~c[6].fails
                                 /\ ~c[7].fails /\ ~c[8].fails /\ ~c[9].fails /\ ~c[10].fails
      BY <1>3, <1>4 DEF FastAccepts, MaxPayload
    <3> QED  BY <2>1, <3>1, <3>2, Zenon
  <2>4. ~GeneralAccepts(f, eps)
    <3>1. first > 4 => ~c[4].fails
      BY <1>6, <1>8 DEF Passes
    <3>2. first > 2 => ~c[2].fails
      BY <1>6, <1>8 DEF Passes
    <3> QED
      BY <1>3, <1>4, <1>6, <1>8, <2>1, <3>1, <3>2 DEF GeneralAccepts, MaxPayload
  <2> QED
    BY <2>2, <2>3, <2>4, Zenon DEF c
<1> QED
  BY <1>7, <1>8, Zenon

\* What the parsers promise holds for every frame, whatever its lengths, and
\* for every pair of lines: parseFast and parseGeneral read inside the frame,
\* accept the same frames, and give the same payload, which is in the frame.
THEOREM ParsersSound ==
  ASSUME NEW f, NEW eps, IsFrame(f)
  PROVE  Sound(f, eps)
<1> DEFINE fast    == ParseFast(f, eps)
           general == ParseGeneral(f, eps)
           vf      == Verdict(FastChecks(f, eps))
           vg      == Verdict(GeneralChecks(f, eps))
<1>1. /\ f.len \in Nat /\ f.tags \in Nat /\ f.ihl \in Nat /\ f.total \in Nat
      /\ f.udpLen \in Nat
      /\ Ipv4Offset(f) = 14 + 4 * (IF f.tags <= 2 THEN f.tags ELSE 2)
      /\ UdpOffset(f) = Ipv4Offset(f) + 4 * f.ihl
  BY OffsetOfTags DEF IsFrame, UdpOffset
<1>2. vg = "Accepted" <=> GeneralAccepts(f, eps)
  BY GeneralAcceptance, Zenon
<1>3. vf # "General" => (vf = "Accepted" <=> vg = "Accepted")
  BY <1>2, FastAcceptance
<1>4. general = Parsed(vg, UdpOffset(f) + 8, f, eps, FALSE)
  BY DEF ParseGeneral, Udp
<1>5. fast = IF vf = "General" THEN general ELSE Parsed(vf, 42, f, eps, TRUE)
  BY DEF ParseFast, Ether, Ipv4, Udp
<1>6. vf # "General" /\ vf = "Accepted" => UdpOffset(f) + 8 = 42
  BY <1>1, FastAcceptance DEF FastAccepts
<1> HIDE DEF fast, general, vf, vg
<1>7. (fast.status = "Accepted") <=> (general.status = "Accepted")
  BY <1>3, <1>4, <1>5, Zenon DEF Parsed
<1>8. ASSUME fast.status = "Accepted"
      PROVE  /\ general.size = f.udpLen - 8 /\ general.payload = UdpOffset(f) + 8
             /\ fast.size = general.size /\ fast.payload = general.payload
             /\ fast.line = general.line
  <2>1. vg = "Accepted"
    BY <1>3, <1>4, <1>5, <1>8, Zenon DEF Parsed
  <2>2. general = [status |-> "Accepted", payload |-> UdpOffset(f) + 8, size |-> f.udpLen - 8,
                   line |-> LineOf(f, eps), fast |-> FALSE]
    BY <1>4, <2>1, Zenon DEF Parsed, Udp
  <2>3. fast = general \/ fast = [status |-> "Accepted", payload |-> UdpOffset(f) + 8,
                                  size |-> f.udpLen - 8, line |-> LineOf(f, eps), fast |-> TRUE]
    BY <1>3, <1>5, <1>6, <2>1, ZenonT(60) DEF Parsed, Udp
  <2> QED
    BY <2>2, <2>3
<1>9. ASSUME fast.status = "Accepted"
      PROVE  fast.size <= MaxPayload /\ fast.payload + fast.size <= f.len
  <2>1. GeneralAccepts(f, eps)
    BY <1>2, <1>4, <1>7, <1>9, Zenon DEF Parsed
  <2> QED
    BY <1>1, <1>8, <1>9, <2>1 DEF GeneralAccepts, MaxPayload
<1> QED
  BY <1>7, <1>8, <1>9, FastInside, GeneralInside, Zenon DEF Sound, fast, general

\* A frame is accepted for a line, filtered or malformed, whichever parser
\* decides.
LEMMA ParseVerdicts ==
  ASSUME NEW f, NEW eps
  PROVE  /\ Parse(f, eps).status \in {"Accepted", "Filtered", "Malformed"}
         /\ Parse(f, eps).status = "Accepted" => Parse(f, eps).line \in {"a", "b"}
<1>1. Verdict(GeneralChecks(f, eps)) \in {"Accepted", "Filtered", "Malformed"}
      /\ (Verdict(GeneralChecks(f, eps)) = "Accepted" => LineOf(f, eps) # "none")
  <2> DEFINE c == GeneralChecks(f, eps)
             first == FirstFailing(c)
  <2>1. Len(c) = 15 /\ (c[15].fails <=> LineOf(f, eps) = "none")
    BY GeneralTests, Zenon
  <2>2. /\ \A i \in {1, 2, 3, 5, 6, 7, 8, 9, 11, 12, 13, 14} : c[i].verdict = "Malformed"
        /\ \A i \in {4, 10, 15} : c[i].verdict = "Filtered"
    BY GeneralVerdicts, Zenon
  <2>3. Verdict(c) = IF first = 0 THEN "Accepted" ELSE c[first].verdict
    BY DEF Verdict
  <2> HIDE DEF c
  <2>4. (first = 0 /\ Passes(c, 15)) \/ first \in 1 .. 15
    <3>1. Len(c) \in Nat
      BY <2>1
    <3> QED
      BY <2>1, <3>1, FirstFailingFirst, Zenon
  <2> HIDE DEF first
  <2>5. ASSUME first = 0
        PROVE  Verdict(c) = "Accepted" /\ ~c[15].fails
    BY <2>1, <2>3, <2>4, <2>5 DEF Passes
  <2>6. ASSUME first \in 1 .. 15
        PROVE  Verdict(c) \in {"Filtered", "Malformed"}
    <3>1. \A i \in 1 .. 15 : i \in {1, 2, 3, 5, 6, 7, 8, 9, 11, 12, 13, 14} \/ i \in {4, 10, 15}
      OBVIOUS
    <3>2. c[first].verdict \in {"Filtered", "Malformed"} /\ first # 0
      BY <2>2, <2>6, <3>1
    <3> QED
      BY <2>3, <3>2, Zenon
  <2> QED
    BY <2>1, <2>4, <2>5, <2>6, Zenon DEF c
<1>2. Verdict(FastChecks(f, eps)) \in {"Accepted", "Filtered", "Malformed", "General"}
      /\ (Verdict(FastChecks(f, eps)) = "Accepted" => LineOf(f, eps) # "none")
  <2> DEFINE c == FastChecks(f, eps)
             first == FirstFailing(c)
  <2>1. Len(c) = 10 /\ (c[10].fails <=> LineOf(f, eps) = "none")
    BY FastTests, Zenon
  <2>2. /\ \A i \in {1, 3, 5, 6, 8, 9} : c[i].verdict = "Malformed"
        /\ \A i \in {7, 10} : c[i].verdict = "Filtered"
        /\ \A i \in {2, 4} : c[i].verdict = "General"
    BY FastVerdicts
  <2>3. Verdict(c) = IF first = 0 THEN "Accepted" ELSE c[first].verdict
    BY DEF Verdict
  <2> HIDE DEF c
  <2>4. (first = 0 /\ Passes(c, 10)) \/ first \in 1 .. 10
    <3>1. Len(c) \in Nat
      BY <2>1
    <3> QED
      BY <2>1, <3>1, FirstFailingFirst, Zenon
  <2> HIDE DEF first
  <2>5. ASSUME first = 0
        PROVE  Verdict(c) = "Accepted" /\ ~c[10].fails
    BY <2>1, <2>3, <2>4, <2>5 DEF Passes
  <2>6. ASSUME first \in 1 .. 10
        PROVE  Verdict(c) \in {"Filtered", "Malformed", "General"}
    <3>1. \A i \in 1 .. 10 : i \in {1, 3, 5, 6, 8, 9} \/ i \in {7, 10} \/ i \in {2, 4}
      OBVIOUS
    <3>2. c[first].verdict \in {"Filtered", "Malformed", "General"} /\ first # 0
      BY <2>2, <2>6, <3>1
    <3> QED
      BY <2>3, <3>2, Zenon
  <2> QED
    BY <2>1, <2>4, <2>5, <2>6, Zenon DEF c
<1>3. LineOf(f, eps) \in {"a", "b", "none"}
  BY Zenon DEF LineOf
<1>4. ASSUME NEW v \in {"Accepted", "Filtered", "Malformed"}, NEW payload, NEW fast,
             v = "Accepted" => LineOf(f, eps) # "none"
      PROVE  /\ Parsed(v, payload, f, eps, fast).status \in {"Accepted", "Filtered", "Malformed"}
             /\ Parsed(v, payload, f, eps, fast).status = "Accepted"
                  => Parsed(v, payload, f, eps, fast).line \in {"a", "b"}
  BY <1>3, <1>4, Zenon DEF Parsed
<1>5. \E v \in {"Accepted", "Filtered", "Malformed"} : \E payload, fast :
        /\ v = "Accepted" => LineOf(f, eps) # "none"
        /\ Parse(f, eps) = Parsed(v, payload, f, eps, fast)
  <2>1. CASE ~f.contiguous
    BY <2>1, Zenon DEF Parse
  <2>2. CASE f.contiguous /\ Verdict(FastChecks(f, eps)) = "General"
    BY <1>1, <2>2, Zenon DEF Parse, ParseFast, ParseGeneral
  <2>3. CASE f.contiguous /\ Verdict(FastChecks(f, eps)) # "General"
    BY <1>2, <2>3, Zenon DEF Parse, ParseFast
  <2> QED
    BY <2>1, <2>2, <2>3, Zenon
<1> QED
  BY <1>4, <1>5
-----------------------------------------------------------------------------
\* The buffers of the DPDK receiver.

Lent == {delivered} \ {NoMbuf}

\* Where the buffers are: each in one place.
BufferInv ==
  /\ pool \subseteq Mbufs /\ ring \in Seq(Mbufs) /\ burst \in Seq(Mbufs)
  /\ delivered \in Mbufs \cup {NoMbuf}
  /\ pool \cup Range(ring) \cup Range(burst) \cup Lent = Mbufs
  /\ pool \cap Range(ring) = {} /\ pool \cap Range(burst) = {} /\ pool \cap Lent = {}
  /\ Range(ring) \cap Range(burst) = {} /\ Range(ring) \cap Lent = {}
  /\ Range(burst) \cap Lent = {}
  /\ IsInjective(ring) /\ IsInjective(burst)
  /\ dpdk \in {"next", "closing", "destroyed"} => delivered = NoMbuf
  /\ "pool" \notin held => pool = Mbufs

\* What is held of the port: nothing without what it was set up on.  A port
\* that is polled is started, one that is not configured has no buffers.
HeldInv ==
  /\ held \subseteq {"isolation", "pool", "device", "queue", "flowA", "flowB", "started"}
  /\ "started" \in held => "queue" \in held
  /\ "queue" \in held => "device" \in held
  /\ "device" \in held => "pool" \in held
  /\ "flowA" \in held \/ "flowB" \in held => "isolation" \in held
  /\ "device" \notin held => ring = << >>
  /\ dpdk \in {"idle", "next"} => "started" \in held
  /\ dpdk = "destroyed" => held = {}

\* What is in them: a frame where the receiver will look for one, and in the
\* buffer that is lent the packet the caller was given.
ContentInv ==
  /\ content = [b \in Mbufs |-> content[b]]
  /\ \A b \in Range(ring) \cup Range(burst) : IsFrame(content[b])
  /\ view.mbuf # NoMbuf => view.mbuf = delivered /\ content[delivered] = view.frame

DpdkInv == BufferInv /\ HeldInv /\ ContentInv

\* The pool, the ring, the burst and the caller have the buffers, each its own.
Shared(P, R, B, L) ==
  /\ P \cup R \cup B \cup L = Mbufs
  /\ P \cap R = {} /\ P \cap B = {} /\ P \cap L = {}
  /\ R \cap B = {} /\ R \cap L = {} /\ B \cap L = {}

\* A buffer goes to the ring; the ring to the burst; a buffer of the burst to
\* the caller or to the pool.
LEMMA BufferMoves ==
  ASSUME NEW P, NEW R, NEW B, NEW L, NEW R2, NEW B2, NEW b, Shared(P, R, B, L)
  PROVE  /\ b \in P => Shared(P \ {b}, R \cup {b}, B, L)
         /\ B = {} /\ R = B2 \cup R2 /\ B2 \cap R2 = {} => Shared(P, R2, B2, L)
         /\ L = {} /\ B = B2 \cup {b} /\ b \notin B2 => /\ Shared(P, R, B2, {b})
                                                    /\ Shared(P \cup {b}, R, B2, {})
<1>1. b \in P => Shared(P \ {b}, R \cup {b}, B, L)
  BY DEF Shared
<1>2. B = {} /\ R = B2 \cup R2 /\ B2 \cap R2 = {} => Shared(P, R2, B2, L)
  BY DEF Shared
<1>3. L = {} /\ B = B2 \cup {b} /\ b \notin B2 => Shared(P, R, B2, {b})
  BY DEF Shared
<1>4. L = {} /\ B = B2 \cup {b} /\ b \notin B2 => Shared(P \cup {b}, R, B2, {})
  BY DEF Shared
<1> QED  BY <1>1, <1>2, <1>3, <1>4, Zenon

\* An empty ring or burst holds no buffer.
LEMMA EmptyRange == Range(<< >>) = {} /\ IsInjective(<< >>)
BY DEF Range, IsInjective

\* What comes first when the port is set up, and when it is given back.
LEMMA FirstSetUp ==
  ASSUME NEW r, NEW S, IsFirst(r, SetupOrder, S)
  PROVE  /\ r = "started" => "queue" \notin S
         /\ r = "queue" => "device" \notin S
         /\ r = "device" => "pool" \notin S
         /\ r \in {"flowA", "flowB"} => "isolation" \notin S
<1>1. PICK i \in 1 .. 7 : r = SetupOrder[i] /\ \A j \in 1 .. i - 1 : SetupOrder[j] \notin S
  BY DEF IsFirst, SetupOrder
<1>2. /\ SetupOrder[1] = "isolation" /\ SetupOrder[2] = "pool" /\ SetupOrder[3] = "device"
      /\ SetupOrder[4] = "queue" /\ SetupOrder[5] = "flowA" /\ SetupOrder[6] = "flowB"
      /\ SetupOrder[7] = "started"
  BY DEF SetupOrder
<1> QED
  BY <1>1, <1>2

LEMMA FirstGivenBack ==
  ASSUME NEW r, NEW S, IsFirst(r, ReleaseOrder, S)
  PROVE  /\ r = "isolation" => "flowA" \notin S /\ "flowB" \notin S
         /\ r = "device" => "started" \notin S
         /\ r = "pool" => {"flowA", "flowB", "isolation", "started", "device"} \cap S = {}
         /\ r # "queue"
<1>1. PICK i \in 1 .. 6 : r = ReleaseOrder[i] /\ \A j \in 1 .. i - 1 : ReleaseOrder[j] \notin S
  BY DEF IsFirst, ReleaseOrder
<1>2. /\ ReleaseOrder[1] = "flowA" /\ ReleaseOrder[2] = "flowB" /\ ReleaseOrder[3] = "isolation"
      /\ ReleaseOrder[4] = "started" /\ ReleaseOrder[5] = "device" /\ ReleaseOrder[6] = "pool"
  BY DEF ReleaseOrder
<1>3. i = 1 \/ i = 2 \/ i = 3 \/ i = 4 \/ i = 5 \/ i = 6
  OBVIOUS
<1>4. /\ r = "isolation" => i = 3
      /\ r = "device" => i = 5
      /\ r = "pool" => i = 6
      /\ r # "queue"
  BY <1>1, <1>2, <1>3, Zenon
<1>5. \A k \in 1 .. 6, j \in 1 .. 6 : j < k => j \in 1 .. k - 1
  OBVIOUS
<1>6. \A j \in 1 .. 6 : j < i => ReleaseOrder[j] \notin S
  BY <1>1, <1>5, Zenon
<1>7. /\ i = 3 => ReleaseOrder[1] \notin S /\ ReleaseOrder[2] \notin S
      /\ i = 5 => ReleaseOrder[4] \notin S
      /\ i = 6 => /\ ReleaseOrder[1] \notin S /\ ReleaseOrder[2] \notin S /\ ReleaseOrder[3] \notin S
                  /\ ReleaseOrder[4] \notin S /\ ReleaseOrder[5] \notin S
  <2>1. 1 < 3 /\ 2 < 3 /\ 4 < 5 /\ \A j \in 1 .. 5 : j < 6
    OBVIOUS
  <2>2. 1 \in 1 .. 5 /\ 2 \in 1 .. 5 /\ 3 \in 1 .. 5 /\ 4 \in 1 .. 5 /\ 5 \in 1 .. 5 /\ 1 .. 5 \subseteq 1 .. 6
    OBVIOUS
  <2> QED
    BY <1>6, <2>1, <2>2, Zenon
<1> QED
  BY <1>2, <1>4, <1>7, Zenon

\* A frame the port receives goes into a free buffer: what is lent, or waits
\* to be looked at, is not written to.
LEMMA ArrivalPreserves ==
  ASSUME NEW f \in Frames \cup OddFrames, NEW b \in Mbufs, DpdkInv, FrameArrives(f, b)
  PROVE  DpdkInv'
<1> USE DEF DpdkInv
<1>1. /\ b \in pool /\ pool' = pool \ {b} /\ ring' = Append(ring, b)
      /\ content' = [content EXCEPT ![b] = f]
      /\ "started" \in held
      /\ UNCHANGED <<held, dpdk, burst, delivered, view>>
  BY Zenon DEF FrameArrives
<1>2. ring \in Seq(Mbufs) /\ b \notin Range(ring) /\ IsInjective(ring)
  BY <1>1, Zenon DEF BufferInv
<1>3. /\ ring' \in Seq(Mbufs) /\ Range(ring)' = Range(ring) \cup {b}
      /\ IsInjective(ring)'
  BY <1>1, <1>2, AppendRange
<1>4. Range(burst)' = Range(burst) /\ Lent' = Lent /\ IsInjective(burst)' = IsInjective(burst)
  BY <1>1, Zenon DEF Lent
<1>5. "pool" \in held /\ "device" \in held
  BY <1>1, Zenon DEF HeldInv
<1>6. BufferInv'
  <2>1. Shared(pool, Range(ring), Range(burst), Lent)
    BY Zenon DEF BufferInv, Shared
  <2>2. Shared(pool', Range(ring)', Range(burst)', Lent')
    <3>1. Shared(pool \ {b}, Range(ring) \cup {b}, Range(burst), Lent)
      BY <1>1, <2>1, BufferMoves, Zenon
    <3> QED  BY <1>1, <1>3, <1>4, <3>1, Zenon
  <2>3. pool' \subseteq Mbufs
    BY <1>1, Zenon DEF BufferInv
  <2> QED  BY <1>1, <1>3, <1>4, <1>5, <2>2, <2>3, ZenonT(60) DEF BufferInv, Shared
<1>7. content' = [c \in Mbufs |-> content'[c]] /\ content'[b] = f
      /\ \A c \in Mbufs \ {b} : content'[c] = content[c]
  BY <1>1, Zenon DEF ContentInv
<1>8. IsFrame(f)
  BY DpdkAssumption, Zenon
<1>9. ASSUME NEW c \in Range(ring)' \cup Range(burst)'
      PROVE  IsFrame(content'[c])
  <2>1. CASE c = b
    BY <1>7, <1>8, <2>1, Zenon
  <2>2. CASE c # b
    <3>1. c \in Range(ring) \cup Range(burst) /\ c \in Mbufs
      BY <1>3, <1>4, <2>2, Zenon DEF BufferInv
    <3>2. IsFrame(content[c]) /\ content'[c] = content[c]
      BY <1>7, <2>2, <3>1, Zenon DEF ContentInv
    <3> QED
      BY <3>2, Zenon
  <2> QED
    BY <2>1, <2>2, Zenon
<1>10. ASSUME view.mbuf # NoMbuf
       PROVE  view.mbuf = delivered /\ content'[delivered] = view.frame
  <2>1. view.mbuf = delivered /\ content[delivered] = view.frame /\ delivered \in Mbufs
    BY <1>10, Zenon DEF ContentInv, BufferInv
  <2>2. delivered # b
    BY <1>1, <1>10, <2>1, ZenonT(60) DEF BufferInv, Lent
  <2> QED
    BY <1>7, <2>1, <2>2, Zenon
<1>11. ContentInv'
  BY <1>1, <1>7, <1>9, <1>10, Zenon DEF ContentInv
<1>12. HeldInv'
  BY <1>1, <1>5, Zenon DEF HeldInv
<1> QED
  BY <1>6, <1>11, <1>12, Zenon

\* next() frees the buffer that was lent, and gives up the view.
LEMMA CallPreserves ==
  ASSUME DpdkInv, CallNext
  PROVE  DpdkInv'
<1>1. /\ pool' = pool \cup Lent /\ delivered' = NoMbuf /\ dpdk' = "next"
      /\ view' = NoView /\ UNCHANGED <<content, ring, burst, held>>
  BY DEF CallNext, Lent
<1>2. /\ Range(ring)' = Range(ring) /\ Range(burst)' = Range(burst) /\ Lent' = {}
      /\ IsInjective(ring)' = IsInjective(ring) /\ IsInjective(burst)' = IsInjective(burst)
  BY <1>1, Zenon DEF Lent
<1>3. BufferInv'
  BY <1>1, <1>2, Zenon DEF DpdkInv, BufferInv
<1>4. ContentInv'
  BY <1>1, <1>2, Zenon DEF DpdkInv, ContentInv, NoView
<1>5. HeldInv'
  BY <1>1, Zenon DEF DpdkInv, HeldInv, CallNext
<1> QED
  BY <1>3, <1>4, <1>5, Zenon DEF DpdkInv

\* A burst moves buffers from the ring to the receiver.
LEMMA BurstPreserves ==
  ASSUME DpdkInv, ReceiveBurst
  PROVE  DpdkInv'
<1> DEFINE n == Min({Len(ring), BurstSize})
<1>1. ring \in Seq(Mbufs) /\ IsInjective(ring) /\ Len(ring) \in Nat
  BY DEF DpdkInv, BufferInv
<1>2. n \in 0 .. Len(ring)
  <2>1. BurstSize \in Nat
    BY DpdkAssumption, Zenon
  <2>2. n = IF Len(ring) <= BurstSize THEN Len(ring) ELSE BurstSize
    BY <1>1, <2>1, MinOfTwo, Zenon
  <2> QED
    BY <1>1, <2>1, <2>2
<1> HIDE DEF n
<1>3. /\ SubSeq(ring, 1, n) \in Seq(Mbufs) /\ SubSeq(ring, n + 1, Len(ring)) \in Seq(Mbufs)
      /\ Len(SubSeq(ring, 1, n)) = n
      /\ Range(ring) = Range(SubSeq(ring, 1, n)) \cup Range(SubSeq(ring, n + 1, Len(ring)))
      /\ IsInjective(SubSeq(ring, 1, n)) /\ IsInjective(SubSeq(ring, n + 1, Len(ring)))
      /\ Range(SubSeq(ring, 1, n)) \cap Range(SubSeq(ring, n + 1, Len(ring))) = {}
  BY <1>1, <1>2, SplitRange
<1>4. Burst = SubSeq(ring, 1, n)
  BY Zenon DEF Burst, n
<1>5. /\ burst' = SubSeq(ring, 1, n) /\ ring' = SubSeq(ring, n + 1, Len(ring))
      /\ burst = << >> /\ dpdk = "next" /\ dpdk' \in {"idle", "next"}
      /\ UNCHANGED <<pool, content, delivered, view, held>>
  BY <1>3, <1>4, Zenon DEF ReceiveBurst
<1>6. /\ ring' \in Seq(Mbufs) /\ burst' \in Seq(Mbufs)
      /\ Range(ring) = Range(burst)' \cup Range(ring)'
      /\ IsInjective(burst)' /\ IsInjective(ring)'
      /\ Range(burst)' \cap Range(ring)' = {}
  BY <1>3, <1>5
<1>7. Range(burst) = {} /\ Lent' = Lent
  BY <1>5 DEF Range, Lent
<1>8. BufferInv'
  <2>1. Shared(pool, Range(ring), Range(burst), Lent)
    BY Zenon DEF DpdkInv, BufferInv, Shared
  <2>2. Shared(pool, Range(ring)', Range(burst)', Lent)
    BY <1>6, <1>7, <2>1, BufferMoves, Zenon
  <2>3. Shared(pool', Range(ring)', Range(burst)', Lent')
    BY <1>5, <1>7, <2>2, Zenon
  <2> QED  BY <1>5, <1>6, <1>7, <2>3, ZenonT(60) DEF DpdkInv, BufferInv, Shared
<1>9. ContentInv'
  BY <1>5, <1>6, <1>7, Zenon DEF DpdkInv, ContentInv
<1>10. HeldInv'
  BY <1>5, Zenon DEF DpdkInv, HeldInv
<1> QED
  BY <1>8, <1>9, <1>10, Zenon DEF DpdkInv

\* A frame of the burst is lent to the caller, or its buffer is freed.
LEMMA TakePreserves ==
  ASSUME DpdkInv, TakeFrame
  PROVE  DpdkInv'
<1> DEFINE b == Head(burst)
           p == Parse(content[b], ends)
<1>1. burst \in Seq(Mbufs) /\ burst # << >> /\ IsInjective(burst)
  BY Zenon DEF DpdkInv, BufferInv, TakeFrame
<1>2. /\ Tail(burst) \in Seq(Mbufs) /\ b \in Mbufs
      /\ Range(burst) = Range(Tail(burst)) \cup {b}
      /\ IsInjective(Tail(burst)) /\ b \notin Range(Tail(burst))
  BY <1>1, TailRange
<1>3. /\ burst' = Tail(burst) /\ UNCHANGED <<content, ring, held>> /\ dpdk = "next"
      /\ pool' = IF p.status = "Accepted" THEN pool ELSE pool \cup {b}
      /\ p.status = "Accepted" =>
           delivered' = b /\ view' = [mbuf |-> b, frame |-> content[b]] /\ dpdk' = "idle"
      /\ p.status # "Accepted" => UNCHANGED <<delivered, view, dpdk>>
  BY ZenonT(60) DEF TakeFrame, Released
<1> HIDE DEF b, p
<1>4. /\ burst' \in Seq(Mbufs) /\ Range(burst) = Range(burst)' \cup {b}
      /\ IsInjective(burst)' /\ b \notin Range(burst)'
      /\ Range(ring)' = Range(ring) /\ IsInjective(ring)' = IsInjective(ring)
  BY <1>2, <1>3, Zenon
<1>5. Lent = {} /\ delivered = NoMbuf
  BY <1>3, Zenon DEF DpdkInv, BufferInv, Lent
<1>8. HeldInv'
  BY <1>3, Zenon DEF DpdkInv, HeldInv
<1>6. CASE p.status = "Accepted"
  <2>1. Lent' = {b}
    BY <1>2, <1>3, <1>6, DpdkAssumption, Zenon DEF Lent
  <2>2. BufferInv'
    <3>1. Shared(pool, Range(ring), Range(burst), Lent)
      BY Zenon DEF DpdkInv, BufferInv, Shared
    <3>2. Shared(pool, Range(ring), Range(burst)', {b})
      BY <1>4, <1>5, <3>1, BufferMoves, Zenon
    <3>3. Shared(pool', Range(ring)', Range(burst)', Lent')
      BY <1>3, <1>4, <1>6, <2>1, <3>2, Zenon
    <3> QED  BY <1>2, <1>3, <1>4, <1>6, <3>3, ZenonT(60) DEF DpdkInv, BufferInv, Shared
  <2>3. ContentInv'
    BY <1>3, <1>4, <1>6 DEF DpdkInv, ContentInv
  <2> QED
    BY <1>8, <2>2, <2>3, Zenon DEF DpdkInv
<1>7. CASE p.status # "Accepted"
  <2>1. Lent' = {}
    BY <1>3, <1>5, <1>7, Zenon DEF Lent
  <2>2. BufferInv'
    <3>1. Shared(pool, Range(ring), Range(burst), Lent)
      BY Zenon DEF DpdkInv, BufferInv, Shared
    <3>2. Shared(pool \cup {b}, Range(ring), Range(burst)', {})
      BY <1>4, <1>5, <3>1, BufferMoves, Zenon
    <3>3. Shared(pool', Range(ring)', Range(burst)', Lent')
      BY <1>3, <1>4, <1>7, <2>1, <3>2, Zenon
    <3>4. pool' \subseteq Mbufs
      BY <1>2, <1>3, <1>7, Zenon DEF DpdkInv, BufferInv
    <3> QED  BY <1>2, <1>3, <1>4, <1>7, <3>3, <3>4, ZenonT(60) DEF DpdkInv, BufferInv, Shared
  <2>3. ContentInv'
    BY <1>3, <1>4, <1>7, ZenonT(60) DEF DpdkInv, ContentInv
  <2> QED
    BY <1>8, <2>2, <2>3, Zenon DEF DpdkInv
<1> QED
  BY <1>6, <1>7, Zenon

\* The destructor begins as next() does.
LEMMA DestroyPreserves ==
  ASSUME DpdkInv, Destroy
  PROVE  DpdkInv'
<1>1. /\ pool' = pool \cup Lent /\ delivered' = NoMbuf /\ dpdk' = "closing"
      /\ view' = NoView /\ UNCHANGED <<content, ring, burst, held>>
  BY DEF Destroy, Lent
<1>2. /\ Range(ring)' = Range(ring) /\ Range(burst)' = Range(burst) /\ Lent' = {}
      /\ IsInjective(ring)' = IsInjective(ring) /\ IsInjective(burst)' = IsInjective(burst)
  BY <1>1, Zenon DEF Lent
<1>3. BufferInv'
  BY <1>1, <1>2, Zenon DEF DpdkInv, BufferInv
<1>4. ContentInv'
  BY <1>1, <1>2, Zenon DEF DpdkInv, ContentInv, NoView
<1>5. HeldInv'
  BY <1>1, Zenon DEF DpdkInv, HeldInv
<1> QED
  BY <1>3, <1>4, <1>5, Zenon DEF DpdkInv

\* It frees what is left of the burst.
LEMMA ReleasePreserves ==
  ASSUME DpdkInv, ReleaseCached
  PROVE  DpdkInv'
<1> DEFINE b == Head(burst)
<1>1. burst \in Seq(Mbufs) /\ burst # << >> /\ IsInjective(burst)
  BY Zenon DEF DpdkInv, BufferInv, ReleaseCached
<1>2. /\ Tail(burst) \in Seq(Mbufs) /\ b \in Mbufs
      /\ Range(burst) = Range(Tail(burst)) \cup {b}
      /\ IsInjective(Tail(burst)) /\ b \notin Range(Tail(burst))
  BY <1>1, TailRange
<1>3. /\ burst' = Tail(burst) /\ pool' = pool \cup {b} /\ dpdk = "closing"
      /\ UNCHANGED <<content, ring, held, delivered, view, dpdk>>
  BY Zenon DEF ReleaseCached
<1> HIDE DEF b
<1>4. /\ burst' \in Seq(Mbufs) /\ Range(burst) = Range(burst)' \cup {b}
      /\ IsInjective(burst)' /\ b \notin Range(burst)'
      /\ Range(ring)' = Range(ring) /\ IsInjective(ring)' = IsInjective(ring)
  BY <1>2, <1>3, Zenon
<1>5. Lent = {} /\ Lent' = {}
  BY <1>3, Zenon DEF DpdkInv, BufferInv, Lent
<1>6. BufferInv'
  <2>1. Shared(pool, Range(ring), Range(burst), Lent)
    BY Zenon DEF DpdkInv, BufferInv, Shared
  <2>2. Shared(pool \cup {b}, Range(ring), Range(burst)', {})
    BY <1>4, <1>5, <2>1, BufferMoves, Zenon
  <2>3. Shared(pool', Range(ring)', Range(burst)', Lent')
    BY <1>3, <1>4, <1>5, <2>2, Zenon
  <2>4. pool' \subseteq Mbufs /\ (pool = Mbufs => pool' = Mbufs)
    BY <1>2, <1>3, Zenon DEF DpdkInv, BufferInv
  <2> QED
    BY <1>3, <1>4, <2>3, <2>4, ZenonT(60) DEF DpdkInv, BufferInv, Shared
<1>7. ContentInv'
  BY <1>3, <1>4, ZenonT(60) DEF DpdkInv, ContentInv
<1>8. HeldInv'
  BY <1>3, Zenon DEF DpdkInv, HeldInv
<1> QED
  BY <1>6, <1>7, <1>8, Zenon DEF DpdkInv

\* What it gives back next has nothing set up on it any more, and the pool is
\* complete when its turn comes.
LEMMA GiveBackPreserves ==
  ASSUME DpdkInv, GiveBack
  PROVE  DpdkInv' /\ ring' \in {ring, << >>} /\ dpdk' \in {"closing", "destroyed"}
<1>1. PICK r \in held :
        /\ IsFirst(r, ReleaseOrder, held)
        /\ held' = held \ (IF r = "device" THEN {"device", "queue"} ELSE {r})
        /\ ring' \in {ring, << >>} /\ (r \notin {"started", "device"} => ring' = ring)
        /\ (r = "device" => ring' = << >>)
        /\ dpdk' = IF r = "pool" THEN "destroyed" ELSE "closing"
  BY ZenonT(60) DEF GiveBack
<1>2. /\ dpdk = "closing" /\ burst = << >> /\ UNCHANGED <<content, burst, delivered, view>>
      /\ pool' = pool \cup (Range(ring) \ Range(ring'))
  BY Zenon DEF GiveBack
<1>3. /\ r = "isolation" => "flowA" \notin held /\ "flowB" \notin held
      /\ r = "device" => "started" \notin held
      /\ r = "pool" => {"flowA", "flowB", "isolation", "started", "device"} \cap held = {}
      /\ r # "queue"
  BY <1>1, FirstGivenBack, Zenon
<1>4. HeldInv
  BY Zenon DEF DpdkInv
<1>5. r = "pool" => held' = {} /\ ring = << >>
  BY <1>1, <1>3, <1>4 DEF HeldInv
<1>6. HeldInv'
  <2>1. held' \subseteq held /\ "device" \notin held' => "device" \notin held \/ r = "device"
    BY <1>1, Zenon
  <2>2. "device" \notin held' => ring' = << >>
    BY <1>1, <1>4, Zenon DEF HeldInv
  <2>3. "started" \in held' => "queue" \in held'
    BY <1>1, <1>3, <1>4, Zenon DEF HeldInv
  <2>4. "queue" \in held' => "device" \in held'
    BY <1>1, <1>3, <1>4, Zenon DEF HeldInv
  <2>5. "device" \in held' => "pool" \in held'
    BY <1>1, <1>3, <1>4, Zenon DEF HeldInv
  <2>6. "flowA" \in held' \/ "flowB" \in held' => "isolation" \in held'
    BY <1>1, <1>3, <1>4, Zenon DEF HeldInv
  <2>7. held' \subseteq {"isolation", "pool", "device", "queue", "flowA", "flowB", "started"}
    BY <1>1, <1>4, Zenon DEF HeldInv
  <2> QED
    BY <1>1, <1>5, <2>2, <2>3, <2>4, <2>5, <2>6, <2>7, Zenon DEF HeldInv
<1>7. Range(burst) = {} /\ Range(burst)' = {} /\ Lent = {} /\ Lent' = {} /\ IsInjective(burst)'
  BY <1>2, EmptyRange, ZenonT(60) DEF DpdkInv, BufferInv, Lent
<1>8. ring' \in Seq(Mbufs) /\ Range(ring') \subseteq Range(ring) /\ IsInjective(ring')
  <2>1. CASE ring' = ring
    BY <2>1, Zenon DEF DpdkInv, BufferInv
  <2>2. CASE ring' = << >>
    <3>1. << >> \in Seq(Mbufs)
      OBVIOUS
    <3> QED
      BY <2>2, <3>1, EmptyRange, Zenon
  <2> QED
    BY <1>1, <2>1, <2>2, Zenon
<1>9. pool' \cup Range(ring') = Mbufs /\ pool' \cap Range(ring') = {} /\ pool' \subseteq Mbufs
  <2>1. pool \cup Range(ring) = Mbufs /\ pool \cap Range(ring) = {}
    BY <1>7, Zenon DEF DpdkInv, BufferInv
  <2> QED
    BY <1>2, <1>8, <2>1, Zenon
<1>10. "pool" \notin held' => pool' = Mbufs
  <2>1. CASE r = "pool"
    <3>1. ring' = << >>
      BY <1>1, <1>5, <2>1, Zenon
    <3> QED
      BY <1>9, <3>1, EmptyRange, Zenon
  <2>2. CASE "pool" \notin held
    <3>1. pool = Mbufs
      BY <2>2, Zenon DEF DpdkInv, BufferInv
    <3> QED
      BY <1>2, <1>9, <3>1, Zenon
  <2> QED
    BY <1>1, <2>1, <2>2, Zenon
<1>11. BufferInv'
  <2>1. Range(ring)' = Range(ring') /\ IsInjective(ring)' = IsInjective(ring')
    BY Zenon
  <2> QED
    BY <1>1, <1>2, <1>7, <1>8, <1>9, <1>10, <2>1, ZenonT(60) DEF DpdkInv, BufferInv
<1>12. ContentInv'
  BY <1>2, <1>7, <1>8, Zenon DEF DpdkInv, ContentInv
<1> QED
  BY <1>1, <1>6, <1>11, <1>12, Zenon DEF DpdkInv

\* A step of initialize, or its exception, touches no buffer.
LEMMA StartPreserves ==
  ASSUME DpdkInv, Acquire \/ InitializeThrows
  PROVE  DpdkInv'
<1>1. /\ UNCHANGED <<pool, content, ring, burst, delivered, view>>
      /\ dpdk' \in {"idle", "starting", "failed"}
  BY DEF Acquire, InitializeThrows, portVars
<1>2. /\ Range(ring)' = Range(ring) /\ Range(burst)' = Range(burst) /\ Lent' = Lent
      /\ IsInjective(ring)' = IsInjective(ring) /\ IsInjective(burst)' = IsInjective(burst)
  BY <1>1 DEF Lent
<1>3. HeldInv' /\ held \subseteq held'
  <2>1. CASE InitializeThrows
    BY <1>1, <2>1, Zenon DEF InitializeThrows, DpdkInv, HeldInv
  <2>2. CASE Acquire
    <3>1. PICK r \in Wanted : /\ IsFirst(r, SetupOrder, Wanted \ held) /\ held' = held \cup {r}
                              /\ dpdk' = IF r = "started" THEN "idle" ELSE "starting"
      BY <2>2, Zenon DEF Acquire
    <3>2. /\ {"pool", "device", "queue"} \subseteq Wanted
          /\ r \in {"flowA", "flowB"} => "isolation" \in Wanted
          /\ r \in {"isolation", "pool", "device", "queue", "flowA", "flowB", "started"}
      BY <3>1 DEF Wanted
    <3>3. /\ r = "started" => "queue" \in held
          /\ r = "queue" => "device" \in held
          /\ r = "device" => "pool" \in held
          /\ r \in {"flowA", "flowB"} => "isolation" \in held
      BY <3>1, <3>2, FirstSetUp, Zenon
    <3>4. HeldInv
      BY Zenon DEF DpdkInv
    <3>5. "device" \notin held' => ring' = << >>
      BY <1>1, <3>1, <3>4, Zenon DEF HeldInv
    <3>6. "flowA" \in held' \/ "flowB" \in held' => "isolation" \in held'
      BY <3>1, <3>3, <3>4, Zenon DEF HeldInv
    <3>7. /\ "started" \in held' => "queue" \in held'
          /\ "queue" \in held' => "device" \in held'
          /\ "device" \in held' => "pool" \in held'
      BY <3>1, <3>3, <3>4, ZenonT(60) DEF HeldInv
    <3>8. held' \subseteq {"isolation", "pool", "device", "queue", "flowA", "flowB", "started"}
      BY <3>1, <3>2, <3>4, Zenon DEF HeldInv
    <3>9. dpdk' \in {"idle", "next"} => "started" \in held'
      BY <3>1, Zenon
    <3> QED
      BY <1>1, <3>1, <3>5, <3>6, <3>7, <3>8, <3>9, Zenon DEF HeldInv
  <2> QED
    BY <2>1, <2>2, Zenon
<1>4. BufferInv'
  BY <1>1, <1>2, <1>3, Zenon DEF DpdkInv, BufferInv
<1>5. ContentInv'
  BY <1>1, <1>2, Zenon DEF DpdkInv, ContentInv
<1> QED
  BY <1>3, <1>4, <1>5, Zenon DEF DpdkInv

\* Nothing of the receiver changes.
LEMMA DpdkStutters ==
  ASSUME DpdkInv, UNCHANGED dpdkVars
  PROVE  DpdkInv'
BY Zenon DEF DpdkInv, BufferInv, HeldInv, ContentInv, Lent, dpdkVars
-----------------------------------------------------------------------------
\* What goes through the DPDK receiver.

AllFrames == Frames \cup OddFrames

\* The buffers whose frame has not been looked at.
Waiting == Range(ring) \cup Range(burst)

\* The histories and the counters of the DPDK receiver.
TraceType ==
  /\ landed \in Seq(AllFrames) /\ returned \in Seq(AllFrames)
  /\ \A b \in Waiting : content[b] \in AllFrames
  /\ counts \in [{"a", "b", "filtered", "malformed", "fast", "fallback"} -> Nat]

TraceInv == TraceType /\ DpdkNothingLost

\* The frames for the two lines.
ForUs == {f \in AllFrames : Parse(f, ends).status = "Accepted"}

\* What is kept of a history does not depend on it.
LEMMA AcceptedKept ==
  ASSUME NEW s \in Seq(AllFrames)
  PROVE  Accepted(s) = Kept(s, ForUs)
<1>1. PICK T : T = {f \in Range(s) : Parse(f, ends).status = "Accepted"}
  BY Zenon
<1>2. ASSUME NEW i \in 1 .. Len(s)
      PROVE  s[i] \in T <=> s[i] \in ForUs
  <2>1. s[i] \in AllFrames /\ s[i] \in Range(s)
    BY DEF Range
  <2> QED
    BY <1>1, <2>1, Zenon DEF ForUs
<1>3. Kept(s, T) = Kept(s, ForUs)
  BY <1>2, KeptSame
<1> QED
  BY <1>1, <1>3, Zenon DEF Accepted

\* A sequence is one of its elements.
LEMMA OfItsElements ==
  ASSUME NEW D, NEW s \in Seq(D), NEW E, Range(s) \subseteq E
  PROVE  s \in Seq(E)
<1>1. PICK n \in Nat : n = Len(s) /\ DOMAIN s = 1 .. n /\ s = [i \in 1 .. n |-> s[i]]
  OBVIOUS
<1>2. \A i \in 1 .. n : s[i] \in E
  BY <1>1 DEF Range
<1>3. s \in [1 .. n -> E]
  BY <1>1, <1>2, Zenon
<1> QED
  BY <1>1, <1>3

\* What is in the buffers, as one sequence of frames.
LEMMA WaitingFrames ==
  ASSUME BufferInv, TraceType
  PROVE  /\ ring \in Seq(Waiting) /\ burst \in Seq(Waiting)
         /\ burst \o ring \in Seq(Waiting)
         /\ Into(content, Waiting, AllFrames)
         /\ InBuffers(burst \o ring) = Image(content, burst \o ring)
         /\ Image(content, burst \o ring) \in Seq(AllFrames)
<1>1. ring \in Seq(Waiting) /\ burst \in Seq(Waiting)
  BY OfItsElements, Zenon DEF BufferInv, Waiting
<1>2. PICK w : w = burst \o ring
  BY Zenon
<1>3. w \in Seq(Waiting)
  BY <1>1, <1>2, ConcatProperties, Zenon
<1>4. Into(content, Waiting, AllFrames)
  BY DEF TraceType, Into
<1>5. Image(content, w) \in Seq(AllFrames)
  BY <1>3, <1>4, ImageType, Zenon
<1>6. InBuffers(w) = Image(content, w)
  BY DEF InBuffers, Image
<1> QED
  BY <1>1, <1>2, <1>3, <1>4, <1>5, <1>6, ZenonT(60)

\* What the receiver promises, as one sequence of frames.
InOrder == Kept(landed, ForUs) = returned \o Kept(Image(content, burst \o ring), ForUs)

AllCounted ==
  /\ counts.a + counts.b = Len(returned)
  /\ counts.a + counts.b + counts.filtered + counts.malformed
       = Len(landed) - Len(burst) - Len(ring)

TraceExact == dpdk \notin {"closing", "destroyed"} => InOrder /\ AllCounted

LEMMA TracesIff == BufferInv /\ TraceType => (DpdkNothingLost <=> TraceExact)
<1> SUFFICES ASSUME BufferInv, TraceType
             PROVE  DpdkNothingLost <=> TraceExact
  OBVIOUS
<1>1. PICK w \in Seq(AllFrames) : w = InBuffers(burst \o ring) /\ w = Image(content, burst \o ring)
  BY WaitingFrames, Zenon
<1>2. Accepted(w) = Kept(w, ForUs)
  BY AcceptedKept, Zenon
<1>3. Accepted(landed) = Kept(landed, ForUs)
  BY AcceptedKept DEF TraceType
<1> QED
  BY <1>1, <1>2, <1>3, Zenon DEF DpdkNothingLost, TraceExact, InOrder, AllCounted

\* Before and after a step.
LEMMA TracesStep ==
  ASSUME BufferInv, BufferInv', TraceInv, TraceType', TraceExact => TraceExact'
  PROVE  TraceInv'
<1>1. (BufferInv /\ TraceType => (DpdkNothingLost <=> TraceExact))'
  BY TracesIff, PTL
<1> QED
  BY <1>1, TracesIff, Zenon DEF TraceInv

\* A frame the port receives waits behind the others.
LEMMA TracesArrive ==
  ASSUME BufferInv, BufferInv', TraceInv, NEW f \in AllFrames, NEW b \in Mbufs, FrameArrives(f, b),
         content = [c \in Mbufs |-> content[c]]
  PROVE  TraceInv'
<1> USE DEF TraceInv
<1>1. PICK l \in Seq(AllFrames), r \in Seq(Waiting), u \in Seq(Waiting) : l = landed /\ r = ring /\ u = burst
  BY WaitingFrames, Zenon DEF TraceType
<1>2. /\ b \in pool /\ ring' = Append(r, b) /\ landed' = Append(l, f)
      /\ content' = [content EXCEPT ![b] = f]
      /\ UNCHANGED <<ends, dpdk, burst, counts, returned>>
  BY <1>1, Zenon DEF FrameArrives
<1>3. b \notin Waiting /\ Waiting \subseteq Mbufs
  BY <1>2, Zenon DEF BufferInv, Waiting
<1>4. PICK C : C = content' /\ C[b] = f /\ \A c \in Waiting : C[c] = content[c]
  BY <1>2, <1>3, Zenon
<1>5. Waiting' = Waiting \cup {b}
  <2>1. ring \in Seq(Mbufs) /\ b \notin Range(ring) /\ IsInjective(ring)
    BY <1>3, Zenon DEF BufferInv, Waiting
  <2>2. Range(ring)' = Range(ring) \cup {b}
    BY <1>1, <1>2, <2>1, AppendRange
  <2> QED
    BY <1>2, <2>2, Zenon DEF Waiting
<1>6. TraceType'
  <2>1. Append(l, f) \in Seq(AllFrames)
    BY AppendProperties
  <2>2. \A c \in Waiting' : content'[c] \in AllFrames
    BY <1>4, <1>5, Zenon DEF TraceType
  <2>3. AllFrames' = AllFrames
    BY DEF AllFrames
  <2> QED
    BY <1>2, <2>1, <2>2, <2>3, Zenon DEF TraceType
<1>7. PICK D : D = Waiting \cup {b} /\ b \in D /\ r \in Seq(D) /\ u \in Seq(D)
  <2>1. Waiting \subseteq Waiting \cup {b} /\ b \in Waiting \cup {b}
    OBVIOUS
  <2>2. r \in Seq(Waiting \cup {b}) /\ u \in Seq(Waiting \cup {b})
    BY <2>1, SeqMonotonic, Zenon
  <2> QED
    BY <2>1, <2>2, ZenonT(60)
<1>8. PICK w \in Seq(D) : w = u \o r /\ w \in Seq(Waiting)
  BY <1>7, ConcatProperties, ZenonT(60)
<1>9. u \o Append(r, b) = Append(w, b)
  BY <1>7, <1>8, ConcatAppend
<1>10. PICK i \in Seq(AllFrames) : i = Image(content, w)
  BY <1>1, <1>8, WaitingFrames, ZenonT(60)
<1>11. Image(C, Append(w, b)) = Append(i, f)
  <2>1. Image(C, Append(w, b)) = Append(Image(C, w), C[b])
    BY <1>7, ImageAppend
  <2>2. Image(C, w) = Image(content, w)
    <3>1. w \in Seq(Waiting) /\ SameOn(C, content, Waiting)
      BY <1>4, <1>8, ZenonT(60) DEF SameOn
    <3> QED
      BY <3>1, ImageSame
  <2> QED
    BY <1>4, <1>10, <2>1, <2>2, ZenonT(60)
<1>12. /\ Kept(Append(l, f), ForUs) = IF f \in ForUs THEN Append(Kept(l, ForUs), f) ELSE Kept(l, ForUs)
       /\ Kept(Append(i, f), ForUs) = IF f \in ForUs THEN Append(Kept(i, ForUs), f) ELSE Kept(i, ForUs)
  BY KeptAppend
<1>13. PICK g \in Seq(AllFrames), k \in Seq(AllFrames) : g = returned /\ k = Kept(i, ForUs)
  BY KeptType, Zenon DEF TraceType
<1>14. g \o Append(k, f) = Append(g \o k, f)
  BY ConcatAppend
<1>15. ForUs' = ForUs
  BY <1>2, Zenon DEF ForUs, AllFrames
<1>16. ASSUME TraceExact, dpdk \notin {"closing", "destroyed"}
       PROVE  InOrder'
  <2>1. Kept(l, ForUs) = g \o k
    BY <1>1, <1>8, <1>10, <1>13, <1>16, ZenonT(60) DEF TraceExact, InOrder
  <2>2. burst' \o ring' = Append(w, b)
    BY <1>1, <1>2, <1>9, ZenonT(60)
  <2> QED
    BY <1>2, <1>4, <1>11, <1>12, <1>13, <1>14, <1>15, <2>1, <2>2, ZenonT(60) DEF InOrder
<1>17. Len(landed') = Len(landed) + 1 /\ Len(ring') = Len(ring) + 1 /\ Len(landed) \in Nat
       /\ Len(ring) \in Nat /\ Len(burst) \in Nat
  BY <1>1, <1>2, AppendProperties
<1>18. AllCounted => AllCounted'
  <2>1. \A n \in {"a", "b", "filtered", "malformed"} : counts[n] \in Nat
    BY Zenon DEF TraceType
  <2> QED
    BY <1>2, <1>17, <2>1 DEF AllCounted
<1>19. TraceExact => TraceExact'
  BY <1>2, <1>16, <1>18, Zenon DEF TraceExact
<1> QED
  BY <1>6, <1>19, TracesStep, Zenon

\* A burst moves frames from the ring to the receiver, in order.
LEMMA TracesBurst ==
  ASSUME BufferInv, BufferInv', TraceInv, ReceiveBurst
  PROVE  TraceInv'
<1> USE DEF TraceInv
<1>1. PICK D, r : r = ring /\ D = Waiting /\ r \in Seq(D)
  BY WaitingFrames, Zenon
<1>2. PICK n \in 0 .. Len(r) : n = Min({Len(ring), BurstSize})
  <2>1. BurstSize \in Nat /\ Len(r) \in Nat
    BY DpdkAssumption
  <2> QED
    BY <1>1, <2>1, MinOfTwo
<1>3. PICK h, t : h = SubSeq(r, 1, n) /\ t = SubSeq(r, n + 1, Len(r))
  BY Zenon
<1>4. h \in Seq(D) /\ t \in Seq(D) /\ Len(h) = n /\ Len(t) = Len(r) - n /\ r = h \o t
  BY <1>1, <1>3, SplitSeq, ZenonT(60)
<1>5. Burst = h
  BY <1>1, <1>2, <1>3 DEF Burst
<1>6. /\ burst' = h /\ ring' = t /\ burst = << >> /\ dpdk = "next"
      /\ UNCHANGED <<ends, content, counts, landed, returned>>
  BY <1>1, <1>3, <1>4, <1>5, Zenon DEF ReceiveBurst
<1>7. burst' \o ring' = burst \o ring
  <2>1. << >> \o r = r
    BY <1>1, ConcatEmptySeq, Zenon
  <2> QED
    BY <1>1, <1>4, <1>6, <2>1, ZenonT(60)
<1>8. Waiting' \subseteq Waiting
  <2>1. Range(h) \subseteq D /\ Range(t) \subseteq D
    BY <1>4 DEF Range
  <2> QED
    BY <1>1, <1>6, <2>1, Zenon DEF Waiting
<1>9. TraceType'
  BY <1>6, <1>8, Zenon DEF TraceType, AllFrames
<1>10. ForUs' = ForUs
  BY <1>6, Zenon DEF ForUs, AllFrames
<1>11. Len(burst') + Len(ring') = Len(burst) + Len(ring) /\ Len(landed) \in Nat /\ Len(ring) \in Nat
       /\ Len(burst') \in Nat /\ Len(ring') \in Nat /\ Len(burst) = 0
  <2>1. Len(burst) = 0
    BY <1>6, Zenon
  <2>2. Len(landed) \in Nat
    BY DEF TraceType
  <2> QED
    BY <1>1, <1>4, <1>6, <2>1, <2>2
<1>12. ASSUME TraceExact
       PROVE  InOrder'
  BY <1>6, <1>7, <1>10, <1>12, ZenonT(60) DEF TraceExact, InOrder
<1>13. AllCounted => AllCounted'
  <2>1. landed' = landed /\ returned' = returned /\ counts' = counts
    BY <1>6, Zenon
  <2>2. Len(landed) - Len(burst') - Len(ring') = Len(landed) - Len(burst) - Len(ring)
    BY <1>11
  <2>3. /\ counts' = counts /\ Len(returned') = Len(returned)
        /\ Len(landed') - Len(burst') - Len(ring') = Len(landed) - Len(burst) - Len(ring)
    BY <2>1, <2>2, Zenon
  <2> QED
    BY <2>3, Zenon DEF AllCounted
<1>14. TraceExact => TraceExact'
  BY <1>6, <1>12, <1>13, Zenon DEF TraceExact
<1> QED
  BY <1>9, <1>14, TracesStep, Zenon

\* A frame of the burst is counted once; it is returned if it is for a line.
LEMMA TracesTake ==
  ASSUME BufferInv, BufferInv', TraceInv, TakeFrame
  PROVE  TraceInv'
<1>0. TraceType
  BY Zenon DEF TraceInv
<1>1. PICK D, u, r : D = Waiting /\ u = burst /\ r = ring /\ u \in Seq(D) /\ r \in Seq(D) /\ u # << >>
  BY <1>0, WaitingFrames, Zenon DEF TakeFrame
<1>2. PICK b \in D, t \in Seq(D) : b = Head(u) /\ t = Tail(u)
  <2>1. u \in Seq(D) /\ u # << >>
    BY <1>1, ZenonT(60)
  <2> QED
    BY <2>1, HeadTailProperties, Zenon
<1>3. PICK f \in AllFrames : f = content[b]
  BY <1>0, <1>1, <1>2, Zenon DEF TraceType
<1>4. PICK p : p = Parse(f, ends)
  BY Zenon
<1>5. p.status \in {"Accepted", "Filtered", "Malformed"} /\ (p.status = "Accepted" => p.line \in {"a", "b"})
  BY <1>4, ParseVerdicts, Zenon
<1>6. /\ burst' = t /\ counts' = Tallied(p)
      /\ p.status = "Accepted" => returned' = Append(returned, f) /\ dpdk' = "idle"
      /\ p.status # "Accepted" => UNCHANGED <<returned, dpdk>>
      /\ dpdk = "next" /\ UNCHANGED <<ends, content, ring, landed>>
  BY <1>1, <1>2, <1>3, <1>4, Zenon DEF TakeFrame
<1>7. f \in ForUs <=> p.status = "Accepted"
  BY <1>4, Zenon DEF ForUs
<1>8. PICK g \in Seq(AllFrames) : g = returned
  BY <1>0, Zenon DEF TraceType
<1>9. returned' = IF f \in ForUs THEN Append(g, f) ELSE g
  BY <1>6, <1>7, <1>8, ZenonT(60)
<1>10. /\ Append(g, f) \in Seq(AllFrames) /\ Len(Append(g, f)) = Len(g) + 1
  BY AppendProperties, Zenon
<1>11. u \o r = Unit(b) \o (t \o r) /\ Len(u) = Len(t) + 1
  <2>1. u \in Seq(D) /\ r \in Seq(D) /\ u # << >>
    BY <1>1, ZenonT(60)
  <2>2. u \o r = Unit(Head(u)) \o (Tail(u) \o r) /\ Len(u) = Len(Tail(u)) + 1
    BY <2>1, FirstAndRest, Zenon
  <2> QED
    BY <1>2, <2>2, ZenonT(60)
<1>12. ForUs' = ForUs
  BY <1>6 DEF ForUs, AllFrames
<1>13. ASSUME TraceExact
       PROVE  InOrder'
  <2>1. PICK w \in Seq(D) : w = t \o r
    BY <1>1, ConcatProperties, ZenonT(60)
  <2>2. PICK i \in Seq(AllFrames) : i = Image(content, w)
    <3>1. Into(content, D, AllFrames)
      BY <1>0, <1>1, WaitingFrames, Zenon
    <3> QED
      BY <3>1, ImageType, Zenon
  <2>3. Image(content, Unit(b) \o w) = Unit(f) \o i
    <3>1. Image(content, Unit(b) \o w) = Unit(content[b]) \o Image(content, w)
      BY ImageFirst
    <3> QED
      BY <1>3, <2>2, <3>1, ZenonT(60)
  <2>4. g \o Kept(Unit(f) \o i, ForUs) = (IF f \in ForUs THEN Append(g, f) ELSE g) \o Kept(i, ForUs)
    BY KeptTaken
  <2>5. Kept(landed, ForUs) = g \o Kept(Unit(f) \o i, ForUs)
    BY <1>1, <1>6, <1>8, <1>11, <1>13, <2>1, <2>3, Zenon DEF TraceExact, InOrder
  <2> QED
    BY <1>1, <1>6, <1>9, <1>12, <2>1, <2>2, <2>4, <2>5, ZenonT(60) DEF InOrder
<1>14. PICK v \in {"a", "b", "filtered", "malformed"}, o \in {"fast", "fallback"} :
         /\ counts' = [counts EXCEPT ![v] = @ + 1, ![o] = @ + 1]
         /\ v \in {"a", "b"} <=> p.status = "Accepted"
  <2>1. CASE p.status = "Accepted"
    BY <1>5, <1>6, <2>1, Zenon DEF Tallied
  <2>2. CASE p.status = "Filtered"
    BY <1>6, <2>2, Zenon DEF Tallied
  <2>3. CASE p.status = "Malformed"
    BY <1>6, <2>3, Zenon DEF Tallied
  <2> QED
    BY <1>5, <2>1, <2>2, <2>3, Zenon
<1>15. /\ counts' \in [{"a", "b", "filtered", "malformed", "fast", "fallback"} -> Nat]
       /\ counts'.a = IF v = "a" THEN counts.a + 1 ELSE counts.a
       /\ counts'.b = IF v = "b" THEN counts.b + 1 ELSE counts.b
       /\ counts'.filtered = IF v = "filtered" THEN counts.filtered + 1 ELSE counts.filtered
       /\ counts'.malformed = IF v = "malformed" THEN counts.malformed + 1 ELSE counts.malformed
  <2>1. counts \in [{"a", "b", "filtered", "malformed", "fast", "fallback"} -> Nat]
    BY <1>0, Zenon DEF TraceType
  <2>2. PICK c : c = [counts EXCEPT ![v] = @ + 1]
    BY ZenonT(60)
  <2>3. /\ c \in [{"a", "b", "filtered", "malformed", "fast", "fallback"} -> Nat]
        /\ c.a = IF v = "a" THEN counts.a + 1 ELSE counts.a
        /\ c.b = IF v = "b" THEN counts.b + 1 ELSE counts.b
        /\ c.filtered = IF v = "filtered" THEN counts.filtered + 1 ELSE counts.filtered
        /\ c.malformed = IF v = "malformed" THEN counts.malformed + 1 ELSE counts.malformed
    BY <2>1, <2>2
  <2>4. counts' = [c EXCEPT ![o] = @ + 1]
    BY <1>14, <2>2, Zenon
  <2>5. /\ counts' \in [{"a", "b", "filtered", "malformed", "fast", "fallback"} -> Nat]
        /\ counts'.a = c.a /\ counts'.b = c.b /\ counts'.filtered = c.filtered
        /\ counts'.malformed = c.malformed
    BY <2>3, <2>4
  <2> QED
    BY <2>3, <2>5, ZenonT(60)
<1>16. Waiting' \subseteq Waiting
  <2>1. Range(t) \subseteq D
    BY DEF Range
  <2> QED
    BY <1>1, <1>6, <2>1, Zenon DEF Waiting
<1>17. TraceType'
  <2>1. returned' \in Seq(AllFrames)
    BY <1>9, <1>10, ZenonT(60)
  <2>2. \A c \in Waiting' : content'[c] \in AllFrames
    BY <1>0, <1>6, <1>16, Zenon DEF TraceType
  <2> QED
    BY <1>0, <1>6, <1>15, <2>1, <2>2, Zenon DEF TraceType, AllFrames
<1>18. ASSUME AllCounted
       PROVE  AllCounted'
  <2>1. PICK n \in Nat, m \in Nat, q \in Nat, z \in Nat :
          n = Len(g) /\ m = Len(t) /\ q = Len(r) /\ z = Len(landed)
    <3>1. r \in Seq(D) /\ landed \in Seq(AllFrames)
      BY <1>0, <1>1, ZenonT(60) DEF TraceType
    <3> QED
      BY <3>1
  <2>2. PICK ca \in Nat, cb \in Nat, cf \in Nat, cm \in Nat :
          ca = counts.a /\ cb = counts.b /\ cf = counts.filtered /\ cm = counts.malformed
    BY <1>0, Zenon DEF TraceType
  <2>3. ca + cb = n /\ ca + cb + cf + cm = z - (m + 1) - q
    BY <1>1, <1>8, <1>11, <1>18, <2>1, <2>2, ZenonT(60) DEF AllCounted
  <2>4. Len(returned') = IF v \in {"a", "b"} THEN n + 1 ELSE n
    BY <1>7, <1>9, <1>10, <1>14, <2>1, ZenonT(60)
  <2>5. /\ counts'.a = IF v = "a" THEN ca + 1 ELSE ca
        /\ counts'.b = IF v = "b" THEN cb + 1 ELSE cb
        /\ counts'.filtered = IF v = "filtered" THEN cf + 1 ELSE cf
        /\ counts'.malformed = IF v = "malformed" THEN cm + 1 ELSE cm
    BY <1>15, <2>2, ZenonT(60)
  <2>6. /\ counts'.a + counts'.b = IF v \in {"a", "b"} THEN n + 1 ELSE n
        /\ counts'.a + counts'.b + counts'.filtered + counts'.malformed = z - m - q
    <3>1. CASE v \in {"a", "b"}
      BY <2>3, <2>5, <3>1
    <3>2. CASE v \in {"filtered", "malformed"}
      BY <2>3, <2>5, <3>2
    <3> QED
      BY <3>1, <3>2, Zenon
  <2> QED
    BY <1>1, <1>6, <2>1, <2>4, <2>6, ZenonT(60) DEF AllCounted
<1>19. TraceExact => TraceExact'
  BY <1>6, <1>13, <1>18, Zenon DEF TraceExact
<1> QED
  BY <1>17, <1>19, TracesStep, Zenon

\* The steps of the DPDK receiver that look at no frame.
LEMMA TracesStay ==
  ASSUME BufferInv, BufferInv', TraceInv,
         UNCHANGED <<ends, content, ring, burst, counts, landed, returned>>,
         dpdk \notin {"closing", "destroyed"}
  PROVE  TraceInv'
<1>1. Waiting' = Waiting
  BY Zenon DEF Waiting
<1>2. TraceType'
  BY <1>1, Zenon DEF TraceInv, TraceType, AllFrames
<1>3. InOrder' = InOrder /\ AllCounted' = AllCounted
  BY Zenon DEF InOrder, AllCounted, ForUs, AllFrames
<1> QED
  BY <1>2, <1>3, TracesStep, Zenon DEF TraceExact

\* The destructor keeps the histories and the counters, and its frames are no
\* new ones.
LEMMA TracesEnd ==
  ASSUME TraceInv, dpdk' \in {"closing", "destroyed"}, Waiting' \subseteq Waiting,
         UNCHANGED <<ends, content, counts, landed, returned>>
  PROVE  TraceInv'
<1>1. TraceType'
  BY Zenon DEF TraceInv, TraceType, AllFrames
<1>2. DpdkNothingLost'
  BY Zenon DEF DpdkNothingLost
<1> QED
  BY <1>1, <1>2, Zenon DEF TraceInv

LEMMA TracesDestroy ==
  ASSUME DpdkInv, TraceInv, Destroy \/ ReleaseCached \/ GiveBack
  PROVE  TraceInv'
<1>1. CASE Destroy
  <2>1. dpdk' = "closing" /\ UNCHANGED <<ends, content, counts, landed, returned, burst, ring>>
    BY <1>1, Zenon DEF Destroy
  <2>2. Waiting' \subseteq Waiting
    BY <2>1, Zenon DEF Waiting
  <2> QED
    BY <2>1, <2>2, TracesEnd, Zenon
<1>2. CASE ReleaseCached
  <2>1. /\ dpdk' = "closing" /\ burst # << >> /\ burst' = Tail(burst)
        /\ UNCHANGED <<ends, content, counts, landed, returned, ring>>
    BY <1>2, Zenon DEF ReleaseCached
  <2>2. burst \in Seq(Mbufs) /\ IsInjective(burst)
    BY Zenon DEF DpdkInv, BufferInv
  <2>3. Range(Tail(burst)) \subseteq Range(burst)
    BY <2>1, <2>2, TailRange, Zenon
  <2>4. Waiting' \subseteq Waiting
    BY <2>1, <2>3, Zenon DEF Waiting
  <2> QED
    BY <2>1, <2>4, TracesEnd, Zenon
<1>3. CASE GiveBack
  <2>1. dpdk' \in {"closing", "destroyed"} /\ ring' \in {ring, << >>}
    BY <1>3, GiveBackPreserves, Zenon
  <2>2. UNCHANGED <<ends, content, counts, landed, returned, burst>>
    BY <1>3, Zenon DEF GiveBack
  <2>3. Waiting' \subseteq Waiting
    BY <2>1, <2>2, EmptyRange, Zenon DEF Waiting
  <2> QED
    BY <2>1, <2>2, <2>3, TracesEnd, Zenon
<1> QED
  BY <1>1, <1>2, <1>3, Zenon
-----------------------------------------------------------------------------
\* Where main stands and what it holds.
BootInv ==
  /\ source \in {"dual", "batch", "dpdk"}
  /\ boot \in {"options", "gate", "pin", "open", "repin", "map", "run", "failing", "returning",
              "failed", "done"}
  /\ source # "dpdk" <=> dpdk = "closed"
  /\ dpdk = "closed" => held = {}
  /\ boot \in {"options", "gate", "pin"} => held = {} /\ dpdk \in {"closed", "starting"}
  /\ boot = "open" => dpdk \in {"closed", "starting"}
  /\ boot \in {"repin", "map"} => dpdk \in {"closed", "idle"}
  /\ boot \in {"failing", "returning"} => dpdk = "closing"
  /\ boot \in {"failed", "done"} => held = {} \/ dpdk = "failed"
  /\ boot \in {"open", "repin", "map"} /\ source # "dpdk" => cpu = "requested"
  /\ boot = "map" => cpu = "requested"
  /\ mappedOn \in {"none", "requested"}

MainInv == DpdkInv /\ BootInv /\ BatchInv

\* The stages of main follow each other.
LEMMA LaterStage ==
  /\ Later("options") = "gate" /\ Later("gate") = "pin" /\ Later("pin") = "open"
  /\ Later("open") = "repin" /\ Later("repin") = "map" /\ Later("map") = "run"
<1>1. ASSUME NEW k \in 1 .. 6
      PROVE  Later(BootOrder[k]) = BootOrder[k + 1]
  <2>1. \A i \in DOMAIN BootOrder : BootOrder[i] = BootOrder[k] => i = k
    BY DEF BootOrder
  <2>2. k \in DOMAIN BootOrder
    BY DEF BootOrder
  <2>3. (CHOOSE i \in DOMAIN BootOrder : BootOrder[i] = BootOrder[k]) = k
    BY <2>1, <2>2, Zenon
  <2> QED
    BY <2>3, Zenon DEF Later
<1> QED
  BY <1>1 DEF BootOrder

\* Everything holds when main starts.
LEMMA MainInitEstablishes ==
  ASSUME MainInit
  PROVE  MainInv
<1>1. Unopened /\ dpdk \in {"closed", "starting"}
  BY DEF MainInit, DpdkInit
<1>2. Range(ring) = {} /\ Range(burst) = {} /\ Lent = {} /\ IsInjective(ring) /\ IsInjective(burst)
  BY <1>1, EmptyRange, ZenonT(60) DEF Unopened, Lent
<1>3. BufferInv
  BY <1>1, <1>2 DEF BufferInv, Unopened
<1>4. ContentInv /\ HeldInv
  BY <1>1, <1>2, ZenonT(60) DEF ContentInv, HeldInv, Unopened, NoView
<1>5. BootInv
  BY <1>1, ZenonT(60) DEF MainInit, DpdkInit, Unopened, BootInv
<1>6. BatchInv
  BY DEF MainInit, BatchInit, BatchInv, BatchViewsIntact
<1> QED
  BY <1>3, <1>4, <1>5, <1>6 DEF DpdkInv, MainInv

\* The steps of main that leave the sources alone.
LEMMA BootPreserves ==
  ASSUME MainInv, Validate \/ PinCpu \/ OpenSockets \/ MapBooks
  PROVE  MainInv'
<1> USE LaterStage DEF MainInv
<1>1. UNCHANGED <<dpdkVars, batchVars>>
  BY Zenon DEF Validate, PinCpu, OpenSockets, MapBooks, sourcesVars
<1>2. DpdkInv'
  BY <1>1, DpdkStutters, Zenon
<1>3. BatchInv'
  BY <1>1, Zenon DEF BatchInv, BatchViewsIntact, batchVars
<1>4. UNCHANGED <<held, dpdk>>
  BY <1>1, Zenon DEF dpdkVars
<1>5. BootInv'
  <2>1. CASE Validate
    BY <1>4, <2>1, Zenon DEF Validate, BootInv
  <2>2. CASE PinCpu
    BY <1>4, <2>2, Zenon DEF PinCpu, PinsAt, BootInv
  <2>3. CASE OpenSockets
    BY <1>4, <2>3, Zenon DEF OpenSockets, BootInv
  <2>4. CASE MapBooks
    BY <1>4, <2>4, Zenon DEF MapBooks, BootInv
  <2> QED
    BY <2>1, <2>2, <2>3, <2>4, Zenon
<1> QED
  BY <1>2, <1>3, <1>5, Zenon

\* The port is set up, or is given back, or its source is polled.
LEMMA SourcePreserves ==
  ASSUME MainInv,
         \/ OpenDpdk \/ StartupThrows \/ MainReturns \/ RunDestructor
         \/ RunDual \/ RunBatch \/ RunDpdk \/ PortReceives
  PROVE  MainInv'
<1> USE DEF MainInv
<1>1. CASE OpenDpdk
  <2>1. DpdkInv'
    BY <1>1, StartPreserves, Zenon DEF OpenDpdk
  <2>2. BatchInv'
    BY <1>1, Zenon DEF OpenDpdk, BatchInv, BatchViewsIntact, batchVars
  <2>3. BootInv'
    BY <1>1, LaterStage, ZenonT(60) DEF OpenDpdk, Acquire, BootInv
  <2> QED
    BY <2>1, <2>2, <2>3, Zenon
<1>2. CASE StartupThrows
  <2>1. \/ dpdk = "idle" /\ Destroy /\ boot' = "failing"
        \/ dpdk = "starting" /\ boot = "open" /\ InitializeThrows /\ boot' = "failed"
        \/ /\ dpdk # "idle" /\ (dpdk = "starting" => boot # "open") /\ boot' = "failed"
           /\ UNCHANGED dpdkVars
    BY <1>2, Zenon DEF StartupThrows
  <2>2. DpdkInv'
    BY <2>1, DestroyPreserves, StartPreserves, DpdkStutters, Zenon
  <2>3. BatchInv'
    BY <1>2, Zenon DEF StartupThrows, BatchInv, BatchViewsIntact, batchVars
  <2>4. boot \in {"options", "gate", "pin", "open", "repin", "map"} /\ UNCHANGED <<source, cpu, mappedOn>>
    BY <1>2, Zenon DEF StartupThrows, BootInv
  <2>5. /\ \/ boot' = "failing" /\ dpdk' = "closing"
           \/ boot' = "failed" /\ (held' = {} \/ dpdk' = "failed")
        /\ dpdk' = "closed" <=> dpdk = "closed"
        /\ held' = held
    BY <2>1, <2>4, Zenon DEF Destroy, InitializeThrows, dpdkVars, BootInv
  <2>6. dpdk' = "closed" => held' = {}
    BY <2>5, Zenon DEF BootInv
  <2>7. BootInv'
    BY <2>4, <2>5, <2>6, Zenon DEF BootInv
  <2> QED
    BY <2>2, <2>3, <2>7
<1>3. CASE MainReturns
  <2>1. DpdkInv'
    BY <1>3, DestroyPreserves, Zenon DEF MainReturns
  <2>2. BatchInv'
    BY <1>3, ZenonT(60) DEF MainReturns, BatchInv, BatchViewsIntact, batchVars
  <2>3. BootInv'
    BY <1>3, ZenonT(60) DEF MainReturns, Destroy, BootInv
  <2> QED
    BY <2>1, <2>2, <2>3
<1>4. CASE RunDual
  <2>1. DpdkInv'
    BY <1>4, DpdkStutters, Zenon DEF RunDual
  <2>2. BatchInv'
    BY <1>4, Zenon DEF RunDual, BatchInv, BatchViewsIntact, batchVars
  <2>3. BootInv'
    BY <1>4, Zenon DEF RunDual, BootInv, bootVars, dpdkVars
  <2> QED
    BY <2>1, <2>2, <2>3
<1>5. CASE RunBatch
  <2>1. DpdkInv'
    BY <1>5, DpdkStutters, Zenon DEF RunBatch
  <2>2. BatchInv'
    BY <1>5, BatchPreserves, Zenon DEF RunBatch
  <2>3. BootInv'
    BY <1>5, ZenonT(60) DEF RunBatch, BootInv, bootVars, dpdkVars
  <2> QED
    BY <2>1, <2>2, <2>3
<1>6. CASE RunDpdk
  <2>1. CallNext \/ ReceiveBurst \/ TakeFrame
    BY <1>6, Zenon DEF RunDpdk, PollDpdk
  <2>2. DpdkInv'
    BY <2>1, CallPreserves, BurstPreserves, TakePreserves, Zenon
  <2>3. BatchInv'
    BY <1>6, Zenon DEF RunDpdk, BatchInv, BatchViewsIntact, batchVars
  <2>4. UNCHANGED <<boot, source, cpu, mappedOn>> /\ boot = "run" /\ source = "dpdk"
    BY <1>6, Zenon DEF RunDpdk, bootVars
  <2>5. dpdk' # "closed"
    BY <2>1, <2>4, ZenonT(60) DEF CallNext, ReceiveBurst, TakeFrame, BootInv
  <2>6. BootInv'
    BY <2>4, <2>5, Zenon DEF BootInv
  <2> QED
    BY <2>2, <2>3, <2>6
<1>7. CASE RunDestructor
  <2>1. /\ boot \in {"failing", "returning"} /\ UNCHANGED <<source, cpu, mappedOn>>
        /\ boot' = IF dpdk' # "destroyed" THEN boot ELSE IF boot = "failing" THEN "failed" ELSE "done"
        /\ ReleaseCached \/ GiveBack
    BY <1>7, Zenon DEF RunDestructor
  <2>2. DpdkInv' /\ dpdk' \in {"closing", "destroyed"}
    BY <2>1, ReleasePreserves, GiveBackPreserves, Zenon DEF ReleaseCached
  <2>3. BatchInv'
    BY <1>7, Zenon DEF RunDestructor, BatchInv, BatchViewsIntact, batchVars
  <2>4. dpdk' = "destroyed" => held' = {}
    BY <2>2, Zenon DEF DpdkInv, HeldInv
  <2>5. source = "dpdk"
    BY <2>1, Zenon DEF BootInv
  <2>6. BootInv'
    BY <2>1, <2>2, <2>4, <2>5, ZenonT(60) DEF BootInv
  <2> QED
    BY <2>2, <2>3, <2>6
<1>8. CASE PortReceives
  <2>1. PICK b \in Mbufs, f \in AllFrames : FrameArrives(f, b)
    BY <1>8, Zenon DEF PortReceives, Traffic, AllFrames
  <2>2. DpdkInv'
    BY <2>1, ArrivalPreserves, Zenon DEF AllFrames
  <2>3. BatchInv'
    BY <1>8, Zenon DEF PortReceives, BatchInv, BatchViewsIntact, batchVars
  <2>4. UNCHANGED <<boot, source, cpu, mappedOn, dpdk, held>>
    BY <1>8, <2>1, Zenon DEF PortReceives, FrameArrives, bootVars
  <2>5. BootInv'
    BY <2>4, Zenon DEF BootInv
  <2> QED
    BY <2>2, <2>3, <2>5
<1> QED
  BY <1>1, <1>2, <1>3, <1>4, <1>5, <1>6, <1>7, <1>8, Zenon

\* The inductive invariant of main and its sources.
THEOREM MainInvariance == MainSpec => []MainInv
<1>1. MainInit => MainInv
  BY MainInitEstablishes, Zenon
<1>2. MainInv /\ [MainNext]_mainVars => MainInv'
  <2> SUFFICES ASSUME MainInv, [MainNext]_mainVars
               PROVE  MainInv'
    OBVIOUS
  <2>1. CASE MainNext
    BY <2>1, BootPreserves, SourcePreserves, Zenon DEF MainNext
  <2>2. CASE UNCHANGED mainVars
    <3>1. DpdkInv'
      BY <2>2, DpdkStutters, Zenon DEF MainInv, mainVars, sourcesVars
    <3>2. BatchInv'
      BY <2>2, Zenon DEF MainInv, BatchInv, BatchViewsIntact, mainVars, sourcesVars, batchVars
    <3>3. BootInv'
      BY <2>2, Zenon DEF MainInv, BootInv, mainVars, sourcesVars, dpdkVars, bootVars
    <3> QED
      BY <3>1, <3>2, <3>3, Zenon DEF MainInv
  <2> QED
    BY <2>1, <2>2, Zenon
<1> QED
  BY <1>1, <1>2, PTL DEF MainSpec

\* No buffer of the pool is ever lost, freed twice or in two places: not when
\* a frame arrives in the middle of a call, not when a frame is refused, not
\* when the receiver is destroyed with a burst half read and the port still
\* receives.
THEOREM BuffersNeverLost == MainSpec => []BuffersConserved
<1>1. MainInv => BuffersConserved
  <2> SUFFICES ASSUME MainInv
               PROVE  BuffersConserved
    OBVIOUS
  <2> DEFINE P == pool
             R == Range(ring)
             B == Range(burst)
             L == {delivered} \ {NoMbuf}
  <2>1. /\ P \cup R \cup B \cup L = Mbufs
        /\ P \cap R = {} /\ P \cap B = {} /\ P \cap L = {} /\ R \cap B = {} /\ R \cap L = {}
        /\ B \cap L = {}
        /\ IsInjective(ring) /\ IsInjective(burst)
        /\ "pool" \notin held => pool = Mbufs
    BY Zenon DEF MainInv, DpdkInv, BufferInv, Lent
  <2>2. Owners = <<P, R, B, L>>
    BY Zenon DEF Owners
  <2> HIDE DEF P, R, B, L
  <2>3. DOMAIN Owners = {1, 2, 3, 4}
        /\ Owners[1] = P /\ Owners[2] = R /\ Owners[3] = B /\ Owners[4] = L
    BY <2>2
  <2>4. UNION Range(Owners) = P \cup R \cup B \cup L
    BY <2>3 DEF Range
  <2>5. \A i, j \in DOMAIN Owners : i # j => Owners[i] \cap Owners[j] = {}
    <3>1. /\ P \cap R = {} /\ P \cap B = {} /\ P \cap L = {} /\ R \cap B = {} /\ R \cap L = {}
          /\ B \cap L = {}
      BY <2>1, Zenon
    <3> QED  BY <2>3, <3>1
  <2> QED
    BY <2>1, <2>4, <2>5, ZenonT(60) DEF BuffersConserved
<1> QED
  BY <1>1, MainInvariance, PTL

\* The frames the receiver looks at are parsed within their bounds, and the
\* same by both parsers, whatever the port received.
THEOREM ParsersAlwaysAgree == MainSpec => []ParsersAgree
<1>1. MainInv => ParsersAgree
  BY ParsersSound, Zenon DEF MainInv, DpdkInv, ContentInv, ParsersAgree, Range
<1> QED
  BY <1>1, MainInvariance, PTL

\* The packets lent to the engine, by the batch receiver and by DPDK, are not
\* overwritten before its next call.
THEOREM ViewsNeverOverwritten == MainSpec => []ViewsIntact
<1>1. MainInv => ViewsIntact
  BY Zenon DEF MainInv, DpdkInv, ContentInv, BatchInv, ViewsIntact, DpdkViewIntact
<1> QED
  BY <1>1, MainInvariance, PTL

\* The books are mapped on the CPU that was asked for.  However the start goes
\* and whenever it fails, nothing of the port is given back before what was
\* set up on it, and main holds nothing of it when it has ended.
THEOREM StartsAndStopsOrderly == MainSpec => []OrderlyStartAndStop
<1>1. MainInv => OrderlyStartAndStop
  <2> SUFFICES ASSUME MainInv PROVE OrderlyStartAndStop
    OBVIOUS
  <2>1. /\ "started" \in held => {"pool", "device", "queue"} \subseteq held
        /\ {"device", "queue"} \cap held # {} => "pool" \in held
        /\ {"flowA", "flowB"} \cap held # {} => "isolation" \in held
    BY Zenon DEF MainInv, DpdkInv, HeldInv
  <2> QED
    BY <2>1, Zenon DEF MainInv, BootInv, OrderlyStartAndStop
<1> QED
  BY <1>1, MainInvariance, PTL

\* Neither line starves: between two reads of a line at most one packet of the
\* other is returned, for any batch and any traffic, whatever the poll says and
\* whether a read fails.
THEOREM NeverBypassed == MainSpec => []NotBypassed
<1>1. MainInit => TurnInv
  <2> SUFFICES ASSUME MainInit PROVE TurnInv
    OBVIOUS
  <2>1. Unread
    BY Zenon DEF MainInit, Init
  <2> QED
    BY <2>1 DEF Unread, TurnInv, LineType, Lines
<1>2. ASSUME TurnInv, [MainNext]_mainVars
      PROVE  TurnInv'
  <2>1. CASE UNCHANGED vars
    BY <1>1, <1>2, <2>1, ZenonT(60) DEF vars, kernelVars, TurnInv, LineType, Preferred
  <2>2. CASE RunDual
    BY <1>1, <1>2, <2>2, TurnNext, Zenon DEF RunDual
  <2> QED
    BY <1>1, <1>2, <2>1, <2>2, Zenon
       DEF MainNext, Validate, PinCpu, OpenSockets, OpenDpdk, MapBooks, StartupThrows, MainReturns,
           RunDestructor, RunBatch, RunDpdk, PortReceives, mainVars, sourcesVars
<1>3. TurnInv => NotBypassed
  <2> SUFFICES ASSUME TurnInv, NEW l \in Lines PROVE bypass[l] <= 1
    BY Zenon DEF NotBypassed
  <2>1. bypass[l] = 0 \/ bypass[l] = 1
    BY Zenon DEF TurnInv, LineType
  <2> QED
    BY <2>1
<1> QED
  BY <1>1, <1>2, <1>3, PTL DEF MainSpec
-----------------------------------------------------------------------------
\* Nothing is lost.

\* The inductive invariant of the two sockets.
THEOREM SocketInvariance == MainSpec => []SocketInv
<1>1. ASSUME MainInit PROVE SocketInv
  <2>1. Unread
    BY <1>1, Zenon DEF MainInit, Init
  <2>2. SocketType
    BY <2>1 DEF Unread, SocketType
  <2>3. DropsInv
    <3> SUFFICES ASSUME NEW l \in Lines PROVE LineDrops(l)
      BY Zenon DEF DropsInv
    <3>1. 0 % Wrap = 0 /\ 0 \in 0 .. Wrap - 1 /\ 0 - 0 = 0 /\ 1 .. 0 = {} /\ 0 .. 0 = {0}
      BY ReceiverAssumption
    <3>2. /\ counted[l] = 0 /\ readAt[l] = 0 /\ last[l] = 0 /\ carriedAt[l] = 0 /\ dropped[l] = 0
          /\ Len(queue[l]) = 0
      BY <2>1, Zenon DEF Unread
    <3>3. DropsAt(l, 0) = 0 /\ ShownAt(l, 0) = 0
      BY <3>2, Zenon DEF DropsAt, ShownAt
    <3>4. Known(l, 0)
      BY <3>1, <3>3, Zenon DEF Known
    <3> QED
      BY <3>1, <3>2, <3>3, <3>4, ZenonT(60) DEF LineDrops
  <2>4. NothingLost
    <3> SUFFICES ASSUME NEW l \in Lines
                 PROVE  accepted[l] = got[l] \o Ids(pending[l]) \o Ids(Kept(queue[l], Fitting))
      BY Zenon DEF NothingLost
    <3>1. PICK e \in Seq(Nat) : e = << >> /\ Kept(e, Fitting) = e /\ Ids(e) = e /\ e \o e = e
      <4>1. << >> \in Seq(Nat) /\ << >> \o << >> = << >>
        OBVIOUS
      <4> QED
        BY <4>1, KeptEmpty, IdsEmpty, Zenon
    <3>2. accepted[l] = e /\ got[l] = e /\ pending[l] = e /\ queue[l] = e
      BY <2>1, <3>1, Zenon DEF Unread
    <3> QED
      BY <3>1, <3>2, Zenon
  <2> QED
    BY <2>2, <2>3, <2>4, Zenon DEF SocketInv
<1>2. ASSUME SocketInv, [MainNext]_mainVars
      PROVE  SocketInv'
  <2>1. CASE UNCHANGED vars
    <3>1. UNCHANGED <<metered, arrived, dropped, carriedAt, queue, pending, accepted, got, readAt,
                      counted, last>>
      BY <2>1, Zenon DEF vars, kernelVars, configVars
    <3>2. SocketType' /\ NothingLost'
      BY <1>2, <3>1, Zenon DEF SocketInv, SocketType, NothingLost, Ids
    <3>3. DropsInv'
      BY <1>2, <3>1, SameDrops, ZenonT(60) DEF SocketInv, DropsInv
    <3> QED
      BY <3>2, <3>3, Zenon DEF SocketInv
  <2>2. CASE RunDual
    BY <1>2, <2>2, SocketNext, Zenon DEF RunDual
  <2> QED
    BY <1>2, <2>1, <2>2, Zenon
       DEF MainNext, Validate, PinCpu, OpenSockets, OpenDpdk, MapBooks, StartupThrows, MainReturns,
           RunDestructor, RunBatch, RunDpdk, PortReceives, mainVars, sourcesVars
<1> QED
  BY <1>1, <1>2, PTL DEF MainSpec

\* Where the drops are counted, the count is less than a turn of the kernel's
\* counter behind the true one at the last datagram read, and exact whenever
\* that datagram showed it, for any range of the counter and any batch.
THEOREM DropsCounted == MainSpec => []DropsExact
<1>1. SocketInv => DropsExact
  <2> SUFFICES ASSUME SocketInv, NEW l \in Lines
               PROVE  IF metered
                        THEN /\ readAt[l] - counted[l] \in 0 .. Wrap - 1
                             /\ Shows(readAt[l]) => counted[l] = readAt[l]
                        ELSE counted[l] = 0
    BY Zenon DEF DropsExact
  <2>1. LineDrops(l)
    BY Zenon DEF SocketInv, DropsInv
  <2>2. 0 \in 0 .. Len(queue[l])
    <3>1. queue[l] \in Seq(Datagrams)
      BY Zenon DEF SocketInv, SocketType
    <3>2. Len(queue[l]) \in Nat
      BY <3>1
    <3> QED  BY <3>2
  <2>3. metered => Known(l, 0)
    BY <2>1, <2>2, Zenon DEF LineDrops
  <2>4. DropsAt(l, 0) = readAt[l] /\ ShownAt(l, 0) = counted[l]
    BY Zenon DEF DropsAt, ShownAt
  <2> QED
    BY <2>1, <2>3, <2>4, ZenonT(60) DEF Known, LineDrops
<1> QED
  BY <1>1, SocketInvariance, PTL

\* The inductive invariant of the batch receiver's queue.
THEOREM OrderInvariance == MainSpec => []OrderInv
<1>1. ASSUME MainInit PROVE OrderInv
  <2>1. BatchInit
    BY <1>1, Zenon DEF MainInit
  <2>2. OrderType
    BY <2>1 DEF BatchInit, OrderType
  <2>3. PICK e \in Seq(Nat) : /\ e = << >> /\ Small(e) = e /\ Ids(e) = e /\ e \o e = e
                              /\ Image(buffers, e) = e
    <3>1. << >> \in Seq(Nat) /\ << >> \o << >> = << >>
      OBVIOUS
    <3> QED
      BY <3>1, KeptEmpty, IdsEmpty, ImageOne, ZenonT(60) DEF Small
  <2>4. socket = e /\ sent = e /\ handed = e /\ filled = e
    BY <2>1, <2>3, ZenonT(60) DEF BatchInit
  <2>5. BatchNothingLost
    BY <2>3, <2>4, HeldImage, ZenonT(60) DEF BatchNothingLost
  <2> QED
    BY <2>2, <2>5, Zenon DEF OrderInv
<1>2. ASSUME OrderInv, [MainNext]_mainVars
      PROVE  OrderInv'
  <2>1. CASE UNCHANGED batchVars
    BY <1>2, <2>1, ZenonT(60) DEF batchVars, OrderInv, OrderType, BatchNothingLost, Small, Ids
  <2>2. CASE RunBatch
    BY <1>2, <2>2, OrderNext, Zenon DEF RunBatch
  <2> QED
    BY <1>2, <2>1, <2>2, Zenon
       DEF MainNext, Validate, PinCpu, OpenSockets, OpenDpdk, MapBooks, StartupThrows, MainReturns,
           RunDestructor, RunDual, RunDpdk, PortReceives, mainVars, sourcesVars
<1> QED
  BY <1>1, <1>2, PTL DEF MainSpec

\* The steps of main and of the DPDK receiver.
LEMMA TracesNext ==
  ASSUME MainInv, MainInv', TraceInv, [MainNext]_mainVars
  PROVE  TraceInv'
<1>1. BufferInv /\ BufferInv' /\ content = [c \in Mbufs |-> content[c]]
  BY Zenon DEF MainInv, DpdkInv, ContentInv
<1>2. ASSUME UNCHANGED dpdkVars
      PROVE  TraceInv'
  <2>1. UNCHANGED <<ends, content, ring, burst, counts, landed, returned, dpdk>>
    BY <1>2, Zenon DEF dpdkVars
  <2>2. CASE dpdk \notin {"closing", "destroyed"}
    BY <1>1, <2>1, <2>2, TracesStay, Zenon
  <2>3. CASE dpdk \in {"closing", "destroyed"}
    <3>1. Waiting' \subseteq Waiting /\ dpdk' \in {"closing", "destroyed"}
      BY <2>1, <2>3, Zenon DEF Waiting
    <3> QED
      BY <2>1, <3>1, TracesEnd, Zenon
  <2> QED
    BY <2>2, <2>3, Zenon
<1>3. ASSUME Acquire \/ InitializeThrows \/ CallNext
      PROVE  TraceInv'
  <2>1. /\ UNCHANGED <<ends, content, ring, burst, counts, landed, returned>>
        /\ dpdk \notin {"closing", "destroyed"}
    BY <1>3, Zenon DEF Acquire, InitializeThrows, CallNext, portVars
  <2> QED
    BY <1>1, <2>1, TracesStay, Zenon
<1>4. ASSUME Traffic
      PROVE  TraceInv'
  <2>1. PICK b \in Mbufs, f \in AllFrames : FrameArrives(f, b)
    BY <1>4, Zenon DEF Traffic, AllFrames
  <2> QED
    BY <1>1, <2>1, TracesArrive, Zenon
<1>5. CASE RunDpdk
  <2>1. CASE ReceiveBurst \/ TakeFrame
    BY <1>1, <2>1, TracesBurst, TracesTake, Zenon
  <2> QED
    BY <1>3, <1>5, <2>1, Zenon DEF RunDpdk, PollDpdk
<1>6. CASE OpenDpdk
  BY <1>3, <1>6, Zenon DEF OpenDpdk
<1>7. ASSUME Destroy \/ ReleaseCached \/ GiveBack
      PROVE  TraceInv'
  BY <1>7, TracesDestroy, Zenon DEF MainInv
<1>8. CASE StartupThrows
  BY <1>2, <1>3, <1>7, <1>8, Zenon DEF StartupThrows
<1>9. CASE MainReturns \/ RunDestructor
  BY <1>7, <1>9, Zenon DEF MainReturns, RunDestructor
<1>10. CASE PortReceives
  BY <1>4, <1>10, Zenon DEF PortReceives
<1> QED
  BY <1>2, <1>5, <1>6, <1>8, <1>9, <1>10, Zenon
     DEF MainNext, Validate, PinCpu, OpenSockets, MapBooks, RunDual, RunBatch, mainVars, sourcesVars

\* The inductive invariant of the DPDK receiver's histories.
THEOREM TraceInvariance == MainSpec => []TraceInv
<1>1. ASSUME MainInit PROVE TraceInv
  <2>1. Unopened
    BY <1>1, Zenon DEF MainInit, DpdkInit
  <2>2. TraceType
    <3>1. landed \in Seq(AllFrames) /\ returned \in Seq(AllFrames)
      <4>1. landed = << >> /\ returned = << >>
        BY <2>1, Zenon DEF Unopened
      <4> QED  BY <4>1
    <3>2. Waiting = {}
      BY <2>1, EmptyRange, ZenonT(60) DEF Unopened, Waiting
    <3>3. counts \in [{"a", "b", "filtered", "malformed", "fast", "fallback"} -> Nat]
      <4>1. counts = [a |-> 0, b |-> 0, filtered |-> 0, malformed |-> 0, fast |-> 0, fallback |-> 0]
        BY <2>1, Zenon DEF Unopened
      <4> QED  BY <4>1
    <3> QED
      BY <3>1, <3>2, <3>3, ZenonT(60) DEF TraceType
  <2>3. PICK e \in Seq(AllFrames) : e = << >> /\ Kept(e, ForUs) = e /\ e \o e = e /\ Image(content, e) = e
    <3>1. << >> \in Seq(AllFrames) /\ << >> \o << >> = << >>
      OBVIOUS
    <3> QED
      BY <3>1, KeptEmpty, ImageOne, ZenonT(60)
  <2>4. landed = e /\ returned = e /\ ring = e /\ burst = e
    BY <2>1, <2>3, Zenon DEF Unopened
  <2>5. InOrder
    BY <2>3, <2>4, ZenonT(60) DEF InOrder
  <2>6. AllCounted
    <3>1. counts.a = 0 /\ counts.b = 0 /\ counts.filtered = 0 /\ counts.malformed = 0
      BY <2>1, Zenon DEF Unopened
    <3>2. Len(landed) = 0 /\ Len(returned) = 0 /\ Len(ring) = 0 /\ Len(burst) = 0
      BY <2>1, Zenon DEF Unopened
    <3> QED
      BY <3>1, <3>2 DEF AllCounted
  <2>7. BufferInv
    BY <1>1, MainInitEstablishes, Zenon DEF MainInv, DpdkInv
  <2> QED
    BY <2>2, <2>5, <2>6, <2>7, TracesIff, Zenon DEF TraceInv, TraceExact
<1>2. MainInv /\ MainInv' /\ TraceInv /\ [MainNext]_mainVars => TraceInv'
  BY TracesNext, Zenon
<1> QED
  BY <1>1, <1>2, MainInvariance, PTL DEF MainSpec

\* Between a source and the decoder nothing is lost, repeated or reordered,
\* for any sizes of the sockets, the batches, the bursts and the pool, and
\* every frame that is not returned is counted.
THEOREM NothingIsLost == MainSpec => []SourceLosesNothing
<1>1. SocketInv /\ OrderInv /\ TraceInv => SourceLosesNothing
  BY DEF SocketInv, OrderInv, TraceInv, SourceLosesNothing
<1> QED
  BY <1>1, SocketInvariance, OrderInvariance, TraceInvariance, PTL
=============================================================================
