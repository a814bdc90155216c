-------------------------- MODULE MCPacketSources --------------------------
(***************************************************************************)
(* Every source on a few datagrams or frames, and every frame whose        *)
(* lengths are at the edge of a check of the DPDK parsers.                 *)
(***************************************************************************)
EXTENDS PacketSources, TLC

\* Enough on one line for its drop counter to wrap between two datagrams.
Arrivals == [l \in Lines |-> IF l = "a" THEN 6 ELSE 2]

Endpoint(ip, port) == [enabled |-> TRUE, ip |-> ip, port |-> port]
NoEndpoint == [enabled |-> FALSE, ip |-> "any", port |-> 0]

\* Two lines, and a single one that takes any address.
TwoLines == [a |-> Endpoint("g1", 1), b |-> Endpoint("g2", 1)]
OneLine  == [a |-> Endpoint("any", 1), b |-> NoEndpoint]
MCEndpoints == {TwoLines, OneLine}

\* A frame with a payload of one byte.
Plain(dst) == [contiguous |-> TRUE, len |-> 43, tags |-> 0, ip |-> TRUE, version |-> 4,
               ihl |-> 5, total |-> 29, fragment |-> FALSE, udp |-> TRUE, dst |-> dst,
               port |-> 1, udpLen |-> 9]

\* Packets of both lines, a tagged one, one for a third group, a fragment.
MCFrames == {Plain("g1"), Plain("g3"),
             [Plain("g2") EXCEPT !.tags = 1, !.len = 47],
             [Plain("g1") EXCEPT !.fragment = TRUE]}

Shaped(f, len, tags, total, udpLen) ==
  [f EXCEPT !.len = len, !.tags = tags, !.total = total, !.udpLen = udpLen]

\* The lengths around every bound the parsers test.
AtTheBounds ==
  {Shaped([Plain("g2") EXCEPT !.ihl = ihl], len, tags, total, udpLen) :
     ihl \in {5, 6},
     len \in {13, 14, 17, 18, 21, 22, 33, 34, 37, 38, 41, 42, 45, 46, 49, 50, 54, 2090, 2091},
     tags \in 0 .. 3, total \in {19, 20, 24, 27, 28, 29, 32, 2076, 2077},
     udpLen \in {7, 8, 9, 2056, 2057}}

\* What else may be wrong with a frame.
Faulty == {[Plain("g2") EXCEPT !.version = 6], [Plain("g2") EXCEPT !.ihl = 4],
           [Plain("g2") EXCEPT !.ip = FALSE], [Plain("g2") EXCEPT !.fragment = TRUE],
           [Plain("g2") EXCEPT !.udp = FALSE], [Plain("g2") EXCEPT !.port = 2],
           [Plain("g2") EXCEPT !.contiguous = FALSE]}

MCOddFrames ==
  AtTheBounds \cup
  {Shaped(f, len, tags, total, udpLen) :
     f \in Faulty, len \in {14, 34, 41, 42, 43, 46, 50}, tags \in 0 .. 3,
     total \in {19, 20, 28, 29}, udpLen \in {8, 9}}

MbufSymmetry == Permutations(Mbufs)
=============================================================================
