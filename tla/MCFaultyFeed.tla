---------------------------- MODULE MCFaultyFeed ----------------------------
(***************************************************************************)
(* The decoder against a wire that misbehaves: packets in any order, lost, *)
(* repeated, cut differently on the two lines, conflicting copies,         *)
(* malformed packets, a foreign session, early and late end markers.       *)
(***************************************************************************)
EXTENDS TradingDay

CONSTANT s2          \* a session that is not the day's

MCWire ==
  {DataPkt(1, 2), DataPkt(3, 4), DataPkt(5, 6), DataPkt(4, 5), DataPkt(2, 3),
   Heartbeat(3), Heartbeat(7), Heartbeat(8), EndMark(7), EndMark(5),
   Pkt("data", s1, 5, <<"SE">>, "ok"),
   Pkt("data", s1, 3, <<"N", "SC">>, "ok"),
   Pkt("data", s1, 5, Stream, "oversize"),
   Pkt("data", s1, 1, <<"SO">>, "badSize"),
   Pkt("data", s1, 2, <<"SO">>, "badItch"),
   Pkt("data", s1, 11, <<"N", "N">>, "ok"),
   Pkt("data", s1, 7, <<"N">>, "ok"),
   Pkt("data", s2, 1, <<"SO">>, "ok"),
   Pkt("eos", s1, 7, << >>, "badSize"),
   ShortPkt}
=============================================================================
