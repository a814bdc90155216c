---------------------------- MODULE MCMixedCuts ----------------------------
(***************************************************************************)
(* The decoder when the two lines cut the same stream into different       *)
(* packets: every packet of one or two messages.                           *)
(***************************************************************************)
EXTENDS TradingDay

MCWire == {DataPkt(f, f) : f \in 1 .. 6} \cup {DataPkt(f, f + 1) : f \in 1 .. 5}
            \cup {EndMark(7)}
=============================================================================
