------------------------------ MODULE MCEngine ------------------------------
(***************************************************************************)
(* The whole engine on one short trading day that both lines cut into the  *)
(* same packets: copies arrive in any order, any of them may be lost, the  *)
(* gap buffer holds two packets, where three may have to wait for the      *)
(* first, and a signal may stop the process at any moment.                 *)
(***************************************************************************)
EXTENDS MarketDataEngine, TradingDay

MCWire == {DataPkt(1, 1), DataPkt(2, 3), DataPkt(4, 4), DataPkt(5, 6),
           EndMark(7)}
=============================================================================
