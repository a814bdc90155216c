----------------------------- MODULE TradingDay -----------------------------
(***************************************************************************)
(* Values for the decoder's constants: the shortest complete trading day   *)
(* as the stream, the ITCH lifecycle as the parser, and packets cut from   *)
(* the stream.                                                             *)
(***************************************************************************)
EXTENDS MoldUdpDecoder

CONSTANT s1          \* the session of the day

Cycle == INSTANCE ItchLifecycle

Stream == <<"SO", "SS", "SQ", "SM", "SE", "SC">>

DayPayload == Cycle!MessageTypes
DayPhases  == Cycle!Phases
DayParser  ==
  [x \in DayPhases \X DayPayload |-> Cycle!PhaseAfter(x[1], x[2])]

Pkt(k, s, f, m, sh) ==
  [kind |-> k, session |-> s, first |-> f, msgs |-> m, shape |-> sh]

DataPkt(f, l) == Pkt("data", s1, f, SubSeq(Stream, f, l), "ok")
Heartbeat(f)  == Pkt("heartbeat", s1, f, << >>, "ok")
EndMark(f)    == Pkt("eos", s1, f, << >>, "ok")
ShortPkt      == Pkt("short", s1, 0, << >>, "badSize")
=============================================================================
