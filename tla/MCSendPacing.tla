---------------------------- MODULE MCSendPacing ---------------------------
EXTENDS SendPacing

Ordinary(rate, heartbeat, eos) ==
  [rate |-> rate, heartbeat |-> heartbeat, eos |-> eos, beats |-> 0, beat |-> 0, pause |-> 0,
   mode |-> "off", seconds |-> 0, toPace |-> 1, span |-> 1, speed |-> 1]

\* Every rate and none, every interval; start-up heartbeats; a pause; flat
\* windows whose interval has to be rounded, or leaves room for lateness;
\* timestamp windows at two speeds.
MCConfigs ==
  {Ordinary(r, h, e) : r \in {0, 1, 2, 3, 7}, h \in {0, 1, 2, 4}, e \in {0, 1, 2, 4}}
  \cup {[Ordinary(7, 4, 1) EXCEPT !.beats = 3, !.beat = b] : b \in {0, 1, 4, 8}}
  \cup {[Ordinary(r, h, 1) EXCEPT !.pause = p, !.mode = "flat", !.seconds = 1, !.toPace = n] :
          r \in {0, 2, 3}, h \in {0, 2}, p \in {0, 3}, n \in {2, 3}}
  \cup {[Ordinary(r, h, 1) EXCEPT !.mode = "flat", !.seconds = 2, !.toPace = 2] :
          r \in {0, 7}, h \in {0, 2, 4}}
  \cup {[Ordinary(3, h, 1) EXCEPT !.pause = p, !.mode = "timestamp", !.span = 5, !.speed = s] :
          h \in {0, 2}, p \in {0, 3}, s \in {1, 2}}
  \cup {[Ordinary(r, h, 1) EXCEPT !.pause = 3] : r \in {0, 3}, h \in {1, 2}}
=============================================================================
