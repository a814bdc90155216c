-------------------------- MODULE MCReplaySource ---------------------------
EXTENDS ReplaySource

CONSTANT MaxRecords   \* bound: records in a file

\* The empty file, every file of one record, and every longer file that opens
\* with O and whose torn record, if it has one, comes last.  A longer file that
\* opens otherwise is refused at its first record, like the file of one record.
SmallFiles ==
  LET Whole == {"O", "S", "Q", "C", "m", "wide", "huge", "bad", "zero"}
      Torn  == {"half", "cut"}
  IN  {<< >>} \cup {<<t>> : t \in Torn \cup Whole}
        \cup UNION {{<<"O">> \o f : f \in [1 .. n -> Whole]} : n \in 1 .. MaxRecords - 1}
        \cup UNION {{<<"O">> \o f \o <<t>> : f \in [1 .. n -> Whole], t \in Torn}
                      : n \in 0 .. MaxRecords - 2}
=============================================================================
