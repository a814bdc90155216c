---------------------------- MODULE SessionFeed ----------------------------
(***************************************************************************)
(* What a decoded channel promises its books: the messages of one session, *)
(* in sequence order, each exactly once, until the session is either       *)
(* complete at a sequence number the sender advertised as its end, or has  *)
(* failed for good.                                                        *)
(***************************************************************************)
EXTENDS Naturals, Sequences

CONSTANTS
  FirstSeq,    \* the sequence number of the first message
  Carried,     \* the messages the sender sent under each sequence number
  EndMarks     \* the sequence numbers advertised as the end of the session

VARIABLES
  log,         \* the messages delivered so far
  outcome      \* "open", "complete" or "failed"

feedVars == <<log, outcome>>

FeedInit == log = << >> /\ outcome = "open"

Deliver ==
  /\ outcome = "open"
  /\ \E m \in Carried[FirstSeq + Len(log)] : log' = Append(log, m)
  /\ UNCHANGED outcome

Complete ==
  /\ outcome = "open"
  /\ FirstSeq + Len(log) \in EndMarks
  /\ outcome' = "complete"
  /\ UNCHANGED log

Fail ==
  /\ outcome = "open"
  /\ outcome' = "failed"
  /\ UNCHANGED log

FeedNext == Deliver \/ Complete \/ Fail

FeedSpec == FeedInit /\ [][FeedNext]_feedVars
=============================================================================
