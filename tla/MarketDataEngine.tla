-------------------------- MODULE MarketDataEngine --------------------------
(***************************************************************************)
(* The engine process: the receive loop of MarketDataEngine::run around    *)
(* the decoder, fed by two redundant lines, stopped by the end of the      *)
(* session, a decode failure, a gap (when configured) or a signal, and the *)
(* exit code main computes from what the run left behind.                  *)
(*                                                                         *)
(* Every packet of Wire is sent once on each line.  The decoder does not   *)
(* see which line a packet came from, so the network is how many copies of *)
(* each packet are still on their way and how many were lost.  Copies      *)
(* arrive in any order, and any of them may be lost.                       *)
(***************************************************************************)
EXTENDS MoldUdpDecoder

CONSTANTS
  Copies,             \* the number of redundant lines
  StopOnDecodeError,  \* EngineConfig::stop_on_decode_error
  StopOnSequenceGap,  \* EngineConfig::stop_on_sequence_gap
  CleanBooks          \* the parser states whose final audit is clean

ASSUME EngineAssumption ==
  /\ Copies \in Nat \ {0}
  /\ {StopOnDecodeError, StopOnSequenceGap} \subseteq BOOLEAN
  /\ CleanBooks \subseteq ParserState

VARIABLES
  inflight,   \* copies of each packet in the network or in a socket buffer
  lost,       \* copies of each packet that were lost
  running,    \* running_
  loop,       \* where run() stands: "poll", "decode", "exited"
  exitCode    \* "none" until main returns

engineVars == <<running, loop, exitCode>>
netVars    == <<inflight, lost>>
allVars    == <<vars, inflight, lost, running, loop, exitCode>>

EngineInit ==
  /\ Init
  /\ inflight = [p \in Wire |-> Copies]
  /\ lost = [p \in Wire |-> 0]
  /\ running = TRUE
  /\ loop = "poll"
  /\ exitCode = "none"

\* The network loses one copy of a packet.
Lose(p) ==
  /\ inflight[p] > 0
  /\ inflight' = [inflight EXCEPT ![p] = @ - 1]
  /\ lost' = [lost EXCEPT ![p] = @ + 1]
  /\ UNCHANGED <<vars, engineVars>>

\* source_.next returns a packet and processPacket is called with it.
Poll(p) ==
  /\ loop = "poll"
  /\ running
  /\ inflight[p] > 0
  /\ inflight' = [inflight EXCEPT ![p] = @ - 1]
  /\ Receive(p)
  /\ loop' = "decode"
  /\ UNCHANGED <<lost, running, exitCode>>

\* processPacket is still running.
Decode ==
  /\ loop = "decode"
  /\ Continue
  /\ UNCHANGED <<netVars, engineVars>>

\* isTerminalDecodeFailure.
IsTerminalDecodeFailure(s) ==
  s \in {"InvalidSize", "InvalidSequence", "InvalidSession",
         "RedundantFeedMismatch", "InvalidItchMessage", "IncompleteSession"}

\* Mutant of StopsOn: the end of the stream is not a reason to stop.
StopsOnFailure(r) ==
  \/ IsTerminalDecodeFailure(r.status)
  \/ r.status = "Ok" /\ r.hadGap /\ StopOnSequenceGap

\* Whether the result of processPacket makes run() stop.
StopsOn(r) ==
  \/ r.status = "EndOfStream"
  \/ IsTerminalDecodeFailure(r.status)
  \/ r.status # "Ok" /\ StopOnDecodeError
  \/ r.status = "Ok" /\ r.hadGap /\ StopOnSequenceGap

HandleResult ==
  /\ loop = "decode"
  /\ pc = "idle"
  /\ running' = (running /\ ~StopsOn(result))
  /\ loop' = "poll"
  /\ UNCHANGED <<vars, netVars, exitCode>>

\* onSignal runs stop() at any moment of the run.
Signal ==
  /\ running
  /\ running' = FALSE
  /\ UNCHANGED <<vars, netVars, loop, exitCode>>

\* Mutant of HealthySession: the end marker is not required.
HealthySessionNoMarker ==
  /\ status = "Good"
  /\ gap = {}
  /\ parser \in ParserFinal
  /\ parser \in CleanBooks

\* What main requires before it returns EXIT_SUCCESS.
HealthySession ==
  /\ status = "Good"
  /\ gap = {}
  /\ parser \in ParserFinal
  /\ parser \in CleanBooks
  /\ terminal = "EndOfStream"

\* run() leaves its loop and main returns.
Exit ==
  /\ loop = "poll"
  /\ ~running
  /\ loop' = "exited"
  /\ exitCode' = IF HealthySession THEN "success" ELSE "failure"
  /\ UNCHANGED <<vars, netVars, running>>

\* Nothing has arrived: next() returns false and the loop polls again; or
\* the process has exited.
IdlePoll ==
  /\ loop = "exited" \/ (loop = "poll" /\ running)
  /\ UNCHANGED allVars

EngineNext ==
  \/ \E p \in Wire : Lose(p) \/ Poll(p)
  \/ Decode
  \/ HandleResult
  \/ Signal
  \/ Exit
  \/ IdlePoll

EngineSpec == EngineInit /\ [][EngineNext]_allVars

\* The loop never blocks: a call of processPacket runs to its end, and a
\* packet that has reached a socket is read by some later poll.
EngineFairness ==
  /\ WF_allVars(Decode \/ HandleResult \/ Exit)
  /\ WF_allVars(\E p \in Wire : Poll(p))

FairEngineSpec == EngineSpec /\ EngineFairness
-----------------------------------------------------------------------------
Delivered(p) == inflight[p] + lost[p] < Copies

\* main reports success only for a session that ends where a delivered end
\* marker said and whose every message was in a packet that some line
\* delivered: packets lost on all lines are never papered over.
SuccessIsComplete ==
  exitCode = "success" =>
    /\ \E p \in Wire : /\ p.kind = "eos"
                      /\ Delivered(p)
                      /\ p.first = FirstSeq + Len(applied)
    /\ \A s \in FirstSeq .. FirstSeq + Len(applied) - 1 :
         \E p \in Data : Covers(p, s) /\ Delivered(p)

\* Some copy of every packet survives, the gap buffer has not overflowed, and
\* nobody has interrupted the process before the session was decided.
Undisturbed ==
  /\ \A p \in Wire : lost[p] < Copies
  /\ status # "Stale"
  /\ running \/ terminal # "Ok"

\* While no packet is lost on every line, the gap buffer has room and nobody
\* interrupts it, run() closes every gap and the process exits successfully,
\* in whatever order and on whichever line the packets arrive.
RecoversAndExits == []Undisturbed => <>(exitCode = "success")

\* A signal or a terminal status always ends the process.
StopEndsTheProcess == (~running \/ terminal # "Ok") ~> (loop = "exited")
=============================================================================
