-------------------------- MODULE RedundantSender --------------------------
(***************************************************************************)
(* The replay sender: the main thread reads packets from the source,       *)
(* sends each on line A and hands it to the line B worker through a        *)
(* generation counter, and waits for the worker's acknowledgement before   *)
(* the packet buffer is used again.  Startup and periodic heartbeats and   *)
(* the end-of-session copies take the same path.                           *)
(*                                                                         *)
(* Every atomic access of the hand-off is a step.  The plain fields are    *)
(* written before a release and read after the matching acquire, so their  *)
(* values are those of the last write.  Time is left out: a wait may send  *)
(* any number of heartbeats and end at any moment.                         *)
(***************************************************************************)
EXTENDS Integers, Sequences, FiniteSetsExt

CONSTANTS
  Messages,      \* messages in the file
  MaxPerPacket,  \* messages the source may put in a packet
  StartupCount,  \* startup_heartbeat_count
  EosCount,      \* end_of_session_packet_count, never zero
  MaxPeriodic    \* bound: periodic heartbeats

ASSUME SenderAssumption ==
  /\ Messages \in Nat
  /\ MaxPerPacket \in Nat \ {0}
  /\ StartupCount \in Nat
  /\ EosCount \in Nat \ {0}
  /\ MaxPeriodic \in Nat

VARIABLES
  redundant,   \* whether there is a line B
  running,     \* g_running, cleared by a signal
  main,        \* where the main thread is
  then,        \* what the packet being sent is for
  source,      \* "open", "completed" or "error"
  taken,       \* messages read from the file: source.nextSequence() - 1
  buffer,      \* the source's packet buffer
  control,     \* the control packet of the main thread
  sentA,       \* line_a_sent
  failed,      \* transmission_failed
  logical,     \* the packets accounted for by logical_packets
  startups, periodics, ends,   \* heartbeats and end-of-session copies sent
  exit,        \* the exit status
  worker,      \* where the line B worker is
  ptr,         \* handoff_.data
  generation, completed, stop, sentB,   \* the other fields of the hand-off
  observed,    \* the worker's observed_generation
  lineA, lineB,        \* what each line has carried
  failuresA, failuresB \* send_failures of each line

mainVars   == <<main, then, source, taken, buffer, control, sentA, failed, logical,
                startups, periodics, ends, exit>>
handVars   == <<ptr, generation, stop>>
workerVars == <<worker, observed>>
wireVars   == <<lineA, failuresA>>
lineBVars  == <<sentB, completed, lineB, failuresB>>

vars == <<redundant, running, mainVars, handVars, workerVars, wireVars, lineBVars>>

Data(first, n) == [kind |-> "data", first |-> first, count |-> n]
Heartbeat(seq) == [kind |-> "heartbeat", first |-> seq, count |-> 0]
EndOfSession(seq) == [kind |-> "end", first |-> seq, count |-> 0]

NextSequence == taken + 1

\* What the bytes a pointer leads to are at this moment.
At(p) == IF p = "buffer" THEN buffer ELSE control

\* The packet the main thread is sending.
Place == IF then = "data" THEN "buffer" ELSE "control"

Init ==
  /\ redundant \in BOOLEAN
  /\ running = TRUE
  /\ main = "starting"
  /\ then = "startup"
  /\ source = "open" /\ taken = 0
  /\ buffer = Data(0, 0) /\ control = Heartbeat(0)
  /\ sentA = FALSE /\ failed = FALSE
  /\ logical = << >> /\ startups = 0 /\ periodics = 0 /\ ends = 0
  /\ exit = "none"
  /\ worker = IF redundant THEN "starting" ELSE "gone"
  /\ ptr = "control" /\ generation = 0 /\ completed = 0
  /\ stop = FALSE /\ sentB = FALSE /\ observed = 0
  /\ lineA = << >> /\ lineB = << >> /\ failuresA = 0 /\ failuresB = 0

Interrupt ==
  /\ running
  /\ running' = FALSE
  /\ UNCHANGED <<redundant, mainVars, handVars, workerVars, wireVars, lineBVars>>
-----------------------------------------------------------------------------
\* A step of the main thread that touches no line and no part of the hand-off.
MainOnly == UNCHANGED <<redundant, running, handVars, workerVars, wireVars, lineBVars>>

\* The constructor waits for the worker's startup; a failed startup is thrown
\* after stopAndJoin.
Started ==
  /\ main = "starting"
  /\ worker # "starting"
  /\ main' = IF redundant /\ worker = "gone" THEN "stopping" ELSE "startup"
  /\ MainOnly
  /\ UNCHANGED <<then, source, taken, buffer, control, sentA, failed, logical,
                 startups, periodics, ends, exit>>

\* send_control_packet begins.
SendControl(packet, purpose) ==
  /\ control' = packet
  /\ then' = purpose
  /\ main' = "sendA"
  /\ MainOnly
  /\ UNCHANGED <<source, taken, buffer, sentA, failed, logical,
                 startups, periodics, ends, exit>>

Goto(from, to) ==
  /\ main = from
  /\ main' = to
  /\ MainOnly
  /\ UNCHANGED <<then, source, taken, buffer, control, sentA, failed, logical,
                 startups, periodics, ends, exit>>

StartupHeartbeat ==
  /\ main = "startup"
  /\ running /\ startups < StartupCount
  /\ SendControl(Heartbeat(NextSequence), "startup")

StartupDone ==
  /\ startups = StartupCount \/ ~running
  /\ Goto("startup", "loop")

\* source.next returns a packet.  The file's end, or an error in it, may be
\* known already when it does; the end is, once the last message is read.
Fetch(n) ==
  /\ main = "loop"
  /\ running /\ source = "open"
  /\ taken + n <= Messages
  /\ taken' = taken + n
  /\ buffer' = Data(NextSequence, n)
  /\ source' \in {"error", IF taken' = Messages THEN "completed" ELSE "open"}
  /\ main' = "fetched"
  /\ MainOnly
  /\ UNCHANGED <<then, control, sentA, failed, logical, startups, periodics, ends, exit>>

\* source.next finds an error before it has a message for a packet.
FetchError ==
  /\ main = "loop"
  /\ running /\ source = "open"
  /\ source' = "error"
  /\ main' = "finish"
  /\ MainOnly
  /\ UNCHANGED <<then, taken, buffer, control, sentA, failed, logical,
                 startups, periodics, ends, exit>>

LoopEnds ==
  /\ ~running \/ source # "open"
  /\ Goto("loop", "finish")

\* Mutant of WaitBefore: the heartbeat names the sequence after the packet
\* that is still waiting to be sent.
WaitBeforeNext ==
  /\ main = "fetched"
  /\ running /\ periodics < MaxPeriodic
  /\ SendControl(Heartbeat(NextSequence), "before")

\* Premarket pacing: the packet is held in the buffer while heartbeats go out.
WaitBefore ==
  /\ main = "fetched"
  /\ running /\ periodics < MaxPeriodic
  /\ SendControl(Heartbeat(buffer.first), "before")

\* A signal during that wait drops the packet.
WaitBeforeStopped ==
  /\ ~running
  /\ Goto("fetched", "finish")

SendData ==
  /\ main = "fetched"
  /\ main' = "sendA"
  /\ then' = "data"
  /\ MainOnly
  /\ UNCHANGED <<source, taken, buffer, control, sentA, failed, logical,
                 startups, periodics, ends, exit>>

\* The pause after System Event S, and ordinary pacing.  Neither happens once
\* the end of the file, or an error in it, is known.
WaitAfter ==
  /\ main = "sent"
  /\ running /\ source = "open" /\ periodics < MaxPeriodic
  /\ SendControl(Heartbeat(NextSequence), "after")

WaitAfterDone == Goto("sent", "loop")
-----------------------------------------------------------------------------
\* send(), line by line.
SendA(ok) ==
  /\ main = "sendA"
  /\ sentA' = ok
  /\ lineA' = IF ok THEN Append(lineA, At(Place)) ELSE lineA
  /\ failuresA' = IF ok THEN failuresA ELSE failuresA + 1
  /\ main' = IF redundant THEN "fill" ELSE "account"
  /\ UNCHANGED <<redundant, running, handVars, workerVars, lineBVars,
                 then, source, taken, buffer, control, failed, logical,
                 startups, periodics, ends, exit>>

FillHandoff ==
  /\ main = "fill"
  /\ ptr' = Place
  /\ sentB' = FALSE
  /\ main' = "publish"
  /\ UNCHANGED <<redundant, running, generation, stop, workerVars, wireVars,
                 completed, lineB, failuresB,
                 then, source, taken, buffer, control, sentA, failed, logical,
                 startups, periodics, ends, exit>>

Publish ==
  /\ main = "publish"
  /\ generation' = generation + 1
  /\ main' = "await"
  /\ UNCHANGED <<redundant, running, ptr, stop, workerVars, wireVars, lineBVars,
                 then, source, taken, buffer, control, sentA, failed, logical,
                 startups, periodics, ends, exit>>

\* Mutant of Await: the hand-off is not waited for, and line B is trusted to
\* take the packet.
AwaitNot ==
  /\ main = "await"
  /\ sentB' = TRUE
  /\ main' = "account"
  /\ UNCHANGED <<redundant, running, handVars, workerVars, wireVars,
                 completed, lineB, failuresB,
                 then, source, taken, buffer, control, sentA, failed, logical,
                 startups, periodics, ends, exit>>

\* The wait for line B is over.
Await == completed = generation /\ Goto("await", "account")

\* Where the main thread goes on after a packet that both lines took.
Resume ==
  CASE then = "startup" -> "startup"
    [] then = "before"  -> "fetched"
    [] then = "end"     -> "ends"
    [] OTHER            -> "sent"

Sent == sentA /\ (redundant => sentB)

\* Mutant of Account: a failure of line B alone is not a failure.
AccountEither ==
  /\ main = "account"
  /\ failed' = ~(sentA \/ sentB)
  /\ main' = IF sentA \/ sentB THEN Resume ELSE "report"
  /\ logical' = IF sentA \/ sentB THEN Append(logical, At(Place)) ELSE logical
  /\ startups' = IF then = "startup" THEN startups + 1 ELSE startups
  /\ periodics' = IF then \in {"before", "after"} THEN periodics + 1 ELSE periodics
  /\ ends' = IF then = "end" THEN ends + 1 ELSE ends
  /\ MainOnly
  /\ UNCHANGED <<then, source, taken, buffer, control, sentA, exit>>

\* send() returns.  A packet that either line failed to take ends the replay.
Account ==
  /\ main = "account"
  /\ failed' = ~Sent
  /\ main' = IF Sent THEN Resume ELSE "report"
  /\ logical' = IF Sent THEN Append(logical, At(Place)) ELSE logical
  /\ startups' = IF Sent /\ then = "startup" THEN startups + 1 ELSE startups
  /\ periodics' = IF Sent /\ then \in {"before", "after"} THEN periodics + 1 ELSE periodics
  /\ ends' = IF Sent /\ then = "end" THEN ends + 1 ELSE ends
  /\ MainOnly
  /\ UNCHANGED <<then, source, taken, buffer, control, sentA, exit>>

\* The data loop is over: the end of the session is announced only when the
\* source was read to its end.
Finish == Goto("finish", IF source = "completed" /\ ~failed THEN "ends" ELSE "report")

EndCopy ==
  /\ main = "ends"
  /\ running /\ ends < EosCount
  /\ SendControl(EndOfSession(NextSequence), "end")

EndsDone ==
  /\ ends = EosCount \/ ~running
  /\ Goto("ends", "report")

MessagesIn(line) == MapThenSumSet(LAMBDA i : line[i].count, DOMAIN line)

CountsClean ==
  redundant => /\ Len(lineA) = Len(logical) /\ MessagesIn(lineA) = MessagesIn(logical)
               /\ Len(lineB) = Len(logical) /\ MessagesIn(lineB) = MessagesIn(logical)

\* The condition of EXIT_SUCCESS.
Clean ==
  /\ source = "completed"
  /\ ~failed
  /\ ends = EosCount
  /\ failuresA = 0 /\ failuresB = 0
  /\ CountsClean

Report ==
  /\ main = "report"
  /\ exit' = IF Clean THEN "success" ELSE "failure"
  /\ main' = IF redundant THEN "stopping" ELSE "done"
  /\ MainOnly
  /\ UNCHANGED <<then, source, taken, buffer, control, sentA, failed, logical,
                 startups, periodics, ends>>

\* stopAndJoin: the flag, then the generation that makes the worker look at it.
RaiseStop ==
  /\ main = "stopping"
  /\ stop' = TRUE
  /\ exit' = IF exit = "none" THEN "failure" ELSE exit
  /\ main' = "waking"
  /\ UNCHANGED <<redundant, running, ptr, generation, workerVars, wireVars, lineBVars,
                 then, source, taken, buffer, control, sentA, failed, logical,
                 startups, periodics, ends>>

\* Mutant of WakeWorker: the flag alone is to stop the worker.
WakeWorkerNot == Goto("waking", "joining")

WakeWorker ==
  /\ main = "waking"
  /\ generation' = generation + 1
  /\ main' = "joining"
  /\ UNCHANGED <<redundant, running, ptr, stop, workerVars, wireVars, lineBVars,
                 then, source, taken, buffer, control, sentA, failed, logical,
                 startups, periodics, ends, exit>>

Join == worker = "gone" /\ Goto("joining", "done")
-----------------------------------------------------------------------------
\* A step of the worker.
WorkerOnly == UNCHANGED <<redundant, running, mainVars, handVars, wireVars>>

WorkerStarts ==
  /\ worker = "starting"
  /\ worker' \in {"polling", "gone"}
  /\ WorkerOnly
  /\ UNCHANGED <<observed, lineBVars>>

\* The worker sees a new generation, and then looks at the stop flag.
Observe ==
  /\ worker = "polling"
  /\ generation # observed
  /\ observed' = generation
  /\ worker' = "checking"
  /\ WorkerOnly
  /\ UNCHANGED lineBVars

CheckStop ==
  /\ worker = "checking"
  /\ worker' = IF stop THEN "gone" ELSE "sending"
  /\ WorkerOnly
  /\ UNCHANGED <<observed, lineBVars>>

SendB(ok) ==
  /\ worker = "sending"
  /\ sentB' = ok
  /\ lineB' = IF ok THEN Append(lineB, At(ptr)) ELSE lineB
  /\ failuresB' = IF ok THEN failuresB ELSE failuresB + 1
  /\ worker' = "acknowledging"
  /\ WorkerOnly
  /\ UNCHANGED <<observed, completed>>

Acknowledge ==
  /\ worker = "acknowledging"
  /\ completed' = observed
  /\ worker' = "polling"
  /\ WorkerOnly
  /\ UNCHANGED <<observed, sentB, lineB, failuresB>>
-----------------------------------------------------------------------------
MainStep ==
  \/ Started \/ StartupHeartbeat \/ StartupDone
  \/ \E n \in 1 .. MaxPerPacket : Fetch(n)
  \/ FetchError \/ LoopEnds
  \/ WaitBefore \/ WaitBeforeStopped \/ SendData \/ WaitAfter \/ WaitAfterDone
  \/ \E ok \in BOOLEAN : SendA(ok)
  \/ FillHandoff \/ Publish \/ Await \/ Account
  \/ Finish \/ EndCopy \/ EndsDone \/ Report
  \/ RaiseStop \/ WakeWorker \/ Join

WorkerStep ==
  \/ WorkerStarts \/ Observe \/ CheckStop
  \/ \E ok \in BOOLEAN : SendB(ok)
  \/ Acknowledge

Next == MainStep \/ WorkerStep \/ Interrupt

\* Both threads run, busy-polling on CPUs of their own.
Spec == Init /\ [][Next]_vars /\ WF_vars(MainStep) /\ WF_vars(WorkerStep)
-----------------------------------------------------------------------------
\* Both lines carry what the sender accounted for, packet for packet: line B
\* reads the shared buffer later than line A, and must still find the same
\* bytes in it.  Each line is at most the packet in flight ahead.
LinesAgree ==
  /\ \A line \in IF redundant THEN {lineA, lineB} ELSE {lineA} :
       Len(line) - Len(logical) \in {0, 1} /\ SubSeq(line, 1, Len(logical)) = logical
  /\ redundant /\ Len(lineA) = Len(lineB) => lineA = lineB

\* The packets of a line number the messages of the file without a gap: each
\* begins where the one before it ends.  Every heartbeat and end-of-session
\* packet thus names the sequence number that follows the data its line has
\* carried, so no receiver takes a packet that waits to be sent for a gap.
ControlTruthful ==
  \A line \in {lineA, lineB} : \A i \in DOMAIN line :
    line[i].first = IF i = 1 THEN 1 ELSE line[i - 1].first + line[i - 1].count

Carries(line, m) == \E i \in DOMAIN line : m \in line[i].first .. line[i].first + line[i].count - 1

EndsIn(line) == Cardinality({i \in DOMAIN line : line[i].kind = "end"})

\* "A partial failure stops replay and suppresses EOS": nothing follows the
\* first packet a line failed to take, the end of the session is on a line
\* only after every message of the file is on both, and exit status 0 means
\* that all of that and every end-of-session copy went out on every line.
EndIsHonest ==
  LET lines == IF redundant THEN {lineA, lineB} ELSE {lineA}
      whole == \A line \in lines, m \in 1 .. Messages : Carries(line, m)
  IN  /\ failed => Len(lineA) + Len(lineB) <= (IF redundant THEN 2 ELSE 1) * Len(logical) + 1
      /\ \A line \in lines : EndsIn(line) > 0 => whole
      /\ exit = "success" => whole /\ \A line \in lines : EndsIn(line) = EosCount

\* The sender always ends, whatever fails and whenever it is interrupted:
\* neither thread is left waiting for the other.
Terminates == <>(main = "done" /\ worker = "gone")
=============================================================================
