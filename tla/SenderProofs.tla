---------------------------- MODULE SenderProofs ----------------------------
(***************************************************************************)
(* The replay sender.  Its two lines carry the same packets, numbered and  *)
(* ended as the file is, for every file, packet size and number of         *)
(* heartbeats, under every interleaving of the main thread and the line B  *)
(* worker.  It keeps its rate, its heartbeats and its schedules for every  *)
(* configuration, every clock and every lateness.                          *)
(***************************************************************************)
EXTENDS RedundantSender, SendPacing, FiniteSetTheorems, TLAPS

\* The SMT solver may take up to two minutes on a step.
USE SMTT(120)

-----------------------------------------------------------------------------
\* The two lines.

Packet == [kind : {"data", "heartbeat", "end"}, first : Nat, count : Nat]

\* Where the main thread is between two packets, and after the last one.
Between == {"starting", "startup", "loop", "fetched", "sent", "finish", "ends"}
Over    == {"report", "stopping", "waking", "joining", "done"}

\* The packet that is being sent, or was sent last.
Flight == At(Place)

SenderType ==
  /\ logical \in Seq(Packet) /\ buffer \in Packet /\ control \in Packet
  /\ taken \in Nat /\ {generation, completed, observed} \subseteq Nat
  /\ {redundant, sentA, sentB, stop} \subseteq BOOLEAN
  /\ main \in Between \cup {"sendA", "fill", "publish", "await", "account"} \cup Over
  /\ worker \in {"starting", "polling", "checking", "sending", "acknowledging", "gone"}

\* What a line has carried when it has taken, or failed to take, the packet
\* in flight.
Carried(sent) == IF sent THEN Append(logical, Flight) ELSE logical

LineAInv ==
  /\ main \in Between \cup {"sendA"} => lineA = logical
  /\ main \in {"fill", "publish", "await", "account"} => lineA = Carried(sentA)
  /\ main \in Over => lineA \in {logical, Append(logical, Flight)}

\* The worker has nothing to do.
Quiet ==
  /\ worker \in {"starting", "polling", "gone"}
  /\ observed = generation /\ completed = generation

\* The worker has not acknowledged what was published last.
Pending == generation = completed + 1

\* While the main thread waits, the worker is at one of these points of its
\* loop.
AwaitInv ==
  \/ Pending /\ worker \notin {"checking", "sending", "acknowledging"}
       /\ observed = completed /\ lineB = logical
  \/ Pending /\ worker \in {"checking", "sending"} /\ observed = generation /\ lineB = logical
  \/ Pending /\ worker = "acknowledging" /\ observed = generation /\ lineB = Carried(sentB)
  \/ Quiet /\ lineB = Carried(sentB)

\* The hand-off: the worker acts on a packet only while the main thread waits
\* for it, so the buffer and the pointer do not change under it.
HandInv ==
  /\ main \in Between \cup {"sendA", "fill", "publish"} => Quiet /\ lineB = logical
  /\ main \in {"publish", "await"} => ptr = Place
  /\ main = "await" => AwaitInv
  /\ main = "account" => Quiet /\ lineB = Carried(sentB)
  /\ main \in {"report", "stopping", "waking"} => Quiet
  /\ main \in {"joining", "done"} => worker \notin {"sending", "acknowledging"}
  /\ main \in Over => lineB \in {logical, Append(logical, Flight)}

SenderInv ==
  /\ SenderType /\ LineAInv
  /\ stop => main \in {"waking", "joining", "done"}
  /\ main \in {"waking", "joining"} => stop
  /\ redundant /\ main = "done" => stop
  /\ redundant => HandInv

\* Either line has carried what is accounted for, or the packet in flight too.
LEMMA LineEnds ==
  ASSUME SenderInv
  PROVE  /\ lineA \in {logical, Append(logical, Flight)}
         /\ redundant => lineB \in {logical, Append(logical, Flight)}
         /\ logical \in Seq(Packet) /\ Flight \in Packet
<1>1. logical \in Seq(Packet) /\ Flight \in Packet
  BY DEF SenderInv, SenderType, Flight, At
<1>2. lineA \in {logical, Append(logical, Flight)}
  BY DEF SenderInv, SenderType, LineAInv, Carried
<1>3. redundant => lineB \in {logical, Append(logical, Flight)}
  BY DEF SenderInv, SenderType, HandInv, AwaitInv, Carried
<1> QED
  BY <1>1, <1>2, <1>3

\* A step of the main thread between two packets: it may fill the buffer or
\* the control packet, for the worker is not looking at them.
LEMMA BetweenPreserves ==
  ASSUME SenderInv, main \in Between,
         main' \in Between \cup {"sendA", "report", "stopping"},
         UNCHANGED <<redundant, logical, handVars, workerVars, wireVars, lineBVars, sentA>>,
         buffer' \in Packet, control' \in Packet, taken' \in Nat
  PROVE  SenderInv'
<1>1. UNCHANGED <<redundant, logical, ptr, generation, stop, worker, observed, lineA,
                  sentB, completed, lineB, sentA>>
  BY DEF handVars, workerVars, wireVars, lineBVars
<1>2. SenderType'
  BY <1>1 DEF SenderInv, SenderType, Over
<1>3. lineA = logical /\ ~stop
  BY DEF SenderInv, SenderType, LineAInv, Between
<1>4. LineAInv'
  BY <1>1, <1>3 DEF LineAInv, Between, Over
<1>5. ASSUME redundant
      PROVE  HandInv'
  <2>1. Quiet /\ lineB = logical
    BY <1>5 DEF SenderInv, HandInv
  <2>2. Quiet' /\ lineB' = logical'
    BY <1>1, <2>1 DEF Quiet
  <2> QED
    BY <2>2 DEF HandInv, Between, Over
<1>6. ~stop' /\ main' \notin {"waking", "joining", "done"}
  BY <1>1, <1>3 DEF Between
<1> QED
  BY <1>1, <1>2, <1>4, <1>5, <1>6 DEF SenderInv

\* The steps that send a packet.
LEMMA SendPreserves ==
  ASSUME SenderInv,
         (\E ok \in BOOLEAN : SendA(ok)) \/ FillHandoff \/ Publish \/ Await \/ Account
  PROVE  SenderInv'
<1>1. /\ SenderType /\ LineAInv /\ (redundant => HandInv)
      /\ UNCHANGED <<redundant, buffer, control, taken, then, stop>> /\ ~stop
      /\ Flight' = Flight /\ Place' = Place
  BY Zenon DEF SenderInv, SendA, FillHandoff, Publish, Await, Goto, Account, MainOnly, handVars,
         Flight, At, Place
<1>2. CASE \E ok \in BOOLEAN : SendA(ok)
  <2>1. PICK ok \in BOOLEAN : SendA(ok)
    BY <1>2
  <2>2. /\ main = "sendA" /\ sentA' = ok /\ lineA' = IF ok THEN Append(lineA, Flight) ELSE lineA
        /\ main' = IF redundant THEN "fill" ELSE "account"
        /\ UNCHANGED <<ptr, generation, worker, observed, sentB, completed, lineB, logical>>
    BY <2>1 DEF SendA, handVars, workerVars, lineBVars, Flight
  <2>3. SenderType'
    BY <1>1, <2>2 DEF SenderType
  <2>4. LineAInv'
    BY <1>1, <2>2 DEF LineAInv, Carried, Between, Over
  <2>5. redundant => HandInv'
    BY <1>1, <2>2 DEF HandInv, Quiet, Between, Over
  <2> QED
    BY <1>1, <2>2, <2>3, <2>4, <2>5 DEF SenderInv
<1>3. CASE FillHandoff
  <2>1. /\ main = "fill" /\ main' = "publish" /\ ptr' = Place /\ sentB' = FALSE
        /\ UNCHANGED <<generation, worker, observed, completed, lineB, logical, lineA, sentA>>
    BY <1>3 DEF FillHandoff, workerVars, wireVars
  <2>2. SenderType'
    BY <1>1, <2>1, Zenon DEF SenderType
  <2>3. LineAInv'
    BY <1>1, <2>1 DEF LineAInv, Carried, Between, Over
  <2>4. redundant => HandInv'
    BY <1>1, <2>1 DEF HandInv, Quiet, Between, Over
  <2> QED
    BY <1>1, <2>1, <2>2, <2>3, <2>4 DEF SenderInv
<1>4. CASE Publish
  <2>1. /\ main = "publish" /\ main' = "await" /\ generation' = generation + 1
        /\ UNCHANGED <<ptr, worker, observed, completed, lineB, logical, lineA, sentA, sentB>>
    BY <1>4 DEF Publish, workerVars, wireVars, lineBVars
  <2>2. SenderType'
    BY <1>1, <2>1 DEF SenderType
  <2>3. LineAInv'
    BY <1>1, <2>1 DEF LineAInv, Carried, Between, Over
  <2>4. ASSUME redundant
        PROVE  HandInv'
    <3>1. AwaitInv'
      BY <1>1, <2>1, <2>4 DEF HandInv, AwaitInv, Pending, Quiet
    <3> QED
      BY <1>1, <2>1, <2>4, <3>1 DEF HandInv, Between, Over
  <2> QED
    BY <1>1, <2>1, <2>2, <2>3, <2>4 DEF SenderInv
<1>5. CASE Await
  <2>1. /\ main = "await" /\ main' = "account" /\ completed = generation
        /\ UNCHANGED <<ptr, generation, worker, observed, completed, lineB, logical, lineA,
                       sentA, sentB>>
    BY <1>5 DEF Await, Goto, MainOnly, handVars, workerVars, wireVars, lineBVars
  <2>2. SenderType'
    BY <1>1, <2>1, Zenon DEF SenderType
  <2>3. LineAInv'
    BY <1>1, <2>1 DEF LineAInv, Carried, Between, Over
  <2>4. ASSUME redundant
        PROVE  HandInv'
    <3>1. Quiet /\ lineB = Carried(sentB)
      <4>1. completed \in Nat
        BY <1>1, Zenon DEF SenderType
      <4>2. ~Pending
        BY <2>1, <4>1 DEF Pending
      <4> QED
        BY <1>1, <2>1, <2>4, <4>2, Zenon DEF HandInv, AwaitInv
    <3>2. Quiet' /\ lineB' = Carried(sentB)'
      BY <1>1, <2>1, <3>1 DEF Quiet, Carried
    <3> QED
      BY <2>1, <3>2 DEF HandInv, Between, Over
  <2> QED
    BY <1>1, <2>1, <2>2, <2>3, <2>4, Zenon DEF SenderInv
<1>6. CASE Account
  <2>1. /\ main = "account" /\ main' = IF Sent THEN Resume ELSE "report"
        /\ logical' = IF Sent THEN Append(logical, Flight) ELSE logical
        /\ UNCHANGED <<ptr, generation, worker, observed, completed, lineB, lineA, sentA, sentB>>
    BY <1>6, Zenon DEF Account, MainOnly, handVars, workerVars, wireVars, lineBVars, Flight
  <2>2. Resume \in {"startup", "fetched", "ends", "sent"}
    BY DEF Resume
  <2>3. Flight \in Packet
    BY LineEnds
  <2>4. SenderType'
    <3>1. main' \in Between \cup Over
      BY <2>1, <2>2, Zenon DEF Between, Over
    <3>2. logical' \in Seq(Packet)
      BY <1>1, <2>1, <2>3 DEF SenderType
    <3> QED
      BY <1>1, <2>1, <3>1, <3>2, Zenon DEF SenderType
  <2>5. /\ lineA = Carried(sentA)
        /\ redundant => Quiet /\ lineB = Carried(sentB)
    BY <1>1, <2>1 DEF LineAInv, HandInv
  <2>6. /\ Sent => lineA' = logical' /\ main' \in {"startup", "fetched", "ends", "sent"}
        /\ ~Sent => lineA' \in {logical', Append(logical', Flight')} /\ main' = "report"
    BY <1>1, <2>1, <2>2, <2>5 DEF Sent, Carried
  <2>7. LineAInv'
    BY <2>6 DEF LineAInv, Between, Over
  <2>8. ASSUME redundant
        PROVE  HandInv'
    <3>1. Quiet'
      BY <2>1, <2>5, <2>8 DEF Quiet
    <3>2. /\ Sent => lineB' = logical'
          /\ ~Sent => lineB' \in {logical', Append(logical', Flight')}
      BY <1>1, <2>1, <2>5, <2>8 DEF Sent, Carried
    <3> QED
      BY <2>6, <3>1, <3>2 DEF HandInv, Between, Over
  <2>9. main' \notin {"waking", "joining", "done"}
    BY <2>6
  <2> QED
    BY <1>1, <2>4, <2>7, <2>8, <2>9, Zenon DEF SenderInv
<1> QED
  BY <1>2, <1>3, <1>4, <1>5, <1>6

\* The exit status, stopAndJoin and its wait.
LEMMA StopPreserves ==
  ASSUME SenderInv, Report \/ RaiseStop \/ WakeWorker \/ Join
  PROVE  SenderInv'
<1>1. /\ SenderType /\ LineAInv /\ (redundant => HandInv)
      /\ UNCHANGED <<redundant, buffer, control, taken, then, logical, sentA, sentB, ptr,
                     worker, observed, completed, lineA, lineB>>
      /\ Flight' = Flight
      /\ main \in {"report", "stopping", "waking", "joining"}
      /\ main' \in {"stopping", "waking", "joining", "done"}
  BY Zenon DEF SenderInv, Report, RaiseStop, WakeWorker, Join, Goto, MainOnly, handVars, workerVars,
         wireVars, lineBVars, Flight, At, Place
<1>2. /\ main' \in {"stopping", "waking"} => generation' = generation /\ main \in {"report", "stopping"}
      /\ generation' \in {generation, generation + 1}
      /\ stop' \in BOOLEAN
      /\ stop' => main' \in {"waking", "joining", "done"}
      /\ main' \in {"waking", "joining"} => stop'
      /\ redundant /\ main' = "done" => stop'
  <2>1. stop \in BOOLEAN /\ (stop => main \in {"waking", "joining", "done"})
        /\ (main \in {"waking", "joining"} => stop)
    BY DEF SenderInv, SenderType
  <2>2. CASE Report
    BY <2>1, <2>2 DEF Report, MainOnly, handVars
  <2>3. CASE RaiseStop
    BY <2>1, <2>3 DEF RaiseStop
  <2>4. CASE WakeWorker
    BY <2>1, <2>4 DEF WakeWorker
  <2>5. CASE Join
    BY <2>1, <2>5 DEF Join, Goto, MainOnly, handVars
  <2> QED
    BY <2>2, <2>3, <2>4, <2>5
<1>3. SenderType'
  BY <1>1, <1>2 DEF SenderType, Over
<1>4. LineAInv'
  BY <1>1 DEF LineAInv, Between, Over
<1>5. ASSUME redundant
      PROVE  HandInv'
  <2>1. lineB' \in {logical', Append(logical', Flight')}
    BY <1>1, <1>5 DEF HandInv, Over
  <2>2. main' \in {"stopping", "waking"} => Quiet'
    BY <1>1, <1>2, <1>5 DEF HandInv, Quiet
  <2>3. worker' \notin {"sending", "acknowledging"}
    BY <1>1, <1>5 DEF HandInv, Quiet
  <2> QED
    BY <1>1, <2>1, <2>2, <2>3 DEF HandInv, Between, Over
<1> QED
  BY <1>1, <1>2, <1>3, <1>4, <1>5 DEF SenderInv

\* The worker's steps: it sends only while the main thread waits for it, the
\* bytes the main thread pointed it to.
LEMMA WorkerPreserves ==
  ASSUME SenderInv, WorkerStep
  PROVE  SenderInv'
<1>1. /\ SenderType /\ LineAInv /\ (redundant => HandInv)
      /\ UNCHANGED <<redundant, main, buffer, control, taken, then, logical, sentA, ptr,
                     generation, stop, lineA>>
      /\ Flight' = Flight /\ Place' = Place
  BY Zenon DEF SenderInv, WorkerStep, WorkerStarts, Observe, CheckStop, SendB, Acknowledge, WorkerOnly,
         mainVars, handVars, wireVars, Flight, At, Place
<1>2. SenderType'
  BY <1>1, Zenon DEF SenderType, WorkerStep, WorkerStarts, Observe, CheckStop, SendB, Acknowledge,
              lineBVars
<1>3. LineAInv'
  BY <1>1 DEF LineAInv, Carried
<1>4. ASSUME redundant
      PROVE  HandInv'
  <2>1. CASE WorkerStarts
    <3>1. /\ worker = "starting" /\ worker' \in {"polling", "gone"}
          /\ UNCHANGED <<observed, sentB, completed, lineB>>
      BY <2>1 DEF WorkerStarts, lineBVars
    <3>2. Quiet => Quiet'
      BY <1>1, <3>1 DEF Quiet
    <3>3. Carried(sentB)' = Carried(sentB)
      BY <1>1, <3>1, Zenon DEF Carried
    <3>4. AwaitInv => AwaitInv'
      BY <1>1, <3>1, <3>2, <3>3, Zenon DEF AwaitInv, Pending
    <3> QED
      BY <1>1, <1>4, <3>1, <3>2, <3>3, <3>4 DEF HandInv
  <2>2. CASE Observe
    <3>1. /\ worker = "polling" /\ generation # observed /\ observed' = generation
          /\ worker' = "checking" /\ UNCHANGED <<sentB, completed, lineB>>
      BY <2>2 DEF Observe, lineBVars
    <3>2. ~Quiet /\ main \in {"await", "joining", "done"}
      BY <1>1, <1>4, <3>1, Zenon DEF HandInv, Quiet, SenderType, Over
    <3>3. AwaitInv => AwaitInv'
      BY <1>1, <3>1, <3>2, Zenon DEF AwaitInv, Pending
    <3> QED
      BY <1>1, <1>4, <3>1, <3>2, <3>3 DEF HandInv, Between, Over
  <2>3. CASE CheckStop
    <3>1. /\ worker = "checking" /\ worker' = IF stop THEN "gone" ELSE "sending"
          /\ UNCHANGED <<observed, sentB, completed, lineB>>
      BY <2>3, Zenon DEF CheckStop, lineBVars
    <3>2. ~Quiet /\ main \in {"await", "joining", "done"}
      BY <1>1, <1>4, <3>1, Zenon DEF HandInv, Quiet, SenderType, Over
    <3>3. main = "await" => ~stop
      BY DEF SenderInv
    <3>4. main \in {"joining", "done"} => stop
      BY <1>4, Zenon DEF SenderInv
    <3>5. main = "await" => AwaitInv'
      BY <1>1, <1>4, <3>1, <3>2, <3>3, Zenon DEF HandInv, AwaitInv, Pending
    <3> QED
      BY <1>1, <1>4, <3>1, <3>2, <3>4, <3>5, Zenon DEF HandInv, Between, Over
  <2>4. CASE \E ok \in BOOLEAN : SendB(ok)
    <3>1. PICK ok \in BOOLEAN : SendB(ok)
      BY <2>4
    <3>2. /\ worker = "sending" /\ sentB' = ok /\ worker' = "acknowledging"
          /\ lineB' = IF ok THEN Append(lineB, At(ptr)) ELSE lineB
          /\ UNCHANGED <<observed, completed>>
      BY <3>1, Zenon DEF SendB
    <3>3. main = "await" /\ At(ptr) = Flight
      BY <1>1, <1>4, <3>2, Zenon DEF HandInv, Quiet, SenderType, Over, Flight
    <3>4. AwaitInv'
      BY <1>1, <1>4, <3>2, <3>3, Zenon DEF HandInv, AwaitInv, Pending, Quiet, Carried
    <3>5. main' = "await" /\ ptr' = Place'
      BY <1>1, <1>4, <3>3, Zenon DEF HandInv
    <3> QED
      BY <3>4, <3>5 DEF HandInv, Between, Over
  <2>5. CASE Acknowledge
    <3>1. /\ worker = "acknowledging" /\ completed' = observed /\ worker' = "polling"
          /\ UNCHANGED <<observed, sentB, lineB>>
      BY <2>5, Zenon DEF Acknowledge
    <3>2. main = "await"
      BY <1>1, <1>4, <3>1, Zenon DEF HandInv, Quiet, SenderType, Over
    <3>3. AwaitInv'
      BY <1>1, <1>4, <3>1, <3>2, Zenon DEF HandInv, AwaitInv, Pending, Quiet, Carried
    <3>4. main' = "await" /\ ptr' = Place'
      BY <1>1, <1>4, <3>2, Zenon DEF HandInv
    <3> QED
      BY <3>3, <3>4 DEF HandInv, Between, Over
  <2> QED
    BY <2>1, <2>2, <2>3, <2>4, <2>5, Zenon DEF WorkerStep
<1> QED
  BY <1>1, <1>2, <1>3, <1>4 DEF SenderInv

\* Every step of the main thread is one of those above.
LEMMA MainPreserves ==
  ASSUME SenderInv, MainStep
  PROVE  SenderInv'
<1>1. /\ buffer \in Packet /\ control \in Packet /\ taken \in Nat
      /\ Messages \in Nat /\ MaxPerPacket \in Nat
  BY SenderAssumption DEF SenderInv, SenderType
<1>2. Heartbeat(NextSequence) \in Packet /\ EndOfSession(NextSequence) \in Packet
      /\ Heartbeat(buffer.first) \in Packet
  BY <1>1 DEF Heartbeat, EndOfSession, NextSequence, Packet
<1>3. CASE Started \/ StartupDone \/ FetchError \/ LoopEnds \/ WaitBeforeStopped
           \/ SendData \/ WaitAfterDone \/ Finish \/ EndsDone
  <2>1. /\ main \in Between /\ main' \in Between \cup {"sendA", "report", "stopping"}
        /\ UNCHANGED <<logical, sentA, buffer, control, taken>> /\ MainOnly
    BY <1>3, Zenon DEF Started, StartupDone, FetchError, LoopEnds, WaitBeforeStopped, SendData,
                WaitAfterDone, Finish, EndsDone, Goto, Between
  <2> QED
    BY <1>1, <2>1, BetweenPreserves DEF MainOnly
<1>4. CASE StartupHeartbeat \/ WaitBefore \/ WaitAfter \/ EndCopy
  <2>1. /\ main \in Between /\ main' = "sendA" /\ control' \in Packet
        /\ UNCHANGED <<logical, sentA, buffer, taken>> /\ MainOnly
    BY <1>2, <1>4, Zenon DEF StartupHeartbeat, WaitBefore, WaitAfter, EndCopy, SendControl, Between
  <2> QED
    BY <1>1, <2>1, BetweenPreserves, Zenon DEF MainOnly
<1>5. CASE \E n \in 1 .. MaxPerPacket : Fetch(n)
  <2>1. PICK n \in 1 .. MaxPerPacket : Fetch(n)
    BY <1>5
  <2>2. /\ main = "loop" /\ main' = "fetched" /\ taken' = taken + n
        /\ buffer' = Data(NextSequence, n) /\ UNCHANGED <<logical, sentA, control>> /\ MainOnly
    BY <2>1, Zenon DEF Fetch
  <2>3. taken' \in Nat /\ buffer' \in Packet
    BY <1>1, <2>2 DEF Data, NextSequence, Packet
  <2>4. main \in Between /\ main' \in Between
    BY <2>2 DEF Between
  <2> QED
    BY <1>1, <2>2, <2>3, <2>4, BetweenPreserves DEF MainOnly
<1> QED
  BY <1>3, <1>4, <1>5, SendPreserves, StopPreserves, Zenon DEF MainStep

\* The inductive invariant of the two threads.
THEOREM SenderInvariance == Spec => []SenderInv
<1>1. Init => SenderInv
  <2> SUFFICES ASSUME Init
               PROVE  SenderInv
    OBVIOUS
  <2>1. SenderType
    <3>1. Data(0, 0) \in Packet /\ Heartbeat(0) \in Packet /\ << >> \in Seq(Packet)
      BY DEF Data, Heartbeat, Packet
    <3>2. {redundant, sentA, sentB, stop} \subseteq BOOLEAN
      BY Zenon DEF Init
    <3>3. worker \in {"starting", "gone"} /\ main \in Between
      BY DEF Init, Between
    <3>4. {generation, completed, observed} \subseteq Nat /\ taken \in Nat
      BY DEF Init
    <3> QED
      BY <3>1, <3>2, <3>3, <3>4 DEF Init, SenderType
  <2>2. LineAInv
    BY DEF Init, LineAInv, Between, Over
  <2>3. HandInv
    BY DEF Init, HandInv, Quiet, Between, Over
  <2> QED
    BY <2>1, <2>2, <2>3 DEF Init, SenderInv
<1>2. SenderInv /\ [Next]_vars => SenderInv'
  <2> SUFFICES ASSUME SenderInv, [Next]_vars
               PROVE  SenderInv'
    OBVIOUS
  <2>1. CASE Interrupt \/ UNCHANGED vars
    <3>1. UNCHANGED <<redundant, mainVars, handVars, workerVars, wireVars, lineBVars>>
      BY <2>1, Zenon DEF Interrupt, vars
    <3>2. UNCHANGED <<redundant, main, then, taken, buffer, control, sentA, logical, ptr,
                      generation, stop, worker, observed, lineA, sentB, completed, lineB>>
      BY <3>1 DEF mainVars, handVars, workerVars, wireVars, lineBVars
    <3>3. Flight' = Flight /\ Place' = Place /\ Carried(sentA)' = Carried(sentA)
          /\ Carried(sentB)' = Carried(sentB)
      BY <3>2, Zenon DEF Flight, At, Place, Carried
    <3>4. (Quiet' <=> Quiet) /\ (AwaitInv' <=> AwaitInv)
      BY <3>2, <3>3, Zenon DEF Quiet, AwaitInv, Pending
    <3>5. SenderType' /\ LineAInv'
      BY <3>2, <3>3, Zenon DEF SenderInv, SenderType, LineAInv
    <3>6. redundant => HandInv'
      BY <3>2, <3>3, <3>4, Zenon DEF SenderInv, HandInv
    <3> QED
      BY <3>2, <3>5, <3>6, Zenon DEF SenderInv
  <2> QED
    BY <2>1, MainPreserves, WorkerPreserves DEF Next
<1> QED
  BY <1>1, <1>2, PTL DEF Spec

\* Line B carries what line A carries, packet for packet, whenever a signal
\* comes, whatever a line fails to take and whenever the threads run.
THEOREM LinesAlwaysAgree == Spec => []LinesAgree
<1>1. SenderInv => LinesAgree
  <2> SUFFICES ASSUME SenderInv
               PROVE  LinesAgree
    OBVIOUS
  <2> DEFINE longer == Append(logical, Flight)
  <2>1. /\ lineA \in {logical, longer} /\ (redundant => lineB \in {logical, longer})
        /\ logical \in Seq(Packet) /\ Flight \in Packet
    BY LineEnds
  <2>2. /\ Len(longer) = Len(logical) + 1 /\ Len(logical) \in Nat
        /\ SubSeq(longer, 1, Len(logical)) = logical
        /\ SubSeq(logical, 1, Len(logical)) = logical
    BY <2>1
  <2> HIDE DEF longer
  <2>3. ASSUME NEW line \in {logical, longer}
        PROVE  Len(line) - Len(logical) \in {0, 1} /\ SubSeq(line, 1, Len(logical)) = logical
    BY <2>2
  <2>4. redundant /\ Len(lineA) = Len(lineB) => lineA = lineB
    BY <2>1, <2>2
  <2> QED
    BY <2>1, <2>3, <2>4 DEF LinesAgree
<1> QED
  BY <1>1, SenderInvariance, PTL
-----------------------------------------------------------------------------
\* The sequence number that follows a line.
NextAfter(line) == IF line = << >> THEN 1 ELSE line[Len(line)].first + line[Len(line)].count

Chained(line) ==
  \A i \in DOMAIN line :
    line[i].first = IF i = 1 THEN 1 ELSE line[i - 1].first + line[i - 1].count

Sending == {"sendA", "fill", "publish", "await", "account"}

\* What is accounted for carries the file up to a message, and an end of
\* session only behind the last one.
LogInv ==
  /\ Chained(logical)
  /\ \A m \in 1 .. NextAfter(logical) - 1 : Carries(logical, m)
  /\ ends = EndsIn(logical)
  /\ ends > 0 => NextAfter(logical) = Messages + 1
  /\ taken <= Messages
  /\ source = "completed" => taken = Messages

\* A packet fetched and not yet accounted for is the next one.
HeldNext ==
  /\ buffer.kind = "data"
  /\ buffer.first = NextAfter(logical)
  /\ buffer.first + buffer.count = taken + 1

\* Where the source stands relative to what is accounted for.
TurnInv ==
  /\ main = "fetched" => HeldNext
  /\ main \in {"starting", "startup", "loop", "sent"} => NextAfter(logical) = taken + 1
  /\ main \in {"finish", "ends"} => NextAfter(logical) = taken + 1 \/ ~running
  /\ main \in Sending =>
       /\ then \in {"startup", "before", "data", "after", "end"}
       /\ IF then \in {"before", "data"} THEN HeldNext ELSE NextAfter(logical) = taken + 1
       /\ then # "data" => /\ control.first = NextAfter(logical) /\ control.count = 0
                           /\ control.kind = IF then = "end" THEN "end" ELSE "heartbeat"
  /\ main = "ends" \/ (main \in Sending /\ then = "end") => source = "completed"

\* What the lines hold beyond what is accounted for when the sending is over.
OverInv ==
  /\ failed => main \in Over
  /\ ~redundant => lineB = << >> /\ worker = "gone"
  /\ main \in Over =>
       /\ lineA = logical \/ (redundant /\ lineB = logical)
       /\ ~failed => lineA = logical /\ (redundant => lineB = logical)
       /\ lineA # logical \/ (redundant /\ lineB # logical) =>
            /\ Flight.first = NextAfter(logical)
            /\ Flight.kind = "end" => NextAfter(logical) = Messages + 1
  /\ exit # "none" => main \in Over \ {"report"}
  /\ exit = "success" => ~failed /\ ends = EosCount

HonestInv == LogInv /\ TurnInv /\ OverInv

\* What one more packet does to a line it continues.
LEMMA OneMore ==
  ASSUME NEW L \in Seq(Packet), NEW p \in Packet, p.first = NextAfter(L), Chained(L)
  PROVE  /\ Chained(Append(L, p))
         /\ NextAfter(Append(L, p)) = p.first + p.count
         /\ \A m \in Nat : Carries(L, m) => Carries(Append(L, p), m)
         /\ \A m \in p.first .. p.first + p.count - 1 : Carries(Append(L, p), m)
         /\ EndsIn(L) \in Nat
         /\ EndsIn(Append(L, p)) = EndsIn(L) + (IF p.kind = "end" THEN 1 ELSE 0)
<1> DEFINE M == Append(L, p)
           n == Len(L)
<1>1. /\ M \in Seq(Packet) /\ Len(M) = n + 1 /\ n \in Nat /\ DOMAIN L = 1 .. n /\ DOMAIN M = 1 .. n + 1
      /\ \A i \in 1 .. n : M[i] = L[i]
      /\ M[n + 1] = p /\ M # << >>
      /\ L = << >> <=> n = 0
  OBVIOUS
<1> HIDE DEF M, n
<1>a. /\ n \in Nat /\ n + 1 \in 1 .. n + 1
      /\ \A i \in 1 .. n : i \in 1 .. n + 1
      /\ n # 0 => n \in 1 .. n
  <2>1. n \in Nat
    BY <1>1, Zenon
  <2> QED
    BY <2>1
<1>2. NextAfter(M) = p.first + p.count
  BY <1>1, Zenon DEF NextAfter
<1>3. NextAfter(L) = IF n = 0 THEN 1 ELSE L[n].first + L[n].count
  BY <1>1, Zenon DEF NextAfter, n
<1>4. Chained(M)
  <2> SUFFICES ASSUME NEW i \in 1 .. n + 1
               PROVE  M[i].first = IF i = 1 THEN 1 ELSE M[i - 1].first + M[i - 1].count
    BY <1>1, Zenon DEF Chained
  <2>1. CASE i \in 1 .. n
    <3>1. L[i].first = IF i = 1 THEN 1 ELSE L[i - 1].first + L[i - 1].count
      BY <1>1, <2>1, Zenon DEF Chained
    <3>2. M[i] = L[i] /\ (i # 1 => M[i - 1] = L[i - 1])
      BY <1>1, <2>1
    <3> QED
      BY <3>1, <3>2, Zenon
  <2>2. CASE i = n + 1
    <3>1. M[i].first = IF n = 0 THEN 1 ELSE L[n].first + L[n].count
      BY <1>1, <1>3, <2>2, Zenon
    <3>2. i - 1 = n /\ (n = 0 <=> i = 1)
      BY <1>a, <2>2
    <3>3. n # 0 => M[n] = L[n]
      BY <1>1, <1>a, Zenon
    <3> QED
      BY <3>1, <3>2, <3>3, Zenon
  <2>3. i \in 1 .. n \/ i = n + 1
    BY <1>a
  <2> QED
    BY <2>1, <2>2, <2>3, Zenon
<1>5. \A m \in Nat : Carries(L, m) => Carries(M, m)
  BY <1>1, <1>a, Zenon DEF Carries
<1>6. \A m \in p.first .. p.first + p.count - 1 : Carries(M, m)
  BY <1>1, <1>a, Zenon DEF Carries
<1> DEFINE E == {i \in 1 .. n : L[i].kind = "end"}
           F == {i \in 1 .. n + 1 : M[i].kind = "end"}
<1>7. F = IF p.kind = "end" THEN E \cup {n + 1} ELSE E
  BY <1>1
<1>8. E \in SUBSET (1 .. n) /\ n + 1 \notin E
  BY <1>1
<1>9. EndsIn(L) = Cardinality(E) /\ EndsIn(M) = Cardinality(F)
  BY <1>1, Zenon DEF EndsIn
<1> HIDE DEF E, F
<1>10. IsFiniteSet(E)
  <2>1. IsFiniteSet(1 .. n)
    BY <1>1, FS_Interval
  <2> QED
    BY <1>8, <2>1, FS_Subset, Zenon
<1>11. Cardinality(E) \in Nat /\ Cardinality(E \cup {n + 1}) = Cardinality(E) + 1
  BY <1>8, <1>10, FS_CardinalityType, FS_AddElement, Zenon
<1>12. EndsIn(M) = EndsIn(L) + (IF p.kind = "end" THEN 1 ELSE 0)
  BY <1>7, <1>9, <1>11
<1> QED
  BY <1>2, <1>4, <1>5, <1>6, <1>9, <1>11, <1>12, Zenon DEF M

LEMMA PositionType ==
  ASSUME SenderInv
  PROVE  NextAfter(logical) \in Nat /\ taken \in Nat /\ Messages \in Nat
<1>1. logical \in Seq(Packet) /\ taken \in Nat
  BY DEF SenderInv, SenderType
<1>2. logical # << >> => logical[Len(logical)] \in Packet
  BY <1>1
<1> QED
  BY <1>1, <1>2, SenderAssumption DEF NextAfter, Packet

LEMMA InitHonest == Init => HonestInv
<1> SUFFICES ASSUME Init
             PROVE  HonestInv
  OBVIOUS
<1>1. NextAfter(logical) = 1 /\ Chained(logical) /\ EndsIn(logical) = 0
  <2>1. logical = << >> /\ DOMAIN logical = {}
    BY DEF Init
  <2>2. {i \in DOMAIN logical : logical[i].kind = "end"} = {}
    BY <2>1, Zenon
  <2> QED
    BY <2>1, <2>2, FS_EmptySet DEF NextAfter, Chained, EndsIn
<1>2. LogInv
  BY <1>1, SenderAssumption DEF Init, LogInv
<1>3. TurnInv
  BY <1>1 DEF Init, TurnInv, Sending
<1>4. OverInv
  BY DEF Init, OverInv, Over
<1> QED
  BY <1>2, <1>3, <1>4, Zenon DEF HonestInv

\* A step of the main thread before the sending is over that accounts for
\* nothing.
LEMMA QuietHonest ==
  ASSUME SenderInv, HonestInv, main \notin Over,
         UNCHANGED <<redundant, logical, ends, failed, exit, worker, lineB>>,
         taken' <= Messages, source' = "completed" => taken' = Messages,
         TurnInv',
         main' \in Over => lineA' = logical /\ (redundant => lineB = logical)
  PROVE  HonestInv'
<1>1. LogInv'
  BY Zenon DEF HonestInv, LogInv, Chained, NextAfter, Carries, EndsIn
<1>2. ~failed /\ exit = "none"
  BY Zenon DEF HonestInv, OverInv
<1>3. OverInv'
  BY <1>2, Zenon DEF HonestInv, OverInv
<1> QED
  BY <1>1, <1>3 DEF HonestInv

LEMMA BetweenHonest ==
  ASSUME SenderInv, HonestInv,
         \/ Started \/ StartupHeartbeat \/ StartupDone
         \/ \E n \in 1 .. MaxPerPacket : Fetch(n)
         \/ FetchError \/ LoopEnds
         \/ WaitBefore \/ WaitBeforeStopped \/ SendData \/ WaitAfter \/ WaitAfterDone
         \/ Finish \/ EndCopy \/ EndsDone
  PROVE  HonestInv'
<1>1. /\ main \in Between /\ UNCHANGED <<redundant, running, logical, ends, failed, exit, worker, lineA, lineB>>
      /\ NextAfter(logical)' = NextAfter(logical)
  BY ZenonT(60) DEF Started, StartupHeartbeat, StartupDone, Fetch, FetchError, LoopEnds, WaitBefore,
         WaitBeforeStopped, SendData, WaitAfter, WaitAfterDone, Finish, EndCopy, EndsDone,
         SendControl, Goto, MainOnly, Between, workerVars, wireVars, lineBVars, NextAfter
<1>2. /\ NextAfter(logical) \in Nat /\ taken \in Nat /\ Messages \in Nat /\ MaxPerPacket \in Nat
      /\ buffer \in Packet
  BY PositionType, SenderAssumption, Zenon DEF SenderInv, SenderType
<1>3. main \notin Over /\ main \notin Sending /\ lineA' = logical /\ (redundant => lineB = logical)
  BY <1>1, Zenon DEF SenderInv, LineAInv, HandInv, Between, Over, Sending
<1>4. /\ main = "fetched" => HeldNext
      /\ main \in {"starting", "startup", "loop", "sent"} => NextAfter(logical) = taken + 1
      /\ main \in {"finish", "ends"} => NextAfter(logical) = taken + 1 \/ ~running
      /\ main = "ends" => source = "completed"
      /\ taken <= Messages
      /\ source = "completed" => taken = Messages
  BY Zenon DEF HonestInv, LogInv, TurnInv
<1>5. HeldNext' <=> /\ buffer'.kind = "data"
                    /\ buffer'.first = NextAfter(logical)
                    /\ buffer'.first + buffer'.count = taken' + 1
  BY <1>1, Zenon DEF HeldNext
<1>6. CASE Started \/ StartupDone \/ WaitAfterDone
  <2>1. /\ main \in {"starting", "startup", "sent"} /\ main' \in {"startup", "loop", "stopping"}
        /\ UNCHANGED <<source, taken>>
    BY <1>6, Zenon DEF Started, StartupDone, WaitAfterDone, Goto
  <2>2. TurnInv'
    BY <1>1, <1>4, <2>1, Zenon DEF TurnInv, Sending
  <2> QED
    BY <1>1, <1>3, <1>4, <2>1, <2>2, QuietHonest, Zenon
<1>7. CASE StartupHeartbeat \/ WaitBefore \/ WaitAfter \/ EndCopy
  <2>1. /\ main' = "sendA" /\ UNCHANGED <<source, taken, buffer>>
        /\ \/ main = "startup" /\ then' = "startup" /\ control' = Heartbeat(taken + 1)
           \/ main = "fetched" /\ then' = "before" /\ control' = Heartbeat(buffer.first)
           \/ main = "sent" /\ then' = "after" /\ control' = Heartbeat(taken + 1)
           \/ main = "ends" /\ then' = "end" /\ control' = EndOfSession(taken + 1) /\ running
    BY <1>7, Zenon DEF StartupHeartbeat, WaitBefore, WaitAfter, EndCopy, SendControl, NextSequence
  <2>2. HeldNext => HeldNext'
    BY <1>5, <2>1, Zenon DEF HeldNext
  <2>3. TurnInv'
    <3>1. /\ control'.first = IF main = "fetched" THEN buffer.first ELSE taken + 1
          /\ control'.count = 0
          /\ control'.kind = IF then' = "end" THEN "end" ELSE "heartbeat"
      BY <2>1 DEF Heartbeat, EndOfSession
    <3>2. control'.first = NextAfter(logical)
      BY <1>4, <2>1, <3>1, Zenon DEF HeldNext
    <3> QED
      BY <1>1, <1>4, <2>1, <2>2, <3>1, <3>2, ZenonT(60) DEF TurnInv, Sending
  <2> QED
    BY <1>1, <1>3, <1>4, <2>1, <2>3, QuietHonest, Zenon
<1>8. CASE \E n \in 1 .. MaxPerPacket : Fetch(n)
  <2>1. PICK n \in 1 .. MaxPerPacket : Fetch(n)
    BY <1>8, Zenon
  <2>2. /\ main = "loop" /\ main' = "fetched" /\ taken + n <= Messages /\ taken' = taken + n
        /\ buffer' = Data(taken + 1, n)
        /\ source' = "completed" => taken' = Messages
    BY <2>1, Zenon DEF Fetch, NextSequence
  <2>3. HeldNext'
    BY <1>2, <1>4, <1>5, <2>2 DEF Data
  <2>4. TurnInv'
    BY <2>2, <2>3, Zenon DEF TurnInv, Sending
  <2> QED
    BY <1>1, <1>3, <2>2, <2>4, QuietHonest, Zenon
<1>9. CASE FetchError \/ LoopEnds \/ WaitBeforeStopped
  <2>1. /\ main \in {"loop", "fetched"} /\ main' = "finish" /\ taken' = taken
        /\ source' = source \/ source' = "error"
        /\ main = "fetched" => ~running
    BY <1>9, Zenon DEF FetchError, LoopEnds, WaitBeforeStopped, Goto
  <2>2. TurnInv'
    BY <1>1, <1>4, <2>1, Zenon DEF TurnInv, Sending
  <2> QED
    BY <1>1, <1>3, <1>4, <2>1, <2>2, QuietHonest, Zenon
<1>10. CASE SendData
  <2>1. main = "fetched" /\ main' = "sendA" /\ then' = "data" /\ UNCHANGED <<source, taken, buffer>>
    BY <1>10, Zenon DEF SendData
  <2>2. HeldNext'
    BY <1>4, <1>5, <2>1, Zenon DEF HeldNext
  <2>3. TurnInv'
    BY <2>1, <2>2, Zenon DEF TurnInv, Sending
  <2> QED
    BY <1>1, <1>3, <1>4, <2>1, <2>3, QuietHonest, Zenon
<1>11. CASE Finish \/ EndsDone
  <2>1. /\ main \in {"finish", "ends"} /\ main' \in {"ends", "report"} /\ UNCHANGED <<source, taken>>
        /\ main' = "ends" => source = "completed"
    BY <1>11, Zenon DEF Finish, EndsDone, Goto
  <2>2. TurnInv'
    BY <1>1, <1>4, <2>1, Zenon DEF TurnInv, Sending
  <2> QED
    BY <1>1, <1>3, <1>4, <2>1, <2>2, QuietHonest, Zenon
<1> QED
  BY <1>6, <1>7, <1>8, <1>9, <1>10, <1>11, Zenon

\* The steps of send() before it returns.
LEMMA SendHonest ==
  ASSUME SenderInv, HonestInv, (\E ok \in BOOLEAN : SendA(ok)) \/ FillHandoff \/ Publish \/ Await
  PROVE  HonestInv'
<1>1. /\ main \in Sending /\ main' \in Sending
      /\ UNCHANGED <<redundant, running, then, source, taken, buffer, control, logical, ends, failed, exit, worker, lineB>>
  BY Zenon DEF SendA, FillHandoff, Publish, Await, Goto, MainOnly, Sending, workerVars, lineBVars
<1>2. main \notin Over /\ main' \notin Over
      /\ main' \notin {"fetched", "starting", "startup", "loop", "sent", "finish", "ends"}
  BY <1>1 DEF Sending, Over
<1>3. TurnInv'
  BY <1>1, <1>2, Zenon DEF HonestInv, TurnInv, HeldNext, NextAfter
<1> QED
  BY <1>1, <1>2, <1>3, QuietHonest, ZenonT(60) DEF HonestInv, LogInv

\* send() returns, and the packet is accounted for or the replay is over.
LEMMA AccountHonest ==
  ASSUME SenderInv, HonestInv, Account
  PROVE  HonestInv'
<1>1. /\ main = "account" /\ failed' = ~Sent
      /\ main' = IF Sent THEN Resume ELSE "report"
      /\ logical' = IF Sent THEN Append(logical, Flight) ELSE logical
      /\ ends' = IF Sent /\ then = "end" THEN ends + 1 ELSE ends
      /\ UNCHANGED <<redundant, running, then, source, taken, buffer, control, exit, worker, lineA, lineB>>
      /\ Flight' = Flight
  BY Zenon DEF Account, MainOnly, workerVars, wireVars, lineBVars, Flight, At, Place
<1>2. /\ logical \in Seq(Packet) /\ Flight \in Packet /\ buffer \in Packet /\ NextAfter(logical) \in Nat
      /\ taken \in Nat /\ Messages \in Nat
  BY LineEnds, PositionType, Zenon DEF SenderInv, SenderType
<1>3. /\ then \in {"startup", "before", "data", "after", "end"}
      /\ IF then \in {"before", "data"} THEN HeldNext ELSE NextAfter(logical) = taken + 1
      /\ then # "data" => /\ control.first = NextAfter(logical) /\ control.count = 0
                          /\ control.kind = IF then = "end" THEN "end" ELSE "heartbeat"
      /\ then = "end" => source = "completed"
      /\ LogInv /\ ~failed /\ exit = "none"
      /\ ~redundant => lineB = << >> /\ worker = "gone"
  BY <1>1, Zenon DEF HonestInv, TurnInv, OverInv, Sending, Over
<1>4. Flight = IF then = "data" THEN buffer ELSE control
  BY Zenon DEF Flight, At, Place
<1>5. /\ Flight.first = NextAfter(logical)
      /\ Flight.first + Flight.count = IF then = "before" THEN NextAfter(logical) ELSE taken + 1
      /\ Flight.kind = "end" <=> then = "end"
  BY <1>2, <1>3, <1>4 DEF HeldNext
<1>6. lineA = Carried(sentA) /\ (redundant => lineB = Carried(sentB))
  BY <1>1, Zenon DEF SenderInv, LineAInv, HandInv
<1>7. CASE Sent
  <2>1. PICK L \in Seq(Packet), p \in Packet : L = logical /\ p = Flight
    BY <1>2, Zenon
  <2>2. /\ Chained(L) /\ p.first = NextAfter(L) /\ logical' = Append(L, p)
        /\ ends = EndsIn(L) /\ taken <= Messages /\ (source = "completed" => taken = Messages)
        /\ ends > 0 => NextAfter(L) = Messages + 1
        /\ \A m \in 1 .. NextAfter(L) - 1 : Carries(L, m)
    BY <1>1, <1>3, <1>5, <1>7, <2>1, Zenon DEF LogInv
  <2>3. /\ Chained(Append(L, p))
        /\ NextAfter(Append(L, p)) = p.first + p.count
        /\ \A m \in Nat : Carries(L, m) => Carries(Append(L, p), m)
        /\ \A m \in p.first .. p.first + p.count - 1 : Carries(Append(L, p), m)
        /\ EndsIn(L) \in Nat
        /\ EndsIn(Append(L, p)) = EndsIn(L) + (IF p.kind = "end" THEN 1 ELSE 0)
    BY <2>2, OneMore, Zenon
  <2>4. NextAfter(logical)' = IF then = "before" THEN NextAfter(logical) ELSE taken + 1
    BY <1>5, <2>1, <2>2, <2>3, Zenon DEF NextAfter
  <2>5. PICK n \in Nat : n = NextAfter(L)
    BY <1>2, <2>1, Zenon
  <2>6. p.first = n /\ p.count \in Nat /\ p.first + p.count = NextAfter(logical)'
    BY <1>2, <1>5, <2>1, <2>2, <2>4, <2>5, Zenon DEF Packet
  <2>7. \A m \in 1 .. p.first + p.count - 1 : Carries(Append(L, p), m)
    <3> SUFFICES ASSUME NEW m \in 1 .. p.first + p.count - 1
                 PROVE  Carries(Append(L, p), m)
      OBVIOUS
    <3>1. m \in 1 .. n - 1 \/ m \in p.first .. p.first + p.count - 1
      BY <2>6
    <3>2. m \in Nat
      BY <2>6
    <3> QED
      BY <2>2, <2>3, <2>5, <3>1, <3>2, Zenon
  <2>8. ends' = EndsIn(logical)'
    <3>1. EndsIn(logical)' = EndsIn(Append(L, p))
      BY <2>2, Zenon DEF EndsIn
    <3>2. /\ ends' = IF then = "end" THEN EndsIn(L) + 1 ELSE EndsIn(L)
          /\ p.kind = "end" <=> then = "end"
      BY <1>1, <1>5, <1>7, <2>1, <2>2, Zenon
    <3>3. EndsIn(L) \in Nat /\ EndsIn(Append(L, p)) = EndsIn(L) + (IF p.kind = "end" THEN 1 ELSE 0)
      BY <2>3, Zenon
    <3> QED
      BY <3>1, <3>2, <3>3
  <2>9. ends' > 0 => NextAfter(logical)' = Messages + 1
    <3>1. CASE then = "end"
      BY <1>3, <2>2, <2>4, <3>1, Zenon
    <3>2. CASE then # "end"
      <4>1. ends' > 0 => n = Messages + 1
        BY <1>1, <2>2, <2>5, <3>2, Zenon
      <4>2. NextAfter(logical)' = n \/ NextAfter(logical)' = taken + 1
        BY <2>1, <2>4, <2>5, Zenon
      <4>3. taken <= Messages /\ taken \in Nat /\ Messages \in Nat
        BY <1>2, <2>2, Zenon
      <4> QED
        BY <2>6, <4>1, <4>2, <4>3
    <3> QED
      BY <3>1, <3>2, Zenon
  <2>10. LogInv'
    <3>1. Chained(logical)'
      BY <2>2, <2>3, Zenon DEF Chained
    <3>2. \A m \in 1 .. NextAfter(logical)' - 1 : Carries(logical, m)'
      <4>1. logical' = Append(L, p)
        BY <2>2, Zenon
      <4>2. \A m : Carries(logical, m)' <=> Carries(Append(L, p), m)
        BY <4>1, Zenon DEF Carries
      <4> QED
        BY <2>6, <2>7, <4>2
    <3>3. taken' <= Messages /\ (source' = "completed" => taken' = Messages)
      BY <1>1, <2>2, Zenon
    <3> QED
      BY <2>8, <2>9, <3>1, <3>2, <3>3, Zenon DEF LogInv
  <2>11. /\ then = "startup" => main' = "startup"
         /\ then = "before" => main' = "fetched"
         /\ then = "end" => main' = "ends"
         /\ then \in {"data", "after"} => main' = "sent"
    BY <1>1, <1>7, Zenon DEF Resume
  <2>12. TurnInv'
    <3>1. then = "before" => HeldNext'
      BY <1>1, <1>3, <2>4, Zenon DEF HeldNext
    <3> QED
      BY <1>1, <1>3, <2>4, <2>11, <3>1, Zenon DEF TurnInv, Sending
  <2>13. OverInv'
    BY <1>1, <1>3, <1>7, <2>11, Zenon DEF OverInv, Over
  <2> QED
    BY <2>10, <2>12, <2>13 DEF HonestInv
<1>8. CASE ~Sent
  <2>1. main' = "report" /\ logical' = logical /\ ends' = ends /\ failed'
    BY <1>1, <1>8, ZenonT(60)
  <2>2. NextAfter(logical)' = NextAfter(logical)
    BY <2>1, Zenon DEF NextAfter
  <2>3. LogInv'
    BY <1>1, <1>3, <2>1, <2>2, ZenonT(60) DEF LogInv, Chained, Carries, EndsIn
  <2>4. TurnInv'
    BY <2>1, Zenon DEF TurnInv, Sending
  <2>5. lineA = logical \/ (redundant /\ lineB = logical)
    BY <1>6, <1>8, Zenon DEF Sent, Carried
  <2>6. Flight.kind = "end" => NextAfter(logical) = Messages + 1
    BY <1>3, <1>5, Zenon DEF LogInv
  <2>7. OverInv'
    BY <1>1, <1>3, <1>5, <2>1, <2>2, <2>5, <2>6, Zenon DEF OverInv, Over
  <2> QED
    BY <2>3, <2>4, <2>7 DEF HonestInv
<1> QED
  BY <1>7, <1>8, Zenon

\* The exit status, stopAndJoin and its wait: nothing more is sent.
LEMMA StopHonest ==
  ASSUME SenderInv, HonestInv, Report \/ RaiseStop \/ WakeWorker \/ Join
  PROVE  HonestInv'
<1>1. /\ main \in Over /\ main' \in Over \ {"report"}
      /\ UNCHANGED <<redundant, source, taken, buffer, control, then, logical, ends, failed, worker, lineA, lineB>>
      /\ exit' = "success" => exit = "success" \/ (~failed /\ ends = EosCount)
  BY ZenonT(60) DEF Report, RaiseStop, WakeWorker, Join, Goto, MainOnly, Over, Clean, workerVars, wireVars, lineBVars
<1>2. LogInv'
  BY <1>1, Zenon DEF HonestInv, LogInv, Chained, NextAfter, Carries, EndsIn
<1>3. TurnInv'
  BY <1>1, Zenon DEF TurnInv, Over, Sending
<1>4. NextAfter(logical)' = NextAfter(logical) /\ Flight' = Flight
  BY <1>1, ZenonT(60) DEF NextAfter, Flight, At, Place
<1>5. OverInv'
  BY <1>1, <1>4, Zenon DEF HonestInv, OverInv
<1> QED
  BY <1>2, <1>3, <1>5 DEF HonestInv

\* The worker, and a signal.
LEMMA OthersHonest ==
  ASSUME SenderInv, HonestInv, WorkerStep \/ Interrupt \/ UNCHANGED vars
  PROVE  HonestInv'
<1>1. /\ UNCHANGED <<redundant, main, source, taken, buffer, control, then, logical, ends, failed, exit, lineA>>
      /\ running' => running
      /\ worker' = worker \/ worker # "gone"
      /\ lineB' = lineB \/ worker = "sending"
  <2>1. CASE WorkerStep
    <3>1. WorkerOnly
      BY <2>1, Zenon DEF WorkerStep, WorkerStarts, Observe, CheckStop, SendB, Acknowledge
    <3>2. worker # "gone" /\ (lineB' = lineB \/ worker = "sending")
      BY <2>1, Zenon DEF WorkerStep, WorkerStarts, Observe, CheckStop, SendB, Acknowledge, lineBVars
    <3> QED
      BY <3>1, <3>2, Zenon DEF WorkerOnly, mainVars, wireVars
  <2>2. CASE Interrupt
    BY <2>2, Zenon DEF Interrupt, mainVars, workerVars, wireVars, lineBVars
  <2>3. CASE UNCHANGED vars
    <3>1. running' = running
      BY <2>3, Zenon DEF vars
    <3>2. running' => running
      BY <3>1
    <3> QED
      BY <2>3, <3>2, Zenon DEF vars, mainVars, workerVars, wireVars, lineBVars
  <2> QED
    BY <2>1, <2>2, <2>3, Zenon
<1>2. ~redundant => worker' = worker /\ lineB' = lineB
  BY <1>1, Zenon DEF HonestInv, OverInv
<1>3. main \in Over /\ redundant => lineB' = lineB
  BY <1>1, Zenon DEF SenderInv, HandInv, Quiet, Over
<1>4. LogInv'
  BY <1>1, Zenon DEF HonestInv, LogInv, Chained, NextAfter, Carries, EndsIn
<1>5. NextAfter(logical)' = NextAfter(logical) /\ Flight' = Flight /\ (HeldNext' <=> HeldNext)
  BY <1>1, Zenon DEF NextAfter, Flight, At, Place, HeldNext
<1>6. TurnInv'
  BY <1>1, <1>5, Zenon DEF HonestInv, TurnInv
<1>7. OverInv'
  BY <1>1, <1>2, <1>3, <1>5, Zenon DEF HonestInv, OverInv
<1> QED
  BY <1>4, <1>6, <1>7, Zenon DEF HonestInv

\* A line is ahead of what is accounted for only by a packet that continues it,
\* an end of session only behind the whole file.
LEMMA FlightNext ==
  ASSUME SenderInv, HonestInv
  PROVE  \/ lineA = logical /\ (redundant => lineB = logical)
         \/ /\ Flight.first = NextAfter(logical)
            /\ Flight.kind = "end" => NextAfter(logical) = Messages + 1
<1>1. main \in Between => lineA = logical /\ (redundant => lineB = logical)
  BY Zenon DEF SenderInv, LineAInv, HandInv
<1>2. main \in Sending => /\ Flight.first = NextAfter(logical)
                          /\ Flight.kind = "end" => NextAfter(logical) = Messages + 1
  BY Zenon DEF HonestInv, LogInv, TurnInv, HeldNext, Flight, At, Place
<1>3. main \in Between \cup Sending \cup Over
  BY Zenon DEF SenderInv, SenderType, Sending
<1> QED
  BY <1>1, <1>2, <1>3, Zenon DEF HonestInv, OverInv

\* The two invariants of the sender hold together: SenderInv of the two lines,
\* the counters and the packet in hand, HonestInv of the numbers in the logical
\* stream, which needs the first to say what a step sends.
THEOREM HonestInvariance == Spec => [](SenderInv /\ HonestInv)
<1>1. SenderInv /\ HonestInv /\ [Next]_vars => HonestInv'
  <2> SUFFICES ASSUME SenderInv, HonestInv, [Next]_vars
               PROVE  HonestInv'
    BY Zenon
  <2>1. CASE MainStep
    BY <2>1, BetweenHonest, SendHonest, AccountHonest, StopHonest, Zenon DEF MainStep
  <2> QED
    BY <2>1, OthersHonest DEF Next
<1> QED
  BY <1>1, InitHonest, SenderInvariance, PTL DEF Spec

\* Each line numbers the messages of the file without a gap, and a heartbeat
\* sent while a fetched packet waits names that packet's first message.
THEOREM NumbersTruthful == Spec => []ControlTruthful
<1>1. SenderInv /\ HonestInv => ControlTruthful
  <2> SUFFICES ASSUME SenderInv, HonestInv
               PROVE  Chained(lineA) /\ Chained(lineB)
    BY Zenon DEF ControlTruthful, Chained
  <2>1. /\ lineA \in {logical, Append(logical, Flight)}
        /\ redundant => lineB \in {logical, Append(logical, Flight)}
        /\ logical \in Seq(Packet) /\ Flight \in Packet /\ Chained(logical)
    BY LineEnds, Zenon DEF HonestInv, LogInv
  <2>2. ~redundant => Chained(lineB)
    BY DEF HonestInv, OverInv, Chained
  <2>3. Chained(Append(logical, Flight)) \/ (lineA = logical /\ (redundant => lineB = logical))
    BY <2>1, OneMore, FlightNext, Zenon
  <2> QED
    BY <2>1, <2>2, <2>3, ZenonT(60)
<1> QED
  BY <1>1, HonestInvariance, PTL

\* An end of session is on a line only after the whole file is on both, a line
\* is at most one packet ahead after a failure, and a successful exit means
\* that every message and every end-of-session copy went out on every line.
THEOREM EndsHonest == Spec => []EndIsHonest
<1>1. SenderInv /\ HonestInv => EndIsHonest
  <2> SUFFICES ASSUME SenderInv, HonestInv
               PROVE  EndIsHonest
    OBVIOUS
  <2> DEFINE lines == IF redundant THEN {lineA, lineB} ELSE {lineA}
             whole == \A line \in lines, m \in 1 .. Messages : Carries(line, m)
  <2>1. PICK L \in Seq(Packet), p \in Packet : L = logical /\ p = Flight
    BY LineEnds
  <2>2. \A line \in lines : line \in {L, Append(L, p)}
    BY <2>1, LineEnds, Zenon
  <2>3. /\ Chained(L) /\ ends = EndsIn(L)
        /\ ends > 0 => NextAfter(L) = Messages + 1
        /\ \A m \in 1 .. NextAfter(L) - 1 : Carries(L, m)
    BY <2>1, Zenon DEF HonestInv, LogInv
  <2>4. Len(L) \in Nat /\ Len(Append(L, p)) = Len(L) + 1 /\ Messages \in Nat
    BY SenderAssumption
  <2>5. \/ \A line \in lines : line = L
        \/ /\ p.first = NextAfter(L)
           /\ p.kind = "end" => NextAfter(L) = Messages + 1
    BY <2>1, FlightNext, Zenon
  <2>6. NextAfter(L) = Messages + 1 => whole
    <3> SUFFICES ASSUME NextAfter(L) = Messages + 1, NEW line \in lines, NEW m \in 1 .. Messages
                 PROVE  Carries(line, m)
      BY Zenon
    <3>1. Carries(L, m) /\ m \in Nat
      BY <2>3, <2>4
    <3> QED
      BY <2>2, <2>3, <2>5, <3>1, OneMore, Zenon
  <2>7. ASSUME failed
        PROVE  Len(lineA) + Len(lineB) <= (IF redundant THEN 2 ELSE 1) * Len(logical) + 1
    <3>1. /\ lineA = logical \/ (redundant /\ lineB = logical)
          /\ ~redundant => lineB = << >>
      BY <2>7, Zenon DEF HonestInv, OverInv
    <3>2. lineA \in {L, Append(L, p)} /\ (redundant => lineB \in {L, Append(L, p)})
      BY <2>2
    <3>3. Len(<< >>) = 0
      OBVIOUS
    <3>4. CASE redundant
      BY <2>1, <2>4, <3>1, <3>2, <3>4
    <3>5. CASE ~redundant
      BY <2>1, <2>4, <3>1, <3>2, <3>3, <3>5
    <3> QED
      BY <3>4, <3>5, Zenon
  <2>8. ASSUME NEW line \in lines, EndsIn(line) > 0
        PROVE  whole
    <3>1. CASE line = L
      BY <2>3, <2>6, <2>8, <3>1, Zenon
    <3>2. CASE line # L
      <4>1. p.first = NextAfter(L) /\ (p.kind = "end" => NextAfter(L) = Messages + 1) /\ line = Append(L, p)
        BY <2>2, <2>5, <3>2, Zenon
      <4>2. EndsIn(line) = EndsIn(L) + (IF p.kind = "end" THEN 1 ELSE 0) /\ EndsIn(L) \in Nat
        BY <2>3, <4>1, OneMore, Zenon
      <4>3. p.kind = "end" \/ ends > 0
        BY <2>3, <2>8, <4>2
      <4> QED
        BY <2>3, <2>6, <4>1, <4>3, Zenon
    <3> QED
      BY <3>1, <3>2, Zenon
  <2>9. ASSUME exit = "success"
        PROVE  whole /\ \A line \in lines : EndsIn(line) = EosCount
    <3>1. ends = EosCount /\ \A line \in lines : line = L
      BY <2>1, <2>9, Zenon DEF HonestInv, OverInv, Over
    <3>2. ends > 0
      BY <3>1, SenderAssumption
    <3> QED
      BY <2>3, <2>6, <3>1, <3>2, Zenon
  <2> QED
    BY <2>7, <2>8, <2>9, Zenon DEF EndIsHonest
<1> QED
  BY <1>1, HonestInvariance, PTL

-----------------------------------------------------------------------------
\* The schedules.

Ticks == {t \in Nat : t <= MaxTime}

\* In a wait with heartbeats; from the start of the data to its end.
Waiting == {"wait", "beat"}
Live    == {"fetch", "held", "send", "sent", "wait", "beat"}

PacingType ==
  /\ cfg \in Configs
  /\ now \in Ticks /\ scheduled \in Ticks /\ traffic \in Ticks /\ start \in Ticks
  /\ nextHeartbeat \in Ticks \cup {Never} /\ deadline \in Ticks \cup {Never}
  /\ nextPremarket \in Ticks \cup {Never} /\ dataAt \in Ticks \cup {Never}
  /\ beats \in Nat /\ paced \in Nat /\ copies \in Nat /\ stamp \in Nat
  /\ kind \in {"plain", "S", "Q"} /\ next \in {"fetch", "held", "send", "sent"}
  /\ at \in {"startup", "beat_sent", "fetch", "held", "send", "sent", "wait", "beat", "end", "copy",
              "thrown"}
  /\ at \in Waiting => deadline # Never

\* The next heartbeat is an interval after the last packet, or at the end of
\* the clock; until the start-up is over there is none.  The sender is at most
\* one wakeup behind it, and it wakes to send a heartbeat or a copy of the end
\* marker a whole interval after the last packet.
HeartbeatInv ==
  /\ at \in {"startup", "beat_sent"} \/ cfg.heartbeat = 0 => nextHeartbeat = Never
  /\ at \in {"startup", "beat_sent"} => dataAt = Never
  /\ traffic <= now
  /\ nextHeartbeat # Never /\ at \in Live =>
       nextHeartbeat >= traffic + cfg.heartbeat \/ nextHeartbeat = MaxTime
  /\ cfg.heartbeat > 0 /\ at \in Live =>
       nextHeartbeat # Never /\ (dataAt # Never => nextHeartbeat <= traffic + cfg.heartbeat)
  /\ cfg.heartbeat > 0 /\ dataAt # Never /\ (at \in Live \/ (at \in {"end", "copy"} /\ copies = 0)) =>
       now <= traffic + cfg.heartbeat + MaxLate
  /\ at = "beat" => now >= traffic + cfg.heartbeat
  /\ at = "copy" /\ copies > 0 => now >= traffic + cfg.eos

\* Outside the window the sender has waited out the interval of the packet
\* before when it comes to fetch the next.
RateInv ==
  /\ cfg.rate > 0 /\ at \in {"fetch", "send"} /\ ~active /\ dataAt # Never =>
       now >= dataAt + Interval
  /\ cfg.rate > 0 /\ (at = "sent" \/ (at \in Waiting /\ next = "sent")) =>
       (~active \/ kind = "Q" => scheduled >= dataAt + Interval)
  /\ at \in Waiting /\ next = "fetch" => ~active /\ deadline >= dataAt + Interval
  /\ at = "held" \/ (at \in Waiting /\ next \in {"held", "send"}) => active

\* Start-up heartbeats are due at the multiples of their interval.
StartupInv ==
  /\ at = "startup" =>
       /\ Due(beats, cfg.beat, 0, MaxLate)
       /\ cfg.beat > 0 => deadline = beats * cfg.beat
  /\ at = "beat_sent" =>
       /\ cfg.beat > 0 => deadline + cfg.beat = beats * cfg.beat
       /\ cfg.beat >= MaxLate + MaxLate => now + cfg.beat <= beats * cfg.beat + 2 * MaxLate

\* The window opens once, after S.  In a flat one the packets are due at the
\* multiples of the interval from its start, in a timestamp one at their own
\* time, and a packet is held until then.
WindowInv ==
  /\ active \in BOOLEAN /\ sawS \in BOOLEAN
  /\ ~sawS => ~active /\ paced = 0
  /\ kind = "S" => sawS /\ paced = 0
  /\ active => start <= now /\ cfg.mode # "off"
  /\ active /\ at \in {"send", "sent", "held", "wait", "beat"} => kind # "S"
  /\ at \in {"startup", "beat_sent"} \/ (at \in Waiting /\ next = "sent") => ~active
  /\ at = "held" \/ (at \in Waiting /\ next = "held") => cfg.mode = "flat"
  /\ at \in Waiting /\ next = "send" => cfg.mode = "timestamp"

FlatDue == start + paced * FlatInterval

\* Where the interval leaves room for the lateness of a packet and its send, a
\* packet is late by WaitLate at most; a heartbeat that is sent before it adds
\* its own send to the lateness of its wakeup.
FlatInv ==
  active /\ cfg.mode = "flat" =>
    /\ at \in {"fetch", "sent"} =>
         (FlatInterval >= WaitLate + MaxLate => now <= FlatDue + WaitLate + MaxLate)
    /\ at \in {"fetch", "send", "sent"} => nextPremarket = FlatDue + FlatInterval
    /\ at \in {"held", "wait", "beat"} => nextPremarket = FlatDue
    /\ at \in Waiting => deadline = FlatDue
    /\ at = "wait" => (FlatInterval >= WaitLate + MaxLate => now <= FlatDue + WaitLate)
    /\ at = "beat" => (FlatInterval >= WaitLate + MaxLate => now + MaxLate <= FlatDue + WaitLate)
    /\ at \in {"held", "send"} =>
         /\ now >= FlatDue
         /\ FlatInterval >= WaitLate + MaxLate => now <= FlatDue + WaitLate
    /\ at \in {"held", "wait", "beat", "send"} /\ kind = "Q" => paced = cfg.toPace

TimestampInv ==
  active /\ cfg.mode = "timestamp" /\ stamp # 0 =>
    /\ at \in Waiting /\ next = "send" => deadline = start + ScaledDelay(stamp)
    /\ at = "send" => now >= start + ScaledDelay(stamp)

\* Rounded up, a quotient times its divisor is no less than the dividend.
LEMMA RoundedUp ==
  ASSUME NEW a \in Nat, NEW b \in Nat \ {0}
  PROVE  (a + b - 1) \div b \in Nat /\ b * ((a + b - 1) \div b) >= a
OBVIOUS

\* Times a factor, what is no less is no less.
LEMMA Times ==
  ASSUME NEW a \in Int, NEW b \in Int, NEW k \in Nat, a >= b
  PROVE  a * k >= b * k
OBVIOUS

LEMMA OneMoreTime ==
  ASSUME NEW k \in Nat, NEW i \in Nat
  PROVE  k * i \in Nat /\ (k + 1) * i = k * i + i
OBVIOUS

LEMMA ConfigType ==
  ASSUME cfg \in Configs
  PROVE  /\ cfg.rate \in Nat /\ Second \in Nat \ {0} /\ MaxTime \in Nat \ {0} /\ MaxLate \in Nat
         /\ cfg.heartbeat \in Ticks /\ cfg.eos \in Ticks /\ cfg.beat \in Ticks
         /\ cfg.mode \in {"off", "flat", "timestamp"}
         /\ cfg.toPace \in Nat \ {0} /\ cfg.span \in Nat \ {0} /\ cfg.speed \in Nat \ {0}
         /\ cfg.beats \in Nat /\ cfg.pause \in Nat /\ cfg.seconds \in Nat
         /\ Interval \in Nat /\ (cfg.rate > 0 => Interval * cfg.rate >= Second)
         /\ FlatInterval \in Nat
         /\ cfg.mode = "flat" => cfg.toPace * FlatInterval >= cfg.seconds * Second
         /\ \A t \in Nat : ScaledDelay(t) \in Nat /\ cfg.speed * ScaledDelay(t) >= t
<1>1. /\ cfg.rate \in Nat /\ Second \in Nat \ {0} /\ MaxTime \in Nat \ {0} /\ MaxLate \in Nat
      /\ cfg.heartbeat \in Ticks /\ cfg.eos \in Ticks /\ cfg.beat \in Ticks
      /\ cfg.mode \in {"off", "flat", "timestamp"}
      /\ cfg.toPace \in Nat \ {0} /\ cfg.span \in Nat \ {0} /\ cfg.speed \in Nat \ {0}
      /\ cfg.beats \in Nat /\ cfg.pause \in Nat /\ cfg.seconds \in Nat
  BY PacingAssumption DEF Ticks
<1>2. Interval \in Nat /\ (cfg.rate # 0 => cfg.rate * Interval >= Second)
  <2>1. CASE cfg.rate = 0
    BY <2>1 DEF Interval
  <2>2. CASE cfg.rate # 0
    BY <1>1, <2>2, RoundedUp, Zenon DEF Interval
  <2> QED
    BY <2>1, <2>2, Zenon
<1>3. cfg.rate > 0 => Interval * cfg.rate >= Second
  BY <1>1, <1>2
<1>4. /\ FlatInterval \in Nat
      /\ cfg.mode = "flat" => cfg.toPace * FlatInterval >= cfg.seconds * Second
  <2>1. cfg.seconds * Second \in Nat
    BY <1>1
  <2> QED
    BY <1>1, <2>1, RoundedUp, ZenonT(60) DEF FlatInterval
<1>5. \A t \in Nat : ScaledDelay(t) \in Nat /\ cfg.speed * ScaledDelay(t) >= t
  BY <1>1, RoundedUp, Zenon DEF ScaledDelay
<1> QED
  BY <1>1, <1>2, <1>3, <1>4, <1>5, Zenon

\* A deadline is on the clock or does not exist.
LEMMA CheckedType ==
  ASSUME NEW b \in Nat, NEW i \in Nat, MaxTime \in Nat
  PROVE  /\ Checked(b, i) \in Ticks \cup {Never}
         /\ Checked(b, i) # Never => Checked(b, i) = b + i
BY DEF Checked, Ticks, Never

\* A sleeper returns at once, or wakes late by MaxLate at most.
LEMMA SleepType ==
  ASSUME NEW d \in Nat, now \in Ticks, MaxTime \in Nat, MaxLate \in Nat, SleepUntil(d)
  PROVE  /\ now' \in Ticks /\ now' >= d /\ now' >= now
         /\ now >= d => now' = now
         /\ now < d => now' <= d + MaxLate
BY DEF SleepUntil, ClockAfter, Ticks

\* A send takes up to MaxLate.
LEMMA TransmitType ==
  ASSUME now \in Ticks, MaxTime \in Nat, MaxLate \in Nat, TransmitTime
  PROVE  now' \in Ticks /\ now' >= now /\ now' <= now + MaxLate
BY DEF TransmitTime, ClockAfter, Ticks

\* The heartbeat an interval after a packet.
LEMMA ObserveType ==
  ASSUME NEW t \in Ticks, cfg \in Configs, ObserveTraffic(t)
  PROVE  /\ nextHeartbeat' \in Ticks \cup {Never}
         /\ nextHeartbeat' = Never <=> cfg.heartbeat = 0
         /\ nextHeartbeat' # Never => /\ nextHeartbeat' <= t + cfg.heartbeat
                                      /\ \/ nextHeartbeat' = t + cfg.heartbeat
                                         \/ nextHeartbeat' = MaxTime
BY ConfigType DEF ObserveTraffic, Ticks, Never

LEMMA SameConfig ==
  ASSUME PacingNext
  PROVE  /\ cfg' = cfg /\ Interval' = Interval /\ FlatInterval' = FlatInterval
         /\ WaitLate' = WaitLate
<1>1. cfg' = cfg
  BY Zenon DEF PacingNext, startVars, StartupBeat, StartupSleep, StartupOver, FetchTimed, Held, SendTimed, Pause,
         OpenWindow, AfterData, WaitOver, WaitForData, WakeForHeartbeat, SendHeartbeat, EndSleep, SendEnd,
         EndThrown
<1> QED
  BY <1>1, Zenon DEF Interval, FlatInterval, WaitLate

\* Outside the window, and after its last packet, the next packet is due an
\* interval after this one at the earliest.
LEMMA RateAfterType ==
  ASSUME PacingType, NEW t \in Ticks
  PROVE  /\ RateAfter(t) \in Ticks \cup {Never}
         /\ cfg.rate > 0 /\ (~active \/ kind = "Q") /\ RateAfter(t) # Never => RateAfter(t) >= t + Interval
<1>1. scheduled \in Nat /\ t \in Nat /\ Interval \in Nat /\ MaxTime \in Nat /\ scheduled \in Ticks
  BY ConfigType, Zenon DEF PacingType, Ticks
<1>2. ASSUME NEW b \in Nat
      PROVE  /\ AfterPacket(b, t) \in Ticks \cup {Never}
             /\ AfterPacket(b, t) # Never => AfterPacket(b, t) >= t + Interval
  BY <1>1, CheckedType DEF AfterPacket
<1>3. cfg.rate > 0 => cfg.rate # 0
  OBVIOUS
<1> QED
  BY <1>1, <1>2, <1>3, Zenon DEF RateAfter

LEMMA TypeNext ==
  ASSUME PacingType, PacingNext
  PROVE  PacingType'
<1> USE DEF startVars, packetVars, windowVars, rateVars, sentVars
<1>0. 0 \in Ticks /\ Never \notin Ticks /\ Ticks \subseteq Nat /\ MaxTime \in Nat
  BY PacingAssumption DEF Ticks, Never
<1>1. /\ cfg' = cfg /\ now \in Nat /\ now \in Ticks /\ MaxTime \in Nat /\ MaxLate \in Nat
      /\ 0 \in Ticks /\ Never \notin Ticks /\ Ticks \subseteq Nat
      /\ FlatInterval \in Nat /\ cfg.heartbeat \in Nat
      /\ cfg.eos \in Nat /\ cfg.beat \in Nat /\ cfg.pause \in Nat /\ cfg.span \in Nat
      /\ \A t \in Nat : ScaledDelay(t) \in Nat
  BY <1>0, SameConfig, ConfigType, ZenonT(60) DEF PacingType
<1>2. CASE StartupBeat
  <2>1. now' \in Ticks
    BY <1>1, <1>2, TransmitType, Zenon DEF StartupBeat
  <2>2. beats \in Nat /\ beats' = beats + 1
    BY <1>2, Zenon DEF StartupBeat, PacingType
  <2>3. beats' \in Nat
    BY <2>2
  <2> QED
    BY <1>1, <1>2, <2>1, <2>3, ZenonT(60) DEF StartupBeat, PacingType, Waiting
<1>3. CASE StartupSleep
  <2>1. CASE StartupDeadline = Never
    BY <1>1, <1>3, <2>1, Zenon DEF StartupSleep, PacingType, Waiting
  <2>2. CASE StartupDeadline # Never
    <3>1. StartupDeadline \in Ticks
      <4>1. CASE cfg.beat = 0
        BY <1>1, <4>1, Zenon DEF StartupDeadline
      <4>2. CASE cfg.beat # 0 /\ deadline \in Ticks
        BY <1>1, <2>2, <4>2, CheckedType, Zenon DEF StartupDeadline
      <4>3. CASE cfg.beat # 0 /\ deadline = Never
        BY <1>1, <2>2, <4>3 DEF StartupDeadline, Checked, Never, Ticks
      <4> QED
        BY <4>1, <4>2, <4>3, Zenon DEF PacingType
    <3>2. now' \in Ticks
      BY <1>1, <1>3, <2>2, <3>1, SleepType, Zenon DEF StartupSleep
    <3> QED
      BY <1>1, <1>3, <2>2, <3>1, <3>2, Zenon DEF StartupSleep, PacingType, Waiting
  <2> QED
    BY <2>1, <2>2, Zenon
<1>4. CASE StartupOver
  <2>1. nextHeartbeat' \in Ticks \cup {Never}
    BY <1>1, <1>4, ObserveType, Zenon DEF StartupOver, PacingType, Waiting
  <2> QED
    BY <1>1, <1>4, <2>1, Zenon DEF StartupOver, PacingType, Waiting
<1>5. CASE FetchTimed
  <2>1. kind' \in {"plain", "S", "Q"} /\ stamp' \in Nat /\ paced' \in Nat
    <3>1. kind' \in {"plain", "S", "Q"}
      BY <1>5, Zenon DEF FetchTimed, Kinds
    <3>2. stamp' \in {0, cfg.span} \cup 0 .. cfg.span /\ cfg.span \in Nat
      BY <1>1, <1>5, Zenon DEF FetchTimed
    <3>3. paced \in Nat /\ paced' \in {paced, paced + 1}
      BY <1>5, Zenon DEF FetchTimed, PacingType
    <3> QED
      BY <3>1, <3>2, <3>3
  <2>2. CASE at' = "send" /\ UNCHANGED <<deadline, next>>
    BY <1>1, <1>5, <2>1, <2>2, Zenon DEF FetchTimed, PacingType, Waiting
  <2>3. CASE WaitFor(nextPremarket, "held")
    BY <1>1, <1>5, <2>1, <2>3, ZenonT(60) DEF FetchTimed, PacingType, WaitFor, Waiting
  <2>4. CASE WaitFor(Checked(start, ScaledDelay(stamp')), "send")
    <3>1. Checked(start, ScaledDelay(stamp')) \in Ticks \cup {Never}
      BY <1>1, <2>1, CheckedType, Zenon DEF PacingType
    <3> QED
      BY <1>1, <1>5, <2>1, <2>4, <3>1, ZenonT(60) DEF FetchTimed, PacingType, WaitFor, Waiting
  <2> QED
    BY <1>5, <2>2, <2>3, <2>4, Zenon DEF FetchTimed
<1>6. CASE Held
  <2>1. nextPremarket' \in Ticks \cup {Never}
    <3>1. PICK i \in Nat : i = FlatInterval
      BY <1>1, Zenon
    <3>2. Checked(Never, i) \in Ticks \cup {Never}
      BY <1>0 DEF Checked, Never, Ticks
    <3>3. \A t \in Nat : Checked(t, i) \in Ticks \cup {Never}
      BY <1>0, CheckedType, Zenon
    <3> QED
      BY <1>0, <1>6, <3>1, <3>2, <3>3, Zenon DEF Held, PacingType, Waiting
  <2> QED
    BY <1>1, <1>6, <2>1, ZenonT(60) DEF Held, PacingType, Waiting
<1>7. CASE SendTimed
  <2>1. now' \in Ticks
    BY <1>1, <1>7, TransmitType, Zenon DEF SendTimed
  <2>2. nextHeartbeat' \in Ticks \cup {Never}
    BY <1>7, <2>1, ObserveType, Zenon DEF SendTimed, PacingType, Waiting
  <2>3. RateAfter(now') \in Ticks \cup {Never}
    BY <2>1, RateAfterType
  <2> QED
    BY <1>1, <1>7, <2>1, <2>2, <2>3, ZenonT(60) DEF SendTimed, PacingType, Waiting
<1>8. CASE Pause
  <2>1. Checked(now, cfg.pause) \in Ticks \cup {Never}
    BY <1>1, CheckedType, Zenon
  <2> QED
    BY <1>1, <1>8, <2>1, ZenonT(60) DEF Pause, WaitFor, PacingType, Waiting
<1>9. CASE OpenWindow
  <2>1. Checked(now, FlatInterval) \in Ticks \cup {Never}
    BY <1>1, CheckedType, Zenon
  <2> QED
    BY <1>1, <1>9, <2>1, ZenonT(60) DEF OpenWindow, PacingType, Waiting
<1>10. CASE AfterData
  BY <1>1, <1>10, ZenonT(60) DEF AfterData, WaitFor, PacingType, Waiting
<1>11. CASE WaitOver
  BY <1>1, <1>11, ZenonT(60) DEF WaitOver, PacingType, Waiting
<1>12. CASE WaitForData
  <2>1. now' \in Ticks
    BY <1>1, <1>12, SleepType, Zenon DEF WaitForData, PacingType, Waiting
  <2> QED
    BY <1>1, <1>12, <2>1, Zenon DEF WaitForData, PacingType, Waiting
<1>13. CASE WakeForHeartbeat
  <2>1. now' \in Ticks
    BY <1>1, <1>13, SleepType, Zenon DEF WakeForHeartbeat, HeartbeatBefore, PacingType
  <2> QED
    BY <1>1, <1>13, <2>1, ZenonT(60) DEF WakeForHeartbeat, PacingType, Waiting
<1>14. CASE SendHeartbeat
  <2>1. now' \in Ticks
    BY <1>1, <1>14, TransmitType, Zenon DEF SendHeartbeat
  <2>2. nextHeartbeat' \in Ticks \cup {Never}
    BY <1>14, <2>1, ObserveType, Zenon DEF SendHeartbeat, PacingType
  <2> QED
    BY <1>1, <1>14, <2>1, <2>2, ZenonT(60) DEF SendHeartbeat, PacingType, Waiting
<1>15. CASE EndSleep
  <2>1. EosDeadline \in Ticks
    BY <1>1, <1>15, CheckedType, Zenon DEF EndSleep, EosDeadline, PacingType
  <2>2. now' \in Ticks
    BY <1>1, <1>15, <2>1, SleepType, Zenon DEF EndSleep
  <2> QED
    BY <1>1, <1>15, <2>1, <2>2, ZenonT(60) DEF EndSleep, PacingType, Waiting
<1>16. CASE SendEnd
  <2>1. now' \in Ticks
    BY <1>1, <1>16, TransmitType, Zenon DEF SendEnd
  <2>2. copies \in Nat /\ copies' = copies + 1
    BY <1>16, Zenon DEF SendEnd, PacingType
  <2>3. copies' \in Nat
    BY <2>2
  <2> QED
    BY <1>1, <1>16, <2>1, <2>3, ZenonT(60) DEF SendEnd, PacingType, Waiting
<1>17. CASE EndThrown
  BY <1>1, <1>17, Zenon DEF EndThrown, PacingType, Waiting
<1> QED
  BY <1>2, <1>3, <1>4, <1>5, <1>6, <1>7, <1>8, <1>9, <1>10, <1>11, <1>12, <1>13, <1>14, <1>15, <1>16, <1>17,
     Zenon DEF PacingNext

\* Time does not go back.
LEMMA Forward ==
  ASSUME PacingType, PacingNext
  PROVE  now' \in Nat /\ now \in Nat /\ now' >= now
<1>1. now' \in Nat /\ now \in Nat
  BY TypeNext, Zenon DEF PacingType, Ticks
<1>2. CASE now' = now
  BY <1>1, <1>2
<1>3. ASSUME NEW d \in Int, SleepUntil(d)
      PROVE  now' >= now
  <2>1. CASE now >= d
    BY <1>1, <1>3, <2>1 DEF SleepUntil
  <2>2. CASE ~(now >= d)
    BY <1>1, <1>3, <2>2, PacingAssumption DEF SleepUntil, ClockAfter
  <2> QED
    BY <2>1, <2>2, Zenon
<1>a. TransmitTime => now' >= now
  BY <1>1, PacingAssumption DEF TransmitTime, ClockAfter
<1>4. now \in Int /\ deadline \in Int /\ nextHeartbeat \in Int /\ EosDeadline \in Int /\ StartupDeadline \in Int
  <2>1. Ticks \subseteq Int /\ Never \in Int /\ MaxTime \in Int
    BY PacingAssumption DEF Ticks, Never
  <2>2. \A a, b \in Int : Checked(a, b) \in Int
    BY <2>1 DEF Checked
  <2> QED
    BY <2>1, <2>2, ConfigType, ZenonT(60) DEF PacingType, EosDeadline, StartupDeadline
<1> QED
  BY <1>1, <1>2, <1>3, <1>a, <1>4, ZenonT(60)
     DEF PacingNext, StartupBeat, StartupSleep, StartupOver, FetchTimed, Held, SendTimed, Pause, OpenWindow,
         AfterData, WaitOver, WaitForData, WakeForHeartbeat, SendHeartbeat, EndSleep, SendEnd, EndThrown

LEMMA HeartbeatNext ==
  ASSUME PacingType, HeartbeatInv, PacingNext
  PROVE  HeartbeatInv'
<1> USE DEF startVars, packetVars, windowVars, rateVars, sentVars
<1>1. /\ cfg' = cfg /\ cfg.eos \in Nat /\ now \in Nat /\ traffic \in Nat /\ now \in Ticks /\ MaxTime \in Nat /\ MaxLate \in Nat
      /\ Ticks \subseteq Nat /\ cfg.heartbeat \in Nat /\ dataAt \in Ticks \cup {Never}
      /\ nextHeartbeat \in Ticks \cup {Never} /\ deadline \in Ticks \cup {Never}
      /\ Never \notin Ticks /\ \A t \in Ticks : t <= MaxTime
  <2>1. Ticks \subseteq Nat /\ Never \notin Ticks /\ \A t \in Ticks : t <= MaxTime
    BY DEF Ticks, Never
  <2> QED
    BY <2>1, SameConfig, ConfigType, Zenon DEF PacingType
<1>2. CASE UNCHANGED <<now, traffic, nextHeartbeat, dataAt>> /\ at' = "thrown"
  BY <1>1, <1>2, ZenonT(60) DEF HeartbeatInv, Live
<1>3. CASE /\ UNCHANGED <<now, traffic, nextHeartbeat, dataAt, copies>>
           /\ at \in {"fetch", "held", "send", "sent", "wait"}
           /\ at' \in {"fetch", "held", "send", "sent", "wait", "end"}
  BY <1>1, <1>3, ZenonT(60) DEF HeartbeatInv, Live
<1>4. CASE StartupBeat \/ StartupSleep
  <2>1. now' >= now /\ now' \in Nat
    <3>1. CASE StartupBeat
      BY <1>1, <3>1, TransmitType, ZenonT(60) DEF StartupBeat
    <3>2. CASE StartupSleep /\ now' = now
      BY <1>1, <3>2
    <3>3. CASE StartupSleep /\ SleepUntil(StartupDeadline) /\ at' = "startup"
      BY <3>3, Forward, Zenon
    <3> QED
      BY <1>4, <3>1, <3>2, <3>3, ZenonT(60) DEF StartupSleep
  <2>2. /\ at \in {"startup", "beat_sent"} /\ at' \in {"startup", "beat_sent", "thrown"}
        /\ UNCHANGED <<nextHeartbeat, dataAt>> /\ traffic' \in {traffic, now'}
    BY <1>4, Zenon DEF StartupBeat, StartupSleep
  <2>3. traffic' <= now'
    BY <1>1, <2>1, <2>2 DEF HeartbeatInv
  <2> QED
    BY <1>1, <2>2, <2>3, ZenonT(60) DEF HeartbeatInv, Live
<1>5. CASE StartupOver
  <2>1. /\ nextHeartbeat' \in Ticks \cup {Never}
        /\ nextHeartbeat' = Never <=> cfg.heartbeat = 0
        /\ nextHeartbeat' # Never => \/ nextHeartbeat' = now + cfg.heartbeat
                                     \/ nextHeartbeat' = MaxTime
    BY <1>1, <1>5, ObserveType, Zenon DEF StartupOver, PacingType
  <2>2. dataAt = Never /\ UNCHANGED <<now, traffic, dataAt>> /\ at' = "fetch" /\ traffic <= now
    BY <1>5, Zenon DEF StartupOver, HeartbeatInv
  <2>3. nextHeartbeat' # Never =>
          nextHeartbeat' >= traffic + cfg.heartbeat \/ nextHeartbeat' = MaxTime
    BY <1>1, <2>1, <2>2
  <2>4. cfg.heartbeat > 0 => cfg.heartbeat # 0
    OBVIOUS
  <2> QED
    BY <1>1, <2>1, <2>2, <2>3, <2>4, ZenonT(60) DEF HeartbeatInv, Live
<1>6. CASE SendTimed \/ SendHeartbeat
  <2>1. now' \in Ticks /\ now' \in Nat /\ traffic' = now' /\ at' \in {"sent", "wait", "thrown"} /\ ObserveTraffic(now')
    BY <1>1, <1>6, TypeNext, ZenonT(60) DEF SendTimed, SendHeartbeat, PacingType
  <2>2. /\ nextHeartbeat' \in Ticks \cup {Never}
        /\ nextHeartbeat' = Never <=> cfg.heartbeat = 0
        /\ nextHeartbeat' # Never => /\ nextHeartbeat' <= now' + cfg.heartbeat
                                     /\ \/ nextHeartbeat' = now' + cfg.heartbeat
                                        \/ nextHeartbeat' = MaxTime
    BY <2>1, ObserveType, Zenon DEF PacingType
  <2>3. /\ nextHeartbeat' # Never =>
             nextHeartbeat' >= now' + cfg.heartbeat \/ nextHeartbeat' = MaxTime
        /\ now' <= now' + cfg.heartbeat + MaxLate /\ now' <= now'
        /\ cfg.heartbeat > 0 => cfg.heartbeat # 0
    BY <1>1, <2>1, <2>2
  <2> QED
    BY <1>1, <2>1, <2>2, <2>3, ZenonT(60) DEF HeartbeatInv, Live
<1>7. CASE WaitForData
  <2>1. /\ at = "wait" /\ at' = next /\ next \in {"fetch", "held", "send", "sent"}
        /\ deadline \in Ticks /\ deadline \in Nat /\ now < deadline /\ ~HeartbeatBefore(deadline) /\ SleepUntil(deadline)
        /\ UNCHANGED <<traffic, nextHeartbeat, dataAt>>
    BY <1>1, <1>7, Zenon DEF WaitForData, PacingType, Waiting
  <2>2. now' \in Nat /\ now' >= now /\ now' <= deadline + MaxLate
    BY <1>1, <2>1, SleepType, ZenonT(60)
  <2>3. nextHeartbeat # Never => deadline <= nextHeartbeat
    BY <1>1, <2>1 DEF HeartbeatBefore
  <2>4. traffic' <= now'
    BY <1>1, <2>1, <2>2 DEF HeartbeatInv
  <2>5. ASSUME cfg.heartbeat > 0, dataAt # Never
        PROVE  now' <= traffic + cfg.heartbeat + MaxLate
    <3>1. nextHeartbeat # Never /\ nextHeartbeat <= traffic + cfg.heartbeat
      BY <2>1, <2>5, Zenon DEF HeartbeatInv, Live
    <3> QED
      BY <1>1, <2>1, <2>2, <2>3, <3>1
  <2> QED
    BY <1>1, <2>1, <2>4, <2>5, ZenonT(60) DEF HeartbeatInv, Live
<1>8. CASE WakeForHeartbeat
  <2>1. /\ at = "wait" /\ at' = "beat" /\ nextHeartbeat # Never /\ nextHeartbeat < deadline
        /\ deadline \in Ticks /\ SleepUntil(nextHeartbeat)
        /\ UNCHANGED <<traffic, nextHeartbeat, dataAt>>
    BY <1>1, <1>8, Zenon DEF WakeForHeartbeat, HeartbeatBefore, PacingType, Waiting
  <2>2. /\ now' \in Nat /\ now' >= now /\ now' >= nextHeartbeat /\ nextHeartbeat \in Nat
        /\ now >= nextHeartbeat => now' = now
        /\ now < nextHeartbeat => now' <= nextHeartbeat + MaxLate
    BY <1>1, <2>1, SleepType, ZenonT(60)
  <2>3. now' >= traffic + cfg.heartbeat /\ traffic' <= now'
    <3>1. nextHeartbeat >= traffic + cfg.heartbeat \/ nextHeartbeat = MaxTime
      BY <2>1, Zenon DEF HeartbeatInv, Live
    <3>2. deadline \in Nat /\ deadline <= MaxTime
      BY <1>1, <2>1, Zenon
    <3>3. traffic <= now
      BY Zenon DEF HeartbeatInv
    <3> QED
      BY <1>1, <2>1, <2>2, <3>1, <3>2, <3>3
  <2>4. ASSUME cfg.heartbeat > 0, dataAt # Never
        PROVE  now' <= traffic + cfg.heartbeat + MaxLate
    <3>1. nextHeartbeat <= traffic + cfg.heartbeat /\ now <= traffic + cfg.heartbeat + MaxLate
      BY <2>1, <2>4, Zenon DEF HeartbeatInv, Live
    <3> QED
      BY <1>1, <2>2, <3>1
  <2> QED
    BY <1>1, <2>1, <2>3, <2>4, ZenonT(60) DEF HeartbeatInv, Live
<1>9. CASE EndSleep
  <2>1. at = "end" /\ at' = "copy" /\ UNCHANGED <<traffic, nextHeartbeat, dataAt, copies>>
    BY <1>9, Zenon DEF EndSleep
  <2>2. traffic' <= now'
    <3>1. traffic <= now /\ now' >= now /\ now' \in Nat
      BY Forward, Zenon DEF HeartbeatInv
    <3> QED
      BY <1>1, <2>1, <3>1
  <2>3. copies = 0 => now' = now
    <3>1. now >= now
      BY <1>1
    <3> QED
      BY <1>9, <3>1, Zenon DEF EndSleep, EosDeadline, SleepUntil
  <2>4. copies > 0 => now' >= traffic + cfg.eos
    <3>1. copies > 0 => copies # 0
      OBVIOUS
    <3>2. copies # 0 => EosDeadline = traffic + cfg.eos /\ EosDeadline \in Nat
      BY <1>1, <1>9, CheckedType, Zenon DEF EndSleep, EosDeadline
    <3> QED
      BY <1>1, <1>9, <3>1, <3>2, SleepType, Zenon DEF EndSleep
  <2> QED
    BY <1>1, <2>1, <2>2, <2>3, <2>4, ZenonT(60) DEF HeartbeatInv, Live
<1>10. CASE SendEnd
  <2>1. /\ now' \in Ticks /\ now' \in Nat /\ traffic' = now' /\ at' = "end"
        /\ UNCHANGED nextHeartbeat /\ copies \in Nat /\ copies' = copies + 1
    BY <1>1, <1>10, TypeNext, ZenonT(60) DEF SendEnd, PacingType
  <2>2. now' <= now' /\ copies' # 0
    BY <2>1
  <2> QED
    BY <1>1, <2>1, <2>2, ZenonT(60) DEF HeartbeatInv, Live
<1>11. CASE FetchTimed \/ Held \/ Pause \/ OpenWindow \/ AfterData \/ WaitOver \/ EndThrown
  BY <1>2, <1>3, <1>11, ZenonT(60) DEF FetchTimed, Held, Pause, OpenWindow, AfterData, WaitOver, EndThrown, WaitFor, PacingType
<1> QED
  BY <1>4, <1>5, <1>6, <1>7, <1>8, <1>9, <1>10, <1>11, Zenon DEF PacingNext

LEMMA RateNext ==
  ASSUME PacingType, HeartbeatInv, RateInv, PacingNext
  PROVE  RateInv'
<1> USE DEF startVars, packetVars, windowVars, rateVars, sentVars
<1>1. /\ cfg' = cfg /\ Interval' = Interval /\ Interval \in Nat /\ now \in Ticks /\ scheduled \in Ticks
      /\ MaxTime \in Nat /\ MaxLate \in Nat /\ Ticks \subseteq Nat
      /\ dataAt \in Ticks \cup {Never} /\ Never \in Int
  <2>1. Ticks \subseteq Nat /\ Never \in Int
    BY DEF Ticks, Never
  <2> QED
    BY <2>1, SameConfig, ConfigType, Zenon DEF PacingType
<1>2. CASE StartupBeat \/ StartupSleep \/ StartupOver
  <2>1. at' \in {"startup", "beat_sent", "thrown", "fetch"} /\ dataAt' = Never
    BY <1>2, ZenonT(60) DEF StartupBeat, StartupSleep, StartupOver, HeartbeatInv
  <2> QED
    BY <1>1, <2>1, Zenon DEF RateInv, Waiting
<1>3. CASE FetchTimed
  <2>1. /\ UNCHANGED <<active, now, dataAt>> /\ at = "fetch"
        /\ at' \in {"send", "thrown"} \/ (at' = "wait" /\ next' \in {"held", "send"} /\ active)
    BY <1>3, Zenon DEF FetchTimed, WaitFor
  <2> QED
    BY <1>1, <2>1, Zenon DEF RateInv, Waiting
<1>4. CASE Held
  BY <1>1, <1>4, ZenonT(60) DEF Held, RateInv, Waiting
<1>5. CASE SendTimed
  <2>1. now' \in Ticks
    BY <1>5, TypeNext, Zenon DEF PacingType
  <2>2. cfg.rate > 0 /\ (~active \/ kind = "Q") /\ RateAfter(now') # Never => RateAfter(now') >= now' + Interval
    BY <2>1, RateAfterType
  <2> QED
    BY <1>1, <1>5, <2>1, <2>2, ZenonT(60) DEF SendTimed, RateInv, Waiting
<1>6. CASE Pause
  BY <1>1, <1>6, ZenonT(60) DEF Pause, WaitFor, RateInv, Waiting
<1>7. CASE OpenWindow
  BY <1>1, <1>7, Zenon DEF OpenWindow, RateInv, Waiting
<1>8. CASE AfterData
  <2>1. at = "sent" /\ active' = (active /\ kind # "Q") /\ UNCHANGED <<now, dataAt, scheduled>>
    BY <1>8, Zenon DEF AfterData
  <2>2. \/ at' = "fetch" /\ (active' \/ cfg.rate = 0)
        \/ at' \in {"thrown", "end"}
        \/ at' = "wait" /\ next' = "fetch" /\ deadline' = scheduled /\ ~active' /\ cfg.rate > 0
    BY <1>8, ZenonT(60) DEF AfterData, WaitFor
  <2>3. CASE at' = "fetch" /\ (active' \/ cfg.rate = 0)
    <3>1. ~(0 > 0)
      OBVIOUS
    <3> QED
      BY <1>1, <2>3, <3>1, ZenonT(60) DEF RateInv, Waiting
  <2>4. CASE at' \in {"thrown", "end"}
    BY <2>4, Zenon DEF RateInv, Waiting
  <2>5. CASE at' = "wait" /\ next' = "fetch" /\ deadline' = scheduled /\ ~active' /\ cfg.rate > 0
    <3>1. scheduled >= dataAt + Interval
      BY <2>1, <2>5, ZenonT(60) DEF RateInv
    <3> QED
      BY <1>1, <2>1, <2>5, <3>1, Zenon DEF RateInv, Waiting
  <2> QED
    BY <2>2, <2>3, <2>4, <2>5, Zenon
<1>9. CASE WaitOver \/ WaitForData
  <2>1. /\ at = "wait" /\ at' = next /\ next \in {"fetch", "held", "send", "sent"}
        /\ deadline \in Ticks /\ UNCHANGED <<next, active, kind, scheduled, dataAt, deadline>>
    BY <1>9, Zenon DEF WaitOver, WaitForData, PacingType, Waiting
  <2>2. now' >= deadline /\ now' \in Ticks
    BY <1>1, <1>9, <2>1, SleepType, ZenonT(60) DEF WaitOver, WaitForData
  <2> QED
    BY <1>1, <2>1, <2>2 DEF RateInv, Waiting
<1>10. CASE WakeForHeartbeat
  BY <1>1, <1>10, ZenonT(60) DEF WakeForHeartbeat, RateInv, Waiting
<1>11. CASE SendHeartbeat
  BY <1>1, <1>11, ZenonT(60) DEF SendHeartbeat, RateInv, Waiting
<1>12. CASE EndSleep \/ SendEnd \/ EndThrown
  BY <1>1, <1>12, ZenonT(60) DEF EndSleep, SendEnd, EndThrown, RateInv, Waiting
<1> QED
  BY <1>2, <1>3, <1>4, <1>5, <1>6, <1>7, <1>8, <1>9, <1>10, <1>11, <1>12, Zenon DEF PacingNext

LEMMA StartupNext ==
  ASSUME PacingType, StartupInv, PacingNext
  PROVE  StartupInv'
<1> USE DEF startVars, packetVars, windowVars, rateVars, sentVars
<1> DEFINE i == cfg.beat
           k == beats * i
<1>1. /\ cfg'.beat = i /\ i \in Nat /\ beats \in Nat /\ now \in Nat /\ now \in Ticks
      /\ MaxTime \in Nat /\ MaxLate \in Nat /\ Ticks \subseteq Nat
      /\ deadline \in Ticks \cup {Never} /\ Never \in Int
  <2>1. Ticks \subseteq Nat /\ Never \in Int
    BY DEF Ticks, Never
  <2> QED
    BY <2>1, SameConfig, ConfigType, Zenon DEF PacingType
<1>2. k \in Nat /\ (beats + 1) * i = k + i /\ (i = 0 => k = 0)
  <2>1. i = 0 => beats * i = 0
    BY <1>1
  <2>2. beats * i \in Nat /\ (beats + 1) * i = beats * i + i
    <3> HIDE DEF i
    <3> QED
      BY <1>1, OneMoreTime, Zenon
  <2> QED
    BY <2>1, <2>2, Zenon
<1>3. CASE StartupBeat
  <2>1. now' \in Nat /\ now' <= now + MaxLate
    BY <1>1, <1>3, TransmitType, Zenon DEF StartupBeat
  <2>2. beats' * cfg'.beat = k + i
    BY <1>1, <1>2, <1>3, Zenon DEF StartupBeat
  <2>3. /\ at = "startup" /\ at' = "beat_sent" /\ deadline' = deadline
        /\ i >= MaxLate + MaxLate => now <= k + MaxLate
        /\ i > 0 => deadline = k
    <3>1. at = "startup" /\ at' = "beat_sent" /\ deadline' = deadline
      BY <1>3, Zenon DEF StartupBeat
    <3>2. /\ i >= MaxLate + MaxLate => now <= 0 + k + MaxLate
          /\ i > 0 => deadline = k
      BY <3>1, Zenon DEF StartupInv, Due
    <3>3. 0 + k = k
      <4> HIDE DEF k
      <4> QED
        BY <1>2
    <3> QED
      BY <3>1, <3>2, <3>3, Zenon
  <2>4. /\ i > 0 => deadline' + i = k + i
        /\ i >= MaxLate + MaxLate => now' + i <= k + i + 2 * MaxLate
    <3> HIDE DEF k, i
    <3>1. k \in Nat /\ i \in Nat /\ now \in Nat /\ MaxLate \in Nat
      BY <1>1, <1>2, Zenon
    <3>2. i > 0 => deadline' + i = k + i
      BY <2>3, Zenon
    <3>3. i >= MaxLate + MaxLate => now <= k + MaxLate
      BY <2>3, Zenon
    <3>4. i >= MaxLate + MaxLate => now' + i <= k + i + 2 * MaxLate
      <4>1. ASSUME NEW a \in Nat, NEW b \in Nat, NEW j \in Nat, NEW n \in Nat, NEW m \in Nat,
                   b <= a + m, j >= m + m => a <= n + m
            PROVE  j >= m + m => b + j <= n + j + 2 * m
        BY <4>1
      <4> QED
        BY <2>1, <3>1, <3>3, <4>1, Zenon
    <3> QED
      BY <3>2, <3>4, Zenon
  <2> QED
    BY <1>1, <2>2, <2>3, <2>4, Zenon DEF StartupInv
<1>4. CASE StartupSleep
  <2>1. /\ at = "beat_sent" /\ UNCHANGED beats
        /\ i > 0 => deadline + i = k
        /\ i >= MaxLate + MaxLate => now + i <= k + 2 * MaxLate
    BY <1>1, <1>2, <1>4, Zenon DEF StartupSleep, StartupInv
  <2>2. beats' * cfg'.beat = k
    BY <1>1, <2>1, Zenon
  <2>3. CASE StartupDeadline = Never
    BY <1>4, <2>3, Zenon DEF StartupSleep, StartupInv
  <2>4. CASE StartupDeadline # Never /\ i = 0
    <3>1. at' = "startup" /\ now' = now
      BY <1>4, <2>4, Zenon DEF StartupSleep
    <3>2. now >= 0 + k /\ (i >= MaxLate + MaxLate => now <= 0 + k + MaxLate) /\ ~(i > 0)
      <4> HIDE DEF k, i
      <4> QED
        BY <1>1, <1>2, <2>1, <2>4
    <3> QED
      BY <1>1, <2>2, <3>1, <3>2, Zenon DEF StartupInv, Due
  <2>5. CASE StartupDeadline # Never /\ i > 0
    <3>1. StartupDeadline = k /\ deadline + i = k
      <4>1. StartupDeadline = deadline + i
        BY <1>1, <2>5 DEF StartupDeadline, Checked
      <4> QED
        BY <2>1, <2>5, <4>1, Zenon
    <3>2. at' = "startup" /\ deadline' = k /\ SleepUntil(k)
      BY <1>1, <1>4, <2>5, <3>1 DEF StartupSleep
    <3>3. now' \in Nat /\ now' >= k /\ (now >= k => now' = now)
          /\ (now < k => now' <= k + MaxLate)
      BY <1>1, <1>2, <3>2, SleepType, ZenonT(60)
    <3>4. now' >= 0 + k /\ (i >= MaxLate + MaxLate => now' <= 0 + k + MaxLate)
      <4> HIDE DEF k, i
      <4> QED
        BY <1>1, <1>2, <2>1, <3>3
    <3> QED
      BY <1>1, <2>2, <3>2, <3>4, Zenon DEF StartupInv, Due
  <2> QED
    BY <1>1, <2>3, <2>4, <2>5
<1>5. CASE at' \notin {"startup", "beat_sent"}
  BY <1>5, Zenon DEF StartupInv
<1> QED
  BY <1>3, <1>4, <1>5, ZenonT(60)
     DEF PacingNext, StartupOver, FetchTimed, Held, SendTimed, Pause, OpenWindow, AfterData, WaitOver,
         WaitForData, WakeForHeartbeat, SendHeartbeat, EndSleep, SendEnd, EndThrown, WaitFor, PacingType

LEMMA WindowNext ==
  ASSUME PacingType, RateInv, WindowInv, PacingNext
  PROVE  WindowInv'
<1> USE DEF startVars, packetVars, windowVars, rateVars, sentVars
<1>1. /\ cfg'.mode = cfg.mode /\ cfg.mode \in {"off", "flat", "timestamp"}
      /\ now' \in Nat /\ now \in Nat /\ now' >= now /\ start \in Nat
  BY SameConfig, ConfigType, Forward, ZenonT(60) DEF PacingType, Ticks
<1>a. start <= now => start <= now'
  BY <1>1
<1>2. CASE StartupBeat \/ StartupSleep \/ StartupOver \/ EndSleep \/ SendEnd \/ EndThrown
  <2>1. /\ UNCHANGED <<packetVars, windowVars>>
        /\ \/ at' \in {"fetch", "end", "copy", "thrown"}
           \/ at \in {"startup", "beat_sent"} /\ at' \in {"startup", "beat_sent"}
    BY <1>2, ZenonT(60) DEF StartupBeat, StartupSleep, StartupOver, EndSleep, SendEnd, EndThrown
  <2> QED
    BY <1>1, <1>a, <2>1, Zenon DEF WindowInv, Waiting
<1>3. CASE FetchTimed
  <2>1. /\ UNCHANGED <<active, start>> /\ kind' \in Kinds /\ sawS' = (sawS \/ kind' = "S")
        /\ paced' = IF active /\ cfg.mode = "flat" THEN paced + 1 ELSE paced
        /\ \/ at' \in {"send", "thrown"}
           \/ at' = "wait" /\ next' = "held" /\ cfg.mode = "flat"
           \/ at' = "wait" /\ next' = "send" /\ active /\ cfg.mode # "flat"
    BY <1>3, Zenon DEF FetchTimed, WaitFor
  <2>2. /\ active => sawS /\ kind' # "S"
        /\ kind' = "S" => ~sawS /\ ~active
    BY <2>1, Zenon DEF Kinds, WindowInv, Waiting
  <2>3. active' \in BOOLEAN /\ sawS' \in BOOLEAN
    BY <2>1, Zenon DEF WindowInv, Waiting
  <2>4. ~active => paced' = paced
    BY <2>1
  <2>5. /\ ~sawS' => ~active' /\ paced' = 0
        /\ kind' = "S" => sawS' /\ paced' = 0
    BY <2>1, <2>2, <2>4, ZenonT(60) DEF WindowInv, Waiting
  <2>6. at' = "wait" /\ next' = "send" => cfg.mode = "timestamp"
    BY <1>1, <2>1, Zenon DEF WindowInv, Waiting
  <2> QED
    BY <1>1, <1>a, <2>1, <2>2, <2>3, <2>5, <2>6, ZenonT(60) DEF WindowInv, Waiting
<1>4. CASE Held \/ SendTimed
  <2>1. /\ UNCHANGED <<packetVars, active, start>> /\ at \in {"held", "send"}
        /\ at' \in {"send", "sent", "thrown"}
    BY <1>4, Zenon DEF Held, SendTimed
  <2> QED
    BY <1>1, <1>a, <2>1, Zenon DEF WindowInv, Waiting
<1>5. CASE Pause
  BY <1>1, <1>5, ZenonT(60) DEF Pause, WaitFor, WindowInv, Waiting
<1>6. CASE OpenWindow
  BY <1>1, <1>6, Zenon DEF OpenWindow, OpensWindow, WindowInv, Waiting
<1>7. CASE AfterData
  BY <1>1, <1>7, ZenonT(60) DEF AfterData, WaitFor, WindowInv, Waiting
<1>8. CASE WaitOver \/ WaitForData \/ WakeForHeartbeat \/ SendHeartbeat
  <2>1. /\ UNCHANGED <<packetVars, windowVars, next>> /\ at \in Waiting
        /\ at' \in {next, "wait", "beat"}
        /\ next \in {"fetch", "held", "send", "sent"}
    BY <1>8, ZenonT(60) DEF WaitOver, WaitForData, WakeForHeartbeat, SendHeartbeat, PacingType, Waiting
  <2> QED
    BY <1>1, <1>a, <2>1, Zenon DEF WindowInv, Waiting
<1> QED
  BY <1>2, <1>3, <1>4, <1>5, <1>6, <1>7, <1>8, Zenon DEF PacingNext

LEMMA TimestampNext ==
  ASSUME PacingType, RateInv, WindowInv, TimestampInv, PacingNext
  PROVE  TimestampInv'
<1> USE DEF startVars, packetVars, windowVars, rateVars, sentVars
<1>1. /\ cfg' = cfg /\ now' \in Nat /\ now \in Nat /\ now' >= now /\ start \in Nat
      /\ \A t \in Nat : ScaledDelay(t) \in Nat
      /\ stamp \in Nat /\ stamp' \in Nat /\ MaxTime \in Nat /\ MaxLate \in Nat
  BY SameConfig, ConfigType, Forward, TypeNext, ZenonT(60) DEF PacingType, Ticks
<1>2. ScaledDelay(stamp)' = ScaledDelay(stamp')
  BY <1>1, Zenon DEF ScaledDelay
<1>3. CASE FetchTimed
  <2>1. CASE at' = "wait" /\ next' = "send"
    <3>1. deadline' = Checked(start, ScaledDelay(stamp')) /\ deadline' # Never /\ start' = start
      BY <1>3, <2>1, Zenon DEF FetchTimed, WaitFor
    <3>2. deadline' = start + ScaledDelay(stamp')
      BY <1>1, <3>1, CheckedType, Zenon
    <3> QED
      BY <1>1, <1>2, <2>1, <3>1, <3>2, Zenon DEF TimestampInv, Waiting
  <2>2. CASE ~(at' = "wait" /\ next' = "send")
    <3>1. at' # "beat" /\ (~active' \/ cfg'.mode = "flat" \/ stamp' = 0 \/ at' # "send")
      BY <1>1, <1>3, Zenon DEF FetchTimed, WaitFor
    <3> QED
      BY <2>2, <3>1, Zenon DEF TimestampInv, Waiting
  <2> QED
    BY <2>1, <2>2, Zenon
<1>4. CASE WaitOver \/ WaitForData
  <2>1. /\ at = "wait" /\ at' = next /\ next \in {"fetch", "held", "send", "sent"}
        /\ UNCHANGED <<active, start, stamp>> /\ deadline \in Nat
    BY <1>4, Zenon DEF WaitOver, WaitForData, PacingType, Ticks, Waiting
  <2>2. now' >= deadline
    BY <1>1, <1>4, <2>1, SleepType, Zenon DEF WaitOver, WaitForData, PacingType
  <2> QED
    BY <1>1, <1>2, <2>1, <2>2, Zenon DEF TimestampInv, Waiting
<1>5. CASE WakeForHeartbeat \/ SendHeartbeat
  <2>1. UNCHANGED <<active, start, stamp, deadline, next>> /\ at \in Waiting /\ at' \in Waiting
    BY <1>5, Zenon DEF WakeForHeartbeat, SendHeartbeat, Waiting
  <2> QED
    BY <1>1, <1>2, <2>1, Zenon DEF TimestampInv, Waiting
<1>6. CASE Held
  <2>1. at = "held" /\ cfg'.mode = "flat"
    BY <1>1, <1>6, Zenon DEF Held, WindowInv
  <2> QED
    BY <2>1, Zenon DEF TimestampInv, Waiting
<1>7. CASE at' # "send" /\ ~(at' \in Waiting /\ next' = "send")
  BY <1>7, Zenon DEF TimestampInv, Waiting
<1> QED
  BY <1>3, <1>4, <1>5, <1>6, <1>7, ZenonT(60)
     DEF PacingNext, StartupBeat, StartupSleep, StartupOver, SendTimed, Pause, OpenWindow, AfterData,
         EndSleep, SendEnd, EndThrown, WaitFor, Waiting

LEMMA FlatNext ==
  ASSUME PacingType, HeartbeatInv, RateInv, WindowInv, FlatInv, PacingNext, active', cfg.mode = "flat"
  PROVE  FlatInv'
<1> USE DEF startVars, packetVars, windowVars, rateVars, sentVars
<1> DEFINE i == FlatInterval
           D == FlatDue
           L == WaitLate
<1>1. /\ cfg'.mode = "flat" /\ cfg' = cfg /\ FlatInterval' = i /\ i \in Nat /\ WaitLate' = L /\ L \in Nat
      /\ L >= MaxLate
      /\ now' \in Nat /\ now \in Nat /\ now' >= now /\ now \in Ticks /\ start \in Nat /\ paced \in Nat
      /\ MaxTime \in Nat /\ MaxLate \in Nat /\ Ticks \subseteq Nat /\ Never \notin Nat
      /\ nextPremarket \in Ticks \cup {Never} /\ deadline \in Ticks \cup {Never}
  <2>1. Ticks \subseteq Nat /\ Never \notin Nat
    BY DEF Ticks, Never
  <2> QED
    <3>1. L \in Nat /\ L >= MaxLate
      BY PacingAssumption DEF WaitLate
    <3> QED
      BY <2>1, <3>1, SameConfig, ConfigType, Forward, ZenonT(60) DEF PacingType
<1>2. D \in Nat /\ start + (paced + 1) * i = D + i
  <2> HIDE DEF i
  <2>1. paced * i \in Nat /\ (paced + 1) * i = paced * i + i
    BY <1>1, OneMoreTime, Zenon
  <2> QED
    BY <1>1, <2>1 DEF FlatDue, i
<1>3. FlatDue' = start' + paced' * i
  BY <1>1, Zenon DEF FlatDue
<1>4. UNCHANGED <<start, paced>> => FlatDue' = D
  BY <1>3, Zenon DEF FlatDue
<1> HIDE DEF i, D, L
<1>5. active =>
        /\ at \in {"fetch", "sent"} => (i >= L + MaxLate => now <= D + L + MaxLate)
        /\ at \in {"fetch", "send", "sent"} => nextPremarket = D + i
        /\ at \in {"held", "wait", "beat"} => nextPremarket = D
        /\ at \in Waiting => deadline = D
        /\ at = "wait" => (i >= L + MaxLate => now <= D + L)
        /\ at = "beat" => (i >= L + MaxLate => now + MaxLate <= D + L)
        /\ at \in {"held", "send"} => now >= D /\ (i >= L + MaxLate => now <= D + L)
        /\ at \in {"held", "wait", "beat", "send"} /\ kind = "Q" => paced = cfg.toPace
  BY Zenon DEF FlatInv, i, D, L
<1>6. CASE StartupBeat \/ StartupSleep \/ StartupOver \/ EndSleep \/ SendEnd \/ EndThrown
  <2>1. at' \in {"startup", "beat_sent", "end", "copy", "thrown"}
    BY <1>6, ZenonT(60) DEF StartupBeat, StartupSleep, StartupOver, EndSleep, SendEnd, EndThrown, WindowInv
  <2> QED
    BY <2>1, Zenon DEF FlatInv, Waiting
<1>7. CASE FetchTimed
  <2>1. /\ active /\ at = "fetch" /\ UNCHANGED <<start, now, nextPremarket>> /\ paced' = paced + 1
        /\ deadline' = nextPremarket /\ at' \in {"wait", "thrown"}
        /\ kind' = "Q" => paced + 1 = cfg.toPace
    BY <1>7, Zenon DEF FetchTimed, WaitFor, Kinds
  <2>2. FlatDue' = D + i
    BY <1>2, <1>3, <2>1, Zenon
  <2>3. nextPremarket = D + i /\ (i >= L + MaxLate => now <= D + L + MaxLate)
    BY <1>5, <2>1, Zenon
  <2>4. i >= L + MaxLate => now <= D + i + L
    BY <1>1, <1>2, <2>3
  <2> QED
    BY <1>1, <2>1, <2>2, <2>3, <2>4, ZenonT(60) DEF FlatInv, Waiting
<1>8. CASE Held
  <2>1. /\ active /\ at = "held" /\ UNCHANGED <<start, paced, kind, now>>
        /\ nextPremarket' = Checked(D, i) /\ at' = IF nextPremarket' = Never THEN "thrown" ELSE "send"
    BY <1>5, <1>8, Zenon DEF Held, i
  <2>2. nextPremarket' # Never => nextPremarket' = D + i
    BY <1>1, <1>2, <2>1, CheckedType, Zenon
  <2> QED
    BY <1>1, <1>2, <1>4, <1>5, <2>1, <2>2, ZenonT(60) DEF FlatInv, Waiting
<1>9. CASE SendTimed
  <2>1. /\ active /\ at = "send" /\ UNCHANGED <<start, paced, kind, nextPremarket>> /\ TransmitTime
        /\ at' \in {"sent", "thrown"}
    BY <1>9, Zenon DEF SendTimed
  <2>2. now' <= now + MaxLate
    BY <1>1, <2>1, TransmitType, Zenon
  <2>3. i >= L + MaxLate => now <= D + L
    BY <1>5, <2>1, Zenon
  <2>4. i >= L + MaxLate => now' <= D + L + MaxLate
    BY <1>1, <1>2, <2>2, <2>3
  <2> QED
    BY <1>1, <1>4, <1>5, <2>1, <2>4, ZenonT(60) DEF FlatInv, Waiting
<1>10. CASE Pause
  <2>1. ~active'
    BY <1>10, Zenon DEF Pause, WindowInv
  <2> QED
    BY <2>1, Zenon
<1>11. CASE OpenWindow
  <2>1. /\ paced = 0 /\ UNCHANGED <<paced, now>> /\ start' = now
        /\ nextPremarket' = Checked(now, i)
        /\ at' = IF nextPremarket' = Never THEN "thrown" ELSE "fetch"
    BY <1>11, Zenon DEF OpenWindow, OpensWindow, WindowInv, i
  <2>2. FlatDue' = now
    BY <1>1, <1>3, <2>1
  <2>3. nextPremarket' # Never => nextPremarket' = now + i
    BY <1>1, <2>1, CheckedType, Zenon
  <2>4. i >= L + MaxLate => now <= now + L + MaxLate
    BY <1>1
  <2> QED
    BY <1>1, <2>1, <2>2, <2>3, <2>4, ZenonT(60) DEF FlatInv, Waiting
<1>12. CASE AfterData
  <2>1. active /\ at = "sent" /\ at' = "fetch" /\ UNCHANGED <<start, paced, nextPremarket, now>>
    BY <1>12, ZenonT(60) DEF AfterData
  <2> QED
    BY <1>1, <1>2, <1>4, <1>5, <2>1, ZenonT(60) DEF FlatInv, Waiting
<1>13. CASE WaitOver \/ WaitForData \/ WakeForHeartbeat \/ SendHeartbeat
  <2>1. /\ active /\ at \in Waiting /\ UNCHANGED <<start, paced, kind, nextPremarket, deadline, next>>
        /\ next = "held" /\ deadline = D
    <3>1. active /\ at \in Waiting /\ UNCHANGED <<start, paced, kind, nextPremarket, deadline, next>>
      BY <1>13, ZenonT(60) DEF WaitOver, WaitForData, WakeForHeartbeat, SendHeartbeat, Waiting
    <3> QED
      BY <1>5, <3>1, Zenon DEF PacingType, WindowInv, RateInv
  <2>2. CASE WaitOver
    <3>1. at = "wait" /\ at' = "held" /\ now' = now /\ now >= D
      BY <2>1, <2>2, Zenon DEF WaitOver
    <3> QED
      BY <1>1, <1>2, <1>4, <1>5, <2>1, <3>1, ZenonT(60) DEF FlatInv, Waiting
  <2>3. CASE WaitForData
    <3>1. at = "wait" /\ at' = "held" /\ now < D /\ SleepUntil(D)
      BY <2>1, <2>3, Zenon DEF WaitForData
    <3>2. now' >= D /\ now' <= D + MaxLate
      BY <1>1, <1>2, <3>1, SleepType, Zenon
    <3>3. now' <= D + L
      BY <1>1, <1>2, <3>2
    <3> QED
      BY <1>1, <1>2, <1>4, <1>5, <2>1, <3>1, <3>2, <3>3, ZenonT(60) DEF FlatInv, Waiting
  <2>4. CASE WakeForHeartbeat
    <3>1. /\ at = "wait" /\ at' = "beat" /\ now < D /\ SleepUntil(nextHeartbeat) /\ nextHeartbeat < D
          /\ nextHeartbeat \in Nat /\ nextHeartbeat # Never
      BY <1>1, <2>1, <2>4, ZenonT(60) DEF WakeForHeartbeat, HeartbeatBefore, PacingType
    <3>2. now' \in Nat /\ now' <= D + MaxLate
      <4>1. /\ now' \in Nat
            /\ now >= nextHeartbeat => now' = now
            /\ now < nextHeartbeat => now' <= nextHeartbeat + MaxLate
        BY <1>1, <3>1, SleepType, Zenon
      <4> QED
        BY <1>1, <1>2, <3>1, <4>1
    <3>3. L = 2 * MaxLate
      BY <3>1, Zenon DEF HeartbeatInv, WaitLate, L
    <3>4. now' + MaxLate <= D + L
      <4>1. D \in Nat /\ MaxLate \in Nat
        BY <1>1, <1>2, Zenon
      <4>2. L = MaxLate + MaxLate
        BY <3>3, <4>1
      <4>3. \A x, d, m \in Nat : x <= d + m => x + m <= d + (m + m)
        OBVIOUS
      <4> QED
        BY <3>2, <4>1, <4>2, <4>3, Zenon
    <3> QED
      BY <1>1, <1>2, <1>4, <1>5, <2>1, <3>1, <3>4, ZenonT(60) DEF FlatInv, Waiting
  <2>5. CASE SendHeartbeat
    <3>1. at = "beat" /\ at' = "wait" /\ TransmitTime
      BY <2>5, Zenon DEF SendHeartbeat
    <3>2. now' <= now + MaxLate
      BY <1>1, <3>1, TransmitType, Zenon
    <3>3. i >= L + MaxLate => now + MaxLate <= D + L
      BY <1>5, <2>1, <3>1, Zenon
    <3>4. i >= L + MaxLate => now' <= D + L
      BY <1>1, <1>2, <3>2, <3>3
    <3> QED
      BY <1>1, <1>2, <1>4, <1>5, <2>1, <3>1, <3>4, ZenonT(60) DEF FlatInv, Waiting
  <2> QED
    BY <1>13, <2>2, <2>3, <2>4, <2>5, Zenon
<1> QED
  BY <1>6, <1>7, <1>8, <1>9, <1>10, <1>11, <1>12, <1>13, Zenon DEF PacingNext

PacingInv ==
  PacingType /\ HeartbeatInv /\ RateInv /\ StartupInv /\ WindowInv /\ FlatInv /\ TimestampInv

\* Every state of the sender satisfies the invariant.
THEOREM PacingInvariance == PacingSpec => []PacingInv
<1>1. PacingInit => PacingInv
  <2> SUFFICES ASSUME PacingInit PROVE PacingInv
    OBVIOUS
  <2>1. 0 \in Ticks /\ cfg.beat \in Nat /\ MaxLate \in Nat /\ cfg.heartbeat \in Nat
    <3>1. Ticks \subseteq Nat /\ 0 \in Ticks
      BY PacingAssumption DEF Ticks
    <3> QED
      BY <3>1, ConfigType, Zenon DEF PacingInit
  <2>2. PacingType /\ HeartbeatInv /\ RateInv
    <3>1. 0 \in Nat /\ 0 <= 0
      OBVIOUS
    <3>2. PacingType
      BY <2>1, <3>1, Zenon DEF PacingInit, PacingType, Waiting
    <3>3. HeartbeatInv
      BY <3>1, Zenon DEF PacingInit, HeartbeatInv, Live
    <3>4. RateInv
      BY Zenon DEF PacingInit, RateInv, Waiting
    <3> QED
      BY <3>2, <3>3, <3>4, Zenon
  <2>3. StartupInv
    BY <2>1 DEF PacingInit, StartupInv, Due
  <2>4. WindowInv /\ FlatInv /\ TimestampInv
    BY Zenon DEF PacingInit, WindowInv, FlatInv, TimestampInv, Waiting
  <2> QED
    BY <2>2, <2>3, <2>4, Zenon DEF PacingInv
<1>2. PacingInv /\ [PacingNext]_pacingVars => PacingInv'
  <2>1. ASSUME PacingInv, PacingNext
        PROVE  PacingInv'
    <3>1. CASE active' /\ cfg.mode = "flat"
      BY <2>1, <3>1, FlatNext, TypeNext, HeartbeatNext, RateNext, StartupNext, WindowNext, TimestampNext, Zenon
         DEF PacingInv
    <3>2. CASE ~(active' /\ cfg.mode = "flat")
      <4>1. FlatInv'
        BY <2>1, <3>2, SameConfig, Zenon DEF FlatInv
      <4> QED
        BY <2>1, <4>1, TypeNext, HeartbeatNext, RateNext, StartupNext, WindowNext, TimestampNext, Zenon
           DEF PacingInv
    <3> QED
      BY <3>1, <3>2, Zenon
  <2>2. ASSUME PacingInv, UNCHANGED pacingVars
        PROVE  PacingInv'
    <3> USE <2>2 DEF pacingVars, startVars, packetVars, windowVars, rateVars, sentVars, PacingInv
    <3>1. /\ UNCHANGED <<Interval, FlatInterval, FlatDue, WaitLate>>
          /\ ScaledDelay(stamp)' = ScaledDelay(stamp)
      BY Zenon DEF Interval, FlatInterval, FlatDue, ScaledDelay, WaitLate
    <3>2. PacingType' /\ HeartbeatInv' /\ WindowInv'
      <4>1. PacingType'
        BY ZenonT(60) DEF PacingType
      <4>2. HeartbeatInv'
        BY ZenonT(60) DEF HeartbeatInv
      <4>3. WindowInv'
        BY ZenonT(60) DEF WindowInv
      <4> QED
        BY <4>1, <4>2, <4>3, Zenon
    <3>3. StartupInv'
      BY Zenon DEF StartupInv, Due
    <3>4. RateInv' /\ FlatInv' /\ TimestampInv'
      BY <3>1, ZenonT(60) DEF RateInv, FlatInv, TimestampInv
    <3> QED
      BY <3>2, <3>3, <3>4, ZenonT(60)
  <2> QED
    BY <2>1, <2>2
<1> QED
  BY <1>1, <1>2, PTL DEF PacingSpec

\* The configured rate is a strict upper bound outside the premarket window,
\* whatever the rate, the rounding and the lateness (checkedDeadlineAfterPacket).
THEOREM RateIsStrict == PacingSpec => StrictRate
<1>1. ASSUME PacingInv, SendTimed, dataAt # Never, ~active, cfg.rate > 0
      PROVE  (now - dataAt) * cfg.rate >= Second
  <2>1. /\ now \in Nat /\ dataAt \in Int /\ Interval \in Nat /\ cfg.rate \in Nat /\ Second \in Nat
        /\ Interval * cfg.rate >= Second
    <3>1. Ticks \subseteq Nat /\ Nat \subseteq Int /\ Never \in Int
      BY DEF Ticks, Never
    <3> QED
      BY <1>1, <3>1, ConfigType, ZenonT(60) DEF PacingInv, PacingType
  <2>2. now - dataAt \in Int /\ now - dataAt >= Interval
    BY <1>1, <2>1 DEF PacingInv, RateInv, SendTimed
  <2>3. (now - dataAt) * cfg.rate >= Interval * cfg.rate
    BY <2>1, <2>2, Times
  <2> QED
    BY <2>1, <2>2, <2>3
<1>2. PacingInv /\ [PacingNext]_pacingVars =>
        [SendTimed /\ dataAt # Never /\ ~active /\ cfg.rate > 0 =>
           (now - dataAt) * cfg.rate >= Second]_pacingVars
  BY <1>1, Zenon
<1> QED
  BY <1>2, PacingInvariance, PTL DEF PacingSpec, StrictRate

\* Whatever is sent after the first data packet, up to the first copy of the
\* end marker, ends a silence of at most the heartbeat interval, a late wakeup
\* and a send (wait_until_with_heartbeats, nextHeartbeatBefore).
THEOREM LineNeverSilent == PacingSpec => NeverSilent
<1>1. ASSUME PacingInv, SendTimed \/ SendHeartbeat \/ (SendEnd /\ copies = 0),
             dataAt # Never, cfg.heartbeat > 0
      PROVE  now' - traffic <= cfg.heartbeat + 2 * MaxLate
  <2>1. /\ now \in Nat /\ now \in Ticks /\ traffic \in Nat /\ cfg.heartbeat \in Nat
        /\ MaxLate \in Nat /\ MaxTime \in Nat /\ Ticks \subseteq Nat
    <3>1. Ticks \subseteq Nat
      BY DEF Ticks
    <3> QED
      BY <1>1, <3>1, ConfigType, ZenonT(60) DEF PacingInv, PacingType
  <2>2. now <= traffic + cfg.heartbeat + MaxLate
    BY <1>1, Zenon DEF PacingInv, HeartbeatInv, Live, SendTimed, SendHeartbeat, SendEnd
  <2>3. now' \in Nat /\ now' <= now + MaxLate
    BY <1>1, <2>1, TransmitType, Zenon DEF SendTimed, SendHeartbeat, SendEnd
  <2> QED
    BY <2>1, <2>2, <2>3
<1>2. PacingInv /\ [PacingNext]_pacingVars =>
        [SendTimed \/ SendHeartbeat \/ (SendEnd /\ copies = 0) =>
           (dataAt # Never /\ cfg.heartbeat > 0 =>
              now' - traffic <= cfg.heartbeat + 2 * MaxLate)]_pacingVars
  BY <1>1, Zenon
<1> QED
  BY <1>2, PacingInvariance, PTL DEF PacingSpec, NeverSilent

\* Heartbeats and end-of-session copies do not bunch after a late wakeup
\* (observeTraffic, checkedDeadlineAfterSend).
THEOREM ControlsStayApart == PacingSpec => ControlsApart
<1>1. ASSUME PacingInv
      PROVE  now \in Nat /\ traffic \in Nat /\ cfg.heartbeat \in Nat /\ cfg.eos \in Nat
  BY <1>1, ConfigType, ZenonT(60) DEF PacingInv, PacingType, Ticks
<1>2. ASSUME PacingInv, SendHeartbeat
      PROVE  now - traffic >= cfg.heartbeat
  <2>1. now >= traffic + cfg.heartbeat
    BY <1>2, Zenon DEF PacingInv, HeartbeatInv, SendHeartbeat
  <2> QED
    BY <1>1, <1>2, <2>1
<1>3. ASSUME PacingInv, SendEnd, copies > 0
      PROVE  now - traffic >= cfg.eos
  <2>1. now >= traffic + cfg.eos
    BY <1>3, Zenon DEF PacingInv, HeartbeatInv, SendEnd
  <2> QED
    BY <1>1, <1>3, <2>1
<1>4. PacingInv /\ [PacingNext]_pacingVars =>
        [/\ SendHeartbeat => now - traffic >= cfg.heartbeat
         /\ SendEnd /\ copies > 0 => now - traffic >= cfg.eos]_pacingVars
  BY <1>2, <1>3, Zenon
<1> QED
  BY <1>4, PacingInvariance, PTL DEF PacingSpec, ControlsApart

\* Start-up heartbeats and premarket packets keep to a schedule that lateness
\* does not shift, for every interval, speed and number of packets.
THEOREM SchedulesKept == PacingSpec => []OnSchedule
<1>1. PacingInv => OnSchedule
  <2> SUFFICES ASSUME PacingInv PROVE OnSchedule
    OBVIOUS
  <2>1. /\ now \in Nat /\ start \in Nat /\ stamp \in Nat /\ paced \in Nat /\ Second \in Nat
        /\ FlatInterval \in Nat /\ cfg.seconds \in Nat /\ cfg.speed \in Nat
    BY ConfigType, ZenonT(60) DEF PacingInv, PacingType, Ticks
  <2>2. at = "startup" => Due(beats, cfg.beat, 0, MaxLate)
    BY Zenon DEF PacingInv, StartupInv
  <2>3. ASSUME at = "send", active, cfg.mode = "flat"
        PROVE  /\ Due(paced, FlatInterval, start, WaitLate)
               /\ kind = "Q" => now - start >= cfg.seconds * Second
    <3>1. Due(paced, FlatInterval, start, WaitLate)
      BY <2>3, Zenon DEF PacingInv, FlatInv, FlatDue, Due
    <3>2. ASSUME kind = "Q"
          PROVE  now - start >= cfg.seconds * Second
      <4>1. /\ paced = cfg.toPace /\ now >= start + paced * FlatInterval
        BY <2>3, <3>2, Zenon DEF PacingInv, FlatInv, FlatDue
      <4>2. paced * FlatInterval >= cfg.seconds * Second
        BY <2>3, <4>1, ConfigType, Zenon DEF PacingInv, PacingType
      <4>3. paced * FlatInterval \in Nat /\ cfg.seconds * Second \in Nat
        BY <2>1
      <4> QED
        BY <2>1, <4>1, <4>2, <4>3
    <3> QED
      BY <3>1, <3>2, Zenon
  <2>4. ASSUME at = "send", active, cfg.mode = "timestamp"
        PROVE  cfg.speed * (now - start) >= stamp
    <3>1. now - start \in Nat
      BY <2>1, <2>4 DEF PacingInv, WindowInv
    <3>2. CASE stamp = 0
      BY <2>1, <3>1, <3>2
    <3>3. CASE stamp # 0
      <4>1. ScaledDelay(stamp) \in Nat /\ cfg.speed * ScaledDelay(stamp) >= stamp
        BY <2>1, ConfigType, ZenonT(60) DEF PacingInv, PacingType
      <4>2. now - start >= ScaledDelay(stamp)
        BY <2>1, <2>4, <3>3, <4>1 DEF PacingInv, TimestampInv
      <4>3. (now - start) * cfg.speed >= ScaledDelay(stamp) * cfg.speed
        BY <2>1, <3>1, <4>1, <4>2, Times
      <4> QED
        BY <2>1, <3>1, <4>1, <4>3
    <3> QED
      BY <3>2, <3>3, Zenon
  <2> QED
    BY <2>2, <2>3, <2>4, Zenon DEF OnSchedule
<1> QED
  BY <1>1, PacingInvariance, PTL
=============================================================================
