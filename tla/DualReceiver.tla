---------------------------- MODULE DualReceiver ----------------------------
(***************************************************************************)
(* Receiving from the two redundant lines: DualUdpReceiver over two        *)
(* UdpReceivers, or DualUdpBatchReceiver over two UdpBatchReceivers, as    *)
(* batched says.  UdpReceiver::next behaves as UdpBatchReceiver::next with *)
(* a batch of one.  Each receive is one step, so that datagrams arrive,    *)
(* and the kernel drops some, in the middle of a call.                     *)
(*                                                                         *)
(* A datagram has the number it was given on its line, whether it is too   *)
(* big for the buffer, and the kernel's drop counter when it was queued:   *)
(* at is the true number, which the receiver sees modulo Wrap.  It sees it *)
(* only where the counter was asked for (SO_RXQ_OVFL: always by a batch    *)
(* receiver, by a UdpReceiver with ASTRA_UDP_DROP_METRICS), and the kernel *)
(* sends no message with a counter of 0.  The counts of errors, system     *)
(* calls and truncated datagrams are left out.                             *)
(***************************************************************************)
EXTENDS Filtering, FiniteSetsExt

CONSTANTS
  BatchSize,   \* batch_size_ of a batch receiver
  SocketRoom,  \* bound: datagrams a socket buffer holds
  Wrap,        \* 2^32: the drop counter's range
  MaxArrivals, \* bound: datagrams that reach the socket of each line
  MaxTotal     \* bound: datagrams that reach both sockets

Lines == {"a", "b"}

ASSUME ReceiverAssumption ==
  /\ {BatchSize, SocketRoom, Wrap} \subseteq Nat \ {0}
  /\ MaxArrivals \in [Lines -> Nat] /\ MaxTotal \in Nat

Other(l) == IF l = "a" THEN "b" ELSE "a"

VARIABLES
  batched,
  metered,   \* drop_metrics_enabled_
  arrived,   \* datagrams that reached each socket, the dropped ones included
  dropped,   \* those the kernel dropped
  queue,     \* each socket's buffer
  pending,   \* each receiver's pending_, from pending_index_ on
  counted, last,   \* kernel_drop_count_ and last_kernel_drop_count_
  nextAFirst,
  call,      \* where the call of next() is
  ready,     \* what poll() reported
  carriedAt, \* history: the drops at the last datagram queued that shows them
  accepted,  \* history: the datagrams queued that fit the buffer
  got,       \* history: the datagrams returned
  readAt,    \* history: the drops before the last datagram read
  bypass     \* history: packets returned from the other line since each was asked

configVars == <<batched, metered>>
kernelVars == <<arrived, dropped, queue, carriedAt, accepted>>
readVars   == <<queue, pending, counted, last, got, readAt>>
lineVars   == <<readVars, bypass>>
vars == <<configVars, kernelVars, pending, counted, last, nextAFirst, call, ready,
          got, readAt, bypass>>

Unread ==
  /\ arrived = [l \in Lines |-> 0] /\ dropped = [l \in Lines |-> 0]
  /\ queue = [l \in Lines |-> << >>] /\ pending = [l \in Lines |-> << >>]
  /\ counted = [l \in Lines |-> 0] /\ last = [l \in Lines |-> 0]
  /\ nextAFirst = TRUE
  /\ call = "idle" /\ ready = {}
  /\ accepted = [l \in Lines |-> << >>] /\ got = [l \in Lines |-> << >>]
  /\ readAt = [l \in Lines |-> 0] /\ carriedAt = [l \in Lines |-> 0]
  /\ bypass = [l \in Lines |-> 0]

Init ==
  /\ batched \in BOOLEAN /\ metered \in BOOLEAN /\ (batched => metered)
  /\ Unread

\* The kernel tells the number of drops with a datagram, unless it is 0 to it.
Shows(drops) == drops % Wrap # 0

MayArrive(l) == arrived[l] < MaxArrivals[l] /\ arrived["a"] + arrived["b"] < MaxTotal

\* The kernel queues a datagram.
Arrive(l, big) ==
  LET carried == IF Shows(dropped[l]) THEN dropped[l] ELSE carriedAt[l]
  IN  /\ MayArrive(l) /\ Len(queue[l]) < SocketRoom
      /\ arrived' = [arrived EXCEPT ![l] = @ + 1]
      /\ queue' = [queue EXCEPT ![l] =
           Append(@, [id |-> arrived[l], big |-> big, at |-> dropped[l], carried |-> carried])]
      /\ carriedAt' = [carriedAt EXCEPT ![l] = carried]
      /\ accepted' = IF big THEN accepted ELSE [accepted EXCEPT ![l] = Append(@, arrived[l])]
      /\ UNCHANGED <<configVars, dropped, pending, counted, last, nextAFirst, call, ready,
                     got, readAt, bypass>>

\* The kernel drops a datagram, for want of memory at any moment, and not Wrap
\* of them between two datagrams that show the number.
Drop(l) ==
  /\ MayArrive(l)
  /\ dropped[l] - carriedAt[l] < Wrap - 1
  /\ arrived' = [arrived EXCEPT ![l] = @ + 1]
  /\ dropped' = [dropped EXCEPT ![l] = @ + 1]
  /\ UNCHANGED <<configVars, queue, carriedAt, accepted, pending, counted, last, nextAFirst, call, ready,
                 got, readAt, bypass>>
-----------------------------------------------------------------------------
\* Mutant of DropsSince: the wrap loses one.
DropsSinceShort(seen, count) ==
  IF count >= seen THEN count - seen ELSE (Wrap - 1 - seen) + count

\* recordKernelDrops: what the counter has grown by.
DropsSince(seen, count) ==
  IF count >= seen THEN count - seen ELSE (Wrap - 1 - seen) + count + 1

\* The drop count after reading a batch, datagram by datagram.
Counted(l, batch) ==
  LET c[i \in 0 .. Len(batch)] ==
        IF i = 0 THEN [last |-> last[l], count |-> counted[l]]
        ELSE IF metered /\ Shows(batch[i].at)
          THEN [last  |-> batch[i].at % Wrap,
                count |-> c[i - 1].count + DropsSince(c[i - 1].last, batch[i].at % Wrap)]
          ELSE c[i - 1]
  IN  c[Len(batch)]

\* The datagrams that fit the buffer.
Fitting == [id : Nat, big : {FALSE}, at : Nat, carried : Nat]

Batch(l) == SubSeq(queue[l], 1, Min({Len(queue[l]), IF batched THEN BatchSize ELSE 1}))

\* Mutant of Refilled: every call reads a batch, over what is still pending.
RefilledAlways(l) == Kept(Batch(l), Fitting)

\* What next() may return from: the pending datagrams, or the next batch of
\* them without those that were too big.
Refilled(l) ==
  IF pending[l] # << >> THEN pending[l] ELSE Kept(Batch(l), Fitting)

\* There is something for next() of one line to return.
Delivers(l) == Refilled(l) # << >>

\* next() of one line, when the socket gives what it has.
Take(l) ==
  LET batch == IF pending[l] = << >> THEN Batch(l) ELSE << >>
      drops == Counted(l, batch)
  IN  /\ queue' = [queue EXCEPT ![l] = SubSeq(@, Len(batch) + 1, Len(@))]
      /\ counted' = [counted EXCEPT ![l] = drops.count]
      /\ last' = [last EXCEPT ![l] = drops.last]
      /\ readAt' = IF batch = << >> THEN readAt ELSE [readAt EXCEPT ![l] = batch[Len(batch)].at]
      /\ pending' = [pending EXCEPT ![l] = IF Delivers(l) THEN Tail(Refilled(l)) ELSE << >>]
      /\ got' = IF Delivers(l) THEN [got EXCEPT ![l] = Append(@, Head(Refilled(l)).id)] ELSE got

\* The history of who was passed over.
Passed(l, found) ==
  bypass' = [bypass EXCEPT ![l] = 0, ![Other(l)] = IF found THEN @ + 1 ELSE @]

\* next() of one line returns found: the system call succeeds, or is
\* interrupted or fails whatever the socket has, and next() returns false.
Receive(l, found) ==
  /\ \/ found = Delivers(l) /\ Take(l)
     \/ found = FALSE /\ pending[l] = << >> /\ UNCHANGED readVars
  /\ Passed(l, found)

\* The line that is asked first.
Preferred == IF nextAFirst THEN "a" ELSE "b"

Call ==
  /\ call = "idle"
  /\ call' = "first"
  /\ UNCHANGED <<configVars, kernelVars, pending, counted, last, nextAFirst, ready,
                 got, readAt, bypass>>

\* Mutant of Turn: the line that was asked first stays first.
TurnNot == UNCHANGED nextAFirst

\* The line asked first has delivered.
Turn == nextAFirst' = ~nextAFirst

AskFirst ==
  /\ call = "first"
  /\ \E found \in BOOLEAN :
       /\ Receive(Preferred, found)
       /\ IF found THEN Turn /\ call' = "idle" ELSE call' = "second" /\ UNCHANGED nextAFirst
  /\ UNCHANGED <<configVars, arrived, dropped, carriedAt, accepted, ready>>

AskSecond ==
  /\ call = "second"
  /\ \E found \in BOOLEAN :
       /\ Receive(Other(Preferred), found)
       /\ call' = IF found \/ batched THEN "idle" ELSE "poll"
  /\ UNCHANGED <<configVars, arrived, dropped, carriedAt, accepted, nextAFirst, ready>>

\* DualUdpReceiver polls both sockets and asks again those that are readable;
\* the poll may fail.
Poll ==
  /\ call = "poll"
  /\ ready' \in {{}, {l \in Lines : queue[l] # << >>}}
  /\ call' = IF ready' = {} THEN "idle" ELSE "again"
  /\ UNCHANGED <<configVars, kernelVars, pending, counted, last, nextAFirst,
                 got, readAt, bypass>>

AskFirstAgain ==
  /\ call = "again"
  /\ IF Preferred \in ready
       THEN \E found \in BOOLEAN :
              /\ Receive(Preferred, found)
              /\ IF found THEN Turn /\ call' = "idle" ELSE call' = "again2" /\ UNCHANGED nextAFirst
       ELSE call' = "again2" /\ UNCHANGED <<lineVars, nextAFirst>>
  /\ UNCHANGED <<configVars, arrived, dropped, carriedAt, accepted, ready>>

AskSecondAgain ==
  /\ call = "again2"
  /\ IF Other(Preferred) \in ready
       THEN \E found \in BOOLEAN : Receive(Other(Preferred), found)
       ELSE UNCHANGED lineVars
  /\ call' = "idle"
  /\ UNCHANGED <<configVars, arrived, dropped, carriedAt, accepted, nextAFirst, ready>>

Next ==
  \/ \E l \in Lines : Drop(l) \/ \E big \in BOOLEAN : Arrive(l, big)
  \/ Call \/ AskFirst \/ AskSecond \/ Poll \/ AskFirstAgain \/ AskSecondAgain

Spec == Init /\ [][Next]_vars
-----------------------------------------------------------------------------
Ids(s) == [i \in DOMAIN s |-> s[i].id]

\* Nothing is lost, repeated or reordered between a socket and the decoder:
\* a line's datagrams, without those too big for the buffer, are the ones
\* returned, then the ones pending, then the ones in the socket.
NothingLost ==
  \A l \in Lines :
    accepted[l] = got[l] \o Ids(pending[l]) \o Ids(Kept(queue[l], Fitting))

\* The drop count is the kernel's at the last datagram read, however often
\* the kernel's counter has wrapped and however the reads are batched.  When
\* the counter is back at 0 there, which no message tells, it is behind by
\* less than a turn of the counter.  It is 0 where drops are not metered.
DropsExact ==
  \A l \in Lines :
    IF metered
      THEN /\ readAt[l] - counted[l] \in 0 .. Wrap - 1
           /\ Shows(readAt[l]) => counted[l] = readAt[l]
      ELSE counted[l] = 0

\* Neither line starves: between two reads of a line at most one packet of
\* the other is returned, though the order of asking changes only when the
\* line asked first delivers, and reads may fail.
NotBypassed == \A l \in Lines : bypass[l] <= 1
=============================================================================
