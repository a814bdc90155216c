--------------------------- MODULE BatchReceiver ---------------------------
(***************************************************************************)
(* One UdpBatchReceiver with its buffers, which DualReceiver leaves out: a *)
(* receive writes datagram i of a batch into buffer i, and the packets     *)
(* handed out are views into the buffers.  The caller asks for one packet  *)
(* (next) or for several (nextBatch): next is nextBatch for one packet.    *)
(***************************************************************************)
EXTENDS DualReceiver

CONSTANTS
  MaxPackets,    \* bound: max_packets of a call of nextBatch
  MaxDatagrams,  \* bound: datagrams that reach the socket
  MaxErrors      \* bound: receives that fail

ASSUME BatchAssumption == {MaxPackets, MaxDatagrams, MaxErrors} \subseteq Nat

VARIABLES
  socket,    \* the datagrams in the socket
  buffers,   \* the datagram in each buffer, 0 before the first
  filled,    \* pending_ from pending_index_ to pending_count_: buffers
  asked,     \* max_packets of the running call, 0 when there is none
  views,     \* the views copied to the caller by the last call
  errors,    \* error_count_
  sent,      \* history: the datagrams that reached the socket
  handed     \* history: the datagrams handed to the caller

batchVars == <<socket, buffers, filled, asked, views, errors, sent, handed>>

BatchInit ==
  /\ socket = << >> /\ buffers = [i \in 1 .. BatchSize |-> 0]
  /\ filled = << >> /\ asked = 0 /\ views = << >>
  /\ errors = 0 /\ sent = << >> /\ handed = << >>

DatagramArrives(big) ==
  /\ Len(sent) < MaxDatagrams /\ Len(socket) < SocketRoom
  /\ LET d == [id |-> Len(sent) + 1, big |-> big]
     IN  sent' = Append(sent, d) /\ socket' = Append(socket, d)
  /\ UNCHANGED <<buffers, filled, asked, views, errors, handed>>

\* A call; the views of the last one are given up.
CallNextBatch(n) ==
  /\ asked = 0
  /\ asked' = n /\ views' = << >>
  /\ UNCHANGED <<socket, buffers, filled, errors, sent, handed>>

CopyView ==
  /\ Len(views) < asked /\ filled # << >>
  /\ LET b == Head(filled)
     IN  /\ views' = Append(views, [buffer |-> b, id |-> buffers[b]])
         /\ handed' = Append(handed, buffers[b])
  /\ filled' = Tail(filled)
  /\ UNCHANGED <<socket, buffers, asked, errors, sent>>

\* Mutant of MayRefill: the call goes on until it has all the packets.
MayRefillAlways == TRUE

\* A call that has copied a view does not receive again.
MayRefill == views = << >>

\* receiveBatch, for a call that has no packet left; a call that finds none
\* that fits returns.
RefillBatch ==
  /\ Len(views) < asked /\ filled = << >> /\ MayRefill
  /\ LET n    == Min({Len(socket), BatchSize})
         fits == {i \in 1 .. n : ~socket[i].big}
     IN  /\ buffers' = [i \in 1 .. BatchSize |-> IF i <= n THEN socket[i].id ELSE buffers[i]]
         /\ filled' = Kept([i \in 1 .. n |-> i], fits)
         /\ socket' = SubSeq(socket, n + 1, Len(socket))
         /\ asked' = IF fits = {} THEN 0 ELSE asked
  /\ UNCHANGED <<views, errors, sent, handed>>

\* The receive fails for another reason than an empty socket.
RefillFails ==
  /\ Len(views) < asked /\ filled = << >> /\ MayRefill
  /\ errors < MaxErrors
  /\ errors' = errors + 1 /\ asked' = 0
  /\ UNCHANGED <<socket, buffers, filled, views, sent, handed>>

ReturnBatch ==
  /\ asked > 0
  /\ Len(views) = asked \/ (filled = << >> /\ ~MayRefill)
  /\ asked' = 0
  /\ UNCHANGED <<socket, buffers, filled, views, errors, sent, handed>>

BatchNext ==
  \/ \E big \in BOOLEAN : DatagramArrives(big)
  \/ \E n \in 1 .. MaxPackets : CallNextBatch(n)
  \/ CopyView \/ RefillBatch \/ RefillFails \/ ReturnBatch
-----------------------------------------------------------------------------
Small(s) == Kept(s, [id : Nat, big : {FALSE}])

\* The datagrams that fit are handed out once each, in the order of arrival.
BatchNothingLost ==
  Ids(Small(sent)) = handed \o [i \in DOMAIN filled |-> buffers[filled[i]]] \o Ids(Small(socket))

\* The views a call hands out are unchanged until the next call.
BatchViewsIntact ==
  \A i \in DOMAIN views : buffers[views[i].buffer] = views[i].id
=============================================================================
