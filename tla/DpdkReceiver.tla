---------------------------- MODULE DpdkReceiver ----------------------------
(***************************************************************************)
(* The DPDK source: the start-up of the port, which may fail at any step,  *)
(* the poll of its receive queue in bursts, the buffer (mbuf) lent to the  *)
(* caller of next() until the next call, and the destructor, call by call. *)
(*                                                                         *)
(* The port is external: from its start to its stop it puts a frame into a *)
(* buffer of the pool while its ring has room, in the middle of a call     *)
(* too, and forgets it when it can not.  A freed buffer keeps its contents *)
(* until the port reuses it.  The buffers of the ring are back in the pool *)
(* when the port is stopped or, at the latest, when it is closed.  What    *)
(* the destructor calls is taken to succeed: it ignores the results.  The  *)
(* poll and time-stamp statistics are left out.                            *)
(***************************************************************************)
EXTENDS FrameParser, Filtering, Functions

CONSTANTS
  Mbufs,       \* the buffers of the pool
  NoMbuf,      \* nullptr
  RxDesc,      \* frames the port's ring holds
  BurstSize,   \* burst_size_
  Endpoints,   \* the configured lines, line B possibly not enabled
  Frames,      \* the ordinary traffic
  OddFrames,   \* frames that may arrive alone
  MaxFrames    \* bound: ordinary frames that arrive

ASSUME DpdkAssumption ==
  /\ {RxDesc, BurstSize} \subseteq Nat \ {0}
  /\ MaxFrames \in Nat
  /\ NoMbuf \notin Mbufs
  /\ \A f \in Frames \cup OddFrames : IsFrame(f)

VARIABLES
  ends,        \* line_a_ and line_b_
  flowFilter,  \* flow_filter_
  held,        \* what initialize has taken so far: the device, the pool, ...
  dpdk,        \* "closed", "starting", "failed", "idle", "next", "closing", "destroyed"
  pool,        \* the free buffers
  content,     \* the frame in each buffer
  ring,        \* the buffers of the frames the port has received
  burst,       \* burst_ from burst_index_ to burst_count_
  delivered,   \* delivered_mbuf_
  counts,      \* packets_a_, packets_b_, filtered_count_, malformed_count_,
               \* fast_path_count_, fallback_path_count_
  view,        \* what the caller of next() last received
  landed,      \* history: the frames the port received
  returned     \* history: the frames next() returned

portVars == <<pool, content, ring, landed>>
dpdkVars == <<ends, flowFilter, held, dpdk, pool, content, ring, burst, delivered,
              counts, view, landed, returned>>

NoFrame == [len |-> 0]
NoView  == [mbuf |-> NoMbuf, frame |-> NoFrame]

Unopened ==
  /\ held = {} /\ pool = Mbufs /\ content = [b \in Mbufs |-> NoFrame]
  /\ ring = << >> /\ burst = << >> /\ delivered = NoMbuf
  /\ counts = [a |-> 0, b |-> 0, filtered |-> 0, malformed |-> 0, fast |-> 0, fallback |-> 0]
  /\ view = NoView /\ landed = << >> /\ returned = << >>

DpdkInit ==
  /\ dpdk = "starting" /\ ends \in Endpoints /\ flowFilter \in BOOLEAN
  /\ Unopened

\* What the receiver takes: with flow_filter_ the isolation and a flow for
\* each line as well.
Wanted ==
  {"pool", "device", "queue", "started"}
    \cup (IF flowFilter THEN {"isolation", "flowA"} ELSE {})
    \cup (IF flowFilter /\ ends.b.enabled THEN {"flowB"} ELSE {})

\* The order of initialize and installFlowFilters.
SetupOrder == <<"isolation", "pool", "device", "queue", "flowA", "flowB", "started">>

\* Of those in S, r is the first in the order.
IsFirst(r, order, S) ==
  r \in S /\ \E i \in DOMAIN order : r = order[i] /\ \A j \in 1 .. i - 1 : order[j] \notin S

\* One more step of initialize.
Acquire ==
  /\ dpdk = "starting"
  /\ \E r \in Wanted :
       /\ IsFirst(r, SetupOrder, Wanted \ held)
       /\ held' = held \cup {r}
       /\ dpdk' = IF r = "started" THEN "idle" ELSE "starting"
  /\ UNCHANGED <<ends, flowFilter, portVars, burst, delivered, counts, view, returned>>

\* A step of initialize throws out of the constructor; ~Impl does not run.
InitializeThrows ==
  /\ dpdk = "starting"
  /\ dpdk' = "failed"
  /\ UNCHANGED <<ends, flowFilter, held, portVars, burst, delivered, counts, view, returned>>
-----------------------------------------------------------------------------
\* With isolation the port hands over only what a flow matches.
Steered(f) ==
  "isolation" \in held =>
    /\ f.ip /\ f.udp
    /\ \/ "flowA" \in held /\ Matches(ends.a, f)
       \/ "flowB" \in held /\ Matches(ends.b, f)

\* The port receives a frame, into a free buffer.
FrameArrives(f, b) ==
  /\ "started" \in held
  /\ Len(ring) < RxDesc /\ b \in pool
  /\ Steered(f)
  /\ pool' = pool \ {b}
  /\ content' = [content EXCEPT ![b] = f]
  /\ ring' = Append(ring, b)
  /\ landed' = Append(landed, f)
  /\ UNCHANGED <<ends, flowFilter, held, dpdk, burst, delivered, counts, view, returned>>

\* Ordinary traffic, or one odd frame in the middle of a call.
Traffic ==
  \E b \in Mbufs :
    \/ /\ Len(landed) < MaxFrames /\ Range(landed) \subseteq Frames
       /\ \E f \in Frames : FrameArrives(f, b)
    \/ landed = << >> /\ dpdk = "next" /\ \E f \in OddFrames : FrameArrives(f, b)
-----------------------------------------------------------------------------
\* next: the buffer of the last packet is freed first.
CallNext ==
  /\ dpdk = "idle"
  /\ dpdk' = "next"
  /\ pool' = pool \cup ({delivered} \ {NoMbuf})
  /\ delivered' = NoMbuf
  /\ view' = NoView
  /\ UNCHANGED <<ends, flowFilter, held, content, ring, burst, counts, landed, returned>>

Burst == SubSeq(ring, 1, Min({Len(ring), BurstSize}))

\* receiveBurst, once the cached burst is used up; next returns false when
\* the port has nothing.
ReceiveBurst ==
  /\ dpdk = "next" /\ burst = << >>
  /\ burst' = Burst
  /\ ring' = SubSeq(ring, Len(Burst) + 1, Len(ring))
  /\ dpdk' = IF Burst = << >> THEN "idle" ELSE "next"
  /\ UNCHANGED <<ends, flowFilter, held, pool, content, delivered, counts, view, landed, returned>>

\* The counters after a frame.
Tallied(p) ==
  LET verdict == CASE p.status = "Accepted"  -> p.line
                   [] p.status = "Filtered"  -> "filtered"
                   [] p.status = "Malformed" -> "malformed"
  IN  [counts EXCEPT ![verdict] = @ + 1, ![IF p.fast THEN "fast" ELSE "fallback"] = @ + 1]

\* A frame that is not delivered is freed.
Released(p, b) == IF p.status = "Accepted" THEN pool ELSE pool \cup {b}

\* The next frame of the burst is delivered, or freed and the loop goes on.
TakeFrame ==
  /\ dpdk = "next" /\ burst # << >>
  /\ LET b == Head(burst)
         p == Parse(content[b], ends)
     IN  /\ burst' = Tail(burst)
         /\ counts' = Tallied(p)
         /\ pool' = Released(p, b)
         /\ IF p.status = "Accepted"
              THEN /\ delivered' = b
                   /\ view' = [mbuf |-> b, frame |-> content[b]]
                   /\ returned' = Append(returned, content[b])
                   /\ dpdk' = "idle"
              ELSE UNCHANGED <<delivered, view, returned, dpdk>>
  /\ UNCHANGED <<ends, flowFilter, held, content, ring, landed>>

\* ~Impl begins: the buffer of the last packet is freed.
Destroy ==
  /\ dpdk = "idle"
  /\ dpdk' = "closing"
  /\ pool' = pool \cup ({delivered} \ {NoMbuf})
  /\ delivered' = NoMbuf /\ view' = NoView
  /\ UNCHANGED <<ends, flowFilter, held, content, ring, burst, counts, landed, returned>>

\* releaseCachedBurst, buffer by buffer.
ReleaseCached ==
  /\ dpdk = "closing" /\ burst # << >>
  /\ pool' = pool \cup {Head(burst)}
  /\ burst' = Tail(burst)
  /\ UNCHANGED <<ends, flowFilter, held, dpdk, content, ring, delivered, counts, view, landed, returned>>

\* Mutant of ReleaseOrder: the pool is freed before the port is closed.
ReleaseOrderPoolFirst == <<"flowA", "flowB", "isolation", "started", "pool", "device">>

\* The order of destroyFlowFilters and of the rest of ~Impl.
ReleaseOrder == <<"flowA", "flowB", "isolation", "started", "device", "pool">>

\* ~Impl gives back the next of what is held; the queue goes with the device.
\* Freeing the pool is the last it does.
GiveBack ==
  /\ dpdk = "closing" /\ burst = << >>
  /\ \E r \in held :
       /\ IsFirst(r, ReleaseOrder, held)
       /\ held' = held \ (IF r = "device" THEN {"device", "queue"} ELSE {r})
       /\ ring' \in CASE r = "started" -> {ring, << >>}
                       [] r = "device"  -> {<< >>}
                       [] OTHER         -> {ring}
       /\ dpdk' = IF r = "pool" THEN "destroyed" ELSE "closing"
  /\ pool' = pool \cup (Range(ring) \ Range(ring'))
  /\ UNCHANGED <<ends, flowFilter, content, burst, delivered, counts, view, landed, returned>>
-----------------------------------------------------------------------------
Owners == <<pool, Range(ring), Range(burst), {delivered} \ {NoMbuf}>>

\* Every buffer is in exactly one place: free, with the port, in the cached
\* burst or lent to the caller.  None is freed twice or lost, so that the port
\* never runs out of buffers, and the pool is complete when it is freed,
\* though frames arrive while the destructor runs.
BuffersConserved ==
  /\ UNION Range(Owners) = Mbufs
  /\ \A i, j \in DOMAIN Owners : i # j => Owners[i] \cap Owners[j] = {}
  /\ IsInjective(ring) /\ IsInjective(burst)
  /\ "pool" \notin held => pool = Mbufs

\* Whatever frame is taken from the port, the parsers read inside it and agree
\* on it.
ParsersAgree == \A i \in DOMAIN burst : Sound(content[burst[i]], ends)

Accepted(s) == Kept(s, {f \in Range(s) : Parse(f, ends).status = "Accepted"})

InBuffers(s) == [i \in DOMAIN s |-> content[s[i]]]

\* Until the receiver is destroyed the frames for the two lines are returned
\* in the order of arrival, each once, and every other frame is counted.
DpdkNothingLost ==
  dpdk \notin {"closing", "destroyed"} =>
    /\ Accepted(landed) = returned \o Accepted(InBuffers(burst \o ring))
    /\ counts.a + counts.b = Len(returned)
    /\ counts.a + counts.b + counts.filtered + counts.malformed
         = Len(landed) - Len(burst) - Len(ring)

\* The packet lent to the caller is unchanged until the next call.
DpdkViewIntact == view.mbuf # NoMbuf => content[view.mbuf] = view.frame
=============================================================================
