# Verification of astra-feed-engine

TLA+ models of the Nasdaq ITCH 5.0 / MoldUDP64 feed engine and of its replay
sender, TLC configurations that check them on small instances, and TLAPS
proofs, for every value of the constants, of every safety property the runs
check but those of the order book.

Run everything from this directory: `tlc -config MCX.cfg MCX` for a run,
`tlapm XProofs.tla` for the proofs of a module (from nothing they take about
an hour and a half together). `PROJECT.json` lists the runs, the theorems, the source lines each
definition stands for, and for each property a mutation of the model that
breaks it (an operator introduced as a mutant of another, which no
specification uses).

## The system

A sender replays an ITCH file as MoldUDP64 packets on two redundant lines, A
and B. The engine receives both lines, puts the packets into one ordered
stream, parses the ITCH messages and keeps a limit order book per stock.

| Part | Source | State | Operations |
| --- | --- | --- | --- |
| MoldUDP64 decoder | `src/codec/MoldUdpDecoder.cpp`, `include/astra/channel/` | next expected sequence number, health, heartbeat watermark, session, pending end marker, sticky terminal status | `processPacket`: control packets, data packets, drain of the gap buffer, end of session |
| Gap buffer | `include/astra/sequencing/GapBuffer.hpp` | open-addressing table of packets | `insert`, `find`, `erase`, `clear`, `empty` |
| ITCH parser | `src/parser/ItchParser.cpp` | channel phase, whether books are prepared | one handler per message type |
| Stock directory | `include/astra/symbol/StockDirectory.hpp` | ticker per locate, reverse index | `set`, `get`, `locateForTicker` |
| Book manager and order book | `src/book/BookManager.cpp`, `src/book/OrderBook.cpp` | books by locate, live counts, validity | prepare, add, cancel, delete, execute, replace, top of book |
| Order table | `src/book/OrderTable.cpp` | direct slots, fallback buckets, seen flags | `reserve`, `commit`, `find`, `erase` |
| Price level store | `src/book/PriceLevelStore.cpp` | pages, levels, bitmaps, cached bests | `reservePrice`, `commitReservation`, `add`, `reduce`, `erase`, `move`, `best`, `nextWorse` |
| Price bitmap | `include/astra/utils/PriceBitmap.hpp` | three levels of words | `set`, `reset`, the two searches, `empty` |
| Engine loop and exit | `src/engine/MarketDataEngine.cpp`, `apps/md_engine_main.cpp` | running flag, exit status | `run`, `stop`, signal handler |
| Engine start-up | `apps/md_engine_main.cpp` | stage reached, CPU affinity, the source that is open | options, capacity gate, pinning, opening the source, mapping the books, unwinding |
| UDP receivers | `src/source/*Udp*.cpp` | pending batches, drop counters, whose turn it is | `next`, `nextBatch` |
| DPDK receiver | `src/source/DpdkReceiver.cpp` | buffer pool, receive ring, burst, delivered buffer | initialization, `next`, the two frame parsers, destructor |
| Sender | `apps/itch_moldudp_sender_main.cpp` | two threads, hand-off, counters | data, heartbeat and end-of-session sends, stop |
| Send pacing | `include/astra/protocol/MoldUdpControlSchedule.hpp` and the sender's waits | three schedules, the premarket window | deadlines after a packet, a heartbeat, an end marker; start-up heartbeats, the pause after System Event S, the flat and the timestamp window |
| Replay source | `src/replay/itch/ItchMoldUdpSource.cpp` | file position, sequence number, completion, packet size | `next`, `setMessagesPerPacket`; the sender's scan for the premarket window |

How they interact. The engine is one thread: a receiver hands a datagram to the
decoder, which calls the parser once for each message that is next in
sequence; the parser drives the directory and the books; the result of the
call decides whether the loop goes on. Interleaving enters from outside: two
lines that lose, repeat and reorder packets independently, signals, and the
kernel's socket queues. The sender has two real threads that share one packet
buffer through an atomic generation counter.

What makes it hard: packets that overlap and arrive out of order; an end
marker that overtakes the data it closes; a gap buffer of fixed capacity;
hash tables with deletions and collisions; an order table, a level store and a
live count that every book mutation writes separately; caches of the best
price; mutations that fail half way; buffer reuse across threads, and by a
network card; two parsers for one frame and two loops for one packet cut;
deadlines that are missed. `PROJECT.json` lists these hazards at their lines, with the
properties that would catch each.

## Modules

### Decoder

`MoldUdpDecoder` is `processPacket`. A call is a sequence of steps under `pc`:
`Receive(p)` stands for the part up to the first message (each early return is
an action or a disjunct of one), then one step per message given to the parser
(`ApplyMessage`, `RejectMessage`), `FinishPacket`, one step per packet that the
drain takes from the gap buffer, and `FinishDrain`, which settles the health
and resolves a pending end marker. `ReceiveAfterTerminal` is the sticky
terminal status. `applied` is a history of the messages the parser accepted.
The parser is a parameter: a function from its state and a message to a state
or `Rejected`. The gap buffer is a set of packets with distinct first sequence
numbers and a capacity, which `GapBuffer` is shown to implement.

A packet is a record with its kind, session, first sequence number, messages
and `shape`: well formed, a size that contradicts the header, a message of a
wrong length, or more bytes than the gap buffer stores. `Wire` is the set of
packets that may ever arrive, each any number of times and in any order.

`SessionFeed` is what the decoder promises its consumer: a log that only grows,
by the message that belongs to the next sequence number, until the session is
complete or failed. `FeedSpec` states that the decoder implements it.

`ItchLifecycle` has the phases and the admission rules of the parser, and
`TradingDay` uses them as the parser of the shortest day (System Events O, S,
Q, M, E, C), so that the decoder is checked against a parser that refuses messages.

`MarketDataEngine` puts the decoder into the receive loop of `run`, with a
network of `Copies` lines, `stop` from a signal at any moment and the exit
status that `main` computes. `CleanBooks` stands for the final audit of directory
and books; the run lets it always pass, because `ItchChannel` models it and its
run shows that it finds nothing in a session without an error.

### Gap buffer

`GapBuffer` is the table itself: linear probing, and `erase` as one step that
finds the slot and one step per slot the backward shift visits. The hash
function is chosen in `Init` among all functions. `PacketStore` is the bounded
set of packets it must implement.

### Books

`OrderTable` and `PriceLevelStore` define tables and stores as values, with one
operator per method, because a mutation of `OrderBook` names the intermediate
ones (after a commit, before the move). `TableUse` is the order table on its
own, under any legal sequence of calls and every pair of hash functions, with
reservations held across other commits. `PriceBitmap` is the three-level
bitmap; `PriceLevelStore` uses sets of bits and extrema, which is what the
`price_bitmap` run establishes. `OrderBook` has one action per mutation with
all its checks in the code's order, the rollback of a refused replacement and
the corruption latch. `LimitOrders` is the abstract specification: a table of
orders in which a reference is used once a day, an order only loses shares or
leaves, and a replacement is a single step.

`ItchChannel` composes the parser's handlers with `StockDirectory`, the
phases, the set of prepared books and the live orders. Of the books it uses
only what `LimitOrders` promises.

### Receiving and sending

`DualReceiver` covers both dual receivers (one with batches); every receive
call is a step, so that datagrams arrive and are dropped in the middle of
`next`. A receive call may be interrupted or fail, whatever waits in the socket,
and so may the poll; `next` then finds nothing. Drop metrics are an option of
the plain receiver. The kernel puts its drop counter beside a datagram only
when it is not 0, so that nothing is counted at a datagram queued before the
first drop, or just when the counter has wrapped. `BatchReceiver` is `UdpBatchReceiver` used through `nextBatch`: a call
copies views one by one and refills its buffers only where the code may. The
kernel's queue and its drop counter are external.

`FrameParser` has the two frame parsers of the DPDK receiver as sequences of
checks in the order of the code, each with how much of the frame it reads.
`DpdkReceiver` follows every buffer: in the pool, in the receive ring, in the
burst, delivered. A step takes one frame of a burst; frames arrive in between.
Initialization is the sequence of its stages, each of which may throw. The
destructor is the sequence of its calls: the packet on loan, the cached burst
buffer by buffer, the flows, the isolation, stop, close, the pool. The port
receives from its start to its stop, what its flows let through while it is
isolated and everything once it is not; when its buffers come back from the
ring, at the stop or at the close, is the driver's choice. The driver is
external.

`PacketSources` is `main` of the engine from its options to its return: the
capacity gate, pinning, the source the options ask for, mapping the books, the
run, and a throw at any stage. The EAL changes the thread's affinity. A
`DpdkReceiver` whose constructor throws leaves the port as it is, since its
destructor does not run; the process exits at once.

`RedundantSender` has a step for every atomic access of the hand-off between
the main thread and line B's worker; sends fail, and an interrupt comes, at
any moment. Time is left out: a wait sends any number of heartbeats. `SendPacing`
has the time: start-up heartbeats, the data loop with its pause and its
premarket window, and the end markers, with sends that take time and sleeps
that end late, one after the other in a wait that sends a heartbeat. A rate of
0 switches the packet rate off. A configuration is chosen in `Init`. `ReplaySource` reads a file
record by record into packets, of the size the sender asks for; the scan with
which the sender looks for the premarket window is a fold over the same file.

## Runs

| Run | Module | Question | Bounds |
| --- | --- | --- | --- |
| `faulty_feed` | `MCFaultyFeed` | Does the decoder keep its promises against packets that are lost, repeated, reordered, cut differently, damaged, contradictory, foreign or past the end? | Twenty packets around a day of six messages, a buffer of two, sequence numbers up to 12 before they overflow. Every action and disjunct of the decoder is taken. |
| `mixed_cuts` | `MCMixedCuts` | Does the drain leave nothing behind when the lines cut the stream differently? It does not (see below). | All packets of one or two messages out of six. |
| `engine` | `MCEngine` | Does an undisturbed run recover and succeed, does success mean complete, does stopping end the process? | Four data packets and the end marker on two lines; a buffer of two, so that it can overflow. `stop_on_decode_error` and `stop_on_sequence_gap` are off, as `EngineConfig` has them. |
| `gap_buffer` | `MCGapBuffer` | Is the table a bounded set of packets under every hash function? | Four slots, five sequence numbers: chains wrap, fill the table and overflow it. |
| `price_bitmap` | `MCPriceBitmap` | Are the summaries exact and the searches right? | Words of three bits, two of them at the middle level: all 2^18 sets of indices, with a first, a middle and a last bit in a word. |
| `table_use` | `MCTableUse` | Are references unique for the day, and is a live order always found? | One direct and three fallback references, four buckets of one way, two reservations held: every way in which the candidates can collide. |
| `books` | `MCBooks` | Do the published levels, live counts and orders agree through every sequence of mutations? | Two stocks, three orders, quantities 1 and 2, pages of three levels, two pages for both stocks, two orders to a level, four prices: pages run out, page bitmaps appear and collapse, levels fill, empty and are walked across pages. |
| `itch_channel` | `MCItchChannel` | Do directory, books and orders stay consistent through every message sequence? | Two stocks, two tickers, three references, a ticker index of four slots, every hash. |
| `redundant_sender` | `MCRedundantSender` | Do both lines carry the same stream, do failures suppress the end, does the sender always end? | Three messages, packets of up to two, one start-up and two periodic heartbeats, two end markers. |
| `replay_source` | `MCReplaySource` | Are the packets a cut of the file, and is completion reported exactly for a whole day? | Files of up to five records of eleven kinds: every one that opens with O and is not read past a torn record, and every single record; packets of one or three messages, single messages in a timestamp window. |
| `packet_sources` | `MCPacketSources` | Is anything lost, miscounted, starved, overwritten or leaked between the network and the decoder, from start-up to return? | Six datagrams, up to two of them on line B, sockets and batches of two, a drop counter of three values, which wraps between two datagrams; three buffers, a ring and a burst of two, four frames; 8,000 frames around every length the parsers compare. |
| `send_pacing` | `MCSendPacing` | Is the rate a strict bound, is the line never silent, are deadlines kept, do control packets keep their distance? | A second of seven ticks, rates that divide it and that do not, no rate, both premarket modes, a pause, wake-ups up to two ticks late, a clock that runs out. |

Deadlock is checked except where the modelled program stops: the sender's two
programs and the engine's `main` end, the parser is called no more after a
failure, and every order reference of `table_use` is used up.

Symmetry is used where values are only compared, hashed (under every hash) or
used as indices: sequence numbers in `gap_buffer`, fallback references in
`table_use`, stocks and references in `books`, buffers in `packet_sources`. None of these runs has a
liveness property. `books` tries one price, quantity and side, instead of all,
in a message that its stock and references alone have refused.

### What is checked

- Decoder: every sequence number is given to the parser once and in order
  (`ExactlyOnceInOrder`, and `FeedSpec` as a refinement); the health is truthful
  between calls (`HealthTruthful`); the end is accepted only when complete
  (`EndIsComplete`) and is not missed (`NoMissedEnd`); a buffered packet is kept
  until applied (`BufferedUntilApplied`); no verdict is taken back
  (`NothingTakenBack`).
- Engine: the process reports success only for a session all of whose packets
  some line delivered (`SuccessIsComplete`); undisturbed, it closes every gap
  and exits successfully (`RecoversAndExits`); a signal or a terminal status
  ends it (`StopEndsTheProcess`).
- Gap buffer: the table implements a bounded set of packets, so that deletion
  never hides one (`StoreSpec`).
- Bitmap and order table: summaries and searches are exact (`SearchesExact`); a live order is found and a dead one is not
  (`FindsTheLiving`); a reference is refused exactly when it has been used
  (`DayUnique`).
- Books: the published levels and live counts are those of the live orders and no
  sequence of messages makes a book find itself corrupt (`BooksExact`), and
  every mutation is one a limit order book may make (`ImplementsLimitOrders`).
- Parser: the ticker index inverts the directory (`IndexExact`), books follow the
  directory (`BooksFollowDirectory`), an order stays under the ticker it was
  added for (`OrdersAreIdentified`) and within the hours (`OrdersKeepHours`).
- Sender: both lines carry the same packets (`LinesAgree`), control packets name
  the right sequence number (`ControlTruthful`), neither an end marker nor exit
  status 0 follows a failure (`EndIsHonest`), and the program ends
  (`Terminates`).
- Replay source: packets are a cut of the file (`CutsTheFile`), completion is
  claimed exactly for a whole day and as soon as the last packet is out
  (`CompletionHonest`), the scan and the source cut the premarket window alike
  (`WindowExact`), and the end is reached (`ReachesTheEnd`).
- Pacing: the rate is a strict bound, across a premarket window too
  (`StrictRate`); waits and pauses do not silence the line for longer than the
  heartbeat interval, one late wake-up and one send (`NeverSilent`); start-up heartbeats and the premarket window keep to their schedules
  (`OnSchedule`); control packets keep their distance (`ControlsApart`).
- Sources: nothing is lost or reordered between socket or ring and the decoder
  (`SourceLosesNothing`). With drop metrics the count is the kernel's wherever
  the last datagram read showed it, and less than a turn of the counter behind
  where it did not (`DropsExact`; the kernel is taken to drop less than a turn
  between two datagrams that show the counter, which no receiver could tell).
  Between two reads of a line at most one packet of the other is returned
  (`NotBypassed`), and what was handed out stays as it was
  until the next call (`ViewsIntact`). Every DPDK buffer has one owner and comes
  back before the pool is freed (`BuffersConserved`), and the two frame parsers agree and read inside
  the frame (`ParsersAgree`).
- Start-up: the books are mapped on the requested CPU; of a port nothing is
  given back while something set up on it is held, and nothing is held at the
  end, however far start-up came (`OrderlyStartAndStop`).

### A disagreement with the code's own comment

`drainGapBuffer` looks for buffered packets at most
`kMaxMessagesPerStoredPacket` sequence numbers below the next expected one, and
takes the nearest first. The comment at `src/codec/MoldUdpDecoder.cpp:399-402`
says that the search also removes a buffered packet that a bridge fully
subsumed. When the lines cut the stream into different packets, a subsumed
packet can fall behind that distance while nearer ones are drained; it is then
never removed, the buffer is never empty again, and the end of the session is
not accepted. `mixed_cuts` is TLC's counterexample. When both lines cut the
stream into the same packets, as the replay sender does, recovery completes
(`RecoversAndExits`, on the instance of `engine`).

### Fairness

- Engine: weak fairness of the steps of a running call and of the loop
  (`Decode`, `HandleResult`, `Exit`): one thread that never blocks. Weak
  fairness of reading some packet: the loop polls for ever, so what has reached
  a socket is read. No fairness is assumed of which packet comes next, of loss
  or of signals. `RecoversAndExits` has its assumptions in the formula: some
  copy of every packet survives, the buffer does not overflow, no interrupt.
- Sender: weak fairness of each thread; both poll without blocking, on CPUs of
  their own. None of interrupts or failures.
- Replay source: weak fairness of the sender's loop around it, a single thread.

## Proofs

What is proved, for every value of the constants that meets the assumptions.
`SenderProofs` is about `RedundantSender` and `SendPacing`, `BookStorageProofs`
about `TableUse` and `PriceBitmap`, and `KernelReceiverProofs` holds the lemmas
about the socket receivers on which `PacketSourcesProofs` rests; the other
modules are about the module they are named after (`MarketDataEngineProofs`
about the decoder too).

| Module | Theorem | States |
| --- | --- | --- |
| `MarketDataEngineProofs` | `TypeCorrect` | `Spec => []TypeOK` |
| | `OrderedDelivery` | `Spec => []ExactlyOnceInOrder` |
| | `TruthfulHealth` | `Spec => []HealthTruthful` |
| | `CompleteEnd` | `Spec => []EndIsComplete` |
| | `EndNotMissed` | `Spec => []NoMissedEnd` |
| | `ImplementsFeed` | `Spec => FeedSpec` |
| | `VerdictsStand` | `Spec => NothingTakenBack` |
| | `BufferedKept` | `Spec => BufferedUntilApplied` |
| | `EngineDrivesDecoder` | `EngineSpec => Spec` |
| | `SuccessMeansComplete` | `EngineSpec => []SuccessIsComplete` |
| `GapBufferProofs` | `TableSound` | `Spec => []TableInv` |
| | `ImplementsStore` | `Spec => StoreSpec` |
| | `FindSound` | `Spec => []FindExact` |
| `BookStorageProofs` | `LivingAreFound` | `UseSpec => []FindsTheLiving` |
| | `UniqueForTheDay` | `UseSpec => []DayUnique` |
| | `SummariesExact` | `BitmapSpec => []BitmapInv` |
| | `SearchesSound` | `BitmapSpec => []SearchesExact` |
| `ItchChannelProofs` | `IndexAlwaysExact` | `Spec => []IndexExact` |
| | `BooksAlwaysFollow` | `Spec => []BooksFollowDirectory` |
| | `OrdersAlwaysIdentified` | `Spec => []OrdersAreIdentified` |
| | `OrdersAlwaysKeepHours` | `Spec => OrdersKeepHours` |
| `PacketSourcesProofs` | `ParsersSound` | `Sound(f, ends)` for every frame `f` and all endpoints |
| | `BuffersNeverLost` | `MainSpec => []BuffersConserved` |
| | `ParsersAlwaysAgree` | `MainSpec => []ParsersAgree` |
| | `ViewsNeverOverwritten` | `MainSpec => []ViewsIntact` |
| | `StartsAndStopsOrderly` | `MainSpec => []OrderlyStartAndStop` |
| | `NeverBypassed` | `MainSpec => []NotBypassed` |
| | `DropsCounted` | `MainSpec => []DropsExact` |
| | `NothingIsLost` | `MainSpec => []SourceLosesNothing` |
| `SenderProofs` | `LinesAlwaysAgree` | `Spec => []LinesAgree` |
| | `NumbersTruthful` | `Spec => []ControlTruthful` |
| | `EndsHonest` | `Spec => []EndIsHonest` |
| | `RateIsStrict` | `PacingSpec => StrictRate` |
| | `LineNeverSilent` | `PacingSpec => NeverSilent` |
| | `ControlsStayApart` | `PacingSpec => ControlsApart` |
| | `SchedulesKept` | `PacingSpec => []OnSchedule` |
| `ReplaySourceProofs` | `SourceSound` | `Spec => []SourceInv` |
| | `CutsSound` | `Spec => []CutsTheFile` |
| | `CompletionSound` | `Spec => []CompletionHonest` |
| | `WindowSound` | `Spec => []WindowExact` |

Assumptions, each evaluated by TLC in the run of its module:

- `ParserAssumption`: the parser is a function with values in its states or
  `Rejected`. `BoundAssumption`: the bounds are natural numbers, the buffer and
  a packet hold something, and no session is the absent one. `WireAssumption`:
  the wire's packets have the fields of packets, a data packet carries at least
  one message, and one that fits the buffer carries at most `MaxStored`.
- `EngineAssumption`: there is at least one line, and the clean books are parser
  states.
- `CapacityAssumption`, `PacketAssumption`: the gap buffer has a slot, a packet is
  a sequence number with a content, and the empty slot is no packet.
- `TableAssumption`: there are buckets and ways, and the absent order is none.
  `BitmapAssumption`: words have a bit, and there are at most as
  many middle words as the top word has bits.
- `DirectoryAssumption`: 0 is no locate, the empty ticker is none, and the index
  is larger than the number of locates.
- `DpdkAssumption`: ring and burst hold something, and the fields of frames are
  natural numbers and truth values (`IsFrame`).
- `ReceiverAssumption`, `BatchAssumption`: rooms, batches and the range of the drop
  counter are positive, and arrivals are bounded by natural numbers.
- `SourceAssumption`: datagram and packet have room for something, and files are
  sequences of the eleven kinds of records.
- `SenderAssumption`, `PacingAssumption`: counts and intervals are natural
  numbers, intervals fit the clock, and the rate is none or at most one packet a
  tick.

### The inductive invariants

None of the invariants the runs check is inductive alone.

Decoder (`IndInv`). `ExactlyOnceInOrder`
speaks of `nextSeq` between calls, but during a call `nextSeq` stands still
while `at` advances, so `PositionInv` ties `at`, `nextSeq` and the length of
`applied` at each `pc`, and says that a call in progress has no terminal
status. `AppliedInv` says that each accepted message is one a packet carries
under its number. `HealthTruthful` needs `HealthInv`: `Invalid` is equivalent to
a terminal failure, during calls too. `NoMissedEnd` needs to know what a
pending marker did to the watermark: `PendingInv` says that the watermark equals the marker, or was
cleared when the stream reached it, or that the channel is stale; and that the
health is not Good between calls while a marker is pending. `IndInv` is their
conjunction with `TypeOK` and `EndIsComplete`. There is one lemma for each kind of step; `FailureStep` and
`QuietStep` carry the two shapes that most branches share (a terminal failure,
and a step that leaves position and history alone). The refinement rests on
`StepShape`: only `ApplyMessage` adds to the log, only while the session is
open, and a terminal status is never replaced.

Engine (`EngineInv`). A step of the engine is a step of the decoder or leaves it
alone, so `EngineSpec` implies the decoder's `Spec` and its theorems carry over.
`EvidenceInv` says that whatever the decoder holds, applied or was told came in
a packet the network delivered; with `CompleteEnd` that is `SuccessIsComplete`.

Order table (`TableInv`). `FallbackInv`: a reference has been in at most one cell,
and the cells its scan meets before that one are taken. Since a commit uses a
reservation made earlier, `HeldInv` says of each one held that nothing before
its cell is free, and that its cell is taken once its reference has been
committed, so that committing it is refused.

Channel (`ChannelInv`). `IndexInv`: an entry is met by the probe for its ticker
before an empty slot, and no two stocks share a ticker. The second follows from
the refusal of a ticker that is found, which needs the first. `OrderInv` says that
the books are prepared exactly outside the start-up phases, that they are those
of the directory then, and that an order is in one of them; `set` never changes
an entry, so an order keeps its ticker.

Sources (`MainInv`). `BufferInv`: pool, ring, burst and loan share the buffers
out without overlap, at each stage of start-up; `ContentInv`: ring and burst hold
frames, and the buffer on loan holds what the caller was given. `HeldInv` says
what each thing held of the port was set up on; `FirstSetUp` and `FirstGivenBack`
read it off the two orders, and a ring is empty without its port, so that the
pool is complete when its turn comes. `BootInv` ties the
stage of `main` to what it holds. `ParsersSound` compares the parsers as sequences
of checks: the first check of the fast one that fails is matched with the first of
the general one, and each check reads only what the earlier ones found present.
`TurnInv` (in `KernelReceiverProofs`, an invariant by itself): a line that was
passed over is asked first at the next call, before the other line can
deliver again.

What goes through the receivers is said with sequences. `Kept`, the members of a
sequence that lie in a set, is a recursive function, of which the prover knows
nothing: that it exists, and what it does to `Append` and `\o`, is shown by
induction on the length (`NatSet`, `SeqSet`, which have a set for what is shown
where the library's theorems have an operator). `SocketInv`: what was returned,
what is pending and what is queued make up what the socket accepted. Its
`DropsInv` follows what the receiver will know (`ShownAt`) along the queue: it
changes only at a datagram that shows the counter, to the true count there, by
less than the counter's range, so that the differences, taken modulo that range,
add up to the drops; and between those it is less than a turn behind (`Known`).
`OrderInv` says the same of the batch receiver's buffers, with those
too large left out; `TraceInv` of the DPDK receiver, where every frame that landed is
returned, waiting, or counted with the reason it was refused for.

Gap buffer (`TableInv`). `PathInv`: a probe meets no free slot before its entry.
It is broken while `erase` shifts: `BreakInv` says that the hole is the only free slot
on a path, and only for entries the scan has not yet come to, and `ShiftInv` places hole
and scan on one run of taken slots; so the shift ends with every path whole. The refinement maps the table to the
set of its packets without the hole.

Bitmap (`BitmapInv`). A bit of a summary is set exactly when the word below it is
not empty. The searches then follow from the division of an index into its
three digits (`Digits`, `Order`): the predecessor is in the index's own word, or
the last of the nearest word that is not empty, one level up.

Sender (`SenderInv`). `HandInv`: the worker is sending or acknowledging only while
the main thread awaits it, so packet buffer and pointer stand still under it;
`AwaitInv` says, for each point of the worker's loop, what generation it has seen
and what its line carries. `ControlTruthful` and `EndIsHonest` need `HonestInv`: the log of
packets is a chain of numbers that ends where the file has been read to, less what
the main thread holds, and after the loop a failure or an interrupt has been
noted before anything can be claimed.

Replay source (`ReplayInv`). `ReadInv` says what the flags tell of the records read,
`CutInv` that the packets made and the one being built are the file up to the position,
`EndInv` what completion rests on. `WindowInv` relates the sender's scan, a recursive
function of the position, to the packets: while the scan's window is open some packet opened
it, and the packets since are those the scan counted.

Pacing (`PacingInv`). `RateInv` carries a due interval from the send through the
pause and the wait to the next fetch; `HeartbeatInv` ties the next heartbeat to the
last packet; `StartupInv` and `FlatInv` place each deadline at a multiple of the
interval, which lateness does not enter; `WindowInv` says that a window opens
once. Rounding a period up is `RoundedUp`.

### Only model-checked

- Liveness (`RecoversAndExits`, `StopEndsTheProcess`, `Terminates`,
  `ReachesTheEnd`), which is out of the prover's reach.
- The books. `BooksExact` and `ImplementsLimitOrders` take the sum of the live orders
  over each level, through three structures that one mutation writes one after
  the other; their proofs are not written. What the books rest on, order table
  and bitmap, is proved.

## What is not modelled

- Byte layouts: headers, big-endian fields, message lengths and price
  conversion. Models work on decoded records; a malformed packet is a shape.
- Timestamps, counters for reporting and latency stages; no behaviour depends
  on them.
- Memory mapping and allocation failures: everything is allocated before the
  first packet, and failure ends the process.
- Level totals cannot overflow before the order count does (`MaxTotal >=
  MaxCount * MaxQty`, as 64 and 32 bits give). A level that is full stands for
  2^32 - 1 orders. In `books` a replacement meets a full level only under its
  own reference; under a new one it would take a fourth order.
- `UdpBatchReceiver::nextBatch` has no caller in the engine; the model lets a
  caller use what it got until its next call. Socket set-up, EAL arguments and statistics are left out.
- `UdpSender::send` reports a failure by its result and throws nothing, so a
  worker does not fail after its start.
- The capacity profile: the gate is a stage of start-up that passes or throws.
- Benchmarks and scripts.
- In `ItchParser::handleStockDirectory` the branch for the phase before Start
  of Messages cannot be reached, since the dispatcher refuses the message
  earlier.

## Plan

Built, in this order: decoder and engine; gap buffer; bitmap, order table,
books; directory and parser; sender, replay source, receivers, pacing; the
decoder's proofs. Then: the DPDK receiver, batches and start-up around the
receivers; premarket windows, pauses and start-up heartbeats in `SendPacing`; the
premarket scan beside `ReplaySource`; the proofs about engine, order table,
channel, sources, sender and pacing; then those about gap buffer, bitmap and replay source, and
about what the receivers and the sender carry.

Next, modelling: sender and decoder composed over two lines, so that
`ControlTruthful` meets `HealthTruthful`.

Next, proofs: `BooksExact` and `ImplementsLimitOrders`.
