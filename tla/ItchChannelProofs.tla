------------------------- MODULE ItchChannelProofs --------------------------
(***************************************************************************)
(* The parser keeps the directory, the books and the orders consistent     *)
(* through any sequence of messages, for any number of stocks, tickers and *)
(* orders, and whatever the tickers hash to.                               *)
(***************************************************************************)
EXTENDS ItchChannel, WellFoundedInduction, TLAPS

\* The SMT solver may take up to two minutes on a step.
USE SMTT(120)

Spin == {"WaitingStartOfMessages", "StartupDirectorySpin", "StartupAdminSpin"}

\* The entry of a registered stock is met by the probe for its ticker before
\* an empty slot, the index points to registered stocks only, and no two
\* stocks share a ticker.
IndexInv ==
  /\ directory.entries \in [Locates -> Tickers \cup {NoTicker}]
  /\ directory.index \in [Slots -> Locates \cup {kInvalidStockLocate}]
  /\ tickerHash \in [Tickers -> Slots]
  /\ \A l \in Registered : \E p \in Slots :
       /\ directory.index[Slot(directory.entries[l], p)] = l
       /\ \A q \in Slots : q < p =>
            directory.index[Slot(directory.entries[l], q)] # kInvalidStockLocate
  /\ \A s \in Slots : directory.index[s] # kInvalidStockLocate => directory.index[s] \in Registered
  /\ \A l, m \in Registered : directory.entries[l] = directory.entries[m] => l = m

\* The books are those of the directory once they have been prepared, and the
\* orders are in them, inside the hours.
OrderInv ==
  /\ phase \in Phases /\ prepared \in BOOLEAN
  /\ prepared <=> phase \notin Spin
  /\ books = (IF prepared THEN Registered ELSE {}) /\ priced = books
  /\ live \in [Refs -> Locates \cup {Dead}] /\ named \in [Refs -> Tickers \cup {NoTicker}]
  /\ \A r \in LiveRefs : live[r] \in books /\ directory.entries[live[r]] = named[r] /\ r \in seen
  /\ phase = "EndOfMessages" => LiveRefs = {}

ChannelInv == IndexInv /\ OrderInv

\* A set of natural numbers that is not empty has a least one.
LEMMA LeastNumber ==
  ASSUME NEW I \in SUBSET Nat, I # {}
  PROVE  Min(I) \in I /\ \A m \in I : Min(I) <= m
<1> DEFINE Less == {ss \in Nat \X Nat : ss[1] < ss[2]}
<1>1. IsWellFoundedOn(Less, Nat)
  BY NatLessThanWellFounded DEF OpToRel
<1> HIDE DEF Less
<1>2. PICK n \in I : \A m \in I : <<m, n>> \notin Less
  BY <1>1, WFMin, Zenon
<1>3. ASSUME NEW m \in I
      PROVE  n <= m
  <2>1. m \in Nat /\ n \in Nat /\ <<m, n>> \in Nat \X Nat
    OBVIOUS
  <2>2. m < n => <<m, n>> \in Less
    BY <2>1 DEF Less
  <2> QED
    BY <1>2, <2>1, <2>2
<1> QED
  BY <1>3, Zenon DEF Min

\* A probe looks at slots of the index.
LEMMA SlotInIndex ==
  ASSUME tickerHash \in [Tickers -> Slots], NEW t \in Tickers, NEW p \in Slots
  PROVE  Slot(t, p) \in Slots
<1>1. IndexCapacity \in Nat /\ IndexCapacity > 0
  BY DirectoryAssumption DEF Slots
<1>2. tickerHash[t] + p \in Int
  BY DEF Slots
<1> QED
  BY <1>1, <1>2 DEF Slot, Slots

\* FirstProbe is the first probe that meets one of the slots.
LEMMA FirstProbeFirst ==
  ASSUME NEW t, NEW slots
  PROVE  /\ FirstProbe(t, slots) \in Slots \cup {IndexCapacity}
         /\ FirstProbe(t, slots) # IndexCapacity => Slot(t, FirstProbe(t, slots)) \in slots
         /\ \A q \in Slots : Slot(t, q) \in slots => FirstProbe(t, slots) <= q
<1> DEFINE I == {p \in Slots : Slot(t, p) \in slots} \cup {IndexCapacity}
<1>1. I \in SUBSET Nat /\ I # {}
  BY DirectoryAssumption DEF Slots
<1>2. Min(I) \in I /\ \A m \in I : Min(I) <= m
  <2> HIDE DEF I
  <2> QED
    BY <1>1, LeastNumber
<1> QED
  BY <1>2 DEF FirstProbe

\* A ticker is found at its own locate, and only a registered one is.
LEMMA FoundExactly ==
  ASSUME IndexInv, NEW t \in Tickers, NEW l \in Locates
  PROVE  directory.entries[l] = t <=> LocateForTicker(directory, TextOf(t)) = l
<1> DEFINE d     == directory
           stops == {s \in Slots : \/ d.index[s] = kInvalidStockLocate
                                   \/ TextOf(d.entries[d.index[s]]) = TextOf(t)}
           p     == FirstProbe(t, stops)
<1>1. LocateForTicker(d, TextOf(t)) =
        IF p = IndexCapacity THEN kInvalidStockLocate ELSE d.index[Slot(t, p)]
  BY DEF LocateForTicker, TextOf
<1>2. \A s \in stops : d.index[s] = kInvalidStockLocate \/ d.entries[d.index[s]] = t
  BY DEF TextOf
<1>3. /\ p \in Slots \cup {IndexCapacity}
      /\ p # IndexCapacity => Slot(t, p) \in stops
      /\ \A q \in Slots : Slot(t, q) \in stops => p <= q
  <2> HIDE DEF stops
  <2> QED
    BY FirstProbeFirst
<1>4. kInvalidStockLocate \notin Locates /\ NoTicker \notin Tickers /\ IndexCapacity \in Nat
  BY DirectoryAssumption DEF kInvalidStockLocate
<1>5. ASSUME d.entries[l] = t
      PROVE  LocateForTicker(d, TextOf(t)) = l
  <2>1. l \in Registered
    BY <1>4, <1>5 DEF Registered, IsRegistered
  <2>2. PICK k \in Slots : /\ d.index[Slot(t, k)] = l
                           /\ \A q \in Slots : q < k => d.index[Slot(t, q)] # kInvalidStockLocate
    BY <1>5, <2>1 DEF IndexInv
  <2>3. Slot(t, k) \in stops
    BY <1>5, <2>2, SlotInIndex DEF IndexInv
  <2>4. p <= k /\ p \in Slots /\ p # IndexCapacity /\ k < IndexCapacity
    <3>1. p <= k
      BY <1>3, <2>2, <2>3, Zenon
    <3> HIDE DEF p, stops
    <3> QED
      BY <1>3, <1>4, <3>1 DEF Slots
  <2>5. d.index[Slot(t, p)] # kInvalidStockLocate
    <3>1. p = k \/ p < k
      <4> HIDE DEF p
      <4> QED
        BY <2>4 DEF Slots
    <3> QED
      BY <1>4, <2>2, <2>4, <3>1
  <2>6. /\ Slot(t, p) \in Slots /\ d.entries[d.index[Slot(t, p)]] = t
    BY <1>2, <1>3, <2>4, <2>5, Zenon
  <2>7. d.index[Slot(t, p)] \in Registered
    BY <2>5, <2>6, Zenon DEF IndexInv
  <2>8. d.index[Slot(t, p)] = l
    BY <1>5, <2>1, <2>6, <2>7, Zenon DEF IndexInv
  <2> QED
    BY <1>1, <2>4, <2>8
<1>6. ASSUME LocateForTicker(d, TextOf(t)) = l
      PROVE  d.entries[l] = t
  <2>1. p # IndexCapacity /\ d.index[Slot(t, p)] = l
    BY <1>1, <1>4, <1>6
  <2> QED
    BY <1>2, <1>3, <1>4, <2>1, Zenon
<1> QED
  BY <1>5, <1>6

\* A stock that set() accepts leaves the index an inverse: it takes the first
\* empty slot of its probe, and no probe of another stock passes through it.
LEMMA SetPreserves ==
  ASSUME IndexInv, NEW l \in Locates, NEW name \in Tickers,
         ~IsRegistered(directory, l), SetAccepts(directory, l, name),
         directory' = Set(directory, l, name), UNCHANGED tickerHash
  PROVE  IndexInv' /\ Registered' = Registered \cup {l}
<1> DEFINE d == directory
           e == EmptyProbe(d, name)
           h == Slot(name, e)
<1>1. /\ e \in Slots /\ h \in Slots /\ d.index[h] = kInvalidStockLocate
      /\ \A q \in Slots : q < e => d.index[Slot(name, q)] # kInvalidStockLocate
  <2> DEFINE free == {s \in Slots : d.index[s] = kInvalidStockLocate}
  <2>1. e = FirstProbe(name, free)
    BY DEF EmptyProbe
  <2>2. /\ e \in Slots \cup {IndexCapacity}
        /\ e # IndexCapacity => Slot(name, e) \in free
        /\ \A q \in Slots : Slot(name, q) \in free => e <= q
    <3> HIDE DEF free, e
    <3> QED
      BY <2>1, FirstProbeFirst
  <2>3. e < IndexCapacity
    BY DEF SetAccepts
  <2>4. e \in Slots /\ h \in free
    <3> HIDE DEF free, e
    <3> QED
      BY <2>2, <2>3, DirectoryAssumption
  <2>5. \A q \in Slots : q < e => Slot(name, q) \notin free
    <3> HIDE DEF free, e
    <3> QED
      BY <2>2, <2>4 DEF Slots
  <2>6. \A q \in Slots : Slot(name, q) \in Slots
    BY SlotInIndex DEF IndexInv
  <2> QED
    BY <2>4, <2>5, <2>6
<1>2. /\ directory'.entries = [d.entries EXCEPT ![l] = name]
      /\ directory'.index = [d.index EXCEPT ![h] = l]
  BY DEF Set
<1> HIDE DEF e, h
<1>3. kInvalidStockLocate \notin Locates /\ NoTicker \notin Tickers
  BY DirectoryAssumption DEF kInvalidStockLocate
<1>4. /\ directory'.entries \in [Locates -> Tickers \cup {NoTicker}]
      /\ directory'.index \in [Slots -> Locates \cup {kInvalidStockLocate}]
      /\ tickerHash' \in [Tickers -> Slots]
  BY <1>1, <1>2 DEF IndexInv
<1>5. /\ directory'.entries[l] = name /\ directory'.index[h] = l
      /\ \A m \in Locates : m # l => directory'.entries[m] = d.entries[m]
      /\ \A s \in Slots : s # h => directory'.index[s] = d.index[s]
  BY <1>1, <1>2 DEF IndexInv
<1>6. Registered' = Registered \cup {l}
  BY <1>3, <1>5 DEF Registered, IsRegistered
<1>7. l \notin Registered /\ \A m \in Registered : m \in Locates /\ d.entries[m] \in Tickers
  BY DEF Registered, IsRegistered, IndexInv
<1>8. \A m \in Registered : d.entries[m] # name
  <2>1. LocateForTicker(d, TextOf(name)) = kInvalidStockLocate
    BY DEF SetAccepts
  <2> QED
    BY <1>3, <1>7, <2>1, FoundExactly
<1>9. ASSUME NEW m \in Registered'
       PROVE  \E p \in Slots :
                /\ directory'.index[Slot(directory'.entries[m], p)] = m
                /\ \A q \in Slots : q < p =>
                     directory'.index[Slot(directory'.entries[m], q)] # kInvalidStockLocate
  <2>1. \A s \in Slots : d.index[s] # kInvalidStockLocate => directory'.index[s] = d.index[s]
    BY <1>1, <1>5
  <2>2. CASE m = l
    <3>1. \A q \in Slots : q < e => directory'.index[Slot(name, q)] # kInvalidStockLocate
      BY <1>1, <2>1, SlotInIndex DEF IndexInv
    <3>2. directory'.index[Slot(name, e)] = l
      BY <1>5 DEF h
    <3> QED
      BY <1>1, <1>5, <2>2, <3>1, <3>2
  <2>3. CASE m # l
    <3>1. m \in Registered /\ m \in Locates /\ directory'.entries[m] = d.entries[m]
          /\ d.entries[m] \in Tickers
      BY <1>5, <1>6, <1>7, <2>3
    <3>2. PICK p \in Slots : /\ d.index[Slot(d.entries[m], p)] = m
                             /\ \A q \in Slots : q < p =>
                                  d.index[Slot(d.entries[m], q)] # kInvalidStockLocate
      BY <3>1 DEF IndexInv
    <3>3. \A q \in Slots : Slot(d.entries[m], q) \in Slots
      BY <3>1, SlotInIndex DEF IndexInv
    <3>4. directory'.index[Slot(d.entries[m], p)] = m
      BY <1>3, <2>1, <3>1, <3>2, <3>3
    <3>5. \A q \in Slots : q < p => directory'.index[Slot(d.entries[m], q)] # kInvalidStockLocate
      BY <2>1, <3>2, <3>3
    <3> QED
      BY <3>1, <3>4, <3>5
  <2> QED
    BY <2>2, <2>3, Zenon
<1>10. \A s \in Slots : directory'.index[s] # kInvalidStockLocate => directory'.index[s] \in Registered'
  BY <1>5, <1>6 DEF IndexInv
<1>11. \A m, n \in Registered' : directory'.entries[m] = directory'.entries[n] => m = n
  BY <1>5, <1>6, <1>7, <1>8 DEF IndexInv
<1> QED
  <2>1. (\A m \in Registered : \E p \in Slots :
          /\ directory.index[Slot(directory.entries[m], p)] = m
          /\ \A q \in Slots : q < p =>
               directory.index[Slot(directory.entries[m], q)] # kInvalidStockLocate)'
    BY <1>9, Zenon DEF Slot
  <2>2. (\A s \in Slots : directory.index[s] # kInvalidStockLocate => directory.index[s] \in Registered)'
    BY <1>10
  <2> QED
    BY <1>4, <1>6, <1>11, <2>1, <2>2, Zenon DEF IndexInv

\* A step that leaves the directory alone leaves the index as it was.
LEMMA SameDirectory ==
  ASSUME IndexInv, UNCHANGED <<tickerHash, directory>>
  PROVE  IndexInv' /\ Registered' = Registered
<1>1. Registered' = Registered
  BY Zenon DEF Registered
<1>2. \A t, q : Slot(t, q)' = Slot(t, q)
  BY Zenon DEF Slot
<1> QED
  BY <1>1, <1>2, ZenonT(60) DEF IndexInv

\* Stock Directory: a message is refused, repeats an entry or adds a stock.
LEMMA StockDirectoryPreserves ==
  ASSUME ChannelInv, NEW l \in Locates \cup {kInvalidStockLocate}, NEW f \in Fields,
         HandleStockDirectory(l, f), DirectoryAccepts(l, f)
  PROVE  ChannelInv'
<1>1. l \in Locates /\ SetAccepts(directory, l, f.name) /\ f.name \in Tickers
  BY DEF DirectoryAccepts, SetAccepts, Fields
<1>2. /\ directory' = Set(directory, l, f.name)
      /\ books' = books \cup (IF prepared THEN {l} ELSE {})
      /\ priced' = priced \cup (IF prepared THEN {l} ELSE {})
      /\ UNCHANGED <<tickerHash, phase, prepared, live, seen, named>>
  BY DEF HandleStockDirectory, Create, orderVars
<1>3. CASE IsRegistered(directory, l)
  <2>1. UNCHANGED directory
    BY <1>2, <1>3 DEF Set
  <2>2. IndexInv' /\ Registered' = Registered
    BY <1>2, <2>1, SameDirectory DEF ChannelInv
  <2>3. l \in Registered
    BY <1>1, <1>3 DEF Registered
  <2>4. books' = books /\ priced' = priced
    BY <1>2, <2>3 DEF ChannelInv, OrderInv
  <2> QED
    BY <1>2, <2>1, <2>2, <2>4 DEF ChannelInv, OrderInv, LiveRefs
<1>4. CASE ~IsRegistered(directory, l)
  <2>1. IndexInv' /\ Registered' = Registered \cup {l}
    BY <1>1, <1>2, <1>4, SetPreserves DEF ChannelInv
  <2>2. directory'.entries = [directory.entries EXCEPT ![l] = f.name]
    BY <1>2, <1>4 DEF Set
  <2>3. books' = (IF prepared' THEN Registered' ELSE {}) /\ priced' = books'
    BY <1>2, <2>1 DEF ChannelInv, OrderInv
  <2>4. LiveRefs' = LiveRefs
    BY <1>2 DEF LiveRefs
  <2>5. l \notin books
    BY <1>4 DEF ChannelInv, OrderInv, Registered
  <2>6. \A r \in LiveRefs : live[r] \in books /\ directory.entries[live[r]] = named[r] /\ r \in seen
    BY DEF ChannelInv, OrderInv
  <2>7. \A r \in LiveRefs : live[r] \in Locates /\ live[r] # l
    BY <2>5, <2>6, Zenon DEF ChannelInv, OrderInv, Registered
  <2>8. \A r \in LiveRefs : directory'.entries[live[r]] = directory.entries[live[r]]
    BY <2>2, <2>7 DEF ChannelInv, IndexInv
  <2> QED
    BY <1>2, <2>1, <2>3, <2>4, <2>6, <2>8 DEF ChannelInv, OrderInv
<1> QED
  BY <1>3, <1>4

\* A book mutation keeps the directory, the books and the phase, and its live
\* orders are in books under the ticker of their chain.
LEMMA MutationPreserves ==
  ASSUME ChannelInv, NEW l, Mutated(l), phase # "EndOfMessages",
         live' \in [Refs -> Locates \cup {Dead}], named' \in [Refs -> Tickers \cup {NoTicker}],
         \A r \in LiveRefs' : /\ live'[r] \in books /\ r \in seen'
                              /\ directory.entries[live'[r]] = named'[r]
  PROVE  ChannelInv'
<1>1. UNCHANGED <<tickerHash, phase, directory, books, priced, prepared>>
  BY DEF Mutated, stockVars
<1>2. IndexInv' /\ Registered' = Registered
  BY <1>1, SameDirectory DEF ChannelInv
<1> QED
  BY <1>1, <1>2 DEF ChannelInv, OrderInv

LEMMA ChannelNext ==
  ASSUME ChannelInv, [Next]_vars
  PROVE  ChannelInv'
<1>1. ASSUME UNCHANGED <<tickerHash, phase, stockVars, orderVars>>
      PROVE  ChannelInv'
  <2>1. UNCHANGED <<tickerHash, phase, directory, books, priced, prepared, live, seen, named>>
    BY <1>1 DEF stockVars, orderVars
  <2>2. IndexInv' /\ Registered' = Registered
    BY <2>1, SameDirectory DEF ChannelInv
  <2> QED
    BY <2>1, <2>2 DEF ChannelInv, OrderInv, LiveRefs
<1>2. CASE Fail
  BY <1>1, <1>2 DEF Fail
<1>3. ASSUME UNCHANGED <<tickerHash, stockVars, orderVars>>, phase' \in Phases,
             phase' \in Spin <=> phase \in Spin, phase' = "EndOfMessages" => LiveRefs = {}
      PROVE  ChannelInv'
  <2>1. UNCHANGED <<tickerHash, directory, books, priced, prepared, live, seen, named>>
    BY <1>3 DEF stockVars, orderVars
  <2>2. IndexInv' /\ Registered' = Registered
    BY <2>1, SameDirectory DEF ChannelInv
  <2> QED
    BY <1>3, <2>1, <2>2 DEF ChannelInv, OrderInv, LiveRefs
<1>4. ASSUME NEW l \in Locates \cup {kInvalidStockLocate}, NEW f \in Fields,
             Dispatch("R", HandleStockDirectory(l, f))
      PROVE  ChannelInv'
  BY <1>2, <1>4, StockDirectoryPreserves, Zenon DEF Dispatch, HandleStockDirectory
<1>5. ASSUME NEW l \in Locates, NEW f \in Fields, NEW r \in Refs, Dispatch("A", HandleAdd(l, f, r))
      PROVE  ChannelInv'
  <2>1. CASE ~Fail
    <3>1. /\ WireStockMatches(directory.entries[l], f) /\ Mutated(l)
          /\ live' = [live EXCEPT ![r] = l] /\ seen' = seen \cup {r}
          /\ named' = [named EXCEPT ![r] = f.name]
          /\ phase # "EndOfMessages"
      BY <1>5, <2>1 DEF Dispatch, DispatchAdmits, HandleAdd
    <3>2. f.name = directory.entries[l] /\ f.name \in Tickers \cup {NoTicker} /\ l \in books
      BY <3>1 DEF WireStockMatches, Fields, Mutated
    <3>3. live' \in [Refs -> Locates \cup {Dead}] /\ named' \in [Refs -> Tickers \cup {NoTicker}]
      BY <3>1, <3>2 DEF ChannelInv, OrderInv
    <3>4. \A q \in LiveRefs' : /\ live'[q] \in books /\ q \in seen'
                               /\ directory.entries[live'[q]] = named'[q]
      BY <3>1, <3>2 DEF ChannelInv, OrderInv, LiveRefs
    <3> QED
      BY <3>1, <3>3, <3>4, MutationPreserves
  <2> QED
    BY <1>2, <2>1
<1>6. ASSUME NEW l \in Locates, NEW r \in Refs, HandleReduce(l, r)
      PROVE  ChannelInv'
  BY <1>1, <1>2, <1>6 DEF HandleReduce, Mutated
<1>7. ASSUME NEW l \in Locates, NEW r \in Refs, NEW type \in {"E", "D"},
             Dispatch(type, HandleRemove(l, r))
      PROVE  ChannelInv'
  <2>1. CASE ~Fail
    <3>1. /\ Mutated(l) /\ live' = [live EXCEPT ![r] = Dead]
          /\ UNCHANGED <<seen, named>> /\ phase # "EndOfMessages"
      BY <1>7, <2>1 DEF Dispatch, DispatchAdmits, HandleRemove
    <3>2. live' \in [Refs -> Locates \cup {Dead}] /\ named' \in [Refs -> Tickers \cup {NoTicker}]
      BY <3>1 DEF ChannelInv, OrderInv
    <3>3. \A q \in LiveRefs' : /\ live'[q] \in books /\ q \in seen'
                               /\ directory.entries[live'[q]] = named'[q]
      BY <3>1 DEF ChannelInv, OrderInv, LiveRefs
    <3> QED
      BY <3>1, <3>2, <3>3, MutationPreserves
  <2> QED
    BY <1>2, <2>1
<1>8. ASSUME NEW l \in Locates, NEW r \in Refs, NEW new \in Refs,
             Dispatch("U", HandleReplace(l, r, new))
      PROVE  ChannelInv'
  <2>1. CASE ~Fail
    <3>1. /\ Mutated(l) /\ live[r] = l /\ new # r
          /\ live' = [live EXCEPT ![r] = Dead, ![new] = l] /\ seen' = seen \cup {new}
          /\ named' = [named EXCEPT ![new] = named[r]]
          /\ phase # "EndOfMessages"
      BY <1>8, <2>1 DEF Dispatch, DispatchAdmits, HandleReplace
    <3>2. l # Dead
      BY DirectoryAssumption DEF Dead
    <3>3. r \in LiveRefs /\ l \in books /\ directory.entries[l] = named[r]
      BY <3>1, <3>2 DEF ChannelInv, OrderInv, LiveRefs
    <3>4. live' \in [Refs -> Locates \cup {Dead}] /\ named' \in [Refs -> Tickers \cup {NoTicker}]
      BY <3>1 DEF ChannelInv, OrderInv
    <3>5. \A q \in LiveRefs' : /\ live'[q] \in books /\ q \in seen'
                               /\ directory.entries[live'[q]] = named'[q]
      BY <3>1, <3>3 DEF ChannelInv, OrderInv, LiveRefs
    <3> QED
      BY <3>1, <3>4, <3>5, MutationPreserves, Zenon
  <2> QED
    BY <1>2, <2>1
<1>9. ASSUME NEW event \in PhaseEvents \ {"SS", "SC"}, Dispatch(event, HandlePhaseEvent(event))
      PROVE  ChannelInv'
  <2>1. CASE AdvancePhase(phase, event) # Rejected /\ ~Fail
    <3>1. phase \in Before[event] /\ phase' = After[event]
      BY <1>9, <2>1 DEF Dispatch, HandlePhaseEvent, AdvancePhase
    <3>2. /\ phase' \in Phases /\ phase' # "EndOfMessages"
          /\ phase' \in Spin <=> phase \in Spin
      BY <3>1 DEF Before, After, PhaseEvents, Phases, Spin
    <3>3. UNCHANGED <<tickerHash, stockVars, orderVars>>
      BY <1>9, <2>1 DEF Dispatch, HandlePhaseEvent
    <3> QED
      BY <1>3, <3>2, <3>3
  <2> QED
    BY <1>2, <1>9, <2>1 DEF Dispatch, HandlePhaseEvent
<1>10. ASSUME Dispatch("SS", HandleSystemHoursStart)
       PROVE  ChannelInv'
  <2>1. CASE AdvancePhase(phase, "SS") # Rejected /\ ~Fail
    <3>1. /\ phase \in {"StartupDirectorySpin", "StartupAdminSpin"} /\ phase' = "SystemHours"
      BY <1>10, <2>1 DEF Dispatch, HandleSystemHoursStart, AdvancePhase, Before, After
    <3>2. /\ prepared' = TRUE
          /\ books' = books \cup (IF prepared THEN {} ELSE Registered)
          /\ priced' = priced \cup (IF prepared THEN {} ELSE Registered)
          /\ UNCHANGED <<tickerHash, directory, live, seen, named>>
      BY <1>10, <2>1 DEF Dispatch, HandleSystemHoursStart, Create, orderVars
    <3>3. ~prepared /\ books = {} /\ priced = {}
      BY <3>1 DEF ChannelInv, OrderInv, Spin
    <3>4. IndexInv' /\ Registered' = Registered
      BY <3>2, SameDirectory DEF ChannelInv
    <3>5. LiveRefs' = {}
      BY <3>2, <3>3 DEF ChannelInv, OrderInv, LiveRefs
    <3>6. phase' \in Phases /\ phase' \notin Spin
      BY <3>1 DEF Phases, Spin
    <3> QED
      BY <3>2, <3>3, <3>4, <3>5, <3>6 DEF ChannelInv, OrderInv
  <2> QED
    BY <1>2, <1>10, <2>1 DEF Dispatch, HandleSystemHoursStart
<1>11. ASSUME Dispatch("SC", HandleEndOfMessages)
       PROVE  ChannelInv'
  <2>1. CASE LiveRefs = {} /\ AdvancePhase(phase, "SC") # Rejected /\ ~Fail
    <3>1. phase = "PostSystemHours" /\ phase' = "EndOfMessages"
      BY <1>11, <2>1 DEF Dispatch, HandleEndOfMessages, HandlePhaseEvent, AdvancePhase, Before, After
    <3>2. phase' \in Phases /\ (phase' \in Spin <=> phase \in Spin)
      BY <3>1 DEF Phases, Spin
    <3>3. UNCHANGED <<tickerHash, stockVars, orderVars>>
      BY <1>11, <2>1 DEF Dispatch, HandleEndOfMessages, HandlePhaseEvent
    <3> QED
      BY <1>3, <2>1, <3>2, <3>3
  <2> QED
    BY <1>2, <1>11, <2>1 DEF Dispatch, HandleEndOfMessages, HandlePhaseEvent
<1>12. ASSUME Dispatch("H", HandleAdmin)
       PROVE  ChannelInv'
  <2>1. CASE ~Fail
    <3>1. /\ phase # "EndOfMessages" /\ phase' = MarkStartupAdmin(phase)
          /\ UNCHANGED <<tickerHash, stockVars, orderVars>>
      BY <1>12, <2>1 DEF Dispatch, DispatchAdmits, HandleAdmin
    <3>2. /\ phase' \in Phases /\ phase' # "EndOfMessages"
          /\ phase' \in Spin <=> phase \in Spin
      BY <3>1 DEF ChannelInv, OrderInv, MarkStartupAdmin, Phases, Spin
    <3> QED
      BY <1>3, <3>1, <3>2
  <2> QED
    BY <1>2, <2>1
<1>13. CASE UNCHANGED vars
  BY <1>1, <1>13 DEF vars, stockVars, orderVars
<1> QED
  BY <1>2, <1>4, <1>5, <1>6, <1>7, <1>8, <1>9, <1>10, <1>11, <1>12, <1>13, Zenon
     DEF Next, Dispatch, HandleSkipped

\* Every state of the channel satisfies the invariant.
THEOREM ChannelInvariance == Spec => []ChannelInv
<1>1. Init => ChannelInv
  <2> SUFFICES ASSUME Init PROVE ChannelInv
    OBVIOUS
  <2>1. Registered = {} /\ LiveRefs = {}
    BY DEF Init, EmptyDirectory, Registered, IsRegistered, LiveRefs
  <2>2. IndexInv
    BY <2>1 DEF Init, EmptyDirectory, IndexInv, Slots
  <2>3. OrderInv
    BY <2>1, Zenon DEF Init, OrderInv, Phases, Spin
  <2> QED
    BY <2>2, <2>3 DEF ChannelInv
<1> QED
  BY <1>1, ChannelNext, PTL DEF Spec

\* The reverse index is the inverse of the directory, for any number of stocks
\* and whatever their tickers hash to (set and locateForTicker).
THEOREM IndexAlwaysExact == Spec => []IndexExact
<1>1. ChannelInv => IndexExact
  BY FoundExactly DEF ChannelInv, IndexExact
<1> QED
  BY <1>1, ChannelInvariance, PTL

\* The audit before success finds the books of the directory, however late in
\* the day a stock was announced (handleStockDirectory, auditDirectory).
THEOREM BooksAlwaysFollow == Spec => []BooksFollowDirectory
<1>1. ChannelInv => BooksFollowDirectory
  BY DEF ChannelInv, OrderInv, BooksFollowDirectory, AuditClean, Spin, Registered
<1> QED
  BY <1>1, ChannelInvariance, PTL

\* A live order rests in the book of the stock its Add named, through any
\* number of replacements and directory messages.
THEOREM OrdersAlwaysIdentified == Spec => []OrdersAreIdentified
<1>1. ChannelInv => OrdersAreIdentified
  BY DEF ChannelInv, OrderInv, OrdersAreIdentified
<1> QED
  BY <1>1, ChannelInvariance, PTL

\* Orders live inside the hours, and none enters once they have ended
\* (dispatchMessage, advancePhase).
THEOREM OrdersAlwaysKeepHours == Spec => OrdersKeepHours
<1> DEFINE Hours == {"SystemHours", "MarketHours", "PostMarketHours", "PostSystemHours"}
<1>1. ChannelInv' => (LiveRefs' # {} => phase' \in Hours)
  BY Zenon DEF ChannelInv, OrderInv, Phases, Spin
<1>2. ASSUME ChannelInv, Next, phase = "PostSystemHours"
      PROVE  LiveRefs' \subseteq LiveRefs
  <2>1. CASE UNCHANGED orderVars
    BY <2>1, Zenon DEF orderVars, LiveRefs
  <2>2. ASSUME NEW l \in Locates, NEW r \in Refs, HandleRemove(l, r)
        PROVE  LiveRefs' \subseteq LiveRefs
    BY <1>2, <2>1, <2>2, Zenon DEF HandleRemove, Fail, ChannelInv, OrderInv, LiveRefs
  <2> QED
    BY <1>2, <2>1, <2>2, Zenon
       DEF Next, Dispatch, DispatchAdmits, Fail, HandleReduce, HandlePhaseEvent, HandleEndOfMessages,
           HandleSkipped, PhaseEvents, vars, orderVars
<1>3. ChannelInv /\ ChannelInv' /\ [Next]_vars =>
        [/\ LiveRefs' # {} => phase' \in Hours
         /\ phase = "PostSystemHours" => LiveRefs' \subseteq LiveRefs]_vars
  BY <1>1, <1>2
<1> QED
  BY <1>3, ChannelInvariance, PTL DEF Spec, OrdersKeepHours
=============================================================================
