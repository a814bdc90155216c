------------------------- MODULE BookStorageProofs --------------------------
(***************************************************************************)
(* The storage of the books.  The order table finds exactly the living     *)
(* orders and refuses exactly the references it has had, for every number  *)
(* of references, buckets and ways, every pair of hashes and any number of *)
(* reservations held at once.  The searches of the price bitmap are exact  *)
(* for every word width and every number of words.                         *)
(***************************************************************************)
EXTENDS TableUse, PriceBitmap, WellFoundedInduction, TLAPS

\* The SMT solver may take up to two minutes on a step.
USE SMTT(120)

-----------------------------------------------------------------------------
\* The order table.

State == [flags : {{}, {"Seen"}, {"Active", "Seen"}}, order : Orders \cup {NoOrder}]

Tables == [direct : [DirectRefs -> State],
           fallback : [Cells -> [ref : Refs \cup {0}, state : State]]]

\* Every cell the scan for r meets before its i-th has been used.
FullBefore(r, i) ==
  \A j \in DOMAIN Scan(r) : j < i => Scan(r)[j] \notin FreeCells(orders)

\* A reservation of a cell names one of the scan, with nothing free before it.
\* When its reference has been committed since, the cell has been taken too:
\* the other commit was for the same cell.
HeldInv ==
  \A v \in held :
    /\ v.ref \in Refs
    /\ ~IsDirect(v.ref) =>
         /\ v.cell \in Cells
         /\ \E i \in DOMAIN Scan(v.ref) : Scan(v.ref)[i] = v.cell /\ FullBefore(v.ref, i)
         /\ v.ref \in seen => v.cell \notin FreeCells(orders)

DirectInv ==
  \A r \in DirectRefs : /\ WasSeen(orders.direct[r]) <=> r \in seen
                        /\ IsActive(orders.direct[r]) <=> r \in live

\* A fallback reference has been in at most one cell, which its scan meets.
FallbackInv ==
  \A r \in FallbackRefs :
    /\ r \in seen <=> SeenCells(orders, r) # {}
    /\ r \in live <=> LiveCells(orders, r) # {}
    /\ \A c \in SeenCells(orders, r) : \E i \in DOMAIN Scan(r) : Scan(r)[i] = c
    /\ \A c, d \in SeenCells(orders, r) : c = d

TableInv == orders \in Tables /\ HeldInv /\ DirectInv /\ FallbackInv

\* A set of natural numbers that is not empty has a least one.
LEMMA LeastMember ==
  ASSUME NEW I \in SUBSET Nat, I # {}
  PROVE  \E n \in I : \A m \in I : n <= m
<1> DEFINE Less == {ss \in Nat \X Nat : ss[1] < ss[2]}
<1>1. IsWellFoundedOn(Less, Nat)
  BY NatLessThanWellFounded DEF OpToRel
<1> HIDE DEF Less
<1>2. PICK n \in I : \A m \in I : <<m, n>> \notin Less
  BY <1>1, WFMin, Zenon
<1>3. ASSUME NEW m \in I
      PROVE  n <= m
  <2>1. m \in Nat /\ n \in Nat /\ <<m, n>> \in Nat \X Nat
    OBVIOUS
  <2>2. m < n => <<m, n>> \in Less
    BY <2>1 DEF Less
  <2> QED
    BY <1>2, <2>1, <2>2
<1> QED
  BY <1>3

\* The scan is a sequence.
LEMMA ScanIndexed ==
  ASSUME NEW r
  PROVE  DOMAIN Scan(r) \subseteq Nat
<1> DEFINE cells(b) == [w \in 1 .. Ways |-> <<b, w>>]
           p == hashPrimary[r]
           q == Secondary(r)
           S == {p, q} \X (1 .. Ways)
<1>1. Ways \in Nat
  BY TableAssumption
<1>2. cells(p) \in Seq(S) /\ cells(q) \in Seq(S)
  BY <1>1
<1>3. Scan(r) = IF q = p THEN cells(p) ELSE cells(p) \o cells(q)
  BY DEF Scan
<1> HIDE DEF cells, p, q, S
<1>4. Scan(r) \in Seq(S)
  BY <1>2, <1>3
<1> QED
  BY <1>4

\* FirstCell answers the first cell of the scan that is looked for.
LEMMA FirstCellFirst ==
  ASSUME NEW r, NEW cells, SomeCell(r, cells)
  PROVE  \E i \in DOMAIN Scan(r) :
            /\ FirstCell(r, cells) = Scan(r)[i] /\ Scan(r)[i] \in cells
            /\ \A j \in DOMAIN Scan(r) : j < i => Scan(r)[j] \notin cells
<1> DEFINE found == {i \in DOMAIN Scan(r) : Scan(r)[i] \in cells}
           first == CHOOSE i \in found : \A j \in found : i <= j
<1>1. found # {} /\ found \in SUBSET Nat
  BY ScanIndexed DEF SomeCell
<1>2. FirstCell(r, cells) = Scan(r)[first]
  BY DEF FirstCell
<1>3. first \in found /\ \A j \in found : first <= j
  <2> HIDE DEF found
  <2>1. \E n \in found : \A m \in found : n <= m
    BY <1>1, LeastMember
  <2> QED
    BY <2>1
<1> HIDE DEF first
<1>4. \A j \in DOMAIN Scan(r) : j < first => Scan(r)[j] \notin cells
  BY <1>1, <1>3
<1> QED
  BY <1>2, <1>3, <1>4

\* The table is what the scans depend on besides the hashes, which are fixed.
LEMMA ScanFixed ==
  ASSUME UNCHANGED <<hashPrimary, hashSecondary>>
  PROVE  \A r : Scan(r)' = Scan(r)
BY DEF Scan, Secondary

\* Used cells stay used: what is known of a reservation stays true.
LEMMA FullStays ==
  ASSUME UNCHANGED <<hashPrimary, hashSecondary>>,
         FreeCells(orders)' \subseteq FreeCells(orders),
         NEW r, NEW i, FullBefore(r, i)
  PROVE  FullBefore(r, i)'
BY ScanFixed DEF FullBefore

\* A flag is never set without the order having been seen.
LEMMA LiveIsSeen ==
  ASSUME orders \in Tables, NEW r
  PROVE  LiveCells(orders, r) \subseteq SeenCells(orders, r)
BY DEF Tables, State, LiveCells, SeenCells, IsActive, WasSeen

\* Nothing that is said of the table depends on anything but the table.
LEMMA SameTable ==
  ASSUME UNCHANGED tableVars
  PROVE  /\ FreeCells(orders)' = FreeCells(orders)
         /\ \A r : Scan(r)' = Scan(r) /\ IsDirect(r)' = IsDirect(r)
         /\ \A r : /\ SeenCells(orders, r)' = SeenCells(orders, r)
                  /\ LiveCells(orders, r)' = LiveCells(orders, r)
         /\ \A r, i : FullBefore(r, i)' <=> FullBefore(r, i)
<1>1. UNCHANGED <<hashPrimary, hashSecondary, orders>>
  BY DEF tableVars
<1>2. \A r : Scan(r)' = Scan(r) /\ IsDirect(r)' = IsDirect(r)
  BY <1>1, ScanFixed DEF IsDirect
<1>3. /\ FreeCells(orders)' = FreeCells(orders)
      /\ \A r : /\ SeenCells(orders, r)' = SeenCells(orders, r)
               /\ LiveCells(orders, r)' = LiveCells(orders, r)
  BY <1>1 DEF FreeCells, SeenCells, LiveCells
<1> QED
  BY <1>2, <1>3 DEF FullBefore

\* So what is said of the table stays true while it does not change.
LEMMA TableStutters ==
  ASSUME TableInv, UNCHANGED <<tableVars, seen, live>>
  PROVE  (orders \in Tables)' /\ DirectInv' /\ FallbackInv'
<1>1. (orders \in Tables)' /\ DirectInv'
  BY DEF TableInv, DirectInv, tableVars, WasSeen, IsActive
<1>2. FallbackInv'
  BY SameTable DEF TableInv, FallbackInv
<1> QED
  BY <1>1, <1>2

LEMMA ReservePreserves ==
  ASSUME TableInv, NEW r \in Refs, ReserveSlot(r)
  PROVE  TableInv'
<1> DEFINE v == Reserve(orders, r)
<1>1. /\ v.result = "Applied" /\ held' = held \cup {v}
      /\ UNCHANGED <<tableVars, seen, live>>
  BY DEF ReserveSlot
<1>2. /\ v.ref = r /\ ~Seen(orders, r)
      /\ ~IsDirect(r) => /\ SomeCell(r, FreeCells(orders))
                         /\ v.cell = FirstCell(r, FreeCells(orders))
  BY <1>1 DEF Reserve
<1> HIDE DEF v
<1>3. ~IsDirect(r) => /\ v.cell \in Cells
                      /\ \E i \in DOMAIN Scan(r) : Scan(r)[i] = v.cell /\ FullBefore(r, i)
  BY <1>2, FirstCellFirst DEF FullBefore, FreeCells
<1>4. ~IsDirect(r) => r \notin seen
  <2> SUFFICES ASSUME ~IsDirect(r), r \in seen
               PROVE  FALSE
    OBVIOUS
  <2>1. r \in FallbackRefs
    BY DEF IsDirect, FallbackRefs
  <2>2. PICK c \in SeenCells(orders, r) : \E i \in DOMAIN Scan(r) : Scan(r)[i] = c
    BY <2>1 DEF TableInv, FallbackInv
  <2> QED
    BY <1>2, <2>2 DEF Seen, SomeCell
<1>5. HeldInv'
  <2> SUFFICES ASSUME NEW u \in held'
               PROVE  /\ u.ref \in Refs
                      /\ ~IsDirect(u.ref) =>
                           /\ u.cell \in Cells
                           /\ \E i \in DOMAIN Scan(u.ref) :
                                Scan(u.ref)[i] = u.cell /\ FullBefore(u.ref, i)
                           /\ u.ref \in seen => u.cell \notin FreeCells(orders)
    BY <1>1, SameTable DEF HeldInv
  <2>1. CASE u \in held
    BY <2>1 DEF TableInv, HeldInv
  <2>2. CASE u = v
    BY <1>2, <1>3, <1>4, <2>2
  <2> QED
    BY <1>1, <2>1, <2>2
<1> QED
  BY <1>1, <1>5, TableStutters DEF TableInv

LEMMA StalePreserves ==
  ASSUME TableInv, NEW v \in held, CommitStale(v)
  PROVE  TableInv'
<1>1. held' \subseteq held /\ UNCHANGED <<tableVars, seen, live>>
  BY DEF CommitStale
<1>2. HeldInv'
  BY <1>1, SameTable DEF TableInv, HeldInv
<1> QED
  BY <1>1, <1>2, TableStutters DEF TableInv

\* commit of a reference with a slot of its own.
LEMMA CommitDirectPreserves ==
  ASSUME TableInv, NEW v \in held, NEW order \in Orders, CommitFresh(v, order), IsDirect(v.ref)
  PROVE  TableInv'
<1> DEFINE state == [flags |-> {"Active", "Seen"}, order |-> order]
           r == v.ref
<1>1. /\ orders' = [orders EXCEPT !.direct[r] = state] /\ r \in DirectRefs
      /\ held' \subseteq held /\ seen' = seen \cup {r} /\ live' = live \cup {r}
      /\ UNCHANGED <<hashPrimary, hashSecondary>>
  BY DEF CommitFresh, Commit, IsDirect
<1>2. state \in State /\ WasSeen(state) /\ IsActive(state)
  BY DEF State, WasSeen, IsActive
<1> HIDE DEF state, r
<1>3. /\ orders' \in Tables /\ orders'.fallback = orders.fallback
      /\ orders'.direct[r] = state
      /\ \A q \in DirectRefs \ {r} : orders'.direct[q] = orders.direct[q]
  BY <1>1, <1>2 DEF TableInv, Tables
<1>4. DirectInv'
  BY <1>1, <1>2, <1>3 DEF TableInv, DirectInv, WasSeen, IsActive
<1>5. /\ FreeCells(orders)' = FreeCells(orders)
      /\ \A q : /\ SeenCells(orders, q)' = SeenCells(orders, q)
               /\ LiveCells(orders, q)' = LiveCells(orders, q)
  BY <1>3 DEF FreeCells, SeenCells, LiveCells
<1>6. \A q : Scan(q)' = Scan(q)
  BY <1>1, ScanFixed
<1>7. FallbackInv'
  <2>1. \A q \in FallbackRefs : q # r
    BY <1>1 DEF FallbackRefs
  <2> QED
    BY <1>1, <1>5, <1>6, <2>1 DEF TableInv, FallbackInv
<1>8. HeldInv'
  <2>1. \A q, i : FullBefore(q, i)' <=> FullBefore(q, i)
    BY <1>5, <1>6 DEF FullBefore
  <2>2. \A u \in held : ~IsDirect(u.ref) => u.ref # r
    BY <1>1 DEF IsDirect
  <2> QED
    BY <1>1, <1>5, <1>6, <2>1, <2>2 DEF TableInv, HeldInv, IsDirect
<1> QED
  BY <1>3, <1>4, <1>7, <1>8 DEF TableInv

\* commit of a reference that was offered a cell.  The cell is still free, so
\* the reference has not been committed meanwhile; another reservation of the
\* reference that is still good is for the same cell, and goes stale.
LEMMA CommitCellPreserves ==
  ASSUME TableInv, NEW v \in held, NEW order \in Orders, CommitFresh(v, order), ~IsDirect(v.ref)
  PROVE  TableInv'
<1> DEFINE state == [flags |-> {"Active", "Seen"}, order |-> order]
           r == v.ref
           c == v.cell
<1>1. /\ orders' = [orders EXCEPT !.fallback[c] = [ref |-> r, state |-> state]]
      /\ ~WasSeen(orders.fallback[c].state)
      /\ held' \subseteq held /\ seen' = seen \cup {r} /\ live' = live \cup {r}
      /\ UNCHANGED <<hashPrimary, hashSecondary>>
  BY DEF CommitFresh, Commit, Stale
<1>2. state \in State /\ WasSeen(state) /\ IsActive(state)
  BY DEF State, WasSeen, IsActive
<1>3. /\ r \in FallbackRefs /\ r \in Refs /\ c \in Cells
      /\ r \in seen => c \notin FreeCells(orders)
  BY DEF TableInv, HeldInv, FallbackRefs, IsDirect
<1>4. PICK k \in DOMAIN Scan(r) : Scan(r)[k] = c /\ FullBefore(r, k)
  BY DEF TableInv, HeldInv
<1> HIDE DEF state, r, c
<1>5. c \in FreeCells(orders) /\ r \notin seen
  BY <1>1, <1>3 DEF FreeCells
<1>6. /\ orders' \in Tables /\ orders'.direct = orders.direct
      /\ orders'.fallback[c].ref = r /\ orders'.fallback[c].state = state
      /\ \A d \in Cells \ {c} : orders'.fallback[d] = orders.fallback[d]
  BY <1>1, <1>2, <1>3, Zenon DEF TableInv, Tables
<1>7. /\ FreeCells(orders)' = FreeCells(orders) \ {c}
      /\ SeenCells(orders, r)' = SeenCells(orders, r) \cup {c}
      /\ LiveCells(orders, r)' = LiveCells(orders, r) \cup {c}
  BY <1>2, <1>3, <1>6 DEF FreeCells, SeenCells, LiveCells, WasSeen, IsActive
<1>8. ASSUME NEW q, q # r
      PROVE  /\ SeenCells(orders, q)' = SeenCells(orders, q)
             /\ LiveCells(orders, q)' = LiveCells(orders, q)
  <2>1. c \notin SeenCells(orders, q) /\ c \notin LiveCells(orders, q)
    BY <1>1, LiveIsSeen DEF SeenCells, TableInv
  <2> QED
    BY <1>6, <1>8, <2>1 DEF SeenCells, LiveCells, WasSeen, IsActive
<1>9. \A q : Scan(q)' = Scan(q)
  BY <1>1, ScanFixed
<1>10. SeenCells(orders, r) = {} /\ LiveCells(orders, r) = {}
  BY <1>3, <1>5, LiveIsSeen DEF TableInv, FallbackInv
<1>11. DirectInv'
  <2>1. r \notin DirectRefs
    BY <1>3 DEF FallbackRefs
  <2> QED
    BY <1>1, <1>6, <2>1 DEF TableInv, DirectInv, WasSeen, IsActive
<1>12. FallbackInv'
  <2> SUFFICES ASSUME NEW q \in FallbackRefs
               PROVE  (/\ q \in seen <=> SeenCells(orders, q) # {}
                       /\ q \in live <=> LiveCells(orders, q) # {}
                       /\ \A d \in SeenCells(orders, q) : \E i \in DOMAIN Scan(q) : Scan(q)[i] = d
                       /\ \A d, e \in SeenCells(orders, q) : d = e)'
    BY DEF FallbackInv
  <2>1. CASE q = r
    BY <1>1, <1>4, <1>7, <1>9, <1>10, <2>1
  <2>2. CASE q # r
    BY <1>1, <1>8, <1>9, <2>2 DEF TableInv, FallbackInv
  <2> QED
    BY <2>1, <2>2
<1>13. HeldInv'
  <2> SUFFICES ASSUME NEW u \in held, ~IsDirect(u.ref)
               PROVE  (/\ u.cell \in Cells
                       /\ \E i \in DOMAIN Scan(u.ref) : Scan(u.ref)[i] = u.cell /\ FullBefore(u.ref, i)
                       /\ u.ref \in seen => u.cell \notin FreeCells(orders))'
    BY <1>1 DEF TableInv, HeldInv, IsDirect
  <2>1. /\ u.cell \in Cells
        /\ u.ref \in seen => u.cell \notin FreeCells(orders)
    BY DEF TableInv, HeldInv
  <2>2. PICK i \in DOMAIN Scan(u.ref) : Scan(u.ref)[i] = u.cell /\ FullBefore(u.ref, i)
    BY DEF TableInv, HeldInv
  <2>3. FullBefore(u.ref, i)'
    BY <1>1, <1>7, <2>2, FullStays
  <2>4. ASSUME u.ref = r, u.cell \in FreeCells(orders)
        PROVE  u.cell = c
    <3>1. i \in Nat /\ k \in Nat
      BY <1>4, <2>2, ScanIndexed
    <3>2. ~(i < k) /\ ~(k < i)
      BY <1>4, <1>5, <2>2, <2>4 DEF FullBefore
    <3> QED
      BY <1>4, <2>2, <2>4, <3>1, <3>2
  <2>5. u.ref \in seen' => u.cell \notin FreeCells(orders)'
    BY <1>1, <1>7, <2>1, <2>4
  <2> QED
    BY <1>9, <2>1, <2>2, <2>3, <2>5
<1> QED
  BY <1>6, <1>11, <1>12, <1>13 DEF TableInv

\* erase of a reference with a slot of its own.
LEMMA EraseDirectPreserves ==
  ASSUME TableInv, NEW r \in Refs, EraseOrder(r), IsDirect(r)
  PROVE  TableInv'
<1> DEFINE state == [FreeState EXCEPT !.flags = {"Seen"}]
<1>1. /\ orders' = [orders EXCEPT !.direct[r] = state] /\ r \in DirectRefs
      /\ IsActive(orders.direct[r])
      /\ live' = live \ {r} /\ UNCHANGED <<hashPrimary, hashSecondary, held, seen>>
  BY DEF EraseOrder, Erase, WithState, Found, IsDirect
<1>2. state \in State /\ WasSeen(state) /\ ~IsActive(state)
  BY DEF State, FreeState, WasSeen, IsActive
<1> HIDE DEF state
<1>3. /\ orders' \in Tables /\ orders'.fallback = orders.fallback
      /\ orders'.direct[r] = state
      /\ \A q \in DirectRefs \ {r} : orders'.direct[q] = orders.direct[q]
  BY <1>1, <1>2, Zenon DEF TableInv, Tables
<1>4. WasSeen(orders.direct[r])
  BY <1>1 DEF TableInv, Tables, State, WasSeen, IsActive
<1>5. DirectInv'
  BY <1>1, <1>2, <1>3, <1>4 DEF TableInv, DirectInv, WasSeen, IsActive
<1>6. /\ FreeCells(orders)' = FreeCells(orders)
      /\ \A q : /\ SeenCells(orders, q)' = SeenCells(orders, q)
               /\ LiveCells(orders, q)' = LiveCells(orders, q)
  BY <1>3 DEF FreeCells, SeenCells, LiveCells
<1>7. \A q : Scan(q)' = Scan(q)
  BY <1>1, ScanFixed
<1>8. FallbackInv'
  <2>1. \A q \in FallbackRefs : q # r
    BY <1>1 DEF FallbackRefs
  <2> QED
    BY <1>1, <1>6, <1>7, <2>1 DEF TableInv, FallbackInv
<1>9. HeldInv'
  <2>1. \A q, i : FullBefore(q, i)' <=> FullBefore(q, i)
    BY <1>6, <1>7 DEF FullBefore
  <2> QED
    BY <1>1, <1>6, <1>7, <2>1 DEF TableInv, HeldInv, IsDirect
<1> QED
  BY <1>3, <1>5, <1>8, <1>9 DEF TableInv

\* erase of an order in a cell: the cell stays used, under its reference.
LEMMA EraseCellPreserves ==
  ASSUME TableInv, NEW r \in Refs, EraseOrder(r), ~IsDirect(r)
  PROVE  TableInv'
<1> DEFINE state == [FreeState EXCEPT !.flags = {"Seen"}]
           c == FirstCell(r, LiveCells(orders, r))
<1>1. /\ orders' = [orders EXCEPT !.fallback[c].state = state]
      /\ SomeCell(r, LiveCells(orders, r)) /\ r \in FallbackRefs
      /\ live' = live \ {r} /\ UNCHANGED <<hashPrimary, hashSecondary, held, seen>>
  BY DEF EraseOrder, Erase, WithState, Found, IsDirect, FallbackRefs
<1>2. state \in State /\ WasSeen(state) /\ ~IsActive(state)
  BY DEF State, FreeState, WasSeen, IsActive
<1>3. c \in LiveCells(orders, r)
  BY <1>1, FirstCellFirst
<1> HIDE DEF state, c
<1>4. c \in Cells /\ orders.fallback[c].ref = r /\ c \in SeenCells(orders, r)
  BY <1>3, LiveIsSeen DEF LiveCells, TableInv
<1>5. /\ orders' \in Tables /\ orders'.direct = orders.direct
      /\ orders'.fallback[c].ref = r /\ orders'.fallback[c].state = state
      /\ \A d \in Cells \ {c} : orders'.fallback[d] = orders.fallback[d]
  BY <1>1, <1>2, <1>4 DEF TableInv, Tables
<1>6. WasSeen(orders.fallback[c].state)
  BY <1>4 DEF SeenCells
<1>7. /\ FreeCells(orders)' = FreeCells(orders)
      /\ \A q : SeenCells(orders, q)' = SeenCells(orders, q)
  BY <1>2, <1>4, <1>5, <1>6 DEF FreeCells, SeenCells, WasSeen
<1>8. /\ LiveCells(orders, r)' = LiveCells(orders, r) \ {c}
      /\ \A q : q # r => LiveCells(orders, q)' = LiveCells(orders, q)
  BY <1>2, <1>4, <1>5 DEF LiveCells, IsActive
<1>9. LiveCells(orders, r)' = {}
  BY <1>1, <1>3, <1>4, <1>8, LiveIsSeen DEF TableInv, FallbackInv
<1>10. \A q : Scan(q)' = Scan(q)
  BY <1>1, ScanFixed
<1>11. DirectInv'
  <2>1. r \notin DirectRefs
    BY <1>1 DEF FallbackRefs
  <2> QED
    BY <1>1, <1>5, <2>1 DEF TableInv, DirectInv, WasSeen, IsActive
<1>12. FallbackInv'
  BY <1>1, <1>7, <1>8, <1>9, <1>10, Zenon DEF TableInv, FallbackInv
<1>13. HeldInv'
  <2>1. \A q, i : FullBefore(q, i)' <=> FullBefore(q, i)
    BY <1>7, <1>10 DEF FullBefore
  <2> QED
    BY <1>1, <1>7, <1>10, <2>1 DEF TableInv, HeldInv, IsDirect
<1> QED
  BY <1>5, <1>11, <1>12, <1>13 DEF TableInv

\* The inductive invariant of the table under any legal sequence of calls.
THEOREM TableInvariance == UseSpec => []TableInv
<1>1. UseInit => TableInv
  <2> SUFFICES ASSUME UseInit
               PROVE  TableInv
    OBVIOUS
  <2>1. FreeState \in State /\ ~WasSeen(FreeState) /\ ~IsActive(FreeState)
    BY DEF FreeState, State, WasSeen, IsActive
  <2>2. orders = EmptyTable /\ held = {} /\ seen = {} /\ live = {}
    BY DEF UseInit, TableInit
  <2>3. orders \in Tables
    BY <2>1, <2>2 DEF EmptyTable, Tables
  <2>4. DirectInv
    BY <2>1, <2>2 DEF EmptyTable, DirectInv
  <2>5. \A r : SeenCells(orders, r) = {} /\ LiveCells(orders, r) = {}
    BY <2>1, <2>2 DEF EmptyTable, SeenCells, LiveCells
  <2>6. FallbackInv
    BY <2>2, <2>5 DEF FallbackInv
  <2> QED
    BY <2>2, <2>3, <2>4, <2>6 DEF TableInv, HeldInv
<1>2. TableInv /\ [UseNext]_useVars => TableInv'
  <2> SUFFICES ASSUME TableInv, [UseNext]_useVars
               PROVE  TableInv'
    OBVIOUS
  <2>1. ASSUME NEW r \in Refs, ReserveSlot(r) \/ EraseOrder(r)
        PROVE  TableInv'
    BY <2>1, ReservePreserves, EraseDirectPreserves, EraseCellPreserves
  <2>2. ASSUME NEW v \in held,
               CommitStale(v) \/ \E order \in Orders : CommitFresh(v, order)
        PROVE  TableInv'
    BY <2>2, StalePreserves, CommitDirectPreserves, CommitCellPreserves
  <2>3. CASE UNCHANGED useVars
    <3>1. HeldInv'
      BY <2>3, SameTable DEF TableInv, HeldInv, useVars
    <3> QED
      BY <2>3, <3>1, TableStutters, Zenon DEF TableInv, useVars
  <2> QED
    BY <2>1, <2>2, <2>3 DEF UseNext
<1> QED
  BY <1>1, <1>2, PTL DEF UseSpec

\* An order is found exactly while it lives, whatever the hashes do and
\* however the reservations of several orders interleave.
THEOREM LivingAreFound == UseSpec => []FindsTheLiving
<1>1. TableInv => FindsTheLiving
  <2> SUFFICES ASSUME TableInv, NEW r \in Refs
               PROVE  Found(orders, r) <=> r \in live
    BY DEF FindsTheLiving
  <2>1. CASE IsDirect(r)
    BY <2>1 DEF TableInv, DirectInv, Found, IsDirect
  <2>2. CASE ~IsDirect(r)
    <3>1. r \in FallbackRefs
      BY <2>2 DEF IsDirect, FallbackRefs
    <3>2. SomeCell(r, LiveCells(orders, r)) <=> LiveCells(orders, r) # {}
      BY <3>1, LiveIsSeen DEF TableInv, FallbackInv, SomeCell
    <3> QED
      BY <2>2, <3>1, <3>2 DEF TableInv, FallbackInv, Found
  <2> QED
    BY <2>1, <2>2
<1> QED
  BY <1>1, TableInvariance, PTL

\* A reference is refused as a duplicate exactly when it has had an order.
THEOREM UniqueForTheDay == UseSpec => []DayUnique
<1>1. TableInv => DayUnique
  <2> SUFFICES ASSUME TableInv, NEW r \in Refs
               PROVE  Reserve(orders, r).result = "DuplicateOrderRef" <=> r \in seen
    BY DEF DayUnique
  <2>1. Reserve(orders, r).result = "DuplicateOrderRef" <=> Seen(orders, r)
    BY DEF Reserve
  <2>2. CASE IsDirect(r)
    BY <2>1, <2>2 DEF TableInv, DirectInv, Seen, IsDirect
  <2>3. CASE ~IsDirect(r)
    <3>1. r \in FallbackRefs
      BY <2>3 DEF IsDirect, FallbackRefs
    <3>2. SomeCell(r, SeenCells(orders, r)) <=> SeenCells(orders, r) # {}
      BY <3>1 DEF TableInv, FallbackInv, SomeCell
    <3> QED
      BY <2>1, <2>3, <3>1, <3>2 DEF TableInv, FallbackInv, Seen
  <2> QED
    BY <2>2, <2>3
<1> QED
  BY <1>1, TableInvariance, PTL

-----------------------------------------------------------------------------
\* The price bitmap.

Bits == 0 .. WordBits - 1

\* A summary bit is set exactly when the word below it is not empty.
BitmapInv ==
  /\ l0 \in [0 .. L0Words - 1 -> SUBSET Bits]
  /\ l1 \in [0 .. L1Words - 1 -> SUBSET Bits]
  /\ l2 \subseteq 0 .. L1Words - 1
  /\ \A w \in 0 .. L1Words - 1 : l1[w] = {b \in Bits : l0[Join(w, b)] # {}}
  /\ l2 = {w \in 0 .. L1Words - 1 : l1[w] # {}}

\* The number of an index or of a word in two digits: its word one level up,
\* and its bit there.
LEMMA Digits ==
  ASSUME NEW n \in Nat
  PROVE  /\ \A x \in 0 .. n * WordBits - 1 :
              WordOf(x) \in 0 .. n - 1 /\ BitOf(x) \in Bits /\ Join(WordOf(x), BitOf(x)) = x
         /\ \A w \in 0 .. n - 1, b \in Bits :
              Join(w, b) \in 0 .. n * WordBits - 1 /\ WordOf(Join(w, b)) = w /\ BitOf(Join(w, b)) = b
<1> USE BitmapAssumption DEF Bits, WordOf, BitOf, Join
<1>1. ASSUME NEW x \in 0 .. n * WordBits - 1
      PROVE  WordOf(x) \in 0 .. n - 1 /\ BitOf(x) \in Bits /\ Join(WordOf(x), BitOf(x)) = x
  <2>1. PICK q \in Int, r \in Int : q = x \div WordBits /\ r = x % WordBits
    OBVIOUS
  <2>2. x = q * WordBits + r /\ 0 <= r /\ r < WordBits
    BY <2>1
  <2>3. 0 <= q
    BY <2>2
  <2>4. q < n
    BY <2>2
  <2> QED
    BY <2>1, <2>2, <2>3, <2>4
<1>2. ASSUME NEW w \in 0 .. n - 1, NEW b \in Bits
      PROVE  Join(w, b) \in 0 .. n * WordBits - 1 /\ WordOf(Join(w, b)) = w /\ BitOf(Join(w, b)) = b
  <2>1. w * WordBits \in Nat
    OBVIOUS
  <2>2. w * WordBits + WordBits <= n * WordBits
    OBVIOUS
  <2>3. (w * WordBits + b) \div WordBits = w /\ (w * WordBits + b) % WordBits = b
    OBVIOUS
  <2> QED
    BY <2>1, <2>2, <2>3
<1> QED
  BY <1>1, <1>2

\* Two indices, or two words, are in the order of their digits.
LEMMA Order ==
  ASSUME NEW n \in Nat, NEW x \in 0 .. n * WordBits - 1, NEW y \in 0 .. n * WordBits - 1
  PROVE  x <= y <=> WordOf(x) < WordOf(y) \/ (WordOf(x) = WordOf(y) /\ BitOf(x) <= BitOf(y))
<1> USE BitmapAssumption
<1>1. PICK a \in Nat, b \in Bits, c \in Nat, d \in Bits :
        a = WordOf(x) /\ b = BitOf(x) /\ c = WordOf(y) /\ d = BitOf(y)
  <2>1. /\ WordOf(x) \in 0 .. n - 1 /\ BitOf(x) \in Bits
        /\ WordOf(y) \in 0 .. n - 1 /\ BitOf(y) \in Bits
    BY Digits
  <2>2. \A z \in 0 .. n - 1 : z \in Nat
    OBVIOUS
  <2> QED
    BY <2>1, <2>2
<1>2. x = a * WordBits + b /\ y = c * WordBits + d
  BY <1>1, Digits DEF Join
<1>3. a < c => a * WordBits + b < c * WordBits + d
  BY DEF Bits
<1>4. c < a => c * WordBits + d < a * WordBits + b
  BY DEF Bits
<1> QED
  BY <1>1, <1>2, <1>3, <1>4 DEF Bits

\* A set of bits that is not empty has a least and a greatest one.
LEMMA Extremes ==
  ASSUME NEW S \in SUBSET Bits, S # {}
  PROVE  /\ BitLow(S) \in S /\ \A c \in S : BitLow(S) <= c
         /\ BitHigh(S) \in S /\ \A c \in S : c <= BitHigh(S)
<1> DEFINE Less == {ss \in Nat \X Nat : ss[1] < ss[2]}
           T == {k \in Nat : \E c \in S : k = WordBits - 1 - c}
<1>1. IsWellFoundedOn(Less, Nat)
  BY NatLessThanWellFounded DEF OpToRel
<1>2. ASSUME NEW m \in Nat, NEW n \in Nat, <<m, n>> \notin Less
      PROVE  n <= m
  BY <1>2 DEF Less
<1>3. T # {} /\ T \in SUBSET Nat /\ S \in SUBSET Nat
  <2>1. PICK c \in S : TRUE
    OBVIOUS
  <2>2. WordBits - 1 - c \in T
    BY BitmapAssumption DEF Bits
  <2>3. S \in SUBSET Nat
    BY BitmapAssumption DEF Bits
  <2> QED
    BY <2>2, <2>3
<1> HIDE DEF Less
<1>4. PICK n \in S : \A m \in S : <<m, n>> \notin Less
  BY <1>1, <1>3, WFMin, Zenon
<1>5. PICK k \in T : \A m \in T : <<m, k>> \notin Less
  <2> HIDE DEF T
  <2> QED
    BY <1>1, <1>3, WFMin, Zenon
<1>6. \A c \in S : n <= c
  BY <1>2, <1>3, <1>4, Zenon
<1>7. \A m \in T : k <= m
  BY <1>2, <1>3, <1>5, Zenon
<1>8. PICK h \in S : k = WordBits - 1 - h
  OBVIOUS
<1>9. \A c \in S : c <= h
  BY <1>7, <1>8, BitmapAssumption DEF Bits
<1> QED
  BY <1>6, <1>9 DEF BitLow, BitHigh

\* The digits of the words, and of the indices, of this bitmap.
LEMMA Places ==
  /\ \A i \in Index : /\ WordOf(i) \in 0 .. L0Words - 1 /\ BitOf(i) \in Bits
                      /\ Join(WordOf(i), BitOf(i)) = i
  /\ \A w \in 0 .. L0Words - 1 : /\ WordOf(w) \in 0 .. L1Words - 1 /\ BitOf(w) \in Bits
                                 /\ Join(WordOf(w), BitOf(w)) = w
  /\ \A w \in 0 .. L0Words - 1, b \in Bits :
       Join(w, b) \in Index /\ WordOf(Join(w, b)) = w /\ BitOf(Join(w, b)) = b
  /\ \A w \in 0 .. L1Words - 1, b \in Bits :
       Join(w, b) \in 0 .. L0Words - 1 /\ WordOf(Join(w, b)) = w /\ BitOf(Join(w, b)) = b
  /\ \A i, j \in Index :
       i <= j <=> WordOf(i) < WordOf(j) \/ (WordOf(i) = WordOf(j) /\ BitOf(i) <= BitOf(j))
  /\ \A v, w \in 0 .. L0Words - 1 :
       v <= w <=> WordOf(v) < WordOf(w) \/ (WordOf(v) = WordOf(w) /\ BitOf(v) <= BitOf(w))
<1>1. L1Words \in Nat /\ L0Words \in Nat
  BY BitmapAssumption DEF L0Words
<1>2. Index = 0 .. L0Words * WordBits - 1 /\ L0Words = L1Words * WordBits
  BY DEF Index, NumBits, L0Words
<1> QED
  BY <1>1, <1>2, Digits, Order, ZenonT(60)

LEMMA InitBitmap == BitmapInit => BitmapInv
<1> SUFFICES ASSUME BitmapInit
             PROVE  BitmapInv
  OBVIOUS
<1>1. \A w \in 0 .. L1Words - 1, b \in Bits : Join(w, b) \in 0 .. L0Words - 1
  BY Places
<1> QED
  BY <1>1 DEF BitmapInit, BitmapInv

LEMMA SetPreserves ==
  ASSUME BitmapInv, NEW i \in Index, Set(i)
  PROVE  BitmapInv'
<1>1. PICK w0 \in 0 .. L0Words - 1, b0 \in Bits, w1 \in 0 .. L1Words - 1, b1 \in Bits :
        w0 = WordOf(i) /\ b0 = BitOf(i) /\ w1 = WordOf(w0) /\ b1 = BitOf(w0)
  BY Places
<1>2. /\ l0' = [l0 EXCEPT ![w0] = @ \cup {b0}]
      /\ l1' = [l1 EXCEPT ![w1] = @ \cup {b1}]
      /\ l2' = l2 \cup {w1}
  BY <1>1 DEF Set
<1>3. /\ l0' \in [0 .. L0Words - 1 -> SUBSET Bits] /\ l1' \in [0 .. L1Words - 1 -> SUBSET Bits]
      /\ l2' \subseteq 0 .. L1Words - 1
      /\ \A w \in 0 .. L0Words - 1 : l0'[w] # {} <=> (l0[w] # {} \/ w = w0)
      /\ \A w \in 0 .. L1Words - 1 : l1'[w] = IF w = w1 THEN l1[w] \cup {b1} ELSE l1[w]
  BY <1>2, Zenon DEF BitmapInv
<1>4. \A w \in 0 .. L1Words - 1, b \in Bits :
        Join(w, b) \in 0 .. L0Words - 1 /\ (Join(w, b) = w0 <=> w = w1 /\ b = b1)
  BY <1>1, Places
<1>5. \A w \in 0 .. L1Words - 1 : l1'[w] = {b \in Bits : l0'[Join(w, b)] # {}}
  <2>1. ASSUME NEW w \in 0 .. L1Words - 1, NEW b \in Bits
        PROVE  b \in l1'[w] <=> l0'[Join(w, b)] # {}
    <3>1. PICK v \in 0 .. L0Words - 1 : v = Join(w, b)
      BY <1>4
    <3>2. b \in l1[w] <=> l0[v] # {}
      BY <3>1 DEF BitmapInv
    <3> QED
      BY <1>3, <1>4, <3>1, <3>2, Zenon
  <2> QED
    BY <1>3, <2>1
<1>6. l2' = {w \in 0 .. L1Words - 1 : l1'[w] # {}}
  BY <1>2, <1>3 DEF BitmapInv
<1> QED
  BY <1>3, <1>5, <1>6 DEF BitmapInv, Join

LEMMA ResetPreserves ==
  ASSUME BitmapInv, NEW i \in Index, Reset(i)
  PROVE  BitmapInv'
<1>1. PICK w0 \in 0 .. L0Words - 1, b0 \in Bits, w1 \in 0 .. L1Words - 1, b1 \in Bits :
        w0 = WordOf(i) /\ b0 = BitOf(i) /\ w1 = WordOf(w0) /\ b1 = BitOf(w0)
  BY Places
<1>2. /\ l0' = [l0 EXCEPT ![w0] = @ \ {b0}]
      /\ l1' = IF l0'[w0] # {} THEN l1 ELSE [l1 EXCEPT ![w1] = @ \ {b1}]
      /\ l2' = IF l0'[w0] # {} \/ l1'[w1] # {} THEN l2 ELSE l2 \ {w1}
  BY <1>1 DEF Reset
<1>3. /\ l0' \in [0 .. L0Words - 1 -> SUBSET Bits] /\ l1' \in [0 .. L1Words - 1 -> SUBSET Bits]
      /\ l2' \subseteq 0 .. L1Words - 1
      /\ \A w \in 0 .. L0Words - 1 : w # w0 => l0'[w] = l0[w]
      /\ l0'[w0] # {} => l0[w0] # {}
      /\ \A w \in 0 .. L1Words - 1 :
           l1'[w] = IF l0'[w0] = {} /\ w = w1 THEN l1[w] \ {b1} ELSE l1[w]
  BY <1>2, Zenon DEF BitmapInv
<1>4. \A w \in 0 .. L1Words - 1, b \in Bits :
        Join(w, b) \in 0 .. L0Words - 1 /\ (Join(w, b) = w0 <=> w = w1 /\ b = b1)
  BY <1>1, Places
<1>5. \A w \in 0 .. L1Words - 1 : l1'[w] = {b \in Bits : l0'[Join(w, b)] # {}}
  <2>1. ASSUME NEW w \in 0 .. L1Words - 1, NEW b \in Bits
        PROVE  b \in l1'[w] <=> l0'[Join(w, b)] # {}
    <3>1. PICK v \in 0 .. L0Words - 1 : v = Join(w, b)
      BY <1>4
    <3>2. b \in l1[w] <=> l0[v] # {}
      BY <3>1 DEF BitmapInv
    <3> QED
      BY <1>3, <1>4, <3>1, <3>2, Zenon
  <2> QED
    BY <1>3, <2>1
<1>6. l2' = {w \in 0 .. L1Words - 1 : l1'[w] # {}}
  <2>1. CASE l0'[w0] # {}
    BY <1>2, <2>1 DEF BitmapInv
  <2>2. CASE l0'[w0] = {}
    BY <1>2, <1>3, <2>2 DEF BitmapInv
  <2> QED
    BY <2>1, <2>2
<1> QED
  BY <1>3, <1>5, <1>6 DEF BitmapInv, Join

\* Every summary bit is exact after any sequence of set and reset.
THEOREM SummariesExact == BitmapSpec => []BitmapInv
<1>1. BitmapInv /\ UNCHANGED bitmapVars => BitmapInv'
  BY DEF BitmapInv, bitmapVars, Join
<1>2. BitmapInv /\ [BitmapNext]_bitmapVars => BitmapInv'
  BY <1>1, SetPreserves, ResetPreserves DEF BitmapNext
<1> QED
  BY <1>2, InitBitmap, PTL DEF BitmapSpec
-----------------------------------------------------------------------------
\* A member in the digits of its index.
LEMMA MemberDigits ==
  ASSUME BitmapInv, NEW m \in Members
  PROVE  /\ m \in Index /\ WordOf(m) \in 0 .. L0Words - 1
         /\ BitOf(m) \in l0[WordOf(m)]
         /\ WordOf(WordOf(m)) \in l2
         /\ BitOf(WordOf(m)) \in l1[WordOf(WordOf(m))]
<1>1. m \in Index /\ BitOf(m) \in l0[WordOf(m)] /\ WordOf(m) \in 0 .. L0Words - 1
  BY Places DEF Members, Test
<1>2. PICK v \in 0 .. L0Words - 1, w \in 0 .. L1Words - 1, b \in Bits :
        v = WordOf(m) /\ w = WordOf(v) /\ b = BitOf(v) /\ Join(w, b) = v
  BY <1>1, Places
<1>3. b \in l1[w]
  BY <1>1, <1>2 DEF BitmapInv
<1> QED
  BY <1>1, <1>2, <1>3 DEF BitmapInv

\* The end of a word that is not empty is a member, and bounds the others.
LEMMA WordEnds ==
  ASSUME BitmapInv, NEW v \in 0 .. L0Words - 1, l0[v] # {}
  PROVE  /\ HighestIn(v) \in Members /\ WordOf(HighestIn(v)) = v
         /\ \A m \in Members : WordOf(m) <= v => m <= HighestIn(v)
         /\ LowestIn(v) \in Members /\ WordOf(LowestIn(v)) = v
         /\ \A m \in Members : WordOf(m) >= v => m >= LowestIn(v)
<1>1. l0[v] \in SUBSET Bits
  BY DEF BitmapInv
<1>2. PICK h \in l0[v], k \in l0[v] : /\ HighestIn(v) = Join(v, h) /\ LowestIn(v) = Join(v, k)
                                      /\ \A c \in l0[v] : c <= h /\ k <= c
  BY <1>1, Extremes DEF HighestIn, LowestIn
<1>3. PICK x \in Index, y \in Index : /\ x = Join(v, h) /\ WordOf(x) = v /\ BitOf(x) = h
                                      /\ y = Join(v, k) /\ WordOf(y) = v /\ BitOf(y) = k
  BY <1>1, Places
<1>4. x \in Members /\ y \in Members
  BY <1>3 DEF Members, Test
<1>5. ASSUME NEW m \in Members
      PROVE  (WordOf(m) <= v => m <= x) /\ (WordOf(m) >= v => m >= y)
  <2>1. m \in Index /\ WordOf(m) \in 0 .. L0Words - 1 /\ BitOf(m) \in l0[WordOf(m)]
    BY MemberDigits, Zenon
  <2>2. /\ m <= x <=> WordOf(m) < v \/ (WordOf(m) = v /\ BitOf(m) <= h)
        /\ y <= m <=> v < WordOf(m) \/ (WordOf(m) = v /\ k <= BitOf(m))
    BY <1>3, <2>1, Places
  <2>3. WordOf(m) = v => BitOf(m) <= h /\ k <= BitOf(m)
    BY <1>2, <2>1
  <2>4. m \in Int /\ x \in Int /\ y \in Int
    BY <2>1 DEF Index
  <2> QED
    BY <2>1, <2>2, <2>3, <2>4
<1> QED
  BY <1>2, <1>3, <1>4, <1>5

LEMMA InRange == \A c \in Index : ~(c >= NumBits) /\ c \in Int
<1>1. NumBits \in Int
  BY BitmapAssumption DEF NumBits, L0Words
<1> QED
  BY <1>1 DEF Index

\* findHighestAtOrBelow, whichever of the three levels answers: the l0 word of
\* the index itself, the l1 word above it, or the l2 word.
LEMMA Predecessor ==
  ASSUME BitmapInv, NEW c \in Index
  PROVE  IsPredecessor(FindHighestAtOrBelow(c), c, Members)
<1>1. PICK w0 \in 0 .. L0Words - 1, b0 \in Bits, w1 \in 0 .. L1Words - 1, b1 \in Bits :
        w0 = WordOf(c) /\ b0 = BitOf(c) /\ w1 = WordOf(w0) /\ b1 = BitOf(w0)
  BY Places, Zenon
<1> DEFINE r == FindHighestAtOrBelow(c)
           bits == {b \in l0[w0] : b <= b0}
           l1bits == {b \in l1[w1] : b < b1}
           l2bits == {b \in l2 : b < w1}
<1>2. /\ bits # {} => r = Join(w0, BitHigh(bits))
      /\ bits = {} /\ l1bits # {} => r = HighestIn(Join(w1, BitHigh(l1bits)))
      /\ bits = {} /\ l1bits = {} /\ l2bits # {} /\ l1[BitHigh(l2bits)] # {} =>
           r = HighestIn(Join(BitHigh(l2bits), BitHigh(l1[BitHigh(l2bits)])))
      /\ bits = {} /\ l1bits = {} /\ l2bits = {} => r = Invalid
  BY <1>1, InRange, Zenon DEF FindHighestAtOrBelow, Clamped
<1>3. bits \in SUBSET Bits /\ l1bits \in SUBSET Bits /\ l2bits \in SUBSET Bits
  BY BitmapAssumption DEF BitmapInv, Bits
<1> SUFFICES IsPredecessor(r, c, Members)
  OBVIOUS
<1> HIDE DEF r
\* A member on the searched side of the index, seen from its word.
<1>4. ASSUME NEW m \in Members, m <= c
      PROVE  \/ WordOf(m) = w0 /\ BitOf(m) \in bits
             \/ WordOf(m) < w0 /\ WordOf(WordOf(m)) = w1 /\ BitOf(WordOf(m)) \in l1bits
             \/ WordOf(m) < w0 /\ WordOf(WordOf(m)) \in l2bits
  <2>1. PICK v \in 0 .. L0Words - 1, b \in Bits, w \in 0 .. L1Words - 1, d \in Bits :
          v = WordOf(m) /\ b = BitOf(m) /\ w = WordOf(v) /\ d = BitOf(v)
    BY MemberDigits, Places, Zenon
  <2>2. m \in Index /\ b \in l0[v] /\ w \in l2 /\ d \in l1[w]
    BY <2>1, MemberDigits, Zenon
  <2>3. v < w0 \/ (v = w0 /\ b <= b0)
    BY <1>1, <1>4, <2>1, <2>2, Places, Zenon DEF Index
  <2>4. v < w0 => w < w1 \/ (w = w1 /\ d < b1)
    <3>1. v <= w0 <=> w < w1 \/ (w = w1 /\ d <= b1)
      BY <1>1, <2>1, Places
    <3>2. v # w0 => w # w1 \/ d # b1
      BY <1>1, <2>1, Places
    <3> QED
      BY <3>1, <3>2 DEF Bits
  <2> QED
    BY <2>1, <2>2, <2>3, <2>4, Zenon
\* A word that all of those members are in or beyond.
<1>5. ASSUME NEW v \in 0 .. L0Words - 1, l0[v] # {}, v < w0, r = HighestIn(v),
             \A m \in Members : m <= c => WordOf(m) <= v
      PROVE  IsPredecessor(r, c, Members)
  <2>1. r \in Members /\ WordOf(r) = v /\ \A m \in Members : WordOf(m) <= v => m <= r
    BY <1>5, WordEnds
  <2>2. r \in Index
    BY <2>1, MemberDigits
  <2>3. r <= c
    BY <1>1, <1>5, <2>1, <2>2, Places DEF Index
  <2> QED
    BY <1>5, <2>1, <2>2, <2>3 DEF IsPredecessor, Index
<1>6. CASE bits # {}
  <2>1. PICK b \in bits : r = Join(w0, b) /\ \A d \in bits : d <= b
    BY <1>2, <1>3, <1>6, Extremes, Zenon
  <2>2. b \in Bits /\ b \in l0[w0] /\ b <= b0
    BY <1>3, <2>1, Zenon
  <2>3. r \in Index /\ WordOf(r) = w0 /\ BitOf(r) = b
    BY <2>1, <2>2, Places, Zenon
  <2>4. r \in Members /\ r <= c
    BY <1>1, <2>2, <2>3, Places, Zenon DEF Members, Test, Index
  <2>5. ASSUME NEW m \in Members, m <= c
        PROVE  m <= r
    <3>1. m \in Index /\ WordOf(m) \in 0 .. L0Words - 1
      BY MemberDigits
    <3>2. WordOf(m) < w0 \/ (WordOf(m) = w0 /\ BitOf(m) <= b)
      BY <1>4, <2>1, <2>5
    <3> QED
      BY <2>3, <3>1, <3>2, Places DEF Index
  <2> QED
    BY <2>4, <2>5 DEF IsPredecessor
<1>7. CASE bits = {} /\ l1bits # {}
  <2>1. PICK b \in l1bits : r = HighestIn(Join(w1, b)) /\ \A d \in l1bits : d <= b
    BY <1>2, <1>3, <1>7, Extremes, Zenon
  <2>2. b \in Bits /\ b \in l1[w1] /\ b < b1
    BY <1>3, <2>1
  <2>3. PICK v \in 0 .. L0Words - 1 : v = Join(w1, b) /\ WordOf(v) = w1 /\ BitOf(v) = b
    BY <2>2, Places, Zenon
  <2>4. l0[v] # {}
    BY <2>2, <2>3 DEF BitmapInv
  <2>5. v < w0
    <3>1. v <= w0 /\ v # w0
      BY <1>1, <2>2, <2>3, Places DEF Bits
    <3> QED
      BY <3>1
  <2>6. ASSUME NEW m \in Members, m <= c
        PROVE  WordOf(m) <= v
    <3>1. PICK u \in 0 .. L0Words - 1 : u = WordOf(m)
      BY MemberDigits, Zenon
    <3>2. WordOf(u) < w1 \/ (WordOf(u) = w1 /\ BitOf(u) <= b)
      BY <1>4, <1>7, <2>1, <2>6, <3>1, Zenon
    <3> QED
      BY <2>3, <3>1, <3>2, Places
  <2> QED
    BY <1>5, <2>1, <2>3, <2>4, <2>5, <2>6, Zenon
<1>8. CASE bits = {} /\ l1bits = {} /\ l2bits # {}
  <2>1. PICK a \in l2bits : a = BitHigh(l2bits) /\ \A d \in l2bits : d <= a
    BY <1>3, <1>8, Extremes, Zenon
  <2>2. a \in 0 .. L1Words - 1 /\ l1[a] # {} /\ l1[a] \in SUBSET Bits /\ a < w1
    BY <2>1, Zenon DEF BitmapInv
  <2>3. PICK b \in l1[a] : r = HighestIn(Join(a, b)) /\ \A d \in l1[a] : d <= b
    BY <1>2, <1>8, <2>1, <2>2, Extremes, Zenon
  <2>4. PICK v \in 0 .. L0Words - 1 : v = Join(a, b) /\ WordOf(v) = a /\ BitOf(v) = b
    BY <2>2, <2>3, Places, Zenon
  <2>5. l0[v] # {}
    BY <2>2, <2>3, <2>4 DEF BitmapInv
  <2>6. v < w0
    <3>1. v <= w0 /\ v # w0
      BY <1>1, <2>2, <2>4, Places
    <3> QED
      BY <3>1
  <2>7. ASSUME NEW m \in Members, m <= c
        PROVE  WordOf(m) <= v
    <3>1. PICK u \in 0 .. L0Words - 1 : u = WordOf(m) /\ WordOf(u) \in 0 .. L1Words - 1 /\ BitOf(u) \in l1[WordOf(u)]
      BY MemberDigits, Places, Zenon
    <3>2. WordOf(u) \in l2bits
      BY <1>4, <1>8, <2>7, <3>1, Zenon
    <3>3. WordOf(u) < a \/ (WordOf(u) = a /\ BitOf(u) <= b)
      BY <2>1, <2>2, <2>3, <3>1, <3>2
    <3> QED
      BY <2>4, <3>1, <3>3, Places
  <2> QED
    BY <1>5, <2>3, <2>4, <2>5, <2>6, <2>7
<1>9. CASE bits = {} /\ l1bits = {} /\ l2bits = {}
  <2>1. \A m \in Members : ~(m <= c)
    BY <1>4, <1>9
  <2>2. \A m \in Members : m \in Int
    BY MemberDigits DEF Index
  <2> QED
    BY <1>2, <1>9, <2>1, <2>2 DEF IsPredecessor, Index
<1> QED
  BY <1>6, <1>7, <1>8, <1>9, Zenon

\* findLowestAtOrAbove, whichever of the three levels answers: the l0 word of
\* the index itself, the l1 word above it, or the l2 word.
LEMMA Successor ==
  ASSUME BitmapInv, NEW c \in Index
  PROVE  IsSuccessor(FindLowestAtOrAbove(c), c, Members)
<1>1. PICK w0 \in 0 .. L0Words - 1, b0 \in Bits, w1 \in 0 .. L1Words - 1, b1 \in Bits :
        w0 = WordOf(c) /\ b0 = BitOf(c) /\ w1 = WordOf(w0) /\ b1 = BitOf(w0)
  BY Places, Zenon
<1> DEFINE r == FindLowestAtOrAbove(c)
           bits == {b \in l0[w0] : b >= b0}
           l1bits == {b \in l1[w1] : b > b1}
           l2bits == {b \in l2 : b > w1}
<1>2. /\ bits # {} => r = Join(w0, BitLow(bits))
      /\ bits = {} /\ l1bits # {} => r = LowestIn(Join(w1, BitLow(l1bits)))
      /\ bits = {} /\ l1bits = {} /\ l2bits # {} /\ l1[BitLow(l2bits)] # {} =>
           r = LowestIn(Join(BitLow(l2bits), BitLow(l1[BitLow(l2bits)])))
      /\ bits = {} /\ l1bits = {} /\ l2bits = {} => r = Invalid
  BY <1>1, InRange DEF FindLowestAtOrAbove, Clamped
<1>3. bits \in SUBSET Bits /\ l1bits \in SUBSET Bits /\ l2bits \in SUBSET Bits
  BY BitmapAssumption DEF BitmapInv, Bits
<1> SUFFICES IsSuccessor(r, c, Members)
  OBVIOUS
<1> HIDE DEF r
\* A member on the searched side of the index, seen from its word.
<1>4. ASSUME NEW m \in Members, m >= c
      PROVE  \/ WordOf(m) = w0 /\ BitOf(m) \in bits
             \/ WordOf(m) > w0 /\ WordOf(WordOf(m)) = w1 /\ BitOf(WordOf(m)) \in l1bits
             \/ WordOf(m) > w0 /\ WordOf(WordOf(m)) \in l2bits
  <2>1. PICK v \in 0 .. L0Words - 1, b \in Bits, w \in 0 .. L1Words - 1, d \in Bits :
          v = WordOf(m) /\ b = BitOf(m) /\ w = WordOf(v) /\ d = BitOf(v)
    BY MemberDigits, Places
  <2>2. m \in Index /\ b \in l0[v] /\ w \in l2 /\ d \in l1[w]
    BY <2>1, MemberDigits, Zenon
  <2>3. v > w0 \/ (v = w0 /\ b >= b0)
    BY <1>1, <1>4, <2>1, <2>2, Places, Zenon DEF Index
  <2>4. v > w0 => w > w1 \/ (w = w1 /\ d > b1)
    <3>1. v >= w0 <=> w > w1 \/ (w = w1 /\ d >= b1)
      BY <1>1, <2>1, Places
    <3>2. v # w0 => w # w1 \/ d # b1
      BY <1>1, <2>1, Places
    <3> QED
      BY <3>1, <3>2 DEF Bits
  <2> QED
    BY <2>1, <2>2, <2>3, <2>4, Zenon
\* A word that all of those members are in or beyond.
<1>5. ASSUME NEW v \in 0 .. L0Words - 1, l0[v] # {}, v > w0, r = LowestIn(v),
             \A m \in Members : m >= c => WordOf(m) >= v
      PROVE  IsSuccessor(r, c, Members)
  <2>1. r \in Members /\ WordOf(r) = v /\ \A m \in Members : WordOf(m) >= v => m >= r
    BY <1>5, WordEnds, Zenon
  <2>2. r \in Index
    BY <2>1, MemberDigits, Zenon
  <2>3. r >= c
    BY <1>1, <1>5, <2>1, <2>2, Places DEF Index
  <2> QED
    BY <1>5, <2>1, <2>2, <2>3, Zenon DEF IsSuccessor, Index
<1>6. CASE bits # {}
  <2>1. PICK b \in bits : r = Join(w0, b) /\ \A d \in bits : d >= b
    BY <1>2, <1>3, <1>6, Extremes, Zenon
  <2>2. b \in Bits /\ b \in l0[w0] /\ b >= b0
    BY <1>3, <2>1, Zenon
  <2>3. r \in Index /\ WordOf(r) = w0 /\ BitOf(r) = b
    BY <2>1, <2>2, Places, Zenon
  <2>4. r \in Members /\ r >= c
    BY <1>1, <2>2, <2>3, Places, Zenon DEF Members, Test, Index
  <2>5. ASSUME NEW m \in Members, m >= c
        PROVE  m >= r
    <3>1. m \in Index /\ WordOf(m) \in 0 .. L0Words - 1
      BY MemberDigits, Zenon
    <3>2. WordOf(m) > w0 \/ (WordOf(m) = w0 /\ BitOf(m) >= b)
      BY <1>4, <2>1, <2>5, Zenon
    <3> QED
      BY <2>3, <3>1, <3>2, Places, Zenon DEF Index
  <2> QED
    BY <2>4, <2>5, Zenon DEF IsSuccessor
<1>7. CASE bits = {} /\ l1bits # {}
  <2>1. PICK b \in l1bits : r = LowestIn(Join(w1, b)) /\ \A d \in l1bits : d >= b
    BY <1>2, <1>3, <1>7, Extremes, Zenon
  <2>2. b \in Bits /\ b \in l1[w1] /\ b > b1
    BY <1>3, <2>1, Zenon
  <2>3. PICK v \in 0 .. L0Words - 1 : v = Join(w1, b) /\ WordOf(v) = w1 /\ BitOf(v) = b
    BY <2>2, Places, Zenon
  <2>4. l0[v] # {}
    BY <2>2, <2>3 DEF BitmapInv
  <2>5. v > w0
    <3>1. v >= w0 /\ v # w0
      BY <1>1, <2>2, <2>3, Places DEF Bits
    <3> QED
      BY <3>1
  <2>6. ASSUME NEW m \in Members, m >= c
        PROVE  WordOf(m) >= v
    <3>1. PICK u \in 0 .. L0Words - 1 : u = WordOf(m)
      BY MemberDigits
    <3>2. WordOf(u) > w1 \/ (WordOf(u) = w1 /\ BitOf(u) >= b)
      BY <1>4, <1>7, <2>1, <2>6, <3>1, Zenon
    <3> QED
      BY <2>3, <3>1, <3>2, Places
  <2> QED
    BY <1>5, <2>1, <2>3, <2>4, <2>5, <2>6, Zenon
<1>8. CASE bits = {} /\ l1bits = {} /\ l2bits # {}
  <2>1. PICK a \in l2bits : a = BitLow(l2bits) /\ \A d \in l2bits : d >= a
    BY <1>3, <1>8, Extremes
  <2>2. a \in 0 .. L1Words - 1 /\ l1[a] # {} /\ l1[a] \in SUBSET Bits /\ a > w1
    BY <2>1, Zenon DEF BitmapInv
  <2>3. PICK b \in l1[a] : r = LowestIn(Join(a, b)) /\ \A d \in l1[a] : d >= b
    BY <1>2, <1>8, <2>1, <2>2, Extremes, Zenon
  <2>4. PICK v \in 0 .. L0Words - 1 : v = Join(a, b) /\ WordOf(v) = a /\ BitOf(v) = b
    BY <2>2, <2>3, Places, Zenon
  <2>5. l0[v] # {}
    BY <2>2, <2>3, <2>4 DEF BitmapInv
  <2>6. v > w0
    <3>1. v >= w0 /\ v # w0
      BY <1>1, <2>2, <2>4, Places
    <3> QED
      BY <3>1
  <2>7. ASSUME NEW m \in Members, m >= c
        PROVE  WordOf(m) >= v
    <3>1. PICK u \in 0 .. L0Words - 1 : u = WordOf(m) /\ WordOf(u) \in 0 .. L1Words - 1 /\ BitOf(u) \in l1[WordOf(u)]
      BY MemberDigits, Places, ZenonT(60)
    <3>2. WordOf(u) \in l2bits
      BY <1>4, <1>8, <2>7, <3>1, Zenon
    <3>3. WordOf(u) > a \/ (WordOf(u) = a /\ BitOf(u) >= b)
      BY <2>1, <2>2, <2>3, <3>1, <3>2
    <3> QED
      BY <2>4, <3>1, <3>3, Places
  <2> QED
    BY <1>5, <2>3, <2>4, <2>5, <2>6, <2>7, Zenon
<1>9. CASE bits = {} /\ l1bits = {} /\ l2bits = {}
  <2>1. \A m \in Members : ~(m >= c)
    BY <1>4, <1>9, Zenon
  <2>2. \A m \in Members : m \in Int
    BY MemberDigits DEF Index
  <2> QED
    BY <1>2, <1>9, <2>1, <2>2 DEF IsSuccessor, Index
<1> QED
  BY <1>6, <1>7, <1>8, <1>9, Zenon

\* After any sequence of set and reset, the searches answer from the summaries
\* what a scan of every bit would, for every argument up to and past the last
\* index.
THEOREM SearchesSound == BitmapSpec => []SearchesExact
<1>1. BitmapInv => SearchesExact
  <2> SUFFICES ASSUME BitmapInv
               PROVE  SearchesExact
    OBVIOUS
  <2>1. NumBits \in Nat /\ NumBits - 1 \in Index
    <3>1. L1Words * WordBits \in Nat \ {0}
      BY BitmapAssumption
    <3>2. L0Words * WordBits \in Nat \ {0}
      BY <3>1, BitmapAssumption DEF L0Words
    <3> QED
      BY <3>2 DEF NumBits, Index
  <2>2. \A m \in Members : m \in Index /\ m \in Int /\ m < NumBits
    BY <2>1, MemberDigits DEF Index
  <2>3. ASSUME NEW i \in 0 .. NumBits
        PROVE  /\ IsPredecessor(FindHighestAtOrBelow(i), i, Members)
               /\ IsSuccessor(FindLowestAtOrAbove(i), i, Members)
    <3>1. CASE i \in Index
      BY <3>1, Predecessor, Successor
    <3>2. CASE i = NumBits
      <4> DEFINE c == NumBits - 1
      <4>1. Clamped(i) = Clamped(c)
        BY <2>1, <3>2, InRange DEF Clamped
      <4>2. FindHighestAtOrBelow(i) = FindHighestAtOrBelow(c)
        BY <4>1 DEF FindHighestAtOrBelow
      <4>3. PICK r : r = FindHighestAtOrBelow(c) /\ IsPredecessor(r, c, Members)
        BY <2>1, Predecessor
      <4>4. IsPredecessor(r, i, Members)
        BY <2>1, <2>2, <3>2, <4>3 DEF IsPredecessor
      <4>5. FindLowestAtOrAbove(i) = Invalid
        BY <2>1, <3>2 DEF FindLowestAtOrAbove
      <4> QED
        BY <2>2, <3>2, <4>2, <4>3, <4>4, <4>5 DEF IsSuccessor
    <3> QED
      BY <2>1, <3>1, <3>2 DEF Index
  <2>4. IsEmpty <=> Members = {}
    <3>1. l2 # {} => Members # {}
      <4> SUFFICES ASSUME l2 # {}
                   PROVE  Members # {}
        OBVIOUS
      <4>1. PICK w \in 0 .. L1Words - 1, b \in Bits : b \in l1[w]
        BY DEF BitmapInv
      <4>2. PICK v \in 0 .. L0Words - 1 : v = Join(w, b)
        BY Places, Zenon
      <4>3. l0[v] # {}
        BY <4>1, <4>2 DEF BitmapInv
      <4> QED
        BY <4>3, WordEnds, Zenon
    <3>2. Members # {} => l2 # {}
      BY MemberDigits
    <3> QED
      BY <3>1, <3>2 DEF IsEmpty
  <2> QED
    BY <2>3, <2>4 DEF SearchesExact, BitmapInv, Bits
<1> QED
  BY <1>1, SummariesExact, PTL
=============================================================================
