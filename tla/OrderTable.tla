---------------------------- MODULE OrderTable -----------------------------
(***************************************************************************)
(* The process-wide table of orders by order reference.  A reference below *)
(* direct_slots has a slot of its own; a larger one may use any way of two *)
(* candidate buckets.  A slot is never given up: erase clears the order    *)
(* but keeps the Seen flag, because references are unique for the day.     *)
(*                                                                         *)
(* Tables are values, so that a caller that reserves, commits and erases   *)
(* within one mutation can name the table between two of those calls.      *)
(* The two hashes are parameters, chosen once among all functions.         *)
(***************************************************************************)
EXTENDS Integers, Sequences, FiniteSets

CONSTANTS
  Refs,          \* order references
  DirectRefs,    \* the references below config_.direct_slots
  BucketCount,   \* config_.fallback_bucket_count
  Ways,          \* kFallbackWays
  Orders,        \* what a slot may record of an order
  NoOrder        \* what a slot without an order records

ASSUME TableAssumption ==
  /\ DirectRefs \subseteq Refs
  /\ 0 \notin Refs \ DirectRefs   \* direct_slots is not 0
  /\ BucketCount \in Nat \ {0}
  /\ Ways \in Nat \ {0}
  /\ NoOrder \notin Orders

Buckets == 0 .. BucketCount - 1
Cells   == Buckets \X (1 .. Ways)

NoCell == <<0, 0>>

FallbackRefs == Refs \ DirectRefs

VARIABLES
  hashPrimary,   \* bucket of a reference under the first hash
  hashSecondary, \* bucket of a reference under the second hash
  orders         \* the table

tableVars == <<hashPrimary, hashSecondary, orders>>

IsActive(s) == "Active" \in s.flags
WasSeen(s)  == "Seen" \in s.flags

FreeState == [flags |-> {}, order |-> NoOrder]

EmptyTable ==
  [direct   |-> [r \in DirectRefs |-> FreeState],
   fallback |-> [c \in Cells |-> [ref |-> 0, state |-> FreeState]]]

TableInit ==
  /\ hashPrimary \in [FallbackRefs -> Buckets]
  /\ hashSecondary \in [FallbackRefs -> Buckets]
  /\ orders = EmptyTable
-----------------------------------------------------------------------------
\* fallbackCandidateBuckets: two different buckets when there are two.
Secondary(r) ==
  IF hashSecondary[r] = hashPrimary[r]
    THEN (hashSecondary[r] + 1) % BucketCount ELSE hashSecondary[r]

\* The cells of the candidate buckets, in the order they are scanned.
Scan(r) ==
  LET cells(b) == [w \in 1 .. Ways |-> <<b, w>>]
  IN  IF Secondary(r) = hashPrimary[r]
        THEN cells(hashPrimary[r])
        ELSE cells(hashPrimary[r]) \o cells(Secondary(r))

IsDirect(r) == r \in DirectRefs

\* The first of the given cells in the scan for r, if it meets one.
SomeCell(r, cells) == \E i \in DOMAIN Scan(r) : Scan(r)[i] \in cells

FirstCell(r, cells) ==
  LET scan  == Scan(r)
      found == {i \in DOMAIN scan : scan[i] \in cells}
  IN  scan[CHOOSE i \in found : \A j \in found : i <= j]

\* The cells of t that hold a live order under r, those that have seen the
\* reference r, and those that have never been used.
LiveCells(t, r) == {c \in Cells : IsActive(t.fallback[c].state) /\ t.fallback[c].ref = r}
SeenCells(t, r) == {c \in Cells : WasSeen(t.fallback[c].state) /\ t.fallback[c].ref = r}
FreeCells(t)    == {c \in Cells : ~WasSeen(t.fallback[c].state)}

\* findState: whether t has a live order under r, and its state.
Found(t, r) ==
  IF IsDirect(r) THEN IsActive(t.direct[r]) ELSE SomeCell(r, LiveCells(t, r))

StateOf(t, r) ==
  IF IsDirect(r) THEN t.direct[r] ELSE t.fallback[FirstCell(r, LiveCells(t, r))].state

OrderOf(t, r) == StateOf(t, r).order

\* The reference has had an order.
Seen(t, r) ==
  IF IsDirect(r) THEN WasSeen(t.direct[r])
                 ELSE SomeCell(r, SeenCells(t, r))

\* reserve: every candidate is searched for the reference before a free cell
\* is offered.  The table does not change; a reservation names a reference and,
\* for a fallback reference, a cell.
Reserve(t, r) ==
  LET Answer(result, c) == [result |-> result, ref |-> r, cell |-> c]
  IN  IF Seen(t, r) THEN Answer("DuplicateOrderRef", NoCell)
      ELSE IF IsDirect(r) THEN Answer("Applied", NoCell)
      ELSE IF SomeCell(r, FreeCells(t))
        THEN Answer("Applied", FirstCell(r, FreeCells(t)))
      ELSE Answer("OrderTableCapacityExceeded", NoCell)

\* Mutant of Stale: commit trusts the reservation.
StaleNever(t, v) == FALSE

\* commit refuses a reservation whose slot has been taken since.
Stale(t, v) ==
  WasSeen(IF IsDirect(v.ref) THEN t.direct[v.ref] ELSE t.fallback[v.cell].state)

\* commit of a reservation that is not stale.
Commit(t, v, order) ==
  LET state == [flags |-> {"Active", "Seen"}, order |-> order]
  IN  IF IsDirect(v.ref)
        THEN [t EXCEPT !.direct[v.ref] = state]
        ELSE [t EXCEPT !.fallback[v.cell] = [ref |-> v.ref, state |-> state]]

\* Replaces the state of the live order r.
WithState(t, r, state) ==
  IF IsDirect(r)
    THEN [t EXCEPT !.direct[r] = state]
    ELSE [t EXCEPT !.fallback[FirstCell(r, LiveCells(t, r))].state = state]

\* A handler writes the fields of the live order r in place.
WithOrder(t, r, order) ==
  WithState(t, r, [StateOf(t, r) EXCEPT !.order = order])

\* Mutant of Erase: the whole state is zeroed.
EraseForgets(t, r) == WithState(t, r, FreeState)

\* erase of a live order: only the Seen flag is left.
Erase(t, r) == WithState(t, r, [FreeState EXCEPT !.flags = {"Seen"}])
=============================================================================
