----------------------------- MODULE TableUse ------------------------------
(***************************************************************************)
(* The order table under any legal sequence of calls: a reservation may be *)
(* held while others are made and committed, and orders die in between.    *)
(***************************************************************************)
EXTENDS OrderTable

CONSTANT MaxHeld  \* bound: reservations held at a time

VARIABLES
  held,   \* valid reservations that have not been committed
  seen,   \* history: the references ever committed
  live    \* history: the references committed and not erased

useVars == <<tableVars, held, seen, live>>

UseInit == TableInit /\ held = {} /\ seen = {} /\ live = {}

\* reserve; a refusal changes nothing.
ReserveSlot(r) ==
  /\ Cardinality(held) < MaxHeld
  /\ Reserve(orders, r).result = "Applied"
  /\ held' = held \cup {Reserve(orders, r)}
  /\ UNCHANGED <<tableVars, seen, live>>

CommitFresh(v, order) ==
  /\ ~Stale(orders, v)
  /\ orders' = Commit(orders, v, order)
  /\ held' = held \ {v}
  /\ seen' = seen \cup {v.ref}
  /\ live' = live \cup {v.ref}
  /\ UNCHANGED <<hashPrimary, hashSecondary>>

CommitStale(v) ==
  /\ Stale(orders, v)
  /\ held' = held \ {v}
  /\ UNCHANGED <<tableVars, seen, live>>

EraseOrder(r) ==
  /\ Found(orders, r)
  /\ orders' = Erase(orders, r)
  /\ live' = live \ {r}
  /\ UNCHANGED <<hashPrimary, hashSecondary, held, seen>>

UseNext ==
  \/ \E r \in Refs : ReserveSlot(r) \/ EraseOrder(r)
  \/ \E v \in held : CommitStale(v) \/ \E order \in Orders : CommitFresh(v, order)

UseSpec == UseInit /\ [][UseNext]_useVars

\* A reference is found exactly while its order lives: no other reference's
\* commit or erase hides it, and a dead order does not come back.
FindsTheLiving == \A r \in Refs : Found(orders, r) <=> r \in live

\* A reference is refused as a duplicate exactly when it has been committed
\* before, however long ago its order died: the Seen flag is what makes order
\* references unique for the day.
DayUnique ==
  \A r \in Refs : Reserve(orders, r).result = "DuplicateOrderRef" <=> r \in seen

=============================================================================
