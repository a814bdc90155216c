---------------------------- MODULE LimitOrders ----------------------------
(***************************************************************************)
(* What the order books promise of the orders themselves: a reference is   *)
(* used for one order a day, a live order changes only by losing shares,   *)
(* and a replacement takes the place of the order it names, on the same    *)
(* side of the same book, in one step.  A mutation that is refused         *)
(* changes no order; it may spend a reference.                             *)
(***************************************************************************)
EXTENDS Integers

CONSTANTS Refs, Locates, Prices, MaxQty, Dead

VARIABLES
  live,   \* the live order of each reference, or Dead
  spent   \* the references no new order may take

LiveOrders == [locate : Locates, side : {"Buy", "Sell"}, price : Prices, qty : 1 .. MaxQty]

LimitInit == live = [r \in Refs |-> Dead] /\ spent = {}

Refuse == UNCHANGED <<live, spent>>

Enter(r) ==
  /\ r \notin spent
  /\ live'[r] \in LiveOrders
  /\ live' = [live EXCEPT ![r] = live'[r]]
  /\ spent' = spent \cup {r}

Lose(r) ==
  /\ live[r] # Dead
  /\ live'[r] # Dead
  /\ live'[r].qty \in 1 .. live[r].qty - 1
  /\ live' = [live EXCEPT ![r].qty = live'[r].qty]
  /\ UNCHANGED spent

Leave(r) ==
  /\ live[r] # Dead
  /\ live' = [live EXCEPT ![r] = Dead]
  /\ UNCHANGED spent

Substitute(r, new) ==
  /\ live[r] # Dead
  /\ new = r \/ new \notin spent
  /\ live'[new] \in LiveOrders
  /\ live'[new].locate = live[r].locate
  /\ live'[new].side = live[r].side
  /\ live' = [live EXCEPT ![r] = Dead, ![new] = live'[new]]
  /\ spent' = spent \cup {new}

Spend(r) == spent' = spent \cup {r} /\ UNCHANGED live

LimitNext ==
  \/ Refuse
  \/ \E r \in Refs : Enter(r) \/ Lose(r) \/ Leave(r) \/ Spend(r)
                       \/ \E new \in Refs : Substitute(r, new)

LimitSpec == LimitInit /\ [][LimitNext]_<<live, spent>>
=============================================================================
