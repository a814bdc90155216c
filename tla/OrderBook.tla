----------------------------- MODULE OrderBook -----------------------------
(***************************************************************************)
(* The order books of all stocks, as BookManager holds them: one view per  *)
(* prepared stock over the shared order table and price-page arena.  One   *)
(* action per mutation; each runs to its end before the next begins, in    *)
(* the single engine thread.                                               *)
(***************************************************************************)
EXTENDS OrderTable, PriceLevelStore

CONSTANTS
  MaxQty,     \* largest quantity of an order (uint32)
  Quantities, \* nonzero quantities a message may carry
  MaxPrice    \* kMaxItchPrice4: the largest price a message may set

ASSUME BookAssumption ==
  /\ 0 \notin Locates
  /\ MaxQty \in Nat \ {0}
  /\ Quantities \subseteq 1 .. MaxQty /\ Quantities # {}
  /\ MaxPrice \in Price /\ MaxPrice + 1 \in Price
  /\ MaxTotal >= MaxCount * MaxQty
  /\ NoOrder \notin [locate : Locates, side : Side, price : 0 .. MaxPrice, qty : 1 .. MaxQty]

VARIABLE
  books    \* per stock: whether it has a book, local_invalid_, live_order_count_

vars == <<tableVars, prices, books>>

Init ==
  /\ TableInit
  /\ StoreInit
  /\ books = [b \in Locates |-> [exists |-> FALSE, invalid |-> FALSE, live |-> 0]]

\* The results on which reject() marks the book invalid.
Corrupting ==
  {"QuantityOverflow", "QuantityUnderflow", "InvalidPricePage", "MissingPriceLevel",
   "StaleReservation", "InvariantViolation", "BookInvalid"}

\* BookManager::getOrCreate: the store is prepared, then the view made.
PrepareStock(b) ==
  /\ ~books[b].exists
  /\ prices' = PrepareBook(prices, b)
  /\ books' = [books EXCEPT ![b].exists = TRUE]
  /\ UNCHANGED tableVars

\* BookManager answers for a stock without a book, and a book that is invalid
\* answers before it looks at anything.
Reachable(b, verdict) ==
  IF ~books[b].exists THEN "BookNotPrepared"
  ELSE IF books[b].invalid THEN "BookInvalid"
  ELSE verdict

\* reject().
Rejected(b, verdict) ==
  books' = [books EXCEPT ![b].invalid = @ \/ verdict \in Corrupting]

RejectUnchanged(b, verdict) ==
  /\ verdict # "Applied"
  /\ Rejected(b, verdict)
  /\ UNCHANGED <<prices, orders>>

Applied(b, grown) ==
  books' = [books EXCEPT ![b].live = @ + grown]

OrderAt(b, v, side, qty) ==
  [qty |-> qty, handle |-> v.handle, level |-> v.level, locate |-> b,
   side |-> side, page |-> v.page]

\* validateState, and the checks cancelShares and executeOrder make in its place.
ValidateState(b, ref) ==
  LET o == OrderOf(orders, ref)
  IN  IF ~Found(orders, ref) THEN "OrderNotFound"
      ELSE IF o.locate # b THEN "LocateMismatch"
      ELSE IF o.qty = 0 \/ o.handle = NoPage \/ ~Owns(prices, b, o.page, o.handle)
        THEN "InvariantViolation"
      ELSE "Applied"
-----------------------------------------------------------------------------
\* addOrder, up to the page of the price: what is refused here touches nothing.
\* A reservation of either kind is committed at once, before anything else
\* changes its store, so neither commit can find it stale.
AddAdmission(b, ref, price, qty, side) ==
  IF side \notin Side THEN "InvalidSide"
  ELSE IF qty = 0 THEN "InvalidQuantity"
  ELSE IF price > MaxPrice THEN "PriceOutOfRange"
  ELSE IF Reserve(orders, ref).result # "Applied" THEN Reserve(orders, ref).result
  ELSE ReservePrice(prices, b, price).result

\* The page is published before the level is validated, and stays published.
AddOrder(b, ref, price, qty, side) ==
  LET admission == Reachable(b, AddAdmission(b, ref, price, qty, side))
      page      == ReservePrice(prices, b, price)
      published == CommitReservation(prices, page)
      verdict   == ValidateAdd(published, page, side, qty)
  IN  /\ \/ RejectUnchanged(b, admission)
         \/ /\ admission = "Applied"
            /\ verdict # "Applied"
            /\ prices' = published
            /\ Rejected(b, verdict)
            /\ UNCHANGED orders
         \/ /\ admission = "Applied"
            /\ verdict = "Applied"
            /\ prices' = AddValidated(published, page, side, qty)
            /\ orders' = Commit(orders, Reserve(orders, ref), OrderAt(b, page, side, qty))
            /\ Applied(b, 1)
      /\ UNCHANGED <<hashPrimary, hashSecondary>>

\* A mutation that takes by shares off the order ref: its part that remains.
ReduceOrder(b, ref, by) ==
  LET o == OrderOf(orders, ref)
  IN  /\ prices' = Reduced(prices, o, o.side, by)
      /\ orders' = WithOrder(orders, ref, [o EXCEPT !.qty = @ - by])
      /\ Applied(b, 0)

\* A mutation that ends the order ref.
EndOrder(b, ref) ==
  LET o == OrderOf(orders, ref)
  IN  /\ prices' = EraseValidated(prices, o, o.side, o.qty)
      /\ orders' = Erase(orders, ref)
      /\ Applied(b, -1)

\* Mutant of CancelVerdict: X may take the whole of an order.
CancelVerdictWhole(b, ref, by) ==
  LET o     == OrderOf(orders, ref)
      state == ValidateState(b, ref)
  IN  IF by = 0 THEN "InvalidQuantity"
      ELSE IF state # "Applied" THEN state
      ELSE IF by > o.qty THEN "QuantityExceeded"
      ELSE "Applied"

\* cancelShares: X is a partial cancel.
CancelVerdict(b, ref, by) ==
  LET o     == OrderOf(orders, ref)
      state == ValidateState(b, ref)
  IN  IF by = 0 THEN "InvalidQuantity"
      ELSE IF state # "Applied" THEN state
      ELSE IF by >= o.qty THEN "QuantityExceeded"
      ELSE ValidateReduce(prices, o, o.side, o.qty, by)

CancelShares(b, ref, by) ==
  LET verdict == Reachable(b, CancelVerdict(b, ref, by))
  IN  /\ \/ verdict = "Applied" /\ ReduceOrder(b, ref, by)
         \/ RejectUnchanged(b, verdict)
      /\ UNCHANGED <<hashPrimary, hashSecondary>>

\* deleteOrder.
DeleteVerdict(b, ref) ==
  LET o     == OrderOf(orders, ref)
      state == ValidateState(b, ref)
  IN  IF state # "Applied" THEN state
      ELSE ValidateErase(prices, o, o.side, o.qty)

DeleteOrder(b, ref) ==
  LET verdict == Reachable(b, DeleteVerdict(b, ref))
  IN  /\ \/ verdict = "Applied" /\ EndOrder(b, ref)
         \/ RejectUnchanged(b, verdict)
      /\ UNCHANGED <<hashPrimary, hashSecondary>>

\* executeOrder: an execution of the whole order ends it.
ExecuteVerdict(b, ref, by) ==
  LET o     == OrderOf(orders, ref)
      state == ValidateState(b, ref)
  IN  IF by = 0 THEN "InvalidQuantity"
      ELSE IF state # "Applied" THEN state
      ELSE IF by > o.qty THEN "QuantityExceeded"
      ELSE IF by = o.qty THEN ValidateErase(prices, o, o.side, o.qty)
      ELSE ValidateReduce(prices, o, o.side, o.qty, by)

ExecuteOrder(b, ref, by) ==
  LET verdict == Reachable(b, ExecuteVerdict(b, ref, by))
  IN  /\ \/ /\ verdict = "Applied"
            /\ by = OrderOf(orders, ref).qty
            /\ EndOrder(b, ref)
         \/ /\ verdict = "Applied"
            /\ by < OrderOf(orders, ref).qty
            /\ ReduceOrder(b, ref, by)
         \/ RejectUnchanged(b, verdict)
      /\ UNCHANGED <<hashPrimary, hashSecondary>>

\* replaceOrder, up to the page of the new price.
ReplaceAdmission(b, old, new, price, qty) ==
  LET state == ValidateState(b, old)
  IN  IF qty = 0 THEN "InvalidQuantity"
      ELSE IF price > MaxPrice THEN "PriceOutOfRange"
      ELSE IF state # "Applied" THEN state
      ELSE IF new # old /\ Reserve(orders, new).result # "Applied"
        THEN Reserve(orders, new).result
      ELSE ReservePrice(prices, b, price).result

\* The table after the level store has refused the move: the new reference is
\* erased again, which leaves it seen.
ReplaceRollback(placed, old, new) ==
  IF new = old THEN orders ELSE Erase(placed, new)

\* The new order is in the table before the quantities move, and the old one
\* leaves it after.
ReplaceOrder(b, old, new, price, qty) ==
  LET admission == Reachable(b, ReplaceAdmission(b, old, new, price, qty))
      o         == OrderOf(orders, old)
      page      == ReservePrice(prices, b, price)
      published == CommitReservation(prices, page)
      verdict   == ValidateMove(published, o, o.qty, page, qty, o.side)
      moved     == OrderAt(b, page, o.side, qty)
      placed    == IF new = old THEN WithOrder(orders, old, moved)
                   ELSE Commit(orders, Reserve(orders, new), moved)
  IN  /\ \/ RejectUnchanged(b, admission)
         \/ /\ admission = "Applied"
            /\ verdict # "Applied"
            /\ prices' = published
            /\ orders' = ReplaceRollback(placed, old, new)
            /\ Rejected(b, verdict)
         \/ /\ admission = "Applied"
            /\ verdict = "Applied"
            /\ prices' = Moved(published, o, o.qty, page, qty, o.side)
            /\ orders' = IF new = old THEN placed ELSE Erase(placed, old)
            /\ Applied(b, 0)
      /\ UNCHANGED <<hashPrimary, hashSecondary>>

ValidPrice == 0 .. MaxPrice

\* Messages with one field out of its domain.
MalformedMessage(b, ref) ==
  LET q == CHOOSE q \in Quantities : TRUE
  IN  \/ AddOrder(b, ref, 0, q, "Other")
      \/ AddOrder(b, ref, 0, 0, "Buy")
      \/ AddOrder(b, ref, MaxPrice + 1, q, "Sell")
      \/ CancelShares(b, ref, 0)
      \/ ExecuteOrder(b, ref, 0)
      \/ ReplaceOrder(b, ref, ref, 0, 0)
      \/ ReplaceOrder(b, ref, ref, MaxPrice + 1, q)

\* The values of a field that are tried in a message: all of them, or one
\* when the stock and the references have the message refused, without a
\* change, whatever the field says.
Tried(values, refused) ==
  IF refused THEN {CHOOSE v \in values : TRUE} ELSE values

NoEntry(b, ref) == ~books[b].exists \/ Seen(orders, ref)

NoOrderIn(b, ref) ==
  ~books[b].exists \/ ~Found(orders, ref) \/ OrderOf(orders, ref).locate # b

Next ==
  \E b \in Locates :
    \/ PrepareStock(b)
    \/ \E ref \in Refs :
         \/ MalformedMessage(b, ref)
         \/ \E price \in Tried(ValidPrice, NoEntry(b, ref)),
                qty \in Tried(Quantities, NoEntry(b, ref)),
                side \in Tried(Side, NoEntry(b, ref)) :
              AddOrder(b, ref, price, qty, side)
         \/ \E qty \in Tried(Quantities, NoOrderIn(b, ref)) :
              CancelShares(b, ref, qty) \/ ExecuteOrder(b, ref, qty)
         \/ DeleteOrder(b, ref)
         \/ \E new \in Refs :
              LET refused == NoOrderIn(b, ref) \/ (new # ref /\ NoEntry(b, new))
              IN  \E price \in Tried(ValidPrice, refused), qty \in Tried(Quantities, refused) :
                    ReplaceOrder(b, ref, new, price, qty)

Spec == Init /\ [][Next]_vars
-----------------------------------------------------------------------------
\* The references of the live orders that rest on side of b at price.
RestingAt(b, side, price) ==
  {r \in Refs : /\ Found(orders, r)
                /\ OrderOf(orders, r).locate = b
                /\ OrderOf(orders, r).side = side
                /\ JoinPrice(OrderOf(orders, r).page, OrderOf(orders, r).level) = price}

\* The level a reference book would show: the orders at the price and the sum
\* of their quantities.
LevelFromOrders(b, side, price) ==
  LET at == RestingAt(b, side, price)
  IN  [price |-> price, count |-> Cardinality(at),
       total |-> MapThenSumSet(LAMBDA r : OrderOf(orders, r).qty, at)]

\* The prices in use on one side, and how many of them come before one.
UsedPrices(b, side) == {p \in ValidPrice : RestingAt(b, side, p) # {}}

Rank(b, side, price) == Cardinality({p \in UsedPrices(b, side) : Better(side, p, price)})

\* What a book says is what its live orders say: topTen lists the best prices
\* that have live orders, in order, each with the exact number of its orders
\* and the exact sum of their quantities, and live_order_count_, which the
\* end-of-messages event compares with zero, is their number.  The order table,
\* the level store and the count are written separately by every handler; this
\* is that they agree, through every cached best, bitmap and page hand-over.
\* And no sequence of mutations, however malformed the messages, makes a book
\* answer one of the results that mean its own state is corrupt.
BooksExact ==
  \A b \in Locates :
    /\ ~books[b].invalid
    /\ books[b].live = Cardinality({r \in Refs : /\ Found(orders, r)
                                                 /\ OrderOf(orders, r).locate = b})
    /\ \A side \in Side :
         LET used  == UsedPrices(b, side)
             shown == TopTen(prices, b, side)
         IN  /\ Len(shown) = Min({Cardinality(used), TopLevelCount})
             /\ \A k \in 1 .. Len(shown) :
                  \E price \in used : /\ Rank(b, side, price) = k - 1
                                     /\ shown[k] = LevelFromOrders(b, side, price)

\* The order of a reference as LimitOrders sees it.
LiveOrder(r) ==
  LET o == OrderOf(orders, r)
  IN  IF Found(orders, r)
        THEN [locate |-> o.locate, side |-> o.side, qty |-> o.qty,
              price |-> JoinPrice(o.page, o.level)]
        ELSE NoOrder

Limit ==
  INSTANCE LimitOrders WITH
    Prices <- ValidPrice, Dead <- NoOrder,
    live   <- [r \in Refs |-> LiveOrder(r)],
    spent  <- {r \in Refs : Seen(orders, r)}

\* Every mutation, whichever of its checks it fails and however far it got,
\* does to the live orders one of the few things a limit order book may do:
\* a replacement is never half done, an order never ends with no shares, and
\* a reference never comes back.  (The live orders and the spent references are
\* functions of orders, so a step that keeps orders keeps both; it is named
\* first because it is the cheapest to recognise.)
ImplementsLimitOrders ==
  Limit!LimitInit /\ [][UNCHANGED orders \/ Limit!LimitNext]_orders
=============================================================================
