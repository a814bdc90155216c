-------------------------- MODULE PriceLevelStore --------------------------
(***************************************************************************)
(* The process-wide arena of price pages.  A price splits into a page      *)
(* index and a level index; a page is given to (stock, page index) the     *)
(* first time a price in it is used, and kept for the day.  Each page and  *)
(* each book caches its best level and, in a bitmap, which of its levels   *)
(* or pages are in use; a page with one level has no bitmap.               *)
(*                                                                         *)
(* Stores are values: the operators below are the methods of the class,    *)
(* those that change the store returning the new one.  A bitmap is the set *)
(* of its bits and a search the extremum of a set, which is what           *)
(* PriceBitmap establishes.                                                *)
(***************************************************************************)
EXTENDS Integers, Sequences, FiniteSets, FiniteSetsExt

CONSTANTS
  Locates,        \* valid stock locates
  Parts,          \* kPricePartCount: pages of a book, and levels of a page
  PageCapacity,   \* config_.page_capacity
  MaxCount,       \* largest order_count of a level (uint32)
  MaxTotal,       \* largest total_qty of a level (uint64)
  TopLevelCount   \* kTopLevelCount

ASSUME StoreAssumption ==
  /\ Parts \in Nat \ {0}
  /\ PageCapacity \in Nat \ {0}
  /\ MaxCount \in Nat \ {0}
  /\ MaxTotal \in Nat
  /\ TopLevelCount \in Nat \ {0}

VARIABLE prices  \* the store

Side    == {"Buy", "Sell"}
Part    == 0 .. Parts - 1
Handles == 1 .. PageCapacity
NoPage  == 0    \* kInvalidPricePageHandle
None    == -1   \* PriceBitmap::kInvalid

Price == 0 .. Parts * Parts - 1

\* splitPrice and joinPrice.
PageOf(price)      == price \div Parts
LevelOf(price)     == price % Parts
JoinPrice(page, l) == page * Parts + l

NoOwner == [locate |-> 0, page |-> 0, committed |-> FALSE]

EmptyStore ==
  [roots     |-> [b \in Locates |-> [p \in Part |-> NoPage]],
   prepared  |-> {},
   owner     |-> [h \in Handles |-> NoOwner],
   committed |-> 0,
   levels    |-> [h \in Handles |-> [s \in Side |-> [l \in Part |-> [total |-> 0, count |-> 0]]]],
   page      |-> [h \in Handles |-> [s \in Side |-> [best |-> 0, active |-> 0]]],
   pageBits  |-> [h \in Handles |-> [s \in Side |-> {}]],
   book      |-> [b \in Locates |-> [s \in Side |-> [best |-> 0, handle |-> NoPage, active |-> 0]]],
   bookBits  |-> [b \in Locates |-> [s \in Side |-> {}]]]

StoreInit == prices = EmptyStore

Better(side, x, y) == IF side = "Buy" THEN x > y ELSE x < y

\* The two searches of a removal or a walk: the nearest member of bits that is
\* strictly worse than x.
NextIn(side, bits, x) ==
  LET worse == {y \in bits : Better(side, x, y)}
  IN  IF worse = {} THEN None
      ELSE IF side = "Buy" THEN Max(worse) ELSE Min(worse)
-----------------------------------------------------------------------------
PrepareBook(st, b) == [st EXCEPT !.prepared = @ \cup {b}]

\* ownsAddress and rootHandleMatches: the page behind handle h belongs to page
\* index p of stock b.
Owns(st, b, p, h) ==
  /\ h \in 1 .. st.committed
  /\ st.owner[h] = [locate |-> b, page |-> p, committed |-> TRUE]

PageHandle(st, b, p) ==
  IF Owns(st, b, p, st.roots[b][p]) THEN st.roots[b][p] ELSE NoPage

\* reservePrice changes nothing; a new page is only promised.
ReservePrice(st, b, price) ==
  LET root == st.roots[b][PageOf(price)]
      Answer(result, h, fresh) ==
        [result |-> result, locate |-> b, page |-> PageOf(price),
         handle |-> h, level |-> LevelOf(price), requiresCommit |-> fresh]
  IN  IF b \notin st.prepared
        THEN Answer("BookNotPrepared", NoPage, FALSE)
      ELSE IF root # NoPage
        THEN IF Owns(st, b, PageOf(price), root)
               THEN Answer("Applied", root, FALSE)
               ELSE Answer("InvariantViolation", NoPage, FALSE)
      ELSE IF st.committed >= PageCapacity
        THEN Answer("PricePageCapacityExceeded", NoPage, FALSE)
      ELSE Answer("Applied", st.committed + 1, TRUE)

\* commitReservation of a reservation made from the same store, which its
\* staleness checks therefore accept.
CommitReservation(st, v) ==
  IF v.requiresCommit
    THEN [st EXCEPT
            !.owner[v.handle] = [locate |-> v.locate, page |-> v.page, committed |-> TRUE],
            !.committed = v.handle,
            !.roots[v.locate][v.page] = v.handle]
    ELSE st
-----------------------------------------------------------------------------
Occupied(level) == level.count # 0 /\ level.total # 0

\* validateAdd, with validateActivation.  An address a is a handle and a level.
ValidateAdd(st, a, side, qty) ==
  LET level == st.levels[a.handle][side][a.level]
      pg    == st.page[a.handle][side]
      bk    == st.book[st.owner[a.handle].locate][side]
  IN  IF a.handle \notin 1 .. st.committed THEN "InvalidPricePage"
      ELSE IF qty = 0 THEN "InvalidQuantity"
      ELSE IF level.count = MaxCount THEN "OrderCountOverflow"
      ELSE IF level.total > MaxTotal - qty THEN "QuantityOverflow"
      ELSE IF (level.count = 0) # (level.total = 0) THEN "InvariantViolation"
      ELSE IF /\ level.count = 0
              /\ \/ ~st.owner[a.handle].committed
                 \/ pg.active >= Parts
                 \/ pg.active = 0 /\ bk.active >= Parts
        THEN "InvariantViolation"
      ELSE "Applied"

\* activateLevel: the bits of a page appear with its second level.
ActivateLevel(st, a, side) ==
  LET o        == st.owner[a.handle]
      h        == a.handle
      b        == o.locate
      pg       == st.page[h][side]
      bk       == st.book[b][side]
      raw      == JoinPrice(o.page, a.level)
      bookBest == bk.active = 0 \/ bk.handle = NoPage \/ Better(side, raw, bk.best)
  IN  [st EXCEPT
         !.pageBits[h][side] = CASE pg.active = 0 -> @
                                 [] pg.active = 1 -> @ \cup {pg.best, a.level}
                                 [] OTHER         -> @ \cup {a.level},
         !.page[h][side] = [active |-> pg.active + 1,
                            best   |-> IF pg.active = 0 \/ Better(side, a.level, pg.best)
                                         THEN a.level ELSE pg.best],
         !.bookBits[b][side] = IF pg.active = 0 THEN @ \cup {o.page} ELSE @,
         !.book[b][side] = [active |-> IF pg.active = 0 THEN bk.active + 1 ELSE bk.active,
                            best   |-> IF bookBest THEN raw ELSE bk.best,
                            handle |-> IF bookBest THEN h ELSE bk.handle]]

\* addValidated.
AddValidated(st, a, side, qty) ==
  LET on == IF st.levels[a.handle][side][a.level].count = 0
              THEN ActivateLevel(st, a, side) ELSE st
  IN  [on EXCEPT !.levels[a.handle][side][a.level] =
                   [total |-> @.total + qty, count |-> @.count + 1]]
-----------------------------------------------------------------------------
\* validateDeactivation's plan: what takes the place of a level that empties.
DeactivationPlan(st, a, side) ==
  LET o         == st.owner[a.handle]
      pg        == st.page[a.handle][side]
      bk        == st.book[o.locate][side]
      empties   == pg.active = 1
      pageBest  == ~empties /\ pg.best = a.level
      bookBest  == bk.best = JoinPrice(o.page, a.level)
      nextLevel == IF pageBest THEN NextIn(side, st.pageBits[a.handle][side], a.level)
                               ELSE None
      nextPage  == IF bookBest /\ empties
                     THEN NextIn(side, st.bookBits[o.locate][side], o.page) ELSE None
      nextHandle == IF nextPage = None THEN NoPage ELSE PageHandle(st, o.locate, nextPage)
  IN  [empties |-> empties, pageBest |-> pageBest, nextLevel |-> nextLevel,
       bookBest |-> bookBest, nextPage |-> nextPage,
       nextHandle |-> IF bookBest /\ ~empties THEN a.handle ELSE nextHandle]

\* validateDeactivation's checks of the summaries it is about to follow.  The
\* ones on the cached best come first, as in the code.
Deactivable(st, a, side) ==
  LET o    == st.owner[a.handle]
      pg   == st.page[a.handle][side]
      bk   == st.book[o.locate][side]
      bits == st.pageBits[a.handle][side]
      plan == DeactivationPlan(st, a, side)
      OccupiedAt(h, l) == Occupied(st.levels[h][side][l])
  IN  /\ o.committed
      /\ pg.active \in 1 .. Parts
      /\ bk.active \in 1 .. Parts
      /\ bk.handle # NoPage
      /\ o.page \in st.bookBits[o.locate][side]
      /\ Owns(st, o.locate, PageOf(bk.best), bk.handle)
      /\ st.page[bk.handle][side].active # 0
      /\ st.page[bk.handle][side].best = LevelOf(bk.best)
      /\ OccupiedAt(bk.handle, LevelOf(bk.best))
      /\ plan.empties => pg.best = a.level
      /\ ~plan.empties => {a.level, pg.best} \subseteq bits
      /\ plan.pageBest => /\ plan.nextLevel # None
                          /\ OccupiedAt(a.handle, plan.nextLevel)
      /\ plan.bookBest => /\ bk.handle = a.handle
                          /\ pg.best = a.level
      /\ plan.bookBest /\ plan.empties =>
           /\ (plan.nextPage = None) <=> (bk.active = 1)
           /\ plan.nextPage # None =>
                /\ plan.nextHandle # NoPage
                /\ st.page[plan.nextHandle][side].active # 0
                /\ OccupiedAt(plan.nextHandle, st.page[plan.nextHandle][side].best)
      /\ plan.empties /\ bk.active = 1 => plan.bookBest

\* validateErase.
ValidateErase(st, a, side, qty) ==
  LET level == st.levels[a.handle][side][a.level]
  IN  IF a.handle \notin 1 .. st.committed THEN "InvalidPricePage"
      ELSE IF qty = 0 THEN "InvalidQuantity"
      ELSE IF ~Occupied(level) THEN "MissingPriceLevel"
      ELSE IF level.total < qty THEN "QuantityUnderflow"
      ELSE IF (level.count = 1) # (level.total = qty) THEN "InvariantViolation"
      ELSE IF level.count = 1 /\ ~Deactivable(st, a, side) THEN "InvariantViolation"
      ELSE "Applied"

\* The bits of a page that has lost a level: none when one level is left.
CollapsedBits(bits, removed, best, active) ==
  IF active = 1 THEN bits \ {removed, best} ELSE bits \ {removed}

\* deactivateLevel.
DeactivateLevel(st, a, side, plan) ==
  LET o    == st.owner[a.handle]
      h    == a.handle
      b    == o.locate
      pg   == st.page[h][side]
      best == IF plan.pageBest THEN plan.nextLevel ELSE pg.best
      raw  == CASE ~plan.empties        -> JoinPrice(o.page, plan.nextLevel)
                [] plan.nextPage = None -> 0
                [] OTHER -> JoinPrice(plan.nextPage, st.page[plan.nextHandle][side].best)
  IN  [st EXCEPT
         !.page[h][side] = IF plan.empties THEN [best |-> 0, active |-> 0]
                           ELSE [best |-> best, active |-> pg.active - 1],
         !.pageBits[h][side] = IF plan.empties THEN @
                               ELSE CollapsedBits(@, a.level, best, pg.active - 1),
         !.bookBits[b][side] = IF plan.empties THEN @ \ {o.page} ELSE @,
         !.book[b][side] = [active |-> IF plan.empties THEN @.active - 1 ELSE @.active,
                            best   |-> IF plan.bookBest THEN raw ELSE @.best,
                            handle |-> IF plan.bookBest THEN plan.nextHandle ELSE @.handle]]

\* eraseValidated.  The plan was made before the level was touched.
EraseValidated(st, a, side, qty) ==
  LET plan  == DeactivationPlan(st, a, side)
      level == st.levels[a.handle][side][a.level]
      less  == [st EXCEPT !.levels[a.handle][side][a.level] =
                            [total |-> @.total - qty, count |-> @.count - 1]]
  IN  IF level.count = 1 THEN DeactivateLevel(less, a, side, plan) ELSE less

\* reduceChecked, apart from the ownership of the address.
ValidateReduce(st, a, side, current, by) ==
  LET level == st.levels[a.handle][side][a.level]
  IN  IF by = 0 \/ current = 0 THEN "InvalidQuantity"
      ELSE IF by >= current THEN "QuantityUnderflow"
      ELSE IF ~Occupied(level) THEN "MissingPriceLevel"
      ELSE IF level.total < current THEN "QuantityUnderflow"
      ELSE IF (level.count = 1) # (level.total = current) THEN "InvariantViolation"
      ELSE IF level.total <= by THEN "QuantityUnderflow"
      ELSE "Applied"

Reduced(st, a, side, by) ==
  [st EXCEPT !.levels[a.handle][side][a.level].total = @ - by]

SameLevel(a, d) == a.handle = d.handle /\ a.level = d.level

\* move's checks: both changes are validated against the same store.
ValidateMove(st, a, qty, d, newQty, side) ==
  LET erasing == ValidateErase(st, a, side, qty)
  IN  IF newQty = 0 THEN "InvalidQuantity"
      ELSE IF {a.handle, d.handle} \cap (1 .. st.committed) # {a.handle, d.handle}
        THEN "InvalidPricePage"
      ELSE IF ~st.owner[a.handle].committed \/ ~st.owner[d.handle].committed
        THEN "InvariantViolation"
      ELSE IF st.owner[a.handle].locate # st.owner[d.handle].locate THEN "LocateMismatch"
      ELSE IF erasing # "Applied" THEN erasing
      ELSE IF ~SameLevel(a, d) THEN ValidateAdd(st, d, side, newQty)
      ELSE IF st.levels[a.handle][side][a.level].total - qty > MaxTotal - newQty
        THEN "QuantityOverflow"
      ELSE "Applied"

Moved(st, a, qty, d, newQty, side) ==
  IF SameLevel(a, d)
    THEN [st EXCEPT !.levels[a.handle][side][a.level].total = @ - qty + newQty]
    ELSE AddValidated(EraseValidated(st, a, side, qty), d, side, newQty)
-----------------------------------------------------------------------------
NoCursor == [valid |-> FALSE, handle |-> NoPage, price |-> 0]

CursorAt(h, price) == [valid |-> TRUE, handle |-> h, price |-> price]

\* best.
Best(st, b, side) ==
  LET bk == st.book[b][side]
  IN  IF b \notin st.prepared \/ bk.active = 0 \/ bk.handle = NoPage
        THEN NoCursor ELSE CursorAt(bk.handle, bk.best)

\* Mutant of NextWorse: the walk ends with the page it started in.
NextWorseInPage(st, b, side, cur) ==
  LET next == NextIn(side, st.pageBits[cur.handle][side], LevelOf(cur.price))
  IN  IF cur.valid /\ next # None
        THEN CursorAt(cur.handle, JoinPrice(PageOf(cur.price), next)) ELSE NoCursor

\* nextWorse: within the page by its bitmap, then to the best level of the
\* next page.
NextWorse(st, b, side, cur) ==
  LET p         == PageOf(cur.price)
      nextLevel == IF st.page[cur.handle][side].active > 1
                     THEN NextIn(side, st.pageBits[cur.handle][side], LevelOf(cur.price))
                     ELSE None
      nextPage  == NextIn(side, st.bookBits[b][side], p)
      h         == PageHandle(st, b, nextPage)
  IN  IF ~cur.valid \/ b \notin st.prepared \/ ~Owns(st, b, p, cur.handle)
        THEN NoCursor
      ELSE IF nextLevel # None THEN CursorAt(cur.handle, JoinPrice(p, nextLevel))
      ELSE IF nextPage = None THEN NoCursor
      ELSE IF h = NoPage THEN NoCursor
      ELSE IF st.page[h][side].active = 0 THEN NoCursor
      ELSE CursorAt(h, JoinPrice(nextPage, st.page[h][side].best))

\* view: the level a cursor stands on, when it is in use.
Visible(st, b, side, cur) ==
  /\ cur.valid
  /\ Owns(st, b, PageOf(cur.price), cur.handle)
  /\ st.levels[cur.handle][side][LevelOf(cur.price)].count # 0

View(st, side, cur) ==
  LET level == st.levels[cur.handle][side][LevelOf(cur.price)]
  IN  [price |-> cur.price, total |-> level.total, count |-> level.count]

\* topTen: at most TopLevelCount levels, from the best to the worst.
TopTen(st, b, side) ==
  LET cursor[k \in 1 .. TopLevelCount] ==
        IF k = 1 THEN Best(st, b, side) ELSE NextWorse(st, b, side, cursor[k - 1])
      seen  == {k \in 1 .. TopLevelCount :
                  \A j \in 1 .. k : Visible(st, b, side, cursor[j])}
  IN  [k \in 1 .. Cardinality(seen) |-> View(st, side, cursor[k])]
=============================================================================
