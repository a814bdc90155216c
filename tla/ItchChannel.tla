---------------------------- MODULE ItchChannel ----------------------------
(***************************************************************************)
(* The ITCH parser with the state it drives: the channel phase, the stock  *)
(* directory, which stocks have books, and the live orders.  One action    *)
(* per message handler.  A message the parser fails ends the session (the  *)
(* decoder calls it no more), so error stops every action.                 *)
(*                                                                         *)
(* Of the order books only what LimitOrders promises is used: an order     *)
(* enters under a reference not seen before, loses shares or leaves, or    *)
(* gives way to its replacement; and any mutation may be refused.  (When   *)
(* one is, what it spent is of no consequence.)                            *)
(***************************************************************************)
EXTENDS ItchLifecycle, StockDirectory

CONSTANT Refs           \* order references

VARIABLES
  phase,      \* channel_phase_
  prepared,   \* books_prepared_
  directory,  \* symbols_
  books,      \* the locates whose BookManager slot has a book
  priced,     \* the locates whose price state is prepared
  live,       \* the locate of each live order, by reference
  seen,       \* references used today
  named,      \* history: the ticker the Add of an order's chain carried
  error       \* a message has failed

vars == <<tickerHash, phase, prepared, directory, books, priced, live, seen, named, error>>
orderVars == <<live, seen, named>>
stockVars == <<directory, books, priced, prepared>>

Dead == 0
LiveRefs == {r \in Refs : live[r] # Dead}
Registered == {l \in Locates : IsRegistered(directory, l)}

Init ==
  /\ tickerHash \in [Tickers -> 0 .. IndexCapacity - 1]
  /\ phase = "WaitingStartOfMessages"
  /\ prepared = FALSE
  /\ directory = EmptyDirectory
  /\ books = {} /\ priced = {}
  /\ live = [r \in Refs |-> Dead] /\ seen = {} /\ named = [r \in Refs |-> NoTicker]
  /\ error = FALSE

\* fail(), from any handler.
Fail ==
  /\ error' = TRUE
  /\ UNCHANGED <<tickerHash, phase, stockVars, orderVars>>

\* dispatchMessage: a message the phase refuses fails, any other is handled.
Dispatch(type, Handler) ==
  /\ ~error
  /\ IF DispatchAdmits(phase, type) THEN Handler ELSE Fail

\* A book mutation that is applied.  BookManager refuses a stock without a book.
Mutated(l) ==
  /\ l \in books
  /\ UNCHANGED <<tickerHash, phase, stockVars, error>>
-----------------------------------------------------------------------------
\* Mutant of HandleAdd: the stock field is not compared with the directory.
HandleAddUnchecked(l, f, r) ==
  \/ Fail
  \/ /\ IsRegistered(directory, l)
     /\ r \notin seen
     /\ live' = [live EXCEPT ![r] = l]
     /\ seen' = seen \cup {r}
     /\ named' = [named EXCEPT ![r] = f.name]
     /\ Mutated(l)

HandleAdd(l, f, r) ==
  \/ Fail
  \/ /\ IsRegistered(directory, l)
     /\ WireStockMatches(directory.entries[l], f)
     /\ r \notin seen
     /\ live' = [live EXCEPT ![r] = l]
     /\ seen' = seen \cup {r}
     /\ named' = [named EXCEPT ![r] = f.name]
     /\ Mutated(l)

\* A cancel, or an execution of a part: the order stays.
HandleReduce(l, r) ==
  \/ Fail
  \/ live[r] = l /\ Mutated(l) /\ UNCHANGED orderVars

\* A delete, or an execution of the whole order: it leaves.
HandleRemove(l, r) ==
  \/ Fail
  \/ live[r] = l /\ Mutated(l) /\ live' = [live EXCEPT ![r] = Dead] /\ UNCHANGED <<seen, named>>

HandleReplace(l, r, new) ==
  \/ Fail
  \/ /\ new # r
     /\ live[r] = l /\ new \notin seen
     /\ live' = [live EXCEPT ![r] = Dead, ![new] = l]
     /\ seen' = seen \cup {new}
     /\ named' = [named EXCEPT ![new] = named[r]]
     /\ Mutated(l)

\* getOrCreate for every locate of a set.
Create(ls) == books' = books \cup ls /\ priced' = priced \cup ls

\* The checks of handleStockDirectory, set()'s own among them.
DirectoryAccepts(l, f) ==
  /\ FixedText(f) # TextOf(NoTicker)
  /\ l \in Locates
  /\ IsRegistered(directory, l) => FixedText(f) = TextOf(directory.entries[l])
  /\ LocateForTicker(directory, FixedText(f)) \in {kInvalidStockLocate, l}
  /\ SetAccepts(directory, l, f.name)

\* Mutant of HandleStockDirectory: a stock that is added during system hours
\* gets no book.
HandleStockDirectoryOnly(l, f) ==
  IF ~DirectoryAccepts(l, f) THEN Fail
  ELSE /\ directory' = Set(directory, l, f.name)
       /\ UNCHANGED <<tickerHash, phase, prepared, books, priced, orderVars, error>>

\* Stock Directory.  Once the books are prepared a new stock gets its own; a
\* repeated message refreshes metadata, which is left out.
HandleStockDirectory(l, f) ==
  IF ~DirectoryAccepts(l, f) THEN Fail
  ELSE /\ directory' = Set(directory, l, f.name)
       /\ Create(IF prepared THEN {l} ELSE {})
       /\ UNCHANGED <<tickerHash, phase, prepared, orderVars, error>>

\* A System Event that only moves the phase.
HandlePhaseEvent(event) ==
  IF AdvancePhase(phase, event) = Rejected THEN Fail
  ELSE /\ phase' = AdvancePhase(phase, event)
       /\ UNCHANGED <<tickerHash, stockVars, orderVars, error>>

\* System Event S, once a day: every registered stock gets a book.
HandleSystemHoursStart ==
  IF AdvancePhase(phase, "SS") = Rejected THEN Fail
  ELSE /\ phase' = AdvancePhase(phase, "SS")
       /\ prepared' = TRUE
       /\ Create(IF prepared THEN {} ELSE Registered)
       /\ UNCHANGED <<tickerHash, directory, orderVars, error>>

\* Mutant of HandleEndOfMessages: live orders are not looked for.
HandleEndOfMessagesAnyway == HandlePhaseEvent("SC")

\* System Event C.
HandleEndOfMessages ==
  IF LiveRefs # {} THEN Fail ELSE HandlePhaseEvent("SC")

HandleAdmin ==
  /\ phase' = MarkStartupAdmin(phase)
  /\ UNCHANGED <<tickerHash, stockVars, orderVars, error>>

\* Broken trades, emergency codes and the types that are parsed and skipped.
HandleSkipped == UNCHANGED vars
-----------------------------------------------------------------------------
Next ==
  \/ \E l \in Locates \cup {kInvalidStockLocate}, f \in Fields :
       Dispatch("R", HandleStockDirectory(l, f))
  \/ \E l \in Locates, f \in Fields, r \in Refs : Dispatch("A", HandleAdd(l, f, r))
  \/ \E l \in Locates, r \in Refs, type \in {"E", "X"} : Dispatch(type, HandleReduce(l, r))
  \/ \E l \in Locates, r \in Refs, type \in {"E", "D"} : Dispatch(type, HandleRemove(l, r))
  \/ \E l \in Locates, r, new \in Refs : Dispatch("U", HandleReplace(l, r, new))
  \/ \E event \in PhaseEvents \ {"SS", "SC"} : Dispatch(event, HandlePhaseEvent(event))
  \/ Dispatch("SS", HandleSystemHoursStart)
  \/ Dispatch("SC", HandleEndOfMessages)
  \/ Dispatch("H", HandleAdmin)
  \/ \E type \in {"SA", "B", "N"} : Dispatch(type, HandleSkipped)
  \/ \E type \in {"S?", "T?"} : Dispatch(type, Fail)

Spec == Init /\ [][Next]_vars
-----------------------------------------------------------------------------
\* The reverse index is the inverse of the directory: a registered ticker is
\* found, at its own locate, whatever tickers collide with it, and nothing
\* else is; so no two locates share a ticker.
IndexExact ==
  \A t \in Tickers : \A l \in Locates :
    directory.entries[l] = t <=> LocateForTicker(directory, TextOf(t)) = l

\* auditDirectory finds nothing wrong.
AuditClean ==
  \A l \in Locates :
    /\ l \in Registered => l \in books /\ l \in priced
    /\ l \notin Registered => l \notin books /\ l \notin priced
    /\ l \in books <=> l \in priced

\* While the session is sound the books are those of the directory, from the
\* start of system hours on, however late a stock is announced; before it
\* there are none.  This is the audit the process makes before it reports
\* success.
BooksFollowDirectory ==
  ~error => IF phase \in {"WaitingStartOfMessages", "StartupDirectorySpin", "StartupAdminSpin"}
              THEN books = {} ELSE AuditClean

\* A live order rests in the book of a registered stock, under the ticker its
\* Add named, through any number of replacements and directory messages.
OrdersAreIdentified ==
  \A r \in LiveRefs : /\ live[r] \in books
                      /\ directory.entries[live[r]] = named[r]

\* Orders live only between the start of system hours and the end of messages,
\* and after System Event E the books only empty: no message brings an order
\* in.
OrdersKeepHours ==
  [][/\ LiveRefs' # {} => phase' \in {"SystemHours", "MarketHours", "PostMarketHours",
                                      "PostSystemHours"}
     /\ phase = "PostSystemHours" => LiveRefs' \subseteq LiveRefs]_vars
=============================================================================
