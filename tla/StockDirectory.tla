--------------------------- MODULE StockDirectory ---------------------------
(***************************************************************************)
(* The stock directory: the ticker of each stock locate, and an open       *)
(* addressed reverse index from tickers to locates.  Entries are never     *)
(* removed.  The hash function is any function, chosen initially.          *)
(*                                                                         *)
(* The eight-byte stock field of a message is [name, tail]: name is what   *)
(* precedes the first NUL or the trailing padding, and tail is "spaces" or *)
(* "nuls" for the padding that fixedText strips, or "embedded" when more   *)
(* text follows a NUL, which fixedText keeps and a C string does not.      *)
(***************************************************************************)
EXTENDS Integers, FiniteSetsExt

CONSTANTS
  Locates,        \* valid stock locates; 0 is the invalid one
  Tickers,        \* ticker names
  NoTicker,       \* the empty name
  IndexCapacity   \* kTickerIndexCapacity

ASSUME DirectoryAssumption ==
  /\ Locates \subseteq Nat \ {0}
  /\ NoTicker \notin Tickers
  /\ IndexCapacity \in Nat /\ IndexCapacity > Cardinality(Locates)

VARIABLE tickerHash

kInvalidStockLocate == 0

Fields == [name : Tickers \cup {NoTicker}, tail : {"spaces", "nuls", "embedded"}]

\* fixedText: two texts are equal when their names and what follows are.
FixedText(f) == <<f.name, IF f.tail = "embedded" THEN "more" ELSE "">>
TextOf(ticker) == <<ticker, "">>

\* wireStockMatches: an Add must pad the registered ticker with spaces.
WireStockMatches(ticker, f) == f.name = ticker /\ f.tail = "spaces"

Slots == 0 .. IndexCapacity - 1

EmptyDirectory ==
  [entries |-> [l \in Locates |-> NoTicker],
   index   |-> [s \in Slots |-> kInvalidStockLocate]]

IsRegistered(d, l) == l \in Locates /\ d.entries[l] # NoTicker

Slot(ticker, probe) == (tickerHash[ticker] + probe) % IndexCapacity

\* The first probe that meets one of the slots; IndexCapacity when none does.
FirstProbe(ticker, slots) ==
  Min({p \in Slots : Slot(ticker, p) \in slots} \cup {IndexCapacity})

\* Mutant of LocateForTicker: the search ends at the home slot.
LocateForTickerHome(d, text) ==
  LET l == d.index[Slot(text[1], 0)]
  IN  IF text[1] \in Tickers /\ l # kInvalidStockLocate /\ TextOf(d.entries[l]) = text
        THEN l ELSE kInvalidStockLocate

\* locateForTicker.  The hash of a text with an embedded NUL is some hash; no
\* entry equals such a text, so its search finds nothing from any slot.
LocateForTicker(d, text) ==
  LET stops == {s \in Slots : \/ d.index[s] = kInvalidStockLocate
                              \/ TextOf(d.entries[d.index[s]]) = text}
      p     == FirstProbe(text[1], stops)
  IN  IF text[1] \notin Tickers \/ text # TextOf(text[1]) \/ p = IndexCapacity
        THEN kInvalidStockLocate
        ELSE d.index[Slot(text[1], p)]

\* emptyReverseSlot.
EmptyProbe(d, ticker) ==
  FirstProbe(ticker, {s \in Slots : d.index[s] = kInvalidStockLocate})

\* Whether set() accepts the entry of a valid locate, whose ticker is name.
SetAccepts(d, l, name) ==
  /\ name # NoTicker
  /\ IF IsRegistered(d, l) THEN d.entries[l] = name
     ELSE /\ LocateForTicker(d, TextOf(name)) = kInvalidStockLocate
          /\ EmptyProbe(d, name) < IndexCapacity

\* The directory after set() has accepted the entry.
Set(d, l, name) ==
  IF IsRegistered(d, l) THEN d
  ELSE [entries |-> [d.entries EXCEPT ![l] = name],
        index   |-> [d.index EXCEPT ![Slot(name, EmptyProbe(d, name))] = l]]
=============================================================================
