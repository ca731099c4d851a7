----------------------------- MODULE Inventory ------------------------------
(***************************************************************************)
(* Ledger.list_threads (ledger.py): a client walks through the receipts of *)
(* created threads, newest first, page by page and cursor by cursor, while *)
(* bridge processes insert receipts and save thread ids into them.         *)
(***************************************************************************)
EXTENDS Naturals, FiniteSets

CONSTANTS Limits,   \* the limits a call may have
          MaxRows,  \* bound of the model: rows of the table
          None

\* What the constants must be.
InventoryConstants ==
  Limits \subseteq Nat \ {0} /\ MaxRows \in Nat /\ None \notin Nat

VARIABLES
  rows,      \* the table has the rowids 1 .. rows
  eligible,  \* rowids of creation receipts that hold a threadId
  walk,      \* "idle", "walking" while there is a nextCursor, "ended"
  cursor,    \* the rowid in nextCursor, or None
  page,      \* the rowids of the last page
  listed,    \* history: the rowids of the pages before it
  owed       \* history: what was eligible when the walk began

table == <<rows, eligible>>
vars == <<table, walk, cursor, page, listed, owed>>

TypeOK ==
  /\ rows \in 0 .. MaxRows
  /\ eligible \subseteq 1 .. rows
  /\ walk \in {"idle", "walking", "ended"}
  /\ cursor \in (1 .. MaxRows) \union {None}
  /\ page \subseteq eligible /\ listed \subseteq eligible /\ owed \subseteq eligible

Init ==
  /\ rows \in 0 .. MaxRows
  /\ eligible \in SUBSET (1 .. rows)
  /\ walk = "idle"
  /\ cursor = None
  /\ page = {} /\ listed = {} /\ owed = {}

\* rowid <= ?
MatchingInclusive(before) == {r \in eligible : before = None \/ r <= before}

\* The WHERE clause.
Matching(before) == {r \in eligible : before = None \/ r < before}

\* ORDER BY rowid DESC LIMIT n.
Newest(set, n) == {r \in set : Cardinality({q \in set : q > r}) < n}

\* The cursor is taken from the row that shows that there are more.
CursorBeyond(limit, b) ==
  LET more == Newest(Matching(cursor), limit + 1)
  IN  b \in more /\ \A r \in more : b <= r

\* rows[limit - 1], the last row of the page.
CursorAt(limit, b) ==
  LET shown == Newest(Matching(cursor), limit)
  IN  b \in shown /\ \A r \in shown : b <= r

\* One row more than the limit is asked for, to know whether there is a next page.
Page(limit) ==
  LET match == Matching(cursor)
  IN  /\ page' = Newest(match, limit)
      /\ listed' = listed \union page
      /\ IF Cardinality(match) > limit
         THEN walk' = "walking" /\ \E b \in match : CursorAt(limit, b) /\ cursor' = b
         ELSE walk' = "ended" /\ cursor' = None

FirstPage ==
  /\ walk = "idle"
  /\ \E limit \in Limits : Page(limit)
  /\ owed' = eligible
  /\ UNCHANGED table

NextPage ==
  /\ walk = "walking"
  /\ \E limit \in Limits : Page(limit)
  /\ UNCHANGED <<table, owed>>

StartAgain ==
  /\ walk = "ended"
  /\ walk' = "idle" /\ page' = {} /\ listed' = {} /\ owed' = {}
  /\ UNCHANGED <<table, cursor>>

\* begin() gives the next rowid, an import several, and its receipts may hold
\* threads; rows are never deleted.
Insert ==
  /\ rows' \in rows + 1 .. MaxRows
  /\ \E new \in SUBSET (rows + 1 .. rows') : eligible' = eligible \union new
  /\ UNCHANGED <<walk, cursor, page, listed, owed>>

\* save() of a receipt that has got its threadId.
GainThread ==
  /\ \E r \in 1 .. rows : eligible' = eligible \union {r}
  /\ UNCHANGED <<rows, walk, cursor, page, listed, owed>>

Next == FirstPage \/ NextPage \/ StartAgain \/ Insert \/ GainThread

Spec == Init /\ [][Next]_vars

-----------------------------------------------------------------------------
\* "Pass cursors back unchanged" (README.md): no receipt is on two pages of a
\* walk, and every page is older than the pages before it, whatever is inserted
\* and whichever older receipts gain a thread meanwhile.
PagesDescend == \A new \in page, old \in listed : new < old

\* A walk that came to its end has listed every receipt that could be listed when
\* it began.
NothingSkipped == walk = "ended" => owed \subseteq listed \union page
=============================================================================
