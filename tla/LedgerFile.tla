----------------------------- MODULE LedgerFile -----------------------------
(***************************************************************************)
(* One ledger file with everything that happens to it: imports, claims and *)
(* saves of the processes (LedgerImport), and a client that walks through  *)
(* the inventory meanwhile (Inventory).  SQLite numbers the rows.          *)
(***************************************************************************)
EXTENDS LedgerImport, Naturals, FiniteSets

CONSTANT Limits

VARIABLES
  rowid,  \* the rowid of each receipt, or 0
  walk, cursor, page, listed, owed  \* the walk through the inventory

walking == <<walk, cursor, page, listed, owed>>
fileVars == <<vars, rowid, walking>>

Listing == INSTANCE Inventory
             WITH rows <- Cardinality(Held(ledger)),
                  eligible <- {rowid[i] : i \in {j \in Held(ledger) : ledger[j].saved}},
                  MaxRows <- Cardinality(Ids)

ASSUME FileAssumption ==
  IsFiniteSet(Ids) /\ Limits \subseteq Nat \ {0} /\ None \notin Nat

FileInit ==
  /\ Init
  /\ rowid = [i \in Ids |-> 0]
  /\ walk = "idle" /\ cursor = None /\ page = {} /\ listed = {} /\ owed = {}

\* New rows get the next numbers.
Numbered ==
  LET new == Held(ledger') \ Held(ledger)
      last == Cardinality(Held(ledger))
  IN  \E number \in [new -> last + 1 .. last + Cardinality(new)] :
        /\ \A i, j \in new : number[i] = number[j] => i = j
        /\ rowid' = [i \in Ids |-> IF i \in new THEN number[i] ELSE rowid[i]]

\* Some process answers list_bridge_threads.
Walk ==
  /\ \E p \in Procs : Up(p)
  /\ UNCHANGED <<vars, rowid>>
  /\ Listing!FirstPage \/ Listing!NextPage \/ Listing!StartAgain

FileNext == (Next /\ Numbered /\ UNCHANGED walking) \/ Walk

FileSpec == FileInit /\ [][FileNext]_fileVars

-----------------------------------------------------------------------------
\* What the inventory counts on is what imports, claims and saves do to the file:
\* rows are only added at the end, and a receipt that holds a thread keeps it.
ImplementsInventory == Listing!Spec

\* "Pass cursors back unchanged" (README.md): no receipt is on two pages of a walk,
\* and every page is older than the pages before it.
PagesDescend == Listing!PagesDescend

\* A walk that came to its end has listed every receipt that could be listed when
\* it began, imported ones included.
NothingSkipped == Listing!NothingSkipped
=============================================================================
