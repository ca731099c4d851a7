---------------------------- MODULE LedgerImport ----------------------------
(***************************************************************************)
(* open_endpoint_ledger and import_legacy (ledger.py): a process that is   *)
(* started with an alias of the socket copies the rows of the alias's old  *)
(* ledger into the ledger of the canonical path before it serves any call. *)
(*                                                                         *)
(* The old ledger is not written any more (README.md: "Do not run old/new  *)
(* versions against one ledger"); the canonical one is written by every    *)
(* process that is up.  A SELECT of import_legacy runs by itself until the *)
(* first INSERT opens the write transaction; from there on the import is   *)
(* alone with the file, and one step here.                                 *)
(***************************************************************************)
CONSTANTS Procs,   \* bridge processes
          Ids,     \* request_id values
          Prints,  \* fingerprints
          None

VARIABLES
  legacy,   \* the rows of the alias's ledger, or None
  ledger,   \* the rows of the canonical ledger, or None
  phase,    \* where each process stands
  scan,     \* the rows a starting process has read and not yet compared
  missing,  \* the row it found missing and is about to insert
  writer    \* the process that saves each row, while it is up

vars == <<legacy, ledger, phase, scan, missing, writer>>

\* "by" tells receipts apart that started at different times.
Rows == [print : Prints, saved : BOOLEAN, by : {"old bridge", "bridge"}]

OldRows == {row \in Rows : row.by = "old bridge"}

ASSUME ImportAssumption == None \notin Rows /\ None \notin Ids /\ None \notin Procs

Up(p) == phase[p] \in {"imported", "direct"}

TypeOK ==
  /\ legacy \in [Ids -> OldRows \union {None}]
  /\ ledger \in [Ids -> Rows \union {None}]
  /\ phase \in [Procs -> {"down", "importing", "imported", "direct", "refused", "collided"}]
  /\ scan \in [Procs -> SUBSET Ids]
  /\ missing \in [Procs -> Ids \union {None}]
  /\ writer \in [Ids -> Procs \union {None}]
  /\ \A i \in Ids : writer[i] # None => ledger[i] # None /\ Up(writer[i])

Held(db) == {i \in Ids : db[i] # None}

Init ==
  /\ legacy \in [Ids -> OldRows \union {None}]
  /\ ledger = [i \in Ids |-> None]
  /\ phase = [p \in Procs |-> "down"]
  /\ scan = [p \in Procs |-> {}]
  /\ missing = [p \in Procs |-> None]
  /\ writer = [i \in Ids |-> None]

Become(p, what) == phase' = [phase EXCEPT ![p] = what]

\* The supplied path is the canonical one, or no old ledger exists for it.
StartDirect(p) ==
  /\ phase[p] = "down"
  /\ Become(p, "direct")
  /\ UNCHANGED <<legacy, ledger, scan, missing, writer>>

\* The supplied path is an alias: all rows of its ledger are read.
StartThroughAlias(p) ==
  /\ phase[p] = "down"
  /\ Become(p, "importing")
  /\ scan' = [scan EXCEPT ![p] = Held(legacy)]
  /\ UNCHANGED <<legacy, ledger, missing, writer>>

NeverConflicts(i) == FALSE

\* Another fingerprint or another receipt under the same request_id.
Conflicts(i) == ledger[i] \notin {None, legacy[i]}

\* The SELECT for row i, outside any transaction.
CompareRow(p, i) ==
  /\ phase[p] = "importing" /\ missing[p] = None /\ i \in scan[p]
  /\ IF Conflicts(i) THEN Become(p, "refused") ELSE UNCHANGED phase
  /\ scan' = [scan EXCEPT ![p] = @ \ {i}]
  /\ missing' = [missing EXCEPT ![p] = IF ledger[i] = None THEN i ELSE None]
  /\ UNCHANGED <<legacy, ledger, writer>>

RowByRow(p) == {missing[p]}

\* What one transaction inserts: the missing row, and those after it.
Batch(p) == {missing[p]} \union scan[p]

\* INSERT OR REPLACE.
Overwrites(p, i) == TRUE

Inserts(p, i) == ledger[i] = None

\* INSERT takes the write lock; the rows that follow are compared under it.
ImportRest(p) ==
  /\ phase[p] = "importing" /\ missing[p] # None
  /\ \A i \in scan[p] : ~Conflicts(i)
  /\ Inserts(p, missing[p])
  /\ ledger' = [i \in Ids |-> IF i \in Batch(p) THEN legacy[i] ELSE ledger[i]]
  /\ scan' = [scan EXCEPT ![p] = @ \ Batch(p)]
  /\ missing' = [missing EXCEPT ![p] = None]
  /\ UNCHANGED <<legacy, phase, writer>>

\* sqlite3.IntegrityError: the row was inserted since the SELECT.
Collide(p) ==
  /\ phase[p] = "importing" /\ missing[p] # None
  /\ ~Inserts(p, missing[p])
  /\ Become(p, "collided")
  /\ UNCHANGED <<legacy, ledger, scan, missing, writer>>

\* A conflict inside the transaction rolls it back.
RollBack(p) ==
  /\ phase[p] = "importing" /\ missing[p] # None
  /\ \E i \in scan[p] : Conflicts(i)
  /\ Become(p, "refused")
  /\ UNCHANGED <<legacy, ledger, scan, missing, writer>>

Serve(p) ==
  /\ phase[p] = "importing" /\ missing[p] = None /\ scan[p] = {}
  /\ Become(p, "imported")
  /\ UNCHANGED <<legacy, ledger, scan, missing, writer>>

\* begin of a call; with a row there is nothing to claim.
Claim(p, i, print) ==
  /\ Up(p) /\ ledger[i] = None
  /\ ledger' = [ledger EXCEPT ![i] = [print |-> print, saved |-> FALSE, by |-> "bridge"]]
  /\ writer' = [writer EXCEPT ![i] = p]
  /\ UNCHANGED <<legacy, phase, scan, missing>>

Save(p, i) ==
  /\ Up(p) /\ writer[i] = p
  /\ ledger' = [ledger EXCEPT ![i].saved = TRUE]
  /\ UNCHANGED <<legacy, phase, scan, missing, writer>>

\* Calls end with their process.
WritersWithout(p) == [i \in Ids |-> IF writer[i] = p THEN None ELSE writer[i]]

\* The process ends, or is killed; a transaction that is open is not committed.
Stop(p) ==
  /\ phase[p] # "down"
  /\ Become(p, "down")
  /\ scan' = [scan EXCEPT ![p] = {}]
  /\ missing' = [missing EXCEPT ![p] = None]
  /\ writer' = WritersWithout(p)
  /\ UNCHANGED <<legacy, ledger>>

Next ==
  \E p \in Procs :
    \/ StartDirect(p) \/ StartThroughAlias(p) \/ ImportRest(p) \/ Collide(p)
    \/ RollBack(p) \/ Serve(p) \/ Stop(p)
    \/ \E i \in Ids :
         CompareRow(p, i) \/ Save(p, i) \/ \E print \in Prints : Claim(p, i, print)

Spec == Init /\ [][Next]_vars

-----------------------------------------------------------------------------
\* "without losing or silently resolving conflicting receipts": no import, in any
\* order with claims and saves of other processes, removes a row or changes the
\* request it stands for; and only the process that claimed a row saves it.
ReceiptsKept ==
  [][\A i \in Held(ledger) :
       \/ ledger'[i] = ledger[i]
       \/ writer[i] # None /\ ledger'[i] = [ledger[i] EXCEPT !.saved = TRUE]]_vars

\* A process that was started through the alias serves calls only with every
\* receipt of the alias in the ledger it uses, so that none is dispatched again.
ServesTheImported ==
  \A p \in Procs : phase[p] = "imported" => \A i \in Held(legacy) : ledger[i] = legacy[i]

\* "Conflicting retained request": an import that is refused, or killed, leaves
\* nothing behind; the canonical ledger has all rows of the alias or none.
NothingHalfImported ==
  LET imported == {i \in Ids : ledger[i] \in OldRows}
  IN  imported \in {{}, Held(legacy)}
=============================================================================
