-------------------------- MODULE LedgerFileProofs --------------------------
(***************************************************************************)
(* Proofs about LedgerImport and LedgerFile, for any sets of processes,    *)
(* request_ids and fingerprints: every old row is imported before a        *)
(* process serves, and the file implements the table the inventory counts  *)
(* on, so that what holds of the inventory holds in the file.              *)
(***************************************************************************)
EXTENDS LedgerFile, FiniteSetTheorems, TLAPS

-----------------------------------------------------------------------------
(* LedgerImport. *)

\* Rows that were imported are the old ones, and no call saves them.
ImportedAsTheyWere ==
  \A i \in Ids :
    /\ ledger[i] \in OldRows => ledger[i] = legacy[i]
    /\ writer[i] # None => ledger[i] # None /\ ledger[i].by = "bridge"

\* An import has compared all old rows but those it still has to look at.
NoneOverlooked ==
  \A p \in Procs :
    /\ phase[p] = "down" => missing[p] = None
    /\ phase[p] = "importing" =>
      /\ scan[p] \subseteq Held(legacy)
      /\ missing[p] # None => missing[p] \in Held(legacy)
      /\ \A i \in Held(legacy) : i \in scan[p] \/ i = missing[p] \/ ledger[i] = legacy[i]

IndInv ==
  TypeOK /\ ImportedAsTheyWere /\ NoneOverlooked /\ ServesTheImported /\ NothingHalfImported

LEMMA InitInv == Init => IndInv
<1> SUFFICES ASSUME Init
             PROVE  IndInv
  OBVIOUS
<1>1. \A i \in Ids : ledger[i] \notin OldRows
  BY ImportAssumption DEF Init, OldRows
<1> QED BY <1>1 DEF Init, IndInv, TypeOK, ImportedAsTheyWere, NoneOverlooked, ServesTheImported,
                    NothingHalfImported

\* A start, a comparison or an end writes no row.
LEMMA ReadingInv ==
  ASSUME IndInv, NEW p \in Procs,
         \/ StartDirect(p) \/ StartThroughAlias(p) \/ Collide(p) \/ RollBack(p) \/ Serve(p)
         \/ Stop(p) \/ \E i \in Ids : CompareRow(p, i)
  PROVE  IndInv'
<1> USE DEF IndInv
<1>1. ledger' = ledger /\ legacy' = legacy
  BY DEF StartDirect, StartThroughAlias, Collide, RollBack, Serve, Stop, CompareRow
<1>2. NothingHalfImported'
  BY <1>1 DEF NothingHalfImported, Held
<1> HIDE DEF IndInv
<1>3. CASE StartDirect(p)
  BY <1>2, <1>3 DEF StartDirect, Become, IndInv, TypeOK, Up, ImportedAsTheyWere, NoneOverlooked,
                    ServesTheImported, Held
<1>4. CASE StartThroughAlias(p)
  BY <1>2, <1>4 DEF StartThroughAlias, Become, IndInv, TypeOK, Up, ImportedAsTheyWere,
                    NoneOverlooked, ServesTheImported, Held
<1>5. CASE Collide(p) \/ RollBack(p)
  BY <1>2, <1>5 DEF Collide, RollBack, Become, IndInv, TypeOK, Up, ImportedAsTheyWere,
                    NoneOverlooked, ServesTheImported, Held
<1>6. CASE Serve(p)
  BY <1>2, <1>6, ImportAssumption DEF Serve, Become, IndInv, TypeOK, Up, ImportedAsTheyWere,
                    NoneOverlooked, ServesTheImported, Held
<1>7. CASE Stop(p)
  BY <1>2, <1>7 DEF Stop, WritersWithout, Become, IndInv, TypeOK, Up, ImportedAsTheyWere,
                    NoneOverlooked, ServesTheImported, Held
<1>8. CASE \E i \in Ids : CompareRow(p, i)
  <2> PICK i \in Ids : CompareRow(p, i)
    BY <1>8
  <2>1. CASE Conflicts(i)
    BY <1>2, <2>1 DEF CompareRow, Become, IndInv, TypeOK, Up, ImportedAsTheyWere,
                      NoneOverlooked, ServesTheImported, Held
  <2>2. CASE ~Conflicts(i)
    BY <1>2, <2>2, ImportAssumption DEF CompareRow, Conflicts, IndInv, TypeOK, Up,
                      ImportedAsTheyWere, NoneOverlooked, ServesTheImported, Held
  <2> QED BY <2>1, <2>2
<1> QED BY <1>3, <1>4, <1>5, <1>6, <1>7, <1>8

\* What an import inserts is new, and with it no old row is missing.
LEMMA ImportInserts ==
  ASSUME IndInv, NEW p \in Procs, ImportRest(p)
  PROVE  /\ \A i \in Ids : ledger[i] # None => ledger'[i] = ledger[i]
         /\ \A i \in Held(legacy) : ledger'[i] = legacy[i]
         /\ \A i \in Ids : ledger'[i] = ledger[i] \/ (i \in Held(legacy) /\ ledger'[i] = legacy[i])
         /\ \A i \in Ids : ledger'[i] # ledger[i] => ledger[i] = None
<1>1. phase[p] = "importing" /\ missing[p] # None /\ ledger[missing[p]] = None
  BY DEF ImportRest, Inserts
<1>2. Batch(p) \subseteq Held(legacy) /\ Batch(p) \subseteq Ids
  BY <1>1 DEF IndInv, NoneOverlooked, Batch, Held
<1>3. \A i \in Batch(p) : ledger[i] \in {None, legacy[i]}
  BY <1>1 DEF ImportRest, Conflicts, Batch
<1>4. \A i \in Ids : ledger'[i] = IF i \in Batch(p) THEN legacy[i] ELSE ledger[i]
  BY DEF ImportRest
<1>5. \A i \in Held(legacy) : i \in Batch(p) \/ ledger[i] = legacy[i]
  BY <1>1 DEF IndInv, NoneOverlooked, Batch
<1> QED BY <1>2, <1>3, <1>4, <1>5 DEF Held

LEMMA ImportInv ==
  ASSUME IndInv, NEW p \in Procs, ImportRest(p)
  PROVE  IndInv'
<1>1. UNCHANGED <<legacy, phase, writer>>
  BY DEF ImportRest
<1>2. TypeOK'
  <2>1. \A i \in Ids : ledger'[i] \in Rows \union {None}
    BY ImportInserts DEF IndInv, TypeOK, Held, OldRows
  <2>2. ledger' \in [Ids -> Rows \union {None}]
    BY <2>1 DEF ImportRest
  <2>3. \A i \in Ids : writer'[i] # None => ledger'[i] # None /\ Up(writer[i])'
    BY <1>1, ImportInserts DEF IndInv, TypeOK, Up
  <2> QED BY <1>1, <2>2, <2>3 DEF ImportRest, IndInv, TypeOK, Up
<1>3. ImportedAsTheyWere'
  BY <1>1, ImportInserts DEF IndInv, ImportedAsTheyWere
<1>4. ServesTheImported'
  BY <1>1, ImportInserts DEF ServesTheImported, Held
<1>5. NoneOverlooked'
  <2>1. \A i \in Held(legacy) : ledger'[i] = legacy[i]
    BY ImportInserts
  <2>2. phase[p] = "importing" /\ missing' = [missing EXCEPT ![p] = None]
        /\ \E batch : scan' = [scan EXCEPT ![p] = @ \ batch]
    BY DEF ImportRest
  <2>3. \A q \in Procs : /\ missing'[q] \in {missing[q], None}
                          /\ scan'[q] \subseteq scan[q]
                          /\ q # p => missing'[q] = missing[q]
    BY <2>2 DEF IndInv, TypeOK
  <2> QED BY <1>1, <2>1, <2>2, <2>3 DEF IndInv, NoneOverlooked, Held
<1>6. NothingHalfImported'
  <2>1. \A i \in Held(legacy) : ledger'[i] \in OldRows
    BY ImportInserts DEF IndInv, TypeOK, Held
  <2>2. \A i \in Ids : ledger'[i] \in OldRows => i \in Held(legacy)
    <3> SUFFICES ASSUME NEW i \in Ids, ledger'[i] \in OldRows
                 PROVE  i \in Held(legacy)
      OBVIOUS
    <3>1. CASE ledger'[i] = ledger[i]
      <4>1. legacy[i] \in OldRows
        BY <3>1 DEF IndInv, ImportedAsTheyWere
      <4> QED BY <4>1, ImportAssumption DEF Held, OldRows
    <3>2. CASE i \in Held(legacy)
      BY <3>2
    <3> QED BY <3>1, <3>2, ImportInserts
  <2> QED BY <1>1, <2>1, <2>2 DEF NothingHalfImported, Held
<1> QED BY <1>2, <1>3, <1>4, <1>5, <1>6 DEF IndInv

\* A call writes rows of its own bridge only.
LEMMA CallInv ==
  ASSUME IndInv, NEW p \in Procs, NEW i \in Ids,
         Save(p, i) \/ \E print \in Prints : Claim(p, i, print)
  PROVE  IndInv'
<1>1. /\ UNCHANGED <<legacy, phase, scan, missing>> /\ Up(p)
      /\ writer' = writer \/ (ledger[i] = None /\ writer' = [writer EXCEPT ![i] = p])
  BY DEF Save, Claim
<1>2. /\ ledger'[i] \in Rows /\ ledger'[i].by = "bridge"
      /\ ledger[i] = None \/ (ledger[i] \in Rows /\ ledger[i].by = "bridge")
      /\ ledger' = [ledger EXCEPT ![i] = ledger'[i]]
  <2>1. CASE Save(p, i)
    <3>1. ledger[i] \in Rows /\ ledger[i].by = "bridge"
      BY <2>1, ImportAssumption DEF Save, IndInv, TypeOK, ImportedAsTheyWere
    <3> QED BY <2>1, <3>1 DEF Save, Rows, IndInv, TypeOK
  <2>2. CASE \E print \in Prints : Claim(p, i, print)
    <3> PICK print \in Prints : Claim(p, i, print)
      BY <2>2
    <3>1. /\ ledger[i] = None
          /\ ledger' = [ledger EXCEPT ![i] = [print |-> print, saved |-> FALSE, by |-> "bridge"]]
      BY DEF Claim
    <3>2. ledger'[i] = [print |-> print, saved |-> FALSE, by |-> "bridge"]
      BY <3>1 DEF IndInv, TypeOK
    <3>3. ledger'[i] \in Rows /\ ledger'[i].by = "bridge"
      BY <3>2 DEF Rows
    <3>4. ledger' = [ledger EXCEPT ![i] = ledger'[i]]
      BY <3>1, <3>2, Zenon
    <3> QED BY <3>1, <3>3, <3>4
  <2> QED BY <2>1, <2>2
<1>3. /\ \A j \in Ids : j # i => ledger'[j] = ledger[j]
      /\ ledger[i] \notin OldRows /\ ledger'[i] \notin OldRows /\ ledger'[i] # None
  BY <1>2, ImportAssumption DEF IndInv, TypeOK, OldRows
<1>4. \A j \in Held(legacy) : ledger[j] = legacy[j] => j # i
  BY <1>3 DEF IndInv, TypeOK, Held
<1>5. TypeOK'
  BY <1>1, <1>2, <1>3 DEF IndInv, TypeOK, Up
<1>6. ImportedAsTheyWere'
  BY <1>1, <1>2, <1>3, ImportAssumption DEF IndInv, TypeOK, ImportedAsTheyWere
<1>7. NoneOverlooked' /\ ServesTheImported'
  BY <1>1, <1>3, <1>4 DEF IndInv, NoneOverlooked, ServesTheImported, Held
<1>8. NothingHalfImported'
  <2>1. \A j \in Ids : ledger'[j] \in OldRows <=> ledger[j] \in OldRows
    BY <1>3
  <2> QED BY <1>1, <2>1 DEF IndInv, NothingHalfImported, Held
<1> QED BY <1>5, <1>6, <1>7, <1>8 DEF IndInv

LEMMA NextInv == IndInv /\ [Next]_vars => IndInv'
<1> SUFFICES ASSUME IndInv, [Next]_vars
             PROVE  IndInv'
  OBVIOUS
<1>1. CASE UNCHANGED vars
  BY <1>1 DEF vars, IndInv, TypeOK, Up, ImportedAsTheyWere, NoneOverlooked, ServesTheImported,
              NothingHalfImported, Held
<1>2. CASE Next
  BY <1>2, ReadingInv, ImportInv, CallInv DEF Next
<1> QED BY <1>1, <1>2

LEMMA Invariance == Spec => []IndInv
BY InitInv, NextInv, PTL DEF Spec

\* Every variable of LedgerImport keeps its type.
THEOREM TypeCorrect == Spec => []TypeOK
BY Invariance, PTL DEF IndInv

\* A process started through the alias serves with every old receipt in its ledger.
THEOREM ImportBeforeService == Spec => []ServesTheImported
BY Invariance, PTL DEF IndInv

\* The canonical ledger has all receipts of the alias or none.
THEOREM ImportIsWhole == Spec => []NothingHalfImported
BY Invariance, PTL DEF IndInv

\* A step writes nothing, saves a row, or adds rows and keeps the others.
LEMMA WritingSteps ==
  ASSUME IndInv, Next
  PROVE  \/ ledger' = ledger
         \/ \E i \in Held(ledger) :
              writer[i] # None /\ ledger' = [ledger EXCEPT ![i].saved = TRUE]
         \/ /\ \E i \in Ids : ledger[i] = None /\ ledger'[i] # None
            /\ \A i \in Held(ledger) : ledger'[i] = ledger[i]
<1> PICK p \in Procs :
      \/ StartDirect(p) \/ StartThroughAlias(p) \/ ImportRest(p) \/ Collide(p)
      \/ RollBack(p) \/ Serve(p) \/ Stop(p)
      \/ \E i \in Ids :
           CompareRow(p, i) \/ Save(p, i) \/ \E print \in Prints : Claim(p, i, print)
  BY DEF Next
<1>1. CASE ImportRest(p)
  <2>1. \A i \in Held(ledger) : ledger'[i] = ledger[i]
    BY <1>1, ImportInserts DEF Held
  <2>2. missing[p] \in Held(legacy) /\ ledger[missing[p]] = None
    BY <1>1 DEF ImportRest, Inserts, IndInv, NoneOverlooked
  <2>3. missing[p] \in Ids /\ ledger'[missing[p]] # None
    BY <1>1, <2>2, ImportInserts DEF Held
  <2> QED BY <2>1, <2>2, <2>3
<1>2. CASE \E i \in Ids : Save(p, i)
  <2> PICK i \in Ids : Save(p, i)
    BY <1>2
  <2>1. writer[i] # None
    BY ImportAssumption DEF Save
  <2>2. i \in Held(ledger)
    BY <2>1 DEF IndInv, TypeOK, Held
  <2> QED BY <2>1, <2>2 DEF Save
<1>3. CASE \E i \in Ids, print \in Prints : Claim(p, i, print)
  <2> PICK i \in Ids, print \in Prints : Claim(p, i, print)
    BY <1>3
  <2> DEFINE row == [print |-> print, saved |-> FALSE, by |-> "bridge"]
  <2>1. row \in Rows
    BY DEF Rows
  <2> HIDE DEF row
  <2>2. ledger[i] = None /\ ledger' = [ledger EXCEPT ![i] = row]
    BY DEF Claim, row
  <2> QED BY <2>1, <2>2, ImportAssumption DEF IndInv, TypeOK, Held
<1>4. CASE UNCHANGED ledger
  BY <1>4
<1> QED BY <1>1, <1>2, <1>3, <1>4
        DEF StartDirect, StartThroughAlias, Collide, RollBack, Serve, Stop, CompareRow

\* No receipt is removed or replaced, and only the call that claimed it saves it.
THEOREM NoReceiptLost == Spec => ReceiptsKept
<1>1. IndInv /\ [Next]_vars =>
        [\A i \in Held(ledger) :
           \/ ledger'[i] = ledger[i]
           \/ writer[i] # None /\ ledger'[i] = [ledger[i] EXCEPT !.saved = TRUE]]_vars
  <2> SUFFICES ASSUME IndInv, Next, NEW i \in Held(ledger)
               PROVE  \/ ledger'[i] = ledger[i]
                      \/ writer[i] # None /\ ledger'[i] = [ledger[i] EXCEPT !.saved = TRUE]
    OBVIOUS
  <2>1. ledger \in [Ids -> Rows \union {None}]
    BY DEF IndInv, TypeOK
  <2> QED BY <2>1, WritingSteps DEF Held
<1> QED BY <1>1, Invariance, PTL DEF Spec, ReceiptsKept

-----------------------------------------------------------------------------
(* LedgerFile. *)

\* Held rows have the first numbers.
Numbering ==
  /\ rowid \in [Ids -> Nat]
  /\ \A i \in Held(ledger) : rowid[i] \in 1 .. Cardinality(Held(ledger))

FileInv == IndInv /\ Numbering

\* The rowids the inventory lists.
Shown == {rowid[i] : i \in {j \in Held(ledger) : ledger[j].saved}}

LEMMA HeldFinite ==
  ASSUME NEW db
  PROVE  /\ Held(db) \subseteq Ids
         /\ IsFiniteSet(Held(db)) /\ Cardinality(Held(db)) \in Nat
         /\ Cardinality(Held(db)) <= Cardinality(Ids)
         /\ Cardinality(Ids) \in Nat
<1>1. Held(db) \subseteq Ids
  BY DEF Held
<1> QED BY <1>1, FileAssumption, FS_Subset, FS_CardinalityType

\* Without a new row, no number changes.
LEMMA NoNewNumber ==
  ASSUME Numbering, Numbered, Held(ledger') = Held(ledger)
  PROVE  rowid' = rowid
<1>1. rowid' = [i \in Ids |-> rowid[i]]
  BY DEF Numbered
<1> QED BY <1>1 DEF Numbering

\* New rows get the numbers that follow.
LEMMA NewNumbers ==
  ASSUME Numbering, Numbered, Held(ledger) \subseteq Held(ledger')
  PROVE  /\ Cardinality(Held(ledger')) =
              Cardinality(Held(ledger)) + Cardinality(Held(ledger') \ Held(ledger))
         /\ rowid' \in [Ids -> Nat]
         /\ \A i \in Held(ledger) : rowid'[i] = rowid[i]
         /\ \A i \in Held(ledger') \ Held(ledger) :
              rowid'[i] \in Cardinality(Held(ledger)) + 1 .. Cardinality(Held(ledger'))
<1> DEFINE new == Held(ledger') \ Held(ledger)
           last == Cardinality(Held(ledger))
<1>1. IsFiniteSet(new) /\ Cardinality(new) \in Nat /\ last \in Nat /\ new \subseteq Ids
  BY HeldFinite, FS_Subset, FS_CardinalityType
<1>2. Cardinality(Held(ledger')) = last + Cardinality(new)
  <2>1. Held(ledger) \union new = Held(ledger') /\ Held(ledger) \intersect new = {}
    OBVIOUS
  <2> HIDE DEF new
  <2>2. Cardinality(Held(ledger')) = last + Cardinality(new) - Cardinality({})
    BY <1>1, <2>1, HeldFinite, FS_Union
  <2> QED BY <1>1, <2>2, FS_EmptySet
<1>3. PICK number \in [new -> last + 1 .. last + Cardinality(new)] :
        rowid' = [i \in Ids |-> IF i \in new THEN number[i] ELSE rowid[i]]
  BY DEF Numbered
<1> HIDE DEF last
<1>4. \A i \in new : rowid'[i] \in last + 1 .. last + Cardinality(new)
  BY <1>1, <1>3
<1>5. \A i \in Held(ledger) : rowid'[i] = rowid[i]
  BY <1>3, HeldFinite
<1>6. rowid' \in [Ids -> Nat]
  BY <1>1, <1>3 DEF Numbering
<1> QED BY <1>2, <1>4, <1>5, <1>6 DEF last

\* A step of the ledger is one of the inventory's table, or none.
LEMMA LedgerStep ==
  ASSUME FileInv, Next, Numbered
  PROVE  /\ Numbering'
         /\ \/ UNCHANGED <<Cardinality(Held(ledger)), Shown>>
            \/ /\ Cardinality(Held(ledger))' = Cardinality(Held(ledger))
               /\ \E r \in 1 .. Cardinality(Held(ledger)) : Shown' = Shown \union {r}
            \/ /\ Cardinality(Held(ledger))' \in
                    Cardinality(Held(ledger)) + 1 .. Cardinality(Ids)
               /\ \E new \in SUBSET (Cardinality(Held(ledger)) + 1
                                       .. Cardinality(Held(ledger))') :
                    Shown' = Shown \union new
<1> USE DEF FileInv
<1>t. ledger \in [Ids -> Rows \union {None}]
  BY DEF IndInv, TypeOK
<1>1. CASE ledger' = ledger
  <2>1. rowid' = rowid
    BY <1>1, NoNewNumber
  <2> QED BY <1>1, <2>1 DEF Numbering, Shown, Held
<1>2. CASE \E i \in Held(ledger) :
             writer[i] # None /\ ledger' = [ledger EXCEPT ![i].saved = TRUE]
  <2> PICK i \in Held(ledger) :
        writer[i] # None /\ ledger' = [ledger EXCEPT ![i].saved = TRUE]
    BY <1>2
  <2>1. /\ ledger'[i] # None /\ ledger'[i].saved
        /\ \A j \in Ids : j # i => ledger'[j] = ledger[j]
        /\ i \in Ids
    BY <1>t, ImportAssumption DEF Held, Rows
  <2>2. Held(ledger') = Held(ledger)
    BY <2>1 DEF Held
  <2>3. rowid' = rowid
    BY <2>2, NoNewNumber
  <2>4. Shown' = Shown \union {rowid[i]}
    BY <2>1, <2>2, <2>3 DEF Shown, Held
  <2>5. rowid[i] \in 1 .. Cardinality(Held(ledger))
    BY DEF Numbering
  <2>6. Cardinality(Held(ledger))' = Cardinality(Held(ledger))
    BY <2>2
  <2>7. Numbering'
    BY <2>2, <2>3 DEF Numbering
  <2> QED BY <2>4, <2>5, <2>6, <2>7
<1>3. CASE /\ \E i \in Ids : ledger[i] = None /\ ledger'[i] # None
           /\ \A i \in Held(ledger) : ledger'[i] = ledger[i]
  <2> DEFINE added == Held(ledger') \ Held(ledger)
             last == Cardinality(Held(ledger))
             new == {rowid'[i] : i \in {j \in added : ledger'[j].saved}}
  <2>1. Held(ledger) \subseteq Held(ledger') /\ added # {}
    BY <1>3 DEF Held
  <2>2. /\ Cardinality(Held(ledger')) = last + Cardinality(added)
        /\ rowid' \in [Ids -> Nat]
        /\ \A i \in Held(ledger) : rowid'[i] = rowid[i]
        /\ \A i \in added : rowid'[i] \in last + 1 .. Cardinality(Held(ledger'))
    BY <2>1, NewNumbers
  <2>3. Cardinality(added) \in Nat \ {0}
    BY <2>1, HeldFinite, FS_Subset, FS_CardinalityType, FS_EmptySet
  <2>4. Cardinality(Held(ledger')) \in last + 1 .. Cardinality(Ids)
    BY <2>2, <2>3, HeldFinite
  <2>5. \A i \in Held(ledger') : rowid'[i] \in 1 .. Cardinality(Held(ledger'))
    <3>1. last \in Nat /\ Cardinality(Held(ledger')) \in Nat
      BY HeldFinite
    <3>2. \A i \in Held(ledger) : rowid'[i] \in 1 .. last
      BY <2>2 DEF Numbering
    <3> QED BY <2>2, <2>4, <3>1, <3>2
  <2>6. new \subseteq last + 1 .. Cardinality(Held(ledger'))
    BY <2>2
  <2>7. Shown' = Shown \union new
    <3>1. Shown' = {rowid'[i] : i \in {j \in Held(ledger') : ledger'[j].saved}}
      BY DEF Shown
    <3>2. \A i \in Held(ledger) : rowid'[i] = rowid[i] /\ ledger'[i] = ledger[i]
      BY <1>3, <2>2
    <3> QED BY <2>1, <3>1, <3>2 DEF Shown
  <2>8. Numbering'
    BY <2>2, <2>5 DEF Numbering
  <2> QED BY <2>4, <2>6, <2>7, <2>8
<1> QED BY <1>1, <1>2, <1>3, WritingSteps

\* The walk and the ledger take turns.
LEMMA FileStep ==
  ASSUME FileInv, [FileNext]_fileVars
  PROVE  FileInv' /\ [Listing!Next]_(Listing!vars)
<1> USE DEF FileInv
<1>1. CASE Next /\ Numbered /\ UNCHANGED walking
  <2>1. IndInv'
    BY <1>1, NextInv
  <2>2. [Listing!Next]_(Listing!vars)
    <3>1. CASE UNCHANGED <<Cardinality(Held(ledger)), Shown>>
      BY <1>1, <3>1 DEF walking, Shown, Listing!vars, Listing!table
    <3>2. CASE /\ Cardinality(Held(ledger))' = Cardinality(Held(ledger))
               /\ \E r \in 1 .. Cardinality(Held(ledger)) : Shown' = Shown \union {r}
      BY <1>1, <3>2 DEF walking, Shown, Listing!Next, Listing!GainThread
    <3>3. CASE /\ Cardinality(Held(ledger))' \in
                    Cardinality(Held(ledger)) + 1 .. Cardinality(Ids)
               /\ \E new \in SUBSET (Cardinality(Held(ledger)) + 1
                                       .. Cardinality(Held(ledger))') :
                    Shown' = Shown \union new
      BY <1>1, <3>3 DEF walking, Shown, Listing!Next, Listing!Insert
    <3> QED BY <1>1, <3>1, <3>2, <3>3, LedgerStep
  <2> QED BY <1>1, <2>1, <2>2, LedgerStep
<1>2. CASE Walk
  <2>1. UNCHANGED <<vars, rowid>>
    BY <1>2 DEF Walk
  <2>2. Listing!Next
    BY <1>2 DEF Walk, Listing!Next
  <2>3. IndInv'
    BY <2>1, NextInv
  <2>4. Numbering'
    BY <2>1 DEF vars, Numbering, Held
  <2> QED BY <2>2, <2>3, <2>4
<1>3. CASE UNCHANGED fileVars
  <2>1. UNCHANGED <<vars, rowid, walking>>
    BY <1>3 DEF fileVars
  <2>2. IndInv'
    BY <2>1, NextInv
  <2>3. Numbering'
    BY <2>1 DEF vars, Numbering, Held
  <2>4. UNCHANGED Listing!vars
    BY <2>1 DEF vars, walking, Listing!vars, Listing!table, Held
  <2> QED BY <2>2, <2>3, <2>4
<1> QED BY <1>1, <1>2, <1>3 DEF FileNext

LEMMA FileStart == FileInit => FileInv /\ Listing!Init
<1> SUFFICES ASSUME FileInit
             PROVE  FileInv /\ Listing!Init
  OBVIOUS
<1>1. IndInv
  BY InitInv DEF FileInit
<1>2. Held(ledger) = {}
  BY DEF FileInit, Init, Held
<1>3. Numbering
  BY <1>2 DEF FileInit, Numbering
<1>4. Listing!Init
  BY <1>2, HeldFinite DEF FileInit, Listing!Init
<1> QED BY <1>1, <1>3, <1>4 DEF FileInv

\* The ledger file, with imports, claims and saves of any number of processes,
\* is the table that the inventory counts on.
THEOREM FileIsInventory == FileSpec => ImplementsInventory
BY FileStart, FileStep, PTL DEF FileSpec, ImplementsInventory, Listing!Spec

Walks == INSTANCE InventoryProofs
           WITH rows <- Cardinality(Held(ledger)),
                eligible <- {rowid[i] : i \in {j \in Held(ledger) : ledger[j].saved}},
                MaxRows <- Cardinality(Ids)

\* The pages of Listing are those InventoryProofs is about.
LEMMA SamePages ==
  ASSUME NEW limit
  PROVE  Listing!Page(limit) => Walks!Page(limit)
<1>1. \A S : Listing!Cardinality(S) = Walks!Cardinality(S)
  BY Zenon DEF Listing!Cardinality, Walks!Cardinality
<1>2. \A before : Listing!Matching(before) = Walks!Matching(before)
  BY DEF Listing!Matching, Walks!Matching
<1>3. \A set, n : Listing!Newest(set, n) = Walks!Newest(set, n)
  BY <1>1 DEF Listing!Newest, Walks!Newest
<1>4. \A b : Listing!CursorAt(limit, b) => Walks!CursorAt(limit, b)
  BY <1>2, <1>3 DEF Listing!CursorAt, Walks!CursorAt
<1>5. Listing!Cardinality(Listing!Matching(cursor)) = Walks!Cardinality(Walks!Matching(cursor))
  BY <1>1, <1>2
<1>6. Listing!Newest(Listing!Matching(cursor), limit) = Walks!Newest(Walks!Matching(cursor), limit)
  BY <1>2, <1>3
<1> QED BY <1>2, <1>4, <1>5, <1>6 DEF Listing!Page, Walks!Page

LEMMA SameWalks == FileSpec => Walks!Spec
<1>1. Listing!Init => Walks!Init
  BY DEF Listing!Init, Walks!Init
<1>2. Listing!Next => Walks!Next
  <2>1. Listing!FirstPage \/ Listing!NextPage => Walks!FirstPage \/ Walks!NextPage
    BY SamePages DEF Listing!FirstPage, Listing!NextPage, Listing!table,
                     Walks!FirstPage, Walks!NextPage, Walks!table
  <2>2. Listing!StartAgain => Walks!StartAgain
    BY DEF Listing!StartAgain, Listing!table, Walks!StartAgain, Walks!table
  <2>3. Listing!Insert \/ Listing!GainThread => Walks!Insert \/ Walks!GainThread
    BY DEF Listing!Insert, Listing!GainThread, Walks!Insert, Walks!GainThread
  <2> QED BY <2>1, <2>2, <2>3 DEF Listing!Next, Walks!Next
<1>3. [Listing!Next]_(Listing!vars) => [Walks!Next]_(Walks!vars)
  <2>1. UNCHANGED Listing!vars => UNCHANGED Walks!vars
    BY DEF Listing!vars, Listing!table, Walks!vars, Walks!table
  <2> QED BY <1>2, <2>1
<1> QED BY <1>1, <1>3, FileIsInventory, PTL DEF ImplementsInventory, Listing!Spec, Walks!Spec

LEMMA ConstantsOfTheFile == Walks!InventoryConstants
BY FileAssumption, FS_CardinalityType DEF Walks!InventoryConstants

\* No receipt of the file is on two pages of a walk, and pages go back in time.
THEOREM PagesOfTheFile == FileSpec => []PagesDescend
<1>1. Walks!Spec => []Walks!PagesDescend
  BY ConstantsOfTheFile, Walks!WalksDescend
<1>2. Walks!PagesDescend => PagesDescend
  BY DEF Walks!PagesDescend, PagesDescend, Listing!PagesDescend
<1> QED BY <1>1, <1>2, SameWalks, PTL

\* A walk through the file to its end shows all that could be shown when it began.
THEOREM WalksOfTheFile == FileSpec => []NothingSkipped
<1>1. Walks!Spec => []Walks!NothingSkipped
  BY ConstantsOfTheFile, Walks!WalksAreComplete
<1>2. Walks!NothingSkipped => NothingSkipped
  BY DEF Walks!NothingSkipped, NothingSkipped, Listing!NothingSkipped
<1> QED BY <1>1, <1>2, SameWalks, PTL
=============================================================================
