--------------------------- MODULE InventoryProofs --------------------------
(***************************************************************************)
(* Proofs about Inventory, for tables of any size and any limits.          *)
(***************************************************************************)
EXTENDS Inventory, FiniteSetTheorems, TLAPS

\* While there is a next page, the cursor is the last row shown, and all that is
\* owed from there on was shown.
Resumable ==
  walk = "walking" =>
    /\ cursor \in page
    /\ \A r \in page \union listed : cursor <= r
    /\ \A r \in owed : cursor <= r => r \in page \union listed

\* A walk that has not begun has shown nothing.
Fresh ==
  /\ walk = "idle" => page = {} /\ listed = {} /\ owed = {}
  /\ walk = "walking" \/ cursor = None

IndInv == TypeOK /\ Fresh /\ Resumable /\ PagesDescend /\ NothingSkipped

LEMMA MatchingFinite ==
  ASSUME TypeOK, NEW before
  PROVE  /\ Matching(before) \subseteq Nat /\ Matching(before) \subseteq eligible
         /\ IsFiniteSet(Matching(before)) /\ Cardinality(Matching(before)) \in Nat
<1>1. IsFiniteSet(1 .. rows)
  BY FS_Interval DEF TypeOK
<1>2. Matching(before) \subseteq 1 .. rows
  BY DEF Matching, TypeOK
<1>3. IsFiniteSet(Matching(before)) /\ Cardinality(Matching(before)) \in Nat
  BY <1>1, <1>2, FS_Subset, FS_CardinalityType
<1> QED BY <1>2, <1>3 DEF Matching, TypeOK

\* A page holds all that is newer than its last row.
LEMMA NewestIsUpward ==
  ASSUME NEW set \in SUBSET Nat, IsFiniteSet(set), NEW n \in Nat,
         NEW b \in Newest(set, n), NEW r \in set, b <= r
  PROVE  r \in Newest(set, n)
<1> DEFINE above(k) == {q \in set : q > k}
<1>1. above(r) \subseteq above(b) /\ above(b) \subseteq set
  <2>1. b \in Nat /\ r \in Nat /\ \A q \in set : q \in Nat /\ (q > r => q > b)
    BY DEF Newest
  <2> QED BY <2>1
<1>2. IsFiniteSet(above(b)) /\ IsFiniteSet(above(r))
  BY <1>1, FS_Subset
<1>3. Cardinality(above(b)) < n
  BY DEF Newest
<1> HIDE DEF above
<1>4. /\ Cardinality(above(r)) <= Cardinality(above(b))
      /\ Cardinality(above(r)) \in Nat /\ Cardinality(above(b)) \in Nat
  BY <1>1, <1>2, FS_Subset, FS_CardinalityType
<1>5. Cardinality(above(r)) < n
  BY <1>3, <1>4
<1> QED BY <1>5 DEF Newest, above

\* The last page holds all that is left.
LEMMA NewestIsAll ==
  ASSUME NEW set \in SUBSET Nat, IsFiniteSet(set), NEW n \in Nat, Cardinality(set) <= n,
         NEW r \in set
  PROVE  r \in Newest(set, n)
<1> DEFINE above == {q \in set : q > r}
<1>1. above \subseteq set \ {r}
  OBVIOUS
<1>2. IsFiniteSet(set \ {r}) /\ Cardinality(set \ {r}) = Cardinality(set) - 1
  BY FS_RemoveElement
<1>3. Cardinality(above) <= Cardinality(set) - 1
  BY <1>1, <1>2, FS_Subset
<1>4. Cardinality(set) \in Nat /\ Cardinality(above) \in Nat
  BY <1>1, <1>2, FS_Subset, FS_CardinalityType
<1> HIDE DEF above
<1>5. Cardinality(above) < n
  BY <1>3, <1>4
<1> QED BY <1>5 DEF Newest, above

LEMMA InitInv == Init => IndInv
BY DEF Init, IndInv, TypeOK, Fresh, Resumable, PagesDescend, NothingSkipped

\* A page of a walk, the first one or another.
LEMMA PageInv ==
  ASSUME InventoryConstants, TypeOK, PagesDescend, NEW limit \in Limits, Page(limit),
         UNCHANGED table, owed' \subseteq eligible,
         \A r \in page \union listed : cursor # None => cursor <= r,
         cursor = None => page = {} /\ listed = {},
         \A r \in owed' : cursor # None /\ cursor <= r => r \in page \union listed
  PROVE  IndInv'
<1> DEFINE match == Matching(cursor)
<1> DEFINE shown == Newest(match, limit)
<1>1. /\ match \in SUBSET Nat /\ match \subseteq eligible /\ IsFiniteSet(match)
      /\ limit \in Nat /\ limit > 0 /\ Cardinality(match) \in Nat
  BY MatchingFinite DEF InventoryConstants
<1>2. shown \subseteq match /\ page' = shown /\ listed' = listed \union page
      /\ eligible' = eligible /\ rows' = rows
  BY DEF Newest, Page, table
<1>3. \A r \in match : cursor # None => r < cursor
  BY DEF Matching
<1>4. \A r \in eligible : r \notin match => cursor # None /\ cursor <= r
  BY DEF Matching, TypeOK, InventoryConstants
<1>5. \A new \in page', old \in listed' : new < old
  BY <1>1, <1>2, <1>3 DEF TypeOK
<1>6. \A r \in owed' : r \in match \/ r \in listed'
  BY <1>2, <1>4
<1>7. CASE Cardinality(match) > limit
  <2> PICK b \in match : CursorAt(limit, b) /\ cursor' = b
    BY <1>7 DEF Page
  <2>1. b \in shown /\ walk' = "walking" /\ \A r \in shown : b <= r
    BY <1>7 DEF CursorAt, Page
  <2> HIDE DEF match, shown
  <2>2. TypeOK'
    <3>1. b \in 1 .. MaxRows
      BY <1>1 DEF TypeOK, InventoryConstants
    <3>2. page' \subseteq eligible' /\ listed' \subseteq eligible' /\ owed' \subseteq eligible'
      BY <1>1, <1>2 DEF TypeOK
    <3> QED BY <1>2, <2>1, <3>1, <3>2 DEF TypeOK
  <2>3. \A r \in page' \union listed' : cursor' <= r
    <3>1. b \in page' /\ cursor' = b
      BY <1>2, <2>1
    <3>2. \A r \in listed' : b \in Nat /\ r \in Nat /\ b < r
      BY <1>1, <1>2, <1>5, <3>1 DEF TypeOK
    <3> QED BY <1>2, <2>1, <3>1, <3>2
  <2>4. \A r \in owed' : cursor' <= r => r \in page' \union listed'
    <3> SUFFICES ASSUME NEW r \in owed', cursor' <= r, r \in match
                 PROVE  r \in page'
      BY <1>2, <1>6
    <3>1. r \in shown
      BY <1>1, <2>1, NewestIsUpward DEF shown
    <3> QED BY <1>2, <3>1
  <2> QED BY <1>2, <1>5, <2>1, <2>2, <2>3, <2>4
          DEF IndInv, Fresh, Resumable, PagesDescend, NothingSkipped
<1>8. CASE ~(Cardinality(match) > limit)
  <2>1. walk' = "ended" /\ cursor' = None
    BY <1>8 DEF Page
  <2> HIDE DEF match, shown
  <2>2. TypeOK'
    BY <1>1, <1>2, <2>1 DEF TypeOK
  <2>3. \A r \in owed' : r \in page' \union listed'
    <3>1. \A r \in match : r \in shown
      BY <1>1, <1>8, NewestIsAll DEF shown, InventoryConstants
    <3> QED BY <1>2, <1>6, <3>1
  <2> QED BY <1>2, <1>5, <2>1, <2>2, <2>3
          DEF IndInv, Fresh, Resumable, PagesDescend, NothingSkipped
<1> QED BY <1>7, <1>8

LEMMA NextInv == InventoryConstants /\ IndInv /\ [Next]_vars => IndInv'
<1> SUFFICES ASSUME InventoryConstants, IndInv, [Next]_vars
             PROVE  IndInv'
  OBVIOUS
<1> USE DEF IndInv, TypeOK
<1>1. CASE FirstPage
  <2> PICK limit \in Limits : Page(limit)
    BY <1>1 DEF FirstPage
  <2>1. /\ owed' = eligible /\ UNCHANGED table
        /\ cursor = None /\ page = {} /\ listed = {}
    BY <1>1 DEF FirstPage, Fresh
  <2> QED BY <2>1, PageInv
<1>2. CASE NextPage
  <2> PICK limit \in Limits : Page(limit)
    BY <1>2 DEF NextPage
  <2>1. /\ owed' = owed /\ UNCHANGED table /\ cursor # None
        /\ \A r \in page \union listed : cursor <= r
        /\ \A r \in owed : cursor <= r => r \in page \union listed
    BY <1>2 DEF NextPage, Resumable, InventoryConstants
  <2> QED BY <2>1, PageInv
<1>3. CASE StartAgain
  BY <1>3 DEF StartAgain, table, Fresh, Resumable, PagesDescend, NothingSkipped
<1>4. CASE Insert
  BY <1>4 DEF Insert, Fresh, Resumable, PagesDescend, NothingSkipped
<1>5. CASE GainThread
  BY <1>5 DEF GainThread, Fresh, Resumable, PagesDescend, NothingSkipped
<1>6. CASE UNCHANGED vars
  BY <1>6 DEF vars, table, Fresh, Resumable, PagesDescend, NothingSkipped
<1> QED BY <1>1, <1>2, <1>3, <1>4, <1>5, <1>6 DEF Next

LEMMA Invariance ==
  ASSUME InventoryConstants
  PROVE  Spec => []IndInv
BY InitInv, NextInv, PTL DEF Spec

\* Every variable of Inventory keeps its type.
THEOREM TypeCorrect ==
  ASSUME InventoryConstants
  PROVE  Spec => []TypeOK
BY Invariance, PTL DEF IndInv

\* No receipt is on two pages of a walk, and pages go from newer to older.
THEOREM WalksDescend ==
  ASSUME InventoryConstants
  PROVE  Spec => []PagesDescend
BY Invariance, PTL DEF IndInv

\* A walk to its end shows all that could be shown when it began.
THEOREM WalksAreComplete ==
  ASSUME InventoryConstants
  PROVE  Spec => []NothingSkipped
BY Invariance, PTL DEF IndInv
=============================================================================
