----------------------- MODULE TelegramDeliveryProofs -----------------------
(***************************************************************************)
(* Proofs about what TelegramGateway delivers.  Each of the three bounds   *)
(* counts rows of the ledger together with the runs that are on their way  *)
(* to write one.                                                           *)
(***************************************************************************)
EXTENDS TelegramGatewayProofs

\* The rows dispatch_event looks at, and those of them that are in R.
Window == LastRows(ledger, CheckTail)
Hits(rows, R) == {k \in DOMAIN rows : rows[k] \in R}

OkRows(e) == {row \in LedgerRow : row.ok /\ row.id = e}
OkFreshRows == {row \in LedgerRow : row.ok /\ row.fresh}

\* Runs whose message has arrived, whose event passed the duplicate test, and
\* whose event of this hour passed the rate test; the row is still to come.
Arrived(e) == {p \in Procs : outcome[p] = "sent" /\ Head(batch[p]).id = e}
Deciding(e) == {p \in Procs : /\ outcome[p] \in {"new", "sending", "sent"}
                              /\ Head(batch[p]).id = e}
Racing == {p \in Procs : /\ outcome[p] \in {"sending", "sent"}
                         /\ Head(batch[p]).fresh}

\* The inductive invariant.
Attended ==
    \A p \in Procs :
        outcome[p] # "none" => pc[p] = "dispatch" /\ batch[p] # <<>>
ReceiptsCovered ==
    \A e \in Events :
        \/ chat[e] = MaxSends
        \/ receipts[e] + Cardinality(Arrived(e)) <= chat[e]
DuplicatesCovered ==
    \A e \in Events :
        Cardinality(Hits(Window, OkRows(e))) + Cardinality(Deciding(e))
            <= Cardinality(Procs)
FreshCovered ==
    Cardinality(Hits(Window, OkFreshRows)) + Cardinality(Racing)
        <= MaxEvents + Cardinality(Procs) - 1

DInv ==
    /\ GTypeOK
    /\ Attended
    /\ ReceiptsCovered
    /\ DuplicatesCovered
    /\ FreshCovered
-----------------------------------------------------------------------------
(* Rows.                                                                   *)

LEMMA LastRowsAre ==
    ASSUME NEW S, NEW rows \in Seq(S), NEW n \in Nat
    PROVE  LET last == LastRows(rows, n)
           IN  /\ last \in Seq(S)
               /\ Len(last) = IF Len(rows) <= n THEN Len(rows) ELSE n
               /\ \A k \in 1..Len(last) :
                     last[k] = rows[Len(rows) - Len(last) + k]
<1>1. CASE Len(rows) <= n
  BY <1>1 DEF LastRows
<1>2. CASE ~(Len(rows) <= n)
  <2>1. PICK a \in 1..(Len(rows) + 1) : a = Len(rows) - n + 1
    BY <1>2
  <2>2. PICK last : last = SubSeq(rows, a, Len(rows))
    OBVIOUS
  <2>3. LastRows(rows, n) = last
    BY <1>2, <2>1, <2>2 DEF LastRows
  <2>4. /\ last \in Seq(S) /\ Len(last) = n
        /\ \A k \in 1..n : last[k] = rows[a + k - 1]
    BY <1>2, <2>1, <2>2
  <2>5. \A k \in 1..n : a + k - 1 = Len(rows) - n + k
    BY <2>1
  <2> QED
    BY <1>2, <2>3, <2>4, <2>5
<1> QED
  BY <1>1, <1>2

LEMMA FirstRowsType ==
    ASSUME NEW S, NEW rows \in Seq(S), NEW n \in Nat
    PROVE  FirstRows(rows, n) \in Seq(S)
BY DEF FirstRows

LEMMA AgedItems ==
    ASSUME NEW rows \in Seq(Item)
    PROVE  /\ Aged(rows) \in Seq(Item) /\ Len(Aged(rows)) = Len(rows)
           /\ \A k \in 1..Len(rows) : Aged(rows)[k].id = rows[k].id
           /\ \A k \in 1..Len(rows) : Aged(rows)[k].fresh = FALSE
<1>1. PICK n \in Nat : n = Len(rows) /\ DOMAIN rows = 1..n
  OBVIOUS
<1>2. PICK old : old = Aged(rows)
  OBVIOUS
<1>3. old = [k \in 1..n |-> [rows[k] EXCEPT !.fresh = FALSE]]
  BY <1>1, <1>2 DEF Aged
<1>4. \A row \in Item : /\ [row EXCEPT !.fresh = FALSE] \in Item
                      /\ [row EXCEPT !.fresh = FALSE].id = row.id
                      /\ [row EXCEPT !.fresh = FALSE].fresh = FALSE
  BY DEF Item
<1>5. \A k \in 1..n : rows[k] \in Item
  BY <1>1
<1>6. \A k \in 1..n : old[k] = [rows[k] EXCEPT !.fresh = FALSE]
  BY <1>3
<1>7. old \in [1..n -> Item]
  BY <1>3, <1>4, <1>5
<1>8. old \in Seq(Item) /\ Len(old) = n
  BY <1>7
<1>9. \A k \in 1..n : /\ old[k].id = rows[k].id
                     /\ old[k].fresh = FALSE
  BY <1>4, <1>5, <1>6
<1> QED
  BY <1>1, <1>2, <1>8, <1>9

LEMMA AgedLedger ==
    ASSUME NEW rows \in Seq(LedgerRow)
    PROVE  /\ Aged(rows) \in Seq(LedgerRow) /\ Len(Aged(rows)) = Len(rows)
           /\ \A k \in 1..Len(rows) : Aged(rows)[k].id = rows[k].id
           /\ \A k \in 1..Len(rows) : Aged(rows)[k].fresh = FALSE
           /\ \A k \in 1..Len(rows) : Aged(rows)[k].ok = rows[k].ok
<1>1. PICK n \in Nat : n = Len(rows) /\ DOMAIN rows = 1..n
  OBVIOUS
<1>2. PICK old : old = Aged(rows)
  OBVIOUS
<1>3. old = [k \in 1..n |-> [rows[k] EXCEPT !.fresh = FALSE]]
  BY <1>1, <1>2 DEF Aged
<1>4. \A row \in LedgerRow : /\ [row EXCEPT !.fresh = FALSE] \in LedgerRow
                      /\ [row EXCEPT !.fresh = FALSE].id = row.id
                      /\ [row EXCEPT !.fresh = FALSE].fresh = FALSE
                      /\ [row EXCEPT !.fresh = FALSE].ok = row.ok
  BY DEF LedgerRow
<1>5. \A k \in 1..n : rows[k] \in LedgerRow
  BY <1>1
<1>6. \A k \in 1..n : old[k] = [rows[k] EXCEPT !.fresh = FALSE]
  BY <1>3
<1>7. old \in [1..n -> LedgerRow]
  BY <1>3, <1>4, <1>5
<1>8. old \in Seq(LedgerRow) /\ Len(old) = n
  BY <1>7
<1>9. \A k \in 1..n : /\ old[k].id = rows[k].id
                     /\ old[k].fresh = FALSE
                     /\ old[k].ok = rows[k].ok
  <2> TAKE k \in 1..n
  <2>1. rows[k] \in LedgerRow /\ old[k] = [rows[k] EXCEPT !.fresh = FALSE]
    BY <1>5, <1>6
  <2> QED
    BY <1>4, <2>1
<1> QED
  BY <1>1, <1>2, <1>8, <1>9

\* RowsAt keeps the rows of a filter: every position of S comes up.
LEMMA NthIn ==
    ASSUME NEW S \in SUBSET Nat, IsFiniteSet(S),
           NEW n \in 1..Cardinality(S)
    PROVE  /\ Nth(S, n) \in S
           /\ Cardinality({j \in S : j <= Nth(S, n)}) = n
<1> DEFINE Upto(k) == {j \in S : j <= k}
<1>1. Cardinality(S) \in Nat
  BY FS_CardinalityType
<1>2. PICK f : f = [k \in S |-> Cardinality(Upto(k))]
  OBVIOUS
<1>3. \A k \in S : f[k] \in 1..Cardinality(S)
  <2> TAKE k \in S
  <2>1. Upto(k) \subseteq S /\ k \in Upto(k)
    OBVIOUS
  <2>2. /\ IsFiniteSet(Upto(k)) /\ Cardinality(Upto(k)) <= Cardinality(S)
        /\ Cardinality(Upto(k)) \in Nat
    BY <2>1, FS_Subset, FS_CardinalityType
  <2>3. Cardinality(Upto(k)) # 0
    BY <2>1, <2>2, FS_EmptySet
  <2>4. f[k] = Cardinality(Upto(k))
    BY <1>2
  <2> HIDE DEF Upto
  <2> QED
    BY <1>1, <2>2, <2>3, <2>4
<1>4. \A j, k \in S : j < k => f[j] # f[k]
  <2> SUFFICES ASSUME NEW j \in S, NEW k \in S, j < k PROVE f[j] # f[k]
    OBVIOUS
  <2>1. Upto(j) \subseteq Upto(k)
    <3> SUFFICES ASSUME NEW i \in S, i <= j PROVE i <= k
      OBVIOUS
    <3>1. i \in Nat /\ j \in Nat /\ k \in Nat
      OBVIOUS
    <3> QED
      BY <3>1
  <2>2. k \in Upto(k) /\ k \notin Upto(j)
    OBVIOUS
  <2>3. IsFiniteSet(Upto(k))
    BY FS_Subset
  <2>4. Cardinality(Upto(j)) # Cardinality(Upto(k))
    BY <2>1, <2>2, <2>3, FS_Subset
  <2>5. f[j] = Cardinality(Upto(j)) /\ f[k] = Cardinality(Upto(k))
    BY <1>2
  <2> HIDE DEF Upto
  <2> QED
    BY <2>4, <2>5
<1>5. f \in Injection(S, 1..Cardinality(S))
  <2>1. f \in [S -> 1..Cardinality(S)]
    BY <1>2, <1>3
  <2>2. \A j, k \in S : f[j] = f[k] => j = k
    BY <1>4
  <2> QED
    BY <2>1, <2>2 DEF Injection, IsInjective
<1>6. /\ IsFiniteSet(1..Cardinality(S))
      /\ Cardinality(1..Cardinality(S)) = Cardinality(S)
  BY <1>1, FS_Interval
<1>7. f \in Surjection(S, 1..Cardinality(S))
  BY <1>5, <1>6, FS_Injection
<1>8. PICK k \in S : f[k] = n
  BY <1>7 DEF Surjection
<1>9. Cardinality({j \in S : j <= k}) = n
  BY <1>2, <1>8
<1> QED
  BY <1>9 DEF Nth

\* The filter keeps the order, and no position is left out or comes up twice.
LEMMA NthInOrder ==
    ASSUME NEW S \in SUBSET Nat, IsFiniteSet(S)
    PROVE  /\ \A m, n \in 1..Cardinality(S) : m < n => Nth(S, m) < Nth(S, n)
           /\ \A k \in S : \E n \in 1..Cardinality(S) : Nth(S, n) = k
<1> DEFINE Upto(k) == {j \in S : j <= k}
<1>1. Cardinality(S) \in Nat
  BY FS_CardinalityType
<1>2. \A k \in S : IsFiniteSet(Upto(k)) /\ Upto(k) \in SUBSET S
  BY FS_Subset
<1>3. \A j, k \in S : j <= k => Cardinality(Upto(j)) <= Cardinality(Upto(k))
  <2> SUFFICES ASSUME NEW j \in S, NEW k \in S, j <= k
               PROVE  Cardinality(Upto(j)) <= Cardinality(Upto(k))
    OBVIOUS
  <2>1. Upto(j) \in SUBSET Upto(k)
    <3> SUFFICES ASSUME NEW i \in S, i <= j PROVE i <= k
      OBVIOUS
    <3>1. i \in Nat /\ j \in Nat /\ k \in Nat
      OBVIOUS
    <3> QED
      BY <3>1
  <2> QED
    BY <1>2, <2>1, FS_Subset
<1>4. ASSUME NEW m \in 1..Cardinality(S), NEW n \in 1..Cardinality(S), m < n
      PROVE  Nth(S, m) < Nth(S, n)
  <2>1. /\ \E j \in S : j = Nth(S, m) /\ Cardinality(Upto(j)) = m
        /\ \E k \in S : k = Nth(S, n) /\ Cardinality(Upto(k)) = n
    BY NthIn
  <2> HIDE DEF Upto
  <2>2. PICK j \in S : j = Nth(S, m) /\ Cardinality(Upto(j)) = m
    BY <2>1
  <2>3. PICK k \in S : k = Nth(S, n) /\ Cardinality(Upto(k)) = n
    BY <2>1
  <2>4. ~(k <= j)
    <3>1. k <= j => Cardinality(Upto(k)) <= Cardinality(Upto(j))
      BY <1>3
    <3> QED
      BY <1>1, <1>4, <2>2, <2>3, <3>1
  <2>5. j \in Nat /\ k \in Nat
    OBVIOUS
  <2> QED
    BY <2>4, <2>5, <2>2, <2>3
<1>5. ASSUME NEW k \in S
      PROVE  \E n \in 1..Cardinality(S) : Nth(S, n) = k
  <2>1. PICK n : n = Cardinality(Upto(k))
    OBVIOUS
  <2>2. k \in Upto(k)
    OBVIOUS
  <2>3. n \in Nat /\ n # 0 /\ n <= Cardinality(S)
    BY <1>2, <2>1, <2>2, FS_Subset, FS_CardinalityType, FS_EmptySet
  <2>4. n \in 1..Cardinality(S)
    BY <1>1, <2>3
  <2>5. PICK j \in S : j = Nth(S, n) /\ Cardinality(Upto(j)) = n
    BY <2>4, NthIn
  <2>6. j = k
    <3>1. CASE j <= k
      <4>1. Upto(j) \in SUBSET Upto(k)
        <5> SUFFICES ASSUME NEW i \in S, i <= j PROVE i <= k
          OBVIOUS
        <5>1. i \in Nat /\ j \in Nat /\ k \in Nat
          OBVIOUS
        <5> QED
          BY <3>1, <5>1
      <4>2. Upto(j) = Upto(k)
        BY <1>2, <2>1, <2>5, <4>1, FS_Subset
      <4>3. k <= j
        BY <2>2, <4>2
      <4>4. j \in Nat /\ k \in Nat
        OBVIOUS
      <4> HIDE DEF Upto
      <4> QED
        BY <3>1, <4>3, <4>4
    <3>2. CASE k <= j
      <4>1. Upto(k) \in SUBSET Upto(j)
        <5> SUFFICES ASSUME NEW i \in S, i <= k PROVE i <= j
          OBVIOUS
        <5>1. i \in Nat /\ j \in Nat /\ k \in Nat
          OBVIOUS
        <5> QED
          BY <3>2, <5>1
      <4>2. Upto(j) = Upto(k)
        BY <1>2, <2>1, <2>5, <4>1, FS_Subset
      <4>3. j \in Nat /\ k \in Nat
        OBVIOUS
      <4>4. j \in Upto(j)
        BY <4>3
      <4>5. j <= k
        BY <4>2, <4>4
      <4> HIDE DEF Upto
      <4> QED
        BY <3>2, <4>3, <4>5
    <3>3. j \in Nat /\ k \in Nat
      OBVIOUS
    <3> HIDE DEF Upto
    <3> QED
      BY <3>1, <3>2, <3>3
  <2> QED
    BY <2>4, <2>5, <2>6
<1> QED
  BY <1>4, <1>5

LEMMA RowsAtType ==
    ASSUME NEW S, NEW rows \in Seq(S), NEW kept \in SUBSET DOMAIN rows
    PROVE  RowsAt(rows, kept) \in Seq(S)
<1>1. DOMAIN rows = 1..Len(rows) /\ Len(rows) \in Nat
  OBVIOUS
<1>2. IsFiniteSet(kept) /\ kept \subseteq Nat
  <2>1. IsFiniteSet(1..Len(rows)) /\ kept \in SUBSET (1..Len(rows))
    BY <1>1, FS_Interval
  <2> QED
    BY <2>1, FS_Subset
<1>3. Cardinality(kept) \in Nat
  BY <1>2, FS_CardinalityType
<1>4. \A n \in 1..Cardinality(kept) : rows[Nth(kept, n)] \in S
  <2> TAKE n \in 1..Cardinality(kept)
  <2>1. Nth(kept, n) \in kept
    BY <1>2, NthIn
  <2> QED
    BY <1>1, <2>1
<1>5. RowsAt(rows, kept) \in [1..Cardinality(kept) -> S]
  BY <1>4 DEF RowsAt
<1> QED
  BY <1>3, <1>5
-----------------------------------------------------------------------------
(* The window.                                                             *)

LEMMA WindowRows ==
    ASSUME GTypeOK
    PROVE  /\ Window \in Seq(LedgerRow)
           /\ Len(Window) = IF Len(ledger) <= CheckTail THEN Len(ledger)
                            ELSE CheckTail
           /\ \A k \in 1..Len(Window) :
                 Window[k] = ledger[Len(ledger) - Len(Window) + k]
<1>1. ledger \in Seq(LedgerRow) /\ CheckTail \in Nat
  BY GatewayBounds DEF GTypeOK
<1> QED
  BY <1>1, LastRowsAre DEF Window

LEMMA HitsFinite ==
    ASSUME NEW rows \in Seq(LedgerRow), NEW R
    PROVE  /\ Hits(rows, R) \in SUBSET (1..Len(rows))
           /\ IsFiniteSet(Hits(rows, R)) /\ Cardinality(Hits(rows, R)) \in Nat
<1>1. DOMAIN rows = 1..Len(rows) /\ Len(rows) \in Nat
  OBVIOUS
<1>2. IsFiniteSet(1..Len(rows))
  BY <1>1, FS_Interval
<1>3. Hits(rows, R) \in SUBSET (1..Len(rows))
  BY <1>1 DEF Hits
<1> QED
  BY <1>2, <1>3, FS_Subset, FS_CardinalityType

LEMMA WindowArithmetic ==
    ASSUME NEW n \in Nat, NEW m \in Nat, NEW a \in Nat, NEW b \in Nat,
           NEW c \in Nat, NEW t \in Nat, 1 <= c, c <= t,
           m = IF n + 1 <= t THEN n + 1 ELSE t,
           a = IF n <= c THEN n ELSE c,
           b = IF m <= c THEN m ELSE c
    PROVE  /\ b = a \/ b = a + 1
           /\ 1 <= b
           /\ \A k \in 1..b : m - b + k \in 1..m
           /\ \A k \in 1..(b - 1) : /\ k + a + 1 - b \in 1..a
                                    /\ n + 1 - b + k \in 1..n
OBVIOUS

\* Appending a row moves the window by at most one: what was not in it stays
\* out, and only the new row comes in.
LEMMA WindowMoves ==
    ASSUME GTypeOK, GTypeOK', NEW row \in LedgerRow, NEW R,
           ledger' = LastRows(Append(ledger, row), LedgerTail)
    PROVE  Cardinality(Hits(Window, R)')
             <= Cardinality(Hits(Window, R)) + (IF row \in R THEN 1 ELSE 0)
<1>1. PICK w \in Seq(LedgerRow) : w = Window
  BY WindowRows
<1>2. /\ Len(w) = IF Len(ledger) <= CheckTail THEN Len(ledger) ELSE CheckTail
      /\ \A k \in 1..Len(w) : w[k] = ledger[Len(ledger) - Len(w) + k]
      /\ Len(w) \in Nat
  BY <1>1, WindowRows
<1>3. PICK v \in Seq(LedgerRow) : v = Window'
  <2>1. Window' \in Seq(LedgerRow)
    <3>1. ledger' \in Seq(LedgerRow) /\ CheckTail \in Nat
      BY GatewayBounds DEF GTypeOK
    <3>2. LastRows(ledger', CheckTail) \in Seq(LedgerRow)
      BY <3>1, LastRowsAre
    <3> QED
      BY <3>2 DEF Window
  <2> QED
    BY <2>1
<1>4. /\ Len(v) = IF Len(ledger') <= CheckTail THEN Len(ledger') ELSE CheckTail
      /\ \A k \in 1..Len(v) : v[k] = ledger'[Len(ledger') - Len(v) + k]
      /\ Len(v) \in Nat
  <2>1. ledger' \in Seq(LedgerRow) /\ CheckTail \in Nat
    BY GatewayBounds DEF GTypeOK
  <2>2. v = LastRows(ledger', CheckTail)
    BY <1>3 DEF Window
  <2> QED
    BY <2>1, <2>2, LastRowsAre
<1>5. ledger \in Seq(LedgerRow) /\ ledger' \in Seq(LedgerRow)
  BY DEF GTypeOK
<1>6. PICK long \in Seq(LedgerRow) :
         /\ long = Append(ledger, row)
         /\ Len(long) = Len(ledger) + 1
         /\ long[Len(ledger) + 1] = row
         /\ \A k \in 1..Len(ledger) : long[k] = ledger[k]
  <2>1. PICK r : r = ledger
    OBVIOUS
  <2>2. r \in Seq(LedgerRow) /\ Len(r) \in Nat /\ DOMAIN r = 1..Len(r)
    BY <1>5, <2>1
  <2>3. /\ Append(r, row) \in Seq(LedgerRow)
        /\ Len(Append(r, row)) = Len(r) + 1
        /\ Append(r, row)[Len(r) + 1] = row
    BY <2>2
  <2>4. \A k \in 1..Len(r) : Append(r, row)[k] = r[k]
    BY <2>2
  <2> QED
    BY <2>1, <2>3, <2>4
<1>7. /\ Len(ledger') = IF Len(long) <= LedgerTail THEN Len(long)
                         ELSE LedgerTail
      /\ \A k \in 1..Len(ledger') :
            ledger'[k] = long[Len(long) - Len(ledger') + k]
  <2>1. ledger' = LastRows(long, LedgerTail) /\ LedgerTail \in Nat
    BY <1>6, GatewayBounds
  <2> QED
    BY <2>1, LastRowsAre
<1>8. /\ CheckTail \in Nat /\ 1 <= CheckTail /\ LedgerTail \in Nat
      /\ CheckTail <= LedgerTail
  BY GatewayBounds
<1>9. PICK n, m, a, b \in Nat : /\ n = Len(ledger) /\ m = Len(ledger')
                               /\ a = Len(w) /\ b = Len(v)
  BY <1>2, <1>4, <1>5
<1>10. /\ b = a \/ b = a + 1
       /\ 1 <= b
       /\ \A k \in 1..b : m - b + k \in 1..m
       /\ \A k \in 1..(b - 1) : /\ k + a + 1 - b \in 1..a
                                /\ n + 1 - b + k \in 1..n
  <2>1. /\ m = IF n + 1 <= LedgerTail THEN n + 1 ELSE LedgerTail
        /\ a = IF n <= CheckTail THEN n ELSE CheckTail
        /\ b = IF m <= CheckTail THEN m ELSE CheckTail
    BY <1>2, <1>4, <1>6, <1>7, <1>9
  <2> QED
    BY <1>8, <2>1, WindowArithmetic
<1>11. \A k \in 1..b : v[k] = long[n + 1 - b + k]
  <2> TAKE k \in 1..b
  <2>1. PICK i \in 1..m : i = m - b + k
    BY <1>10
  <2>2. ledger'[i] = long[n + 1 - m + i]
    <3>1. Len(long) - Len(ledger') + i = n + 1 - m + i
      BY <1>6, <1>9
    <3> QED
      BY <1>7, <1>9, <3>1
  <2>3. n + 1 - m + i = n + 1 - b + k
    BY <2>1
  <2>4. v[k] = ledger'[i]
    BY <1>4, <1>9, <2>1
  <2> QED
    BY <2>2, <2>3, <2>4
<1>12. v[b] = row
  <2>1. n + 1 - b + b = n + 1 /\ b \in 1..b
    BY <1>10
  <2> QED
    BY <1>6, <1>9, <1>11, <2>1
<1>13. ASSUME NEW k \in 1..(b - 1)
       PROVE  /\ k + a + 1 - b \in 1..a
              /\ v[k] = w[k + a + 1 - b]
  <2>1. PICK j \in 1..a : j = k + a + 1 - b
    BY <1>10
  <2>2. PICK i \in 1..n : i = n + 1 - b + k
    BY <1>10
  <2>3. i = n - a + j /\ k \in 1..b
    BY <2>1, <2>2
  <2>4. v[k] = long[i]
    BY <1>11, <2>2, <2>3
  <2>5. long[i] = ledger[i]
    BY <1>6, <1>9
  <2>6. w[j] = ledger[i]
    BY <1>2, <1>9, <2>3
  <2> QED
    BY <2>1, <2>4, <2>5, <2>6
<1> DEFINE old == Hits(w, R)
           new == Hits(v, R)
           rest == new \ {b}
<1>14. /\ old \in SUBSET (1..a) /\ IsFiniteSet(old)
       /\ Cardinality(old) \in Nat
       /\ new \in SUBSET (1..b) /\ IsFiniteSet(new)
       /\ Cardinality(new) \in Nat
  BY <1>9, HitsFinite
<1>15. PICK f : f = [k \in rest |-> k + a + 1 - b]
  OBVIOUS
<1>16. f \in Injection(rest, old)
  <2>1. \A k \in rest : k \in 1..(b - 1) /\ v[k] \in R
    BY <1>14 DEF Hits
  <2>2. \A k \in rest : k + a + 1 - b \in old
    <3> TAKE k \in rest
    <3>1. PICK j \in 1..a : /\ j = k + a + 1 - b
                                 /\ v[k] = w[j]
      BY <1>13, <2>1
    <3>2. DOMAIN w = 1..a
      BY <1>9
    <3> QED
      BY <2>1, <3>1, <3>2 DEF Hits
  <2>3. f \in [rest -> old]
    BY <1>15, <2>2
  <2>4. \A j, k \in rest : f[j] = f[k] => j = k
    <3> TAKE j, k \in rest
    <3>1. j \in Int /\ k \in Int
      BY <2>1
    <3>2. /\ f[j] = j + a + 1 - b
          /\ f[k] = k + a + 1 - b
      BY <1>15
    <3> QED
      BY <3>1, <3>2
  <2> QED
    BY <2>3, <2>4 DEF Injection, IsInjective
<1>17. IsFiniteSet(rest) /\ Cardinality(rest) <= Cardinality(old)
  BY <1>14, <1>16, FS_Injection
<1>18. Cardinality(rest) = IF b \in new THEN Cardinality(new) - 1
                           ELSE Cardinality(new)
  BY <1>14, FS_RemoveElement
<1>19. b \in new <=> row \in R
  <2>1. DOMAIN v = 1..b /\ b \in 1..b
    BY <1>9, <1>10
  <2> QED
    BY <1>12, <2>1 DEF Hits
<1>20. Hits(Window, R) = old /\ Hits(Window, R)' = new
  BY <1>1, <1>3 DEF Hits
<1> HIDE DEF old, new, rest
<1>21. Cardinality(new) <= Cardinality(old) + (IF row \in R THEN 1 ELSE 0)
  BY <1>14, <1>17, <1>18, <1>19
<1> QED
  BY <1>20, <1>21
-----------------------------------------------------------------------------
(* Types.                                                                  *)

LEMMA CountType ==
    ASSUME NEW n \in 0..MaxSends
    PROVE  /\ Count(n) \in 0..MaxSends
           /\ Count(n) = n + 1 \/ (Count(n) = n /\ n = MaxSends)
BY GatewayBounds DEF Count

LEMMA HeadOfBatch ==
    ASSUME GTypeOK, Attended, NEW p \in Procs, outcome[p] # "none"
    PROVE  /\ pc[p] = "dispatch"
           /\ Head(batch[p]) \in Item /\ Head(batch[p]).id \in Events
           /\ Head(batch[p]).fresh \in BOOLEAN
           /\ Tail(batch[p]) \in Seq(Item)
<1>1. batch[p] \in Seq(Item) /\ batch[p] # <<>> /\ pc[p] = "dispatch"
  BY DEF GTypeOK, Attended
<1>2. Head(batch[p]) \in Item /\ Tail(batch[p]) \in Seq(Item)
  BY <1>1
<1> QED
  BY <1>1, <1>2 DEF Item

LEMMA TypeEnqueue ==
    ASSUME GTypeOK, Attended, NEW p \in Procs,
           (\E e \in Events : ReadKeys(p, e)) \/ AppendQueue(p)
    PROVE  GTypeOK' /\ Attended'
<1>1. /\ UNCHANGED <<ledger, chat, receipts, sentNow, batch, send, outcome>>
      /\ outcome[p] = "none"
  BY DEF ReadKeys, AppendQueue, Attended
<1>2. CASE \E e \in Events : ReadKeys(p, e)
  <2>1. PICK e \in Events : ReadKeys(p, e)
    BY <1>2
  <2>2. PICK rows : rows = IF \E k \in DOMAIN queue : queue[k].id = e THEN {}
                           ELSE {[id |-> e, fresh |-> TRUE]}
    OBVIOUS
  <2>3. rows \in SUBSET Item
    BY <2>2 DEF Item
  <2>4. /\ adding' = [adding EXCEPT ![p] = rows] /\ queue' = queue
        /\ pc' = [pc EXCEPT ![p] = "enqueue"]
    BY <2>1, <2>2 DEF ReadKeys
  <2> QED
    BY <1>1, <2>3, <2>4 DEF GTypeOK, Attended
<1>3. CASE AppendQueue(p)
  <2>1. /\ adding' = [adding EXCEPT ![p] = {}]
        /\ pc' = [pc EXCEPT ![p] = "idle"]
    BY <1>3 DEF AppendQueue
  <2>2. queue' \in Seq(Item)
    <3>1. CASE UNCHANGED queue
      BY <3>1 DEF GTypeOK
    <3>2. ASSUME NEW row \in adding[p], queue' = Append(queue, row)
          PROVE  queue' \in Seq(Item)
      <4>1. row \in Item /\ queue \in Seq(Item)
        BY DEF GTypeOK
      <4> QED
        BY <3>2, <4>1
    <3> QED
      BY <1>3, <3>1, <3>2 DEF AppendQueue
  <2> QED
    BY <1>1, <2>1, <2>2 DEF GTypeOK, Attended
<1> QED
  BY <1>2, <1>3

LEMMA TypeStart ==
    ASSUME GTypeOK, Attended, NEW p \in Procs, NEW rows \in Seq(Item),
           NEW s \in BOOLEAN, StartBatch(p, rows, s)
    PROVE  GTypeOK' /\ Attended'
<1>1. /\ outcome[p] = "none"
      /\ pc' = [pc EXCEPT ![p] = "dispatch"]
      /\ batch' = [batch EXCEPT ![p] = rows] /\ send' = [send EXCEPT ![p] = s]
      /\ UNCHANGED <<queue, ledger, chat, receipts, sentNow, adding, outcome>>
  BY DEF StartBatch, Attended
<1> QED
  BY <1>1 DEF GTypeOK, Attended

\* What a dispatch run is started with.
LEMMA BatchType ==
    ASSUME GTypeOK, NEW topics, NEW limit \in 1..MaxEvents
    PROVE  FirstRows(Pending(topics), limit) \in Seq(Item)
<1>1. PICK rows : rows = LastRows(queue, QueueTail)
  OBVIOUS
<1>2. rows \in Seq(Item)
  BY <1>1, LastRowsAre, GatewayBounds DEF GTypeOK
<1>3. Pending(topics) \in Seq(Item)
  BY <1>1, <1>2, RowsAtType DEF Pending
<1> QED
  BY <1>3, FirstRowsType, GatewayBounds

LEMMA TypeDispatch ==
    ASSUME GTypeOK, Attended, NEW p \in Procs,
           \/ CheckDuplicate(p)
           \/ CheckRate(p)
           \/ \E result \in {"failed", "unconfirmed", "sent"} :
                  SendTelegram(p, result)
    PROVE  GTypeOK' /\ Attended'
<1>1. /\ pc[p] = "dispatch" /\ batch[p] # <<>>
      /\ UNCHANGED <<queue, ledger, receipts, pc, adding, batch, send>>
  BY DEF CheckDuplicate, CheckRate, SendTelegram, Attended
<1>2. PICK o \in {"new", "skipped", "sending", "failed", "unconfirmed",
                "sent"} :
         outcome' = [outcome EXCEPT ![p] = o]
  BY DEF CheckDuplicate, CheckRate, SendTelegram
<1>3. chat' \in [Events -> 0..MaxSends] /\ sentNow' \in 0..MaxSends
  <2>1. CASE chat' = chat /\ sentNow' = sentNow
    BY <2>1 DEF GTypeOK
  <2>2. ASSUME NEW result, SendTelegram(p, result)
        PROVE  chat' \in [Events -> 0..MaxSends] /\ sentNow' \in 0..MaxSends
    <3>1. PICK e \in Events : e = Head(batch[p]).id
      BY <2>2, HeadOfBatch DEF SendTelegram
    <3>2. Count(chat[e]) \in 0..MaxSends /\ Count(sentNow) \in 0..MaxSends
      BY CountType DEF GTypeOK
    <3>3. /\ chat' = chat \/ chat' = [chat EXCEPT ![e] = Count(chat[e])]
          /\ sentNow' = Count(sentNow) \/ sentNow' = sentNow
      BY <2>2, <3>1 DEF SendTelegram
    <3> QED
      BY <3>2, <3>3 DEF GTypeOK
  <2> QED
    BY <2>1, <2>2 DEF CheckDuplicate, CheckRate
<1> QED
  BY <1>1, <1>2, <1>3 DEF GTypeOK, Attended

\* The row that AppendLedger writes.
NewRow(p) == [id |-> Head(batch[p]).id, fresh |-> Head(batch[p]).fresh,
              ok |-> outcome[p] = "sent"]

LEMMA AppendLedgerIs ==
    ASSUME GTypeOK, Attended, NEW p \in Procs, AppendLedger(p)
    PROVE  /\ NewRow(p) \in LedgerRow /\ outcome[p] # "none"
           /\ ledger' = LastRows(Append(ledger, NewRow(p)), LedgerTail)
           /\ receipts' = IF outcome[p] = "sent"
                          THEN [receipts EXCEPT ![NewRow(p).id] =
                                  Count(receipts[NewRow(p).id])]
                          ELSE receipts
           /\ batch' = [batch EXCEPT ![p] = Tail(batch[p])]
           /\ outcome' = [outcome EXCEPT ![p] = "none"]
           /\ UNCHANGED <<queue, chat, sentNow, pc, adding, send>>
<1>1. outcome[p] # "none"
  BY DEF AppendLedger
<1>2. NewRow(p) \in LedgerRow
  BY <1>1, HeadOfBatch DEF NewRow, LedgerRow
<1> QED
  BY <1>1, <1>2 DEF AppendLedger, NewRow, DeliveryConfirmed

LEMMA TypeAppendLedger ==
    ASSUME GTypeOK, Attended, NEW p \in Procs, AppendLedger(p)
    PROVE  GTypeOK' /\ Attended'
<1>1. /\ batch' = [batch EXCEPT ![p] = Tail(batch[p])]
      /\ outcome' = [outcome EXCEPT ![p] = "none"]
      /\ UNCHANGED <<queue, chat, sentNow, pc, adding, send>>
  BY AppendLedgerIs
<1>2. Tail(batch[p]) \in Seq(Item)
  BY AppendLedgerIs, HeadOfBatch
<1>3. receipts' \in [Events -> 0..MaxSends]
  <2>1. PICK e \in Events : e = NewRow(p).id
    BY AppendLedgerIs DEF LedgerRow
  <2>2. Count(receipts[e]) \in 0..MaxSends
    BY CountType DEF GTypeOK
  <2> QED
    BY <2>1, <2>2, AppendLedgerIs DEF GTypeOK
<1>4. ledger' \in Seq(LedgerRow) /\ Len(ledger') <= LedgerTail
  <2>1. PICK long : long = Append(ledger, NewRow(p))
    OBVIOUS
  <2>2. long \in Seq(LedgerRow)
    BY <2>1, AppendLedgerIs DEF GTypeOK
  <2>3. ledger' = LastRows(long, LedgerTail) /\ LedgerTail \in Nat
    BY <2>1, AppendLedgerIs, GatewayBounds
  <2> QED
    BY <2>2, <2>3, LastRowsAre
<1> QED
  BY <1>1, <1>2, <1>3, <1>4 DEF GTypeOK, Attended

LEMMA TypeEndRun ==
    ASSUME GTypeOK, Attended, NEW p \in Procs, EndRun(p)
    PROVE  GTypeOK' /\ Attended'
<1>1. <<>> \in Seq(Item)
  OBVIOUS
<1> QED
  BY <1>1 DEF GTypeOK, Attended, EndRun

LEMMA ClockStrikesIs ==
    ASSUME GTypeOK, ClockStrikes
    PROVE  /\ ledger' \in Seq(LedgerRow) /\ Len(ledger') = Len(ledger)
           /\ \A k \in 1..Len(ledger) : /\ ledger'[k].id = ledger[k].id
                                        /\ ledger'[k].ok = ledger[k].ok
                                        /\ ledger'[k].fresh = FALSE
           /\ batch' \in [Procs -> Seq(Item)]
           /\ \A p \in Procs : batch[p] # <<>> =>
                 /\ batch'[p] # <<>>
                 /\ Head(batch'[p]).id = Head(batch[p]).id
                 /\ Head(batch'[p]).fresh = FALSE
<1>1. ledger' = Aged(ledger) /\ batch' = [p \in Procs |-> Aged(batch[p])]
  BY DEF ClockStrikes
<1>2. ledger \in Seq(LedgerRow) /\ \A p \in Procs : batch[p] \in Seq(Item)
  BY DEF GTypeOK
<1>3. batch' \in [Procs -> Seq(Item)]
  BY <1>1, <1>2, AgedItems
<1>4. ASSUME NEW p \in Procs, batch[p] # <<>>
      PROVE  /\ batch'[p] # <<>>
             /\ Head(batch'[p]).id = Head(batch[p]).id
             /\ Head(batch'[p]).fresh = FALSE
  <2>1. PICK b \in Seq(Item) : b = batch[p]
    BY <1>2
  <2>2. PICK c \in Seq(Item) : c = Aged(b)
    BY AgedItems
  <2>3. /\ Len(c) = Len(b) /\ \A k \in 1..Len(b) : c[k].id = b[k].id
        /\ \A k \in 1..Len(b) : c[k].fresh = FALSE
    BY <2>2, AgedItems
  <2>4. Len(b) >= 1 /\ c # <<>> /\ Head(c) = c[1] /\ Head(b) = b[1]
    BY <1>4, <2>1, <2>3
  <2>5. c = batch'[p]
    BY <1>1, <2>1, <2>2
  <2> QED
    BY <2>1, <2>3, <2>4, <2>5
<1> QED
  BY <1>1, <1>2, <1>3, <1>4, AgedLedger

LEMMA TypeClockStrikes ==
    ASSUME GTypeOK, Attended, ClockStrikes
    PROVE  GTypeOK' /\ Attended'
<1>1. /\ ledger' \in Seq(LedgerRow) /\ Len(ledger') = Len(ledger)
      /\ batch' \in [Procs -> Seq(Item)]
      /\ \A p \in Procs : batch[p] # <<>> => batch'[p] # <<>>
  BY ClockStrikesIs
<1>2. queue' \in Seq(Item)
  BY AgedItems DEF ClockStrikes, GTypeOK
<1>3. adding' \in [Procs -> SUBSET Item]
  <2>1. \A row \in Item : [row EXCEPT !.fresh = FALSE] \in Item
    BY DEF Item
  <2>2. adding' = [p \in Procs |->
                     {[row EXCEPT !.fresh = FALSE] : row \in adding[p]}]
    BY DEF ClockStrikes
  <2> QED
    BY <2>1, <2>2 DEF GTypeOK
<1>4. sentNow' \in 0..MaxSends
  BY GatewayBounds DEF ClockStrikes
<1>5. UNCHANGED <<chat, receipts, pc, send, outcome>>
  BY DEF ClockStrikes
<1> QED
  BY <1>1, <1>2, <1>3, <1>4, <1>5 DEF GTypeOK, Attended
-----------------------------------------------------------------------------
(* The three bounds.                                                       *)

LEMMA Runs ==
    ASSUME NEW S \in SUBSET Procs, NEW T \in SUBSET S
    PROVE  /\ IsFiniteSet(S) /\ IsFiniteSet(T)
           /\ Cardinality(S) \in Nat /\ Cardinality(T) \in Nat
           /\ Cardinality(Procs) \in Nat
           /\ Cardinality(T) <= Cardinality(S)
           /\ Cardinality(S) <= Cardinality(Procs)
<1>1. IsFiniteSet(S) /\ IsFiniteSet(T)
  BY GatewaySets, FS_Subset
<1> QED
  BY <1>1, GatewaySets, FS_Subset, FS_CardinalityType

\* No row is written, and a run that is under way was so before.
LEMMA QuietKeeps ==
    ASSUME DInv, GTypeOK', Attended',
           ledger' = ledger, chat' = chat, receipts' = receipts,
           \A q \in Procs : outcome'[q] \in {"new", "sending", "sent"} =>
              outcome'[q] = outcome[q] /\ batch'[q] = batch[q]
    PROVE  DInv'
<1>1. Window' = Window
  BY DEF Window
<1>2. ReceiptsCovered'
  <2> SUFFICES ASSUME NEW e \in Events
               PROVE  \/ chat[e] = MaxSends
                      \/ receipts[e] + Cardinality(Arrived(e)') <= chat[e]
    BY DEF ReceiptsCovered
  <2>1. Arrived(e)' \in SUBSET Arrived(e) /\ Arrived(e) \in SUBSET Procs
    BY DEF Arrived
  <2>2. /\ Cardinality(Arrived(e)') <= Cardinality(Arrived(e))
        /\ Cardinality(Arrived(e)') \in Nat /\ Cardinality(Arrived(e)) \in Nat
    BY <2>1, Runs
  <2>3. receipts[e] \in Nat /\ chat[e] \in Nat
    BY DEF DInv, GTypeOK
  <2> QED
    BY <2>2, <2>3 DEF DInv, ReceiptsCovered
<1>3. DuplicatesCovered'
  <2> SUFFICES ASSUME NEW e \in Events
               PROVE  Cardinality(Hits(Window, OkRows(e)))
                        + Cardinality(Deciding(e)') <= Cardinality(Procs)
    BY <1>1 DEF DuplicatesCovered
  <2>1. Deciding(e)' \in SUBSET Deciding(e) /\ Deciding(e) \in SUBSET Procs
    BY DEF Deciding
  <2>2. Cardinality(Hits(Window, OkRows(e))) \in Nat
    BY WindowRows, HitsFinite DEF DInv
  <2> QED
    BY <2>1, <2>2, Runs DEF DInv, DuplicatesCovered
<1>4. FreshCovered'
  <2>1. Racing' \in SUBSET Racing /\ Racing \in SUBSET Procs
    BY DEF Racing
  <2>2. /\ Cardinality(Racing') <= Cardinality(Racing)
        /\ Cardinality(Racing') \in Nat /\ Cardinality(Racing) \in Nat
        /\ Cardinality(Procs) \in Nat
    BY <2>1, Runs
  <2>3. Cardinality(Hits(Window, OkFreshRows)) \in Nat /\ MaxEvents \in Nat
    BY WindowRows, HitsFinite, GatewayBounds DEF DInv
  <2>4. Hits(Window, OkFreshRows)' = Hits(Window, OkFreshRows)
    BY <1>1 DEF Hits, OkFreshRows
  <2> QED
    BY <2>2, <2>3, <2>4 DEF DInv, FreshCovered
<1> QED
  BY <1>2, <1>3, <1>4 DEF DInv

\* An event that passes the duplicate test has no confirmed row in the window.
LEMMA DuplicateTest ==
    ASSUME GTypeOK, NEW e \in Events, ~Duplicate(e)
    PROVE  Cardinality(Hits(Window, OkRows(e))) = 0
<1>1. Hits(Window, OkRows(e)) = {}
  BY DEF Duplicate, ConfirmedIds, Confirmed, Window, Hits, OkRows
<1> QED
  BY <1>1, FS_EmptySet

\* The rate test counts the rows of this hour.
LEMMA RateTest ==
    ASSUME GTypeOK, ~RateLimited
    PROVE  Cardinality(Hits(Window, OkFreshRows)) <= MaxEvents - 1
<1>1. Window \in Seq(LedgerRow)
  BY WindowRows
<1>2. \A k \in DOMAIN Window : Window[k] \in LedgerRow
  BY <1>1
<1>3. {k \in Confirmed(Window) : Window[k].fresh} = Hits(Window, OkFreshRows)
  BY <1>2 DEF Confirmed, Hits, OkFreshRows
<1>4. ~(Cardinality(Hits(Window, OkFreshRows)) >= MaxEvents)
  BY <1>3 DEF RateLimited, Window
<1>5. Cardinality(Hits(Window, OkFreshRows)) \in Nat /\ MaxEvents \in Nat
  BY <1>1, HitsFinite, GatewayBounds
<1> QED
  BY <1>4, <1>5

LEMMA CheckDuplicateKeeps ==
    ASSUME DInv, NEW p \in Procs, CheckDuplicate(p)
    PROVE  DInv'
<1>1. GTypeOK' /\ Attended'
  BY TypeDispatch DEF DInv
<1>2. PICK o \in {"new", "skipped"} :
         /\ outcome' = [outcome EXCEPT ![p] = o]
         /\ o = "new" => ~Duplicate(Head(batch[p]).id)
  BY DEF CheckDuplicate
<1>3. /\ UNCHANGED <<ledger, chat, receipts, batch>>
      /\ outcome[p] = "none" /\ outcome'[p] = o
      /\ \A q \in Procs \ {p} : outcome'[q] = outcome[q]
  BY <1>2 DEF CheckDuplicate, DInv, GTypeOK
<1>4. CASE o = "skipped"
  <2>1. \A q \in Procs : outcome'[q] \in {"new", "sending", "sent"} =>
           outcome'[q] = outcome[q] /\ batch'[q] = batch[q]
    BY <1>3, <1>4
  <2> QED
    BY <1>1, <1>3, <2>1, QuietKeeps
<1>5. CASE o = "new"
  <2>1. \A e : Arrived(e)' = Arrived(e)
    BY <1>3, <1>5 DEF Arrived
  <2>2. Racing' = Racing
    BY <1>3, <1>5 DEF Racing
  <2>3. Window' = Window
    BY <1>3 DEF Window
  <2>4. ReceiptsCovered' /\ FreshCovered'
    BY <1>3, <2>1, <2>2, <2>3
       DEF DInv, ReceiptsCovered, FreshCovered, Hits, OkFreshRows
  <2>5. ASSUME NEW e \in Events
        PROVE  Cardinality(Hits(Window, OkRows(e)))
                 + Cardinality(Deciding(e)') <= Cardinality(Procs)
    <3>1. CASE e = Head(batch[p]).id
      <4>1. Cardinality(Hits(Window, OkRows(e))) = 0
        BY <1>2, <1>5, <3>1, DuplicateTest DEF DInv
      <4>2. Deciding(e)' \in SUBSET Procs
        BY DEF Deciding
      <4> QED
        BY <4>1, <4>2, Runs
    <3>2. CASE e # Head(batch[p]).id
      <4>1. Deciding(e)' = Deciding(e)
        BY <1>3, <3>2 DEF Deciding
      <4> QED
        BY <4>1 DEF DInv, DuplicatesCovered
    <3> QED
      BY <3>1, <3>2
  <2>6. DuplicatesCovered'
    BY <2>3, <2>5 DEF DuplicatesCovered
  <2> QED
    BY <1>1, <2>4, <2>6 DEF DInv
<1> QED
  BY <1>4, <1>5

LEMMA CheckRateKeeps ==
    ASSUME DInv, NEW p \in Procs, CheckRate(p)
    PROVE  DInv'
<1>1. GTypeOK' /\ Attended'
  BY TypeDispatch DEF DInv
<1>2. PICK o \in {"sending", "skipped"} :
         /\ outcome' = [outcome EXCEPT ![p] = o]
         /\ o = "sending" => ~RateLimited
  BY DEF CheckRate
<1>3. /\ UNCHANGED <<ledger, chat, receipts, batch>>
      /\ outcome[p] = "new" /\ outcome'[p] = o
      /\ \A q \in Procs \ {p} : outcome'[q] = outcome[q]
  BY <1>2 DEF CheckRate, DInv, GTypeOK
<1>4. CASE o = "skipped"
  <2>1. \A q \in Procs : outcome'[q] \in {"new", "sending", "sent"} =>
           outcome'[q] = outcome[q] /\ batch'[q] = batch[q]
    BY <1>3, <1>4
  <2> QED
    BY <1>1, <1>3, <2>1, QuietKeeps
<1>5. CASE o = "sending"
  <2>1. \A e : Arrived(e)' = Arrived(e) /\ Deciding(e)' = Deciding(e)
    BY <1>3, <1>5 DEF Arrived, Deciding
  <2>2. Window' = Window
    BY <1>3 DEF Window
  <2>3. ReceiptsCovered' /\ DuplicatesCovered'
    BY <1>3, <2>1, <2>2 DEF DInv, ReceiptsCovered, DuplicatesCovered
  <2>4. FreshCovered'
    <3>1. Cardinality(Hits(Window, OkFreshRows)) <= MaxEvents - 1
      BY <1>2, <1>5, RateTest DEF DInv
    <3>2. Racing' \in SUBSET Procs
      BY DEF Racing
    <3>3. /\ Cardinality(Racing') \in Nat /\ Cardinality(Procs) \in Nat
          /\ Cardinality(Racing') <= Cardinality(Procs)
      BY <3>2, Runs
    <3>4. Hits(Window, OkFreshRows)' = Hits(Window, OkFreshRows)
      BY <2>2 DEF Hits, OkFreshRows
    <3>5. Cardinality(Hits(Window, OkFreshRows)) \in Nat /\ MaxEvents \in Nat
      BY WindowRows, HitsFinite, GatewayBounds DEF DInv
    <3> QED
      BY <3>1, <3>3, <3>4, <3>5 DEF FreshCovered
  <2> QED
    BY <1>1, <2>3, <2>4 DEF DInv
<1> QED
  BY <1>4, <1>5

LEMMA SendTelegramKeeps ==
    ASSUME DInv, NEW p \in Procs,
           NEW result \in {"failed", "unconfirmed", "sent"},
           SendTelegram(p, result)
    PROVE  DInv'
<1>1. GTypeOK' /\ Attended'
  BY TypeDispatch DEF DInv
<1>2. /\ UNCHANGED <<ledger, receipts, batch>>
      /\ outcome[p] = "sending" /\ outcome'[p] = result
      /\ \A q \in Procs \ {p} : outcome'[q] = outcome[q]
  BY DEF SendTelegram, DInv, GTypeOK
<1>3. PICK d \in Events : d = Head(batch[p]).id
  BY <1>2, HeadOfBatch DEF DInv
<1>4. /\ result = "failed" => chat' = chat
      /\ result # "failed" => chat' = [chat EXCEPT ![d] = Count(chat[d])]
  BY <1>3 DEF SendTelegram
<1>5. Window' = Window
  BY <1>2 DEF Window
<1>6. DuplicatesCovered'
  <2>1. \A e : Deciding(e)' \in SUBSET Deciding(e)
                /\ Deciding(e) \in SUBSET Procs
    BY <1>2 DEF Deciding
  <2>2. \A e : Cardinality(Hits(Window, OkRows(e))) \in Nat
    BY WindowRows, HitsFinite DEF DInv
  <2> SUFFICES ASSUME NEW e \in Events
               PROVE  Cardinality(Hits(Window, OkRows(e)))
                        + Cardinality(Deciding(e)') <= Cardinality(Procs)
    BY <1>5 DEF DuplicatesCovered
  <2> QED
    BY <2>1, <2>2, Runs DEF DInv, DuplicatesCovered
<1>7. FreshCovered'
  <2>1. Racing' \in SUBSET Racing /\ Racing \in SUBSET Procs
    BY <1>2 DEF Racing
  <2>2. /\ Cardinality(Racing') <= Cardinality(Racing)
        /\ Cardinality(Racing') \in Nat /\ Cardinality(Racing) \in Nat
        /\ Cardinality(Procs) \in Nat
    BY <2>1, Runs
  <2>3. Cardinality(Hits(Window, OkFreshRows)) \in Nat /\ MaxEvents \in Nat
    BY WindowRows, HitsFinite, GatewayBounds DEF DInv
  <2>4. Hits(Window, OkFreshRows)' = Hits(Window, OkFreshRows)
    BY <1>5 DEF Hits, OkFreshRows
  <2> QED
    BY <2>2, <2>3, <2>4 DEF DInv, FreshCovered
<1>8. ReceiptsCovered'
  <2> SUFFICES ASSUME NEW e \in Events
               PROVE  \/ chat'[e] = MaxSends
                      \/ receipts[e] + Cardinality(Arrived(e)') <= chat'[e]
    BY <1>2 DEF ReceiptsCovered
  <2>1. Arrived(e) \in SUBSET Procs /\ p \notin Arrived(e)
    BY <1>2 DEF Arrived
  <2>2. /\ Cardinality(Arrived(e)) \in Nat /\ IsFiniteSet(Arrived(e))
        /\ receipts[e] \in Nat /\ chat[e] \in 0..MaxSends
        /\ MaxSends \in Nat
    <3>1. Cardinality(Arrived(e)) \in Nat /\ IsFiniteSet(Arrived(e))
      BY <2>1, Runs
    <3>2. MaxSends \in Nat
      BY GatewayBounds
    <3>3. receipts[e] \in 0..MaxSends /\ chat[e] \in 0..MaxSends
      BY DEF DInv, GTypeOK
    <3> QED
      BY <3>1, <3>2, <3>3
  <2>3. \/ chat[e] = MaxSends
        \/ receipts[e] + Cardinality(Arrived(e)) <= chat[e]
    BY DEF DInv, ReceiptsCovered
  <2>4. CASE e = d
    <3>1. Arrived(e)' \in SUBSET (Arrived(e) \cup {p})
      BY <1>2 DEF Arrived
    <3>2. /\ IsFiniteSet(Arrived(e) \cup {p})
          /\ Cardinality(Arrived(e) \cup {p}) = Cardinality(Arrived(e)) + 1
      BY <2>1, <2>2, FS_AddElement
    <3>3. /\ Cardinality(Arrived(e)') <= Cardinality(Arrived(e)) + 1
          /\ Cardinality(Arrived(e)') \in Nat
      BY <3>1, <3>2, FS_Subset, FS_CardinalityType
    <3>4. CASE result = "failed"
      <4>1. Arrived(e)' = Arrived(e) /\ chat' = chat
        BY <1>2, <1>4, <3>4 DEF Arrived
      <4> QED
        BY <2>3, <4>1
    <3>5. CASE result # "failed"
      <4>1. chat'[e] = Count(chat[e])
        BY <1>4, <2>4, <3>5 DEF DInv, GTypeOK
      <4>2. Count(chat[e]) = chat[e] + 1
            \/ (Count(chat[e]) = chat[e] /\ chat[e] = MaxSends)
        BY <2>2, CountType
      <4>3. Count(chat[e]) \in 0..MaxSends
        BY <2>2, CountType
      <4> QED
        BY <2>2, <2>3, <3>3, <4>1, <4>2, <4>3
    <3> QED
      BY <3>4, <3>5
  <2>5. CASE e # d
    <3>1. Arrived(e)' = Arrived(e)
      BY <1>2, <1>3, <2>5 DEF Arrived
    <3>2. chat'[e] = chat[e]
      BY <1>4, <2>5 DEF DInv, GTypeOK
    <3> QED
      BY <2>3, <3>1, <3>2
  <2> QED
    BY <2>4, <2>5
<1> QED
  BY <1>1, <1>6, <1>7, <1>8 DEF DInv
LEMMA AppendLedgerKeeps ==
    ASSUME DInv, NEW p \in Procs, AppendLedger(p)
    PROVE  DInv'
<1>1. GTypeOK' /\ Attended'
  BY TypeAppendLedger DEF DInv
<1>2. PICK row \in LedgerRow : row = NewRow(p)
  BY AppendLedgerIs DEF DInv
<1>3. /\ ledger' = LastRows(Append(ledger, row), LedgerTail)
      /\ row.id = Head(batch[p]).id /\ row.fresh = Head(batch[p]).fresh
      /\ row.ok = (outcome[p] = "sent")
  BY <1>2, AppendLedgerIs DEF DInv, NewRow
<1>4. /\ chat' = chat /\ outcome'[p] = "none"
      /\ \A q \in Procs \ {p} : /\ outcome'[q] = outcome[q]
                                /\ batch'[q] = batch[q]
  BY AppendLedgerIs DEF DInv, GTypeOK
<1>5. row.id \in Events /\ row.ok \in BOOLEAN /\ row.fresh \in BOOLEAN
  BY DEF LedgerRow
<1>6. receipts' = IF row.ok
                  THEN [receipts EXCEPT ![row.id] = Count(receipts[row.id])]
                  ELSE receipts
  BY <1>2, <1>3, AppendLedgerIs DEF DInv
<1>7. /\ Window' \in Seq(LedgerRow) /\ Window \in Seq(LedgerRow)
  <2>1. ledger' \in Seq(LedgerRow) /\ CheckTail \in Nat
    BY <1>1, GatewayBounds DEF GTypeOK
  <2> QED
    BY <2>1, LastRowsAre, WindowRows DEF Window, DInv
<1>8. ASSUME NEW R
      PROVE  /\ Cardinality(Hits(Window, R)') \in Nat
             /\ Cardinality(Hits(Window, R)) \in Nat
             /\ Cardinality(Hits(Window, R)')
                  <= Cardinality(Hits(Window, R))
                       + (IF row \in R THEN 1 ELSE 0)
  <2>1. Cardinality(Hits(Window', R)) \in Nat
    BY <1>7, HitsFinite
  <2>2. Hits(Window, R)' = Hits(Window', R)
    BY DEF Hits
  <2> QED
    BY <1>1, <1>3, <1>7, <2>1, <2>2, HitsFinite, WindowMoves DEF DInv
<1>9. ReceiptsCovered'
  <2> SUFFICES ASSUME NEW e \in Events
               PROVE  \/ chat[e] = MaxSends
                      \/ receipts'[e] + Cardinality(Arrived(e)') <= chat[e]
    BY <1>4 DEF ReceiptsCovered
  <2>1. /\ Arrived(e)' = Arrived(e) \ {p} /\ Arrived(e) \in SUBSET Procs
        /\ p \in Arrived(e) <=> row.ok /\ row.id = e
    BY <1>3, <1>4 DEF Arrived
  <2>2. IsFiniteSet(Arrived(e)) /\ Cardinality(Arrived(e)) \in Nat
    BY <2>1, Runs
  <2>3. Cardinality(Arrived(e)') = IF row.ok /\ row.id = e
                                   THEN Cardinality(Arrived(e)) - 1
                                   ELSE Cardinality(Arrived(e))
    BY <2>1, <2>2, FS_RemoveElement
  <2>4. receipts[e] \in 0..MaxSends /\ chat[e] \in 0..MaxSends
    BY DEF DInv, GTypeOK
  <2>5. receipts'[e] = IF row.ok /\ row.id = e THEN Count(receipts[e])
                       ELSE receipts[e]
    BY <1>5, <1>6 DEF DInv, GTypeOK
  <2>6. /\ Count(receipts[e]) \in 0..MaxSends
        /\ Count(receipts[e]) = receipts[e] + 1
            \/ (Count(receipts[e]) = receipts[e] /\ receipts[e] = MaxSends)
    BY <2>4, CountType
  <2>7. \/ chat[e] = MaxSends
        \/ receipts[e] + Cardinality(Arrived(e)) <= chat[e]
    BY DEF DInv, ReceiptsCovered
  <2>8. MaxSends \in Nat
    BY GatewayBounds
  <2> QED
    BY <2>2, <2>3, <2>4, <2>5, <2>6, <2>7, <2>8
<1>10. DuplicatesCovered'
  <2> SUFFICES ASSUME NEW e \in Events
               PROVE  Cardinality(Hits(Window, OkRows(e))')
                        + Cardinality(Deciding(e)') <= Cardinality(Procs)
    BY DEF DuplicatesCovered, Hits, OkRows
  <2>1. /\ Deciding(e)' = Deciding(e) \ {p} /\ Deciding(e) \in SUBSET Procs
        /\ row.ok /\ row.id = e => p \in Deciding(e)
    BY <1>3, <1>4 DEF Deciding
  <2>2. /\ IsFiniteSet(Deciding(e)) /\ Cardinality(Deciding(e)) \in Nat
        /\ Cardinality(Procs) \in Nat
    BY <2>1, Runs
  <2>3. /\ Cardinality(Deciding(e)') = IF p \in Deciding(e)
                                       THEN Cardinality(Deciding(e)) - 1
                                       ELSE Cardinality(Deciding(e))
    BY <2>1, <2>2, FS_RemoveElement
  <2>4. row \in OkRows(e) <=> row.ok /\ row.id = e
    BY DEF OkRows
  <2>5. Cardinality(Hits(Window, OkRows(e))) + Cardinality(Deciding(e))
          <= Cardinality(Procs)
    BY DEF DInv, DuplicatesCovered
  <2> QED
    BY <1>8, <2>1, <2>2, <2>3, <2>4, <2>5
<1>11. FreshCovered'
  <2>1. /\ Racing' = Racing \ {p} /\ Racing \in SUBSET Procs
        /\ row.ok /\ row.fresh => p \in Racing
    BY <1>3, <1>4 DEF Racing
  <2>2. /\ IsFiniteSet(Racing) /\ Cardinality(Racing) \in Nat
        /\ Cardinality(Procs) \in Nat
    BY <2>1, Runs
  <2>3. Cardinality(Racing') = IF p \in Racing THEN Cardinality(Racing) - 1
                               ELSE Cardinality(Racing)
    BY <2>1, <2>2, FS_RemoveElement
  <2>4. row \in OkFreshRows <=> row.ok /\ row.fresh
    BY DEF OkFreshRows
  <2>5. Cardinality(Hits(Window, OkFreshRows)) + Cardinality(Racing)
          <= MaxEvents + Cardinality(Procs) - 1
    BY DEF DInv, FreshCovered
  <2>6. MaxEvents \in Nat
    BY GatewayBounds
  <2>7. PICK R : R = OkFreshRows
    OBVIOUS
  <2>8. Hits(Window, OkFreshRows)' = Hits(Window, R)'
    BY <2>7 DEF Hits, OkFreshRows
  <2>9. Cardinality(Hits(Window, OkFreshRows)') + Cardinality(Racing')
          <= MaxEvents + Cardinality(Procs) - 1
    BY <1>8, <2>1, <2>2, <2>3, <2>4, <2>5, <2>6, <2>7, <2>8
  <2> QED
    BY <2>9 DEF FreshCovered
<1> QED
  BY <1>1, <1>9, <1>10, <1>11 DEF DInv

LEMMA ClockKeeps == ASSUME DInv, ClockStrikes PROVE DInv'
<1>1. GTypeOK' /\ Attended'
  BY TypeClockStrikes DEF DInv
<1>2. UNCHANGED <<chat, receipts, outcome>>
  BY DEF ClockStrikes
<1>3. \A p \in Procs : outcome[p] # "none" =>
         /\ Head(batch'[p]).id = Head(batch[p]).id
         /\ Head(batch'[p]).fresh = FALSE
  BY ClockStrikesIs DEF DInv, Attended
<1>4. \A e : Arrived(e)' = Arrived(e) /\ Deciding(e)' = Deciding(e)
  BY <1>2, <1>3 DEF Arrived, Deciding
<1>5. Racing' = {}
  BY <1>2, <1>3 DEF Racing
<1>6. PICK w, v \in Seq(LedgerRow) : w = Window /\ v = Window'
  <2>1. ledger' \in Seq(LedgerRow) /\ CheckTail \in Nat
    BY <1>1, GatewayBounds DEF GTypeOK
  <2> QED
    BY <2>1, LastRowsAre, WindowRows DEF Window, DInv
<1>7. /\ Len(v) = Len(w) /\ Len(w) \in Nat
      /\ \A k \in 1..Len(w) : /\ v[k].id = w[k].id /\ v[k].ok = w[k].ok
                              /\ v[k].fresh = FALSE
  <2>1. /\ ledger' \in Seq(LedgerRow) /\ Len(ledger') = Len(ledger)
        /\ \A k \in 1..Len(ledger) : /\ ledger'[k].id = ledger[k].id
                                     /\ ledger'[k].ok = ledger[k].ok
                                     /\ ledger'[k].fresh = FALSE
    BY ClockStrikesIs DEF DInv
  <2>2. CheckTail \in Nat /\ Len(ledger) \in Nat
    BY GatewayBounds DEF DInv, GTypeOK
  <2>3. /\ Len(v) = IF Len(ledger') <= CheckTail THEN Len(ledger')
                    ELSE CheckTail
        /\ \A k \in 1..Len(v) : v[k] = ledger'[Len(ledger') - Len(v) + k]
    BY <1>6, <2>1, <2>2, LastRowsAre DEF Window
  <2>4. /\ Len(w) = IF Len(ledger) <= CheckTail THEN Len(ledger) ELSE CheckTail
        /\ \A k \in 1..Len(w) : w[k] = ledger[Len(ledger) - Len(w) + k]
    BY <1>6, WindowRows DEF DInv
  <2>5. PICK n, a \in Nat : n = Len(ledger) /\ a = Len(w)
    BY <1>6, <2>2
  <2>6. Len(v) = a /\ a <= n
    BY <2>1, <2>2, <2>3, <2>4, <2>5
  <2>7. ASSUME NEW k \in 1..a
        PROVE  /\ v[k].id = w[k].id /\ v[k].ok = w[k].ok
               /\ v[k].fresh = FALSE
    <3>1. PICK i \in 1..n : i = n - a + k
      BY <2>6
    <3>2. v[k] = ledger'[i] /\ w[k] = ledger[i]
      BY <2>1, <2>3, <2>4, <2>5, <2>6, <3>1
    <3> QED
      BY <2>1, <2>5, <3>2
  <2> QED
    BY <2>5, <2>6, <2>7
<1>8. DOMAIN v = 1..Len(w) /\ DOMAIN w = 1..Len(w)
      /\ \A k \in 1..Len(w) : v[k] \in LedgerRow /\ w[k] \in LedgerRow
  BY <1>6, <1>7
<1>9. \A e : Hits(v, OkRows(e)) = Hits(w, OkRows(e))
  BY <1>7, <1>8 DEF Hits, OkRows
<1>10. Hits(v, OkFreshRows) = {}
  BY <1>7, <1>8 DEF Hits, OkFreshRows
<1>11. ReceiptsCovered' /\ DuplicatesCovered'
  <2>1. \A e : Hits(Window, OkRows(e))' = Hits(Window, OkRows(e))
    BY <1>6, <1>9 DEF Hits, OkRows
  <2> QED
    BY <1>2, <1>4, <2>1 DEF DInv, ReceiptsCovered, DuplicatesCovered
<1>12. FreshCovered'
  <2>1. Hits(Window, OkFreshRows)' = {}
    BY <1>6, <1>10 DEF Hits, OkFreshRows
  <2>2. /\ Cardinality({}) = 0 /\ MaxEvents \in Nat \ {0}
        /\ Cardinality(Procs) \in Nat
    BY FS_EmptySet, GatewaySets, GatewayBounds, FS_CardinalityType
  <2> QED
    BY <1>5, <2>1, <2>2 DEF FreshCovered
<1> QED
  BY <1>1, <1>11, <1>12 DEF DInv

LEMMA DInitOK == ASSUME GInit PROVE DInv
<1>1. GTypeOK
  <2>1. /\ <<>> \in Seq(Item) /\ <<>> \in Seq(LedgerRow)
        /\ 0 \in 0..MaxSends /\ Len(<<>>) <= LedgerTail
    BY GatewayBounds
  <2> QED
    BY <2>1 DEF GInit, GTypeOK
<1>2. Attended
  BY DEF GInit, Attended
<1>3. Window = <<>>
  BY GatewayBounds DEF GInit, Window, LastRows
<1>4. \A R : Hits(Window, R) = {}
  BY <1>3 DEF Hits
<1>5. \A e : Arrived(e) = {} /\ Deciding(e) = {}
  BY DEF GInit, Arrived, Deciding
<1>6. Racing = {}
  BY DEF GInit, Racing
<1>7. /\ Cardinality({}) = 0 /\ MaxEvents \in Nat \ {0}
      /\ Cardinality(Procs) \in Nat
  BY FS_EmptySet, GatewaySets, GatewayBounds, FS_CardinalityType
<1>8. ReceiptsCovered
  <2>1. \A e \in Events : /\ Cardinality(Arrived(e)) = 0
                          /\ receipts[e] = 0 /\ chat[e] = 0
    BY <1>5, <1>7 DEF GInit
  <2> QED
    BY <2>1 DEF ReceiptsCovered
<1>9. DuplicatesCovered
  BY <1>4, <1>5, <1>7 DEF DuplicatesCovered
<1>10. FreshCovered
  BY <1>4, <1>6, <1>7 DEF FreshCovered
<1> QED
  BY <1>1, <1>2, <1>8, <1>9, <1>10 DEF DInv

LEMMA DStepKeeps == ASSUME DInv, [GNext]_gvars PROVE DInv'
<1>1. CASE ClockStrikes
  BY <1>1, ClockKeeps
<1>2. ASSUME NEW p \in Procs, Call(p) \/ Progress(p) \/ Kill(p)
      PROVE  DInv'
  <2>1. CASE (\E e \in Events : ReadKeys(p, e)) \/ AppendQueue(p)
    <3>1. GTypeOK' /\ Attended'
      BY <2>1, TypeEnqueue DEF DInv
    <3> QED
      BY <2>1, <3>1, QuietKeeps DEF ReadKeys, AppendQueue
  <2>2. ASSUME NEW rows \in Seq(Item), NEW s \in BOOLEAN,
               StartBatch(p, rows, s)
        PROVE  DInv'
    <3>1. GTypeOK' /\ Attended'
      BY <2>2, TypeStart DEF DInv
    <3>2. outcome[p] = "none"
      BY <2>2 DEF StartBatch, DInv, Attended
    <3>3. /\ UNCHANGED <<ledger, chat, receipts, outcome>>
          /\ \A q \in Procs \ {p} : batch'[q] = batch[q]
      BY <2>2 DEF StartBatch, DInv, GTypeOK
    <3> QED
      BY <3>1, <3>2, <3>3, QuietKeeps
  <2>3. ASSUME NEW topics, NEW limit \in 1..MaxEvents, NEW s \in BOOLEAN,
               DispatchPending(p, topics, limit, s)
        PROVE  DInv'
    BY <2>2, <2>3, BatchType DEF DispatchPending, DInv
  <2>4. ASSUME NEW e \in Events, NEW s \in BOOLEAN, DispatchText(p, e, s)
        PROVE  DInv'
    <3>1. [id |-> e, fresh |-> TRUE] \in Item
      BY DEF Item
    <3>2. <<[id |-> e, fresh |-> TRUE]>> \in Seq(Item)
      BY <3>1
    <3> QED
      BY <2>2, <2>4, <3>2 DEF DispatchText
  <2>5. CASE CheckDuplicate(p)
    BY <2>5, CheckDuplicateKeeps
  <2>6. CASE CheckRate(p)
    BY <2>6, CheckRateKeeps
  <2>7. CASE \E result \in {"failed", "unconfirmed", "sent"} :
                SendTelegram(p, result)
    BY <2>7, SendTelegramKeeps
  <2>8. CASE AppendLedger(p)
    BY <2>8, AppendLedgerKeeps
  <2>9. CASE FinishDispatch(p) \/ Kill(p)
    <3>1. EndRun(p)
      BY <2>9 DEF FinishDispatch, Kill
    <3>2. GTypeOK' /\ Attended'
      BY <3>1, TypeEndRun DEF DInv
    <3>3. /\ UNCHANGED <<ledger, chat, receipts>> /\ outcome'[p] = "none"
          /\ \A q \in Procs \ {p} : /\ outcome'[q] = outcome[q]
                                    /\ batch'[q] = batch[q]
      BY <3>1 DEF EndRun, DInv, GTypeOK
    <3> QED
      BY <3>2, <3>3, QuietKeeps
  <2> QED
    BY <1>2, <2>1, <2>3, <2>4, <2>5, <2>6, <2>7, <2>8, <2>9 DEF Call, Progress
<1>3. CASE UNCHANGED gvars
  <2>1. GTypeOK' /\ Attended'
    BY <1>3 DEF DInv, GTypeOK, Attended, gvars
  <2> QED
    BY <1>3, <2>1, QuietKeeps DEF gvars
<1> QED
  BY <1>1, <1>2, <1>3 DEF GNext, CalmNext

THEOREM DInvInvariant == GSpec => []DInv
BY DInitOK, DStepKeeps, PTL DEF GSpec

\* Every batch is built from rows of the queue, the ledger never holds more
\* rows than are kept, and the counters stay within their bound.
THEOREM GTypesHold == GSpec => []GTypeOK
<1>1. DInv => GTypeOK
  BY DEF DInv
<1> QED
  BY <1>1, DInvInvariant, PTL

\* However runs overlap or are killed, no confirmed row is written for a
\* message that did not arrive.
THEOREM ReceiptsAreReal == GSpec => []ReceiptsReal
<1>1. DInv => ReceiptsReal
  <2> SUFFICES ASSUME DInv, NEW e \in Events PROVE receipts[e] <= chat[e]
    BY DEF ReceiptsReal
  <2>1. Arrived(e) \in SUBSET Procs
    BY DEF Arrived
  <2>2. Cardinality(Arrived(e)) \in Nat
    BY <2>1, Runs
  <2>3. receipts[e] \in 0..MaxSends /\ chat[e] \in 0..MaxSends
        /\ MaxSends \in Nat
    BY GatewayBounds DEF DInv, GTypeOK
  <2> QED
    BY <2>2, <2>3 DEF DInv, ReceiptsCovered
<1> QED
  BY <1>1, DInvInvariant, PTL

\* An event is confirmed, among the rows that are looked at before a send, at
\* most once per process that can overlap.
THEOREM DuplicatesAreBounded == GSpec => []DuplicatesBounded
<1>1. DInv => DuplicatesBounded
  <2> SUFFICES ASSUME DInv, NEW e \in Events
               PROVE  Cardinality({k \in Confirmed(Window) : Window[k].id = e})
                        <= Cardinality(Procs)
    BY DEF DuplicatesBounded, Window
  <2>1. Window \in Seq(LedgerRow)
    BY WindowRows DEF DInv
  <2>2. {k \in Confirmed(Window) : Window[k].id = e} = Hits(Window, OkRows(e))
    <3>1. \A k \in DOMAIN Window : Window[k] \in LedgerRow
      BY <2>1
    <3> QED
      BY <3>1 DEF Confirmed, Hits, OkRows
  <2>3. Deciding(e) \in SUBSET Procs
    BY DEF Deciding
  <2>4. /\ Cardinality(Deciding(e)) \in Nat /\ Cardinality(Procs) \in Nat
        /\ Cardinality(Hits(Window, OkRows(e))) \in Nat
    BY <2>1, <2>3, Runs, HitsFinite
  <2>5. Cardinality(Hits(Window, OkRows(e))) + Cardinality(Deciding(e))
          <= Cardinality(Procs)
    BY DEF DInv, DuplicatesCovered
  <2>6. Cardinality(Hits(Window, OkRows(e))) <= Cardinality(Procs)
    BY <2>4, <2>5
  <2> QED
    BY <2>2, <2>6
<1> QED
  BY <1>1, DInvInvariant, PTL

\* The hour's limit is overrun by at most one event per other process.
THEOREM FreshRateIsBounded == GSpec => []FreshRateBounded
<1>1. DInv => FreshRateBounded
  <2> SUFFICES ASSUME DInv
               PROVE  Cardinality({k \in Confirmed(Window) : Window[k].fresh})
                        <= MaxEvents + Cardinality(Procs) - 1
    BY DEF FreshRateBounded, Window
  <2>1. Window \in Seq(LedgerRow)
    BY WindowRows DEF DInv
  <2>2. {k \in Confirmed(Window) : Window[k].fresh} = Hits(Window, OkFreshRows)
    <3>1. \A k \in DOMAIN Window : Window[k] \in LedgerRow
      BY <2>1
    <3> QED
      BY <3>1 DEF Confirmed, Hits, OkFreshRows
  <2>3. Racing \in SUBSET Procs
    BY DEF Racing
  <2>4. /\ Cardinality(Racing) \in Nat /\ Cardinality(Procs) \in Nat
        /\ Cardinality(Hits(Window, OkFreshRows)) \in Nat /\ MaxEvents \in Nat
    BY <2>1, <2>3, Runs, HitsFinite, GatewayBounds
  <2>5. Cardinality(Hits(Window, OkFreshRows)) + Cardinality(Racing)
          <= MaxEvents + Cardinality(Procs) - 1
    BY DEF DInv, FreshCovered
  <2>6. Cardinality(Hits(Window, OkFreshRows))
          <= MaxEvents + Cardinality(Procs) - 1
    BY <2>4, <2>5
  <2> QED
    BY <2>2, <2>6
<1> QED
  BY <1>1, DInvInvariant, PTL
=============================================================================
