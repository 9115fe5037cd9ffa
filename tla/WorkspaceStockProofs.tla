-------------------------- MODULE WorkspaceStockProofs --------------------------
(***************************************************************************)
(* Proofs about the stock that the server keeps for the workspace: whatever *)
(* the pages and others ask for, the items and the ledger are those of the *)
(* documents, no item holds less than is promised or held back of it, what *)
(* is moved arrives, and an adjustment to a final balance leaves that.     *)
(***************************************************************************)
EXTENDS WorkspaceProofs

-----------------------------------------------------------------------------
(* The rows of the ledger *)

\* What some rows come to.
Value(rows) == Net([m \in rows |-> m.change])
Rows(rows) == IsFiniteSet(rows) /\ \A m \in rows : m.change \in Int

\* Rows that are taken apart come to what their parts come to.
LEMMA ValueUnion ==
  ASSUME NEW S, NEW T, Rows(S), Rows(T), S \cap T = {}
  PROVE  /\ Rows(S \cup T) /\ Value(S) \in Int /\ Value(T) \in Int
         /\ Value(S \cup T) = Value(S) + Value(T)
<1> DEFINE f == [m \in S \cup T |-> m.change]
           fs == [m \in S |-> m.change]
           ft == [m \in T |-> m.change]
<1>1. Splits(f, fs, ft)
  BY DEF Rows, Splits
<1>2. IsFiniteSet(S \cup T)
  BY FS_Union DEF Rows
<1> HIDE DEF f, fs, ft
<1>3. Net(fs) \in Int /\ Net(ft) \in Int /\ Net(f) = Net(fs) + Net(ft)
  BY <1>1, NetUnion
<1> QED
  BY <1>2, <1>3 DEF Rows, Value, f, fs, ft

\* Some of the rows, and the rest.
LEMMA ValueParts ==
  ASSUME NEW S, Rows(S), NEW T
  PROVE  /\ Rows(S) /\ Rows(S \cap T) /\ Rows(S \ T)
         /\ Value(S) \in Int /\ Value(S \cap T) \in Int /\ Value(S \ T) \in Int
         /\ Value(S) = Value(S \cap T) + Value(S \ T)
<1>1. Rows(S \cap T) /\ Rows(S \ T)
  BY FS_Subset DEF Rows
<1>2. (S \cap T) \cap (S \ T) = {} /\ S = (S \cap T) \cup (S \ T)
  OBVIOUS
<1>3. /\ Value(S \cap T) \in Int /\ Value(S \ T) \in Int
      /\ Value((S \cap T) \cup (S \ T)) = Value(S \cap T) + Value(S \ T)
  BY <1>1, <1>2, ValueUnion
<1>4. Value(S) = Value(S \cap T) + Value(S \ T)
  BY <1>2, <1>3
<1> QED
  BY <1>1, <1>3, <1>4

\* No rows come to nothing.
LEMMA ValueEmpty == Value({}) = 0
<1> DEFINE f == [m \in {} |-> m.change]
<1>1. DOMAIN f = {} /\ \A x \in {} : f[x] = 0
  OBVIOUS
<1> HIDE DEF f
<1>2. Net(f) = 0
  BY <1>1, NetZero
<1> QED
  BY <1>2 DEF Value, f

\* One row comes to its change.
LEMMA ValueSingle ==
  ASSUME NEW m, m.change \in Int
  PROVE  Rows({m}) /\ Value({m}) = m.change
<1> DEFINE f == [x \in {m} |-> x.change]
<1>1. f \in [{m} -> Int] /\ f[m] = m.change
  OBVIOUS
<1>2. IsFiniteSet({m})
  BY FS_Singleton
<1> HIDE DEF f
<1>3. Net(f) = m.change
  BY <1>1, NetSingleton
<1> QED
  BY <1>2, <1>3 DEF Rows, Value, f

\* Rows that bring come to no less than nothing, rows that take to no more.
LEMMA ValueOfGains ==
  ASSUME NEW S, Rows(S), \A m \in S : m.change >= 0
  PROVE  Value(S) \in Int /\ Value(S) >= 0
<1> DEFINE f == [m \in S |-> m.change]
<1>1. f \in [S -> Int] /\ \A m \in S : f[m] >= 0
  BY DEF Rows
<1> HIDE DEF f
<1>2. Net(f) \in Int /\ Net(f) >= 0
  BY <1>1, NetType, NetNonneg DEF Rows
<1> QED
  BY <1>2 DEF Value, f

\* What is held of rows is the opposite of what they come to.
LEMMA ValueOpposite ==
  ASSUME NEW S, Rows(S)
  PROVE  Value(S) \in Int /\ Total(LAMBDA m : -m.change, S) = -Value(S)
<1> DEFINE f == [m \in S |-> m.change]
           g == [m \in S |-> -f[m]]
<1>1. f \in [S -> Int] /\ IsFiniteSet(S)
  BY DEF Rows
<1>2. Total(LAMBDA m : -m.change, S) = Net([m \in S |-> -m.change])
  BY DEF Total
<1>3. [m \in S |-> -m.change] = g
  OBVIOUS
<1>4. g = [m \in S |-> -f[m]]
  OBVIOUS
<1> HIDE DEF f, g
<1>5. Net(f) \in Int /\ Net(g) = -Net(f)
  BY <1>1, <1>4, NetType, NetOpposite
<1> QED
  BY <1>2, <1>3, <1>5 DEF Value, f

\* Rows that take come to no more than nothing.
LEMMA ValueOfLosses ==
  ASSUME NEW S, Rows(S), \A m \in S : m.change <= 0
  PROVE  Value(S) \in Int /\ Value(S) <= 0
<1> DEFINE g == [m \in S |-> -m.change]
<1>1. g \in [S -> Int] /\ \A m \in S : g[m] >= 0
  BY DEF Rows
<1>2. Value(S) \in Int /\ Total(LAMBDA m : -m.change, S) = -Value(S)
  BY ValueOpposite
<1>3. Total(LAMBDA m : -m.change, S) = Net(g)
  BY DEF Total
<1> HIDE DEF g
<1>4. Net(g) \in Int /\ Net(g) >= 0
  BY <1>1, NetType, NetNonneg DEF Rows
<1>5. Net(g) = -Value(S)
  BY <1>2, <1>3
<1>6. Value(S) \in Int
  BY <1>2
<1> HIDE DEF Value
<1> QED
  BY <1>4, <1>5, <1>6

\* What left one place and came to another comes to nothing.
LEMMA ValueMirror ==
  ASSUME NEW S, NEW T, NEW g \in Bijection(S, T), Rows(S), \A m \in T : m.change \in Int,
         \A m \in S : g[m].change = -m.change
  PROVE  Rows(T) /\ Value(S) \in Int /\ Value(T) = -Value(S)
<1> DEFINE f == [m \in S |-> m.change]
           h == [m \in T |-> m.change]
<1>1. g \in [S -> T]
  BY DEF Bijection, Injection
<1>2. f \in [S -> Int] /\ h \in [T -> Int] /\ \A m \in S : h[g[m]] = -f[m]
  BY <1>1 DEF Rows
<1>3. IsFiniteSet(S)
  BY DEF Rows
<1>4. IsFiniteSet(T)
  BY <1>3, FS_Bijection DEF ExistsBijection
<1> HIDE DEF f, h
<1>5. Net(f) \in Int /\ Net(h) = -Net(f)
  BY <1>2, <1>3, NetMirror, NetType
<1> QED
  BY <1>4, <1>5 DEF Rows, Value, f, h

\* Totals are what their one element is.
LEMMA OneAvailable ==
  ASSUME NEW items, NEW b,
         items[b].quantity - items[b].allocated - items[b].damaged - items[b].hold \in Int
  PROVE  AvailableOn(items, {b}) = items[b].quantity - items[b].allocated - items[b].damaged - items[b].hold
<1> DEFINE f == [x \in {b} |-> items[x].quantity - items[x].allocated - items[x].damaged - items[x].hold]
<1>1. f \in [{b} -> Int] /\ f[b] = items[b].quantity - items[b].allocated - items[b].damaged - items[b].hold
  OBVIOUS
<1>2. AvailableOn(items, {b}) = Net(f)
  BY DEF AvailableOn, Total
<1> HIDE DEF f
<1> QED
  BY <1>1, <1>2, NetSingleton

-----------------------------------------------------------------------------
(* A set in some order *)

\* Any order of a set names each of its elements once.
LEMMA SomeOrder ==
  ASSUME NEW S, IsFiniteSet(S)
  PROVE  LET order == SetToSeq(S)
         IN /\ order \in [1 .. Len(order) -> S] /\ Len(order) \in Nat /\ IsList(order)
            /\ \A i, j \in 1 .. Len(order) : order[i] = order[j] => i = j
            /\ \A x \in S : \E i \in 1 .. Len(order) : order[i] = x
<1> DEFINE n == Cardinality(S)
           order == SetToSeq(S)
<1>1. n \in Nat /\ ExistsBijection(1 .. n, S)
  BY FS_CardinalityType
<1>2. PICK f : f \in Bijection(1 .. n, S)
  BY <1>1 DEF ExistsBijection
<1>3. f \in [1 .. n -> S] /\ IsInjective(f)
  BY <1>2 DEF Bijection, Injection
<1>4. order = CHOOSE g \in [1 .. n -> S] : IsInjective(g)
  BY DEF SetToSeq
<1>5. order \in [1 .. n -> S] /\ IsInjective(order)
  <2> HIDE DEF order, n
  <2> QED
    BY <1>3, <1>4
<1> HIDE DEF order
<1>6. order \in Injection(1 .. n, S)
  BY <1>5 DEF Injection
<1>7. Cardinality(1 .. n) = n
  BY <1>1, FS_Interval
<1>8. order \in Surjection(1 .. n, S)
  BY <1>6, <1>7, FS_Injection
<1>9. Len(order) = n /\ IsList(order)
  <2>1. order \in Seq(S)
    BY <1>1, <1>5
  <2>2. Len(order) = n
    BY <1>1, <1>5
  <2> QED
    BY <2>1, <2>2, ListIntro
<1> HIDE DEF n
<1>10. \A i, j \in 1 .. n : order[i] = order[j] => i = j
  BY <1>5 DEF IsInjective
<1>11. \A x \in S : \E i \in 1 .. n : order[i] = x
  BY <1>8 DEF Surjection
<1> QED
  BY <1>1, <1>5, <1>9, <1>10, <1>11 DEF order

\* What a document moves: its rows are whole, are told by its id, and lie in buckets.
LEMMA ReceiptRows ==
  ASSUME NEW d, IsDocument(d), d.kind = "IN"
  PROVE  /\ Rows(LineMovements(d))
         /\ \A m \in LineMovements(d) :
              m.document = d.id /\ m.bucket \in DOMAIN Buckets /\ m.type = "IN" /\ m.change >= 0
<1> DEFINE f == [j \in Counted(d.lines) |-> ReceiptRow(d, j)]
<1>1. LineMovements(d) = {f[j] : j \in Counted(d.lines)}
  BY DEF LineMovements
<1>2. Len(d.lines) \in Nat /\ DOMAIN d.lines = 1 .. Len(d.lines)
  BY ListElim DEF IsDocument, Decoded, IsList, ToSet
<1>3. IsFiniteSet(Counted(d.lines))
  <2>1. IsFiniteSet(1 .. Len(d.lines)) /\ Counted(d.lines) \in SUBSET (1 .. Len(d.lines))
    BY <1>2, FS_Interval DEF Counted
  <2> QED
    BY <2>1, FS_Subset
<1>4. ASSUME NEW j \in Counted(d.lines)
      PROVE  /\ f[j].change \in Int /\ f[j].change >= 0 /\ f[j].type = "IN" /\ f[j].document = d.id
             /\ f[j].bucket \in DOMAIN Buckets
  <2>1. d.lines[j].received \in Int /\ d.lines[j].received > 0
    BY DEF Counted, IsDocument, IsReceipt
  <2>2. BucketsOf(d.container, d.location, d.lines[j].sku) # {}
    BY <2>1 DEF Counted, IsDocument, IsReceipt
  <2>3. BucketOf(d.container, d.location, d.lines[j].sku) \in DOMAIN Buckets
    BY <2>2 DEF BucketOf, BucketsOf
  <2> QED
    BY <2>1, <2>3 DEF ReceiptRow
<1>5. DOMAIN f = Counted(d.lines)
  OBVIOUS
<1> HIDE DEF f
<1>6. IsFiniteSet(LineMovements(d))
  BY <1>1, <1>3, <1>5, ImageFinite
<1> QED
  BY <1>1, <1>4, <1>6 DEF Rows

\* Of every allocation of a shipment there is one row, which takes what is allocated.
LEMMA ShipmentRows ==
  ASSUME NEW d, IsDocument(d), d.kind = "OUT"
  PROVE  /\ Rows(LineMovements(d))
         /\ \A m \in LineMovements(d) :
              m.document = d.id /\ m.bucket \in DOMAIN Buckets /\ m.type = "OUT" /\ m.change <= 0
<1> DEFINE Places(j) == DOMAIN d.lines[j].allocations
           Line(j) == {ShipmentRow(d, j, k) : k \in Places(j)}
           f == [j \in DOMAIN d.lines |-> Line(j)]
<1>1. LineMovements(d) = UNION {f[j] : j \in DOMAIN d.lines}
  <2>1. LineMovements(d) = UNION {Line(j) : j \in DOMAIN d.lines}
    BY DEF LineMovements
  <2>2. \A j \in DOMAIN d.lines : f[j] = Line(j)
    OBVIOUS
  <2> HIDE DEF f, Line
  <2> QED
    BY <2>1, <2>2
<1>2. DOMAIN d.lines = 1 .. Len(d.lines) /\ IsFiniteSet(DOMAIN d.lines)
  <2>1. Len(d.lines) \in Nat /\ DOMAIN d.lines = 1 .. Len(d.lines)
    BY ListElim DEF IsDocument, Decoded, IsList, ToSet
  <2> QED
    BY <2>1, FS_Interval
<1>3. ASSUME NEW j \in DOMAIN d.lines PROVE IsFiniteSet(f[j])
  <2> DEFINE g == [k \in Places(j) |-> ShipmentRow(d, j, k)]
  <2>1. Decoded(d.lines[j].allocations)
    BY DEF IsDocument, IsShipment
  <2>2. IsFiniteSet(Places(j))
    <3>1. Len(d.lines[j].allocations) \in Nat /\ Places(j) = 1 .. Len(d.lines[j].allocations)
      BY <2>1, ListElim DEF Decoded, IsList, ToSet
    <3> QED
      BY <3>1, FS_Interval
  <2>3. f[j] = {g[k] : k \in Places(j)} /\ DOMAIN g = Places(j)
    OBVIOUS
  <2> HIDE DEF f, g, Places
  <2> QED
    BY <2>2, <2>3, ImageFinite
<1>4. ASSUME NEW j \in DOMAIN d.lines, NEW m \in f[j]
      PROVE  /\ m.change \in Int /\ m.change <= 0 /\ m.type = "OUT" /\ m.document = d.id
             /\ m.bucket \in DOMAIN Buckets
  <2>1. PICK k \in Places(j) : m = ShipmentRow(d, j, k)
    BY <1>4
  <2>2. /\ d.lines[j].allocations[k].allocated \in Nat
        /\ d.lines[j].allocations[k].bucket \in DOMAIN Buckets
    BY DEF IsDocument, IsShipment
  <2>3. \A n \in Nat : -n \in Int /\ -n <= 0
    OBVIOUS
  <2>4. /\ m.change = -d.lines[j].allocations[k].allocated /\ m.type = "OUT" /\ m.document = d.id
        /\ m.bucket = d.lines[j].allocations[k].bucket
    BY <2>1 DEF ShipmentRow
  <2> QED
    BY <2>2, <2>3, <2>4
<1>5. DOMAIN f = DOMAIN d.lines
  OBVIOUS
<1> HIDE DEF f
<1>6. IsFiniteSet({f[j] : j \in DOMAIN d.lines})
  BY <1>2, <1>5, ImageFinite
<1>7. IsFiniteSet(LineMovements(d))
  <2> DEFINE lines == {f[j] : j \in DOMAIN d.lines}
  <2>1. \A T \in lines : IsFiniteSet(T)
    BY <1>3
  <2> HIDE DEF lines
  <2> QED
    BY <1>1, <1>6, <2>1, FS_UNION DEF lines
<1> QED
  BY <1>1, <1>4, <1>7 DEF Rows

\* Of every line of a posting there is one row.
LEMMA PostedRows ==
  ASSUME NEW d, IsDocument(d), d.kind \notin {"IN", "OUT"}
  PROVE  /\ Rows(LineMovements(d)) /\ LineMovements(d) = {PostedRow(d, j) : j \in DOMAIN d.lines}
         /\ \A m \in LineMovements(d) : m.document = d.id /\ m.bucket \in DOMAIN Buckets
<1> DEFINE f == [j \in DOMAIN d.lines |-> PostedRow(d, j)]
<1>1. LineMovements(d) = {f[j] : j \in DOMAIN d.lines}
  BY DEF LineMovements
<1>2. IsFiniteSet(DOMAIN d.lines)
  <2>1. Len(d.lines) \in Nat /\ DOMAIN d.lines = 1 .. Len(d.lines)
    BY ListElim DEF IsDocument, Decoded, IsList, ToSet
  <2> QED
    BY <2>1, FS_Interval
<1>3. IsPosting(d)
  BY DEF IsDocument
<1>4. ASSUME NEW j \in DOMAIN d.lines
      PROVE  f[j].change \in Int /\ f[j].document = d.id /\ f[j].bucket \in DOMAIN Buckets
  BY <1>3 DEF PostedRow, IsPosting
<1>5. DOMAIN f = DOMAIN d.lines /\ {f[j] : j \in DOMAIN d.lines} = {PostedRow(d, j) : j \in DOMAIN d.lines}
  OBVIOUS
<1> HIDE DEF f
<1>6. IsFiniteSet(LineMovements(d))
  BY <1>1, <1>2, <1>5, ImageFinite
<1> QED
  BY <1>1, <1>4, <1>5, <1>6 DEF Rows

\* What a document has done to the stock, or holds of it.
Entered(d) == IF d.status = "CONFIRMED" \/ Holds(d) THEN LineMovements(d) ELSE {}

\* Whatever the document, its rows are whole, name it and are of buckets that are known;
\* those of a shipment take, and are no transfers.
LEMMA EnteredRows ==
  ASSUME NEW d, IsDocument(d)
  PROVE  /\ Rows(Entered(d)) /\ \A m \in Entered(d) : m.document = d.id /\ m.bucket \in DOMAIN Buckets
         /\ d.kind \in {"IN", "OUT"} => \A m \in Entered(d) : ~IsTransfer(m)
         /\ d.kind = "IN" => \A m \in Entered(d) : m.change >= 0
         /\ d.kind = "OUT" => \A m \in Entered(d) : m.change <= 0
<1>1. Rows({})
  BY FS_EmptySet DEF Rows
<1>2. Entered(d) \in {LineMovements(d), {}}
  BY DEF Entered
<1>3. \A m : m.type \in {"IN", "OUT"} => ~IsTransfer(m)
  BY DEF IsTransfer
<1>4. CASE d.kind = "IN"
  <2>1. /\ Rows(LineMovements(d))
        /\ \A m \in LineMovements(d) :
             m.document = d.id /\ m.bucket \in DOMAIN Buckets /\ m.type = "IN" /\ m.change >= 0
    BY <1>4, ReceiptRows
  <2> QED
    BY <1>1, <1>2, <1>3, <1>4, <2>1
<1>5. CASE d.kind = "OUT"
  <2>1. /\ Rows(LineMovements(d))
        /\ \A m \in LineMovements(d) :
             m.document = d.id /\ m.bucket \in DOMAIN Buckets /\ m.type = "OUT" /\ m.change <= 0
    BY <1>5, ShipmentRows
  <2> QED
    BY <1>1, <1>2, <1>3, <1>5, <2>1
<1>6. CASE d.kind \notin {"IN", "OUT"}
  <2>1. /\ Rows(LineMovements(d))
        /\ \A m \in LineMovements(d) : m.document = d.id /\ m.bucket \in DOMAIN Buckets
    BY <1>6, PostedRows
  <2> QED
    BY <1>1, <1>2, <1>6, <2>1
<1> QED
  BY <1>4, <1>5, <1>6

-----------------------------------------------------------------------------
(* The ledger, and what is held besides *)

\* Documents that are numbered, and say what they must of their lines.
SoundAll(documents) ==
  /\ \E n \in Nat : Ids(documents) \subseteq 1 .. n
  /\ \A i \in Ids(documents) : documents[i].id = i /\ IsDocument(documents[i])
Ledger(documents) == Movements(documents) \cup Reserved(documents)
Own(documents, i) == IF i \in Ids(documents) THEN Entered(documents[i]) ELSE {}

\* The rows of a ledger, and of what is held besides, are those of the documents.
LEMMA LedgerRows ==
  ASSUME NEW D, SoundAll(D)
  PROVE  /\ Rows(Ledger(D)) /\ Rows(Movements(D)) /\ Rows(Reserved(D)) /\ Movements(D) \cap Reserved(D) = {}
         /\ \A m : m \in Ledger(D) <=> \E i \in Ids(D) : m \in Entered(D[i])
         /\ \A m \in Ledger(D) : m.bucket \in DOMAIN Buckets
         /\ \A m \in Reserved(D) : m.change <= 0 /\ ~IsTransfer(m)
<1> DEFINE f == [i \in Ids(D) |-> Entered(D[i])]
           all == {f[i] : i \in Ids(D)}
<1>1. \A i \in Ids(D) : D[i].id = i /\ IsDocument(D[i])
  BY DEF SoundAll
<1>2. \A i \in Ids(D) : /\ Rows(Entered(D[i])) /\ \A m \in Entered(D[i]) : m.document = i /\ m.bucket \in DOMAIN Buckets
                        /\ D[i].kind = "OUT" => \A m \in Entered(D[i]) : m.change <= 0 /\ ~IsTransfer(m)
  BY <1>1, EnteredRows
<1>3. \A m : m \in Movements(D) <=> \E i \in Ids(D) : D[i].status = "CONFIRMED" /\ m \in LineMovements(D[i])
  BY DEF Movements, MovedBy
<1>4. \A m : m \in Reserved(D) <=> \E i \in Ids(D) : Holds(D[i]) /\ m \in LineMovements(D[i])
  BY DEF Reserved, MovedBy
<1>5. \A m : m \in Ledger(D) <=> \E i \in Ids(D) : m \in Entered(D[i])
  BY <1>3, <1>4 DEF Ledger, Entered
<1>6. \A i \in Ids(D) : Holds(D[i]) => D[i].status # "CONFIRMED" /\ D[i].kind = "OUT"
  BY DEF Holds, RestoresReservations
<1>7. Movements(D) \cap Reserved(D) = {}
  <2> SUFFICES ASSUME NEW m \in Movements(D), m \in Reserved(D) PROVE FALSE
    OBVIOUS
  <2>1. PICK i \in Ids(D) : D[i].status = "CONFIRMED" /\ m \in LineMovements(D[i])
    BY <1>3
  <2>2. PICK j \in Ids(D) : Holds(D[j]) /\ m \in LineMovements(D[j])
    BY <1>4
  <2>3. m \in Entered(D[i]) /\ m \in Entered(D[j])
    BY <2>1, <2>2 DEF Entered
  <2> QED
    BY <1>2, <1>6, <2>1, <2>2, <2>3
<1>8. IsFiniteSet(Ids(D))
  <2>1. PICK n \in Nat : Ids(D) \subseteq 1 .. n
    BY DEF SoundAll
  <2>2. IsFiniteSet(1 .. n) /\ Ids(D) \in SUBSET (1 .. n)
    BY <2>1, FS_Interval
  <2> QED
    BY <2>2, FS_Subset
<1>9. IsFiniteSet(all)
  <2>1. DOMAIN f = Ids(D)
    OBVIOUS
  <2> HIDE DEF f
  <2> QED
    BY <1>8, <2>1, ImageFinite
<1>10. Ledger(D) = UNION all /\ \A T \in all : IsFiniteSet(T)
  BY <1>2, <1>5 DEF Rows
<1> HIDE DEF all
<1>11. Rows(Ledger(D))
  BY <1>2, <1>5, <1>9, <1>10, FS_UNION DEF Rows
<1>12. Movements(D) \in SUBSET Ledger(D) /\ Reserved(D) \in SUBSET Ledger(D)
  BY DEF Ledger
<1>13. Rows(Movements(D)) /\ Rows(Reserved(D))
  BY <1>11, <1>12, FS_Subset DEF Rows
<1>14. ASSUME NEW m \in Reserved(D) PROVE m.change <= 0 /\ ~IsTransfer(m)
  <2>1. PICK j \in Ids(D) : Holds(D[j]) /\ m \in LineMovements(D[j])
    BY <1>4
  <2> QED
    BY <1>2, <1>6, <2>1 DEF Entered
<1> QED
  BY <1>2, <1>5, <1>7, <1>11, <1>13, <1>14

\* Documents that differ in one place at most.
AgreeBut(D, E, i) == \A j : j # i => (j \in Ids(D) <=> j \in Ids(E)) /\ (j \in Ids(D) => E[j] = D[j])

\* Changing one document exchanges its rows for its new ones.
LEMMA Exchange ==
  ASSUME NEW D, NEW E, SoundAll(D), SoundAll(E), NEW i, AgreeBut(D, E, i), NEW P
  PROVE  /\ Value(Ledger(D) \cap P) \in Int /\ Value(Own(D, i) \cap P) \in Int /\ Value(Own(E, i) \cap P) \in Int
         /\ Rows(Own(D, i)) /\ Rows(Own(E, i))
         /\ Value(Ledger(E) \cap P) = Value(Ledger(D) \cap P) - Value(Own(D, i) \cap P) + Value(Own(E, i) \cap P)
<1> DEFINE R == {m \in Ledger(D) : m.document # i}
<1>1. Rows(Ledger(D)) /\ Rows(Ledger(E))
  BY LedgerRows
<1>2. /\ \A m : m \in Ledger(D) <=> \E j \in Ids(D) : m \in Entered(D[j])
      /\ \A m : m \in Ledger(E) <=> \E j \in Ids(E) : m \in Entered(E[j])
  BY LedgerRows
<1>3. /\ \A j \in Ids(D) : \A m \in Entered(D[j]) : m.document = j
      /\ \A j \in Ids(E) : \A m \in Entered(E[j]) : m.document = j
  BY EnteredRows DEF SoundAll
<1>4. Own(D, i) = {m \in Ledger(D) : m.document = i} /\ Own(E, i) = {m \in Ledger(E) : m.document = i}
  BY <1>2, <1>3 DEF Own
<1>5. R = {m \in Ledger(E) : m.document # i}
  BY <1>2, <1>3 DEF AgreeBut
<1>6. Rows(R) /\ Rows(Own(D, i)) /\ Rows(Own(E, i))
  BY <1>1, <1>4, FS_Subset DEF Rows
<1>7. Rows(R \cap P) /\ Rows(Own(D, i) \cap P) /\ Rows(Own(E, i) \cap P)
  BY <1>6, ValueParts
<1>8. /\ (R \cap P) \cap (Own(D, i) \cap P) = {} /\ Ledger(D) \cap P = (R \cap P) \cup (Own(D, i) \cap P)
      /\ (R \cap P) \cap (Own(E, i) \cap P) = {} /\ Ledger(E) \cap P = (R \cap P) \cup (Own(E, i) \cap P)
  BY <1>4, <1>5
<1> DEFINE rest == R \cap P
           old == Own(D, i) \cap P
           new == Own(E, i) \cap P
<1>9. Rows(rest) /\ Rows(old) /\ Rows(new) /\ rest \cap old = {} /\ rest \cap new = {}
  BY <1>7, <1>8
<1> HIDE DEF rest, old, new
<1>10. Value(rest) \in Int /\ Value(old) \in Int /\ Value(rest \cup old) = Value(rest) + Value(old)
  BY <1>9, ValueUnion
<1>11. Value(new) \in Int /\ Value(rest \cup new) = Value(rest) + Value(new)
  BY <1>9, ValueUnion
<1>12. Ledger(D) \cap P = rest \cup old /\ Ledger(E) \cap P = rest \cup new
  BY <1>8 DEF rest, old, new
<1>13. /\ Value(Ledger(D) \cap P) \in Int
       /\ Value(Ledger(E) \cap P) = Value(Ledger(D) \cap P) - Value(old) + Value(new)
  <2>1. Value(Ledger(D) \cap P) = Value(rest \cup old) /\ Value(Ledger(E) \cap P) = Value(rest \cup new)
    BY <1>12
  <2> QED
    BY <1>10, <1>11, <2>1
<1> QED
  BY <1>6, <1>10, <1>11, <1>13 DEF old, new

-----------------------------------------------------------------------------
(* Yards that are kept *)

Kept(y) == LawfulYard(y) /\ IsKept(y)
Transfers(piece, rows) == {m \in rows : Pieces(m.bucket) = piece /\ IsTransfer(m)}

\* The documents of a yard that is kept are sound.
LEMMA KeptDocuments == ASSUME NEW y, Kept(y) PROVE SoundAll(y.documents)
BY DEF Kept, IsKept, LawfulYard, LawfulAll, SoundAll

\* What the figures of the yard are the value of.
LEMMA Figures ==
  ASSUME NEW D, SoundAll(D), NEW b
  PROVE  /\ Unpromised(D, b) = Value(At(b, Ledger(D))) /\ Unpromised(D, b) \in Int
         /\ Rows(At(b, Movements(D))) /\ Value(At(b, Movements(D))) \in Int
         /\ HeldOf(b, D) \in Int /\ HeldOf(b, D) >= 0
         /\ Unpromised(D, b) = Value(At(b, Movements(D))) - HeldOf(b, D)
<1> DEFINE all == At(b, Ledger(D))
           moved == At(b, Movements(D))
           held == At(b, Reserved(D))
<1>1. /\ Rows(Ledger(D)) /\ Rows(Movements(D)) /\ Rows(Reserved(D)) /\ Movements(D) \cap Reserved(D) = {}
      /\ \A m \in Reserved(D) : m.change <= 0
  BY LedgerRows
<1>2. Rows(moved) /\ Rows(held) /\ moved \cap held = {} /\ all = moved \cup held /\ \A m \in held : m.change <= 0
  <2>1. moved \in SUBSET Movements(D) /\ held \in SUBSET Reserved(D)
    BY DEF At
  <2>2. Rows(moved) /\ Rows(held)
    BY <1>1, <2>1, FS_Subset DEF Rows
  <2>3. all = moved \cup held
    BY DEF At, Ledger
  <2> QED
    BY <1>1, <2>1, <2>2, <2>3
<1>3. Unpromised(D, b) = Value(all) /\ HeldOf(b, D) = Total(LAMBDA m : -m.change, held)
  BY DEF Unpromised, Value, Total, Ledger, HeldOf
<1> HIDE DEF all, moved, held
<1>4. Value(moved) \in Int /\ Value(held) \in Int /\ Value(moved \cup held) = Value(moved) + Value(held)
  BY <1>2, ValueUnion
<1>5. Value(held) <= 0
  BY <1>2, ValueOfLosses
<1>6. HeldOf(b, D) = -Value(held)
  BY <1>2, <1>3, ValueOpposite
<1>7. Value(all) = Value(moved) + Value(held)
  BY <1>2, <1>4
<1>8. Unpromised(D, b) = Value(moved) - HeldOf(b, D) /\ HeldOf(b, D) \in Int /\ HeldOf(b, D) >= 0
  <2>1. Unpromised(D, b) = Value(all)
    BY <1>3
  <2> QED
    BY <1>4, <1>5, <1>6, <1>7, <2>1
<1>9. Unpromised(D, b) \in Int
  BY <1>4, <1>8
<1> QED
  BY <1>2, <1>3, <1>4, <1>8, <1>9 DEF all, moved

\* Only what has been moved is a transfer.
LEMMA ShiftedRows ==
  ASSUME NEW D, SoundAll(D), NEW piece
  PROVE  /\ Shifted(Movements(D), piece) = Value(Transfers(piece, Ledger(D)))
         /\ Shifted(Movements(D), piece) \in Int
<1>1. Rows(Ledger(D)) /\ \A m \in Reserved(D) : ~IsTransfer(m)
  BY LedgerRows
<1>2. {m \in Movements(D) : Pieces(m.bucket) = piece /\ IsTransfer(m)} = Transfers(piece, Ledger(D))
  BY <1>1 DEF Transfers, Ledger
<1>3. Transfers(piece, Ledger(D)) \in SUBSET Ledger(D)
  BY DEF Transfers
<1>4. Rows(Transfers(piece, Ledger(D)))
  BY <1>1, <1>3, FS_Subset DEF Rows
<1>5. Value(Transfers(piece, Ledger(D))) \in Int
  BY <1>4, ValueParts
<1>6. Shifted(Movements(D), piece) = Value({m \in Movements(D) : Pieces(m.bucket) = piece /\ IsTransfer(m)})
  BY DEF Shifted, Value, Total
<1> QED
  BY <1>2, <1>5, <1>6

\* An item says what the ledger and the drafts in picking come to, and no more
\* is promised or held back of it than stands there.
LEMMA KeptItems ==
  ASSUME NEW y, Kept(y), NEW b \in DOMAIN y.items
  PROVE  /\ b \in DOMAIN Buckets
         /\ y.items[b].quantity = Value(At(b, Movements(y.documents))) /\ y.items[b].quantity \in Int
         /\ y.items[b].allocated \in Int /\ y.items[b].allocated >= 0
         /\ y.items[b].damaged = Unfit[b].damaged /\ y.items[b].hold = Unfit[b].hold
         /\ Unfit[b].damaged \in Nat /\ Unfit[b].hold \in Nat
         /\ y.items[b].quantity - y.items[b].allocated = Unpromised(y.documents, b)
         /\ Unpromised(y.documents, b) \in Int
         /\ Unpromised(y.documents, b) >= Unfit[b].damaged + Unfit[b].hold
         /\ AvailableOn(y.items, {b}) = Unpromised(y.documents, b) - Unfit[b].damaged - Unfit[b].hold
<1> DEFINE D == y.documents
           head == [quantity |-> Total(LAMBDA m : m.change, At(b, Movements(D))),
                    pallets |-> Total(LAMBDA m : m.pallets, At(b, Movements(D))),
                    allocated |-> HeldOf(b, D), damaged |-> Unfit[b].damaged, hold |-> Unfit[b].hold,
                    arrival |-> LET dates == {m.date : m \in {m \in At(b, Movements(D)) : m.type = "IN"}}
                                IN IF dates = {} THEN 0 ELSE CHOOSE d \in dates : \A e \in dates : d <= e]
<1>1. SoundAll(D)
  BY KeptDocuments
<1>2. y.items = Items(D)
  BY DEF Kept, IsKept
<1>3. b \in {m.bucket : m \in Movements(D)} /\ y.items[b] = Over(head, Buckets[b])
  BY <1>2 DEF Items, ItemsFrom
<1>4. /\ head.quantity = Value(At(b, Movements(D))) /\ head.allocated = HeldOf(b, D)
      /\ head.damaged = Unfit[b].damaged /\ head.hold = Unfit[b].hold
      /\ {"quantity", "allocated", "damaged", "hold"} \subseteq DOMAIN head
  BY DEF Value, Total
<1> HIDE DEF head
<1>5. \A f \in DOMAIN head : y.items[b][f] = head[f]
  BY <1>3 DEF Over
<1>6. b \in DOMAIN Buckets
  <2>1. \A m \in Ledger(D) : m.bucket \in DOMAIN Buckets
    BY <1>1, LedgerRows
  <2> QED
    BY <1>3, <2>1 DEF Ledger
<1>7. /\ y.items[b].quantity = Value(At(b, Movements(D))) /\ y.items[b].allocated = HeldOf(b, D)
      /\ y.items[b].damaged = Unfit[b].damaged /\ y.items[b].hold = Unfit[b].hold
  BY <1>4, <1>5
<1>8. Unfit[b].damaged \in Nat /\ Unfit[b].hold \in Nat /\ Unpromised(D, b) >= Unfit[b].damaged + Unfit[b].hold
  BY <1>6, UnfitAssumption DEF Kept, IsKept
<1>9. /\ Unpromised(D, b) \in Int /\ Value(At(b, Movements(D))) \in Int /\ HeldOf(b, D) \in Int /\ HeldOf(b, D) >= 0
      /\ Unpromised(D, b) = Value(At(b, Movements(D))) - HeldOf(b, D)
  BY <1>1, Figures
<1>10. y.items[b].quantity - y.items[b].allocated - y.items[b].damaged - y.items[b].hold \in Int
  BY <1>7, <1>8, <1>9
<1>11. AvailableOn(y.items, {b}) = y.items[b].quantity - y.items[b].allocated - y.items[b].damaged - y.items[b].hold
  BY <1>10, OneAvailable
<1>12. AvailableOn(y.items, {b}) = Unpromised(D, b) - Unfit[b].damaged - Unfit[b].hold
  BY <1>7, <1>8, <1>9, <1>11
<1> HIDE DEF D
<1> QED
  BY <1>6, <1>7, <1>8, <1>9, <1>12 DEF D

\* What is exchanged in a bucket, and of what was transferred.
LEMMA ExchangeHere ==
  ASSUME NEW D, NEW E, SoundAll(D), SoundAll(E), NEW i, AgreeBut(D, E, i), NEW b
  PROVE  /\ Value(At(b, Own(D, i))) \in Int /\ Value(At(b, Own(E, i))) \in Int
         /\ Unpromised(E, b) = Unpromised(D, b) - Value(At(b, Own(D, i))) + Value(At(b, Own(E, i)))
<1> DEFINE P == At(b, Ledger(D) \cup Ledger(E))
<1>1. Own(D, i) \subseteq Ledger(D) /\ Own(E, i) \subseteq Ledger(E)
  BY LedgerRows DEF Own
<1>2. /\ Ledger(E) \cap P = At(b, Ledger(E)) /\ Ledger(D) \cap P = At(b, Ledger(D))
      /\ Own(D, i) \cap P = At(b, Own(D, i)) /\ Own(E, i) \cap P = At(b, Own(E, i))
  BY <1>1 DEF At
<1>3. Unpromised(E, b) = Value(At(b, Ledger(E))) /\ Unpromised(D, b) = Value(At(b, Ledger(D)))
  BY Figures
<1> HIDE DEF P
<1>4. Value(Ledger(E) \cap P) = Value(Ledger(D) \cap P) - Value(Own(D, i) \cap P) + Value(Own(E, i) \cap P)
  BY Exchange
<1>5. Value(Own(D, i) \cap P) \in Int
  BY Exchange
<1>6. Value(Own(E, i) \cap P) \in Int
  BY Exchange
<1> QED
  BY <1>2, <1>3, <1>4, <1>5, <1>6

\* What is exchanged of what was transferred of a container's SKU.
LEMMA ExchangeMoved ==
  ASSUME NEW D, NEW E, SoundAll(D), SoundAll(E), NEW i, AgreeBut(D, E, i), NEW piece
  PROVE  LET old == Value(Transfers(piece, Own(D, i)))
             new == Value(Transfers(piece, Own(E, i)))
         IN /\ old \in Int /\ new \in Int
            /\ Shifted(Movements(E), piece) = Shifted(Movements(D), piece) - old + new
<1> DEFINE P == Transfers(piece, Ledger(D) \cup Ledger(E))
<1>1. Own(D, i) \subseteq Ledger(D) /\ Own(E, i) \subseteq Ledger(E)
  BY LedgerRows DEF Own
<1>2. /\ Ledger(E) \cap P = Transfers(piece, Ledger(E)) /\ Ledger(D) \cap P = Transfers(piece, Ledger(D))
      /\ Own(D, i) \cap P = Transfers(piece, Own(D, i)) /\ Own(E, i) \cap P = Transfers(piece, Own(E, i))
  BY <1>1 DEF Transfers
<1>3. /\ Shifted(Movements(E), piece) = Value(Transfers(piece, Ledger(E)))
      /\ Shifted(Movements(D), piece) = Value(Transfers(piece, Ledger(D)))
  BY ShiftedRows
<1> HIDE DEF P
<1>4. Value(Ledger(E) \cap P) = Value(Ledger(D) \cap P) - Value(Own(D, i) \cap P) + Value(Own(E, i) \cap P)
  BY Exchange
<1>5. Value(Own(D, i) \cap P) \in Int
  BY Exchange
<1>6. Value(Own(E, i) \cap P) \in Int
  BY Exchange
<1> QED
  BY <1>2, <1>3, <1>4, <1>5, <1>6

\* A yard whose documents change in one place is kept when every bucket keeps
\* what is held back of it, and the transfers come to the same.
LEMMA ChangedIsKept ==
  ASSUME NEW y, Kept(y), NEW E, SoundAll(E), NEW i,
         AgreeBut(y.documents, E, i),
         \A b \in DOMAIN Buckets :
           Unpromised(y.documents, b) - Value(At(b, Own(y.documents, i))) + Value(At(b, Own(E, i)))
             >= Unfit[b].damaged + Unfit[b].hold,
         \A b \in DOMAIN Buckets :
           Value(Transfers(Pieces(b), Own(E, i))) = Value(Transfers(Pieces(b), Own(y.documents, i)))
  PROVE  IsKept(WithDocuments(y, E))
<1> DEFINE D == y.documents
<1>1. SoundAll(D) /\ AgreeBut(D, E, i)
  BY KeptDocuments
<1> DEFINE moves == Movements(E)
           items == ItemsFrom(moves, E)
           boxes == BoxesAfter(y, E, moves)
           entered == EnteredAfter(y, E)
           after == WithDocuments(y, E)
<1>2. after = [y EXCEPT !.documents = E, !.movements = moves, !.items = items, !.boxes = boxes, !.entered = entered]
  BY DEF WithDocuments, OfMoves
<1>3. {"documents", "items", "movements"} \subseteq DOMAIN y
  BY DEF Kept, IsKept
<1>4. items = Items(E)
  BY DEF Items
<1> HIDE DEF moves, items, boxes, entered, after
<1>5. /\ {"documents", "items", "movements"} \subseteq DOMAIN after
      /\ after.documents = E /\ after.movements = Movements(E) /\ after.items = Items(E)
  BY <1>2, <1>3, <1>4 DEF moves
<1>6. \A j \in Ids(E) : E[j].id = j /\ IsDocument(E[j])
  BY DEF SoundAll
<1>7. ASSUME NEW b \in DOMAIN Buckets PROVE Unpromised(E, b) >= Unfit[b].damaged + Unfit[b].hold
  <2>1. Unpromised(E, b) = Unpromised(D, b) - Value(At(b, Own(D, i))) + Value(At(b, Own(E, i)))
    BY <1>1, ExchangeHere
  <2> QED
    BY <2>1
<1>8. ASSUME NEW b \in DOMAIN Buckets PROVE Shifted(Movements(E), Pieces(b)) = 0
  <2> DEFINE piece == Pieces(b)
             old == Value(Transfers(piece, Own(D, i)))
             new == Value(Transfers(piece, Own(E, i)))
  <2>1. Shifted(Movements(D), piece) = 0 /\ new = old
    BY DEF Kept, IsKept
  <2> HIDE DEF piece
  <2>2. old \in Int /\ Shifted(Movements(E), piece) = Shifted(Movements(D), piece) - old + new
    BY <1>1, ExchangeMoved
  <2> HIDE DEF old, new
  <2>3. Shifted(Movements(E), piece) = 0
    BY <2>1, <2>2
  <2> QED
    BY <2>3 DEF piece
<1>9. IsKept(after)
  BY <1>5, <1>6, <1>7, <1>8 DEF IsKept
<1> QED
  BY <1>9 DEF after

-----------------------------------------------------------------------------
(* What the operations make of documents *)

\* What its rows are made of.
RowFields == {"id", "kind", "date", "container", "location", "lines"}
SameLines(d, e) == \A f \in RowFields : e[f] = d[f]

\* Documents that agree on what makes their rows have the same ones.
LEMMA SameRows ==
  ASSUME NEW d, NEW e, SameLines(d, e)
  PROVE  /\ LineMovements(e) = LineMovements(d) /\ (IsReceipt(e) <=> IsReceipt(d))
         /\ e.id = d.id /\ e.kind = d.kind /\ e.lines = d.lines
<1>1. /\ e.id = d.id /\ e.kind = d.kind /\ e.date = d.date /\ e.container = d.container
      /\ e.location = d.location /\ e.lines = d.lines
  BY DEF SameLines, RowFields
<1>2. \A j : ReceiptRow(e, j) = ReceiptRow(d, j)
  BY <1>1 DEF ReceiptRow
<1>3. \A j, k : ShipmentRow(e, j, k) = ShipmentRow(d, j, k)
  BY <1>1 DEF ShipmentRow
<1>4. \A j : PostedRow(e, j) = PostedRow(d, j)
  BY <1>1 DEF PostedRow
<1>5. LineMovements(e) = LineMovements(d)
  <2>1. {ReceiptRow(e, j) : j \in Counted(e.lines)} = {ReceiptRow(d, j) : j \in Counted(d.lines)}
    BY <1>1, <1>2
  <2>2. {PostedRow(e, j) : j \in DOMAIN e.lines} = {PostedRow(d, j) : j \in DOMAIN d.lines}
    BY <1>1, <1>4
  <2>3. \A j : {ShipmentRow(e, j, k) : k \in DOMAIN e.lines[j].allocations}
                 = {ShipmentRow(d, j, k) : k \in DOMAIN d.lines[j].allocations}
    BY <1>1, <1>3
  <2>4. UNION {{ShipmentRow(e, j, k) : k \in DOMAIN e.lines[j].allocations} : j \in DOMAIN e.lines}
          = UNION {{ShipmentRow(d, j, k) : k \in DOMAIN d.lines[j].allocations} : j \in DOMAIN d.lines}
    BY <1>1, <2>3
  <2> QED
    BY <1>1, <2>1, <2>2, <2>4 DEF LineMovements
<1>6. IsReceipt(e) <=> IsReceipt(d)
  BY <1>1 DEF IsReceipt
<1> QED
  BY <1>1, <1>5, <1>6

\* What is confirmed has moved all that its lines say.
LEMMA ConfirmedRows ==
  ASSUME NEW d, IsDocument(d), Complete(d), d.kind \in {"IN", "OUT"}, NEW tracking
  PROVE  LET after == Confirmed(d, tracking)
         IN  IsDocument(after) /\ SameLines(d, after) /\ Entered(after) = LineMovements(d)
<1> DEFINE after == Confirmed(d, tracking)
<1>1. after = [d EXCEPT !.status = "CONFIRMED", !.tracking = tracking]
  BY DEF Confirmed
<1>2. RowFields \cup {"status"} \subseteq DOMAIN d
  BY DEF Complete, Stated, RowFields
<1> HIDE DEF after
<1>3. SameLines(d, after)
  BY <1>1, <1>2 DEF SameLines, RowFields
<1>4. after.status = "CONFIRMED"
  BY <1>1, <1>2
<1>5. /\ LineMovements(after) = LineMovements(d) /\ (IsReceipt(after) <=> IsReceipt(d))
      /\ after.kind = d.kind /\ after.lines = d.lines
  BY <1>3, SameRows
<1>6. Entered(after) = LineMovements(d)
  BY <1>4, <1>5 DEF Entered
<1>7. d.kind = "OUT" => IsShipment(after)
  BY <1>4, <1>5 DEF IsDocument, IsShipment, IsDraft
<1>8. IsDocument(after)
  BY <1>4, <1>5, <1>7 DEF IsDocument
<1> QED
  BY <1>3, <1>6, <1>8 DEF after

\* A document that only moves on.
LEMMA TrackedRows ==
  ASSUME NEW d, IsDocument(d), Complete(d), d.kind \in {"IN", "OUT"}, IsDraft(d), NEW tracking,
         tracking \notin {"SHIPPED", "BO_RECEIVED"}
  PROVE  LET after == [d EXCEPT !.tracking = tracking]
         IN  /\ IsDocument(after) /\ SameLines(d, after)
             /\ Entered(after) = IF d.kind = "OUT" /\ tracking \in {"PICKING", "PACKED"} THEN LineMovements(d) ELSE {}
<1> DEFINE after == [d EXCEPT !.tracking = tracking]
<1>2. RowFields \cup {"status", "tracking"} \subseteq DOMAIN d
  BY DEF Complete, Stated, RowFields
<1>3. SameLines(d, after)
  BY <1>2 DEF SameLines, RowFields
<1>4. after.status = "DRAFT" /\ after.tracking = tracking
  BY <1>2 DEF IsDraft
<1> HIDE DEF after
<1>5. /\ LineMovements(after) = LineMovements(d) /\ (IsReceipt(after) <=> IsReceipt(d))
      /\ after.kind = d.kind /\ after.lines = d.lines
  BY <1>3, SameRows
<1>6. Entered(after) = IF d.kind = "OUT" /\ tracking \in {"PICKING", "PACKED"} THEN LineMovements(d) ELSE {}
  BY <1>4, <1>5 DEF Entered, Holds, RestoresReservations
<1>7. d.kind = "OUT" => IsShipment(after)
  BY <1>4, <1>5 DEF IsDocument, IsShipment, IsDraft
<1>8. IsDocument(after)
  BY <1>4, <1>5, <1>7 DEF IsDocument
<1> QED
  BY <1>3, <1>6, <1>8 DEF after

-----------------------------------------------------------------------------
(* Putting documents in *)

\* Documents stay sound when one that is sound is written.
LEMMA PutSound ==
  ASSUME NEW y, Kept(y), NEW i \in 1 .. LastId(y) + 1, NEW d, d.id = i, IsDocument(d)
  PROVE  LET E == With(y.documents, i, d)
         IN  /\ SoundAll(E) /\ AgreeBut(y.documents, E, i) /\ Own(E, i) = Entered(d)
             /\ i \in Ids(y.documents) => [y.documents EXCEPT ![i] = d] = E
<1> DEFINE D == y.documents
           E == With(D, i, d)
<1>1. LastId(y) \in Nat /\ Ids(D) \subseteq 1 .. LastId(y)
  BY LastIdBounds DEF Kept
<1>2. SoundAll(D)
  BY KeptDocuments
<1> HIDE DEF D
<1>3. Ids(E) = Ids(D) \cup {i} /\ \A j \in Ids(E) : E[j] = IF j = i THEN d ELSE D[j]
  BY DEF With, Ids
<1>4. Ids(D) = DOMAIN D
  BY DEF Ids
<1>5. i \in Ids(D) => [D EXCEPT ![i] = d] = E
  BY <1>4 DEF With
<1> HIDE DEF E
<1>6. AgreeBut(D, E, i)
  BY <1>3 DEF AgreeBut
<1>7. SoundAll(E)
  <2>1. Ids(E) \subseteq 1 .. LastId(y) + 1 /\ LastId(y) + 1 \in Nat
    BY <1>1, <1>3
  <2>2. \A j \in Ids(E) : E[j].id = j /\ IsDocument(E[j])
    BY <1>2, <1>3 DEF SoundAll
  <2> QED
    BY <2>1, <2>2 DEF SoundAll
<1>8. Own(E, i) = Entered(d)
  BY <1>3 DEF Own
<1> QED
  BY <1>5, <1>6, <1>7, <1>8 DEF D, E

\* A receipt or a shipment is put in, or changed.
LEMMA PaperIsKept ==
  ASSUME NEW y, Kept(y), NEW i \in 1 .. LastId(y) + 1, NEW d, d.id = i, IsDocument(d), d.kind \in {"IN", "OUT"},
         i \in Ids(y.documents) => i \in Papers(y),
         \A b \in DOMAIN Buckets :
           Unpromised(y.documents, b) - Value(At(b, Own(y.documents, i))) + Value(At(b, Entered(d)))
             >= Unfit[b].damaged + Unfit[b].hold
  PROVE  /\ IsKept(WithDocuments(y, With(y.documents, i, d)))
         /\ i \in Ids(y.documents) => IsKept(WithDocuments(y, [y.documents EXCEPT ![i] = d]))
<1> DEFINE E == With(y.documents, i, d)
<1>1. /\ SoundAll(E) /\ AgreeBut(y.documents, E, i) /\ Own(E, i) = Entered(d)
      /\ i \in Ids(y.documents) => [y.documents EXCEPT ![i] = d] = E
  BY PutSound
<1>2. \A m \in Entered(d) : ~IsTransfer(m)
  BY EnteredRows
<1>3. \A m \in Own(y.documents, i) : ~IsTransfer(m)
  <2>1. SoundAll(y.documents)
    BY KeptDocuments
  <2> QED
    BY <2>1, EnteredRows DEF Own, Papers, SoundAll
<1> HIDE DEF E
<1>4. \A piece : Transfers(piece, Own(E, i)) = {} /\ Transfers(piece, Own(y.documents, i)) = {}
  BY <1>1, <1>2, <1>3 DEF Transfers
<1>5. \A b \in DOMAIN Buckets :
        Unpromised(y.documents, b) - Value(At(b, Own(y.documents, i))) + Value(At(b, Own(E, i)))
          >= Unfit[b].damaged + Unfit[b].hold
  BY <1>1
<1>6. \A b \in DOMAIN Buckets :
        Value(Transfers(Pieces(b), Own(E, i))) = Value(Transfers(Pieces(b), Own(y.documents, i)))
  BY <1>4
<1>7. IsKept(WithDocuments(y, E))
  BY <1>1, <1>5, <1>6, ChangedIsKept
<1> QED
  BY <1>1, <1>7 DEF E

-----------------------------------------------------------------------------
(* Receipts and shipments, kept *)

\* What a document holds or has brought before it is confirmed.
LEMMA DraftEntered ==
  ASSUME NEW d, IsDocument(d), IsDraft(d), d.kind \in {"IN", "OUT"}, NEW b
  PROVE  /\ d.kind = "IN" => Entered(d) = {}
         /\ d.kind = "OUT" => Entered(d) = IF RestoresReservations(d) THEN LineMovements(d) ELSE {}
         /\ Value(At(b, Entered(d))) \in Int /\ Value(At(b, Entered(d))) <= 0
         /\ Rows(At(b, LineMovements(d))) /\ Value(At(b, LineMovements(d))) \in Int
<1>1. d.kind = "IN" => Entered(d) = {}
  BY DEF Entered, Holds, IsDraft
<1>2. d.kind = "OUT" => Entered(d) = IF RestoresReservations(d) THEN LineMovements(d) ELSE {}
  BY DEF Entered, Holds, IsDraft
<1>3. Rows(LineMovements(d)) /\ (d.kind = "OUT" => \A m \in LineMovements(d) : m.change <= 0)
  BY ReceiptRows, ShipmentRows
<1>4. Rows(At(b, LineMovements(d))) /\ At(b, LineMovements(d)) \subseteq LineMovements(d)
  <2>1. At(b, LineMovements(d)) \subseteq LineMovements(d)
    BY DEF At
  <2> QED
    BY <1>3, <2>1, FS_Subset DEF Rows
<1>5. Value(At(b, LineMovements(d))) \in Int
  BY <1>4, ValueParts
<1>6. d.kind = "OUT" => Value(At(b, LineMovements(d))) <= 0
  BY <1>3, <1>4, ValueOfLosses
<1>7. Value(At(b, {})) = 0
  <2>1. At(b, {}) = {}
    BY DEF At
  <2> QED
    BY <2>1, ValueEmpty
<1>8. Value(At(b, Entered(d))) \in Int /\ Value(At(b, Entered(d))) <= 0
  BY <1>1, <1>2, <1>5, <1>6, <1>7
<1> QED
  BY <1>1, <1>2, <1>4, <1>5, <1>8

\* What can be confirmed, or picked, leaves what is held back.
LEMMA CommitFits ==
  ASSUME NEW y, Kept(y), NEW i \in Papers(y), NEW d, d = y.documents[i], IsDraft(d),
         d.kind = "OUT" => RestoresReservations(d) \/ Reservable(y, d),
         NEW b \in DOMAIN Buckets
  PROVE  Unpromised(y.documents, b) - Value(At(b, Own(y.documents, i))) + Value(At(b, LineMovements(d)))
           >= Unfit[b].damaged + Unfit[b].hold
<1>1. IsDocument(d) /\ d.kind \in {"IN", "OUT"} /\ Own(y.documents, i) = Entered(d)
  BY KeptDocuments DEF Papers, SoundAll, Own
<1>2. SoundAll(y.documents)
  BY KeptDocuments
<1>3. /\ Unpromised(y.documents, b) \in Int /\ Unpromised(y.documents, b) >= Unfit[b].damaged + Unfit[b].hold
      /\ Unfit[b].damaged \in Nat /\ Unfit[b].hold \in Nat
  BY <1>2, Figures, UnfitAssumption DEF Kept, IsKept
<1>4. /\ d.kind = "IN" => Entered(d) = {}
      /\ d.kind = "OUT" => Entered(d) = IF RestoresReservations(d) THEN LineMovements(d) ELSE {}
      /\ Rows(At(b, LineMovements(d))) /\ Value(At(b, LineMovements(d))) \in Int
  BY <1>1, DraftEntered
<1>5. Value(At(b, {})) = 0
  <2>1. At(b, {}) = {}
    BY DEF At
  <2> QED
    BY <2>1, ValueEmpty
<1>6. CASE d.kind = "IN"
  <2>1. \A m \in LineMovements(d) : m.change >= 0
    BY <1>1, <1>6, ReceiptRows
  <2>2. \A m \in At(b, LineMovements(d)) : m.change >= 0
    BY <2>1 DEF At
  <2>3. Value(At(b, LineMovements(d))) >= 0
    BY <1>4, <2>2, ValueOfGains
  <2>4. Value(At(b, Own(y.documents, i))) = 0
    BY <1>1, <1>4, <1>5, <1>6
  <2> QED
    BY <1>3, <1>4, <2>3, <2>4
<1>7. CASE d.kind = "OUT" /\ RestoresReservations(d)
  <2>1. Value(At(b, Own(y.documents, i))) = Value(At(b, LineMovements(d)))
    BY <1>1, <1>4, <1>7
  <2> QED
    BY <1>3, <1>4, <2>1
<1>8. CASE d.kind = "OUT" /\ ~RestoresReservations(d)
  <2>1. Value(At(b, Own(y.documents, i))) = 0
    BY <1>1, <1>4, <1>5, <1>8
  <2>2. CASE At(b, LineMovements(d)) = {}
    <3>1. Value(At(b, LineMovements(d))) = 0
      BY <2>2, ValueEmpty
    <3> QED
      BY <1>3, <2>1, <3>1
  <2>3. CASE At(b, LineMovements(d)) # {}
    <3>1. b \in {m.bucket : m \in LineMovements(d)}
      BY <2>3 DEF At
    <3>2. b \in DOMAIN y.items /\ AllocatedOf(d, b) <= AvailableOn(y.items, {b}) + 0
      BY <1>8, <3>1 DEF Reservable
    <3>3. AvailableOn(y.items, {b}) = Unpromised(y.documents, b) - Unfit[b].damaged - Unfit[b].hold
      BY <3>2, KeptItems
    <3>4. AllocatedOf(d, b) = -Value(At(b, LineMovements(d)))
      <4>1. Total(LAMBDA m : -m.change, At(b, LineMovements(d))) = -Value(At(b, LineMovements(d)))
        BY <1>4, ValueOpposite
      <4> QED
        BY <4>1 DEF AllocatedOf
    <3> QED
      BY <1>3, <1>4, <2>1, <3>2, <3>3, <3>4
  <2> QED
    BY <2>2, <2>3
<1> QED
  BY <1>1, <1>6, <1>7, <1>8

\* What of a shipment's or a receipt's rows is kept in the yard.
LEMMA PaperSays ==
  ASSUME NEW y, Kept(y), NEW i \in Papers(y)
  PROVE  LET d == y.documents[i]
         IN /\ i \in Ids(y.documents) /\ i \in 1 .. LastId(y) + 1 /\ d.id = i /\ IsDocument(d) /\ Complete(d)
            /\ d.kind \in {"IN", "OUT"} /\ Own(y.documents, i) = Entered(d) /\ d.status \in {"DRAFT", "CONFIRMED"}
<1>1. i \in Ids(y.documents) /\ y.documents[i].kind \in {"IN", "OUT"}
  BY DEF Papers
<1>2. LastId(y) \in Nat /\ Ids(y.documents) \subseteq 1 .. LastId(y)
  BY LastIdBounds DEF Kept
<1>3. y.documents[i].id = i /\ IsDocument(y.documents[i])
  BY <1>1, KeptDocuments DEF SoundAll
<1>4. Complete(y.documents[i])
  BY <1>1 DEF Kept, LawfulYard, LawfulAll, Lawful
<1> QED
  BY <1>1, <1>2, <1>3, <1>4 DEF Own, IsDocument

\* A confirmation is kept, whichever way it is asked for.
LEMMA ConfirmationIsKept ==
  ASSUME NEW y, Kept(y), NEW i \in Papers(y), NEW d, d = y.documents[i], ~ConfirmRefused(y, d), NEW tracking
  PROVE  IsKept(WithDocuments(y, [y.documents EXCEPT ![i] = Confirmed(d, tracking)]))
<1> DEFINE after == Confirmed(d, tracking)
<1>1. /\ i \in Ids(y.documents) /\ i \in 1 .. LastId(y) + 1 /\ d.id = i /\ IsDocument(d) /\ Complete(d)
      /\ d.kind \in {"IN", "OUT"}
  BY PaperSays
<1>2. IsDocument(after) /\ SameLines(d, after) /\ Entered(after) = LineMovements(d)
  BY <1>1, ConfirmedRows
<1> HIDE DEF after
<1>3. after.id = i /\ after.kind \in {"IN", "OUT"}
  BY <1>1, <1>2, SameRows
<1>4. IsDraft(d) /\ (d.kind = "OUT" => Reservable(y, d))
  BY <1>1 DEF ConfirmRefused, InboundConfirmRefused, OutboundConfirmRefused
<1>5. \A b \in DOMAIN Buckets :
        Unpromised(y.documents, b) - Value(At(b, Own(y.documents, i))) + Value(At(b, Entered(after)))
          >= Unfit[b].damaged + Unfit[b].hold
  BY <1>2, <1>4, CommitFits
<1>6. IsKept(WithDocuments(y, [y.documents EXCEPT ![i] = after]))
  BY <1>1, <1>2, <1>3, <1>5, PaperIsKept
<1> QED
  BY <1>6 DEF after

\* A refusal leaves the yard.
LEMMA OutcomeKept ==
  ASSUME NEW refused, NEW y, NEW changed, NEW id, IsKept(y), ~refused => IsKept(changed)
  PROVE  IsKept(Outcome(refused, y, changed, id).yard)
BY DEF Outcome, Denied, Granted

\* What is confirmed was there.
LEMMA ConfirmKept ==
  ASSUME NEW y, Kept(y), NEW i
  PROVE  IsKept(Confirm(y, i).yard)
<1> DEFINE d == y.documents[i]
           after == Confirmed(d, FinalTracking(d))
           changed == WithDocuments(y, [y.documents EXCEPT ![i] = after])
           refused == i \notin Papers(y) \/ ConfirmRefused(y, d)
<1>1. ~refused => IsKept(changed)
  BY ConfirmationIsKept
<1>2. Confirm(y, i) = Outcome(refused, y, changed, i)
  BY DEF Confirm
<1> HIDE DEF refused, changed
<1> QED
  BY <1>1, <1>2, OutcomeKept DEF Kept

\* What moves on holds what it allocates once it is picked; what ends was there.
LEMMA TrackKept ==
  ASSUME NEW y, Kept(y), NEW i, NEW target
  PROVE  IsKept(Track(y, i, target).yard)
<1> DEFINE d == y.documents[i]
           after == Tracked(d, target)
           changed == WithDocuments(y, [y.documents EXCEPT ![i] = after])
           refused == i \notin Papers(y) \/ TrackRefused(y, d, target)
           ends == target \in {"RECEIVED", "SHIPPED", "BO_RECEIVED"}
<1>1. ASSUME ~refused PROVE IsKept(changed)
  <2>1. /\ i \in Ids(y.documents) /\ i \in 1 .. LastId(y) + 1 /\ d.id = i /\ IsDocument(d) /\ Complete(d)
        /\ d.kind \in {"IN", "OUT"} /\ Own(y.documents, i) = Entered(d) /\ d.status \in {"DRAFT", "CONFIRMED"}
    BY <1>1, PaperSays
  <2>2. i \in Papers(y)
    BY <1>1
  <2>3. CASE ends /\ IsDraft(d)
    <3>1. ~ConfirmRefused(y, d)
      BY <1>1, <2>3 DEF TrackRefused
    <3>2. after = Confirmed(d, target)
      BY <2>3 DEF Tracked
    <3> QED
      BY <2>2, <3>1, <3>2, ConfirmationIsKept
  <2>4. CASE ends /\ ~IsDraft(d)
    <3>1. after = Confirmed(d, target)
      BY <2>4 DEF Tracked
    <3> HIDE DEF after, d
    <3>2. IsDocument(after) /\ SameLines(d, after) /\ Entered(after) = LineMovements(d)
      BY <2>1, <3>1, ConfirmedRows
    <3>3. after.id = i /\ after.kind \in {"IN", "OUT"}
      BY <2>1, <3>2, SameRows
    <3>4. Own(y.documents, i) = Entered(after)
      BY <2>1, <2>4, <3>2 DEF Entered, IsDraft
    <3>5. SoundAll(y.documents) /\ SoundAll(y.documents)
      BY KeptDocuments
    <3>6. ASSUME NEW b \in DOMAIN Buckets
          PROVE  Unpromised(y.documents, b) - Value(At(b, Own(y.documents, i))) + Value(At(b, Entered(after)))
                   >= Unfit[b].damaged + Unfit[b].hold
      <4>1. /\ Unpromised(y.documents, b) \in Int /\ Unpromised(y.documents, b) >= Unfit[b].damaged + Unfit[b].hold
            /\ Unfit[b].damaged \in Nat /\ Unfit[b].hold \in Nat
        BY <3>5, Figures, UnfitAssumption DEF Kept, IsKept
      <4>2. Value(At(b, Own(y.documents, i))) \in Int
        BY <3>5, ExchangeHere DEF AgreeBut
      <4>3. Value(At(b, Entered(after))) = Value(At(b, Own(y.documents, i)))
        BY <3>4
      <4> QED
        BY <4>1, <4>2, <4>3
    <3> QED
      BY <2>1, <2>2, <3>2, <3>3, <3>6, PaperIsKept
  <2>5. CASE ~ends
    <3>1. IsDraft(d)
      BY <1>1, <2>5 DEF TrackRefused
    <3>2. after = [d EXCEPT !.tracking = target]
      BY <2>5 DEF Tracked
    <3>3. ASSUME d.kind = "OUT", target \in {"PICKING", "PACKED"}
          PROVE  RestoresReservations(d) \/ Reservable(y, d)
      <4>1. CASE d.tracking \in {"PICKING", "PACKED"}
        BY <3>1, <4>1 DEF RestoresReservations, IsDraft
      <4>2. CASE d.tracking \notin {"PICKING", "PACKED"}
        <5>1. d.tracking \notin {"SHIPPED", "BO_RECEIVED"} /\ d.status # "CONFIRMED"
          BY <2>1, <3>1, <3>3 DEF IsDocument, IsShipment, IsDraft
        <5>2. Tracking(d) = "SCHEDULED"
          BY <3>3, <4>2, <5>1 DEF Tracking, OutboundTracking
        <5> QED
          BY <1>1, <2>5, <3>3, <5>2 DEF TrackRefused
      <4> QED
        BY <4>1, <4>2
    <3> HIDE DEF after, d
    <3>4. target \notin {"SHIPPED", "BO_RECEIVED"}
      BY <2>5
    <3>5. /\ IsDocument(after) /\ SameLines(d, after)
          /\ Entered(after) = IF d.kind = "OUT" /\ target \in {"PICKING", "PACKED"} THEN LineMovements(d) ELSE {}
      BY <2>1, <3>1, <3>2, <3>4, TrackedRows
    <3>6. after.id = i /\ after.kind \in {"IN", "OUT"}
      BY <2>1, <3>5, SameRows
    <3>7. ASSUME NEW b \in DOMAIN Buckets
          PROVE  Unpromised(y.documents, b) - Value(At(b, Own(y.documents, i))) + Value(At(b, Entered(after)))
                   >= Unfit[b].damaged + Unfit[b].hold
      <4>1. CASE d.kind = "OUT" /\ target \in {"PICKING", "PACKED"}
        <5>1. d = y.documents[i]
          BY DEF d
        <5>2. Entered(after) = LineMovements(d)
          BY <3>5, <4>1
        <5>3. Unpromised(y.documents, b) - Value(At(b, Own(y.documents, i))) + Value(At(b, LineMovements(d)))
                >= Unfit[b].damaged + Unfit[b].hold
          BY <2>2, <3>1, <3>3, <4>1, <5>1, CommitFits
        <5> QED
          BY <5>2, <5>3
      <4>2. CASE ~(d.kind = "OUT" /\ target \in {"PICKING", "PACKED"})
        <5>1. SoundAll(y.documents)
          BY KeptDocuments
        <5>2. /\ Unpromised(y.documents, b) \in Int /\ Unpromised(y.documents, b) >= Unfit[b].damaged + Unfit[b].hold
              /\ Unfit[b].damaged \in Nat /\ Unfit[b].hold \in Nat
          BY <5>1, Figures, UnfitAssumption DEF Kept, IsKept
        <5>3. Value(At(b, Own(y.documents, i))) \in Int /\ Value(At(b, Own(y.documents, i))) <= 0
          BY <2>1, <3>1, DraftEntered
        <5>4. Value(At(b, Entered(after))) = 0
          <6>1. At(b, Entered(after)) = {}
            BY <3>5, <4>2 DEF At
          <6> QED
            BY <6>1, ValueEmpty
        <5> QED
          BY <5>2, <5>3, <5>4
      <4> QED
        BY <4>1, <4>2
    <3> QED
      BY <2>1, <2>2, <3>5, <3>6, <3>7, PaperIsKept
  <2> QED
    BY <2>3, <2>4, <2>5
<1>2. Track(y, i, target) = Outcome(refused, y, changed, i)
  BY DEF Track
<1> HIDE DEF refused, changed
<1> QED
  BY <1>1, <1>2, OutcomeKept DEF Kept

\* Lines of a copy are those of a draft without picks.
LEMMA CopiedSound ==
  ASSUME NEW d, IsDocument(d), Complete(d), d.kind \in {"IN", "OUT"}, NEW n
  PROVE  LET copy == CopyOf(d, n)
         IN copy.id = n /\ copy.kind = d.kind /\ IsDocument(copy) /\ Entered(copy) = {}
<1> DEFINE lines == [j \in DOMAIN d.lines |-> CopiedLine(d, d.lines[j])]
           copy == CopyOf(d, n)
<1>1. copy = [d EXCEPT !.id = n, !.status = "DRAFT", !.tracking = "SCHEDULED", !.lines = lines]
  BY DEF CopyOf
<1>2. {"id", "kind", "status", "tracking", "container", "location", "lines"} \subseteq DOMAIN d
  BY DEF Complete, Stated
<1>3. DOMAIN lines = DOMAIN d.lines /\ \A j \in DOMAIN lines : lines[j] = CopiedLine(d, d.lines[j])
  OBVIOUS
<1>4. Decoded(lines)
  <2>1. IsList(d.lines)
    BY DEF IsDocument, Decoded, IsList
  <2>2. Len(d.lines) \in Nat /\ DOMAIN d.lines = 1 .. Len(d.lines)
    BY <2>1, ListElim
  <2>3. lines \in [1 .. Len(d.lines) -> ToSet(lines)]
    BY <2>2 DEF ToSet
  <2> QED
    BY <2>2, <2>3 DEF Decoded
<1> HIDE DEF copy, lines
<1>5. /\ copy.id = n /\ copy.kind = d.kind /\ copy.status = "DRAFT" /\ copy.tracking = "SCHEDULED"
      /\ copy.container = d.container /\ copy.location = d.location /\ copy.lines = lines
  BY <1>1, <1>2
<1>6. ASSUME d.kind = "IN" PROVE IsDocument(copy) /\ Entered(copy) = {}
  <2>1. \A j \in DOMAIN lines : lines[j] = d.lines[j]
    BY <1>3, <1>6 DEF CopiedLine
  <2>2. IsReceipt(copy)
    BY <1>3, <1>5, <1>6, <2>1 DEF IsDocument, IsReceipt
  <2>3. copy.kind \notin {"OUT"} /\ copy.status \in {"DRAFT", "CONFIRMED"} /\ Decoded(copy.lines)
    BY <1>4, <1>5, <1>6
  <2>4. IsDocument(copy)
    BY <1>5, <1>6, <2>2, <2>3 DEF IsDocument
  <2>5. Entered(copy) = {}
    BY <1>5, <2>3 DEF Entered, Holds
  <2> QED
    BY <1>5, <2>4, <2>5
<1>7. ASSUME d.kind = "OUT" PROVE IsDocument(copy) /\ Entered(copy) = {}
  <2>1. ASSUME NEW j \in DOMAIN lines
        PROVE  /\ "allocations" \in DOMAIN lines[j] /\ lines[j].allocations = <<>>
    <3>1. lines[j] = [d.lines[j] EXCEPT !.allocations = <<>>]
      BY <1>3, <1>7 DEF CopiedLine
    <3>2. "allocations" \in DOMAIN d.lines[j]
      BY <1>3, <1>7 DEF IsDocument, IsShipment
    <3> QED
      BY <3>1, <3>2
  <2>2. Decoded(<<>>)
    BY DEF Decoded
  <2>3. IsShipment(copy)
    BY <1>5, <2>1, <2>2 DEF IsShipment
  <2>4. IsDocument(copy)
    BY <1>4, <1>5, <1>7, <2>3 DEF IsDocument
  <2>5. Entered(copy) = {}
    BY <1>5 DEF Entered, Holds, RestoresReservations
  <2> QED
    BY <1>5, <2>4, <2>5
<1> QED
  BY <1>5, <1>6, <1>7 DEF copy

\* A draft that holds nothing changes nothing.
LEMMA NothingEntered ==
  ASSUME NEW y, Kept(y), NEW i, NEW d, Entered(d) = {}, NEW b \in DOMAIN Buckets, Value(At(b, Own(y.documents, i))) \in Int,
         Value(At(b, Own(y.documents, i))) <= 0
  PROVE  Unpromised(y.documents, b) - Value(At(b, Own(y.documents, i))) + Value(At(b, Entered(d)))
           >= Unfit[b].damaged + Unfit[b].hold
<1>1. SoundAll(y.documents)
  BY KeptDocuments
<1>2. /\ Unpromised(y.documents, b) \in Int /\ Unpromised(y.documents, b) >= Unfit[b].damaged + Unfit[b].hold
      /\ Unfit[b].damaged \in Nat /\ Unfit[b].hold \in Nat
  BY <1>1, Figures, UnfitAssumption DEF Kept, IsKept
<1>3. Value(At(b, Entered(d))) = 0
  <2>1. At(b, Entered(d)) = {}
    BY DEF At
  <2> QED
    BY <2>1, ValueEmpty
<1> QED
  BY <1>2, <1>3

\* A copy enters nothing.
LEMMA CopyKept ==
  ASSUME NEW y, Kept(y), NEW i
  PROVE  IsKept(Copy(y, i).yard)
<1> DEFINE d == y.documents[i]
           n == NextId(y)
           copy == CopyOf(d, n)
           changed == WithDocuments(y, With(y.documents, n, copy))
           refused == i \notin Papers(y) \/ d.lines = <<>>
<1>1. ASSUME ~refused PROVE IsKept(changed)
  <2>1. IsDocument(d) /\ Complete(d) /\ d.kind \in {"IN", "OUT"}
    BY <1>1, PaperSays
  <2>2. n \in 1 .. LastId(y) + 1 /\ n \notin Ids(y.documents)
    BY LastIdBounds DEF NextId, Kept
  <2> HIDE DEF d, n
  <2>3. copy.id = n /\ copy.kind \in {"IN", "OUT"} /\ IsDocument(copy) /\ Entered(copy) = {}
    BY <2>1, CopiedSound
  <2> HIDE DEF copy
  <2>4. \A b : Value(At(b, Own(y.documents, n))) = 0
    <3>1. \A b : At(b, Own(y.documents, n)) = {}
      BY <2>2 DEF Own, At
    <3> QED
      BY <3>1, ValueEmpty
  <2>5. ASSUME NEW b \in DOMAIN Buckets
        PROVE  Unpromised(y.documents, b) - Value(At(b, Own(y.documents, n))) + Value(At(b, Entered(copy)))
                 >= Unfit[b].damaged + Unfit[b].hold
    <3>1. Value(At(b, Own(y.documents, n))) \in Int /\ Value(At(b, Own(y.documents, n))) <= 0
      BY <2>4
    <3> QED
      BY <2>3, <3>1, NothingEntered
  <2> QED
    BY <2>2, <2>3, <2>5, PaperIsKept
<1>2. Copy(y, i) = Outcome(refused, y, changed, n)
  BY DEF Copy
<1> HIDE DEF refused, changed
<1> QED
  BY <1>1, <1>2, OutcomeKept DEF Kept

\* What is deleted takes back what it brought, which still stands there.
LEMMA DiscardKept ==
  ASSUME NEW y, Kept(y), NEW i
  PROVE  IsKept(Discard(y, i).yard)
<1> DEFINE D == y.documents
           d == D[i]
           E == Restrict(D, Ids(D) \ {i})
           changed == WithDocuments(y, E)
           refused == i \notin Papers(y) \/ ReversalRefused(y, d)
<1>0. SoundAll(D)
  BY KeptDocuments
<1>1. ASSUME ~refused PROVE IsKept(changed)
  <2>1. /\ i \in Ids(D) /\ i \in 1 .. LastId(y) + 1 /\ d.id = i /\ IsDocument(d)
        /\ d.kind \in {"IN", "OUT"} /\ Own(D, i) = Entered(d) /\ d.status \in {"DRAFT", "CONFIRMED"}
    BY <1>1, PaperSays
  <2>2. Ids(E) = Ids(D) \ {i} /\ \A j \in Ids(E) : E[j] = D[j]
    BY DEF Restrict, Ids
  <2>3. ~ReversalRefused(y, d)
    BY <1>1
  <2> HIDE DEF E, d
  <2>4. AgreeBut(D, E, i) /\ SoundAll(E) /\ Own(E, i) = {}
    BY <1>0, <2>2 DEF AgreeBut, SoundAll, Own
  <2>5. \A m \in Entered(d) : ~IsTransfer(m)
    BY <2>1, EnteredRows
  <2>6. \A b \in DOMAIN Buckets :
          Value(Transfers(Pieces(b), Own(E, i))) = Value(Transfers(Pieces(b), Own(D, i)))
    <3>1. \A b : Transfers(Pieces(b), Own(E, i)) = {} /\ Transfers(Pieces(b), Own(D, i)) = {}
      BY <2>1, <2>4, <2>5 DEF Transfers
    <3> QED
      BY <3>1
  <2>7. ASSUME NEW b \in DOMAIN Buckets
        PROVE  Unpromised(D, b) - Value(At(b, Own(D, i))) + Value(At(b, Own(E, i))) >= Unfit[b].damaged + Unfit[b].hold
    <3>1. /\ Unpromised(D, b) \in Int /\ Unpromised(D, b) >= Unfit[b].damaged + Unfit[b].hold
          /\ Unfit[b].damaged \in Nat /\ Unfit[b].hold \in Nat
      BY <1>0, Figures, UnfitAssumption DEF Kept, IsKept
    <3>2. Value(At(b, Own(E, i))) = 0
      <4>1. At(b, Own(E, i)) = {}
        BY <2>4 DEF At
      <4> QED
        BY <4>1, ValueEmpty
    <3>3. Value(At(b, Own(D, i))) \in Int
      BY <1>0, <2>4, ExchangeHere
    <3>4. CASE IsDraft(d) \/ d.kind = "OUT"
      <4>1. Value(At(b, Own(D, i))) <= 0
        <5>1. CASE IsDraft(d)
          BY <2>1, <5>1, DraftEntered
        <5>2. CASE d.kind = "OUT"
          <6>1. Rows(Entered(d)) /\ \A m \in Entered(d) : m.change <= 0
            BY <2>1, <5>2, EnteredRows
          <6>2. Rows(At(b, Entered(d))) /\ \A m \in At(b, Entered(d)) : m.change <= 0
            <7>1. At(b, Entered(d)) \subseteq Entered(d)
              BY DEF At
            <7> QED
              BY <6>1, <7>1, FS_Subset DEF Rows
          <6> QED
            BY <2>1, <6>2, ValueOfLosses
        <5> QED
          BY <3>4, <5>1, <5>2
      <4> QED
        BY <3>1, <3>2, <3>3, <4>1
    <3>5. CASE ~IsDraft(d) /\ d.kind = "IN"
      <4>1. Entered(d) = LineMovements(d) /\ d.status = "CONFIRMED"
        BY <2>1, <3>5 DEF Entered, IsDraft
      <4>2. CASE At(b, LineMovements(d)) = {}
        <5>1. Value(At(b, Own(D, i))) = 0
          BY <2>1, <4>1, <4>2, ValueEmpty
        <5> QED
          BY <3>1, <3>2, <5>1
      <4>3. CASE At(b, LineMovements(d)) # {}
        <5>1. b \in {m.bucket : m \in LineMovements(d)}
          BY <4>3 DEF At
        <5>2. AvailableOn(y.items, {b}) >= Value(At(b, LineMovements(d)))
          <6>1. AvailableOn(y.items, {b}) >= Total(LAMBDA m : m.change, At(b, LineMovements(d)))
            <7>1. Removable(y, d)
              BY <2>3, <3>5 DEF ReversalRefused
            <7> QED
              BY <5>1, <7>1 DEF Removable
          <6> QED
            BY <6>1 DEF Value, Total
        <5>3. b \in DOMAIN y.items
          <6>1. LineMovements(D[i]) \subseteq Movements(D)
            BY <2>1, <4>1 DEF Movements, MovedBy, d
          <6>2. DOMAIN y.items = {m.bucket : m \in Movements(D)}
            BY DEF Kept, IsKept, Items, ItemsFrom
          <6> QED
            BY <5>1, <6>1, <6>2 DEF d
        <5>4. AvailableOn(y.items, {b}) = Unpromised(D, b) - Unfit[b].damaged - Unfit[b].hold
          BY <5>3, KeptItems
        <5>5. Value(At(b, Own(D, i))) = Value(At(b, LineMovements(d)))
          BY <2>1, <4>1
        <5> QED
          BY <3>1, <3>2, <3>3, <5>2, <5>4, <5>5
      <4> QED
        BY <4>2, <4>3
    <3> QED
      BY <2>1, <3>4, <3>5
  <2> QED
    BY <2>4, <2>6, <2>7, ChangedIsKept
<1>2. Discard(y, i) = Outcome(refused, y, changed, i)
  BY DEF Discard
<1> HIDE DEF refused, changed
<1> QED
  BY <1>1, <1>2, OutcomeKept DEF Kept

-----------------------------------------------------------------------------
(* What is only told of documents *)

\* Documents that say the same of what moves.
SameMoves(D, E) ==
  /\ Ids(E) = Ids(D)
  /\ \A j \in Ids(D) : SameLines(D[j], E[j]) /\ E[j].status = D[j].status /\ E[j].tracking = D[j].tracking

\* Documents with the same rows make the same ledger, and hold the same.
LEMMA SameLedger ==
  ASSUME NEW D, NEW E, SameMoves(D, E)
  PROVE  /\ Movements(E) = Movements(D) /\ Reserved(E) = Reserved(D) /\ Items(E) = Items(D)
         /\ \A j \in Ids(D) : IsDocument(D[j]) => IsDocument(E[j])
<1>1. \A j \in Ids(D) :
        /\ LineMovements(E[j]) = LineMovements(D[j]) /\ (IsReceipt(E[j]) <=> IsReceipt(D[j]))
        /\ E[j].kind = D[j].kind /\ E[j].lines = D[j].lines
        /\ E[j].status = D[j].status /\ E[j].tracking = D[j].tracking
  BY SameRows DEF SameMoves
<1>2. Ids(E) = Ids(D)
  BY DEF SameMoves
<1>3. Movements(E) = Movements(D)
  <2>1. {j \in Ids(E) : E[j].status = "CONFIRMED"} = {j \in Ids(D) : D[j].status = "CONFIRMED"}
    BY <1>1, <1>2
  <2> QED
    BY <1>1, <1>2, <2>1 DEF Movements, MovedBy
<1>4. Reserved(E) = Reserved(D)
  <2>1. \A j \in Ids(D) : Holds(E[j]) <=> Holds(D[j])
    BY <1>1 DEF Holds, RestoresReservations
  <2>2. {j \in Ids(E) : Holds(E[j])} = {j \in Ids(D) : Holds(D[j])}
    BY <1>2, <2>1
  <2> QED
    BY <1>1, <1>2, <2>2 DEF Reserved, MovedBy
<1>5. Items(E) = Items(D)
  <2>1. \A b : HeldOf(b, E) = HeldOf(b, D)
    BY <1>4 DEF HeldOf
  <2> DEFINE M == Movements(D)
             Figured(b, held) ==
               [quantity |-> Total(LAMBDA m : m.change, At(b, M)), pallets |-> Total(LAMBDA m : m.pallets, At(b, M)),
                allocated |-> held, damaged |-> Unfit[b].damaged, hold |-> Unfit[b].hold,
                arrival |-> LET dates == {m.date : m \in {m \in At(b, M) : m.type = "IN"}}
                            IN IF dates = {} THEN 0 ELSE CHOOSE d \in dates : \A e \in dates : d <= e]
             S == {m.bucket : m \in M}
  <2>2. Items(D) = [b \in S |-> Over(Figured(b, HeldOf(b, D)), Buckets[b])]
    BY DEF Items, ItemsFrom
  <2>3. Items(E) = [b \in S |-> Over(Figured(b, HeldOf(b, E)), Buckets[b])]
    BY <1>3 DEF Items, ItemsFrom
  <2> HIDE DEF Figured, S
  <2> QED
    BY <2>1, <2>2, <2>3
<1>6. ASSUME NEW j \in Ids(D), IsDocument(D[j]) PROVE IsDocument(E[j])
  <2>1. IsShipment(D[j]) => IsShipment(E[j])
    BY <1>1 DEF IsShipment, IsDraft
  <2>2. IsPosting(D[j]) => IsPosting(E[j])
    BY <1>1 DEF IsPosting
  <2> QED
    BY <1>1, <1>6, <2>1, <2>2 DEF IsDocument
<1> QED
  BY <1>3, <1>4, <1>5, <1>6

\* A yard whose documents only say other things is kept.
LEMMA RetoldIsKept ==
  ASSUME NEW y, Kept(y), NEW E, SameMoves(y.documents, E), NEW z,
         {"documents", "items", "movements"} \subseteq DOMAIN z,
         z.documents = E, z.items = y.items, z.movements = y.movements
  PROVE  IsKept(z)
<1>1. /\ Movements(E) = Movements(y.documents) /\ Reserved(E) = Reserved(y.documents)
      /\ Items(E) = Items(y.documents)
      /\ \A j \in Ids(y.documents) : IsDocument(y.documents[j]) => IsDocument(E[j])
  BY SameLedger
<1>2. \A b : Unpromised(E, b) = Unpromised(y.documents, b)
  BY <1>1 DEF Unpromised
<1>3. \A j \in Ids(E) : E[j].id = j /\ IsDocument(E[j])
  BY <1>1 DEF SameMoves, SameLines, RowFields, Kept, IsKept
<1> QED
  BY <1>1, <1>2, <1>3 DEF Kept, IsKept

\* A note moves nothing.
LEMMA AnnotateKept ==
  ASSUME NEW y, Kept(y), NEW i, NEW note
  PROVE  IsKept(Annotate(y, i, note).yard)
<1> DEFINE E == [y.documents EXCEPT ![i].note = note]
           changed == [y EXCEPT !.documents = E]
<1>1. SameMoves(y.documents, E)
  <2>1. Ids(E) = Ids(y.documents)
    BY DEF Ids
  <2>2. \A j \in Ids(y.documents) : E[j] \in {[y.documents[j] EXCEPT !.note = note], y.documents[j]}
    BY DEF Ids
  <2>3. \A j \in Ids(y.documents) : RowFields \cup {"status", "tracking"} \subseteq DOMAIN y.documents[j]
    BY DEF Kept, LawfulYard, LawfulAll, Lawful, Complete, Stated, RowFields
  <2> HIDE DEF E
  <2>4. \A j \in Ids(y.documents), f \in RowFields \cup {"status", "tracking"} : E[j][f] = y.documents[j][f]
    BY <2>2, <2>3 DEF RowFields
  <2> QED
    BY <2>1, <2>4 DEF SameMoves, SameLines
<1>2. Annotate(y, i, note) = Outcome(i \notin Papers(y), y, changed, i)
  BY DEF Annotate
<1> HIDE DEF E
<1>3. /\ {"documents", "items", "movements"} \subseteq DOMAIN changed
      /\ changed.documents = E /\ changed.items = y.items /\ changed.movements = y.movements
  BY DEF Kept, IsKept
<1> HIDE DEF changed
<1>4. IsKept(changed)
  BY <1>1, <1>3, RetoldIsKept
<1> QED
  BY <1>2, <1>4, OutcomeKept DEF Kept

\* The type of a container moves nothing.
LEMMA BoxTypeKept ==
  ASSUME NEW y, Kept(y), NEW container, NEW type
  PROVE  IsKept(SetBoxType(y, container, type))
<1> DEFINE E == [j \in DOMAIN y.documents |->
                   IF y.documents[j].kind = "IN" /\ y.documents[j].container = container
                   THEN [y.documents[j] EXCEPT !.type = type] ELSE y.documents[j]]
           boxes == With(y.boxes, container, type)
           changed == [y EXCEPT !.boxes = boxes, !.documents = E]
<1>1. SameMoves(y.documents, E)
  <2>1. Ids(E) = Ids(y.documents)
    BY DEF Ids
  <2>2. \A j \in Ids(y.documents) : E[j] \in {[y.documents[j] EXCEPT !.type = type], y.documents[j]}
    BY DEF Ids
  <2>3. \A j \in Ids(y.documents) : RowFields \cup {"status", "tracking"} \subseteq DOMAIN y.documents[j]
    BY DEF Kept, LawfulYard, LawfulAll, Lawful, Complete, Stated, RowFields
  <2> HIDE DEF E
  <2>4. \A j \in Ids(y.documents), f \in RowFields \cup {"status", "tracking"} : E[j][f] = y.documents[j][f]
    BY <2>2, <2>3 DEF RowFields
  <2> QED
    BY <2>1, <2>4 DEF SameMoves, SameLines
<1>2. SetBoxType(y, container, type) = changed
  BY DEF SetBoxType
<1> HIDE DEF E, boxes
<1>3. /\ {"documents", "items", "movements"} \subseteq DOMAIN changed
      /\ changed.documents = E /\ changed.items = y.items /\ changed.movements = y.movements
  BY DEF Kept, IsKept
<1> HIDE DEF changed
<1> QED
  BY <1>1, <1>2, <1>3, RetoldIsKept

\* What is told of containers, and the master records, leave documents and stock alone.
LEMMA OthersKept ==
  ASSUME NEW y, Kept(y)
  PROVE  /\ \A e : IsKept(Tell(y, e).yard)
         /\ \A kind, key, record : IsKept(PutMaster(y, kind, key, record).yard)
         /\ \A kind, key : IsKept(DropMaster(y, kind, key).yard)
<1>1. ASSUME NEW z, NEW f \in {"events", "masters"}, NEW value, z = [y EXCEPT ![f] = value]
      PROVE  IsKept(z)
  <2>1. /\ {"documents", "items", "movements"} \subseteq DOMAIN z
        /\ z.documents = y.documents /\ z.items = y.items /\ z.movements = y.movements
    BY <1>1 DEF Kept, IsKept
  <2>2. SameMoves(y.documents, y.documents)
    BY DEF SameMoves, SameLines
  <2> QED
    BY <2>1, <2>2, RetoldIsKept
<1>2. ASSUME NEW e PROVE IsKept(Tell(y, e).yard)
  <2> DEFINE value == y.events \cup {[e EXCEPT !.id = 1 + Max({0} \cup {x.id : x \in y.events})]}
  <2>1. Tell(y, e).yard = [y EXCEPT !["events"] = value]
    BY DEF Tell, Granted
  <2> HIDE DEF value
  <2> QED
    BY <1>1, <2>1
<1>3. ASSUME NEW kind, NEW key, NEW record PROVE IsKept(PutMaster(y, kind, key, record).yard)
  <2> DEFINE value == [y.masters EXCEPT ![kind] = With(y.masters[kind], key, record)]
  <2>1. PutMaster(y, kind, key, record).yard = [y EXCEPT !["masters"] = value]
    BY DEF PutMaster, Granted
  <2> HIDE DEF value
  <2> QED
    BY <1>1, <2>1
<1>4. ASSUME NEW kind, NEW key PROVE IsKept(DropMaster(y, kind, key).yard)
  <2> DEFINE value == [y.masters EXCEPT ![kind] = Restrict(y.masters[kind], DOMAIN y.masters[kind] \ {key})]
             changed == [y EXCEPT !["masters"] = value]
             refused == key \notin DOMAIN y.masters[kind] \/ InUse(y, kind, key)
  <2>1. DropMaster(y, kind, key) = Outcome(refused, y, changed, 0)
    BY DEF DropMaster
  <2> HIDE DEF value, refused
  <2>2. IsKept(changed)
    BY <1>1
  <2> HIDE DEF changed
  <2> QED
    BY <2>1, <2>2, OutcomeKept DEF Kept
<1> QED
  BY <1>2, <1>3, <1>4

-----------------------------------------------------------------------------
(* Receipts that are saved *)

\* A receipt that is written, and confirmed with that, only brings.
LEMMA SaveKept ==
  ASSUME NEW y, Kept(y), NEW i, NEW payload, {"handling"} \cup Stated \subseteq DOMAIN payload
  PROVE  IsKept(SaveReceipt(y, i, payload).yard)
<1> DEFINE id == IF i = None THEN NextId(y) ELSE i
           draft == Written(y, id, payload)
           confirms == payload.status = "CONFIRMED"
           saved == IF confirms THEN Confirmed(draft, "RECEIVED") ELSE draft
           refused == \/ id \in Ids(y.documents) /\ ~IsDraft(y.documents[id])
                      \/ TrackingRefused(payload) \/ LinesRefused(draft)
                      \/ (confirms /\ InboundConfirmRefused(y, draft))
<1>0. LastId(y) \in Nat /\ Ids(y.documents) \subseteq 1 .. LastId(y)
  BY LastIdBounds DEF Kept
<1>1. CASE i # None /\ i \notin Of("IN", y.documents)
  BY <1>1 DEF SaveReceipt, Denied, Kept
<1>2. CASE ~(i # None /\ i \notin Of("IN", y.documents))
  <2>1. id \in 1 .. LastId(y) + 1 /\ (id \in Ids(y.documents) => id \in Papers(y) /\ y.documents[id].kind = "IN")
    <3>1. CASE i = None
      BY <1>0, <3>1 DEF NextId
    <3>2. CASE i # None
      BY <1>0, <1>2, <3>2 DEF Of, Papers
    <3> QED
      BY <3>1, <3>2
  <2>2. SaveReceipt(y, i, payload) = Outcome(refused, y, WithDocuments(y, With(y.documents, id, saved)), id)
    BY <1>2 DEF SaveReceipt, Saving
  <2>3. Complete(draft) /\ draft.status = "DRAFT" /\ draft.id = id /\ draft.kind = "IN"
    BY WrittenSays
  <2> HIDE DEF draft, id, confirms
  <2>4. ASSUME ~refused PROVE IsKept(WithDocuments(y, With(y.documents, id, saved)))
    <3>1. IsDocument(draft)
      <4>1. /\ Decoded(draft.lines)
            /\ \A l \in ToSet(draft.lines) :
                 /\ l.received \in Int
                 /\ l.received > 0 => BucketsOf(draft.container, draft.location, l.sku) # {}
        BY <2>4 DEF LinesRefused
      <4>2. \A j \in DOMAIN draft.lines : draft.lines[j] \in ToSet(draft.lines)
        BY DEF ToSet
      <4>3. IsReceipt(draft)
        BY <4>1, <4>2 DEF IsReceipt
      <4> QED
        BY <2>3, <4>1, <4>3 DEF IsDocument
    <3>2. /\ IsDocument(saved) /\ saved.id = id /\ saved.kind = "IN"
      <4>1. CASE confirms
        <5>1. saved = Confirmed(draft, "RECEIVED")
          BY <4>1
        <5> HIDE DEF saved
        <5>2. IsDocument(saved) /\ SameLines(draft, saved)
          BY <2>3, <3>1, <5>1, ConfirmedRows
        <5> QED
          BY <2>3, <5>2, SameRows
      <4>2. CASE ~confirms
        BY <2>3, <3>1, <4>2
      <4> QED
        BY <4>1, <4>2
    <3> HIDE DEF saved
    <3>3. Own(y.documents, id) = {}
      <4>1. CASE id \in Ids(y.documents)
        <5>1. IsDraft(y.documents[id]) /\ y.documents[id].kind = "IN"
          BY <2>1, <2>4, <4>1
        <5> QED
          BY <4>1, <5>1 DEF Own, Entered, Holds, IsDraft
      <4>2. CASE id \notin Ids(y.documents)
        BY <4>2 DEF Own
      <4> QED
        BY <4>1, <4>2
    <3>4. Rows(Entered(saved)) /\ \A m \in Entered(saved) : m.change >= 0
      BY <3>2, EnteredRows
    <3>5. ASSUME NEW b \in DOMAIN Buckets
          PROVE  Unpromised(y.documents, b) - Value(At(b, Own(y.documents, id))) + Value(At(b, Entered(saved)))
                   >= Unfit[b].damaged + Unfit[b].hold
      <4>1. SoundAll(y.documents)
        BY KeptDocuments
      <4>2. /\ Unpromised(y.documents, b) \in Int /\ Unpromised(y.documents, b) >= Unfit[b].damaged + Unfit[b].hold
            /\ Unfit[b].damaged \in Nat /\ Unfit[b].hold \in Nat
        BY <4>1, Figures, UnfitAssumption DEF Kept, IsKept
      <4>3. Rows(At(b, Entered(saved))) /\ \A m \in At(b, Entered(saved)) : m.change >= 0
        <5>1. At(b, Entered(saved)) \subseteq Entered(saved)
          BY DEF At
        <5> QED
          BY <3>4, <5>1, FS_Subset DEF Rows
      <4>4. Value(At(b, Entered(saved))) \in Int /\ Value(At(b, Entered(saved))) >= 0
        BY <4>3, ValueOfGains
      <4>5. Value(At(b, Own(y.documents, id))) = 0
        <5>1. At(b, Own(y.documents, id)) = {}
          BY <3>3 DEF At
        <5> QED
          BY <5>1, ValueEmpty
      <4> QED
        BY <4>2, <4>4, <4>5
    <3> QED
      BY <2>1, <3>2, <3>5, PaperIsKept
  <2> HIDE DEF saved, refused
  <2> QED
    BY <2>2, <2>4, OutcomeKept DEF Kept
<1> QED
  BY <1>1, <1>2

-----------------------------------------------------------------------------
(* Selections *)

\* Confirming or removing one after the other keeps the yard.
LEMMA TurnsKept ==
  ASSUME NEW y, Kept(y), NEW chosen
  PROVE  IsKept(EachInTurn(Confirm, y, chosen)) /\ IsKept(EachInTurn(Discard, y, chosen))
<1>1. LastId(y) \in Nat /\ LawfulYard(y)
  BY LastIdBounds DEF Kept
<1>2. IsKept(EachInTurn(Confirm, y, chosen))
  <2>1. PICK t : /\ t[0] = y /\ \A i \in 1 .. LastId(y) : t[i] = ConfirmTurn(chosen, t[i - 1], i)
                 /\ EachInTurn(Confirm, y, chosen) = t[LastId(y)]
    BY <1>1, ConfirmTurns
  <2> DEFINE L == {i \in Nat : Kept(t[i])}
  <2>2. \A i \in 0 .. LastId(y) - 1 : i \in L => i + 1 \in L
    <3> SUFFICES ASSUME NEW i \in 0 .. LastId(y) - 1, Kept(t[i]) PROVE Kept(t[i + 1])
      BY <1>1
    <3>1. i + 1 \in 1 .. LastId(y) /\ (i + 1) - 1 = i
      BY <1>1
    <3>2. t[i + 1] = ConfirmTurn(chosen, t[i], i + 1)
      BY <2>1, <3>1
    <3>3. LawfulYard(Confirm(t[i], i + 1).yard) /\ IsKept(Confirm(t[i], i + 1).yard)
      BY ConfirmLawful, ConfirmKept DEF Kept
    <3> QED
      BY <3>2, <3>3 DEF ConfirmTurn, Kept
  <2>3. LastId(y) \in L
    <3>1. 0 \in L
      BY <2>1
    <3> HIDE DEF L
    <3> QED
      BY <1>1, <2>2, <3>1, Along
  <2> QED
    BY <2>1, <2>3 DEF Kept
<1>3. IsKept(EachInTurn(Discard, y, chosen))
  <2>1. PICK t : /\ t[0] = y /\ \A i \in 1 .. LastId(y) : t[i] = DiscardTurn(chosen, t[i - 1], i)
                 /\ EachInTurn(Discard, y, chosen) = t[LastId(y)]
    BY <1>1, DiscardTurns
  <2> DEFINE L == {i \in Nat : Kept(t[i])}
  <2>2. \A i \in 0 .. LastId(y) - 1 : i \in L => i + 1 \in L
    <3> SUFFICES ASSUME NEW i \in 0 .. LastId(y) - 1, Kept(t[i]) PROVE Kept(t[i + 1])
      BY <1>1
    <3>1. i + 1 \in 1 .. LastId(y) /\ (i + 1) - 1 = i
      BY <1>1
    <3>2. t[i + 1] = DiscardTurn(chosen, t[i], i + 1)
      BY <2>1, <3>1
    <3>3. LawfulYard(Discard(t[i], i + 1).yard) /\ IsKept(Discard(t[i], i + 1).yard)
      BY DiscardLawful, DiscardKept DEF Kept
    <3> QED
      BY <3>2, <3>3 DEF DiscardTurn, Kept
  <2>3. LastId(y) \in L
    <3>1. 0 \in L
      BY <2>1
    <3> HIDE DEF L
    <3> QED
      BY <1>1, <2>2, <3>1, Along
  <2> QED
    BY <2>1, <2>3 DEF Kept
<1> QED
  BY <1>2, <1>3

\* So do the selections of a list.
LEMMA SelectionsKept ==
  ASSUME NEW y, Kept(y), NEW chosen
  PROVE  /\ IsKept(ConfirmReceipts(y, chosen).yard)
         /\ IsKept(ConfirmShipments(y, chosen).yard)
         /\ IsKept(RemoveShipments(y, chosen).yard)
<1>1. IsKept(EachInTurn(Confirm, y, chosen)) /\ IsKept(EachInTurn(Discard, y, chosen))
  BY TurnsKept
<1>2. IsKept(ConfirmReceipts(y, chosen).yard)
  BY <1>1, OutcomeKept DEF ConfirmReceipts, Kept
<1>3. /\ ConfirmShipments(y, chosen).yard = EachInTurn(Confirm, y, chosen)
      /\ RemoveShipments(y, chosen).yard = EachInTurn(Discard, y, chosen)
  BY DEF ConfirmShipments, RemoveShipments, Settled, Granted
<1> QED
  BY <1>1, <1>2, <1>3

-----------------------------------------------------------------------------
(* Postings *)

\* Lines that say what a posting must.
Postable(lines) ==
  Decoded(lines) /\ \A j \in DOMAIN lines : lines[j].change \in Int /\ lines[j].bucket \in DOMAIN Buckets

\* What a posting says, and the rows that it makes.
LEMMA PostingSays ==
  ASSUME NEW n, NEW date, NEW lines, Postable(lines)
  PROVE  LET d == Posting(n, date, lines)
         IN /\ IsDocument(d) /\ d.id = n /\ d.kind = "POST" /\ d.lines = lines
            /\ Entered(d) = {PostedRow(d, j) : j \in DOMAIN lines} /\ LineMovements(d) = Entered(d) /\ Rows(Entered(d))
<1> DEFINE d == Posting(n, date, lines)
<1>1. d.id = n /\ d.kind = "POST" /\ d.status = "CONFIRMED" /\ d.lines = lines
  BY DEF Posting
<1> HIDE DEF d
<1>2. IsDocument(d)
  BY <1>1 DEF IsDocument, IsPosting, Postable
<1>3. Entered(d) = LineMovements(d)
  BY <1>1 DEF Entered
<1>4. LineMovements(d) = {PostedRow(d, j) : j \in DOMAIN d.lines} /\ Rows(LineMovements(d))
  BY <1>1, <1>2, PostedRows
<1> QED
  BY <1>1, <1>2, <1>3, <1>4 DEF d

\* A posting is one document more.
LEMMA PostingIsNew ==
  ASSUME NEW y, Kept(y), NEW d, d.id = NextId(y), IsDocument(d)
  PROVE  LET E == With(y.documents, NextId(y), d)
         IN /\ SoundAll(E) /\ AgreeBut(y.documents, E, NextId(y))
            /\ Own(E, NextId(y)) = Entered(d) /\ Own(y.documents, NextId(y)) = {}
<1>1. NextId(y) \in 1 .. LastId(y) + 1 /\ NextId(y) \notin Ids(y.documents)
  BY LastIdBounds DEF NextId, Kept
<1>2. Own(y.documents, NextId(y)) = {}
  BY <1>1 DEF Own
<1>3. PICK n : n = NextId(y)
  OBVIOUS
<1>4. n \in 1 .. LastId(y) + 1 /\ d.id = n
  BY <1>1, <1>3
<1>5. SoundAll(With(y.documents, n, d))
  BY <1>4, PutSound
<1>6. AgreeBut(y.documents, With(y.documents, n, d), n)
  BY <1>4, PutSound
<1>7. Own(With(y.documents, n, d), n) = Entered(d)
  BY DEF Own, With, Ids
<1> QED
  BY <1>2, <1>3, <1>5, <1>6, <1>7

\* A posting is kept if it leaves what is held back and promised in every bucket,
\* and if what it transfers has arrived.
LEMMA PostingIsKept ==
  ASSUME NEW y, Kept(y), NEW lines, Postable(lines), NEW d, d = Posting(NextId(y), Today, lines),
         \A b \in DOMAIN Buckets :
           Unpromised(y.documents, b) + Value(At(b, Entered(d))) >= Unfit[b].damaged + Unfit[b].hold,
         \A b \in DOMAIN Buckets : Value(Transfers(Pieces(b), Entered(d))) = 0
  PROVE  IsKept(Posted(y, lines))
<1> DEFINE n == NextId(y)
           D == y.documents
           E == With(D, n, d)
<1>2. IsDocument(d) /\ d.id = n
  BY PostingSays
<1>3. SoundAll(E) /\ AgreeBut(D, E, n) /\ Own(E, n) = Entered(d) /\ Own(D, n) = {}
  BY <1>2, PostingIsNew
<1>4. Own(D, n) = {}
  BY <1>3
<1> HIDE DEF E, n
<1>5. \A b \in DOMAIN Buckets : Value(At(b, Own(D, n))) = 0
  <2>1. \A b : At(b, Own(D, n)) = {}
    BY <1>4 DEF At
  <2> QED
    BY <2>1, ValueEmpty
<1>6. \A b \in DOMAIN Buckets : Value(Transfers(Pieces(b), Own(D, n))) = 0
  <2>1. \A b : Transfers(Pieces(b), Own(D, n)) = {}
    BY <1>4 DEF Transfers
  <2> QED
    BY <2>1, ValueEmpty
<1>7. ASSUME NEW b \in DOMAIN Buckets
      PROVE  Unpromised(D, b) - Value(At(b, Own(D, n))) + Value(At(b, Own(E, n))) >= Unfit[b].damaged + Unfit[b].hold
  <2>1. SoundAll(D)
    BY KeptDocuments
  <2>2. Unpromised(D, b) \in Int
    BY <2>1, Figures
  <2>3. Unpromised(D, b) + Value(At(b, Own(E, n))) >= Unfit[b].damaged + Unfit[b].hold
    BY <1>3
  <2>4. Value(At(b, Own(D, n))) = 0
    BY <1>5
  <2> QED
    BY <2>2, <2>3, <2>4
<1>8. \A b \in DOMAIN Buckets : Value(Transfers(Pieces(b), Own(E, n))) = Value(Transfers(Pieces(b), Own(D, n)))
  BY <1>3, <1>6
<1>9. IsKept(WithDocuments(y, E))
  BY <1>3, <1>7, <1>8, ChangedIsKept
<1> QED
  BY <1>9 DEF Posted, E, n

\* What an item says is whole.
LEMMA ItemSays ==
  ASSUME NEW y, Kept(y), NEW b \in DOMAIN y.items
  PROVE  /\ y.items[b].quantity \in Int /\ y.items[b].allocated \in Int
         /\ y.items[b].damaged \in Int /\ y.items[b].hold \in Int
<1>1. /\ y.items[b].quantity \in Int /\ y.items[b].allocated \in Int
      /\ y.items[b].damaged = Unfit[b].damaged /\ y.items[b].hold = Unfit[b].hold
      /\ Unfit[b].damaged \in Nat /\ Unfit[b].hold \in Nat
  BY KeptItems
<1> QED
  BY <1>1

\* The items are finitely many.
LEMMA FewItems ==
  ASSUME NEW y, Kept(y)
  PROVE  IsFiniteSet(DOMAIN y.items) /\ DOMAIN y.items \subseteq DOMAIN Buckets
<1> DEFINE M == Movements(y.documents)
           f == [m \in M |-> m.bucket]
<1>1. DOMAIN y.items = {m.bucket : m \in M}
  BY DEF Kept, IsKept, Items, ItemsFrom
<1>2. IsFiniteSet(M)
  BY KeptDocuments, LedgerRows DEF Rows
<1> HIDE DEF M
<1>3. IsFiniteSet({f[m] : m \in M})
  BY <1>2, ImageFinite
<1>4. {f[m] : m \in M} = {m.bucket : m \in M}
  OBVIOUS
<1>5. DOMAIN y.items \subseteq DOMAIN Buckets
  BY KeptItems
<1> QED
  BY <1>1, <1>3, <1>4, <1>5

\* Corrections of buckets that are known, by whole numbers.
Correcting(type, changes) ==
  /\ type \notin {"TRANSFER_IN", "TRANSFER_OUT"}
  /\ IsFiniteSet(Effective(changes)) /\ Effective(changes) \subseteq DOMAIN Buckets
  /\ \A b \in Effective(changes) : changes[b].quantity \in Int

\* Of every bucket that is changed there is one row, with its change.
LEMMA ChangesSay ==
  ASSUME NEW type, NEW changes, Correcting(type, changes), NEW n, NEW date, NEW d, d = Posting(n, date, ChangesPosted(type, changes))
  PROVE  /\ Postable(ChangesPosted(type, changes))
         /\ \A b \in Effective(changes) : Value(At(b, Entered(d))) = changes[b].quantity
         /\ \A b : b \notin Effective(changes) => Value(At(b, Entered(d))) = 0
         /\ \A piece : Value(Transfers(piece, Entered(d))) = 0
<1> DEFINE S == Effective(changes)
           order == SetToSeq(S)
           lines == ChangesPosted(type, changes)
<1>1. /\ order \in [1 .. Len(order) -> S] /\ Len(order) \in Nat /\ IsList(order)
      /\ \A i, j \in 1 .. Len(order) : order[i] = order[j] => i = j
      /\ \A x \in S : \E i \in 1 .. Len(order) : order[i] = x
  BY SomeOrder DEF Correcting
<1>2. lines = [i \in DOMAIN order |-> PostedLine(order[i], type, changes[order[i]].quantity, changes[order[i]].pallets)]
  BY DEF ChangesPosted, Each
<1> HIDE DEF order, lines, S
<1>3. DOMAIN lines = 1 .. Len(order)
  BY <1>1, <1>2
<1>4. ASSUME NEW j \in DOMAIN lines
      PROVE  /\ lines[j].bucket = order[j] /\ lines[j].type = type /\ lines[j].change = changes[order[j]].quantity
             /\ order[j] \in S /\ changes[order[j]].quantity \in Int /\ order[j] \in DOMAIN Buckets
  <2>1. lines[j] = PostedLine(order[j], type, changes[order[j]].quantity, changes[order[j]].pallets)
    BY <1>2
  <2>2. lines[j].bucket = order[j] /\ lines[j].type = type /\ lines[j].change = changes[order[j]].quantity
    BY <2>1 DEF PostedLine
  <2>3. order[j] \in S
    BY <1>1, <1>3
  <2> QED
    BY <2>2, <2>3 DEF S, Correcting
<1>5. Postable(lines)
  <2>1. lines \in [1 .. Len(order) -> ToSet(lines)]
    BY <1>2, <1>3 DEF ToSet
  <2>2. Decoded(lines)
    BY <1>1, <2>1 DEF Decoded
  <2> QED
    BY <1>4, <2>2 DEF Postable
<1>6. /\ Entered(d) = {PostedRow(d, j) : j \in DOMAIN lines} /\ Rows(Entered(d)) /\ d.lines = lines
  BY <1>5, PostingSays DEF lines
<1>7. \A j \in DOMAIN lines :
        LET row == PostedRow(d, j)
        IN /\ row.bucket = order[j] /\ row.type = type /\ row.change = changes[order[j]].quantity
  BY <1>4, <1>6 DEF PostedRow
<1>8. ASSUME NEW b \in S PROVE Value(At(b, Entered(d))) = changes[b].quantity
  <2>1. PICK i \in DOMAIN lines : order[i] = b
    BY <1>1, <1>3
  <2>2. At(b, Entered(d)) = {PostedRow(d, i)}
    <3>1. \A m \in Entered(d) : m.bucket = b => m = PostedRow(d, i)
      BY <1>1, <1>3, <1>6, <1>7, <2>1
    <3>2. PostedRow(d, i) \in Entered(d) /\ PostedRow(d, i).bucket = b
      BY <1>6, <1>7, <2>1
    <3> QED
      BY <3>1, <3>2 DEF At
  <2>3. PostedRow(d, i).change = changes[b].quantity /\ PostedRow(d, i).change \in Int
    BY <1>4, <1>7, <2>1
  <2> QED
    BY <2>2, <2>3, ValueSingle
<1>9. ASSUME NEW b, b \notin S PROVE Value(At(b, Entered(d))) = 0
  <2>1. \A m \in Entered(d) : m.bucket # b
    BY <1>4, <1>6, <1>7, <1>9
  <2>2. At(b, Entered(d)) = {}
    BY <2>1 DEF At
  <2> QED
    BY <2>2, ValueEmpty
<1>10. ASSUME NEW piece PROVE Value(Transfers(piece, Entered(d))) = 0
  <2>1. \A m \in Entered(d) : ~IsTransfer(m)
    BY <1>6, <1>7 DEF IsTransfer, Correcting
  <2>2. Transfers(piece, Entered(d)) = {}
    BY <2>1 DEF Transfers
  <2> QED
    BY <2>2, ValueEmpty
<1> QED
  BY <1>5, <1>8, <1>9, <1>10 DEF S, lines

\* What is corrected leaves what is promised and held back.
LEMMA ChangesKept ==
  ASSUME NEW y, Kept(y), NEW type, type \notin {"TRANSFER_IN", "TRANSFER_OUT"}, NEW changes,
         DOMAIN changes \subseteq DOMAIN y.items,
         \A b \in DOMAIN changes : changes[b].quantity \in Int,
         \A b \in Effective(changes) :
           y.items[b].quantity + changes[b].quantity >= y.items[b].allocated + y.items[b].damaged + y.items[b].hold
  PROVE  IsKept(Posted(y, ChangesPosted(type, changes)))
<1> DEFINE lines == ChangesPosted(type, changes)
           d == Posting(NextId(y), Today, lines)
           S == Effective(changes)
<1>1. S \subseteq DOMAIN y.items /\ S \subseteq DOMAIN changes
  BY DEF Effective
<1>2. IsFiniteSet(S) /\ S \subseteq DOMAIN Buckets
  BY <1>1, FewItems, FS_Subset
<1>3. /\ Postable(lines) /\ \A b \in S : Value(At(b, Entered(d))) = changes[b].quantity
      /\ \A b : b \notin S => Value(At(b, Entered(d))) = 0
      /\ \A piece : Value(Transfers(piece, Entered(d))) = 0
  <2>1. d = Posting(NextId(y), Today, ChangesPosted(type, changes))
    OBVIOUS
  <2>2. \A b \in Effective(changes) : changes[b].quantity \in Int
    BY <1>1
  <2>3. Correcting(type, changes)
    BY <1>2, <2>2 DEF Correcting
  <2> HIDE DEF d, S, lines
  <2>4. Postable(ChangesPosted(type, changes))
    BY <2>1, <2>3, ChangesSay
  <2>5. \A b \in Effective(changes) : Value(At(b, Entered(d))) = changes[b].quantity
    BY <2>1, <2>3, ChangesSay
  <2>6. \A b : b \notin Effective(changes) => Value(At(b, Entered(d))) = 0
    BY <2>1, <2>3, ChangesSay
  <2>7. \A piece : Value(Transfers(piece, Entered(d))) = 0
    BY <2>1, <2>3, ChangesSay
  <2> QED
    BY <2>4, <2>5, <2>6, <2>7 DEF S, lines
<1> HIDE DEF d, lines
<1>4. ASSUME NEW b \in DOMAIN Buckets
      PROVE  Unpromised(y.documents, b) + Value(At(b, Entered(d))) >= Unfit[b].damaged + Unfit[b].hold
  <2>1. SoundAll(y.documents)
    BY KeptDocuments
  <2>2. Unpromised(y.documents, b) \in Int /\ Unpromised(y.documents, b) >= Unfit[b].damaged + Unfit[b].hold
    BY <2>1, Figures DEF Kept, IsKept
  <2>3. CASE b \notin S
    <3>1. Value(At(b, Entered(d))) = 0
      BY <1>3, <2>3
    <3> QED
      BY <2>2, <3>1
  <2>4. CASE b \in S
    <3>1. /\ y.items[b].quantity \in Int /\ y.items[b].allocated \in Int
          /\ y.items[b].damaged = Unfit[b].damaged /\ y.items[b].hold = Unfit[b].hold
          /\ Unfit[b].damaged \in Nat /\ Unfit[b].hold \in Nat
          /\ y.items[b].quantity - y.items[b].allocated = Unpromised(y.documents, b)
      BY <1>1, <2>4, KeptItems
    <3>2. changes[b].quantity \in Int
      BY <1>1, <2>4
    <3>3. y.items[b].quantity + changes[b].quantity >= y.items[b].allocated + y.items[b].damaged + y.items[b].hold
      BY <2>4
    <3>4. Value(At(b, Entered(d))) = changes[b].quantity
      BY <1>3, <2>4
    <3> QED
      BY <2>2, <3>1, <3>2, <3>3, <3>4
  <2> QED
    BY <2>3, <2>4
<1>5. IsKept(Posted(y, lines))
  BY <1>3, <1>4, PostingIsKept DEF d
<1> QED
  BY <1>5 DEF lines

\* What is adjusted leaves what is promised and held back (applyInventoryAdjustment).
LEMMA AdjustmentKept ==
  ASSUME NEW y, Kept(y), NEW lines
  PROVE  IsKept(PostAdjustment(y, lines).yard)
<1> DEFINE changes == AdjustmentChanges(lines, y.items)
           refused == AdjustmentRefused(lines, y.items)
           changed == Posted(y, ChangesPosted("ADJUST", changes))
<1>1. ASSUME ~refused PROVE IsKept(changed)
  <2>1. /\ DOMAIN lines \subseteq DOMAIN y.items /\ Whole(lines)
        /\ \A b \in Effective(changes) :
             ~(y.items[b].quantity + changes[b].quantity < y.items[b].allocated + y.items[b].damaged + y.items[b].hold)
    BY <1>1 DEF AdjustmentRefused
  <2>2. DOMAIN changes = DOMAIN lines
    BY DEF AdjustmentChanges
  <2>3. ASSUME NEW b \in DOMAIN lines PROVE changes[b].quantity \in Int
    <3>1. lines[b].quantity \in Int /\ y.items[b].quantity \in Int
      BY <2>1, KeptItems DEF Whole
    <3>2. changes[b].quantity \in {lines[b].quantity - y.items[b].quantity, lines[b].quantity}
      BY DEF AdjustmentChanges
    <3> QED
      BY <3>1, <3>2
  <2> HIDE DEF changes
  <2>4. ASSUME NEW b \in Effective(changes)
        PROVE  y.items[b].quantity + changes[b].quantity >= y.items[b].allocated + y.items[b].damaged + y.items[b].hold
    <3>1. b \in DOMAIN lines
      BY <2>2 DEF Effective
    <3>2. /\ changes[b].quantity \in Int /\ y.items[b].quantity \in Int /\ y.items[b].allocated \in Int
          /\ y.items[b].damaged \in Int /\ y.items[b].hold \in Int
      BY <2>1, <2>3, <3>1, ItemSays
    <3> QED
      BY <2>1, <3>2
  <2> QED
    BY <2>1, <2>2, <2>3, <2>4, ChangesKept
<1>2. PostAdjustment(y, lines) = Outcome(refused, y, changed, NextId(y))
  BY DEF PostAdjustment
<1> HIDE DEF refused, changed
<1> QED
  BY <1>1, <1>2, OutcomeKept DEF Kept

\* So does what is counted.
LEMMA CountKept ==
  ASSUME NEW y, Kept(y), NEW lines
  PROVE  IsKept(PostCount(y, lines).yard)
<1> DEFINE counts == Counts(lines)
           changes == CountChanges(counts, y.items)
           refused == CountRefused(counts, y.items)
           changed == Posted(y, ChangesPosted("COUNT", changes))
<1>1. ASSUME ~refused PROVE IsKept(changed)
  <2> HIDE DEF counts
  <2>1. /\ DOMAIN counts \subseteq DOMAIN y.items /\ Whole(counts)
        /\ \A b \in DOMAIN counts : ~(counts[b].quantity < y.items[b].allocated + y.items[b].damaged + y.items[b].hold)
    BY <1>1 DEF CountRefused
  <2>2. DOMAIN changes = DOMAIN counts
    BY DEF CountChanges
  <2>3. ASSUME NEW b \in DOMAIN counts
        PROVE  /\ changes[b].quantity = counts[b].quantity - y.items[b].quantity
               /\ counts[b].quantity \in Int /\ y.items[b].quantity \in Int
    BY <2>1, KeptItems DEF CountChanges, Whole
  <2> HIDE DEF changes
  <2>4. ASSUME NEW b \in Effective(changes)
        PROVE  y.items[b].quantity + changes[b].quantity >= y.items[b].allocated + y.items[b].damaged + y.items[b].hold
    <3>1. b \in DOMAIN counts
      BY <2>2 DEF Effective
    <3>2. y.items[b].allocated \in Int /\ y.items[b].damaged \in Int /\ y.items[b].hold \in Int
      BY <2>1, <3>1, ItemSays
    <3>3. ~(counts[b].quantity < y.items[b].allocated + y.items[b].damaged + y.items[b].hold)
      BY <2>1, <3>1
    <3>4. changes[b].quantity = counts[b].quantity - y.items[b].quantity
          /\ counts[b].quantity \in Int /\ y.items[b].quantity \in Int
      BY <2>3, <3>1
    <3> QED
      BY <3>2, <3>3, <3>4
  <2> QED
    BY <2>1, <2>2, <2>3, <2>4, ChangesKept
<1>2. PostCount(y, lines) = Outcome(refused, y, changed, NextId(y))
  BY DEF PostCount
<1> HIDE DEF refused, changed
<1> QED
  BY <1>1, <1>2, OutcomeKept DEF Kept

-----------------------------------------------------------------------------
(* Transfers *)

\* What of each item can go, and where it can stand.
Movable(items, lines, to) ==
  /\ IsFiniteSet(DOMAIN lines) /\ DOMAIN lines \subseteq DOMAIN items
  /\ \A b \in DOMAIN lines : /\ lines[b].quantity \in Int /\ lines[b].quantity >= 0
                             /\ lines[b].quantity <= AvailableOn(items, {b}) /\ Standing(b, to) # {}

\* For every line something leaves, and as much comes to where its cartons can stand.
LEMMA TransferLinesSay ==
  ASSUME NEW lines, NEW to, IsFiniteSet(DOMAIN lines)
  PROVE  LET posted == TransferPosted(lines, to)
             order == SetToSeq(DOMAIN lines)
             k == Len(order)
         IN /\ Decoded(posted) /\ DOMAIN posted = 1 .. k + k /\ k \in Nat
            /\ \A i \in 1 .. k :
                 /\ order[i] \in DOMAIN lines
                 /\ posted[i] = PostedLine(order[i], "TRANSFER_OUT", -lines[order[i]].quantity, -lines[order[i]].pallets)
                 /\ posted[k + i] = PostedLine(Arrival(order[i], to), "TRANSFER_IN", lines[order[i]].quantity,
                                               lines[order[i]].arriving)
            /\ \A i, j \in 1 .. k : order[i] = order[j] => i = j
<1> DEFINE posted == TransferPosted(lines, to)
           order == SetToSeq(DOMAIN lines)
           k == Len(order)
           out == [i \in 1 .. k |-> PostedLine(order[i], "TRANSFER_OUT", -lines[order[i]].quantity, -lines[order[i]].pallets)]
           in == [i \in 1 .. k |-> PostedLine(Arrival(order[i], to), "TRANSFER_IN", lines[order[i]].quantity,
                                              lines[order[i]].arriving)]
           R == ToSet(out) \cup ToSet(in)
<1>1. /\ order \in [1 .. k -> DOMAIN lines] /\ k \in Nat
      /\ \A i, j \in 1 .. k : order[i] = order[j] => i = j
  BY SomeOrder
<1>2. posted = out \o in
  <2>1. DOMAIN order = 1 .. k
    BY <1>1
  <2> QED
    BY <2>1 DEF TransferPosted, Each
<1>3. out \in [1 .. k -> R] /\ in \in [1 .. k -> R]
  BY DEF ToSet
<1>4. \A i \in 1 .. k :
        /\ out[i] = PostedLine(order[i], "TRANSFER_OUT", -lines[order[i]].quantity, -lines[order[i]].pallets)
        /\ in[i] = PostedLine(Arrival(order[i], to), "TRANSFER_IN", lines[order[i]].quantity, lines[order[i]].arriving)
  OBVIOUS
<1> HIDE DEF out, in, R, order, k, posted
<1>5. out \in Seq(R) /\ in \in Seq(R) /\ Len(out) = k /\ Len(in) = k
  BY <1>1, <1>3
<1>6. /\ posted \in Seq(R) /\ Len(posted) = k + k
      /\ \A i \in 1 .. k : posted[i] = out[i]
      /\ \A i \in 1 .. k : posted[k + i] = in[i]
  <2>1. posted \in Seq(R) /\ Len(posted) = k + k
    BY <1>2, <1>5, ConcatProperties
  <2>2. \A i \in 1 .. k + k : posted[i] = IF i <= k THEN out[i] ELSE in[i - k]
    BY <1>2, <1>5, ConcatProperties
  <2>3. \A i \in 1 .. k : /\ i \in 1 .. k + k /\ i <= k
                          /\ k + i \in 1 .. k + k /\ ~(k + i <= k) /\ (k + i) - k = i
    BY <1>1
  <2>4. \A i \in 1 .. k : posted[i] = out[i]
    BY <2>2, <2>3
  <2>5. \A i \in 1 .. k : posted[k + i] = in[i]
    BY <2>2, <2>3
  <2> QED
    BY <2>1, <2>4, <2>5
<1>7. DOMAIN posted = 1 .. k + k
  BY <1>1, <1>6
<1>8. Decoded(posted)
  <2>1. posted \in [1 .. k + k -> ToSet(posted)] /\ k + k \in Nat
    BY <1>1, <1>6, <1>7 DEF ToSet
  <2> QED
    BY <2>1 DEF Decoded
<1> QED
  BY <1>1, <1>4, <1>6, <1>7, <1>8 DEF posted, order, k

\* The rows that take, one for each line, and those that bring, one for each of them.
Balanced(rows, lines) ==
  \E Outs, Ins :
    /\ rows = Outs \cup Ins /\ Outs \cap Ins = {} /\ Rows(Outs) /\ Rows(Ins)
    /\ \A m \in Outs : /\ m.bucket \in DOMAIN lines /\ m.change = -lines[m.bucket].quantity /\ IsTransfer(m)
                       /\ \A o \in Outs : o.bucket = m.bucket => o = m
    /\ \A m \in Ins : m.change >= 0 /\ IsTransfer(m)
    /\ \E g \in Bijection(Outs, Ins) :
         \A m \in Outs : g[m].change = -m.change /\ Pieces(g[m].bucket) = Pieces(m.bucket)

\* What is posted of a transfer balances.
LEMMA TransferRows ==
  ASSUME NEW items, DOMAIN items \subseteq DOMAIN Buckets, NEW lines, NEW to, Movable(items, lines, to),
         NEW n, NEW date, NEW d, d = Posting(n, date, TransferPosted(lines, to))
  PROVE  /\ Postable(TransferPosted(lines, to))
         /\ Balanced(Entered(d), lines)
<1> DEFINE posted == TransferPosted(lines, to)
           order == SetToSeq(DOMAIN lines)
           k == Len(order)
           Outs == {PostedRow(d, i) : i \in 1 .. k}
           Ins == {PostedRow(d, k + i) : i \in 1 .. k}
<1>0. IsFiniteSet(DOMAIN lines)
  BY DEF Movable
<1>1. /\ Decoded(posted) /\ DOMAIN posted = 1 .. k + k /\ k \in Nat
      /\ \A i \in 1 .. k :
           /\ order[i] \in DOMAIN lines
           /\ posted[i] = PostedLine(order[i], "TRANSFER_OUT", -lines[order[i]].quantity, -lines[order[i]].pallets)
           /\ posted[k + i] = PostedLine(Arrival(order[i], to), "TRANSFER_IN", lines[order[i]].quantity,
                                         lines[order[i]].arriving)
      /\ \A i, j \in 1 .. k : order[i] = order[j] => i = j
  BY <1>0, TransferLinesSay
<1> HIDE DEF posted, order, k
<1>2. \A b \in DOMAIN lines :
        /\ b \in DOMAIN Buckets /\ lines[b].quantity \in Int /\ lines[b].quantity >= 0
        /\ Arrival(b, to) \in DOMAIN Buckets /\ Pieces(Arrival(b, to)) = Pieces(b)
  <2> SUFFICES ASSUME NEW b \in DOMAIN lines
               PROVE  /\ b \in DOMAIN Buckets /\ lines[b].quantity \in Int /\ lines[b].quantity >= 0
                      /\ Arrival(b, to) \in DOMAIN Buckets /\ Pieces(Arrival(b, to)) = Pieces(b)
    OBVIOUS
  <2>1. b \in DOMAIN Buckets /\ lines[b].quantity \in Int /\ lines[b].quantity >= 0 /\ Standing(b, to) # {}
    BY DEF Movable
  <2>2. Arrival(b, to) \in Standing(b, to)
    BY <2>1 DEF Arrival
  <2>3. Arrival(b, to) \in DOMAIN Buckets /\ Identity(Arrival(b, to)) = Identity(b)
        /\ Buckets[Arrival(b, to)].sku = Buckets[b].sku
    BY <2>2 DEF Standing
  <2>4. Pieces(Arrival(b, to)) = Pieces(b)
    BY <2>3 DEF Pieces, Identity
  <2> QED
    BY <2>1, <2>3, <2>4
<1>3. ASSUME NEW i \in 1 .. k
      PROVE  /\ posted[i].bucket = order[i] /\ posted[i].change = -lines[order[i]].quantity
             /\ posted[i].type = "TRANSFER_OUT"
             /\ posted[k + i].bucket = Arrival(order[i], to) /\ posted[k + i].change = lines[order[i]].quantity
             /\ posted[k + i].type = "TRANSFER_IN"
  <2>1. posted[i] = PostedLine(order[i], "TRANSFER_OUT", -lines[order[i]].quantity, -lines[order[i]].pallets)
    BY <1>1
  <2>2. posted[k + i] = PostedLine(Arrival(order[i], to), "TRANSFER_IN", lines[order[i]].quantity,
                                   lines[order[i]].arriving)
    BY <1>1
  <2>3. posted[i].bucket = order[i] /\ posted[i].change = -lines[order[i]].quantity /\ posted[i].type = "TRANSFER_OUT"
    BY <2>1 DEF PostedLine
  <2> QED
    BY <2>2, <2>3 DEF PostedLine
<1>4. \A j \in DOMAIN posted : j \in 1 .. k \/ \E i \in 1 .. k : j = k + i
  <2> SUFFICES ASSUME NEW j \in DOMAIN posted, j \notin 1 .. k PROVE \E i \in 1 .. k : j = k + i
    OBVIOUS
  <2>1. j - k \in 1 .. k /\ j = k + (j - k)
    BY <1>1
  <2> QED
    BY <2>1
<1>5. Postable(posted)
  <2>1. ASSUME NEW i \in 1 .. k
        PROVE  /\ posted[i].change \in Int /\ posted[i].bucket \in DOMAIN Buckets
               /\ posted[k + i].change \in Int /\ posted[k + i].bucket \in DOMAIN Buckets
    <3>1. order[i] \in DOMAIN lines
      BY <1>1
    <3>2. /\ order[i] \in DOMAIN Buckets /\ Arrival(order[i], to) \in DOMAIN Buckets
          /\ lines[order[i]].quantity \in Int
      BY <1>2, <3>1
    <3>3. /\ posted[i].bucket = order[i] /\ posted[i].change = -lines[order[i]].quantity
          /\ posted[k + i].bucket = Arrival(order[i], to) /\ posted[k + i].change = lines[order[i]].quantity
      BY <1>3
    <3>4. posted[i].change \in Int
      BY <3>2, <3>3
    <3> QED
      BY <3>2, <3>3, <3>4
  <2> QED
    BY <1>1, <1>4, <2>1 DEF Postable
<1>6. /\ Entered(d) = {PostedRow(d, j) : j \in DOMAIN posted} /\ Rows(Entered(d)) /\ d.lines = posted
  BY <1>5, PostingSays DEF posted
<1>7. \A j : /\ PostedRow(d, j).line = <<j>> /\ PostedRow(d, j).bucket = posted[j].bucket
             /\ PostedRow(d, j).change = posted[j].change /\ PostedRow(d, j).type = posted[j].type
  BY <1>6 DEF PostedRow
<1>8. \A i, j : PostedRow(d, i) = PostedRow(d, j) => i = j
  <2>1. \A i, j : PostedRow(d, i) = PostedRow(d, j) => <<i>> = <<j>>
    BY <1>7
  <2> QED
    BY <2>1
<1>9. Entered(d) = Outs \cup Ins
  <2>1. \A i \in 1 .. k : i \in DOMAIN posted /\ k + i \in DOMAIN posted
    BY <1>1
  <2> QED
    BY <1>4, <1>6, <2>1
<1>10. Outs \cap Ins = {}
  <2> SUFFICES ASSUME NEW i \in 1 .. k, NEW j \in 1 .. k, PostedRow(d, i) = PostedRow(d, k + j) PROVE FALSE
    OBVIOUS
  <2>1. i = k + j
    BY <1>8
  <2> QED
    BY <1>1, <2>1
<1>11. Rows(Outs) /\ Rows(Ins)
  <2>1. Outs \subseteq Entered(d) /\ Ins \subseteq Entered(d)
    BY <1>9
  <2> QED
    BY <1>6, <2>1, FS_Subset DEF Rows
<1>12. ASSUME NEW m \in Outs
       PROVE  /\ m.bucket \in DOMAIN lines /\ m.change = -lines[m.bucket].quantity /\ IsTransfer(m)
              /\ \A o \in Outs : o.bucket = m.bucket => o = m
  <2>1. PICK i \in 1 .. k : m = PostedRow(d, i)
    OBVIOUS
  <2>2. m.bucket = order[i] /\ m.change = -lines[order[i]].quantity /\ m.type = "TRANSFER_OUT" /\ order[i] \in DOMAIN lines
    BY <1>1, <1>3, <1>7, <2>1
  <2>3. ASSUME NEW o \in Outs, o.bucket = m.bucket PROVE o = m
    <3>1. PICK j \in 1 .. k : o = PostedRow(d, j)
      OBVIOUS
    <3>2. o.bucket = order[j]
      BY <1>3, <1>7, <3>1
    <3> QED
      BY <1>1, <2>1, <2>2, <2>3, <3>1, <3>2
  <2> QED
    BY <2>2, <2>3 DEF IsTransfer
<1>13. ASSUME NEW m \in Ins PROVE m.change >= 0 /\ IsTransfer(m)
  <2>1. PICK i \in 1 .. k : m = PostedRow(d, k + i)
    OBVIOUS
  <2>2. m.change = lines[order[i]].quantity /\ m.type = "TRANSFER_IN" /\ order[i] \in DOMAIN lines
    BY <1>1, <1>3, <1>7, <2>1
  <2> QED
    BY <1>2, <2>2 DEF IsTransfer
<1>14. \E g \in Bijection(Outs, Ins) :
         \A m \in Outs : g[m].change = -m.change /\ Pieces(g[m].bucket) = Pieces(m.bucket)
  <2> DEFINE g == [m \in Outs |-> PostedRow(d, k + m.line[1])]
  <2>1. \A i \in 1 .. k : PostedRow(d, i) \in Outs /\ PostedRow(d, i).line[1] = i
    BY <1>7
  <2>2. \A i \in 1 .. k : g[PostedRow(d, i)] = PostedRow(d, k + i)
    BY <2>1
  <2>3. DOMAIN g = Outs
    OBVIOUS
  <2> HIDE DEF g
  <2>4. \A m \in Outs : g[m] \in Ins
    BY <2>2
  <2>5. \A m, o \in Outs : g[m] = g[o] => m = o
    <3> SUFFICES ASSUME NEW i \in 1 .. k, NEW j \in 1 .. k, g[PostedRow(d, i)] = g[PostedRow(d, j)]
                 PROVE  PostedRow(d, i) = PostedRow(d, j)
      OBVIOUS
    <3>1. PostedRow(d, k + i) = PostedRow(d, k + j)
      BY <2>2
    <3>2. k + i = k + j
      BY <1>8, <3>1
    <3>3. i = j
      BY <1>1, <3>2
    <3> QED
      BY <3>3
  <2>6. \A m \in Ins : \E o \in Outs : g[o] = m
    BY <2>1, <2>2
  <2>7. g = [m \in Outs |-> g[m]]
    BY DEF g
  <2>8. g \in Bijection(Outs, Ins)
    <3>1. g \in [Outs -> Ins]
      BY <2>4, <2>7
    <3>2. g \in Injection(Outs, Ins)
      BY <2>5, <3>1 DEF Injection, IsInjective
    <3>3. g \in Surjection(Outs, Ins)
      BY <2>6, <3>1 DEF Surjection
    <3> QED
      BY <3>2, <3>3 DEF Bijection
  <2>9. ASSUME NEW m \in Outs PROVE g[m].change = -m.change /\ Pieces(g[m].bucket) = Pieces(m.bucket)
    <3>1. PICK i \in 1 .. k : m = PostedRow(d, i)
      OBVIOUS
    <3>2. g[m] = PostedRow(d, k + i) /\ order[i] \in DOMAIN lines
      BY <1>1, <2>2, <3>1
    <3>3. m.bucket = order[i] /\ m.change = -lines[order[i]].quantity
      BY <1>3, <1>7, <3>1
    <3>4. g[m].bucket = Arrival(order[i], to) /\ g[m].change = lines[order[i]].quantity
      BY <1>3, <1>7, <3>2
    <3>5. lines[order[i]].quantity \in Int
      BY <1>2, <3>2
    <3>6. g[m].change = -m.change
      BY <3>3, <3>4, <3>5
    <3>7. Pieces(g[m].bucket) = Pieces(m.bucket)
      BY <1>2, <3>2, <3>3, <3>4
    <3> QED
      BY <3>6, <3>7
  <2> QED
    BY <2>8, <2>9
<1> HIDE DEF Outs, Ins
<1>15. Balanced(Entered(d), lines)
  BY <1>9, <1>10, <1>11, <1>12, <1>13, <1>14 DEF Balanced
<1> QED
  BY <1>5, <1>15 DEF posted

\* What is transferred leaves what is promised and held back where it stood, and arrives.
LEMMA MovingKept ==
  ASSUME NEW y, Kept(y), NEW lines, NEW to, Movable(y.items, lines, to)
  PROVE  IsKept(Posted(y, TransferPosted(lines, to)))
<1> DEFINE posted == TransferPosted(lines, to)
           d == Posting(NextId(y), Today, posted)
<1>1. Postable(posted) /\ Balanced(Entered(d), lines)
  <2>1. DOMAIN y.items \subseteq DOMAIN Buckets
    BY FewItems
  <2>2. d = Posting(NextId(y), Today, TransferPosted(lines, to))
    OBVIOUS
  <2> HIDE DEF d
  <2>3. Postable(TransferPosted(lines, to))
    BY <2>1, <2>2, TransferRows
  <2>4. Balanced(Entered(d), lines)
    BY <2>1, <2>2, TransferRows
  <2> QED
    BY <2>3, <2>4
<1>2. PICK Outs, Ins :
        /\ Entered(d) = Outs \cup Ins /\ Outs \cap Ins = {} /\ Rows(Outs) /\ Rows(Ins)
        /\ \A m \in Outs : /\ m.bucket \in DOMAIN lines /\ m.change = -lines[m.bucket].quantity /\ IsTransfer(m)
                           /\ \A o \in Outs : o.bucket = m.bucket => o = m
        /\ \A m \in Ins : m.change >= 0 /\ IsTransfer(m)
        /\ \E g \in Bijection(Outs, Ins) :
             \A m \in Outs : g[m].change = -m.change /\ Pieces(g[m].bucket) = Pieces(m.bucket)
  BY <1>1 DEF Balanced
<1>3. PICK g \in Bijection(Outs, Ins) :
        \A m \in Outs : g[m].change = -m.change /\ Pieces(g[m].bucket) = Pieces(m.bucket)
  BY <1>2
<1>4. \A S : Rows(Outs \cap S) /\ Rows(Ins \cap S)
  BY <1>2, ValueParts
<1> HIDE DEF d
<1>5. ASSUME NEW b \in DOMAIN Buckets
      PROVE  Unpromised(y.documents, b) + Value(At(b, Entered(d))) >= Unfit[b].damaged + Unfit[b].hold
  <2> DEFINE gone == At(b, Outs)
             come == At(b, Ins)
  <2>0. SoundAll(y.documents)
    BY KeptDocuments
  <2>1. /\ Unpromised(y.documents, b) \in Int /\ Unpromised(y.documents, b) >= Unfit[b].damaged + Unfit[b].hold
        /\ Unfit[b].damaged \in Nat /\ Unfit[b].hold \in Nat
    BY <2>0, Figures, UnfitAssumption DEF Kept, IsKept
  <2>2. At(b, Entered(d)) = gone \cup come /\ gone \cap come = {}
    BY <1>2 DEF At
  <2>3. gone = Outs \cap gone /\ come = Ins \cap come
    BY DEF At
  <2>4. Rows(gone) /\ Rows(come)
    BY <1>4, <2>3
  <2>5. \A m \in come : m.change >= 0
    BY <1>2 DEF At
  <2>6. gone = {} \/ \E m \in Outs : gone = {m} /\ m.bucket = b
    BY <1>2 DEF At
  <2> HIDE DEF gone, come
  <2>7. Value(come) \in Int /\ Value(come) >= 0
    BY <2>4, <2>5, ValueOfGains
  <2>8. Value(gone) \in Int /\ Value(At(b, Entered(d))) = Value(gone) + Value(come)
    BY <2>2, <2>4, ValueUnion
  <2>9. Value(gone) = 0 \/ Unpromised(y.documents, b) + Value(gone) >= Unfit[b].damaged + Unfit[b].hold
    <3>1. CASE gone = {}
      BY <3>1, ValueEmpty
    <3>2. CASE gone # {}
      <4>1. PICK m \in Outs : gone = {m} /\ m.bucket = b
        BY <2>6, <3>2
      <4>2. m.change = -lines[b].quantity /\ b \in DOMAIN lines
        BY <1>2, <4>1
      <4>3. /\ lines[b].quantity \in Int /\ b \in DOMAIN y.items
            /\ lines[b].quantity <= AvailableOn(y.items, {b})
        BY <4>2 DEF Movable
      <4>4. AvailableOn(y.items, {b}) = Unpromised(y.documents, b) - Unfit[b].damaged - Unfit[b].hold
        BY <4>3, KeptItems
      <4>5. m.change \in Int
        BY <4>2, <4>3
      <4>6. Value({m}) = m.change
        BY <4>5, ValueSingle
      <4>7. Value(gone) = -lines[b].quantity
        BY <4>1, <4>2, <4>6
      <4> QED
        BY <2>1, <4>3, <4>4, <4>7
    <3> QED
      BY <3>1, <3>2
  <2> QED
    BY <2>1, <2>7, <2>8, <2>9
<1>6. ASSUME NEW b \in DOMAIN Buckets PROVE Value(Transfers(Pieces(b), Entered(d))) = 0
  <2> DEFINE S == {m \in Outs : Pieces(m.bucket) = Pieces(b)}
             T == {m \in Ins : Pieces(m.bucket) = Pieces(b)}
             h == [m \in S |-> g[m]]
  <2>1. Transfers(Pieces(b), Entered(d)) = S \cup T /\ S \cap T = {}
    BY <1>2 DEF Transfers
  <2>2. S = Outs \cap S /\ T = Ins \cap T
    OBVIOUS
  <2>3. Rows(S) /\ Rows(T)
    BY <1>4, <2>2
  <2>4. /\ g \in [Outs -> Ins] /\ \A m, o \in Outs : g[m] = g[o] => m = o
        /\ \A m \in Ins : \E o \in Outs : g[o] = m
    BY <1>3 DEF Bijection, Injection, Surjection, IsInjective
  <2>5. h \in [S -> T]
    BY <1>3, <2>4
  <2>6. \A m \in S : h[m] = g[m]
    OBVIOUS
  <2>7. \A m \in T : \E o \in S : h[o] = m
    BY <1>3, <2>4
  <2>8. \A m, o \in S : h[m] = h[o] => m = o
    BY <2>4, <2>6
  <2>9. h \in Bijection(S, T)
    <3> HIDE DEF h, S, T
    <3>1. h \in Injection(S, T)
      BY <2>5, <2>8 DEF Injection, IsInjective
    <3>2. h \in Surjection(S, T)
      BY <2>5, <2>7 DEF Surjection
    <3> QED
      BY <3>1, <3>2 DEF Bijection
  <2>10. \A m \in S : h[m].change = -m.change
    BY <1>3, <2>6
  <2> HIDE DEF h, S, T
  <2>11. Value(S) \in Int /\ Value(T) = -Value(S)
    <3>1. \A m \in T : m.change \in Int
      BY <2>3 DEF Rows
    <3> QED
      BY <2>3, <2>9, <2>10, <3>1, ValueMirror
  <2>12. Value(S \cup T) = Value(S) + Value(T)
    BY <2>1, <2>3, ValueUnion
  <2> QED
    BY <2>1, <2>11, <2>12
<1>7. IsKept(Posted(y, posted))
  BY <1>1, <1>5, <1>6, PostingIsKept DEF d
<1> QED
  BY <1>7

\* All that stands somewhere can go if nothing of it is held back.
LEMMA EntireMovable ==
  ASSUME NEW y, Kept(y), NEW S, NEW to, DOMAIN TransferLines(y.items, S, "ENTIRE") \subseteq DOMAIN y.items,
         ~EntireRefused(TransferLines(y.items, S, "ENTIRE"), to, y.items)
  PROVE  Movable(y.items, TransferLines(y.items, S, "ENTIRE"), to)
<1> DEFINE lines == TransferLines(y.items, S, "ENTIRE")
<1>1. DOMAIN lines = S /\ S \subseteq DOMAIN y.items
  BY DEF TransferLines
<1>2. IsFiniteSet(S)
  BY <1>1, FewItems, FS_Subset
<1>3. \A b \in S : ~(lines[b].quantity > AvailableOn(y.items, {b})) /\ Standing(b, to) # {}
  BY <1>1 DEF EntireRefused, TransferRefused
<1>4. \A b \in S : lines[b].quantity = y.items[b].quantity
  BY DEF TransferLines, TransferLine
<1> HIDE DEF lines
<1>5. ASSUME NEW b \in S
      PROVE  /\ lines[b].quantity \in Int /\ lines[b].quantity >= 0
             /\ lines[b].quantity <= AvailableOn(y.items, {b})
  <2>1. /\ y.items[b].quantity \in Int /\ y.items[b].allocated \in Int /\ y.items[b].allocated >= 0
        /\ Unfit[b].damaged \in Nat /\ Unfit[b].hold \in Nat
        /\ y.items[b].quantity - y.items[b].allocated = Unpromised(y.documents, b)
        /\ Unpromised(y.documents, b) \in Int
        /\ Unpromised(y.documents, b) >= Unfit[b].damaged + Unfit[b].hold
        /\ AvailableOn(y.items, {b}) = Unpromised(y.documents, b) - Unfit[b].damaged - Unfit[b].hold
    BY <1>1, KeptItems
  <2>2. lines[b].quantity = y.items[b].quantity /\ ~(lines[b].quantity > AvailableOn(y.items, {b}))
    BY <1>3, <1>4
  <2> QED
    BY <2>1, <2>2
<1> QED
  BY <1>1, <1>2, <1>3, <1>5 DEF Movable, lines

\* A part of a container, all of it, or a whole warehouse is transferred.
LEMMA TransferKept ==
  ASSUME NEW y, Kept(y), NEW request
  PROVE  IsKept(PostTransfer(y, request).yard)
<1> DEFINE parts == request.entire = NoContainerKey
           lines == IF parts THEN Moving(request.lines) ELSE EntireLines(y.items, request.entire)
           refused == IF parts THEN ~Whole(request.lines) \/ TransferRefused(lines, request.to, y.items)
                      ELSE EntireRefused(lines, request.to, y.items)
           changed == Posted(y, TransferPosted(lines, request.to))
<1>1. ASSUME ~refused PROVE Movable(y.items, lines, request.to)
  <2>1. CASE parts
    <3>1. lines = Moving(request.lines)
      BY <2>1
    <3>2. Whole(request.lines) /\ ~TransferRefused(lines, request.to, y.items)
      BY <1>1, <2>1
    <3> HIDE DEF lines, parts, refused
    <3>3. /\ DOMAIN lines \subseteq DOMAIN request.lines
          /\ \A b \in DOMAIN lines : lines[b] = request.lines[b] /\ request.lines[b].quantity >= 0
      BY <3>1 DEF Moving, Restrict
    <3>4. /\ DOMAIN lines \subseteq DOMAIN y.items
          /\ \A b \in DOMAIN lines : ~(lines[b].quantity > AvailableOn(y.items, {b})) /\ Standing(b, request.to) # {}
      BY <3>2 DEF TransferRefused
    <3>5. ASSUME NEW b \in DOMAIN lines PROVE lines[b].quantity <= AvailableOn(y.items, {b})
      <4>1. lines[b].quantity \in Int
        BY <3>2, <3>3 DEF Whole
      <4>2. /\ AvailableOn(y.items, {b}) = Unpromised(y.documents, b) - Unfit[b].damaged - Unfit[b].hold
            /\ Unpromised(y.documents, b) \in Int /\ Unfit[b].damaged \in Nat /\ Unfit[b].hold \in Nat
        BY <3>4, KeptItems
      <4>3. ~(lines[b].quantity > AvailableOn(y.items, {b}))
        BY <3>4
      <4> QED
        BY <4>1, <4>2, <4>3
    <3>6. IsFiniteSet(DOMAIN lines)
      BY <3>4, FewItems, FS_Subset
    <3>7. \A b \in DOMAIN lines : lines[b].quantity \in Int /\ lines[b].quantity >= 0
      BY <3>2, <3>3 DEF Whole
    <3> QED
      BY <3>4, <3>5, <3>6, <3>7 DEF Movable
  <2>2. CASE ~parts
    <3> DEFINE S == {b \in DOMAIN y.items : ContainerKey(b) = request.entire /\ IsStocked(b, y.items)}
    <3>1. lines = TransferLines(y.items, S, "ENTIRE")
      BY <2>2 DEF EntireLines
    <3>2. ~EntireRefused(lines, request.to, y.items)
      BY <1>1, <2>2
    <3> HIDE DEF lines, parts, refused
    <3>3. DOMAIN lines \subseteq DOMAIN y.items
      BY <3>2 DEF EntireRefused, TransferRefused
    <3> QED
      BY <3>1, <3>2, <3>3, EntireMovable
  <2> QED
    BY <2>1, <2>2
<1>2. PostTransfer(y, request) = Outcome(refused, y, changed, NextId(y))
  BY DEF PostTransfer
<1> HIDE DEF refused, lines
<1>3. ~refused => IsKept(changed)
  BY <1>1, MovingKept
<1> HIDE DEF changed
<1> QED
  BY <1>2, <1>3, OutcomeKept DEF Kept

\* Everything of a warehouse is transferred if nothing of it is held back.
LEMMA WarehouseKept ==
  ASSUME NEW y, Kept(y), NEW from, NEW to
  PROVE  IsKept(PostWarehouse(y, from, to).yard)
<1> DEFINE S == StockOf(y.items, from)
           lines == TransferLines(y.items, S, "ENTIRE")
           refused == from = to \/ EntireRefused(lines, <<to, Temp>>, y.items)
           changed == Posted(y, TransferPosted(lines, <<to, Temp>>))
<1>1. ASSUME ~refused PROVE IsKept(changed)
  <2>1. ~EntireRefused(lines, <<to, Temp>>, y.items)
    BY <1>1
  <2> HIDE DEF S
  <2>2. DOMAIN lines \subseteq DOMAIN y.items
    BY <2>1 DEF EntireRefused, TransferRefused
  <2>3. Movable(y.items, lines, <<to, Temp>>)
    BY <2>1, <2>2, EntireMovable
  <2> QED
    BY <2>3, MovingKept
<1>2. PostWarehouse(y, from, to) = Outcome(refused, y, changed, NextId(y))
  BY DEF PostWarehouse
<1> HIDE DEF refused, changed
<1> QED
  BY <1>1, <1>2, OutcomeKept DEF Kept

\* Whatever is asked for, the yard stays one that is kept.
LEMMA ServeKept ==
  ASSUME NEW y, Kept(y), NEW request, WellFormed(request)
  PROVE  IsKept(Serve(y, request).yard)
<1>1. /\ \A i : IsKept(Confirm(y, i).yard) /\ IsKept(Copy(y, i).yard) /\ IsKept(Discard(y, i).yard)
      /\ \A i, x : IsKept(Track(y, i, x).yard) /\ IsKept(Annotate(y, i, x).yard)
  BY ConfirmKept, CopyKept, DiscardKept, TrackKept, AnnotateKept
<1>2. request.op = "receipt" => IsKept(SaveReceipt(y, request.id, request.payload).yard)
  BY SaveKept DEF WellFormed
<1>3. \A x : /\ IsKept(ConfirmReceipts(y, x).yard) /\ IsKept(ConfirmShipments(y, x).yard)
             /\ IsKept(RemoveShipments(y, x).yard)
  BY SelectionsKept
<1>4. /\ \A r : IsKept(PostTransfer(y, r).yard)
      /\ \A x, z : IsKept(PostWarehouse(y, x, z).yard)
      /\ \A x : IsKept(PostAdjustment(y, x).yard) /\ IsKept(PostCount(y, x).yard)
  BY TransferKept, WarehouseKept, AdjustmentKept, CountKept
<1>5. /\ \A i, x : IsKept(Retype(y, i, x).yard) /\ IsKept(RetypeBox(y, i, x).yard)
  BY BoxTypeKept, OutcomeKept DEF Retype, RetypeBox, Kept
<1>6. /\ \A x : IsKept(Tell(y, x).yard)
      /\ \A x, z, r : IsKept(PutMaster(y, x, z, r).yard)
      /\ \A x, z : IsKept(DropMaster(y, x, z).yard)
  BY OthersKept
<1> QED
  BY <1>1, <1>2, <1>3, <1>4, <1>5, <1>6 DEF Serve

-----------------------------------------------------------------------------
(* What stands in the yard *)

\* The yards are only ever added to, by what the server makes of a request.
Extended(request) ==
  /\ WellFormed(request)
  /\ log' = Append(log, Serve(log[Newest], request).yard) \/ log' = Append(log, Denied(log[Newest]).yard)

\* A page's click, a question or a load leaves the yards alone.
LEMMA LogGrows ==
  ASSUME LawInv, [Next]_vars
  PROVE  log' = log \/ \E request : Extended(request)
<1>1. CASE Sessions
  BY <1>1 DEF Sessions, SessionFound, SessionMissing, Login, Logout, OpenPortal, ExitPortal
<1>2. CASE Clicks
  <2>1. ASSUME NEW lead, Navigate(lead) PROVE log' = log
    BY <2>1 DEF Navigate
  <2>2. DocumentClicks \/ StockClicks \/ ContainerClicks \/ RecordClicks \/ WarehouseClicks \/ ReportClicks => log' = log
    BY DocumentClicksKeep, StockClicksKeep, ContainerClicksKeep, RecordClicksKeep, WarehouseClicksKeep,
       ReportClicksKeep DEF Routine, KeepsData
  <2> QED
    BY <1>2, <2>1, <2>2 DEF Clicks
<1>3. CASE Fetch
  BY <1>3, FetchKeeps DEF Routine, KeepsData
<1>4. CASE Answer
  <2> DEFINE answer == ServeTo(Role, log[Newest], call.request)
  <2>1. WellFormed(call.request)
    BY <1>4 DEF LawInv, Called, Answer
  <2>2. answer \in {Serve(log[Newest], call.request), Denied(log[Newest])}
    BY DEF ServeTo
  <2>3. Grant(answer) \/ Deny(answer) \/ Lose(answer)
    BY <1>4 DEF Answer
  <2> HIDE DEF answer
  <2>4. log' = log \/ log' = Append(log, answer.yard)
    BY <2>3 DEF Grant, Deny, Lose
  <2>5. log' = log \/ Extended(call.request)
    BY <2>1, <2>2, <2>4 DEF Extended
  <2> QED
    BY <2>5
<1>5. CASE OthersWork
  <2>1. PICK request \in budget.others : \E answer \in {Serve(log[Newest], request)} : log' = Append(log, answer.yard)
    BY <1>5 DEF OthersWork
  <2>2. Extended(request)
    BY <2>1 DEF Extended, LawInv
  <2> QED
    BY <2>2
<1>6. CASE FinishLoad
  BY <1>6 DEF FinishLoad
<1>7. CASE UNCHANGED vars
  BY <1>7 DEF vars, core
<1> QED
  BY <1>1, <1>2, <1>3, <1>4, <1>5, <1>6, <1>7 DEF Next

\* The present yard is kept as the documents say, and so is the next.
KeptInv == LawInv /\ IsKept(log[Newest])

\* The first yard is kept, as is assumed.
LEMMA KeptInit == Init => KeptInv
<1> SUFFICES ASSUME Init PROVE KeptInv
  OBVIOUS
<1>1. log = <<FirstYard>>
  BY DEF Init
<1>2. log[Newest] = FirstYard
  BY <1>1 DEF Newest
<1> QED
  BY <1>2, LawInit, FirstYardAssumption DEF KeptInv

\* Every step leaves a yard that is kept.
LEMMA KeptStep == KeptInv /\ [Next]_vars => KeptInv'
<1> SUFFICES ASSUME KeptInv, [Next]_vars PROVE KeptInv'
  OBVIOUS
<1>1. LawInv /\ LawInv'
  BY LawStep DEF KeptInv
<1>2. CASE log' = log
  BY <1>1, <1>2 DEF KeptInv, Newest
<1>3. ASSUME NEW request, Extended(request) PROVE KeptInv'
  <2> DEFINE y == log[Newest]
  <2>1. Kept(y)
    BY DEF KeptInv, LawInv, Kept
  <2>2. PICK after \in {Serve(y, request).yard, Denied(y).yard} : log' = Append(log, after)
    BY <1>3 DEF Extended
  <2>3. IsKept(Serve(y, request).yard)
    BY <1>3, <2>1, ServeKept DEF Extended
  <2>4. IsKept(Denied(y).yard)
    BY <2>1 DEF Denied, Kept
  <2> HIDE DEF y
  <2>5. IsKept(after)
    BY <2>2, <2>3, <2>4
  <2>6. log'[Len(log')] = after
    BY <1>1, <2>2, Appended DEF LawInv
  <2> QED
    BY <1>1, <2>5, <2>6 DEF KeptInv, Newest
<1> QED
  BY <1>1, <1>2, <1>3, LogGrows

\* What stands of a container's SKU is what its rows of the ledger come to.
LEMMA PieceOnHand ==
  ASSUME NEW y, Kept(y), NEW piece
  PROVE  LET S == {b \in DOMAIN y.items : Pieces(b) = piece}
             T == {m \in Movements(y.documents) : Pieces(m.bucket) = piece}
         IN  Rows(T) /\ OnHand(y.items, S) = Value(T)
<1> DEFINE M == Movements(y.documents)
           S == {b \in DOMAIN y.items : Pieces(b) = piece}
           T == {m \in M : Pieces(m.bucket) = piece}
           f == [m \in T |-> m.change]
           key == [m \in T |-> m.bucket]
           parts == [k \in S |-> Net([x \in {x \in T : key[x] = k} |-> f[x]])]
<1>1. Rows(M)
  BY KeptDocuments, LedgerRows
<1>2. DOMAIN y.items = {m.bucket : m \in M}
  BY DEF Kept, IsKept, Items, ItemsFrom
<1>3. IsFiniteSet(DOMAIN y.items)
  BY FewItems
<1>4. IsFiniteSet(S)
  BY <1>3, FS_Subset
<1> HIDE DEF M
<1>5. Rows(T)
  <2>1. T \in SUBSET M
    OBVIOUS
  <2>2. IsFiniteSet(T)
    BY <1>1, <2>1, FS_Subset DEF Rows
  <2> QED
    BY <1>1, <2>2 DEF Rows
<1>6. f \in [T -> Int] /\ key \in [T -> S]
  BY <1>1, <1>2 DEF Rows
<1>7. ASSUME NEW k \in S
      PROVE  y.items[k].quantity = Net([x \in {x \in T : key[x] = k} |-> f[x]])
  <2>1. {x \in T : key[x] = k} = At(k, M)
    BY DEF At
  <2>2. [x \in {x \in T : key[x] = k} |-> f[x]] = [x \in At(k, M) |-> x.change]
    BY <2>1
  <2>3. y.items[k].quantity = Value(At(k, M))
    BY KeptItems DEF M
  <2> QED
    BY <2>2, <2>3 DEF Value
<1>8. OnHand(y.items, S) = Net([b \in S |-> y.items[b].quantity])
  BY DEF OnHand, Total
<1> HIDE DEF S, T, f, key
<1>9. [b \in S |-> y.items[b].quantity] = parts
  BY <1>7
<1>10. Net(f) = Net(parts)
  <2>1. IsFiniteSet(T)
    BY <1>5 DEF Rows
  <2> QED
    BY <1>4, <1>6, <2>1, NetGrouped
<1>11. Value(T) = Net(f)
  BY DEF Value, f
<1>12. OnHand(y.items, S) = Value(T)
  BY <1>8, <1>9, <1>10, <1>11
<1> QED
  BY <1>5, <1>12 DEF S, T, M

\* A yard that is kept adds up.
LEMMA KeptAddsUp ==
  ASSUME NEW y, Kept(y)
  PROVE  /\ \A b \in DOMAIN y.items :
              /\ y.items[b].allocated >= 0
              /\ y.items[b].quantity >= y.items[b].allocated + y.items[b].damaged + y.items[b].hold
         /\ \A piece \in {Pieces(b) : b \in DOMAIN y.items} :
              OnHand(y.items, {b \in DOMAIN y.items : Pieces(b) = piece}) = Documented(y, piece)
<1>1. ASSUME NEW b \in DOMAIN y.items
      PROVE  /\ y.items[b].allocated >= 0
             /\ y.items[b].quantity >= y.items[b].allocated + y.items[b].damaged + y.items[b].hold
  <2>1. y.items[b].quantity \in Int /\ y.items[b].allocated \in Int /\ y.items[b].damaged \in Int /\ y.items[b].hold \in Int
    BY ItemSays
  <2>2. /\ y.items[b].allocated >= 0
        /\ y.items[b].damaged = Unfit[b].damaged /\ y.items[b].hold = Unfit[b].hold
        /\ y.items[b].quantity - y.items[b].allocated = Unpromised(y.documents, b)
        /\ Unpromised(y.documents, b) >= Unfit[b].damaged + Unfit[b].hold
    BY KeptItems
  <2>3. y.items[b].quantity - y.items[b].allocated >= y.items[b].damaged + y.items[b].hold
    BY <2>2
  <2> QED
    BY <2>1, <2>2, <2>3
<1>2. ASSUME NEW c \in DOMAIN y.items
      PROVE  OnHand(y.items, {b \in DOMAIN y.items : Pieces(b) = Pieces(c)}) = Documented(y, Pieces(c))
  <2> DEFINE piece == Pieces(c)
             M == Movements(y.documents)
             T == {m \in M : Pieces(m.bucket) = piece}
             moved == {m \in M : IsTransfer(m)}
             stays == {m \in y.movements : Pieces(m.bucket) = piece /\ ~IsTransfer(m)}
  <2>1. Shifted(y.movements, piece) = 0 /\ y.movements = M
    <3>1. c \in DOMAIN Buckets
      BY KeptItems
    <3> QED
      BY <3>1 DEF Kept, IsKept
  <2>2. T \cap moved = {m \in M : Pieces(m.bucket) = piece /\ IsTransfer(m)} /\ T \ moved = stays
    BY <2>1
  <2>3. Shifted(M, piece) = Value(T \cap moved)
    BY <2>2 DEF Shifted, Total, Value
  <2>4. Documented(y, piece) = Value(stays)
    BY DEF Documented, Total, Value
  <2>5. Rows(T) /\ OnHand(y.items, {b \in DOMAIN y.items : Pieces(b) = piece}) = Value(T)
    BY PieceOnHand
  <2> HIDE DEF piece, M, T, moved, stays
  <2>6. /\ Value(T) \in Int /\ Value(T \cap moved) \in Int /\ Value(T \ moved) \in Int
        /\ Value(T) = Value(T \cap moved) + Value(T \ moved)
    BY <2>5, ValueParts
  <2>7. Value(T \cap moved) = 0
    BY <2>1, <2>3
  <2>8. Value(T) = Value(T \ moved)
    BY <2>6, <2>7
  <2> QED
    BY <2>2, <2>4, <2>5, <2>8 DEF piece
<1> QED
  BY <1>1, <1>2

(* Stock adds up, for any yard to begin with, any pages, roles and requests *)
(* of others: what is promised or held back stands there, and moving        *)
(* changes nothing of what stands of a container's SKU.                     *)
THEOREM StockAddsUpHolds == Spec => []StockAddsUp
<1>1. KeptInv => StockAddsUp
  <2> SUFFICES ASSUME KeptInv PROVE StockAddsUp
    OBVIOUS
  <2> DEFINE y == log[Newest]
  <2>1. Kept(y)
    BY DEF KeptInv, LawInv, Kept
  <2>2. y \in {log[Newest]}
    OBVIOUS
  <2> HIDE DEF y
  <2> QED
    BY <2>1, <2>2, KeptAddsUp DEF StockAddsUp
<1> QED
  BY KeptInit, KeptStep, <1>1, PTL DEF Spec

\* An adjustment that is posted leaves the balances that it was to leave.
LEMMA FinalsPosted ==
  ASSUME NEW y, Kept(y), NEW lines, PostAdjustment(y, lines).ok, NEW b \in DOMAIN lines, lines[b].final
  PROVE  PostAdjustment(y, lines).yard.items[b].quantity = lines[b].quantity
<1> DEFINE D == y.documents
           n == NextId(y)
           changes == AdjustmentChanges(lines, y.items)
           posted == ChangesPosted("ADJUST", changes)
           d == Posting(n, Today, posted)
           E == With(D, n, d)
           refused == AdjustmentRefused(lines, y.items)
           changed == Posted(y, posted)
<1>1. PostAdjustment(y, lines) = Outcome(refused, y, changed, n)
  BY DEF PostAdjustment
<1>2. ~refused /\ PostAdjustment(y, lines).yard = changed
  <2> HIDE DEF refused, changed, n
  <2> QED
    BY <1>1 DEF Outcome, Denied, Granted
<1>3. DOMAIN lines \subseteq DOMAIN y.items /\ Whole(lines)
  BY <1>2 DEF AdjustmentRefused
<1>4. b \in DOMAIN y.items /\ b \in DOMAIN changes
  BY <1>3 DEF AdjustmentChanges
<1>5. changes[b].quantity = lines[b].quantity - y.items[b].quantity
  BY DEF AdjustmentChanges
<1>6. lines[b].quantity \in Int /\ y.items[b].quantity \in Int
  BY <1>3, <1>4, KeptItems DEF Whole
<1>7. Correcting("ADJUST", changes)
  <2>1. DOMAIN changes = DOMAIN lines
    BY DEF AdjustmentChanges
  <2>2. IsFiniteSet(DOMAIN y.items) /\ DOMAIN y.items \subseteq DOMAIN Buckets
    BY FewItems
  <2>3. Effective(changes) \in SUBSET DOMAIN y.items
    BY <1>3, <2>1 DEF Effective
  <2>4. IsFiniteSet(Effective(changes))
    BY <2>2, <2>3, FS_Subset
  <2>5. ASSUME NEW c \in DOMAIN lines PROVE changes[c].quantity \in Int
    <3>1. lines[c].quantity \in Int /\ y.items[c].quantity \in Int
      BY <1>3, KeptItems DEF Whole
    <3>2. changes[c].quantity \in {lines[c].quantity - y.items[c].quantity, lines[c].quantity}
      BY DEF AdjustmentChanges
    <3> QED
      BY <3>1, <3>2
  <2> QED
    BY <2>1, <2>2, <2>3, <2>4, <2>5 DEF Correcting, Effective
<1>8. d = Posting(n, Today, posted) /\ changed = WithDocuments(y, E)
  BY DEF Posted
<1> HIDE DEF d, changes, refused
<1>9. /\ Postable(posted)
      /\ Value(At(b, Entered(d))) = changes[b].quantity
  <2>1. Postable(posted)
    BY <1>7, <1>8, ChangesSay
  <2>2. CASE b \in Effective(changes)
    BY <1>7, <1>8, <2>1, <2>2, ChangesSay
  <2>3. CASE b \notin Effective(changes)
    <3>1. Value(At(b, Entered(d))) = 0
      BY <1>7, <1>8, <2>3, ChangesSay
    <3>2. changes[b].quantity = 0
      BY <1>4, <2>3 DEF Effective
    <3> QED
      BY <2>1, <3>1, <3>2
  <2> QED
    BY <2>2, <2>3
<1> HIDE DEF posted
<1>10. IsDocument(d) /\ d.id = n /\ d.kind = "POST"
  BY <1>8, <1>9, PostingSays
<1>11. SoundAll(D) /\ SoundAll(E) /\ AgreeBut(D, E, n) /\ Own(E, n) = Entered(d) /\ Own(D, n) = {}
  BY <1>10, KeptDocuments, PostingIsNew
<1>12. n \notin Ids(D) /\ Ids(E) = Ids(D) \cup {n} /\ E[n] = d
  <2>1. LastId(y) \in Nat /\ Ids(D) \subseteq 1 .. LastId(y)
    BY LastIdBounds DEF Kept
  <2>2. n = LastId(y) + 1
    BY <2>1 DEF NextId
  <2> QED
    BY <2>1, <2>2 DEF With, Ids
<1> HIDE DEF D, E, n, changed
<1>13. Unpromised(E, b) = Unpromised(D, b) + changes[b].quantity
  <2>1. Value(At(b, Own(D, n))) = 0
    BY <1>11, ValueEmpty DEF At
  <2>2. Unpromised(E, b) = Unpromised(D, b) - Value(At(b, Own(D, n))) + Value(At(b, Own(E, n)))
    BY <1>11, ExchangeHere
  <2>3. Unpromised(D, b) \in Int
    BY <1>11, Figures
  <2>4. changes[b].quantity \in Int
    BY <1>5, <1>6
  <2> QED
    BY <1>9, <1>11, <2>1, <2>2, <2>3, <2>4
<1>14. Reserved(E) = Reserved(D)
  <2>1. ~Holds(d)
    BY <1>10 DEF Holds
  <2>2. \A i \in Ids(D) : E[i] = D[i]
    BY <1>11, <1>12 DEF AgreeBut
  <2>3. {i \in Ids(E) : Holds(E[i])} = {i \in Ids(D) : Holds(D[i])}
    BY <1>12, <2>1, <2>2
  <2> QED
    BY <2>2, <2>3 DEF Reserved, MovedBy
<1>15. Value(At(b, Movements(E))) = lines[b].quantity
  <2>1. HeldOf(b, E) = HeldOf(b, D)
    BY <1>14 DEF HeldOf
  <2>2. /\ HeldOf(b, E) \in Int /\ Value(At(b, Movements(E))) \in Int /\ Unpromised(E, b) \in Int
        /\ Unpromised(E, b) = Value(At(b, Movements(E))) - HeldOf(b, E)
    BY <1>11, Figures
  <2>3. /\ HeldOf(b, D) \in Int /\ Value(At(b, Movements(D))) \in Int /\ Unpromised(D, b) \in Int
        /\ Unpromised(D, b) = Value(At(b, Movements(D))) - HeldOf(b, D)
    BY <1>11, Figures
  <2>4. y.items[b].quantity = Value(At(b, Movements(D)))
    BY <1>4, KeptItems DEF D
  <2> QED
    BY <1>5, <1>6, <1>13, <2>1, <2>2, <2>3, <2>4
<1>16. b \in {m.bucket : m \in Movements(E)}
  <2>1. b \in {m.bucket : m \in Movements(D)}
    BY <1>4 DEF Kept, IsKept, Items, ItemsFrom, D
  <2>2. \A i \in Ids(D) : i \in Ids(E) /\ E[i] = D[i]
    BY <1>11, <1>12 DEF AgreeBut
  <2>3. Movements(D) \subseteq Movements(E)
    BY <2>2 DEF Movements, MovedBy
  <2> QED
    BY <2>1, <2>3
<1>17. changed.items = ItemsFrom(Movements(E), E)
  <2>1. {"documents", "items", "movements"} \subseteq DOMAIN y
    BY DEF Kept, IsKept
  <2> QED
    BY <1>8, <2>1 DEF WithDocuments, OfMoves
<1>18. changed.items[b].quantity = Value(At(b, Movements(E)))
  <2> DEFINE head == [quantity |-> Total(LAMBDA m : m.change, At(b, Movements(E))),
                      pallets |-> Total(LAMBDA m : m.pallets, At(b, Movements(E))),
                      allocated |-> HeldOf(b, E), damaged |-> Unfit[b].damaged, hold |-> Unfit[b].hold,
                      arrival |-> LET dates == {m.date : m \in {m \in At(b, Movements(E)) : m.type = "IN"}}
                                  IN IF dates = {} THEN 0 ELSE CHOOSE f \in dates : \A e \in dates : f <= e]
  <2>1. changed.items[b] = Over(head, Buckets[b])
    BY <1>16, <1>17 DEF ItemsFrom
  <2>2. "quantity" \in DOMAIN head /\ head.quantity = Value(At(b, Movements(E)))
    BY DEF Value, Total
  <2> HIDE DEF head
  <2> QED
    BY <2>1, <2>2 DEF Over
<1> QED
  BY <1>2, <1>15, <1>18

\* Only the server's answer ends a call and adds to the yards.
LEMMA AnswerEndsCalls ==
  ASSUME LawInv, [Next]_vars, call # None, call' = None, Len(log') > Len(log)
  PROVE  /\ ServeTo(Role, log[Newest], call.request).ok
         /\ log' = Append(log, ServeTo(Role, log[Newest], call.request).yard)
<1> DEFINE answer == ServeTo(Role, log[Newest], call.request)
<1>1. Len(log) \in Nat
  BY Appended DEF LawInv
<1>2. log' # log
  BY <1>1
<1>3. ~Sessions
  BY <1>2 DEF Sessions, SessionFound, SessionMissing, Login, Logout, OpenPortal, ExitPortal
<1>4. ~Clicks
  <2>1. ASSUME NEW lead, Navigate(lead) PROVE log' = log
    BY <2>1 DEF Navigate
  <2>2. DocumentClicks \/ StockClicks \/ ContainerClicks \/ RecordClicks \/ WarehouseClicks \/ ReportClicks => log' = log
    BY DocumentClicksKeep, StockClicksKeep, ContainerClicksKeep, RecordClicksKeep, WarehouseClicksKeep,
       ReportClicksKeep DEF Routine, KeepsData
  <2> QED
    BY <1>2, <2>1, <2>2 DEF Clicks
<1>5. ~Fetch
  BY <1>2, FetchKeeps DEF Routine, KeepsData
<1>6. ~OthersWork
  BY DEF OthersWork
<1>7. ~FinishLoad
  BY <1>2 DEF FinishLoad
<1>8. ~UNCHANGED vars
  BY <1>2 DEF vars, core
<1>9. Answer
  BY <1>3, <1>4, <1>5, <1>6, <1>7, <1>8 DEF Next
<1>10. Grant(answer) \/ Deny(answer) \/ Lose(answer)
  BY <1>9 DEF Answer
<1> HIDE DEF answer
<1>11. answer.ok /\ log' = Append(log, answer.yard)
  BY <1>2, <1>10 DEF Grant, Deny, Lose
<1> QED
  BY <1>11 DEF answer

\* The step that posts an adjustment leaves its final balances.
LEMMA FinalStep ==
  ASSUME KeptInv, [Next]_vars, call # None, call' = None, call.request.op = "adjust", Len(log') > Len(log),
         NEW b \in DOMAIN call.request.payload, call.request.payload[b].final
  PROVE  log'[Len(log')].items[b].quantity = call.request.payload[b].quantity
<1> DEFINE y == log[Newest]
           lines == call.request.payload
           answer == ServeTo(Role, y, call.request)
<1>1. LawInv /\ Kept(y)
  BY DEF KeptInv, LawInv, Kept
<1>2. answer.ok /\ log' = Append(log, answer.yard)
  BY <1>1, AnswerEndsCalls
<1>3. answer = Serve(y, call.request)
  BY <1>2 DEF ServeTo, Denied
<1>4. Serve(y, call.request) = PostAdjustment(y, lines)
  BY DEF Serve
<1> HIDE DEF y, answer, lines
<1>5. answer.yard.items[b].quantity = lines[b].quantity
  BY <1>1, <1>2, <1>3, <1>4, FinalsPosted DEF lines
<1>6. log'[Len(log')] = answer.yard
  BY <1>1, <1>2, Appended DEF LawInv
<1> QED
  BY <1>5, <1>6 DEF lines

(* An adjustment to a final balance leaves that balance, whatever others    *)
(* did to the item since the dialog was filled in: the server compares it  *)
(* with the balance of the moment (applyInventoryAdjustment).              *)
THEOREM FinalBalancesStand == Spec => FinalBalancesHold
<1>1. KeptInv /\ [Next]_vars =>
        [(call # None /\ call' = None /\ call.request.op = "adjust" /\ Len(log') > Len(log))
           => LET lines == call.request.payload
              IN \A b \in DOMAIN lines : lines[b].final => log'[Len(log')].items[b].quantity = lines[b].quantity]_vars
  BY FinalStep
<1> QED
  BY KeptInit, KeptStep, <1>1, PTL DEF Spec, FinalBalancesHold
================================================================================
