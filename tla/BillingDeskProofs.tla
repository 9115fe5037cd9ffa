-------------------------- MODULE BillingDeskProofs --------------------------
(***************************************************************************)
(* Proofs about BillingDesk, for any containers, customers, scopes,         *)
(* movements and invoices, and any number of previews in flight:            *)
(*   - whatever is asked for, abandoned and answered late, a page shows the *)
(*     preview of its own filters (ScopeInv);                               *)
(*   - what is billed is the preview that was on the screen, line by line   *)
(*     and to its total (SourcesInv);                                       *)
(*   - the flags of the pages and what is in flight fit together (PagesInv); *)
(*   - an invoice that stands records the yard's history, and its statements *)
(*     print what that history adds up to (HistoryInv);                     *)
(*   - the runs of days of the preview's PDF come to what the stays come to. *)
(***************************************************************************)
EXTENDS BillingDesk, SumTheorems, TLAPS

-----------------------------------------------------------------------------
(* What the operators on previews return *)

\* A list of the same length, element by element.
LEMMA EachSeq ==
  ASSUME NEW R, NEW n \in Nat, NEW f, f = [i \in 1 .. n |-> f[i]], \A i \in 1 .. n : f[i] \in R
  PROVE  <<>> \o f = f /\ f \in Seq(R) /\ Len(f) = n
<1>1. f \in [1 .. n -> R]
  OBVIOUS
<1>2. f \in Seq(R) /\ Len(f) = n
  BY <1>1
<1> QED
  BY <1>2

\* The parts of a list of movements are lists of movements.
LEMMA MovesOfSeq ==
  ASSUME NEW r \in Seq(PalletMoves), NEW c, NEW d
  PROVE  MovesOf(r, c) \in Seq(PalletMoves) /\ MovesUntil(r, c, d) \in Seq(PalletMoves)
<1>1. ASSUME NEW s \in Seq(PalletMoves), NEW A PROVE Only(s, A) \in Seq(PalletMoves)
  <2>1. Only(s, A) \in Seq(PalletMoves \cap A)
    BY OnlyEmbeds
  <2> QED
    BY <2>1
<1>2. MovesOf(r, c) \in Seq(PalletMoves)
  BY <1>1 DEF MovesOf
<1>3. MovesUntil(r, c, d) \in Seq(PalletMoves)
  BY <1>1, <1>2 DEF MovesUntil
<1> QED
  BY <1>2, <1>3

\* A balance is a number.
LEMMA BalanceInt ==
  ASSUME NEW r \in Seq(PalletMoves), NEW c, NEW d
  PROVE  BalanceAt(r, c, d) \in Int
<1> DEFINE s == MovesUntil(r, c, d)
           f == [i \in DOMAIN s |-> s[i].delta]
<1>1. s \in Seq(PalletMoves) /\ Len(s) \in Nat /\ DOMAIN s = 1 .. Len(s)
  <2>1. s \in Seq(PalletMoves)
    BY MovesOfSeq
  <2> QED
    BY <2>1
<1>2. BalanceAt(r, c, d) = Summed(<<>> \o f)
  BY DEF BalanceAt, TotalOf, Each
<1> HIDE DEF s
<1>3. <<>> \o f = f /\ f \in Seq(Int)
  <2>1. f = [i \in 1 .. Len(s) |-> f[i]]
    BY <1>1
  <2>2. ASSUME NEW i \in 1 .. Len(s) PROVE f[i] \in Int
    <3>1. s[i] \in PalletMoves /\ f[i] = s[i].delta
      BY <1>1
    <3> QED
      BY <3>1 DEF PalletMoves
  <2> HIDE DEF f
  <2> QED
    BY <1>1, <2>1, <2>2, EachSeq
<1> HIDE DEF f
<1> QED
  BY <1>2, <1>3, SummedInt
BalancedDays == [day : Int, like : [pallets : Int, free : Int]]
RunsOfDays == [start : Int, end : Int, like : [pallets : Int, free : Int]]

\* A day more leaves runs of days that are alike.
LEMMA RunsWithSeq ==
  ASSUME NEW runs \in Seq(RunsOfDays), NEW d \in BalancedDays
  PROVE  RunsWith(runs, d) \in Seq(RunsOfDays)
<1>1. CASE runs # <<>> /\ Last(runs).end = d.day - 1 /\ Last(runs).like = d.like
  <2>1. Len(runs) \in DOMAIN runs /\ runs[Len(runs)] \in RunsOfDays /\ Len(runs) \in Nat /\ DOMAIN runs = 1 .. Len(runs)
    BY <1>1
  <2> DEFINE last == [runs[Len(runs)] EXCEPT !.end = d.day]
  <2>2. last \in RunsOfDays
    BY <2>1 DEF RunsOfDays, BalancedDays
  <2>3. RunsWith(runs, d) = [runs EXCEPT ![Len(runs)] = last]
    BY <1>1, <2>1 DEF RunsWith
  <2> HIDE DEF last
  <2>4. [runs EXCEPT ![Len(runs)] = last] \in [1 .. Len(runs) -> RunsOfDays]
    BY <2>1, <2>2
  <2> QED
    BY <2>1, <2>3, <2>4
<1>2. CASE ~(runs # <<>> /\ Last(runs).end = d.day - 1 /\ Last(runs).like = d.like)
  <2>1. [start |-> d.day, end |-> d.day, like |-> d.like] \in RunsOfDays
    BY DEF RunsOfDays, BalancedDays
  <2> QED
    BY <1>2, <2>1 DEF RunsWith
<1> QED
  BY <1>1, <1>2

\* The runs of a list of days are runs, however many days there are.
LEMMA RunsSeq ==
  ASSUME NEW days \in Seq(BalancedDays)
  PROVE  Runs(days) \in Seq(RunsOfDays)
<1> DEFINE n == Len(days)
           X == Seq(RunsOfDays)
           g == [p \in (1 .. n) \X X |-> RunsWith(p[2], days[p[1]])]
           Loops(t) == t = [i \in 0 .. n |-> IF i = 0 THEN <<>> ELSE RunsWith(t[i - 1], days[i])]
<1>0. n \in Nat /\ \A i \in 1 .. n : days[i] \in BalancedDays
  OBVIOUS
<1>1. <<>> \in X
  OBVIOUS
<1>2. ASSUME NEW i \in 1 .. n, NEW x \in X PROVE g[<<i, x>>] = RunsWith(x, days[i]) /\ g[<<i, x>>] \in X
  <2>1. RunsWith(x, days[i]) \in X
    BY <1>0, RunsWithSeq
  <2> HIDE DEF X
  <2> QED
    BY <2>1
<1>3. Runs(days) = (CHOOSE t : Loops(t))[n]
  BY DEF Runs, Accumulate
<1> HIDE DEF X, g
<1>4. PICK u : Rounded(n, <<>>, g, u) /\ \A i \in 0 .. n : u[i] \in X
  BY <1>0, <1>1, <1>2, Rounds
<1>5. Loops(u)
  <2>1. ASSUME NEW i \in 0 .. n
        PROVE  u[i] = IF i = 0 THEN <<>> ELSE RunsWith(u[i - 1], days[i])
    <3>1. CASE i = 0
      BY <1>4, <3>1 DEF Rounded
    <3>2. CASE i # 0
      <4>1. i \in 1 .. n /\ i - 1 \in 0 .. n
        BY <1>0, <3>2
      <4>2. u[i] = g[<<i, u[i - 1]>>] /\ u[i - 1] \in X
        BY <1>4, <3>2, <4>1 DEF Rounded
      <4> QED
        BY <1>2, <3>2, <4>1, <4>2
    <3> QED
      BY <3>1, <3>2
  <2>2. u = [i \in 0 .. n |-> u[i]]
    BY <1>4 DEF Rounded
  <2> QED
    BY <2>1, <2>2
<1>6. PICK t : t = (CHOOSE v : Loops(v))
  OBVIOUS
<1>7. Loops(t)
  BY <1>5, <1>6
<1>8. t[0] = <<>> /\ \A i \in 1 .. n : t[i] = RunsWith(t[i - 1], days[i])
  <2>1. \A i \in 0 .. n : t[i] = IF i = 0 THEN <<>> ELSE RunsWith(t[i - 1], days[i])
    BY <1>7
  <2> QED
    BY <1>0, <2>1
<1>9. ASSUME NEW i \in 1 .. n, t[i - 1] \in X PROVE t[i] \in X
  BY <1>2, <1>8, <1>9
<1>10. t[n] \in X
  BY <1>0, <1>1, <1>8, <1>9, Stays
<1> QED
  BY <1>3, <1>6, <1>10 DEF X

\* A line put in its place leaves a list of lines.
LEMMA InPlaceSeq ==
  ASSUME NEW R, NEW sorted \in Seq(R), NEW l \in R
  PROVE  InPlace(sorted, l) \in Seq(R)
<1> DEFINE D == {i \in DOMAIN sorted : ~Precedes(l, sorted[i])}
<1>1. DOMAIN sorted = 1 .. Len(sorted) /\ Len(sorted) \in Nat
  OBVIOUS
<1>2. InPlace(sorted, l) = PutAfter(sorted, Cardinality(D), l)
  BY DEF InPlace
<1>3. D \in SUBSET (1 .. Len(sorted))
  BY <1>1
<1> HIDE DEF D
<1>4. Cardinality(D) \in 0 .. Len(sorted)
  BY <1>1, <1>3, PositionsCount
<1> QED
  BY <1>2, <1>4, PutAfterSeq

\* Lines put in order one by one are a list of the same kind of lines.
LEMMA InLineOrderSeq ==
  ASSUME NEW R, NEW lines \in Seq(R)
  PROVE  InLineOrder(lines) \in Seq(R)
<1> DEFINE n == Len(lines)
           X == Seq(R)
           g == [p \in (1 .. n) \X X |-> InPlace(p[2], lines[p[1]])]
           Loops(t) == t = [i \in 0 .. n |-> IF i = 0 THEN <<>> ELSE InPlace(t[i - 1], lines[i])]
<1>0. n \in Nat /\ \A i \in 1 .. n : lines[i] \in R
  OBVIOUS
<1>1. <<>> \in X
  OBVIOUS
<1>2. ASSUME NEW i \in 1 .. n, NEW x \in X PROVE g[<<i, x>>] = InPlace(x, lines[i]) /\ g[<<i, x>>] \in X
  <2>1. InPlace(x, lines[i]) \in X
    BY <1>0, InPlaceSeq
  <2> HIDE DEF X
  <2> QED
    BY <2>1
<1>3. InLineOrder(lines) = (CHOOSE t : Loops(t))[n]
  BY DEF InLineOrder, Accumulate
<1> HIDE DEF X, g
<1>4. PICK u : Rounded(n, <<>>, g, u) /\ \A i \in 0 .. n : u[i] \in X
  BY <1>0, <1>1, <1>2, Rounds
<1>5. Loops(u)
  <2>1. ASSUME NEW i \in 0 .. n
        PROVE  u[i] = IF i = 0 THEN <<>> ELSE InPlace(u[i - 1], lines[i])
    <3>1. CASE i = 0
      BY <1>4, <3>1 DEF Rounded
    <3>2. CASE i # 0
      <4>1. i \in 1 .. n /\ i - 1 \in 0 .. n
        BY <1>0, <3>2
      <4>2. u[i] = g[<<i, u[i - 1]>>] /\ u[i - 1] \in X
        BY <1>4, <3>2, <4>1 DEF Rounded
      <4> QED
        BY <1>2, <3>2, <4>1, <4>2
    <3> QED
      BY <3>1, <3>2
  <2>2. u = [i \in 0 .. n |-> u[i]]
    BY <1>4 DEF Rounded
  <2> QED
    BY <2>1, <2>2
<1>6. PICK t : t = (CHOOSE v : Loops(v))
  OBVIOUS
<1>7. Loops(t)
  BY <1>5, <1>6
<1>8. t[0] = <<>> /\ \A i \in 1 .. n : t[i] = InPlace(t[i - 1], lines[i])
  <2>1. \A i \in 0 .. n : t[i] = IF i = 0 THEN <<>> ELSE InPlace(t[i - 1], lines[i])
    BY <1>7
  <2> QED
    BY <1>0, <2>1
<1>9. ASSUME NEW i \in 1 .. n, t[i - 1] \in X PROVE t[i] \in X
  BY <1>2, <1>8, <1>9
<1>10. t[n] \in X
  BY <1>0, <1>1, <1>8, <1>9, Stays
<1> QED
  BY <1>3, <1>6, <1>10 DEF X

\* A scope of the desk.
ScopeSound(scope) ==
  /\ scope.start \in Nat /\ scope.end \in Nat /\ scope.start <= scope.end
  /\ {scope.rates.inbound, scope.rates.transfer, scope.rates.wrapping, scope.rates.outbound} \subseteq Int
  /\ \A c \in Containers : scope.rates.daily[TypeOf[c]] \in Int

\* The daily balances of a container are days of the period with their pallets.
LEMMA BalancesSeq ==
  ASSUME NEW r \in Seq(PalletMoves), NEW scope, ScopeSound(scope), NEW c, NEW until
  PROVE  DailyBalancesOf(r, scope, c, until) \in Seq(BalancedDays)
<1> DEFINE n == scope.end - scope.start + 1
           days == Days(scope.start, scope.end)
           f == [i \in DOMAIN days |-> BalanceOfDay(days[i], BalanceAt(r, c, days[i]), until)]
<1>1. n \in Nat /\ DOMAIN days = 1 .. n /\ \A i \in 1 .. n : days[i] \in Int
  BY DEF Days, ScopeSound
<1>2. DailyBalancesOf(r, scope, c, until) = <<>> \o f
  BY DEF DailyBalancesOf, Each
<1> HIDE DEF n, days
<1>3. f = [i \in 1 .. n |-> f[i]]
  BY <1>1
<1>4. ASSUME NEW i \in 1 .. n PROVE f[i] \in BalancedDays
  <2>1. f[i] = BalanceOfDay(days[i], BalanceAt(r, c, days[i]), until)
    BY <1>1
  <2>2. BalanceAt(r, c, days[i]) \in Int /\ days[i] \in Int
    BY <1>1, BalanceInt
  <2> HIDE DEF f
  <2> QED
    BY <2>1, <2>2 DEF BalanceOfDay, BalancedDays
<1> HIDE DEF f
<1> QED
  BY <1>1, <1>2, <1>3, <1>4, EachSeq

\* What a segment of storage has.
SegmentRecords ==
  [start : Int, end : Int, pallets : Int, days : Int, palletDays : Int, free : Int, billable : Int,
   gross : Int, discount : Int, amount : Int]

\* The segments of a list of daily balances are segments.
LEMMA SegmentsSeq ==
  ASSUME NEW balances \in Seq(BalancedDays), NEW daily \in Int
  PROVE  Segments(balances, daily) \in Seq(SegmentRecords)
<1> DEFINE runs == Runs(Only(balances, {d \in ToSet(balances) : d.like.pallets > 0}))
           f == [i \in DOMAIN runs |-> SegmentOf(runs[i], daily)]
<1>1. runs \in Seq(RunsOfDays) /\ DOMAIN runs = 1 .. Len(runs) /\ Len(runs) \in Nat
  <2>1. ASSUME NEW A PROVE Only(balances, A) \in Seq(BalancedDays)
    <3>1. Only(balances, A) \in Seq(BalancedDays \cap A)
      BY OnlyEmbeds
    <3> QED
      BY <3>1
  <2>2. runs \in Seq(RunsOfDays)
    BY <2>1, RunsSeq
  <2> QED
    BY <2>2
<1>2. Segments(balances, daily) = <<>> \o f
  BY DEF Segments, Each
<1> HIDE DEF runs
<1>3. f = [i \in 1 .. Len(runs) |-> f[i]]
  BY <1>1
<1>4. ASSUME NEW i \in 1 .. Len(runs) PROVE f[i] \in SegmentRecords
  <2>1. f[i] = SegmentOf(runs[i], daily) /\ runs[i] \in RunsOfDays
    BY <1>1
  <2>2. ASSUME NEW run \in RunsOfDays PROVE SegmentOf(run, daily) \in SegmentRecords
    <3> DEFINE days == run.end - run.start + 1
    <3>1. /\ run.start \in Int /\ run.end \in Int /\ days \in Int
          /\ run.like.pallets \in Int /\ run.like.free \in Int
      BY DEF RunsOfDays
    <3> HIDE DEF days
    <3> DEFINE palletDays == run.like.pallets * days
               free == run.like.free * days
    <3>2. palletDays \in Int /\ free \in Int
      BY <3>1
    <3> HIDE DEF palletDays, free
    <3>3. palletDays - free \in Int /\ palletDays * daily \in Int /\ free * daily \in Int
      BY <3>2
    <3>4. (palletDays - free) * daily \in Int
      BY <3>2
    <3>5. SegmentOf(run, daily) =
            [start |-> run.start, end |-> run.end, pallets |-> run.like.pallets, days |-> days,
             palletDays |-> palletDays, free |-> free, billable |-> palletDays - free,
             gross |-> palletDays * daily, discount |-> free * daily,
             amount |-> (palletDays - free) * daily]
      BY DEF SegmentOf, days, palletDays, free
    <3> QED
      BY <3>1, <3>2, <3>3, <3>4, <3>5 DEF SegmentRecords
  <2> QED
    BY <2>1, <2>2
<1> HIDE DEF f
<1> QED
  BY <1>1, <1>2, <1>3, <1>4, EachSeq

\* What the segments of a stay add up to are numbers.
LEMMA TotalsInt ==
  ASSUME NEW segments \in Seq(SegmentRecords)
  PROVE  /\ TotalOf(LAMBDA s : s.billable, segments) \in Int
         /\ TotalOf(LAMBDA s : s.amount, segments) \in Int
<1> DEFINE n == Len(segments)
           b == [i \in DOMAIN segments |-> segments[i].billable]
           a == [i \in DOMAIN segments |-> segments[i].amount]
<1>1. n \in Nat /\ DOMAIN segments = 1 .. n /\ \A i \in 1 .. n : segments[i] \in SegmentRecords
  OBVIOUS
<1>2. /\ TotalOf(LAMBDA s : s.billable, segments) = Summed(<<>> \o b)
      /\ TotalOf(LAMBDA s : s.amount, segments) = Summed(<<>> \o a)
  BY DEF TotalOf, Each
<1> HIDE DEF n
<1>3. b = [i \in 1 .. n |-> b[i]] /\ a = [i \in 1 .. n |-> a[i]]
  BY <1>1
<1>4. ASSUME NEW i \in 1 .. n PROVE b[i] \in Int /\ a[i] \in Int
  <2>1. b[i] = segments[i].billable /\ a[i] = segments[i].amount
    BY <1>1
  <2> QED
    BY <1>1, <2>1 DEF SegmentRecords
<1> HIDE DEF a, b
<1>5. <<>> \o b = b /\ b \in Seq(Int)
  BY <1>1, <1>3, <1>4, EachSeq
<1>6. <<>> \o a = a /\ a \in Seq(Int)
  BY <1>1, <1>3, <1>4, EachSeq
<1> QED
  BY <1>2, <1>5, <1>6, SummedInt

\* A container's stay: what its line of storage is made of.
RowSound(row) ==
  /\ row.container \in Containers /\ row.billable \in Int /\ row.amount \in Int
  /\ row.segments \in Seq(SegmentRecords)

\* The storage row of a container has a list of segments and numbers for its totals.
LEMMA StorageRowSound ==
  ASSUME NEW r \in Seq(PalletMoves), NEW scope, ScopeSound(scope), NEW c \in Containers
  PROVE  RowSound(StorageRow(r, scope, c))
<1> DEFINE first == Min(ReceiptDays(r, c))
           segments == Segments(DailyBalancesOf(r, scope, c, first + FreeDays(scope, c)), DailyRate(scope, c))
<1>1. DailyRate(scope, c) \in Int
  BY DEF ScopeSound, DailyRate
<1>2. segments \in Seq(SegmentRecords)
  BY <1>1, BalancesSeq, SegmentsSeq
<1>3. StorageRow(r, scope, c) = StorageRowOf(r, scope, c, first, segments)
  BY DEF StorageRow, StorageRowFrom
<1> HIDE DEF first, segments
<1>4. LET row == StorageRowOf(r, scope, c, first, segments)
      IN  /\ row.container = c /\ row.segments = segments
          /\ row.billable = TotalOf(LAMBDA s : s.billable, segments)
          /\ row.amount = TotalOf(LAMBDA s : s.amount, segments)
  BY DEF StorageRowOf
<1> QED
  BY <1>2, <1>3, <1>4, TotalsInt DEF RowSound

\* Containers by number are a list of them.
LEMMA AscendingSeq ==
  ASSUME NEW C \in SUBSET Containers
  PROVE  Ascending(C) \in Seq(C)
<1>1. {0} \cup C \in SUBSET (0 .. InvoiceLevel - 1) /\ {0} \cup C # {}
  <2>1. C \subseteq 1 .. InvoiceLevel - 1
    BY ContainersAssumption
  <2>2. InvoiceLevel - 1 \in Nat
    BY DEF InvoiceLevel
  <2>3. ASSUME NEW x \in {0} \cup C PROVE x \in 0 .. InvoiceLevel - 1
    BY <2>1, <2>2
  <2> QED
    BY <2>3
<1>2. PICK m \in {0} \cup C : \A k \in {0} \cup C : k <= m
  <2>1. InvoiceLevel - 1 \in Nat
    BY DEF InvoiceLevel
  <2> QED
    BY <1>1, <2>1, Greatest
<1>3. Max({0} \cup C) \in {0} \cup C
  BY <1>2 DEF Max
<1>4. Max({0} \cup C) \in Nat
  <2>1. Max({0} \cup C) \in 0 .. InvoiceLevel - 1
    BY <1>1, <1>3
  <2>2. InvoiceLevel - 1 \in Nat
    BY DEF InvoiceLevel
  <2> QED
    BY <2>1, <2>2
<1> DEFINE n == Max({0} \cup C)
           f == [i \in 1 .. n |-> i]
<1>5. f \in Seq(Int)
  <2> HIDE DEF n
  <2>1. n \in Nat
    BY <1>4 DEF n
  <2>2. f \in [1 .. n -> Int]
    OBVIOUS
  <2> QED
    BY <2>1, <2>2
<1>6. Ascending(C) = Only(f, C)
  BY DEF Ascending
<1> HIDE DEF f
<1>7. Only(f, C) \in Seq(Int \cap C)
  BY <1>5, OnlyEmbeds
<1>8. ASSUME NEW s, s \in Seq(Int \cap C) PROVE s \in Seq(C)
  BY <1>8
<1> QED
  BY <1>6, <1>7, <1>8

\* The stays of a preview.
LEMMA StorageRowsSeq ==
  ASSUME NEW r \in Seq(PalletMoves), NEW scope, ScopeSound(scope)
  PROVE  /\ Len(StorageRows(r, scope)) \in Nat /\ DOMAIN StorageRows(r, scope) = 1 .. Len(StorageRows(r, scope))
         /\ IsList(StorageRows(r, scope))
         /\ \A i \in 1 .. Len(StorageRows(r, scope)) :
              /\ RowSound(StorageRows(r, scope)[i])
              /\ \E c \in Containers : InScope(scope, c) /\ StorageRows(r, scope)[i] = StorageRow(r, scope, c)
<1> DEFINE C == {c \in Containers : InScope(scope, c) /\ ReceiptDays(r, c) # {}}
           list == Ascending(C)
           f == [i \in DOMAIN list |-> StorageRow(r, scope, list[i])]
           R == {StorageRow(r, scope, c) : c \in {x \in Containers : InScope(scope, x)}}
           A == {x \in ToSet(<<>> \o f) : x.palletDays > 0 \/ x.opening > 0 \/ x.closing > 0 \/ x.releases # <<>>}
<1>1. list \in Seq(C)
  <2>1. C \in SUBSET Containers
    OBVIOUS
  <2> HIDE DEF C
  <2> QED
    BY <2>1, AscendingSeq
<1>2. /\ DOMAIN list = 1 .. Len(list) /\ Len(list) \in Nat
      /\ \A i \in 1 .. Len(list) : list[i] \in {x \in Containers : InScope(scope, x)}
  <2>1. C \subseteq {x \in Containers : InScope(scope, x)}
    OBVIOUS
  <2> HIDE DEF C, list
  <2>2. DOMAIN list = 1 .. Len(list) /\ Len(list) \in Nat /\ \A i \in 1 .. Len(list) : list[i] \in C
    BY <1>1
  <2> QED
    BY <2>1, <2>2
<1>3. StorageRows(r, scope) = Only(<<>> \o f, A)
  BY DEF StorageRows, Each
<1> HIDE DEF list, A
<1>4. f = [i \in 1 .. Len(list) |-> f[i]] /\ \A i \in 1 .. Len(list) : f[i] = StorageRow(r, scope, list[i])
  BY <1>2
<1> HIDE DEF f
<1>5. \A i \in 1 .. Len(list) : f[i] \in R
  BY <1>2, <1>4
<1>6. \A x \in R : RowSound(x) /\ \E c \in Containers : InScope(scope, c) /\ x = StorageRow(r, scope, c)
  BY StorageRowSound
<1> HIDE DEF R
<1>7. <<>> \o f \in Seq(R)
  BY <1>2, <1>4, <1>5, EachSeq
<1>8. Only(<<>> \o f, A) \in Seq(R \cap A)
  BY <1>7, OnlyEmbeds
<1>9. StorageRows(r, scope) \in Seq(R \cap A)
  BY <1>3, <1>8
<1>10. IsList(StorageRows(r, scope))
  BY <1>9, ListIntro
<1> QED
  BY <1>6, <1>9, <1>10

\* The lines of a preview.
LineRecords ==
  [type : Services, customer : Customers, container : Containers, day : Int, quantity : Int, amount : Int]

\* The lines that the service makes have a service for their type and a number for their amount.
LEMMA LineSound ==
  ASSUME NEW type \in Services, NEW c \in Containers, NEW day \in Int, NEW quantity \in Int, NEW amount \in Int
  PROVE  Line(type, c, day, quantity, amount) \in LineRecords
BY ContainersAssumption DEF Line, LineRecords

\* So has the line of a storage row.
LEMMA StorageLineSound ==
  ASSUME NEW row, RowSound(row)
  PROVE  StorageLine(row) \in LineRecords
<1>1. LastDay(row) \in Int
  <2>1. CASE row.segments = <<>>
    BY <2>1 DEF LastDay, NoDate
  <2>2. CASE row.segments # <<>>
    <3> DEFINE s == row.segments
    <3>1. s \in Seq(SegmentRecords) /\ s # <<>>
      BY <2>2 DEF RowSound
    <3>2. LastDay(row) = s[Len(s)].end
      BY <2>2 DEF LastDay, Last
    <3> HIDE DEF s
    <3>3. s[Len(s)] \in SegmentRecords
      BY <3>1
    <3> QED
      BY <3>2, <3>3 DEF SegmentRecords
  <2> QED
    BY <2>1, <2>2
<1>2. "STORAGE" \in Services
  BY DEF Services
<1> QED
  BY <1>1, <1>2, LineSound DEF StorageLine, RowSound

\* Lines of storage are of these containers.
LinesOver(K) == {l \in LineRecords : l.type = "STORAGE" => l.container \in K}

\* So have the lines of a movement, whether it is a receipt or a release; none is of storage.
LEMMA MoveLinesSeq ==
  ASSUME NEW r, NEW scope, ScopeSound(scope), NEW m \in PalletMoves, NEW K
  PROVE  MoveLines(r, scope, m) \in Seq(LinesOver(K))
<1>1. m.container \in Containers /\ m.day \in Int /\ m.delta \in Int /\ -m.delta \in Int
  BY DEF PalletMoves
<1>2. /\ scope.rates.inbound \in Int /\ scope.rates.transfer \in Int
      /\ scope.rates.wrapping \in Int /\ scope.rates.outbound \in Int
  BY DEF ScopeSound
<1>3. /\ m.delta * scope.rates.transfer \in Int /\ m.delta * scope.rates.wrapping \in Int
      /\ -m.delta * scope.rates.outbound \in Int
  BY <1>1, <1>2
<1>4. /\ Line("INBOUND", m.container, m.day, m.delta, m.delta * scope.rates.transfer) \in LinesOver(K)
      /\ Line("INBOUND", m.container, m.day, 1, scope.rates.inbound) \in LinesOver(K)
      /\ Line("WRAPPING", m.container, m.day, m.delta, m.delta * scope.rates.wrapping) \in LinesOver(K)
      /\ Line("OUTBOUND", m.container, m.day, -m.delta, -m.delta * scope.rates.outbound) \in LinesOver(K)
  <2>1. "INBOUND" \in Services /\ "WRAPPING" \in Services /\ "OUTBOUND" \in Services
    BY DEF Services
  <2>2. ASSUME NEW l, l \in LineRecords, l.type # "STORAGE" PROVE l \in LinesOver(K)
    BY <2>2 DEF LinesOver
  <2>3. \A type, c, day, quantity, amount : Line(type, c, day, quantity, amount).type = type
    BY DEF Line
  <2> QED
    BY <1>1, <1>2, <1>3, <2>1, <2>2, <2>3, LineSound
<1>5. ASSUME NEW a \in LinesOver(K), NEW b \in LinesOver(K)
      PROVE  <<a>> \in Seq(LinesOver(K)) /\ <<a>> \o <<b>> \in Seq(LinesOver(K)) /\ <<>> \o <<b>> \in Seq(LinesOver(K))
  OBVIOUS
<1>6. ReceiptLines(r, scope, m) \in Seq(LinesOver(K))
  BY <1>4, <1>5 DEF ReceiptLines
<1> QED
  BY <1>4, <1>5, <1>6 DEF MoveLines

\* The lines of a preview of one customer are such lines, in a list.
LEMMA PreviewLinesSeq ==
  ASSUME NEW r \in Seq(PalletMoves), NEW scope, ScopeSound(scope)
  PROVE  LET lines == PreviewOfSources(r, scope).lines
             rows == StorageRows(r, scope)
         IN  /\ lines \in Seq(LineRecords)
             /\ \A i \in 1 .. Len(lines) : lines[i].type = "STORAGE" =>
                  \E k \in 1 .. Len(rows) : rows[k].container = lines[i].container
<1> DEFINE rows == StorageRows(r, scope)
           K == {rows[k].container : k \in 1 .. Len(rows)}
           Q == LinesOver(K)
           A == {m \in ToSet(r) : m.day \in scope.start .. scope.end /\ InScope(scope, m.container)}
           counted == Only(r, A)
           f == [i \in DOMAIN counted |-> MoveLines(r, scope, counted[i])]
           g == [i \in DOMAIN rows |-> StorageLine(rows[i])]
<1>1. PreviewOfSources(r, scope).lines = InLineOrder(Joined(<<>> \o f) \o (<<>> \o g))
  BY DEF PreviewOfSources, PreviewFrom, PreviewWith, PreviewLines, Each
<1>2. counted \in Seq(PalletMoves)
  <2>1. Only(r, A) \in Seq(PalletMoves \cap A)
    BY OnlyEmbeds
  <2> HIDE DEF A
  <2> QED
    BY <2>1
<1>3. /\ DOMAIN counted = 1 .. Len(counted) /\ Len(counted) \in Nat
      /\ \A i \in 1 .. Len(counted) : counted[i] \in PalletMoves
  <2> HIDE DEF counted
  <2> QED
    BY <1>2
<1> HIDE DEF counted
<1>4. f = [i \in 1 .. Len(counted) |-> f[i]] /\ \A i \in 1 .. Len(counted) : f[i] = MoveLines(r, scope, counted[i])
  BY <1>3
<1> HIDE DEF K
<1> DEFINE L == Seq(Q)
<1>5. \A i \in 1 .. Len(counted) : f[i] \in L
  BY <1>3, <1>4, MoveLinesSeq
<1> HIDE DEF f, L, Q
<1>6. <<>> \o f \in Seq(L) /\ Len(<<>> \o f) = Len(counted)
  BY <1>3, <1>4, <1>5, EachSeq
<1>7. Joined(<<>> \o f) \in Seq(Q)
  <2> DEFINE s == <<>> \o f
  <2>1. s \in Seq(L)
    BY <1>6
  <2> HIDE DEF s
  <2>2. Len(s) \in Nat /\ \A i \in 1 .. Len(s) : s[i] \in L
    BY <2>1
  <2>3. \A i \in 1 .. Len(s) : s[i] \in Seq(Q)
    BY <2>2 DEF L
  <2>4. Joined(s) \in Seq(Q)
    BY <2>2, <2>3, JoinedSeq
  <2> QED
    BY <2>4 DEF s
<1>8. /\ Len(rows) \in Nat /\ DOMAIN rows = 1 .. Len(rows)
      /\ \A i \in 1 .. Len(rows) : RowSound(rows[i])
  BY StorageRowsSeq
<1>13. \A k \in 1 .. Len(rows) : rows[k].container \in K
  BY DEF K
<1> HIDE DEF rows
<1>9. g = [i \in 1 .. Len(rows) |-> g[i]] /\ \A i \in 1 .. Len(rows) : g[i] = StorageLine(rows[i])
  BY <1>8
<1> HIDE DEF g
<1>10. \A i \in 1 .. Len(rows) : g[i] \in Q
  <2>1. ASSUME NEW row, RowSound(row), row.container \in K PROVE StorageLine(row) \in Q
    <3>1. StorageLine(row) \in LineRecords /\ StorageLine(row).container = row.container
      BY <2>1, StorageLineSound DEF StorageLine, Line
    <3> QED
      BY <2>1, <3>1 DEF Q, LinesOver
  <2> QED
    BY <1>8, <1>9, <1>13, <2>1
<1>11. <<>> \o g \in Seq(Q)
  BY <1>8, <1>9, <1>10, EachSeq
<1>12. Joined(<<>> \o f) \o (<<>> \o g) \in Seq(Q)
  <2> DEFINE a == Joined(<<>> \o f)  b == <<>> \o g
  <2>1. a \in Seq(Q) /\ b \in Seq(Q)
    BY <1>7, <1>11
  <2> HIDE DEF a, b
  <2>2. a \o b \in Seq(Q)
    BY <2>1
  <2> QED
    BY <2>2 DEF a, b
<1> DEFINE lines == PreviewOfSources(r, scope).lines
<1>14. lines \in Seq(Q)
  BY <1>1, <1>12, InLineOrderSeq
<1> HIDE DEF lines
<1>15. lines \in Seq(LineRecords) /\ \A i \in 1 .. Len(lines) : lines[i] \in Q
  <2>1. Q \subseteq LineRecords
    BY DEF Q, LinesOver
  <2> QED
    BY <1>14, <2>1
<1>16. \A i \in 1 .. Len(lines) : lines[i].type = "STORAGE" => \E k \in 1 .. Len(rows) : rows[k].container = lines[i].container
  BY <1>15 DEF Q, LinesOver, K
<1> QED
  BY <1>15, <1>16 DEF lines, rows

\* What the lines of a preview add up to is billed: all of its lines are copied,
\* and none of them is a discount, which the invoice would count apart.
LEMMA BilledInFull ==
  ASSUME NEW r \in Seq(PalletMoves), NEW scope, ScopeSound(scope), NEW settlement, ~settlement,
         NEW preview, preview = PreviewOfSources(r, scope), NEW id
  PROVE  NewInvoice(id, scope, settlement, InvoiceLines(preview, settlement)).grandTotal
           = preview.summary.grandTotal
<1> DEFINE lines == preview.lines
           billed == InvoiceLines(preview, settlement)
           a == [i \in DOMAIN lines |-> lines[i].amount]
<1>1. lines \in Seq(LineRecords)
  BY PreviewLinesSeq
<1>2. preview.summary.grandTotal = Summed(<<>> \o a)
  BY DEF PreviewOfSources, PreviewFrom, PreviewWith, Summary, TotalOf, Each
<1>3. /\ Only(lines, {l \in ToSet(lines) : ~settlement \/ l.type = "STORAGE"}) = lines
      /\ Len(lines) \in Nat /\ DOMAIN lines = 1 .. Len(lines)
      /\ \A i \in 1 .. Len(lines) : lines[i] \in LineRecords
  <2> HIDE DEF lines
  <2>1. Len(lines) \in Nat /\ DOMAIN lines = 1 .. Len(lines) /\ \A i \in 1 .. Len(lines) : lines[i] \in LineRecords
    BY <1>1
  <2> DEFINE A == {l \in ToSet(lines) : ~settlement \/ l.type = "STORAGE"}
  <2>2. \A i \in 1 .. Len(lines) : lines[i] \in A
    BY <2>1 DEF ToSet
  <2> HIDE DEF A
  <2>3. Only(lines, A) = lines
    BY <1>1, <2>2, OnlyAll
  <2> QED
    BY <2>1, <2>3 DEF A
<1>4. /\ billed = [i \in 1 .. Len(lines) |-> billed[i]]
      /\ \A i \in 1 .. Len(lines) : billed[i].type = lines[i].type /\ billed[i].amount = lines[i].amount
  <2> DEFINE Stay(c) == CHOOSE x \in ToSet(preview.storage) : x.container = c
         kept == Only(lines, {l \in ToSet(lines) : ~settlement \/ l.type = "STORAGE"})
  <2>1. billed = [i \in DOMAIN kept |->
                   [id |-> i, type |-> kept[i].type, container |-> kept[i].container,
                    day |-> kept[i].day, quantity |-> kept[i].quantity, amount |-> kept[i].amount,
                    manual |-> FALSE,
                    details |-> IF kept[i].type = "STORAGE" THEN StayDetails(Stay(kept[i].container))
                                ELSE NoDetails]]
    BY DEF InvoiceLines
  <2>2. kept = lines
    BY <1>3
  <2> HIDE DEF lines, kept, billed, Stay
  <2> QED
    BY <1>3, <2>1, <2>2
<1> DEFINE b == [i \in DOMAIN billed |-> billed[i].amount]
           R == {billed[i] : i \in 1 .. Len(lines)}
           charges == Only(billed, {l \in ToSet(billed) : l.type # "DISCOUNT"})
           discounts == Only(billed, {l \in ToSet(billed) : l.type = "DISCOUNT"})
<1> HIDE DEF lines, billed
<1>5. billed \in Seq(R) /\ Len(billed) = Len(lines) /\ DOMAIN billed = 1 .. Len(lines)
  <2>1. \A i \in 1 .. Len(lines) : billed[i] \in R
    OBVIOUS
  <2> HIDE DEF R
  <2>2. billed \in Seq(R) /\ Len(billed) = Len(lines)
    BY <1>3, <1>4, <2>1, EachSeq
  <2> QED
    BY <1>3, <2>2
<1> HIDE DEF R
<1>6. \A i \in 1 .. Len(lines) : billed[i].type # "DISCOUNT" /\ billed[i].amount \in Int
  BY <1>3, <1>4 DEF LineRecords, Services
<1>7. charges = billed
  <2> DEFINE A == {l \in ToSet(billed) : l.type # "DISCOUNT"}
  <2>1. \A i \in 1 .. Len(billed) : billed[i] \in A
    BY <1>5, <1>6 DEF ToSet
  <2> HIDE DEF A
  <2>2. Only(billed, A) = billed
    BY <1>5, <2>1, OnlyAll
  <2> QED
    BY <2>2 DEF A
<1>8. discounts = <<>>
  <2> DEFINE A == {l \in ToSet(billed) : l.type = "DISCOUNT"}
  <2>1. \A i \in 1 .. Len(billed) : billed[i] \notin A
    BY <1>5, <1>6
  <2> HIDE DEF A
  <2>2. Only(billed, A) = <<>>
    BY <1>5, <2>1, OnlyNone
  <2> QED
    BY <2>2 DEF A
<1>9. TotalOf(LAMBDA l : l.amount, <<>>) = 0
  <2> DEFINE e == [i \in DOMAIN <<>> |-> <<>>[i].amount]
  <2>1. e = <<>>
    OBVIOUS
  <2>2. <<>> \o e = <<>>
    BY <2>1
  <2>3. TotalOf(LAMBDA l : l.amount, <<>>) = Summed(<<>> \o e)
    BY DEF TotalOf, Each
  <2> QED
    BY <2>2, <2>3, SummedEmpty
<1>10. TotalOf(LAMBDA l : l.amount, billed) = Summed(<<>> \o b)
  BY DEF TotalOf, Each
<1>11. NewInvoice(id, scope, settlement, billed).grandTotal
         = TotalOf(LAMBDA l : l.amount, charges) + TotalOf(LAMBDA l : l.amount, discounts)
  BY DEF NewInvoice, Recalculated, AmountOf
<1>12. a = b
  BY <1>3, <1>4, <1>5
<1>13. Summed(<<>> \o b) \in Int
  <2>1. b = [i \in 1 .. Len(lines) |-> b[i]]
    BY <1>5
  <2>2. \A i \in 1 .. Len(lines) : b[i] \in Int
    BY <1>5, <1>6
  <2> HIDE DEF b
  <2>3. <<>> \o b = b /\ b \in Seq(Int)
    BY <1>3, <2>1, <2>2, EachSeq
  <2> QED
    BY <2>3, SummedInt
<1>14. NewInvoice(id, scope, settlement, billed).grandTotal = Summed(<<>> \o b) + 0
  BY <1>7, <1>8, <1>9, <1>10, <1>11
<1>15. NewInvoice(id, scope, settlement, billed).grandTotal = Summed(<<>> \o b)
  BY <1>13, <1>14
<1> QED
  BY <1>2, <1>12, <1>15 DEF billed

-----------------------------------------------------------------------------
(* The invariant *)

\* A page on the screen has a scope, and shows nothing or the scope's preview.
PageSound(name, p) ==
  page = name => /\ {"scope", "preview"} \subseteq DOMAIN p
                 /\ p.preview # Nothing => p.preview.scope = p.scope

\* A load asks for the scope that it was started with; if it is still wanted,
\* that is the scope of the page on the screen.
Asks(l) ==
  /\ {"owner", "scope", "active", "answer"} \subseteq DOMAIN l
  /\ l.answer # Nothing /\ l.answer.ok => l.answer.preview.scope = l.scope
Wanted(l) ==
  l.active => /\ l.owner = "desk" /\ page = "desk" => l.scope = desk.scope
              /\ l.owner = "stay" /\ page = "stay" => l.scope = stay.scope

\* So it is with everything in flight.
LoadsSound == \A l \in loads : Asks(l) /\ Wanted(l)

\* What the two pages show, and what may still be shown on them.
ScopeInv == PageSound("desk", desk) /\ PageSound("stay", stay) /\ LoadsSound

-----------------------------------------------------------------------------
(* What the invariant rests on *)

\* The service's preview, or the merged one, is of the scope it was asked for.
LEMMA PreviewScope == ASSUME NEW scope PROVE PreviewOf(scope).scope = scope
BY DEF PreviewOf, ServicePreview, PreviewOfSources, PreviewFrom, PreviewWith, Merged

\* What a cleanup leaves in flight is not wanted by anyone.
LEMMA AbandonedLoads ==
  ASSUME LoadsSound, NEW l \in Abandoned
  PROVE  Asks(l) /\ ~l.active
<1>1. PICK k \in loads : l = [k EXCEPT !.active = FALSE]
  BY DEF Abandoned
<1>2. Asks(k)
  BY DEF LoadsSound
<1> QED
  BY <1>1, <1>2 DEF Asks

\* A load that has just started asks for its scope.
LEMMA PendingLoad ==
  ASSUME NEW owner, NEW scope
  PROVE  /\ Asks(Pending(owner, scope))
         /\ Pending(owner, scope).owner = owner /\ Pending(owner, scope).scope = scope
BY DEF Pending, Asks

-----------------------------------------------------------------------------
(* The kinds of steps *)

\* Pages that keep their scope and their preview, and loads left alone.
LEMMA KeptSound ==
  ASSUME ScopeInv, page' = page, loads' = loads, stay' = stay,
         page = "desk" => /\ DOMAIN desk' = DOMAIN desk
                          /\ desk'.scope = desk.scope /\ desk'.preview = desk.preview
  PROVE  ScopeInv'
<1>1. PageSound("desk", desk)'
  BY DEF ScopeInv, PageSound
<1>2. PageSound("stay", stay)'
  BY DEF ScopeInv, PageSound
<1>3. LoadsSound'
  BY DEF ScopeInv, LoadsSound, Asks, Wanted, PageSound
<1> QED
  BY <1>1, <1>2, <1>3 DEF ScopeInv

\* The desk asks again.
LEMMA ReloadSound ==
  ASSUME ScopeInv, NEW d, NEW scope, Reload(d, scope), page' = page, stay' = stay,
         page = "desk" => {"scope", "preview"} \subseteq DOMAIN d
  PROVE  ScopeInv'
<1>1. page = "desk" => /\ {"scope", "preview"} \subseteq DOMAIN desk'
                       /\ desk'.scope = scope /\ desk'.preview = Nothing
  BY DEF Reload
<1>2. PageSound("desk", desk)'
  BY <1>1 DEF PageSound
<1>3. PageSound("stay", stay)'
  BY DEF ScopeInv, PageSound
<1>4. ASSUME NEW l \in loads' PROVE (Asks(l) /\ Wanted(l))'
  <2>1. CASE l = Pending("desk", scope)
    BY <2>1, <1>1, PendingLoad DEF Wanted, Asks
  <2>2. CASE l \in Abandoned
    BY <2>2, AbandonedLoads DEF ScopeInv, Wanted, Asks
  <2> QED
    BY <1>4, <2>1, <2>2 DEF Reload
<1> QED
  BY <1>2, <1>3, <1>4 DEF ScopeInv, LoadsSound

\* The desk is mounted and asks for the first scope.
LEMMA DeskMounted ==
  ASSUME ScopeInv, page' = "desk", desk' = FreshDesk,
         loads' = Abandoned \cup {Pending("desk", FirstScope)}
  PROVE  ScopeInv'
<1>1. desk'.scope = FirstScope /\ desk'.preview = Nothing /\ {"scope", "preview"} \subseteq DOMAIN desk'
  BY DEF FreshDesk
<1>2. PageSound("desk", desk)' /\ PageSound("stay", stay)'
  BY <1>1 DEF PageSound
<1>3. ASSUME NEW l \in loads' PROVE (Asks(l) /\ Wanted(l))'
  <2>1. CASE l = Pending("desk", FirstScope)
    BY <2>1, <1>1, PendingLoad DEF Wanted, Asks
  <2>2. CASE l \in Abandoned
    BY <2>2, AbandonedLoads DEF ScopeInv, Wanted, Asks
  <2> QED
    BY <1>3, <2>1, <2>2
<1> QED
  BY <1>2, <1>3 DEF ScopeInv, LoadsSound

\* So does the page of a container.
LEMMA StayMounted ==
  ASSUME ScopeInv, NEW container, NEW scope, NEW seen, OpenStay(container, scope, seen)
  PROVE  ScopeInv'
<1>1. /\ page' = "stay" /\ stay' = FreshStay(container, StayScope(scope), seen)
      /\ loads' = Abandoned \cup {Pending("stay", StayScope(scope))}
  BY DEF OpenStay, Mount
<1>2. stay'.scope = StayScope(scope) /\ stay'.preview = Nothing /\ {"scope", "preview"} \subseteq DOMAIN stay'
  BY <1>1 DEF FreshStay
<1>3. PageSound("desk", desk)' /\ PageSound("stay", stay)'
  BY <1>1, <1>2 DEF PageSound
<1>4. ASSUME NEW l \in loads' PROVE (Asks(l) /\ Wanted(l))'
  <2>1. CASE l = Pending("stay", StayScope(scope))
    BY <2>1, <1>1, <1>2, PendingLoad DEF Wanted, Asks
  <2>2. CASE l \in Abandoned
    BY <2>2, AbandonedLoads DEF ScopeInv, Wanted, Asks
  <2> QED
    BY <1>1, <1>4, <2>1, <2>2
<1> QED
  BY <1>3, <1>4 DEF ScopeInv, LoadsSound

\* The editor asks for no previews.
LEMMA EditorMounted ==
  ASSUME page' = "editor", loads' = {}
  PROVE  ScopeInv'
BY DEF ScopeInv, PageSound, LoadsSound

\* An answer is of what was asked, whenever it was computed.
LEMMA AnswerSound ==
  ASSUME ScopeInv, NEW load \in loads, Answer(load)
  PROVE  ScopeInv'
<1>1. PICK answer : /\ AnswerLoad(load, answer)
                    /\ answer.ok => answer.preview.scope = load.scope
  <2>1. ASSUME NEW previous \in BOOLEAN
        PROVE  Answered(load, previous).preview.scope = load.scope
    BY PreviewScope DEF Answered
  <2>2. [ok |-> FALSE].ok = FALSE
    OBVIOUS
  <2> QED
    BY <2>1, <2>2 DEF Answer
<1>2. Asks(load) /\ Wanted(load)
  BY DEF ScopeInv, LoadsSound
<1>3. ASSUME NEW l \in loads' PROVE (Asks(l) /\ Wanted(l))'
  <2>1. CASE l = [load EXCEPT !.answer = answer]
    BY <2>1, <1>1, <1>2 DEF AnswerLoad, Asks, Wanted
  <2>2. CASE l \in loads
    BY <2>2, <1>1 DEF AnswerLoad, ScopeInv, LoadsSound, Asks, Wanted
  <2> QED
    BY <1>1, <1>3, <2>1, <2>2 DEF AnswerLoad
<1>4. PageSound("desk", desk)' /\ PageSound("stay", stay)'
  BY <1>1 DEF AnswerLoad, ScopeInv, PageSound
<1> QED
  BY <1>3, <1>4 DEF ScopeInv, LoadsSound

\* A page takes an answer only from a load that is wanted.
LEMMA ReceiveSound ==
  ASSUME ScopeInv, NEW load \in loads, Receive(load)
  PROVE  ScopeInv'
<1>1. Asks(load) /\ Wanted(load)
  BY DEF ScopeInv, LoadsSound
<1>2. page' = page /\ loads' \subseteq loads /\ load.answer # Nothing
  BY DEF Receive
<1>3. page = "desk" => /\ DOMAIN desk' = DOMAIN desk /\ desk'.scope = desk.scope
                       /\ \/ desk'.preview = desk.preview
                          \/ desk'.preview.scope = desk.scope
  <2>1. CASE page = "desk" /\ Shown(load) /\ load.answer.ok
    <3>1. desk' = DeskAfter(load.answer) /\ load.scope = desk.scope
      BY <2>1, <1>1 DEF Receive, Shown, Wanted
    <3>2. {"scope", "preview"} \subseteq DOMAIN desk
      BY <2>1 DEF ScopeInv, PageSound
    <3> QED
      BY <2>1, <3>1, <3>2, <1>1, <1>2 DEF DeskAfter, Asks
  <2>2. CASE page = "desk" /\ Shown(load) /\ ~load.answer.ok
    <3>1. desk' = DeskAfter(load.answer)
      BY <2>2 DEF Receive
    <3> QED
      BY <2>2, <3>1 DEF DeskAfter
  <2>3. CASE page = "desk" /\ ~Shown(load)
    BY <2>3 DEF Receive
  <2> QED
    BY <2>1, <2>2, <2>3
<1>4. page = "stay" => /\ DOMAIN stay' = DOMAIN stay /\ stay'.scope = stay.scope
                       /\ \/ stay'.preview = stay.preview
                          \/ stay'.preview.scope = stay.scope
  <2>1. CASE page = "stay" /\ Shown(load) /\ load.answer.ok
    <3>1. stay' = StayAfter(load.answer) /\ load.scope = stay.scope
      BY <2>1, <1>1 DEF Receive, Shown, Wanted
    <3>2. {"scope", "preview"} \subseteq DOMAIN stay
      BY <2>1 DEF ScopeInv, PageSound
    <3> QED
      BY <2>1, <3>1, <3>2, <1>1, <1>2 DEF StayAfter, Asks
  <2>2. CASE page = "stay" /\ Shown(load) /\ ~load.answer.ok
    <3>1. stay' = StayAfter(load.answer)
      BY <2>2 DEF Receive
    <3> QED
      BY <2>2, <3>1 DEF StayAfter
  <2>3. CASE page = "stay" /\ ~Shown(load)
    BY <2>3 DEF Receive
  <2> QED
    BY <2>1, <2>2, <2>3
<1>5. PageSound("desk", desk)'
  BY <1>2, <1>3 DEF ScopeInv, PageSound
<1>6. PageSound("stay", stay)'
  BY <1>2, <1>4 DEF ScopeInv, PageSound
<1>7. LoadsSound'
  BY <1>2, <1>3, <1>4 DEF ScopeInv, LoadsSound, Asks, Wanted
<1> QED
  BY <1>5, <1>6, <1>7 DEF ScopeInv

-----------------------------------------------------------------------------
(* The steps *)

\* The desk opens with its first scope, and asks for it.
LEMMA InitSound == Init => ScopeInv
<1> SUFFICES ASSUME Init PROVE ScopeInv
  OBVIOUS
<1>1. page = "desk" /\ desk.scope = FirstScope /\ desk.preview = Nothing
      /\ {"scope", "preview"} \subseteq DOMAIN desk /\ loads = {Pending("desk", FirstScope)}
  BY DEF Init, FreshDesk
<1> QED
  BY <1>1, PendingLoad DEF ScopeInv, PageSound, LoadsSound, Wanted

\* What a user does on the desk.
LEMMA DeskStepsSound == ScopeInv /\ DeskSteps => ScopeInv'
<1> SUFFICES ASSUME ScopeInv, DeskSteps PROVE ScopeInv'
  OBVIOUS
<1>1. CASE \E scope \in Scopes : SelectScope(scope)
  <2>1. PICK scope \in Scopes : SelectScope(scope)
    BY <1>1
  <2> QED
    BY <2>1, ReloadSound DEF SelectScope, ScopeInv, PageSound
<1>2. CASE ChooseMode
  BY <1>2, KeptSound DEF ChooseMode
<1>3. CASE \E filter \in Filters : TypeFilter(filter)
  BY <1>3, KeptSound DEF TypeFilter
<1>4. CASE \E action \in {"refresh", "preview-pdf"} : StartBusy(action)
  BY <1>4, KeptSound DEF StartBusy
<1>5. CASE CreateInvoice
  BY <1>5, KeptSound DEF CreateInvoice
<1> QED
  BY <1>1, <1>2, <1>3, <1>4, <1>5 DEF DeskSteps

\* What a user does in the editor leaves the other pages and the loads alone.
LEMMA EditorStepsSound == ScopeInv /\ EditorSteps => ScopeInv'
<1> SUFFICES ASSUME ScopeInv, EditorSteps PROVE ScopeInv'
  OBVIOUS
<1>1. CASE \E id \in 1..MaxInvoices : OpenEditor(id)
  BY <1>1, EditorMounted DEF OpenEditor, Mount
<1>2. CASE UNCHANGED <<page, desk, stay, loads>>
  BY <1>2, KeptSound
<1>3. ASSUME NEW e, Set(e) PROVE UNCHANGED <<page, desk, stay, loads>>
  BY <1>3 DEF Set
<1>4. ASSUME NEW kind, NEW line, NEW form, Send(kind, line, form)
      PROVE  UNCHANGED <<page, desk, stay, loads>>
  BY <1>4 DEF Send
<1>5. CASE \E mode \in {"add-line", "edit-line"}, line \in 0..9 : OpenLine(mode, line)
  BY <1>2, <1>3, <1>5 DEF OpenLine
<1>6. CASE CloseLine \/ CancelConfirm
  BY <1>2, <1>3, <1>6 DEF CloseLine, CancelConfirm
<1>7. CASE \E action \in {"finalize", "mark-paid", "void", "delete"} : Ask(action)
  BY <1>2, <1>3, <1>7 DEF Ask
<1>8. CASE \E line \in 1..9 : AskDeleteLine(line)
  BY <1>2, <1>3, <1>8 DEF AskDeleteLine
<1>9. CASE \E section \in {"header", "notes"} : EditSection(section)
  BY <1>2, <1>3, <1>9 DEF EditSection
<1>10. CASE \E form \in Forms : SaveLine(form)
  BY <1>2, <1>3, <1>4, <1>10 DEF SaveLine
<1>11. CASE Confirm
  BY <1>2, <1>4, <1>11 DEF Confirm
<1>12. CASE \E section \in {"save-header", "save-notes"} : SaveSection(section)
  BY <1>2, <1>4, <1>12 DEF SaveSection
<1>13. CASE \E kind \in {"export-pdf", "export-container-zip"} : ExportDocument(kind)
  BY <1>2, <1>3, <1>13 DEF ExportDocument
<1> QED
  BY <1>1, <1>5, <1>6, <1>7, <1>8, <1>9, <1>10, <1>11, <1>12, <1>13 DEF EditorSteps

\* What comes back, in any order.
LEMMA ArrivalsSound == ScopeInv /\ Arrivals => ScopeInv'
<1> SUFFICES ASSUME ScopeInv, Arrivals PROVE ScopeInv'
  OBVIOUS
<1>1. CASE \E load \in loads : Answer(load) \/ Receive(load)
  BY <1>1, AnswerSound, ReceiveSound
<1>2. CASE \E ok \in BOOLEAN : ReceiveHistory(ok) \/ EndPreviewPdf(ok) \/ EndExport(ok)
  <2>1. ASSUME NEW ok \in BOOLEAN, ReceiveHistory(ok) PROVE ScopeInv'
    BY <2>1, KeptSound DEF ReceiveHistory
  <2>2. ASSUME NEW ok \in BOOLEAN, EndPreviewPdf(ok) PROVE ScopeInv'
    BY <2>2, KeptSound DEF EndPreviewPdf
  <2>3. ASSUME NEW ok \in BOOLEAN, EndExport(ok) PROVE ScopeInv'
    BY <2>3, KeptSound DEF EndExport, Set
  <2> QED
    BY <1>2, <2>1, <2>2, <2>3
<1>3. CASE EndRefresh
  BY <1>3, ReloadSound DEF EndRefresh, ScopeInv, PageSound
<1>4. CASE Created
  BY <1>4, EditorMounted DEF Created
<1>5. CASE CreationStale
  <2>1. CASE creation.live
    BY <1>5, <2>1, ReloadSound DEF CreationStale, ScopeInv, PageSound
  <2>2. CASE ~creation.live
    BY <1>5, <2>2, KeptSound DEF CreationStale
  <2> QED
    BY <2>1, <2>2
<1>6. CASE CreationRefused
  BY <1>6, KeptSound DEF CreationRefused
<1>7. CASE \E id \in fetches, ok \in BOOLEAN : Fetch(id, ok)
  BY <1>7, KeptSound DEF Fetch
<1>8. CASE Respond
  BY <1>8, KeptSound DEF Respond
<1>9. CASE Deleted
  <2>1. CASE page = "desk"
    BY <1>9, <2>1, KeptSound DEF Deleted
  <2>2. CASE page # "desk"
    BY <1>9, <2>2, DeskMounted DEF Deleted
  <2> QED
    BY <2>1, <2>2
<1>10. CASE \E done \in BOOLEAN : RespondError(done)
  BY <1>10, KeptSound DEF RespondError
<1> QED
  BY <1>1, <1>2, <1>3, <1>4, <1>5, <1>6, <1>7, <1>8, <1>9, <1>10 DEF Arrivals

\* Every step keeps it: movements and opened pages here, the rest in the lemmas.
LEMMA StepSound == ScopeInv /\ [Next]_vars => ScopeInv'
<1> SUFFICES ASSUME ScopeInv, [Next]_vars PROVE ScopeInv'
  OBVIOUS
<1>1. CASE \E m \in Candidates : Move(m)
  BY <1>1, KeptSound DEF Move
<1>2. CASE OpenDesk
  BY <1>2, DeskMounted DEF OpenDesk, Mount
<1>3. CASE \E i \in 1..Cardinality(Containers) : Viewed(i)
  <2>1. PICK i \in 1..Cardinality(Containers) : Viewed(i)
    BY <1>3
  <2>2. ViewContainer(TableShown[i])
    BY <2>1 DEF Viewed
  <2> QED
    BY <2>2, StayMounted DEF ViewContainer
<1>4. CASE \E container \in Containers, scope \in Scopes : VisitStay(container, scope)
  BY <1>4, StayMounted DEF VisitStay
<1>5. CASE DeskSteps
  BY <1>5, DeskStepsSound
<1>6. CASE EditorSteps
  BY <1>6, EditorStepsSound
<1>7. CASE Arrivals
  BY <1>7, ArrivalsSound
<1>8. CASE UNCHANGED vars
  BY <1>8, KeptSound DEF vars
<1> QED
  BY <1>1, <1>2, <1>3, <1>4, <1>5, <1>6, <1>7, <1>8 DEF Next

\* What the desk and the page of a container show is the preview of what their
\* filters say: a load that was abandoned, by a change of the scope, a reload
\* or a change of the page, never reaches the screen (the active guards of the
\* effects of BillingPage and BillingContainerDetailPage).
THEOREM PreviewsMatchScopes == Spec => []PreviewMatchesScope
<1>1. ScopeInv => PreviewMatchesScope
  BY DEF ScopeInv, PageSound, PreviewMatchesScope
<1> QED
  BY InitSound, StepSound, <1>1, PTL DEF Spec

-----------------------------------------------------------------------------
(* What is billed *)

\* The previews of all customers from some movements, merged.
AllPreviews(r, scope) ==
  Merged([i \in DOMAIN Ascending(Customers) |->
           Mapped(ServicePreview(r, [scope EXCEPT !.customer = Ascending(Customers)[i]]))], scope)

\* A preview is computed from some movements, once and for all.
PreviewSound(preview, scope) ==
  /\ scope.customer # AllCustomers => \E r \in Seq(PalletMoves) : preview = PreviewOfSources(r, scope)
  /\ scope.customer = AllCustomers => \E r \in Seq(PalletMoves) : preview = AllPreviews(r, scope)

\* So are the preview on the desk, the answers in flight and what is being billed.
DeskSourced(d) ==
  /\ {"scope", "preview"} \subseteq DOMAIN d /\ d.scope \in Scopes
  /\ d.preview # Nothing => PreviewSound(d.preview, d.scope)
LoadSourced(l) ==
  /\ {"owner", "scope", "active", "answer"} \subseteq DOMAIN l
  /\ l.answer # Nothing /\ l.answer.ok => PreviewSound(l.answer.preview, l.scope)
CallSourced(c) ==
  c # NoCall =>
    /\ {"scope", "settlement", "preview", "live"} \subseteq DOMAIN c
    /\ c.scope \in Scopes /\ c.scope.customer # AllCustomers /\ PreviewSound(c.preview, c.scope)

\* The movements, the invoices and every preview there is are what the service made of them.
SourcesInv ==
  /\ moves \in Seq(PalletMoves)
  /\ IsList(invoices)
  /\ page = "desk" => DeskSourced(desk)
  /\ \A l \in loads : LoadSourced(l)
  /\ CallSourced(creation)

\* What the service answers is computed from the movements that it reads.
LEMMA ServiceSound ==
  ASSUME moves \in Seq(PalletMoves), NEW scope
  PROVE  PreviewSound(PreviewOf(scope), scope)
<1>5. scope.customer = AllCustomers => PreviewOf(scope) = AllPreviews(moves, scope)
  BY DEF PreviewOf, AllPreviews
<1> SUFFICES ASSUME scope.customer # AllCustomers
             PROVE  \E r \in Seq(PalletMoves) : PreviewOf(scope) = PreviewOfSources(r, scope)
  BY <1>5 DEF PreviewSound
<1> DEFINE A == {m \in ToSet(moves) : CustomerOf[m.container] = scope.customer /\ m.day <= scope.end}
<1>1. Only(moves, A) \in Seq(PalletMoves \cap A)
  BY OnlyEmbeds
<1>2. SourcesOf(moves, scope) = Only(moves, A)
  BY DEF SourcesOf
<1> HIDE DEF A
<1>3. SourcesOf(moves, scope) \in Seq(PalletMoves)
  BY <1>1, <1>2
<1>4. PreviewOf(scope) = PreviewOfSources(SourcesOf(moves, scope), scope)
  BY DEF PreviewOf, ServicePreview
<1> QED
  BY <1>3, <1>4

\* Of an unchanged scope and an unchanged list of movements there is one preview:
\* what is billed is what the desk showed.
LEMMA NotStale ==
  ASSUME moves \in Seq(PalletMoves), CallSourced(creation), creation # NoCall,
         GenerateInvoice(creation).status = "ok"
  PROVE  /\ creation.preview = PreviewOfSources(SourcesOf(moves, creation.scope), creation.scope)
         /\ SourcesOf(moves, creation.scope) \in Seq(PalletMoves)
         /\ GenerateInvoice(creation).lines = InvoiceLines(creation.preview, creation.settlement)
<1> DEFINE scope == creation.scope
           now == PreviewOfSources(SourcesOf(moves, scope), scope)
<1>1. PICK r \in Seq(PalletMoves) : creation.preview = PreviewOfSources(r, scope)
  BY DEF CallSourced, PreviewSound
<1>2. ~Stale(creation, now)
  <2>1. GenerateInvoice(creation) = BillingOf(creation, now)
    BY DEF GenerateInvoice, ServicePreview
  <2>2. "stale" # "ok"
    OBVIOUS
  <2> HIDE DEF now
  <2> QED
    BY <2>1, <2>2 DEF BillingOf, Billing
<1>3. PreviewOfSources(r, scope).fingerprint = <<scope, r>> /\ now.fingerprint = <<scope, SourcesOf(moves, scope)>>
  BY DEF PreviewOfSources, PreviewFrom, PreviewWith
<1>4. r = SourcesOf(moves, scope)
  BY <1>1, <1>2, <1>3 DEF Stale
<1>5. GenerateInvoice(creation).lines = InvoiceLines(now, creation.settlement)
  <2>1. GenerateInvoice(creation) = BillingOf(creation, now)
    BY DEF GenerateInvoice, ServicePreview
  <2> HIDE DEF now
  <2> QED
    BY <2>1 DEF BillingOf, Billing
<1> QED
  BY <1>1, <1>4, <1>5

-----------------------------------------------------------------------------
(* How the steps keep what is billed *)

\* Ignoring an answer does not change it.
LEMMA AbandonedSourced ==
  ASSUME \A l \in loads : LoadSourced(l), NEW l \in Abandoned
  PROVE  LoadSourced(l)
<1>1. PICK k \in loads : l = [k EXCEPT !.active = FALSE]
  BY DEF Abandoned
<1>2. LoadSourced(k)
  OBVIOUS
<1> QED
  BY <1>1, <1>2 DEF LoadSourced

\* A load that is just asked for has no answer yet.
LEMMA PendingSourced ==
  ASSUME NEW owner, NEW scope
  PROVE  LoadSourced(Pending(owner, scope))
BY DEF Pending, LoadSourced

\* A creation whose page is gone still carries its preview.
LEMMA OrphanSourced ==
  ASSUME NEW c, CallSourced(c)
  PROVE  CallSourced(Orphan(c))
<1>1. CASE c = NoCall
  BY <1>1 DEF Orphan, CallSourced
<1>2. CASE c # NoCall
  <2>1. /\ Orphan(c).scope = c.scope /\ Orphan(c).preview = c.preview
        /\ DOMAIN Orphan(c) = DOMAIN c
    BY <1>2 DEF Orphan, CallSourced
  <2> QED
    BY <1>2, <2>1 DEF CallSourced
<1> QED
  BY <1>1, <1>2

\* A desk that is just mounted shows nothing, of the first scope.
LEMMA FreshDeskSourced == DeskSourced(FreshDesk)
<1>1. FreshDesk.scope = FirstScope /\ FreshDesk.preview = Nothing /\ {"scope", "preview"} \subseteq DOMAIN FreshDesk
  BY DEF FreshDesk
<1> QED
  BY <1>1, ScopesAssumption DEF DeskSourced

\* Pages that keep what they show.
LEMMA KeptSourced ==
  ASSUME SourcesInv, moves' = moves, IsList(invoices'), page' = page, loads' = loads,
         page = "desk" => DeskSourced(desk'), CallSourced(creation')
  PROVE  SourcesInv'
BY DEF SourcesInv

\* A page that is mounted.
LEMMA MountedSourced ==
  ASSUME SourcesInv, moves' = moves, IsList(invoices'), page' = "desk" => desk' = FreshDesk,
         NEW owner, NEW scope, loads' \subseteq Abandoned \cup {Pending(owner, scope)},
         creation' \in {creation, Orphan(creation), NoCall}
  PROVE  SourcesInv'
<1>1. \A l \in loads' : LoadSourced(l)
  BY AbandonedSourced, PendingSourced DEF SourcesInv
<1>2. page' = "desk" => DeskSourced(desk')
  BY FreshDeskSourced
<1>3. CallSourced(creation')
  <2>1. CallSourced(NoCall)
    BY DEF CallSourced
  <2> QED
    BY <2>1, OrphanSourced DEF SourcesInv
<1> QED
  BY <1>1, <1>2, <1>3 DEF SourcesInv

\* The desk asks again.
LEMMA ReloadSourced ==
  ASSUME SourcesInv, NEW d, NEW scope \in Scopes, Reload(d, scope), page' = page, moves' = moves, IsList(invoices'),
         page = "desk" => {"scope", "preview"} \subseteq DOMAIN d,
         CallSourced(creation')
  PROVE  SourcesInv'
<1>1. page = "desk" => DeskSourced(desk')
  BY DEF Reload, DeskSourced
<1>2. \A l \in loads' : LoadSourced(l)
  BY AbandonedSourced, PendingSourced DEF SourcesInv, Reload
<1> QED
  BY <1>1, <1>2 DEF SourcesInv

\* The answer that comes to a load is computed from the movements of that moment.
LEMMA AnswerSourced ==
  ASSUME SourcesInv, NEW load \in loads, Answer(load)
  PROVE  SourcesInv'
<1>1. PICK answer : /\ AnswerLoad(load, answer)
                    /\ answer.ok => PreviewSound(answer.preview, load.scope)
  <2>1. ASSUME NEW previous \in BOOLEAN
        PROVE  PreviewSound(Answered(load, previous).preview, load.scope)
    <3>1. Answered(load, previous).preview = PreviewOf(load.scope)
      BY DEF Answered
    <3> QED
      BY <3>1, ServiceSound DEF SourcesInv
  <2>2. [ok |-> FALSE].ok = FALSE
    OBVIOUS
  <2> QED
    BY <2>1, <2>2 DEF Answer
<1>2. ASSUME NEW l \in loads' PROVE LoadSourced(l)
  <2>1. CASE l = [load EXCEPT !.answer = answer]
    <3>1. LoadSourced(load)
      BY DEF SourcesInv
    <3> QED
      BY <2>1, <3>1, <1>1 DEF LoadSourced
  <2>2. CASE l \in loads
    BY <2>2 DEF SourcesInv
  <2> QED
    BY <1>1, <1>2, <2>1, <2>2 DEF AnswerLoad
<1> QED
  BY <1>1, <1>2 DEF AnswerLoad, SourcesInv, server

\* A desk shows an answer only of its own scope, so it is sourced like the answer.
LEMMA ReceiveSourced ==
  ASSUME ScopeInv, SourcesInv, NEW load \in loads, Receive(load)
  PROVE  SourcesInv'
<1>1. LoadSourced(load) /\ Wanted(load)
  BY DEF ScopeInv, SourcesInv, LoadsSound
<1>2. /\ page' = page /\ loads' \subseteq loads /\ load.answer # Nothing
      /\ UNCHANGED <<moves, invoices, creation>>
  BY DEF Receive, server
<1>3. page = "desk" => DeskSourced(desk')
  <2> SUFFICES ASSUME page = "desk" PROVE DeskSourced(desk')
    OBVIOUS
  <2>0. DeskSourced(desk)
    BY DEF SourcesInv
  <2>1. CASE Shown(load) /\ load.answer.ok
    <3>1. desk' = DeskAfter(load.answer) /\ load.scope = desk.scope
      BY <2>1, <1>1 DEF Receive, Shown, Wanted
    <3>2. /\ DOMAIN desk' = DOMAIN desk /\ desk'.scope = desk.scope
          /\ desk'.preview = load.answer.preview
      BY <2>0, <2>1, <3>1 DEF DeskAfter, DeskSourced
    <3> QED
      BY <2>0, <2>1, <3>1, <3>2, <1>1, <1>2 DEF DeskSourced, LoadSourced
  <2>2. CASE Shown(load) /\ ~load.answer.ok
    <3>1. desk' = DeskAfter(load.answer)
      BY <2>2 DEF Receive
    <3> QED
      BY <2>0, <2>2, <3>1 DEF DeskAfter, DeskSourced
  <2>3. CASE ~Shown(load)
    BY <2>0, <2>3 DEF Receive
  <2> QED
    BY <2>1, <2>2, <2>3
<1> QED
  BY <1>2, <1>3 DEF SourcesInv

\* At first there is nothing on the screen or in flight.
LEMMA InitSourced == Init => SourcesInv
<1> SUFFICES ASSUME Init PROVE SourcesInv
  OBVIOUS
<1>1. moves \in Seq(PalletMoves) /\ IsList(invoices)
  BY MovesAssumption, InvoicesAssumption DEF Init, IsList, ToSet
<1>2. DeskSourced(desk)
  BY FreshDeskSourced DEF Init
<1>3. \A l \in loads : LoadSourced(l)
  BY PendingSourced DEF Init
<1>4. CallSourced(creation)
  BY DEF Init, CallSourced
<1> QED
  BY <1>1, <1>2, <1>3, <1>4 DEF SourcesInv

\* What the user does on the desk keeps the sources.
LEMMA DeskStepsSourced == SourcesInv /\ DeskSteps => SourcesInv'
<1> SUFFICES ASSUME SourcesInv, DeskSteps PROVE SourcesInv'
  OBVIOUS
<1>0. IsList(invoices) /\ (page = "desk" => DeskSourced(desk)) /\ CallSourced(creation)
  BY DEF SourcesInv
<1>1. CASE \E scope \in Scopes : SelectScope(scope)
  <2>1. PICK scope \in Scopes : SelectScope(scope)
    BY <1>1
  <2> QED
    BY <1>0, <2>1, ReloadSourced DEF SelectScope, DeskSourced, server
<1>2. CASE ChooseMode
  BY <1>0, <1>2, KeptSourced DEF ChooseMode, DeskSourced, server
<1>3. CASE \E filter \in Filters : TypeFilter(filter)
  BY <1>0, <1>3, KeptSourced DEF TypeFilter, DeskSourced, server
<1>4. CASE \E action \in {"refresh", "preview-pdf"} : StartBusy(action)
  BY <1>0, <1>4, KeptSourced DEF StartBusy, DeskIdle, DeskSourced, server
<1>5. CASE CreateInvoice
  <2>1. page = "desk" /\ desk.scope.customer # AllCustomers /\ desk.preview # Nothing
    BY <1>5 DEF CreateInvoice, DeskIdle, CanCreate
  <2>2. CallSourced(creation')
    BY <1>0, <1>5, <2>1 DEF CreateInvoice, DeskSourced, CallSourced
  <2>3. DeskSourced(desk')
    BY <1>0, <1>5, <2>1 DEF CreateInvoice, DeskSourced
  <2> QED
    BY <1>0, <1>5, <2>2, <2>3, KeptSourced DEF CreateInvoice, server
<1> QED
  BY <1>1, <1>2, <1>3, <1>4, <1>5 DEF DeskSteps

\* What the user does in the editor keeps the sources.
LEMMA EditorStepsSourced == SourcesInv /\ EditorSteps => SourcesInv'
<1> SUFFICES ASSUME SourcesInv, EditorSteps PROVE SourcesInv'
  OBVIOUS
<1>1. CASE \E id \in 1..MaxInvoices : OpenEditor(id)
  <2>1. PICK id \in 1..MaxInvoices : OpenEditor(id)
    BY <1>1
  <2>2. loads' \subseteq Abandoned \cup {Pending("desk", FirstScope)}
    BY <2>1 DEF OpenEditor
  <2> QED
    BY <2>1, <2>2, MountedSourced DEF OpenEditor, Mount, server, SourcesInv
<1>2. CASE UNCHANGED <<server, page, desk, loads, creation>>
  BY <1>2, KeptSourced DEF SourcesInv, server
<1>3. ASSUME NEW e, Set(e) PROVE UNCHANGED <<server, page, desk, loads, creation>>
  BY <1>3 DEF Set
<1>4. ASSUME NEW kind, NEW line, NEW form, Send(kind, line, form)
      PROVE  UNCHANGED <<server, page, desk, loads, creation>>
  BY <1>4 DEF Send
<1>5. CASE \E mode \in {"add-line", "edit-line"}, line \in 0..9 : OpenLine(mode, line)
  BY <1>2, <1>3, <1>5 DEF OpenLine
<1>6. CASE CloseLine \/ CancelConfirm
  BY <1>2, <1>3, <1>6 DEF CloseLine, CancelConfirm
<1>7. CASE \E action \in {"finalize", "mark-paid", "void", "delete"} : Ask(action)
  BY <1>2, <1>3, <1>7 DEF Ask
<1>8. CASE \E line \in 1..9 : AskDeleteLine(line)
  BY <1>2, <1>3, <1>8 DEF AskDeleteLine
<1>9. CASE \E section \in {"header", "notes"} : EditSection(section)
  BY <1>2, <1>3, <1>9 DEF EditSection
<1>10. CASE \E form \in Forms : SaveLine(form)
  BY <1>2, <1>3, <1>4, <1>10 DEF SaveLine
<1>11. CASE Confirm
  BY <1>2, <1>4, <1>11 DEF Confirm
<1>12. CASE \E section \in {"save-header", "save-notes"} : SaveSection(section)
  BY <1>2, <1>4, <1>12 DEF SaveSection
<1>13. CASE \E kind \in {"export-pdf", "export-container-zip"} : ExportDocument(kind)
  BY <1>2, <1>3, <1>13 DEF ExportDocument
<1> QED
  BY <1>1, <1>5, <1>6, <1>7, <1>8, <1>9, <1>10, <1>11, <1>12, <1>13 DEF EditorSteps

\* What comes back keeps the sources.
LEMMA ArrivalsSourced == ScopeInv /\ SourcesInv /\ Arrivals => SourcesInv'
<1> SUFFICES ASSUME ScopeInv, SourcesInv, Arrivals PROVE SourcesInv'
  OBVIOUS
<1>0. IsList(invoices) /\ (page = "desk" => DeskSourced(desk)) /\ CallSourced(creation) /\ CallSourced(NoCall)
  BY DEF SourcesInv, CallSourced
<1>1. CASE \E load \in loads : Answer(load) \/ Receive(load)
  BY <1>1, AnswerSourced, ReceiveSourced
<1>2. CASE \E ok \in BOOLEAN : ReceiveHistory(ok) \/ EndPreviewPdf(ok) \/ EndExport(ok)
  <2>1. ASSUME NEW ok \in BOOLEAN, ReceiveHistory(ok) PROVE SourcesInv'
    <3>1. DeskSourced(desk')
      BY <1>0, <2>1 DEF ReceiveHistory, DeskSourced
    <3> QED
      BY <1>0, <2>1, <3>1, KeptSourced DEF ReceiveHistory, server
  <2>2. ASSUME NEW ok \in BOOLEAN, EndPreviewPdf(ok) PROVE SourcesInv'
    BY <1>0, <2>2, KeptSourced DEF EndPreviewPdf, DeskSourced, server
  <2>3. ASSUME NEW ok \in BOOLEAN, EndExport(ok) PROVE SourcesInv'
    BY <1>0, <2>3, KeptSourced DEF EndExport, Set, server
  <2> QED
    BY <1>2, <2>1, <2>2, <2>3
<1>3. CASE EndRefresh
  BY <1>0, <1>3, ReloadSourced DEF EndRefresh, DeskSourced, server
<1>4. CASE Created
  <2>1. IsList(invoices')
    BY <1>0, <1>4, ListAppend DEF Created
  <2>2. loads' \subseteq Abandoned \cup {Pending("desk", FirstScope)}
    BY <1>4 DEF Created
  <2>3. page' # "desk" /\ creation' = NoCall /\ moves' = moves
    BY <1>4 DEF Created
  <2> QED
    BY <2>1, <2>2, <2>3, MountedSourced
<1>5. CASE CreationStale
  <2>1. CASE creation.live /\ page = "desk"
    BY <1>0, <1>5, <2>1, ReloadSourced DEF CreationStale, DeskSourced, server
  <2>2. CASE ~creation.live
    BY <1>0, <1>5, <2>2, KeptSourced DEF CreationStale, server
  <2>3. CASE creation.live /\ page # "desk"
    <3>1. \A l \in loads' : LoadSourced(l)
      BY <1>5, <2>3, AbandonedSourced, PendingSourced DEF SourcesInv, CreationStale, Reload
    <3> QED
      BY <1>0, <1>5, <2>3, <3>1 DEF CreationStale, SourcesInv, server
  <2> QED
    BY <2>1, <2>2, <2>3
<1>6. CASE CreationRefused
  BY <1>0, <1>6, KeptSourced DEF CreationRefused, DeskSourced, server
<1>7. CASE \E id \in fetches, ok \in BOOLEAN : Fetch(id, ok)
  BY <1>0, <1>7, KeptSourced DEF Fetch, server
<1>8. CASE Respond
  <2>1. IsList(invoices')
    BY <1>0, <1>8, ListExcept DEF Respond
  <2> QED
    BY <1>0, <1>8, <2>1, KeptSourced DEF Respond
<1>9. CASE Deleted
  <2>1. IsList(invoices')
    BY <1>0, <1>9, ListExcept DEF Deleted
  <2>2. CASE page = "desk"
    BY <1>0, <1>9, <2>1, <2>2, KeptSourced DEF Deleted
  <2>3. CASE page # "desk"
    BY <1>9, <2>1, <2>3, MountedSourced DEF Deleted
  <2> QED
    BY <2>2, <2>3
<1>10. CASE \E done \in BOOLEAN : RespondError(done)
  <2>1. PICK done \in BOOLEAN : RespondError(done)
    BY <1>10
  <2>2. IsList(invoices')
    BY <1>0, <2>1, ListExcept DEF RespondError
  <2> QED
    BY <1>0, <2>1, <2>2, KeptSourced DEF RespondError
<1> QED
  BY <1>1, <1>2, <1>3, <1>4, <1>5, <1>6, <1>7, <1>8, <1>9, <1>10 DEF Arrivals

\* Every step keeps the sources.
LEMMA StepSourced == ScopeInv /\ SourcesInv /\ [Next]_vars => SourcesInv'
<1> SUFFICES ASSUME ScopeInv, SourcesInv, [Next]_vars PROVE SourcesInv'
  OBVIOUS
<1>0. IsList(invoices) /\ moves \in Seq(PalletMoves)
  BY DEF SourcesInv
<1>1. CASE \E m \in Candidates : Move(m)
  <2>1. PICK m \in Candidates : Move(m)
    BY <1>1
  <2> DEFINE D == {i \in DOMAIN moves : moves[i].day <= m.day}
  <2>2. moves' = PutAfter(moves, Cardinality(D), m) /\ m \in PalletMoves
    BY <2>1, MovesAssumption DEF Move
  <2>3. Len(moves) \in Nat /\ D \in SUBSET (1 .. Len(moves))
    BY <1>0
  <2> HIDE DEF D
  <2>4. Cardinality(D) \in 0 .. Len(moves)
    BY <2>3, PositionsCount
  <2>5. moves' \in Seq(PalletMoves)
    BY <1>0, <2>2, <2>4, PutAfterSeq
  <2>6. UNCHANGED <<invoices, page, desk, loads, creation>>
    BY <2>1 DEF Move
  <2> QED
    BY <2>5, <2>6 DEF SourcesInv
<1>2. CASE OpenDesk
  BY <1>0, <1>2, MountedSourced DEF OpenDesk, Mount, server
<1>3. ASSUME NEW container, NEW scope, NEW seen, OpenStay(container, scope, seen) PROVE SourcesInv'
  <2>1. page' # "desk" /\ loads' \subseteq Abandoned \cup {Pending("stay", StayScope(scope))}
    BY <1>3 DEF OpenStay, Mount
  <2>2. moves' = moves /\ invoices' = invoices /\ creation' = Orphan(creation)
    BY <1>3 DEF OpenStay, Mount, server
  <2> QED
    BY <1>0, <2>1, <2>2, MountedSourced
<1>4. CASE \E i \in 1..Cardinality(Containers) : Viewed(i)
  <2>1. PICK i \in 1..Cardinality(Containers) : Viewed(i)
    BY <1>4
  <2>2. ViewContainer(TableShown[i])
    BY <2>1 DEF Viewed
  <2> QED
    BY <1>3, <2>2 DEF ViewContainer
<1>5. CASE \E container \in Containers, scope \in Scopes : VisitStay(container, scope)
  BY <1>3, <1>5 DEF VisitStay
<1>6. CASE DeskSteps
  BY <1>6, DeskStepsSourced
<1>7. CASE EditorSteps
  BY <1>7, EditorStepsSourced
<1>8. CASE Arrivals
  BY <1>8, ArrivalsSourced
<1>9. CASE UNCHANGED vars
  BY <1>9 DEF vars, SourcesInv
<1> QED
  BY <1>1, <1>2, <1>4, <1>5, <1>6, <1>7, <1>8, <1>9 DEF Next

\* Only a creation adds an invoice.
LEMMA OnlyCreatedAdds ==
  ASSUME IsList(invoices), [Next]_vars, Len(invoices') > Len(invoices)
  PROVE  Created
<1>0. Len(invoices) \in Nat /\ ~(Len(invoices) > Len(invoices))
  <2>1. Len(invoices) \in Nat
    BY ListElim
  <2> QED
    BY <2>1
<1>1. invoices' # invoices
  BY <1>0
<1>2. CASE \E m \in Candidates : Move(m)
  BY <1>1, <1>2 DEF Move
<1>3. CASE OpenDesk
  BY <1>1, <1>3 DEF OpenDesk, server
<1>4. ASSUME NEW container, NEW scope, NEW seen, OpenStay(container, scope, seen) PROVE FALSE
  BY <1>1, <1>4 DEF OpenStay, server
<1>5. CASE \E i \in 1..Cardinality(Containers) : Viewed(i)
  BY <1>4, <1>5 DEF Viewed, ViewContainer
<1>6. CASE \E container \in Containers, scope \in Scopes : VisitStay(container, scope)
  BY <1>4, <1>6 DEF VisitStay
<1>7. CASE DeskSteps
  BY <1>1, <1>7 DEF DeskSteps, SelectScope, ChooseMode, TypeFilter, StartBusy, CreateInvoice, server
<1>8. CASE EditorSteps
  <2>1. ASSUME NEW e, Set(e) PROVE FALSE
    BY <1>1, <2>1 DEF Set, server
  <2>2. ASSUME NEW kind, NEW line, NEW form, Send(kind, line, form) PROVE FALSE
    BY <1>1, <2>2 DEF Send, server
  <2>3. ASSUME NEW id, OpenEditor(id) PROVE FALSE
    BY <1>1, <2>3 DEF OpenEditor, server
  <2> QED
    BY <1>8, <2>1, <2>2, <2>3
    DEF EditorSteps, OpenLine, CloseLine, Ask, AskDeleteLine, CancelConfirm, EditSection, SaveLine, Confirm,
        SaveSection, ExportDocument
<1>9. CASE Arrivals
  <2>1. ASSUME NEW load, Answer(load) PROVE FALSE
    BY <1>1, <2>1 DEF Answer, AnswerLoad, server
  <2>2. ASSUME NEW load, Receive(load) PROVE FALSE
    BY <1>1, <2>2 DEF Receive, server
  <2>3. ASSUME NEW ok, ReceiveHistory(ok) \/ EndPreviewPdf(ok) \/ EndExport(ok) PROVE FALSE
    BY <1>1, <2>3 DEF ReceiveHistory, EndPreviewPdf, EndExport, Set, server
  <2>4. ASSUME EndRefresh \/ CreationStale \/ CreationRefused PROVE FALSE
    BY <1>1, <2>4 DEF EndRefresh, CreationStale, CreationRefused, server
  <2>5. ASSUME NEW id, NEW ok, Fetch(id, ok) PROVE FALSE
    BY <1>1, <2>5 DEF Fetch, server
  <2>6. ASSUME NEW i, NEW v, invoices' = [invoices EXCEPT ![i] = v] PROVE FALSE
    <3>1. Len(invoices') = Len(invoices)
      BY <2>6, ListExcept
    <3> QED
      BY <1>0, <3>1
  <2>7. ASSUME Respond \/ Deleted PROVE FALSE
    BY <2>6, <2>7 DEF Respond, Deleted
  <2>8. ASSUME NEW done, RespondError(done) PROVE FALSE
    BY <1>1, <2>6, <2>8 DEF RespondError
  <2> QED
    BY <1>9, <2>1, <2>2, <2>3, <2>4, <2>5, <2>7, <2>8 DEF Arrivals
<1>10. CASE UNCHANGED vars
  BY <1>1, <1>10 DEF vars
<1> QED
  BY <1>2, <1>3, <1>5, <1>6, <1>7, <1>8, <1>9, <1>10 DEF Next

\* What it adds is the preview that it sent.
LEMMA CreatedBills == SourcesInv /\ Created => BillsPreview
<1> SUFFICES ASSUME SourcesInv, Created PROVE BillsPreview
  OBVIOUS
<1> DEFINE scope == creation.scope
           settlement == creation.settlement
           lines == InvoiceLines(creation.preview, settlement)
           sources == SourcesOf(moves, scope)
           new == NewInvoice(Len(invoices) + 1, scope, settlement, lines)
<1>1. creation # NoCall /\ GenerateInvoice(creation).status = "ok" /\ CallSourced(creation)
      /\ moves \in Seq(PalletMoves) /\ IsList(invoices)
  BY DEF Created, SourcesInv
<1>2. /\ creation.preview = PreviewOfSources(sources, scope) /\ sources \in Seq(PalletMoves)
      /\ GenerateInvoice(creation).lines = lines
  BY <1>1, NotStale
<1>3. invoices' = Append(invoices, new)
  BY <1>2 DEF Created
<1>4. invoices'[Len(invoices')] = new
  BY <1>1, <1>3, ListAppend
<1>5. new.lines = lines
  BY DEF NewInvoice, Recalculated
<1>6. ScopeSound(scope)
  BY <1>1, ScopesAssumption DEF CallSourced, ScopeSound
<1>7. ~settlement => new.grandTotal = creation.preview.summary.grandTotal
  <2> HIDE DEF sources
  <2> QED
    BY <1>2, <1>6, BilledInFull
<1> QED
  BY <1>4, <1>5, <1>7 DEF BillsPreview

\* An invoice has the lines of the preview that was on the screen when the button was
\* pressed, and comes to its total, or is not made, for every history of movements and
\* whatever else the user does meanwhile: the fingerprint that handleCreateInvoice sends
\* is that of the very movements the service would bill (billing_preview_store.go,
\* GenerateInvoice answers 409 to another).
THEOREM InvoicesBillPreviews == Spec => InvoiceBillsPreview
<1>1. SourcesInv /\ [Next]_vars => [BillsPreview]_vars
  <2> SUFFICES ASSUME SourcesInv, [Next]_vars PROVE BillsPreview
    OBVIOUS
  <2>1. CASE Len(invoices') > Len(invoices)
    BY <2>1, OnlyCreatedAdds, CreatedBills DEF SourcesInv
  <2>2. CASE ~(Len(invoices') > Len(invoices))
    BY <2>2 DEF BillsPreview
  <2> QED
    BY <2>1, <2>2
<1> QED
  BY InitSound, StepSound, InitSourced, StepSourced, <1>1, PTL DEF Spec, InvoiceBillsPreview

-----------------------------------------------------------------------------
(* The flags of the pages *)

\* A call that the page which made it still waits for.
Live(call) == call # NoCall /\ call.live
\* A page waits for one of the loads.
Awaited(name, asked) == \E l \in asked : l.active /\ l.owner = name
Exports == {"export-pdf", "export-container-zip"}
LineDialogs == {"add-line", "edit-line"}
Confirmed == {"finalize", "mark-paid", "void", "delete", "delete-line"}

\* A mounted page, with what it waits for.
DeskSound(d, shared, ids, asked, call) ==
  /\ {"open", "scope", "preview", "loading", "creating", "history"} \subseteq DOMAIN d /\ d.open = TRUE
  /\ d.scope \in Scopes /\ shared = d.scope
  /\ d.creating = Live(call)
  /\ d.loading => d.preview = Nothing /\ Awaited("desk", asked)
  /\ \A h \in d.history : h.id \in ids

\* The page of a container, in the same way.
StaySound(s, asked) ==
  /\ {"open", "loading"} \subseteq DOMAIN s /\ s.open = TRUE
  /\ s.loading => Awaited("stay", asked)

\* The editor: what is busy is a document or else a call, and the dialogs are those it has.
EditorSound(e, ids, waiting, call) ==
  /\ {"open", "id", "invoice", "loading", "error", "busy", "dialog", "confirm", "line", "header", "notes"} \subseteq DOMAIN e
  /\ e.open = TRUE
  /\ e.busy # "" => (e.busy \in Exports) # Live(call)
  /\ Live(call) => e.busy # ""
  /\ e.loading => waiting # {}
  /\ e.invoice # Nothing => Numbered(e.invoice) /\ e.invoice.id \in ids
  /\ e.dialog # Nothing => e.dialog.mode \in LineDialogs
  /\ e.confirm \in Confirmed \cup {""}

\* A call names an invoice that the service has given a number.
CallSound(call, ids) ==
  call # NoCall =>
    {"kind", "id", "line", "form", "live"} \subseteq DOMAIN call /\ call.id \in ids

\* The invoices have their place in the list for number, and their lines are told apart.
InvoicesSound(list) ==
  /\ IsList(list) /\ Len(list) <= MaxInvoices
  /\ \A i \in 1 .. Len(list) : list[i] # Nothing => Numbered(list[i]) /\ list[i].id = i

\* The loads in flight are within their bound.
LoadsBounded == IsFiniteSet(loads) /\ Cardinality(loads) <= MaxLoads

\* A page that is not mounted has no state, and nothing is in flight for it.
PagesInv ==
  /\ page \in {"desk", "editor", "stay"}
  /\ IF page = "desk" THEN DeskSound(desk, context, 1 .. Len(invoices), loads, creation)
     ELSE desk = NoPage /\ ~Live(creation)
  /\ IF page = "stay" THEN StaySound(stay, loads) ELSE stay = NoPage
  /\ IF page = "editor" THEN EditorSound(editor, 1 .. Len(invoices), fetches, request)
     ELSE editor = NoPage /\ fetches = {} /\ ~Live(request)
  /\ CallSound(request, 1 .. Len(invoices))
  /\ fetches \subseteq 1 .. Len(invoices)
  /\ InvoicesSound(invoices) /\ Len(moves) <= MaxMoves
  /\ LoadsBounded


\* Asking again stays within the bound.
LEMMA LoadsAsked ==
  ASSUME LoadsBounded, NEW p
  PROVE  IsFiniteSet(Abandoned \cup {p}) /\ Cardinality(Abandoned \cup {p}) <= MaxLoads
<1>0. MaxLoads \in Nat \ {0}
  BY InvoicesAssumption
<1>1. CASE Cardinality(loads) < MaxLoads
  <2> DEFINE T == {[l EXCEPT !.active = FALSE] : l \in loads}
             f == [l \in loads |-> [l EXCEPT !.active = FALSE]]
  <2>1. f \in Surjection(loads, T)
    BY DEF Surjection
  <2>2. Abandoned = T
    BY <1>1 DEF Abandoned
  <2> HIDE DEF T, f
  <2>3. IsFiniteSet(loads) /\ Cardinality(loads) \in Nat
    BY FS_CardinalityType DEF LoadsBounded
  <2>4. IsFiniteSet(T) /\ Cardinality(T) <= Cardinality(loads)
    BY <2>1, <2>3, FS_Surjection
  <2>5. Cardinality(T) \in Nat
    BY <2>4, FS_CardinalityType
  <2>6. IsFiniteSet(T \cup {p}) /\ Cardinality(T \cup {p}) <= Cardinality(T) + 1
    BY <2>4, <2>5, FS_AddElement
  <2>7. Cardinality(T \cup {p}) \in Nat
    BY <2>6, FS_CardinalityType
  <2> QED
    BY <1>0, <1>1, <2>2, <2>3, <2>4, <2>5, <2>6, <2>7
<1>2. CASE ~(Cardinality(loads) < MaxLoads)
  <2>1. Abandoned \cup {p} = {p}
    BY <1>2 DEF Abandoned
  <2>2. IsFiniteSet({p}) /\ Cardinality({p}) = 1
    BY FS_Singleton
  <2> QED
    BY <1>0, <2>1, <2>2
<1> QED
  BY <1>1, <1>2

\* The number of a new line is above those of the others.
LEMMA NextLineNew ==
  ASSUME NEW invoice, Numbered(invoice)
  PROVE  /\ NextLine(invoice) \in Nat
         /\ \A i \in DOMAIN invoice.lines : invoice.lines[i].id # NextLine(invoice)
<1> DEFINE lines == invoice.lines
           ids == {l.id : l \in ToSet(lines)}
<1>1. IsList(lines) /\ \A i \in DOMAIN lines : lines[i].id \in Nat
  BY DEF Numbered, IsList, ToSet
<1>2. NextLine(invoice) = 1 + Max({0} \cup ids)
  BY DEF NextLine
<1>3. ids = {lines[i].id : i \in DOMAIN lines}
  BY DEF ToSet
<1> HIDE DEF lines, ids
<1>4. Len(lines) \in Nat /\ DOMAIN lines = 1 .. Len(lines)
  BY <1>1, ListElim
<1> DEFINE f == [i \in 1 .. Len(lines) |-> lines[i].id]
<1>5. PICK b \in Nat : \A i \in 1 .. Len(lines) : f[i] <= b
  <2>1. \A i \in 1 .. Len(lines) : f[i] \in Nat
    BY <1>1, <1>4
  <2> HIDE DEF f
  <2> QED
    BY <1>4, <2>1, Bounded
<1>6. {0} \cup ids \in SUBSET (0 .. b) /\ {0} \cup ids # {}
  <2>1. ASSUME NEW x \in ids PROVE x \in 0 .. b
    <3>1. PICK i \in 1 .. Len(lines) : x = lines[i].id
      BY <1>3, <1>4
    <3>2. f[i] = lines[i].id /\ f[i] <= b
      BY <1>5
    <3> QED
      BY <1>1, <1>4, <3>1, <3>2
  <2> QED
    BY <2>1
<1>7. PICK m \in {0} \cup ids : \A k \in {0} \cup ids : k <= m
  BY <1>6, Greatest
<1>8. Max({0} \cup ids) \in {0} \cup ids /\ \A k \in {0} \cup ids : k <= Max({0} \cup ids)
  <2>1. \E x \in {0} \cup ids : \A y \in {0} \cup ids : x >= y
    BY <1>6, <1>7
  <2> QED
    BY <2>1, <1>6 DEF Max
<1> DEFINE M == Max({0} \cup ids)
<1>9. M \in Nat /\ \A k \in ids : k <= M /\ k \in Nat
  BY <1>6, <1>8
<1> HIDE DEF M
<1>10. NextLine(invoice) = 1 + M
  BY <1>2 DEF M
<1>11. ASSUME NEW i \in DOMAIN lines PROVE lines[i].id # 1 + M
  BY <1>3, <1>9
<1> QED
  BY <1>9, <1>10, <1>11 DEF lines

\* An invoice with other lines, told apart as they were.
LEMMA RecalculatedNumbered ==
  ASSUME NEW invoice, Numbered(invoice), NEW lines, IsList(lines),
         \A i \in 1 .. Len(lines) : lines[i].id \in Nat,
         \A i, j \in 1 .. Len(lines) : lines[i].id = lines[j].id => i = j
  PROVE  Numbered(Recalculated(invoice, lines)) /\ Recalculated(invoice, lines).id = invoice.id
<1> DEFINE x == Recalculated(invoice, lines)
<1>1. x.lines = lines /\ x.id = invoice.id /\ DOMAIN x = DOMAIN invoice
  BY DEF Recalculated, Numbered
<1> HIDE DEF x
<1>2. lines \in Seq(ToSet(lines)) /\ DOMAIN lines = 1 .. Len(lines)
  BY ListElim DEF ToSet
<1> QED
  BY <1>1, <1>2 DEF Numbered, x

\* A typed line has the number it was given.
LEMMA TypedId ==
  ASSUME NEW id, NEW form, NEW container, NEW day
  PROVE  Typed(id, form, container, day).id = id
BY DEF Typed

\* What a call makes of an invoice is that invoice, with lines that are told apart.
LEMMA ServedNumbered ==
  ASSUME NEW call, call.kind # "delete",
         Numbered(invoices[call.id]), invoices[call.id].id = call.id
  PROVE  Numbered(Served(call)) /\ Served(call).id = call.id
<1> DEFINE invoice == invoices[call.id]
           lines == invoice.lines
<1>1. /\ IsList(lines) /\ Len(lines) \in Nat /\ DOMAIN lines = 1 .. Len(lines)
      /\ \A i \in 1 .. Len(lines) : lines[i].id \in Nat
      /\ \A i, j \in 1 .. Len(lines) : lines[i].id = lines[j].id => i = j
  <2>1. IsList(lines)
    BY DEF Numbered, IsList, ToSet
  <2>2. Len(lines) \in Nat /\ DOMAIN lines = 1 .. Len(lines)
    BY <2>1, ListElim
  <2> QED
    BY <2>1, <2>2 DEF Numbered
<1>2. CASE call.kind = "add-line"
  <2> DEFINE new == Typed(NextLine(invoice), call.form, call.form.container, NoDate)
             more == Append(lines, new)
  <2>1. Served(call) = Recalculated(invoice, more)
    BY <1>2 DEF Served
  <2>2. /\ IsList(more) /\ Len(more) = Len(lines) + 1 /\ more[Len(lines) + 1] = new
        /\ \A j \in 1 .. Len(lines) : more[j] = lines[j]
    BY <1>1, ListAppend
  <2>3. new.id = NextLine(invoice)
    BY TypedId
  <2>4. NextLine(invoice) \in Nat /\ \A i \in 1 .. Len(lines) : lines[i].id # NextLine(invoice)
    BY <1>1, NextLineNew
  <2> HIDE DEF new, more, lines
  <2>5. \A i \in 1 .. Len(more) : i \in 1 .. Len(lines) \/ i = Len(lines) + 1
    BY <1>1, <2>2
  <2>6. \A i \in 1 .. Len(more) : more[i].id \in Nat
    BY <1>1, <2>2, <2>3, <2>4, <2>5
  <2>7. ASSUME NEW i \in 1 .. Len(more), NEW j \in 1 .. Len(more), more[i].id = more[j].id PROVE i = j
    BY <1>1, <2>2, <2>3, <2>4, <2>5, <2>7
  <2> QED
    BY <2>1, <2>2, <2>6, <2>7, RecalculatedNumbered
<1>3. CASE call.kind = "edit-line"
  <2> DEFINE Edit(l) == IF l.id = call.line THEN Typed(l.id, call.form, l.container, l.day) ELSE l
             edited == [i \in DOMAIN lines |-> Edit(lines[i])]
  <2>1. Served(call) = Recalculated(invoice, edited)
    BY <1>3 DEF Served
  <2>2. \A l : Edit(l).id = l.id
    BY TypedId
  <2> HIDE DEF Edit
  <2>3. edited = [i \in 1 .. Len(lines) |-> edited[i]] /\ \A i \in 1 .. Len(lines) : edited[i].id = lines[i].id
    BY <1>1, <2>2
  <2> HIDE DEF edited, lines
  <2>4. IsList(edited) /\ Len(edited) = Len(lines)
    BY <1>1, <2>3, ListOf
  <2>5. \A i \in 1 .. Len(edited) : edited[i].id \in Nat
    BY <1>1, <2>3, <2>4
  <2>6. \A i, j \in 1 .. Len(edited) : edited[i].id = edited[j].id => i = j
    BY <1>1, <2>3, <2>4
  <2> QED
    BY <1>1, <2>1, <2>4, <2>5, <2>6, RecalculatedNumbered
<1>4. CASE call.kind = "delete-line"
  <2> DEFINE A == {l \in ToSet(lines) : l.id # call.line}
             left == Only(lines, A)
             R == {lines[i] : i \in DOMAIN lines}
  <2>1. Served(call) = Recalculated(invoice, left)
    BY <1>4 DEF Served
  <2>2. lines \in Seq(R)
    BY <1>1 DEF IsList
  <2> HIDE DEF A, R, lines
  <2>3. left \in Seq(R \cap A)
    BY <2>2, OnlyEmbeds
  <2>4. /\ \A i, j \in 1 .. Len(left) : left[i].id = left[j].id => i = j
        /\ \A i \in 1 .. Len(left) : \E j \in 1 .. Len(lines) : left[i] = lines[j]
    BY <1>1, <2>2, OnlyDistinct
  <2> HIDE DEF left
  <2>5. IsList(left)
    BY <2>3, ListIntro
  <2>6. \A i \in 1 .. Len(left) : left[i].id \in Nat
    BY <1>1, <2>4
  <2> QED
    BY <2>1, <2>4, <2>5, <2>6, RecalculatedNumbered
<1>5. ASSUME NEW x, x.lines = invoice.lines, x.id = invoice.id, DOMAIN x = DOMAIN invoice
      PROVE  Numbered(x) /\ x.id = call.id
  BY <1>5 DEF Numbered
<1>6. CASE call.kind = "finalize"
  <2>1. Served(call) = [invoice EXCEPT !.status = "FINALIZED", !.snapshot = LedgerRows(invoice.lines)]
    BY <1>6 DEF Served
  <2> QED
    BY <1>5, <2>1 DEF Numbered
<1>7. CASE call.kind = "mark-paid"
  <2>1. Served(call) = [invoice EXCEPT !.status = "PAID"]
    BY <1>7 DEF Served
  <2> QED
    BY <1>5, <2>1 DEF Numbered
<1>8. CASE call.kind = "void"
  <2>1. Served(call) = [invoice EXCEPT !.status = "VOID"]
    BY <1>8 DEF Served
  <2> QED
    BY <1>5, <2>1 DEF Numbered
<1>9. CASE call.kind \notin {"add-line", "edit-line", "delete-line", "finalize", "mark-paid", "void", "delete"}
  <2>1. Served(call) = invoice
    BY <1>9 DEF Served
  <2> QED
    BY <2>1
<1> QED
  BY <1>2, <1>3, <1>4, <1>6, <1>7, <1>8, <1>9

-----------------------------------------------------------------------------
(* How the steps keep the flags *)

\* Nobody waits for a call whose page is gone.
LEMMA OrphanDead ==
  ASSUME NEW c, c # NoCall => "live" \in DOMAIN c
  PROVE  ~Live(Orphan(c))
BY DEF Live, Orphan

\* It still names its invoice.
LEMMA OrphanSound ==
  ASSUME NEW c, NEW ids, CallSound(c, ids)
  PROVE  CallSound(Orphan(c), ids) /\ ~Live(Orphan(c))
<1>1. CASE c = NoCall
  BY <1>1 DEF Orphan, CallSound, Live
<1>2. CASE c # NoCall
  <2>1. DOMAIN Orphan(c) = DOMAIN c /\ Orphan(c).id = c.id /\ Orphan(c).live = FALSE
    BY <1>2 DEF Orphan, CallSound
  <2> QED
    BY <1>2, <2>1 DEF CallSound, Live
<1> QED
  BY <1>1, <1>2

\* A flag that is down agrees with a call that nobody waits for.
LEMMA DeadIsFalse == ASSUME NEW c, ~Live(c) PROVE FALSE = Live(c)
BY DEF Live

\* Nobody waits for no call.
LEMMA NoCallSound == \A ids : CallSound(NoCall, ids) /\ ~Live(NoCall)
BY DEF CallSound, Live

\* What has just been asked for is awaited.
LEMMA PendingAwaited ==
  ASSUME NEW owner, NEW scope, NEW others
  PROVE  Awaited(owner, others \cup {Pending(owner, scope)})
<1>1. Pending(owner, scope).active = TRUE /\ Pending(owner, scope).owner = owner
  BY DEF Pending
<1> QED
  BY <1>1 DEF Awaited

\* The desk changes, and nothing else does but the creation.
LEMMA DeskKept ==
  ASSUME PagesInv, page = "desk", page' = page, moves' = moves, invoices' = invoices,
         editor' = editor, stay' = stay, loads' = loads, request' = request, fetches' = fetches, context' = context,
         DeskSound(desk', context, 1 .. Len(invoices), loads, creation')
  PROVE  PagesInv'
BY DEF PagesInv, LoadsBounded

\* The editor changes, and nothing else does but the calls.
LEMMA EditorKept ==
  ASSUME PagesInv, page = "editor", page' = page, moves' = moves, invoices' = invoices,
         desk' = desk, stay' = stay, loads' = loads, creation' = creation, fetches' = fetches,
         EditorSound(editor', 1 .. Len(invoices), fetches, request'),
         CallSound(request', 1 .. Len(invoices))
  PROVE  PagesInv'
BY DEF PagesInv, LoadsBounded

\* The desk asks again.
LEMMA ReloadKept ==
  ASSUME PagesInv, page = "desk", page' = page, moves' = moves, invoices' = invoices,
         editor' = editor, stay' = stay, request' = request, fetches' = fetches,
         NEW d, NEW scope \in Scopes, Reload(d, scope), context' = scope,
         {"open", "scope", "preview", "loading", "creating", "history"} \subseteq DOMAIN d, d.open = TRUE,
         d.creating = Live(creation'), d.history = desk.history
  PROVE  PagesInv'
<1>1. /\ DOMAIN desk' = DOMAIN d /\ desk'.open = TRUE /\ desk'.scope = scope /\ desk'.preview = Nothing
      /\ desk'.loading = TRUE /\ desk'.creating = d.creating /\ desk'.history = desk.history
      /\ loads' = Abandoned \cup {Pending("desk", scope)}
  BY DEF Reload
<1>2. Awaited("desk", loads')
  BY <1>1, PendingAwaited
<1>3. DeskSound(desk, context, 1 .. Len(invoices), loads, creation)
  BY DEF PagesInv
<1>4. DeskSound(desk', context', 1 .. Len(invoices), loads', creation')
  BY <1>1, <1>2, <1>3 DEF DeskSound
<1>5. LoadsBounded'
  BY <1>1, LoadsAsked DEF PagesInv, LoadsBounded
<1> QED
  BY <1>4, <1>5 DEF PagesInv

\* The desk is mounted.
LEMMA DeskMountedKept ==
  ASSUME PagesInv, page' = "desk", desk' = FreshDesk, editor' = NoPage, stay' = NoPage, fetches' = {},
         loads' = Abandoned \cup {Pending("desk", FirstScope)}, context' = FirstScope,
         moves' = moves, Len(invoices') = Len(invoices), InvoicesSound(invoices'),
         ~Live(creation'), ~Live(request'), CallSound(request', 1 .. Len(invoices))
  PROVE  PagesInv'
<1>1. Awaited("desk", loads')
  BY PendingAwaited
<1>2. /\ {"open", "scope", "preview", "loading", "creating", "history"} \subseteq DOMAIN FreshDesk
      /\ FreshDesk.open = TRUE /\ FreshDesk.scope = FirstScope /\ FreshDesk.preview = Nothing
      /\ FreshDesk.creating = FALSE /\ FreshDesk.history = {}
  BY DEF FreshDesk
<1>3. DeskSound(desk', context', 1 .. Len(invoices'), loads', creation')
  <2>1. FreshDesk.creating = Live(creation')
    BY <1>2, DeadIsFalse
  <2> QED
    BY <1>1, <1>2, <2>1, ScopesAssumption DEF DeskSound
<1>4. LoadsBounded'
  BY LoadsAsked DEF PagesInv, LoadsBounded
<1> QED
  BY <1>3, <1>4 DEF PagesInv

\* The page of a container is mounted.
LEMMA StayMountedKept ==
  ASSUME SourcesInv, PagesInv, NEW container, NEW scope, NEW seen, OpenStay(container, scope, seen)
  PROVE  PagesInv'
<1>1. /\ page' = "stay" /\ desk' = NoPage /\ editor' = NoPage /\ fetches' = {}
      /\ stay' = FreshStay(container, StayScope(scope), seen)
      /\ loads' = Abandoned \cup {Pending("stay", StayScope(scope))}
      /\ creation' = Orphan(creation) /\ request' = Orphan(request)
      /\ moves' = moves /\ invoices' = invoices
  BY DEF OpenStay, Mount, server
<1>2. Awaited("stay", loads')
  BY <1>1, PendingAwaited
<1>3. StaySound(stay', loads')
  BY <1>1, <1>2 DEF FreshStay, StaySound
<1>4. LoadsBounded'
  BY <1>1, LoadsAsked DEF PagesInv, LoadsBounded
<1>5. ~Live(creation')
  BY <1>1, OrphanDead DEF SourcesInv, CallSourced
<1>6. CallSound(request', 1 .. Len(invoices)) /\ ~Live(request')
  BY <1>1, OrphanSound DEF PagesInv
<1> QED
  BY <1>1, <1>3, <1>4, <1>5, <1>6 DEF PagesInv

\* The editor is mounted, on the invoice of a heading of the desk.
LEMMA EditorMountedKept ==
  ASSUME SourcesInv, PagesInv, NEW id, OpenEditor(id)
  PROVE  PagesInv'
<1>1. /\ page = "desk" /\ id \in {h.id : h \in desk.history}
      /\ page' = "editor" /\ desk' = NoPage /\ editor' = FreshEditor(id) /\ fetches' = {id} /\ loads' = {}
      /\ stay' = stay /\ moves' = moves /\ invoices' = invoices
      /\ creation' = Orphan(creation) /\ request' = Orphan(request)
  BY DEF OpenEditor, Mount, server
<1>2. id \in 1 .. Len(invoices)
  BY <1>1 DEF PagesInv, DeskSound
<1>3. ~Live(creation')
  BY <1>1, OrphanDead DEF SourcesInv, CallSourced
<1>4. CallSound(request', 1 .. Len(invoices)) /\ ~Live(request')
  BY <1>1, OrphanSound DEF PagesInv
<1>5. EditorSound(editor', 1 .. Len(invoices), fetches', request')
  BY <1>1, <1>4 DEF FreshEditor, EditorSound
<1>6. LoadsBounded'
  BY <1>1, FS_EmptySet, InvoicesAssumption DEF LoadsBounded
<1>7. stay' = NoPage
  BY <1>1 DEF PagesInv
<1> QED
  BY <1>1, <1>2, <1>3, <1>4, <1>5, <1>6, <1>7 DEF PagesInv

\* At first the desk is mounted and has asked for its preview.
LEMMA InitPages == Init => PagesInv
<1> SUFFICES ASSUME Init PROVE PagesInv
  OBVIOUS
<1>1. InvoicesSound(invoices)
  <2>1. IsList(invoices) /\ Len(invoices) <= MaxInvoices
    BY InvoicesAssumption DEF Init, IsList, ToSet
  <2>2. DOMAIN invoices = 1 .. Len(invoices)
    BY <2>1, ListElim
  <2> QED
    BY <2>1, <2>2, InvoicesAssumption DEF Init, InvoicesSound
<1>2. Len(moves) <= MaxMoves
  BY MovesAssumption DEF Init
<1>3. LoadsBounded
  <2>1. loads = {Pending("desk", FirstScope)}
    BY DEF Init
  <2>2. IsFiniteSet(loads) /\ Cardinality(loads) = 1
    BY <2>1, FS_Singleton
  <2> QED
    BY <2>2, InvoicesAssumption DEF LoadsBounded
<1>4. Awaited("desk", loads)
  <2>1. loads = {} \cup {Pending("desk", FirstScope)}
    BY DEF Init
  <2> QED
    BY <2>1, PendingAwaited
<1>5. DeskSound(desk, context, 1 .. Len(invoices), loads, creation)
  <2>1. /\ {"open", "scope", "preview", "loading", "creating", "history"} \subseteq DOMAIN desk
        /\ desk.open = TRUE /\ desk.scope = FirstScope /\ desk.preview = Nothing
        /\ desk.creating = FALSE /\ desk.history = {} /\ context = FirstScope
    BY DEF Init, FreshDesk
  <2>2. desk.creating = Live(creation)
    BY <2>1, NoCallSound, DeadIsFalse DEF Init
  <2> QED
    BY <1>4, <2>1, <2>2, ScopesAssumption DEF DeskSound
<1> QED
  BY <1>1, <1>2, <1>3, <1>5, NoCallSound DEF Init, PagesInv

\* What the user does on the desk keeps the flags.
LEMMA DeskStepsKept == SourcesInv /\ PagesInv /\ DeskSteps => PagesInv'
<1> SUFFICES ASSUME SourcesInv, PagesInv, DeskSteps PROVE PagesInv'
  OBVIOUS
<1>0. page = "desk" => DeskSound(desk, context, 1 .. Len(invoices), loads, creation)
  BY DEF PagesInv
<1>1. CASE \E scope \in Scopes : SelectScope(scope)
  <2>1. PICK scope \in Scopes : SelectScope(scope)
    BY <1>1
  <2>2. page = "desk" /\ Reload(desk, scope) /\ context' = scope
        /\ UNCHANGED <<moves, invoices, page, editor, stay, creation, request, fetches>>
    BY <2>1 DEF SelectScope, server
  <2>3. /\ {"open", "scope", "preview", "loading", "creating", "history"} \subseteq DOMAIN desk /\ desk.open = TRUE
        /\ desk.creating = Live(creation')
    BY <1>0, <2>2 DEF DeskSound
  <2> QED
    BY <2>2, <2>3, ReloadKept
<1>2. ASSUME page = "desk",
             DOMAIN desk' = DOMAIN desk /\ desk'.open = desk.open /\ desk'.scope = desk.scope
             /\ desk'.preview = desk.preview /\ desk'.loading = desk.loading /\ desk'.history = desk.history,
             desk'.creating = Live(creation'),
             UNCHANGED <<moves, invoices, page, editor, stay, loads, request, fetches, context>>
      PROVE  PagesInv'
  <2>1. DeskSound(desk', context, 1 .. Len(invoices), loads, creation')
    BY <1>0, <1>2 DEF DeskSound
  <2> QED
    BY <1>2, <2>1, DeskKept
<1>3. ASSUME page = "desk", UNCHANGED creation,
             DOMAIN desk' = DOMAIN desk /\ desk'.open = desk.open /\ desk'.scope = desk.scope
             /\ desk'.preview = desk.preview /\ desk'.loading = desk.loading /\ desk'.history = desk.history
             /\ desk'.creating = desk.creating,
             UNCHANGED <<moves, invoices, page, editor, stay, loads, request, fetches, context>>
      PROVE  PagesInv'
  <2>1. desk'.creating = Live(creation')
    BY <1>0, <1>3 DEF DeskSound
  <2> QED
    BY <1>2, <1>3, <2>1
<1>4. CASE ChooseMode
  BY <1>3, <1>4 DEF ChooseMode, server
<1>5. CASE \E filter \in Filters : TypeFilter(filter)
  BY <1>3, <1>5 DEF TypeFilter, server
<1>6. CASE \E action \in {"refresh", "preview-pdf"} : StartBusy(action)
  <2>1. PICK action \in {"refresh", "preview-pdf"} : StartBusy(action)
    BY <1>6
  <2>2. page = "desk" /\ UNCHANGED creation
        /\ UNCHANGED <<moves, invoices, page, editor, stay, loads, request, fetches, context>>
    BY <2>1 DEF StartBusy, DeskIdle, server
  <2>3. desk' = [desk EXCEPT !.busy = action, !.error = IF action = "preview-pdf" THEN "" ELSE @]
    BY <2>1 DEF StartBusy
  <2>4. /\ DOMAIN desk' = DOMAIN desk /\ desk'.open = desk.open /\ desk'.scope = desk.scope
        /\ desk'.preview = desk.preview /\ desk'.loading = desk.loading /\ desk'.history = desk.history
        /\ desk'.creating = desk.creating
    BY <2>3
  <2> QED
    BY <1>3, <2>2, <2>4
<1>7. CASE CreateInvoice
  <2>1. /\ page = "desk" /\ desk' = [desk EXCEPT !.creating = TRUE, !.error = ""]
        /\ creation'.kind = "create" /\ creation'.live = TRUE
        /\ UNCHANGED <<moves, invoices, page, editor, stay, loads, request, fetches, context>>
    BY <1>7 DEF CreateInvoice, DeskIdle, server
  <2>2. creation' # NoCall
    BY <2>1 DEF NoCall
  <2>3. desk'.creating = Live(creation')
    BY <1>0, <2>1, <2>2 DEF Live, DeskSound
  <2>4. DOMAIN desk' = DOMAIN desk /\ desk'.open = desk.open /\ desk'.scope = desk.scope
        /\ desk'.preview = desk.preview /\ desk'.loading = desk.loading /\ desk'.history = desk.history
    BY <2>1
  <2> QED
    BY <1>2, <2>1, <2>3, <2>4
<1> QED
  BY <1>1, <1>4, <1>5, <1>6, <1>7 DEF DeskSteps

\* A call of the editor: its button is busy until the answer comes.
LEMMA SendKept ==
  ASSUME PagesInv, EditorIdle, NEW kind, NEW line, NEW form, Send(kind, line, form),
         kind \notin Exports \cup {"", "none"}
  PROVE  PagesInv'
<1>1. page = "editor" /\ editor.invoice # Nothing /\ EditorSound(editor, 1 .. Len(invoices), fetches, request)
  BY DEF EditorIdle, Editing, PagesInv
<1>2. /\ editor' = [editor EXCEPT !.busy = kind]
      /\ request' = [kind |-> kind, id |-> editor.invoice.id, line |-> line, form |-> form, live |-> TRUE]
      /\ UNCHANGED <<moves, invoices, page, desk, stay, loads, creation, fetches>>
  BY DEF Send, server
<1>3. request' # NoCall /\ request'.live = TRUE
  <2>1. request'.kind = kind /\ NoCall.kind = "none"
    BY <1>2 DEF NoCall
  <2> QED
    BY <1>2, <2>1
<1>4. Live(request')
  BY <1>3 DEF Live
<1>5. CallSound(request', 1 .. Len(invoices))
  BY <1>1, <1>2 DEF EditorSound, CallSound
<1>6. EditorSound(editor', 1 .. Len(invoices), fetches, request')
  <2>1. /\ DOMAIN editor' = DOMAIN editor /\ editor'.busy = kind /\ editor'.open = editor.open
        /\ editor'.loading = editor.loading /\ editor'.invoice = editor.invoice
        /\ editor'.dialog = editor.dialog /\ editor'.confirm = editor.confirm
    BY <1>1, <1>2 DEF EditorSound
  <2>2. (kind \in Exports) # Live(request')
    BY <1>4 DEF Live
  <2> QED
    BY <1>1, <1>4, <2>1, <2>2 DEF EditorSound
<1> QED
  BY <1>1, <1>2, <1>5, <1>6, EditorKept

\* What opens and closes dialogs, while no call is in flight.
LEMMA SetKept ==
  ASSUME PagesInv, EditorIdle, NEW e, Set(e),
         DOMAIN e = DOMAIN editor /\ e.open = editor.open /\ e.loading = editor.loading
         /\ e.invoice = editor.invoice,
         e.busy \in Exports \cup {""},
         e.dialog # Nothing => e.dialog.mode \in LineDialogs,
         e.confirm \in Confirmed \cup {""}
  PROVE  PagesInv'
<1>1. page = "editor" /\ EditorSound(editor, 1 .. Len(invoices), fetches, request) /\ editor.busy = ""
  BY DEF EditorIdle, Editing, PagesInv
<1>2. /\ editor' = e
      /\ UNCHANGED <<moves, invoices, page, desk, stay, loads, creation, request, fetches>>
  BY DEF Set, server
<1>3. ~Live(request)
  BY <1>1 DEF EditorSound
<1>4. EditorSound(e, 1 .. Len(invoices), fetches, request)
  BY <1>1, <1>3, DeadIsFalse DEF EditorSound
<1>5. CallSound(request, 1 .. Len(invoices))
  BY DEF PagesInv
<1> QED
  BY <1>1, <1>2, <1>4, <1>5, EditorKept

\* What the user does in the editor keeps the flags.
LEMMA EditorStepsKept == SourcesInv /\ PagesInv /\ EditorSteps => PagesInv'
<1> SUFFICES ASSUME SourcesInv, PagesInv, EditorSteps PROVE PagesInv'
  OBVIOUS
<1>0. EditorIdle => /\ EditorSound(editor, 1 .. Len(invoices), fetches, request) /\ editor.busy = ""
                    /\ {"open", "id", "invoice", "loading", "error", "busy", "dialog", "confirm", "line", "header", "notes"}
                         \subseteq DOMAIN editor
                    /\ editor.dialog # Nothing => editor.dialog.mode \in LineDialogs
                    /\ editor.confirm \in Confirmed \cup {""}
  BY DEF EditorIdle, Editing, PagesInv, EditorSound
<1>1. CASE \E id \in 1..MaxInvoices : OpenEditor(id)
  BY <1>1, EditorMountedKept
<1>2. CASE \E mode \in {"add-line", "edit-line"}, line \in 0..9 : OpenLine(mode, line)
  <2>1. PICK mode \in {"add-line", "edit-line"}, line \in 0..9 : OpenLine(mode, line)
    BY <1>2
  <2> DEFINE e == [editor EXCEPT !.dialog = [mode |-> mode, line |-> line]]
  <2>2. EditorIdle /\ Set(e)
    BY <2>1 DEF OpenLine, Toggled
  <2>3. /\ DOMAIN e = DOMAIN editor /\ e.open = editor.open /\ e.loading = editor.loading
        /\ e.invoice = editor.invoice /\ e.busy = "" /\ e.confirm = editor.confirm
        /\ e.dialog.mode \in LineDialogs
    BY <1>0, <2>2 DEF LineDialogs
  <2> HIDE DEF e
  <2> QED
    BY <1>0, <2>2, <2>3, SetKept
<1>3. CASE CloseLine
  <2> DEFINE e == [editor EXCEPT !.dialog = Nothing]
  <2>2. EditorIdle /\ Set(e)
    BY <1>3 DEF CloseLine, Toggled
  <2>3. /\ DOMAIN e = DOMAIN editor /\ e.open = editor.open /\ e.loading = editor.loading
        /\ e.invoice = editor.invoice /\ e.busy = "" /\ e.confirm = editor.confirm
        /\ e.dialog = Nothing
    BY <1>0, <2>2
  <2> HIDE DEF e
  <2> QED
    BY <1>0, <2>2, <2>3, SetKept
<1>4. CASE \E action \in {"finalize", "mark-paid", "void", "delete"} : Ask(action)
  <2>1. PICK action \in {"finalize", "mark-paid", "void", "delete"} : Ask(action)
    BY <1>4
  <2> DEFINE e == [editor EXCEPT !.confirm = action]
  <2>2. EditorIdle /\ Set(e)
    BY <2>1 DEF Ask, Toggled
  <2>3. /\ DOMAIN e = DOMAIN editor /\ e.open = editor.open /\ e.loading = editor.loading
        /\ e.invoice = editor.invoice /\ e.busy = "" /\ e.confirm \in Confirmed
        /\ e.dialog = editor.dialog
    BY <1>0, <2>2 DEF Confirmed
  <2> HIDE DEF e
  <2> QED
    BY <1>0, <2>2, <2>3, SetKept
<1>5. CASE \E line \in 1..9 : AskDeleteLine(line)
  <2>1. PICK line \in 1..9 : AskDeleteLine(line)
    BY <1>5
  <2> DEFINE e == [editor EXCEPT !.confirm = "delete-line", !.line = line]
  <2>2. EditorIdle /\ Set(e)
    BY <2>1 DEF AskDeleteLine, Toggled
  <2>3. /\ DOMAIN e = DOMAIN editor /\ e.open = editor.open /\ e.loading = editor.loading
        /\ e.invoice = editor.invoice /\ e.busy = "" /\ e.confirm \in Confirmed
        /\ e.dialog = editor.dialog
    BY <1>0, <2>2 DEF Confirmed
  <2> HIDE DEF e
  <2> QED
    BY <1>0, <2>2, <2>3, SetKept
<1>6. CASE CancelConfirm
  <2> DEFINE e == [editor EXCEPT !.confirm = "", !.line = 0]
  <2>2. EditorIdle /\ Set(e)
    BY <1>6 DEF CancelConfirm, Toggled
  <2>3. /\ DOMAIN e = DOMAIN editor /\ e.open = editor.open /\ e.loading = editor.loading
        /\ e.invoice = editor.invoice /\ e.busy = "" /\ e.confirm = ""
        /\ e.dialog = editor.dialog
    BY <1>0, <2>2
  <2> HIDE DEF e
  <2> QED
    BY <1>0, <2>2, <2>3, SetKept
<1>7. CASE \E section \in {"header", "notes"} : EditSection(section)
  <2>1. PICK e : /\ EditorIdle /\ Set(e)
                 /\ e = [editor EXCEPT !.header = ~@] \/ e = [editor EXCEPT !.notes = ~@]
    BY <1>7 DEF EditSection, Toggled
  <2>2. /\ DOMAIN e = DOMAIN editor /\ e.open = editor.open /\ e.loading = editor.loading
        /\ e.invoice = editor.invoice /\ e.busy = "" /\ e.confirm = editor.confirm
        /\ e.dialog = editor.dialog
    BY <1>0, <2>1
  <2> QED
    BY <1>0, <2>1, <2>2, SetKept
<1>8. CASE \E form \in Forms : SaveLine(form)
  <2>1. PICK form \in Forms : SaveLine(form)
    BY <1>8
  <2>2. EditorIdle /\ editor.dialog # Nothing /\ editor.dialog.mode \in LineDialogs
    BY <1>0, <2>1 DEF SaveLine, Chosen
  <2>3. CASE \E kind \in {"delete-line", editor.dialog.mode} : Send(kind, editor.dialog.line, form)
    <3>1. PICK kind \in {"delete-line", editor.dialog.mode} : Send(kind, editor.dialog.line, form)
      BY <2>3
    <3>2. kind \notin Exports \cup {"", "none"}
      BY <2>2 DEF LineDialogs, Exports
    <3> QED
      BY <2>2, <3>1, <3>2, SendKept
  <2>4. CASE Set([editor EXCEPT !.dialog = Nothing])
    <3> DEFINE e == [editor EXCEPT !.dialog = Nothing]
    <3>1. Set(e)
      BY <2>4
    <3>2. /\ DOMAIN e = DOMAIN editor /\ e.open = editor.open /\ e.loading = editor.loading
          /\ e.invoice = editor.invoice /\ e.busy = "" /\ e.confirm = editor.confirm
          /\ e.dialog = Nothing
      BY <1>0, <2>2
    <3> HIDE DEF e
    <3> QED
      BY <1>0, <2>2, <3>1, <3>2, SetKept
  <2> QED
    BY <2>1, <2>3, <2>4 DEF SaveLine
<1>9. CASE Confirm
  <2>1. EditorIdle /\ Send(editor.confirm, editor.line, NoForm) /\ editor.confirm # ""
    BY <1>9 DEF Confirm, Chosen
  <2>2. editor.confirm \notin Exports \cup {"", "none"}
    BY <1>0, <2>1 DEF Confirmed, Exports
  <2> QED
    BY <2>1, <2>2, SendKept
<1>10. CASE \E section \in {"save-header", "save-notes"} : SaveSection(section)
  <2>1. PICK section \in {"save-header", "save-notes"} : SaveSection(section)
    BY <1>10
  <2>2. EditorIdle /\ Send(section, 0, NoForm)
    BY <2>1 DEF SaveSection, Chosen
  <2>3. section \notin Exports \cup {"", "none"}
    BY DEF Exports
  <2> QED
    BY <2>2, <2>3, SendKept
<1>11. CASE \E kind \in {"export-pdf", "export-container-zip"} : ExportDocument(kind)
  <2>1. PICK kind \in {"export-pdf", "export-container-zip"} : ExportDocument(kind)
    BY <1>11
  <2> DEFINE e == [editor EXCEPT !.busy = kind, !.error = IF kind = "export-pdf" THEN "" ELSE @]
  <2>2. EditorIdle /\ Set(e)
    BY <2>1 DEF ExportDocument, Chosen
  <2>3. /\ DOMAIN e = DOMAIN editor /\ e.open = editor.open /\ e.loading = editor.loading
        /\ e.invoice = editor.invoice /\ e.busy \in Exports /\ e.confirm = editor.confirm
        /\ e.dialog = editor.dialog
    BY <1>0, <2>2 DEF Exports
  <2> HIDE DEF e
  <2> QED
    BY <1>0, <2>2, <2>3, SetKept
<1> QED
  BY <1>1, <1>2, <1>3, <1>4, <1>5, <1>6, <1>7, <1>8, <1>9, <1>10, <1>11 DEF EditorSteps

\* An answer comes to a load: whom it is for does not change.
LEMMA AnswerKept ==
  ASSUME SourcesInv, PagesInv, NEW load \in loads, Answer(load)
  PROVE  PagesInv'
<1>1. PICK answer : AnswerLoad(load, answer)
  BY DEF Answer
<1> DEFINE answered == [load EXCEPT !.answer = answer]
<1>2. /\ loads' = (loads \ {load}) \cup {answered}
      /\ UNCHANGED <<moves, invoices, page, desk, editor, stay, creation, request, fetches, context>>
  BY <1>1 DEF AnswerLoad, server
<1>3. answered.active = load.active /\ answered.owner = load.owner
  BY DEF SourcesInv, LoadSourced
<1> HIDE DEF answered
<1>4. ASSUME NEW name, Awaited(name, loads) PROVE Awaited(name, loads')
  BY <1>2, <1>3, <1>4 DEF Awaited
<1>5. LoadsBounded'
  <2>1. IsFiniteSet(loads) /\ Cardinality(loads) <= MaxLoads /\ Cardinality(loads) \in Nat
    BY FS_CardinalityType DEF PagesInv, LoadsBounded
  <2>2. IsFiniteSet(loads \ {load}) /\ Cardinality(loads \ {load}) = Cardinality(loads) - 1
    BY <2>1, FS_RemoveElement
  <2>3. Cardinality(loads \ {load}) \in Nat
    BY <2>2, FS_CardinalityType
  <2>4. /\ IsFiniteSet((loads \ {load}) \cup {answered})
        /\ Cardinality((loads \ {load}) \cup {answered}) <= Cardinality(loads \ {load}) + 1
    BY <2>2, <2>3, FS_AddElement
  <2>5. Cardinality((loads \ {load}) \cup {answered}) \in Nat
    BY <2>4, FS_CardinalityType
  <2> QED
    BY <1>2, <2>1, <2>2, <2>3, <2>4, <2>5, InvoicesAssumption DEF LoadsBounded
<1>6. page = "desk" => DeskSound(desk', context', 1 .. Len(invoices'), loads', creation')
  BY <1>2, <1>4 DEF PagesInv, DeskSound
<1>7. page = "stay" => StaySound(stay', loads')
  BY <1>2, <1>4 DEF PagesInv, StaySound
<1> QED
  BY <1>2, <1>5, <1>6, <1>7 DEF PagesInv

\* A load that comes back is shown, and the page no longer loads; or it was not awaited.
LEMMA ReceiveKept ==
  ASSUME SourcesInv, PagesInv, NEW load \in loads, Receive(load)
  PROVE  PagesInv'
<1>1. /\ loads' = loads \ {load}
      /\ desk' = IF Shown(load) /\ page = "desk" THEN DeskAfter(load.answer) ELSE desk
      /\ stay' = IF Shown(load) /\ page = "stay" THEN StayAfter(load.answer) ELSE stay
      /\ UNCHANGED <<moves, invoices, page, editor, creation, request, fetches, context>>
  BY DEF Receive, server
<1>2. LoadsBounded'
  <2>1. IsFiniteSet(loads) /\ Cardinality(loads) <= MaxLoads /\ Cardinality(loads) \in Nat
    BY FS_CardinalityType DEF PagesInv, LoadsBounded
  <2>2. IsFiniteSet(loads \ {load}) /\ Cardinality(loads \ {load}) = Cardinality(loads) - 1
    BY <2>1, FS_RemoveElement
  <2> QED
    BY <1>1, <2>1, <2>2, InvoicesAssumption DEF LoadsBounded
<1>3. ASSUME ~Shown(load), Awaited(page, loads) PROVE Awaited(page, loads')
  BY <1>1, <1>3 DEF Awaited, Shown
<1>4. ASSUME page = "desk" PROVE DeskSound(desk', context', 1 .. Len(invoices'), loads', creation')
  <2>1. DeskSound(desk, context, 1 .. Len(invoices), loads, creation)
    BY <1>4 DEF PagesInv
  <2>2. CASE Shown(load)
    <3>1. desk' = DeskAfter(load.answer)
      BY <1>1, <1>4, <2>2
    <3>2. /\ DOMAIN desk' = DOMAIN desk /\ desk'.open = desk.open /\ desk'.scope = desk.scope
          /\ desk'.loading = FALSE /\ desk'.history = desk.history /\ desk'.creating = desk.creating
      BY <2>1, <3>1 DEF DeskAfter, DeskSound
    <3> QED
      BY <1>1, <2>1, <3>2 DEF DeskSound
  <2>3. CASE ~Shown(load)
    <3>1. desk' = desk
      BY <1>1, <2>3
    <3> QED
      BY <1>1, <1>3, <1>4, <2>1, <2>3, <3>1 DEF DeskSound
  <2> QED
    BY <2>2, <2>3
<1>5. ASSUME page = "stay" PROVE StaySound(stay', loads')
  <2>1. StaySound(stay, loads)
    BY <1>5 DEF PagesInv
  <2>2. CASE Shown(load)
    <3>1. stay' = StayAfter(load.answer)
      BY <1>1, <1>5, <2>2
    <3>2. DOMAIN stay' = DOMAIN stay /\ stay'.open = stay.open /\ stay'.loading = FALSE
      BY <2>1, <3>1 DEF StayAfter, StaySound
    <3> QED
      BY <2>1, <3>2 DEF StaySound
  <2>3. CASE ~Shown(load)
    <3>1. stay' = stay
      BY <1>1, <2>3
    <3> QED
      BY <1>3, <1>5, <2>1, <2>3, <3>1 DEF StaySound
  <2> QED
    BY <2>2, <2>3
<1>6. (page # "desk" => desk' = desk) /\ (page # "stay" => stay' = stay)
  BY <1>1
<1> QED
  BY <1>1, <1>2, <1>4, <1>5, <1>6 DEF PagesInv

\* What else comes back to the desk: headings, a document, a refresh.
LEMMA DeskArrivalsKept ==
  ASSUME SourcesInv, PagesInv, NEW ok \in BOOLEAN, ReceiveHistory(ok) \/ EndPreviewPdf(ok) \/ EndRefresh
  PROVE  PagesInv'
<1>0. page = "desk" /\ DeskSound(desk, context, 1 .. Len(invoices), loads, creation)
  BY DEF PagesInv, ReceiveHistory, EndPreviewPdf, EndRefresh
<1>1. CASE ReceiveHistory(ok)
  <2> DEFINE asked == {x \in DOMAIN invoices : invoices[x] # Nothing /\ invoices[x].customer \in CustomersOf(desk.scope)}
             heard == {Heading(i) : i \in asked}
  <2>1. /\ desk' = [desk EXCEPT !.asked = FALSE, !.history = IF ok THEN heard ELSE @]
        /\ UNCHANGED <<moves, invoices, page, editor, stay, loads, creation, request, fetches, context>>
    BY <1>1 DEF ReceiveHistory, server
  <2>2. \A h \in heard : h.id \in 1 .. Len(invoices)
    <3>1. DOMAIN invoices = 1 .. Len(invoices)
      BY ListElim DEF SourcesInv
    <3>2. \A i : Heading(i).id = i
      BY DEF Heading
    <3> QED
      BY <3>1, <3>2
  <2> HIDE DEF heard
  <2>3. /\ DOMAIN desk' = DOMAIN desk /\ desk'.open = desk.open /\ desk'.scope = desk.scope
        /\ desk'.preview = desk.preview /\ desk'.loading = desk.loading
        /\ desk'.history \in {heard, desk.history} /\ desk'.creating = desk.creating
    BY <1>0, <2>1 DEF DeskSound
  <2>4. DeskSound(desk', context, 1 .. Len(invoices), loads, creation')
    BY <1>0, <2>1, <2>2, <2>3 DEF DeskSound
  <2> QED
    BY <1>0, <2>1, <2>4, DeskKept
<1>2. CASE EndPreviewPdf(ok)
  <2>1. /\ desk' = [desk EXCEPT !.busy = "", !.error = IF ok THEN @ ELSE "failed"]
        /\ UNCHANGED <<moves, invoices, page, editor, stay, loads, creation, request, fetches, context>>
    BY <1>2 DEF EndPreviewPdf, server
  <2>2. /\ DOMAIN desk' = DOMAIN desk /\ desk'.open = desk.open /\ desk'.scope = desk.scope
        /\ desk'.preview = desk.preview /\ desk'.loading = desk.loading /\ desk'.history = desk.history
        /\ desk'.creating = desk.creating
    BY <2>1
  <2>3. DeskSound(desk', context, 1 .. Len(invoices), loads, creation')
    BY <1>0, <2>1, <2>2 DEF DeskSound
  <2> QED
    BY <1>0, <2>1, <2>3, DeskKept
<1>3. CASE EndRefresh
  <2> DEFINE d == [desk EXCEPT !.busy = "", !.error = ""]
  <2>1. /\ Reload(d, desk.scope)
        /\ UNCHANGED <<moves, invoices, page, editor, stay, creation, request, fetches, context>>
    BY <1>3 DEF EndRefresh, server
  <2>2. DOMAIN d = DOMAIN desk /\ d.open = desk.open /\ d.creating = desk.creating /\ d.history = desk.history
    OBVIOUS
  <2> HIDE DEF d
  <2>3. /\ {"open", "scope", "preview", "loading", "creating", "history"} \subseteq DOMAIN d /\ d.open = TRUE
        /\ d.creating = Live(creation') /\ desk.scope \in Scopes /\ context' = desk.scope
    BY <1>0, <2>1, <2>2 DEF DeskSound
  <2> QED
    BY <1>0, <2>1, <2>2, <2>3, ReloadKept
<1> QED
  BY <1>1, <1>2, <1>3

\* An invoice that is not made leaves the desk free to ask again.
LEMMA CreationEndKept ==
  ASSUME SourcesInv, PagesInv, CreationStale \/ CreationRefused
  PROVE  PagesInv'
<1>1. /\ creation # NoCall /\ creation' = NoCall
      /\ UNCHANGED <<moves, invoices, page, editor, stay, request, fetches, context>>
  BY DEF CreationStale, CreationRefused, server
<1>2. ~Live(creation')
  BY <1>1, NoCallSound
<1>3. creation.live => page = "desk"
  BY <1>1 DEF PagesInv, Live
<1>4. page = "desk" => DeskSound(desk, context, 1 .. Len(invoices), loads, creation)
  BY DEF PagesInv
<1>5. CASE creation.live /\ CreationStale
  <2> DEFINE d == [desk EXCEPT !.creating = FALSE, !.error = "stale", !.keep = TRUE]
  <2>1. Reload(d, desk.scope)
    BY <1>5 DEF CreationStale
  <2>2. page = "desk"
    BY <1>3, <1>5
  <2>3. /\ DOMAIN d = DOMAIN desk /\ d.open = desk.open /\ d.history = desk.history
        /\ "creating" \in DOMAIN desk => d.creating = FALSE
    OBVIOUS
  <2> HIDE DEF d
  <2>4. /\ {"open", "scope", "preview", "loading", "creating", "history"} \subseteq DOMAIN d /\ d.open = TRUE
        /\ d.creating = FALSE /\ desk.scope \in Scopes /\ context' = desk.scope
    BY <1>1, <1>4, <2>2, <2>3 DEF DeskSound
  <2>5. d.creating = Live(creation')
    BY <1>2, <2>4, DeadIsFalse
  <2> QED
    BY <1>1, <2>1, <2>2, <2>3, <2>4, <2>5, ReloadKept
<1>6. CASE creation.live /\ CreationRefused
  <2>1. page = "desk"
    BY <1>3, <1>6
  <2>2. desk' = [desk EXCEPT !.creating = FALSE, !.error = "failed"] /\ loads' = loads
    BY <1>6 DEF CreationRefused
  <2>3. /\ DOMAIN desk' = DOMAIN desk /\ desk'.open = desk.open /\ desk'.scope = desk.scope
        /\ desk'.preview = desk.preview /\ desk'.loading = desk.loading /\ desk'.history = desk.history
        /\ desk'.creating = FALSE
    BY <1>4, <2>1, <2>2 DEF DeskSound
  <2>4. desk'.creating = Live(creation')
    BY <1>2, <2>3, DeadIsFalse
  <2>5. DeskSound(desk', context, 1 .. Len(invoices), loads, creation')
    BY <1>4, <2>1, <2>3, <2>4 DEF DeskSound
  <2> QED
    BY <1>1, <2>1, <2>2, <2>5, DeskKept
<1>7. CASE ~creation.live
  <2>1. desk' = desk /\ loads' = loads
    BY <1>7 DEF CreationStale, CreationRefused
  <2>2. ~Live(creation)
    BY <1>7 DEF Live
  <2>3. CASE page = "desk"
    <3>1. desk.creating = Live(creation')
      BY <1>2, <1>4, <2>2, <2>3, DeadIsFalse DEF DeskSound
    <3>2. DeskSound(desk', context, 1 .. Len(invoices), loads, creation')
      BY <1>4, <2>1, <2>3, <3>1 DEF DeskSound
    <3> QED
      BY <1>1, <2>1, <2>3, <3>2, DeskKept
  <2>4. CASE page # "desk"
    BY <1>1, <1>2, <2>1, <2>4 DEF PagesInv, LoadsBounded
  <2> QED
    BY <2>3, <2>4
<1> QED
  BY <1>5, <1>6, <1>7

\* The lines of a new invoice are numbered in their order.
LEMMA NewNumbered ==
  ASSUME SourcesInv, creation # NoCall, GenerateInvoice(creation).status = "ok", NEW id,
         NEW new, new = NewInvoice(id, creation.scope, creation.settlement, GenerateInvoice(creation).lines)
  PROVE  Numbered(new) /\ new.id = id
<1> DEFINE scope == creation.scope
           settlement == creation.settlement
           preview == creation.preview
           sources == SourcesOf(moves, scope)
           lines == preview.lines
           A == {l \in ToSet(lines) : ~settlement \/ l.type = "STORAGE"}
           kept == Only(lines, A)
           Stay(c) == CHOOSE x \in ToSet(preview.storage) : x.container = c
           billed == GenerateInvoice(creation).lines
<1>1. CallSourced(creation) /\ moves \in Seq(PalletMoves)
  BY DEF SourcesInv
<1>2. preview = PreviewOfSources(sources, scope) /\ sources \in Seq(PalletMoves)
      /\ billed = InvoiceLines(preview, settlement)
  BY <1>1, NotStale
<1>3. ScopeSound(scope)
  BY <1>1, ScopesAssumption DEF CallSourced, ScopeSound
<1>4. billed = [i \in DOMAIN kept |->
                   [id |-> i, type |-> kept[i].type, container |-> kept[i].container,
                    day |-> kept[i].day, quantity |-> kept[i].quantity, amount |-> kept[i].amount,
                    manual |-> FALSE,
                    details |-> IF kept[i].type = "STORAGE" THEN StayDetails(Stay(kept[i].container))
                                ELSE NoDetails]]
  BY <1>2 DEF InvoiceLines
<1>5. lines \in Seq(LineRecords)
  <2> HIDE DEF sources
  <2> QED
    BY <1>2, <1>3, PreviewLinesSeq
<1>6. kept \in Seq(LineRecords \cap A)
  <2> HIDE DEF lines, A
  <2> QED
    BY <1>5, OnlyEmbeds
<1> HIDE DEF kept, billed, Stay, A, lines
<1>7. Len(kept) \in Nat /\ DOMAIN kept = 1 .. Len(kept)
  BY <1>6
<1>8. billed = [i \in 1 .. Len(kept) |-> billed[i]] /\ \A i \in 1 .. Len(kept) : billed[i].id = i
  BY <1>4, <1>7
<1>9. IsList(billed) /\ Len(billed) = Len(kept)
  BY <1>7, <1>8, ListOf
<1>10. /\ new.lines = billed /\ new.id = id /\ {"id", "lines"} \subseteq DOMAIN new
  BY DEF NewInvoice, Recalculated, billed
<1>11. billed \in Seq(ToSet(billed)) /\ DOMAIN billed = 1 .. Len(billed)
  BY <1>9, ListElim DEF ToSet
<1>12. Numbered(new)
  BY <1>7, <1>8, <1>9, <1>10, <1>11 DEF Numbered
<1> QED
  BY <1>10, <1>12

\* A new invoice leads to the editor.
LEMMA CreatedKept ==
  ASSUME SourcesInv, PagesInv, Created
  PROVE  PagesInv'
<1> DEFINE id == Len(invoices) + 1
           new == NewInvoice(id, creation.scope, creation.settlement, GenerateInvoice(creation).lines)
<1>1. /\ creation # NoCall /\ GenerateInvoice(creation).status = "ok" /\ id <= MaxInvoices
      /\ invoices' = Append(invoices, new)
      /\ page' = "editor" /\ desk' = NoPage /\ stay' = NoPage /\ creation' = NoCall /\ loads' = {}
      /\ editor' = IF page = "editor" THEN [editor EXCEPT !.id = id, !.loading = TRUE, !.error = ""]
                   ELSE FreshEditor(id)
      /\ fetches' = fetches \cup {id} /\ moves' = moves /\ request' = request
  BY DEF Created
<1>2. Numbered(new) /\ new.id = id
  BY <1>1, NewNumbered
<1> HIDE DEF new
<1>3. IsList(invoices) /\ Len(invoices) \in Nat
  BY ListElim DEF SourcesInv
<1>4. /\ IsList(invoices') /\ Len(invoices') = id /\ invoices'[id] = new
      /\ \A j \in 1 .. Len(invoices) : invoices'[j] = invoices[j]
  BY <1>1, <1>3, ListAppend
<1>5. 1 .. Len(invoices) \subseteq 1 .. Len(invoices') /\ id \in 1 .. Len(invoices')
      /\ \A i \in 1 .. Len(invoices') : i \in 1 .. Len(invoices) \/ i = id
  BY <1>3, <1>4
<1> HIDE DEF id
<1>6. InvoicesSound(invoices')
  BY <1>1, <1>2, <1>4, <1>5 DEF PagesInv, InvoicesSound
<1>7. CallSound(request', 1 .. Len(invoices'))
  BY <1>1, <1>5 DEF PagesInv, CallSound
<1>8. EditorSound(editor', 1 .. Len(invoices'), fetches', request')
  <2>1. CASE page = "editor"
    <3>1. EditorSound(editor, 1 .. Len(invoices), fetches, request)
      BY <2>1 DEF PagesInv
    <3>2. editor' = [editor EXCEPT !.id = id, !.loading = TRUE, !.error = ""]
      BY <1>1, <2>1
    <3>3. /\ DOMAIN editor' = DOMAIN editor /\ editor'.busy = editor.busy /\ editor'.open = editor.open
          /\ editor'.invoice = editor.invoice /\ editor'.dialog = editor.dialog
          /\ editor'.confirm = editor.confirm
      BY <3>2
    <3> QED
      BY <1>1, <1>5, <3>1, <3>3 DEF EditorSound
  <2>2. CASE page # "editor"
    <3>1. ~Live(request')
      BY <1>1, <2>2 DEF PagesInv
    <3>2. editor' = FreshEditor(id)
      BY <1>1, <2>2
    <3>3. /\ {"open", "id", "invoice", "loading", "error", "busy", "dialog", "confirm", "line", "header", "notes"}
               \subseteq DOMAIN editor'
          /\ editor'.open = TRUE /\ editor'.busy = "" /\ editor'.invoice = Nothing
          /\ editor'.dialog = Nothing /\ editor'.confirm = ""
      BY <3>2 DEF FreshEditor
    <3>4. fetches' # {}
      BY <1>1
    <3> QED
      BY <3>1, <3>3, <3>4 DEF EditorSound
  <2> QED
    BY <2>1, <2>2
<1>9. LoadsBounded'
  BY <1>1, FS_EmptySet, InvoicesAssumption DEF LoadsBounded
<1>10. fetches' \subseteq 1 .. Len(invoices')
  BY <1>1, <1>5 DEF PagesInv
<1>11. ~Live(creation')
  BY <1>1, NoCallSound
<1> QED
  BY <1>1, <1>6, <1>7, <1>8, <1>9, <1>10, <1>11 DEF PagesInv

\* An invoice that is fetched is one that the service has.
LEMMA FetchKept ==
  ASSUME SourcesInv, PagesInv, NEW id, NEW ok, Fetch(id, ok)
  PROVE  PagesInv'
<1>1. /\ id \in fetches /\ fetches' = fetches \ {id}
      /\ UNCHANGED <<moves, invoices, page, desk, stay, loads, creation, request, context>>
  BY DEF Fetch, server
<1>2. page = "editor" /\ EditorSound(editor, 1 .. Len(invoices), fetches, request) /\ id \in 1 .. Len(invoices)
  BY <1>1 DEF PagesInv
<1>3. /\ DOMAIN editor' = DOMAIN editor /\ editor'.busy = editor.busy /\ editor'.open = editor.open
      /\ editor'.dialog = editor.dialog /\ editor'.confirm = editor.confirm /\ editor'.loading = FALSE
      /\ \/ editor'.invoice = invoices[id] /\ invoices[id] # Nothing
         \/ editor'.invoice = editor.invoice
  BY <1>2 DEF Fetch, EditorSound
<1>4. invoices[id] # Nothing => Numbered(invoices[id]) /\ invoices[id].id = id
  BY <1>2 DEF PagesInv, InvoicesSound
<1>5. EditorSound(editor', 1 .. Len(invoices), fetches', request)
  BY <1>2, <1>3, <1>4 DEF EditorSound
<1> QED
  BY <1>1, <1>2, <1>5 DEF PagesInv, LoadsBounded

\* What a call that is carried out makes of the list of invoices.
LEMMA ServedSound ==
  ASSUME PagesInv, request # NoCall, Serves(request),
         NEW list, list = [invoices EXCEPT ![request.id] = Served(request)]
  PROVE  InvoicesSound(list) /\ Len(list) = Len(invoices)
<1>1. request.id \in 1 .. Len(invoices) /\ InvoicesSound(invoices)
  BY DEF PagesInv, CallSound
<1>2. Numbered(invoices[request.id]) /\ invoices[request.id].id = request.id
  BY <1>1 DEF InvoicesSound, Serves
<1>3. /\ IsList(list) /\ Len(list) = Len(invoices)
      /\ \A j \in 1 .. Len(invoices) : list[j] = IF j = request.id THEN Served(request) ELSE invoices[j]
  <2>1. IsList(invoices)
    BY <1>1 DEF InvoicesSound
  <2> DEFINE i == request.id  v == Served(request)
  <2>2. list = [invoices EXCEPT ![i] = v]
    OBVIOUS
  <2> HIDE DEF i, v
  <2>3. IsList(list)
    BY <2>1, <2>2, ListExcept
  <2>5. Len(list) = Len(invoices)
    BY <2>1, <2>2, ListExcept
  <2>4. ASSUME NEW j \in 1 .. Len(invoices) PROVE list[j] = IF j = i THEN v ELSE invoices[j]
    BY <2>1, <2>2, ListExcept
  <2> QED
    BY <2>3, <2>4, <2>5 DEF i, v
<1>4. Served(request) # Nothing => Numbered(Served(request)) /\ Served(request).id = request.id
  <2>1. CASE request.kind = "delete"
    BY <2>1 DEF Served
  <2>2. CASE request.kind # "delete"
    BY <1>2, <2>2, ServedNumbered
  <2> QED
    BY <2>1, <2>2
<1> QED
  BY <1>1, <1>3, <1>4 DEF InvoicesSound

\* The answer to a call of the editor.
LEMMA RespondKept ==
  ASSUME SourcesInv, PagesInv, Respond \/ (\E done \in BOOLEAN : RespondError(done))
  PROVE  PagesInv'
<1>1. /\ request # NoCall /\ request' = NoCall
      /\ UNCHANGED <<moves, page, desk, stay, loads, creation, fetches, context>>
  BY DEF Respond, RespondError
<1>2. InvoicesSound(invoices') /\ Len(invoices') = Len(invoices)
  <2>1. InvoicesSound(invoices)
    BY DEF PagesInv
  <2>2. \/ invoices' = invoices
        \/ Serves(request) /\ invoices' = [invoices EXCEPT ![request.id] = Served(request)]
    BY DEF Respond, RespondError
  <2> QED
    BY <1>1, <2>1, <2>2, ServedSound
<1>3. ~Live(request') /\ CallSound(request', 1 .. Len(invoices'))
  BY <1>1, NoCallSound
<1>4. page # "editor" => editor' = editor
  BY <1>1 DEF PagesInv, Live, Respond, RespondError
<1>5. ASSUME page = "editor" PROVE EditorSound(editor', 1 .. Len(invoices'), fetches', request')
  <2>1. EditorSound(editor, 1 .. Len(invoices), fetches, request)
    BY <1>5 DEF PagesInv
  <2>2. CASE ~request.live
    <3>1. editor' = editor
      BY <2>2 DEF Respond, RespondError
    <3>2. ~Live(request)
      BY <2>2 DEF Live
    <3> QED
      BY <1>1, <1>2, <1>3, <2>1, <3>1, <3>2, DeadIsFalse DEF EditorSound
  <2>3. CASE request.live
    <3> DEFINE e == ClosedBy(request)
    <3>1. /\ DOMAIN e = DOMAIN editor /\ e.busy = "" /\ e.confirm = "" /\ e.open = editor.open
          /\ e.loading = editor.loading /\ e.invoice = editor.invoice /\ e.dialog = editor.dialog
      BY <2>1 DEF ClosedBy, EditorSound
    <3>2. /\ DOMAIN editor' = DOMAIN editor /\ editor'.busy = "" /\ editor'.confirm = ""
          /\ editor'.open = editor.open /\ editor'.loading = editor.loading
          /\ editor'.dialog \in {Nothing, editor.dialog}
          /\ \/ editor'.invoice = editor.invoice
             \/ Respond /\ editor'.invoice = Served(request)
      <4>1. CASE Respond
        <5>1. editor' = Succeeded(request, Served(request))
          BY <2>3, <4>1 DEF Respond
        <5> DEFINE shown == [e EXCEPT !.invoice = Served(request)]
        <5>2. /\ DOMAIN shown = DOMAIN editor /\ shown.busy = "" /\ shown.confirm = ""
              /\ shown.open = editor.open /\ shown.loading = editor.loading
              /\ shown.dialog = editor.dialog /\ shown.invoice = Served(request)
          <6> HIDE DEF e
          <6> QED
            BY <2>1, <3>1 DEF EditorSound
        <5>3. editor' = CASE request.kind \in {"add-line", "edit-line", "delete-line"} -> [shown EXCEPT !.dialog = Nothing]
                          [] request.kind = "finalize" -> [shown EXCEPT !.header = FALSE, !.notes = FALSE]
                          [] request.kind = "save-header" -> [shown EXCEPT !.header = FALSE]
                          [] request.kind = "save-notes" -> [shown EXCEPT !.notes = FALSE]
                          [] OTHER -> shown
          BY <5>1 DEF Succeeded
        <5> HIDE DEF shown, e
        <5>4. \/ editor' = [shown EXCEPT !.dialog = Nothing]
              \/ editor' = [shown EXCEPT !.header = FALSE, !.notes = FALSE]
              \/ editor' = [shown EXCEPT !.header = FALSE]
              \/ editor' = [shown EXCEPT !.notes = FALSE]
              \/ editor' = shown
          BY <5>3
        <5> QED
          BY <2>1, <4>1, <5>2, <5>4 DEF EditorSound
      <4>2. CASE ~Respond
        <5>1. editor' = [e EXCEPT !.error = "failed"]
          BY <2>3, <4>2 DEF RespondError
        <5> HIDE DEF e
        <5> QED
          BY <2>1, <3>1, <4>2, <5>1 DEF EditorSound
      <4> QED
        BY <4>1, <4>2
    <3>3. Respond => Numbered(Served(request)) /\ Served(request).id \in 1 .. Len(invoices)
      <4>1. Respond => request.kind # "delete" /\ Serves(request)
        BY DEF Respond
      <4>2. request.id \in 1 .. Len(invoices) /\ InvoicesSound(invoices)
        BY <1>1 DEF PagesInv, CallSound
      <4>3. Respond => Numbered(invoices[request.id]) /\ invoices[request.id].id = request.id
        BY <4>1, <4>2 DEF Serves, InvoicesSound
      <4> QED
        BY <4>1, <4>2, <4>3, ServedNumbered
    <3> QED
      BY <1>1, <1>2, <1>3, <2>1, <3>2, <3>3 DEF EditorSound
  <2> QED
    BY <2>2, <2>3
<1>6. page = "desk" => DeskSound(desk', context', 1 .. Len(invoices'), loads', creation')
  BY <1>1, <1>2 DEF PagesInv
<1> QED
  BY <1>1, <1>2, <1>3, <1>4, <1>5, <1>6 DEF PagesInv, LoadsBounded

\* A draft that is deleted.
LEMMA DeletedKept ==
  ASSUME SourcesInv, PagesInv, Deleted
  PROVE  PagesInv'
<1>1. request # NoCall /\ request.kind = "delete" /\ Serves(request) /\ request' = NoCall /\ moves' = moves
      /\ invoices' = [invoices EXCEPT ![request.id] = Nothing]
  BY DEF Deleted
<1>2. InvoicesSound(invoices') /\ Len(invoices') = Len(invoices)
  <2>1. Served(request) = Nothing
    BY <1>1 DEF Served
  <2> QED
    BY <1>1, <2>1, ServedSound
<1>3. ~Live(request') /\ CallSound(request', 1 .. Len(invoices))
  BY <1>1, NoCallSound
<1>4. CASE page = "desk"
  <2>1. UNCHANGED <<page, desk, editor, stay, loads, creation, fetches, context>>
    BY <1>4 DEF Deleted
  <2> QED
    BY <1>1, <1>2, <1>3, <1>4, <2>1 DEF PagesInv, LoadsBounded
<1>5. CASE page # "desk"
  <2>1. /\ page' = "desk" /\ desk' = FreshDesk /\ editor' = NoPage /\ stay' = NoPage
        /\ fetches' = {} /\ loads' = Abandoned \cup {Pending("desk", FirstScope)}
        /\ creation' = Orphan(creation) /\ context' = FirstScope
    BY <1>5 DEF Deleted
  <2>2. ~Live(creation')
    BY <2>1, OrphanDead DEF SourcesInv, CallSourced
  <2> QED
    BY <1>1, <1>2, <1>3, <2>1, <2>2, DeskMountedKept
<1> QED
  BY <1>4, <1>5

\* A document of the editor is made, or not.
LEMMA ExportEndKept ==
  ASSUME SourcesInv, PagesInv, NEW ok \in BOOLEAN, EndExport(ok)
  PROVE  PagesInv'
<1>1. /\ page = "editor" /\ editor.busy \in Exports
      /\ editor' = [editor EXCEPT !.busy = "", !.error = IF ok THEN @ ELSE "failed"]
      /\ UNCHANGED <<moves, invoices, page, desk, stay, loads, creation, request, fetches, context>>
  BY DEF EndExport, Set, server, Exports
<1>2. EditorSound(editor, 1 .. Len(invoices), fetches, request)
  BY <1>1 DEF PagesInv
<1>3. ~Live(request)
  BY <1>1, <1>2 DEF EditorSound, Exports
<1>4. /\ DOMAIN editor' = DOMAIN editor /\ editor'.busy = "" /\ editor'.open = editor.open
      /\ editor'.loading = editor.loading /\ editor'.invoice = editor.invoice
      /\ editor'.dialog = editor.dialog /\ editor'.confirm = editor.confirm
  BY <1>1, <1>2 DEF EditorSound
<1>5. EditorSound(editor', 1 .. Len(invoices), fetches, request)
  BY <1>2, <1>3, <1>4 DEF EditorSound
<1>6. CallSound(request, 1 .. Len(invoices))
  BY DEF PagesInv
<1> QED
  BY <1>1, <1>5, <1>6, EditorKept

\* Every step keeps the flags.
LEMMA StepPages == SourcesInv /\ PagesInv /\ [Next]_vars => PagesInv'
<1> SUFFICES ASSUME SourcesInv, PagesInv, [Next]_vars PROVE PagesInv'
  OBVIOUS
<1>1. CASE \E m \in Candidates : Move(m)
  <2>1. PICK m \in Candidates : Move(m)
    BY <1>1
  <2> DEFINE D == {i \in DOMAIN moves : moves[i].day <= m.day}
  <2>2. /\ Len(moves) < MaxMoves /\ moves' = PutAfter(moves, Cardinality(D), m) /\ m \in PalletMoves
        /\ UNCHANGED <<invoices, page, desk, editor, stay, loads, creation, request, fetches, context>>
    BY <2>1, MovesAssumption DEF Move
  <2>3. moves \in Seq(PalletMoves) /\ Len(moves) \in Nat /\ D \in SUBSET (1 .. Len(moves))
    BY DEF SourcesInv
  <2> HIDE DEF D
  <2>4. Cardinality(D) \in 0 .. Len(moves)
    BY <2>3, PositionsCount
  <2>5. Len(moves') = Len(moves) + 1
    BY <2>2, <2>3, <2>4, PutAfterSeq
  <2>6. Len(moves') <= MaxMoves
    BY <2>2, <2>3, <2>5, MovesAssumption
  <2> QED
    BY <2>2, <2>6 DEF PagesInv, LoadsBounded
<1>2. CASE OpenDesk
  <2>1. /\ page' = "desk" /\ desk' = FreshDesk /\ editor' = NoPage /\ stay' = NoPage
        /\ fetches' = {} /\ loads' = Abandoned \cup {Pending("desk", FirstScope)}
        /\ creation' = Orphan(creation) /\ request' = Orphan(request) /\ context' = FirstScope
        /\ moves' = moves /\ invoices' = invoices
    BY <1>2 DEF OpenDesk, Mount, server
  <2>2. ~Live(creation')
    BY <2>1, OrphanDead DEF SourcesInv, CallSourced
  <2>3. CallSound(request', 1 .. Len(invoices)) /\ ~Live(request')
    BY <2>1, OrphanSound DEF PagesInv
  <2>4. InvoicesSound(invoices')
    BY <2>1 DEF PagesInv
  <2> QED
    BY <2>1, <2>2, <2>3, <2>4, DeskMountedKept
<1>3. CASE \E i \in 1..Cardinality(Containers) : Viewed(i)
  BY <1>3, StayMountedKept DEF Viewed, ViewContainer
<1>4. CASE \E container \in Containers, scope \in Scopes : VisitStay(container, scope)
  BY <1>4, StayMountedKept DEF VisitStay
<1>5. CASE DeskSteps
  BY <1>5, DeskStepsKept
<1>6. CASE EditorSteps
  BY <1>6, EditorStepsKept
<1>7. CASE Arrivals
  BY <1>7, AnswerKept, ReceiveKept, DeskArrivalsKept, ExportEndKept, CreatedKept, CreationEndKept, FetchKept,
     RespondKept, DeletedKept DEF Arrivals
<1>8. CASE UNCHANGED vars
  BY <1>8 DEF vars, PagesInv, LoadsBounded
<1> QED
  BY <1>1, <1>2, <1>3, <1>4, <1>5, <1>6, <1>7, <1>8 DEF Next

\* The lines of an invoice have as many numbers as there are lines.
LEMMA NumbersCount ==
  ASSUME NEW invoice, Numbered(invoice)
  PROVE  Cardinality(LineIds(invoice.lines)) = Len(invoice.lines)
<1> DEFINE lines == invoice.lines
           f == [i \in 1 .. Len(lines) |-> lines[i].id]
<1>1. Len(lines) \in Nat /\ DOMAIN lines = 1 .. Len(lines)
  <2>1. IsList(lines)
    BY DEF Numbered, IsList, ToSet
  <2> QED
    BY <2>1, ListElim
<1>2. \A i, j \in 1 .. Len(lines) : f[i] = f[j] => i = j
  BY <1>1 DEF Numbered
<1>3. LineIds(lines) = {f[i] : i \in 1 .. Len(lines)}
  BY <1>1 DEF LineIds
<1> DEFINE n == Len(lines)
<1>4. Cardinality({f[i] : i \in 1 .. n}) = n
  <2>1. n \in Nat /\ \A i, j \in 1 .. n : f[i] = f[j] => i = j
    BY <1>1, <1>2
  <2> HIDE DEF f, n
  <2> QED
    BY <2>1, DistinctCount
<1> QED
  BY <1>3, <1>4

\* The flags of the three pages fit together in every state that the pages, the service
\* and the connection between them can reach: one page is mounted, a desk that creates has
\* its creation in flight, a loading page something to wait for, a busy editor exactly one
\* of a call and a document (setBusyAction in BillingInvoiceEditorPage.tsx), and the lines
\* of the invoice on the screen are told apart by their numbers, whatever is added, edited
\* and deleted.
THEOREM FlagsFit == Spec => []TypeOK
<1>1. PagesInv => TypeOK
  <2> SUFFICES ASSUME PagesInv PROVE TypeOK
    OBVIOUS
  <2>1. NoPage.open = FALSE
    BY DEF NoPage
  <2>2. /\ (page = "desk") = desk.open /\ (page = "editor") = editor.open /\ (page = "stay") = stay.open
    BY <2>1 DEF PagesInv, DeskSound, EditorSound, StaySound
  <2>3. page = "desk" =>
          /\ desk.scope \in Scopes /\ context = desk.scope
          /\ desk.creating = (creation # NoCall /\ creation.live)
          /\ desk.loading => \E l \in loads : l.active /\ l.owner = "desk"
          /\ desk.loading => desk.preview = Nothing
    BY DEF PagesInv, DeskSound, Live, Awaited
  <2>4. page = "editor" =>
          /\ editor.busy # "" => (editor.busy \in {"export-pdf", "export-container-zip"}) # (request # NoCall /\ request.live)
          /\ editor.loading => fetches # {}
          /\ editor.invoice # Nothing => Numbered(editor.invoice)
    BY DEF PagesInv, EditorSound, Live, Exports
  <2>5. page = "stay" /\ stay.loading => \E l \in loads : l.active /\ l.owner = "stay"
    BY DEF PagesInv, StaySound, Awaited
  <2>6. Cardinality(loads) <= MaxLoads /\ Len(moves) <= MaxMoves /\ Len(invoices) <= MaxInvoices
    BY DEF PagesInv, LoadsBounded, InvoicesSound
  <2>7. page \in {"desk", "editor", "stay"}
    BY DEF PagesInv
  <2> QED
    BY <2>2, <2>3, <2>4, <2>5, <2>6, <2>7, NumbersCount DEF TypeOK
<1> QED
  BY InitSound, StepSound, InitSourced, StepSourced, InitPages, StepPages, <1>1, PTL DEF Spec

-----------------------------------------------------------------------------
(* The keys of a map, in order *)

\* Where the elements of a list are once another was put in.
LEMMA PutAfterAt ==
  ASSUME NEW R, NEW s \in Seq(R), NEW n \in 0 .. Len(s), NEW x \in R
  PROVE  LET more == PutAfter(s, n, x)
         IN  /\ more[n + 1] = x
             /\ \A i \in 1 .. n : more[i] = s[i]
             /\ \A i \in n + 1 .. Len(s) : more[i + 1] = s[i]
<1> DEFINE a == SubSeq(s, 1, n)  b == SubSeq(s, n + 1, Len(s))  c == Append(a, x)
<1>0. Len(s) \in Nat /\ n \in Nat
  OBVIOUS
<1>1. a \in Seq(R) /\ Len(a) = n /\ \A i \in 1 .. n : a[i] = s[i]
  OBVIOUS
<1>2. b \in Seq(R) /\ Len(b) = Len(s) - n /\ \A i \in 1 .. Len(s) - n : b[i] = s[n + i]
  OBVIOUS
<1>3. PutAfter(s, n, x) = c \o b
  BY DEF PutAfter
<1> HIDE DEF a, b
<1>4. c \in Seq(R) /\ Len(c) = n + 1 /\ c[n + 1] = x /\ \A i \in 1 .. n : c[i] = s[i]
  BY <1>0, <1>1
<1> HIDE DEF c
<1>5. (c \o b)[n + 1] = x /\ \A i \in 1 .. n : (c \o b)[i] = s[i]
  BY <1>0, <1>2, <1>4
<1>6. ASSUME NEW i \in n + 1 .. Len(s) PROVE (c \o b)[i + 1] = s[i]
  <2>1. i - n \in 1 .. Len(s) - n /\ n + (i - n) = i /\ (i + 1) - (n + 1) = i - n
    BY <1>0
  <2>2. i + 1 \in 1 .. (n + 1) + (Len(s) - n) /\ i + 1 > n + 1
    BY <1>0
  <2>3. (c \o b)[i + 1] = b[(i + 1) - (n + 1)]
    BY <1>0, <1>2, <1>4, <2>2
  <2> QED
    BY <1>2, <2>1, <2>3
<1> QED
  BY <1>3, <1>5, <1>6

\* A list without repetitions.
Distinct(s) == \A i, j \in 1 .. Len(s) : s[i] = s[j] => i = j

\* Its elements.
Elements(s) == {s[i] : i \in 1 .. Len(s)}

\* A number that is put into such a list is in it once.
LEMMA PutOnceSound ==
  ASSUME NEW R, NEW s \in Seq(R), Distinct(s), NEW x \in R
  PROVE  PutOnce(s, x) \in Seq(R) /\ Distinct(PutOnce(s, x)) /\ Elements(PutOnce(s, x)) = Elements(s) \cup {x}
<1> DEFINE D == {i \in DOMAIN s : s[i] < x}
           more == PutAfter(s, Cardinality(D), x)
<1>0. DOMAIN s = 1 .. Len(s) /\ Len(s) \in Nat
  OBVIOUS
<1>1. CASE \E i \in DOMAIN s : s[i] = x
  <2>1. PutOnce(s, x) = s
    BY <1>1 DEF PutOnce
  <2>2. Elements(s) \cup {x} = Elements(s)
    BY <1>0, <1>1 DEF Elements
  <2> QED
    BY <2>1, <2>2
<1>2. CASE ~\E i \in DOMAIN s : s[i] = x
  <2>1. PutOnce(s, x) = more
    BY <1>2 DEF PutOnce
  <2>2. D \in SUBSET (1 .. Len(s))
    BY <1>0
  <2> HIDE DEF D
  <2>3. PICK n \in 0 .. Len(s) : n = Cardinality(D)
    BY <1>0, <2>2, PositionsCount
  <2>4. n \in Nat /\ n <= Len(s)
    BY <1>0
  <2>5. more \in Seq(R) /\ Len(more) = Len(s) + 1
    BY <2>3, PutAfterSeq
  <2>6. /\ more[n + 1] = x /\ \A i \in 1 .. n : more[i] = s[i]
        /\ \A i \in n + 1 .. Len(s) : more[i + 1] = s[i]
    BY <2>3, PutAfterAt
  <2> HIDE DEF more
  <2> DEFINE at == [i \in 1 .. Len(s) + 1 |-> IF i <= n THEN i ELSE i - 1]
  <2>7. ASSUME NEW i \in 1 .. Len(s) + 1, i # n + 1
        PROVE  at[i] \in 1 .. Len(s) /\ more[i] = s[at[i]]
    <3>1. CASE i <= n
      BY <1>0, <2>4, <2>6, <3>1
    <3>2. CASE i > n + 1
      <4>1. i - 1 \in n + 1 .. Len(s) /\ (i - 1) + 1 = i /\ at[i] = i - 1
        BY <1>0, <2>4, <3>2
      <4>2. more[(i - 1) + 1] = s[i - 1]
        BY <2>6, <4>1
      <4> QED
        BY <2>4, <4>1, <4>2
    <3>3. i <= n \/ i > n + 1
      BY <2>4, <2>7
    <3> QED
      BY <3>1, <3>2, <3>3
  <2>10. \A k \in 1 .. Len(s) : s[k] # x
    BY <1>0, <1>2
  <2>8. ASSUME NEW i \in 1 .. Len(more), NEW j \in 1 .. Len(more), more[i] = more[j] PROVE i = j
    <3>0. i \in 1 .. Len(s) + 1 /\ j \in 1 .. Len(s) + 1
      BY <2>5
    <3>1. CASE i = n + 1 /\ j # n + 1
      <4>1. at[j] \in 1 .. Len(s) /\ more[j] = s[at[j]] /\ more[i] = x
        BY <2>6, <2>7, <3>0, <3>1
      <4> HIDE DEF at
      <4> QED
        BY <2>8, <2>10, <4>1
    <3>2. CASE j = n + 1 /\ i # n + 1
      <4>1. at[i] \in 1 .. Len(s) /\ more[i] = s[at[i]] /\ more[j] = x
        BY <2>6, <2>7, <3>0, <3>2
      <4> HIDE DEF at
      <4> QED
        BY <2>8, <2>10, <4>1
    <3>3. CASE i # n + 1 /\ j # n + 1
      <4>1. at[i] \in 1 .. Len(s) /\ at[j] \in 1 .. Len(s) /\ s[at[i]] = s[at[j]]
        BY <2>7, <2>8, <3>0, <3>3
      <4>2. at[i] = at[j]
        BY <4>1 DEF Distinct
      <4>3. at[i] = (IF i <= n THEN i ELSE i - 1) /\ at[j] = (IF j <= n THEN j ELSE j - 1)
        BY <3>0
      <4> HIDE DEF at
      <4>4. i \in Nat /\ j \in Nat
        BY <1>0, <3>0
      <4>5. (IF i <= n THEN i ELSE i - 1) = (IF j <= n THEN j ELSE j - 1)
        BY <4>2, <4>3
      <4>6. ASSUME i <= n, j > n PROVE FALSE
        BY <2>4, <3>3, <4>4, <4>5, <4>6
      <4>7. ASSUME j <= n, i > n PROVE FALSE
        BY <2>4, <3>3, <4>4, <4>5, <4>7
      <4> QED
        BY <2>4, <4>4, <4>5, <4>6, <4>7
    <3> QED
      BY <3>1, <3>2, <3>3
  <2>9. Elements(more) = Elements(s) \cup {x}
    <3>1. ASSUME NEW y \in Elements(more) PROVE y \in Elements(s) \cup {x}
      <4>1. PICK i \in 1 .. Len(s) + 1 : y = more[i]
        BY <2>5 DEF Elements
      <4> QED
        BY <2>6, <2>7, <4>1 DEF Elements
    <3>2. ASSUME NEW y \in Elements(s) PROVE y \in Elements(more)
      <4>1. PICK i \in 1 .. Len(s) : y = s[i]
        BY DEF Elements
      <4>2. CASE i <= n
        <5>1. i \in 1 .. Len(more) /\ more[i] = s[i]
          BY <1>0, <2>4, <2>5, <2>6, <4>2
        <5> QED
          BY <4>1, <5>1 DEF Elements
      <4>3. CASE i > n
        <5>1. i + 1 \in 1 .. Len(more) /\ more[i + 1] = s[i]
          BY <1>0, <2>4, <2>5, <2>6, <4>3
        <5> QED
          BY <4>1, <5>1 DEF Elements
      <4> QED
        BY <2>4, <4>2, <4>3
    <3>3. x \in Elements(more)
      <4>1. n + 1 \in 1 .. Len(more)
        BY <1>0, <2>4, <2>5
      <4> QED
        BY <2>6, <4>1 DEF Elements
    <3> QED
      BY <3>1, <3>2, <3>3
  <2> QED
    BY <2>1, <2>5, <2>8, <2>9 DEF Distinct
<1> QED
  BY <1>1, <1>2

\* The keys of a map are a list of them, each once.
LEMMA OrderedOnceSound ==
  ASSUME NEW R, NEW s \in Seq(R)
  PROVE  OrderedOnce(s) \in Seq(R) /\ Distinct(OrderedOnce(s)) /\ Elements(OrderedOnce(s)) = Elements(s)
<1> DEFINE n == Len(s)
           X == {x \in Seq(R) : Distinct(x)}
           g == [p \in (1 .. n) \X X |-> PutOnce(p[2], s[p[1]])]
           Loops(t) == t = [i \in 0 .. n |-> IF i = 0 THEN <<>> ELSE PutOnce(t[i - 1], s[i])]
<1>0. n \in Nat /\ \A i \in 1 .. n : s[i] \in R
  OBVIOUS
<1>1. <<>> \in X /\ Elements(<<>>) = {}
  BY DEF Distinct, Elements
<1>2. ASSUME NEW i \in 1 .. n, NEW x \in X
      PROVE  g[<<i, x>>] = PutOnce(x, s[i]) /\ g[<<i, x>>] \in X /\ Elements(PutOnce(x, s[i])) = Elements(x) \cup {s[i]}
  <2>1. PutOnce(x, s[i]) \in X /\ Elements(PutOnce(x, s[i])) = Elements(x) \cup {s[i]}
    BY <1>0, PutOnceSound
  <2> HIDE DEF X
  <2> QED
    BY <2>1
<1>3. OrderedOnce(s) = (CHOOSE t : Loops(t))[n]
  BY DEF OrderedOnce, Accumulate
<1> HIDE DEF X, g
<1>4. PICK u : Rounded(n, <<>>, g, u) /\ \A i \in 0 .. n : u[i] \in X
  BY <1>0, <1>1, <1>2, Rounds
<1>5. Loops(u)
  <2>1. ASSUME NEW i \in 0 .. n
        PROVE  u[i] = IF i = 0 THEN <<>> ELSE PutOnce(u[i - 1], s[i])
    <3>1. CASE i = 0
      BY <1>4, <3>1 DEF Rounded
    <3>2. CASE i # 0
      <4>1. i \in 1 .. n /\ i - 1 \in 0 .. n
        BY <1>0, <3>2
      <4>2. u[i] = g[<<i, u[i - 1]>>] /\ u[i - 1] \in X
        BY <1>4, <3>2, <4>1 DEF Rounded
      <4> QED
        BY <1>2, <3>2, <4>1, <4>2
    <3> QED
      BY <3>1, <3>2
  <2>2. u = [i \in 0 .. n |-> u[i]]
    BY <1>4 DEF Rounded
  <2> QED
    BY <2>1, <2>2
<1>6. PICK t : t = (CHOOSE v : Loops(v))
  OBVIOUS
<1>7. Loops(t)
  BY <1>5, <1>6
<1>8. t[0] = <<>> /\ \A i \in 1 .. n : t[i] = PutOnce(t[i - 1], s[i])
  <2>1. \A i \in 0 .. n : t[i] = IF i = 0 THEN <<>> ELSE PutOnce(t[i - 1], s[i])
    BY <1>7
  <2> QED
    BY <1>0, <2>1
<1> DEFINE First(i) == {s[j] : j \in 1 .. i}
           S == {i \in Nat : t[i] \in X /\ Elements(t[i]) = First(i)}
<1>9. 0 \in S
  <2>1. First(0) = {}
    OBVIOUS
  <2> QED
    BY <1>1, <1>8, <2>1
<1>10. ASSUME NEW i \in 0 .. n - 1, i \in S PROVE i + 1 \in S
  <2>1. i + 1 \in 1 .. n /\ (i + 1) - 1 = i /\ i \in Nat
    BY <1>0
  <2>2. First(i + 1) = First(i) \cup {s[i + 1]}
    <3>1. 1 .. i + 1 = (1 .. i) \cup {i + 1}
      BY <2>1
    <3> QED
      BY <3>1
  <2> HIDE DEF First
  <2>3. t[i] \in X /\ Elements(t[i]) = First(i)
    BY <1>10
  <2>4. t[i + 1] = PutOnce(t[i], s[i + 1])
    BY <1>8, <2>1
  <2>5. t[i + 1] \in X /\ Elements(t[i + 1]) = Elements(t[i]) \cup {s[i + 1]}
    BY <1>2, <2>1, <2>3, <2>4
  <2>6. Elements(t[i + 1]) = First(i + 1)
    BY <2>2, <2>3, <2>5
  <2> QED
    BY <2>1, <2>5, <2>6
<1>11. n \in S
  <2> HIDE DEF S
  <2> QED
    BY <1>0, <1>9, <1>10, Along
<1>12. t[n] \in X /\ Elements(t[n]) = Elements(s)
  BY <1>11 DEF Elements
<1> QED
  BY <1>3, <1>6, <1>12 DEF X

-----------------------------------------------------------------------------
(* What the service reads of a history *)

OfContainer(c) == {m \in PalletMoves : m.container = c}
OfContainerUntil(c, d) == {m \in PalletMoves : m.container = c /\ m.day <= d}
OfContainerIn(c, lo, hi) == {m \in PalletMoves : m.container = c /\ m.day \in lo .. hi}
TakenFrom(c, lo, hi) == {m \in PalletMoves : m.container = c /\ m.delta < 0 /\ m.day \in lo .. hi}

\* Parts of a list of movements, by a property that each movement has or has not.
LEMMA PartOf ==
  ASSUME NEW r \in Seq(PalletMoves), NEW A, NEW B \in SUBSET PalletMoves,
         \A i \in 1 .. Len(r) : r[i] \in A <=> r[i] \in B
  PROVE  /\ Only(r, A) = Only(r, B) /\ Only(r, B) \in Seq(PalletMoves)
         /\ \A i \in 1 .. Len(Only(r, B)) : Only(r, B)[i] \in B
<1>1. Only(r, A) = Only(r, B)
  BY OnlySame
<1>2. Only(r, B) \in Seq(PalletMoves \cap B)
  BY OnlyEmbeds
<1> QED
  BY <1>1, <1>2

\* The movements of a container.
LEMMA MovesOfIs ==
  ASSUME NEW r \in Seq(PalletMoves), NEW c
  PROVE  /\ MovesOf(r, c) = Only(r, OfContainer(c)) /\ MovesOf(r, c) \in Seq(PalletMoves)
         /\ \A i \in 1 .. Len(MovesOf(r, c)) : MovesOf(r, c)[i].container = c
<1> DEFINE A == {m \in ToSet(r) : m.container = c}
<1>1. MovesOf(r, c) = Only(r, A)
  BY DEF MovesOf
<1>2. \A i \in 1 .. Len(r) : r[i] \in A <=> r[i] \in OfContainer(c)
  BY DEF ToSet, OfContainer
<1>3. OfContainer(c) \in SUBSET PalletMoves
  BY DEF OfContainer
<1> HIDE DEF A
<1>4. /\ Only(r, A) = Only(r, OfContainer(c)) /\ Only(r, OfContainer(c)) \in Seq(PalletMoves)
      /\ \A i \in 1 .. Len(Only(r, OfContainer(c))) : Only(r, OfContainer(c))[i] \in OfContainer(c)
  BY <1>2, <1>3, PartOf
<1> QED
  BY <1>1, <1>4 DEF OfContainer

\* Those of them with a property more.
LEMMA PartOfMoves ==
  ASSUME NEW r \in Seq(PalletMoves), NEW c, NEW A, NEW B \in SUBSET OfContainer(c),
         \A i \in 1 .. Len(MovesOf(r, c)) : MovesOf(r, c)[i] \in A <=> MovesOf(r, c)[i] \in B
  PROVE  Only(MovesOf(r, c), A) = Only(r, B) /\ Only(MovesOf(r, c), A) = Only(MovesOf(r, c), B)
<1>1. MovesOf(r, c) = Only(r, OfContainer(c)) /\ MovesOf(r, c) \in Seq(PalletMoves)
  BY MovesOfIs
<1>2. Only(MovesOf(r, c), A) = Only(MovesOf(r, c), B)
  BY <1>1, OnlySame
<1>3. Only(Only(r, OfContainer(c)), B) = Only(r, OfContainer(c) \cap B)
  BY OnlyTwice
<1>4. OfContainer(c) \cap B = B
  OBVIOUS
<1> QED
  BY <1>1, <1>2, <1>3, <1>4

\* The movements of a container up to a day, in a period, and those of them that take away.
LEMMA PartsOfHistory ==
  ASSUME NEW r \in Seq(PalletMoves), NEW c, NEW lo, NEW hi
  PROVE  /\ MovesUntil(r, c, hi) = Only(r, OfContainerUntil(c, hi))
         /\ MovesUntil(r, c, hi) = Only(MovesOf(r, c), OfContainerUntil(c, hi))
         /\ MovesBetween(r, c, lo, hi) = Only(r, OfContainerIn(c, lo, hi))
         /\ MovesBetween(r, c, lo, hi) = Only(MovesOf(r, c), OfContainerIn(c, lo, hi))
         /\ TakenIn(r, c, lo, hi) = Only(r, TakenFrom(c, lo, hi))
         /\ TakenIn(r, c, lo, hi) = Only(MovesOf(r, c), TakenFrom(c, lo, hi))
<1> DEFINE h == MovesOf(r, c)
<1>1. h \in Seq(PalletMoves) /\ \A i \in 1 .. Len(h) : h[i].container = c
  BY MovesOfIs
<1>2. \A i \in 1 .. Len(h) : h[i] \in PalletMoves /\ h[i].container = c /\ h[i] \in ToSet(h)
  <2> HIDE DEF h
  <2> QED
    BY <1>1 DEF ToSet
<1>3. \A i \in 1 .. Len(h) : h[i] \in ToSet(r)
  <2>1. h = Only(r, OfContainer(c))
    BY MovesOfIs
  <2> HIDE DEF h
  <2>2. r \in Seq(ToSet(r))
    BY DEF ToSet
  <2>3. Only(r, OfContainer(c)) \in Seq(ToSet(r) \cap OfContainer(c))
    BY <2>2, OnlyEmbeds
  <2> QED
    BY <2>1, <2>3
<1>4. ASSUME NEW A, NEW B \in SUBSET OfContainer(c), \A i \in 1 .. Len(h) : h[i] \in A <=> h[i] \in B
      PROVE  Only(h, A) = Only(r, B) /\ Only(h, A) = Only(h, B)
  BY <1>4, PartOfMoves
<1> HIDE DEF h
<1>5. Only(h, {m \in ToSet(r) : m.day <= hi}) = Only(r, OfContainerUntil(c, hi))
      /\ Only(h, {m \in ToSet(r) : m.day <= hi}) = Only(h, OfContainerUntil(c, hi))
  <2>1. OfContainerUntil(c, hi) \in SUBSET OfContainer(c)
    BY DEF OfContainerUntil, OfContainer
  <2>2. \A i \in 1 .. Len(h) : h[i] \in {m \in ToSet(r) : m.day <= hi} <=> h[i] \in OfContainerUntil(c, hi)
    BY <1>2, <1>3 DEF OfContainerUntil
  <2> QED
    BY <1>4, <2>1, <2>2
<1>6. Only(h, {m \in ToSet(r) : m.day \in lo .. hi}) = Only(r, OfContainerIn(c, lo, hi))
      /\ Only(h, {m \in ToSet(r) : m.day \in lo .. hi}) = Only(h, OfContainerIn(c, lo, hi))
  <2>1. OfContainerIn(c, lo, hi) \in SUBSET OfContainer(c)
    BY DEF OfContainerIn, OfContainer
  <2>2. \A i \in 1 .. Len(h) : h[i] \in {m \in ToSet(r) : m.day \in lo .. hi} <=> h[i] \in OfContainerIn(c, lo, hi)
    BY <1>2, <1>3 DEF OfContainerIn
  <2> QED
    BY <1>4, <2>1, <2>2
<1>7. Only(h, {m \in ToSet(h) : m.delta < 0 /\ m.day \in lo .. hi}) = Only(r, TakenFrom(c, lo, hi))
      /\ Only(h, {m \in ToSet(h) : m.delta < 0 /\ m.day \in lo .. hi}) = Only(h, TakenFrom(c, lo, hi))
  <2>1. TakenFrom(c, lo, hi) \in SUBSET OfContainer(c)
    BY DEF TakenFrom, OfContainer
  <2>2. \A i \in 1 .. Len(h) :
          h[i] \in {m \in ToSet(h) : m.delta < 0 /\ m.day \in lo .. hi} <=> h[i] \in TakenFrom(c, lo, hi)
    BY <1>2 DEF TakenFrom
  <2> QED
    BY <1>4, <2>1, <2>2
<1> QED
  BY <1>5, <1>6, <1>7 DEF MovesUntil, MovesBetween, TakenIn, h

\* What happens later, or to other containers, does not change what a period was.
LEMMA PutLater ==
  ASSUME NEW r \in Seq(PalletMoves), NEW n \in 0 .. Len(r), NEW m \in PalletMoves,
         NEW c, NEW lo \in Int, NEW hi \in Int, lo <= hi, m.container = c => m.day > hi
  PROVE  LET more == PutAfter(r, n, m)
         IN  /\ BalanceAt(more, c, lo - 1) = BalanceAt(r, c, lo - 1)
             /\ BalanceAt(more, c, hi) = BalanceAt(r, c, hi)
             /\ ReleasesIn(more, c, lo, hi) = ReleasesIn(r, c, lo, hi)
<1> DEFINE more == PutAfter(r, n, m)
<1>1. more \in Seq(PalletMoves)
  BY PutAfterSeq
<1>2. \A A : m \notin A => Only(more, A) = Only(r, A)
  BY OnlyPut
<1> HIDE DEF more
<1>3. m.day \in Int
  BY DEF PalletMoves
<1>4. m \notin OfContainerUntil(c, lo - 1) /\ m \notin OfContainerUntil(c, hi) /\ m \notin TakenFrom(c, lo, hi)
  BY <1>3 DEF OfContainerUntil, TakenFrom
<1>5. MovesUntil(more, c, lo - 1) = MovesUntil(r, c, lo - 1)
  BY <1>1, <1>2, <1>4, PartsOfHistory
<1>6. MovesUntil(more, c, hi) = MovesUntil(r, c, hi)
  BY <1>1, <1>2, <1>4, PartsOfHistory
<1>7. TakenIn(more, c, lo, hi) = TakenIn(r, c, lo, hi)
  BY <1>1, <1>2, <1>4, PartsOfHistory
<1> QED
  BY <1>5, <1>6, <1>7 DEF BalanceAt, ReleasesIn, more

\* The sources of a preview hold all that it says of its containers' stays.
LEMMA SourcesTell ==
  ASSUME NEW r \in Seq(PalletMoves), NEW scope, scope.start \in Nat, scope.end \in Nat, scope.start <= scope.end,
         NEW c, CustomerOf[c] = scope.customer
  PROVE  LET read == SourcesOf(r, scope)
         IN  /\ BalanceAt(read, c, scope.start - 1) = BalanceAt(r, c, scope.start - 1)
             /\ BalanceAt(read, c, scope.end) = BalanceAt(r, c, scope.end)
             /\ ReleasesIn(read, c, scope.start, scope.end) = ReleasesIn(r, c, scope.start, scope.end)
<1> DEFINE A == {m \in ToSet(r) : CustomerOf[m.container] = scope.customer /\ m.day <= scope.end}
           read == SourcesOf(r, scope)
           lo == scope.start
           hi == scope.end
<1>1. read = Only(r, A)
  BY DEF SourcesOf
<1>2. ASSUME NEW B \in SUBSET PalletMoves, \A m \in B : CustomerOf[m.container] = scope.customer /\ m.day <= hi
      PROVE  Only(read, B) = Only(r, B)
  <2>1. \A i \in 1 .. Len(r) : r[i] \in A \cap B <=> r[i] \in B
    <3> SUFFICES ASSUME NEW i \in 1 .. Len(r), r[i] \in B PROVE r[i] \in A
      OBVIOUS
    <3>1. r[i] \in ToSet(r)
      BY DEF ToSet
    <3> QED
      BY <1>2, <3>1
  <2> HIDE DEF A
  <2>2. Only(Only(r, A), B) = Only(r, A \cap B)
    BY OnlyTwice
  <2>3. Only(r, A \cap B) = Only(r, B)
    BY <2>1, OnlySame
  <2> QED
    BY <1>1, <2>2, <2>3
<1>3. read \in Seq(PalletMoves)
  <2> HIDE DEF A
  <2>1. Only(r, A) \in Seq(PalletMoves \cap A)
    BY OnlyEmbeds
  <2> QED
    BY <1>1, <2>1
<1> HIDE DEF read
<1>4. ASSUME NEW d \in Int, d <= hi
      PROVE  MovesUntil(read, c, d) = MovesUntil(r, c, d)
  <2>1. \A m \in OfContainerUntil(c, d) :
          m \in PalletMoves /\ CustomerOf[m.container] = scope.customer /\ m.day <= hi
    <3> SUFFICES ASSUME NEW m \in OfContainerUntil(c, d)
                 PROVE  m \in PalletMoves /\ CustomerOf[m.container] = scope.customer /\ m.day <= hi
      OBVIOUS
    <3>1. m \in PalletMoves /\ m.container = c /\ m.day <= d
      BY DEF OfContainerUntil
    <3>2. m.day \in Int
      BY <3>1 DEF PalletMoves
    <3> QED
      BY <1>4, <3>1, <3>2
  <2>2. Only(read, OfContainerUntil(c, d)) = Only(r, OfContainerUntil(c, d))
    BY <1>2, <2>1
  <2> QED
    BY <1>3, <2>2, PartsOfHistory
<1>5. TakenIn(read, c, lo, hi) = TakenIn(r, c, lo, hi)
  <2>1. \A m \in TakenFrom(c, lo, hi) :
          m \in PalletMoves /\ CustomerOf[m.container] = scope.customer /\ m.day <= hi
    BY DEF TakenFrom
  <2>2. Only(read, TakenFrom(c, lo, hi)) = Only(r, TakenFrom(c, lo, hi))
    BY <1>2, <2>1
  <2> QED
    BY <1>3, <2>2, PartsOfHistory
<1>6. MovesUntil(read, c, lo - 1) = MovesUntil(r, c, lo - 1)
  BY <1>4
<1>7. MovesUntil(read, c, hi) = MovesUntil(r, c, hi)
  BY <1>4
<1> QED
  BY <1>5, <1>6, <1>7 DEF BalanceAt, ReleasesIn, read

-----------------------------------------------------------------------------
(* What movements add up to *)

Deltas == [m \in PalletMoves |-> m.delta]
Receipts == [m \in PalletMoves |-> Larger(m.delta, 0)]
Releases == [m \in PalletMoves |-> Larger(-m.delta, 0)]
Removals == [m \in PalletMoves |-> -m.delta]

\* What a movement changes is a number.
LEMMA QuantityTypes ==
  /\ Deltas \in [PalletMoves -> Int] /\ Receipts \in [PalletMoves -> Int]
  /\ Releases \in [PalletMoves -> Int] /\ Removals \in [PalletMoves -> Int]
<1>1. \A m \in PalletMoves : m.delta \in Int /\ -m.delta \in Int
  BY DEF PalletMoves
<1> QED
  BY <1>1 DEF Deltas, Receipts, Releases, Removals, Larger

\* So the changes of a list of movements are a list of numbers.
LEMMA QuantitiesSeq ==
  ASSUME NEW v \in [PalletMoves -> Int], NEW k \in Seq(PalletMoves)
  PROVE  /\ ValuesAt(v, k) \in Seq(Int) /\ Len(ValuesAt(v, k)) = Len(k)
         /\ Summed(ValuesAt(v, k)) \in Int /\ \A j \in 1 .. Len(k) : ValuesAt(v, k)[j] = v[k[j]]
<1>1. Len(k) \in Nat /\ \A j \in 1 .. Len(k) : k[j] \in PalletMoves
  OBVIOUS
<1>2. ValuesAt(v, k) \in [1 .. Len(k) -> Int]
  BY <1>1 DEF ValuesAt
<1>3. ValuesAt(v, k) \in Seq(Int) /\ Len(ValuesAt(v, k)) = Len(k)
  BY <1>1, <1>2
<1> QED
  BY <1>1, <1>3, SummedInt DEF ValuesAt

\* The totals over movements that the service and the statements speak of.
LEMMA TotalsAre ==
  ASSUME NEW k \in Seq(PalletMoves)
  PROVE  /\ TotalOf(LAMBDA m : m.delta, k) = Summed(ValuesAt(Deltas, k))
         /\ Gained(k) = Summed(ValuesAt(Receipts, k))
         /\ Lost(k) = Summed(ValuesAt(Releases, k))
         /\ TotalOf(LAMBDA m : -m.delta, k) = Summed(ValuesAt(Removals, k))
<1> DEFINE f1 == [j \in DOMAIN k |-> k[j].delta]
           f2 == [j \in DOMAIN k |-> Larger(k[j].delta, 0)]
           f3 == [j \in DOMAIN k |-> Larger(-k[j].delta, 0)]
           f4 == [j \in DOMAIN k |-> -k[j].delta]
<1>0. DOMAIN k = 1 .. Len(k) /\ Len(k) \in Nat /\ \A j \in 1 .. Len(k) : k[j] \in PalletMoves
  OBVIOUS
<1>1. f1 = ValuesAt(Deltas, k) /\ f2 = ValuesAt(Receipts, k) /\ f3 = ValuesAt(Releases, k) /\ f4 = ValuesAt(Removals, k)
  BY <1>0 DEF ValuesAt, Deltas, Receipts, Releases, Removals
<1>2. /\ TotalOf(LAMBDA m : m.delta, k) = Summed(<<>> \o f1)
      /\ Gained(k) = Summed(<<>> \o f2)
      /\ Lost(k) = Summed(<<>> \o f3)
      /\ TotalOf(LAMBDA m : -m.delta, k) = Summed(<<>> \o f4)
  BY DEF Gained, Lost, TotalOf, Each
<1> HIDE DEF f1, f2, f3, f4
<1>3. ASSUME NEW f \in Seq(Int) PROVE <<>> \o f = f
  OBVIOUS
<1>4. f1 \in Seq(Int) /\ f2 \in Seq(Int) /\ f3 \in Seq(Int) /\ f4 \in Seq(Int)
  BY <1>1, QuantityTypes, QuantitiesSeq
<1> QED
  BY <1>1, <1>2, <1>3, <1>4

\* What came less what went is what is left.
LEMMA GainedLessLost ==
  ASSUME NEW k \in Seq(PalletMoves)
  PROVE  /\ TotalOf(LAMBDA m : m.delta, k) = Gained(k) - Lost(k)
         /\ Gained(k) \in Int /\ Lost(k) \in Int
<1> DEFINE d == ValuesAt(Deltas, k)  g == ValuesAt(Receipts, k)  l == ValuesAt(Releases, k)
<1>1. /\ d \in Seq(Int) /\ Len(d) = Len(k) /\ \A j \in 1 .. Len(k) : d[j] = Deltas[k[j]]
      /\ g \in Seq(Int) /\ Len(g) = Len(k) /\ \A j \in 1 .. Len(k) : g[j] = Receipts[k[j]]
      /\ l \in Seq(Int) /\ Len(l) = Len(k) /\ \A j \in 1 .. Len(k) : l[j] = Releases[k[j]]
      /\ Summed(d) \in Int /\ Summed(g) \in Int /\ Summed(l) \in Int
  BY QuantityTypes, QuantitiesSeq
<1> HIDE DEF d, g, l
<1>2. ASSUME NEW j \in 1 .. Len(g) PROVE g[j] = d[j] + l[j]
  <2>1. k[j] \in PalletMoves
    BY <1>1
  <2>2. k[j].delta \in Int
    BY <2>1 DEF PalletMoves
  <2>3. /\ g[j] = Larger(k[j].delta, 0) /\ d[j] = k[j].delta /\ l[j] = Larger(-k[j].delta, 0)
    BY <1>1, <2>1 DEF Deltas, Receipts, Releases
  <2> QED
    BY <2>2, <2>3 DEF Larger
<1>3. Summed(g) = Summed(d) + Summed(l)
  BY <1>1, <1>2, SummedPairs
<1>4. TotalOf(LAMBDA m : m.delta, k) = Summed(d) /\ Gained(k) = Summed(g) /\ Lost(k) = Summed(l)
  BY TotalsAre DEF d, g, l
<1> QED
  BY <1>1, <1>3, <1>4

\* The sum over a part of a list is that over the list, masked.
LEMMA PartSum ==
  ASSUME NEW v \in [PalletMoves -> Int], NEW h \in Seq(PalletMoves), NEW A
  PROVE  /\ Only(h, A) \in Seq(PalletMoves)
         /\ Masked(v, h, A) \in Seq(Int) /\ Len(Masked(v, h, A)) = Len(h)
         /\ Summed(ValuesAt(v, Only(h, A))) = Summed(Masked(v, h, A))
<1>1. Only(h, A) \in Seq(PalletMoves)
  <2>1. Only(h, A) \in Seq(PalletMoves \cap A)
    BY OnlyEmbeds
  <2> QED
    BY <2>1
<1>2. Len(Masked(v, h, A)) = Len(h)
  BY DEF Masked
<1>3. Masked(v, h, A) \in Seq(Int) /\ Summed(ValuesAt(v, Only(h, A))) = Summed(Masked(v, h, A))
  BY SummedOnly
<1> QED
  BY <1>1, <1>2, <1>3

\* The opening balance is what came before the period less what went.
LEMMA OpeningAddsUp ==
  ASSUME NEW r \in Seq(PalletMoves), NEW c, NEW lo \in Nat
  PROVE  LET before == MovesBetween(r, c, 1, lo - 1)
         IN  BalanceAt(r, c, lo - 1) = Gained(before) - Lost(before)
<1> DEFINE before == MovesBetween(r, c, 1, lo - 1)
           A == OfContainerIn(c, 1, lo - 1)
<1>1. A = OfContainerUntil(c, lo - 1)
  <2>1. \A m \in PalletMoves : m.day \in Nat /\ m.day # 0
    BY DEF PalletMoves, NoDate
  <2> QED
    BY <2>1 DEF OfContainerIn, OfContainerUntil
<1> HIDE DEF A
<1>2. before = Only(r, A) /\ MovesUntil(r, c, lo - 1) = Only(r, OfContainerUntil(c, lo - 1))
  BY PartsOfHistory DEF A
<1>3. before \in Seq(PalletMoves) /\ before = MovesUntil(r, c, lo - 1)
  <2>1. MovesUntil(r, c, lo - 1) \in Seq(PalletMoves)
    BY MovesOfSeq
  <2> QED
    BY <1>1, <1>2, <2>1
<1> HIDE DEF before
<1>4. BalanceAt(r, c, lo - 1) = TotalOf(LAMBDA m : m.delta, before)
  BY <1>3 DEF BalanceAt
<1> QED
  BY <1>3, <1>4, GainedLessLost DEF before

\* The closing balance is the opening balance and what came in the period less what went.
LEMMA PeriodAddsUp ==
  ASSUME NEW r \in Seq(PalletMoves), NEW c, NEW lo \in Int, NEW hi \in Int, lo <= hi
  PROVE  LET during == MovesBetween(r, c, lo, hi)
         IN  BalanceAt(r, c, hi) = BalanceAt(r, c, lo - 1) + (Gained(during) - Lost(during))
<1> DEFINE h == MovesOf(r, c)
           A == OfContainerUntil(c, hi)
           B == OfContainerUntil(c, lo - 1)
           C == OfContainerIn(c, lo, hi)
           during == MovesBetween(r, c, lo, hi)
<1>1. h \in Seq(PalletMoves)
  BY MovesOfIs
<1>2. MovesUntil(r, c, hi) = Only(h, A) /\ MovesUntil(r, c, lo - 1) = Only(h, B) /\ during = Only(h, C)
  BY PartsOfHistory
<1> HIDE DEF h, during
<1>3. /\ Only(h, A) \in Seq(PalletMoves) /\ Masked(Deltas, h, A) \in Seq(Int) /\ Len(Masked(Deltas, h, A)) = Len(h)
      /\ Summed(ValuesAt(Deltas, Only(h, A))) = Summed(Masked(Deltas, h, A))
  BY <1>1, QuantityTypes, PartSum
<1>4. /\ Only(h, B) \in Seq(PalletMoves) /\ Masked(Deltas, h, B) \in Seq(Int) /\ Len(Masked(Deltas, h, B)) = Len(h)
      /\ Summed(ValuesAt(Deltas, Only(h, B))) = Summed(Masked(Deltas, h, B))
  BY <1>1, QuantityTypes, PartSum
<1>5. /\ Only(h, C) \in Seq(PalletMoves) /\ Masked(Deltas, h, C) \in Seq(Int) /\ Len(Masked(Deltas, h, C)) = Len(h)
      /\ Summed(ValuesAt(Deltas, Only(h, C))) = Summed(Masked(Deltas, h, C))
  BY <1>1, QuantityTypes, PartSum
<1>6. ASSUME NEW i \in 1 .. Len(h)
      PROVE  Masked(Deltas, h, A)[i] = Masked(Deltas, h, B)[i] + Masked(Deltas, h, C)[i]
  <2>1. h[i] \in PalletMoves
    BY <1>1
  <2>2. h[i].day \in Int /\ Deltas[h[i]] \in Int
    <3>1. h[i].day \in Int
      BY <2>1 DEF PalletMoves
    <3>2. Deltas[h[i]] \in Int
      BY <2>1, QuantityTypes
    <3> QED
      BY <3>1, <3>2
  <2>3. (h[i] \in A <=> h[i] \in B \/ h[i] \in C) /\ ~(h[i] \in B /\ h[i] \in C)
    BY <2>1, <2>2 DEF OfContainerUntil, OfContainerIn
  <2> HIDE DEF A, B, C
  <2>4. /\ Masked(Deltas, h, A)[i] = IF h[i] \in A THEN Deltas[h[i]] ELSE 0
        /\ Masked(Deltas, h, B)[i] = IF h[i] \in B THEN Deltas[h[i]] ELSE 0
        /\ Masked(Deltas, h, C)[i] = IF h[i] \in C THEN Deltas[h[i]] ELSE 0
    BY DEF Masked
  <2> QED
    BY <2>2, <2>3, <2>4
<1> HIDE DEF A, B, C
<1>7. Summed(Masked(Deltas, h, A)) = Summed(Masked(Deltas, h, B)) + Summed(Masked(Deltas, h, C))
  <2> DEFINE a == Masked(Deltas, h, A)  b == Masked(Deltas, h, B)  e == Masked(Deltas, h, C)
  <2>1. a \in Seq(Int) /\ b \in Seq(Int) /\ e \in Seq(Int) /\ Len(b) = Len(a) /\ Len(e) = Len(a)
        /\ \A i \in 1 .. Len(a) : a[i] = b[i] + e[i]
    BY <1>3, <1>4, <1>5, <1>6
  <2> HIDE DEF a, b, e
  <2>2. Summed(a) = Summed(b) + Summed(e)
    BY <2>1, SummedPairs
  <2> QED
    BY <2>2 DEF a, b, e
<1>8. BalanceAt(r, c, hi) = Summed(Masked(Deltas, h, A)) /\ BalanceAt(r, c, lo - 1) = Summed(Masked(Deltas, h, B))
  BY <1>2, <1>3, <1>4, TotalsAre DEF BalanceAt
<1>9. Gained(during) - Lost(during) = Summed(Masked(Deltas, h, C))
  BY <1>2, <1>5, TotalsAre, GainedLessLost
<1> QED
  BY <1>7, <1>8, <1>9 DEF during

\* The movements of a day.
OnDay(d) == {m \in PalletMoves : m.day = d}

\* What is taken away on a day.
LEMMA TakenOnIs ==
  ASSUME NEW k \in Seq(PalletMoves), NEW d
  PROVE  TakenOn(k, d) = Summed(Masked(Removals, k, OnDay(d)))
<1> DEFINE A == {m \in ToSet(k) : m.day = d}
<1>1. TakenOn(k, d) = TotalOf(LAMBDA m : -m.delta, Only(k, A))
  BY DEF TakenOn
<1>2. OnDay(d) \in SUBSET PalletMoves /\ \A i \in 1 .. Len(k) : k[i] \in A <=> k[i] \in OnDay(d)
  BY DEF OnDay, ToSet
<1> HIDE DEF A
<1>3. Only(k, A) = Only(k, OnDay(d)) /\ Only(k, OnDay(d)) \in Seq(PalletMoves)
  BY <1>2, PartOf
<1>4. TotalOf(LAMBDA m : -m.delta, Only(k, A)) = Summed(ValuesAt(Removals, Only(k, OnDay(d))))
  BY <1>3, TotalsAre
<1>5. Summed(ValuesAt(Removals, Only(k, OnDay(d)))) = Summed(Masked(Removals, k, OnDay(d)))
  BY QuantityTypes, PartSum
<1> QED
  BY <1>1, <1>4, <1>5

\* The releases, day by day, add up to what is taken away.
LEMMA ReleasesTotal ==
  ASSUME NEW k \in Seq(PalletMoves)
  PROVE  TotalOf(LAMBDA e : e.pallets, ReleasesOf(k)) = Summed(ValuesAt(Removals, k))
<1> DEFINE f == [j \in DOMAIN k |-> k[j].day]
           days == OrderedOnce(f)
           n == Len(days)
           x == ValuesAt(Removals, k)
<1>0. DOMAIN k = 1 .. Len(k) /\ Len(k) \in Nat /\ \A j \in 1 .. Len(k) : k[j] \in PalletMoves
  OBVIOUS
<1>1. f \in Seq(Int) /\ <<>> \o f = f /\ Len(f) = Len(k) /\ \A j \in 1 .. Len(k) : f[j] = k[j].day
  <2>1. f = [j \in 1 .. Len(k) |-> f[j]] /\ \A j \in 1 .. Len(k) : f[j] = k[j].day
    BY <1>0
  <2>2. \A j \in 1 .. Len(k) : f[j] \in Int
    <3> HIDE DEF f
    <3> QED
      BY <1>0, <2>1 DEF PalletMoves
  <2> HIDE DEF f
  <2> QED
    BY <1>0, <2>1, <2>2, EachSeq
<1>2. Each(LAMBDA m : m.day, k) = f
  BY <1>1 DEF Each
<1> HIDE DEF f
<1>3. days \in Seq(Int) /\ Distinct(days) /\ Elements(days) = Elements(f)
  BY <1>1, OrderedOnceSound
<1>4. ReleasesOf(k) = <<>> \o [i \in DOMAIN days |-> [day |-> days[i], pallets |-> TakenOn(k, days[i])]]
  BY <1>2 DEF ReleasesOf, Each
<1> HIDE DEF days
<1>5. n \in Nat /\ DOMAIN days = 1 .. n
  BY <1>3
<1> DEFINE rel == [i \in 1 .. n |-> [day |-> days[i], pallets |-> TakenOn(k, days[i])]]
           tot == [i \in 1 .. n |-> TakenOn(k, days[i])]
<1>6. PICK own \in [1 .. Len(k) -> 1 .. n] : \A j \in 1 .. Len(k) : days[own[j]] = k[j].day
  <2>1. ASSUME NEW j \in 1 .. Len(k) PROVE \E i \in 1 .. n : days[i] = k[j].day
    <3>1. f[j] \in Elements(f)
      BY <1>1 DEF Elements
    <3> QED
      BY <1>1, <1>3, <3>1 DEF Elements
  <2> DEFINE o == [j \in 1 .. Len(k) |-> CHOOSE i \in 1 .. n : days[i] = k[j].day]
  <2>2. \A j \in 1 .. Len(k) : o[j] \in 1 .. n /\ days[o[j]] = k[j].day
    BY <2>1
  <2>3. o \in [1 .. Len(k) -> 1 .. n]
    BY <2>2
  <2> HIDE DEF o
  <2> QED
    BY <2>2, <2>3
<1>7. x \in Seq(Int) /\ Len(x) = Len(k) /\ \A j \in 1 .. Len(k) : x[j] = Removals[k[j]]
  BY QuantityTypes, QuantitiesSeq
<1> HIDE DEF x
<1> DEFINE Part(i) == [j \in 1 .. Len(x) |-> IF own[j] = i THEN x[j] ELSE 0]
<1>8. Summed(x) = Summed([i \in 1 .. n |-> Summed(Part(i))])
  <2>1. own \in [1 .. Len(x) -> 1 .. n]
    BY <1>6, <1>7
  <2> HIDE DEF days
  <2> QED
    BY ONLY <1>5, <1>7, <2>1, SummedByOwner
<1>9. ASSUME NEW i \in 1 .. n PROVE TakenOn(k, days[i]) = Summed(Part(i))
  <2>1. ASSUME NEW j \in 1 .. Len(k)
        PROVE  Part(i)[j] = IF k[j] \in OnDay(days[i]) THEN Removals[k[j]] ELSE 0
    <3>1. k[j] \in OnDay(days[i]) <=> days[own[j]] = days[i]
      BY <1>0, <1>6 DEF OnDay
    <3>2. own[j] \in 1 .. n
      BY <1>6
    <3>3. k[j] \in OnDay(days[i]) <=> own[j] = i
      BY <1>3, <3>1, <3>2 DEF Distinct
    <3> QED
      BY <1>7, <3>3
  <2>2. Part(i) = [j \in 1 .. Len(k) |-> Part(i)[j]]
    BY <1>7
  <2> HIDE DEF Part
  <2>3. Part(i) = Masked(Removals, k, OnDay(days[i]))
    BY <2>1, <2>2 DEF Masked
  <2> QED
    BY <2>3, TakenOnIs
<1>10. tot = [i \in 1 .. n |-> Summed(Part(i))]
  BY <1>9
<1>11. tot \in Seq(Int) /\ <<>> \o tot = tot
  <2>1. ASSUME NEW i \in 1 .. n PROVE Part(i) \in Seq(Int)
    <3>1. Len(x) \in Nat /\ \A j \in 1 .. Len(x) : x[j] \in Int
      BY <1>7
    <3>2. Part(i) \in [1 .. Len(x) -> Int]
      BY <3>1
    <3> QED
      BY <3>1, <3>2
  <2> HIDE DEF Part
  <2>2. \A i \in 1 .. n : Summed(Part(i)) \in Int
    BY <2>1, SummedInt
  <2>3. tot = [i \in 1 .. n |-> tot[i]] /\ \A i \in 1 .. n : tot[i] \in Int
    BY <1>9, <2>2
  <2> HIDE DEF tot
  <2> QED
    BY <1>5, <2>3, EachSeq
<1>12. rel = [i \in 1 .. n |-> rel[i]] /\ \A i \in 1 .. n : rel[i].pallets = tot[i]
  OBVIOUS
<1>13. ReleasesOf(k) = <<>> \o rel
  BY <1>4, <1>5
<1> HIDE DEF rel, Part
<1>14. tot = [i \in 1 .. n |-> tot[i]]
  OBVIOUS
<1> HIDE DEF tot
<1>15. <<>> \o rel = rel /\ Len(rel) = n /\ rel \in Seq({rel[i] : i \in 1 .. n})
  <2> DEFINE R == {rel[i] : i \in 1 .. n}
  <2>1. \A i \in 1 .. n : rel[i] \in R
    OBVIOUS
  <2> HIDE DEF R
  <2>2. <<>> \o rel = rel /\ Len(rel) = n /\ rel \in Seq(R)
    BY <1>5, <1>12, <2>1, EachSeq
  <2> QED
    BY <2>2 DEF R
<1>16. TotalOf(LAMBDA e : e.pallets, rel) = Summed(<<>> \o [i \in DOMAIN rel |-> rel[i].pallets])
  BY DEF TotalOf, Each
<1>17. [i \in DOMAIN rel |-> rel[i].pallets] = tot
  <2>1. DOMAIN rel = 1 .. n
    BY <1>15
  <2> QED
    BY <1>12, <1>14, <2>1
<1> QED
  BY <1>8, <1>10, <1>11, <1>13, <1>15, <1>16, <1>17 DEF x

\* What a stay records as released is what the container lost in the period.
LEMMA ReleasesAddUp ==
  ASSUME NEW r \in Seq(PalletMoves), NEW c, NEW lo, NEW hi
  PROVE  TotalOf(LAMBDA e : e.pallets, ReleasesIn(r, c, lo, hi)) = Lost(MovesBetween(r, c, lo, hi))
<1> DEFINE h == MovesOf(r, c)
           A == TakenFrom(c, lo, hi)
           B == OfContainerIn(c, lo, hi)
<1>1. h \in Seq(PalletMoves) /\ \A i \in 1 .. Len(h) : h[i].container = c
  BY MovesOfIs
<1>2. TakenIn(r, c, lo, hi) = Only(h, A) /\ MovesBetween(r, c, lo, hi) = Only(h, B)
  BY PartsOfHistory
<1> HIDE DEF h
<1>3. /\ Only(h, A) \in Seq(PalletMoves) /\ Only(h, B) \in Seq(PalletMoves)
      /\ Summed(ValuesAt(Removals, Only(h, A))) = Summed(Masked(Removals, h, A))
      /\ Summed(ValuesAt(Releases, Only(h, B))) = Summed(Masked(Releases, h, B))
  BY <1>1, QuantityTypes, PartSum
<1>4. TotalOf(LAMBDA e : e.pallets, ReleasesIn(r, c, lo, hi)) = Summed(ValuesAt(Removals, Only(h, A)))
  BY <1>2, <1>3, ReleasesTotal DEF ReleasesIn
<1>5. Lost(MovesBetween(r, c, lo, hi)) = Summed(ValuesAt(Releases, Only(h, B)))
  BY <1>2, <1>3, TotalsAre
<1>6. ASSUME NEW i \in 1 .. Len(h)
      PROVE  (IF h[i] \in A THEN Removals[h[i]] ELSE 0) = (IF h[i] \in B THEN Releases[h[i]] ELSE 0)
  <2>1. h[i] \in PalletMoves /\ h[i].container = c
    BY <1>1
  <2>2. h[i].delta \in Int
    BY <2>1 DEF PalletMoves
  <2>3. h[i] \in A <=> h[i] \in B /\ h[i].delta < 0
    BY <2>1 DEF TakenFrom, OfContainerIn
  <2>4. Removals[h[i]] = -h[i].delta /\ Releases[h[i]] = Larger(-h[i].delta, 0)
    BY <2>1 DEF Removals, Releases
  <2> HIDE DEF A, B
  <2> QED
    BY <2>2, <2>3, <2>4 DEF Larger
<1> HIDE DEF A, B
<1>7. Masked(Removals, h, A) = Masked(Releases, h, B)
  BY <1>6 DEF Masked
<1> QED
  BY <1>3, <1>4, <1>5, <1>7

-----------------------------------------------------------------------------
(* What a statement says *)

\* A row put in its place leaves a list of rows.
LEMMA RowInPlaceSeq ==
  ASSUME NEW R, NEW sorted \in Seq(R), NEW l \in R
  PROVE  RowInPlace(sorted, l) \in Seq(R)
<1> DEFINE D == {i \in DOMAIN sorted : sorted[i].container <= l.container}
<1>1. DOMAIN sorted = 1 .. Len(sorted) /\ Len(sorted) \in Nat
  OBVIOUS
<1>2. RowInPlace(sorted, l) = PutAfter(sorted, Cardinality(D), l)
  BY DEF RowInPlace
<1>3. D \in SUBSET (1 .. Len(sorted))
  BY <1>1
<1> HIDE DEF D
<1>4. Cardinality(D) \in 0 .. Len(sorted)
  BY <1>1, <1>3, PositionsCount
<1> QED
  BY <1>2, <1>4, PutAfterSeq

\* Rows put in order one by one are a list of the same rows.
LEMMA RowsInPlaceSeq ==
  ASSUME NEW R, NEW rows \in Seq(R)
  PROVE  RowsInPlace(rows) \in Seq(R)
<1> DEFINE n == Len(rows)
           X == Seq(R)
           g == [p \in (1 .. n) \X X |-> RowInPlace(p[2], rows[p[1]])]
           Loops(t) == t = [i \in 0 .. n |-> IF i = 0 THEN <<>> ELSE RowInPlace(t[i - 1], rows[i])]
<1>0. n \in Nat /\ \A i \in 1 .. n : rows[i] \in R
  OBVIOUS
<1>1. <<>> \in X
  OBVIOUS
<1>2. ASSUME NEW i \in 1 .. n, NEW x \in X PROVE g[<<i, x>>] = RowInPlace(x, rows[i]) /\ g[<<i, x>>] \in X
  <2>1. RowInPlace(x, rows[i]) \in X
    BY <1>0, RowInPlaceSeq
  <2> HIDE DEF X
  <2> QED
    BY <2>1
<1>3. RowsInPlace(rows) = (CHOOSE t : Loops(t))[n]
  BY DEF RowsInPlace, Accumulate
<1> HIDE DEF X, g
<1>4. PICK u : Rounded(n, <<>>, g, u) /\ \A i \in 0 .. n : u[i] \in X
  BY <1>0, <1>1, <1>2, Rounds
<1>5. Loops(u)
  <2>1. ASSUME NEW i \in 0 .. n
        PROVE  u[i] = IF i = 0 THEN <<>> ELSE RowInPlace(u[i - 1], rows[i])
    <3>1. CASE i = 0
      BY <1>4, <3>1 DEF Rounded
    <3>2. CASE i # 0
      <4>1. i \in 1 .. n /\ i - 1 \in 0 .. n
        BY <1>0, <3>2
      <4>2. u[i] = g[<<i, u[i - 1]>>] /\ u[i - 1] \in X
        BY <1>4, <3>2, <4>1 DEF Rounded
      <4> QED
        BY <1>2, <3>2, <4>1, <4>2
    <3> QED
      BY <3>1, <3>2
  <2>2. u = [i \in 0 .. n |-> u[i]]
    BY <1>4 DEF Rounded
  <2> QED
    BY <2>1, <2>2
<1>6. PICK t : t = (CHOOSE v : Loops(v))
  OBVIOUS
<1>7. Loops(t)
  BY <1>5, <1>6
<1>8. t[0] = <<>> /\ \A i \in 1 .. n : t[i] = RowInPlace(t[i - 1], rows[i])
  <2>1. \A i \in 0 .. n : t[i] = IF i = 0 THEN <<>> ELSE RowInPlace(t[i - 1], rows[i])
    BY <1>7
  <2> QED
    BY <1>0, <2>1
<1>9. ASSUME NEW i \in 1 .. n, t[i - 1] \in X PROVE t[i] \in X
  BY <1>2, <1>8, <1>9
<1>10. t[n] \in X
  BY <1>0, <1>1, <1>8, <1>9, Stays
<1> QED
  BY <1>3, <1>6, <1>10 DEF X

\* The ledger of a list of lines is a list.
LEMMA LedgerRowsList ==
  ASSUME NEW lines, IsList(lines)
  PROVE  IsList(LedgerRows(lines))
<1> DEFINE f == [j \in DOMAIN lines |-> lines[j].container]
           R == {f[i] : i \in 1 .. Len(lines)}
           keys == OrderedOnce(f)
           g == [i \in DOMAIN keys |-> LedgerRow(lines, keys[i])]
<1>1. DOMAIN lines = 1 .. Len(lines) /\ Len(lines) \in Nat
  BY ListElim
<1>2. f = [j \in 1 .. Len(lines) |-> f[j]] /\ \A j \in 1 .. Len(lines) : f[j] \in R
  BY <1>1
<1>3. Each(LAMBDA l : l.container, lines) = <<>> \o f
  BY DEF Each
<1> HIDE DEF f, R
<1>4. <<>> \o f = f /\ f \in Seq(R)
  BY <1>1, <1>2, EachSeq
<1>5. keys \in Seq(R)
  BY <1>4, OrderedOnceSound
<1>6. LedgerRows(lines) = <<>> \o g
  BY <1>3, <1>4 DEF LedgerRows, Each
<1> HIDE DEF keys
<1>7. DOMAIN keys = 1 .. Len(keys) /\ Len(keys) \in Nat
  BY <1>5
<1> DEFINE Q == {g[i] : i \in 1 .. Len(keys)}
<1>8. g = [i \in 1 .. Len(keys) |-> g[i]] /\ \A i \in 1 .. Len(keys) : g[i] \in Q
  BY <1>7
<1> HIDE DEF g, Q
<1>9. <<>> \o g \in Seq(Q)
  BY <1>7, <1>8, EachSeq
<1> QED
  BY <1>6, <1>9, ListIntro

\* So are the rows of an invoice, whether of its lines or of its snapshot.
LEMMA DetailsList ==
  ASSUME NEW invoice, IsList(invoice.lines), IsList(invoice.snapshot)
  PROVE  IsList(ContainerDetails(invoice))
<1>1. IsList(LedgerRows(invoice.lines))
  BY LedgerRowsList
<1>2. IsList(RowsInPlace(invoice.snapshot))
  <2> DEFINE q == invoice.snapshot
  <2>1. q \in Seq({q[i] : i \in DOMAIN q})
    BY DEF IsList
  <2> HIDE DEF q
  <2>2. RowsInPlace(q) \in Seq({q[i] : i \in DOMAIN q})
    BY <2>1, RowsInPlaceSeq
  <2>3. IsList(RowsInPlace(q))
    BY <2>2, ListIntro
  <2> QED
    BY <2>3 DEF q
<1> QED
  BY <1>1, <1>2 DEF ContainerDetails

\* Every statement is that of a row.
LEMMA StatementsAre ==
  ASSUME NEW invoice, IsList(invoice.lines), IsList(invoice.snapshot), NEW s \in ToSet(Statements(invoice))
  PROVE  \E row : s = Statement(invoice, row)
<1> DEFINE rows == ContainerDetails(invoice)
           f == [i \in DOMAIN rows |-> Statement(invoice, rows[i])]
           A == {x \in ToSet(<<>> \o f) : HasImpact(x)}
           R == {f[i] : i \in 1 .. Len(rows)}
<1>1. IsList(rows)
  BY DetailsList
<1>2. Statements(invoice) = Only(<<>> \o f, A)
  BY DEF Statements, Each
<1> HIDE DEF rows, A
<1>3. DOMAIN rows = 1 .. Len(rows) /\ Len(rows) \in Nat
  BY <1>1, ListElim
<1>4. /\ f = [i \in 1 .. Len(rows) |-> f[i]]
      /\ \A i \in 1 .. Len(rows) : f[i] \in R /\ f[i] = Statement(invoice, rows[i])
  BY <1>3
<1>5. ASSUME NEW x \in R PROVE \E row : x = Statement(invoice, row)
  BY <1>4
<1> HIDE DEF f, R
<1>6. <<>> \o f \in Seq(R)
  BY <1>3, <1>4, EachSeq
<1>7. Statements(invoice) \in Seq(R \cap A)
  BY <1>2, <1>6, OnlyEmbeds
<1>8. s \in R
  <2> DEFINE k == Statements(invoice)
  <2>1. k \in Seq(R \cap A) /\ s \in {k[i] : i \in DOMAIN k}
    BY <1>7 DEF ToSet
  <2> HIDE DEF k
  <2> QED
    BY <2>1
<1> QED
  BY <1>5, <1>8

\* The line that a statement is taken from is one of the container's.
LEMMA SourceIsLine ==
  ASSUME NEW invoice, IsList(invoice.lines), NEW c, StorageSources(invoice, c) # <<>>
  PROVE  \E j \in DOMAIN invoice.lines :
           /\ Last(StorageSources(invoice, c)) = invoice.lines[j]
           /\ invoice.lines[j].container = c /\ invoice.lines[j].details.summary
<1> DEFINE lines == invoice.lines
           R == {lines[i] : i \in DOMAIN lines}
           A == {l \in ToSet(lines) : l.container = c /\ l.details.summary}
           k == Only(lines, A)
<1>1. StorageSources(invoice, c) = k
  BY DEF StorageSources
<1>2. lines \in Seq(R)
  BY DEF IsList
<1>3. k \in Seq(R \cap A) /\ k # <<>>
  <2> HIDE DEF lines, R, A
  <2> QED
    BY <1>1, <1>2, OnlyEmbeds
<1>4. Last(k) = k[Len(k)]
  BY DEF Last
<1>5. Last(k) \in R \cap A
  <2> HIDE DEF k, R, A
  <2>1. k[Len(k)] \in R \cap A
    BY <1>3
  <2> QED
    BY <1>4, <2>1
<1> HIDE DEF k
<1>6. PICK j \in DOMAIN lines : Last(k) = lines[j]
  BY <1>5
<1>7. lines[j].container = c /\ lines[j].details.summary
  BY <1>5, <1>6
<1> QED
  BY <1>1, <1>6, <1>7

\* What the statement of a container says of the movements is what the line records.
LEMMA StatementSays ==
  ASSUME NEW invoice, NEW row, row.container # InvoiceLevel,
         StorageSources(invoice, row.container) # <<>>,
         NEW d, d = Last(StorageSources(invoice, row.container)).details, d.summary, d.moves
  PROVE  LET s == Statement(invoice, row)
         IN  /\ s.opening = d.opening /\ s.closing = d.closing
             /\ s.released = TotalOf(LAMBDA e : e.pallets, d.releases)
             /\ s.received = d.closing + s.released - d.opening
<1> DEFINE m == [opening |-> d.opening, closing |-> d.closing, releases |-> d.releases]
           segments == SortSeq(d.segments, LAMBDA l, r : l.start < r.start)
           released == TotalOf(LAMBDA e : e.pallets, m.releases)
<1>1. Statement(invoice, row) = StatementWith(invoice, row, d)
  BY DEF Statement, StayDetailsOf
<1>2. Movements(d, invoice.start, invoice.end) = m
  BY DEF Movements
<1>3. StatementWith(invoice, row, d) = StatementOf(invoice, row, d, m, segments, released)
  BY <1>2 DEF StatementWith, StatementFrom
<1>4. released = TotalOf(LAMBDA e : e.pallets, d.releases)
  BY DEF m
<1> HIDE DEF segments, released
<1>5. LET s == StatementOf(invoice, row, d, m, segments, released)
      IN  /\ s.opening = d.opening /\ s.closing = d.closing /\ s.released = released
          /\ s.received = d.closing + released - d.opening
  BY DEF StatementOf
<1> QED
  BY <1>1, <1>3, <1>4, <1>5

\* A statement from such a line is of its row's container.
LEMMA StatementOfRow ==
  ASSUME NEW invoice, NEW row
  PROVE  Statement(invoice, row).container = row.container
BY DEF Statement, StatementWith, StatementFrom, StatementOf

\* What a statement says of the yard.
Matches(s, invoice, r) ==
  LET before == MovesBetween(r, s.container, 1, invoice.start - 1)
      during == MovesBetween(r, s.container, invoice.start, invoice.end)
  IN  /\ s.opening = Gained(before) - Lost(before)
      /\ s.received = Gained(during) /\ s.released = Lost(during)
      /\ s.closing = s.opening + s.received - s.released

\* The statements of an invoice that records a history are true of it.
LEMMA StatementTells ==
  ASSUME NEW r \in Seq(PalletMoves), NEW invoice, IsList(invoice.lines), IsList(invoice.snapshot),
         InvoiceRecorded(invoice, r), invoice.status # "VOID",
         NEW s \in ToSet(Statements(invoice)), s.container # InvoiceLevel,
         StorageSources(invoice, s.container) # <<>>,
         Last(StorageSources(invoice, s.container)).details.moves
  PROVE  Matches(s, invoice, r)
<1> DEFINE c == s.container
           d == Last(StorageSources(invoice, c)).details
           lo == invoice.start
           hi == invoice.end
           before == MovesBetween(r, c, 1, lo - 1)
           during == MovesBetween(r, c, lo, hi)
<1>0. lo \in Nat /\ hi \in Nat /\ lo <= hi
  BY DEF InvoiceRecorded
<1>1. PICK j \in DOMAIN invoice.lines :
        /\ Last(StorageSources(invoice, c)) = invoice.lines[j]
        /\ invoice.lines[j].container = c /\ invoice.lines[j].details.summary
  BY SourceIsLine
<1>2. d.summary /\ d.moves
  BY <1>1
<1>3. StayRecorded(invoice.lines[j], invoice, r)
  BY DEF InvoiceRecorded
<1>4. d.opening = BalanceAt(r, c, lo - 1) /\ d.closing = BalanceAt(r, c, hi) /\ d.releases = ReleasesIn(r, c, lo, hi)
  BY <1>1, <1>2, <1>3 DEF StayRecorded
<1>5. PICK row : s = Statement(invoice, row)
  BY StatementsAre
<1>6. row.container = c
  BY <1>5, StatementOfRow
<1> HIDE DEF c, d
<1>7. /\ s.opening = d.opening /\ s.closing = d.closing
      /\ s.released = TotalOf(LAMBDA e : e.pallets, d.releases)
      /\ s.received = d.closing + s.released - d.opening
  BY <1>2, <1>5, <1>6, StatementSays DEF c, d
<1>8. BalanceAt(r, c, lo - 1) = Gained(before) - Lost(before)
  BY <1>0, OpeningAddsUp
<1>9. BalanceAt(r, c, hi) = BalanceAt(r, c, lo - 1) + (Gained(during) - Lost(during))
  BY <1>0, PeriodAddsUp
<1>10. TotalOf(LAMBDA e : e.pallets, ReleasesIn(r, c, lo, hi)) = Lost(during)
  BY ReleasesAddUp
<1>11. Gained(during) \in Int /\ Lost(during) \in Int /\ BalanceAt(r, c, lo - 1) \in Int
  <2>1. during = Only(r, OfContainerIn(c, lo, hi)) /\ Only(r, OfContainerIn(c, lo, hi)) \in Seq(PalletMoves)
    <3>1. OfContainerIn(c, lo, hi) \in SUBSET PalletMoves
      BY DEF OfContainerIn
    <3> QED
      BY <3>1, PartOf, PartsOfHistory
  <2> HIDE DEF during
  <2> QED
    BY <2>1, GainedLessLost, BalanceInt
<1> HIDE DEF before, during, lo, hi
<1>12. s.opening = Gained(before) - Lost(before) /\ s.released = Lost(during)
  BY <1>4, <1>7, <1>8, <1>10
<1>13. s.received = Gained(during)
  BY <1>4, <1>7, <1>9, <1>11, <1>12
<1>14. s.closing = s.opening + s.received - s.released
  BY <1>4, <1>7, <1>9, <1>11, <1>12, <1>13
<1> QED
  BY <1>12, <1>13, <1>14 DEF Matches, before, during, lo, hi, c

-----------------------------------------------------------------------------
(* What an invoice records *)

\* The stay that a preview tells of a container.
LEMMA RowTells ==
  ASSUME NEW r, NEW scope, NEW c
  PROVE  LET row == StorageRow(r, scope, c)
         IN  /\ row.container = c
             /\ row.opening = BalanceAt(r, c, scope.start - 1) /\ row.closing = BalanceAt(r, c, scope.end)
             /\ row.releases = ReleasesIn(r, c, scope.start, scope.end)
BY DEF StorageRow, StorageRowFrom, StorageRowOf

\* What is billed of a stay is what the yard's history says of it.
LEMMA BilledRecords ==
  ASSUME SourcesInv, creation # NoCall, GenerateInvoice(creation).status = "ok", NEW id,
         NEW new, new = NewInvoice(id, creation.scope, creation.settlement, GenerateInvoice(creation).lines)
  PROVE  InvoiceRecorded(new, moves)
<1> DEFINE scope == creation.scope
           settlement == creation.settlement
           preview == creation.preview
           sources == SourcesOf(moves, scope)
           rows == StorageRows(sources, scope)
           lines == preview.lines
           A == {l \in ToSet(lines) : ~settlement \/ l.type = "STORAGE"}
           kept == Only(lines, A)
           Stay(c) == CHOOSE x \in ToSet(preview.storage) : x.container = c
           billed == GenerateInvoice(creation).lines
<1>1. CallSourced(creation) /\ moves \in Seq(PalletMoves)
  BY DEF SourcesInv
<1>2. preview = PreviewOfSources(sources, scope) /\ sources \in Seq(PalletMoves)
      /\ billed = InvoiceLines(preview, settlement)
  BY <1>1, NotStale
<1>3. ScopeSound(scope)
  BY <1>1, ScopesAssumption DEF CallSourced, ScopeSound
<1>4. billed = [i \in DOMAIN kept |->
                   [id |-> i, type |-> kept[i].type, container |-> kept[i].container,
                    day |-> kept[i].day, quantity |-> kept[i].quantity, amount |-> kept[i].amount,
                    manual |-> FALSE,
                    details |-> IF kept[i].type = "STORAGE" THEN StayDetails(Stay(kept[i].container))
                                ELSE NoDetails]]
  BY <1>2 DEF InvoiceLines
<1>5. preview.storage = rows
  BY <1>2 DEF PreviewOfSources, PreviewFrom, PreviewWith
<1>6. /\ lines \in Seq(LineRecords)
      /\ \A i \in 1 .. Len(lines) : lines[i].type = "STORAGE" =>
           \E k \in 1 .. Len(rows) : rows[k].container = lines[i].container
  <2> HIDE DEF sources
  <2> QED
    BY <1>2, <1>3, PreviewLinesSeq
<1>7. /\ Len(rows) \in Nat /\ DOMAIN rows = 1 .. Len(rows)
      /\ \A k \in 1 .. Len(rows) :
           \E c \in Containers : InScope(scope, c) /\ rows[k] = StorageRow(sources, scope, c)
  <2> HIDE DEF sources
  <2> QED
    BY <1>2, <1>3, StorageRowsSeq
<1>8. kept \in Seq(LineRecords \cap A)
  <2> HIDE DEF lines, A
  <2> QED
    BY <1>6, OnlyEmbeds
<1> HIDE DEF rows, sources
<1>9. DOMAIN kept = 1 .. Len(kept) /\ Len(kept) \in Nat /\ \A i \in 1 .. Len(kept) : kept[i] \in ToSet(lines)
  <2>1. A \subseteq ToSet(lines)
    OBVIOUS
  <2> HIDE DEF kept, A, lines
  <2> QED
    BY <1>8, <2>1
<1> HIDE DEF kept, A
<1>10. ASSUME NEW l \in ToSet(lines), l.type = "STORAGE"
       PROVE  LET d == StayDetails(Stay(l.container))
              IN  /\ l.container \in Containers /\ InScope(scope, l.container)
                  /\ d.opening = BalanceAt(moves, l.container, scope.start - 1)
                  /\ d.closing = BalanceAt(moves, l.container, scope.end)
                  /\ d.releases = ReleasesIn(moves, l.container, scope.start, scope.end)
  <2> DEFINE c == l.container
  <2>1. PICK i \in 1 .. Len(lines) : l = lines[i]
    <3> HIDE DEF lines
    <3> QED
      BY <1>6 DEF ToSet
  <2>2. PICK k \in 1 .. Len(rows) : rows[k].container = c
    BY <1>6, <1>10, <2>1
  <2>3. \A x \in ToSet(rows) : \E y \in Containers : InScope(scope, y) /\ x = StorageRow(sources, scope, y)
    BY <1>7 DEF ToSet
  <2>4. rows[k] \in ToSet(rows)
    BY <1>7 DEF ToSet
  <2>5. Stay(c) \in ToSet(rows) /\ Stay(c).container = c
    BY <1>5, <2>2, <2>4
  <2>6. c \in Containers /\ InScope(scope, c) /\ Stay(c) = StorageRow(sources, scope, c)
    <3>1. PICK y \in Containers : InScope(scope, y) /\ Stay(c) = StorageRow(sources, scope, y)
      BY <2>3, <2>5
    <3> HIDE DEF Stay, c
    <3>2. StorageRow(sources, scope, y).container = y
      BY RowTells
    <3>3. y = c
      BY <2>5, <3>1, <3>2
    <3> QED
      BY <3>1, <3>3
  <2> HIDE DEF Stay, c
  <2>7. /\ Stay(c).opening = BalanceAt(sources, c, scope.start - 1)
        /\ Stay(c).closing = BalanceAt(sources, c, scope.end)
        /\ Stay(c).releases = ReleasesIn(sources, c, scope.start, scope.end)
    BY <2>6, RowTells
  <2>8. CustomerOf[c] = scope.customer
    BY <2>6 DEF InScope
  <2>9. /\ BalanceAt(sources, c, scope.start - 1) = BalanceAt(moves, c, scope.start - 1)
        /\ BalanceAt(sources, c, scope.end) = BalanceAt(moves, c, scope.end)
        /\ ReleasesIn(sources, c, scope.start, scope.end) = ReleasesIn(moves, c, scope.start, scope.end)
    BY <1>1, <1>3, <2>8, SourcesTell DEF ScopeSound, sources
  <2>10. /\ StayDetails(Stay(c)).opening = Stay(c).opening /\ StayDetails(Stay(c)).closing = Stay(c).closing
         /\ StayDetails(Stay(c)).releases = Stay(c).releases
    BY DEF StayDetails
  <2> QED
    BY <2>6, <2>7, <2>9, <2>10 DEF c
<1> HIDE DEF lines, billed, Stay
<1>11. /\ {"status", "customer", "start", "end", "containers", "snapshot"} \subseteq DOMAIN new
       /\ new.customer = scope.customer /\ new.start = scope.start /\ new.end = scope.end
       /\ new.containers = scope.type /\ new.snapshot = <<>> /\ new.lines = billed
  BY DEF NewInvoice, Recalculated, billed
<1>12. ASSUME NEW j \in DOMAIN billed PROVE StayRecorded(billed[j], new, moves)
  <2>1. j \in DOMAIN kept /\ kept[j] \in ToSet(lines) /\ billed[j].container = kept[j].container
        /\ billed[j].details = IF kept[j].type = "STORAGE" THEN StayDetails(Stay(kept[j].container)) ELSE NoDetails
    BY <1>4, <1>9, <1>12
  <2>2. CASE kept[j].type = "STORAGE"
    <3> DEFINE c == billed[j].container
               d == billed[j].details
    <3>1. /\ c \in Containers /\ InScope(scope, c)
          /\ d.opening = BalanceAt(moves, c, scope.start - 1)
          /\ d.closing = BalanceAt(moves, c, scope.end)
          /\ d.releases = ReleasesIn(moves, c, scope.start, scope.end)
      BY <1>10, <2>1, <2>2
    <3>2. new.customer = CustomerOf[c] /\ Compatible(new.containers, TypeOf[c])
      BY <1>11, <3>1 DEF InScope, Compatible
    <3> HIDE DEF scope
    <3> QED
      BY <1>11, <3>1, <3>2 DEF StayRecorded
  <2>3. CASE kept[j].type # "STORAGE"
    BY <2>1, <2>3 DEF StayRecorded, NoDetails
  <2> QED
    BY <2>2, <2>3
<1>13. scope.start \in Nat /\ scope.end \in Nat /\ scope.start <= scope.end
  BY <1>3 DEF ScopeSound
<1>14. <<>> \in Seq(ToSet(<<>>))
  OBVIOUS
<1> HIDE DEF scope
<1> QED
  BY <1>11, <1>12, <1>13, <1>14 DEF InvoiceRecorded

\* What a line records is told by the invoice's customer, period and containers.
LEMMA RecordedAlike ==
  ASSUME NEW r, NEW line, NEW a, NEW b, StayRecorded(line, a, r),
         b.customer = a.customer, b.start = a.start, b.end = a.end, b.containers = a.containers
  PROVE  StayRecorded(line, b, r)
BY DEF StayRecorded

\* An invoice with other lines still records what it did.
LEMMA RecalculatedRecorded ==
  ASSUME NEW r, NEW invoice, Numbered(invoice), InvoiceRecorded(invoice, r), NEW lines, IsList(lines),
         \A j \in 1 .. Len(lines) : StayRecorded(lines[j], invoice, r)
  PROVE  InvoiceRecorded(Recalculated(invoice, lines), r)
<1> DEFINE x == Recalculated(invoice, lines)
<1>1. /\ DOMAIN x = DOMAIN invoice /\ x.lines = lines /\ x.customer = invoice.customer
      /\ x.start = invoice.start /\ x.end = invoice.end
      /\ x.containers = invoice.containers /\ x.snapshot = invoice.snapshot
  BY DEF Recalculated, Numbered
<1> HIDE DEF x
<1>2. DOMAIN lines = 1 .. Len(lines)
  BY ListElim
<1>3. \A j \in DOMAIN x.lines : StayRecorded(x.lines[j], x, r)
  BY <1>1, <1>2, RecordedAlike
<1> QED
  BY <1>1, <1>3 DEF InvoiceRecorded, x

\* A typed line records no stay.
LEMMA TypedRecorded ==
  ASSUME NEW r, NEW invoice, NEW id, NEW form, NEW container, NEW day
  PROVE  StayRecorded(Typed(id, form, container, day), invoice, r)
BY DEF StayRecorded, Typed, NoDetails

\* What a call makes of an invoice records what the invoice did.
LEMMA ServedRecorded ==
  ASSUME NEW r, NEW call, call.kind # "delete", Serves(call),
         Numbered(invoices[call.id]), InvoiceRecorded(invoices[call.id], r)
  PROVE  InvoiceRecorded(Served(call), r)
<1> DEFINE invoice == invoices[call.id]
           lines == invoice.lines
<1>0. invoice.status # "VOID"
  BY DEF Serves
<1>1. /\ IsList(lines) /\ Len(lines) \in Nat /\ DOMAIN lines = 1 .. Len(lines)
      /\ \A i \in 1 .. Len(lines) : StayRecorded(lines[i], invoice, r)
  <2>1. IsList(lines)
    BY DEF Numbered, IsList, ToSet
  <2>2. Len(lines) \in Nat /\ DOMAIN lines = 1 .. Len(lines)
    BY <2>1, ListElim
  <2> QED
    BY <1>0, <2>1, <2>2 DEF InvoiceRecorded
<1>2. CASE call.kind = "add-line"
  <2> DEFINE new == Typed(NextLine(invoice), call.form, call.form.container, NoDate)
             more == Append(lines, new)
  <2>1. Served(call) = Recalculated(invoice, more)
    BY <1>2 DEF Served
  <2>2. /\ IsList(more) /\ Len(more) = Len(lines) + 1 /\ more[Len(lines) + 1] = new
        /\ \A j \in 1 .. Len(lines) : more[j] = lines[j]
    BY <1>1, ListAppend
  <2>3. StayRecorded(new, invoice, r)
    BY TypedRecorded
  <2> HIDE DEF new, more, lines
  <2>4. \A i \in 1 .. Len(more) : i \in 1 .. Len(lines) \/ i = Len(lines) + 1
    BY <1>1, <2>2
  <2>5. \A i \in 1 .. Len(more) : StayRecorded(more[i], invoice, r)
    BY <1>1, <2>2, <2>3, <2>4
  <2> QED
    BY <2>1, <2>2, <2>5, RecalculatedRecorded
<1>3. CASE call.kind = "edit-line"
  <2> DEFINE Edit(l) == IF l.id = call.line THEN Typed(l.id, call.form, l.container, l.day) ELSE l
             edited == [i \in DOMAIN lines |-> Edit(lines[i])]
  <2>1. Served(call) = Recalculated(invoice, edited)
    BY <1>3 DEF Served
  <2>2. ASSUME NEW l, StayRecorded(l, invoice, r) PROVE StayRecorded(Edit(l), invoice, r)
    BY <2>2, TypedRecorded
  <2> HIDE DEF Edit
  <2>3. edited = [i \in 1 .. Len(lines) |-> edited[i]] /\ \A i \in 1 .. Len(lines) : edited[i] = Edit(lines[i])
    BY <1>1
  <2> HIDE DEF edited, lines
  <2>4. IsList(edited) /\ Len(edited) = Len(lines)
    BY <1>1, <2>3, ListOf
  <2>5. \A i \in 1 .. Len(edited) : StayRecorded(edited[i], invoice, r)
    BY <1>1, <2>2, <2>3, <2>4
  <2> QED
    BY <2>1, <2>4, <2>5, RecalculatedRecorded
<1>4. CASE call.kind = "delete-line"
  <2> DEFINE A == {l \in ToSet(lines) : l.id # call.line}
             left == Only(lines, A)
             R == {lines[i] : i \in DOMAIN lines}
  <2>1. Served(call) = Recalculated(invoice, left)
    BY <1>4 DEF Served
  <2>2. lines \in Seq(R)
    BY <1>1 DEF IsList
  <2>3. \A l \in R : StayRecorded(l, invoice, r)
    BY <1>1
  <2> HIDE DEF A, R, lines
  <2>4. left \in Seq(R \cap A)
    BY <2>2, OnlyEmbeds
  <2> HIDE DEF left
  <2>5. IsList(left)
    BY <2>4, ListIntro
  <2>6. \A i \in 1 .. Len(left) : left[i] \in R
    BY <2>4
  <2>7. \A i \in 1 .. Len(left) : StayRecorded(left[i], invoice, r)
    BY <2>3, <2>6
  <2> QED
    BY <2>1, <2>5, <2>7, RecalculatedRecorded
<1>5. ASSUME NEW x, DOMAIN x = DOMAIN invoice, x.lines = lines, x.customer = invoice.customer,
             x.start = invoice.start, x.end = invoice.end, x.containers = invoice.containers,
             x.snapshot \in Seq(ToSet(x.snapshot))
      PROVE  InvoiceRecorded(x, r)
  <2>1. \A j \in DOMAIN x.lines : StayRecorded(x.lines[j], x, r)
    BY <1>1, <1>5, RecordedAlike
  <2> QED
    BY <1>5, <2>1 DEF InvoiceRecorded
<1>6. CASE call.kind = "finalize"
  <2> DEFINE q == LedgerRows(lines)
  <2>1. Served(call) = [invoice EXCEPT !.status = "FINALIZED", !.snapshot = q]
    BY <1>6 DEF Served
  <2>2. q \in Seq(ToSet(q))
    BY <1>1, LedgerRowsList DEF IsList, ToSet
  <2> HIDE DEF q
  <2> DEFINE x == [invoice EXCEPT !.status = "FINALIZED", !.snapshot = q]
  <2>3. /\ DOMAIN x = DOMAIN invoice /\ x.lines = lines /\ x.customer = invoice.customer
        /\ x.start = invoice.start /\ x.end = invoice.end /\ x.containers = invoice.containers
        /\ x.snapshot = q
    BY DEF InvoiceRecorded, Numbered
  <2> HIDE DEF x
  <2> QED
    BY <1>5, <2>1, <2>2, <2>3 DEF x
<1>7. ASSUME NEW status, Served(call) = [invoice EXCEPT !.status = status]
      PROVE  InvoiceRecorded(Served(call), r)
  <2> DEFINE x == [invoice EXCEPT !.status = status]
  <2>1. /\ DOMAIN x = DOMAIN invoice /\ x.lines = lines /\ x.customer = invoice.customer
        /\ x.start = invoice.start /\ x.end = invoice.end /\ x.containers = invoice.containers
        /\ x.snapshot = invoice.snapshot
    BY DEF InvoiceRecorded, Numbered
  <2>2. invoice.snapshot \in Seq(ToSet(invoice.snapshot))
    BY DEF InvoiceRecorded
  <2> HIDE DEF x
  <2> QED
    BY <1>5, <1>7, <2>1, <2>2 DEF x
<1>8. CASE call.kind = "mark-paid"
  BY <1>7, <1>8 DEF Served
<1>9. CASE call.kind = "void"
  BY <1>7, <1>9 DEF Served
<1>10. CASE call.kind \notin {"add-line", "edit-line", "delete-line", "finalize", "mark-paid", "void", "delete"}
  BY <1>10 DEF Served
<1> QED
  BY <1>2, <1>3, <1>4, <1>6, <1>8, <1>9, <1>10

\* Every invoice records what the yard's history says of its period.
HistoryInv == \A i \in 1 .. Len(invoices) : invoices[i] # Nothing => InvoiceRecorded(invoices[i], moves)

\* The first invoices record the first movements.
LEMMA InitRecorded == Init => HistoryInv
<1> SUFFICES ASSUME Init PROVE HistoryInv
  OBVIOUS
<1>1. invoices = FirstInvoices /\ moves = FirstMoves
  BY DEF Init
<1>2. IsList(FirstInvoices)
  BY InvoicesAssumption DEF IsList, ToSet
<1>3. DOMAIN FirstInvoices = 1 .. Len(FirstInvoices)
  BY <1>2, ListElim
<1> QED
  BY <1>1, <1>3, InvoicesAssumption DEF HistoryInv

\* A movement comes after the period of every invoice that could have counted it.
LEMMA MoveRecorded ==
  ASSUME SourcesInv, HistoryInv, NEW m \in Candidates, Move(m)
  PROVE  HistoryInv'
<1> DEFINE D == {i \in DOMAIN moves : moves[i].day <= m.day}
           n == Cardinality(D)
           more == PutAfter(moves, n, m)
<1>1. m \in PalletMoves /\ moves \in Seq(PalletMoves) /\ IsList(invoices)
  BY MovesAssumption DEF SourcesInv
<1>2. moves' = more /\ invoices' = invoices /\ SourceOpen(m)
  BY DEF Move
<1>3. n \in 0 .. Len(moves)
  <2>1. Len(moves) \in Nat /\ D \in SUBSET (1 .. Len(moves))
    BY <1>1
  <2> HIDE DEF D
  <2> QED
    BY <2>1, PositionsCount
<1> HIDE DEF n
<1>4. ASSUME NEW i \in 1 .. Len(invoices), invoices[i] # Nothing
      PROVE  InvoiceRecorded(invoices[i], more)
  <2> DEFINE invoice == invoices[i]
             lo == invoice.start
             hi == invoice.end
  <2>1. InvoiceRecorded(invoice, moves)
    BY <1>4 DEF HistoryInv
  <2>2. i \in DOMAIN invoices
    BY <1>1, ListElim
  <2>3. lo \in Nat /\ hi \in Nat /\ lo <= hi
    BY <2>1 DEF InvoiceRecorded
  <2>4. ASSUME NEW j \in DOMAIN invoice.lines, invoice.status # "VOID"
        PROVE  StayRecorded(invoice.lines[j], invoice, more)
    <3> DEFINE line == invoice.lines[j]
               c == line.container
    <3> SUFFICES ASSUME line.details.summary /\ line.details.moves
                 PROVE  StayRecorded(line, invoice, more)
      BY DEF StayRecorded
    <3>1. /\ c \in Containers /\ invoice.customer = CustomerOf[c] /\ Compatible(invoice.containers, TypeOf[c])
          /\ line.details.opening = BalanceAt(moves, c, lo - 1)
          /\ line.details.closing = BalanceAt(moves, c, hi)
          /\ line.details.releases = ReleasesIn(moves, c, lo, hi)
      BY <2>1, <2>4 DEF InvoiceRecorded, StayRecorded
    <3>2. m.container = c => hi < m.day
      BY <1>2, <1>4, <2>2, <2>4, <3>1 DEF SourceOpen, Billed
    <3>3. m.day \in Int
      BY <1>1 DEF PalletMoves
    <3> HIDE DEF line, c
    <3>4. m.container = c => m.day > hi
      BY <2>3, <3>2, <3>3
    <3> HIDE DEF lo, hi, more
    <3>5. /\ BalanceAt(more, c, lo - 1) = BalanceAt(moves, c, lo - 1)
          /\ BalanceAt(more, c, hi) = BalanceAt(moves, c, hi)
          /\ ReleasesIn(more, c, lo, hi) = ReleasesIn(moves, c, lo, hi)
      BY <1>1, <1>3, <2>3, <3>4, PutLater DEF more
    <3> HIDE DEF invoice
    <3> QED
      BY <3>1, <3>5 DEF StayRecorded, lo, hi, c
  <2> HIDE DEF invoice, more
  <2> QED
    BY <2>1, <2>4 DEF InvoiceRecorded, invoice
<1> HIDE DEF more
<1> QED
  BY <1>2, <1>4 DEF HistoryInv

\* A new invoice records the history that its preview was read from.
LEMMA CreatedRecorded ==
  ASSUME SourcesInv, HistoryInv, Created
  PROVE  HistoryInv'
<1> DEFINE id == Len(invoices) + 1
           new == NewInvoice(id, creation.scope, creation.settlement, GenerateInvoice(creation).lines)
<1>1. /\ creation # NoCall /\ GenerateInvoice(creation).status = "ok"
      /\ invoices' = Append(invoices, new) /\ moves' = moves
  BY DEF Created
<1>2. InvoiceRecorded(new, moves)
  BY <1>1, BilledRecords
<1> HIDE DEF new
<1>3. IsList(invoices) /\ Len(invoices) \in Nat
  BY ListElim DEF SourcesInv
<1>4. /\ Len(invoices') = id /\ invoices'[id] = new
      /\ \A j \in 1 .. Len(invoices) : invoices'[j] = invoices[j]
  BY <1>1, <1>3, ListAppend
<1>5. \A i \in 1 .. Len(invoices') : i \in 1 .. Len(invoices) \/ i = id
  BY <1>3, <1>4
<1> HIDE DEF id
<1> QED
  BY <1>1, <1>2, <1>4, <1>5 DEF HistoryInv

\* A call of the editor leaves the record.
LEMMA ServedHistory ==
  ASSUME PagesInv, HistoryInv, request # NoCall, Serves(request), moves' = moves,
         invoices' = [invoices EXCEPT ![request.id] = Served(request)]
  PROVE  HistoryInv'
<1>1. request.id \in 1 .. Len(invoices) /\ InvoicesSound(invoices)
  BY DEF PagesInv, CallSound
<1>2. invoices[request.id] # Nothing
  BY DEF Serves
<1>3. Served(request) # Nothing => InvoiceRecorded(Served(request), moves)
  <2>1. CASE request.kind = "delete"
    BY <2>1 DEF Served
  <2>2. CASE request.kind # "delete"
    <3>1. Numbered(invoices[request.id]) /\ InvoiceRecorded(invoices[request.id], moves)
      BY <1>1, <1>2 DEF InvoicesSound, HistoryInv
    <3> QED
      BY <2>2, <3>1, ServedRecorded
  <2> QED
    BY <2>1, <2>2
<1> DEFINE k == request.id  v == Served(request)
<1>4. IsList(invoices) /\ invoices' = [invoices EXCEPT ![k] = v]
  BY <1>1 DEF InvoicesSound
<1>5. v # Nothing => InvoiceRecorded(v, moves)
  BY <1>3
<1> HIDE DEF k, v
<1>6. Len(invoices') = Len(invoices) /\ \A j \in 1 .. Len(invoices) : invoices'[j] = IF j = k THEN v ELSE invoices[j]
  BY <1>4, ListExcept
<1> QED
  BY <1>5, <1>6 DEF HistoryInv

\* So every step keeps the record.
LEMMA StepRecorded == SourcesInv /\ PagesInv /\ HistoryInv /\ [Next]_vars => HistoryInv'
<1> SUFFICES ASSUME SourcesInv, PagesInv, HistoryInv, [Next]_vars PROVE HistoryInv'
  OBVIOUS
<1>0. ASSUME invoices' = invoices, moves' = moves PROVE HistoryInv'
  BY <1>0 DEF HistoryInv
<1>1. CASE \E m \in Candidates : Move(m)
  BY <1>1, MoveRecorded
<1>2. CASE OpenDesk
  BY <1>0, <1>2 DEF OpenDesk, server
<1>3. ASSUME NEW container, NEW scope, NEW seen, OpenStay(container, scope, seen) PROVE HistoryInv'
  BY <1>0, <1>3 DEF OpenStay, server
<1>4. CASE \E i \in 1..Cardinality(Containers) : Viewed(i)
  BY <1>3, <1>4 DEF Viewed, ViewContainer
<1>5. CASE \E container \in Containers, scope \in Scopes : VisitStay(container, scope)
  BY <1>3, <1>5 DEF VisitStay
<1>6. CASE DeskSteps
  BY <1>0, <1>6 DEF DeskSteps, SelectScope, ChooseMode, TypeFilter, StartBusy, CreateInvoice, server
<1>7. CASE EditorSteps
  <2>1. ASSUME NEW e, Set(e) PROVE HistoryInv'
    BY <1>0, <2>1 DEF Set, server
  <2>2. ASSUME NEW kind, NEW line, NEW form, Send(kind, line, form) PROVE HistoryInv'
    BY <1>0, <2>2 DEF Send, server
  <2>3. ASSUME NEW id, OpenEditor(id) PROVE HistoryInv'
    BY <1>0, <2>3 DEF OpenEditor, server
  <2> QED
    BY <1>7, <2>1, <2>2, <2>3
    DEF EditorSteps, OpenLine, CloseLine, Ask, AskDeleteLine, CancelConfirm, EditSection, SaveLine, Confirm,
        SaveSection, ExportDocument
<1>8. CASE Arrivals
  <2>1. ASSUME NEW load, Answer(load) PROVE HistoryInv'
    BY <1>0, <2>1 DEF Answer, AnswerLoad, server
  <2>2. ASSUME NEW load, Receive(load) PROVE HistoryInv'
    BY <1>0, <2>2 DEF Receive, server
  <2>3. ASSUME NEW ok, ReceiveHistory(ok) \/ EndPreviewPdf(ok) \/ EndExport(ok) PROVE HistoryInv'
    BY <1>0, <2>3 DEF ReceiveHistory, EndPreviewPdf, EndExport, Set, server
  <2>4. ASSUME EndRefresh \/ CreationStale \/ CreationRefused PROVE HistoryInv'
    BY <1>0, <2>4 DEF EndRefresh, CreationStale, CreationRefused, server
  <2>5. ASSUME NEW id, NEW ok, Fetch(id, ok) PROVE HistoryInv'
    BY <1>0, <2>5 DEF Fetch, server
  <2>6. ASSUME Respond PROVE HistoryInv'
    BY <2>6, ServedHistory DEF Respond
  <2>7. ASSUME Deleted PROVE HistoryInv'
    <3>1. Served(request) = Nothing
      BY <2>7 DEF Deleted, Served
    <3> QED
      BY <2>7, <3>1, ServedHistory DEF Deleted
  <2>8. ASSUME NEW done, RespondError(done) PROVE HistoryInv'
    <3>1. request # NoCall /\ moves' = moves
      BY <2>8 DEF RespondError
    <3>2. \/ invoices' = invoices
          \/ Serves(request) /\ invoices' = [invoices EXCEPT ![request.id] = Served(request)]
      BY <2>8 DEF RespondError
    <3> QED
      BY <1>0, <3>1, <3>2, ServedHistory
  <2> QED
    BY <1>8, CreatedRecorded, <2>1, <2>2, <2>3, <2>4, <2>5, <2>6, <2>7, <2>8 DEF Arrivals
<1>9. CASE UNCHANGED vars
  BY <1>0, <1>9 DEF vars
<1> QED
  BY <1>1, <1>2, <1>4, <1>5, <1>6, <1>7, <1>8, <1>9 DEF Next

\* What is recorded is printed, and is what the yard's history adds up to.
LEMMA RecordedMatches ==
  ASSUME SourcesInv, PagesInv, HistoryInv
  PROVE  StatementsMatchYard
<1>1. moves \in Seq(PalletMoves) /\ IsList(invoices) /\ InvoicesSound(invoices)
  BY DEF SourcesInv, PagesInv
<1>2. DOMAIN invoices = 1 .. Len(invoices)
  BY <1>1, ListElim
<1>3. ASSUME NEW i \in DOMAIN invoices, Billed(i), NEW s \in ToSet(Statements(invoices[i])),
             s.container # InvoiceLevel, StorageSources(invoices[i], s.container) # <<>>,
             Last(StorageSources(invoices[i], s.container)).details.moves
      PROVE  Matches(s, invoices[i], moves)
  <2> DEFINE invoice == invoices[i]
  <2>1. invoice # Nothing /\ invoice.status # "VOID" /\ i \in 1 .. Len(invoices)
    BY <1>2, <1>3 DEF Billed
  <2>2. Numbered(invoice) /\ InvoiceRecorded(invoice, moves)
    BY <1>1, <2>1 DEF InvoicesSound, HistoryInv
  <2>3. IsList(invoice.lines) /\ IsList(invoice.snapshot)
    BY <2>2 DEF Numbered, InvoiceRecorded, IsList, ToSet
  <2> QED
    BY <1>1, <1>3, <2>1, <2>2, <2>3, StatementTells
<1> QED
  BY <1>3 DEF StatementsMatchYard, Matches

\* The movements that a statement prints are those of the yard, for every history of
\* movements and for as long as the invoice stands: what the service refuses (a movement
\* in a period that was billed, billing_invoice_store.go:495) and what an edit of a line may
\* not keep (its record of the stay) together keep the statement true.
THEOREM StatementsMatch == Spec => []StatementsMatchYard
BY InitSound, StepSound, InitSourced, StepSourced, InitPages, StepPages, InitRecorded, StepRecorded,
   RecordedMatches, PTL DEF Spec

-----------------------------------------------------------------------------
(* Runs of days *)

\* Days, and runs of days, with what is alike on them.
DatedWith(L) == [day : Int, like : L]
StretchesOf(L) == [start : Int, end : Int, like : L]
Covers(run, d) == run.start <= d /\ d <= run.end

\* What runs are made of: each of their days is one of the first k, and alike;
\* and no day is in two of them.
RunsTell(runs, days, k, L) ==
  /\ runs \in Seq(StretchesOf(L))
  /\ \A i \in 1 .. Len(runs) : runs[i].start <= runs[i].end
  /\ \A i \in 1 .. Len(runs), d \in Int : Covers(runs[i], d) =>
       \E j \in 1 .. k : days[j].day = d /\ days[j].like = runs[i].like
  /\ \A i, h \in 1 .. Len(runs), d \in Int : Covers(runs[i], d) /\ Covers(runs[h], d) => i = h

\* A day more.
LEMMA RunsWithTells ==
  ASSUME NEW L, NEW days \in Seq(DatedWith(L)), NEW k \in 0 .. Len(days) - 1,
         \A i, j \in 1 .. Len(days) : days[i].day = days[j].day => i = j,
         NEW runs, RunsTell(runs, days, k, L)
  PROVE  RunsTell(RunsWith(runs, days[k + 1]), days, k + 1, L)
<1> DEFINE e == days[k + 1]  next == RunsWith(runs, e)  n == Len(runs)
<1>0. /\ Len(days) \in Nat /\ k \in Nat /\ k + 1 \in 1 .. Len(days) /\ n \in Nat /\ DOMAIN runs = 1 .. n
      /\ runs \in Seq(StretchesOf(L)) /\ \A i \in 1 .. n : runs[i] \in StretchesOf(L)
      /\ \A j \in 1 .. Len(days) : days[j] \in DatedWith(L)
  BY DEF RunsTell
<1>1. e.day \in Int /\ e.like \in L
  BY <1>0 DEF DatedWith
<1>2. \A i \in 1 .. n : runs[i].start \in Int /\ runs[i].end \in Int /\ runs[i].like \in L
  BY <1>0 DEF StretchesOf
<1>3. \A i \in 1 .. n : ~Covers(runs[i], e.day)
  <2> SUFFICES ASSUME NEW i \in 1 .. n, Covers(runs[i], e.day) PROVE FALSE
    OBVIOUS
  <2>1. PICK j \in 1 .. k : days[j].day = e.day
    BY <1>1 DEF RunsTell
  <2> QED
    BY <1>0, <2>1
<1>4. \A i \in 1 .. n, d \in Int : Covers(runs[i], d) =>
        \E j \in 1 .. k + 1 : days[j].day = d /\ days[j].like = runs[i].like
  BY <1>0 DEF RunsTell
<1>5. \A i, h \in 1 .. n, d \in Int : Covers(runs[i], d) /\ Covers(runs[h], d) => i = h
  BY DEF RunsTell
<1>6. \A i \in 1 .. n : runs[i].start <= runs[i].end
  BY DEF RunsTell
<1>7. k + 1 \in 1 .. k + 1
  BY <1>0
<1>8. CASE runs # <<>> /\ Last(runs).end = e.day - 1 /\ Last(runs).like = e.like
  <2> DEFINE last == [runs[n] EXCEPT !.end = e.day]
  <2>1. n \in 1 .. n /\ Last(runs) = runs[n]
    BY <1>0, <1>8 DEF Last
  <2>2. next = [runs EXCEPT ![n] = last]
    BY <1>8 DEF RunsWith
  <2>3. /\ last \in StretchesOf(L) /\ last.start = runs[n].start /\ last.end = e.day /\ last.like = runs[n].like
    BY <1>0, <1>1, <2>1 DEF StretchesOf
  <2> HIDE DEF last, next
  <2>4. next \in [1 .. n -> StretchesOf(L)] /\ next[n] = last /\ \A i \in 1 .. n : i # n => next[i] = runs[i]
    BY <1>0, <2>1, <2>2, <2>3
  <2>5. next \in Seq(StretchesOf(L)) /\ Len(next) = n
    BY <1>0, <2>4, FunctionList
  <2>6. runs[n].end = e.day - 1 /\ runs[n].like = e.like
    BY <1>8, <2>1
  <2>7. \A d \in Int : Covers(last, d) <=> Covers(runs[n], d) \/ d = e.day
    BY <1>1, <1>2, <1>6, <2>1, <2>3, <2>6 DEF Covers
  <2>8. \A i \in 1 .. n : next[i].start <= next[i].end
    BY <1>1, <1>2, <1>6, <2>1, <2>3, <2>4, <2>6
  <2>9. ASSUME NEW i \in 1 .. n, NEW d \in Int, Covers(next[i], d)
        PROVE  \E j \in 1 .. k + 1 : days[j].day = d /\ days[j].like = next[i].like
    <3>1. CASE i # n
      BY <1>4, <2>4, <2>9, <3>1
    <3>2. CASE i = n /\ Covers(runs[n], d)
      BY <1>4, <2>1, <2>3, <2>4, <3>2
    <3>3. CASE i = n /\ d = e.day
      BY <1>7, <2>3, <2>4, <2>6, <3>3
    <3> QED
      BY <2>4, <2>7, <2>9, <3>1, <3>2, <3>3
  <2>10. ASSUME NEW i \in 1 .. n, NEW h \in 1 .. n, NEW d \in Int, Covers(next[i], d), Covers(next[h], d)
         PROVE  i = h
    <3>1. \A m \in 1 .. n : Covers(next[m], d) => Covers(runs[m], d) \/ (m = n /\ d = e.day)
      BY <2>4, <2>7
    <3> QED
      BY <1>3, <1>5, <2>10, <3>1
  <2> QED
    BY <2>5, <2>8, <2>9, <2>10 DEF RunsTell, next
<1>9. CASE ~(runs # <<>> /\ Last(runs).end = e.day - 1 /\ Last(runs).like = e.like)
  <2> DEFINE new == [start |-> e.day, end |-> e.day, like |-> e.like]
  <2>1. next = Append(runs, new)
    BY <1>9 DEF RunsWith
  <2>2. new \in StretchesOf(L) /\ new.start = e.day /\ new.end = e.day /\ new.like = e.like
    BY <1>1 DEF StretchesOf
  <2> HIDE DEF new, next
  <2>3. /\ next \in Seq(StretchesOf(L)) /\ Len(next) = n + 1 /\ next[n + 1] = new
        /\ \A i \in 1 .. n : next[i] = runs[i]
    BY <1>0, <2>1, <2>2
  <2>4. \A d \in Int : Covers(new, d) <=> d = e.day
    BY <1>1, <2>2 DEF Covers
  <2>5. \A i \in 1 .. n + 1 : i = n + 1 \/ i \in 1 .. n
    BY <1>0
  <2>6. \A i \in 1 .. n + 1 : next[i].start <= next[i].end
    BY <1>1, <1>6, <2>2, <2>3, <2>5
  <2>7. ASSUME NEW i \in 1 .. n + 1, NEW d \in Int, Covers(next[i], d)
        PROVE  \E j \in 1 .. k + 1 : days[j].day = d /\ days[j].like = next[i].like
    <3>1. CASE i \in 1 .. n
      BY <1>4, <2>3, <2>7, <3>1
    <3>2. CASE i = n + 1
      BY <1>7, <2>2, <2>3, <2>4, <2>7, <3>2
    <3> QED
      BY <2>5, <3>1, <3>2
  <2>8. ASSUME NEW i \in 1 .. n + 1, NEW h \in 1 .. n + 1, NEW d \in Int, Covers(next[i], d), Covers(next[h], d)
        PROVE  i = h
    <3>1. \A m \in 1 .. n + 1 : Covers(next[m], d) => (m \in 1 .. n /\ Covers(runs[m], d)) \/ (m = n + 1 /\ d = e.day)
      BY <2>3, <2>4, <2>5
    <3> QED
      BY <1>3, <1>5, <2>8, <3>1
  <2> QED
    BY <2>3, <2>6, <2>7, <2>8 DEF RunsTell, next
<1> QED
  BY <1>8, <1>9

\* What runs come to, if a day alike counts w.
WorthOf(w, L) == [r \in StretchesOf(L) |-> w[r.like] * (r.end - r.start + 1)]

\* A day more counts once more.
LEMMA RunsWithWorth ==
  ASSUME NEW L, NEW w \in [L -> Int], NEW runs \in Seq(StretchesOf(L)), NEW e \in DatedWith(L)
  PROVE  /\ RunsWith(runs, e) \in Seq(StretchesOf(L))
         /\ Summed(ValuesAt(WorthOf(w, L), RunsWith(runs, e))) = Summed(ValuesAt(WorthOf(w, L), runs)) + w[e.like]
<1> DEFINE v == WorthOf(w, L)  n == Len(runs)  next == RunsWith(runs, e)
<1>0. /\ n \in Nat /\ DOMAIN runs = 1 .. n /\ \A i \in 1 .. n : runs[i] \in StretchesOf(L)
      /\ e.day \in Int /\ e.like \in L
  BY DEF DatedWith
<1>1. v \in [StretchesOf(L) -> Int]
  <2>1. ASSUME NEW r \in StretchesOf(L) PROVE w[r.like] * (r.end - r.start + 1) \in Int
    <3>1. w[r.like] \in Int /\ r.end - r.start + 1 \in Int
      BY DEF StretchesOf
    <3> QED
      BY <3>1
  <2> QED
    BY <2>1 DEF WorthOf
<1>2. \A r \in StretchesOf(L) : v[r] = w[r.like] * (r.end - r.start + 1)
  BY DEF WorthOf
<1> HIDE DEF v
<1>3. CASE runs # <<>> /\ Last(runs).end = e.day - 1 /\ Last(runs).like = e.like
  <2> DEFINE old == runs[n]  last == [old EXCEPT !.end = e.day]
  <2>1. n \in 1 .. n /\ Last(runs) = old /\ old \in StretchesOf(L)
    BY <1>0, <1>3 DEF Last
  <2>2. next = [runs EXCEPT ![n] = last]
    BY <1>3 DEF RunsWith
  <2>3. /\ last \in StretchesOf(L) /\ last.start = old.start /\ last.end = e.day /\ last.like = old.like
        /\ old.start \in Int /\ old.end \in Int
    BY <1>0, <2>1 DEF StretchesOf
  <2>4. old.end = e.day - 1 /\ old.like = e.like
    BY <1>3, <2>1
  <2> HIDE DEF last, next, old
  <2>5. next \in [1 .. n -> StretchesOf(L)] /\ next[n] = last /\ \A i \in 1 .. n : i # n => next[i] = runs[i]
    BY <1>0, <2>1, <2>2, <2>3
  <2>6. next \in Seq(StretchesOf(L)) /\ Len(next) = n
    BY <1>0, <2>5, FunctionList
  <2>7. v[last] = v[old] + w[e.like]
    <3>1. v[last] = w[old.like] * (e.day - old.start + 1) /\ v[old] = w[old.like] * (old.end - old.start + 1)
      BY <1>2, <2>1, <2>3
    <3> DEFINE x == w[e.like]  m == old.end - old.start + 1
    <3>2. x \in Int /\ m \in Int /\ e.day - old.start + 1 = m + 1
      BY <1>0, <2>3, <2>4
    <3>3. v[last] = x * (m + 1) /\ v[old] = x * m
      BY <2>4, <3>1, <3>2
    <3> HIDE DEF x, m
    <3>4. x * (m + 1) = x * m + x
      BY <3>2
    <3> QED
      BY <3>3, <3>4 DEF x
  <2> DEFINE a == ValuesAt(v, runs)  b == ValuesAt(v, next)  g == [i \in 1 .. n |-> IF i = n THEN w[e.like] ELSE 0]
  <2>8. a \in Seq(Int) /\ Len(a) = n /\ \A i \in 1 .. n : a[i] = v[runs[i]]
    BY <1>1, ValuesSeq
  <2>9. b \in Seq(Int) /\ Len(b) = n /\ \A i \in 1 .. n : b[i] = v[next[i]]
    BY <1>1, <2>6, ValuesSeq
  <2>10. g \in Seq(Int) /\ Len(g) = n /\ g[n] = w[e.like] /\ \A i \in 1 .. n : n # i => g[i] = 0
    <3>1. g \in [1 .. n -> Int]
      BY <1>0
    <3>2. g[n] = w[e.like] /\ \A i \in 1 .. n : n # i => g[i] = 0
      BY <2>1
    <3> HIDE DEF g
    <3> QED
      BY <1>0, <3>1, <3>2, FunctionList
  <2> HIDE DEF a, b, g
  <2>11. \A i \in 1 .. n : b[i] = a[i] + g[i]
    <3> TAKE i \in 1 .. n
    <3>1. CASE i = n
      BY <2>1, <2>5, <2>7, <2>8, <2>9, <2>10, <3>1 DEF old
    <3>2. CASE i # n
      <4>1. b[i] = v[runs[i]] /\ a[i] = v[runs[i]] /\ g[i] = 0 /\ v[runs[i]] \in Int
        BY <1>0, <1>1, <2>5, <2>8, <2>9, <2>10, <3>2
      <4> QED
        BY <4>1
    <3> QED
      BY <3>1, <3>2
  <2>12. Summed(b) = Summed(a) + Summed(g)
    <3>1. Len(a) = Len(b) /\ Len(g) = Len(b) /\ \A i \in 1 .. Len(b) : b[i] = a[i] + g[i]
      BY <2>8, <2>9, <2>10, <2>11
    <3> QED
      BY <2>8, <2>9, <2>10, <3>1, SummedPairs
  <2>13. Summed(g) = w[e.like]
    <3>1. n \in 1 .. Len(g) /\ \A i \in 1 .. Len(g) : n # i => g[i] = 0
      BY <2>1, <2>10
    <3> QED
      BY <2>10, <3>1, SummedSingle
  <2> QED
    BY <2>6, <2>12, <2>13 DEF a, b, v, next
<1>4. CASE ~(runs # <<>> /\ Last(runs).end = e.day - 1 /\ Last(runs).like = e.like)
  <2> DEFINE new == [start |-> e.day, end |-> e.day, like |-> e.like]
  <2>1. next = Append(runs, new)
    BY <1>4 DEF RunsWith
  <2>2. new \in StretchesOf(L) /\ new.start = e.day /\ new.end = e.day /\ new.like = e.like
    BY <1>0 DEF StretchesOf
  <2> HIDE DEF new, next
  <2>3. v[new] = w[e.like]
    <3>1. v[new] = w[e.like] * (e.day - e.day + 1)
      BY <1>2, <2>2
    <3>2. e.day - e.day + 1 = 1 /\ w[e.like] \in Int
      BY <1>0
    <3>3. w[e.like] * 1 = w[e.like]
      BY <3>2
    <3> QED
      BY <3>1, <3>2, <3>3
  <2>4. next \in Seq(StretchesOf(L))
    BY <2>1, <2>2
  <2>5. n \in 0 .. Len(runs)
    BY <1>0
  <2>6. next = PutAfter(runs, n, new)
    <3>1. SubSeq(runs, 1, n) = runs /\ SubSeq(runs, n + 1, Len(runs)) = <<>>
      BY <1>0
    <3>2. PutAfter(runs, n, new) = Append(runs, new) \o <<>>
      BY <3>1 DEF PutAfter
    <3>3. Append(runs, new) \in Seq(StretchesOf(L))
      BY <2>1, <2>4
    <3>4. Append(runs, new) \o <<>> = Append(runs, new)
      <4> DEFINE u == Append(runs, new)
      <4>1. u \in Seq(StretchesOf(L))
        BY <3>3
      <4> HIDE DEF u
      <4>2. u \o <<>> = u
        BY <4>1
      <4> QED
        BY <4>2 DEF u
    <3> QED
      BY <2>1, <3>2, <3>4
  <2>7. Summed(ValuesAt(v, PutAfter(runs, n, new))) = Summed(ValuesAt(v, runs)) + v[new]
    BY <1>1, <2>2, <2>5, ValuesPut
  <2> QED
    BY <2>3, <2>4, <2>6, <2>7 DEF v, next
<1> QED
  BY <1>3, <1>4

\* The runs after each day.
LEMMA RunsGrow ==
  ASSUME NEW s, Len(s) \in Nat
  PROVE  \E t : /\ t[0] = <<>>
                /\ \A i \in 1 .. Len(s) : t[i] = RunsWith(t[i - 1], s[i])
                /\ Runs(s) = t[Len(s)]
<1> DEFINE Makes(n, t) == t = [i \in 0 .. n |-> IF i = 0 THEN <<>> ELSE RunsWith(t[i - 1], s[i])]
           S == {n \in Nat : \E t : Makes(n, t)}
<1>1. 0 \in S
  <2>1. Makes(0, [i \in 0 .. 0 |-> <<>>])
    OBVIOUS
  <2> QED
    BY <2>1
<1>2. ASSUME NEW n \in Nat, n \in S PROVE n + 1 \in S
  <2>1. PICK t : Makes(n, t)
    BY <1>2
  <2> DEFINE last == RunsWith(t[n], s[n + 1])
             u == [i \in 0 .. n + 1 |-> IF i = n + 1 THEN last ELSE t[i]]
  <2>2. Makes(n + 1, u)
    <3> SUFFICES ASSUME NEW i \in 0 .. n + 1
                 PROVE  u[i] = IF i = 0 THEN <<>> ELSE RunsWith(u[i - 1], s[i])
      OBVIOUS
    <3>1. CASE i = n + 1
      BY <3>1
    <3>2. CASE i \in 0 .. n
      <4>1. u[i] = t[i] /\ (i # 0 => u[i - 1] = t[i - 1])
        BY <3>2
      <4>2. t[i] = IF i = 0 THEN <<>> ELSE RunsWith(t[i - 1], s[i])
        BY <2>1, <3>2
      <4> HIDE DEF u
      <4> QED
        BY <4>1, <4>2
    <3> QED
      BY <3>1, <3>2
  <2> HIDE DEF u, Makes
  <2> QED
    BY <2>2
<1>3. Len(s) \in S
  <2> HIDE DEF S
  <2> QED
    BY <1>1, <1>2, SetInduction
<1>4. Runs(s) = (CHOOSE t : Makes(Len(s), t))[Len(s)]
  BY DEF Runs, Accumulate
<1>5. PICK t : t = (CHOOSE u : Makes(Len(s), u))
  OBVIOUS
<1>6. Makes(Len(s), t)
  BY <1>3, <1>5
<1>7. t[0] = <<>> /\ \A i \in 1 .. Len(s) : t[i] = RunsWith(t[i - 1], s[i])
  <2>1. \A i \in 0 .. Len(s) : t[i] = IF i = 0 THEN <<>> ELSE RunsWith(t[i - 1], s[i])
    BY <1>6
  <2>2. t[0] = <<>>
    BY <2>1
  <2>3. ASSUME NEW i \in 1 .. Len(s) PROVE t[i] = RunsWith(t[i - 1], s[i])
    <3>1. i \in 0 .. Len(s) /\ i # 0
      OBVIOUS
    <3> QED
      BY <2>1, <3>1
  <2> QED
    BY <2>2, <2>3
<1>8. Runs(s) = t[Len(s)]
  BY <1>4, <1>5
<1> QED
  BY <1>7, <1>8

\* The runs of different days are made of them, and come to what the days come to.
LEMMA RunsSound ==
  ASSUME NEW L, NEW days \in Seq(DatedWith(L)),
         \A i, j \in 1 .. Len(days) : days[i].day = days[j].day => i = j
  PROVE  /\ RunsTell(Runs(days), days, Len(days), L)
         /\ \A w \in [L -> Int] : Summed(ValuesAt(WorthOf(w, L), Runs(days)))
                                   = Summed([j \in 1 .. Len(days) |-> w[days[j].like]])
<1>0. Len(days) \in Nat /\ \A i \in 1 .. Len(days) : days[i] \in DatedWith(L)
  OBVIOUS
<1>1. PICK t : /\ t[0] = <<>>
               /\ \A i \in 1 .. Len(days) : t[i] = RunsWith(t[i - 1], days[i])
               /\ Runs(days) = t[Len(days)]
  BY <1>0, RunsGrow
<1> DEFINE S == {k \in Nat : RunsTell(t[k], days, k, L)}
<1>2. 0 \in S
  <2>1. RunsTell(<<>>, days, 0, L)
    BY DEF RunsTell
  <2> QED
    BY <1>1, <2>1
<1>3. ASSUME NEW k \in 0 .. Len(days) - 1, k \in S PROVE k + 1 \in S
  <2>1. k + 1 \in 1 .. Len(days) /\ (k + 1) - 1 = k /\ k + 1 \in Nat
    BY <1>0
  <2>2. t[k + 1] = RunsWith(t[k], days[k + 1])
    BY <1>1, <2>1
  <2>3. RunsTell(t[k], days, k, L)
    BY <1>3
  <2>4. RunsTell(RunsWith(t[k], days[k + 1]), days, k + 1, L)
    BY <2>3, RunsWithTells
  <2> QED
    BY <2>1, <2>2, <2>4
<1>4. Len(days) \in S /\ \A k \in 0 .. Len(days) : k \in S
  <2> HIDE DEF S
  <2> QED
    BY <1>0, <1>2, <1>3, Along
<1>5. \A k \in 0 .. Len(days) : t[k] \in Seq(StretchesOf(L))
  BY <1>4 DEF RunsTell
<1>6. ASSUME NEW w \in [L -> Int]
      PROVE  Summed(ValuesAt(WorthOf(w, L), Runs(days))) = Summed([j \in 1 .. Len(days) |-> w[days[j].like]])
  <2>0. ASSUME NEW a \in Seq(StretchesOf(L)), NEW e \in DatedWith(L)
        PROVE  Summed(ValuesAt(WorthOf(w, L), RunsWith(a, e))) = Summed(ValuesAt(WorthOf(w, L), a)) + w[e.like]
    BY RunsWithWorth
  <2> DEFINE f == [j \in 1 .. Len(days) |-> w[days[j].like]]
  <2>1. Len(f) = Len(days) /\ \A j \in 1 .. Len(days) : f[j] = w[days[j].like]
    BY <1>0
  <2> HIDE DEF f
  <2>2. PICK r : /\ DOMAIN r = 0 .. Len(f) /\ r[0] = 0
                 /\ \A i \in 1 .. Len(f) : r[i] = r[i - 1] + f[i]
                 /\ Summed(f) = r[Len(f)]
    BY <1>0, <2>1, Running
  <2> DEFINE U == {k \in Nat : Summed(ValuesAt(WorthOf(w, L), t[k])) = r[k]}
  <2>3. 0 \in U
    <3>1. ValuesAt(WorthOf(w, L), <<>>) = <<>>
      BY DEF ValuesAt
    <3> QED
      BY <1>1, <2>2, <3>1, SummedEmpty
  <2>4. ASSUME NEW k \in 0 .. Len(days) - 1, k \in U PROVE k + 1 \in U
    <3>1. k + 1 \in 1 .. Len(days) /\ (k + 1) - 1 = k /\ k + 1 \in Nat /\ k \in 0 .. Len(days)
      BY <1>0
    <3>2. t[k + 1] = RunsWith(t[k], days[k + 1]) /\ r[k + 1] = r[k] + w[days[k + 1].like]
      BY <1>1, <2>1, <2>2, <3>1
    <3>3. t[k] \in Seq(StretchesOf(L)) /\ days[k + 1] \in DatedWith(L)
      BY <1>0, <1>5, <3>1
    <3>4. Summed(ValuesAt(WorthOf(w, L), RunsWith(t[k], days[k + 1])))
            = Summed(ValuesAt(WorthOf(w, L), t[k])) + w[days[k + 1].like]
      BY <2>0, <3>3
    <3>5. Summed(ValuesAt(WorthOf(w, L), t[k])) = r[k]
      BY <2>4
    <3> QED
      BY <3>1, <3>2, <3>4, <3>5
  <2>5. Len(days) \in U
    <3> HIDE DEF U
    <3> QED
      BY <1>0, <2>3, <2>4, Along
  <2> QED
    BY <1>1, <2>1, <2>2, <2>5 DEF f
<1> QED
  BY <1>1, <1>4, <1>6

\* The stays put in order after each of them.
LEMMA StaysGrow ==
  ASSUME NEW s, Len(s) \in Nat
  PROVE  \E t : /\ t[0] = <<>>
                /\ \A i \in 1 .. Len(s) : t[i] = StayInPlace(t[i - 1], s[i])
                /\ StaysInPlace(s) = t[Len(s)]
<1> DEFINE Makes(n, t) == t = [i \in 0 .. n |-> IF i = 0 THEN <<>> ELSE StayInPlace(t[i - 1], s[i])]
           S == {n \in Nat : \E t : Makes(n, t)}
<1>1. 0 \in S
  <2>1. Makes(0, [i \in 0 .. 0 |-> <<>>])
    OBVIOUS
  <2> QED
    BY <2>1
<1>2. ASSUME NEW n \in Nat, n \in S PROVE n + 1 \in S
  <2>1. PICK t : Makes(n, t)
    BY <1>2
  <2> DEFINE last == StayInPlace(t[n], s[n + 1])
             u == [i \in 0 .. n + 1 |-> IF i = n + 1 THEN last ELSE t[i]]
  <2>2. Makes(n + 1, u)
    <3> SUFFICES ASSUME NEW i \in 0 .. n + 1
                 PROVE  u[i] = IF i = 0 THEN <<>> ELSE StayInPlace(u[i - 1], s[i])
      OBVIOUS
    <3>1. CASE i = n + 1
      BY <3>1
    <3>2. CASE i \in 0 .. n
      <4>1. u[i] = t[i] /\ (i # 0 => u[i - 1] = t[i - 1])
        BY <3>2
      <4>2. t[i] = IF i = 0 THEN <<>> ELSE StayInPlace(t[i - 1], s[i])
        BY <2>1, <3>2
      <4> HIDE DEF u
      <4> QED
        BY <4>1, <4>2
    <3> QED
      BY <3>1, <3>2
  <2> HIDE DEF u, Makes
  <2> QED
    BY <2>2
<1>3. Len(s) \in S
  <2> HIDE DEF S
  <2> QED
    BY <1>1, <1>2, SetInduction
<1>4. StaysInPlace(s) = (CHOOSE t : Makes(Len(s), t))[Len(s)]
  BY DEF StaysInPlace, Accumulate
<1>5. PICK t : t = (CHOOSE u : Makes(Len(s), u))
  OBVIOUS
<1>6. Makes(Len(s), t)
  BY <1>3, <1>5
<1>7. t[0] = <<>> /\ \A i \in 1 .. Len(s) : t[i] = StayInPlace(t[i - 1], s[i])
  <2>1. \A i \in 0 .. Len(s) : t[i] = IF i = 0 THEN <<>> ELSE StayInPlace(t[i - 1], s[i])
    BY <1>6
  <2>2. t[0] = <<>>
    BY <2>1
  <2>3. ASSUME NEW i \in 1 .. Len(s) PROVE t[i] = StayInPlace(t[i - 1], s[i])
    <3>1. i \in 0 .. Len(s) /\ i # 0
      OBVIOUS
    <3> QED
      BY <2>1, <3>1
  <2> QED
    BY <2>2, <2>3
<1>8. StaysInPlace(s) = t[Len(s)]
  BY <1>4, <1>5
<1> QED
  BY <1>7, <1>8

\* Stays put in order are the same stays, and come to the same.
LEMMA StaysInPlaceSound ==
  ASSUME NEW R, NEW rows \in Seq(R)
  PROVE  /\ StaysInPlace(rows) \in Seq(R)
         /\ \A v \in [R -> Int] : Summed(ValuesAt(v, StaysInPlace(rows))) = Summed(ValuesAt(v, rows))
<1> DEFINE n == Len(rows)
<1>0. n \in Nat /\ \A i \in 1 .. n : rows[i] \in R
  OBVIOUS
<1>1. PICK t : /\ t[0] = <<>>
               /\ \A i \in 1 .. Len(rows) : t[i] = StayInPlace(t[i - 1], rows[i])
               /\ StaysInPlace(rows) = t[Len(rows)]
  BY <1>0, StaysGrow
<1>2. ASSUME NEW s \in Seq(R), NEW x \in R
      PROVE  \E k \in 0 .. Len(s) : StayInPlace(s, x) = PutAfter(s, k, x)
  <2> DEFINE D == {i \in DOMAIN s : ~StayBefore(x, s[i])}
  <2>1. Len(s) \in Nat /\ D \in SUBSET (1 .. Len(s))
    OBVIOUS
  <2>2. StayInPlace(s, x) = PutAfter(s, Cardinality(D), x)
    BY DEF StayInPlace
  <2> HIDE DEF D
  <2>3. Cardinality(D) \in 0 .. Len(s)
    BY <2>1, PositionsCount
  <2> QED
    BY <2>2, <2>3
<1> DEFINE S == {k \in Nat : t[k] \in Seq(R)}
<1>3. 0 \in S
  <2>1. <<>> \in Seq(R)
    OBVIOUS
  <2> QED
    BY <1>1, <2>1
<1>4. ASSUME NEW k \in 0 .. n - 1, k \in S PROVE k + 1 \in S
  <2>1. k + 1 \in 1 .. n /\ (k + 1) - 1 = k /\ k + 1 \in Nat
    BY <1>0
  <2>2. t[k + 1] = StayInPlace(t[k], rows[k + 1]) /\ t[k] \in Seq(R) /\ rows[k + 1] \in R
    BY <1>0, <1>1, <1>4, <2>1
  <2>3. PICK m \in 0 .. Len(t[k]) : StayInPlace(t[k], rows[k + 1]) = PutAfter(t[k], m, rows[k + 1])
    BY <1>2, <2>2
  <2>4. PutAfter(t[k], m, rows[k + 1]) \in Seq(R)
    BY <2>2, PutAfterSeq
  <2> QED
    BY <2>1, <2>2, <2>3, <2>4
<1>5. n \in S /\ \A k \in 0 .. n : k \in S
  <2> HIDE DEF S, n
  <2> QED
    BY <1>0, <1>3, <1>4, Along
<1>6. ASSUME NEW v \in [R -> Int] PROVE Summed(ValuesAt(v, StaysInPlace(rows))) = Summed(ValuesAt(v, rows))
  <2> DEFINE f == ValuesAt(v, rows)
  <2>1. Len(f) = n /\ \A j \in 1 .. n : f[j] = v[rows[j]]
    BY ValuesSeq
  <2> HIDE DEF f
  <2>2. PICK r : /\ DOMAIN r = 0 .. Len(f) /\ r[0] = 0
                 /\ \A i \in 1 .. Len(f) : r[i] = r[i - 1] + f[i]
                 /\ Summed(f) = r[Len(f)]
    BY <1>0, <2>1, Running
  <2> DEFINE U == {k \in Nat : Summed(ValuesAt(v, t[k])) = r[k]}
  <2>3. 0 \in U
    <3>1. ValuesAt(v, <<>>) = <<>>
      BY DEF ValuesAt
    <3> QED
      BY <1>1, <2>2, <3>1, SummedEmpty
  <2>4. ASSUME NEW k \in 0 .. n - 1, k \in U PROVE k + 1 \in U
    <3>1. k + 1 \in 1 .. n /\ (k + 1) - 1 = k /\ k + 1 \in Nat /\ k \in 0 .. n
      BY <1>0
    <3>2. t[k + 1] = StayInPlace(t[k], rows[k + 1]) /\ r[k + 1] = r[k] + v[rows[k + 1]]
      BY <1>1, <2>1, <2>2, <3>1
    <3>3. t[k] \in Seq(R) /\ rows[k + 1] \in R
      BY <1>0, <1>5, <3>1
    <3>4. PICK m \in 0 .. Len(t[k]) : StayInPlace(t[k], rows[k + 1]) = PutAfter(t[k], m, rows[k + 1])
      BY <1>2, <3>3
    <3>5. Summed(ValuesAt(v, PutAfter(t[k], m, rows[k + 1]))) = Summed(ValuesAt(v, t[k])) + v[rows[k + 1]]
      BY <3>3, ValuesPut
    <3>6. Summed(ValuesAt(v, t[k])) = r[k]
      BY <2>4
    <3> QED
      BY <3>1, <3>2, <3>4, <3>5, <3>6
  <2>5. n \in U
    <3> HIDE DEF U, n
    <3> QED
      BY <1>0, <2>3, <2>4, Along
  <2> QED
    BY <1>1, <2>1, <2>2, <2>5 DEF f
<1> QED
  BY <1>1, <1>5, <1>6

-----------------------------------------------------------------------------
(* The stays of a preview, cut into common runs of days *)

\* What a segment has for each of its days.
Evenly(n, days) == n = (n \div days) * days

\* What is so much a day comes to as much each day.
LEMMA EvenlyTimes ==
  ASSUME NEW x \in Int, NEW days \in Nat \ {0}, NEW n, n = x * days
  PROVE  n \in Int /\ Evenly(n, days)
<1>1. n \in Int
  OBVIOUS
<1> DEFINE q == n \div days  z == n % days
<1>2. q \in Int /\ z \in 0 .. days - 1 /\ n = days * q + z
  BY <1>1
<1> HIDE DEF q, z
<1>3. days * (x - q) = z
  BY <1>2
<1>4. CASE x - q >= 1
  <2>1. days * (x - q) >= days
    BY <1>2, <1>4
  <2> QED
    BY <1>2, <1>3, <2>1
<1>5. CASE x - q <= -1
  <2>1. days * (x - q) <= -days
    BY <1>2, <1>5
  <2> QED
    BY <1>2, <1>3, <2>1
<1>6. CASE x = q
  BY <1>1, <1>6 DEF Evenly, q
<1> QED
  BY <1>2, <1>4, <1>5, <1>6

\* A segment has its pallets on each of its days, a part of them free, and is billed
\* what is gross less the discount.
SoundSegments ==
  {g \in SegmentRecords :
     /\ g.start <= g.end /\ g.days = g.end - g.start + 1 /\ g.pallets > 0
     /\ g.palletDays = g.pallets * g.days
     /\ Evenly(g.free, g.days) /\ Evenly(g.gross, g.days) /\ Evenly(g.discount, g.days)
     /\ g.amount = g.gross - g.discount}

\* The segments of a stay are in the period, and no day is in two of them.
SegmentsFit(segments, lo, hi) ==
  /\ segments \in Seq(SoundSegments)
  /\ \A i \in 1 .. Len(segments) : lo <= segments[i].start /\ segments[i].end <= hi
  /\ \A i, h \in 1 .. Len(segments), d \in Int : Covers(segments[i], d) /\ Covers(segments[h], d) => i = h

\* A run of days with pallets is such a segment.
LEMMA SegmentOfSound ==
  ASSUME NEW run \in RunsOfDays, run.start <= run.end, run.like.pallets > 0, NEW daily \in Int
  PROVE  /\ SegmentOf(run, daily) \in SoundSegments
         /\ SegmentOf(run, daily).start = run.start /\ SegmentOf(run, daily).end = run.end
<1> DEFINE days == run.end - run.start + 1
           pallets == run.like.pallets
           part == run.like.free
<1>1. /\ run.start \in Int /\ run.end \in Int /\ days \in Nat \ {0}
      /\ pallets \in Int /\ part \in Int
  BY DEF RunsOfDays
<1> DEFINE palletDays == pallets * days
           free == part * days
           g == SegmentOf(run, daily)
<1>5. g = [start |-> run.start, end |-> run.end, pallets |-> pallets, days |-> days,
           palletDays |-> palletDays, free |-> free, billable |-> palletDays - free,
           gross |-> palletDays * daily, discount |-> free * daily,
           amount |-> (palletDays - free) * daily]
  BY DEF SegmentOf
<1>6. pallets > 0 /\ days = run.end - run.start + 1
  OBVIOUS
<1> HIDE DEF days, pallets, part, g
<1>2. palletDays \in Int /\ free \in Int
  BY <1>1
<1>3. Evenly(free, days)
  BY <1>1, EvenlyTimes
<1>4. Evenly(palletDays * daily, days) /\ Evenly(free * daily, days)
  <2>1. palletDays * daily = (pallets * daily) * days /\ free * daily = (part * daily) * days
    BY <1>1
  <2>2. pallets * daily \in Int /\ part * daily \in Int
    BY <1>1
  <2> QED
    BY <1>1, <2>1, <2>2, EvenlyTimes
<1>7. palletDays = pallets * days
  OBVIOUS
<1> HIDE DEF palletDays, free
<1>8. palletDays - free \in Int /\ palletDays * daily \in Int /\ free * daily \in Int
  BY <1>2
<1>9. (palletDays - free) * daily = palletDays * daily - free * daily
  BY <1>2
<1> DEFINE gross == palletDays * daily  discount == free * daily  amount == (palletDays - free) * daily
<1>10. gross \in Int /\ discount \in Int /\ amount \in Int /\ amount = gross - discount
  BY <1>8, <1>9
<1>11. Evenly(gross, days) /\ Evenly(discount, days)
  BY <1>4
<1>12. g = [start |-> run.start, end |-> run.end, pallets |-> pallets, days |-> days,
           palletDays |-> palletDays, free |-> free, billable |-> palletDays - free,
           gross |-> gross, discount |-> discount, amount |-> amount]
  BY <1>5
<1> HIDE DEF gross, discount, amount
<1>13. g \in SegmentRecords
  BY <1>1, <1>2, <1>8, <1>10, <1>12 DEF SegmentRecords
<1>14. /\ g.start <= g.end /\ g.days = g.end - g.start + 1 /\ g.pallets > 0
       /\ g.palletDays = g.pallets * g.days
       /\ Evenly(g.free, g.days) /\ Evenly(g.gross, g.days) /\ Evenly(g.discount, g.days)
       /\ g.amount = g.gross - g.discount
  BY <1>3, <1>6, <1>7, <1>10, <1>11, <1>12
<1> QED
  BY <1>12, <1>13, <1>14 DEF SoundSegments, g

\* The segments of daily balances fit the days of the balances.
LEMMA SegmentsSound ==
  ASSUME NEW balances \in Seq(BalancedDays), NEW daily \in Int, NEW lo \in Int, NEW hi \in Int,
         \A i \in 1 .. Len(balances) : lo <= balances[i].day /\ balances[i].day <= hi,
         \A i, j \in 1 .. Len(balances) : balances[i].day = balances[j].day => i = j
  PROVE  SegmentsFit(Segments(balances, daily), lo, hi)
<1> DEFINE L == [pallets : Int, free : Int]
           A == {d \in ToSet(balances) : d.like.pallets > 0}
           days == Only(balances, A)
           runs == Runs(days)
           f == [i \in DOMAIN runs |-> SegmentOf(runs[i], daily)]
<1>1. BalancedDays = DatedWith(L) /\ RunsOfDays = StretchesOf(L)
  BY DEF BalancedDays, DatedWith, RunsOfDays, StretchesOf
<1>2. /\ days \in Seq(BalancedDays \cap A)
      /\ \E e \in [1 .. Len(days) -> 1 .. Len(balances)] :
              /\ \A j \in 1 .. Len(days) : days[j] = balances[e[j]]
              /\ \A j, k \in 1 .. Len(days) : j < k => e[j] < e[k]
  BY OnlyEmbeds
<1>3. \A x \in A : x.like.pallets > 0
  OBVIOUS
<1>4. Segments(balances, daily) = <<>> \o f
  BY DEF Segments, Each
<1> HIDE DEF A, days
<1>5. PICK e \in [1 .. Len(days) -> 1 .. Len(balances)] :
        /\ \A j \in 1 .. Len(days) : days[j] = balances[e[j]]
        /\ \A j, k \in 1 .. Len(days) : j < k => e[j] < e[k]
  BY <1>2
<1>6. Len(days) \in Nat /\ Len(balances) \in Nat /\ days \in Seq(DatedWith(L))
      /\ \A j \in 1 .. Len(days) : days[j].like.pallets > 0
  BY <1>1, <1>2, <1>3
<1>7. \A i, j \in 1 .. Len(days) : days[i].day = days[j].day => i = j
  <2> SUFFICES ASSUME NEW i \in 1 .. Len(days), NEW j \in 1 .. Len(days), days[i].day = days[j].day
               PROVE  i = j
    OBVIOUS
  <2>1. e[i] = e[j]
    <3>1. /\ e[i] \in 1 .. Len(balances) /\ e[j] \in 1 .. Len(balances)
          /\ days[i] = balances[e[i]] /\ days[j] = balances[e[j]]
      BY <1>5
    <3>2. balances[e[i]].day = balances[e[j]].day
      BY <3>1
    <3> QED
      BY <3>1, <3>2
  <2>2. e[i] \in Nat /\ e[j] \in Nat
    BY <1>6
  <2>3. ~(i < j) /\ ~(j < i)
    BY <1>5, <2>1, <2>2
  <2> QED
    BY <1>6, <2>3
<1> HIDE DEF L
<1>8. RunsTell(runs, days, Len(days), L)
  BY <1>6, <1>7, RunsSound
<1> HIDE DEF runs
<1>9. /\ runs \in Seq(RunsOfDays) /\ Len(runs) \in Nat /\ DOMAIN runs = 1 .. Len(runs)
      /\ \A i \in 1 .. Len(runs) : runs[i] \in RunsOfDays
  BY <1>1, <1>8 DEF RunsTell
<1>10. \A i \in 1 .. Len(runs) : runs[i].start <= runs[i].end /\ runs[i].start \in Int /\ runs[i].end \in Int
  BY <1>8, <1>9 DEF RunsTell, RunsOfDays
<1>11. ASSUME NEW i \in 1 .. Len(runs)
       PROVE  /\ runs[i].like.pallets > 0 /\ lo <= runs[i].start /\ runs[i].end <= hi
  <2>1. Covers(runs[i], runs[i].start) /\ Covers(runs[i], runs[i].end)
    BY <1>10 DEF Covers
  <2>2. \A d \in Int : Covers(runs[i], d) => \E j \in 1 .. Len(days) : days[j].day = d /\ days[j].like = runs[i].like
    BY <1>8 DEF RunsTell
  <2>3. PICK j \in 1 .. Len(days) : days[j].day = runs[i].start /\ days[j].like = runs[i].like
    BY <1>10, <2>1, <2>2
  <2>4. PICK k \in 1 .. Len(days) : days[k].day = runs[i].end
    BY <1>10, <2>1, <2>2
  <2>5. lo <= days[j].day /\ days[k].day <= hi
    BY <1>5
  <2> QED
    BY <1>6, <2>3, <2>4, <2>5
<1>12. f = [i \in 1 .. Len(runs) |-> f[i]] /\ \A i \in 1 .. Len(runs) : f[i] = SegmentOf(runs[i], daily)
  BY <1>9
<1> HIDE DEF f
<1>13. \A i \in 1 .. Len(runs) : f[i] \in SoundSegments /\ f[i].start = runs[i].start /\ f[i].end = runs[i].end
  BY <1>9, <1>10, <1>11, <1>12, SegmentOfSound
<1>14. <<>> \o f = f /\ f \in Seq(SoundSegments) /\ Len(f) = Len(runs)
  BY <1>9, <1>12, <1>13, EachSeq
<1>15. \A i \in 1 .. Len(f) : lo <= f[i].start /\ f[i].end <= hi
  BY <1>11, <1>13, <1>14
<1>16. \A i, h \in 1 .. Len(f), d \in Int : Covers(f[i], d) /\ Covers(f[h], d) => i = h
  <2>1. \A i, h \in 1 .. Len(runs), d \in Int : Covers(runs[i], d) /\ Covers(runs[h], d) => i = h
    BY <1>8 DEF RunsTell
  <2>2. \A i \in 1 .. Len(runs), d \in Int : Covers(f[i], d) <=> Covers(runs[i], d)
    BY <1>13 DEF Covers
  <2> QED
    BY <1>14, <2>1, <2>2
<1> QED
  BY <1>4, <1>14, <1>15, <1>16 DEF SegmentsFit

\* The segments of a stay fit the period, and the stay comes to what they do.
StayFits(row, lo, hi) ==
  /\ row.container \in Containers /\ SegmentsFit(row.segments, lo, hi)
  /\ row.palletDays = TotalOf(LAMBDA s : s.palletDays, row.segments)
  /\ row.free = TotalOf(LAMBDA s : s.free, row.segments)
  /\ row.amount = TotalOf(LAMBDA s : s.amount, row.segments)

\* The stay of a container has segments in the period and adds them up.
LEMMA StorageRowStays ==
  ASSUME NEW r \in Seq(PalletMoves), NEW scope, ScopeSound(scope), NEW c \in Containers
  PROVE  StayFits(StorageRow(r, scope, c), scope.start, scope.end)
<1> DEFINE first == Min(ReceiptDays(r, c))
           until == first + FreeDays(scope, c)
           balances == DailyBalancesOf(r, scope, c, until)
           segments == Segments(balances, DailyRate(scope, c))
           n == scope.end - scope.start + 1
           days == Days(scope.start, scope.end)
           f == [i \in DOMAIN days |-> BalanceOfDay(days[i], BalanceAt(r, c, days[i]), until)]
<1>1. DailyRate(scope, c) \in Int /\ scope.start \in Int /\ scope.end \in Int
  BY DEF ScopeSound, DailyRate
<1>2. StorageRow(r, scope, c) = StorageRowOf(r, scope, c, first, segments)
  BY DEF StorageRow, StorageRowFrom
<1>3. balances \in Seq(BalancedDays)
  BY BalancesSeq
<1>4. n \in Nat /\ DOMAIN days = 1 .. n /\ \A i \in 1 .. n : days[i] = scope.start + i - 1
  BY DEF Days, ScopeSound
<1>5. balances = <<>> \o f
  BY DEF DailyBalancesOf, Each
<1>6. \A i \in 1 .. n : f[i].day = days[i]
  BY <1>4 DEF BalanceOfDay
<1>7. f = [i \in 1 .. n |-> f[i]]
  BY <1>4
<1> HIDE DEF first, until, days, n, f
<1>8. <<>> \o f = f /\ Len(f) = n
  <2> DEFINE R == {f[i] : i \in 1 .. n}
  <2>1. \A i \in 1 .. n : f[i] \in R
    OBVIOUS
  <2> HIDE DEF R
  <2> QED
    BY <1>4, <1>7, <2>1, EachSeq
<1> HIDE DEF balances
<1>9. \A i \in 1 .. Len(balances) : scope.start <= balances[i].day /\ balances[i].day <= scope.end
  <2>1. \A i \in 1 .. n : scope.start <= scope.start + i - 1 /\ scope.start + i - 1 <= scope.end
    BY <1>1, <1>4 DEF n
  <2> QED
    BY <1>4, <1>5, <1>6, <1>8, <2>1
<1>10. \A i, j \in 1 .. Len(balances) : balances[i].day = balances[j].day => i = j
  <2>1. ASSUME NEW i \in 1 .. n, NEW j \in 1 .. n, f[i].day = f[j].day PROVE i = j
    <3>1. f[i].day = scope.start + i - 1 /\ f[j].day = scope.start + j - 1
      BY <1>4, <1>6
    <3>2. scope.start + i - 1 = scope.start + j - 1
      BY <2>1, <3>1
    <3>3. i \in Int /\ j \in Int /\ scope.start \in Int
      BY <1>1, <1>4
    <3> QED
      BY <3>2, <3>3
  <2>2. balances = f /\ Len(balances) = n
    BY <1>5, <1>8
  <2> QED
    BY <2>1, <2>2
<1>11. SegmentsFit(segments, scope.start, scope.end)
  BY <1>1, <1>3, <1>9, <1>10, SegmentsSound
<1> HIDE DEF segments
<1>12. LET row == StorageRowOf(r, scope, c, first, segments)
       IN  /\ row.container = c /\ row.segments = segments
           /\ row.palletDays = TotalOf(LAMBDA s : s.palletDays, segments)
           /\ row.free = TotalOf(LAMBDA s : s.free, segments)
           /\ row.amount = TotalOf(LAMBDA s : s.amount, segments)
  BY DEF StorageRowOf
<1> QED
  BY <1>2, <1>11, <1>12 DEF StayFits

\* The segments of all stays, with their containers, and what they have a day.
Marked == [container : Containers, segment : SoundSegments]
MarkedOf(row) == [j \in DOMAIN row.segments |-> [container |-> row.container, segment |-> row.segments[j]]]
CoveringOn(d) == {s \in Marked : Covers(s.segment, d)}

DayPallets == [s \in Marked |-> s.segment.pallets]
DayFree == [s \in Marked |-> s.segment.free \div s.segment.days]
DayGross == [s \in Marked |-> s.segment.gross \div s.segment.days]
DayDiscount == [s \in Marked |-> s.segment.discount \div s.segment.days]
DayAmount == [s \in Marked |-> DayGross[s] - DayDiscount[s]]

\* What they have on a day, and on all of theirs.
OnThe(d, v) == [s \in Marked |-> IF Covers(s.segment, d) THEN v[s] ELSE 0]
OnAll(v) == [s \in Marked |-> v[s] * s.segment.days]

\* A segment has whole quantities a day, and as many of them as it has days.
LEMMA DayQuantities ==
  /\ DayPallets \in [Marked -> Int] /\ DayFree \in [Marked -> Int] /\ DayGross \in [Marked -> Int]
  /\ DayDiscount \in [Marked -> Int] /\ DayAmount \in [Marked -> Int]
  /\ \A s \in Marked :
       /\ s.segment.start \in Int /\ s.segment.end \in Int /\ s.segment.start <= s.segment.end
       /\ s.segment.days = s.segment.end - s.segment.start + 1 /\ DayPallets[s] > 0
       /\ s.segment.palletDays = OnAll(DayPallets)[s] /\ s.segment.free = OnAll(DayFree)[s]
       /\ s.segment.amount = OnAll(DayAmount)[s]
<1>1. ASSUME NEW s \in Marked
      PROVE  /\ s.segment \in SegmentRecords /\ s.segment.start <= s.segment.end
             /\ s.segment.days = s.segment.end - s.segment.start + 1 /\ s.segment.pallets > 0
             /\ s.segment.palletDays = s.segment.pallets * s.segment.days
             /\ Evenly(s.segment.free, s.segment.days) /\ Evenly(s.segment.gross, s.segment.days)
             /\ Evenly(s.segment.discount, s.segment.days) /\ s.segment.amount = s.segment.gross - s.segment.discount
  BY DEF Marked, SoundSegments
<1>2. \A s \in Marked :
        /\ s.segment.start \in Int /\ s.segment.end \in Int /\ s.segment.pallets \in Int /\ s.segment.free \in Int
        /\ s.segment.gross \in Int /\ s.segment.discount \in Int
  BY <1>1 DEF SegmentRecords
<1>3. \A s \in Marked : s.segment.days \in Nat \ {0}
  BY <1>1, <1>2
<1>4. \A n \in Int, days \in Nat \ {0} : n \div days \in Int
  OBVIOUS
<1>5. /\ DayPallets \in [Marked -> Int] /\ DayFree \in [Marked -> Int] /\ DayGross \in [Marked -> Int]
      /\ DayDiscount \in [Marked -> Int]
  BY <1>2, <1>3, <1>4 DEF DayPallets, DayFree, DayGross, DayDiscount
<1>6. DayAmount \in [Marked -> Int]
  BY <1>5 DEF DayAmount
<1>7. ASSUME NEW s \in Marked
      PROVE  /\ s.segment.palletDays = OnAll(DayPallets)[s] /\ s.segment.free = OnAll(DayFree)[s]
             /\ s.segment.amount = OnAll(DayAmount)[s]
  <2>1. s.segment.palletDays = OnAll(DayPallets)[s] /\ s.segment.free = OnAll(DayFree)[s]
    BY <1>1 DEF OnAll, DayPallets, DayFree, Evenly
  <2> DEFINE days == s.segment.days  g == DayGross[s]  x == DayDiscount[s]
  <2>2. s.segment.gross = g * days /\ s.segment.discount = x * days /\ DayAmount[s] = g - x
    BY <1>1 DEF DayGross, DayDiscount, DayAmount, Evenly
  <2>3. OnAll(DayAmount)[s] = DayAmount[s] * days
    BY DEF OnAll
  <2>4. g \in Int /\ x \in Int /\ days \in Int
    BY <1>3, <1>5
  <2> HIDE DEF days, g, x
  <2>5. (g - x) * days = g * days - x * days
    BY <2>4
  <2>6. s.segment.amount = OnAll(DayAmount)[s]
    BY <1>1, <2>2, <2>3, <2>5
  <2> QED
    BY <2>1, <2>6
<1>8. \A s \in Marked : DayPallets[s] > 0
  BY <1>1 DEF DayPallets
<1> QED
  BY <1>1, <1>2, <1>5, <1>6, <1>7, <1>8

\* What they have on a day or on all are numbers too.
LEMMA DayTypes ==
  ASSUME NEW v \in [Marked -> Int]
  PROVE  OnAll(v) \in [Marked -> Int] /\ \A d : OnThe(d, v) \in [Marked -> Int]
<1>1. \A s \in Marked : s.segment.days \in Int /\ v[s] \in Int
  BY DayQuantities
<1>2. \A s \in Marked : v[s] * s.segment.days \in Int
  BY <1>1
<1> QED
  BY <1>1, <1>2 DEF OnAll, OnThe

\* A total over a list is the sum of its elements' quantities.
LEMMA TotalIs ==
  ASSUME NEW R, NEW v \in [R -> Int], NEW k \in Seq(R), NEW f, f = [j \in DOMAIN k |-> v[k[j]]]
  PROVE  Summed(<<>> \o f) = Summed(ValuesAt(v, k))
<1>1. DOMAIN k = 1 .. Len(k)
  OBVIOUS
<1>2. f = ValuesAt(v, k)
  BY <1>1 DEF ValuesAt
<1>3. f \in Seq(Int)
  BY <1>2, ValuesSeq
<1>4. <<>> \o f = f
  BY <1>3
<1> QED
  BY <1>2, <1>4

\* The segments of a stay, with its container.
LEMMA MarkedOfSeq ==
  ASSUME NEW row, NEW lo, NEW hi, StayFits(row, lo, hi)
  PROVE  /\ MarkedOf(row) \in Seq(Marked) /\ Len(MarkedOf(row)) = Len(row.segments)
         /\ \A j \in 1 .. Len(row.segments) :
              MarkedOf(row)[j] = [container |-> row.container, segment |-> row.segments[j]]
         /\ <<>> \o MarkedOf(row) = MarkedOf(row)
<1>1. /\ row.container \in Containers /\ row.segments \in Seq(SoundSegments)
  BY DEF StayFits, SegmentsFit
<1> DEFINE n == Len(row.segments)
<1>2. n \in Nat /\ DOMAIN row.segments = 1 .. n /\ \A j \in 1 .. n : row.segments[j] \in SoundSegments
  BY <1>1
<1> HIDE DEF n
<1>3. \A j \in 1 .. n : MarkedOf(row)[j] = [container |-> row.container, segment |-> row.segments[j]]
  BY <1>2 DEF MarkedOf
<1>4. \A j \in 1 .. n : MarkedOf(row)[j] \in Marked
  <2>1. ASSUME NEW c \in Containers, NEW s \in SoundSegments PROVE [container |-> c, segment |-> s] \in Marked
    BY DEF Marked
  <2> QED
    BY <1>1, <1>2, <1>3, <2>1
<1>5. MarkedOf(row) = [j \in 1 .. n |-> MarkedOf(row)[j]]
  BY <1>2 DEF MarkedOf
<1>6. <<>> \o MarkedOf(row) = MarkedOf(row) /\ MarkedOf(row) \in Seq(Marked) /\ Len(MarkedOf(row)) = n
  BY <1>2, <1>4, <1>5, EachSeq
<1> QED
  BY <1>3, <1>6 DEF n

\* What a stay adds up are its segments' quantities.
LEMMA StayTotals ==
  ASSUME NEW row, NEW lo, NEW hi, StayFits(row, lo, hi)
  PROVE  /\ row.palletDays = Summed(ValuesAt(OnAll(DayPallets), MarkedOf(row)))
         /\ row.free = Summed(ValuesAt(OnAll(DayFree), MarkedOf(row)))
         /\ row.amount = Summed(ValuesAt(OnAll(DayAmount), MarkedOf(row)))
<1> DEFINE n == Len(row.segments)  k == MarkedOf(row)
           f1 == [j \in DOMAIN row.segments |-> row.segments[j].palletDays]
           f2 == [j \in DOMAIN row.segments |-> row.segments[j].free]
           f3 == [j \in DOMAIN row.segments |-> row.segments[j].amount]
<1>1. /\ row.palletDays = Summed(<<>> \o f1) /\ row.free = Summed(<<>> \o f2) /\ row.amount = Summed(<<>> \o f3)
  BY DEF StayFits, TotalOf, Each
<1>2. /\ k \in Seq(Marked) /\ Len(k) = n
      /\ \A j \in 1 .. n : k[j] = [container |-> row.container, segment |-> row.segments[j]]
  BY MarkedOfSeq
<1>3. row.segments \in Seq(SoundSegments)
  BY DEF StayFits, SegmentsFit
<1>4. DOMAIN row.segments = 1 .. n /\ DOMAIN k = 1 .. n /\ n \in Nat
  BY <1>2, <1>3
<1> HIDE DEF k, n
<1>5. \A j \in 1 .. n : k[j] \in Marked /\ k[j].segment = row.segments[j]
  BY <1>2, <1>4
<1>6. \A j \in 1 .. n : /\ row.segments[j].palletDays = OnAll(DayPallets)[k[j]]
                        /\ row.segments[j].free = OnAll(DayFree)[k[j]]
                        /\ row.segments[j].amount = OnAll(DayAmount)[k[j]]
  BY <1>5, DayQuantities
<1>7. /\ f1 = [j \in DOMAIN k |-> OnAll(DayPallets)[k[j]]]
      /\ f2 = [j \in DOMAIN k |-> OnAll(DayFree)[k[j]]]
      /\ f3 = [j \in DOMAIN k |-> OnAll(DayAmount)[k[j]]]
  BY <1>4, <1>6
<1> HIDE DEF f1, f2, f3
<1>8. OnAll(DayPallets) \in [Marked -> Int] /\ OnAll(DayFree) \in [Marked -> Int] /\ OnAll(DayAmount) \in [Marked -> Int]
  BY DayQuantities, DayTypes
<1>9. Summed(<<>> \o f1) = Summed(ValuesAt(OnAll(DayPallets), k))
  BY <1>2, <1>7, <1>8, TotalIs
<1>10. Summed(<<>> \o f2) = Summed(ValuesAt(OnAll(DayFree), k))
  BY <1>2, <1>7, <1>8, TotalIs
<1>11. Summed(<<>> \o f3) = Summed(ValuesAt(OnAll(DayAmount), k))
  BY <1>2, <1>7, <1>8, TotalIs
<1> QED
  BY <1>1, <1>9, <1>10, <1>11 DEF k

\* The balance of a stay on a day is the pallets of the segment that covers it.
LEMMA StayBalance ==
  ASSUME NEW row, NEW lo, NEW hi, StayFits(row, lo, hi), NEW d \in Int
  PROVE  BalanceOn(row.segments, d) = Summed(ValuesAt(OnThe(d, DayPallets), MarkedOf(row)))
<1> DEFINE g == row.segments  n == Len(row.segments)  k == MarkedOf(row)
           x == ValuesAt(OnThe(d, DayPallets), k)
           D == UNION {s.start .. s.end : s \in ToSet(g)}
<1>1. /\ k \in Seq(Marked) /\ Len(k) = n
      /\ \A j \in 1 .. n : k[j] = [container |-> row.container, segment |-> g[j]]
  BY MarkedOfSeq
<1>2. /\ g \in Seq(SoundSegments)
      /\ \A i, h \in 1 .. n, e \in Int : Covers(g[i], e) /\ Covers(g[h], e) => i = h
  BY DEF StayFits, SegmentsFit
<1> HIDE DEF k
<1>3. n \in Nat /\ DOMAIN g = 1 .. n /\ \A j \in 1 .. n : k[j] \in Marked /\ k[j].segment = g[j]
  <2>1. n \in Nat /\ DOMAIN g = 1 .. n
    BY <1>2
  <2>2. \A j \in 1 .. n : k[j] \in Marked
    BY <1>1, <2>1
  <2>3. ASSUME NEW j \in 1 .. n PROVE k[j].segment = g[j]
    <3>1. k[j] = [container |-> row.container, segment |-> g[j]]
      BY <1>1
    <3> QED
      BY <3>1
  <2> QED
    BY <2>1, <2>2, <2>3
<1>4. \A j \in 1 .. n : g[j].start \in Int /\ g[j].end \in Int /\ g[j].pallets = DayPallets[k[j]]
  BY <1>3, DayQuantities DEF DayPallets
<1>5. OnThe(d, DayPallets) \in [Marked -> Int]
  BY DayQuantities, DayTypes
<1>6. x \in Seq(Int) /\ Len(x) = n /\ \A j \in 1 .. n : x[j] = OnThe(d, DayPallets)[k[j]]
  BY <1>1, <1>5, ValuesSeq
<1> HIDE DEF x
<1>7. \A j \in 1 .. n : x[j] = IF Covers(g[j], d) THEN g[j].pallets ELSE 0
  BY <1>3, <1>4, <1>6 DEF OnThe
<1>8. ToSet(g) = {g[j] : j \in 1 .. n}
  BY <1>3 DEF ToSet
<1>9. d \in D <=> \E j \in 1 .. n : Covers(g[j], d)
  <2>1. \A j \in 1 .. n : d \in g[j].start .. g[j].end <=> Covers(g[j], d)
    BY <1>4 DEF Covers
  <2> QED
    BY <1>8, <2>1
<1>10. BalanceOn(g, d) = IF d \in D THEN (CHOOSE s \in ToSet(g) : s.start <= d /\ d <= s.end).pallets ELSE 0
  BY DEF BalanceOn, On, DailyBalances
<1> HIDE DEF D, g, n
<1>11. CASE \E j \in 1 .. n : Covers(g[j], d)
  <2>1. PICK j \in 1 .. n : Covers(g[j], d)
    BY <1>11
  <2> DEFINE s == CHOOSE s \in ToSet(g) : s.start <= d /\ d <= s.end
  <2>2. \E q \in ToSet(g) : q.start <= d /\ d <= q.end
    BY <1>8, <2>1 DEF Covers
  <2>3. s \in ToSet(g) /\ s.start <= d /\ d <= s.end
    BY <2>2
  <2>4. BalanceOn(g, d) = s.pallets
    BY <1>9, <1>10, <1>11
  <2> HIDE DEF s
  <2>5. PICK h \in 1 .. n : s = g[h]
    BY <1>8, <2>3
  <2>6. h = j
    BY <1>2, <2>1, <2>3, <2>5 DEF Covers, g, n
  <2>7. \A i \in 1 .. n : i # j => ~Covers(g[i], d)
    BY <1>2, <2>1 DEF g, n
  <2>8. j \in 1 .. Len(x) /\ x[j] = g[j].pallets /\ \A i \in 1 .. Len(x) : i # j => x[i] = 0
    BY <1>6, <1>7, <2>1, <2>7
  <2>9. Summed(x) = x[j]
    BY <1>6, <2>8, SummedSingle
  <2> QED
    BY <2>4, <2>5, <2>6, <2>8, <2>9 DEF x, k, g
<1>12. CASE ~\E j \in 1 .. n : Covers(g[j], d)
  <2>1. \A j \in 1 .. Len(x) : x[j] = 0
    BY <1>6, <1>7, <1>12
  <2>2. Summed(x) = 0
    BY <1>6, <2>1, SummedZero
  <2> QED
    BY <1>9, <1>10, <1>12, <2>2 DEF x, k, g
<1> QED
  BY <1>11, <1>12

\* Segments in the period.
MarkedIn(lo, hi) == {s \in Marked : lo <= s.segment.start /\ s.segment.end <= hi}

\* Each stay's quantities.
StayValues(v, rows) == [i \in 1 .. Len(rows) |-> Summed(ValuesAt(v, MarkedOf(rows[i])))]

\* The segments of all stays have the quantities of each.
LEMMA SegmentRowsSound ==
  ASSUME NEW R, NEW rows \in Seq(R), NEW lo \in Int, NEW hi \in Int, \A i \in 1 .. Len(rows) : StayFits(rows[i], lo, hi)
  PROVE  /\ SegmentRows(rows) \in Seq(MarkedIn(lo, hi)) /\ SegmentRows(rows) \in Seq(Marked)
         /\ \A v \in [Marked -> Int] : /\ StayValues(v, rows) \in Seq(Int)
                                       /\ Summed(ValuesAt(v, SegmentRows(rows))) = Summed(StayValues(v, rows))
<1> DEFINE n == Len(rows)
           F == [i \in 1 .. n |-> MarkedOf(rows[i])]
           G == [i \in DOMAIN rows |-> <<>> \o [j \in DOMAIN rows[i].segments |->
                  [container |-> rows[i].container, segment |-> rows[i].segments[j]]]]
<1>1. n \in Nat /\ DOMAIN rows = 1 .. n
  OBVIOUS
<1>2. ASSUME NEW i \in 1 .. n
      PROVE  /\ MarkedOf(rows[i]) \in Seq(Marked) /\ MarkedOf(rows[i]) \in Seq(MarkedIn(lo, hi))
             /\ <<>> \o MarkedOf(rows[i]) = MarkedOf(rows[i])
  <2> DEFINE row == rows[i]  k == MarkedOf(row)
  <2>1. /\ k \in Seq(Marked) /\ Len(k) = Len(row.segments) /\ <<>> \o k = k
        /\ \A j \in 1 .. Len(row.segments) : k[j] = [container |-> row.container, segment |-> row.segments[j]]
    BY MarkedOfSeq
  <2>2. \A j \in 1 .. Len(row.segments) : lo <= row.segments[j].start /\ row.segments[j].end <= hi
    BY DEF StayFits, SegmentsFit
  <2> HIDE DEF k, row
  <2>3. ASSUME NEW j \in 1 .. Len(k) PROVE k[j] \in MarkedIn(lo, hi)
    <3>1. k[j] \in Marked /\ k[j] = [container |-> row.container, segment |-> row.segments[j]]
      BY <2>1
    <3>2. k[j].segment = row.segments[j]
      BY <3>1
    <3> QED
      BY <2>1, <2>2, <3>1, <3>2 DEF MarkedIn
  <2>4. IsList(k)
    BY <2>1, ListIntro
  <2>5. k \in Seq(MarkedIn(lo, hi))
    BY <2>3, <2>4, ListElim
  <2> QED
    BY <2>1, <2>5 DEF k, row
<1>3. SegmentRows(rows) = Joined(<<>> \o G)
  BY DEF SegmentRows, Each
<1>4. G = F
  <2>1. \A i \in 1 .. n : <<>> \o MarkedOf(rows[i]) = MarkedOf(rows[i])
    BY <1>2
  <2> QED
    BY <1>1, <2>1 DEF MarkedOf
<1> HIDE DEF n, G
<1>5. <<>> \o F = F /\ Len(F) = n
  <2> DEFINE S == {F[i] : i \in 1 .. n}
  <2>1. F = [i \in 1 .. n |-> F[i]] /\ \A i \in 1 .. n : F[i] \in S
    OBVIOUS
  <2> HIDE DEF F, S
  <2> QED
    BY <1>1, <2>1, EachSeq
<1>6. \A i \in 1 .. n : F[i] = MarkedOf(rows[i])
  OBVIOUS
<1> HIDE DEF F
<1>7. SegmentRows(rows) = Joined(F)
  BY <1>3, <1>4, <1>5
<1>8. SegmentRows(rows) \in Seq(MarkedIn(lo, hi)) /\ SegmentRows(rows) \in Seq(Marked)
  <2>1. Len(F) \in Nat /\ \A i \in 1 .. Len(F) : F[i] \in Seq(Marked)
    BY <1>1, <1>2, <1>5, <1>6
  <2>2. \A i \in 1 .. Len(F) : F[i] \in Seq(MarkedIn(lo, hi))
    BY <1>2, <1>5, <1>6
  <2>3. Joined(F) \in Seq(Marked)
    BY <2>1, JoinedSeq
  <2>4. Joined(F) \in Seq(MarkedIn(lo, hi))
    BY <2>1, <2>2, JoinedSeq
  <2> QED
    BY <1>7, <2>3, <2>4
<1>9. ASSUME NEW v \in [Marked -> Int]
      PROVE  /\ StayValues(v, rows) \in Seq(Int)
             /\ Summed(ValuesAt(v, SegmentRows(rows))) = Summed(StayValues(v, rows))
  <2>1. Len(F) \in Nat /\ \A i \in 1 .. Len(F) : F[i] \in Seq(Marked)
    BY <1>1, <1>2, <1>5, <1>6
  <2>2. Summed(ValuesAt(v, Joined(F))) = Summed([i \in 1 .. Len(F) |-> Summed(ValuesAt(v, F[i]))])
    BY <2>1, ValuesJoined
  <2>3. [i \in 1 .. Len(F) |-> Summed(ValuesAt(v, F[i]))] = StayValues(v, rows)
    BY <1>5, <1>6 DEF StayValues, n
  <2>4. \A i \in 1 .. n : Summed(ValuesAt(v, MarkedOf(rows[i]))) \in Int
    <3> TAKE i \in 1 .. n
    <3>1. ValuesAt(v, MarkedOf(rows[i])) \in Seq(Int)
      BY <1>2, ValuesSeq
    <3> QED
      BY <3>1, SummedInt
  <2>5. StayValues(v, rows) \in [1 .. n -> Int]
    BY <2>4 DEF StayValues, n
  <2>6. StayValues(v, rows) \in Seq(Int)
    BY <1>1, <2>5, FunctionList
  <2> QED
    BY <1>7, <2>2, <2>3, <2>6
<1> QED
  BY <1>8, <1>9

\* What all stays add up, and their balances on a day.
LEMMA StaysTotal ==
  ASSUME NEW R, NEW rows \in Seq(R), NEW lo \in Int, NEW hi \in Int, \A i \in 1 .. Len(rows) : StayFits(rows[i], lo, hi)
  PROVE  /\ TotalOf(LAMBDA r : r.palletDays, rows) = Summed(ValuesAt(OnAll(DayPallets), SegmentRows(rows)))
         /\ TotalOf(LAMBDA r : r.free, rows) = Summed(ValuesAt(OnAll(DayFree), SegmentRows(rows)))
         /\ TotalOf(LAMBDA r : r.amount, rows) = Summed(ValuesAt(OnAll(DayAmount), SegmentRows(rows)))
         /\ \A d \in Int : TotalOf(LAMBDA r : BalanceOn(r.segments, d), rows)
                             = Summed(ValuesAt(OnThe(d, DayPallets), SegmentRows(rows)))
<1> DEFINE n == Len(rows)
           f1 == [i \in DOMAIN rows |-> rows[i].palletDays]
           f2 == [i \in DOMAIN rows |-> rows[i].free]
           f3 == [i \in DOMAIN rows |-> rows[i].amount]
           f4(d) == [i \in DOMAIN rows |-> BalanceOn(rows[i].segments, d)]
<1>1. n \in Nat /\ DOMAIN rows = 1 .. n
  OBVIOUS
<1>2. /\ TotalOf(LAMBDA r : r.palletDays, rows) = Summed(<<>> \o f1)
      /\ TotalOf(LAMBDA r : r.free, rows) = Summed(<<>> \o f2)
      /\ TotalOf(LAMBDA r : r.amount, rows) = Summed(<<>> \o f3)
      /\ \A d \in Int : TotalOf(LAMBDA r : BalanceOn(r.segments, d), rows) = Summed(<<>> \o f4(d))
  BY DEF TotalOf, Each
<1>3. /\ \A i \in 1 .. n : rows[i].palletDays = Summed(ValuesAt(OnAll(DayPallets), MarkedOf(rows[i])))
      /\ \A i \in 1 .. n : rows[i].free = Summed(ValuesAt(OnAll(DayFree), MarkedOf(rows[i])))
      /\ \A i \in 1 .. n : rows[i].amount = Summed(ValuesAt(OnAll(DayAmount), MarkedOf(rows[i])))
  BY StayTotals
<1>4. \A i \in 1 .. n, d \in Int :
        BalanceOn(rows[i].segments, d) = Summed(ValuesAt(OnThe(d, DayPallets), MarkedOf(rows[i])))
  BY StayBalance
<1>5. /\ f1 = StayValues(OnAll(DayPallets), rows) /\ f2 = StayValues(OnAll(DayFree), rows)
      /\ f3 = StayValues(OnAll(DayAmount), rows)
  BY <1>1, <1>3 DEF StayValues
<1>6. \A d \in Int : f4(d) = StayValues(OnThe(d, DayPallets), rows)
  BY <1>1, <1>4 DEF StayValues
<1>7. \A s \in Seq(Int) : <<>> \o s = s
  OBVIOUS
<1> HIDE DEF f1, f2, f3, f4
<1>8. ASSUME NEW v \in [Marked -> Int]
      PROVE  /\ StayValues(v, rows) \in Seq(Int)
             /\ Summed(ValuesAt(v, SegmentRows(rows))) = Summed(StayValues(v, rows))
  BY SegmentRowsSound
<1>9. ASSUME NEW v \in [Marked -> Int], NEW f, f = StayValues(v, rows)
      PROVE  Summed(<<>> \o f) = Summed(ValuesAt(v, SegmentRows(rows)))
  BY <1>7, <1>8, <1>9
<1>10. /\ OnAll(DayPallets) \in [Marked -> Int] /\ OnAll(DayFree) \in [Marked -> Int] /\ OnAll(DayAmount) \in [Marked -> Int]
       /\ \A d : OnThe(d, DayPallets) \in [Marked -> Int]
  BY DayQuantities, DayTypes
<1> QED
  BY <1>2, <1>5, <1>6, <1>9, <1>10

\* Day by day, over days of which none is left out or counted twice, the segments
\* come to what they have on all of theirs.
LEMMA AcrossDays ==
  ASSUME NEW M \in Seq(Marked), NEW D \in Seq(Int), Distinct(D), NEW v \in [Marked -> Int],
         \A i \in 1 .. Len(M), d \in Int : Covers(M[i].segment, d) => d \in Elements(D)
  PROVE  Summed([j \in 1 .. Len(D) |-> Summed(ValuesAt(OnThe(D[j], v), M))]) = Summed(ValuesAt(OnAll(v), M))
<1>0. ASSUME NEW lo \in Int, NEW hi \in Int, lo <= hi + 1,
             \A d \in lo .. hi : \E j \in 1 .. Len(D) : D[j] = d, NEW x \in Int
      PROVE  Summed([j \in 1 .. Len(D) |-> IF D[j] \in lo .. hi THEN x ELSE 0]) = x * (hi - lo + 1)
  <2>1. \A a, b \in 1 .. Len(D) : D[a] = D[b] => a = b
    BY DEF Distinct
  <2> QED
    BY <1>0, <2>1, SummedStretch
<1> DEFINE n == Len(M)  m == Len(D)
           f == [c \in (1 .. n) \X (1 .. m) |-> IF Covers(M[c[1]].segment, D[c[2]]) THEN v[M[c[1]]] ELSE 0]
<1>1. n \in Nat /\ m \in Nat /\ \A i \in 1 .. n : M[i] \in Marked /\ v[M[i]] \in Int
  OBVIOUS
<1>2. \A j \in 1 .. m : D[j] \in Int
  OBVIOUS
<1> HIDE DEF n, m
<1>3. \A i \in 1 .. n, j \in 1 .. m : f[<<i, j>>] = IF Covers(M[i].segment, D[j]) THEN v[M[i]] ELSE 0
  OBVIOUS
<1>4. ASSUME NEW i \in 1 .. n, NEW j \in 1 .. m PROVE f[<<i, j>>] \in Int
  <2>1. v[M[i]] \in Int /\ f[<<i, j>>] = IF Covers(M[i].segment, D[j]) THEN v[M[i]] ELSE 0
    BY <1>1, <1>3
  <2> HIDE DEF f
  <2> QED
    BY <2>1
<1> HIDE DEF f
<1>5. Summed([i \in 1 .. n |-> Summed([j \in 1 .. m |-> f[<<i, j>>]])])
        = Summed([j \in 1 .. m |-> Summed([i \in 1 .. n |-> f[<<i, j>>]])])
  BY <1>1, <1>4, SummedTwoWays
<1>6. ASSUME NEW i \in 1 .. n
      PROVE  Summed([j \in 1 .. m |-> f[<<i, j>>]]) = OnAll(v)[M[i]]
  <2> DEFINE g == M[i].segment  lo == g.start  hi == g.end  x == v[M[i]]
  <2>1. lo \in Int /\ hi \in Int /\ lo <= hi /\ g.days = hi - lo + 1 /\ x \in Int
    BY <1>1, DayQuantities
  <2>2. OnAll(v)[M[i]] = x * g.days
    BY <1>1 DEF OnAll
  <2>3. \A d \in Int : Covers(g, d) <=> d \in lo .. hi
    BY <2>1 DEF Covers
  <2>4. \A d \in lo .. hi : \E j \in 1 .. m : D[j] = d
    <3> TAKE d \in lo .. hi
    <3>1. d \in Int /\ Covers(g, d)
      BY <2>1, <2>3
    <3>2. i \in 1 .. Len(M)
      BY DEF n
    <3>3. d \in Elements(D)
      BY <3>1, <3>2
    <3> QED
      BY <3>3 DEF Elements, m
  <2>5. [j \in 1 .. m |-> f[<<i, j>>]] = [j \in 1 .. m |-> IF D[j] \in lo .. hi THEN x ELSE 0]
    BY <1>2, <1>3, <2>3
  <2> HIDE DEF g, lo, hi, x
  <2>6. Summed([j \in 1 .. Len(D) |-> IF D[j] \in lo .. hi THEN x ELSE 0]) = x * (hi - lo + 1)
    <3>1. \A d \in lo .. hi : \E j \in 1 .. Len(D) : D[j] = d
      BY <2>4 DEF m
    <3>2. lo <= hi + 1
      BY <2>1
    <3> QED
      BY <1>0, <2>1, <3>1, <3>2
  <2> QED
    BY <2>1, <2>2, <2>5, <2>6 DEF m
<1>7. [i \in 1 .. n |-> Summed([j \in 1 .. m |-> f[<<i, j>>]])] = ValuesAt(OnAll(v), M)
  BY <1>6 DEF ValuesAt, n
<1>8. ASSUME NEW j \in 1 .. m
      PROVE  [i \in 1 .. n |-> f[<<i, j>>]] = ValuesAt(OnThe(D[j], v), M)
  <2>1. \A i \in 1 .. n : f[<<i, j>>] = OnThe(D[j], v)[M[i]]
    BY <1>1, <1>3 DEF OnThe
  <2> QED
    BY <2>1 DEF ValuesAt, n
<1>9. [j \in 1 .. m |-> Summed([i \in 1 .. n |-> f[<<i, j>>]])] = [j \in 1 .. m |-> Summed(ValuesAt(OnThe(D[j], v), M))]
  BY <1>8
<1> QED
  BY <1>5, <1>7, <1>9 DEF m

\* Lists joined have the elements of each.
LEMMA JoinedHas ==
  ASSUME NEW R, NEW s, Len(s) \in Nat, \A i \in 1 .. Len(s) : s[i] \in Seq(R),
         NEW i \in 1 .. Len(s), NEW x \in Elements(s[i])
  PROVE  x \in Elements(Joined(s))
<1>1. PICK t : /\ t[0] = <<>>
               /\ \A k \in 1 .. Len(s) : t[k] = t[k - 1] \o s[k]
               /\ Joined(s) = t[Len(s)]
  BY Joining
<1>2. ASSUME NEW a \in Seq(R), NEW b \in Seq(R)
      PROVE  a \o b \in Seq(R) /\ Elements(a \o b) = Elements(a) \cup Elements(b)
  <2> DEFINE u == a \o b
  <2>1. u \in Seq(R) /\ Len(u) = Len(a) + Len(b) /\ Len(a) \in Nat /\ Len(b) \in Nat
    OBVIOUS
  <2>2. ASSUME NEW j \in 1 .. Len(a) PROVE u[j] = a[j]
    OBVIOUS
  <2>3. ASSUME NEW j \in 1 .. Len(b) PROVE u[Len(a) + j] = b[j]
    OBVIOUS
  <2> HIDE DEF u
  <2>4. ASSUME NEW j \in 1 .. Len(u) PROVE j \in 1 .. Len(a) \/ \E h \in 1 .. Len(b) : j = Len(a) + h
    <3>1. CASE j > Len(a)
      <4>1. j - Len(a) \in 1 .. Len(b) /\ j = Len(a) + (j - Len(a))
        BY <2>1, <3>1
      <4> QED
        BY <4>1
    <3> QED
      BY <2>1, <3>1
  <2>5. \A j \in 1 .. Len(a) : j \in 1 .. Len(u)
    BY <2>1
  <2>6. \A j \in 1 .. Len(b) : Len(a) + j \in 1 .. Len(u)
    BY <2>1
  <2>7. Elements(u) \subseteq Elements(a) \cup Elements(b)
    <3> SUFFICES ASSUME NEW j \in 1 .. Len(u) PROVE u[j] \in Elements(a) \cup Elements(b)
      BY DEF Elements
    <3>1. CASE j \in 1 .. Len(a)
      BY <2>2, <3>1 DEF Elements
    <3>2. CASE \E h \in 1 .. Len(b) : j = Len(a) + h
      BY <2>3, <3>2 DEF Elements
    <3> QED
      BY <2>4, <3>1, <3>2
  <2>8. Elements(a) \subseteq Elements(u) /\ Elements(b) \subseteq Elements(u)
    BY <2>2, <2>3, <2>5, <2>6 DEF Elements
  <2> QED
    BY <2>1, <2>7, <2>8 DEF u
<1> DEFINE S == {k \in Nat : t[k] \in Seq(R) /\ (i <= k => x \in Elements(t[k]))}
<1>3. 0 \in S
  <2>1. <<>> \in Seq(R) /\ ~(i <= 0)
    OBVIOUS
  <2> QED
    BY <1>1, <2>1
<1>4. ASSUME NEW k \in 0 .. Len(s) - 1, k \in S PROVE k + 1 \in S
  <2>1. k + 1 \in 1 .. Len(s) /\ (k + 1) - 1 = k /\ k + 1 \in Nat
    OBVIOUS
  <2>2. t[k + 1] = t[k] \o s[k + 1] /\ t[k] \in Seq(R) /\ s[k + 1] \in Seq(R)
    BY <1>1, <1>4, <2>1
  <2>3. t[k + 1] \in Seq(R) /\ Elements(t[k + 1]) = Elements(t[k]) \cup Elements(s[k + 1])
    BY <1>2, <2>2
  <2>4. i <= k + 1 => i <= k \/ i = k + 1
    OBVIOUS
  <2>5. i <= k => x \in Elements(t[k])
    BY <1>4
  <2> QED
    BY <2>1, <2>3, <2>4, <2>5
<1>5. Len(s) \in S
  <2> HIDE DEF S
  <2> QED
    BY <1>3, <1>4, Along
<1> QED
  BY <1>1, <1>5

\* The days that any stay is billed, each of them once.
LEMMA BilledDaysSound ==
  ASSUME NEW rows, SegmentRows(rows) \in Seq(Marked)
  PROVE  LET D == BilledDays(rows)  M == SegmentRows(rows)
         IN  /\ D \in Seq(Int) /\ Distinct(D)
             /\ \A d \in Int : d \in Elements(D) <=> \E i \in 1 .. Len(M) : Covers(M[i].segment, d)
<1> DEFINE M == SegmentRows(rows)  n == Len(M)  D == BilledDays(rows)
           T == {d \in Int : \E i \in 1 .. n : Covers(M[i].segment, d)}
           f == [i \in DOMAIN M |-> Days(M[i].segment.start, M[i].segment.end)]
<1>1. n \in Nat /\ DOMAIN M = 1 .. n /\ \A i \in 1 .. n : M[i] \in Marked
  OBVIOUS
<1>2. BilledDays(rows) = OrderedOnce(Joined(<<>> \o f))
  BY DEF BilledDays, Each
<1> HIDE DEF M, n
<1>3. f = [i \in 1 .. n |-> f[i]] /\ \A i \in 1 .. n : f[i] = Days(M[i].segment.start, M[i].segment.end)
  BY <1>1
<1> HIDE DEF f
<1>4. ASSUME NEW i \in 1 .. n
      PROVE  /\ f[i] \in Seq(T) /\ f[i] \in Seq(Int)
             /\ \A d \in Int : Covers(M[i].segment, d) => d \in Elements(f[i])
  <2> DEFINE lo == M[i].segment.start  hi == M[i].segment.end  k == hi - lo + 1
  <2>1. lo \in Int /\ hi \in Int /\ lo <= hi /\ k \in Nat
    BY <1>1, DayQuantities
  <2>2. f[i] = [j \in 1 .. k |-> lo + j - 1]
    BY <1>3 DEF Days
  <2> HIDE DEF k
  <2> HIDE DEF lo, hi
  <2>3. \A j \in 1 .. k : lo + j - 1 \in Int /\ lo <= lo + j - 1 /\ lo + j - 1 <= hi
    BY <2>1 DEF k
  <2>4. \A j \in 1 .. k : lo + j - 1 \in T
    BY <2>3 DEF Covers, lo, hi
  <2> HIDE DEF T
  <2>5. f[i] \in Seq(T) /\ f[i] \in Seq(Int) /\ Len(f[i]) = k
    <3>1. f[i] \in [1 .. k -> T] /\ f[i] \in [1 .. k -> Int]
      BY <2>2, <2>3, <2>4
    <3> QED
      BY <2>1, <3>1, FunctionList
  <2>6. ASSUME NEW d \in Int, Covers(M[i].segment, d) PROVE d \in Elements(f[i])
    <3>1. lo <= d /\ d <= hi
      BY <2>6 DEF Covers, lo, hi
    <3>2. d - lo + 1 \in 1 .. k /\ lo + (d - lo + 1) - 1 = d
      BY <2>1, <3>1 DEF k
    <3>3. f[i][d - lo + 1] = d
      BY <2>2, <3>2
    <3> QED
      BY <2>5, <3>2, <3>3 DEF Elements
  <2> QED
    BY <2>5, <2>6
<1>5. <<>> \o f = f /\ Len(f) = n
  <2>1. \A i \in 1 .. n : f[i] \in Seq(T)
    BY <1>4
  <2> HIDE DEF T
  <2> QED
    BY <1>1, <1>3, <2>1, EachSeq
<1> DEFINE u == Joined(f)
<1>6. u \in Seq(T) /\ u \in Seq(Int)
  <2>1. Len(f) \in Nat /\ (\A i \in 1 .. Len(f) : f[i] \in Seq(T)) /\ (\A i \in 1 .. Len(f) : f[i] \in Seq(Int))
    BY <1>1, <1>4, <1>5
  <2> HIDE DEF T
  <2> QED
    BY <2>1, JoinedSeq
<1>7. \A i \in 1 .. n, d \in Int : Covers(M[i].segment, d) => d \in Elements(u)
  <2> SUFFICES ASSUME NEW i \in 1 .. n, NEW d \in Int, Covers(M[i].segment, d) PROVE d \in Elements(u)
    OBVIOUS
  <2>1. d \in Elements(f[i])
    BY <1>4
  <2>2. Len(f) \in Nat /\ (\A j \in 1 .. Len(f) : f[j] \in Seq(Int)) /\ i \in 1 .. Len(f)
    BY <1>1, <1>4, <1>5
  <2> QED
    BY <2>1, <2>2, JoinedHas
<1>8. D = OrderedOnce(u)
  BY <1>2, <1>5
<1> HIDE DEF u, D
<1>9. D \in Seq(Int) /\ Distinct(D) /\ Elements(D) = Elements(u)
  BY <1>6, <1>8, OrderedOnceSound
<1>10. Elements(u) \subseteq T
  BY <1>6 DEF Elements
<1>11. \A d \in Int : d \in Elements(D) <=> \E i \in 1 .. n : Covers(M[i].segment, d)
  BY <1>7, <1>9, <1>10
<1> QED
  BY <1>9, <1>11 DEF M, n, D

\* What all stays have on a day.
Buckets == [pallets : Int, free : Int, gross : Int, discount : Int]

\* All segments together have on a day what each of them has.
LEMMA BucketIs ==
  ASSUME NEW rows, SegmentRows(rows) \in Seq(Marked), NEW d \in Int
  PROVE  /\ DayBucket(rows, d) \in Buckets
         /\ DayBucket(rows, d).pallets = Summed(ValuesAt(OnThe(d, DayPallets), SegmentRows(rows)))
         /\ DayBucket(rows, d).free = Summed(ValuesAt(OnThe(d, DayFree), SegmentRows(rows)))
         /\ DayBucket(rows, d).gross - DayBucket(rows, d).discount
              = Summed(ValuesAt(OnThe(d, DayAmount), SegmentRows(rows)))
<1> DEFINE M == SegmentRows(rows)
           A == {s \in ToSet(M) : s.segment.start <= d /\ d <= s.segment.end}
           k == Only(M, A)
           f1 == [j \in DOMAIN k |-> k[j].segment.pallets]
           f2 == [j \in DOMAIN k |-> k[j].segment.free \div k[j].segment.days]
           f3 == [j \in DOMAIN k |-> k[j].segment.gross \div k[j].segment.days]
           f4 == [j \in DOMAIN k |-> k[j].segment.discount \div k[j].segment.days]
           b == DayBucket(rows, d)
<1>1. M \in Seq(Marked) /\ Len(M) \in Nat /\ DOMAIN M = 1 .. Len(M) /\ \A i \in 1 .. Len(M) : M[i] \in Marked
  OBVIOUS
<1>2. b = [pallets |-> Summed(<<>> \o f1), free |-> Summed(<<>> \o f2),
           gross |-> Summed(<<>> \o f3), discount |-> Summed(<<>> \o f4)]
  BY DEF DayBucket, TotalOf, Each
<1> HIDE DEF M
<1>3. \A i \in 1 .. Len(M) : M[i] \in A <=> M[i] \in CoveringOn(d)
  BY <1>1 DEF CoveringOn, Covers, ToSet
<1> HIDE DEF A
<1>4. k = Only(M, CoveringOn(d))
  BY <1>1, <1>3, OnlySame
<1> HIDE DEF k, b
<1>5. k \in Seq(Marked)
  <2>1. k \in Seq(Marked \cap CoveringOn(d))
    BY <1>1, <1>4, OnlyEmbeds
  <2> QED
    BY <2>1
<1>6. DOMAIN k = 1 .. Len(k) /\ \A j \in 1 .. Len(k) : k[j] \in Marked
  BY <1>5
<1>7. /\ f1 = [j \in DOMAIN k |-> DayPallets[k[j]]] /\ f2 = [j \in DOMAIN k |-> DayFree[k[j]]]
      /\ f3 = [j \in DOMAIN k |-> DayGross[k[j]]] /\ f4 = [j \in DOMAIN k |-> DayDiscount[k[j]]]
  BY <1>6 DEF DayPallets, DayFree, DayGross, DayDiscount
<1> HIDE DEF f1, f2, f3, f4
<1>8. ASSUME NEW v \in [Marked -> Int], NEW f, f = [j \in DOMAIN k |-> v[k[j]]]
      PROVE  Summed(<<>> \o f) = Summed(ValuesAt(OnThe(d, v), M)) /\ Summed(<<>> \o f) \in Int
  <2>1. Summed(<<>> \o f) = Summed(ValuesAt(v, k))
    BY <1>5, <1>8, TotalIs
  <2>2. Masked(v, M, CoveringOn(d)) \in Seq(Int) /\ Summed(ValuesAt(v, k)) = Summed(Masked(v, M, CoveringOn(d)))
    BY <1>1, <1>4, SummedOnly
  <2>3. Masked(v, M, CoveringOn(d)) = ValuesAt(OnThe(d, v), M)
    <3>1. \A i \in 1 .. Len(M) : (IF M[i] \in CoveringOn(d) THEN v[M[i]] ELSE 0) = OnThe(d, v)[M[i]]
      BY <1>1 DEF CoveringOn, OnThe
    <3> QED
      BY <3>1 DEF Masked, ValuesAt
  <2> QED
    BY <2>1, <2>2, <2>3, SummedInt
<1>9. /\ DayPallets \in [Marked -> Int] /\ DayFree \in [Marked -> Int] /\ DayGross \in [Marked -> Int]
      /\ DayDiscount \in [Marked -> Int] /\ DayAmount \in [Marked -> Int]
  BY DayQuantities
<1>10. /\ b.pallets = Summed(ValuesAt(OnThe(d, DayPallets), M)) /\ b.pallets \in Int
       /\ b.free = Summed(ValuesAt(OnThe(d, DayFree), M)) /\ b.free \in Int
  BY <1>2, <1>7, <1>8, <1>9
<1>11. /\ b.gross = Summed(ValuesAt(OnThe(d, DayGross), M)) /\ b.gross \in Int
       /\ b.discount = Summed(ValuesAt(OnThe(d, DayDiscount), M)) /\ b.discount \in Int
  BY <1>2, <1>7, <1>8, <1>9
<1> DEFINE g == ValuesAt(OnThe(d, DayGross), M)  x == ValuesAt(OnThe(d, DayDiscount), M)
           a == ValuesAt(OnThe(d, DayAmount), M)
<1>12. /\ g \in Seq(Int) /\ Len(g) = Len(M) /\ \A i \in 1 .. Len(M) : g[i] = OnThe(d, DayGross)[M[i]]
       /\ x \in Seq(Int) /\ Len(x) = Len(M) /\ \A i \in 1 .. Len(M) : x[i] = OnThe(d, DayDiscount)[M[i]]
       /\ a \in Seq(Int) /\ Len(a) = Len(M) /\ \A i \in 1 .. Len(M) : a[i] = OnThe(d, DayAmount)[M[i]]
  <2>1. ASSUME NEW v \in [Marked -> Int]
        PROVE  /\ ValuesAt(OnThe(d, v), M) \in Seq(Int) /\ Len(ValuesAt(OnThe(d, v), M)) = Len(M)
               /\ \A i \in 1 .. Len(M) : ValuesAt(OnThe(d, v), M)[i] = OnThe(d, v)[M[i]]
    <3>1. OnThe(d, v) \in [Marked -> Int]
      BY DayTypes
    <3> QED
      BY <1>1, <3>1, ValuesSeq
  <2> QED
    BY <1>9, <2>1
<1> HIDE DEF g, x, a
<1>13. ASSUME NEW i \in 1 .. Len(g) PROVE g[i] = a[i] + x[i]
  <2>1. M[i] \in Marked
    BY <1>1, <1>12
  <2>2. OnThe(d, DayGross)[M[i]] = OnThe(d, DayAmount)[M[i]] + OnThe(d, DayDiscount)[M[i]]
    <3>1. DayAmount[M[i]] = DayGross[M[i]] - DayDiscount[M[i]] /\ DayGross[M[i]] \in Int /\ DayDiscount[M[i]] \in Int
      BY <1>9, <2>1 DEF DayAmount
    <3> QED
      BY <2>1, <3>1 DEF OnThe
  <2> QED
    BY <1>12, <2>2
<1>14. Summed(g) = Summed(a) + Summed(x) /\ Summed(a) \in Int /\ Summed(x) \in Int
  <2>1. Len(a) = Len(g) /\ Len(x) = Len(g) /\ \A i \in 1 .. Len(g) : g[i] = a[i] + x[i]
    BY <1>12, <1>13
  <2> QED
    BY <1>12, <2>1, SummedPairs, SummedInt
<1>15. b.gross - b.discount = Summed(a)
  BY <1>11, <1>14 DEF g, x
<1>16. b \in Buckets
  BY <1>2, <1>10, <1>11 DEF Buckets
<1> QED
  BY <1>10, <1>15, <1>16 DEF a, b, M

\* The days of all stays, with what they have.
BucketDays(rows) == [j \in 1 .. Len(BilledDays(rows)) |->
                      [day |-> BilledDays(rows)[j], like |-> DayBucket(rows, BilledDays(rows)[j])]]
CommonRuns(rows) == Runs(BucketDays(rows))

\* What the runs have a day.
RunPallets == [b \in Buckets |-> b.pallets]
RunFree == [b \in Buckets |-> b.free]
RunAmount == [b \in Buckets |-> b.gross - b.discount]

\* The runs are of the days of the stays, and come to what the stays come to.
LEMMA CommonRunsSound ==
  ASSUME NEW rows, SegmentRows(rows) \in Seq(Marked)
  PROVE  LET runs == CommonRuns(rows)  M == SegmentRows(rows)
         IN  /\ runs \in Seq(StretchesOf(Buckets))
             /\ \A i \in 1 .. Len(runs), d \in Int : Covers(runs[i], d) =>
                  /\ runs[i].like = DayBucket(rows, d)
                  /\ \E j \in 1 .. Len(M) : Covers(M[j].segment, d)
             /\ Summed(ValuesAt(WorthOf(RunPallets, Buckets), runs)) = Summed(ValuesAt(OnAll(DayPallets), M))
             /\ Summed(ValuesAt(WorthOf(RunFree, Buckets), runs)) = Summed(ValuesAt(OnAll(DayFree), M))
             /\ Summed(ValuesAt(WorthOf(RunAmount, Buckets), runs)) = Summed(ValuesAt(OnAll(DayAmount), M))
<1> DEFINE D == BilledDays(rows)  M == SegmentRows(rows)  B == BucketDays(rows)  n == Len(D)
           runs == CommonRuns(rows)
<1>1. D \in Seq(Int) /\ Distinct(D) /\ \A d \in Int : d \in Elements(D) <=> \E i \in 1 .. Len(M) : Covers(M[i].segment, d)
  BY BilledDaysSound
<1>2. \A d \in Int : /\ DayBucket(rows, d) \in Buckets
                     /\ DayBucket(rows, d).pallets = Summed(ValuesAt(OnThe(d, DayPallets), M))
                     /\ DayBucket(rows, d).free = Summed(ValuesAt(OnThe(d, DayFree), M))
                     /\ DayBucket(rows, d).gross - DayBucket(rows, d).discount
                          = Summed(ValuesAt(OnThe(d, DayAmount), M))
  BY BucketIs
<1>3. M \in Seq(Marked)
  OBVIOUS
<1>4. B = [j \in 1 .. n |-> [day |-> D[j], like |-> DayBucket(rows, D[j])]]
  BY DEF BucketDays
<1>5. runs = Runs(B)
  BY DEF CommonRuns
<1> HIDE DEF D, M, B, n, runs
<1>6. n \in Nat /\ \A j \in 1 .. n : D[j] \in Int
  BY <1>1 DEF n
<1>7. /\ B \in Seq(DatedWith(Buckets)) /\ Len(B) = n
      /\ \A j \in 1 .. n : B[j].day = D[j] /\ B[j].like = DayBucket(rows, D[j])
  <2>1. \A j \in 1 .. n : [day |-> D[j], like |-> DayBucket(rows, D[j])] \in DatedWith(Buckets)
    <3>1. ASSUME NEW d \in Int, NEW b \in Buckets PROVE [day |-> d, like |-> b] \in DatedWith(Buckets)
      BY DEF DatedWith
    <3> QED
      BY <1>2, <1>6, <3>1
  <2>2. B \in [1 .. n -> DatedWith(Buckets)]
    BY <1>4, <2>1
  <2>3. \A j \in 1 .. n : B[j] = [day |-> D[j], like |-> DayBucket(rows, D[j])]
    BY <1>4
  <2>4. B \in Seq(DatedWith(Buckets)) /\ Len(B) = n
    BY <1>6, <2>2, FunctionList
  <2>5. ASSUME NEW j \in 1 .. n PROVE B[j].day = D[j] /\ B[j].like = DayBucket(rows, D[j])
    <3>1. B[j] = [day |-> D[j], like |-> DayBucket(rows, D[j])]
      BY <2>3
    <3> QED
      BY <3>1
  <2> QED
    BY <2>4, <2>5
<1>8. \A i, j \in 1 .. Len(B) : B[i].day = B[j].day => i = j
  BY <1>1, <1>7 DEF Distinct, n
<1>9. /\ RunsTell(runs, B, n, Buckets)
      /\ \A w \in [Buckets -> Int] : Summed(ValuesAt(WorthOf(w, Buckets), runs)) = Summed([j \in 1 .. n |-> w[B[j].like]])
  <2>1. /\ RunsTell(Runs(B), B, Len(B), Buckets)
        /\ \A w \in [Buckets -> Int] : Summed(ValuesAt(WorthOf(w, Buckets), Runs(B)))
                                        = Summed([j \in 1 .. Len(B) |-> w[B[j].like]])
    BY <1>7, <1>8, RunsSound
  <2> QED
    BY <1>5, <1>7, <2>1
<1>10. ASSUME NEW i \in 1 .. Len(runs), NEW d \in Int, Covers(runs[i], d)
       PROVE  /\ runs[i].like = DayBucket(rows, d)
              /\ \E j \in 1 .. Len(M) : Covers(M[j].segment, d)
  <2>1. PICK j \in 1 .. n : B[j].day = d /\ B[j].like = runs[i].like
    BY <1>9, <1>10 DEF RunsTell
  <2>2. D[j] = d /\ d \in Elements(D)
    BY <1>7, <2>1 DEF Elements, n
  <2> QED
    BY <1>1, <1>7, <2>1, <2>2
<1>11. ASSUME NEW v \in [Marked -> Int]
       PROVE  Summed([j \in 1 .. n |-> Summed(ValuesAt(OnThe(D[j], v), M))]) = Summed(ValuesAt(OnAll(v), M))
  <2>1. \A i \in 1 .. Len(M), d \in Int : Covers(M[i].segment, d) => d \in Elements(D)
    BY <1>1
  <2>2. Summed([j \in 1 .. Len(D) |-> Summed(ValuesAt(OnThe(D[j], v), M))]) = Summed(ValuesAt(OnAll(v), M))
    BY <1>1, <1>3, <2>1, AcrossDays
  <2> QED
    BY <2>2 DEF n
<1>12. /\ RunPallets \in [Buckets -> Int] /\ RunFree \in [Buckets -> Int] /\ RunAmount \in [Buckets -> Int]
  <2>1. \A b \in Buckets : b.pallets \in Int /\ b.free \in Int /\ b.gross \in Int /\ b.discount \in Int
    BY DEF Buckets
  <2> QED
    BY <2>1 DEF RunPallets, RunFree, RunAmount
<1>13. \A j \in 1 .. n : /\ RunPallets[B[j].like] = Summed(ValuesAt(OnThe(D[j], DayPallets), M))
                         /\ RunFree[B[j].like] = Summed(ValuesAt(OnThe(D[j], DayFree), M))
                         /\ RunAmount[B[j].like] = Summed(ValuesAt(OnThe(D[j], DayAmount), M))
  BY <1>2, <1>6, <1>7 DEF RunPallets, RunFree, RunAmount
<1>14. Summed(ValuesAt(WorthOf(RunPallets, Buckets), runs)) = Summed(ValuesAt(OnAll(DayPallets), M))
  <2>1. [j \in 1 .. n |-> RunPallets[B[j].like]] = [j \in 1 .. n |-> Summed(ValuesAt(OnThe(D[j], DayPallets), M))]
    BY <1>13
  <2> QED
    BY <1>9, <1>11, <1>12, <2>1, DayQuantities
<1>15. Summed(ValuesAt(WorthOf(RunFree, Buckets), runs)) = Summed(ValuesAt(OnAll(DayFree), M))
  <2>1. [j \in 1 .. n |-> RunFree[B[j].like]] = [j \in 1 .. n |-> Summed(ValuesAt(OnThe(D[j], DayFree), M))]
    BY <1>13
  <2> QED
    BY <1>9, <1>11, <1>12, <2>1, DayQuantities
<1>16. Summed(ValuesAt(WorthOf(RunAmount, Buckets), runs)) = Summed(ValuesAt(OnAll(DayAmount), M))
  <2>1. [j \in 1 .. n |-> RunAmount[B[j].like]] = [j \in 1 .. n |-> Summed(ValuesAt(OnThe(D[j], DayAmount), M))]
    BY <1>13
  <2> QED
    BY <1>9, <1>11, <1>12, <2>1, DayQuantities
<1>17. runs \in Seq(StretchesOf(Buckets))
  BY <1>9 DEF RunsTell
<1> QED
  BY <1>10, <1>14, <1>15, <1>16, <1>17 DEF runs, M

\* What a list of stays, or of runs, comes to.
DaysOfAll(rows) == TotalOf(LAMBDA r : r.palletDays, rows)
FreeOfAll(rows) == TotalOf(LAMBDA r : r.free, rows)
AmountOfAll(rows) == TotalOf(LAMBDA r : r.amount, rows)
BalanceOfAll(rows, d) == TotalOf(LAMBDA r : BalanceOn(r.segments, d), rows)

\* The PDF's runs come to what the stays come to, and each of them has the pallets
\* that were there on each of its days.
LEMMA RunsKeep ==
  ASSUME NEW R, NEW rows \in Seq(R), NEW lo \in Int, NEW hi \in Int, \A i \in 1 .. Len(rows) : StayFits(rows[i], lo, hi),
         NEW agg, agg = AggregatedSegments(rows)
  PROVE  /\ DaysOfAll(agg) = DaysOfAll(rows) /\ FreeOfAll(agg) = FreeOfAll(rows) /\ AmountOfAll(agg) = AmountOfAll(rows)
         /\ \A i \in DOMAIN agg : \A d \in agg[i].start .. agg[i].end :
              /\ d \in lo .. hi /\ agg[i].pallets > 0
              /\ BalanceOfAll(rows, d) = agg[i].pallets
<1> DEFINE M == SegmentRows(rows)  runs == CommonRuns(rows)  n == Len(runs)
           D == BilledDays(rows)
           G == [j \in DOMAIN D |-> [day |-> D[j], like |-> DayBucket(rows, D[j])]]
           run(r) == [start |-> r.start, end |-> r.end, pallets |-> r.like.pallets, days |-> r.end - r.start + 1,
                      palletDays |-> r.like.pallets * (r.end - r.start + 1), free |-> r.like.free * (r.end - r.start + 1),
                      gross |-> r.like.gross * (r.end - r.start + 1),
                      discount |-> r.like.discount * (r.end - r.start + 1),
                      amount |-> r.like.gross * (r.end - r.start + 1) - r.like.discount * (r.end - r.start + 1)]
<1>1. M \in Seq(Marked) /\ M \in Seq(MarkedIn(lo, hi))
  BY SegmentRowsSound
<1>2. /\ runs \in Seq(StretchesOf(Buckets))
      /\ \A i \in 1 .. n, d \in Int : Covers(runs[i], d) =>
           runs[i].like = DayBucket(rows, d) /\ \E j \in 1 .. Len(M) : Covers(M[j].segment, d)
      /\ Summed(ValuesAt(WorthOf(RunPallets, Buckets), runs)) = Summed(ValuesAt(OnAll(DayPallets), M))
      /\ Summed(ValuesAt(WorthOf(RunFree, Buckets), runs)) = Summed(ValuesAt(OnAll(DayFree), M))
      /\ Summed(ValuesAt(WorthOf(RunAmount, Buckets), runs)) = Summed(ValuesAt(OnAll(DayAmount), M))
  BY <1>1, CommonRunsSound
<1>3. AggregatedSegments(rows) = <<>> \o [i \in DOMAIN Runs(<<>> \o G) |-> run(Runs(<<>> \o G)[i])]
  BY DEF AggregatedSegments, Each
<1>4. <<>> \o G = BucketDays(rows)
  <2>1. D \in Seq(Int)
    BY <1>1, BilledDaysSound
  <2>2. Len(D) \in Nat /\ DOMAIN D = 1 .. Len(D)
    BY <2>1
  <2>3. G = BucketDays(rows)
    BY <2>2 DEF BucketDays
  <2> DEFINE S == {G[j] : j \in 1 .. Len(D)}
  <2>4. G = [j \in 1 .. Len(D) |-> G[j]] /\ \A j \in 1 .. Len(D) : G[j] \in S
    BY <2>2
  <2> HIDE DEF G, S, D
  <2>5. <<>> \o G = G
    BY <2>2, <2>4, EachSeq
  <2> QED
    BY <2>3, <2>5
<1>5. agg = <<>> \o [i \in DOMAIN runs |-> run(runs[i])]
  BY <1>3, <1>4 DEF CommonRuns
<1> HIDE DEF G, D, M, runs, n
<1>6. n \in Nat /\ DOMAIN runs = 1 .. n /\ \A i \in 1 .. n : runs[i] \in StretchesOf(Buckets)
  BY <1>2 DEF n
<1> DEFINE F == [i \in DOMAIN runs |-> run(runs[i])]
<1>7. agg = F /\ DOMAIN agg = 1 .. n /\ Len(agg) = n /\ \A i \in 1 .. n : agg[i] = run(runs[i])
  <2> DEFINE S == {F[i] : i \in 1 .. n}
  <2>1. F = [i \in 1 .. n |-> F[i]] /\ (\A i \in 1 .. n : F[i] \in S) /\ (\A i \in 1 .. n : F[i] = run(runs[i])) /\ agg = <<>> \o F
    BY <1>5, <1>6
  <2>2. DOMAIN F = 1 .. n
    BY <1>6
  <2> HIDE DEF F, S
  <2>3. <<>> \o F = F /\ Len(F) = n
    BY <1>6, <2>1, EachSeq
  <2> HIDE DEF run
  <2> QED
    BY <2>1, <2>2, <2>3
<1>8. \A i \in 1 .. n : /\ agg[i].start = runs[i].start /\ agg[i].end = runs[i].end /\ agg[i].pallets = runs[i].like.pallets
                        /\ agg[i].palletDays = WorthOf(RunPallets, Buckets)[runs[i]]
                        /\ agg[i].free = WorthOf(RunFree, Buckets)[runs[i]]
                        /\ agg[i].amount = WorthOf(RunAmount, Buckets)[runs[i]]
  <2> TAKE i \in 1 .. n
  <2> DEFINE q == runs[i]  m == q.end - q.start + 1
  <2>1. q \in StretchesOf(Buckets)
    BY <1>6
  <2>2. q.like \in Buckets /\ m \in Int
    BY <2>1 DEF StretchesOf
  <2>3. q.like.gross \in Int /\ q.like.discount \in Int
    BY <2>2 DEF Buckets
  <2>4. /\ WorthOf(RunPallets, Buckets)[q] = q.like.pallets * m /\ WorthOf(RunFree, Buckets)[q] = q.like.free * m
        /\ WorthOf(RunAmount, Buckets)[q] = (q.like.gross - q.like.discount) * m
    BY <2>1, <2>2 DEF WorthOf, RunPallets, RunFree, RunAmount
  <2>5. /\ agg[i].start = q.start /\ agg[i].end = q.end /\ agg[i].pallets = q.like.pallets
        /\ agg[i].palletDays = q.like.pallets * m /\ agg[i].free = q.like.free * m
        /\ agg[i].amount = q.like.gross * m - q.like.discount * m
    BY <1>7
  <2>6. (q.like.gross - q.like.discount) * m = q.like.gross * m - q.like.discount * m
    <3> DEFINE x == q.like.gross  y == q.like.discount
    <3> HIDE DEF x, y, m
    <3>1. x \in Int /\ y \in Int /\ m \in Int
      BY <2>2, <2>3 DEF x, y, m
    <3>2. (x - y) * m = x * m - y * m
      BY <3>1
    <3> QED
      BY <3>2 DEF x, y
  <2> QED
    BY <2>4, <2>5, <2>6
<1> HIDE DEF F, run
<1>9. \A w \in [Buckets -> Int] : WorthOf(w, Buckets) \in [StretchesOf(Buckets) -> Int]
  <2> TAKE w \in [Buckets -> Int]
  <2>1. ASSUME NEW r \in StretchesOf(Buckets) PROVE w[r.like] * (r.end - r.start + 1) \in Int
    <3>1. w[r.like] \in Int /\ r.end - r.start + 1 \in Int
      BY DEF StretchesOf
    <3> QED
      BY <3>1
  <2> QED
    BY <2>1 DEF WorthOf
<1>10. /\ RunPallets \in [Buckets -> Int] /\ RunFree \in [Buckets -> Int] /\ RunAmount \in [Buckets -> Int]
  <2>1. \A b \in Buckets : b.pallets \in Int /\ b.free \in Int /\ b.gross \in Int /\ b.discount \in Int
    BY DEF Buckets
  <2> QED
    BY <2>1 DEF RunPallets, RunFree, RunAmount
<1> DEFINE f1 == [i \in DOMAIN agg |-> agg[i].palletDays]
           f2 == [i \in DOMAIN agg |-> agg[i].free]
           f3 == [i \in DOMAIN agg |-> agg[i].amount]
<1>11. /\ DaysOfAll(agg) = Summed(<<>> \o f1)
       /\ FreeOfAll(agg) = Summed(<<>> \o f2)
       /\ AmountOfAll(agg) = Summed(<<>> \o f3)
  BY DEF TotalOf, Each, DaysOfAll, FreeOfAll, AmountOfAll
<1>12. /\ f1 = [i \in DOMAIN runs |-> WorthOf(RunPallets, Buckets)[runs[i]]]
       /\ f2 = [i \in DOMAIN runs |-> WorthOf(RunFree, Buckets)[runs[i]]]
       /\ f3 = [i \in DOMAIN runs |-> WorthOf(RunAmount, Buckets)[runs[i]]]
  BY <1>6, <1>7, <1>8
<1> HIDE DEF f1, f2, f3
<1>13. /\ Summed(<<>> \o f1) = Summed(ValuesAt(WorthOf(RunPallets, Buckets), runs))
       /\ Summed(<<>> \o f2) = Summed(ValuesAt(WorthOf(RunFree, Buckets), runs))
       /\ Summed(<<>> \o f3) = Summed(ValuesAt(WorthOf(RunAmount, Buckets), runs))
  BY <1>2, <1>9, <1>10, <1>12, TotalIs
<1>14. /\ DaysOfAll(rows) = Summed(ValuesAt(OnAll(DayPallets), M))
       /\ FreeOfAll(rows) = Summed(ValuesAt(OnAll(DayFree), M))
       /\ AmountOfAll(rows) = Summed(ValuesAt(OnAll(DayAmount), M))
       /\ \A d \in Int : BalanceOfAll(rows, d) = Summed(ValuesAt(OnThe(d, DayPallets), M))
  BY StaysTotal DEF M, DaysOfAll, FreeOfAll, AmountOfAll, BalanceOfAll
<1>15. ASSUME NEW i \in DOMAIN agg, NEW d \in agg[i].start .. agg[i].end
       PROVE  /\ d \in lo .. hi /\ agg[i].pallets > 0
              /\ BalanceOfAll(rows, d) = agg[i].pallets
  <2>1. i \in 1 .. n /\ runs[i] \in StretchesOf(Buckets)
    BY <1>6, <1>7
  <2>2. runs[i].start \in Int /\ runs[i].end \in Int /\ agg[i].start = runs[i].start /\ agg[i].end = runs[i].end
    BY <1>8, <2>1 DEF StretchesOf
  <2>3. d \in Int /\ Covers(runs[i], d)
    BY <1>15, <2>2 DEF Covers
  <2>4. runs[i].like = DayBucket(rows, d)
    BY <1>2, <2>1, <2>3
  <2>5. PICK j \in 1 .. Len(M) : Covers(M[j].segment, d)
    BY <1>2, <2>1, <2>3
  <2> DEFINE x == ValuesAt(OnThe(d, DayPallets), M)
  <2>6. DayBucket(rows, d).pallets = Summed(x)
    BY <1>1, <2>3, BucketIs DEF M
  <2>7. agg[i].pallets = Summed(x)
    BY <1>8, <2>1, <2>4, <2>6
  <2>8. OnThe(d, DayPallets) \in [Marked -> Int]
    BY DayQuantities, DayTypes
  <2>9. x \in Seq(Int) /\ Len(x) = Len(M) /\ \A h \in 1 .. Len(M) : x[h] = OnThe(d, DayPallets)[M[h]]
    BY <1>1, <2>8, ValuesSeq
  <2>10. Len(M) \in Nat /\ \A h \in 1 .. Len(M) : M[h] \in Marked /\ M[h] \in MarkedIn(lo, hi)
    BY <1>1
  <2>11. DayPallets \in [Marked -> Int] /\ \A s \in Marked : DayPallets[s] > 0
    BY DayQuantities
  <2> HIDE DEF x
  <2>12. \A h \in 1 .. Len(M) : x[h] \in Nat
    <3> TAKE h \in 1 .. Len(M)
    <3>1. M[h] \in Marked /\ DayPallets[M[h]] \in Nat
      BY <2>10, <2>11
    <3>2. OnThe(d, DayPallets)[M[h]] \in {DayPallets[M[h]], 0}
      BY <3>1 DEF OnThe
    <3> QED
      BY <2>9, <3>1, <3>2
  <2>13. x[j] > 0
    BY <2>5, <2>9, <2>10, <2>11 DEF OnThe
  <2>14. x \in Seq(Nat)
    <3>1. x = [h \in 1 .. Len(M) |-> x[h]] /\ Len(M) \in Nat
      BY <2>9, <2>10
    <3>2. x \in [1 .. Len(M) -> Nat]
      BY <2>12, <3>1
    <3> QED
      BY <3>1, <3>2, FunctionList
  <2>15. Summed(x) \in Nat /\ x[j] <= Summed(x)
    BY <2>9, <2>14, SummedNat
  <2>16. x[j] \in Nat
    BY <2>12
  <2>17. M[j] \in Marked /\ lo <= M[j].segment.start /\ M[j].segment.end <= hi
    BY <2>10 DEF MarkedIn
  <2>18. d \in lo .. hi
    <3>1. M[j].segment.start \in Int /\ M[j].segment.end \in Int
      BY <2>17, DayQuantities
    <3> QED
      BY <2>3, <2>5, <2>17, <3>1 DEF Covers
  <2>19. agg[i].pallets > 0
    BY <2>7, <2>13, <2>15, <2>16
  <2> QED
    BY <1>14, <2>3, <2>7, <2>18, <2>19 DEF x
<1> QED
  BY <1>2, <1>11, <1>13, <1>14, <1>15

-----------------------------------------------------------------------------
(* The runs of the preview on the desk *)

\* The stays of a preview of one customer, with their balances.
PreviewKept(p, lo, hi) ==
  /\ IsList(p.storage) /\ \A i \in 1 .. Len(p.storage) : StayFits(p.storage[i], lo, hi)
  /\ DOMAIN p.daily = lo .. hi /\ \A d \in lo .. hi : p.daily[d] = BalanceOfAll(p.storage, d)

\* The stays of a preview, with the balances of the days that have one.
StorageKept(p, lo, hi) ==
  /\ IsList(p.storage) /\ \A i \in 1 .. Len(p.storage) : StayFits(p.storage[i], lo, hi)
  /\ \A d \in lo .. hi : BalanceOfAll(p.storage, d) > 0 =>
       d \in DOMAIN p.daily /\ p.daily[d] = BalanceOfAll(p.storage, d)

\* What the service answers has the balances of its stays.
LEMMA ServiceKept ==
  ASSUME NEW r \in Seq(PalletMoves), NEW scope, ScopeSound(scope)
  PROVE  PreviewKept(PreviewOfSources(r, scope), scope.start, scope.end)
<1> DEFINE rows == StorageRows(r, scope)  p == PreviewOfSources(r, scope)
<1>1. p.storage = rows /\ p.daily = DailyRows(rows, scope.start, scope.end)
  BY DEF PreviewOfSources, PreviewFrom, PreviewWith
<1>2. IsList(rows) /\ \A i \in 1 .. Len(rows) : \E c \in Containers : rows[i] = StorageRow(r, scope, c)
  BY StorageRowsSeq
<1> HIDE DEF rows, p
<1>3. \A i \in 1 .. Len(rows) : StayFits(rows[i], scope.start, scope.end)
  BY <1>2, StorageRowStays
<1>4. /\ DOMAIN DailyRows(rows, scope.start, scope.end) = scope.start .. scope.end
      /\ \A d \in scope.start .. scope.end : DailyRows(rows, scope.start, scope.end)[d] = BalanceOfAll(rows, d)
  BY DEF DailyRows, BalanceOfAll
<1> QED
  BY <1>1, <1>2, <1>3, <1>4 DEF PreviewKept, p

\* The balances of stays on a day.
BalancesOn(R, d) == [x \in R |-> BalanceOn(x.segments, d)]

\* The balance of stays on a day is the sum of their balances.
LEMMA BalanceIs ==
  ASSUME NEW R, NEW lo \in Int, NEW hi \in Int, \A x \in R : StayFits(x, lo, hi), NEW d \in Int
  PROVE  /\ BalancesOn(R, d) \in [R -> Int]
         /\ \A rows \in Seq(R) : BalanceOfAll(rows, d) = Summed(ValuesAt(BalancesOn(R, d), rows))
<1> DEFINE v == BalancesOn(R, d)
<1>1. ASSUME NEW x \in R PROVE BalanceOn(x.segments, d) \in Int
  <2>1. BalanceOn(x.segments, d) = Summed(ValuesAt(OnThe(d, DayPallets), MarkedOf(x)))
    BY StayBalance
  <2>2. MarkedOf(x) \in Seq(Marked) /\ OnThe(d, DayPallets) \in [Marked -> Int]
    BY MarkedOfSeq, DayQuantities, DayTypes
  <2>3. ValuesAt(OnThe(d, DayPallets), MarkedOf(x)) \in Seq(Int)
    BY <2>2, ValuesSeq
  <2> QED
    BY <2>1, <2>3, SummedInt
<1>2. v \in [R -> Int] /\ \A x \in R : v[x] = BalanceOn(x.segments, d)
  BY <1>1 DEF BalancesOn
<1> HIDE DEF v
<1>3. ASSUME NEW rows \in Seq(R) PROVE BalanceOfAll(rows, d) = Summed(ValuesAt(v, rows))
  <2> DEFINE f == [i \in DOMAIN rows |-> BalanceOn(rows[i].segments, d)]
  <2>1. BalanceOfAll(rows, d) = Summed(<<>> \o f)
    BY DEF BalanceOfAll, TotalOf, Each
  <2>2. \A i \in DOMAIN rows : rows[i] \in R
    OBVIOUS
  <2>3. f = [i \in DOMAIN rows |-> v[rows[i]]]
    BY <1>2, <2>2
  <2> HIDE DEF f
  <2>4. Summed(<<>> \o f) = Summed(ValuesAt(v, rows))
    BY <1>2, <2>3, TotalIs
  <2> QED
    BY <2>1, <2>4
<1> QED
  BY <1>2, <1>3 DEF v

\* One preview is kept.
LEMMA OneKept ==
  ASSUME NEW p, NEW lo, NEW hi, PreviewKept(p, lo, hi)
  PROVE  StorageKept(p, lo, hi)
BY DEF PreviewKept, StorageKept

\* Merged, the previews of several customers have the stays of all of them.
LEMMA MergedKept ==
  ASSUME NEW n \in Nat, NEW previews, previews = [i \in 1 .. n |-> previews[i]], NEW scope,
         NEW lo \in Int, NEW hi \in Int, \A i \in 1 .. n : PreviewKept(previews[i], lo, hi)
  PROVE  StorageKept(Merged(previews, scope), lo, hi)
<1> DEFINE p == Merged(previews, scope)
           F == [i \in 1 .. n |-> previews[i].storage]
           days == UNION {DOMAIN q.daily : q \in ToSet(previews)}
           R == UNION {Elements(previews[i].storage) : i \in 1 .. n}
           DailyOf(q, d) == IF d \in DOMAIN q.daily THEN q.daily[d] ELSE 0
<1>1. DOMAIN previews = 1 .. n /\ Len(previews) = n /\ ToSet(previews) = {previews[i] : i \in 1 .. n}
  <2> DEFINE S == {previews[i] : i \in 1 .. n}
  <2>1. \A i \in 1 .. n : previews[i] \in S
    OBVIOUS
  <2>2. ToSet(previews) = {previews[i] : i \in DOMAIN previews}
    BY DEF ToSet
  <2> HIDE DEF S
  <2>3. previews \in Seq(S) /\ Len(previews) = n
    BY <2>1, EachSeq
  <2>4. DOMAIN previews = 1 .. n
    BY <2>3
  <2> QED
    BY <2>2, <2>3, <2>4
<1>2. p.storage = StaysInPlace(Joined(<<>> \o [i \in DOMAIN previews |-> previews[i].storage]))
  BY DEF Merged, Each
<1>3. p.daily = [d \in days |-> Summed(<<>> \o [i \in DOMAIN previews |-> DailyOf(previews[i], d)])]
  BY DEF Merged, TotalOf, Each
<1> HIDE DEF p
<1>4. \A i \in 1 .. n : previews[i].storage \in Seq(R)
  <2> TAKE i \in 1 .. n
  <2> DEFINE s == previews[i].storage
  <2>1. IsList(s)
    BY DEF PreviewKept
  <2>2. \A j \in 1 .. Len(s) : s[j] \in R
    BY DEF Elements
  <2> HIDE DEF R, s
  <2>3. s \in Seq(R)
    BY <2>1, <2>2, ListElim
  <2> QED
    BY <2>3 DEF s
<1>5. ASSUME NEW x \in R PROVE StayFits(x, lo, hi)
  <2>1. PICK i \in 1 .. n : x \in Elements(previews[i].storage)
    OBVIOUS
  <2>2. PICK j \in 1 .. Len(previews[i].storage) : x = previews[i].storage[j]
    BY <2>1 DEF Elements
  <2> QED
    BY <2>2 DEF PreviewKept
<1> HIDE DEF R
<1>6. /\ <<>> \o F = F /\ Len(F) = n /\ F = [i \in DOMAIN previews |-> previews[i].storage]
      /\ \A i \in 1 .. n : F[i] = previews[i].storage
  <2>1. F = [i \in 1 .. n |-> F[i]] /\ \A i \in 1 .. n : F[i] = previews[i].storage
    OBVIOUS
  <2>2. F = [i \in DOMAIN previews |-> previews[i].storage]
    BY <1>1
  <2> HIDE DEF F
  <2>3. \A i \in 1 .. n : F[i] \in Seq(R)
    BY <1>4, <2>1
  <2>4. <<>> \o F = F /\ Len(F) = n
    BY <2>1, <2>3, EachSeq
  <2> QED
    BY <2>1, <2>2, <2>4
<1> HIDE DEF F
<1> DEFINE all == Joined(F)
<1>7. p.storage = StaysInPlace(all)
  BY <1>2, <1>6
<1>8. Len(F) \in Nat /\ \A i \in 1 .. Len(F) : F[i] \in Seq(R)
  BY <1>4, <1>6
<1>9. all \in Seq(R)
  BY <1>8, JoinedSeq
<1>10. ASSUME NEW v \in [R -> Int]
       PROVE  Summed(ValuesAt(v, all)) = Summed([i \in 1 .. Len(F) |-> Summed(ValuesAt(v, F[i]))])
  BY <1>8, ValuesJoined
<1> HIDE DEF all
<1>11. /\ StaysInPlace(all) \in Seq(R)
       /\ \A v \in [R -> Int] : Summed(ValuesAt(v, StaysInPlace(all))) = Summed(ValuesAt(v, all))
  BY <1>9, StaysInPlaceSound
<1>12. IsList(p.storage) /\ \A i \in 1 .. Len(p.storage) : StayFits(p.storage[i], lo, hi)
  <2>1. \A i \in 1 .. Len(p.storage) : p.storage[i] \in R
    BY <1>7, <1>11
  <2> QED
    BY <1>5, <1>7, <1>11, <2>1, ListIntro
<1>13. ASSUME NEW d \in lo .. hi, BalanceOfAll(p.storage, d) > 0
       PROVE  d \in DOMAIN p.daily /\ p.daily[d] = BalanceOfAll(p.storage, d)
  <2> DEFINE v == BalancesOn(R, d)
             g == [i \in 1 .. n |-> Summed(ValuesAt(v, F[i]))]
             h == [i \in DOMAIN previews |-> DailyOf(previews[i], d)]
  <2>1. d \in Int
    OBVIOUS
  <2>2. v \in [R -> Int] /\ \A rows \in Seq(R) : BalanceOfAll(rows, d) = Summed(ValuesAt(v, rows))
    BY <1>5, <2>1, BalanceIs
  <2> HIDE DEF v
  <2>3. BalanceOfAll(p.storage, d) = Summed(g)
    BY <1>6, <1>7, <1>10, <1>11, <2>2
  <2>4. \A i \in 1 .. n : d \in DOMAIN previews[i].daily /\ previews[i].daily[d] = Summed(ValuesAt(v, F[i]))
    BY <1>4, <1>6, <2>2 DEF PreviewKept
  <2>5. h = g
    BY <1>1, <2>4
  <2>6. \A i \in 1 .. n : Summed(ValuesAt(v, F[i])) \in Int
    BY <1>4, <1>6, <2>2, ValuesSeq, SummedInt
  <2>7. <<>> \o g = g
    <3>1. g = [i \in 1 .. n |-> g[i]] /\ \A i \in 1 .. n : g[i] \in Int
      BY <2>6
    <3> HIDE DEF g
    <3> QED
      BY <3>1, EachSeq
  <2>8. n # 0
    <3> SUFFICES ASSUME n = 0 PROVE FALSE
      OBVIOUS
    <3>1. g = <<>>
      OBVIOUS
    <3> HIDE DEF g
    <3> QED
      BY <1>13, <2>3, <3>1, SummedEmpty
  <2>9. d \in days
    <3>1. 1 \in 1 .. n
      BY <2>8
    <3>2. previews[1] \in ToSet(previews) /\ d \in DOMAIN previews[1].daily
      BY <1>1, <2>4, <3>1
    <3> QED
      BY <3>2
  <2>10. DOMAIN p.daily = days /\ p.daily[d] = Summed(<<>> \o h)
    <3> HIDE DEF days
    <3> QED
      BY <1>3, <2>9
  <2> HIDE DEF g, h, days
  <2> QED
    BY <2>3, <2>5, <2>7, <2>9, <2>10
<1> QED
  BY <1>12, <1>13 DEF StorageKept, p

\* The runs of what is kept keep it.
LEMMA KeptAgrees ==
  ASSUME NEW p, NEW lo \in Int, NEW hi \in Int, StorageKept(p, lo, hi)
  PROVE  RunsOf(AggregatedSegments(p.storage), p, BalanceChart(p))
<1> DEFINE rows == p.storage  agg == AggregatedSegments(rows)  R == {rows[i] : i \in DOMAIN rows}
<1>1. rows \in Seq(R) /\ \A i \in 1 .. Len(rows) : StayFits(rows[i], lo, hi)
  BY ListElim DEF StorageKept
<1>2. \A d \in lo .. hi : BalanceOfAll(rows, d) > 0 => d \in DOMAIN p.daily /\ p.daily[d] = BalanceOfAll(rows, d)
  BY DEF StorageKept
<1> HIDE DEF rows, R
<1>3. /\ DaysOfAll(agg) = DaysOfAll(rows) /\ FreeOfAll(agg) = FreeOfAll(rows) /\ AmountOfAll(agg) = AmountOfAll(rows)
      /\ \A i \in DOMAIN agg : \A d \in agg[i].start .. agg[i].end :
           d \in lo .. hi /\ agg[i].pallets > 0 /\ BalanceOfAll(rows, d) = agg[i].pallets
  <2>1. agg = AggregatedSegments(rows)
    OBVIOUS
  <2> HIDE DEF agg
  <2> QED
    BY <1>1, <2>1, RunsKeep
<1> HIDE DEF agg
<1>4. ASSUME NEW i \in DOMAIN agg, NEW d \in agg[i].start .. agg[i].end
      PROVE  BalanceChart(p)[d] = agg[i].pallets
  <2>1. d \in lo .. hi /\ agg[i].pallets > 0 /\ BalanceOfAll(rows, d) = agg[i].pallets
    BY <1>3
  <2>2. d \in DOMAIN p.daily /\ p.daily[d] = agg[i].pallets
    BY <1>2, <2>1
  <2>3. BalanceChart(p) = p.daily
    BY <2>1, <2>2 DEF BalanceChart
  <2> QED
    BY <2>2, <2>3
<1> QED
  BY <1>3, <1>4 DEF RunsOf, rows, agg, DaysOfAll, FreeOfAll, AmountOfAll

\* A finite set of numbers has a greatest one.
LEMMA FinitelyMany ==
  ASSUME NEW C, IsFiniteSet(C), C \subseteq Nat, C # {}
  PROVE  \E x \in C : \A y \in C : x >= y
<1>1. PICK n \in Nat : ExistsSurjection(1 .. n, C)
  BY FS_NatSurjection
<1>2. PICK f \in [1 .. n -> C] : \A y \in C : \E i \in 1 .. n : f[i] = y
  BY <1>1 DEF ExistsSurjection, Surjection
<1> DEFINE S == {k \in 0 .. n : ~\E b \in Nat : \A i \in 1 .. k : f[i] <= b}
<1>3. PICK b \in Nat : \A i \in 1 .. n : f[i] <= b
  <2> SUFFICES ASSUME ~\E b \in Nat : \A i \in 1 .. n : f[i] <= b PROVE FALSE
    OBVIOUS
  <2>1. S \in SUBSET Nat /\ S # {}
    <3>1. n \in 0 .. n
      OBVIOUS
    <3>2. n \in S
      BY <3>1
    <3>3. 0 .. n \subseteq Nat
      OBVIOUS
    <3> QED
      BY <3>2, <3>3
  <2>2. PICK k \in S : \A j \in S : k <= j
    <3> HIDE DEF S
    <3> QED
      BY <2>1, Smallest
  <2>3. k # 0
    <3>1. \A i \in 1 .. 0 : f[i] <= 0
      OBVIOUS
    <3> QED
      BY <3>1
  <2>4. k \in 1 .. n
    BY <2>3
  <2>5. PICK b \in Nat : \A i \in 1 .. (k - 1) : f[i] <= b
    <3>1. k - 1 \in 0 .. n
      BY <2>4
    <3>2. k - 1 \notin S
      <4> HIDE DEF S
      <4>1. k \in Int /\ ~(k <= k - 1)
        BY <2>4
      <4> QED
        BY <2>2, <4>1
    <3> QED
      BY <3>1, <3>2
  <2>6. f[k] \in Nat
    BY <2>4
  <2> DEFINE z == f[k]
  <2>9. b \in Nat /\ z \in Nat
    BY <2>5, <2>6
  <2> HIDE DEF z
  <2>10. \E e \in Nat : b <= e /\ z <= e
    <3>1. b <= b + z /\ z <= b + z /\ b + z \in Nat
      BY <2>9
    <3> QED
      BY <3>1
  <2>7. PICK e \in Nat : b <= e /\ f[k] <= e
    BY <2>10 DEF z
  <2>8. ASSUME NEW i \in 1 .. k PROVE f[i] <= e
    <3>1. CASE i = k
      BY <2>7, <3>1
    <3>2. CASE i # k
      <4>1. i \in 1 .. (k - 1) /\ i \in 1 .. n
        BY <2>4, <3>2
      <4>2. f[i] \in Nat
        BY <4>1
      <4> QED
        BY <2>5, <2>7, <4>1, <4>2
    <3> QED
      BY <3>1, <3>2
  <2> QED
    BY <2>8
<1>4. C \in SUBSET (0 .. b)
  BY <1>2, <1>3
<1>5. PICK x \in C : \A k \in C : k <= x
  BY <1>4, Greatest
<1> QED
  BY <1>5

\* Customers by number are a list of them.
LEMMA CustomersList ==
  /\ Len(Ascending(Customers)) \in Nat /\ DOMAIN Ascending(Customers) = 1 .. Len(Ascending(Customers))
<1>1. Customers \subseteq Nat \ {0} /\ IsFiniteSet(Customers)
  BY ContainersAssumption
<1> DEFINE C == {0} \cup Customers  m == Max(C)  f == [i \in 1 .. m |-> i]
<1>2. IsFiniteSet(C) /\ C \subseteq Nat /\ C # {}
  <2>1. IsFiniteSet({0})
    BY FS_Singleton
  <2>2. C \subseteq Nat /\ C # {}
    BY <1>1
  <2> QED
    BY <1>1, <2>1, <2>2, FS_Union
<1>3. m \in Nat
  <2>1. PICK x \in C : \A y \in C : x >= y
    <3> HIDE DEF C
    <3> QED
      BY <1>2, FinitelyMany
  <2>2. m \in C
    BY <2>1 DEF Max
  <2> QED
    BY <1>2, <2>2
<1>4. f \in Seq(Int)
  <2> HIDE DEF m
  <2>1. f \in [1 .. m -> Int]
    OBVIOUS
  <2> QED
    BY <1>3, <2>1
<1>5. Ascending(Customers) = Only(f, Customers)
  BY DEF Ascending
<1> HIDE DEF f
<1>6. Only(f, Customers) \in Seq(Int \cap Customers)
  BY <1>4, OnlyEmbeds
<1> QED
  BY <1>5, <1>6

\* What the service answers about one customer, from whatever movements, is kept.
LEMMA PreviewedKept ==
  ASSUME NEW r \in Seq(PalletMoves), NEW scope, ScopeSound(scope)
  PROVE  PreviewKept(ServicePreview(r, scope), scope.start, scope.end)
<1>1. SourcesOf(r, scope) \in Seq(PalletMoves)
  <2> DEFINE K == {m \in ToSet(r) : CustomerOf[m.container] = scope.customer /\ m.day <= scope.end}
  <2>1. SourcesOf(r, scope) = Only(r, K)
    BY DEF SourcesOf
  <2> HIDE DEF K
  <2>2. Only(r, K) \in Seq(PalletMoves \cap K)
    BY OnlyEmbeds
  <2> QED
    BY <2>1, <2>2
<1>2. ServicePreview(r, scope) = PreviewOfSources(SourcesOf(r, scope), scope)
  BY DEF ServicePreview
<1> QED
  BY <1>1, <1>2, ServiceKept

\* So are the previews of all customers, merged.
LEMMA AllKept ==
  ASSUME NEW r \in Seq(PalletMoves), NEW scope, ScopeSound(scope)
  PROVE  StorageKept(AllPreviews(r, scope), scope.start, scope.end)
<1> DEFINE customers == Ascending(Customers)
           n == Len(customers)
           Asked(i) == [scope EXCEPT !.customer = customers[i]]
           previews == [i \in DOMAIN customers |-> Mapped(ServicePreview(r, Asked(i)))]
<1>1. n \in Nat /\ DOMAIN customers = 1 .. n
  BY CustomersList
<1>2. AllPreviews(r, scope) = Merged(previews, scope)
  BY DEF AllPreviews
<1> HIDE DEF customers, n
<1>3. ASSUME NEW i \in 1 .. n PROVE PreviewKept(previews[i], scope.start, scope.end)
  <2> DEFINE asked == Asked(i)  p == ServicePreview(r, asked)
  <2>1. /\ asked.start = scope.start /\ asked.end = scope.end
        /\ asked.rates = scope.rates
    OBVIOUS
  <2>2. previews[i] = Mapped(p)
    BY <1>1
  <2> HIDE DEF asked, previews
  <2>3. ScopeSound(asked)
    BY <2>1 DEF ScopeSound
  <2>4. PreviewKept(p, scope.start, scope.end)
    BY <2>1, <2>3, PreviewedKept
  <2> HIDE DEF p
  <2>5. Mapped(p).storage = p.storage /\ Mapped(p).daily = p.daily
    BY DEF Mapped
  <2> QED
    BY <2>2, <2>4, <2>5 DEF PreviewKept
<1>4. previews = [i \in 1 .. n |-> previews[i]]
  BY <1>1
<1> HIDE DEF previews
<1>5. scope.start \in Int /\ scope.end \in Int
  BY DEF ScopeSound
<1>6. StorageKept(Merged(previews, scope), scope.start, scope.end)
  BY <1>1, <1>3, <1>4, <1>5, MergedKept
<1> QED
  BY <1>2, <1>6

\* The preview on the desk has the stays and the balances its runs need.
LEMMA SourcedRunsKept ==
  ASSUME SourcesInv
  PROVE  RunsKeepTheStorage
<1> SUFFICES ASSUME page = "desk", desk.preview # Nothing
             PROVE  RunsOf(AggregatedSegments(desk.preview.storage), desk.preview, BalanceChart(desk.preview))
  BY DEF RunsKeepTheStorage
<1> DEFINE scope == desk.scope  p == desk.preview
<1>1. scope \in Scopes /\ PreviewSound(p, scope)
  BY DEF SourcesInv, DeskSourced
<1>2. ScopeSound(scope)
  BY <1>1, ScopesAssumption DEF ScopeSound
<1> HIDE DEF scope, p
<1>3. StorageKept(p, scope.start, scope.end)
  <2>1. CASE scope.customer # AllCustomers
    <3>1. PICK r \in Seq(PalletMoves) : p = PreviewOfSources(r, scope)
      BY <1>1, <2>1 DEF PreviewSound
    <3>2. PreviewKept(p, scope.start, scope.end)
      BY <1>2, <3>1, ServiceKept
    <3> QED
      BY <3>2, OneKept
  <2>2. CASE scope.customer = AllCustomers
    <3>1. PICK r \in Seq(PalletMoves) : p = AllPreviews(r, scope)
      BY <1>1, <2>2 DEF PreviewSound
    <3> QED
      BY <1>2, <3>1, AllKept
  <2> QED
    BY <2>1, <2>2
<1>4. scope.start \in Int /\ scope.end \in Int
  BY <1>2 DEF ScopeSound
<1>5. RunsOf(AggregatedSegments(p.storage), p, BalanceChart(p))
  BY <1>3, <1>4, KeptAgrees
<1> QED
  BY <1>5 DEF p

\* The runs of days of the preview's PDF (billingPreviewPdf.ts) bill the pallet-days, the free
\* pallet-days and the fees of the stays they are cut from, each once, and each run has the
\* pallets that the balance chart shows on its days, for every history of movements.
THEOREM RunsKept == Spec => []RunsKeepTheStorage
BY InitSound, StepSound, InitSourced, StepSourced, SourcedRunsKept, PTL DEF Spec
=============================================================================
