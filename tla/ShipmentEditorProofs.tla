------------------------ MODULE ShipmentEditorProofs ------------------------
(***************************************************************************)
(* The shipment editor, for every stock, every document and any number of  *)
(* lines: what its page holds, and that its lines together never take more *)
(* of a bucket than is available there.                                    *)
(***************************************************************************)
EXTENDS ShipmentEditor, SumTheorems, TLAPS

-----------------------------------------------------------------------------
(* The order of candidates *)

\* Candidates of one source differ in their buckets.
Orderable(candidates) ==
  /\ IsFiniteSet(candidates)
  /\ \A c \in candidates : c.arrival \in Nat /\ c.bucket \in Nat
  /\ \A c, d \in candidates : c.bucket = d.bucket => c = d

\* Two different candidates come one before the other, never both, and the order is transitive.
LEMMA BeforeIsOrder ==
  ASSUME NEW U, Orderable(U)
  PROVE  /\ \A c \in U : ~Before(c, c)
         /\ \A c, d \in U : c = d \/ Before(c, d) \/ Before(d, c)
         /\ \A c, d, e \in U : Before(c, d) /\ Before(d, e) => Before(c, e)
BY DEF Orderable, Before

\* Any candidates have a last one.
LEMMA LastCandidate ==
  ASSUME NEW U, Orderable(U), NEW C \in SUBSET U, C # {}
  PROVE  \E m \in C : \A c \in C \ {m} : Before(c, m)
<1> DEFINE HasLast(D) == D # {} => \E m \in D : \A c \in D \ {m} : Before(c, m)
           S == {n \in Nat : \A D \in SUBSET U : Cardinality(D) = n => HasLast(D)}
<1>1. \A D \in SUBSET U : IsFiniteSet(D) /\ Cardinality(D) \in Nat
  BY FS_Subset, FS_CardinalityType DEF Orderable
<1>2. 0 \in S
  BY <1>1, FS_EmptySet
<1>3. ASSUME NEW n \in Nat, n \in S PROVE n + 1 \in S
  <2> SUFFICES ASSUME NEW D \in SUBSET U, Cardinality(D) = n + 1, D # {} PROVE HasLast(D)
    OBVIOUS
  <2>1. PICK x \in D : TRUE
    OBVIOUS
  <2> DEFINE rest == D \ {x}
  <2>2. Cardinality(rest) = n /\ rest \in SUBSET U
    <3> HIDE DEF HasLast, S
    <3>1. IsFiniteSet(D) /\ rest \in SUBSET U
      BY <1>1
    <3>2. Cardinality(rest) = Cardinality(D) - 1
      BY <2>1, <3>1, FS_RemoveElement
    <3> QED
      BY <3>1, <3>2
  <2>3. CASE rest = {}
    BY <2>1, <2>3
  <2>4. CASE rest # {}
    <3>1. PICK m \in rest : \A c \in rest \ {m} : Before(c, m)
      BY <1>3, <2>2, <2>4
    <3>2. CASE Before(x, m)
      <4>1. \A c \in D \ {m} : Before(c, m)
        BY <3>1, <3>2
      <4> QED
        BY <3>1, <4>1
    <3>3. CASE Before(m, x)
      <4>1. \A c \in D \ {x} : Before(c, x)
        BY <3>1, <3>3, BeforeIsOrder
      <4> QED
        BY <2>1, <4>1
    <3> QED
      BY <2>1, <3>1, <3>2, <3>3, BeforeIsOrder
  <2> QED
    BY <2>3, <2>4
<1>4. Nat \subseteq S
  <2> HIDE DEF S
  <2> QED
    BY <1>2, <1>3, SetInduction
<1> QED
  BY <1>1, <1>4

\* InOrder lists the candidates it is given, each before the next.
LEMMA InOrderSound ==
  ASSUME NEW U, Orderable(U)
  PROVE  /\ Cardinality(U) \in Nat
         /\ InOrder(U) \in [1 .. Cardinality(U) -> U]
         /\ \A i, j \in 1 .. Cardinality(U) : i < j => Before(InOrder(U)[i], InOrder(U)[j])
<1> DEFINE Listed(D, f) == /\ f \in [1 .. Cardinality(D) -> D]
                           /\ \A i, j \in DOMAIN f : i < j => Before(f[i], f[j])
           S == {n \in Nat : \A D \in SUBSET U : Cardinality(D) = n => \E f : Listed(D, f)}
<1>1. \A D \in SUBSET U : IsFiniteSet(D) /\ Cardinality(D) \in Nat
  BY FS_Subset, FS_CardinalityType DEF Orderable
<1>2. 0 \in S
  <2> SUFFICES ASSUME NEW D \in SUBSET U, Cardinality(D) = 0 PROVE \E f : Listed(D, f)
    OBVIOUS
  <2>1. Listed(D, [i \in 1 .. 0 |-> i])
    OBVIOUS
  <2> QED
    BY <2>1
<1>3. ASSUME NEW n \in Nat, n \in S PROVE n + 1 \in S
  <2> SUFFICES ASSUME NEW D \in SUBSET U, Cardinality(D) = n + 1 PROVE \E f : Listed(D, f)
    OBVIOUS
  <2>1. D # {}
    BY FS_EmptySet
  <2>2. PICK m \in D : \A c \in D \ {m} : Before(c, m)
    BY <2>1, LastCandidate
  <2> DEFINE rest == D \ {m}
  <2>3. Cardinality(rest) = n /\ rest \in SUBSET U
    <3>1. IsFiniteSet(D)
      BY <1>1
    <3>2. Cardinality(rest) = Cardinality(D) - 1
      BY <3>1, FS_RemoveElement
    <3> QED
      BY <3>2
  <2>4. PICK g : Listed(rest, g)
    BY <1>3, <2>3
  <2> DEFINE f == [i \in 1 .. n + 1 |-> IF i = n + 1 THEN m ELSE g[i]]
  <2>5. g \in [1 .. n -> rest]
    BY <2>3, <2>4
  <2>6. f \in [1 .. n + 1 -> D]
    BY <2>5
  <2>7. ASSUME NEW i \in 1 .. n + 1, NEW j \in 1 .. n + 1, i < j PROVE Before(f[i], f[j])
    <3>1. i \in 1 .. n /\ f[i] = g[i] /\ g[i] \in rest
      BY <2>5, <2>7
    <3>2. CASE j = n + 1
      BY <2>2, <3>1, <3>2
    <3>3. CASE j \in 1 .. n
      <4>1. f[j] = g[j]
        BY <3>3
      <4> QED
        BY <2>4, <2>5, <2>7, <3>1, <3>3, <4>1
    <3> QED
      BY <3>2, <3>3
  <2> HIDE DEF f
  <2>8. Listed(D, f)
    BY <2>6, <2>7
  <2> QED
    BY <2>8
<1>4. Nat \subseteq S
  <2> HIDE DEF S
  <2> QED
    BY <1>2, <1>3, SetInduction
<1>5. \E f : Listed(U, f)
  BY <1>1, <1>4
<1>6. InOrder(U) = CHOOSE f \in [1 .. Cardinality(U) -> U] : \A i, j \in DOMAIN f : i < j => Before(f[i], f[j])
  BY DEF InOrder
<1>7. Listed(U, InOrder(U))
  BY <1>5, <1>6
<1> QED
  BY <1>1, <1>7

-----------------------------------------------------------------------------
(* Candidates and sources *)

CandidateFields ==
  {"id", "bucket", "location", "avail", "availPallets", "onHand", "onHandPallets", "arrival"}

IsCandidate(c) ==
  /\ DOMAIN c = CandidateFields
  /\ c.bucket \in Nat /\ c.arrival \in Nat /\ c.avail \in Nat /\ c.availPallets \in Nat
  /\ c.onHand \in Nat /\ c.onHandPallets \in Nat

\* A candidate is where its source is.  Its id names its bucket, and that bucket
\* belongs to its source alone.
IsOf(c, key, items) ==
  /\ c.location = Sources[key].location
  /\ \/ c.id = <<"draft", key, c.bucket>>
     \/ c.id = <<"item", c.bucket>> /\ c.bucket \in DOMAIN items /\ items[c.bucket].source = key

CandidatesSound(cs, key, items) ==
  /\ IsList(cs)
  /\ \A i \in DOMAIN cs : IsCandidate(cs[i]) /\ IsOf(cs[i], key, items)
  /\ \A i, j \in DOMAIN cs : i # j => cs[i].bucket # cs[j].bucket

SourceSound(source, key, items) ==
  /\ "candidates" \in DOMAIN source /\ CandidatesSound(source.candidates, key, items)
  /\ source.location = Sources[key].location

SourcesSound(all, items) ==
  \A k \in DOMAIN all : k \in DOMAIN Sources /\ SourceSound(all[k], k, items)

\* A list of values of a set is a list.
LEMMA ListOver ==
  ASSUME NEW U, NEW n \in Nat, NEW f \in [1 .. n -> U]
  PROVE  IsList(f) /\ Len(f) = n /\ DOMAIN f = 1 .. n
<1>1. f \in [1 .. n -> ToSet(f)]
  BY DEF ToSet
<1>2. f \in Seq(ToSet(f)) /\ Len(f) = n
  BY <1>1
<1> QED
  BY <1>2 DEF IsList, ToSet

\* The elements of a list are those at its places.
LEMMA ListProperties ==
  ASSUME NEW f, IsList(f)
  PROVE  /\ Len(f) \in Nat /\ DOMAIN f = 1 .. Len(f)
         /\ \A i \in 1 .. Len(f) : f[i] \in ToSet(f)
         /\ IsFiniteSet(ToSet(f))
<1>1. Len(f) \in Nat /\ DOMAIN f = 1 .. Len(f)
  BY DEF IsList, ToSet
<1>2. IsFiniteSet(DOMAIN f)
  BY <1>1, FS_Interval
<1>3. IsFiniteSet(ToSet(f))
  BY <1>2, ImageFinite DEF ToSet
<1> QED
  BY <1>1, <1>3 DEF ToSet

\* And so is a list that is one element longer, or followed by another.
LEMMA SeqList ==
  ASSUME NEW U, NEW f \in Seq(U)
  PROVE  IsList(f)
<1>1. Len(f) \in Nat /\ f \in [1 .. Len(f) -> U]
  OBVIOUS
<1> QED
  BY <1>1, ListOver

\* A list with one more element at its end.
LEMMA ListMore ==
  ASSUME NEW f, IsList(f), NEW x
  PROVE  /\ IsList(Append(f, x)) /\ Len(Append(f, x)) = Len(f) + 1
         /\ DOMAIN Append(f, x) = 1 .. Len(f) + 1
         /\ \A i \in 1 .. Len(f) : Append(f, x)[i] = f[i]
         /\ Append(f, x)[Len(f) + 1] = x
<1> DEFINE U == ToSet(f) \cup {x}
<1>1. f \in Seq(U) /\ x \in U
  BY DEF IsList, ToSet
<1> HIDE DEF U
<1>2. /\ Append(f, x) \in Seq(U) /\ Len(Append(f, x)) = Len(f) + 1
      /\ \A i \in 1 .. Len(f) : Append(f, x)[i] = f[i]
      /\ Append(f, x)[Len(f) + 1] = x
  BY <1>1
<1> DEFINE new == Append(f, x)
<1>3. Len(new) \in Nat /\ DOMAIN new = 1 .. Len(new) /\ IsList(new)
  <2>1. new \in Seq(U)
    BY <1>2
  <2> HIDE DEF new
  <2> QED
    BY <2>1, SeqList
<1> QED
  BY <1>2, <1>3

\* Two lists, one after the other.
LEMMA ListsJoined ==
  ASSUME NEW f, IsList(f), NEW g, IsList(g)
  PROVE  /\ IsList(f \o g) /\ Len(f \o g) = Len(f) + Len(g)
         /\ DOMAIN (f \o g) = 1 .. Len(f) + Len(g)
         /\ \A i \in 1 .. Len(f) : (f \o g)[i] = f[i]
         /\ \A i \in 1 .. Len(g) : (f \o g)[Len(f) + i] = g[i]
<1> DEFINE U == ToSet(f) \cup ToSet(g)
<1>1. f \in Seq(U) /\ g \in Seq(U)
  BY DEF IsList, ToSet
<1> HIDE DEF U
<1>2. /\ (f \o g) \in Seq(U) /\ Len(f \o g) = Len(f) + Len(g)
      /\ \A i \in 1 .. Len(f) : (f \o g)[i] = f[i]
      /\ \A i \in 1 .. Len(g) : (f \o g)[Len(f) + i] = g[i]
  BY <1>1
<1> DEFINE new == f \o g
<1>3. Len(new) \in Nat /\ DOMAIN new = 1 .. Len(new) /\ IsList(new)
  <2>1. new \in Seq(U)
    BY <1>2
  <2> HIDE DEF new
  <2> QED
    BY <2>1, SeqList
<1> QED
  BY <1>2, <1>3

\* The candidates of a sound source can be put in order.
LEMMA SoundOrderable ==
  ASSUME NEW cs, NEW key, NEW items, CandidatesSound(cs, key, items)
  PROVE  Orderable(ToSet(cs))
BY ListProperties DEF CandidatesSound, IsCandidate, Orderable, ToSet

\* And candidates put in order are those of a sound source.
LEMMA OrderedSound ==
  ASSUME NEW C, NEW key, NEW items, Orderable(C), \A c \in C : IsCandidate(c) /\ IsOf(c, key, items)
  PROVE  CandidatesSound(InOrder(C), key, items) /\ \A i \in DOMAIN InOrder(C) : InOrder(C)[i] \in C
<1> DEFINE cs == InOrder(C)
           n == Cardinality(C)
<1>1. n \in Nat /\ cs \in [1 .. n -> C] /\ \A i, j \in 1 .. n : i < j => Before(cs[i], cs[j])
  BY InOrderSound
<1> HIDE DEF cs, n
<1>2. IsList(cs) /\ DOMAIN cs = 1 .. n
  BY <1>1, ListOver
<1>3. \A i \in DOMAIN cs : cs[i] \in C
  BY <1>1, <1>2
<1>4. ASSUME NEW i \in 1 .. n, NEW j \in 1 .. n, i < j PROVE cs[i].bucket # cs[j].bucket
  <2>1. Before(cs[i], cs[j]) /\ cs[i] \in C /\ cs[j] \in C
    BY <1>1, <1>4
  <2>2. cs[i] # cs[j]
    BY <2>1, BeforeIsOrder
  <2> QED
    BY <2>1, <2>2 DEF Orderable
<1>5. \A i, j \in DOMAIN cs : i # j => cs[i].bucket # cs[j].bucket
  <2> SUFFICES ASSUME NEW i \in 1 .. n, NEW j \in 1 .. n, i # j PROVE cs[i].bucket # cs[j].bucket
    BY <1>2
  <2>1. i < j \/ j < i
    BY <1>1
  <2> QED
    BY <1>4, <2>1
<1>6. CandidatesSound(cs, key, items)
  BY <1>2, <1>3, <1>5 DEF CandidatesSound
<1> QED
  BY <1>3, <1>6 DEF cs

-----------------------------------------------------------------------------
(* Stock on offer *)

\* A stock item with free cartons is a sound candidate of its source.
LEMMA ItemCandidateSound ==
  ASSUME NEW items \in Stocks, NEW b \in DOMAIN items, AvailableQty(items[b]) > 0
  PROVE  /\ IsCandidate(ItemCandidate(items[b], b))
         /\ IsOf(ItemCandidate(items[b], b), items[b].source, items)
         /\ ItemCandidate(items[b], b).bucket = b
<1>1. b \in Nat /\ IsItem(items[b])
  BY StocksAssumption
<1>2. AvailableQty(items[b]) \in Nat
  BY <1>1 DEF IsItem, AvailableQty
<1> QED
  BY <1>1, <1>2 DEF IsItem, ItemCandidate, IsCandidate, CandidateFields, IsOf

\* What the stock offers are sound sources.
LEMMA OfferedSound ==
  ASSUME NEW items \in Stocks
  PROVE  SourcesSound(SourcesFromItems(items), items)
<1> DEFINE offered == {b \in DOMAIN items : AvailableQty(items[b]) > 0}
           all == SourcesFromItems(items)
<1>1. all = [k \in {items[b].source : b \in offered} |->
               SourceFrom(items, k, {b \in offered : items[b].source = k})]
  BY DEF SourcesFromItems, SourcesFromOffered
<1> SUFFICES ASSUME NEW k \in {items[b].source : b \in offered}
             PROVE  k \in DOMAIN Sources /\ SourceSound(all[k], k, items)
  BY <1>1 DEF SourcesSound
<1> DEFINE buckets == {b \in offered : items[b].source = k}
           C == {ItemCandidate(items[b], b) : b \in buckets}
<1>2. k \in DOMAIN Sources
  BY StocksAssumption DEF IsItem
<1>3. IsFiniteSet(C)
  <2>1. IsFiniteSet(DOMAIN items) /\ buckets \subseteq DOMAIN items
    BY StocksAssumption
  <2>2. IsFiniteSet(buckets)
    BY <2>1, FS_Subset
  <2> DEFINE f == [b \in buckets |-> ItemCandidate(items[b], b)]
  <2>3. C = {f[b] : b \in buckets}
    OBVIOUS
  <2> HIDE DEF buckets, f, C
  <2> QED
    BY <2>2, <2>3, ImageFinite
<1>4. \A b \in buckets : /\ IsCandidate(ItemCandidate(items[b], b))
                         /\ IsOf(ItemCandidate(items[b], b), k, items)
                         /\ ItemCandidate(items[b], b).bucket = b
  BY ItemCandidateSound
<1>5. Orderable(C)
  <2> HIDE DEF buckets
  <2> QED
    BY <1>3, <1>4 DEF Orderable, IsCandidate
<1>6. CandidatesSound(InOrder(C), k, items)
  <2>1. \A c \in C : IsCandidate(c) /\ IsOf(c, k, items)
    BY <1>4
  <2> QED
    BY <1>5, <2>1, OrderedSound
<1>7. all[k] = SourceOf(k, items[CHOOSE b \in buckets : TRUE], InOrder(C))
  BY <1>1 DEF SourceFrom
<1>8. SourceSound(all[k], k, items)
  <2> DEFINE b == CHOOSE b \in buckets : TRUE
  <2>1. b \in DOMAIN items /\ items[b].source = k
    OBVIOUS
  <2>2. items[b].location = Sources[k].location
    BY <2>1, StocksAssumption DEF IsItem
  <2> HIDE DEF all, C, b
  <2>3. all[k] = SourceOf(k, items[b], InOrder(C))
    BY <1>7 DEF b
  <2> QED
    BY <1>6, <2>2, <2>3 DEF SourceSound, SourceOf
<1> QED
  BY <1>2, <1>8

-----------------------------------------------------------------------------
(* What the document being edited holds *)

\* What a saved line holds, recorded or not, is a list of allocations.
LEMMA PersistedAllocationsType ==
  ASSUME NEW l \in SavedLines
  PROVE  PersistedAllocations(l) \in Seq(SavedAllocations)
<1>1. l.allocations \in Seq(SavedAllocations) /\ l.quantity \in Nat /\ l.planned \in Nat
  BY DEF SavedLines
<1> DEFINE n == IF l.quantity > 0 THEN l.quantity ELSE l.planned
           a == [bucket |-> NoBucket, allocated |-> n, pallets |-> 0, used |-> 0, starting |-> 0, remaining |-> 0]
<1>2. n \in Nat
  BY <1>1
<1> HIDE DEF n
<1>3. a \in SavedAllocations
  BY <1>2 DEF SavedAllocations, NoBucket
<1>4. PersistedAllocations(l) = IF l.allocations # <<>> THEN l.allocations ELSE <<a>>
  BY DEF PersistedAllocations, n
<1> HIDE DEF a
<1>5. <<a>> \in Seq(SavedAllocations)
  BY <1>3
<1> QED
  BY <1>1, <1>4, <1>5

\* The allocations of a source, gathered line by line.
LEMMA SourceAllocationsType ==
  ASSUME NEW doc, doc.lines \in Seq(SavedLines), NEW key
  PROVE  SourceAllocations(doc, key) \in Seq(SavedAllocations)
<1> DEFINE n == Len(doc.lines)
           Step(all, l) == IF l.source = key THEN all \o PersistedAllocations(l) ELSE all
           Runs(m, t) == t = [i \in 0 .. m |-> IF i = 0 THEN <<>> ELSE Step(t[i - 1], doc.lines[i])]
           S == {m \in Nat : \E t : Runs(m, t)}
<1>1. n \in Nat /\ \A i \in 1 .. n : doc.lines[i] \in SavedLines
  OBVIOUS
<1>2. SourceAllocations(doc, key) = (CHOOSE t : Runs(n, t))[n]
  BY DEF SourceAllocations, Accumulate
<1>3. ASSUME NEW all \in Seq(SavedAllocations), NEW l \in SavedLines
      PROVE  Step(all, l) \in Seq(SavedAllocations)
  BY PersistedAllocationsType
<1> HIDE DEF Step
<1>4. n \in S
  <2>1. 0 \in S
    <3>1. Runs(0, [i \in 0 .. 0 |-> <<>>])
      OBVIOUS
    <3> QED
      BY <3>1
  <2>2. ASSUME NEW m \in Nat, m \in S PROVE m + 1 \in S
    <3>1. PICK t : Runs(m, t)
      BY <2>2
    <3> DEFINE u == [i \in 0 .. m + 1 |-> IF i = m + 1 THEN Step(t[m], doc.lines[m + 1]) ELSE t[i]]
    <3>2. Runs(m + 1, u)
      BY <3>1
    <3> HIDE DEF u, Runs
    <3> QED
      BY <3>2
  <2> HIDE DEF S
  <2> QED
    BY <1>1, <2>1, <2>2, SetInduction
<1>5. PICK t : Runs(n, t) /\ SourceAllocations(doc, key) = t[n]
  BY <1>2, <1>4
<1> DEFINE T == {i \in Nat : t[i] \in Seq(SavedAllocations)}
<1>6. n \in T
  <2>1. 0 \in T
    BY <1>1, <1>5
  <2>2. ASSUME NEW i \in 0 .. n - 1, i \in T PROVE i + 1 \in T
    <3>1. i + 1 \in 1 .. n /\ t[i + 1] = Step(t[i], doc.lines[i + 1])
      BY <1>1, <1>5
    <3>2. t[i + 1] \in Seq(SavedAllocations)
      BY <1>1, <1>3, <2>2, <3>1
    <3> QED
      BY <3>1, <3>2
  <2> HIDE DEF T
  <2> QED
    BY <1>1, <2>1, <2>2, Along
<1> QED
  BY <1>5, <1>6

\* A bucket that a saved document holds is a sound candidate of its source.
LEMMA PersistedCandidateSound ==
  ASSUME NEW key, NEW location, NEW items, NEW allocations \in Seq(SavedAllocations), NEW b \in Nat,
         location = Sources[key].location, \E i \in DOMAIN allocations : allocations[i].bucket = b
  PROVE  /\ IsCandidate(PersistedCandidate(key, b, location, allocations))
         /\ IsOf(PersistedCandidate(key, b, location, allocations), key, items)
<1> DEFINE n == Len(allocations)
<1>1. /\ n \in Nat /\ DOMAIN allocations = 1 .. n
      /\ \A i \in 1 .. n : allocations[i] \in SavedAllocations
  OBVIOUS
<1>2. \A a \in SavedAllocations : a.allocated \in Nat /\ a.pallets \in Nat /\ a.starting \in Nat
  BY DEF SavedAllocations
<1>3. \A x \in Nat : Positive(x) \in Nat
  BY DEF Positive
<1>4. FirstAllocation(b, allocations) \in SavedAllocations
  <2> DEFINE I == {i \in 1 .. n : allocations[i].bucket = b}
  <2>1. I \in SUBSET Nat /\ I # {}
    BY <1>1
  <2>2. PICK m \in I : \A i \in I : m <= i
    <3> HIDE DEF I
    <3> QED
      BY <2>1, Smallest
  <2>3. /\ m \in DOMAIN allocations /\ allocations[m].bucket = b
        /\ \A j \in 1 .. m - 1 : allocations[j].bucket # b
    BY <1>1, <2>2
  <2> QED
    BY <1>1, <2>3 DEF FirstAllocation
<1> DEFINE Of(a, x) == IF a.bucket = b THEN Positive(x) ELSE 0
           avail == Summed([i \in 1 .. n |-> Of(allocations[i], allocations[i].allocated)])
           availPallets == Summed([i \in 1 .. n |-> Of(allocations[i], allocations[i].pallets)])
<1>5. avail \in Nat
  <2> DEFINE f == [i \in 1 .. n |-> Of(allocations[i], allocations[i].allocated)]
  <2>1. \A i \in 1 .. n : Of(allocations[i], allocations[i].allocated) \in Nat
    BY <1>1, <1>2, <1>3
  <2> HIDE DEF Of
  <2>2. f \in Seq(Nat)
    BY <1>1, <2>1
  <2> HIDE DEF f
  <2> QED
    BY <2>2, SummedNat DEF f
<1>6. availPallets \in Nat
  <2> DEFINE f == [i \in 1 .. n |-> Of(allocations[i], allocations[i].pallets)]
  <2>1. \A i \in 1 .. n : Of(allocations[i], allocations[i].pallets) \in Nat
    BY <1>1, <1>2, <1>3
  <2> HIDE DEF Of
  <2>2. f \in Seq(Nat)
    BY <1>1, <2>1
  <2> HIDE DEF f
  <2> QED
    BY <2>2, SummedNat DEF f
<1>7. PersistedCandidate(key, b, location, allocations) =
        [id |-> <<"draft", key, b>>, bucket |-> b, location |-> location,
         avail |-> avail, availPallets |-> availPallets,
         onHand |-> Positive(FirstAllocation(b, allocations).allocated),
         onHandPallets |-> Positive(FirstAllocation(b, allocations).starting), arrival |-> 0]
  BY <1>1 DEF PersistedCandidate, PersistedCandidateID, SumOf, Each
<1> HIDE DEF avail, availPallets
<1> DEFINE onHand == Positive(FirstAllocation(b, allocations).allocated)
           onHandPallets == Positive(FirstAllocation(b, allocations).starting)
<1>8. onHand \in Nat /\ onHandPallets \in Nat
  BY <1>2, <1>3, <1>4
<1> HIDE DEF onHand, onHandPallets
<1> DEFINE c == PersistedCandidate(key, b, location, allocations)
<1>9. c = [id |-> <<"draft", key, b>>, bucket |-> b, location |-> location,
           avail |-> avail, availPallets |-> availPallets,
           onHand |-> onHand, onHandPallets |-> onHandPallets, arrival |-> 0]
  BY <1>7 DEF onHand, onHandPallets
<1> HIDE DEF c
<1>10. IsCandidate(c)
  BY <1>5, <1>6, <1>8, <1>9 DEF IsCandidate, CandidateFields
<1>11. IsOf(c, key, items)
  BY <1>9 DEF IsOf
<1> QED
  BY <1>10, <1>11 DEF c

\* What the document holds are sound sources.
LEMMA PersistedSound ==
  ASSUME NEW doc, doc.lines \in Seq(SavedLines), NEW items
  PROVE  SourcesSound(PersistedSources(doc, Sources), items)
<1> SUFFICES ASSUME NEW k \in {l.source : l \in ToSet(doc.lines)}
             PROVE  k \in DOMAIN Sources /\ SourceSound(PersistedSources(doc, Sources)[k], k, items)
  BY DEF SourcesSound, PersistedSources
<1>1. k \in DOMAIN Sources
  <2>1. \A l \in SavedLines : l.source \in DOMAIN Sources
    BY DEF SavedLines
  <2>2. \A i \in DOMAIN doc.lines : doc.lines[i] \in SavedLines
    OBVIOUS
  <2> QED
    BY <2>1, <2>2 DEF ToSet
<1> DEFINE all == SourceAllocations(doc, k)
           Of(b) == PersistedCandidate(k, b, Sources[k].location, all)
           buckets == {a.bucket : a \in ToSet(all)}
           C == {Of(b) : b \in buckets}
<1>2. all \in Seq(SavedAllocations)
  BY SourceAllocationsType
<1>3. buckets \subseteq Nat /\ IsFiniteSet(buckets)
  <2>1. IsList(all)
    BY <1>2 DEF IsList, ToSet
  <2>2. IsFiniteSet(DOMAIN all) /\ DOMAIN all = 1 .. Len(all)
    BY <2>1, ListProperties, FS_Interval
  <2> DEFINE f == [i \in DOMAIN all |-> all[i].bucket]
  <2>3. buckets = {f[i] : i \in DOMAIN all}
    BY DEF ToSet
  <2> HIDE DEF all
  <2>4. \A a \in SavedAllocations : a.bucket \in Nat
    BY DEF SavedAllocations
  <2>5. \A i \in DOMAIN all : all[i].bucket \in Nat
    BY <1>2, <2>4
  <2>6. buckets \subseteq Nat
    BY <2>5 DEF ToSet
  <2> HIDE DEF f, buckets
  <2>7. IsFiniteSet(buckets)
    BY <2>2, <2>3, ImageFinite
  <2> QED
    BY <2>6, <2>7
<1>4. \A b \in buckets : IsCandidate(Of(b)) /\ IsOf(Of(b), k, items) /\ Of(b).bucket = b
  <2> SUFFICES ASSUME NEW b \in buckets PROVE IsCandidate(Of(b)) /\ IsOf(Of(b), k, items) /\ Of(b).bucket = b
    OBVIOUS
  <2>1. \E i \in DOMAIN all : all[i].bucket = b
    BY DEF ToSet
  <2>2. b \in Nat
    BY <1>3
  <2> HIDE DEF all
  <2>3. Of(b).bucket = b
    BY DEF PersistedCandidate
  <2> QED
    BY <1>2, <2>1, <2>2, <2>3, PersistedCandidateSound
<1>5. IsFiniteSet(C)
  <2> DEFINE f == [b \in buckets |-> Of(b)]
  <2>1. C = {f[b] : b \in buckets}
    OBVIOUS
  <2> HIDE DEF f, C, buckets
  <2> QED
    BY <1>3, <2>1, ImageFinite
<1>6. Orderable(C)
  <2> HIDE DEF buckets, Of
  <2> QED
    BY <1>4, <1>5 DEF Orderable, IsCandidate
<1>7. CandidatesSound(InOrder(C), k, items)
  <2>1. \A c \in C : IsCandidate(c) /\ IsOf(c, k, items)
    BY <1>4
  <2> QED
    BY <1>6, <2>1, OrderedSound
<1>8. PersistedSources(doc, Sources)[k] = PersistedSource(k, Sources[k], all)
  BY DEF PersistedSources
<1>9. /\ PersistedSource(k, Sources[k], all).candidates = InOrder(C)
      /\ PersistedSource(k, Sources[k], all).location = Sources[k].location
      /\ "candidates" \in DOMAIN PersistedSource(k, Sources[k], all)
  BY DEF PersistedSource
<1> QED
  <2> HIDE DEF C, all
  <2> QED
    BY <1>1, <1>7, <1>8, <1>9 DEF SourceSound

-----------------------------------------------------------------------------
(* What the page offers: stock, with what the document holds of it *)

\* A candidate with nothing left is still a candidate of the same bucket.
LEMMA EmptiedSound ==
  ASSUME NEW c, NEW key, NEW items, IsCandidate(c), IsOf(c, key, items)
  PROVE  IsCandidate(Emptied(c)) /\ IsOf(Emptied(c), key, items) /\ Emptied(c).bucket = c.bucket
<1>1. /\ DOMAIN Emptied(c) = CandidateFields /\ Emptied(c).bucket = c.bucket /\ Emptied(c).id = c.id
      /\ Emptied(c).location = c.location
      /\ Emptied(c).arrival = c.arrival /\ Emptied(c).avail = 0 /\ Emptied(c).availPallets = 0
      /\ Emptied(c).onHand = 0 /\ Emptied(c).onHandPallets = 0
  BY DEF Emptied, IsCandidate, CandidateFields
<1> QED
  BY <1>1 DEF IsCandidate, IsOf

\* Giving a candidate back what the document itself holds keeps it sound.
LEMMA WithOwnSound ==
  ASSUME NEW c, NEW own, NEW key, NEW items, NEW restore,
         IsCandidate(c), IsOf(c, key, items), IsCandidate(own), IsOf(own, key, items), c.bucket = own.bucket
  PROVE  /\ IsCandidate(WithOwn(c, own, restore)) /\ IsOf(WithOwn(c, own, restore), key, items)
         /\ WithOwn(c, own, restore).bucket = own.bucket
<1> DEFINE w == WithOwn(c, own, restore)
           more == IF restore THEN own.avail ELSE 0
           morePallets == IF restore THEN own.availPallets ELSE 0
<1>1. /\ DOMAIN w = CandidateFields /\ w.id = own.id /\ w.bucket = c.bucket /\ w.arrival = c.arrival
      /\ w.location = c.location
      /\ w.onHand = c.onHand /\ w.onHandPallets = c.onHandPallets
      /\ w.avail = c.avail + more /\ w.availPallets = c.availPallets + morePallets
  BY DEF WithOwn, IsCandidate, CandidateFields
<1>2. more \in Nat /\ morePallets \in Nat
  BY DEF IsCandidate
<1> HIDE DEF w, more, morePallets
<1>3. IsCandidate(w)
  BY <1>1, <1>2 DEF IsCandidate
<1>4. IsOf(w, key, items) /\ w.bucket = own.bucket
  BY <1>1 DEF IsOf
<1> QED
  BY <1>3, <1>4 DEF w

\* Stock merged with what the document holds is sound, one candidate for a bucket.
LEMMA MergedSound ==
  ASSUME NEW live, NEW persisted, NEW key, NEW items, NEW restore,
         CandidatesSound(live, key, items), CandidatesSound(persisted, key, items)
  PROVE  CandidatesSound(MergedCandidates(live, persisted, restore), key, items)
<1> DEFINE L == ToSet(live)
           P == ToSet(persisted)
           M(p) == MergedCandidate(p, L, restore)
           C == {M(p) : p \in P} \cup {c \in L : ~In(c.bucket, P)}
<1>1. /\ \A c \in L : IsCandidate(c) /\ IsOf(c, key, items)
      /\ \A p \in P : IsCandidate(p) /\ IsOf(p, key, items)
  BY DEF CandidatesSound, ToSet
<1>2. Orderable(L) /\ Orderable(P)
  BY SoundOrderable
<1>3. ASSUME NEW p \in P PROVE IsCandidate(M(p)) /\ IsOf(M(p), key, items) /\ M(p).bucket = p.bucket
  <2> HIDE DEF L, P
  <2>1. CASE In(p.bucket, L)
    <3> DEFINE c == OfBucket(p.bucket, L)
    <3>1. c \in L /\ c.bucket = p.bucket
      BY <2>1 DEF In, OfBucket
    <3>2. M(p) = WithOwn(c, p, restore)
      BY <2>1 DEF MergedCandidate
    <3> HIDE DEF c
    <3> QED
      BY <1>1, <3>1, <3>2, WithOwnSound
  <2>2. CASE ~In(p.bucket, L)
    <3>1. M(p) = p \/ M(p) = Emptied(p)
      BY <2>2 DEF MergedCandidate
    <3> QED
      BY <1>1, <3>1, EmptiedSound
  <2> QED
    BY <2>1, <2>2
<1>4. IsFiniteSet(C)
  <2> DEFINE f == [p \in P |-> M(p)]
  <2>1. {M(p) : p \in P} = {f[p] : p \in P}
    OBVIOUS
  <2>2. IsFiniteSet({M(p) : p \in P})
    <3> HIDE DEF f, P
    <3>1. IsFiniteSet({f[p] : p \in P})
      BY <1>2, ImageFinite DEF Orderable
    <3> QED
      BY <2>1, <3>1, Zenon
  <2>3. IsFiniteSet({c \in L : ~In(c.bucket, P)})
    <3> HIDE DEF L, P
    <3> QED
      BY <1>2, FS_Subset DEF Orderable
  <2> QED
    BY <2>2, <2>3, FS_Union
<1> HIDE DEF L, P, M
<1>5. \A c \in C : IsCandidate(c) /\ IsOf(c, key, items)
  BY <1>1, <1>3
<1>6. \A c, d \in C : c.bucket = d.bucket => c = d
  <2> SUFFICES ASSUME NEW c \in C, NEW d \in C, c.bucket = d.bucket PROVE c = d
    OBVIOUS
  <2>1. ASSUME NEW p \in P, NEW q \in P, c = M(p), d = M(q) PROVE c = d
    BY <1>2, <1>3, <2>1 DEF Orderable
  <2>2. ASSUME NEW p \in P, NEW e \in L, ~In(e.bucket, P) PROVE e.bucket # M(p).bucket
    BY <1>3, <2>2 DEF In
  <2>3. ASSUME c \in L, d \in L PROVE c = d
    BY <1>2, <2>3 DEF Orderable
  <2> QED
    BY <2>1, <2>2, <2>3
<1>7. Orderable(C)
  <2> HIDE DEF C
  <2> QED
    BY <1>4, <1>5, <1>6 DEF Orderable, IsCandidate
<1>8. MergedCandidates(live, persisted, restore) = InOrder(C)
  BY DEF MergedCandidates, L, P, M
<1> HIDE DEF C
<1> QED
  BY <1>5, <1>7, <1>8, OrderedSound

\* A source that is kept for its name only is sound.
LEMMA EachEmptiedSound ==
  ASSUME NEW cs, NEW key, NEW items, CandidatesSound(cs, key, items)
  PROVE  CandidatesSound(Each(Emptied, cs), key, items)
<1> DEFINE n == Len(cs)
           es == [i \in 1 .. n |-> Emptied(cs[i])]
<1>1. n \in Nat /\ DOMAIN cs = 1 .. n
  BY ListProperties DEF CandidatesSound
<1>2. Each(Emptied, cs) = es
  BY <1>1 DEF Each
<1>3. \A i \in 1 .. n : /\ IsCandidate(es[i]) /\ IsOf(es[i], key, items)
                        /\ es[i].bucket = cs[i].bucket
  BY <1>1, EmptiedSound DEF CandidatesSound
<1>4. es \in [1 .. n -> ToSet(es)]
  BY DEF ToSet
<1> HIDE DEF es
<1>5. IsList(es) /\ DOMAIN es = 1 .. n
  BY <1>1, <1>4, ListOver
<1> QED
  BY <1>1, <1>2, <1>3, <1>5 DEF CandidatesSound

\* All the page offers is sound, whatever the lines, the stock and the document.
LEMMA SelectableSound ==
  ASSUME NEW items \in Stocks, NEW doc, doc.lines \in Seq(SavedLines), NEW ls
  PROVE  SourcesSound(SelectableSources(ls, items, Sources, doc), items)
<1> DEFINE offered == SourcesFromItems(items)
           planOnly == PlanOnlyKeys(Sources, ls)
           base == BaseSources(offered, Sources, planOnly)
           persisted == PersistedSources(doc, Sources)
           selected == {ls[i].source : i \in DOMAIN ls} \cap DOMAIN persisted
           restore == RestoresReservations(doc)
<1>1. SourcesSound(offered, items)
  BY OfferedSound
<1>2. SourcesSound(persisted, items)
  BY PersistedSound
<1>3. SourcesSound(base, items)
  <2>1. planOnly \subseteq DOMAIN Sources
    BY DEF PlanOnlyKeys
  <2>2. ASSUME NEW k PROVE SourceSound(PlanOnlySource(k, Sources[k]), k, items)
    <3>1. CandidatesSound(<<>>, k, items)
      <4>1. <<>> \in Seq(ToSet(<<>>)) /\ DOMAIN <<>> = {}
        OBVIOUS
      <4> QED
        BY <4>1 DEF CandidatesSound, IsList, ToSet
    <3>2. PlanOnlySource(k, Sources[k]).location = Sources[k].location
      BY DEF PlanOnlySource
    <3> QED
      BY <3>1, <3>2 DEF PlanOnlySource, SourceSound
  <2>3. \A k \in DOMAIN base : base[k] = IF k \in DOMAIN offered THEN offered[k] ELSE PlanOnlySource(k, Sources[k])
    BY DEF BaseSources
  <2>4. DOMAIN base = DOMAIN offered \cup planOnly
    BY DEF BaseSources
  <2> HIDE DEF base, offered, planOnly
  <2> QED
    BY <1>1, <2>1, <2>2, <2>3, <2>4 DEF SourcesSound
<1> DEFINE all == MergedSources(base, persisted, selected, restore)
<1>4. SelectableSources(ls, items, Sources, doc) = all
  BY DEF SelectableSources, SelectedSources
<1>5. /\ DOMAIN all = DOMAIN base \cup selected
      /\ \A k \in DOMAIN all : all[k] = IF k \in selected THEN MergedSource(base, persisted, k, restore) ELSE base[k]
      /\ selected \subseteq DOMAIN persisted
  BY DEF MergedSources
<1> HIDE DEF base, persisted, selected, restore, all
<1>6. ASSUME NEW k \in selected PROVE SourceSound(MergedSource(base, persisted, k, restore), k, items)
  <2> DEFINE m == MergedSource(base, persisted, k, restore)
  <2>1. SourceSound(persisted[k], k, items)
    BY <1>2, <1>5 DEF SourcesSound
  <2>2. CASE k \in DOMAIN base
    <3>1. SourceSound(base[k], k, items)
      BY <1>3, <2>2 DEF SourcesSound
    <3>2. /\ "candidates" \in DOMAIN m /\ m.location = base[k].location
          /\ m.candidates = MergedCandidates(base[k].candidates, persisted[k].candidates, restore)
      BY <2>2, <3>1 DEF MergedSource, SourceSound
    <3> HIDE DEF m
    <3> QED
      BY <2>1, <3>1, <3>2, MergedSound DEF SourceSound, m
  <2>3. CASE k \notin DOMAIN base /\ restore
    BY <2>1, <2>3 DEF MergedSource
  <2>4. CASE k \notin DOMAIN base /\ ~restore
    <3>1. /\ "candidates" \in DOMAIN m /\ m.location = persisted[k].location
          /\ m.candidates = Each(Emptied, persisted[k].candidates)
      BY <2>1, <2>4 DEF MergedSource, SourceSound
    <3> HIDE DEF m
    <3> QED
      BY <2>1, <3>1, EachEmptiedSound DEF SourceSound, m
  <2> QED
    BY <2>2, <2>3, <2>4
<1> QED
  BY <1>2, <1>3, <1>4, <1>5, <1>6 DEF SourcesSound

\* The ids of two candidates tell apart where they are from.
LEMMA SameDraft ==
  ASSUME NEW k, NEW h, NEW a, NEW b, <<"draft", k, a>> = <<"draft", h, b>>
  PROVE  k = h /\ a = b
OBVIOUS

\* Ids of stock items are told apart by their buckets, and from ids of drafts.
LEMMA SameItem ==
  ASSUME NEW k, NEW a, NEW b
  PROVE  /\ <<"item", a>> = <<"item", b>> => a = b
         /\ <<"item", a>> # <<"draft", k, b>>
<1>1. <<"item", a>>[1] = "item" /\ <<"draft", k, b>>[1] = "draft"
  OBVIOUS
<1>2. "item" # "draft"
  OBVIOUS
<1> QED
  BY <1>1, <1>2

\* An id names one source and one bucket.
LEMMA IdNames ==
  ASSUME NEW c, NEW k, NEW d, NEW h, NEW items, IsOf(c, k, items), IsOf(d, h, items), c.id = d.id
  PROVE  k = h /\ c.bucket = d.bucket
BY SameDraft, SameItem DEF IsOf

-----------------------------------------------------------------------------
(* What lines take *)

Picks == [quantity : Nat \ {0}, pallets : Nat, starting : Nat, remaining : Nat]
PicksSound(picks) == \A i \in DOMAIN picks : picks[i] \in Picks

Counted(x) ==
  x.quantity \in Nat /\ x.pallets \in Nat /\ x.starting \in Nat /\ x.remaining \in Nat
ReservedSound(r) == \A i \in DOMAIN r : r[i].quantity \in Nat /\ r[i].pallets \in Nat

\* The small operators on numbers.
LEMMA SmallFacts ==
  /\ \A m, n \in Nat : Least(m, n) \in Nat /\ Least(m, n) <= m /\ Least(m, n) <= n
  /\ \A m, n \in Nat : Least(m, n) \in {m, n}
  /\ \A n \in Int : Positive(n) \in Nat /\ (n >= 0 => Positive(n) = n) /\ (n <= 0 => Positive(n) = 0)
  /\ \A t, q, p \in Nat : RemainingPallets(t, q, p) \in {0, p}
BY DEF Least, Positive, RemainingPallets

\* What is reserved of a candidate are natural numbers.
LEMMA AtItemType ==
  ASSUME NEW r, ReservedSound(r), NEW i
  PROVE  AtItem(r, i).quantity \in Nat /\ AtItem(r, i).pallets \in Nat
BY DEF AtItem, ReservedSound

\* What earlier lines leave of a candidate.
LEMMA LeftFacts ==
  ASSUME NEW c, IsCandidate(c), NEW r, ReservedSound(r)
  PROVE  /\ Left(c, r).avail = Positive(c.avail - AtItem(r, c.id).quantity)
         /\ Left(c, r).onHandPallets = Positive(c.onHandPallets - AtItem(r, c.id).pallets)
         /\ Left(c, r).avail \in Nat /\ Left(c, r).availPallets \in Nat
         /\ Left(c, r).onHand \in Nat /\ Left(c, r).onHandPallets \in Nat
<1> DEFINE q == AtItem(r, c.id).quantity
           p == AtItem(r, c.id).pallets
<1>1. q \in Nat /\ p \in Nat
  BY AtItemType
<1>2. /\ Left(c, r).avail = Positive(c.avail - q)
      /\ Left(c, r).availPallets = Positive(c.availPallets - p)
      /\ Left(c, r).onHand = Positive(c.onHand - q)
      /\ Left(c, r).onHandPallets = Positive(c.onHandPallets - p)
  BY DEF Left, IsCandidate, CandidateFields
<1>3. \A m, n \in Nat : Positive(m - n) \in Nat
  BY DEF Positive
<1>4. /\ c.avail \in Nat /\ c.availPallets \in Nat /\ c.onHand \in Nat /\ c.onHandPallets \in Nat
  BY DEF IsCandidate
<1> HIDE DEF q, p
<1>5. /\ Positive(c.avail - q) \in Nat /\ Positive(c.availPallets - p) \in Nat
      /\ Positive(c.onHand - q) \in Nat /\ Positive(c.onHandPallets - p) \in Nat
  BY <1>1, <1>3, <1>4
<1> QED
  BY <1>2, <1>5 DEF q, p

\* The pallets of an automatic pick are a natural number.
LEMMA AutomaticPalletsType ==
  ASSUME NEW available \in Nat, NEW pallets \in Nat, NEW allocated \in Nat
  PROVE  AutomaticPallets(available, pallets, allocated) \in Nat
<1>1. CASE available <= 0 \/ pallets <= 0 \/ allocated <= 0
  BY <1>1 DEF AutomaticPallets
<1>2. CASE ~(available <= 0 \/ pallets <= 0 \/ allocated <= 0) /\ allocated >= available
  BY <1>2 DEF AutomaticPallets
<1>3. CASE ~(available <= 0 \/ pallets <= 0 \/ allocated <= 0) /\ ~(allocated >= available)
  <2> DEFINE share == (pallets * allocated + available - 1) \div available
  <2>1. pallets * allocated \in Int
    OBVIOUS
  <2>2. share \in Int
    BY <1>3, <2>1
  <2>3. AutomaticPallets(available, pallets, allocated) = Least(pallets, IF share < 1 THEN 1 ELSE share)
    BY <1>3 DEF AutomaticPallets
  <2> HIDE DEF share
  <2> QED
    BY <2>2, <2>3 DEF Least
<1> QED
  BY <1>1, <1>2, <1>3

\* A pick added to picks.
LEMMA WithPicks ==
  ASSUME NEW picks, PicksSound(picks), NEW i, NEW pick \in Picks
  PROVE  PicksSound(With(picks, i, pick))
BY DEF With, PicksSound

\* An automatic pick takes something.
LEMMA AutomaticPickType ==
  ASSUME NEW left, NEW n \in Nat \ {0}, left.avail \in Nat, left.onHand \in Nat, left.onHandPallets \in Nat
  PROVE  AutomaticPick(left, n) \in Picks
<1>1. AutomaticPallets(left.avail, left.onHandPallets, n) \in Nat
  BY AutomaticPalletsType
<1>2. RemainingPallets(n, left.onHand, left.onHandPallets) \in Nat
  BY DEF RemainingPallets
<1> QED
  BY <1>1, <1>2 DEF AutomaticPick, Picks

\* The automatic plan takes something wherever it takes.
LEMMA AutoSelectionsSound ==
  ASSUME NEW quantity \in Nat, NEW cs, NEW key, NEW items, CandidatesSound(cs, key, items),
         NEW r, ReservedSound(r)
  PROVE  PicksSound(AutoSelections(quantity, cs, r))
<1> DEFINE list == InOrder(ToSet(cs))
           n == Len(list)
           start == [need |-> quantity, picks |-> NoPicks]
           Step(acc, c) == TakeFrom(acc, c.id, Left(c, r), Least(Left(c, r).avail, acc.need))
           Runs(m, t) == t = [i \in 0 .. m |-> IF i = 0 THEN start ELSE Step(t[i - 1], list[i])]
           S == {m \in Nat : \E t : Runs(m, t)}
           Sound(acc) == acc.need \in Nat /\ PicksSound(acc.picks)
<1>1. n \in Nat /\ \A i \in 1 .. n : IsCandidate(list[i])
  <2>1. CandidatesSound(list, key, items)
    <3>1. Orderable(ToSet(cs))
      BY SoundOrderable
    <3>2. \A c \in ToSet(cs) : IsCandidate(c) /\ IsOf(c, key, items)
      BY DEF CandidatesSound, ToSet
    <3> QED
      BY <3>1, <3>2, OrderedSound
  <2> HIDE DEF list
  <2> QED
    BY <2>1, ListProperties DEF CandidatesSound
<1>2. AutoSelections(quantity, cs, r) = (CHOOSE t : Runs(n, t))[n].picks
  BY DEF AutoSelections, Accumulate
<1> HIDE DEF list
<1>3. ASSUME NEW acc, Sound(acc), NEW c, IsCandidate(c) PROVE Sound(Step(acc, c))
  <2> DEFINE left == Left(c, r)
             m == Least(left.avail, acc.need)
  <2>1. left.avail \in Nat /\ left.onHand \in Nat /\ left.onHandPallets \in Nat
    BY <1>3, LeftFacts
  <2>2. m \in Nat /\ m <= acc.need /\ acc.need \in Nat /\ PicksSound(acc.picks)
    BY <1>3, <2>1, SmallFacts
  <2> HIDE DEF left, m
  <2>3. Step(acc, c) = IF m <= 0 THEN acc
                       ELSE [need |-> acc.need - m, picks |-> With(acc.picks, c.id, AutomaticPick(left, m))]
    BY DEF TakeFrom, left, m
  <2>4. CASE m <= 0
    BY <1>3, <2>3, <2>4
  <2>5. CASE m > 0
    <3>1. PicksSound(With(acc.picks, c.id, AutomaticPick(left, m)))
      BY <2>1, <2>2, <2>5, AutomaticPickType, WithPicks
    <3>2. acc.need - m \in Nat
      BY <2>2
    <3> QED
      BY <2>2, <2>3, <2>5, <3>1, <3>2
  <2> QED
    BY <2>2, <2>4, <2>5
<1>4. Sound(start)
  BY DEF PicksSound, NoPicks
<1> HIDE DEF Step, start, Sound
<1>5. n \in S
  <2>1. 0 \in S
    <3>1. Runs(0, [i \in 0 .. 0 |-> start])
      OBVIOUS
    <3> QED
      BY <3>1
  <2>2. ASSUME NEW m \in Nat, m \in S PROVE m + 1 \in S
    <3>1. PICK t : Runs(m, t)
      BY <2>2
    <3> DEFINE u == [i \in 0 .. m + 1 |-> IF i = m + 1 THEN Step(t[m], list[m + 1]) ELSE t[i]]
    <3>2. Runs(m + 1, u)
      BY <3>1
    <3> HIDE DEF u, Runs
    <3> QED
      BY <3>2
  <2> HIDE DEF S
  <2> QED
    BY <1>1, <2>1, <2>2, SetInduction
<1>6. PICK t : Runs(n, t) /\ AutoSelections(quantity, cs, r) = t[n].picks
  BY <1>2, <1>5
<1> DEFINE T == {i \in Nat : Sound(t[i])}
<1>7. n \in T
  <2>1. 0 \in T
    BY <1>1, <1>4, <1>6
  <2>2. ASSUME NEW i \in 0 .. n - 1, i \in T PROVE i + 1 \in T
    <3>1. i + 1 \in 1 .. n /\ t[i + 1] = Step(t[i], list[i + 1])
      BY <1>1, <1>6
    <3>2. Sound(t[i + 1])
      BY <1>1, <1>3, <2>2, <3>1
    <3> QED
      BY <3>1, <3>2
  <2> HIDE DEF T
  <2> QED
    BY <1>1, <2>1, <2>2, Along
<1> QED
  BY <1>6, <1>7 DEF Sound

LineFields ==
  {"id", "location", "source", "search", "planned", "quantity", "pallets", "picks", "touched"}

IsLine(l) ==
  /\ DOMAIN l = LineFields
  /\ l.id \in LineIds /\ l.source \in DOMAIN Sources \cup {None}
  /\ l.planned \in Nat /\ l.quantity \in Nat /\ l.pallets \in Nat
  /\ PicksSound(l.picks) /\ l.touched \in BOOLEAN

LinesSound(ls) ==
  /\ IsList(ls) /\ Len(ls) <= MaxLines
  /\ \A i \in DOMAIN ls : IsLine(ls[i])
  /\ \A i, j \in DOMAIN ls : ls[i].id = ls[j].id => i = j

\* What a line selects, automatically or by hand, takes something everywhere.
LEMMA EffectiveSound ==
  ASSUME NEW l, IsLine(l), NEW source, NEW key, NEW items, SourceSound(source, key, items),
         NEW r, ReservedSound(r)
  PROVE  PicksSound(EffectiveSelections(l, source, r))
<1>1. Fulfillment(l) \in Nat
  BY DEF Fulfillment, Positive, IsLine
<1>2. PicksSound(AutoSelections(Fulfillment(l), source.candidates, r))
  BY <1>1, AutoSelectionsSound DEF SourceSound
<1> QED
  BY <1>2 DEF EffectiveSelections, IsLine

\* What is reserved stays countable when picks or rows are added.
LEMMA ReserveSound ==
  ASSUME NEW r, ReservedSound(r), NEW picks, \A i \in DOMAIN picks : Counted(picks[i])
  PROVE  ReservedSound(Reserve(r, picks))
<1> SUFFICES ASSUME NEW i \in DOMAIN Reserve(r, picks)
             PROVE  Reserve(r, picks)[i].quantity \in Nat /\ Reserve(r, picks)[i].pallets \in Nat
  BY DEF ReservedSound
<1> DEFINE a == AtItem(r, i)
           released == IF picks[i].starting > 0 THEN Positive(picks[i].starting - picks[i].remaining)
                       ELSE picks[i].pallets
<1>1. a.quantity \in Nat /\ a.pallets \in Nat
  BY AtItemType
<1>2. CASE i \notin DOMAIN picks
  BY <1>1, <1>2 DEF Reserve
<1>3. CASE i \in DOMAIN picks
  <2>1. picks[i].quantity \in Nat /\ released \in Nat
    BY <1>3 DEF Counted, Positive
  <2>2. Reserve(r, picks)[i] = [quantity |-> a.quantity + picks[i].quantity, pallets |-> a.pallets + released]
    BY <1>3 DEF Reserve
  <2> HIDE DEF a, released
  <2> QED
    BY <1>1, <2>1, <2>2
<1> QED
  BY <1>2, <1>3

\* What step 2 shows as reserved before each line: something countable for every line.
LEMMA ReservationsSound ==
  ASSUME NEW ls, LinesSound(ls), NEW all, NEW items, SourcesSound(all, items)
  PROVE  \A i \in DOMAIN ls : /\ ls[i].id \in DOMAIN ReservationsByLine(ls, all)
                             /\ ReservedSound(ReservationsByLine(ls, all)[ls[i].id])
<1> DEFINE n == Len(ls)
           start == [byLine |-> <<>>, reserved |-> [k \in DOMAIN all |-> NoPicks]]
           Step(acc, l) == ReserveLine(acc, l, all)
           Runs(m, t) == t = [i \in 0 .. m |-> IF i = 0 THEN start ELSE Step(t[i - 1], ls[i])]
           S == {m \in Nat : \E t : Runs(m, t)}
           Sound(acc) == /\ DOMAIN acc = {"byLine", "reserved"} /\ DOMAIN acc.reserved = DOMAIN all
                         /\ \A k \in DOMAIN all : ReservedSound(acc.reserved[k])
                         /\ \A id \in DOMAIN acc.byLine : ReservedSound(acc.byLine[id])
<1>1. n \in Nat /\ DOMAIN ls = 1 .. n /\ \A i \in 1 .. n : IsLine(ls[i])
  BY ListProperties DEF LinesSound
<1>2. ReservationsByLine(ls, all) = (CHOOSE t : Runs(n, t))[n].byLine
  BY DEF ReservationsByLine, Accumulate
<1>3. ASSUME NEW acc, Sound(acc), NEW l, IsLine(l)
      PROVE  /\ Sound(Step(acc, l))
             /\ DOMAIN Step(acc, l).byLine = DOMAIN acc.byLine \cup {l.id}
  <2>0. ReservedSound(NoPicks)
    BY DEF ReservedSound, NoPicks
  <2>1. CASE l.source \notin DOMAIN all
    <3>1. Step(acc, l) = [acc EXCEPT !.byLine = With(@, l.id, NoPicks)]
      BY <2>1 DEF ReserveLine
    <3>2. /\ DOMAIN Step(acc, l) = {"byLine", "reserved"} /\ Step(acc, l).reserved = acc.reserved
          /\ Step(acc, l).byLine = With(acc.byLine, l.id, NoPicks)
      BY <1>3, <3>1
    <3> HIDE DEF Step
    <3> QED
      BY <1>3, <2>0, <3>2 DEF With
  <2>2. CASE l.source \in DOMAIN all
    <3> DEFINE k == l.source
               picks == EffectiveSelections(l, all[k], acc.reserved[k])
    <3>1. ReservedSound(acc.reserved[k])
      BY <1>3, <2>2
    <3>2. SourceSound(all[k], k, items)
      BY <2>2 DEF SourcesSound
    <3>3. PicksSound(picks)
      BY <1>3, <3>1, <3>2, EffectiveSound
    <3>4. Step(acc, l) = LineReserved(acc, l, picks)
      BY <2>2 DEF ReserveLine
    <3> HIDE DEF picks
    <3>5. ReservedSound(Reserve(acc.reserved[k], picks))
      <4>1. \A i \in DOMAIN picks : Counted(picks[i])
        BY <3>3 DEF PicksSound, Picks, Counted
      <4> QED
        BY <3>1, <4>1, ReserveSound
    <3>6. /\ DOMAIN Step(acc, l) = {"byLine", "reserved"}
          /\ Step(acc, l).byLine = With(acc.byLine, l.id, acc.reserved[k])
          /\ Step(acc, l).reserved = [acc.reserved EXCEPT ![k] = Reserve(acc.reserved[k], picks)]
      BY <3>4 DEF LineReserved
    <3> HIDE DEF Step, k
    <3> QED
      BY <1>3, <3>1, <3>5, <3>6 DEF With
  <2> QED
    BY <2>1, <2>2
<1>4. Sound(start)
  BY DEF ReservedSound, NoPicks
<1> HIDE DEF Step, start, Sound
<1>5. n \in S
  <2>1. 0 \in S
    <3>1. Runs(0, [i \in 0 .. 0 |-> start])
      OBVIOUS
    <3> QED
      BY <3>1
  <2>2. ASSUME NEW m \in Nat, m \in S PROVE m + 1 \in S
    <3>1. PICK t : Runs(m, t)
      BY <2>2
    <3> DEFINE u == [i \in 0 .. m + 1 |-> IF i = m + 1 THEN Step(t[m], ls[m + 1]) ELSE t[i]]
    <3>2. Runs(m + 1, u)
      BY <3>1
    <3> HIDE DEF u, Runs
    <3> QED
      BY <3>2
  <2> HIDE DEF S
  <2> QED
    BY <1>1, <2>1, <2>2, SetInduction
<1>6. PICK t : Runs(n, t) /\ ReservationsByLine(ls, all) = t[n].byLine
  BY <1>2, <1>5
<1> DEFINE T == {i \in Nat : Sound(t[i]) /\ \A j \in 1 .. i : ls[j].id \in DOMAIN t[i].byLine}
<1>7. n \in T
  <2>1. 0 \in T
    BY <1>1, <1>4, <1>6
  <2>2. ASSUME NEW i \in 0 .. n - 1, i \in T PROVE i + 1 \in T
    <3>1. i + 1 \in 1 .. n /\ t[i + 1] = Step(t[i], ls[i + 1])
      BY <1>1, <1>6
    <3>2. Sound(t[i + 1]) /\ DOMAIN t[i + 1].byLine = DOMAIN t[i].byLine \cup {ls[i + 1].id}
      BY <1>1, <1>3, <2>2, <3>1
    <3>3. \A j \in 1 .. i + 1 : ls[j].id \in DOMAIN t[i + 1].byLine
      BY <2>2, <3>2
    <3> QED
      BY <3>1, <3>2, <3>3
  <2> HIDE DEF T
  <2> QED
    BY <1>1, <2>1, <2>2, Along
<1> QED
  BY <1>1, <1>6, <1>7 DEF Sound

-----------------------------------------------------------------------------
(* The rows of the preview *)

IsRow(r) ==
  /\ r.allocated \in Nat \ {0} /\ r.pallets \in Nat
  /\ r.startingPallets \in Nat /\ r.remaining \in {0, r.startingPallets}

IsRows(rows) == IsList(rows) /\ \A j \in DOMAIN rows : IsRow(rows[j])
ItemsDistinct(rows) == \A i, j \in DOMAIN rows : rows[i].item = rows[j].item => i = j

Column(rows, item, field) == [j \in DOMAIN rows |-> IF rows[j].item = item THEN rows[j][field] ELSE 0]

\* A row is named for its line and its candidate, and starts from the pallets that are left.
LEMMA RowNames ==
  ASSUME NEW l, NEW picks, NEW c, NEW r
  PROVE  /\ PreviewRow(l, picks, c, r).line = l.id /\ PreviewRow(l, picks, c, r).item = c.id
         /\ PreviewRow(l, picks, c, r).bucket = c.bucket
         /\ PreviewRow(l, picks, c, r).location = c.location
         /\ PreviewRow(l, picks, c, r).startingPallets = Left(c, r).onHandPallets
BY DEF PreviewRow

\* It takes no more than is left, and leaves either all pallets or none.
LEMMA RowSound ==
  ASSUME NEW l, NEW picks, PicksSound(picks), NEW c, IsCandidate(c), NEW r, ReservedSound(r),
         c.id \in DOMAIN picks
  PROVE  LET row == PreviewRow(l, picks, c, r)
         IN /\ row.allocated \in Nat /\ row.allocated <= Left(c, r).avail
            /\ row.pallets \in Nat /\ row.startingPallets \in Nat
            /\ row.remaining \in {0, row.startingPallets}
<1> DEFINE left == Left(c, r)
           row == PreviewRow(l, picks, c, r)
           taken == Least(picks[c.id].quantity, left.avail)
           pallets == Least(Positive(picks[c.id].pallets), left.onHandPallets)
           remaining == RemainingPallets(taken, left.onHand, left.onHandPallets)
<1>1. left.avail \in Nat /\ left.onHand \in Nat /\ left.onHandPallets \in Nat
  BY LeftFacts
<1>2. /\ row.allocated = taken /\ row.startingPallets = left.onHandPallets
      /\ row.remaining = remaining /\ row.pallets = pallets
  BY DEF PreviewRow
<1>3. picks[c.id].quantity \in Nat /\ picks[c.id].pallets \in Nat
  BY DEF PicksSound, Picks
<1> HIDE DEF left, row
<1>4. taken \in Nat /\ taken <= left.avail /\ pallets \in Nat /\ remaining \in {0, left.onHandPallets}
  BY <1>1, <1>3 DEF Least, Positive, RemainingPallets
<1> HIDE DEF taken, pallets, remaining
<1>5. /\ row.allocated \in Nat /\ row.allocated <= left.avail /\ row.pallets \in Nat
      /\ row.startingPallets \in Nat /\ row.remaining \in {0, row.startingPallets}
  BY <1>1, <1>2, <1>4
<1> QED
  BY <1>5 DEF left, row

\* A row that is shown is a row with cartons.
LEMMA RowTyped ==
  ASSUME NEW l, NEW picks, PicksSound(picks), NEW c, IsCandidate(c), NEW r, ReservedSound(r),
         c.id \in DOMAIN picks, PreviewRow(l, picks, c, r).allocated > 0
  PROVE  IsRow(PreviewRow(l, picks, c, r))
BY RowSound DEF IsRow

\* The rows of a line are rows of candidates that it picks, one for a candidate.
LEMMA LineRowsSound ==
  ASSUME NEW l, NEW picks, PicksSound(picks), NEW cs, NEW key, NEW items, CandidatesSound(cs, key, items),
         NEW r, ReservedSound(r)
  PROVE  /\ IsRows(LineRows(l, picks, cs, r)) /\ ItemsDistinct(LineRows(l, picks, cs, r))
         /\ \A j \in DOMAIN LineRows(l, picks, cs, r) : \E i \in DOMAIN cs :
              /\ cs[i].id \in DOMAIN picks
              /\ LineRows(l, picks, cs, r)[j] = PreviewRow(l, picks, cs[i], r)
<1> DEFINE n == Len(cs)
           Row(c) == PreviewRow(l, picks, c, r)
           Step(rows, c) == AddRow(rows, c.id \in DOMAIN picks, Row(c))
           Runs(m, t) == t = [i \in 0 .. m |-> IF i = 0 THEN <<>> ELSE Step(t[i - 1], cs[i])]
           S == {m \in Nat : \E t : Runs(m, t)}
           From(row, i) == cs[i].id \in DOMAIN picks /\ row = Row(cs[i])
           Sound(rows, m) == /\ IsRows(rows) /\ ItemsDistinct(rows)
                             /\ \A j \in DOMAIN rows : \E i \in 1 .. m : From(rows[j], i)
<1>1. n \in Nat /\ DOMAIN cs = 1 .. n /\ \A i \in 1 .. n : IsCandidate(cs[i]) /\ IsOf(cs[i], key, items)
  BY ListProperties DEF CandidatesSound
<1>2. LineRows(l, picks, cs, r) = (CHOOSE t : Runs(n, t))[n]
  BY DEF LineRows, Accumulate
<1>3. ASSUME NEW i \in 1 .. n, NEW j \in 1 .. n, cs[i].id = cs[j].id PROVE i = j
  BY <1>1, <1>3, IdNames DEF CandidatesSound
<1>4. ASSUME NEW m \in 0 .. n - 1, NEW rows, Sound(rows, m) PROVE Sound(Step(rows, cs[m + 1]), m + 1)
  <2> DEFINE c == cs[m + 1]
             new == Append(rows, Row(c))
  <2>0. m + 1 \in 1 .. n /\ 1 .. m \subseteq 1 .. m + 1 /\ 1 .. m \subseteq 1 .. n
    BY <1>1
  <2>1. CASE ~(c.id \in DOMAIN picks /\ Row(c).allocated > 0)
    <3>1. Step(rows, c) = rows
      BY <2>1 DEF AddRow
    <3> HIDE DEF Step, From
    <3> QED
      BY <1>4, <2>0, <3>1
  <2>2. CASE c.id \in DOMAIN picks /\ Row(c).allocated > 0
    <3>1. Step(rows, c) = new
      BY <2>2 DEF AddRow
    <3>2. IsRow(Row(c)) /\ Row(c).item = c.id
      <4>1. IsCandidate(c) /\ c.id \in DOMAIN picks /\ Row(c).allocated > 0
        BY <1>1, <2>0, <2>2
      <4> HIDE DEF c, Sound, Step, From, new, n
      <4> QED
        BY <4>1, RowTyped, RowNames DEF Row
    <3>3. \A j \in DOMAIN rows : rows[j].item # c.id
      <4> SUFFICES ASSUME NEW j \in DOMAIN rows, rows[j].item = c.id PROVE FALSE
        OBVIOUS
      <4>1. PICK i \in 1 .. m : From(rows[j], i)
        BY <1>4
      <4>2. Row(cs[i]).item = cs[i].id
        BY DEF PreviewRow
      <4>3. cs[i].id = cs[m + 1].id
        BY <4>1, <4>2
      <4>4. i = m + 1
        BY <1>3, <2>0, <4>3
      <4> QED
        BY <4>4
    <3>4. IsList(rows) /\ Len(rows) \in Nat /\ DOMAIN rows = 1 .. Len(rows)
      BY <1>4, ListProperties DEF IsRows
    <3>5. /\ IsList(new) /\ Len(new) = Len(rows) + 1 /\ DOMAIN new = 1 .. Len(rows) + 1
          /\ \A j \in 1 .. Len(rows) : new[j] = rows[j]
          /\ new[Len(rows) + 1] = Row(c)
      BY <3>4, ListMore
    <3> HIDE DEF new, Row, Step
    <3>7. \A j \in DOMAIN new : (j \in DOMAIN rows /\ new[j] = rows[j]) \/ (j = Len(rows) + 1 /\ new[j] = Row(c))
      BY <3>4, <3>5
    <3>8. IsRows(new)
      BY <1>4, <3>2, <3>5, <3>7 DEF IsRows
    <3>9. ItemsDistinct(new)
      BY <1>4, <3>2, <3>3, <3>7 DEF ItemsDistinct
    <3>10. \A j \in DOMAIN new : \E i \in 1 .. m + 1 : From(new[j], i)
      <4>1. From(Row(c), m + 1)
        BY <2>2
      <4> HIDE DEF From
      <4> QED
        BY <1>4, <2>0, <3>7, <4>1
    <3> QED
      BY <3>1, <3>8, <3>9, <3>10
  <2> QED
    BY <2>1, <2>2
<1>5. Sound(<<>>, 0)
  <2>1. <<>> \in Seq(ToSet(<<>>)) /\ DOMAIN <<>> = {}
    OBVIOUS
  <2> QED
    BY <2>1 DEF IsRows, IsList, ToSet, ItemsDistinct
<1> HIDE DEF Step, Row
<1>6. n \in S
  <2>1. 0 \in S
    <3>1. Runs(0, [i \in 0 .. 0 |-> <<>>])
      OBVIOUS
    <3> QED
      BY <3>1
  <2>2. ASSUME NEW m \in Nat, m \in S PROVE m + 1 \in S
    <3>1. PICK t : Runs(m, t)
      BY <2>2
    <3> DEFINE u == [i \in 0 .. m + 1 |-> IF i = m + 1 THEN Step(t[m], cs[m + 1]) ELSE t[i]]
    <3>2. Runs(m + 1, u)
      BY <3>1
    <3> HIDE DEF u, Runs
    <3> QED
      BY <3>2
  <2> HIDE DEF S
  <2> QED
    BY <1>1, <2>1, <2>2, SetInduction
<1>7. PICK t : Runs(n, t) /\ LineRows(l, picks, cs, r) = t[n]
  BY <1>2, <1>6
<1> HIDE DEF Sound
<1> DEFINE T == {i \in Nat : Sound(t[i], i)}
<1>8. n \in T
  <2>1. 0 \in T
    BY <1>1, <1>5, <1>7
  <2>2. ASSUME NEW i \in 0 .. n - 1, i \in T PROVE i + 1 \in T
    <3>1. i + 1 \in 1 .. n /\ t[i + 1] = Step(t[i], cs[i + 1])
      BY <1>1, <1>7
    <3>2. Sound(t[i + 1], i + 1)
      BY <1>1, <1>4, <2>2, <3>1
    <3> QED
      BY <3>1, <3>2
  <2> HIDE DEF T
  <2> QED
    BY <1>1, <2>1, <2>2, Along
<1> QED
  BY <1>1, <1>7, <1>8 DEF Sound, Row

\* What the rows have in one column for one item, as a list of numbers.
LEMMA ColumnType ==
  ASSUME NEW rows, IsRows(rows), NEW item, NEW field, \A j \in DOMAIN rows : rows[j][field] \in Nat
  PROVE  /\ Column(rows, item, field) \in Seq(Nat) /\ Column(rows, item, field) \in Seq(Int)
         /\ Len(Column(rows, item, field)) = Len(rows) /\ Len(rows) \in Nat
         /\ \A j \in 1 .. Len(rows) :
              Column(rows, item, field)[j] = IF rows[j].item = item THEN rows[j][field] ELSE 0
<1>1. Len(rows) \in Nat /\ DOMAIN rows = 1 .. Len(rows)
  BY ListProperties DEF IsRows
<1> DEFINE n == Len(rows)
           f == [j \in 1 .. n |-> IF rows[j].item = item THEN rows[j][field] ELSE 0]
<1>2. Column(rows, item, field) = f
  BY <1>1 DEF Column
<1>3. \A j \in 1 .. n : f[j] \in Nat
  BY <1>1
<1>4. f \in [1 .. n -> Nat]
  BY <1>3
<1>5. f \in Seq(Nat) /\ f \in Seq(Int) /\ Len(f) = n
  BY <1>1, <1>4
<1> QED
  BY <1>1, <1>2, <1>5

\* Of rows with different items, an item has what its row has, or nothing.
LEMMA ColumnOfRow ==
  ASSUME NEW rows, IsRows(rows), ItemsDistinct(rows), NEW j \in DOMAIN rows, NEW field,
         \A h \in DOMAIN rows : rows[h][field] \in Nat
  PROVE  Summed(Column(rows, rows[j].item, field)) = rows[j][field]
<1> DEFINE f == Column(rows, rows[j].item, field)
<1>1. /\ f \in Seq(Int) /\ Len(f) = Len(rows) /\ Len(rows) \in Nat
      /\ \A h \in 1 .. Len(rows) : f[h] = IF rows[h].item = rows[j].item THEN rows[h][field] ELSE 0
  BY ColumnType
<1>2. DOMAIN rows = 1 .. Len(rows)
  BY ListProperties DEF IsRows
<1> HIDE DEF f
<1>3. f[j] = rows[j][field] /\ j \in 1 .. Len(f)
  BY <1>1, <1>2
<1>4. \A h \in 1 .. Len(f) : j # h => f[h] = 0
  BY <1>1, <1>2 DEF ItemsDistinct
<1>5. \A h \in 1 .. Len(f) : h # j => f[h] = 0
  BY <1>4
<1> QED
  BY <1>1, <1>3, <1>5, SummedSingle DEF f

\* Rows of other candidates take nothing of this one.
LEMMA ColumnOfNone ==
  ASSUME NEW rows, IsRows(rows), NEW item, \A j \in DOMAIN rows : rows[j].item # item
  PROVE  TakenOf(item, rows) = 0
<1> DEFINE f == Column(rows, item, "allocated")
<1>0. \A j \in DOMAIN rows : rows[j]["allocated"] \in Nat
  BY DEF IsRows, IsRow
<1>1. /\ f \in Seq(Int) /\ Len(f) = Len(rows) /\ Len(rows) \in Nat
      /\ \A h \in 1 .. Len(rows) : f[h] = IF rows[h].item = item THEN rows[h]["allocated"] ELSE 0
  BY <1>0, ColumnType
<1>2. DOMAIN rows = 1 .. Len(rows)
  BY ListProperties DEF IsRows
<1>3. TakenOf(item, rows) = Summed(f)
  BY DEF TakenOf, SumOf, Each, Column
<1> HIDE DEF f
<1> QED
  BY <1>1, <1>2, <1>3, SummedZero

\* Where rows are of different candidates, a row takes all that is taken of its candidate.
LEMMA TakenByRow ==
  ASSUME NEW rows, IsRows(rows), ItemsDistinct(rows), NEW j \in DOMAIN rows
  PROVE  /\ TakenOf(rows[j].item, rows) = rows[j].allocated
         /\ rows[j].item \in DOMAIN TakenBy(rows)
         /\ TakenBy(rows)[rows[j].item] = [quantity |-> rows[j].allocated, pallets |-> 0,
              starting |-> rows[j].startingPallets, remaining |-> rows[j].remaining]
<1> DEFINE i == rows[j].item
<1>1. \A h \in DOMAIN rows : /\ rows[h]["allocated"] \in Nat /\ rows[h]["startingPallets"] \in Nat
                             /\ rows[h]["remaining"] \in Nat
  BY DEF IsRows, IsRow
<1>2. /\ Summed(Column(rows, i, "allocated")) = rows[j]["allocated"]
      /\ Summed(Column(rows, i, "startingPallets")) = rows[j]["startingPallets"]
      /\ Summed(Column(rows, i, "remaining")) = rows[j]["remaining"]
  <2> HIDE DEF i
  <2>1. Summed(Column(rows, rows[j].item, "allocated")) = rows[j]["allocated"]
    BY <1>1, ColumnOfRow
  <2>2. Summed(Column(rows, rows[j].item, "startingPallets")) = rows[j]["startingPallets"]
    BY <1>1, ColumnOfRow
  <2>3. Summed(Column(rows, rows[j].item, "remaining")) = rows[j]["remaining"]
    BY <1>1, ColumnOfRow
  <2> QED
    BY <2>1, <2>2, <2>3 DEF i
<1>3. TakenOf(i, rows) = Summed(Column(rows, i, "allocated"))
  BY DEF TakenOf, SumOf, Each, Column
<1>4. i \in {r.item : r \in ToSet(rows)}
  BY DEF ToSet
<1>5. /\ DOMAIN TakenBy(rows) = {r.item : r \in ToSet(rows)}
      /\ TakenBy(rows)[i] = [quantity |-> Summed(Column(rows, i, "allocated")), pallets |-> 0,
           starting |-> Summed(Column(rows, i, "startingPallets")),
           remaining |-> Summed(Column(rows, i, "remaining"))]
  BY <1>4 DEF TakenBy, SumOf, Each, Column
<1> QED
  BY <1>2, <1>3, <1>4, <1>5

\* The rows of a line add to what is reserved of an item what its row takes, and the
\* pallets that it does not leave.
LEMMA ReserveRows ==
  ASSUME NEW rows, IsRows(rows), ItemsDistinct(rows), NEW r, ReservedSound(r)
  PROVE  /\ ReservedSound(Reserve(r, TakenBy(rows)))
         /\ \A i : (\A j \in DOMAIN rows : rows[j].item # i)
                     => AtItem(Reserve(r, TakenBy(rows)), i) = AtItem(r, i)
         /\ \A j \in DOMAIN rows :
              /\ AtItem(Reserve(r, TakenBy(rows)), rows[j].item).quantity
                   = AtItem(r, rows[j].item).quantity + rows[j].allocated
              /\ AtItem(Reserve(r, TakenBy(rows)), rows[j].item).pallets
                   = AtItem(r, rows[j].item).pallets + (rows[j].startingPallets - rows[j].remaining)
<1> DEFINE picks == TakenBy(rows)
           R == Reserve(r, picks)
<1>1. DOMAIN picks = {rows[j].item : j \in DOMAIN rows}
  BY DEF TakenBy, ToSet
<1>2. ASSUME NEW j \in DOMAIN rows
      PROVE  picks[rows[j].item] = [quantity |-> rows[j].allocated, pallets |-> 0,
               starting |-> rows[j].startingPallets, remaining |-> rows[j].remaining]
  BY TakenByRow
<1>3. \A j \in DOMAIN rows : IsRow(rows[j])
  BY DEF IsRows
<1> HIDE DEF picks
<1>4. ReservedSound(R)
  <2>1. ASSUME NEW j \in DOMAIN rows PROVE Counted(picks[rows[j].item])
    <3>1. IsRow(rows[j])
      BY <1>3
    <3>2. picks[rows[j].item] = [quantity |-> rows[j].allocated, pallets |-> 0,
            starting |-> rows[j].startingPallets, remaining |-> rows[j].remaining]
      BY <1>2
    <3> QED
      BY <3>1, <3>2 DEF IsRow, Counted
  <2>2. \A i \in DOMAIN picks : Counted(picks[i])
    BY <1>1, <2>1
  <2> QED
    BY <2>2, ReserveSound
<1>5. ASSUME NEW i, \A j \in DOMAIN rows : rows[j].item # i PROVE AtItem(R, i) = AtItem(r, i)
  <2>1. i \notin DOMAIN picks
    BY <1>1, <1>5
  <2> QED
    BY <2>1 DEF Reserve, AtItem
<1>6. ASSUME NEW j \in DOMAIN rows
      PROVE  /\ AtItem(R, rows[j].item).quantity = AtItem(r, rows[j].item).quantity + rows[j].allocated
             /\ AtItem(R, rows[j].item).pallets
                  = AtItem(r, rows[j].item).pallets + (rows[j].startingPallets - rows[j].remaining)
  <2> DEFINE i == rows[j].item
             pick == picks[i]
             p == IF pick.starting > 0 THEN Positive(pick.starting - pick.remaining) ELSE pick.pallets
  <2>1. i \in DOMAIN picks
    BY <1>1
  <2>2. /\ pick.quantity = rows[j].allocated /\ pick.pallets = 0
        /\ pick.starting = rows[j].startingPallets /\ pick.remaining = rows[j].remaining
    <3>1. pick = [quantity |-> rows[j].allocated, pallets |-> 0,
                  starting |-> rows[j].startingPallets, remaining |-> rows[j].remaining]
      BY <1>2
    <3> HIDE DEF pick
    <3> QED
      BY <3>1
  <2>3. rows[j].startingPallets \in Nat /\ rows[j].remaining \in {0, rows[j].startingPallets}
    BY <1>3 DEF IsRow
  <2>4. AtItem(R, i) = [quantity |-> AtItem(r, i).quantity + pick.quantity,
                        pallets |-> AtItem(r, i).pallets + p]
    BY <2>1 DEF Reserve, AtItem
  <2> HIDE DEF i, pick
  <2>5. p = rows[j].startingPallets - rows[j].remaining
    BY <2>2, <2>3 DEF Positive
  <2> HIDE DEF p
  <2> QED
    BY <2>2, <2>4, <2>5 DEF i
<1> QED
  BY <1>4, <1>5, <1>6 DEF picks

-----------------------------------------------------------------------------
(* What lines take together *)

\* The pallets that the rows of a candidate hand to the next one.
HandedTo(c, rows, balance) ==
  \/ (\A i \in DOMAIN rows : rows[i].item # c.id) /\ balance = c.onHandPallets
  \/ \E i \in DOMAIN rows : /\ rows[i].item = c.id /\ balance = rows[i].remaining
                            /\ \A h \in i + 1 .. Len(rows) : rows[h].item # c.id

\* What is reserved of a candidate is what its rows take.
Booked(c, r, rows) ==
  /\ AtItem(r, c.id).quantity = TakenOf(c.id, rows) /\ TakenOf(c.id, rows) <= c.avail
  /\ AtItem(r, c.id).pallets <= c.onHandPallets
  /\ HandedOn(c, rows) /\ HandedTo(c, rows, c.onHandPallets - AtItem(r, c.id).pallets)

PreviewBooked(acc, all) ==
  /\ DOMAIN acc = {"rows", "summaries", "reserved"} /\ DOMAIN acc.reserved = DOMAIN all
  /\ IsRows(acc.rows)
  /\ \A k \in DOMAIN all :
       /\ ReservedSound(acc.reserved[k])
       /\ \A i \in DOMAIN all[k].candidates : Booked(all[k].candidates[i], acc.reserved[k], acc.rows)

\* The rows of a line after those of the lines before it.
LEMMA RowsJoined ==
  ASSUME NEW rows, IsRows(rows), NEW more, IsRows(more)
  PROVE  /\ IsRows(rows \o more) /\ Len(rows) \in Nat /\ Len(more) \in Nat
         /\ DOMAIN rows = 1 .. Len(rows) /\ DOMAIN more = 1 .. Len(more)
         /\ Len(rows \o more) = Len(rows) + Len(more)
         /\ DOMAIN (rows \o more) = 1 .. Len(rows) + Len(more)
         /\ \A i \in 1 .. Len(rows) : (rows \o more)[i] = rows[i]
         /\ \A i \in 1 .. Len(more) : (rows \o more)[Len(rows) + i] = more[i]
         /\ \A j \in 1 .. Len(rows) + Len(more) :
              j \in 1 .. Len(rows) \/ (j - Len(rows) \in 1 .. Len(more)
                                        /\ (rows \o more)[j] = more[j - Len(rows)])
<1> DEFINE m == Len(rows)
           n == Len(more)
           both == rows \o more
<1>1. /\ IsList(rows) /\ IsList(more) /\ m \in Nat /\ n \in Nat
      /\ DOMAIN rows = 1 .. m /\ DOMAIN more = 1 .. n
  BY ListProperties DEF IsRows
<1>2. /\ IsList(both) /\ Len(both) = m + n /\ DOMAIN both = 1 .. m + n
      /\ \A i \in 1 .. m : both[i] = rows[i]
      /\ \A i \in 1 .. n : both[m + i] = more[i]
  BY <1>1, ListsJoined
<1> HIDE DEF both, m, n
<1>3. ASSUME NEW j \in 1 .. m + n
      PROVE  j \in 1 .. m \/ (j - m \in 1 .. n /\ both[j] = more[j - m])
  <2>1. CASE j <= m
    BY <1>1, <2>1
  <2>2. CASE j > m
    <3>1. j - m \in 1 .. n /\ m + (j - m) = j
      BY <1>1, <2>2
    <3> QED
      BY <1>2, <3>1
  <2> QED
    BY <1>1, <2>1, <2>2
<1>4. \A j \in 1 .. m + n : IsRow(both[j])
  <2> SUFFICES ASSUME NEW j \in 1 .. m + n PROVE IsRow(both[j])
    OBVIOUS
  <2>1. CASE j \in 1 .. m
    BY <1>1, <1>2, <2>1 DEF IsRows
  <2>2. CASE j - m \in 1 .. n /\ both[j] = more[j - m]
    BY <1>1, <2>2 DEF IsRows
  <2> QED
    BY <1>3, <2>1, <2>2
<1>5. IsRows(both)
  BY <1>2, <1>4 DEF IsRows
<1> QED
  BY <1>1, <1>2, <1>3, <1>5 DEF both, m, n

\* A list of numbers that is made of two parts.
LEMMA SummedParts ==
  ASSUME NEW f \in Seq(Int), NEW g \in Seq(Int), NEW h \in Seq(Int), Len(h) = Len(f) + Len(g),
         \A i \in 1 .. Len(f) : h[i] = f[i],
         \A i \in 1 .. Len(g) : h[Len(f) + i] = g[i]
  PROVE  Summed(h) = Summed(f) + Summed(g)
<1> DEFINE m == Len(f)
           n == Len(g)
           k == f \o g
<1>1. /\ m \in Nat /\ n \in Nat /\ k \in Seq(Int) /\ Len(k) = m + n
      /\ \A i \in 1 .. m : k[i] = f[i]
      /\ \A i \in 1 .. n : k[m + i] = g[i]
  OBVIOUS
<1>2. \A i \in 1 .. m : h[i] = k[i]
  BY <1>1
<1>3. \A i \in 1 .. n : h[m + i] = k[m + i]
  BY <1>1
<1>4. Len(h) = m + n
  OBVIOUS
<1>5. Summed(k) = Summed(f) + Summed(g)
  BY SummedConcat
<1> HIDE DEF m, n, k
<1>6. \A j \in 1 .. m + n : h[j] = k[j]
  <2> SUFFICES ASSUME NEW j \in 1 .. m + n PROVE h[j] = k[j]
    OBVIOUS
  <2>1. CASE j <= m
    BY <1>1, <1>2, <2>1
  <2>2. CASE j > m
    <3>1. j - m \in 1 .. n /\ m + (j - m) = j
      BY <1>1, <2>2
    <3> QED
      BY <1>3, <3>1
  <2> QED
    BY <1>1, <2>1, <2>2
<1>7. h = k
  BY <1>1, <1>4, <1>6
<1> QED
  BY <1>5, <1>7

\* The rows of several lines take together what each of them takes.
LEMMA TakenJoined ==
  ASSUME NEW rows, IsRows(rows), NEW more, IsRows(more), NEW item
  PROVE  /\ TakenOf(item, rows \o more) = TakenOf(item, rows) + TakenOf(item, more)
         /\ TakenOf(item, rows) \in Nat /\ TakenOf(item, more) \in Nat
<1> DEFINE both == rows \o more
           f == Column(rows, item, "allocated")
           g == Column(more, item, "allocated")
           h == Column(both, item, "allocated")
           m == Len(rows)
           n == Len(more)
<1>1. /\ IsRows(both) /\ m \in Nat /\ n \in Nat /\ DOMAIN both = 1 .. m + n
      /\ \A i \in 1 .. m : both[i] = rows[i]
      /\ \A i \in 1 .. n : both[m + i] = more[i]
      /\ Len(both) = m + n /\ DOMAIN rows = 1 .. m /\ DOMAIN more = 1 .. n
      /\ \A j \in 1 .. m + n : j \in 1 .. m \/ (j - m \in 1 .. n /\ both[j] = more[j - m])
  BY RowsJoined
<1>2. ASSUME NEW x, IsRows(x) PROVE \A j \in DOMAIN x : x[j]["allocated"] \in Nat
  BY <1>2 DEF IsRows, IsRow
<1>3. /\ f \in Seq(Nat) /\ f \in Seq(Int) /\ Len(f) = m
      /\ \A j \in 1 .. m : f[j] = IF rows[j].item = item THEN rows[j]["allocated"] ELSE 0
  BY <1>2, ColumnType
<1>4. /\ g \in Seq(Nat) /\ g \in Seq(Int) /\ Len(g) = n
      /\ \A j \in 1 .. n : g[j] = IF more[j].item = item THEN more[j]["allocated"] ELSE 0
  BY <1>2, ColumnType
<1>5. \A j \in DOMAIN both : both[j]["allocated"] \in Nat
  BY <1>1, <1>2
<1> HIDE DEF both
<1>6. /\ h \in Seq(Int) /\ Len(h) = m + n
      /\ \A j \in 1 .. m + n : h[j] = IF both[j].item = item THEN both[j]["allocated"] ELSE 0
  <2>1. /\ h \in Seq(Int) /\ Len(h) = Len(both)
        /\ \A j \in 1 .. Len(both) : h[j] = IF both[j].item = item THEN both[j]["allocated"] ELSE 0
    <3>1. IsRows(both)
      BY <1>1
    <3> QED
      BY <1>5, <3>1, ColumnType
  <2> HIDE DEF h, m, n
  <2> QED
    BY <1>1, <2>1
<1>7. /\ TakenOf(item, rows) = Summed(f) /\ TakenOf(item, more) = Summed(g)
      /\ TakenOf(item, both) = Summed(h)
  BY DEF TakenOf, SumOf, Each, Column
<1> HIDE DEF f, g, h, m, n
<1>8. \A i \in 1 .. m : h[i] = f[i]
  <2> SUFFICES ASSUME NEW i \in 1 .. m PROVE h[i] = f[i]
    OBVIOUS
  <2>1. both[i] = rows[i] /\ i \in 1 .. m + n
    BY <1>1
  <2>2. h[i] = IF both[i].item = item THEN both[i]["allocated"] ELSE 0
    BY <1>6, <2>1
  <2>3. f[i] = IF rows[i].item = item THEN rows[i]["allocated"] ELSE 0
    BY <1>3
  <2> QED
    BY <2>1, <2>2, <2>3
<1>9. \A i \in 1 .. n : h[m + i] = g[i]
  <2> SUFFICES ASSUME NEW i \in 1 .. n PROVE h[m + i] = g[i]
    OBVIOUS
  <2>1. both[m + i] = more[i] /\ m + i \in 1 .. m + n
    BY <1>1
  <2>2. h[m + i] = IF both[m + i].item = item THEN both[m + i]["allocated"] ELSE 0
    BY <1>6, <2>1
  <2>3. g[i] = IF more[i].item = item THEN more[i]["allocated"] ELSE 0
    BY <1>4
  <2> QED
    BY <2>1, <2>2, <2>3
<1>10. Summed(h) = Summed(f) + Summed(g) /\ Summed(f) \in Nat /\ Summed(g) \in Nat
  <2>1. Summed(f) \in Nat /\ Summed(g) \in Nat
    BY <1>3, <1>4, SummedNat
  <2> QED
    BY <1>3, <1>4, <1>6, <1>8, <1>9, <2>1, SummedParts
<1> QED
  BY <1>7, <1>10 DEF both

\* A new row that starts from the pallets that are handed on hands on what remains.
LEMMA HandedFurther ==
  ASSUME NEW rows, IsRows(rows), NEW more, IsRows(more), ItemsDistinct(more), NEW c, NEW balance,
         HandedOn(c, rows), HandedTo(c, rows, balance),
         \A j \in DOMAIN more : more[j].item = c.id => more[j].startingPallets = balance
  PROVE  /\ HandedOn(c, rows \o more)
         /\ \A j \in DOMAIN more : more[j].item = c.id => HandedTo(c, rows \o more, more[j].remaining)
         /\ (\A j \in DOMAIN more : more[j].item # c.id) => HandedTo(c, rows \o more, balance)
<1> DEFINE both == rows \o more
           m == Len(rows)
           n == Len(more)
           Fits(j) == \/ /\ \A i \in 1 .. j - 1 : both[i].item # c.id
                         /\ both[j].startingPallets = c.onHandPallets
                      \/ \E i \in 1 .. j - 1 :
                           /\ both[i].item = c.id /\ both[j].startingPallets = both[i].remaining
                           /\ \A h \in i + 1 .. j - 1 : both[h].item # c.id
<1>1. /\ m \in Nat /\ n \in Nat /\ Len(both) = m + n /\ DOMAIN both = 1 .. m + n
      /\ DOMAIN rows = 1 .. m /\ DOMAIN more = 1 .. n
      /\ \A i \in 1 .. m : both[i] = rows[i]
      /\ \A i \in 1 .. n : both[m + i] = more[i]
      /\ \A j \in 1 .. m + n : j \in 1 .. m \/ (j - m \in 1 .. n /\ both[j] = more[j - m])
  BY RowsJoined
<1> HIDE DEF both, m, n
<1>2. ASSUME NEW j \in 1 .. m + n, both[j].item = c.id, j \in 1 .. m
      PROVE  Fits(j)
  <2>1. \A i \in 1 .. j : both[i] = rows[i] /\ i \in 1 .. m
    BY <1>1, <1>2
  <2>2. rows[j].item = c.id /\ j \in DOMAIN rows /\ both[j] = rows[j]
    BY <1>1, <1>2
  <2>3. CASE /\ \A i \in 1 .. j - 1 : rows[i].item # c.id
             /\ rows[j].startingPallets = c.onHandPallets
    BY <1>1, <1>2, <2>1, <2>3
  <2>4. CASE \E i \in 1 .. j - 1 :
               /\ rows[i].item = c.id /\ rows[j].startingPallets = rows[i].remaining
               /\ \A h \in i + 1 .. j - 1 : rows[h].item # c.id
    <3>1. PICK i \in 1 .. j - 1 :
               /\ rows[i].item = c.id /\ rows[j].startingPallets = rows[i].remaining
               /\ \A h \in i + 1 .. j - 1 : rows[h].item # c.id
      BY <2>4
    <3>2. both[i] = rows[i] /\ \A h \in i + 1 .. j - 1 : both[h] = rows[h]
      BY <1>1, <2>1, <3>1
    <3> QED
      BY <2>2, <3>1, <3>2
  <2> QED
    BY <2>2, <2>3, <2>4 DEF HandedOn
<1>3. ASSUME NEW g \in 1 .. n, more[g].item = c.id
      PROVE  /\ \A h \in 1 .. n : h # g => more[h].item # c.id
             /\ both[m + g] = more[g] /\ m + g \in 1 .. m + n
             /\ \A h \in m + g + 1 .. m + n : both[h].item # c.id
             /\ \A h \in m + 1 .. (m + g) - 1 : both[h].item # c.id
  <2>1. \A h \in 1 .. n : h # g => more[h].item # c.id
    BY <1>1, <1>3 DEF ItemsDistinct
  <2>2. both[m + g] = more[g] /\ m + g \in 1 .. m + n
    BY <1>1
  <2>3. ASSUME NEW h \in m + 1 .. m + n, h # m + g PROVE both[h].item # c.id
    <3>1. h - m \in 1 .. n /\ h - m # g /\ m + (h - m) = h
      BY <1>1, <2>3
    <3> QED
      BY <1>1, <2>1, <3>1
  <2>4. \A h \in m + g + 1 .. m + n : h \in m + 1 .. m + n /\ h # m + g
    BY <1>1
  <2>5. \A h \in m + 1 .. (m + g) - 1 : h \in m + 1 .. m + n /\ h # m + g
    BY <1>1
  <2> QED
    BY <2>1, <2>2, <2>3, <2>4, <2>5
<1>4. ASSUME NEW g \in 1 .. n, more[g].item = c.id
      PROVE  Fits(m + g)
  <2>0. more[g].startingPallets = balance /\ both[m + g] = more[g]
    BY <1>1, <1>4
  <2>1. \A h \in m + 1 .. (m + g) - 1 : both[h].item # c.id
    BY <1>3, <1>4
  <2>2. CASE (\A i \in DOMAIN rows : rows[i].item # c.id) /\ balance = c.onHandPallets
    <3>1. ASSUME NEW i \in 1 .. (m + g) - 1 PROVE both[i].item # c.id
      <4>1. i \in 1 .. m \/ i \in m + 1 .. (m + g) - 1
        BY <1>1
      <4> QED
        BY <1>1, <2>1, <2>2, <4>1
    <3>2. both[m + g].startingPallets = c.onHandPallets
      BY <2>0, <2>2
    <3> QED
      BY <3>1, <3>2
  <2>3. CASE \E i \in DOMAIN rows : /\ rows[i].item = c.id /\ balance = rows[i].remaining
                                    /\ \A h \in i + 1 .. m : rows[h].item # c.id
    <3>1. PICK i \in DOMAIN rows : /\ rows[i].item = c.id /\ balance = rows[i].remaining
                                   /\ \A h \in i + 1 .. m : rows[h].item # c.id
      BY <2>3
    <3>2. i \in 1 .. m /\ both[i] = rows[i] /\ i \in 1 .. (m + g) - 1
      BY <1>1, <3>1
    <3>3. ASSUME NEW h \in i + 1 .. (m + g) - 1 PROVE both[h].item # c.id
      <4>1. (h \in i + 1 .. m /\ h \in 1 .. m) \/ h \in m + 1 .. (m + g) - 1
        BY <1>1, <3>2
      <4> QED
        BY <1>1, <2>1, <3>1, <4>1
    <3>4. both[i].item = c.id /\ both[m + g].startingPallets = both[i].remaining
      BY <2>0, <3>1, <3>2
    <3> QED
      BY <3>2, <3>3, <3>4
  <2> QED
    BY <2>2, <2>3 DEF HandedTo, m
<1>5. HandedOn(c, both)
  <2> SUFFICES ASSUME NEW j \in 1 .. m + n, both[j].item = c.id
               PROVE  Fits(j)
    BY <1>1 DEF HandedOn
  <2>1. CASE j \in 1 .. m
    BY <1>2, <2>1
  <2>2. CASE j - m \in 1 .. n /\ both[j] = more[j - m]
    <3> DEFINE g == j - m
    <3>1. g \in 1 .. n /\ m + g = j /\ more[g].item = c.id
      BY <1>1, <2>2
    <3> HIDE DEF g
    <3>2. Fits(m + g)
      BY <1>4, <3>1
    <3> HIDE DEF Fits
    <3>3. Fits(j)
      BY <3>1, <3>2
    <3> QED
      BY <3>3 DEF Fits
  <2> QED
    BY <1>1, <2>1, <2>2
<1>6. ASSUME NEW g \in 1 .. n, more[g].item = c.id PROVE HandedTo(c, both, more[g].remaining)
  BY <1>1, <1>3, <1>6 DEF HandedTo
<1>7. ASSUME \A j \in 1 .. n : more[j].item # c.id PROVE HandedTo(c, both, balance)
  <2>0. \A h \in m + 1 .. m + n : both[h].item # c.id
    <3> SUFFICES ASSUME NEW h \in m + 1 .. m + n PROVE both[h].item # c.id
      OBVIOUS
    <3>1. h - m \in 1 .. n /\ m + (h - m) = h
      BY <1>1
    <3> QED
      BY <1>1, <1>7, <3>1
  <2>1. CASE (\A i \in DOMAIN rows : rows[i].item # c.id) /\ balance = c.onHandPallets
    <3>1. ASSUME NEW i \in 1 .. m + n PROVE both[i].item # c.id
      <4>1. i \in 1 .. m \/ i \in m + 1 .. m + n
        BY <1>1
      <4> QED
        BY <1>1, <2>0, <2>1, <4>1
    <3> QED
      BY <1>1, <2>1, <3>1 DEF HandedTo
  <2>2. CASE \E i \in DOMAIN rows : /\ rows[i].item = c.id /\ balance = rows[i].remaining
                                    /\ \A h \in i + 1 .. m : rows[h].item # c.id
    <3>1. PICK i \in DOMAIN rows : /\ rows[i].item = c.id /\ balance = rows[i].remaining
                                   /\ \A h \in i + 1 .. m : rows[h].item # c.id
      BY <2>2
    <3>2. i \in 1 .. m /\ both[i] = rows[i] /\ i \in DOMAIN both
      BY <1>1, <3>1
    <3>3. ASSUME NEW h \in i + 1 .. m + n PROVE both[h].item # c.id
      <4>1. (h \in i + 1 .. m /\ h \in 1 .. m) \/ h \in m + 1 .. m + n
        BY <1>1, <3>2
      <4> QED
        BY <1>1, <2>0, <3>1, <4>1
    <3> QED
      BY <1>1, <3>1, <3>2, <3>3 DEF HandedTo
  <2> QED
    BY <2>1, <2>2 DEF HandedTo, m
<1> QED
  BY <1>1, <1>5, <1>6, <1>7 DEF both

\* The rows of a line that draw on a candidate keep it booked.
LEMMA BookedMore ==
  ASSUME NEW c, IsCandidate(c), NEW r, ReservedSound(r), NEW rows, IsRows(rows), Booked(c, r, rows),
         NEW more, IsRows(more), ItemsDistinct(more),
         \A j \in DOMAIN more : more[j].item = c.id =>
           /\ more[j].allocated <= Left(c, r).avail
           /\ more[j].startingPallets = Left(c, r).onHandPallets
  PROVE  Booked(c, Reserve(r, TakenBy(more)), rows \o more)
<1> DEFINE both == rows \o more
           R == Reserve(r, TakenBy(more))
           q == AtItem(r, c.id).quantity
           p == AtItem(r, c.id).pallets
           balance == c.onHandPallets - p
<1>1. q \in Nat /\ p \in Nat /\ c.avail \in Nat /\ c.onHandPallets \in Nat
  BY AtItemType DEF IsCandidate
<1>2. q = TakenOf(c.id, rows) /\ q <= c.avail /\ p <= c.onHandPallets
  BY DEF Booked
<1>3. HandedOn(c, rows) /\ HandedTo(c, rows, balance)
  BY DEF Booked
<1>4. /\ Left(c, r).avail = Positive(c.avail - q)
      /\ Left(c, r).onHandPallets = Positive(c.onHandPallets - p)
  BY LeftFacts
<1> HIDE DEF q, p
<1>5. Left(c, r).avail = c.avail - q /\ Left(c, r).onHandPallets = balance
  BY <1>1, <1>2, <1>4 DEF Positive
<1>6. TakenOf(c.id, both) = TakenOf(c.id, rows) + TakenOf(c.id, more)
  BY TakenJoined
<1>7. /\ HandedOn(c, both)
      /\ \A j \in DOMAIN more : more[j].item = c.id => HandedTo(c, both, more[j].remaining)
      /\ (\A j \in DOMAIN more : more[j].item # c.id) => HandedTo(c, both, balance)
  <2>1. \A j \in DOMAIN more : more[j].item = c.id => more[j].startingPallets = balance
    BY <1>5
  <2> HIDE DEF balance
  <2> QED
    BY <1>3, <2>1, HandedFurther
<1> HIDE DEF both, R
<1>8. CASE \A j \in DOMAIN more : more[j].item # c.id
  <2>1. AtItem(R, c.id) = AtItem(r, c.id)
    BY <1>8, ReserveRows DEF R
  <2>2. TakenOf(c.id, more) = 0
    BY <1>8, ColumnOfNone
  <2>3. AtItem(R, c.id).quantity = q /\ AtItem(R, c.id).pallets = p
    BY <2>1 DEF q, p
  <2>4. TakenOf(c.id, both) = q
    BY <1>1, <1>2, <1>6, <2>2
  <2> QED
    BY <1>1, <1>2, <1>7, <1>8, <2>3, <2>4 DEF Booked, both, R
<1>9. CASE \E j \in DOMAIN more : more[j].item = c.id
  <2>1. PICK j \in DOMAIN more : more[j].item = c.id
    BY <1>9
  <2> DEFINE a == more[j].allocated
             s == more[j].startingPallets
             left == more[j].remaining
  <2>2. TakenOf(c.id, more) = a
    BY <2>1, TakenByRow
  <2>3. a \in Nat /\ s \in Nat /\ left \in {0, s}
    BY DEF IsRows, IsRow
  <2>4. a <= c.avail - q /\ s = balance
    BY <1>5, <2>1
  <2>5. AtItem(R, c.id).quantity = q + a /\ AtItem(R, c.id).pallets = p + (s - left)
    <3>1. /\ AtItem(R, more[j].item).quantity = AtItem(r, more[j].item).quantity + more[j].allocated
          /\ AtItem(R, more[j].item).pallets
               = AtItem(r, more[j].item).pallets + (more[j].startingPallets - more[j].remaining)
      BY ReserveRows DEF R
    <3> QED
      BY <2>1, <3>1 DEF q, p
  <2>6. HandedTo(c, both, left)
    BY <1>7, <2>1
  <2> HIDE DEF a, s, left
  <2>7. TakenOf(c.id, both) = q + a /\ q + a <= c.avail
    BY <1>1, <1>2, <1>6, <2>2, <2>3, <2>4
  <2>8. p + (s - left) <= c.onHandPallets /\ c.onHandPallets - (p + (s - left)) = left
    BY <1>1, <1>2, <2>3, <2>4
  <2> QED
    BY <1>7, <2>5, <2>6, <2>7, <2>8 DEF Booked, both, R
<1> QED
  BY <1>8, <1>9

\* Rows that do not draw on a candidate leave it alone.
LEMMA BookedElsewhere ==
  ASSUME NEW c, IsCandidate(c), NEW r, ReservedSound(r), NEW rows, IsRows(rows), Booked(c, r, rows),
         NEW more, IsRows(more), ItemsDistinct(more), \A j \in DOMAIN more : more[j].item # c.id
  PROVE  Booked(c, r, rows \o more)
<1> DEFINE both == rows \o more
           balance == c.onHandPallets - AtItem(r, c.id).pallets
<1>1. /\ AtItem(r, c.id).quantity = TakenOf(c.id, rows) /\ TakenOf(c.id, rows) <= c.avail
      /\ AtItem(r, c.id).pallets <= c.onHandPallets
      /\ HandedOn(c, rows) /\ HandedTo(c, rows, balance)
  BY DEF Booked
<1>2. TakenOf(c.id, both) = TakenOf(c.id, rows)
  <2>1. /\ TakenOf(c.id, both) = TakenOf(c.id, rows) + TakenOf(c.id, more)
        /\ TakenOf(c.id, rows) \in Nat
    BY TakenJoined
  <2>2. TakenOf(c.id, more) = 0
    BY ColumnOfNone
  <2> QED
    BY <2>1, <2>2
<1>3. HandedOn(c, both) /\ HandedTo(c, both, balance)
  <2> HIDE DEF balance
  <2> QED
    BY <1>1, HandedFurther
<1> HIDE DEF both
<1> QED
  BY <1>1, <1>2, <1>3 DEF Booked, both

\* What one line adds to the preview.
LEMMA AllocateLineBooked ==
  ASSUME NEW all, NEW items, SourcesSound(all, items), NEW acc, PreviewBooked(acc, all),
         NEW l, IsLine(l)
  PROVE  PreviewBooked(AllocateLine(acc, l, all), all)
<1>1. CASE l.source \notin DOMAIN all \/ Fulfillment(l) = 0
  BY <1>1 DEF AllocateLine
<1>2. CASE ~(l.source \notin DOMAIN all \/ Fulfillment(l) = 0)
  <2> DEFINE k == l.source
             cs == all[k].candidates
             r == acc.reserved[k]
             picks == EffectiveSelections(l, all[k], r)
             more == LineRows(l, picks, cs, r)
             R == Reserve(r, TakenBy(more))
             new == AllocateLine(acc, l, all)
  <2>1. /\ k \in DOMAIN all /\ SourceSound(all[k], k, items) /\ CandidatesSound(cs, k, items)
        /\ ReservedSound(r) /\ IsRows(acc.rows)
    BY <1>2 DEF SourcesSound, SourceSound, PreviewBooked
  <2>2. PicksSound(picks)
    BY <2>1, EffectiveSound
  <2>3. new = WithLine(acc, l, more)
    BY <1>2 DEF AllocateLine, PreviewOfLine
  <2> HIDE DEF cs, r, picks
  <2>4. /\ IsRows(more) /\ ItemsDistinct(more)
        /\ \A j \in DOMAIN more : \E i \in DOMAIN cs :
             cs[i].id \in DOMAIN picks /\ more[j] = PreviewRow(l, picks, cs[i], r)
    BY <2>1, <2>2, LineRowsSound
  <2> HIDE DEF more, new
  <2>5. /\ DOMAIN new = {"rows", "summaries", "reserved"} /\ new.rows = acc.rows \o more
        /\ new.reserved = [acc.reserved EXCEPT ![k] = R]
    BY <2>3 DEF WithLine, r
  <2>6. /\ DOMAIN acc.reserved = DOMAIN all
        /\ \A h \in DOMAIN all :
             /\ ReservedSound(acc.reserved[h])
             /\ \A i \in DOMAIN all[h].candidates : Booked(all[h].candidates[i], acc.reserved[h], acc.rows)
    BY DEF PreviewBooked
  <2>7. ReservedSound(R)
    BY <2>1, <2>4, ReserveRows
  <2>8. IsRows(acc.rows \o more)
    BY <2>1, <2>4, RowsJoined
  <2>9. ASSUME NEW i \in DOMAIN cs PROVE Booked(cs[i], R, acc.rows \o more)
    <3> DEFINE c == cs[i]
    <3>1. IsCandidate(c) /\ IsOf(c, k, items) /\ Booked(c, r, acc.rows)
      BY <2>1, <2>6 DEF CandidatesSound, cs, r
    <3>2. ASSUME NEW j \in DOMAIN more, more[j].item = c.id
          PROVE  /\ more[j].allocated <= Left(c, r).avail
                 /\ more[j].startingPallets = Left(c, r).onHandPallets
      <4>1. PICK h \in DOMAIN cs : cs[h].id \in DOMAIN picks /\ more[j] = PreviewRow(l, picks, cs[h], r)
        BY <2>4
      <4>2. more[j].item = cs[h].id
        BY <4>1, RowNames
      <4>3. IsCandidate(cs[h]) /\ IsOf(cs[h], k, items)
        BY <2>1 DEF CandidatesSound
      <4>4. cs[h].bucket = c.bucket
        <5>1. cs[h].id = c.id
          BY <3>2, <4>2
        <5> HIDE DEF c
        <5> QED
          BY <3>1, <4>3, <5>1, IdNames
      <4>5. h = i
        BY <2>1, <4>4 DEF CandidatesSound
      <4>6. more[j] = PreviewRow(l, picks, c, r) /\ c.id \in DOMAIN picks
        BY <4>1, <4>5
      <4> HIDE DEF c
      <4>7. PreviewRow(l, picks, c, r).allocated <= Left(c, r).avail
        BY <2>1, <2>2, <3>1, <4>6, RowSound
      <4>8. PreviewRow(l, picks, c, r).startingPallets = Left(c, r).onHandPallets
        BY RowNames
      <4> QED
        BY <4>6, <4>7, <4>8
    <3> HIDE DEF c, R
    <3>3. Booked(c, Reserve(r, TakenBy(more)), acc.rows \o more)
      BY <2>1, <2>4, <3>1, <3>2, BookedMore
    <3> QED
      BY <3>3 DEF c, R
  <2>10. ASSUME NEW h \in DOMAIN all, h # k, NEW i \in DOMAIN all[h].candidates
         PROVE  Booked(all[h].candidates[i], acc.reserved[h], acc.rows \o more)
    <3> DEFINE c == all[h].candidates[i]
    <3>1. IsCandidate(c) /\ IsOf(c, h, items)
      BY DEF SourcesSound, SourceSound, CandidatesSound
    <3>2. Booked(c, acc.reserved[h], acc.rows) /\ ReservedSound(acc.reserved[h])
      BY <2>6
    <3> HIDE DEF c
    <3>3. ASSUME NEW j \in DOMAIN more, more[j].item = c.id PROVE FALSE
      <4>1. PICK g \in DOMAIN cs : cs[g].id \in DOMAIN picks /\ more[j] = PreviewRow(l, picks, cs[g], r)
        BY <2>4
      <4>2. more[j].item = cs[g].id
        BY <4>1, RowNames
      <4>3. IsOf(cs[g], k, items)
        BY <2>1 DEF CandidatesSound
      <4>4. k = h
        <5>1. cs[g].id = c.id
          BY <3>3, <4>2
        <5> HIDE DEF k
        <5> QED
          BY <3>1, <4>3, <5>1, IdNames
      <4> QED
        BY <2>10, <4>4
    <3>4. Booked(c, acc.reserved[h], acc.rows \o more)
      BY <2>1, <2>4, <3>1, <3>2, <3>3, BookedElsewhere
    <3> QED
      BY <3>4 DEF c
  <2> HIDE DEF R, k
  <2>11. \A h \in DOMAIN all : new.reserved[h] = IF h = k THEN R ELSE acc.reserved[h]
    BY <2>5, <2>6
  <2>12. ASSUME NEW h \in DOMAIN all
         PROVE  /\ ReservedSound(new.reserved[h])
                /\ \A i \in DOMAIN all[h].candidates : Booked(all[h].candidates[i], new.reserved[h], new.rows)
    <3>1. CASE h = k
      BY <2>5, <2>7, <2>9, <2>11, <3>1 DEF cs
    <3>2. CASE h # k
      BY <2>5, <2>6, <2>10, <2>11, <3>2
    <3> QED
      BY <3>1, <3>2
  <2>13. PreviewBooked(new, all)
    BY <2>5, <2>6, <2>8, <2>12 DEF PreviewBooked
  <2> QED
    BY <2>13 DEF new
<1> QED
  BY <1>1, <1>2

-----------------------------------------------------------------------------
(* What each line takes *)

LineNumbers(id, rows) == [j \in DOMAIN rows |-> IF rows[j].line = id THEN rows[j].allocated ELSE 0]
LineTotal(id, rows) == Summed(LineNumbers(id, rows))
Taken(rows) == [j \in DOMAIN rows |-> rows[j].allocated]

Counting(l, all) == l.source \in DOMAIN all /\ Fulfillment(l) # 0

Summarized(acc, l, all) ==
  IF Counting(l, all)
  THEN l.id \in DOMAIN acc.summaries /\ acc.summaries[l.id] = LineSummary(l, LineTotal(l.id, acc.rows))
  ELSE l.id \notin DOMAIN acc.summaries /\ LineTotal(l.id, acc.rows) = 0

\* A row of a line is where the source of the line is.
RowOf(row, l, all) ==
  Counting(l, all) /\ row.line = l.id /\ row.location = all[l.source].location

\* The summaries are those of the first lines, and so are the rows.
PreviewCounted(acc, ls, all, m) ==
  /\ \A j \in DOMAIN acc.rows : \E h \in 1 .. m : RowOf(acc.rows[j], ls[h], all)
  /\ \A id \in DOMAIN acc.summaries : \E h \in 1 .. m : id = ls[h].id
  /\ \A h \in 1 .. m : Summarized(acc, ls[h], all)

\* What rows take of one line, and of all, as lists of numbers.
LEMMA NumbersType ==
  ASSUME NEW rows, IsRows(rows), NEW id
  PROVE  /\ LineNumbers(id, rows) \in Seq(Nat) /\ LineNumbers(id, rows) \in Seq(Int)
         /\ Len(LineNumbers(id, rows)) = Len(rows) /\ Len(rows) \in Nat
         /\ \A j \in 1 .. Len(rows) : LineNumbers(id, rows)[j] = IF rows[j].line = id THEN rows[j].allocated ELSE 0
         /\ Taken(rows) \in Seq(Nat) /\ Taken(rows) \in Seq(Int) /\ Len(Taken(rows)) = Len(rows)
         /\ \A j \in 1 .. Len(rows) : Taken(rows)[j] = rows[j].allocated
<1>1. Len(rows) \in Nat /\ DOMAIN rows = 1 .. Len(rows)
  BY ListProperties DEF IsRows
<1>2. \A j \in DOMAIN rows : rows[j].allocated \in Nat
  BY DEF IsRows, IsRow
<1> DEFINE n == Len(rows)
           f == [j \in 1 .. n |-> IF rows[j].line = id THEN rows[j].allocated ELSE 0]
           g == [j \in 1 .. n |-> rows[j].allocated]
<1>3. LineNumbers(id, rows) = f /\ Taken(rows) = g
  BY <1>1 DEF LineNumbers, Taken
<1>4. f \in [1 .. n -> Nat] /\ g \in [1 .. n -> Nat]
  BY <1>1, <1>2
<1>5. f \in Seq(Nat) /\ f \in Seq(Int) /\ Len(f) = n /\ g \in Seq(Nat) /\ g \in Seq(Int) /\ Len(g) = n
  BY <1>1, <1>4
<1> QED
  BY <1>1, <1>3, <1>5

\* What a line has of two lists of rows is the sum of what it has of each.
LEMMA LineTotalJoined ==
  ASSUME NEW rows, IsRows(rows), NEW more, IsRows(more), NEW id
  PROVE  LineTotal(id, rows \o more) = LineTotal(id, rows) + LineTotal(id, more)
<1> DEFINE both == rows \o more
           f == LineNumbers(id, rows)
           g == LineNumbers(id, more)
           h == LineNumbers(id, both)
           m == Len(rows)
           n == Len(more)
<1>1. /\ IsRows(both) /\ m \in Nat /\ n \in Nat /\ Len(both) = m + n
      /\ \A i \in 1 .. m : both[i] = rows[i]
      /\ \A i \in 1 .. n : both[m + i] = more[i]
  BY RowsJoined
<1> HIDE DEF both
<1>2. /\ f \in Seq(Int) /\ Len(f) = m
      /\ \A j \in 1 .. m : f[j] = IF rows[j].line = id THEN rows[j].allocated ELSE 0
  BY NumbersType
<1>3. /\ g \in Seq(Int) /\ Len(g) = n
      /\ \A j \in 1 .. n : g[j] = IF more[j].line = id THEN more[j].allocated ELSE 0
  BY NumbersType
<1>4. /\ h \in Seq(Int) /\ Len(h) = Len(both)
      /\ \A j \in 1 .. Len(both) : h[j] = IF both[j].line = id THEN both[j].allocated ELSE 0
  <2>1. IsRows(both)
    BY <1>1
  <2> QED
    BY <2>1, NumbersType
<1> HIDE DEF f, g, h, m, n
<1>5. \A i \in 1 .. m : h[i] = f[i]
  <2> SUFFICES ASSUME NEW i \in 1 .. m PROVE h[i] = f[i]
    OBVIOUS
  <2>1. both[i] = rows[i] /\ i \in 1 .. Len(both)
    BY <1>1
  <2>2. h[i] = IF both[i].line = id THEN both[i].allocated ELSE 0
    BY <1>4, <2>1
  <2>3. f[i] = IF rows[i].line = id THEN rows[i].allocated ELSE 0
    BY <1>2
  <2> QED
    BY <2>1, <2>2, <2>3
<1>6. \A i \in 1 .. n : h[m + i] = g[i]
  <2> SUFFICES ASSUME NEW i \in 1 .. n PROVE h[m + i] = g[i]
    OBVIOUS
  <2>1. both[m + i] = more[i] /\ m + i \in 1 .. Len(both)
    BY <1>1
  <2>2. h[m + i] = IF both[m + i].line = id THEN both[m + i].allocated ELSE 0
    BY <1>4, <2>1
  <2>3. g[i] = IF more[i].line = id THEN more[i].allocated ELSE 0
    BY <1>3
  <2> QED
    BY <2>1, <2>2, <2>3
<1>7. Len(h) = Len(f) + Len(g)
  BY <1>1, <1>2, <1>3, <1>4
<1>8. /\ \A i \in 1 .. Len(f) : h[i] = f[i]
      /\ \A i \in 1 .. Len(g) : h[Len(f) + i] = g[i]
  BY <1>2, <1>3, <1>5, <1>6
<1>9. f \in Seq(Int) /\ g \in Seq(Int) /\ h \in Seq(Int)
  BY <1>2, <1>3, <1>4
<1>10. Summed(h) = Summed(f) + Summed(g)
  BY <1>7, <1>8, <1>9, SummedParts
<1> QED
  BY <1>10 DEF LineTotal, f, g, h, both

\* Rows of one line take as much of it as they take at all, and nothing of others.
LEMMA LineTotalOfLine ==
  ASSUME NEW rows, IsRows(rows), NEW l, \A j \in DOMAIN rows : rows[j].line = l
  PROVE  /\ LineTotal(l, rows) = Summed(Taken(rows))
         /\ \A id : id # l => LineTotal(id, rows) = 0
<1>0. DOMAIN rows = 1 .. Len(rows)
  BY ListProperties DEF IsRows
<1>1. LineNumbers(l, rows) = Taken(rows)
  BY DEF LineNumbers, Taken
<1>2. ASSUME NEW id, id # l PROVE LineTotal(id, rows) = 0
  <2> DEFINE f == LineNumbers(id, rows)
  <2>1. /\ f \in Seq(Int) /\ Len(f) = Len(rows)
        /\ \A j \in 1 .. Len(rows) : f[j] = IF rows[j].line = id THEN rows[j].allocated ELSE 0
    BY NumbersType
  <2> HIDE DEF f
  <2>2. \A j \in 1 .. Len(f) : f[j] = 0
    BY <1>0, <1>2, <2>1
  <2> QED
    BY <2>1, <2>2, SummedZero DEF LineTotal, f
<1> QED
  BY <1>1, <1>2 DEF LineTotal

\* And rows of other lines take nothing of a line.
LEMMA LineTotalOfNone ==
  ASSUME NEW rows, IsRows(rows), NEW id, \A j \in DOMAIN rows : rows[j].line # id
  PROVE  LineTotal(id, rows) = 0
<1> DEFINE f == LineNumbers(id, rows)
<1>0. DOMAIN rows = 1 .. Len(rows)
  BY ListProperties DEF IsRows
<1>1. /\ f \in Seq(Int) /\ Len(f) = Len(rows)
      /\ \A j \in 1 .. Len(rows) : f[j] = IF rows[j].line = id THEN rows[j].allocated ELSE 0
  BY NumbersType
<1> HIDE DEF f
<1>2. \A j \in 1 .. Len(f) : f[j] = 0
  BY <1>0, <1>1
<1> QED
  BY <1>1, <1>2, SummedZero DEF LineTotal, f

\* The summary of a line counts the rows it adds, and those of no other line.
LEMMA AllocateLineCounted ==
  ASSUME NEW all, NEW items, SourcesSound(all, items), NEW acc, PreviewBooked(acc, all),
         NEW ls, LinesSound(ls), NEW m \in Nat, m + 1 \in DOMAIN ls, PreviewCounted(acc, ls, all, m)
  PROVE  PreviewCounted(AllocateLine(acc, ls[m + 1], all), ls, all, m + 1)
<1> DEFINE l == ls[m + 1]
           new == AllocateLine(acc, l, all)
<1>0. /\ IsLine(l) /\ 1 .. m \subseteq 1 .. m + 1 /\ m + 1 \in 1 .. m + 1
      /\ \A h \in 1 .. m + 1 : h = m + 1 \/ h \in 1 .. m
  BY DEF LinesSound
<1>1. \A h \in 1 .. m : ls[h].id # l.id
  <2>1. DOMAIN ls = 1 .. Len(ls) /\ Len(ls) \in Nat
    BY ListProperties DEF LinesSound
  <2>2. \A h \in 1 .. m : h \in DOMAIN ls /\ h # m + 1
    BY <2>1
  <2> QED
    BY <2>2 DEF LinesSound
<1> HIDE DEF l, new
<1>2. /\ \A j \in DOMAIN acc.rows : acc.rows[j].line # l.id
      /\ l.id \notin DOMAIN acc.summaries
  BY <1>1 DEF PreviewCounted, RowOf
<1>3. LineTotal(l.id, acc.rows) = 0
  BY <1>2, LineTotalOfNone DEF PreviewBooked
<1>4. CASE ~Counting(l, all)
  <2>1. new = acc
    BY <1>4 DEF AllocateLine, Counting, new
  <2>2. Summarized(acc, l, all)
    BY <1>2, <1>3, <1>4 DEF Summarized
  <2>3. PreviewCounted(acc, ls, all, m + 1)
    <3>1. \A h \in 1 .. m + 1 : Summarized(acc, ls[h], all)
      BY <1>0, <2>2 DEF PreviewCounted, l
    <3> QED
      BY <1>0, <3>1 DEF PreviewCounted
  <2> QED
    BY <2>1, <2>3 DEF new, l
<1>5. CASE Counting(l, all)
  <2> DEFINE k == l.source
             cs == all[k].candidates
             r == acc.reserved[k]
             picks == EffectiveSelections(l, all[k], r)
             more == LineRows(l, picks, cs, r)
  <2>1. /\ k \in DOMAIN all /\ SourceSound(all[k], k, items) /\ CandidatesSound(cs, k, items)
        /\ ReservedSound(r) /\ IsRows(acc.rows)
    BY <1>5 DEF Counting, SourcesSound, SourceSound, PreviewBooked
  <2>2. PicksSound(picks)
    BY <1>0, <2>1, EffectiveSound
  <2>3. new = WithLine(acc, l, more)
    BY <1>5 DEF AllocateLine, PreviewOfLine, Counting, new
  <2> HIDE DEF cs, r, picks
  <2>4. /\ IsRows(more)
        /\ \A j \in DOMAIN more : \E i \in DOMAIN cs :
             cs[i].id \in DOMAIN picks /\ more[j] = PreviewRow(l, picks, cs[i], r)
    BY <2>1, <2>2, LineRowsSound
  <2> HIDE DEF more
  <2>5. \A j \in DOMAIN more : RowOf(more[j], l, all) /\ more[j].line = l.id
    <3> SUFFICES ASSUME NEW j \in DOMAIN more PROVE RowOf(more[j], l, all) /\ more[j].line = l.id
      OBVIOUS
    <3>1. PICK i \in DOMAIN cs : more[j] = PreviewRow(l, picks, cs[i], r)
      BY <2>4
    <3>2. more[j].line = l.id /\ more[j].location = cs[i].location
      BY <3>1, RowNames
    <3>3. cs[i].location = Sources[k].location /\ all[k].location = Sources[k].location
      BY <2>1 DEF CandidatesSound, SourceSound, IsOf
    <3> QED
      BY <1>5, <3>2, <3>3 DEF RowOf
  <2>6. /\ new.rows = acc.rows \o more
        /\ new.summaries = With(acc.summaries, l.id, LineSummary(l, Summed(Taken(more))))
    BY <2>3 DEF WithLine, SumOf, Each, Taken
  <2>7. /\ LineTotal(l.id, more) = Summed(Taken(more))
        /\ \A id : id # l.id => LineTotal(id, more) = 0
    BY <2>4, <2>5, LineTotalOfLine
  <2>8. \A id : LineTotal(id, new.rows) = LineTotal(id, acc.rows) + LineTotal(id, more)
    BY <2>1, <2>4, <2>6, LineTotalJoined
  <2>9. ASSUME NEW id PROVE LineTotal(id, acc.rows) \in Nat /\ LineTotal(id, more) \in Nat
    <3>1. LineNumbers(id, acc.rows) \in Seq(Nat) /\ LineNumbers(id, more) \in Seq(Nat)
      BY <2>1, <2>4, NumbersType
    <3> QED
      BY <3>1, SummedNat DEF LineTotal
  <2>10. Summarized(new, l, all)
    <3>1. LineTotal(l.id, new.rows) = Summed(Taken(more))
      <4>1. LineTotal(l.id, new.rows) = LineTotal(l.id, acc.rows) + LineTotal(l.id, more)
        BY <2>8
      <4> QED
        BY <1>3, <2>7, <2>9, <4>1
    <3>2. /\ l.id \in DOMAIN new.summaries
          /\ new.summaries[l.id] = LineSummary(l, Summed(Taken(more)))
      BY <2>6 DEF With
    <3> QED
      BY <1>5, <3>1, <3>2 DEF Summarized
  <2>11. ASSUME NEW h \in 1 .. m PROVE Summarized(new, ls[h], all)
    <3> DEFINE id == ls[h].id
    <3>1. Summarized(acc, ls[h], all)
      BY DEF PreviewCounted
    <3>2. id # l.id
      BY <1>1
    <3>3. LineTotal(id, new.rows) = LineTotal(id, acc.rows)
      <4>1. LineTotal(id, new.rows) = LineTotal(id, acc.rows) + LineTotal(id, more)
        BY <2>8
      <4>2. LineTotal(id, more) = 0
        BY <2>7, <3>2
      <4> QED
        BY <2>9, <4>1, <4>2
    <3>4. /\ id \in DOMAIN new.summaries <=> id \in DOMAIN acc.summaries
          /\ id \in DOMAIN acc.summaries => new.summaries[id] = acc.summaries[id]
      BY <2>6, <3>2 DEF With
    <3> QED
      BY <3>1, <3>3, <3>4 DEF Summarized
  <2>12. \A j \in DOMAIN new.rows : \E h \in 1 .. m + 1 : RowOf(new.rows[j], ls[h], all)
    <3> SUFFICES ASSUME NEW j \in DOMAIN new.rows PROVE \E h \in 1 .. m + 1 : RowOf(new.rows[j], ls[h], all)
      OBVIOUS
    <3> DEFINE old == acc.rows
               n == Len(old)
               both == old \o more
    <3>0. IsRows(old) /\ IsRows(more) /\ new.rows = both
      BY <2>1, <2>4, <2>6
    <3> HIDE DEF old
    <3>1. /\ DOMAIN both = 1 .. n + Len(more) /\ DOMAIN old = 1 .. n
          /\ DOMAIN more = 1 .. Len(more)
          /\ \A i \in 1 .. n : both[i] = old[i]
          /\ \A i \in 1 .. n + Len(more) : i \in 1 .. n \/ (i - n \in 1 .. Len(more) /\ both[i] = more[i - n])
      BY <3>0, RowsJoined
    <3> HIDE DEF both, n
    <3>2. CASE j \in 1 .. n
      <4>1. new.rows[j] = acc.rows[j] /\ j \in DOMAIN acc.rows
        BY <3>0, <3>1, <3>2 DEF old
      <4>2. PICK h \in 1 .. m : RowOf(acc.rows[j], ls[h], all)
        BY <4>1 DEF PreviewCounted
      <4> QED
        BY <1>0, <4>1, <4>2
    <3>3. CASE j - n \in 1 .. Len(more) /\ both[j] = more[j - n]
      <4>1. RowOf(new.rows[j], l, all)
        BY <2>5, <3>0, <3>1, <3>3
      <4> QED
        BY <1>0, <4>1 DEF l
    <3> QED
      BY <3>0, <3>1, <3>2, <3>3
  <2>13. \A id \in DOMAIN new.summaries : \E h \in 1 .. m + 1 : id = ls[h].id
    <3>1. DOMAIN new.summaries = DOMAIN acc.summaries \cup {l.id}
      BY <2>6 DEF With
    <3>2. \A id \in DOMAIN acc.summaries : \E h \in 1 .. m + 1 : id = ls[h].id
      BY <1>0 DEF PreviewCounted
    <3> QED
      BY <1>0, <3>1, <3>2 DEF l
  <2>14. \A h \in 1 .. m + 1 : Summarized(new, ls[h], all)
    BY <1>0, <2>10, <2>11 DEF l
  <2> QED
    BY <2>12, <2>13, <2>14 DEF PreviewCounted, new, l
<1> QED
  BY <1>4, <1>5

\* The preview of lines over sound sources books every candidate, and counts every line.
LEMMA PreviewSound ==
  ASSUME NEW ls, LinesSound(ls), NEW all, NEW items, SourcesSound(all, items)
  PROVE  /\ PreviewBooked(AllocationPreview(ls, all), all)
         /\ PreviewCounted(AllocationPreview(ls, all), ls, all, Len(ls))
<1> DEFINE n == Len(ls)
           start == [rows |-> <<>>, summaries |-> <<>>, reserved |-> [k \in DOMAIN all |-> NoPicks]]
           Step(acc, l) == AllocateLine(acc, l, all)
           Runs(m, t) == t = [i \in 0 .. m |-> IF i = 0 THEN start ELSE Step(t[i - 1], ls[i])]
           S == {m \in Nat : \E t : Runs(m, t)}
           Sound(acc, m) == PreviewBooked(acc, all) /\ PreviewCounted(acc, ls, all, m)
<1>1. n \in Nat /\ DOMAIN ls = 1 .. n /\ \A i \in 1 .. n : IsLine(ls[i])
  BY ListProperties DEF LinesSound
<1>2. AllocationPreview(ls, all) = (CHOOSE t : Runs(n, t))[n]
  BY DEF AllocationPreview, Accumulate
<1>3. ASSUME NEW m \in 0 .. n - 1, NEW acc, Sound(acc, m) PROVE Sound(Step(acc, ls[m + 1]), m + 1)
  <2>1. m + 1 \in DOMAIN ls /\ IsLine(ls[m + 1]) /\ m \in Nat
    BY <1>1
  <2> QED
    BY <1>3, <2>1, AllocateLineBooked, AllocateLineCounted
<1>4. Sound(start, 0)
  <2>1. IsRows(<<>>) /\ DOMAIN <<>> = {}
    <3>1. <<>> \in Seq(ToSet(<<>>)) /\ DOMAIN <<>> = {}
      OBVIOUS
    <3> QED
      BY <3>1 DEF IsRows, IsList, ToSet
  <2>2. ReservedSound(NoPicks) /\ \A i : AtItem(NoPicks, i) = [quantity |-> 0, pallets |-> 0]
    BY DEF ReservedSound, NoPicks, AtItem
  <2>3. ASSUME NEW k \in DOMAIN all, NEW i \in DOMAIN all[k].candidates
        PROVE  Booked(all[k].candidates[i], NoPicks, <<>>)
    <3> DEFINE c == all[k].candidates[i]
    <3>1. IsCandidate(c)
      BY DEF SourcesSound, SourceSound, CandidatesSound
    <3> HIDE DEF c
    <3>2. TakenOf(c.id, <<>>) = 0
      BY <2>1, ColumnOfNone
    <3>3. HandedOn(c, <<>>) /\ HandedTo(c, <<>>, c.onHandPallets - 0)
      BY <3>1 DEF HandedOn, HandedTo, IsCandidate
    <3>4. AtItem(NoPicks, c.id).quantity = 0 /\ AtItem(NoPicks, c.id).pallets = 0
      BY <2>2
    <3>5. Booked(c, NoPicks, <<>>)
      BY <3>1, <3>2, <3>3, <3>4 DEF Booked, IsCandidate
    <3> QED
      BY <3>5 DEF c
  <2>4. PreviewBooked(start, all)
    BY <2>1, <2>2, <2>3 DEF PreviewBooked
  <2>5. PreviewCounted(start, ls, all, 0)
    BY <2>1 DEF PreviewCounted
  <2> QED
    BY <2>4, <2>5
<1> HIDE DEF Step, start, Sound
<1>5. n \in S
  <2>1. 0 \in S
    <3>1. Runs(0, [i \in 0 .. 0 |-> start])
      OBVIOUS
    <3> QED
      BY <3>1
  <2>2. ASSUME NEW m \in Nat, m \in S PROVE m + 1 \in S
    <3>1. PICK t : Runs(m, t)
      BY <2>2
    <3> DEFINE u == [i \in 0 .. m + 1 |-> IF i = m + 1 THEN Step(t[m], ls[m + 1]) ELSE t[i]]
    <3>2. Runs(m + 1, u)
      BY <3>1
    <3> HIDE DEF u, Runs
    <3> QED
      BY <3>2
  <2> HIDE DEF S
  <2> QED
    BY <1>1, <2>1, <2>2, SetInduction
<1>6. PICK t : Runs(n, t) /\ AllocationPreview(ls, all) = t[n]
  BY <1>2, <1>5
<1> DEFINE T == {i \in Nat : Sound(t[i], i)}
<1>7. n \in T
  <2>1. 0 \in T
    BY <1>1, <1>4, <1>6
  <2>2. ASSUME NEW i \in 0 .. n - 1, i \in T PROVE i + 1 \in T
    <3>1. i + 1 \in 1 .. n /\ t[i + 1] = Step(t[i], ls[i + 1])
      BY <1>1, <1>6
    <3>2. Sound(t[i + 1], i + 1)
      BY <1>3, <2>2, <3>1
    <3> QED
      BY <3>1, <3>2
  <2> HIDE DEF T
  <2> QED
    BY <1>1, <2>1, <2>2, Along
<1> QED
  BY <1>6, <1>7 DEF Sound

Of(V, rows) == [j \in DOMAIN rows |-> V[rows[j]]]
OfLine(V, id, rows) == [j \in DOMAIN rows |-> IF rows[j].line = id THEN V[rows[j]] ELSE 0]

\* What is read off a list of rows is a list of numbers.
LEMMA OfType ==
  ASSUME NEW rows, IsList(rows), NEW V, \A j \in DOMAIN rows : V[rows[j]] \in Int
  PROVE  /\ Of(V, rows) \in Seq(Int) /\ Len(Of(V, rows)) = Len(rows)
         /\ \A j \in 1 .. Len(rows) : Of(V, rows)[j] = V[rows[j]]
<1> DEFINE n == Len(rows)
           f == [j \in 1 .. n |-> V[rows[j]]]
<1>1. n \in Nat /\ DOMAIN rows = 1 .. n
  BY ListProperties
<1>2. Of(V, rows) = f
  BY <1>1 DEF Of
<1>3. f \in [1 .. n -> Int]
  BY <1>1
<1>4. f \in Seq(Int) /\ Len(f) = n
  BY <1>1, <1>3
<1> QED
  BY <1>1, <1>2, <1>4

\* And so is what is read off the rows of one line.
LEMMA OfLineType ==
  ASSUME NEW rows, IsList(rows), NEW V, \A j \in DOMAIN rows : V[rows[j]] \in Int, NEW id
  PROVE  /\ OfLine(V, id, rows) \in Seq(Int) /\ Len(OfLine(V, id, rows)) = Len(rows)
         /\ \A j \in 1 .. Len(rows) : OfLine(V, id, rows)[j] = IF rows[j].line = id THEN V[rows[j]] ELSE 0
<1> DEFINE n == Len(rows)
           f == [j \in 1 .. n |-> IF rows[j].line = id THEN V[rows[j]] ELSE 0]
<1>1. n \in Nat /\ DOMAIN rows = 1 .. n
  BY ListProperties
<1>2. OfLine(V, id, rows) = f
  BY <1>1 DEF OfLine
<1>3. f \in [1 .. n -> Int]
  BY <1>1
<1>4. f \in Seq(Int) /\ Len(f) = n
  BY <1>1, <1>3
<1> QED
  BY <1>1, <1>2, <1>4

\* The rows of a line are those that name it, and what is read off them adds up to what is
\* read off these in the preview.
LEMMA RowsOfChosen ==
  ASSUME NEW acc, IsList(acc.rows), NEW id, NEW V, \A j \in DOMAIN acc.rows : V[acc.rows[j]] \in Int
  PROVE  /\ IsList(RowsOf(acc, id))
         /\ \A i \in DOMAIN RowsOf(acc, id) :
              RowsOf(acc, id)[i].line = id /\ \E j \in DOMAIN acc.rows : RowsOf(acc, id)[i] = acc.rows[j]
         /\ Summed(Of(V, RowsOf(acc, id))) = Summed(OfLine(V, id, acc.rows))
<1> DEFINE all == acc.rows
           n == Len(all)
           f == OfLine(V, id, all)
           Step(rows, r) == IF r.line = id THEN Append(rows, r) ELSE rows
           Runs(m, t) == t = [i \in 0 .. m |-> IF i = 0 THEN <<>> ELSE Step(t[i - 1], all[i])]
           S == {m \in Nat : \E t : Runs(m, t)}
           From(rows) == /\ IsList(rows)
                         /\ \A i \in DOMAIN rows : rows[i].line = id /\ \E j \in 1 .. n : rows[i] = all[j]
<1>1. /\ n \in Nat /\ DOMAIN all = 1 .. n /\ f \in Seq(Int) /\ Len(f) = n
      /\ \A j \in 1 .. n : f[j] = IF all[j].line = id THEN V[all[j]] ELSE 0
  <2>1. n \in Nat /\ DOMAIN all = 1 .. n
    BY ListProperties
  <2> HIDE DEF all
  <2>2. IsList(all) /\ \A j \in DOMAIN all : V[all[j]] \in Int
    BY DEF all
  <2> QED
    BY <2>1, <2>2, OfLineType
<1>2. \A j \in 1 .. n : V[all[j]] \in Int
  BY <1>1
<1>3. RowsOf(acc, id) = (CHOOSE t : Runs(n, t))[n]
  BY DEF RowsOf, Accumulate
<1> HIDE DEF f, all
<1>4. PICK s : /\ s[0] = 0
               /\ \A i \in 1 .. n : s[i] = s[i - 1] + f[i]
               /\ Summed(f) = s[n]
  <2> HIDE DEF n
  <2> QED
    BY <1>1, Running
<1> HIDE DEF n
<1>5. ASSUME NEW rows, From(rows), NEW j \in 1 .. n, all[j].line = id
      PROVE  /\ From(Append(rows, all[j]))
             /\ Summed(Of(V, Append(rows, all[j]))) = Summed(Of(V, rows)) + V[all[j]]
  <2> DEFINE r == all[j]
             more == Append(rows, r)
             k == Len(rows)
  <2>1. IsList(rows) /\ k \in Nat /\ DOMAIN rows = 1 .. k
    BY <1>5, ListProperties
  <2>2. /\ IsList(more) /\ Len(more) = k + 1 /\ DOMAIN more = 1 .. k + 1
        /\ \A i \in 1 .. k : more[i] = rows[i]
        /\ more[k + 1] = r
    BY <2>1, ListMore
  <2> HIDE DEF more, k
  <2>3. \A i \in 1 .. k + 1 : i \in 1 .. k \/ i = k + 1
    BY <2>1
  <2>4. From(more)
    <3>1. ASSUME NEW i \in 1 .. k + 1 PROVE more[i].line = id /\ \E h \in 1 .. n : more[i] = all[h]
      <4>1. CASE i \in 1 .. k
        BY <1>5, <2>1, <2>2, <4>1
      <4>2. CASE i = k + 1
        BY <1>5, <2>2, <4>2
      <4> QED
        BY <2>3, <4>1, <4>2
    <3> QED
      BY <2>2, <3>1
  <2>5. /\ \A i \in DOMAIN rows : V[rows[i]] \in Int
        /\ \A i \in DOMAIN more : V[more[i]] \in Int
    BY <1>2, <1>5, <2>4
  <2> DEFINE g == Of(V, rows)
             h == Of(V, more)
  <2>6. g \in Seq(Int) /\ Len(g) = k /\ \A i \in 1 .. k : g[i] = V[rows[i]]
    BY <2>1, <2>5, OfType DEF k
  <2>7. h \in Seq(Int) /\ Len(h) = k + 1 /\ \A i \in 1 .. k + 1 : h[i] = V[more[i]]
    <3>1. h \in Seq(Int) /\ Len(h) = Len(more) /\ \A i \in 1 .. Len(more) : h[i] = V[more[i]]
      BY <2>2, <2>5, OfType
    <3> HIDE DEF h
    <3> QED
      BY <2>2, <3>1
  <2> HIDE DEF g, h
  <2>8. \A i \in 1 .. Len(g) : h[i] = g[i]
    <3> SUFFICES ASSUME NEW i \in 1 .. k PROVE h[i] = g[i]
      BY <2>6
    <3>1. i \in 1 .. k + 1 /\ more[i] = rows[i]
      BY <2>1, <2>2
    <3> QED
      BY <2>6, <2>7, <3>1
  <2>9. h[Len(h)] = V[r] /\ Len(h) = Len(g) + 1
    BY <2>1, <2>2, <2>6, <2>7
  <2>10. Summed(h) = Summed(g) + V[r]
    BY <2>6, <2>7, <2>8, <2>9, SummedMore
  <2> QED
    BY <2>4, <2>10 DEF more, g, h
<1>6. n \in S
  <2> HIDE DEF Step
  <2>1. 0 \in S
    <3>1. Runs(0, [i \in 0 .. 0 |-> <<>>])
      OBVIOUS
    <3> QED
      BY <3>1
  <2>2. ASSUME NEW m \in Nat, m \in S PROVE m + 1 \in S
    <3>1. PICK t : Runs(m, t)
      BY <2>2
    <3> DEFINE u == [i \in 0 .. m + 1 |-> IF i = m + 1 THEN Step(t[m], all[m + 1]) ELSE t[i]]
    <3>2. Runs(m + 1, u)
      BY <3>1
    <3> HIDE DEF u, Runs
    <3> QED
      BY <3>2
  <2> HIDE DEF S
  <2> QED
    BY <1>1, <2>1, <2>2, SetInduction
<1>7. PICK t : Runs(n, t) /\ RowsOf(acc, id) = t[n]
  BY <1>3, <1>6
<1> DEFINE Sound(rows, i) == From(rows) /\ Summed(Of(V, rows)) = s[i]
           T == {i \in Nat : Sound(t[i], i)}
<1>8. n \in T
  <2>1. 0 \in T
    <3>1. t[0] = <<>>
      BY <1>1, <1>7
    <3>2. From(<<>>) /\ Of(V, <<>>) = <<>>
      <4>1. <<>> \in Seq(ToSet(<<>>)) /\ DOMAIN <<>> = {}
        OBVIOUS
      <4> QED
        BY <4>1 DEF IsList, ToSet, Of
    <3> QED
      BY <1>4, <3>1, <3>2, SummedEmpty
  <2>2. ASSUME NEW i \in 0 .. n - 1, i \in T PROVE i + 1 \in T
    <3>1. i + 1 \in 1 .. n /\ t[i + 1] = Step(t[i], all[i + 1])
      <4> HIDE DEF Step
      <4> QED
        BY <1>1, <1>7
    <3>2. s[i + 1] = s[i] + f[i + 1] /\ f[i + 1] \in Int
      BY <1>1, <1>4, <3>1
    <3>3. Sound(t[i], i)
      BY <2>2
    <3>4. Summed(Of(V, t[i])) \in Int
      <4>1. \A j \in DOMAIN t[i] : V[t[i][j]] \in Int
        BY <1>2, <3>3
      <4> QED
        BY <3>3, <4>1, OfType, SummedInt
    <3>5. CASE all[i + 1].line = id
      <4>1. t[i + 1] = Append(t[i], all[i + 1]) /\ f[i + 1] = V[all[i + 1]]
        BY <1>1, <3>1, <3>5
      <4>2. /\ From(Append(t[i], all[i + 1]))
            /\ Summed(Of(V, Append(t[i], all[i + 1]))) = Summed(Of(V, t[i])) + V[all[i + 1]]
        <5> HIDE DEF From
        <5> QED
          BY <1>5, <3>1, <3>3, <3>5
      <4> QED
        BY <3>1, <3>2, <3>3, <4>1, <4>2
    <3>6. CASE all[i + 1].line # id
      <4>1. t[i + 1] = t[i] /\ f[i + 1] = 0
        BY <1>1, <3>1, <3>6
      <4> QED
        BY <3>1, <3>2, <3>3, <3>4, <4>1
    <3> QED
      BY <3>5, <3>6
  <2> HIDE DEF T
  <2> QED
    BY <1>1, <2>1, <2>2, Along
<1>9. From(t[n]) /\ Summed(Of(V, t[n])) = Summed(f)
  BY <1>1, <1>4, <1>8
<1>10. RowsOf(acc, id) = t[n]
  BY <1>7
<1> QED
  BY <1>1, <1>9, <1>10 DEF f, all

\* Each of them is a row of the preview.
LEMMA RowsOfMember ==
  ASSUME NEW acc, IsList(acc.rows), NEW id, NEW i \in DOMAIN RowsOf(acc, id)
  PROVE  RowsOf(acc, id)[i].line = id /\ \E j \in DOMAIN acc.rows : RowsOf(acc, id)[i] = acc.rows[j]
<1> DEFINE V == [r \in ToSet(acc.rows) |-> 0]
<1>1. \A j \in DOMAIN acc.rows : V[acc.rows[j]] \in Int
  BY DEF ToSet
<1> HIDE DEF V
<1> QED
  BY <1>1, RowsOfChosen

\* And what is read off them adds up.
LEMMA RowsOfTotal ==
  ASSUME NEW acc, IsList(acc.rows), NEW id, NEW V, \A j \in DOMAIN acc.rows : V[acc.rows[j]] \in Int
  PROVE  Summed(Of(V, RowsOf(acc, id))) = Summed(OfLine(V, id, acc.rows))
BY RowsOfChosen

\* In particular they are rows, and take what the line takes.
LEMMA RowsOfSound ==
  ASSUME NEW acc, IsRows(acc.rows), NEW id
  PROVE  IsRows(RowsOf(acc, id)) /\ Summed(Taken(RowsOf(acc, id))) = LineTotal(id, acc.rows)
<1> DEFINE all == acc.rows
           chosen == RowsOf(acc, id)
           V == [r \in ToSet(all) |-> r.allocated]
<1>1. /\ IsList(all)
      /\ \A j \in DOMAIN all : IsRow(all[j]) /\ V[all[j]] = all[j].allocated /\ V[all[j]] \in Int
  BY DEF IsRows, IsRow, ToSet
<1> HIDE DEF V
<1>2. /\ IsList(chosen)
      /\ \A i \in DOMAIN chosen : chosen[i].line = id /\ \E j \in DOMAIN all : chosen[i] = all[j]
      /\ Summed(Of(V, chosen)) = Summed(OfLine(V, id, all))
  <2>1. \A j \in DOMAIN all : V[all[j]] \in Int
    BY <1>1
  <2>2. IsList(all)
    BY <1>1
  <2> QED
    BY <2>1, <2>2, RowsOfChosen
<1> HIDE DEF chosen
<1>3. IsRows(chosen) /\ Of(V, chosen) = Taken(chosen)
  BY <1>1, <1>2 DEF IsRows, Of, Taken
<1>4. OfLine(V, id, all) = LineNumbers(id, all)
  BY <1>1 DEF OfLine, LineNumbers
<1> QED
  BY <1>2, <1>3, <1>4 DEF LineTotal, chosen

-----------------------------------------------------------------------------
(* The page *)

EditorInv ==
  /\ opening \in Openings /\ stock \in Stocks
  /\ step \in {Closed, 1, 2, 3} /\ reviewed \in BOOLEAN
  /\ LinesSound(lines)
  /\ shown = Rendered(lines, stock, document)

\* What the page derives from a sound state is sound.
LEMMA PageSound ==
  ASSUME EditorInv
  PROVE  /\ document.lines \in Seq(SavedLines) /\ Len(document.lines) <= MaxLines
         /\ opening.maxLines \in 0 .. MaxLines /\ stock \in Stocks
         /\ SourcesSound(sources, stock)
         /\ preview = AllocationPreview(lines, sources)
         /\ reservations = ReservationsByLine(lines, sources)
         /\ LinesSound(lines)
         /\ Len(lines) \in Nat /\ DOMAIN lines = 1 .. Len(lines)
<1>1. /\ document.lines \in Seq(SavedLines) /\ Len(document.lines) <= MaxLines
      /\ opening.maxLines \in 0 .. MaxLines /\ stock \in Stocks
  BY OpeningsAssumption DEF EditorInv, document
<1> DEFINE all == SelectableSources(lines, stock, Sources, document)
<1>2. SourcesSound(all, stock)
  BY <1>1, SelectableSound
<1>3. sources = all /\ preview = AllocationPreview(lines, all) /\ reservations = ReservationsByLine(lines, all)
  BY DEF EditorInv, Rendered, LinesShown, RowsShown, sources, preview, reservations
<1> HIDE DEF all
<1>4. LinesSound(lines) /\ Len(lines) \in Nat /\ DOMAIN lines = 1 .. Len(lines)
  BY ListProperties DEF EditorInv, LinesSound
<1> QED
  BY <1>1, <1>2, <1>3, <1>4

\* No picks are sound picks.
LEMMA NoPicksSound == PicksSound(NoPicks) /\ ReservedSound(NoPicks)
BY DEF PicksSound, ReservedSound, NoPicks

\* What is picked automatically on its own, of a source the page knows.
LEMMA AutoPickedSound ==
  ASSUME EditorInv, NEW quantity \in Nat, NEW key \in DOMAIN sources
  PROVE  PicksSound(AutoPicked(quantity, key))
<1>1. CandidatesSound(sources[key].candidates, key, stock)
  BY PageSound DEF SourcesSound, SourceSound
<1>2. PicksSound(AutoSelections(quantity, sources[key].candidates, NoPicks))
  BY <1>1, NoPicksSound, AutoSelectionsSound
<1> QED
  BY <1>2 DEF AutoPicked, CandidatesOf

\* A line that keeps its id and is sound may take the place of another.
LEMMA SetLineSound ==
  ASSUME NEW ls, LinesSound(ls), NEW i \in DOMAIN ls, NEW l, IsLine(l), l.id = ls[i].id
  PROVE  LinesSound([ls EXCEPT ![i] = l])
<1> DEFINE new == [ls EXCEPT ![i] = l]
           n == Len(ls)
<1>1. n \in Nat /\ DOMAIN ls = 1 .. n /\ IsList(ls) /\ n <= MaxLines
  BY ListProperties DEF LinesSound
<1>2. DOMAIN new = 1 .. n /\ \A j \in 1 .. n : new[j] = IF j = i THEN l ELSE ls[j]
  BY <1>1
<1>3. IsList(new) /\ Len(new) = n
  <2>1. new = [j \in 1 .. n |-> new[j]]
    BY <1>1
  <2>2. \A j \in 1 .. n : new[j] \in ToSet(new)
    BY <1>2 DEF ToSet
  <2> HIDE DEF new
  <2>3. new \in [1 .. n -> ToSet(new)]
    BY <2>1, <2>2
  <2> QED
    BY <1>1, <2>3, ListOver
<1> HIDE DEF new, n
<1>4. \A j \in 1 .. n : IsLine(new[j])
  BY <1>1, <1>2 DEF LinesSound
<1>5. \A j \in 1 .. n : new[j].id = ls[j].id
  BY <1>2
<1>6. \A j, h \in 1 .. n : new[j].id = new[h].id => j = h
  <2> SUFFICES ASSUME NEW j \in 1 .. n, NEW h \in 1 .. n, new[j].id = new[h].id PROVE j = h
    OBVIOUS
  <2>1. ls[j].id = ls[h].id
    BY <1>5
  <2> QED
    BY <1>1, <2>1 DEF LinesSound
<1>7. LinesSound(new)
  BY <1>1, <1>2, <1>3, <1>4, <1>6 DEF LinesSound
<1> QED
  BY <1>7 DEF new

\* An empty line may be added, and any line removed.
LEMMA AddedSound ==
  ASSUME NEW ls, LinesSound(ls), Len(ls) < MaxLines, NEW id \in LineIds, \A i \in DOMAIN ls : ls[i].id # id
  PROVE  LinesSound(Append(ls, EmptyLine(id)))
<1> DEFINE new == Append(ls, EmptyLine(id))
           n == Len(ls)
<1>1. n \in Nat /\ DOMAIN ls = 1 .. n /\ IsList(ls) /\ n + 1 <= MaxLines
  BY ListProperties, MaxLinesAssumption DEF LinesSound
<1>2. /\ IsList(new) /\ Len(new) = n + 1 /\ DOMAIN new = 1 .. n + 1
      /\ \A i \in 1 .. n : new[i] = ls[i]
      /\ new[n + 1] = EmptyLine(id)
  BY <1>1, ListMore
<1>3. IsLine(EmptyLine(id)) /\ EmptyLine(id).id = id
  BY NoPicksSound DEF EmptyLine, IsLine, LineFields
<1> HIDE DEF new, n
<1>4. \A i \in 1 .. n + 1 : i \in 1 .. n \/ i = n + 1
  BY <1>1
<1>5. \A i \in 1 .. n + 1 : IsLine(new[i])
  BY <1>1, <1>2, <1>3, <1>4 DEF LinesSound
<1>6. ASSUME NEW i \in 1 .. n + 1, NEW j \in 1 .. n + 1, new[i].id = new[j].id PROVE i = j
  <2>1. CASE i \in 1 .. n /\ j \in 1 .. n
    BY <1>1, <1>2, <1>6, <2>1 DEF LinesSound
  <2>2. CASE i \in 1 .. n /\ j = n + 1
    BY <1>1, <1>2, <1>3, <1>6, <2>2
  <2>3. CASE i = n + 1 /\ j \in 1 .. n
    BY <1>1, <1>2, <1>3, <1>6, <2>3
  <2> QED
    BY <1>4, <2>1, <2>2, <2>3
<1>7. LinesSound(new)
  BY <1>1, <1>2, <1>5, <1>6 DEF LinesSound
<1> QED
  BY <1>7 DEF new

\* A line that is removed leaves the others as they are.
LEMMA RemovedSound ==
  ASSUME NEW ls, LinesSound(ls), NEW i \in DOMAIN ls
  PROVE  LinesSound(RemoveAt(ls, i))
<1> DEFINE n == Len(ls)
           new == RemoveAt(ls, i)
           Old(j) == IF j < i THEN j ELSE j + 1
           front == SubSeq(ls, 1, i - 1)
           back == SubSeq(ls, i + 1, n)
<1>1. n \in Nat /\ DOMAIN ls = 1 .. n /\ ls \in Seq(ToSet(ls)) /\ n <= MaxLines /\ i \in 1 .. n
  BY ListProperties DEF LinesSound, IsList, ToSet
<1>2. /\ front \in Seq(ToSet(ls)) /\ Len(front) = i - 1 /\ \A j \in 1 .. i - 1 : front[j] = ls[j]
      /\ back \in Seq(ToSet(ls)) /\ Len(back) = n - i /\ \A j \in 1 .. n - i : back[j] = ls[i + j]
  <2> HIDE DEF n
  <2>1. front \in Seq(ToSet(ls)) /\ Len(front) = i - 1 /\ \A j \in 1 .. i - 1 : front[j] = ls[j]
    BY <1>1
  <2>2. back \in Seq(ToSet(ls)) /\ Len(back) = n - i
    BY <1>1 DEF n
  <2>3. \A j \in 1 .. n - i : back[j] = ls[i + j]
    BY <1>1 DEF n
  <2> QED
    BY <2>1, <2>2, <2>3
<1>3. new = front \o back
  BY DEF RemoveAt
<1> HIDE DEF front, back
<1>4. /\ new \in Seq(ToSet(ls)) /\ Len(new) = n - 1
      /\ \A j \in 1 .. i - 1 : new[j] = ls[j]
      /\ \A j \in 1 .. n - i : new[(i - 1) + j] = ls[i + j]
  <2> HIDE DEF n, new
  <2>1. /\ (front \o back) \in Seq(ToSet(ls)) /\ Len(front \o back) = Len(front) + Len(back)
        /\ \A j \in 1 .. Len(front) : (front \o back)[j] = front[j]
        /\ \A j \in 1 .. Len(back) : (front \o back)[Len(front) + j] = back[j]
    BY <1>2
  <2>2. (i - 1) + (n - i) = n - 1
    BY <1>1
  <2>3. new \in Seq(ToSet(ls)) /\ Len(new) = n - 1
    BY <1>2, <1>3, <2>1, <2>2
  <2>4. \A j \in 1 .. i - 1 : new[j] = ls[j]
    BY <1>2, <1>3, <2>1
  <2>5. \A j \in 1 .. n - i : new[(i - 1) + j] = ls[i + j]
    BY <1>2, <1>3, <2>1
  <2> QED
    BY <2>3, <2>4, <2>5
<1> HIDE DEF new, n
<1>5. ASSUME NEW j \in 1 .. n - 1 PROVE new[j] = ls[Old(j)] /\ Old(j) \in 1 .. n
  <2>1. CASE j < i
    <3>1. j \in 1 .. i - 1 /\ j \in 1 .. n
      BY <1>1, <2>1
    <3>2. new[j] = ls[j]
      BY <1>4, <3>1
    <3> QED
      BY <2>1, <3>1, <3>2
  <2>2. CASE ~(j < i)
    <3> DEFINE h == j - (i - 1)
    <3>1. h \in 1 .. n - i /\ (i - 1) + h = j /\ i + h = j + 1
      BY <1>1, <2>2
    <3> HIDE DEF h
    <3>2. new[(i - 1) + h] = ls[i + h]
      BY <1>4, <3>1
    <3> QED
      BY <1>1, <2>2, <3>1, <3>2
  <2> QED
    BY <2>1, <2>2
<1>6. IsList(new) /\ DOMAIN new = 1 .. n - 1
  <2>1. IsList(new)
    BY <1>4, SeqList
  <2> QED
    BY <1>1, <1>4, <2>1
<1>7. \A j \in 1 .. n - 1 : IsLine(new[j])
  <2> HIDE DEF Old
  <2> QED
    BY <1>1, <1>5 DEF LinesSound
<1>8. ASSUME NEW j \in 1 .. n - 1, NEW h \in 1 .. n - 1, new[j].id = new[h].id PROVE j = h
  <2>1. Old(j) = Old(h)
    <3> HIDE DEF Old
    <3>1. ls[Old(j)].id = ls[Old(h)].id /\ Old(j) \in DOMAIN ls /\ Old(h) \in DOMAIN ls
      BY <1>1, <1>5, <1>8
    <3> QED
      BY <3>1 DEF LinesSound
  <2> QED
    BY <1>1, <2>1
<1>9. LinesSound(new)
  <2>1. n - 1 <= MaxLines
    BY <1>1, MaxLinesAssumption
  <2> QED
    BY <1>4, <1>6, <1>7, <1>8, <2>1 DEF LinesSound
<1> QED
  BY <1>9 DEF new

-----------------------------------------------------------------------------
(* What the handlers make of a line *)

SameLine(l, m) == IsLine(m) /\ m.id = l.id

\* The warehouse and the text of a line are free.
LEMMA FreeFields ==
  ASSUME NEW l, IsLine(l), NEW text, NEW location
  PROVE  /\ SameLine(l, [l EXCEPT !.search = text])
         /\ SameLine(l, [l EXCEPT !.location = location])
         /\ SameLine(l, [l EXCEPT !.search = text, !.location = location])
BY DEF IsLine, LineFields, SameLine

\* A line that loses its source loses its picks.
LEMMA UnpickedSound ==
  ASSUME NEW l, IsLine(l)
  PROVE  SameLine(l, Unpicked(l))
BY NoPicksSound DEF IsLine, LineFields, Unpicked, SameLine

\* A line that is given a source gets its automatic picks.
LEMMA DefaultsSound ==
  ASSUME EditorInv, NEW l, IsLine(l), NEW key \in DOMAIN sources
  PROVE  SameLine(l, LineDefaults(l, key))
<1> DEFINE picks == AutoPicked(Fulfillment(l), key)
<1>1. PicksSound(picks)
  <2>1. Fulfillment(l) \in Nat
    BY DEF IsLine, Fulfillment, Positive
  <2> QED
    BY <2>1, AutoPickedSound
<1>2. key \in DOMAIN Sources
  BY PageSound DEF SourcesSound
<1>3. LineDefaults(l, key) = [l EXCEPT !.location = sources[key].location, !.source = key,
                                !.search = SourceLabel(sources[key]), !.picks = picks, !.touched = FALSE]
  BY DEF LineDefaults
<1> HIDE DEF picks
<1> QED
  BY <1>1, <1>2, <1>3 DEF IsLine, LineFields, SameLine

\* A search finds a source among those it is given, or none.
LEMMA FindInKeys ==
  ASSUME NEW keys, NEW text, FindIn(keys, text) # None
  PROVE  FindIn(keys, text) \in keys
<1> DEFINE all == [k \in keys |-> sources[k]]
           found == ExactSearchMatches(all, text)
<1>1. found \subseteq keys
  BY DEF ExactSearchMatches
<1>2. FindIn(keys, text) = IF \E k \in found : found = {k} THEN CHOOSE k \in found : TRUE ELSE None
  BY DEF FindIn, FindBySearch
<1> HIDE DEF found
<1> QED
  BY <1>1, <1>2

\* One edit after another.
LEMMA SameLineTwice ==
  ASSUME NEW l, NEW m, NEW n, SameLine(l, m), SameLine(m, n)
  PROVE  SameLine(l, n)
BY DEF SameLine

\* Typing a SKU.
LEMMA TypedSound ==
  ASSUME EditorInv, NEW l, IsLine(l), NEW text
  PROVE  SameLine(l, Typed(l, FilterBySkuSearch(sources, text), text))
<1> DEFINE matching == FilterBySkuSearch(sources, text)
           keys == FilterByLocation(sources, matching, l.location)
           found == FindIn(keys, text)
           m == Typed(l, matching, text)
<1>1. keys \subseteq DOMAIN sources
  BY DEF FilterByLocation, FilterBySkuSearch
<1>2. m = Found(l, matching, found, text)
  BY DEF Typed
<1>3. found # None => found \in DOMAIN sources
  <2> HIDE DEF keys
  <2> QED
    BY <1>1, FindInKeys
<1> HIDE DEF matching, keys, found
<1>4. SameLine(l, Unpicked(l)) /\ IsLine(Unpicked(l))
  BY UnpickedSound DEF SameLine
<1>5. CASE text = <<>>
  <2>1. m = [Unpicked(l) EXCEPT !.search = <<>>, !.location = None]
    BY <1>2, <1>5 DEF Found
  <2> HIDE DEF m
  <2>2. SameLine(Unpicked(l), m)
    BY <1>4, <2>1, FreeFields
  <2> QED
    BY <1>4, <2>2, SameLineTwice DEF m, matching
<1>6. CASE text # <<>> /\ found # None
  <2> DEFINE n == [l EXCEPT !.search = text]
  <2>1. m = LineDefaults(n, found)
    BY <1>2, <1>6 DEF Found
  <2>2. SameLine(l, n) /\ IsLine(n)
    BY FreeFields DEF SameLine
  <2> HIDE DEF m, n
  <2>3. SameLine(n, m)
    BY <1>3, <1>6, <2>1, <2>2, DefaultsSound
  <2> QED
    BY <2>2, <2>3, SameLineTwice DEF m, matching
<1>7. CASE text # <<>> /\ found = None
  <2> DEFINE location == IF \E k \in matching : sources[k].location = l.location THEN l.location ELSE None
  <2>1. m = [Unpicked(l) EXCEPT !.search = text, !.location = location]
    BY <1>2, <1>7 DEF Found
  <2> HIDE DEF m, location
  <2>2. SameLine(Unpicked(l), m)
    BY <1>4, <2>1, FreeFields
  <2> QED
    BY <1>4, <2>2, SameLineTwice DEF m, matching
<1> QED
  BY <1>5, <1>6, <1>7

\* Choosing a warehouse.
LEMMA MovedSound ==
  ASSUME EditorInv, NEW l, IsLine(l), NEW location
  PROVE  SameLine(l, MovedTo(l, FilterByLocation(sources, DOMAIN sources, location), location))
<1> DEFINE here == FilterByLocation(sources, DOMAIN sources, location)
           found == FindIn(here, l.search)
           m == MovedTo(l, here, location)
<1>1. here \subseteq DOMAIN sources
  BY DEF FilterByLocation
<1>2. m = Moved(l, here, found, location)
  BY DEF MovedTo
<1> HIDE DEF here
<1>3. found # None => found \in DOMAIN sources
  BY <1>1, FindInKeys
<1> HIDE DEF found
<1>4. CASE l.source \in here
  <2>1. m = [l EXCEPT !.location = location]
    BY <1>2, <1>4 DEF Moved
  <2> QED
    BY <2>1, FreeFields DEF here
<1>5. CASE l.source \notin here /\ found # None
  <2> DEFINE n == [l EXCEPT !.location = location]
  <2>1. m = LineDefaults(n, found)
    BY <1>2, <1>5 DEF Moved
  <2>2. SameLine(l, n) /\ IsLine(n)
    BY FreeFields DEF SameLine
  <2> HIDE DEF m, n
  <2>3. SameLine(n, m)
    BY <1>3, <1>5, <2>1, <2>2, DefaultsSound
  <2> QED
    BY <2>2, <2>3, SameLineTwice DEF m, here
<1>6. CASE l.source \notin here /\ found = None
  <2>1. m = [Unpicked(l) EXCEPT !.location = location]
    BY <1>2, <1>6 DEF Moved
  <2>2. SameLine(l, Unpicked(l)) /\ IsLine(Unpicked(l))
    BY UnpickedSound DEF SameLine
  <2> HIDE DEF m
  <2>3. SameLine(Unpicked(l), m)
    BY <2>1, <2>2, FreeFields
  <2> QED
    BY <2>2, <2>3, SameLineTwice DEF m, here
<1> QED
  BY <1>4, <1>5, <1>6

\* Typing quantities.
LEMMA PlannedSound ==
  ASSUME EditorInv, NEW l, IsLine(l), l.source \in DOMAIN sources, NEW n \in Nat
  PROVE  SameLine(l, [l EXCEPT !.planned = n,
                        !.picks = IF l.touched THEN l.picks ELSE AutoPicked(Fulfillment(l), l.source)])
<1>1. PicksSound(AutoPicked(Fulfillment(l), l.source))
  <2>1. Fulfillment(l) \in Nat
    BY DEF IsLine, Fulfillment, Positive
  <2> QED
    BY <2>1, AutoPickedSound
<1> QED
  BY <1>1 DEF IsLine, LineFields, SameLine

\* A quantity that is typed, or emptied, keeps the line sound.
LEMMA QuantitySound ==
  ASSUME EditorInv, NEW l, IsLine(l), l.source \in DOMAIN sources, NEW n \in Nat
  PROVE  SameLine(l, WithQuantity(l, n))
<1>1. PicksSound(AutoPicked(n, l.source))
  BY AutoPickedSound
<1>2. CASE n = 0
  BY <1>2, NoPicksSound DEF IsLine, LineFields, SameLine, WithQuantity
<1>3. CASE n # 0
  BY <1>1, <1>3 DEF IsLine, LineFields, SameLine, WithQuantity
<1> QED
  BY <1>2, <1>3

\* What earlier lines leave of a source can be counted.
LEMMA BalanceType ==
  ASSUME NEW source, NEW key, NEW items, SourceSound(source, key, items), NEW r, ReservedSound(r)
  PROVE  RemainingBalance(source, r) \in Nat
<1> DEFINE cs == source.candidates
           n == Len(cs)
           f == [i \in 1 .. n |-> Left(cs[i], r).avail]
<1>1. n \in Nat /\ DOMAIN cs = 1 .. n /\ \A i \in 1 .. n : IsCandidate(cs[i])
  BY ListProperties DEF SourceSound, CandidatesSound
<1>2. RemainingBalance(source, r) = Summed(f)
  BY <1>1 DEF RemainingBalance, SumOf, Each
<1>3. \A i \in 1 .. n : Left(cs[i], r).avail \in Nat
  <2> HIDE DEF cs, n
  <2> QED
    BY <1>1, LeftFacts
<1>4. f \in Seq(Nat)
  <2> HIDE DEF cs, n
  <2> QED
    BY <1>1, <1>3
<1> QED
  BY <1>2, <1>4, SummedNat

\* The first touch of a pick keeps what was picked automatically.
LEMMA ManualSound ==
  ASSUME EditorInv, NEW i \in DOMAIN lines, lines[i].source \in DOMAIN sources
  PROVE  /\ SameLine(lines[i], StartManual(lines[i]))
         /\ ReservedSound(reservations[lines[i].id])
         /\ SourceSound(sources[lines[i].source], lines[i].source, stock)
<1> DEFINE l == lines[i]
           picks == EffectiveSelections(l, sources[l.source], reservations[l.id])
<1>1. IsLine(l) /\ SourceSound(sources[l.source], l.source, stock)
  BY PageSound DEF LinesSound, SourcesSound
<1>2. ReservedSound(reservations[l.id])
  BY PageSound, ReservationsSound
<1>3. PicksSound(picks)
  BY <1>1, <1>2, EffectiveSound
<1>4. StartManual(l) = IF l.touched THEN l ELSE [l EXCEPT !.picks = picks, !.touched = TRUE]
  BY DEF StartManual
<1> HIDE DEF l, picks
<1>5. SameLine(l, StartManual(l))
  BY <1>1, <1>3, <1>4 DEF IsLine, LineFields, SameLine
<1> QED
  BY <1>1, <1>2, <1>5 DEF l

\* The rows of step 2 show what can be counted, of lines with a source.
LEMMA ShownRowSound ==
  ASSUME EditorInv, NEW i \in DOMAIN lines, NEW row \in ShownRows(i)
  PROVE  /\ lines[i].source \in DOMAIN sources
         /\ row.available \in Nat /\ row.startingQty \in Nat /\ row.startingPallets \in Nat
<1> DEFINE l == lines[i]
           r == reservations[l.id]
           cs == sources[l.source].candidates
           picks == EffectiveSelections(l, sources[l.source], r)
<1>1. l.source \in DOMAIN sources /\ row \in ToSet(PickPlanRows(l, sources[l.source], r))
  BY DEF ShownRows
<1>2. ReservedSound(r) /\ CandidatesSound(cs, l.source, stock)
  BY <1>1, ManualSound DEF SourceSound
<1>3. PickPlanRows(l, sources[l.source], r)
        = [j \in DOMAIN cs |-> PickPlanRow(l, cs[j], Left(cs[j], r), AtItem(picks, cs[j].id))]
  BY DEF PickPlanRows, PickPlanRowsWith, Each
<1> HIDE DEF l, r, cs, picks
<1>4. PICK j \in DOMAIN cs : row = PickPlanRow(l, cs[j], Left(cs[j], r), AtItem(picks, cs[j].id))
  BY <1>1, <1>3 DEF ToSet
<1>5. IsCandidate(cs[j])
  BY <1>2 DEF CandidatesSound
<1>6. Left(cs[j], r).avail \in Nat /\ Left(cs[j], r).onHand \in Nat /\ Left(cs[j], r).onHandPallets \in Nat
  BY <1>2, <1>5, LeftFacts
<1>7. /\ row.available = Left(cs[j], r).avail /\ row.startingQty = Left(cs[j], r).onHand
      /\ row.startingPallets = Left(cs[j], r).onHandPallets
  BY <1>4 DEF PickPlanRow
<1> QED
  BY <1>1, <1>6, <1>7 DEF l

\* Typing what a line takes from a bucket: nothing is no pick.
LEMMA PickSound ==
  ASSUME NEW l, IsLine(l), NEW row, row.available \in Nat, row.startingQty \in Nat, row.startingPallets \in Nat,
         NEW n \in Nat
  PROVE  SameLine(l, WithPick(l, row, n))
<1> DEFINE pallets == IF row.item \in DOMAIN l.picks THEN l.picks[row.item].pallets
                      ELSE AutomaticPallets(row.available, row.startingPallets, n)
           left == RemainingPallets(n, row.startingQty, row.startingPallets)
           pick == [quantity |-> n, pallets |-> pallets, starting |-> row.startingPallets, remaining |-> left]
           picks == IF n = 0 THEN [k \in DOMAIN l.picks \ {row.item} |-> l.picks[k]]
                    ELSE With(l.picks, row.item, pick)
<1>1. PicksSound(l.picks)
  BY DEF IsLine
<1>2. WithPick(l, row, n) = [l EXCEPT !.picks = picks]
  BY DEF WithPick, IsLine, LineFields
<1>3. PicksSound(picks)
  <2>1. CASE n = 0
    BY <1>1, <2>1 DEF PicksSound
  <2>2. CASE n # 0
    <3>1. pallets \in Nat
      BY <1>1, AutomaticPalletsType DEF PicksSound, Picks
    <3>2. left \in Nat
      BY DEF RemainingPallets
    <3> HIDE DEF pallets, left
    <3>3. pick \in Picks
      BY <2>2, <3>1, <3>2 DEF Picks
    <3> HIDE DEF pick
    <3>4. PicksSound(With(l.picks, row.item, pick))
      BY <1>1, <3>3, WithPicks
    <3> QED
      BY <2>2, <3>4
  <2> QED
    BY <2>1, <2>2
<1> HIDE DEF picks
<1> QED
  BY <1>2, <1>3 DEF IsLine, LineFields, SameLine

\* Pallets that are typed by hand keep the picks of a line sound.
LEMMA PickPalletsSound ==
  ASSUME NEW l, IsLine(l), NEW item \in DOMAIN l.picks, NEW n \in Nat
  PROVE  SameLine(l, WithPallets(l, item, n))
<1> DEFINE picks == [l.picks EXCEPT ![item] = [@ EXCEPT !.pallets = n]]
<1>1. PicksSound(l.picks)
  BY DEF IsLine
<1>2. WithPallets(l, item, n) = [l EXCEPT !.picks = picks]
  BY DEF WithPallets, IsLine, LineFields
<1>3. PicksSound(picks)
  <2>1. [l.picks[item] EXCEPT !.pallets = n] \in Picks
    BY <1>1 DEF PicksSound, Picks
  <2> QED
    BY <1>1, <2>1 DEF PicksSound
<1> HIDE DEF picks
<1> QED
  BY <1>2, <1>3 DEF IsLine, LineFields, SameLine

-----------------------------------------------------------------------------
(* Opening a document *)

\* Saved allocations of one bucket become one pick, which takes something.
LEMMA SelectionSound ==
  ASSUME NEW n \in Nat, NEW entries, Len(entries) = n, DOMAIN entries = 1 .. n,
         \A j \in 1 .. n : Counted(entries[j]), NEW i,
         \E j \in 1 .. n : entries[j].item = i /\ entries[j].quantity > 0
  PROVE  Selection(entries, i) \in Picks
<1> DEFINE Counts(e) == e.item = i /\ e.quantity > 0
           Final(j) == Counts(entries[j]) /\ \A h \in j + 1 .. n : ~Counts(entries[h])
           last == CHOOSE j \in 1 .. n : Final(j)
           f == [j \in 1 .. n |-> IF Counts(entries[j]) THEN entries[j].quantity ELSE 0]
           g == [j \in 1 .. n |-> IF Counts(entries[j]) THEN Positive(entries[j].pallets) ELSE 0]
<1>1. \A x \in Nat : Positive(x) \in Nat
  BY DEF Positive
<1>2. last \in 1 .. n
  <2> DEFINE S == {j \in 1 .. n : Counts(entries[j])}
  <2>1. S \in SUBSET (0 .. n) /\ S # {}
    OBVIOUS
  <2>2. PICK m \in S : \A j \in S : j <= m
    <3> HIDE DEF S
    <3> QED
      BY <2>1, Greatest
  <2>3. m \in 1 .. n /\ Counts(entries[m])
    BY <2>2
  <2>4. ASSUME NEW h \in m + 1 .. n, Counts(entries[h]) PROVE FALSE
    <3>1. h \in S /\ h > m
      BY <2>3, <2>4
    <3> HIDE DEF S
    <3> QED
      BY <2>2, <2>3, <3>1
  <2>5. Final(m)
    BY <2>3, <2>4
  <2> HIDE DEF Final
  <2> QED
    BY <2>3, <2>5
<1>3. Selection(entries, i) = [quantity |-> Summed(f), pallets |-> Summed(g),
        starting |-> Positive(entries[last].starting), remaining |-> Positive(entries[last].remaining)]
  BY DEF Selection, SumOf, Each
<1>4. \A j \in 1 .. n : f[j] \in Nat /\ g[j] \in Nat
  <2> HIDE DEF Counts
  <2> QED
    BY <1>1 DEF Counted
<1>5. f \in Seq(Nat) /\ g \in Seq(Nat) /\ Len(f) = n
  <2>1. f = [j \in 1 .. n |-> f[j]] /\ g = [j \in 1 .. n |-> g[j]]
    OBVIOUS
  <2> HIDE DEF f, g
  <2>2. f \in [1 .. n -> Nat] /\ g \in [1 .. n -> Nat]
    BY <1>4, <2>1
  <2>3. \A h \in [1 .. n -> Nat] : h \in Seq(Nat) /\ Len(h) = n
    OBVIOUS
  <2> QED
    BY <2>2, <2>3
<1>6. PICK j \in 1 .. n : Counts(entries[j])
  OBVIOUS
<1>7. f[j] > 0
  BY <1>6
<1>8. Summed(f) \in Nat \ {0} /\ Summed(g) \in Nat
  <2> HIDE DEF f, g
  <2>1. Summed(f) \in Nat /\ f[j] <= Summed(f) /\ Summed(g) \in Nat
    BY <1>5, SummedNat
  <2> QED
    BY <1>4, <1>7, <2>1
<1>9. Positive(entries[last].starting) \in Nat /\ Positive(entries[last].remaining) \in Nat
  <2> HIDE DEF last
  <2> QED
    BY <1>1, <1>2 DEF Counted
<1> HIDE DEF f, g, last
<1> QED
  BY <1>3, <1>8, <1>9 DEF Picks

\* A line that is opened from a saved document is sound.
LEMMA HydratedSound ==
  ASSUME NEW line \in SavedLines, NEW id \in LineIds
  PROVE  IsLine(HydratedLine(line, id)) /\ HydratedLine(line, id).id = id
<1> DEFINE as == line.allocations
           n == Len(as)
           Entry(a) == [item |-> PersistedCandidateID(line.source, a.bucket), quantity |-> a.allocated,
                        pallets |-> a.used, starting |-> a.starting, remaining |-> a.remaining]
           entries == [i \in DOMAIN as |-> Entry(as[i])]
           picks == NormalizeSelections(entries)
<1>1. /\ as \in Seq(SavedAllocations) /\ line.quantity \in Nat /\ line.planned \in Nat /\ line.pallets \in Nat
      /\ line.source \in DOMAIN Sources
  BY DEF SavedLines
<1>2. n \in Nat /\ DOMAIN as = 1 .. n /\ \A i \in 1 .. n : as[i] \in SavedAllocations
  BY <1>1
<1> HIDE DEF as, n
<1>3. \A i \in 1 .. n : Counted(entries[i]) /\ entries[i].item = PersistedCandidateID(line.source, as[i].bucket)
  <2> SUFFICES ASSUME NEW i \in 1 .. n
               PROVE  Counted(entries[i]) /\ entries[i].item = PersistedCandidateID(line.source, as[i].bucket)
    OBVIOUS
  <2>1. as[i] \in SavedAllocations /\ entries[i] = Entry(as[i])
    BY <1>2
  <2>2. \A a \in SavedAllocations : /\ a.allocated \in Nat /\ a.used \in Nat
                                   /\ a.starting \in Nat /\ a.remaining \in Nat
    BY DEF SavedAllocations
  <2>3. /\ Entry(as[i]).quantity = as[i].allocated /\ Entry(as[i]).pallets = as[i].used
        /\ Entry(as[i]).starting = as[i].starting /\ Entry(as[i]).remaining = as[i].remaining
        /\ Entry(as[i]).item = PersistedCandidateID(line.source, as[i].bucket)
    OBVIOUS
  <2> HIDE DEF Entry
  <2>4. Counted(Entry(as[i]))
    BY <2>1, <2>2, <2>3 DEF Counted
  <2> QED
    BY <2>1, <2>3, <2>4
<1>4. DOMAIN entries = 1 .. n /\ Len(entries) = n
  <2>1. entries = [i \in 1 .. n |-> Entry(as[i])]
    BY <1>2
  <2> QED
    BY <1>2, <2>1
<1> HIDE DEF entries
<1>5. PicksSound(picks)
  <2>1. picks = [i \in {e.item : e \in {e \in ToSet(entries) : e.quantity > 0}} |-> Selection(entries, i)]
    BY DEF NormalizeSelections
  <2>2. ASSUME NEW i \in DOMAIN picks PROVE picks[i] \in Picks
    <3>1. PICK e \in ToSet(entries) : e.quantity > 0 /\ e.item = i
      BY <2>1, <2>2
    <3>2. PICK j \in 1 .. n : entries[j] = e
      BY <1>4 DEF ToSet
    <3>3. entries[j].item = i /\ entries[j].quantity > 0
      BY <3>1, <3>2
    <3>4. Selection(entries, i) \in Picks
      BY <1>2, <1>3, <1>4, <3>3, SelectionSound
    <3> QED
      BY <2>1, <2>2, <3>4
  <2> QED
    BY <2>2 DEF PicksSound
<1> DEFINE pallets == IF line.quantity > 0 THEN Positive(line.pallets) ELSE 0
<1>6. pallets \in Nat
  BY <1>1 DEF Positive
<1>7. HydratedLine(line, id) =
        [id |-> id, location |-> Sources[line.source].location, source |-> line.source,
         search |-> <<>>, planned |-> line.planned, quantity |-> line.quantity,
         pallets |-> pallets, picks |-> picks, touched |-> line.allocations # <<>>]
  BY DEF HydratedLine, entries, as
<1> HIDE DEF pallets, picks
<1> QED
  BY <1>1, <1>5, <1>6, <1>7 DEF IsLine, LineFields

\* The lines of a document, when the page opens.
LEMMA EditorLinesSound ==
  ASSUME NEW doc, doc.lines \in Seq(SavedLines), Len(doc.lines) <= MaxLines
  PROVE  LinesSound(EditorLines(doc))
<1>0. MaxLines \in Nat \ {0}
  BY MaxLinesAssumption
<1>1. CASE doc.lines = <<>>
  <2>1. EditorLines(doc) = <<EmptyLine(1)>>
    BY <1>1 DEF EditorLines
  <2>2. IsLine(EmptyLine(1))
    BY <1>0, NoPicksSound DEF EmptyLine, IsLine, LineFields, LineIds
  <2> DEFINE new == <<EmptyLine(1)>>
  <2>3. new \in Seq({EmptyLine(1)}) /\ Len(new) = 1 /\ DOMAIN new = 1 .. 1 /\ new[1] = EmptyLine(1)
    OBVIOUS
  <2> HIDE DEF new
  <2>4. IsList(new)
    BY <2>3, SeqList
  <2>5. LinesSound(new)
    BY <1>0, <2>2, <2>3, <2>4 DEF LinesSound
  <2> QED
    BY <2>1, <2>5 DEF new
<1>2. CASE doc.lines # <<>>
  <2> DEFINE n == Len(doc.lines)
             new == [i \in 1 .. n |-> HydratedLine(doc.lines[i], i)]
  <2>1. n \in Nat /\ DOMAIN doc.lines = 1 .. n /\ \A i \in 1 .. n : doc.lines[i] \in SavedLines
    OBVIOUS
  <2>2. EditorLines(doc) = new
    BY <1>2, <2>1 DEF EditorLines
  <2>3. \A i \in 1 .. n : IsLine(new[i]) /\ new[i].id = i
    <3> SUFFICES ASSUME NEW i \in 1 .. n PROVE IsLine(new[i]) /\ new[i].id = i
      OBVIOUS
    <3>1. i \in LineIds
      BY <1>0, <2>1 DEF LineIds
    <3>2. IsLine(HydratedLine(doc.lines[i], i)) /\ HydratedLine(doc.lines[i], i).id = i
      BY <2>1, <3>1, HydratedSound
    <3> QED
      BY <3>2
  <2>4. \A i \in 1 .. n : new[i] \in ToSet(new)
    BY DEF ToSet
  <2>5. new = [i \in 1 .. n |-> new[i]]
    OBVIOUS
  <2>6. n <= MaxLines
    OBVIOUS
  <2> HIDE DEF new, n
  <2>7. new \in [1 .. n -> ToSet(new)]
    BY <2>4, <2>5
  <2>8. IsList(new) /\ Len(new) = n /\ DOMAIN new = 1 .. n
    BY <2>1, <2>7, ListOver
  <2>9. LinesSound(new)
    BY <2>3, <2>6, <2>8 DEF LinesSound
  <2> QED
    BY <2>2, <2>9
<1> QED
  BY <1>1, <1>2

-----------------------------------------------------------------------------
(* The invariant of the page *)

\* The page opens in a sound state.
LEMMA InitSound == Init => EditorInv
<1> SUFFICES ASSUME Init PROVE EditorInv
  OBVIOUS
<1>1. opening \in Openings /\ stock \in Stocks
  BY DEF Init, Answers
<1>2. document.lines \in Seq(SavedLines) /\ Len(document.lines) <= MaxLines
  BY <1>1, OpeningsAssumption DEF document
<1>3. LinesSound(lines)
  BY <1>2, EditorLinesSound DEF Init
<1> QED
  BY <1>1, <1>3 DEF Init, EditorInv

\* A handler that leaves sound lines leaves a sound page.
LEMMA LinesSetSound ==
  ASSUME EditorInv, NEW new, LinesSound(new), SetLines(new)
  PROVE  EditorInv'
<1>1. lines' = new /\ reviewed' = FALSE /\ shown' = Rendered(new, stock, document)
  BY DEF SetLines
<1>2. opening' = opening /\ stock' = stock /\ step' = step /\ document' = document
  BY DEF SetLines, document
<1> QED
  BY <1>1, <1>2 DEF EditorInv

\* Changing one line for a sound one keeps the page sound.
LEMMA LineSetSound ==
  ASSUME EditorInv, NEW i \in DOMAIN lines, NEW l, SameLine(lines[i], l), SetLine(i, l)
  PROVE  EditorInv'
<1>1. LinesSound([lines EXCEPT ![i] = l])
  BY SetLineSound DEF EditorInv, SameLine
<1> QED
  BY <1>1, LinesSetSound DEF SetLine

\* Adding an empty line keeps the page sound.
LEMMA AddSound == ASSUME EditorInv, AddLine PROVE EditorInv'
<1>1. PICK id \in LineIds : /\ \A i \in DOMAIN lines : lines[i].id # id
                            /\ SetLines(Append(lines, EmptyLine(id)))
  BY DEF AddLine
<1>2. Len(lines) < MaxLines
  BY PageSound, MaxLinesAssumption DEF AddLine
<1>3. LinesSound(Append(lines, EmptyLine(id)))
  BY <1>1, <1>2, AddedSound DEF EditorInv
<1> QED
  BY <1>1, <1>3, LinesSetSound

\* Sending the document closes a sound page.
LEMMA SubmitSound == ASSUME EditorInv, NEW final, Submit(final) PROVE EditorInv'
<1>1. /\ lines' = <<>> /\ reviewed' = FALSE /\ step' = Closed /\ opening' = opening /\ stock' = stock
      /\ shown' = Rendered(<<>>, stock, document)
  BY DEF Submit
<1>2. document' = document
  BY <1>1 DEF document
<1>3. LinesSound(<<>>)
  <2>1. <<>> \in Seq(ToSet(<<>>)) /\ Len(<<>>) = 0 /\ DOMAIN <<>> = {}
    OBVIOUS
  <2> QED
    BY <2>1, MaxLinesAssumption DEF LinesSound, IsList, ToSet
<1> QED
  BY <1>1, <1>2, <1>3 DEF EditorInv

\* Every handler keeps the page sound.
LEMMA StepSound == EditorInv /\ [Next]_vars => EditorInv'
<1> SUFFICES ASSUME EditorInv, [Next]_vars PROVE EditorInv'
  OBVIOUS
<1>1. CASE AddLine
  BY <1>1, AddSound
<1>2. CASE ConfirmReview
  BY <1>2 DEF ConfirmReview, EditorInv, document
<1>3. CASE SaveDraft
  BY <1>3, SubmitSound DEF SaveDraft
<1>4. CASE Schedule
  BY <1>4, SubmitSound DEF Schedule
<1>5. CASE Refresh
  <2>1. PICK items \in Answers(document) : stock' = items /\ shown' = Rendered(lines, items, document)
    BY <1>5 DEF Refresh
  <2>2. items \in Stocks
    BY DEF Answers
  <2>3. /\ opening' = opening /\ lines' = lines /\ step' = step /\ reviewed' = reviewed
        /\ document' = document
    BY <1>5 DEF Refresh, document
  <2> QED
    BY <2>1, <2>2, <2>3 DEF EditorInv
<1>6. ASSUME NEW s \in 1 .. 3, MoveTo(s) PROVE EditorInv'
  <2>1. /\ step' = s /\ opening' = opening /\ stock' = stock /\ lines' = lines
        /\ reviewed' = reviewed /\ shown' = shown /\ document' = document
    BY <1>6 DEF MoveTo, document
  <2> QED
    BY <2>1 DEF EditorInv
<1>7. ASSUME NEW i \in DOMAIN lines, RemoveLine(i) PROVE EditorInv'
  <2>1. LinesSound(RemoveAt(lines, i))
    BY RemovedSound DEF EditorInv
  <2> QED
    BY <1>7, <2>1, LinesSetSound DEF RemoveLine
<1>8. ASSUME NEW i \in DOMAIN lines PROVE IsLine(lines[i])
  BY DEF EditorInv, LinesSound
<1>9. ASSUME NEW i \in DOMAIN lines, NEW t \in Texts, TypeSource(i, t) PROVE EditorInv'
  <2>1. SameLine(lines[i], Typed(lines[i], FilterBySkuSearch(sources, t), t))
    BY <1>8, TypedSound
  <2> QED
    BY <1>9, <2>1, LineSetSound DEF TypeSource
<1>10. ASSUME NEW i \in DOMAIN lines, NEW k \in DOMAIN Sources, ChooseWarehouse(i, Sources[k].location)
       PROVE  EditorInv'
  <2> DEFINE location == Sources[k].location
  <2>1. SameLine(lines[i], MovedTo(lines[i], FilterByLocation(sources, DOMAIN sources, location), location))
    BY <1>8, MovedSound
  <2> HIDE DEF location
  <2>2. ChooseWarehouse(i, location)
    BY <1>10 DEF location
  <2> QED
    BY <2>1, <2>2, LineSetSound DEF ChooseWarehouse
<1>11. ASSUME NEW i \in DOMAIN lines, NEW n \in Planned, TypePlanned(i, n) PROVE EditorInv'
  <2> DEFINE l == lines[i]
             m == [l EXCEPT !.planned = n,
                     !.picks = IF l.touched THEN l.picks ELSE AutoPicked(Fulfillment(l), l.source)]
  <2>1. n \in Nat /\ l.source \in DOMAIN sources /\ SetLine(i, m)
    BY <1>11, InputsAssumption DEF TypePlanned
  <2>2. SameLine(l, m)
    BY <1>8, <2>1, PlannedSound
  <2> HIDE DEF m
  <2> QED
    BY <2>1, <2>2, LineSetSound
<1>12. ASSUME NEW i \in DOMAIN lines, NEW n \in Quantities, TypeQuantity(i, n) PROVE EditorInv'
  <2> DEFINE l == lines[i]
             balance == RemainingBalance(sources[l.source], reservations[l.id])
             q == Least(n, balance)
  <2>1. l.source \in DOMAIN sources /\ SetLine(i, WithQuantity(l, q))
    BY <1>12 DEF TypeQuantity
  <2>2. balance \in Nat
    BY <2>1, ManualSound, BalanceType
  <2>3. n \in Nat
    BY InputsAssumption
  <2> HIDE DEF balance
  <2>4. q \in Nat
    BY <2>2, <2>3 DEF Least
  <2> HIDE DEF q
  <2>5. SameLine(l, WithQuantity(l, q))
    BY <1>8, <2>1, <2>4, QuantitySound
  <2> QED
    BY <2>1, <2>5, LineSetSound
<1>13. ASSUME NEW i \in DOMAIN lines, NEW n \in PalletInputs, TypePallets(i, n) PROVE EditorInv'
  <2> DEFINE m == [lines[i] EXCEPT !.pallets = n]
  <2>1. n \in Nat /\ SetLine(i, m)
    BY <1>13, InputsAssumption DEF TypePallets
  <2>2. SameLine(lines[i], m)
    BY <1>8, <2>1 DEF IsLine, LineFields, SameLine
  <2> HIDE DEF m
  <2> QED
    BY <2>1, <2>2, LineSetSound
<1>14. ASSUME NEW i \in DOMAIN lines, NEW row \in ShownRows(i), NEW n \in Quantities, TypePickQuantity(i, row, n)
       PROVE  EditorInv'
  <2> DEFINE q == Least(row.available, n)
             m == StartManual(lines[i])
  <2>1. /\ lines[i].source \in DOMAIN sources
        /\ row.available \in Nat /\ row.startingQty \in Nat /\ row.startingPallets \in Nat
    BY ShownRowSound
  <2>2. SameLine(lines[i], m)
    BY <2>1, ManualSound
  <2>3. q \in Nat
    BY <2>1, InputsAssumption DEF Least
  <2>4. SetLine(i, WithPick(m, row, q))
    BY <1>14 DEF TypePickQuantity
  <2> HIDE DEF q, m
  <2>5. SameLine(m, WithPick(m, row, q))
    BY <2>1, <2>2, <2>3, PickSound DEF SameLine
  <2>6. SameLine(lines[i], WithPick(m, row, q))
    BY <2>2, <2>5, SameLineTwice
  <2> QED
    BY <2>4, <2>6, LineSetSound
<1>15. ASSUME NEW i \in DOMAIN lines, NEW row \in ShownRows(i), NEW n \in PalletInputs, TypePickPallets(i, row, n)
       PROVE  EditorInv'
  <2> DEFINE p == Least(row.startingPallets, n)
             m == StartManual(lines[i])
  <2>1. lines[i].source \in DOMAIN sources /\ row.startingPallets \in Nat
    BY ShownRowSound
  <2>2. SameLine(lines[i], m)
    BY <2>1, ManualSound
  <2>3. p \in Nat
    BY <2>1, InputsAssumption DEF Least
  <2>4. SetLine(i, WithPallets(m, row.item, p)) /\ row.item \in DOMAIN m.picks
    BY <1>15 DEF TypePickPallets
  <2> HIDE DEF p, m
  <2>5. SameLine(m, WithPallets(m, row.item, p))
    BY <2>2, <2>3, <2>4, PickPalletsSound DEF SameLine
  <2>6. SameLine(lines[i], WithPallets(m, row.item, p))
    BY <2>2, <2>5, SameLineTwice
  <2> QED
    BY <2>4, <2>6, LineSetSound
<1>16. CASE UNCHANGED vars
  BY <1>16 DEF vars, EditorInv, document
<1> QED
  BY <1>1, <1>2, <1>3, <1>4, <1>5, <1>6, <1>7, <1>9, <1>10, <1>11, <1>12, <1>13, <1>14, <1>15, <1>16
  DEF Next

\* The page is sound whatever is typed, picked, refreshed and sent, in any order.
LEMMA SpecSound == Spec => []EditorInv
BY InitSound, StepSound, PTL DEF Spec

-----------------------------------------------------------------------------
(* What follows for the properties of the page *)

\* The page holds lines that name known sources, and picks that take something.
THEOREM TypeOKHolds == Spec => []TypeOK
<1>1. EditorInv => TypeOK
  <2> SUFFICES ASSUME EditorInv PROVE TypeOK
    OBVIOUS
  <2>1. Cardinality(LineIds) = MaxLines
    BY MaxLinesAssumption, FS_Interval DEF LineIds
  <2>2. \A i \in DOMAIN lines :
          /\ IsLine(lines[i])
          /\ \A item \in DOMAIN lines[i].picks : lines[i].picks[item].quantity > 0
    BY DEF EditorInv, LinesSound, IsLine, PicksSound, Picks
  <2>3. Len(lines) <= MaxLines
    BY DEF EditorInv, LinesSound
  <2> QED
    BY <2>1, <2>2, <2>3 DEF EditorInv, TypeOK, IsLine
<1> QED
  BY <1>1, SpecSound, PTL

\* What is taken of a candidate that is offered is booked with its source, within what it has.
LEMMA CandidateSound ==
  ASSUME EditorInv, NEW c \in Candidates
  PROVE  \E k \in DOMAIN sources : Booked(c, preview.reserved[k], preview.rows)
<1>1. PICK k \in DOMAIN sources : c \in ToSet(sources[k].candidates)
  BY DEF Candidates
<1>2. PICK i \in DOMAIN sources[k].candidates : c = sources[k].candidates[i]
  BY <1>1 DEF ToSet
<1>3. PreviewBooked(preview, sources)
  BY PageSound, PreviewSound
<1>4. Booked(sources[k].candidates[i], preview.reserved[k], preview.rows)
  BY <1>3 DEF PreviewBooked
<1> QED
  BY <1>2, <1>4

\* The lines of an order together never take more of a bucket than is available.
THEOREM NeverOverbookedHolds == Spec => []NeverOverbooked
<1>1. EditorInv => NeverOverbooked
  BY CandidateSound DEF NeverOverbooked, Booked
<1> QED
  BY <1>1, SpecSound, PTL

\* The rows of a bucket hand its pallets on, so that no pallet is released twice.
THEOREM PalletsReleasedOnceHolds == Spec => []PalletsReleasedOnce
<1>1. EditorInv => PalletsReleasedOnce
  BY CandidateSound DEF PalletsReleasedOnce, Booked
<1> QED
  BY <1>1, SpecSound, PTL

\* The allocations that are sent for a line add up to what the preview takes for it.
LEMMA PayloadTotal ==
  ASSUME NEW acc, IsRows(acc.rows), NEW id
  PROVE  SumOf(LAMBDA a : a.allocated, AllocationPayloads(RowsOf(acc, id))) = LineTotal(id, acc.rows)
<1> DEFINE rows == RowsOf(acc, id)
           sentRows == AllocationPayloads(rows)
           f == [i \in DOMAIN sentRows |-> sentRows[i].allocated]
<1>1. IsRows(rows) /\ Summed(Taken(rows)) = LineTotal(id, acc.rows)
  BY RowsOfSound
<1>2. SumOf(LAMBDA a : a.allocated, sentRows) = Summed(f)
  BY DEF SumOf, Each
<1> HIDE DEF rows
<1>3. DOMAIN sentRows = DOMAIN rows
  BY DEF AllocationPayloads, Each
<1>4. \A i \in DOMAIN rows : sentRows[i].allocated = rows[i].allocated
  <2> SUFFICES ASSUME NEW i \in DOMAIN rows PROVE sentRows[i].allocated = rows[i].allocated
    OBVIOUS
  <2>1. rows[i].allocated \in Nat
    BY <1>1 DEF IsRows, IsRow
  <2>2. sentRows[i].allocated = Positive(rows[i].allocated)
    BY DEF AllocationPayloads, AllocationPayload, Each
  <2> QED
    BY <2>1, <2>2 DEF Positive
<1> HIDE DEF sentRows
<1>5. f = Taken(rows)
  BY <1>3, <1>4 DEF Taken
<1> HIDE DEF f
<1> QED
  BY <1>1, <1>2, <1>5 DEF rows, sentRows

\* When the page says that it is ready, every line is picked in full.
LEMMA ReadyIsPicked ==
  ASSUME EditorInv, overview.status = "ready", NEW i \in DOMAIN lines, lines[i].source \in DOMAIN sources
  PROVE  LineTotal(lines[i].id, preview.rows) = Fulfillment(lines[i])
<1> DEFINE n == Len(lines)
           f == [j \in 1 .. n |-> SummaryAt(lines[j].id, preview).requested]
           g == [j \in 1 .. n |-> SummaryAt(lines[j].id, preview).allocated]
           short == Cardinality(ShortLines(lines, preview))
<1>1. n \in Nat /\ DOMAIN lines = 1 .. n /\ \A j \in 1 .. n : IsLine(lines[j])
  BY PageSound DEF LinesSound
<1>2. PreviewCounted(preview, lines, sources, n) /\ IsRows(preview.rows)
  BY PageSound, PreviewSound DEF PreviewBooked
<1>3. short \in Nat /\ (short = 0 => ShortLines(lines, preview) = {})
  <2>1. IsFiniteSet(1 .. n)
    BY <1>1, FS_Interval
  <2>2. ShortLines(lines, preview) \subseteq 1 .. n
    BY <1>1 DEF ShortLines
  <2> HIDE DEF n
  <2>3. IsFiniteSet(ShortLines(lines, preview))
    BY <2>1, <2>2, FS_Subset
  <2> QED
    BY <2>3, FS_CardinalityType, FS_EmptySet
<1>4. short = 0 /\ Summed(f) = Summed(g)
  <2> DEFINE ready == ActiveLines(lines, validations, FALSE)
             blocked == ActiveLines(lines, validations, TRUE)
             requested == Summed(f)
             allocated == Summed(g)
  <2>1. overview = Overview(ready, blocked, requested, allocated, short)
    BY <1>1 DEF overview, StepOverview, SumOf, Each
  <2> HIDE DEF ready, blocked, requested, allocated, short
  <2>2. "shortage" # "ready" /\ "incomplete" # "ready"
    OBVIOUS
  <2>3. ~(short > 0) /\ allocated = requested
    BY <2>1, <2>2 DEF Overview
  <2> QED
    BY <1>3, <2>3 DEF requested, allocated
<1>5. \A j \in 1 .. n : Summarized(preview, lines[j], sources)
  BY <1>2 DEF PreviewCounted
<1>6. ASSUME NEW id PROVE LineTotal(id, preview.rows) \in Nat
  BY <1>2, NumbersType, SummedNat DEF LineTotal
<1>7. ASSUME NEW l, IsLine(l) PROVE Fulfillment(l) \in Nat
  BY <1>7 DEF IsLine, Fulfillment, Positive
<1>8. ASSUME NEW j \in 1 .. n
      PROVE  /\ Counting(lines[j], sources) =>
                  f[j] = Fulfillment(lines[j]) /\ g[j] = LineTotal(lines[j].id, preview.rows)
             /\ ~Counting(lines[j], sources) => f[j] = 0 /\ g[j] = 0
             /\ f[j] \in Nat /\ g[j] \in Nat /\ f[j] <= g[j]
  <2> DEFINE l == lines[j]
             total == LineTotal(l.id, preview.rows)
  <2>1. Summarized(preview, l, sources) /\ Fulfillment(l) \in Nat /\ total \in Nat
    BY <1>1, <1>5, <1>6, <1>7
  <2>2. f[j] = SummaryAt(l.id, preview).requested /\ g[j] = SummaryAt(l.id, preview).allocated
    OBVIOUS
  <2> HIDE DEF f, g
  <2>3. CASE ~Counting(l, sources)
    <3>1. SummaryAt(l.id, preview) = [requested |-> 0, allocated |-> 0]
      BY <2>1, <2>3 DEF Summarized, SummaryAt
    <3> QED
      BY <2>2, <2>3, <3>1
  <2>4. CASE Counting(l, sources)
    <3>1. l.id \in DOMAIN preview.summaries /\ preview.summaries[l.id] = LineSummary(l, total)
      BY <2>1, <2>4 DEF Summarized
    <3>2. SummaryAt(l.id, preview) = LineSummary(l, total)
      BY <3>1 DEF SummaryAt
    <3>3. f[j] = Fulfillment(l) /\ g[j] = total
      BY <2>2, <3>2 DEF LineSummary
    <3>4. ~(preview.summaries[l.id].shortage > 0)
      BY <1>1, <1>3, <1>4, <3>1 DEF ShortLines
    <3>5. preview.summaries[l.id].shortage = Positive(Fulfillment(l) - total)
      BY <3>1 DEF LineSummary
    <3> HIDE DEF l, total
    <3>6. Fulfillment(l) <= total
      BY <2>1, <3>4, <3>5 DEF Positive
    <3> QED
      BY <2>1, <2>4, <3>3, <3>6 DEF l, total
  <2> QED
    BY <2>3, <2>4
<1>9. f \in Seq(Int) /\ g \in Seq(Int) /\ Len(f) = n /\ Len(g) = n
  <2>1. f = [j \in 1 .. n |-> f[j]] /\ g = [j \in 1 .. n |-> g[j]]
    OBVIOUS
  <2> HIDE DEF f, g, n
  <2>2. f \in [1 .. n -> Int] /\ g \in [1 .. n -> Int]
    BY <1>8, <2>1
  <2>3. \A h \in [1 .. n -> Int] : h \in Seq(Int) /\ Len(h) = n
    BY <1>1
  <2> QED
    BY <2>2, <2>3
<1> HIDE DEF f, g, n
<1>10. f[i] = g[i]
  BY <1>1, <1>4, <1>8, <1>9, SummedTight
<1>11. CASE Counting(lines[i], sources)
  BY <1>1, <1>8, <1>10, <1>11
<1>12. CASE ~Counting(lines[i], sources)
  BY <1>1, <1>5, <1>12 DEF Summarized, Counting
<1> QED
  BY <1>11, <1>12

(* What ScheduledIsPicked asks of a request, as a predicate of the request. *)
Allocated(allocations) == SumOf(LAMBDA a : a.allocated, allocations)
Complete(request) ==
  request.final => \A id \in DOMAIN request.lines :
    Allocated(request.lines[id].allocations) = request.lines[id].actual

\* Whatever is scheduled is picked in full, line by line.
THEOREM ScheduledIsPickedHolds == Spec => []ScheduledIsPicked
<1>0. (ScheduledIsPicked <=> Complete(sent)) /\ (ScheduledIsPicked' <=> Complete(sent'))
  BY DEF ScheduledIsPicked, Complete, Allocated, SumOf, Each, Summed, Accumulate
<1>1. Init => ScheduledIsPicked
  BY DEF Init, Nothing, ScheduledIsPicked
<1>2. ASSUME EditorInv, ScheduledIsPicked, [Next]_vars PROVE ScheduledIsPicked'
  <2>1. CASE Schedule
    <3> DEFINE Chosen(id) == CHOOSE l \in ValidLines : l.id = id
    <3>1. /\ overview.status = "ready" /\ sent' = [final |-> TRUE, lines |-> Payload]
          /\ \A l \in ValidLines : l.source \in DOMAIN sources
      BY <2>1 DEF Schedule, Submit
    <3>2. ASSUME NEW id \in DOMAIN Payload PROVE Allocated(Payload[id].allocations) = Payload[id].actual
      <4> DEFINE l == Chosen(id)
      <4>1. l \in ValidLines /\ Payload[id] = LinePayload(l)
        BY DEF Payload
      <4> HIDE DEF l
      <4>2. PICK i \in DOMAIN lines : l = lines[i]
        BY <4>1 DEF ValidLines, ToSet
      <4>3. l.source \in DOMAIN sources /\ IsLine(l)
        BY <1>2, <3>1, <4>1, <4>2 DEF EditorInv, LinesSound
      <4>4. LineTotal(l.id, preview.rows) = Fulfillment(l)
        BY <1>2, <3>1, <4>2, <4>3, ReadyIsPicked
      <4>5. IsRows(preview.rows)
        BY <1>2, PageSound, PreviewSound DEF PreviewBooked
      <4>6. Allocated(AllocationPayloads(RowsOf(preview, l.id))) = LineTotal(l.id, preview.rows)
        BY <4>5, PayloadTotal DEF Allocated
      <4>7. Payload[id].actual = l.quantity /\ Payload[id].allocations = AllocationPayloads(RowsOf(preview, l.id))
        BY <4>1 DEF LinePayload
      <4> QED
        BY <4>3, <4>4, <4>6, <4>7 DEF Fulfillment, Positive, IsLine
    <3>3. sent'.lines = Payload
      BY <3>1
    <3> QED
      BY <1>0, <3>2, <3>3 DEF Complete
  <2>2. CASE SaveDraft
    BY <1>0, <2>2 DEF SaveDraft, Submit, Complete
  <2>3. ASSUME sent' = sent PROVE ScheduledIsPicked'
    BY <1>0, <1>2, <2>3
  <2>4. CASE AddLine
    BY <2>3, <2>4 DEF AddLine, SetLines
  <2>5. CASE ConfirmReview
    BY <2>3, <2>5 DEF ConfirmReview
  <2>6. CASE Refresh
    BY <2>3, <2>6 DEF Refresh
  <2>7. CASE \E s \in 1 .. 3 : MoveTo(s)
    BY <2>3, <2>7 DEF MoveTo
  <2>8. CASE \E i \in DOMAIN lines :
               \/ RemoveLine(i)
               \/ \E t \in Texts : TypeSource(i, t)
               \/ \E k \in DOMAIN Sources : ChooseWarehouse(i, Sources[k].location)
               \/ \E n \in Planned : TypePlanned(i, n)
               \/ \E n \in Quantities : TypeQuantity(i, n)
               \/ \E n \in PalletInputs : TypePallets(i, n)
               \/ \E row \in ShownRows(i) :
                    \/ \E n \in Quantities : TypePickQuantity(i, row, n)
                    \/ \E n \in PalletInputs : TypePickPallets(i, row, n)
    <3>1. sent' = sent
      BY <2>8 DEF RemoveLine, TypeSource, ChooseWarehouse, TypePlanned, TypeQuantity, TypePallets,
                  TypePickQuantity, TypePickPallets, SetLine, SetLines
    <3> QED
      BY <2>3, <3>1
  <2>9. CASE UNCHANGED vars
    BY <2>3, <2>9 DEF vars
  <2> QED
    BY <1>2, <2>1, <2>2, <2>4, <2>5, <2>6, <2>7, <2>8, <2>9 DEF Next
<1>3. EditorInv /\ ScheduledIsPicked /\ [Next]_vars => ScheduledIsPicked'
  BY <1>2
<1> QED
  BY <1>1, <1>3, SpecSound, PTL DEF Spec
-----------------------------------------------------------------------------
(* The review *)

\* Each row is sent as an allocation of its bucket, with its cartons and pallets.
LEMMA PayloadFields ==
  ASSUME NEW rows, IsRows(rows)
  PROVE  /\ DOMAIN AllocationPayloads(rows) = DOMAIN rows
         /\ \A i \in DOMAIN rows : /\ AllocationPayloads(rows)[i].bucket = rows[i].bucket
                                   /\ AllocationPayloads(rows)[i].allocated = rows[i].allocated
                                   /\ AllocationPayloads(rows)[i].used = rows[i].pallets
<1>1. DOMAIN AllocationPayloads(rows) = DOMAIN rows
  BY DEF AllocationPayloads, Each
<1>2. ASSUME NEW i \in DOMAIN rows
      PROVE  /\ AllocationPayloads(rows)[i].bucket = rows[i].bucket
             /\ AllocationPayloads(rows)[i].allocated = rows[i].allocated
             /\ AllocationPayloads(rows)[i].used = rows[i].pallets
  <2>1. rows[i].allocated \in Nat /\ rows[i].pallets \in Nat
    BY DEF IsRows, IsRow
  <2>2. /\ AllocationPayloads(rows)[i].bucket = rows[i].bucket
        /\ AllocationPayloads(rows)[i].allocated = Positive(rows[i].allocated)
        /\ AllocationPayloads(rows)[i].used = Positive(rows[i].pallets)
    BY DEF AllocationPayloads, AllocationPayload, Each
  <2> QED
    BY <2>1, <2>2 DEF Positive
<1> QED
  BY <1>1, <1>2

\* A row of the preview belongs to one line of the page, and that line will be sent.
LEMMA RowOwner ==
  ASSUME EditorInv, NEW j \in DOMAIN preview.rows
  PROVE  \E i \in DOMAIN lines : /\ preview.rows[j].line = lines[i].id
                                 /\ lines[i] \in ValidLines /\ lines[i].source \in DOMAIN sources
                                 /\ preview.rows[j].location = sources[lines[i].source].location
<1>1. PreviewCounted(preview, lines, sources, Len(lines)) /\ DOMAIN lines = 1 .. Len(lines)
  BY PageSound, PreviewSound
<1>2. PICK i \in DOMAIN lines : RowOf(preview.rows[j], lines[i], sources)
  BY <1>1 DEF PreviewCounted
<1>3. lines[i] \in ValidLines
  <2>1. lines[i].source # None
    BY <1>2, PageSound, InputsAssumption DEF RowOf, Counting, SourcesSound
  <2>2. lines[i].quantity > 0
    BY <1>2 DEF RowOf, Counting, Fulfillment, Positive
  <2> QED
    BY <2>1, <2>2 DEF ValidLines, IsValid, HasRecordedQuantity, ToSet
<1> QED
  BY <1>2, <1>3 DEF RowOf, Counting

\* What rows of a warehouse and a container, rows of a container, and the lines of a
\* warehouse with their rows have, by a number for each row.
PlaceTotal(V, location, bucket, rows) ==
  Summed([j \in DOMAIN rows |-> IF rows[j].location = location /\ rows[j].bucket = bucket THEN V[rows[j]] ELSE 0])
BucketTotal(V, bucket, rows) ==
  Summed([j \in DOMAIN rows |-> IF rows[j].bucket = bucket THEN V[rows[j]] ELSE 0])
Leaves(l, location) == l \in ValidLines /\ l.source \in DOMAIN sources /\ sources[l.source].location = location
LinesTotal(V, location, bucket) ==
  Summed([i \in DOMAIN lines |-> IF Leaves(lines[i], location)
                                 THEN BucketTotal(V, bucket, RowsOf(preview, lines[i].id)) ELSE 0])

CartonsOf(rows) == [r \in ToSet(rows) |-> r.allocated]
PalletsOf(rows) == [r \in ToSet(rows) |-> r.pallets]

\* What the rows of a warehouse and a container add up to, the lines of that warehouse add up
\* to for that container.
LEMMA ShownIsSent ==
  ASSUME EditorInv, NEW V, \A j \in DOMAIN preview.rows : V[preview.rows[j]] \in Int,
         NEW location, NEW bucket
  PROVE  PlaceTotal(V, location, bucket, preview.rows) = LinesTotal(V, location, bucket)
<1> DEFINE rows == preview.rows
           n == Len(lines)
           k == Len(rows)
           Sent(l) == Leaves(l, location)
           x == [j \in 1 .. k |-> IF rows[j].location = location /\ rows[j].bucket = bucket THEN V[rows[j]] ELSE 0]
           own == [j \in 1 .. k |-> CHOOSE i \in 1 .. n : /\ rows[j].line = lines[i].id
                                                          /\ Sent(lines[i]) <=> rows[j].location = location]
           W == [r \in ToSet(rows) |-> IF r.bucket = bucket THEN V[r] ELSE 0]
           OfOwn(l) == BucketTotal(V, bucket, RowsOf(preview, l.id))
           Part(i) == [j \in 1 .. k |-> IF own[j] = i THEN x[j] ELSE 0]
<1>1. /\ n \in Nat /\ DOMAIN lines = 1 .. n /\ IsRows(rows) /\ IsList(rows)
      /\ k \in Nat /\ DOMAIN rows = 1 .. k
      /\ \A g, h \in 1 .. n : lines[g].id = lines[h].id => g = h
  BY PageSound, PreviewSound, ListProperties DEF PreviewBooked, IsRows, LinesSound
<1>2. ASSUME NEW j \in 1 .. k
      PROVE  /\ own[j] \in 1 .. n /\ rows[j].line = lines[own[j]].id
             /\ Sent(lines[own[j]]) <=> rows[j].location = location
  <2>1. PICK i \in 1 .. n : /\ rows[j].line = lines[i].id
                            /\ lines[i] \in ValidLines /\ lines[i].source \in DOMAIN sources
                            /\ rows[j].location = sources[lines[i].source].location
    BY <1>1, RowOwner
  <2>2. rows[j].line = lines[i].id /\ (Sent(lines[i]) <=> rows[j].location = location)
    BY <2>1 DEF Leaves
  <2> HIDE DEF Sent, rows
  <2> QED
    BY <2>2
<1>3. \A j \in 1 .. k : V[rows[j]] \in Int /\ W[rows[j]] = IF rows[j].bucket = bucket THEN V[rows[j]] ELSE 0
  BY <1>1 DEF ToSet
<1> HIDE DEF rows, n, k, own, Sent, W, OfOwn
<1>4. x \in Seq(Int) /\ Len(x) = k
  <2>1. x \in [1 .. k -> Int]
    BY <1>3
  <2> HIDE DEF x
  <2> QED
    BY <1>1, <2>1
<1>5. own \in [1 .. Len(x) -> 1 .. n]
  <2>1. own = [j \in 1 .. k |-> own[j]]
    BY DEF own
  <2> HIDE DEF x
  <2> QED
    BY <1>2, <1>4, <2>1
<1>6. Summed(x) = Summed([i \in 1 .. n |-> Summed([j \in 1 .. Len(x) |-> IF own[j] = i THEN x[j] ELSE 0])])
  <2> HIDE DEF x
  <2> QED
    BY <1>1, <1>4, <1>5, SummedByOwner
<1>7. Summed(x) = Summed([i \in 1 .. n |-> Summed(Part(i))])
  <2> HIDE DEF x
  <2> QED
    BY <1>4, <1>6
<1>8. ASSUME NEW i \in 1 .. n PROVE Summed(Part(i)) = IF Sent(lines[i]) THEN OfOwn(lines[i]) ELSE 0
  <2>1. \A j \in 1 .. k : rows[j].line = lines[i].id <=> own[j] = i
    BY <1>1, <1>2
  <2>2. CASE ~Sent(lines[i])
    <3>1. \A j \in 1 .. k : Part(i)[j] = 0
      BY <1>2, <2>2
    <3>2. Part(i) \in Seq(Int) /\ Len(Part(i)) = k
      <4>1. Part(i) \in [1 .. k -> Int]
        BY <1>3
      <4> HIDE DEF Part
      <4> QED
        BY <1>1, <4>1
    <3> HIDE DEF Part
    <3> QED
      BY <2>2, <3>1, <3>2, SummedZero
  <2>3. CASE Sent(lines[i])
    <3> DEFINE id == lines[i].id
               mine == RowsOf(preview, id)
    <3>1. \A h \in DOMAIN mine : \E j \in DOMAIN rows : mine[h] = rows[j]
      BY <1>1, RowsOfMember DEF rows
    <3>2. Summed(Of(W, mine)) = Summed(OfLine(W, id, rows))
      <4>1. \A j \in DOMAIN preview.rows : W[preview.rows[j]] \in Int
        BY <1>1, <1>3 DEF rows
      <4>2. IsList(preview.rows)
        BY <1>1 DEF rows
      <4> HIDE DEF id
      <4> QED
        BY <4>1, <4>2, RowsOfTotal DEF rows
    <3>3. OfLine(W, id, rows) = Part(i)
      <4>1. \A j \in 1 .. k : (IF rows[j].line = id THEN W[rows[j]] ELSE 0) = IF own[j] = i THEN x[j] ELSE 0
        BY <1>2, <1>3, <2>1, <2>3
      <4>2. OfLine(W, id, rows) = [j \in 1 .. k |-> IF rows[j].line = id THEN W[rows[j]] ELSE 0]
        BY <1>1 DEF OfLine
      <4> HIDE DEF x, id
      <4> QED
        BY <4>1, <4>2
    <3>4. Summed(Of(W, mine)) = OfOwn(lines[i])
      <4>1. \A h \in DOMAIN mine : W[mine[h]] = IF mine[h].bucket = bucket THEN V[mine[h]] ELSE 0
        BY <1>1, <1>3, <3>1
      <4> HIDE DEF mine
      <4>2. Of(W, mine) = [h \in DOMAIN mine |-> IF mine[h].bucket = bucket THEN V[mine[h]] ELSE 0]
        BY <4>1 DEF Of
      <4> QED
        BY <4>2 DEF mine, OfOwn, BucketTotal
    <3> QED
      BY <2>3, <3>2, <3>3, <3>4
  <2> QED
    BY <2>2, <2>3
<1>9. [i \in 1 .. n |-> Summed(Part(i))] = [i \in 1 .. n |-> IF Sent(lines[i]) THEN OfOwn(lines[i]) ELSE 0]
  <2> HIDE DEF Part
  <2> QED
    BY <1>8
<1>10. Summed(x) = LinesTotal(V, location, bucket)
  <2> HIDE DEF Part, x
  <2> QED
    BY <1>1, <1>7, <1>9 DEF LinesTotal, Sent, OfOwn
<1>11. Summed(x) = PlaceTotal(V, location, bucket, rows)
  BY <1>1 DEF PlaceTotal
<1> QED
  BY <1>10, <1>11 DEF rows

\* A group shows what the rows of its place take together.
LEMMA GroupTotals ==
  ASSUME NEW rows, NEW g \in ReviewGroups(rows)
  PROVE  /\ g.quantity = PlaceTotal(CartonsOf(rows), g.location, g.bucket, rows)
         /\ g.pallets = PlaceTotal(PalletsOf(rows), g.location, g.bucket, rows)
<1> DEFINE cartons(a, b) == [j \in DOMAIN rows |-> IF <<rows[j].location, rows[j].bucket>> = <<a, b>>
                                                   THEN rows[j].allocated ELSE 0]
           balance(a, b) == [j \in DOMAIN rows |-> IF <<rows[j].location, rows[j].bucket>> = <<a, b>>
                                                   THEN rows[j].pallets ELSE 0]
<1>1. PICK r \in ToSet(rows) :
        g = [location |-> <<r.location, r.bucket>>[1], bucket |-> <<r.location, r.bucket>>[2],
             quantity |-> Summed(cartons(r.location, r.bucket)),
             pallets |-> Summed(balance(r.location, r.bucket))]
  BY DEF ReviewGroups, SumOf, Each
<1> HIDE DEF cartons, balance
<1>2. /\ g.location = r.location /\ g.bucket = r.bucket
      /\ g.quantity = Summed(cartons(r.location, r.bucket))
      /\ g.pallets = Summed(balance(r.location, r.bucket))
  BY <1>1
<1>3. ASSUME NEW a, NEW b
      PROVE  /\ Summed(cartons(a, b)) = PlaceTotal(CartonsOf(rows), a, b, rows)
             /\ Summed(balance(a, b)) = PlaceTotal(PalletsOf(rows), a, b, rows)
  <2>1. \A j \in DOMAIN rows : CartonsOf(rows)[rows[j]] = rows[j].allocated /\ PalletsOf(rows)[rows[j]] = rows[j].pallets
    BY DEF CartonsOf, PalletsOf, ToSet
  <2>2. \A j \in DOMAIN rows : <<rows[j].location, rows[j].bucket>> = <<a, b>>
                               <=> rows[j].location = a /\ rows[j].bucket = b
    OBVIOUS
  <2> DEFINE f == [j \in DOMAIN rows |-> IF rows[j].location = a /\ rows[j].bucket = b THEN CartonsOf(rows)[rows[j]] ELSE 0]
             g2 == [j \in DOMAIN rows |-> IF rows[j].location = a /\ rows[j].bucket = b THEN PalletsOf(rows)[rows[j]] ELSE 0]
  <2>3. cartons(a, b) = f /\ balance(a, b) = g2
    BY <2>1, <2>2 DEF cartons, balance
  <2> QED
    BY <2>3 DEF PlaceTotal
<1> QED
  BY <1>2, <1>3

\* What a line sends of a container its rows of the preview take there.
LEMMA LineSends ==
  ASSUME EditorInv, NEW l, NEW bucket
  PROVE  /\ SumOf(LAMBDA a : IF a.bucket = bucket THEN a.allocated ELSE 0, LinePayload(l).allocations)
            = BucketTotal(CartonsOf(preview.rows), bucket, RowsOf(preview, l.id))
         /\ SumOf(LAMBDA a : IF a.bucket = bucket THEN a.used ELSE 0, LinePayload(l).allocations)
            = BucketTotal(PalletsOf(preview.rows), bucket, RowsOf(preview, l.id))
<1> DEFINE id == l.id
           own == RowsOf(preview, id)
           sending == LinePayload(l).allocations
           V == CartonsOf(preview.rows)
           W == PalletsOf(preview.rows)
<1>1. IsRows(own) /\ sending = AllocationPayloads(own)
  BY PageSound, PreviewSound, RowsOfSound DEF PreviewBooked, LinePayload
<1>2. \A h \in DOMAIN own : V[own[h]] = own[h].allocated /\ W[own[h]] = own[h].pallets
  <2> SUFFICES ASSUME NEW h \in DOMAIN own PROVE own[h] \in ToSet(preview.rows)
    BY DEF CartonsOf, PalletsOf
  <2>1. IsList(preview.rows)
    BY PageSound, PreviewSound DEF PreviewBooked, IsRows
  <2>2. \E j \in DOMAIN preview.rows : own[h] = preview.rows[j]
    <3> HIDE DEF id
    <3> QED
      BY <2>1, RowsOfMember
  <2> QED
    BY <2>2 DEF ToSet
<1> HIDE DEF own, sending, V, W
<1>3. /\ DOMAIN sending = DOMAIN own
      /\ \A h \in DOMAIN own : /\ sending[h].bucket = own[h].bucket
                               /\ sending[h].allocated = own[h].allocated
                               /\ sending[h].used = own[h].pallets
  BY <1>1, PayloadFields
<1>4. /\ [h \in DOMAIN sending |-> IF sending[h].bucket = bucket THEN sending[h].allocated ELSE 0]
         = [h \in DOMAIN own |-> IF own[h].bucket = bucket THEN V[own[h]] ELSE 0]
      /\ [h \in DOMAIN sending |-> IF sending[h].bucket = bucket THEN sending[h].used ELSE 0]
         = [h \in DOMAIN own |-> IF own[h].bucket = bucket THEN W[own[h]] ELSE 0]
  BY <1>2, <1>3
<1>5. /\ SumOf(LAMBDA a : IF a.bucket = bucket THEN a.allocated ELSE 0, sending) = BucketTotal(V, bucket, own)
      /\ SumOf(LAMBDA a : IF a.bucket = bucket THEN a.used ELSE 0, sending) = BucketTotal(W, bucket, own)
  BY <1>4 DEF SumOf, Each, BucketTotal
<1> QED
  BY <1>5 DEF own, sending, V, W

\* The groups of step 3 add up, per warehouse and container, to what the request will carry,
\* and no allocation is sent that no group shows.
THEOREM ReviewShowsPayloadHolds == Spec => []ReviewShowsPayload
<1>1. ASSUME EditorInv, NEW location, NEW bucket
      PROVE  /\ SentFrom(location, bucket, LAMBDA a : a.allocated)
                = PlaceTotal(CartonsOf(preview.rows), location, bucket, preview.rows)
             /\ SentFrom(location, bucket, LAMBDA a : a.used)
                = PlaceTotal(PalletsOf(preview.rows), location, bucket, preview.rows)
  <2> DEFINE V == CartonsOf(preview.rows)
             W == PalletsOf(preview.rows)
             Cartons(l) == SumOf(LAMBDA a : IF a.bucket = bucket THEN a.allocated ELSE 0, LinePayload(l).allocations)
             Pallets(l) == SumOf(LAMBDA a : IF a.bucket = bucket THEN a.used ELSE 0, LinePayload(l).allocations)
  <2>1. /\ SentFrom(location, bucket, LAMBDA a : a.allocated)
           = Summed([i \in DOMAIN lines |-> IF Leaves(lines[i], location) THEN Cartons(lines[i]) ELSE 0])
        /\ SentFrom(location, bucket, LAMBDA a : a.used)
           = Summed([i \in DOMAIN lines |-> IF Leaves(lines[i], location) THEN Pallets(lines[i]) ELSE 0])
    BY DEF SentFrom, SumOf, Each, Leaves
  <2>2. \A j \in DOMAIN preview.rows : V[preview.rows[j]] \in Int /\ W[preview.rows[j]] \in Int
    <3>1. IsRows(preview.rows)
      BY <1>1, PageSound, PreviewSound DEF PreviewBooked
    <3> QED
      BY <3>1 DEF IsRows, IsRow, ToSet, CartonsOf, PalletsOf
  <2>3. \A l : /\ Cartons(l) = BucketTotal(V, bucket, RowsOf(preview, l.id))
               /\ Pallets(l) = BucketTotal(W, bucket, RowsOf(preview, l.id))
    BY <1>1, LineSends
  <2> HIDE DEF Cartons, Pallets, V, W
  <2>4. /\ SentFrom(location, bucket, LAMBDA a : a.allocated) = LinesTotal(V, location, bucket)
        /\ SentFrom(location, bucket, LAMBDA a : a.used) = LinesTotal(W, location, bucket)
    BY <2>1, <2>3 DEF LinesTotal
  <2>5. /\ PlaceTotal(V, location, bucket, preview.rows) = LinesTotal(V, location, bucket)
        /\ PlaceTotal(W, location, bucket, preview.rows) = LinesTotal(W, location, bucket)
    BY <1>1, <2>2, ShownIsSent
  <2> QED
    BY <2>4, <2>5 DEF V, W
<1>2. ASSUME EditorInv, NEW g \in ReviewGroups(preview.rows)
      PROVE  /\ g.quantity = SentFrom(g.location, g.bucket, LAMBDA a : a.allocated)
             /\ g.pallets = SentFrom(g.location, g.bucket, LAMBDA a : a.used)
  <2>1. /\ g.quantity = PlaceTotal(CartonsOf(preview.rows), g.location, g.bucket, preview.rows)
        /\ g.pallets = PlaceTotal(PalletsOf(preview.rows), g.location, g.bucket, preview.rows)
    BY <1>2, GroupTotals
  <2> QED
    BY <1>1, <1>2, <2>1
<1>3. ASSUME EditorInv, NEW l \in ValidLines, NEW a \in ToSet(LinePayload(l).allocations)
      PROVE  Reviewed(l, a, ReviewGroups(preview.rows))
  <2> DEFINE id == l.id
             own == RowsOf(preview, id)
             rows == preview.rows
  <2>1. IsRows(rows) /\ IsRows(own) /\ LinePayload(l).allocations = AllocationPayloads(own)
    BY <1>3, PageSound, PreviewSound, RowsOfSound DEF PreviewBooked, LinePayload
  <2>2. PICK h \in DOMAIN own : a.bucket = own[h].bucket
    <3> HIDE DEF own
    <3>1. PICK h \in DOMAIN AllocationPayloads(own) : a = AllocationPayloads(own)[h]
      BY <2>1, <1>3 DEF ToSet
    <3> QED
      BY <2>1, <3>1, PayloadFields
  <2>3. PICK j \in DOMAIN rows : own[h] = rows[j] /\ rows[j].line = id
    <3> HIDE DEF id
    <3>1. own[h].line = id /\ \E i \in DOMAIN preview.rows : own[h] = preview.rows[i]
      BY <2>1, RowsOfMember DEF IsRows
    <3> QED
      BY <3>1
  <2>4. PICK i \in DOMAIN lines : /\ rows[j].line = lines[i].id /\ lines[i].source \in DOMAIN sources
                                  /\ rows[j].location = sources[lines[i].source].location
    BY <1>3, RowOwner
  <2>5. l = lines[i]
    <3>1. PICK k \in DOMAIN lines : l = lines[k]
      BY <1>3 DEF ValidLines, ToSet
    <3>2. lines[k].id = lines[i].id
      BY <2>3, <2>4, <3>1
    <3> QED
      BY <1>3, <3>1, <3>2, PageSound DEF LinesSound
  <2>6. \E g \in ReviewGroups(rows) : g.location = rows[j].location /\ g.bucket = rows[j].bucket
    <3> DEFINE Shown(group) ==
                 [location |-> group[1], bucket |-> group[2],
                  quantity |-> SumOf(LAMBDA r : IF <<r.location, r.bucket>> = group THEN r.allocated ELSE 0, rows),
                  pallets |-> SumOf(LAMBDA r : IF <<r.location, r.bucket>> = group THEN r.pallets ELSE 0, rows)]
               places == {<<r.location, r.bucket>> : r \in ToSet(rows)}
               place == <<rows[j].location, rows[j].bucket>>
    <3>1. ReviewGroups(rows) = {Shown(group) : group \in places}
      BY DEF ReviewGroups
    <3>2. place \in places
      BY DEF ToSet
    <3>3. Shown(place).location = rows[j].location /\ Shown(place).bucket = rows[j].bucket
      OBVIOUS
    <3> HIDE DEF Shown, places, place
    <3> QED
      BY <3>1, <3>2, <3>3
  <2> QED
    BY <2>2, <2>3, <2>4, <2>5, <2>6 DEF Reviewed
<1>4. EditorInv => ReviewShowsPayload
  BY <1>2, <1>3 DEF ReviewShowsPayload
<1> QED
  BY <1>4, SpecSound, PTL
=============================================================================
