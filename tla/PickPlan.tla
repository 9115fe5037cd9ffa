------------------------------ MODULE PickPlan ------------------------------
(***************************************************************************)
(* The pick plan of the shipment editor: from the lines a user typed and   *)
(* the stock the page was given, which cartons and pallets each line takes *)
(* from which bucket (OutboundShipmentEditorPage.tsx and                    *)
(* lib/outboundAllocationPayload.ts).  Pure operators, no state.            *)
(*                                                                         *)
(* A bucket is a container in a section of a warehouse.  Buckets are       *)
(* numbered in the order of their names; NoBucket is an allocation that    *)
(* names no container.  A source is one SKU in one warehouse, with the     *)
(* buckets it may be picked from as its candidates.  A candidate's id is   *)
(* <<"item", b>> for stock and <<"draft", key, b>> for a bucket that the   *)
(* document being edited allocates of a source, so that the two never      *)
(* collide.  The picks of a line are a function from candidate ids to what *)
(* is taken there.                                                         *)
(***************************************************************************)
EXTENDS Integers, Sequences, SequencesExt, Sums, TLC

CONSTANT None  \* no value
NoBucket == 0
NoPicks == <<>>

Positive(n) == IF n > 0 THEN n ELSE 0
Least(a, b) == IF a <= b THEN a ELSE b
Each(Op(_), seq) == [i \in DOMAIN seq |-> Op(seq[i])]
SumOf(Op(_), seq) == Summed(Each(Op, seq))
With(f, i, value) == [j \in DOMAIN f \cup {i} |-> IF j = i THEN value ELSE f[j]]

-----------------------------------------------------------------------------
(* Lines *)

Fulfillment(line) == Positive(line.quantity)

HasRecordedQuantity(line) == line.planned > 0 \/ line.quantity > 0

IsLineEmpty(line) ==
  /\ line.location = None /\ line.source = None /\ line.search = <<>>
  /\ line.planned <= 0 /\ line.quantity <= 0 /\ line.pallets <= 0

EmptyLine(id) ==
  [id |-> id, location |-> None, source |-> None, search |-> <<>>, planned |-> 0,
   quantity |-> 0, pallets |-> 0, picks |-> NoPicks, touched |-> FALSE]

(* Entries of one candidate are added up; the last one's pallet balance stands. *)
Selection(entries, i) ==
  LET Counts(e) == e.item = i /\ e.quantity > 0
      last == CHOOSE j \in DOMAIN entries : /\ Counts(entries[j])
                                            /\ \A h \in j + 1 .. Len(entries) : ~Counts(entries[h])
  IN [quantity |-> SumOf(LAMBDA e : IF Counts(e) THEN e.quantity ELSE 0, entries),
      pallets |-> SumOf(LAMBDA e : IF Counts(e) THEN Positive(e.pallets) ELSE 0, entries),
      starting |-> Positive(entries[last].starting), remaining |-> Positive(entries[last].remaining)]

NormalizeSelections(entries) ==
  [i \in {e.item : e \in {e \in ToSet(entries) : e.quantity > 0}} |-> Selection(entries, i)]

-----------------------------------------------------------------------------
(* Candidates, and what earlier lines leave of them *)

(* First in, first out; without an arrival date last; then by name. *)
Before(left, right) ==
  \/ left.arrival # 0 /\ (right.arrival = 0 \/ left.arrival < right.arrival)
  \/ left.arrival = right.arrival /\ left.bucket < right.bucket

InOrder(candidates) ==
  CHOOSE seq \in [1 .. Cardinality(candidates) -> candidates] :
    \A i, j \in DOMAIN seq : i < j => Before(seq[i], seq[j])

AtItem(reserved, i) ==
  IF i \in DOMAIN reserved THEN reserved[i] ELSE [quantity |-> 0, pallets |-> 0]

(* Mutant: every line sees all that is available. *)
LeftOfStock(c, reserved) ==
  LET r == AtItem(reserved, c.id)
  IN [c EXCEPT !.availPallets = Positive(c.availPallets - r.pallets),
               !.onHand = Positive(c.onHand - r.quantity),
               !.onHandPallets = Positive(c.onHandPallets - r.pallets)]

(* The candidate after what the lines before this one take from it. *)
Left(c, reserved) ==
  LET r == AtItem(reserved, c.id)
  IN [c EXCEPT !.avail = Positive(c.avail - r.quantity),
               !.availPallets = Positive(c.availPallets - r.pallets),
               !.onHand = Positive(c.onHand - r.quantity),
               !.onHandPallets = Positive(c.onHandPallets - r.pallets)]

RemainingPallets(taken, startingQty, startingPallets) ==
  IF taken >= startingQty THEN 0 ELSE startingPallets

RemainingBalance(source, reserved) ==
  SumOf(LAMBDA c : Left(c, reserved).avail, source.candidates)

AutomaticPallets(availableQty, pallets, allocated) ==
  IF availableQty <= 0 \/ pallets <= 0 \/ allocated <= 0 THEN 0
  ELSE IF allocated >= availableQty THEN pallets
  ELSE LET share == (pallets * allocated + availableQty - 1) \div availableQty
       IN Least(pallets, IF share < 1 THEN 1 ELSE share)

(* The automatic pick: in order, from each candidate what it has. *)
AutomaticPick(left, n) ==
  [quantity |-> n, pallets |-> AutomaticPallets(left.avail, left.onHandPallets, n),
   starting |-> left.onHandPallets,
   remaining |-> RemainingPallets(n, left.onHand, left.onHandPallets)]

TakeFrom(acc, id, left, n) ==
  IF n <= 0 THEN acc
  ELSE [need |-> acc.need - n, picks |-> With(acc.picks, id, AutomaticPick(left, n))]

AutoSelections(quantity, candidates, reserved) ==
  Accumulate(LAMBDA acc, c : TakeFrom(acc, c.id, Left(c, reserved), Least(Left(c, reserved).avail, acc.need)),
             [need |-> quantity, picks |-> NoPicks], InOrder(ToSet(candidates))).picks

(* A line the user picked by hand keeps its picks. *)
EffectiveSelections(line, source, reserved) ==
  IF line.touched THEN line.picks
  ELSE AutoSelections(Fulfillment(line), source.candidates, reserved)

(* Mutant: the pallets touched instead of the pallets released. *)
ReserveTouched(reserved, picks) ==
  [i \in DOMAIN reserved \cup DOMAIN picks |->
    LET r == AtItem(reserved, i)
    IN IF i \notin DOMAIN picks THEN r
       ELSE [quantity |-> r.quantity + picks[i].quantity, pallets |-> r.pallets + 1]]

Reserve(reserved, picks) ==
  [i \in DOMAIN reserved \cup DOMAIN picks |->
    LET r == AtItem(reserved, i)
    IN IF i \notin DOMAIN picks THEN r
       ELSE [quantity |-> r.quantity + picks[i].quantity,
             pallets |-> r.pallets + IF picks[i].starting > 0
                                     THEN Positive(picks[i].starting - picks[i].remaining)
                                     ELSE picks[i].pallets]]

(* What the lines before each line reserve, as step 2 shows it. *)
LineReserved(acc, line, picks) ==
  [byLine |-> With(acc.byLine, line.id, acc.reserved[line.source]),
   reserved |-> [acc.reserved EXCEPT ![line.source] = Reserve(@, picks)]]

ReserveLine(acc, line, sources) ==
  IF line.source \notin DOMAIN sources
  THEN [acc EXCEPT !.byLine = With(@, line.id, NoPicks)]
  ELSE LineReserved(acc, line, EffectiveSelections(line, sources[line.source], acc.reserved[line.source]))

ReservationsByLine(lines, sources) ==
  Accumulate(LAMBDA acc, line : ReserveLine(acc, line, sources),
             [byLine |-> <<>>, reserved |-> [k \in DOMAIN sources |-> NoPicks]], lines).byLine

-----------------------------------------------------------------------------
(* The preview: the rows that are reviewed and sent *)

PreviewRow(line, picks, c, reserved) ==
  LET left == Left(c, reserved)
      taken == Least(picks[c.id].quantity, left.avail)
  IN [line |-> line.id, item |-> c.id, bucket |-> c.bucket, location |-> c.location,
      available |-> left.avail, availablePallets |-> left.availPallets,
      startingQty |-> left.onHand, startingPallets |-> left.onHandPallets,
      allocated |-> taken,
      pallets |-> Least(Positive(picks[c.id].pallets), left.onHandPallets),
      remaining |-> RemainingPallets(taken, left.onHand, left.onHandPallets)]

AddRow(rows, picked, row) == IF picked /\ row.allocated > 0 THEN Append(rows, row) ELSE rows

LineRows(line, picks, candidates, reserved) ==
  Accumulate(LAMBDA rows, c : AddRow(rows, c.id \in DOMAIN picks, PreviewRow(line, picks, c, reserved)),
             <<>>, candidates)

LineSummary(line, allocated) ==
  [requested |-> Fulfillment(line), allocated |-> allocated,
   shortage |-> Positive(Fulfillment(line) - allocated)]

(* A row hands on the pallets that it releases. *)
TakenBy(rows) ==
  [i \in {r.item : r \in ToSet(rows)} |->
    [quantity |-> SumOf(LAMBDA r : IF r.item = i THEN r.allocated ELSE 0, rows), pallets |-> 0,
     starting |-> SumOf(LAMBDA r : IF r.item = i THEN r.startingPallets ELSE 0, rows),
     remaining |-> SumOf(LAMBDA r : IF r.item = i THEN r.remaining ELSE 0, rows)]]

WithLine(acc, line, rows) ==
  [rows |-> acc.rows \o rows,
   summaries |-> With(acc.summaries, line.id, LineSummary(line, SumOf(LAMBDA r : r.allocated, rows))),
   reserved |-> [acc.reserved EXCEPT ![line.source] = Reserve(@, TakenBy(rows))]]

PreviewOfLine(line, source, reserved) ==
  LineRows(line, EffectiveSelections(line, source, reserved), source.candidates, reserved)

AllocateLine(acc, line, sources) ==
  IF line.source \notin DOMAIN sources \/ Fulfillment(line) = 0 THEN acc
  ELSE WithLine(acc, line, PreviewOfLine(line, sources[line.source], acc.reserved[line.source]))

AllocationPreview(lines, sources) ==
  Accumulate(LAMBDA acc, line : AllocateLine(acc, line, sources),
             [rows |-> <<>>, summaries |-> <<>>, reserved |-> [k \in DOMAIN sources |-> NoPicks]], lines)

RowsOf(preview, id) ==
  Accumulate(LAMBDA rows, r : IF r.line = id THEN Append(rows, r) ELSE rows, <<>>, preview.rows)

(* The rows of step 2: every candidate, with what the line selects there. *)
PickPlanRow(line, c, left, pick) ==
  [line |-> line.id, item |-> c.id,
   available |-> left.avail, startingQty |-> left.onHand, startingPallets |-> left.onHandPallets,
   allocated |-> pick.quantity, pallets |-> Least(Positive(pick.pallets), left.onHandPallets),
   remaining |-> RemainingPallets(pick.quantity, left.onHand, left.onHandPallets)]

PickPlanRowsWith(line, candidates, reserved, picks) ==
  Each(LAMBDA c : PickPlanRow(line, c, Left(c, reserved), AtItem(picks, c.id)), candidates)

PickPlanRows(line, source, reserved) ==
  PickPlanRowsWith(line, source.candidates, reserved, EffectiveSelections(line, source, reserved))

(* Step 3 groups the rows by warehouse and container. *)
ReviewGroups(rows) ==
  {[location |-> group[1], bucket |-> group[2],
    quantity |-> SumOf(LAMBDA r : IF <<r.location, r.bucket>> = group THEN r.allocated ELSE 0, rows),
    pallets |-> SumOf(LAMBDA r : IF <<r.location, r.bucket>> = group THEN r.pallets ELSE 0, rows)] :
     group \in {<<r.location, r.bucket>> : r \in ToSet(rows)}}

-----------------------------------------------------------------------------
(* Searching a source *)

(* The label names the SKU and its only container, or how many there are. *)
SourceLabel(source) ==
  IF source.containerCount <= 1
  THEN <<source.sku, "container",
         IF source.candidates = <<>> THEN NoBucket ELSE Head(source.candidates).bucket>>
  ELSE <<source.sku, "containers", source.containerCount>>

CandidateLabel(source, c) == <<source.sku, "container", c.bucket>>

Labels(source) ==
  {SourceLabel(source)} \cup {CandidateLabel(source, c) : c \in ToSet(source.candidates)}

(* Labels first; only if there is none, the SKU itself. *)
ExactSearchMatches(sources, text) ==
  LET byLabel == {k \in DOMAIN sources : text \in Labels(sources[k])}
  IN IF text = <<>> THEN {}
     ELSE IF byLabel # {} THEN byLabel
     ELSE {k \in DOMAIN sources : text = <<sources[k].sku>>}

FindBySearch(sources, text) ==
  LET found == ExactSearchMatches(sources, text)
  IN IF \E k \in found : found = {k} THEN CHOOSE k \in found : TRUE ELSE None

FilterBySkuSearch(sources, text) ==
  {k \in DOMAIN sources : text \in Labels(sources[k]) \/ text = <<sources[k].sku>>}

FilterByLocation(sources, keys, location) ==
  {k \in keys : location # None /\ sources[k].location = location}

-----------------------------------------------------------------------------
(* The sources that may be selected *)

(* Less than none counts as none, and is not offered. *)
AvailableQty(item) == item.quantity - item.allocated - item.damaged - item.hold

(* Buckets with something available; other stock is not offered. *)
ItemCandidate(item, b) ==
  [id |-> <<"item", b>>, bucket |-> b, location |-> item.location,
   avail |-> AvailableQty(item), availPallets |-> item.pallets,
   onHand |-> item.quantity, onHandPallets |-> item.pallets, arrival |-> item.arrival]

SourceOf(key, item, candidates) ==
  [key |-> key, sku |-> item.sku, location |-> item.location,
   containerCount |-> Len(candidates), candidates |-> candidates]

SourceFrom(stock, key, buckets) ==
  SourceOf(key, stock[CHOOSE b \in buckets : TRUE],
           InOrder({ItemCandidate(stock[b], b) : b \in buckets}))

SourcesFromOffered(stock, offered) ==
  [k \in {stock[b].source : b \in offered} |->
    SourceFrom(stock, k, {b \in offered : stock[b].source = k})]

SourcesFromItems(stock) ==
  SourcesFromOffered(stock, {b \in DOMAIN stock : AvailableQty(stock[b]) > 0})

(* A line may be planned where there is no stock yet. *)
PlanOnlyKeys(references, lines) ==
  {k \in DOMAIN references : \E i \in DOMAIN lines :
     \/ lines[i].source = k
     \/ /\ lines[i].search \in {<<references[k].sku>>, <<references[k].sku, "container", NoBucket>>}
        /\ lines[i].location \in {None, references[k].location}}

PlanOnlySource(key, reference) ==
  [key |-> key, sku |-> reference.sku, location |-> reference.location,
   containerCount |-> 0, candidates |-> <<>>]

BaseSources(offered, references, planOnly) ==
  [k \in DOMAIN offered \cup planOnly |->
    IF k \in DOMAIN offered THEN offered[k] ELSE PlanOnlySource(k, references[k])]

(* A line saved without allocations stands for one that names no container. *)
PersistedAllocations(line) ==
  IF line.allocations # <<>> THEN line.allocations
  ELSE <<[bucket |-> NoBucket,
          allocated |-> IF line.quantity > 0 THEN line.quantity ELSE line.planned,
          pallets |-> 0, used |-> 0, starting |-> 0, remaining |-> 0]>>

PersistedCandidateID(key, bucket) == <<"draft", key, bucket>>

SourceAllocations(document, key) ==
  Accumulate(LAMBDA all, l : IF l.source = key THEN all \o PersistedAllocations(l) ELSE all,
             <<>>, document.lines)

(* The document's own allocations as candidates: cartons and pallets of one *)
(* bucket add up, its stock on hand is the first allocation's.              *)
FirstAllocation(b, allocations) ==
  allocations[CHOOSE i \in DOMAIN allocations : /\ allocations[i].bucket = b
                                                /\ \A j \in 1 .. i - 1 : allocations[j].bucket # b]

PersistedCandidate(key, b, location, allocations) ==
  [id |-> PersistedCandidateID(key, b), bucket |-> b, location |-> location,
   avail |-> SumOf(LAMBDA a : IF a.bucket = b THEN Positive(a.allocated) ELSE 0, allocations),
   availPallets |-> SumOf(LAMBDA a : IF a.bucket = b THEN Positive(a.pallets) ELSE 0, allocations),
   onHand |-> Positive(FirstAllocation(b, allocations).allocated),
   onHandPallets |-> Positive(FirstAllocation(b, allocations).starting), arrival |-> 0]

PersistedSource(key, reference, allocations) ==
  [key |-> key, sku |-> reference.sku, location |-> reference.location,
   containerCount |-> Cardinality({a.bucket : a \in ToSet(allocations)} \ {NoBucket}),
   candidates |-> InOrder({PersistedCandidate(key, b, reference.location, allocations) :
                             b \in {a.bucket : a \in ToSet(allocations)}})]

PersistedSources(document, references) ==
  [k \in {l.source : l \in ToSet(document.lines)} |->
    PersistedSource(k, references[k], SourceAllocations(document, k))]

(* Only a draft that is being picked holds its cartons: they are added back. *)
RestoresReservations(document) ==
  document.status = "DRAFT" /\ document.tracking \in {"PICKING", "PACKED"}

Emptied(c) == [c EXCEPT !.avail = 0, !.availPallets = 0, !.onHand = 0, !.onHandPallets = 0]

In(bucket, candidates) == \E c \in candidates : c.bucket = bucket
OfBucket(bucket, candidates) == CHOOSE c \in candidates : c.bucket = bucket

(* Mutant: the document's own reservation is counted against it. *)
LiveCandidates(live, persisted, restore) ==
  InOrder({IF In(p.bucket, ToSet(live)) THEN [OfBucket(p.bucket, ToSet(live)) EXCEPT !.id = p.id] ELSE Emptied(p) :
             p \in ToSet(persisted)})

WithOwn(c, own, restore) ==
  [c EXCEPT !.id = own.id,
            !.avail = @ + IF restore THEN own.avail ELSE 0,
            !.availPallets = @ + IF restore THEN own.availPallets ELSE 0]

MergedCandidate(own, live, restore) ==
  IF In(own.bucket, live) THEN WithOwn(OfBucket(own.bucket, live), own, restore)
  ELSE IF restore THEN own ELSE Emptied(own)

MergedCandidates(live, persisted, restore) ==
  InOrder({MergedCandidate(p, ToSet(live), restore) : p \in ToSet(persisted)}
          \cup {c \in ToSet(live) : ~In(c.bucket, ToSet(persisted))})

MergedSource(base, persisted, key, restore) ==
  IF key \in DOMAIN base
  THEN [base[key] EXCEPT !.candidates = MergedCandidates(@, persisted[key].candidates, restore)]
  ELSE IF restore THEN persisted[key]
  ELSE [persisted[key] EXCEPT !.candidates = Each(Emptied, @)]

MergedSources(base, persisted, selected, restore) ==
  [k \in DOMAIN base \cup selected |->
    IF k \in selected THEN MergedSource(base, persisted, k, restore) ELSE base[k]]

SelectedSources(lines, base, persisted, restore) ==
  MergedSources(base, persisted, {lines[i].source : i \in DOMAIN lines} \cap DOMAIN persisted, restore)

SelectableSources(lines, stock, references, document) ==
  SelectedSources(lines, BaseSources(SourcesFromItems(stock), references, PlanOnlyKeys(references, lines)),
                  PersistedSources(document, references), RestoresReservations(document))

-----------------------------------------------------------------------------
(* What a line still needs before it may be saved *)

Available(source) == SumOf(LAMBDA c : c.avail, source.candidates)

(* Pallets of a row must exist, and stay exactly as long as cartons stay. *)
PalletBalanceValid(row) ==
  LET left == row.startingQty - row.allocated
  IN /\ row.pallets \in 0 .. row.startingPallets
     /\ row.remaining \in 0 .. row.startingPallets
     /\ row.startingPallets - row.remaining <= row.availablePallets
     /\ (left = 0 => row.remaining = 0)
     /\ (left > 0 => row.remaining # 0)

(* What step 1 asks of a line: a SKU, its warehouse, and a quantity in stock. *)
LineBlocked(line, text, matching, over) ==
  /\ ~IsLineEmpty(line)
  /\ \/ text = <<>> /\ line.source = None
     \/ matching = {}
     \/ line.location # None /\ line.source = None
     \/ (text # <<>> \/ line.source # None) /\ line.location = None
     \/ line.source # None /\ ~HasRecordedQuantity(line)
     \/ over

(* What step 2 asks of a line: that its cartons are picked. *)
PicksIncomplete(line, rows) ==
  /\ Fulfillment(line) > 0
  /\ \/ SumOf(LAMBDA r : r.allocated, rows) # Fulfillment(line)
     \/ \E r \in ToSet(rows) : ~PalletBalanceValid(r)

LineChecks(line, blocked, incomplete) ==
  [active |-> ~IsLineEmpty(line), step1 |-> blocked, step2 |-> ~blocked /\ incomplete]

LineText(line, sources) ==
  IF line.search # <<>> \/ line.source \notin DOMAIN sources THEN line.search
  ELSE SourceLabel(sources[line.source])

BlockedWith(line, text, sources) ==
  LineBlocked(line, text, IF text = <<>> THEN {} ELSE FilterBySkuSearch(sources, text),
              /\ line.source \in DOMAIN sources
              /\ Fulfillment(line) > Available(sources[line.source]))

LineValidation(line, sources, preview) ==
  LineChecks(line, BlockedWith(line, LineText(line, sources), sources),
             line.source \in DOMAIN sources /\ PicksIncomplete(line, RowsOf(preview, line.id)))

(* Mutant: checked when step 3 was entered, not again. *)
StepOverviewOnce(lines, validations, preview) ==
  [ready |-> Len(lines), blocked |-> 0, shortage |-> 0, status |-> "ready"]

Overview(ready, blocked, requested, allocated, shortage) ==
  [ready |-> ready, blocked |-> blocked, shortage |-> shortage,
   status |-> IF shortage > 0 THEN "shortage"
              ELSE IF ready = 0 \/ allocated # requested THEN "incomplete" ELSE "ready"]

ActiveLines(lines, validations, blocked) ==
  Cardinality({i \in DOMAIN lines :
    validations[lines[i].id].active /\ validations[lines[i].id].step1 = blocked})

ShortLines(lines, preview) ==
  {i \in DOMAIN lines :
    lines[i].id \in DOMAIN preview.summaries /\ preview.summaries[lines[i].id].shortage > 0}

SummaryAt(id, preview) ==
  IF id \in DOMAIN preview.summaries THEN preview.summaries[id] ELSE [requested |-> 0, allocated |-> 0]

StepOverview(lines, validations, preview) ==
  Overview(ActiveLines(lines, validations, FALSE), ActiveLines(lines, validations, TRUE),
           SumOf(LAMBDA l : SummaryAt(l.id, preview).requested, lines),
           SumOf(LAMBDA l : SummaryAt(l.id, preview).allocated, lines),
           Cardinality(ShortLines(lines, preview)))

-----------------------------------------------------------------------------
(* The request *)

(* Mutant: the pallets of a bucket that keeps cartons are not reported. *)
AllocationPayloadsReleased(rows) ==
  [i \in DOMAIN rows |->
    LET left == RemainingPallets(rows[i].allocated, rows[i].startingQty, rows[i].startingPallets)
    IN [bucket |-> rows[i].bucket, allocated |-> rows[i].allocated,
        pallets |-> rows[i].startingPallets - left,
        used |-> rows[i].startingPallets - left, starting |-> rows[i].startingPallets,
        remaining |-> left]]

AllocationPayload(row, left) ==
  [bucket |-> row.bucket, allocated |-> Positive(row.allocated),
   pallets |-> Positive(row.startingPallets - left), used |-> Positive(row.pallets),
   starting |-> Positive(row.startingPallets), remaining |-> left]

AllocationPayloads(rows) ==
  Each(LAMBDA r : AllocationPayload(r, RemainingPallets(Positive(r.allocated), Positive(r.startingQty),
                                                        Positive(r.startingPallets))), rows)
=============================================================================
