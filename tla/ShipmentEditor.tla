--------------------------- MODULE ShipmentEditor ---------------------------
(***************************************************************************)
(* The shipment editor page (OutboundShipmentEditorPage.tsx): three steps, *)
(* lines that are picked automatically or by hand, a review that must be   *)
(* confirmed, and the payload that is sent.  The stock it plans from is a  *)
(* copy, which a refresh replaces while the page is open.                  *)
(*                                                                         *)
(* One action is one event handler.  The setters of React that a handler   *)
(* calls take effect together when it ends.                                *)
(***************************************************************************)
EXTENDS PickPlan

CONSTANTS
  MaxLines,         \* a bound on the lines of a document
  Sources,          \* source key -> [sku, location]
  Openings,         \* how the page may be opened: the document (NoDocument is a new
                    \* one), whether the user may manage, and a bound on the lines
  Stocks,           \* the stock the server may answer with
  Quantities,       \* numbers typed into quantity fields
  Planned,          \* numbers typed into the planned quantity
  PalletInputs      \* numbers typed into pallet fields

NoDocument == [status |-> "NEW", tracking |-> "NEW", lines |-> <<>>]
LineIds == 1 .. MaxLines

(* What is stored: amounts are never negative, and name what exists. *)
SavedAllocations ==
  [bucket : Nat, allocated : Nat, pallets : Nat, used : Nat, starting : Nat, remaining : Nat]
SavedLines ==
  [source : DOMAIN Sources, planned : Nat, quantity : Nat, pallets : Nat, allocations : Seq(SavedAllocations)]

IsItem(item) ==
  /\ item.source \in DOMAIN Sources /\ item.location = Sources[item.source].location
  /\ item.quantity \in Nat /\ item.allocated \in Nat /\ item.damaged \in Nat /\ item.hold \in Nat
  /\ item.pallets \in Nat /\ item.arrival \in Nat

ASSUME MaxLinesAssumption == MaxLines \in Nat \ {0}
ASSUME InputsAssumption ==
  /\ Quantities \subseteq Nat /\ Planned \subseteq Nat /\ PalletInputs \subseteq Nat
  /\ None \notin DOMAIN Sources
ASSUME StocksAssumption ==
  \A items \in Stocks : /\ IsFiniteSet(DOMAIN items) /\ DOMAIN items \subseteq Nat \ {NoBucket}
                        /\ \A b \in DOMAIN items : IsItem(items[b])
ASSUME OpeningsAssumption ==
  \A o \in Openings : /\ o.maxLines \in 0 .. MaxLines
                      /\ o.document.lines \in Seq(SavedLines) /\ Len(o.document.lines) <= MaxLines

VARIABLES
  opening,          \* the document being edited, and by whom
  stock,            \* the items the page was given
  lines, step,
  reviewed,         \* the checkbox of step 3
  sent,             \* the last payload: a function from line ids to allocations
  shown             \* what the last rendering derived from opening, stock and lines

vars == <<opening, stock, lines, step, reviewed, sent, shown>>

Closed == 0
Nothing == [final |-> FALSE, lines |-> <<>>]

-----------------------------------------------------------------------------
(* Derived on every render *)

document == opening.document

RowsShown(ls, all, rows) ==
  [sources |-> all, preview |-> rows, reservations |-> ReservationsByLine(ls, all),
   validations |-> [id \in {l.id : l \in ToSet(ls)} |->
                     LineValidation((CHOOSE l \in ToSet(ls) : l.id = id), all, rows)]]

LinesShown(ls, all) == RowsShown(ls, all, AllocationPreview(ls, all))

Rendered(ls, items, doc) == LinesShown(ls, SelectableSources(ls, items, Sources, doc))

sources == shown.sources
preview == shown.preview
reservations == shown.reservations
validations == shown.validations
overview == StepOverview(lines, validations, preview)

Editable == opening.canManage /\ document.status \in {"NEW", "DRAFT"}
HasSources == DOMAIN sources # {} \/ document.status = "DRAFT"

-----------------------------------------------------------------------------
(* Opening the page *)

HydratedLine(line, id) ==
  LET picks == NormalizeSelections([i \in DOMAIN line.allocations |->
                 [item |-> PersistedCandidateID(line.source, line.allocations[i].bucket),
                  quantity |-> line.allocations[i].allocated,
                  pallets |-> line.allocations[i].used,
                  starting |-> line.allocations[i].starting,
                  remaining |-> line.allocations[i].remaining]])
  IN [id |-> id, location |-> Sources[line.source].location, source |-> line.source,
      search |-> <<>>, planned |-> line.planned, quantity |-> line.quantity,
      pallets |-> IF line.quantity > 0 THEN Positive(line.pallets) ELSE 0,
      picks |-> picks, touched |-> line.allocations # <<>>]

EditorLines(doc) ==
  IF doc.lines = <<>> THEN <<EmptyLine(1)>>
  ELSE [i \in DOMAIN doc.lines |-> HydratedLine(doc.lines[i], i)]

(* What a draft in picking holds is part of what is allocated. *)
Answers(doc) ==
  {s \in Stocks : RestoresReservations(doc) =>
     \A b \in DOMAIN s :
       SumOf(LAMBDA l : SumOf(LAMBDA a : IF a.bucket = b THEN a.allocated ELSE 0, l.allocations),
             doc.lines) <= s[b].allocated}

Init ==
  /\ opening \in Openings
  /\ stock \in Answers(document)
  /\ lines = EditorLines(document)
  /\ step = 1
  /\ reviewed = FALSE
  /\ sent = Nothing
  /\ shown = Rendered(lines, stock, document)

-----------------------------------------------------------------------------
(* Editing.  Any change of the lines withdraws the review. *)

SetLines(new) ==
  /\ lines' = new
  /\ reviewed' = FALSE
  /\ shown' = Rendered(new, stock, document)
  /\ UNCHANGED <<opening, stock, step, sent>>

SetLine(i, line) == SetLines([lines EXCEPT ![i] = line])

CandidatesOf(key) == IF key \in DOMAIN sources THEN sources[key].candidates ELSE <<>>

AutoPicked(quantity, key) == AutoSelections(quantity, CandidatesOf(key), NoPicks)

LineDefaults(line, key) ==
  [line EXCEPT !.location = sources[key].location, !.source = key,
               !.search = SourceLabel(sources[key]),
               !.picks = AutoPicked(Fulfillment(line), key), !.touched = FALSE]

(* A line without a source keeps nothing of the previous one. *)
Unpicked(line) ==
  [line EXCEPT !.source = None, !.planned = 0, !.quantity = 0, !.pallets = 0,
               !.picks = NoPicks, !.touched = FALSE]

AddLine ==
  /\ step = 1 /\ Editable /\ Len(lines) < opening.maxLines
  /\ \E id \in LineIds :
       /\ \A i \in DOMAIN lines : lines[i].id # id
       /\ SetLines(Append(lines, EmptyLine(id)))

RemoveLine(i) ==
  /\ step \in 1 .. 2 /\ Editable /\ Len(lines) > 1
  /\ SetLines(RemoveAt(lines, i))

(* Typing a SKU finds its source, in the warehouse of the line if it has one. *)
Found(line, matching, found, text) ==
  IF text = <<>> THEN [Unpicked(line) EXCEPT !.search = <<>>, !.location = None]
  ELSE IF found # None THEN LineDefaults([line EXCEPT !.search = text], found)
  ELSE [Unpicked(line) EXCEPT !.search = text,
          !.location = IF \E k \in matching : sources[k].location = line.location
                       THEN line.location ELSE None]

FindIn(keys, text) == FindBySearch([k \in keys |-> sources[k]], text)

Typed(line, matching, text) ==
  Found(line, matching, FindIn(FilterByLocation(sources, matching, line.location), text), text)

TypeSource(i, text) ==
  /\ step = 1 /\ Editable
  /\ SetLine(i, Typed(lines[i], FilterBySkuSearch(sources, text), text))

Moved(line, here, found, location) ==
  IF line.source \in here THEN [line EXCEPT !.location = location]
  ELSE IF found # None THEN LineDefaults([line EXCEPT !.location = location], found)
  ELSE [Unpicked(line) EXCEPT !.location = location]

MovedTo(line, here, location) == Moved(line, here, FindIn(here, line.search), location)

ChooseWarehouse(i, location) ==
  /\ step = 1 /\ Editable
  /\ lines[i].search # <<>> \/ lines[i].source \in DOMAIN sources
  /\ SetLine(i, MovedTo(lines[i], FilterByLocation(sources, DOMAIN sources, location), location))

TypePlanned(i, n) ==
  LET line == lines[i]
  IN /\ step = 1 /\ Editable /\ line.source \in DOMAIN sources
     /\ SetLine(i, [line EXCEPT !.planned = n,
                      !.picks = IF line.touched THEN line.picks
                                ELSE AutoPicked(Fulfillment(line), line.source)])

(* The field is capped by what earlier lines leave of the source. *)
WithQuantity(line, n) ==
  IF n = 0
  THEN [line EXCEPT !.quantity = 0, !.pallets = 0, !.picks = NoPicks, !.touched = FALSE]
  ELSE [line EXCEPT !.planned = IF @ > 0 THEN @ ELSE n, !.quantity = n,
                    !.picks = IF line.touched THEN @ ELSE AutoPicked(n, line.source)]

TypeQuantity(i, typed) ==
  /\ step = 1 /\ Editable /\ lines[i].source \in DOMAIN sources
  /\ SetLine(i, WithQuantity(lines[i], Least(typed, RemainingBalance(sources[lines[i].source],
                                                                    reservations[lines[i].id]))))

TypePallets(i, n) ==
  /\ step = 1 /\ Editable /\ lines[i].source \in DOMAIN sources /\ lines[i].quantity > 0
  /\ SetLine(i, [lines[i] EXCEPT !.pallets = n])

(* The first touch of a pick freezes what the automatic plan shows. *)
StartManual(line) ==
  IF line.touched THEN line
  ELSE [line EXCEPT !.picks = EffectiveSelections(line, sources[line.source], reservations[line.id]),
                    !.touched = TRUE]

(* Mutant: a pick that is cleared stays as a pick of nothing. *)
KeepEmptyPick(line, row, n) ==
  [line EXCEPT !.picks = With(@, row.item, [quantity |-> n, pallets |-> 0, starting |-> row.startingPallets,
                                            remaining |-> row.startingPallets])]

WithPick(line, row, n) ==
  [line EXCEPT !.picks =
    IF n = 0 THEN [k \in DOMAIN @ \ {row.item} |-> @[k]]
    ELSE With(@, row.item,
              [quantity |-> n,
               pallets |-> IF row.item \in DOMAIN @ THEN @[row.item].pallets
                           ELSE AutomaticPallets(row.available, row.startingPallets, n),
               starting |-> row.startingPallets,
               remaining |-> RemainingPallets(n, row.startingQty, row.startingPallets)])]

TypePickQuantity(i, row, typed) ==
  /\ step = 2 /\ Editable
  /\ SetLine(i, WithPick(StartManual(lines[i]), row, Least(row.available, typed)))

WithPallets(line, item, n) == [line EXCEPT !.picks[item].pallets = n]

TypePickPallets(i, row, typed) ==
  /\ step = 2 /\ Editable /\ row.allocated > 0
  /\ row.item \in DOMAIN StartManual(lines[i]).picks
  /\ SetLine(i, WithPallets(StartManual(lines[i]), row.item, Least(row.startingPallets, typed)))

-----------------------------------------------------------------------------
(* Steps, review and submission *)

(* Lines are checked one by one; picks only where they are needed. *)
DraftValid(picksReady) ==
  /\ \E id \in DOMAIN validations : validations[id].active
  /\ \A id \in DOMAIN validations :
       validations[id].active => ~validations[id].step1 /\ (picksReady => ~validations[id].step2)

MoveTo(next) ==
  /\ Editable /\ next # step /\ step # Closed
  /\ next = 2 => DraftValid(FALSE)
  /\ next = 3 => DraftValid(TRUE)
  /\ step' = next
  /\ UNCHANGED <<opening, stock, lines, reviewed, sent, shown>>

ConfirmReview ==
  /\ step = 3 /\ Editable
  /\ reviewed' = ~reviewed
  /\ UNCHANGED <<opening, stock, lines, step, sent, shown>>

IsValid(line) == line.source # None /\ HasRecordedQuantity(line)
ValidLines == {l \in ToSet(lines) : IsValid(l)}

(* Each line with its rows of the preview. *)
LinePayload(line) ==
  [source |-> line.source, planned |-> line.planned, actual |-> line.quantity,
   pallets |-> IF line.quantity > 0 THEN line.pallets ELSE 0,
   allocations |-> AllocationPayloads(RowsOf(preview, line.id))]

Payload ==
  [id \in {l.id : l \in ValidLines} |-> LinePayload(CHOOSE l \in ValidLines : l.id = id)]

(* A line whose source is gone stops the request.  Saved, the page is left. *)
Submit(final) ==
  /\ DraftValid(FALSE)
  /\ \A l \in ValidLines : l.source \in DOMAIN sources
  /\ sent' = [final |-> final, lines |-> Payload]
  /\ step' = Closed /\ lines' = <<>> /\ reviewed' = FALSE
  /\ shown' = Rendered(<<>>, stock, document)
  /\ UNCHANGED <<opening, stock>>

(* "Save" on steps 1 and 2 *)
SaveDraft == step \in 1 .. 2 /\ Editable /\ HasSources /\ Submit(FALSE)

(* The submit button of step 3 *)
Schedule ==
  /\ step = 3 /\ Editable /\ HasSources /\ reviewed /\ overview.status = "ready"
  /\ Submit(TRUE)

(* New items come with a reload of the workspace's data, as when a file is *)
(* attached to a saved document.                                           *)
Refresh ==
  /\ document # NoDocument /\ opening.canManage /\ step # Closed
  /\ \E items \in Answers(document) :
       stock' = items /\ shown' = Rendered(lines, items, document)
  /\ UNCHANGED <<opening, lines, step, reviewed, sent>>

Texts ==
  {<<>>} \cup {<<Sources[k].sku>> : k \in DOMAIN Sources}
  \cup UNION {Labels(sources[k]) : k \in DOMAIN sources}

ShownRows(i) ==
  IF step # 2 \/ lines[i].source \notin DOMAIN sources THEN {}
  ELSE ToSet(PickPlanRows(lines[i], sources[lines[i].source], reservations[lines[i].id]))

Next ==
  \/ AddLine \/ ConfirmReview \/ SaveDraft \/ Schedule \/ Refresh
  \/ \E s \in 1 .. 3 : MoveTo(s)
  \/ \E i \in DOMAIN lines :
       \/ RemoveLine(i)
       \/ \E t \in Texts : TypeSource(i, t)
       \/ \E k \in DOMAIN Sources : ChooseWarehouse(i, Sources[k].location)
       \/ \E n \in Planned : TypePlanned(i, n)
       \/ \E n \in Quantities : TypeQuantity(i, n)
       \/ \E n \in PalletInputs : TypePallets(i, n)
       \/ \E row \in ShownRows(i) :
            \/ \E n \in Quantities : TypePickQuantity(i, row, n)
            \/ \E n \in PalletInputs : TypePickPallets(i, row, n)

Spec == Init /\ [][Next]_vars

-----------------------------------------------------------------------------
(* Properties *)

(* What the page holds: lines that name known sources, and picks that take  *)
(* something, whichever fields were filled and emptied again.               *)
TypeOK ==
  /\ opening \in Openings /\ stock \in Stocks
  /\ step \in {Closed, 1, 2, 3} /\ reviewed \in BOOLEAN
  /\ Len(lines) <= Cardinality(LineIds)
  /\ \A i \in DOMAIN lines :
       /\ lines[i].id \in LineIds
       /\ lines[i].source \in DOMAIN Sources \cup {None}
       /\ lines[i].quantity \in Nat /\ lines[i].pallets \in Nat /\ lines[i].planned \in Nat
       /\ \A item \in DOMAIN lines[i].picks : lines[i].picks[item].quantity > 0

Candidates == UNION {ToSet(sources[k].candidates) : k \in DOMAIN sources}
TakenOf(item, rows) == SumOf(LAMBDA r : IF r.item = item THEN r.allocated ELSE 0, rows)

(* Lines of one order that draw on the same bucket, picked by hand or not,  *)
(* before or after a refresh, together never take more than is available.  *)
NeverOverbooked == \A c \in Candidates : TakenOf(c.id, preview.rows) <= c.avail

(* The rows of a bucket hand its pallets on: what one row leaves, the next  *)
(* one starts from, so that no pallet is released twice.                    *)
HandedOn(c, rows) ==
  \A j \in DOMAIN rows : rows[j].item = c.id =>
    \/ /\ \A i \in 1 .. j - 1 : rows[i].item # c.id
       /\ rows[j].startingPallets = c.onHandPallets
    \/ \E i \in 1 .. j - 1 :
         /\ rows[i].item = c.id /\ rows[j].startingPallets = rows[i].remaining
         /\ \A h \in i + 1 .. j - 1 : rows[h].item # c.id

PalletsReleasedOnce == \A c \in Candidates : HandedOn(c, preview.rows)

(* What is scheduled at the end of step 3 is complete: every carton of the  *)
(* actual quantity has a bucket, whatever was changed on the way.           *)
ScheduledIsPicked ==
  sent.final => \A id \in DOMAIN sent.lines :
    SumOf(LAMBDA a : a.allocated, sent.lines[id].allocations) = sent.lines[id].actual

(* A draft in picking that is opened and saved again keeps its picks: its   *)
(* own reservation is neither counted against it nor counted twice.         *)
ReopenedDraftKeepsPicks ==
  (RestoresReservations(document) /\ lines = EditorLines(document)) =>
    \A i \in DOMAIN lines :
      Each(LAMBDA r : <<r.bucket, r.allocated>>, RowsOf(preview, lines[i].id))
      = Each(LAMBDA a : <<a.bucket, a.allocated>>, document.lines[i].allocations)

(* The groups of step 3, which the user confirms, add up per bucket to what  *)
(* the request will carry for all lines of that warehouse together.          *)
SentFrom(location, bucket, Of(_)) ==
  SumOf(LAMBDA l :
          IF l \in ValidLines /\ l.source \in DOMAIN sources /\ sources[l.source].location = location
          THEN SumOf(LAMBDA a : IF a.bucket = bucket THEN Of(a) ELSE 0, LinePayload(l).allocations)
          ELSE 0, lines)

Reviewed(line, allocation, groups) ==
  \E g \in groups : g.location = sources[line.source].location /\ g.bucket = allocation.bucket

ReviewShowsPayload ==
  step = 3 =>
    /\ \A g \in ReviewGroups(preview.rows) :
         /\ g.quantity = SentFrom(g.location, g.bucket, LAMBDA a : a.allocated)
         /\ g.pallets = SentFrom(g.location, g.bucket, LAMBDA a : a.used)
    /\ \A l \in ValidLines : \A a \in ToSet(LinePayload(l).allocations) :
         Reviewed(l, a, ReviewGroups(preview.rows))

(* A bucket keeps its pallets while cartons of another draft stay in it: an *)
(* order that is sent empties a bucket of pallets only with its last carton. *)
PhysicalPalletsKept ==
  LET rows == FoldLeft(LAMBDA acc, id : acc \o sent.lines[id].allocations, <<>>,
                       SetToSeq(DOMAIN sent.lines))
  IN \A b \in DOMAIN stock :
       (\E r \in ToSet(rows) : r.bucket = b /\ r.starting > 0 /\ r.remaining = 0)
         => SumOf(LAMBDA r : IF r.bucket = b THEN r.allocated ELSE 0, rows) = stock[b].quantity
=============================================================================
