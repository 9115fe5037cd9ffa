---------------------------- MODULE ActivityPages ----------------------------
(***************************************************************************)
(* The pages that show what is going on: the dashboard                     *)
(* (HomeDashboardPage.tsx), the board of one day (DailyOperationsPage.tsx), *)
(* the log of movements (AllActivityPage.tsx) and one receipt              *)
(* (InboundDetailPage.tsx).  Operators over the documents and movements    *)
(* they are given; how old an entry is and how many fit are left out.      *)
(***************************************************************************)
EXTENDS YardViews

Of(kind, documents) == {i \in Ids(documents) : documents[i].kind = kind}

(* A day is planned for receipts by their arrival, for shipments by the day *)
(* they are expected to leave; a day that was set later does not move them. *)
PlannedDate(document) == IF document.kind = "OUT" THEN document.scheduled ELSE document.date

IsPending(document) == document.status \notin {"CONFIRMED", "DELETED"}

-----------------------------------------------------------------------------
(* Tracking *)

InboundTracking(document) ==
  IF document.status = "CONFIRMED" THEN "RECEIVED"
  ELSE IF document.tracking \in {"ARRIVED", "RECEIVING", "RECEIVED"} THEN document.tracking ELSE "SCHEDULED"

OutboundTracking(document) ==
  IF document.tracking \in {"PICKING", "PACKED", "SHIPPED", "BO_RECEIVED"} THEN document.tracking
  ELSE IF document.status = "CONFIRMED" THEN "SHIPPED" ELSE "SCHEDULED"

InboundSteps == <<"SCHEDULED", "ARRIVED", "RECEIVING", "RECEIVED">>
OutboundSteps == <<"SCHEDULED", "PICKING", "PACKED", "SHIPPED", "BO_RECEIVED">>

Tracking(document) == IF document.kind = "IN" THEN InboundTracking(document) ELSE OutboundTracking(document)
Steps(document) == IF document.kind = "IN" THEN InboundSteps ELSE OutboundSteps
StepIndex(document) == SelectInSeq(Steps(document), LAMBDA s : s = Tracking(document))

(* The next step, whatever the status of the document. *)
NextTracking(document) ==
  IF StepIndex(document) = Len(Steps(document)) THEN None ELSE Steps(document)[StepIndex(document) + 1]

(* The list offers it for drafts, and for shipments that have left. *)
OutboundAction(document) ==
  IF IsDraft(document) \/ OutboundTracking(document) = "SHIPPED" THEN NextTracking(document) ELSE None

InboundProgress(document) == CASE InboundTracking(document) = "ARRIVED" -> 50
                               [] InboundTracking(document) = "RECEIVING" -> 75
                               [] InboundTracking(document) = "RECEIVED" -> 100
                               [] OTHER -> 25
OutboundProgress(document) == CASE OutboundTracking(document) \in {"SHIPPED", "BO_RECEIVED"} -> 100
                                [] OutboundTracking(document) = "PICKING" -> 55
                                [] OutboundTracking(document) = "PACKED" -> 80
                                [] OTHER -> 25

InboundTone(document) == CASE InboundTracking(document) \in {"ARRIVED", "RECEIVING"} -> "amber"
                           [] InboundTracking(document) = "RECEIVED" -> "emerald"
                           [] OTHER -> "blue"
OutboundTone(document) == CASE OutboundTracking(document) \in {"SHIPPED", "BO_RECEIVED"} -> "emerald"
                            [] OutboundTracking(document) \in {"PICKING", "PACKED"} -> "amber"
                            [] OTHER -> "slate"

-----------------------------------------------------------------------------
(* The dashboard *)

Week == 7
FreshDashboard(today) == [period |-> "month", week |-> today - (today % Week)]

(* Slip: drafts that have moved on are not counted. *)
ScheduledDrafts(kind, documents) ==
  {i \in Of(kind, documents) : IsDraft(documents[i]) /\ Tracking(documents[i]) = "SCHEDULED"}
OpenDrafts(kind, documents) == {i \in Of(kind, documents) : IsDraft(documents[i])}

(* Each card counts what the page it opens lists first. *)
DashboardCards(items, documents) ==
  LET NumberAt(kind, tracking) == Cardinality({i \in Of(kind, documents) : Tracking(documents[i]) = tracking})
  IN [onHand |-> OnHand(items, DOMAIN items),
      positions |-> Cardinality({b \in DOMAIN items : IsStocked(b, items)}),
      receipts |-> Cardinality(OpenDrafts("IN", documents)),
      arrived |-> NumberAt("IN", "ARRIVED"), receiving |-> NumberAt("IN", "RECEIVING"),
      shipments |-> Cardinality(OpenDrafts("OUT", documents)),
      picking |-> NumberAt("OUT", "PICKING"), packed |-> NumberAt("OUT", "PACKED")]

CardFilter == [NoFilter EXCEPT !.status = "DRAFT"]

(* The days of the period that end today; deleted documents count as well. *)
PeriodDays(period, today) == (today - (IF period = "week" THEN Week ELSE 30) + 1)..today

Expected(document) == SumOf(LAMBDA l : l.expected, document.lines)

Throughput(documents, days) ==
  LET Larger(i) == IF Received(documents[i]) > Expected(documents[i]) THEN Received(documents[i])
                   ELSE Expected(documents[i])
      That(kind) == {i \in Of(kind, documents) : documents[i].date \in days}
  IN [inbound |-> Total(Larger, That("IN")),
      outbound |-> Total(LAMBDA i : Positive(Shipped(documents[i])), That("OUT"))]

PlannedOn(kind, documents, day) ==
  {i \in Of(kind, documents) : IsPending(documents[i]) /\ PlannedDate(documents[i]) = day}

CalendarDays(documents, week) ==
  [day \in week..(week + Week - 1) |->
    [inbound |-> Cardinality(PlannedOn("IN", documents, day)),
     outbound |-> Cardinality(PlannedOn("OUT", documents, day))]]

RecentActivity(documents) ==
  {[id |-> i, tracking |-> IF documents[i].kind = "POST" THEN None ELSE Tracking(documents[i])] : i \in Ids(documents)}

TrackerRows(kind, documents) ==
  {[id |-> i, tracking |-> Tracking(documents[i]),
    progress |-> IF kind = "IN" THEN InboundProgress(documents[i]) ELSE OutboundProgress(documents[i])] :
      i \in {i \in Of(kind, documents) : documents[i].status # "DELETED"}}

DashboardView(local, items, documents, today) ==
  [cards |-> DashboardCards(items, documents), flow |-> Throughput(documents, PeriodDays(local.period, today)),
   days |-> CalendarDays(documents, local.week), recent |-> RecentActivity(documents),
   receipts |-> TrackerRows("IN", documents), shipments |-> TrackerRows("OUT", documents)]

-----------------------------------------------------------------------------
(* The board of a day *)

FreshBoard == [busy |-> None]

BoardRows(kind, documents, day) ==
  {[id |-> i, tracking |-> Tracking(documents[i]), next |-> NextTracking(documents[i]),
    step |-> StepIndex(documents[i]),
    tone |-> IF kind = "IN" THEN InboundTone(documents[i]) ELSE OutboundTone(documents[i])] :
      i \in PlannedOn(kind, documents, day)}

BoardView(documents, day) ==
  LET receipts == BoardRows("IN", documents, day)
      shipments == BoardRows("OUT", documents, day)
      Amber(rows) == Cardinality({r \in rows : r.tone = "amber"})
  IN [receipts |-> receipts, shipments |-> shipments, receiving |-> Amber(receipts), shipping |-> Amber(shipments)]

(* A row is busy only while its own call is the one that was started last. *)
RowBusy(local, document) == local.busy # None /\ local.busy[2] = document
CanAdvance(row, manages, local) == manages /\ row.next # None /\ ~RowBusy(local, row.id)
CanCopy(row, manages, local) == manages /\ ~RowBusy(local, row.id)

-----------------------------------------------------------------------------
(* The log of movements *)

NoQuery == [customer |-> All, location |-> All, search |-> All, type |-> All, first |-> 0, last |-> 0]
NoLog == [version |-> 0, query |-> NoQuery]

(* The typed search, the rows by where they came from, and the call for more. *)
FreshLog(version) ==
  [typed |-> All, query |-> NoQuery, rows |-> [NoLog EXCEPT !.version = version],
   loading |-> FALSE, asked |-> FALSE, failed |-> FALSE, selected |-> None]

IsFiltered(query) == query # NoQuery

MovementWords(m) == Words(m.bucket) \cup {m.type}

WithinDates(date, query) ==
  (query.first = 0 \/ query.first <= date) /\ (query.last = 0 \/ date <= query.last)

MatchesQuery(m, query) ==
  /\ query.search = All \/ query.search \in MovementWords(m)
  /\ InScope(m.bucket, query) /\ Is(query.type, m.type) /\ WithinDates(m.date, query)

(* Rows of an earlier query are filtered by the present one until it answers. *)
LogRows(local, movements) ==
  {m \in movements : MatchesQuery(m, local.rows.query) /\ MatchesQuery(m, local.query)}

(* Without a filter the page shows what the workspace has; with one it asks. *)
LogAsks(local, version) ==
  IF IsFiltered(local.query) THEN [local EXCEPT !.loading = TRUE, !.failed = FALSE, !.asked = TRUE]
  ELSE [local EXCEPT !.loading = FALSE, !.failed = FALSE, !.asked = FALSE,
                     !.rows = [version |-> version, query |-> NoQuery]]

(* Slip: only a new text is searched for. *)
QueryTexts(local, query, version) ==
  IF query.search = local.query.search THEN [local EXCEPT !.query = query]
  ELSE LogAsks([local EXCEPT !.query = query], version)
SetQuery(local, query, version) ==
  IF query = local.query THEN local ELSE LogAsks([local EXCEPT !.query = query], version)

SubmitLogSearch(local, version) == SetQuery(local, [local.query EXCEPT !.search = local.typed], version)

(* A launch context replaces the whole filter. *)
LaunchLog(local, context, version) ==
  SetQuery([local EXCEPT !.typed = context.search, !.selected = None], context @@ NoQuery, version)

LogAnswered(local, version) ==
  [local EXCEPT !.rows = [version |-> version, query |-> local.query], !.loading = FALSE, !.asked = FALSE]
LogFailed(local) == [local EXCEPT !.loading = FALSE, !.asked = FALSE, !.failed = TRUE]

(* The workspace loaded again: only an unfiltered log follows it. *)
LogFollows(local, version) ==
  IF IsFiltered(local.query) THEN local ELSE [local EXCEPT !.rows.version = version]

KeptMovement(local, movements) ==
  IF local.selected \in LogRows(local, movements) THEN local ELSE [local EXCEPT !.selected = None]

(* Where the drawer leads. *)
MovementSource(m) ==
  CASE m.type = "IN" -> "inbound-management"
    [] m.type = "OUT" -> "outbound-management"
    [] m.type = "ADJUST" -> "adjustments"
    [] m.type = "COUNT" -> "cycle-counts"
    [] m.type \in {"TRANSFER_IN", "TRANSFER_OUT"} -> "transfers"
    [] OTHER -> None

LogView(local, movements) ==
  [rows |-> LogRows(local, movements), selected |-> local.selected,
   source |-> IF local.selected = None THEN None ELSE MovementSource(local.selected),
   loading |-> local.loading, failed |-> local.failed]

-----------------------------------------------------------------------------
(* One receipt *)

FreshDetail(document) ==
  [type |-> document.type, saved |-> document.type, saving |-> FALSE, adjusting |-> FALSE]

(* The choice follows the document; a save does not load the workspace. *)
DetailFollows(local, before, after) ==
  IF before.type = after.type /\ before.id = after.id THEN local
  ELSE [local EXCEPT !.type = after.type, !.saved = after.type]

ReceiptLog(document) ==
  {"created"} \cup {e \in {"arrived"} : InboundTracking(document) \in {"ARRIVED", "RECEIVING", "RECEIVED"}}
    \cup {e \in {"receiving"} : InboundTracking(document) \in {"RECEIVING", "RECEIVED"}}
    \cup {e \in {"confirmed"} : document.status = "CONFIRMED"}
    \cup {e \in {"cancelled"} : document.status = "DELETED"}

DetailButtons(document, manages) ==
  {"workspace"}
    \cup {b \in {"convert"} : manages /\ IsDraft(document) /\ document.handling = "SEALED_TRANSIT"}
    \cup {b \in {"edit"} : manages /\ IsDraft(document)}
    \cup {b \in {"adjust"} : manages /\ document.status = "CONFIRMED" /\ document.container # NoContainer}
    \cup {b \in {"copy", "cancel"} : manages /\ document.status = "CONFIRMED"}
    \cup {b \in {"type"} : manages}

DetailView(document, manages) ==
  [lines |-> Len(document.lines), expected |-> Expected(document), received |-> Received(document),
   pallets |-> SumOf(LAMBDA l : l.pallets, document.lines), variance |-> Received(document) - Expected(document),
   step |-> StepIndex(document), log |-> ReceiptLog(document),
   manifest |-> {[sku |-> l.sku, variance |-> Variance(l)] : l \in ToSet(document.lines)},
   buttons |-> DetailButtons(document, manages)]
=============================================================================
