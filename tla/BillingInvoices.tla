-------------------------- MODULE BillingInvoices --------------------------
(***************************************************************************)
(* The invoices of one customer, the requests that create, edit, finalize, *)
(* pay, void and delete them, and the operational history they bill:       *)
(* src/backend/internal/service/billing_invoice_store.go and               *)
(* billing_invoice_generation.go.                                          *)
(*                                                                         *)
(* The endpoints that change an invoice read it (GetBillingInvoice) outside *)
(* of any transaction, check its status, and then write by id alone: two   *)
(* steps of a request, with other requests in between.  Line edits write   *)
(* in a transaction of their own, with the locks InnoDB takes: an inserted *)
(* line holds a shared lock on its invoice (the foreign key), a changed or *)
(* deleted line a lock on itself, and the new total an exclusive lock on   *)
(* the invoice.  Creating an invoice, and every operation on stock, holds  *)
(* the lock of the customer's row.                                         *)
(*                                                                         *)
(* History is a version per date, which each operation dated there bumps;  *)
(* warehouse and container type scopes are left out (one scope), and so is *)
(* the check of pallet movements that Finalize makes on the lines.         *)
(***************************************************************************)
EXTENDS Integers, FiniteSets, Sums

CONSTANTS
    Invoices,           \* billing_invoices ids
    Lines,              \* billing_invoice_lines ids, per invoice
    Requests,           \* requests being served
    MaxDate,            \* bound: dates are 1..MaxDate
    MaxAmount,          \* bound: amounts of a line are 1..MaxAmount
    MaxOperations,      \* bound: operations dated on one day
    NoInvoice,          \* not an invoice id
    NoLine,             \* not a line id
    NoRequest,          \* not a request
    SnapshotIsolation   \* innodb_snapshot_isolation, on by default since MariaDB 11.6

ASSUME ConstantsAssumption ==
    /\ IsFiniteSet(Lines)
    /\ MaxDate \in Nat \ {0}
    /\ MaxAmount \in Nat \ {0}
    /\ MaxOperations \in Nat
    /\ NoInvoice \notin Invoices
    /\ NoLine \notin Lines
    /\ NoRequest \notin Requests
    /\ SnapshotIsolation \in BOOLEAN

VARIABLES
    invoice,         \* billing_invoices
    lines,           \* per invoice: the amount of each line, 0 for none
    total,           \* per invoice: grand_total
    history,         \* per date: how many operations were posted there
    request,         \* what each request has read and holds
    customerLock     \* the request that holds the customer's row lock

vars == <<invoice, lines, total, history, request, customerLock>>

-----------------------------------------------------------------------------
Dates == 1..MaxDate
Periods == {p \in [start : Dates, end : Dates] : p.start <= p.end}
NoLines == [l \in Lines |-> 0]
LineSets == [Lines -> 0..MaxAmount]

\* What an invoice for a period is computed from: the history up to its end.
SourcesUntil(end) == [d \in Dates |-> IF d <= end THEN history[d] ELSE 0]
NoSources == [d \in Dates |-> 0]

NotCreated ==
    [status |-> "ABSENT", period |-> [start |-> 1, end |-> 1],
     generated |-> FALSE, sources |-> NoSources, voidedAt |-> FALSE]

Live(i) == invoice[i].status \notin {"ABSENT", "VOID"}
Overlap(p, q) == p.start <= q.end /\ q.start <= p.end

Idle ==
    [step |-> "IDLE", kind |-> "NONE", invoice |-> NoInvoice,
     line |-> NoLine, amount |-> 0, sum |-> 0, adds |-> FALSE, current |-> TRUE,
     period |-> [start |-> 1, end |-> 1], sources |-> NoSources]

CreateKinds == {"GENERATE", "CREATE"}
InvoiceKinds == {"FINALIZE", "PAY", "VOID", "DELETE", "EDIT"}

RequestRecords ==
    [step : {"IDLE", "LOCKED", "READ", "STAGED"}, kind : {"NONE"} \cup CreateKinds \cup InvoiceKinds,
     invoice : Invoices \cup {NoInvoice}, line : Lines \cup {NoLine},
     amount : 0..MaxAmount, sum : Nat, adds : BOOLEAN, current : BOOLEAN,
     period : Periods, sources : [Dates -> 0..MaxOperations]]

-----------------------------------------------------------------------------
(* Creating invoices, under the customer's lock                            *)

\* No live invoice overlaps the period.
NoDuplicate(period) ==
    \A i \in Invoices : Live(i) => ~Overlap(invoice[i].period, period)

LockCustomer(r, kind, period) ==
    /\ customerLock' = r
    /\ request' = [request EXCEPT ![r] = [Idle EXCEPT
            !.step = "LOCKED", !.kind = kind, !.period = period,
            !.sources = IF kind = "GENERATE" THEN SourcesUntil(period.end) ELSE NoSources]]
    /\ UNCHANGED <<invoice, lines, total, history>>

\* Slip: the duplicate check is made without the lock.
BeginCreateUnlocked(r, kind, period) ==
    /\ request[r] = Idle
    /\ NoDuplicate(period)
    /\ LockCustomer(r, kind, period)

\* Slip: the two dates are swapped.
BeginCreateSwapped(r, kind, period) ==
    /\ request[r] = Idle
    /\ customerLock = NoRequest
    /\ NoDuplicate(period)
    /\ LockCustomer(r, kind, [start |-> period.end, end |-> period.start])

\* GenerateInvoice locks the customer and then opens its snapshot of the
\* sources and of the invoices; CreateBillingInvoice takes lines by hand.
BeginCreate(r, kind, period) ==
    /\ request[r] = Idle
    /\ customerLock = NoRequest
    /\ NoDuplicate(period)
    /\ LockCustomer(r, kind, period)

\* An id is never given twice: no request still refers to it.
createBillingInvoice(r, i, amounts) ==
    /\ request[r].step = "LOCKED"
    /\ invoice[i] = NotCreated
    /\ \A q \in Requests : request[q].invoice # i
    /\ amounts # NoLines
    /\ invoice' = [invoice EXCEPT ![i] =
            [status |-> "DRAFT", period |-> request[r].period,
             generated |-> request[r].kind = "GENERATE",
             sources |-> request[r].sources, voidedAt |-> FALSE]]
    /\ lines' = [lines EXCEPT ![i] = amounts]
    /\ total' = [total EXCEPT ![i] = Sum(amounts)]
    /\ customerLock' = NoRequest
    /\ request' = [request EXCEPT ![r] = Idle]
    /\ UNCHANGED history

\* The table is full (of this instance's ids), or the insert fails.
FailCreate(r) ==
    /\ request[r].step = "LOCKED"
    /\ customerLock' = NoRequest
    /\ request' = [request EXCEPT ![r] = Idle]
    /\ UNCHANGED <<invoice, lines, total, history>>

\* Slip: the operation does not wait for the customer's lock.
PostOperationUnlocked(date) ==
    /\ \A i \in Invoices : Live(i) => invoice[i].period.end < date
    /\ history[date] < MaxOperations     \* bound
    /\ history' = [history EXCEPT ![date] = @ + 1]
    /\ UNCHANGED <<invoice, lines, total, request, customerLock>>

\* Any operation on stock, dated: ensureBillingSourceMutationsAllowedTx
\* refuses it when a live invoice covers that date or a later one.
PostOperation(date) ==
    /\ customerLock = NoRequest
    /\ \A i \in Invoices : Live(i) => invoice[i].period.end < date
    /\ history[date] < MaxOperations     \* bound
    /\ history' = [history EXCEPT ![date] = @ + 1]
    /\ UNCHANGED <<invoice, lines, total, request, customerLock>>

-----------------------------------------------------------------------------
(* Requests on an invoice: read it, check its status, write it by id       *)

StatusFor(kind) ==
    CASE kind = "PAY" -> {"FINALIZED"}
      [] kind = "VOID" -> {"DRAFT", "FINALIZED", "PAID"}
      [] OTHER -> {"DRAFT"}

GetBillingInvoice(r, kind, i) ==
    /\ request[r] = Idle
    /\ invoice[i].status \in StatusFor(kind)
    /\ request' = [request EXCEPT ![r] =
            [Idle EXCEPT !.step = "READ", !.kind = kind, !.invoice = i]]
    /\ UNCHANGED <<invoice, lines, total, history, customerLock>>

Reading(r, kind) == request[r].step = "READ" /\ request[r].kind = kind

\* Line edits not yet committed, and those whose shared lock keeps others from
\* changing the invoice's row.
Editing(i) == {q \in Requests : request[q].step = "STAGED" /\ request[q].invoice = i}
Adding(i) == {q \in Editing(i) : request[q].adds}

\* The snapshots of the edits of an invoice are outdated once its row changes.
Outdate(i, r) ==
    [q \in Requests |->
        IF q = r THEN Idle
        ELSE IF q \in Editing(i) THEN [request[q] EXCEPT !.current = FALSE]
        ELSE request[q]]

\* UPDATE billing_invoices SET status = ... WHERE id = ...: of a row that may
\* have changed since, or be gone.
SetStatus(r, status) ==
    LET i == request[r].invoice
    IN  /\ Adding(i) = {}
        /\ invoice' = [invoice EXCEPT ![i] =
                IF invoice[i].status = "ABSENT" THEN invoice[i]
                ELSE [invoice[i] EXCEPT
                        !.status = status,
                        !.voidedAt = IF status = "VOID" THEN TRUE ELSE invoice[i].voidedAt]]
        /\ request' = Outdate(i, r)
        /\ UNCHANGED <<lines, total, history, customerLock>>

\* Header, notes and customer name, which nothing here reads: yet the row
\* changes, if it is still there.
UpdateBillingInvoice(r) ==
    LET i == request[r].invoice
    IN  /\ Reading(r, "EDIT")
        /\ Adding(i) = {}
        /\ request' = Outdate(i, r)
        /\ UNCHANGED <<invoice, lines, total, history, customerLock>>

FinalizeBillingInvoice(r) == Reading(r, "FINALIZE") /\ SetStatus(r, "FINALIZED")
MarkBillingInvoicePaid(r) == Reading(r, "PAY") /\ SetStatus(r, "PAID")
VoidBillingInvoice(r) == Reading(r, "VOID") /\ SetStatus(r, "VOID")

\* The delete cascades to the lines, so it waits for every uncommitted edit.
DeleteBillingInvoice(r) ==
    LET i == request[r].invoice
    IN  /\ Reading(r, "DELETE")
        /\ Editing(i) = {}
        /\ invoice' = [invoice EXCEPT ![i] = NotCreated]
        /\ lines' = [lines EXCEPT ![i] = NoLines]
        /\ total' = [total EXCEPT ![i] = 0]
        /\ request' = [request EXCEPT ![r] = Idle]
        /\ UNCHANGED <<history, customerLock>>

\* Add, change or delete (amount 0) a line, then sum the lines as the
\* transaction sees them: its own change and what others have committed.
StageLine(r, l, amount) ==
    LET i == request[r].invoice
    IN  /\ Reading(r, "EDIT")
        /\ invoice[i].status # "ABSENT"
        /\ lines[i][l] # amount
        /\ \A q \in Editing(i) : request[q].line # l
        /\ request' = [request EXCEPT ![r] = [@ EXCEPT
                !.step = "STAGED", !.line = l, !.amount = amount,
                !.sum = Sum([lines[i] EXCEPT ![l] = amount]),
                !.adds = lines[i][l] = 0]]
        /\ UNCHANGED <<invoice, lines, total, history, customerLock>>

\* The invoice is gone, or the line is.
RefuseLine(r) ==
    /\ Reading(r, "EDIT")
    /\ request' = [request EXCEPT ![r] = Idle]
    /\ UNCHANGED <<invoice, lines, total, history, customerLock>>

\* Slip: the total is written although the invoice's row has changed.
CommitLineOverwriting(r) ==
    LET i == request[r].invoice
    IN  /\ request[r].step = "STAGED"
        /\ Adding(i) \subseteq {r}
        /\ lines' = [lines EXCEPT ![i][request[r].line] = request[r].amount]
        /\ total' = [total EXCEPT ![i] = request[r].sum]
        /\ request' = Outdate(i, r)
        /\ UNCHANGED <<invoice, history, customerLock>>

\* UPDATE billing_invoices SET grand_total = ...: it waits for the lines that
\* others are adding, and under snapshot isolation fails on a changed row.
CommitLine(r) ==
    LET i == request[r].invoice
    IN  /\ request[r].step = "STAGED"
        /\ Adding(i) \subseteq {r}
        /\ SnapshotIsolation => request[r].current
        /\ lines' = [lines EXCEPT ![i][request[r].line] = request[r].amount]
        /\ total' = [total EXCEPT ![i] = request[r].sum]
        /\ request' = Outdate(i, r)
        /\ UNCHANGED <<invoice, history, customerLock>>

\* Slip: two requests that wait for each other wait for ever.
AbortOutdatedOnly(r) ==
    /\ request[r].step = "STAGED"
    /\ SnapshotIsolation /\ ~request[r].current
    /\ request' = [request EXCEPT ![r] = Idle]
    /\ UNCHANGED <<invoice, lines, total, history, customerLock>>

\* Rolled back: its snapshot is outdated, or two requests that add lines wait
\* for each other and InnoDB ends one of them.
AbortLine(r) ==
    /\ request[r].step = "STAGED"
    /\ \/ SnapshotIsolation /\ ~request[r].current
       \/ request[r].adds /\ Adding(request[r].invoice) # {r}
    /\ request' = [request EXCEPT ![r] = Idle]
    /\ UNCHANGED <<invoice, lines, total, history, customerLock>>

-----------------------------------------------------------------------------
Init ==
    /\ invoice = [i \in Invoices |-> NotCreated]
    /\ lines = [i \in Invoices |-> NoLines]
    /\ total = [i \in Invoices |-> 0]
    /\ history = [d \in Dates |-> 0]
    /\ request = [r \in Requests |-> Idle]
    /\ customerLock = NoRequest

Begin(r) ==
    \/ \E kind \in CreateKinds, period \in Periods : BeginCreate(r, kind, period)
    \/ \E kind \in InvoiceKinds, i \in Invoices : GetBillingInvoice(r, kind, i)

Continue(r) ==
    \/ \E i \in Invoices, amounts \in LineSets : createBillingInvoice(r, i, amounts)
    \/ FailCreate(r)
    \/ UpdateBillingInvoice(r)
    \/ FinalizeBillingInvoice(r)
    \/ MarkBillingInvoicePaid(r)
    \/ VoidBillingInvoice(r)
    \/ DeleteBillingInvoice(r)
    \/ \E l \in Lines, amount \in 0..MaxAmount : StageLine(r, l, amount)
    \/ RefuseLine(r)
    \/ CommitLine(r)
    \/ AbortLine(r)

Next ==
    \/ \E r \in Requests : Begin(r) \/ Continue(r)
    \/ \E date \in Dates : PostOperation(date)

\* A request that has started is served to its end.  Strong fairness: row locks
\* are granted in the order they are asked for, so one that waits for a lock
\* that others take and release over and over gets its turn.
Spec == Init /\ [][Next]_vars /\ \A r \in Requests : SF_vars(Continue(r))

-----------------------------------------------------------------------------
(* Properties                                                              *)

\* Every variable holds values the tables can hold.
TypeOK ==
    /\ invoice \in [Invoices ->
            [status : {"ABSENT", "DRAFT", "FINALIZED", "PAID", "VOID"}, period : Periods,
             generated : BOOLEAN, sources : [Dates -> 0..MaxOperations], voidedAt : BOOLEAN]]
    /\ lines \in [Invoices -> LineSets]
    /\ total \in [Invoices -> Nat]
    /\ history \in [Dates -> 0..MaxOperations]
    /\ customerLock \in Requests \cup {NoRequest}
    /\ request \in [Requests -> RequestRecords]

\* The total of an invoice is the sum of its lines, whatever edits of its
\* lines run side by side.
TotalsMatchLines == \A i \in Invoices : total[i] = Sum(lines[i])

\* What a generated invoice was computed from is what the history still says,
\* as long as the invoice stands and was never voided.
BilledHistoryStands ==
    \A i \in Invoices :
        Live(i) /\ invoice[i].generated /\ ~invoice[i].voidedAt =>
            invoice[i].sources = SourcesUntil(invoice[i].period.end)

\* No day is billed twice by invoices that were never voided, though the
\* duplicate check reads a snapshot.
NeverBilledTwice ==
    \A i, j \in Invoices :
        i # j /\ Live(i) /\ Live(j) /\ Overlap(invoice[i].period, invoice[j].period) =>
            invoice[i].voidedAt \/ invoice[j].voidedAt

\* Every request ends: the customer's lock is let go of, and edits that wait
\* for each other are resolved.
EveryRequestEnds == \A r \in Requests : request[r].step # "IDLE" ~> request[r].step = "IDLE"

\* AddBillingInvoiceLine and its siblings: "only draft invoices can be edited".
OnlyDraftsAreEdited ==
    [][\A i \in Invoices : lines'[i] # lines[i] =>
          invoice[i].status \in {"ABSENT", "DRAFT"}]_vars

\* createBillingInvoiceTx: no "non-void invoice already overlaps this customer,
\* warehouse scope, container type, and billing period".
LiveInvoicesDoNotOverlap ==
    \A i, j \in Invoices :
        i # j /\ Live(i) /\ Live(j) => ~Overlap(invoice[i].period, invoice[j].period)
=============================================================================
