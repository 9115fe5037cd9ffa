------------------------ MODULE BillingInvoicesProofs ------------------------
(***************************************************************************)
(* Proofs about BillingInvoices, for any number of invoices, lines,        *)
(* requests, dates, amounts and operations.                                *)
(***************************************************************************)
EXTENDS BillingInvoices, SumTheorems

-----------------------------------------------------------------------------
(* Types                                                                   *)

\* A request on an invoice has read the invoice it names.
Typed ==
    /\ TypeOK
    /\ \A r \in Requests :
          request[r].step \in {"READ", "STAGED"} => request[r].invoice \in Invoices

\* Dates and amounts exist.
LEMMA Constants ==
  /\ 0 \in 0..MaxAmount /\ 0 \in 0..MaxOperations
  /\ 1 \in Dates /\ Dates \subseteq Nat
  /\ MaxOperations \in Nat /\ MaxAmount \in Nat
BY ConstantsAssumption DEF Dates

\* Nothing is a table row: no invoice, no lines, no request.
LEMMA EmptyRows ==
  /\ Idle \in RequestRecords
  /\ NoSources \in [Dates -> 0..MaxOperations]
  /\ NoLines \in LineSets
  /\ NotCreated \in
        [status : {"ABSENT", "DRAFT", "FINALIZED", "PAID", "VOID"}, period : Periods,
         generated : BOOLEAN, sources : [Dates -> 0..MaxOperations], voidedAt : BOOLEAN]
<1>1. NoSources \in [Dates -> 0..MaxOperations] /\ NoLines \in LineSets
  BY Constants DEF NoSources, NoLines, LineSets
<1>2. [start |-> 1, end |-> 1] \in Periods
  BY Constants DEF Periods
<1> QED
  BY <1>1, <1>2, Constants DEF Idle, RequestRecords, NotCreated

\* Lines have a sum.
LEMMA LinesHaveASum ==
  ASSUME NEW amounts \in LineSets
  PROVE  Sum(amounts) \in Nat
<1>1. amounts \in [Lines -> Nat]
  BY Constants DEF LineSets
<1> QED
  BY <1>1, SumType, ConstantsAssumption

\* What is left of the requests when one of them has changed an invoice.
LEMMA OutdatedRequests ==
  ASSUME request \in [Requests -> RequestRecords], NEW i, NEW r \in Requests
  PROVE  /\ Outdate(i, r) \in [Requests -> RequestRecords]
         /\ \A q \in Requests :
               \/ Outdate(i, r)[q] = Idle
               \/ q \notin Editing(i) /\ q # r /\ Outdate(i, r)[q] = request[q]
               \/ /\ request[q].step = "STAGED" /\ Outdate(i, r)[q].step = "STAGED"
                  /\ Outdate(i, r)[q].invoice = request[q].invoice
                  /\ ~Outdate(i, r)[q].current
<1>1. ASSUME NEW q \in Requests
      PROVE  LET p == [request[q] EXCEPT !.current = FALSE]
             IN  /\ p \in RequestRecords
                 /\ p.step = request[q].step /\ p.invoice = request[q].invoice /\ ~p.current
  BY DEF RequestRecords
<1>2. \A q \in Requests : Outdate(i, r)[q] =
         IF q = r THEN Idle
         ELSE IF q \in Editing(i) THEN [request[q] EXCEPT !.current = FALSE]
         ELSE request[q]
  BY DEF Outdate
<1>3. Outdate(i, r) \in [Requests -> RequestRecords]
  BY <1>1, EmptyRows DEF Outdate
<1>4. \A q \in Editing(i) : request[q].step = "STAGED"
  BY DEF Editing
<1> QED
  BY <1>1, <1>2, <1>3, <1>4

\* At first there is nothing.
LEMMA TypedInit == Init => Typed
<1> SUFFICES ASSUME Init PROVE Typed
  OBVIOUS
<1>1. \A r \in Requests : request[r].step = "IDLE"
  BY DEF Init, Idle
<1>2. TypeOK
  BY EmptyRows, Constants DEF Init, TypeOK
<1> QED
  BY <1>1, <1>2 DEF Typed

\* The steps that change one request, and nothing else but the customer's lock.
LEMMA TypedRequestStep ==
  ASSUME Typed, NEW r \in Requests, NEW q \in RequestRecords,
         request' = [request EXCEPT ![r] = q],
         q.step \in {"READ", "STAGED"} => q.invoice \in Invoices,
         UNCHANGED <<invoice, lines, total, history>>,
         customerLock' \in Requests \cup {NoRequest}
  PROVE  Typed'
BY DEF Typed, TypeOK

\* Steps that open or close a request.
LEMMA TypedBegin ==
  ASSUME Typed, NEW r \in Requests, Begin(r)
  PROVE  Typed'
<1>0. MaxOperations \in Nat /\ history \in [Dates -> 0..MaxOperations]
  BY Constants DEF Typed, TypeOK
<1>1. ASSUME NEW kind \in CreateKinds, NEW period \in Periods, BeginCreate(r, kind, period)
      PROVE  Typed'
  <2> DEFINE q == [Idle EXCEPT !.step = "LOCKED", !.kind = kind, !.period = period,
            !.sources = IF kind = "GENERATE" THEN SourcesUntil(period.end) ELSE NoSources]
  <2>1. SourcesUntil(period.end) \in [Dates -> 0..MaxOperations]
    BY <1>0, Constants DEF SourcesUntil
  <2>2. q \in RequestRecords /\ q.step = "LOCKED"
    BY <2>1, EmptyRows DEF RequestRecords, Idle
  <2>3. /\ request' = [request EXCEPT ![r] = q]
        /\ customerLock' = r
        /\ UNCHANGED <<invoice, lines, total, history>>
    BY <1>1 DEF BeginCreate, LockCustomer
  <2> HIDE DEF q
  <2> QED
    BY <2>2, <2>3, TypedRequestStep
<1>2. ASSUME NEW kind \in InvoiceKinds, NEW i \in Invoices, GetBillingInvoice(r, kind, i)
      PROVE  Typed'
  <2> DEFINE q == [Idle EXCEPT !.step = "READ", !.kind = kind, !.invoice = i]
  <2>1. q \in RequestRecords /\ q.invoice \in Invoices
    BY EmptyRows DEF RequestRecords, Idle
  <2>2. /\ request' = [request EXCEPT ![r] = q]
        /\ UNCHANGED <<invoice, lines, total, history, customerLock>>
    BY <1>2 DEF GetBillingInvoice
  <2> HIDE DEF q
  <2> QED
    BY <2>1, <2>2, TypedRequestStep DEF Typed, TypeOK
<1> QED
  BY <1>1, <1>2 DEF Begin

\* Steps that change the row of an invoice.
LEMMA TypedSetStatus ==
  ASSUME Typed, NEW r \in Requests, NEW status \in {"FINALIZED", "PAID", "VOID"},
         request[r].step = "READ", SetStatus(r, status)
  PROVE  Typed'
<1> DEFINE i == request[r].invoice
<1>1. i \in Invoices
  BY DEF Typed
<1> DEFINE v == IF status = "VOID" THEN TRUE ELSE invoice[i].voidedAt
           x == IF invoice[i].status = "ABSENT" THEN invoice[i]
                ELSE [invoice[i] EXCEPT !.status = status, !.voidedAt = v]
<1>2. x \in [status : {"ABSENT", "DRAFT", "FINALIZED", "PAID", "VOID"}, period : Periods,
             generated : BOOLEAN, sources : [Dates -> 0..MaxOperations], voidedAt : BOOLEAN]
  <2>1. invoice[i] \in
            [status : {"ABSENT", "DRAFT", "FINALIZED", "PAID", "VOID"}, period : Periods,
             generated : BOOLEAN, sources : [Dates -> 0..MaxOperations], voidedAt : BOOLEAN]
    BY <1>1 DEF Typed, TypeOK
  <2>2. v \in BOOLEAN
    BY <2>1
  <2> HIDE DEF v
  <2> QED
    BY <2>1, <2>2
<1>3. /\ invoice' = [invoice EXCEPT ![i] = x]
      /\ request' = Outdate(i, r)
      /\ UNCHANGED <<lines, total, history, customerLock>>
  BY DEF SetStatus
<1>4. /\ request' \in [Requests -> RequestRecords]
      /\ \A q \in Requests : request'[q].step \in {"READ", "STAGED"} => request'[q].invoice \in Invoices
  BY <1>3, OutdatedRequests DEF Typed, TypeOK, Idle
<1> HIDE DEF x
<1> QED
  BY <1>1, <1>2, <1>3, <1>4 DEF Typed, TypeOK

\* Every step of a request that has started keeps the types.
LEMMA TypedContinue ==
  ASSUME Typed, NEW r \in Requests, Continue(r)
  PROVE  Typed'
<1>0. /\ request[r] \in RequestRecords
      /\ request \in [Requests -> RequestRecords]
      /\ lines \in [Invoices -> LineSets]
      /\ total \in [Invoices -> Nat]
  BY DEF Typed, TypeOK
<1>1. Idle \in RequestRecords /\ Idle.step = "IDLE"
  BY EmptyRows DEF Idle
<1>2. ASSUME request' = Outdate(request[r].invoice, r)
      PROVE  /\ request' \in [Requests -> RequestRecords]
             /\ \A q \in Requests :
                   request'[q].step \in {"READ", "STAGED"} => request'[q].invoice \in Invoices
  BY <1>0, <1>1, <1>2, OutdatedRequests DEF Typed
<1>3. ASSUME request' = [request EXCEPT ![r] = Idle]
      PROVE  /\ request' \in [Requests -> RequestRecords]
             /\ \A q \in Requests :
                   request'[q].step \in {"READ", "STAGED"} => request'[q].invoice \in Invoices
  BY <1>0, <1>1, <1>3 DEF Typed
<1>4. ASSUME NEW i \in Invoices, NEW amounts \in LineSets, createBillingInvoice(r, i, amounts)
      PROVE  Typed'
  <2> DEFINE x == [status |-> "DRAFT", period |-> request[r].period,
                   generated |-> request[r].kind = "GENERATE",
                   sources |-> request[r].sources, voidedAt |-> FALSE]
  <2>1. x \in [status : {"ABSENT", "DRAFT", "FINALIZED", "PAID", "VOID"}, period : Periods,
               generated : BOOLEAN, sources : [Dates -> 0..MaxOperations], voidedAt : BOOLEAN]
    BY <1>0 DEF RequestRecords
  <2>2. /\ invoice' = [invoice EXCEPT ![i] = x]
        /\ lines' = [lines EXCEPT ![i] = amounts]
        /\ total' = [total EXCEPT ![i] = Sum(amounts)]
        /\ customerLock' = NoRequest
        /\ request' = [request EXCEPT ![r] = Idle]
        /\ UNCHANGED history
    BY <1>4 DEF createBillingInvoice
  <2>3. Sum(amounts) \in Nat
    BY LinesHaveASum
  <2> HIDE DEF x
  <2> QED
    BY <1>3, <2>1, <2>2, <2>3 DEF Typed, TypeOK
<1>5. CASE FailCreate(r) \/ RefuseLine(r) \/ AbortLine(r)
  <2>1. /\ request' = [request EXCEPT ![r] = Idle]
        /\ UNCHANGED <<invoice, lines, total, history>>
        /\ customerLock' \in {customerLock, NoRequest}
    BY <1>5 DEF FailCreate, RefuseLine, AbortLine
  <2> QED
    BY <1>3, <2>1 DEF Typed, TypeOK
<1>6. CASE UpdateBillingInvoice(r)
  <2>1. /\ request' = Outdate(request[r].invoice, r)
        /\ UNCHANGED <<invoice, lines, total, history, customerLock>>
    BY <1>6 DEF UpdateBillingInvoice
  <2> QED
    BY <1>2, <2>1 DEF Typed, TypeOK
<1>7. CASE FinalizeBillingInvoice(r) \/ MarkBillingInvoicePaid(r) \/ VoidBillingInvoice(r)
  BY <1>7, TypedSetStatus
  DEF FinalizeBillingInvoice, MarkBillingInvoicePaid, VoidBillingInvoice, Reading
<1>8. CASE DeleteBillingInvoice(r)
  <2>1. /\ invoice' = [invoice EXCEPT ![request[r].invoice] = NotCreated]
        /\ lines' = [lines EXCEPT ![request[r].invoice] = NoLines]
        /\ total' = [total EXCEPT ![request[r].invoice] = 0]
        /\ request' = [request EXCEPT ![r] = Idle]
        /\ UNCHANGED <<history, customerLock>>
    BY <1>8 DEF DeleteBillingInvoice
  <2> QED
    BY <1>3, <2>1, EmptyRows DEF Typed, TypeOK
<1>9. ASSUME NEW l \in Lines, NEW amount \in 0..MaxAmount, StageLine(r, l, amount)
      PROVE  Typed'
  <2> DEFINE i == request[r].invoice
             q == [request[r] EXCEPT !.step = "STAGED", !.line = l, !.amount = amount,
                     !.sum = Sum([lines[i] EXCEPT ![l] = amount]),
                     !.adds = lines[i][l] = 0]
  <2>1. i \in Invoices
    BY <1>9 DEF StageLine, Reading, Typed
  <2>2. [lines[i] EXCEPT ![l] = amount] \in LineSets
    BY <1>0, <2>1 DEF LineSets
  <2>3. Sum([lines[i] EXCEPT ![l] = amount]) \in Nat
    BY <2>2, LinesHaveASum
  <2>4. q \in RequestRecords /\ q.invoice = i
    BY <1>0, <2>3 DEF RequestRecords
  <2>5. /\ request' = [request EXCEPT ![r] = q]
        /\ UNCHANGED <<invoice, lines, total, history, customerLock>>
    BY <1>9 DEF StageLine
  <2>6. customerLock' \in Requests \cup {NoRequest}
    BY <2>5 DEF Typed, TypeOK
  <2> HIDE DEF q, i
  <2> QED
    BY <2>1, <2>4, <2>5, <2>6, TypedRequestStep
<1>10. CASE CommitLine(r)
  <2> DEFINE i == request[r].invoice
  <2>1. /\ request[r].step = "STAGED"
        /\ lines' = [lines EXCEPT ![i][request[r].line] = request[r].amount]
        /\ total' = [total EXCEPT ![i] = request[r].sum]
        /\ request' = Outdate(i, r)
        /\ UNCHANGED <<invoice, history, customerLock>>
    BY <1>10 DEF CommitLine
  <2>2. i \in Invoices /\ request[r].amount \in 0..MaxAmount /\ request[r].sum \in Nat
    BY <1>0, <2>1 DEF Typed, RequestRecords
  <2>3. lines' \in [Invoices -> LineSets]
    BY <1>0, <2>1, <2>2 DEF LineSets
  <2> QED
    BY <1>2, <2>1, <2>2, <2>3 DEF Typed, TypeOK
<1> QED
  BY <1>4, <1>5, <1>6, <1>7, <1>8, <1>9, <1>10 DEF Continue

\* An operation is dated within the bound.
LEMMA TypedPost ==
  ASSUME Typed, NEW date \in Dates, PostOperation(date)
  PROVE  Typed'
<1>1. history' \in [Dates -> 0..MaxOperations]
  BY Constants DEF PostOperation, Typed, TypeOK
<1> QED
  BY <1>1 DEF PostOperation, Typed, TypeOK

\* Types are kept.
THEOREM TypesKept == Spec => []Typed
<1>1. Init => Typed
  BY TypedInit
<1>2. Typed /\ [Next]_vars => Typed'
  <2> SUFFICES ASSUME Typed, [Next]_vars PROVE Typed'
    OBVIOUS
  <2>1. CASE UNCHANGED vars
    BY <2>1 DEF vars, Typed, TypeOK
  <2>2. CASE Next
    BY <2>2, TypedBegin, TypedContinue, TypedPost DEF Next
  <2> QED
    BY <2>1, <2>2
<1> QED
  BY <1>1, <1>2, PTL DEF Spec

\* Every table, request and lock holds values of its type.
THEOREM TypeCorrect == Spec => []TypeOK
<1>1. Typed => TypeOK
  BY DEF Typed
<1> QED
  BY <1>1, TypesKept, PTL

-----------------------------------------------------------------------------
(* What is billed, and when                                                *)

Standing(i) == Live(i) /\ ~invoice[i].voidedAt

\* A request that holds the customer's lock still sees what it has read, but
\* for invoices that have been void.
LockSound(r) ==
    request[r].step = "LOCKED" =>
        /\ customerLock = r
        /\ \A i \in Invoices :
              Standing(i) => ~Overlap(invoice[i].period, request[r].period)
        /\ request[r].kind = "GENERATE" =>
              request[r].sources = SourcesUntil(request[r].period.end)

\* The invariant: as a create only looks for live invoices, a void has to be
\* remembered, and what it looked at has to hold until it commits.
BilledIInv ==
    /\ \A i \in Invoices : invoice[i].status = "VOID" => invoice[i].voidedAt
    /\ BilledHistoryStands
    /\ NeverBilledTwice
    /\ \A r \in Requests : LockSound(r)

\* NeverBilledTwice, said of the invoices that stand.
LEMMA BilledTwice ==
  NeverBilledTwice <=>
      \A i, j \in Invoices :
          i # j /\ Standing(i) /\ Standing(j) => ~Overlap(invoice[i].period, invoice[j].period)
BY DEF NeverBilledTwice, Standing

\* Nothing is billed yet.
LEMMA BilledInit == Init => BilledIInv
BY DEF Init, BilledIInv, BilledHistoryStands, NeverBilledTwice, LockSound, Live, NotCreated, Idle

\* A step that makes no invoice stand, posts no operation and takes no lock.
LEMMA BilledQuietStep ==
  ASSUME BilledIInv, UNCHANGED history,
         \A i \in Invoices :
            /\ invoice'[i].status = "VOID" => invoice'[i].voidedAt
            /\ Standing(i)' =>
                  /\ Standing(i)
                  /\ invoice'[i].period = invoice[i].period
                  /\ invoice'[i].generated = invoice[i].generated
                  /\ invoice'[i].sources = invoice[i].sources,
         \A r \in Requests : request'[r].step = "LOCKED" =>
            request'[r] = request[r] /\ (customerLock = r => customerLock' = r)
  PROVE  BilledIInv'
<1>2. BilledHistoryStands'
  <2>1. ASSUME NEW i \in Invoices, Standing(i)', invoice'[i].generated
        PROVE  invoice'[i].sources = SourcesUntil(invoice'[i].period.end)
    BY <2>1 DEF BilledIInv, BilledHistoryStands, Standing
  <2> QED
    BY <2>1 DEF BilledHistoryStands, Standing, SourcesUntil
<1>3. NeverBilledTwice'
  <2>1. \A i, j \in Invoices :
            i # j /\ Standing(i)' /\ Standing(j)' =>
                ~Overlap(invoice'[i].period, invoice'[j].period)
    BY BilledTwice DEF BilledIInv
  <2> QED
    BY <2>1 DEF NeverBilledTwice, Standing, Overlap
<1>4. \A r \in Requests : LockSound(r)'
  <2> SUFFICES ASSUME NEW r \in Requests, request'[r].step = "LOCKED"
               PROVE  /\ customerLock' = r
                      /\ \A i \in Invoices : Standing(i)' =>
                            ~Overlap(invoice'[i].period, request'[r].period)
                      /\ request'[r].kind = "GENERATE" =>
                            request'[r].sources = SourcesUntil(request'[r].period.end)
    BY DEF LockSound, Overlap, SourcesUntil
  <2>1. LockSound(r) /\ request'[r] = request[r]
    BY DEF BilledIInv
  <2> QED
    BY <2>1 DEF LockSound
<1> QED
  BY <1>2, <1>3, <1>4 DEF BilledIInv

\* A request starts: it reads an invoice, or takes the lock.
LEMMA BilledBegin ==
  ASSUME Typed, BilledIInv, NEW r \in Requests, Begin(r)
  PROVE  BilledIInv'
<1>0. request \in [Requests -> RequestRecords]
  BY DEF Typed, TypeOK
<1>1. ASSUME NEW kind \in CreateKinds, NEW period \in Periods, BeginCreate(r, kind, period)
      PROVE  BilledIInv'
  <2>1. /\ customerLock = NoRequest /\ customerLock' = r
        /\ NoDuplicate(period)
        /\ UNCHANGED <<invoice, history>>
        /\ \A q \in Requests \ {r} : request'[q] = request[q]
    BY <1>0, <1>1 DEF BeginCreate, LockCustomer
  <2>2. /\ request'[r].period = period
        /\ request'[r].kind = kind
        /\ kind = "GENERATE" => request'[r].sources = SourcesUntil(period.end)
    BY <1>0, <1>1 DEF BeginCreate, LockCustomer, Idle
  <2>3. \A q \in Requests : request[q].step # "LOCKED"
    BY <2>1, ConstantsAssumption DEF BilledIInv, LockSound
  <2>4. LockSound(r)'
    BY <2>1, <2>2 DEF LockSound, NoDuplicate, Standing, Live, SourcesUntil, Overlap
  <2>5. \A q \in Requests : LockSound(q)'
    BY <2>1, <2>3, <2>4 DEF LockSound
  <2> QED
    BY <2>1, <2>5 DEF BilledIInv, BilledHistoryStands, NeverBilledTwice, Live, SourcesUntil
<1>2. ASSUME NEW kind \in InvoiceKinds, NEW i \in Invoices, GetBillingInvoice(r, kind, i)
      PROVE  BilledIInv'
  <2>1. /\ UNCHANGED <<invoice, history, customerLock>>
        /\ request'[r].step = "READ"
        /\ \A q \in Requests \ {r} : request'[q] = request[q]
    BY <1>0, <1>2 DEF GetBillingInvoice, Idle
  <2> QED
    BY <2>1, BilledQuietStep DEF BilledIInv, Standing, Live
<1> QED
  BY <1>1, <1>2 DEF Begin

\* Only the request with the lock creates an invoice: what it read still holds.
LEMMA BilledCreate ==
  ASSUME Typed, BilledIInv, NEW r \in Requests, NEW i \in Invoices, NEW amounts \in LineSets,
         createBillingInvoice(r, i, amounts)
  PROVE  BilledIInv'
<1> DEFINE x == [status |-> "DRAFT", period |-> request[r].period,
                 generated |-> request[r].kind = "GENERATE",
                 sources |-> request[r].sources, voidedAt |-> FALSE]
<1>1. /\ request[r].step = "LOCKED"
      /\ invoice' = [invoice EXCEPT ![i] = x]
      /\ customerLock' = NoRequest
      /\ request' = [request EXCEPT ![r] = Idle]
      /\ UNCHANGED history
  BY DEF createBillingInvoice
<1>2. /\ invoice'[i].status = "DRAFT" /\ invoice'[i].period = request[r].period
      /\ invoice'[i].generated = (request[r].kind = "GENERATE")
      /\ invoice'[i].sources = request[r].sources
      /\ \A j \in Invoices \ {i} : invoice'[j] = invoice[j]
  BY <1>1 DEF Typed, TypeOK
<1> HIDE DEF x
<1>3. LockSound(r)
  BY DEF BilledIInv
<1>4. \A q \in Requests : request'[q].step # "LOCKED"
  <2>1. \A q \in Requests \ {r} : request[q].step # "LOCKED"
    BY <1>1, <1>3 DEF BilledIInv, LockSound
  <2> QED
    BY <1>1, <2>1 DEF Typed, TypeOK, Idle
<1>6. BilledHistoryStands'
  <2>1. ASSUME NEW j \in Invoices, Live(j)', ~invoice'[j].voidedAt, invoice'[j].generated
        PROVE  invoice'[j].sources = SourcesUntil(invoice'[j].period.end)
    <3>1. CASE j = i
      BY <1>1, <1>2, <1>3, <2>1, <3>1 DEF LockSound
    <3>2. CASE j # i
      BY <1>2, <2>1, <3>2 DEF BilledIInv, BilledHistoryStands, Live
    <3> QED
      BY <3>1, <3>2
  <2> QED
    BY <1>1, <2>1 DEF BilledHistoryStands, SourcesUntil
<1>7. NeverBilledTwice'
  <2> SUFFICES ASSUME NEW j \in Invoices, NEW k \in Invoices, j # k,
                      Live(j)', ~invoice'[j].voidedAt, Live(k)', ~invoice'[k].voidedAt
               PROVE  ~Overlap(invoice'[j].period, invoice'[k].period)
    BY DEF NeverBilledTwice, Overlap
  <2>1. CASE j = i
    BY <1>1, <1>2, <1>3, <2>1 DEF LockSound, Standing, Live, Overlap
  <2>2. CASE k = i
    BY <1>1, <1>2, <1>3, <2>2 DEF LockSound, Standing, Live, Overlap
  <2>3. CASE j # i /\ k # i
    BY <1>2, <2>3 DEF BilledIInv, NeverBilledTwice, Live
  <2> QED
    BY <2>1, <2>2, <2>3
<1>8. \A j \in Invoices : invoice'[j].status = "VOID" => invoice'[j].voidedAt
  BY <1>2 DEF BilledIInv
<1> QED
  BY <1>4, <1>6, <1>7, <1>8 DEF BilledIInv, LockSound

\* Status changes make no invoice stand: one that leaves VOID is remembered.
LEMMA BilledSetStatus ==
  ASSUME Typed, BilledIInv, NEW r \in Requests, NEW status \in {"FINALIZED", "PAID", "VOID"},
         request[r].step = "READ", SetStatus(r, status)
  PROVE  BilledIInv'
<1>0. request \in [Requests -> RequestRecords]
  BY DEF Typed, TypeOK
<1>1. PICK i \in Invoices : i = request[r].invoice
  BY DEF Typed
<1> DEFINE v == IF status = "VOID" THEN TRUE ELSE invoice[i].voidedAt
<1>2. /\ invoice' = [invoice EXCEPT ![i] =
              IF invoice[i].status = "ABSENT" THEN invoice[i]
              ELSE [invoice[i] EXCEPT !.status = status, !.voidedAt = v]]
      /\ request' = Outdate(i, r)
      /\ UNCHANGED <<history, customerLock>>
  BY <1>1 DEF SetStatus
<1>3. \A q \in Requests : request'[q].step = "LOCKED" => request'[q] = request[q]
  BY <1>0, <1>2, OutdatedRequests DEF Idle
<1>4. \A j \in Invoices \ {i} : invoice'[j] = invoice[j]
  BY <1>2 DEF Typed, TypeOK
<1>5. CASE invoice[i].status = "ABSENT"
  <2>1. invoice' = invoice
    BY <1>2, <1>5 DEF Typed, TypeOK
  <2> QED
    BY <1>2, <1>3, <2>1, BilledQuietStep DEF BilledIInv, Standing, Live
<1>6. CASE invoice[i].status # "ABSENT"
  <2>1. /\ invoice'[i].status = status /\ invoice'[i].voidedAt = v
        /\ invoice'[i].period = invoice[i].period
        /\ invoice'[i].generated = invoice[i].generated
        /\ invoice'[i].sources = invoice[i].sources
    <3> HIDE DEF v
    <3> QED
      BY <1>1, <1>2, <1>6 DEF Typed, TypeOK
  <2>2. status = "VOID" => invoice'[i].voidedAt
    BY <2>1
  <2>3. ASSUME Standing(i)'
        PROVE  Standing(i)
    <3>1. invoice'[i].status # "VOID" /\ ~invoice'[i].voidedAt
      BY <2>3 DEF Standing, Live
    <3>2. ~invoice[i].voidedAt
      BY <2>1, <3>1
    <3>3. invoice[i].status # "VOID"
      BY <1>1, <3>2 DEF BilledIInv
    <3> QED
      BY <1>6, <3>2, <3>3 DEF Standing, Live
  <2>4. ASSUME NEW j \in Invoices
        PROVE  /\ invoice'[j].status = "VOID" => invoice'[j].voidedAt
               /\ Standing(j)' =>
                     /\ Standing(j)
                     /\ invoice'[j].period = invoice[j].period
                     /\ invoice'[j].generated = invoice[j].generated
                     /\ invoice'[j].sources = invoice[j].sources
    <3>1. CASE j = i
      BY <2>1, <2>2, <2>3, <3>1
    <3>2. CASE j # i
      BY <1>4, <3>2 DEF BilledIInv, Standing, Live
    <3> QED
      BY <3>1, <3>2
  <2>5. UNCHANGED <<history, customerLock>>
    BY <1>2
  <2> QED
    BY <1>3, <2>4, <2>5, BilledQuietStep
<1> QED
  BY <1>5, <1>6

\* Every step of a request that has started keeps the invariant.
LEMMA BilledContinue ==
  ASSUME Typed, BilledIInv, NEW r \in Requests, Continue(r)
  PROVE  BilledIInv'
<1>0. request \in [Requests -> RequestRecords]
  BY DEF Typed, TypeOK
<1>1. ASSUME NEW i \in Invoices, NEW amounts \in LineSets, createBillingInvoice(r, i, amounts)
      PROVE  BilledIInv'
  BY <1>1, BilledCreate
<1>2. ASSUME UNCHANGED <<invoice, history, customerLock>>,
             \A q \in Requests : request'[q].step = "LOCKED" => request'[q] = request[q]
      PROVE  BilledIInv'
  BY <1>2, BilledQuietStep DEF BilledIInv, Standing, Live
<1>3. ASSUME request' = Outdate(request[r].invoice, r)
      PROVE  \A q \in Requests : request'[q].step = "LOCKED" => request'[q] = request[q]
  BY <1>0, <1>3, OutdatedRequests DEF Idle
<1>4. ASSUME NEW p, p.step # "LOCKED", request' = [request EXCEPT ![r] = p]
      PROVE  \A q \in Requests : request'[q].step = "LOCKED" => request'[q] = request[q] /\ q # r
  BY <1>0, <1>4
<1>5. Idle.step # "LOCKED"
  BY DEF Idle
<1>6. CASE FailCreate(r)
  <2>1. /\ request[r].step = "LOCKED"
        /\ UNCHANGED <<invoice, history>>
        /\ request' = [request EXCEPT ![r] = Idle]
    BY <1>6 DEF FailCreate
  <2>2. customerLock = r
    BY <2>1 DEF BilledIInv, LockSound
  <2>3. \A q \in Requests : request'[q].step = "LOCKED" => request'[q] = request[q] /\ q # r
    BY <1>4, <1>5, <2>1
  <2> QED
    BY <2>1, <2>2, <2>3, BilledQuietStep DEF BilledIInv, Standing, Live
<1>7. CASE RefuseLine(r) \/ AbortLine(r)
  BY <1>2, <1>4, <1>5, <1>7 DEF RefuseLine, AbortLine
<1>8. CASE UpdateBillingInvoice(r)
  BY <1>2, <1>3, <1>8 DEF UpdateBillingInvoice
<1>9. CASE FinalizeBillingInvoice(r) \/ MarkBillingInvoicePaid(r) \/ VoidBillingInvoice(r)
  BY <1>9, BilledSetStatus
  DEF FinalizeBillingInvoice, MarkBillingInvoicePaid, VoidBillingInvoice, Reading
<1>10. CASE DeleteBillingInvoice(r)
  <2>1. /\ invoice' = [invoice EXCEPT ![request[r].invoice] = NotCreated]
        /\ request' = [request EXCEPT ![r] = Idle]
        /\ UNCHANGED <<history, customerLock>>
    BY <1>10 DEF DeleteBillingInvoice
  <2>2. \A i \in Invoices : invoice'[i] = invoice[i] \/ invoice'[i] = NotCreated
    BY <2>1 DEF Typed, TypeOK
  <2>3. \A i \in Invoices :
          /\ invoice'[i].status = "VOID" => invoice'[i].voidedAt
          /\ Standing(i)' => invoice'[i] = invoice[i] /\ Standing(i)
    BY <2>2 DEF BilledIInv, Standing, Live, NotCreated
  <2> QED
    BY <1>4, <1>5, <2>1, <2>3, BilledQuietStep
<1>11. ASSUME NEW l \in Lines, NEW amount \in 0..MaxAmount, StageLine(r, l, amount)
       PROVE  BilledIInv'
  <2>1. \A q \in Requests : request'[q].step = "LOCKED" => request'[q] = request[q]
    BY <1>0, <1>11 DEF StageLine, RequestRecords
  <2> QED
    BY <1>2, <1>11, <2>1 DEF StageLine
<1>12. CASE CommitLine(r)
  BY <1>2, <1>3, <1>12 DEF CommitLine
<1> QED
  BY <1>1, <1>6, <1>7, <1>8, <1>9, <1>10, <1>11, <1>12 DEF Continue

\* An operation on stock waits for the lock, and is dated after what is billed.
LEMMA BilledPost ==
  ASSUME Typed, BilledIInv, NEW date \in Dates, PostOperation(date)
  PROVE  BilledIInv'
<1>1. /\ customerLock = NoRequest
      /\ \A i \in Invoices : Live(i) => invoice[i].period.end < date
      /\ history' = [history EXCEPT ![date] = history[date] + 1]
      /\ UNCHANGED <<invoice, request, customerLock>>
  BY DEF PostOperation
<1>2. \A q \in Requests : request[q].step # "LOCKED"
  BY <1>1, ConstantsAssumption DEF BilledIInv, LockSound
<1>3. ASSUME NEW i \in Invoices, Live(i)
      PROVE  SourcesUntil(invoice[i].period.end)' = SourcesUntil(invoice[i].period.end)
  <2>1. invoice[i].period.end \in Dates /\ invoice[i].period.end < date
    BY <1>1, <1>3 DEF Typed, TypeOK, Periods
  <2>2. \A d \in Dates : d <= invoice[i].period.end => d # date
    <3>1. \A d \in Dates : d \in Int
      BY Constants
    <3> QED
      BY <2>1, <3>1
  <2>3. \A d \in Dates \ {date} : history'[d] = history[d]
    BY <1>1 DEF Typed, TypeOK
  <2> QED
    BY <1>1, <2>2, <2>3 DEF SourcesUntil
<1>4. BilledHistoryStands'
  BY <1>1, <1>3 DEF BilledIInv, BilledHistoryStands, Live
<1>5. NeverBilledTwice'
  BY <1>1 DEF BilledIInv, NeverBilledTwice, Live
<1> QED
  BY <1>1, <1>2, <1>4, <1>5 DEF BilledIInv, LockSound

\* The invariant is inductive.
THEOREM BilledInvariant == Spec => []BilledIInv
<1>1. Init => BilledIInv
  BY BilledInit
<1>2. Typed /\ BilledIInv /\ [Next]_vars => BilledIInv'
  <2> SUFFICES ASSUME Typed, BilledIInv, [Next]_vars PROVE BilledIInv'
    OBVIOUS
  <2>1. CASE UNCHANGED vars
    BY <2>1, BilledQuietStep DEF vars, BilledIInv, Standing, Live
  <2>2. CASE Next
    BY <2>2, BilledBegin, BilledContinue, BilledPost DEF Next
  <2> QED
    BY <2>1, <2>2
<1> QED
  BY <1>1, <1>2, TypesKept, PTL DEF Spec

\* What an invoice was generated from stays as it was: no operation can be
\* dated into what it bills.
THEOREM HistoryStands == Spec => []BilledHistoryStands
<1>1. BilledIInv => BilledHistoryStands
  BY DEF BilledIInv
<1> QED
  BY <1>1, BilledInvariant, PTL

\* No day is billed twice, but for invoices that have been void.
THEOREM BilledOnce == Spec => []NeverBilledTwice
<1>1. BilledIInv => NeverBilledTwice
  BY DEF BilledIInv
<1> QED
  BY <1>1, BilledInvariant, PTL

-----------------------------------------------------------------------------
(* Totals                                                                  *)

\* A line edit whose snapshot is current has summed the lines that its commit
\* will leave.
SumSound(r) ==
    request[r].step = "STAGED" /\ request[r].current =>
        request[r].sum =
            Sum([lines[request[r].invoice] EXCEPT ![request[r].line] = request[r].amount])

TotalsIInv == TotalsMatchLines /\ \A r \in Requests : SumSound(r)

\* There are no lines yet to add up.
LEMMA TotalsInit == Init => TotalsIInv
<1>1. Sum(NoLines) = 0
  BY SumZero DEF NoLines
<1> QED
  BY <1>1 DEF Init, TotalsIInv, TotalsMatchLines, SumSound, Idle

\* A step that changes the lines and total of one invoice at most, and leaves
\* no current edit of it but of one that it has not changed.
LEMMA TotalsStep ==
  ASSUME Typed, TotalsIInv, NEW i \in Invoices, total'[i] = Sum(lines'[i]),
         \A j \in Invoices \ {i} : lines'[j] = lines[j] /\ total'[j] = total[j],
         \A r \in Requests : request'[r].step = "STAGED" /\ request'[r].current =>
            request'[r] = request[r] /\ request[r].invoice # i
  PROVE  TotalsIInv'
<1>1. TotalsMatchLines'
  BY DEF TotalsIInv, TotalsMatchLines
<1>2. ASSUME NEW r \in Requests, request'[r].step = "STAGED", request'[r].current
      PROVE  request'[r].sum = Sum([lines'[request'[r].invoice]
                  EXCEPT ![request'[r].line] = request'[r].amount])
  <2>1. request'[r] = request[r] /\ SumSound(r) /\ request[r].invoice \in Invoices \ {i}
    BY <1>2 DEF Typed, TotalsIInv
  <2>2. lines'[request[r].invoice] = lines[request[r].invoice]
    BY <2>1
  <2> QED
    BY <1>2, <2>1, <2>2 DEF SumSound
<1> QED
  BY <1>1, <1>2 DEF TotalsIInv, SumSound

\* A step that changes no line, and stages none.
LEMMA TotalsQuietStep ==
  ASSUME TotalsIInv, UNCHANGED <<lines, total>>,
         \A r \in Requests : request'[r].step = "STAGED" /\ request'[r].current =>
            request'[r] = request[r]
  PROVE  TotalsIInv'
BY DEF TotalsIInv, TotalsMatchLines, SumSound

\* A request starts.
LEMMA TotalsBegin ==
  ASSUME Typed, TotalsIInv, NEW r \in Requests, Begin(r)
  PROVE  TotalsIInv'
<1>1. UNCHANGED <<lines, total>>
  BY DEF Begin, BeginCreate, LockCustomer, GetBillingInvoice
<1>2. \A q \in Requests : request'[q].step = "STAGED" => request'[q] = request[q]
  <2>1. request \in [Requests -> RequestRecords]
    BY DEF Typed, TypeOK
  <2>2. ASSUME NEW kind, NEW period, LockCustomer(r, kind, period)
        PROVE  request'[r].step = "LOCKED" /\ \A q \in Requests \ {r} : request'[q] = request[q]
    BY <2>1, <2>2 DEF LockCustomer, Idle
  <2>3. ASSUME NEW kind, NEW i, GetBillingInvoice(r, kind, i)
        PROVE  request'[r].step = "READ" /\ \A q \in Requests \ {r} : request'[q] = request[q]
    BY <2>1, <2>3 DEF GetBillingInvoice, Idle
  <2> QED
    BY <2>2, <2>3 DEF Begin, BeginCreate
<1> QED
  BY <1>1, <1>2, TotalsQuietStep

\* Under snapshot isolation, every step of a request that has started keeps
\* the invariant.
LEMMA TotalsContinue ==
  ASSUME SnapshotIsolation, Typed, TotalsIInv, NEW r \in Requests, Continue(r)
  PROVE  TotalsIInv'
<1>0. /\ request \in [Requests -> RequestRecords]
      /\ lines \in [Invoices -> LineSets]
      /\ total \in [Invoices -> Nat]
  BY DEF Typed, TypeOK
<1>1. ASSUME NEW i, request' = Outdate(i, r)
      PROVE  \A q \in Requests : request'[q].step = "STAGED" /\ request'[q].current =>
                request'[q] = request[q] /\ q \notin Editing(i)
  BY <1>0, <1>1, OutdatedRequests DEF Idle
<1>2. ASSUME request' = [request EXCEPT ![r] = Idle]
      PROVE  \A q \in Requests : request'[q].step = "STAGED" =>
                request'[q] = request[q] /\ q # r
  BY <1>0, <1>2 DEF Idle
<1>3. ASSUME NEW i \in Invoices, NEW amounts \in LineSets, createBillingInvoice(r, i, amounts)
      PROVE  TotalsIInv'
  <2>1. /\ lines' = [lines EXCEPT ![i] = amounts]
        /\ total' = [total EXCEPT ![i] = Sum(amounts)]
        /\ request' = [request EXCEPT ![r] = Idle]
        /\ \A q \in Requests : request[q].invoice # i
    BY <1>3 DEF createBillingInvoice
  <2>2. total'[i] = Sum(lines'[i])
    BY <1>0, <2>1
  <2>3. \A j \in Invoices \ {i} : lines'[j] = lines[j] /\ total'[j] = total[j]
    BY <1>0, <2>1
  <2> QED
    BY <1>2, <2>1, <2>2, <2>3, TotalsStep
<1>4. CASE FailCreate(r) \/ RefuseLine(r) \/ AbortLine(r)
  BY <1>2, <1>4, TotalsQuietStep DEF FailCreate, RefuseLine, AbortLine
<1>5. CASE \/ UpdateBillingInvoice(r) \/ FinalizeBillingInvoice(r)
           \/ MarkBillingInvoicePaid(r) \/ VoidBillingInvoice(r)
  <2>1. UNCHANGED <<lines, total>> /\ request' = Outdate(request[r].invoice, r)
    BY <1>5 DEF UpdateBillingInvoice, FinalizeBillingInvoice, MarkBillingInvoicePaid,
                VoidBillingInvoice, SetStatus
  <2> QED
    BY <1>1, <2>1, TotalsQuietStep
<1>6. CASE DeleteBillingInvoice(r)
  <2>1. PICK i \in Invoices : i = request[r].invoice
    BY <1>6 DEF DeleteBillingInvoice, Reading, Typed
  <2>2. /\ Editing(i) = {}
        /\ lines' = [lines EXCEPT ![i] = NoLines]
        /\ total' = [total EXCEPT ![i] = 0]
        /\ request' = [request EXCEPT ![r] = Idle]
    BY <1>6, <2>1 DEF DeleteBillingInvoice
  <2>3. \A q \in Requests : request[q].step = "STAGED" => request[q].invoice # i
    BY <2>2 DEF Editing
  <2>4. total'[i] = Sum(lines'[i])
    BY <1>0, <2>2, SumZero DEF NoLines
  <2>5. \A j \in Invoices \ {i} : lines'[j] = lines[j] /\ total'[j] = total[j]
    BY <1>0, <2>2
  <2> QED
    BY <1>2, <2>2, <2>3, <2>4, <2>5, TotalsStep
<1>7. ASSUME NEW l \in Lines, NEW amount \in 0..MaxAmount, StageLine(r, l, amount)
      PROVE  TotalsIInv'
  <2> DEFINE i == request[r].invoice
             s == Sum([lines[i] EXCEPT ![l] = amount])
             q == [request[r] EXCEPT !.step = "STAGED", !.line = l, !.amount = amount,
                     !.sum = s, !.adds = lines[i][l] = 0]
  <2>1. /\ request' = [request EXCEPT ![r] = q]
        /\ UNCHANGED <<lines, total>>
    BY <1>7 DEF StageLine
  <2>2. /\ request'[r].invoice = i /\ request'[r].line = l
        /\ request'[r].amount = amount /\ request'[r].sum = s
    <3> HIDE DEF s, i
    <3> QED
      BY <1>0, <2>1 DEF RequestRecords, i
  <2>3. \A p \in Requests \ {r} : request'[p] = request[p]
    BY <1>0, <2>1
  <2>4. \A p \in Requests : SumSound(p)'
    <3>1. SumSound(r)'
      BY <2>1, <2>2 DEF SumSound
    <3>2. \A p \in Requests \ {r} : SumSound(p)'
      BY <2>1, <2>3 DEF TotalsIInv, SumSound
    <3> QED
      BY <3>1, <3>2
  <2> QED
    BY <2>1, <2>4 DEF TotalsIInv, TotalsMatchLines
<1>8. CASE CommitLine(r)
  <2>1. PICK i \in Invoices : i = request[r].invoice
    BY <1>8 DEF CommitLine, Typed
  <2>2. /\ request[r].step = "STAGED"
        /\ SnapshotIsolation => request[r].current
        /\ lines' = [lines EXCEPT ![i][request[r].line] = request[r].amount]
        /\ total' = [total EXCEPT ![i] = request[r].sum]
        /\ request' = Outdate(i, r)
    BY <1>8, <2>1 DEF CommitLine
  <2>3. /\ lines'[i] = [lines[i] EXCEPT ![request[r].line] = request[r].amount]
        /\ total'[i] = request[r].sum
        /\ \A j \in Invoices \ {i} : lines'[j] = lines[j] /\ total'[j] = total[j]
    BY <1>0, <2>2
  <2>4. total'[i] = Sum(lines'[i])
    BY <2>1, <2>2, <2>3 DEF TotalsIInv, SumSound
  <2>5. \A q \in Requests : request'[q].step = "STAGED" /\ request'[q].current =>
            request'[q] = request[q] /\ request[q].invoice # i
    BY <1>1, <2>2 DEF Editing
  <2> QED
    BY <2>3, <2>4, <2>5, TotalsStep
<1> QED
  BY <1>3, <1>4, <1>5, <1>6, <1>7, <1>8 DEF Continue

\* Under snapshot isolation, the total of an invoice is the sum of its lines,
\* whatever edits run side by side.
THEOREM TotalsCorrect ==
  ASSUME SnapshotIsolation
  PROVE  Spec => []TotalsMatchLines
<1>1. Init => TotalsIInv
  BY TotalsInit
<1>2. Typed /\ TotalsIInv /\ [Next]_vars => TotalsIInv'
  <2> SUFFICES ASSUME Typed, TotalsIInv, [Next]_vars PROVE TotalsIInv'
    OBVIOUS
  <2>1. CASE UNCHANGED vars
    BY <2>1, TotalsQuietStep DEF vars
  <2>2. ASSUME NEW date \in Dates, PostOperation(date)
        PROVE  TotalsIInv'
    BY <2>2, TotalsQuietStep DEF PostOperation
  <2>3. CASE Next
    BY <2>2, <2>3, TotalsBegin, TotalsContinue DEF Next
  <2> QED
    BY <2>1, <2>3
<1>3. TotalsIInv => TotalsMatchLines
  BY DEF TotalsIInv
<1> QED
  BY <1>1, <1>2, <1>3, TypesKept, PTL DEF Spec
=============================================================================
