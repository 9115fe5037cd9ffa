---------------------------- MODULE WorkspaceProofs ----------------------------
(***************************************************************************)
(* Proofs about Workspace: once everything has come back, a user sees at   *)
(* least what came of the user's own calls; nobody is on a page that is    *)
(* not shown to them; sealed containers stay drafts; no page asks for what *)
(* the server refuses; and what a page shows answers what it asked.  For   *)
(* any yards, roles, inputs, numbers of loads in flight and requests of    *)
(* others.                                                                 *)
(***************************************************************************)
EXTENDS Workspace, SumTheorems, SequenceTheorems, TLAPS

-----------------------------------------------------------------------------
(* The invariant *)

IsSequence(s) == \E S : s \in Seq(S)

\* A load knows from which version on it reads.
Entry(l) == {"from", "tail"} \subseteq DOMAIN l /\ l.from \in Nat
Entries(s) == IsSequence(s) /\ \A i \in 1..Len(s) : Entry(s[i])

\* What the browser has, and what the user made, are versions of the log.
VersionsSound ==
  /\ IsSequence(log)
  /\ {"version", "overtaken"} \subseteq DOMAIN mine /\ mine.version \in 0..Len(log)
  /\ Parts \cup {"loading", "failed"} \subseteq DOMAIN data /\ \A p \in Parts : data[p] \in Nat

\* The load that was started last brings what the user made; after it, it is
\* there, or the page says that something did not come.
Awaited(s, version) == s[Len(s)].from >= version
Covered ==
  IF loads = <<>> THEN data.failed \/ \A p \in Parts : data[p] >= mine.version
  ELSE Awaited(loads, mine.version)

WorkInv == VersionsSound /\ Entries(loads) /\ (~mine.overtaken => Covered)

KeepsData == UNCHANGED <<log, data, loads, mine>>

\* A call on its way is one that a page may make, and others ask for nothing new.
Called(c) == "request" \in DOMAIN c /\ WellFormed(c.request)
OrdersKept ==
  /\ "others" \in DOMAIN budget => "others" \in DOMAIN budget' /\ budget'.others \subseteq budget.others
  /\ call' = call \/ call' = None \/ Called(call')

\* What may still happen is counted down, and a call is made while it may be followed.
Budgeted(b) == {"clicks", "faults"} \subseteq DOMAIN b /\ b.clicks \in Nat /\ b.faults \in Nat
StaysPut ==
  /\ UNCHANGED <<session, path>>
  /\ Budgeted(budget) => Budgeted(budget')
  /\ call' # None => call' = call \/ (SignedIn /\ Len(loads) < MaxLoads)
Routine == KeepsData /\ OrdersKept /\ StaysPut

-----------------------------------------------------------------------------
(* The yards *)

\* A document that says what it must, and is a draft if it stands for a sealed container.
Lawful(d) == Complete(d) /\ (d.kind = "IN" /\ d.handling = "SEALED_TRANSIT" => IsDraft(d))
LawfulAll(documents) ==
  (\E n \in Nat : Ids(documents) \subseteq 1 .. n) /\ \A i \in Ids(documents) : Lawful(documents[i])
LawfulYard(y) == "documents" \in DOMAIN y /\ LawfulAll(y.documents)

\* Documents are numbered up to the last one.
LEMMA LastIdBounds ==
  ASSUME NEW y, LawfulYard(y)
  PROVE  LastId(y) \in Nat /\ Ids(y.documents) \subseteq 1 .. LastId(y)
<1> DEFINE S == {0} \cup Ids(y.documents)
<1>1. PICK n \in Nat : Ids(y.documents) \subseteq 1 .. n
  BY DEF LawfulYard, LawfulAll
<1>2. S \in SUBSET (0 .. n) /\ S # {}
  BY <1>1
<1>3. \E m \in S : \A k \in S : k <= m
  <2> HIDE DEF S
  <2> QED
    BY <1>2, Greatest
<1>4. LastId(y) \in S /\ \A k \in S : k <= LastId(y)
  <2>1. \E m \in S : \A k \in S : m >= k
    <3> HIDE DEF S
    <3> QED
      BY <1>2, <1>3
  <2>2. LastId(y) = CHOOSE m \in S : \A k \in S : m >= k
    BY DEF LastId, Max
  <2> HIDE DEF S
  <2>3. LastId(y) \in S /\ \A k \in S : LastId(y) >= k
    BY <2>1, <2>2
  <2> QED
    BY <1>2, <2>3
<1> QED
  BY <1>1, <1>2, <1>4

\* A yard is as lawful as the documents it is given.
LEMMA Rewritten ==
  ASSUME NEW y, LawfulYard(y), NEW documents, LawfulAll(documents)
  PROVE  LawfulYard(WithDocuments(y, documents)) /\ WithDocuments(y, documents).documents = documents
<1> DEFINE moves == Movements(documents)
           items == ItemsFrom(moves, documents)
           boxes == BoxesAfter(y, documents, moves)
           entered == EnteredAfter(y, documents)
<1>1. WithDocuments(y, documents) = [y EXCEPT !.documents = documents, !.movements = moves, !.items = items,
                                              !.boxes = boxes, !.entered = entered]
  BY DEF WithDocuments, OfMoves
<1> HIDE DEF moves, items, boxes, entered
<1>2. DOMAIN WithDocuments(y, documents) = DOMAIN y /\ WithDocuments(y, documents).documents = documents
  BY <1>1 DEF LawfulYard
<1> QED
  BY <1>2 DEF LawfulYard

\* One document is put in, or in the place of another.
LEMMA PutIn ==
  ASSUME NEW y, LawfulYard(y), NEW i \in 1 .. LastId(y) + 1, NEW d, Lawful(d)
  PROVE  /\ LawfulYard(WithDocuments(y, With(y.documents, i, d)))
         /\ i \in Ids(y.documents) => LawfulYard(WithDocuments(y, [y.documents EXCEPT ![i] = d]))
<1>1. LastId(y) \in Nat /\ Ids(y.documents) \subseteq 1 .. LastId(y)
  BY LastIdBounds
<1>2. \A j \in Ids(y.documents) : Lawful(y.documents[j])
  BY DEF LawfulYard, LawfulAll
<1>3. LawfulAll(With(y.documents, i, d))
  <2> DEFINE w == With(y.documents, i, d)
  <2>1. DOMAIN w = Ids(y.documents) \cup {i} /\ \A j \in DOMAIN w : w[j] = IF j = i THEN d ELSE y.documents[j]
    BY DEF With, Ids
  <2> HIDE DEF w
  <2>2. Ids(w) \subseteq 1 .. LastId(y) + 1 /\ LastId(y) + 1 \in Nat
    BY <1>1, <2>1 DEF Ids
  <2>3. \A j \in Ids(w) : Lawful(w[j])
    BY <1>2, <2>1 DEF Ids
  <2> QED
    BY <2>2, <2>3 DEF LawfulAll, w
<1>4. ASSUME i \in Ids(y.documents) PROVE LawfulAll([y.documents EXCEPT ![i] = d])
  <2> DEFINE w == [y.documents EXCEPT ![i] = d]
  <2>1. DOMAIN w = Ids(y.documents) /\ \A j \in DOMAIN w : w[j] = IF j = i THEN d ELSE y.documents[j]
    BY DEF Ids
  <2> HIDE DEF w
  <2>2. Ids(w) \subseteq 1 .. LastId(y)
    BY <1>1, <2>1 DEF Ids
  <2>3. \A j \in Ids(w) : Lawful(w[j])
    BY <1>2, <2>1 DEF Ids
  <2> QED
    BY <1>1, <2>2, <2>3 DEF LawfulAll, w
<1> QED
  BY <1>3, <1>4, Rewritten

\* A refusal leaves the yard.
LEMMA OutcomeYard ==
  ASSUME NEW refused, NEW y, NEW changed, NEW id, LawfulYard(y), ~refused => LawfulYard(changed)
  PROVE  LawfulYard(Outcome(refused, y, changed, id).yard)
BY DEF Outcome, Denied, Granted

\* One operation of the server after the other.
LEMMA ConfirmLawful ==
  ASSUME NEW y, LawfulYard(y), NEW i
  PROVE  LawfulYard(Confirm(y, i).yard)
<1> DEFINE d == y.documents[i]
           tracking == FinalTracking(d)
           after == Confirmed(d, tracking)
<1>1. ASSUME i \in Ids(y.documents), ~ConfirmRefused(y, d)
      PROVE  LawfulYard(WithDocuments(y, [y.documents EXCEPT ![i] = after]))
  <2>1. Lawful(d)
    BY <1>1 DEF LawfulYard, LawfulAll
  <2>2. ~(d.kind = "IN" /\ d.handling = "SEALED_TRANSIT")
    BY <1>1 DEF ConfirmRefused, InboundConfirmRefused
  <2> HIDE DEF d, tracking
  <2>3. DOMAIN after = DOMAIN d /\ after.kind = d.kind /\ (d.kind = "IN" => after.handling = d.handling)
    BY <2>1 DEF Lawful, Complete, Confirmed
  <2>4. Lawful(after)
    BY <2>1, <2>2, <2>3 DEF Lawful, Complete
  <2>5. i \in 1 .. LastId(y) + 1
    BY <1>1, LastIdBounds
  <2> HIDE DEF after
  <2> QED
    BY <1>1, <2>4, <2>5, PutIn
<1>2. Confirm(y, i) = Outcome(i \notin Papers(y) \/ ConfirmRefused(y, d), y,
                              WithDocuments(y, [y.documents EXCEPT ![i] = after]), i)
  BY DEF Confirm
<1> HIDE DEF d, after
<1> QED
  BY <1>1, <1>2, OutcomeYard DEF Papers

\* What moves on stays what it was; what ends is not sealed.
LEMMA TrackLawful ==
  ASSUME NEW y, LawfulYard(y), NEW i, NEW target
  PROVE  LawfulYard(Track(y, i, target).yard)
<1> DEFINE d == y.documents[i]
           after == Tracked(d, target)
<1>1. ASSUME i \in Ids(y.documents), ~TrackRefused(y, d, target)
      PROVE  LawfulYard(WithDocuments(y, [y.documents EXCEPT ![i] = after]))
  <2>1. Lawful(d)
    BY <1>1 DEF LawfulYard, LawfulAll
  <2>2. target \in {"RECEIVED", "SHIPPED", "BO_RECEIVED"} => ~(d.kind = "IN" /\ d.handling = "SEALED_TRANSIT")
    <3>1. target \in {"RECEIVED", "SHIPPED", "BO_RECEIVED"} /\ IsDraft(d) => ~ConfirmRefused(y, d)
      BY <1>1 DEF TrackRefused
    <3> QED
      BY <2>1, <3>1 DEF Lawful, ConfirmRefused, InboundConfirmRefused
  <2> HIDE DEF d
  <2>3. /\ DOMAIN after = DOMAIN d /\ after.kind = d.kind /\ (d.kind = "IN" => after.handling = d.handling)
        /\ target \notin {"RECEIVED", "SHIPPED", "BO_RECEIVED"} => after.status = d.status
    BY <2>1 DEF Lawful, Complete, Confirmed, Tracked
  <2>4. Lawful(after)
    BY <2>1, <2>2, <2>3 DEF Lawful, Complete, IsDraft
  <2>5. i \in 1 .. LastId(y) + 1
    BY <1>1, LastIdBounds
  <2> HIDE DEF after
  <2> QED
    BY <1>1, <2>4, <2>5, PutIn
<1>2. Track(y, i, target) = Outcome(i \notin Papers(y) \/ TrackRefused(y, d, target), y,
                                    WithDocuments(y, [y.documents EXCEPT ![i] = after]), i)
  BY DEF Track
<1> HIDE DEF d, after
<1> QED
  BY <1>1, <1>2, OutcomeYard DEF Papers

\* A copy is a draft.
LEMMA CopyLawful ==
  ASSUME NEW y, LawfulYard(y), NEW i
  PROVE  LawfulYard(Copy(y, i).yard)
<1> DEFINE d == y.documents[i]
           copy == CopyOf(d, NextId(y))
<1>1. ASSUME i \in Ids(y.documents)
      PROVE  LawfulYard(WithDocuments(y, With(y.documents, NextId(y), copy)))
  <2>1. Lawful(d)
    BY <1>1 DEF LawfulYard, LawfulAll
  <2> HIDE DEF d
  <2>2. /\ DOMAIN copy = DOMAIN d /\ copy.kind = d.kind /\ (d.kind = "IN" => copy.handling = d.handling)
        /\ copy.status = "DRAFT"
    <3> DEFINE lines == [j \in DOMAIN d.lines |-> CopiedLine(d, d.lines[j])]
    <3>1. copy = [d EXCEPT !.id = NextId(y), !.status = "DRAFT", !.tracking = "SCHEDULED", !.lines = lines]
      BY DEF CopyOf
    <3> HIDE DEF lines, copy
    <3> QED
      BY <2>1, <3>1 DEF Lawful, Complete
  <2>3. Lawful(copy)
    BY <2>1, <2>2 DEF Lawful, Complete, IsDraft
  <2>4. NextId(y) \in 1 .. LastId(y) + 1
    BY LastIdBounds DEF NextId
  <2> HIDE DEF copy
  <2> QED
    BY <2>3, <2>4, PutIn
<1>2. Copy(y, i) = Outcome(i \notin Papers(y) \/ d.lines = <<>>, y,
                           WithDocuments(y, With(y.documents, NextId(y), copy)), NextId(y))
  BY DEF Copy
<1> HIDE DEF d, copy
<1> QED
  BY <1>1, <1>2, OutcomeYard DEF Papers

\* Fewer documents are lawful when all were.
LEMMA DiscardLawful ==
  ASSUME NEW y, LawfulYard(y), NEW i
  PROVE  LawfulYard(Discard(y, i).yard)
<1> DEFINE w == Restrict(y.documents, Ids(y.documents) \ {i})
           refused == i \notin Papers(y) \/ ReversalRefused(y, y.documents[i])
<1>1. LawfulAll(w)
  <2>1. Ids(w) \subseteq Ids(y.documents) /\ \A j \in Ids(w) : w[j] = y.documents[j]
    BY DEF Restrict, Ids
  <2> HIDE DEF w
  <2> QED
    BY <2>1 DEF LawfulYard, LawfulAll
<1>2. Discard(y, i) = Outcome(refused, y, WithDocuments(y, w), i)
  BY DEF Discard
<1> HIDE DEF w, refused
<1>3. LawfulYard(WithDocuments(y, w))
  BY <1>1, Rewritten
<1> QED
  BY <1>2, <1>3, OutcomeYard

\* Documents may change in what the rule is not about.
LEMMA Retold ==
  ASSUME NEW y, LawfulYard(y), NEW w, DOMAIN w = Ids(y.documents),
         \A j \in DOMAIN w : /\ DOMAIN y.documents[j] \subseteq DOMAIN w[j]
                             /\ \A f \in {"kind", "status", "handling"} \cap DOMAIN y.documents[j] :
                                  w[j][f] = y.documents[j][f]
  PROVE  LawfulAll(w)
<1>1. ASSUME NEW j \in Ids(w) PROVE Lawful(w[j])
  <2>1. Lawful(y.documents[j])
    BY <1>1 DEF Ids, LawfulYard, LawfulAll
  <2>2. /\ {"kind", "status"} \subseteq DOMAIN y.documents[j] /\ DOMAIN y.documents[j] \subseteq DOMAIN w[j]
        /\ w[j].kind = y.documents[j].kind /\ w[j].status = y.documents[j].status
    BY <2>1 DEF Ids, Lawful, Complete, Stated
  <2>3. Complete(w[j])
    BY <2>1, <2>2 DEF Lawful, Complete
  <2>4. y.documents[j].kind = "IN" => w[j].handling = y.documents[j].handling
    BY <2>1 DEF Ids, Lawful, Complete
  <2> QED
    BY <2>1, <2>2, <2>3, <2>4 DEF Lawful, IsDraft
<1> QED
  BY <1>1 DEF LawfulYard, LawfulAll, Ids

\* A note changes nothing else of a document.
LEMMA AnnotateLawful ==
  ASSUME NEW y, LawfulYard(y), NEW i, NEW note
  PROVE  LawfulYard(Annotate(y, i, note).yard)
<1> DEFINE w == [y.documents EXCEPT ![i].note = note]
           changed == [y EXCEPT !.documents = w]
<1>1. LawfulAll(w)
  <2>1. DOMAIN w = Ids(y.documents)
    BY DEF Ids
  <2>2. \A j \in DOMAIN w : w[j] = IF j = i THEN [y.documents[j] EXCEPT !.note = note] ELSE y.documents[j]
    OBVIOUS
  <2> HIDE DEF w
  <2>3. \A j \in DOMAIN w : /\ DOMAIN y.documents[j] \subseteq DOMAIN w[j]
                            /\ \A f \in {"kind", "status", "handling"} \cap DOMAIN y.documents[j] :
                                 w[j][f] = y.documents[j][f]
    BY <2>2
  <2> QED
    BY <2>1, <2>3, Retold
<1>2. Annotate(y, i, note) = Outcome(i \notin Papers(y), y, changed, i)
  BY DEF Annotate
<1> HIDE DEF w
<1>3. LawfulYard(changed)
  BY <1>1 DEF LawfulYard
<1> HIDE DEF changed
<1> QED
  BY <1>2, <1>3, OutcomeYard

\* The type of a container is written to its receipts.
LEMMA BoxTypeLawful ==
  ASSUME NEW y, LawfulYard(y), NEW container, NEW type
  PROVE  LawfulYard(SetBoxType(y, container, type))
<1> DEFINE w == [j \in DOMAIN y.documents |->
                   IF y.documents[j].kind = "IN" /\ y.documents[j].container = container
                   THEN [y.documents[j] EXCEPT !.type = type] ELSE y.documents[j]]
           boxes == With(y.boxes, container, type)
<1>1. LawfulAll(w)
  <2>1. DOMAIN w = Ids(y.documents)
    BY DEF Ids
  <2>2. \A j \in DOMAIN w : w[j] \in {[y.documents[j] EXCEPT !.type = type], y.documents[j]}
    OBVIOUS
  <2> HIDE DEF w
  <2>3. \A j \in DOMAIN w : /\ DOMAIN y.documents[j] \subseteq DOMAIN w[j]
                            /\ \A f \in {"kind", "status", "handling"} \cap DOMAIN y.documents[j] :
                                 w[j][f] = y.documents[j][f]
    BY <2>2
  <2> QED
    BY <2>1, <2>3, Retold
<1>2. SetBoxType(y, container, type) = [y EXCEPT !.boxes = boxes, !.documents = w]
  BY DEF SetBoxType
<1> HIDE DEF w, boxes
<1> QED
  BY <1>1, <1>2 DEF LawfulYard

\* What is written of a receipt is a draft that says all it must.
LEMMA WrittenSays ==
  ASSUME NEW y, NEW id, NEW payload, {"handling"} \cup Stated \subseteq DOMAIN payload
  PROVE  LET draft == Written(y, id, payload)
         IN /\ Complete(draft) /\ draft.status = "DRAFT" /\ draft.id = id /\ draft.kind = "IN"
            /\ \A f \in {"handling", "container", "location", "date", "lines"} :
                 f \in DOMAIN draft
<1> DEFINE type == IF id \in Ids(y.documents) THEN y.documents[id].type ELSE "NORMAL"
           draft == Written(y, id, payload)
           head == [status |-> "DRAFT", id |-> id, kind |-> "IN", type |-> type]
<1>1. draft = Over(head, payload)
  BY DEF Written
<1>2. DOMAIN head = {"status", "id", "kind", "type"} /\ head.status = "DRAFT" /\ head.id = id /\ head.kind = "IN"
  OBVIOUS
<1> HIDE DEF draft, type, head
<1>3. /\ DOMAIN draft = DOMAIN head \cup DOMAIN payload
      /\ \A f \in DOMAIN head : draft[f] = head[f]
  BY <1>1 DEF Over
<1>4. draft.status = "DRAFT" /\ draft.id = id /\ draft.kind = "IN"
  BY <1>2, <1>3
<1>5. {"id", "kind", "handling"} \cup Stated \subseteq DOMAIN draft
  BY <1>2, <1>3
<1>6. Complete(draft)
  BY <1>5 DEF Complete
<1>7. \A f \in {"handling", "container", "location", "date", "lines"} : f \in DOMAIN draft
  BY <1>5 DEF Stated
<1> QED
  BY <1>4, <1>6, <1>7 DEF draft

\* A receipt is saved as a draft, or confirmed if it is not sealed.
LEMMA SaveLawful ==
  ASSUME NEW y, LawfulYard(y), NEW i, NEW payload, {"handling"} \cup Stated \subseteq DOMAIN payload
  PROVE  LawfulYard(SaveReceipt(y, i, payload).yard)
<1> DEFINE id == IF i = None THEN NextId(y) ELSE i
           draft == Written(y, id, payload)
           confirms == payload.status = "CONFIRMED"
           saved == IF confirms THEN Confirmed(draft, "RECEIVED") ELSE draft
           refused == \/ id \in Ids(y.documents) /\ ~IsDraft(y.documents[id])
                      \/ TrackingRefused(payload) \/ LinesRefused(draft)
                      \/ (confirms /\ InboundConfirmRefused(y, draft))
<1>1. CASE i # None /\ i \notin Of("IN", y.documents)
  BY <1>1 DEF SaveReceipt, Denied
<1>2. CASE ~(i # None /\ i \notin Of("IN", y.documents))
  <2>1. id \in 1 .. LastId(y) + 1
    BY <1>2, LastIdBounds DEF NextId, Of
  <2>2. SaveReceipt(y, i, payload) = Outcome(refused, y, WithDocuments(y, With(y.documents, id, saved)), id)
    BY <1>2 DEF SaveReceipt, Saving
  <2>3. Complete(draft) /\ draft.status = "DRAFT"
    BY WrittenSays
  <2> HIDE DEF draft, id, confirms
  <2>4. ASSUME ~refused PROVE Lawful(saved)
    <3>1. CASE confirms
      <4>1. draft.handling # "SEALED_TRANSIT"
        BY <2>4, <3>1 DEF InboundConfirmRefused
      <4>2. saved = [draft EXCEPT !.status = "CONFIRMED", !.tracking = "RECEIVED"]
        BY <3>1 DEF Confirmed
      <4>3. DOMAIN saved = DOMAIN draft /\ saved.kind = draft.kind /\ (draft.kind = "IN" => saved.handling = draft.handling)
        BY <2>3, <4>2 DEF Complete
      <4> QED
        BY <2>3, <4>1, <4>3 DEF Lawful, Complete
    <3>2. CASE ~confirms
      BY <2>3, <3>2 DEF Lawful, IsDraft
    <3> QED
      BY <3>1, <3>2
  <2> HIDE DEF saved, refused
  <2>5. ~refused => LawfulYard(WithDocuments(y, With(y.documents, id, saved)))
    BY <2>1, <2>4, PutIn
  <2> QED
    BY <2>2, <2>5, OutcomeYard
<1> QED
  BY <1>1, <1>2

\* Documents are confirmed one after the other, in the order of their ids.
ConfirmTurn(chosen, x, i) == IF i \in chosen THEN Confirm(x, i).yard ELSE x

\* What that comes to is the last of a list of yards.
LEMMA ConfirmTurns ==
  ASSUME NEW y, LawfulYard(y), NEW chosen
  PROVE  \E t : /\ t[0] = y /\ \A i \in 1 .. LastId(y) : t[i] = ConfirmTurn(chosen, t[i - 1], i)
                /\ EachInTurn(Confirm, y, chosen) = t[LastId(y)]
<1> DEFINE n == LastId(y)
           Turn(x, i) == IF i \in chosen THEN Confirm(x, i).yard ELSE x
           order == [i \in 1 .. n |-> i]
           Goes(m, t) == t = [i \in 0 .. m |-> IF i = 0 THEN y ELSE Turn(t[i - 1], order[i])]
           S == {m \in Nat : \E t : Goes(m, t)}
<1>1. n \in Nat
  BY LastIdBounds
<1> HIDE DEF n
<1>2. 0 \in S
  <2>1. Goes(0, [i \in 0 .. 0 |-> y])
    OBVIOUS
  <2> QED
    BY <2>1
<1>3. ASSUME NEW m \in Nat, m \in S PROVE m + 1 \in S
  <2>1. PICK t : Goes(m, t)
    BY <1>3
  <2> DEFINE last == Turn(t[m], order[m + 1])
             u == [i \in 0 .. m + 1 |-> IF i = m + 1 THEN last ELSE t[i]]
  <2>2. Goes(m + 1, u)
    <3> HIDE DEF order
    <3> SUFFICES ASSUME NEW i \in 0 .. m + 1
                 PROVE  u[i] = IF i = 0 THEN y ELSE Turn(u[i - 1], order[i])
      OBVIOUS
    <3>1. CASE i = m + 1
      <4>1. u[i] = last /\ u[i - 1] = t[m]
        BY <3>1
      <4> HIDE DEF u
      <4> QED
        BY <3>1, <4>1
    <3>2. CASE i \in 0 .. m
      <4>1. u[i] = t[i] /\ (i # 0 => u[i - 1] = t[i - 1])
        BY <3>2
      <4>2. t[i] = IF i = 0 THEN y ELSE Turn(t[i - 1], order[i])
        BY <2>1, <3>2
      <4> HIDE DEF u, Turn
      <4> QED
        BY <4>1, <4>2
    <3> QED
      BY <3>1, <3>2
  <2> HIDE DEF u, Goes
  <2> QED
    BY <2>2
<1>4. n \in S
  <2> HIDE DEF S
  <2> QED
    BY <1>1, <1>2, <1>3, SetInduction
<1>5. Len(order) = n
  BY <1>1
<1>6. EachInTurn(Confirm, y, chosen) = (CHOOSE t : Goes(Len(order), t))[Len(order)]
  BY DEF EachInTurn, Accumulate, n
<1>7. PICK t : t = CHOOSE u : Goes(n, u)
  OBVIOUS
<1>8. Goes(n, t)
  BY <1>4, <1>7
<1>9. t[0] = y /\ \A i \in 1 .. n : t[i] = Turn(t[i - 1], i)
  <2>1. \A i \in 0 .. n : t[i] = IF i = 0 THEN y ELSE Turn(t[i - 1], order[i])
    BY <1>8
  <2> HIDE DEF Turn
  <2>2. t[0] = y
    <3>1. 0 \in 0 .. n
      BY <1>1
    <3> HIDE DEF order
    <3> QED
      BY <2>1, <3>1
  <2>3. ASSUME NEW i \in 1 .. n PROVE t[i] = Turn(t[i - 1], i)
    <3>1. i \in 0 .. n /\ i # 0 /\ order[i] = i
      BY <1>1
    <3> HIDE DEF order
    <3> QED
      BY <2>1, <3>1
  <2> QED
    BY <2>2, <2>3
<1>10. t[0] = y /\ \A i \in 1 .. n : t[i] = ConfirmTurn(chosen, t[i - 1], i)
  BY <1>9 DEF ConfirmTurn
<1>11. EachInTurn(Confirm, y, chosen) = t[n]
  BY <1>5, <1>6, <1>7
<1> HIDE DEF Goes, order
<1> QED
  BY <1>10, <1>11 DEF n

\* And deleted one after the other.
DiscardTurn(chosen, x, i) == IF i \in chosen THEN Discard(x, i).yard ELSE x

\* What that comes to is the last of a list of yards, too.
LEMMA DiscardTurns ==
  ASSUME NEW y, LawfulYard(y), NEW chosen
  PROVE  \E t : /\ t[0] = y /\ \A i \in 1 .. LastId(y) : t[i] = DiscardTurn(chosen, t[i - 1], i)
                /\ EachInTurn(Discard, y, chosen) = t[LastId(y)]
<1> DEFINE n == LastId(y)
           Turn(x, i) == IF i \in chosen THEN Discard(x, i).yard ELSE x
           order == [i \in 1 .. n |-> i]
           Goes(m, t) == t = [i \in 0 .. m |-> IF i = 0 THEN y ELSE Turn(t[i - 1], order[i])]
           S == {m \in Nat : \E t : Goes(m, t)}
<1>1. n \in Nat
  BY LastIdBounds
<1> HIDE DEF n
<1>2. 0 \in S
  <2>1. Goes(0, [i \in 0 .. 0 |-> y])
    OBVIOUS
  <2> QED
    BY <2>1
<1>3. ASSUME NEW m \in Nat, m \in S PROVE m + 1 \in S
  <2>1. PICK t : Goes(m, t)
    BY <1>3
  <2> DEFINE last == Turn(t[m], order[m + 1])
             u == [i \in 0 .. m + 1 |-> IF i = m + 1 THEN last ELSE t[i]]
  <2>2. Goes(m + 1, u)
    <3> HIDE DEF order
    <3> SUFFICES ASSUME NEW i \in 0 .. m + 1
                 PROVE  u[i] = IF i = 0 THEN y ELSE Turn(u[i - 1], order[i])
      OBVIOUS
    <3>1. CASE i = m + 1
      <4>1. u[i] = last /\ u[i - 1] = t[m]
        BY <3>1
      <4> HIDE DEF u
      <4> QED
        BY <3>1, <4>1
    <3>2. CASE i \in 0 .. m
      <4>1. u[i] = t[i] /\ (i # 0 => u[i - 1] = t[i - 1])
        BY <3>2
      <4>2. t[i] = IF i = 0 THEN y ELSE Turn(t[i - 1], order[i])
        BY <2>1, <3>2
      <4> HIDE DEF u, Turn
      <4> QED
        BY <4>1, <4>2
    <3> QED
      BY <3>1, <3>2
  <2> HIDE DEF u, Goes
  <2> QED
    BY <2>2
<1>4. n \in S
  <2> HIDE DEF S
  <2> QED
    BY <1>1, <1>2, <1>3, SetInduction
<1>5. Len(order) = n
  BY <1>1
<1>6. EachInTurn(Discard, y, chosen) = (CHOOSE t : Goes(Len(order), t))[Len(order)]
  BY DEF EachInTurn, Accumulate, n
<1>7. PICK t : t = CHOOSE u : Goes(n, u)
  OBVIOUS
<1>8. Goes(n, t)
  BY <1>4, <1>7
<1>9. t[0] = y /\ \A i \in 1 .. n : t[i] = Turn(t[i - 1], i)
  <2>1. \A i \in 0 .. n : t[i] = IF i = 0 THEN y ELSE Turn(t[i - 1], order[i])
    BY <1>8
  <2> HIDE DEF Turn
  <2>2. t[0] = y
    <3>1. 0 \in 0 .. n
      BY <1>1
    <3> HIDE DEF order
    <3> QED
      BY <2>1, <3>1
  <2>3. ASSUME NEW i \in 1 .. n PROVE t[i] = Turn(t[i - 1], i)
    <3>1. i \in 0 .. n /\ i # 0 /\ order[i] = i
      BY <1>1
    <3> HIDE DEF order
    <3> QED
      BY <2>1, <3>1
  <2> QED
    BY <2>2, <2>3
<1>10. t[0] = y /\ \A i \in 1 .. n : t[i] = DiscardTurn(chosen, t[i - 1], i)
  BY <1>9 DEF DiscardTurn
<1>11. EachInTurn(Discard, y, chosen) = t[n]
  BY <1>5, <1>6, <1>7
<1> HIDE DEF Goes, order
<1> QED
  BY <1>10, <1>11 DEF n

\* What is confirmed, or deleted, one after the other stays lawful.
LEMMA TurnsLawful ==
  ASSUME NEW y, LawfulYard(y), NEW chosen
  PROVE  /\ LawfulYard(EachInTurn(Confirm, y, chosen))
         /\ LawfulYard(EachInTurn(Discard, y, chosen))
<1>1. LastId(y) \in Nat
  BY LastIdBounds
<1>2. LawfulYard(EachInTurn(Confirm, y, chosen))
  <2>1. PICK t : /\ t[0] = y /\ \A i \in 1 .. LastId(y) : t[i] = ConfirmTurn(chosen, t[i - 1], i)
                 /\ EachInTurn(Confirm, y, chosen) = t[LastId(y)]
    BY ConfirmTurns
  <2> DEFINE L == {i \in Nat : LawfulYard(t[i])}
  <2>2. \A i \in 0 .. LastId(y) - 1 : i \in L => i + 1 \in L
    <3> SUFFICES ASSUME NEW i \in 0 .. LastId(y) - 1, LawfulYard(t[i]) PROVE LawfulYard(t[i + 1])
      BY <1>1
    <3>1. i + 1 \in 1 .. LastId(y) /\ (i + 1) - 1 = i
      BY <1>1
    <3>2. t[i + 1] = ConfirmTurn(chosen, t[i], i + 1)
      BY <2>1, <3>1
    <3> QED
      BY <3>2, ConfirmLawful DEF ConfirmTurn
  <2>3. LastId(y) \in L
    <3>1. 0 \in L
      BY <2>1
    <3> HIDE DEF L
    <3> QED
      BY <1>1, <2>2, <3>1, Along
  <2> QED
    BY <2>1, <2>3
<1>3. LawfulYard(EachInTurn(Discard, y, chosen))
  <2>1. PICK t : /\ t[0] = y /\ \A i \in 1 .. LastId(y) : t[i] = DiscardTurn(chosen, t[i - 1], i)
                 /\ EachInTurn(Discard, y, chosen) = t[LastId(y)]
    BY DiscardTurns
  <2> DEFINE L == {i \in Nat : LawfulYard(t[i])}
  <2>2. \A i \in 0 .. LastId(y) - 1 : i \in L => i + 1 \in L
    <3> SUFFICES ASSUME NEW i \in 0 .. LastId(y) - 1, LawfulYard(t[i]) PROVE LawfulYard(t[i + 1])
      BY <1>1
    <3>1. i + 1 \in 1 .. LastId(y) /\ (i + 1) - 1 = i
      BY <1>1
    <3>2. t[i + 1] = DiscardTurn(chosen, t[i], i + 1)
      BY <2>1, <3>1
    <3> QED
      BY <3>2, DiscardLawful DEF DiscardTurn
  <2>3. LastId(y) \in L
    <3>1. 0 \in L
      BY <2>1
    <3> HIDE DEF L
    <3> QED
      BY <1>1, <2>2, <3>1, Along
  <2> QED
    BY <2>1, <2>3
<1> QED
  BY <1>2, <1>3

\* Receipts are confirmed together or not at all, shipments as far as they can be.
LEMMA SelectionsLawful ==
  ASSUME NEW y, LawfulYard(y), NEW chosen
  PROVE  /\ LawfulYard(ConfirmReceipts(y, chosen).yard)
         /\ LawfulYard(ConfirmShipments(y, chosen).yard)
         /\ LawfulYard(RemoveShipments(y, chosen).yard)
<1>1. LawfulYard(EachInTurn(Confirm, y, chosen)) /\ LawfulYard(EachInTurn(Discard, y, chosen))
  BY TurnsLawful
<1>2. LawfulYard(ConfirmReceipts(y, chosen).yard)
  BY <1>1, OutcomeYard DEF ConfirmReceipts
<1>3. /\ ConfirmShipments(y, chosen).yard = EachInTurn(Confirm, y, chosen)
      /\ RemoveShipments(y, chosen).yard = EachInTurn(Discard, y, chosen)
  BY DEF ConfirmShipments, RemoveShipments, Settled, Granted
<1> QED
  BY <1>1, <1>2, <1>3

\* Postings are no receipts.
LEMMA PostedLawful ==
  ASSUME NEW y, LawfulYard(y), NEW lines
  PROVE  LawfulYard(Posted(y, lines))
<1> DEFINE posting == Posting(NextId(y), Today, lines)
<1>1. Lawful(posting)
  BY DEF Posting, Lawful, Complete, Stated
<1>2. NextId(y) \in 1 .. LastId(y) + 1
  BY LastIdBounds DEF NextId
<1> HIDE DEF posting
<1>3. LawfulYard(WithDocuments(y, With(y.documents, NextId(y), posting)))
  BY <1>1, <1>2, PutIn
<1> QED
  BY <1>3 DEF Posted, posting

\* Whatever is asked for, the yard stays lawful.
LEMMA ServeLawful ==
  ASSUME NEW y, LawfulYard(y), NEW request, WellFormed(request)
  PROVE  LawfulYard(Serve(y, request).yard)
<1>1. /\ \A i : LawfulYard(Confirm(y, i).yard) /\ LawfulYard(Copy(y, i).yard) /\ LawfulYard(Discard(y, i).yard)
      /\ \A i, x : LawfulYard(Track(y, i, x).yard) /\ LawfulYard(Annotate(y, i, x).yard)
  BY ConfirmLawful, CopyLawful, DiscardLawful, TrackLawful, AnnotateLawful
<1>2. request.op = "receipt" => LawfulYard(SaveReceipt(y, request.id, request.payload).yard)
  BY SaveLawful DEF WellFormed
<1>3. \A x : /\ LawfulYard(ConfirmReceipts(y, x).yard) /\ LawfulYard(ConfirmShipments(y, x).yard)
             /\ LawfulYard(RemoveShipments(y, x).yard)
  BY SelectionsLawful
<1>4. /\ \A r : LawfulYard(PostTransfer(y, r).yard)
      /\ \A x, z : LawfulYard(PostWarehouse(y, x, z).yard)
      /\ \A x : LawfulYard(PostAdjustment(y, x).yard) /\ LawfulYard(PostCount(y, x).yard)
  BY PostedLawful, OutcomeYard DEF PostTransfer, PostWarehouse, PostAdjustment, PostCount
<1>5. /\ \A i, x : LawfulYard(Retype(y, i, x).yard) /\ LawfulYard(RetypeBox(y, i, x).yard)
  BY BoxTypeLawful, OutcomeYard DEF Retype, RetypeBox
<1>6. /\ \A x : LawfulYard(Tell(y, x).yard)
      /\ \A x, z, r : LawfulYard(PutMaster(y, x, z, r).yard) /\ LawfulYard(DropMaster(y, x, z).yard)
  BY OutcomeYard DEF Tell, PutMaster, DropMaster, Granted, LawfulYard
<1> QED
  BY <1>1, <1>2, <1>3, <1>4, <1>5, <1>6 DEF Serve

-----------------------------------------------------------------------------
(* Sequences of loads *)

\* A load is added at the end.
LEMMA Appended ==
  ASSUME NEW s, IsSequence(s), NEW e
  PROVE  /\ IsSequence(Append(s, e)) /\ Append(s, e) # <<>>
         /\ Len(s) \in Nat /\ Len(Append(s, e)) = Len(s) + 1
         /\ \A i \in 1..Len(s) : Append(s, e)[i] = s[i]
         /\ Append(s, e)[Len(s) + 1] = e
<1>1. PICK S : s \in Seq(S)
  BY DEF IsSequence
<1>2. s \in Seq(S \cup {e}) /\ e \in S \cup {e}
  BY <1>1, SeqMonotonic
<1>3. Append(s, e) \in Seq(S \cup {e})
  BY <1>2
<1> QED
  BY <1>2, <1>3 DEF IsSequence

\* Leaving a page changes which loads are heard of there, and nothing else.
LEMMA CarriedEntries ==
  ASSUME NEW s, Entries(s)
  PROVE  /\ Entries(Carried(s)) /\ Len(Carried(s)) = Len(s)
         /\ \A i \in 1..Len(s) : Carried(s)[i].from = s[i].from
<1>1. PICK S : s \in Seq(S)
  BY DEF Entries, IsSequence
<1>2. Len(s) \in Nat /\ DOMAIN s = 1..Len(s)
  BY <1>1, LenProperties
<1>3. \A i \in 1..Len(s) : Entry(Carried(s)[i]) /\ Carried(s)[i].from = s[i].from
  <2> TAKE i \in 1..Len(s)
  <2>1. Carried(s)[i] = [s[i] EXCEPT !.tail = Heard(@, PageOf(path'))]
    BY <1>2 DEF Carried
  <2>2. Entry(s[i])
    BY DEF Entries
  <2> QED
    BY <2>1, <2>2 DEF Entry
<1> DEFINE R == {Carried(s)[i] : i \in 1..Len(s)}
<1>4. Carried(s) \in [1..Len(s) -> R]
  BY <1>2 DEF Carried
<1>5. Carried(s) \in Seq(R) /\ Len(Carried(s)) = Len(s)
  BY <1>2, <1>4, SeqDef
<1> QED
  BY <1>3, <1>5 DEF Entries, IsSequence

\* A load that is taken out leaves the others in their order.
LEMMA Removed ==
  ASSUME NEW s, Entries(s), NEW i \in DOMAIN s
  PROVE  /\ Entries(RemoveAt(s, i)) /\ Len(s) \in Nat \ {0} /\ Len(RemoveAt(s, i)) = Len(s) - 1
         /\ i = 1 /\ Len(s) > 1 => /\ RemoveAt(s, i)[Len(RemoveAt(s, i))] = s[Len(s)]
                                   /\ RemoveAt(s, i) # <<>>
         /\ Len(s) = 1 => RemoveAt(s, i) = <<>>
         /\ \A j \in DOMAIN RemoveAt(s, i) : \E k \in DOMAIN s : RemoveAt(s, i)[j] = s[k]
<1>1. PICK S : s \in Seq(S)
  BY DEF Entries, IsSequence
<1>2. Len(s) \in Nat \ {0} /\ i \in 1..Len(s) /\ \A j \in 1..Len(s) : s[j] \in S
  BY <1>1, LenProperties, ElementOfSeq
<1> DEFINE before == SubSeq(s, 1, i - 1)
           after == SubSeq(s, i + 1, Len(s))
<1>3. /\ before \in Seq(S) /\ Len(before) = i - 1
      /\ \A j \in 1..(i - 1) : before[j] = s[j]
  <2>1. \A j \in 1..(i - 1) : s[j] \in S
    BY <1>2
  <2> QED
    BY <1>2, <2>1, SubSeqProperties
<1>4. /\ after \in Seq(S) /\ Len(after) = Len(s) - i
      /\ \A j \in 1..(Len(s) - i) : after[j] = s[i + j]
  <2>1. \A j \in (i + 1)..Len(s) : s[j] \in S
    BY <1>2
  <2> QED
    BY <1>2, <2>1, SubSeqProperties
<1> HIDE DEF before, after
<1>5. RemoveAt(s, i) = before \o after
  BY DEF RemoveAt, before, after
<1>6. /\ RemoveAt(s, i) \in Seq(S) /\ Len(RemoveAt(s, i)) = Len(s) - 1
      /\ \A j \in 1..(Len(s) - 1) : RemoveAt(s, i)[j] = IF j <= i - 1 THEN s[j] ELSE s[j + 1]
  BY <1>2, <1>3, <1>4, <1>5, ConcatProperties
<1>7. \A j \in 1..Len(RemoveAt(s, i)) : Entry(RemoveAt(s, i)[j])
  BY <1>2, <1>6 DEF Entries
<1>8. Len(s) = 1 => RemoveAt(s, i) = <<>>
  BY <1>6, EmptySeq
<1>9. Len(s) > 1 => RemoveAt(s, i) # <<>>
  BY <1>2, <1>6, EmptySeq
<1>10. ASSUME NEW j \in DOMAIN RemoveAt(s, i) PROVE \E k \in DOMAIN s : RemoveAt(s, i)[j] = s[k]
  <2>1. j \in 1..(Len(s) - 1) /\ DOMAIN s = 1..Len(s)
    BY <1>1, <1>6, <1>10, LenProperties
  <2>2. j \in 1..Len(s) /\ j + 1 \in 1..Len(s)
    BY <1>2, <2>1
  <2> QED
    BY <1>6, <2>1, <2>2
<1> QED
  BY <1>2, <1>6, <1>7, <1>8, <1>9, <1>10 DEF Entries, IsSequence

-----------------------------------------------------------------------------
(* What a user does on a page *)

\* Changing the page leaves what the browser has alone, and asks for nothing.
LEMMA ActKeeps == ASSUME NEW l, Act(l) PROVE Routine
<1> SUFFICES ASSUME Act(l) PROVE Routine
  OBVIOUS
<1>1. /\ budget' = [budget EXCEPT !.clicks = @ - 1] /\ budget.clicks > 0
      /\ UNCHANGED <<log, session, path, data, loads, mine, call>>
  BY DEF Act, Click
<1>2. "others" \in DOMAIN budget => "others" \in DOMAIN budget' /\ budget'.others = budget.others
  BY <1>1
<1>3. Budgeted(budget) => Budgeted(budget')
  BY <1>1 DEF Budgeted
<1> QED
  BY <1>1, <1>2, <1>3 DEF Routine, KeepsData, OrdersKept, StaysPut

\* So does sending a request that is well formed.
LEMMA SendKeeps == ASSUME NEW l, NEW request, WellFormed(request), Send(l, request) PROVE Routine
<1>1. /\ budget' = [budget EXCEPT !.clicks = Min({@ - 1, 1})] /\ budget.clicks > 0
      /\ UNCHANGED <<log, session, path, data, loads, mine>> /\ SignedIn /\ Len(loads) < MaxLoads
      /\ call' = [request |-> request, page |-> Page, here |-> TRUE]
  BY DEF Send
<1>2. "others" \in DOMAIN budget => "others" \in DOMAIN budget' /\ budget'.others = budget.others
  BY <1>1
<1>3. Called(call')
  BY <1>1 DEF Called
<1>4. Budgeted(budget) => Budgeted(budget')
  <2>1. ASSUME NEW n \in Nat, n > 0 PROVE Min({n - 1, 1}) \in Nat
    <3>1. \E x \in {n - 1, 1} : \A y \in {n - 1, 1} : x <= y
      BY <2>1
    <3>2. Min({n - 1, 1}) \in {n - 1, 1}
      BY <3>1 DEF Min
    <3> QED
      BY <2>1, <3>2
  <2> QED
    BY <1>1, <2>1 DEF Budgeted
<1> QED
  BY <1>1, <1>2, <1>3, <1>4 DEF Routine, KeepsData, OrdersKept, StaysPut

\* A request for a record is well formed, whatever it says.
LEMMA PutsAreWellFormed ==
  ASSUME NEW kind, NEW key, NEW record
  PROVE  /\ WellFormed(Put(kind, key, record))
         /\ WellFormed(Over([cell |-> TRUE], Put(kind, key, record)))
         /\ \A x : WellFormed(Over(Put(kind, key, record), [previous |-> x]))
<1> DEFINE put == Put(kind, key, record)
<1>1. DOMAIN put = {"op", "kind", "key", "record"} /\ put.op = "put"
  BY DEF Put
<1> HIDE DEF put
<1>2. Over([cell |-> TRUE], put).op = "put" /\ \A x : Over(put, [previous |-> x]).op = "put"
  BY <1>1 DEF Over
<1> QED
  BY <1>1, <1>2 DEF WellFormed, put

\* Each click on a page of documents changes the page or sends a request.
LEMMA DocumentClicksKeep == DocumentClicks => Routine
<1> SUFFICES ASSUME DocumentClicks PROVE Routine
  OBVIOUS
<1>1. ASSUME NEW text PROVE TypeSearch(text) \/ SearchFor => Routine
  BY ActKeeps DEF TypeSearch, SearchFor
<1>2. ASSUME NEW x PROVE SetPeriod(x) \/ TurnWeek(x) \/ AdvanceRow(x) \/ CopyRow(x) => Routine
  BY ActKeeps, SendKeeps DEF WellFormed, SetPeriod, TurnWeek, AdvanceRow, CopyRow
<1>3. ASSUME NEW i
      PROVE SelectListed(i) \/ ConfirmListed(i) \/ TrackListed(i) \/ CopyListed(i) \/ CancelListed(i) \/ ChooseListed(i)
              => Routine
  BY ActKeeps, SendKeeps
     DEF WellFormed, SelectListed, ConfirmListed, TrackListed, CopyListed, CancelListed, ChooseListed, Ask
<1>4. ASSUME NEW x PROVE FilterList(x) \/ TypeListNote(x) \/ ChooseType(x) => Routine
  BY ActKeeps DEF FilterList, TypeListNote, ChooseType
<1>5. AnswerNo \/ AnswerYes \/ ChooseAllListed \/ AskForBatch \/ SaveListNote => Routine
  <2>1. local.prompt.op = "remove" => WellFormed(local.prompt)
    BY DEF WellFormed
  <2>2. \A op \in AllBatches : \A chosen : WellFormed([op |-> op, chosen |-> chosen])
    BY DEF AllBatches, WellFormed
  <2>3. AnswerYes => Routine
    BY <2>1, <2>2, SendKeeps DEF AnswerYes
  <2>4. SaveListNote => Routine
    BY SendKeeps DEF SaveListNote, WellFormed
  <2> QED
    BY <2>3, <2>4, ActKeeps DEF AnswerNo, ChooseAllListed, AskForBatch
<1>6. SaveType \/ CopyHere \/ AdjustHere => Routine
  BY ActKeeps, SendKeeps DEF WellFormed, SaveType, CopyHere, AdjustHere
<1>7. ASSUME NEW x, NEW y
      PROVE FillHeader(x) \/ SetHandling(x) \/ RemoveReceiptLine(x) \/ ChooseSku(x, y) \/ TypeReceived(x, y) => Routine
  BY ActKeeps DEF FillHeader, SetHandling, RemoveReceiptLine, ChooseSku, TypeReceived, Edit
<1>8. AddReceiptLine \/ AttachFile \/ CopyDrawn => Routine
  BY ActKeeps, SendKeeps DEF WellFormed, AddReceiptLine, AttachFile, CopyDrawn, Edit
<1>9. ASSUME NEW x, NEW y PROVE GoToStep(x) \/ SaveAs(x, y) => Routine
  <2>1. WellFormed(SaveRequest(y))
    BY DEF SaveRequest, WellFormed, Stated, Payload, ReceiptPayload
  <2> QED
    BY <2>1, ActKeeps, SendKeeps DEF GoToStep, SaveAs
<1> QED
  BY <1>1, <1>2, <1>3, <1>4, <1>5, <1>6, <1>7, <1>8, <1>9 DEF DocumentClicks

\* So does each click on a page of stock, in a dialog or for a warehouse.
LEMMA StockClicksKeep == StockClicks => Routine
<1> SUFFICES ASSUME StockClicks PROVE Routine
  OBVIOUS
<1>1. ASSUME NEW dialog, Adapt(dialog) PROVE Routine
  BY <1>1, ActKeeps DEF Adapt
<1>2. ASSUME NEW op \in {"adjust", "transfer", "count"}, NEW payload, Submits(op, payload) PROVE Routine
  BY <1>2, SendKeeps DEF Submits, WellFormed
<1>3. OpenDialog \/ CloseDialog => Routine
  BY <1>1, ActKeeps DEF OpenDialog, CloseDialog
<1>4. AdjustmentClicks => Routine
  BY <1>1, <1>2 DEF AdjustmentClicks, ChooseContainerToAdjust, SetAdjustmentMode, GiveReason, SubmitAdjustment, TypeBalance
<1>5. TransferClicks => Routine
  BY <1>1, <1>2 DEF TransferClicks, ChooseContainerToMove, ChooseMode, ChooseDestination, ChooseSection, TypeMoved,
                    SubmitTransfer
<1>6. CountClicks => Routine
  BY <1>1, <1>2 DEF CountClicks, ChooseSource, AddCount, SubmitCount, RemoveCount, ChooseItem, TypeCounted
<1>7. OpenWarehouse \/ CloseWhole \/ SubmitWarehouse => Routine
  BY ActKeeps, SendKeeps DEF WellFormed, OpenWarehouse, CloseWhole, SubmitWarehouse
<1>8. ASSUME NEW x PROVE SelectPosting(x) \/ ChooseFrom(x) \/ ChooseTo(x) => Routine
  BY ActKeeps DEF SelectPosting, ChooseFrom, ChooseTo
<1> QED
  BY <1>3, <1>4, <1>5, <1>6, <1>7, <1>8 DEF StockClicks

\* So does each click on the contents, a container, the log, the summary or the map.
LEMMA ContainerClicksKeep == ContainerClicks => Routine
<1> SUFFICES ASSUME ContainerClicks PROVE Routine
  OBVIOUS
<1>1. ASSUME NEW x PROVE QueryContents(x) \/ QueryLog(x) \/ ChooseRow(x) => Routine
  BY ActKeeps DEF QueryContents, QueryLog, ChooseRow
<1>2. OpenBulkDialog \/ CloseBulkDialog \/ SubmitBulk => Routine
  BY ActKeeps, SendKeeps DEF WellFormed, OpenBulkDialog, CloseBulkDialog, SubmitBulk
<1>3. ASSUME NEW x PROVE ChooseBulkDestination(x) \/ OpenContainerDialog(x) => Routine
  BY ActKeeps DEF ChooseBulkDestination, OpenContainerDialog
<1>4. ASSUME NEW x PROVE FilterContainers(x) \/ ClickNode(x) \/ SaveBoxType(x) => Routine
  BY ActKeeps, SendKeeps DEF WellFormed, FilterContainers, ClickNode, SaveBoxType
<1>5. ASSUME NEW x, NEW y PROVE TellEvent(x, y) => Routine
  BY SendKeeps DEF WellFormed, TellEvent
<1>6. ASSUME NEW x
      PROVE SelectMovement(x) \/ FilterSummary(x) \/ FilterMap(x) \/ SelectSource(x) \/ ClickBlock(x) => Routine
  BY ActKeeps DEF SelectMovement, FilterSummary, FilterMap, SelectSource, ClickBlock
<1> QED
  BY <1>1, <1>2, <1>3, <1>4, <1>5, <1>6 DEF ContainerClicks

\* So does each click on the records and their columns.
LEMMA RecordClicksKeep == RecordClicks => Routine
<1> SUFFICES ASSUME RecordClicks PROVE Routine
  OBVIOUS
<1>1. ASSUME NEW x PROVE SelectCustomer(x) \/ EditRecord(x) \/ DeleteRecord(x) \/ FillRecord(x) => Routine
  BY ActKeeps, SendKeeps DEF WellFormed, SelectCustomer, EditRecord, DeleteRecord, FillRecord
<1>2. NewRecord \/ CloseRecordDialog \/ SubmitRecord => Routine
  BY ActKeeps, SendKeeps, PutsAreWellFormed DEF NewRecord, CloseRecordDialog, SubmitRecord
<1>3. ASSUME NEW x, NEW y PROVE EditCell(x, y) \/ DragColumn(x, y) => Routine
  BY ActKeeps, SendKeeps, PutsAreWellFormed DEF EditCell, DragColumn
<1>4. OpenColumns \/ CloseColumns \/ ResetColumns \/ SaveColumns => Routine
  BY ActKeeps, SendKeeps, PutsAreWellFormed DEF OpenColumns, CloseColumns, ResetColumns, SaveColumns
<1> QED
  BY <1>1, <1>2, <1>3, <1>4 DEF RecordClicks

\* So does each click on warehouses and their layouts.
LEMMA WarehouseClicksKeep == WarehouseClicks => Routine
<1> SUFFICES ASSUME WarehouseClicks PROVE Routine
  OBVIOUS
<1>1. ASSUME NEW refused, NEW record, SaveWarehouse(refused, record) PROVE Routine
  BY <1>1, ActKeeps, SendKeeps, PutsAreWellFormed DEF SaveWarehouse
<1>2. ASSUME NEW x, NEW y PROVE OpenWarehouseRecord(x, y) \/ NameSection(x, y) \/ ChangeBlock(x, y) => Routine
  BY ActKeeps DEF OpenWarehouseRecord, NameSection, ChangeBlock
<1>3. ASSUME NEW x
      PROVE DeleteWarehouse(x) \/ SaveName(x) \/ NameWarehouse(x) \/ SelectBlock(x) \/ AddLayoutBlock(x) => Routine
  BY <1>1, ActKeeps, SendKeeps DEF WellFormed, DeleteWarehouse, SaveName, NameWarehouse, SelectBlock, AddLayoutBlock
<1>4. CloseWarehouseRecord \/ SaveSections \/ DropBlock \/ SubmitLayout => Routine
  BY <1>1, ActKeeps, SendKeeps, PutsAreWellFormed DEF CloseWarehouseRecord, SaveSections, DropBlock, SubmitLayout
<1> QED
  BY <1>2, <1>3, <1>4 DEF WarehouseClicks

\* So does each click on the reports.
LEMMA ReportClicksKeep == ReportClicks => Routine
<1>1. ASSUME NEW x PROVE ShowTab(x) \/ FillForm(x) \/ TypeRate(x) => Routine
  BY ActKeeps DEF ShowTab, FillForm, TypeRate
<1> QED
  BY <1>1 DEF ReportClicks

\* What a page asks for on its own stays on that page.
LEMMA FetchKeeps == Fetch => Routine
<1>1. ASSUME NEW reply, Fetched(reply) PROVE Routine
  <2>1. /\ budget' = budget \/ (budget.faults > 0 /\ budget' = [budget EXCEPT !.faults = @ - 1])
        /\ UNCHANGED <<log, session, path, data, loads, mine, call>>
    BY <1>1 DEF Fetched, Suffered, Fates
  <2>2. "others" \in DOMAIN budget => "others" \in DOMAIN budget' /\ budget'.others = budget.others
    BY <2>1
  <2>3. Budgeted(budget) => Budgeted(budget')
    BY <2>1 DEF Budgeted
  <2> QED
    BY <2>1, <2>2, <2>3 DEF Routine, KeepsData, OrdersKept, StaysPut
<1> QED
  BY <1>1 DEF Fetch, FetchList, FetchLog, FetchReport, FetchContainers, FetchLife, FetchOrder

-----------------------------------------------------------------------------
(* The steps *)

\* What leaves versions and loads alone keeps the invariant.
LEMMA KeptSound == WorkInv /\ KeepsData => WorkInv'
BY DEF WorkInv, KeepsData, VersionsSound, Covered

\* Going somewhere only changes who hears of the loads.
LEMMA CarriedSound ==
  ASSUME WorkInv, loads' = Carried(loads), UNCHANGED <<log, data, mine>>
  PROVE  WorkInv'
<1>1. /\ Entries(loads') /\ Len(loads') = Len(loads) /\ Len(loads) \in Nat
      /\ \A i \in 1..Len(loads) : loads'[i].from = loads[i].from
  BY CarriedEntries, LenProperties DEF WorkInv, Entries, IsSequence
<1>2. (loads' = <<>> <=> loads = <<>>)
  BY <1>1, EmptySeq DEF WorkInv, Entries, IsSequence
<1>3. loads # <<>> => Len(loads) \in 1..Len(loads)
  BY EmptySeq DEF WorkInv, Entries, IsSequence
<1> QED
  BY <1>1, <1>2, <1>3 DEF WorkInv, VersionsSound, Covered, Awaited

\* A load that starts now brings all that the user made.
LEMMA BegunSound ==
  ASSUME WorkInv, NEW s, Entries(s), NEW kind, NEW tail,
         loads' = Append(s, [kind |-> kind, from |-> Len(log'), tail |-> tail]),
         VersionsSound'
  PROVE  WorkInv'
<1> DEFINE load == [kind |-> kind, from |-> Len(log'), tail |-> tail]
<1>1. Len(log') \in Nat
  BY LenProperties DEF VersionsSound, IsSequence
<1>2. Entry(load) /\ load.from = Len(log')
  BY <1>1 DEF Entry
<1> HIDE DEF load
<1>3. /\ IsSequence(loads') /\ loads' # <<>> /\ Len(loads') = Len(s) + 1 /\ Len(s) \in Nat
      /\ \A i \in 1..Len(s) : loads'[i] = s[i]
      /\ loads'[Len(s) + 1] = load
  BY Appended DEF Entries, load
<1>4. \A i \in 1..Len(loads') : Entry(loads'[i])
  BY <1>2, <1>3 DEF Entries
<1>5. Awaited(loads', mine'.version)
  BY <1>1, <1>2, <1>3 DEF Awaited, VersionsSound
<1> QED
  BY <1>3, <1>4, <1>5 DEF WorkInv, Entries, Covered

\* A version of someone else, or one that no page asks to see, covers nothing less.
LEMMA LoggedSound ==
  ASSUME WorkInv, IsSequence(log'), Len(log) \in Nat, Len(log') = Len(log) + 1,
         loads' = loads \/ loads' = Carried(loads), UNCHANGED <<data, mine>>
  PROVE  WorkInv'
<1>1. VersionsSound'
  BY DEF WorkInv, VersionsSound
<1>2. Entries(loads') /\ (~mine.overtaken => Covered')
  <2>1. CASE loads' = loads
    BY <2>1 DEF WorkInv, Covered
  <2>2. CASE loads' = Carried(loads)
    <3>1. /\ Entries(loads') /\ Len(loads') = Len(loads) /\ Len(loads) \in Nat
          /\ \A i \in 1..Len(loads) : loads'[i].from = loads[i].from
      BY <2>2, CarriedEntries, LenProperties DEF WorkInv, Entries, IsSequence
    <3>2. (loads' = <<>> <=> loads = <<>>) /\ (loads # <<>> => Len(loads) \in 1..Len(loads))
      BY <3>1, EmptySeq DEF WorkInv, Entries, IsSequence
    <3> QED
      BY <3>1, <3>2 DEF WorkInv, Covered, Awaited
  <2> QED
    BY <2>1, <2>2
<1> QED
  BY <1>1, <1>2 DEF WorkInv

\* Whoever signs out, or opens the portal, has made nothing yet.
LEMMA ForgottenSound ==
  ASSUME WorkInv, UNCHANGED <<log, loads>>, mine' = [version |-> 0, overtaken |-> FALSE],
         Parts \cup {"loading", "failed"} \subseteq DOMAIN data', \A p \in Parts : data'[p] \in Nat
  PROVE  WorkInv'
<1>1. Len(log) \in Nat
  BY LenProperties DEF WorkInv, VersionsSound, IsSequence
<1>2. VersionsSound'
  BY <1>1 DEF WorkInv, VersionsSound
<1>3. loads # <<>> => Len(loads) \in 1..Len(loads)
  BY EmptySeq, LenProperties DEF WorkInv, Entries, IsSequence
<1>4. Covered'
  BY <1>3 DEF WorkInv, Entries, Entry, Covered, Awaited
<1> QED
  BY <1>2, <1>4 DEF WorkInv

\* The browser starts with nothing, and has nothing to show.
LEMMA InitSound == Init => WorkInv
<1> SUFFICES ASSUME Init PROVE WorkInv
  OBVIOUS
<1>1. log \in Seq({FirstYard}) /\ Len(log) = 1
  BY DEF Init
<1>2. loads = <<>> /\ <<>> \in Seq({}) /\ Len(<<>>) = 0
  BY EmptySeq DEF Init
<1>3. Parts \cup {"loading", "failed"} \subseteq DOMAIN data /\ \A p \in Parts : data[p] = 0
  <2>1. data = NoData
    BY DEF Init
  <2> QED
    BY <2>1 DEF NoData, Parts
<1>4. {"version", "overtaken"} \subseteq DOMAIN mine /\ mine.version = 0
  BY DEF Init
<1> QED
  BY <1>1, <1>2, <1>3, <1>4 DEF WorkInv, VersionsSound, Entries, Covered, IsSequence

\* Signing in and out, and the portal.
LEMMA SessionsSound == WorkInv /\ Sessions => WorkInv'
<1> SUFFICES ASSUME WorkInv, Sessions PROVE WorkInv'
  OBVIOUS
<1>1. Parts \cup {"loading", "failed"} \subseteq DOMAIN data /\ \A p \in Parts : data[p] \in Nat
  BY DEF WorkInv, VersionsSound
<1>2. CASE SessionFound
  <2>1. CASE UNCHANGED <<log, data, loads, mine>>
    BY <2>1, KeptSound DEF KeepsData
  <2>2. CASE Began("boot") /\ UNCHANGED <<log, data, mine>>
    <3>1. VersionsSound'
      BY <2>2 DEF WorkInv, VersionsSound
    <3> QED
      BY <2>2, <3>1, BegunSound DEF Began, Load, WorkInv
  <2> QED
    BY <1>2, <2>1, <2>2 DEF SessionFound
<1>3. CASE SessionMissing
  <2>1. /\ UNCHANGED <<log, loads, mine>> /\ data' = [data EXCEPT !.loading = FALSE]
    BY <1>3 DEF SessionMissing
  <2>2. DOMAIN data' = DOMAIN data /\ data'.failed = data.failed /\ \A p \in Parts : data'[p] = data[p]
    BY <1>1, <2>1 DEF Parts
  <2> QED
    BY <2>1, <2>2 DEF WorkInv, VersionsSound, Covered
<1>4. CASE Login
  <2>1. CASE UNCHANGED <<log, data, loads, mine>>
    BY <2>1, KeptSound DEF KeepsData
  <2>2. CASE /\ Began("spin") /\ UNCHANGED <<log, mine>>
             /\ data' = [data EXCEPT !.loading = TRUE, !.failed = FALSE]
    <3>1. DOMAIN data' = DOMAIN data /\ \A p \in Parts : data'[p] = data[p]
      BY <1>1, <2>2 DEF Parts
    <3>2. VersionsSound'
      BY <2>2, <3>1 DEF WorkInv, VersionsSound
    <3> QED
      BY <2>2, <3>2, BegunSound DEF Began, Load, WorkInv
  <2> QED
    BY <1>4, <2>1, <2>2 DEF Login
<1>5. CASE Logout
  <2>1. /\ UNCHANGED <<log, loads>> /\ data' = [data EXCEPT !.documents = 0, !.stock = 0, !.ledger = 0, !.masters = 0]
        /\ mine' = [version |-> 0, overtaken |-> FALSE]
    BY <1>5 DEF Logout
  <2>2. /\ Parts \cup {"loading", "failed"} \subseteq DOMAIN data'
        /\ \A p \in Parts : data'[p] \in Nat
    BY <1>1, <2>1 DEF Parts
  <2> QED
    BY <2>1, <2>2, ForgottenSound
<1>6. CASE OpenPortal
  <2>1. /\ UNCHANGED <<log, loads>> /\ data' = NoData /\ mine' = [version |-> 0, overtaken |-> FALSE]
    BY <1>6 DEF OpenPortal
  <2>2. /\ Parts \cup {"loading", "failed"} \subseteq DOMAIN data'
        /\ \A p \in Parts : data'[p] \in Nat
    <3>1. DOMAIN NoData = Parts \cup {"loading", "failed"} /\ \A p \in Parts : NoData[p] = 0
      BY DEF NoData, Parts
    <3> QED
      BY <2>1, <3>1
  <2> QED
    BY <2>1, <2>2, ForgottenSound
<1>7. CASE ExitPortal
  BY <1>7, KeptSound DEF ExitPortal, KeepsData
<1> QED
  BY <1>2, <1>3, <1>4, <1>5, <1>6, <1>7 DEF Sessions

\* An answer is a version of its own; a page that reloads starts with it.
LEMMA AnswerSound == WorkInv /\ Answer => WorkInv'
<1> SUFFICES ASSUME WorkInv, NEW answer, Grant(answer) \/ Deny(answer) \/ Lose(answer) PROVE WorkInv'
  BY DEF Answer
<1>1. ASSUME NEW yard, log' = Append(log, yard) PROVE IsSequence(log') /\ Len(log') = Len(log) + 1 /\ Len(log) \in Nat
  BY <1>1, Appended DEF WorkInv, VersionsSound
<1>2. CASE Grant(answer)
  <2>1. PICK id, up : Follow(id, up)
    BY <1>2 DEF Grant
  <2>2. IsSequence(log') /\ Len(log') = Len(log) + 1 /\ Len(log) \in Nat
    BY <1>1, <1>2 DEF Grant
  <2>3. CASE loads' = Carried(loads) /\ UNCHANGED <<mine, data>>
    BY <2>2, <2>3, LoggedSound
  <2>4. CASE /\ \E tail : loads' = Append(Carried(loads), Load("quiet", tail))
             /\ mine' = [mine EXCEPT !.version = Len(log')]
             /\ data' = [data EXCEPT !.failed = FALSE]
    <3>1. /\ DOMAIN data' = DOMAIN data /\ \A p \in Parts : data'[p] = data[p]
      BY <2>4 DEF WorkInv, VersionsSound, Parts
    <3>2. VersionsSound'
      <4>1. {"version", "overtaken"} \subseteq DOMAIN mine' /\ mine'.version = Len(log')
        BY <2>4 DEF WorkInv, VersionsSound
      <4>2. Len(log') \in 0..Len(log')
        BY <2>2
      <4>3. Parts \cup {"loading", "failed"} \subseteq DOMAIN data' /\ \A p \in Parts : data'[p] \in Nat
        BY <3>1 DEF WorkInv, VersionsSound
      <4> QED
        BY <2>2, <4>1, <4>2, <4>3 DEF VersionsSound
    <3>3. Entries(Carried(loads))
      BY CarriedEntries DEF WorkInv
    <3> QED
      BY <2>4, <3>2, <3>3, BegunSound DEF Load
  <2> QED
    BY <2>1, <2>3, <2>4 DEF Follow
<1>3. CASE Deny(answer)
  BY <1>3, KeptSound DEF Deny, Refuse, KeepsData
<1>4. CASE Lose(answer)
  <2>1. CASE log' = log
    BY <1>4, <2>1, KeptSound DEF Lose, Refuse, KeepsData
  <2>2. CASE log' = Append(log, answer.yard)
    <3>1. IsSequence(log') /\ Len(log') = Len(log) + 1 /\ Len(log) \in Nat
      BY <1>1, <2>2
    <3> QED
      BY <1>4, <3>1, LoggedSound DEF Lose, Refuse
  <2> QED
    BY <1>4, <2>1, <2>2 DEF Lose
<1> QED
  BY <1>2, <1>3, <1>4

\* A load brings what it reads; what is lost of it, the page says.
LEMMA FinishLoadSound == WorkInv /\ FinishLoad => WorkInv'
<1> SUFFICES ASSUME WorkInv, FinishLoad PROVE WorkInv'
  OBVIOUS
<1>1. PICK i \in DOMAIN loads, lost \in {None} \cup Parts :
        \E read \in Readings(loads[i].from) :
          /\ data' = LoadedData(loads[i], read, lost)
          /\ loads' = RemoveAt(Carried(loads), i)
          /\ mine' = [mine EXCEPT !.overtaken = @ \/ i > 1]
          /\ UNCHANGED log
  BY DEF FinishLoad
<1>2. PICK read \in Readings(loads[i].from) :
          /\ data' = LoadedData(loads[i], read, lost)
          /\ loads' = RemoveAt(Carried(loads), i)
          /\ mine' = [mine EXCEPT !.overtaken = @ \/ i > 1]
          /\ UNCHANGED log
  BY <1>1
<1>3. /\ Entries(Carried(loads)) /\ Len(Carried(loads)) = Len(loads)
      /\ \A j \in 1..Len(loads) : Carried(loads)[j].from = loads[j].from
  BY CarriedEntries DEF WorkInv
<1>4. DOMAIN loads = 1..Len(loads) /\ DOMAIN Carried(loads) = DOMAIN loads
  BY LenProperties DEF WorkInv, Entries, IsSequence, Carried
<1>5. /\ Entries(loads') /\ Len(loads) \in Nat \ {0}
      /\ i = 1 /\ Len(loads) > 1 => loads'[Len(loads')] = Carried(loads)[Len(loads)] /\ loads' # <<>>
      /\ Len(loads) = 1 => loads' = <<>>
  <2>1. i \in DOMAIN Carried(loads)
    BY <1>4
  <2> QED
    BY <1>2, <1>3, <2>1, Removed
<1>6. /\ loads[i].from \in Nat
      /\ \A p \in Parts : read[p] \in Nat /\ read[p] >= loads[i].from
  <2>1. loads[i].from \in Nat
    BY <1>4 DEF WorkInv, Entries, Entry
  <2>2. Newest \in Nat
    BY LenProperties DEF WorkInv, VersionsSound, IsSequence, Newest
  <2>3. PICK q \in Parts, v \in (loads[i].from..Newest) \X (loads[i].from..Newest) :
          read = [r \in Parts |-> IF r = q THEN v[1] ELSE v[2]]
    BY <1>2 DEF Readings
  <2> QED
    BY <2>1, <2>2, <2>3
<1>7. /\ Parts \cup {"loading", "failed"} \subseteq DOMAIN data'
      /\ \A p \in Parts : data'[p] = IF p = lost THEN data[p] ELSE read[p]
      /\ lost # None => data'.failed
  BY <1>2 DEF LoadedData, VersionsSound, WorkInv, Parts
<1>8. VersionsSound'
  BY <1>2, <1>6, <1>7 DEF WorkInv, VersionsSound
<1>9. ~mine'.overtaken => i = 1 /\ ~mine.overtaken
  <2>1. mine'.overtaken <=> mine.overtaken \/ i > 1
    BY <1>2 DEF WorkInv, VersionsSound
  <2> QED
    BY <1>4, <1>5, <2>1
<1>10. mine'.version = mine.version /\ mine.version \in Nat
  BY <1>2, LenProperties DEF WorkInv, VersionsSound, IsSequence
<1>11. CASE mine'.overtaken
  BY <1>5, <1>8, <1>11 DEF WorkInv
<1>12. CASE ~mine'.overtaken /\ Len(loads) > 1
  <2>1. loads # <<>> /\ Awaited(loads, mine.version)
    BY <1>5, <1>9, <1>12, EmptySeq DEF WorkInv, Covered
  <2>2. Awaited(loads', mine'.version) /\ loads' # <<>>
    BY <1>3, <1>5, <1>9, <1>10, <1>12, <2>1 DEF Awaited
  <2> QED
    BY <1>5, <1>8, <2>2 DEF WorkInv, Covered
<1>13. CASE ~mine'.overtaken /\ Len(loads) = 1
  <2>1. loads # <<>> /\ Awaited(loads, mine.version)
    BY <1>5, <1>9, <1>13, EmptySeq DEF WorkInv, Covered
  <2>2. loads[i].from >= mine.version
    BY <1>9, <1>13, <2>1 DEF Awaited
  <2>3. lost = None => \A p \in Parts : data'[p] = read[p]
    BY <1>7, NoneIsNoName
  <2>4. data'.failed \/ \A p \in Parts : data'[p] >= mine'.version
    BY <1>6, <1>7, <1>10, <2>2, <2>3
  <2> QED
    BY <1>5, <1>8, <1>13, <2>4 DEF WorkInv, Covered
<1>14. Len(loads) = 1 \/ Len(loads) > 1
  <2>1. \A n \in Nat \ {0} : n = 1 \/ n > 1
    OBVIOUS
  <2> QED
    BY <1>5, <2>1
<1> QED
  BY <1>11, <1>12, <1>13, <1>14

\* Every step keeps it: going somewhere here, the rest in the lemmas.
LEMMA StepSound == WorkInv /\ [Next]_vars => WorkInv'
<1> SUFFICES ASSUME WorkInv, [Next]_vars PROVE WorkInv'
  OBVIOUS
<1>1. CASE Sessions
  BY <1>1, SessionsSound
<1>2. CASE Clicks
  <2>1. ASSUME NEW lead, Navigate(lead) PROVE WorkInv'
    BY <2>1, CarriedSound DEF Navigate
  <2>2. DocumentClicks \/ StockClicks \/ ContainerClicks \/ RecordClicks \/ WarehouseClicks \/ ReportClicks => WorkInv'
    BY KeptSound, DocumentClicksKeep, StockClicksKeep, ContainerClicksKeep, RecordClicksKeep, WarehouseClicksKeep,
       ReportClicksKeep DEF Routine
  <2> QED
    BY <1>2, <2>1, <2>2 DEF Clicks
<1>3. CASE Fetch
  BY <1>3, KeptSound, FetchKeeps DEF Routine
<1>4. CASE Answer
  BY <1>4, AnswerSound
<1>5. CASE OthersWork
  <2>1. PICK yard : log' = Append(log, yard) /\ UNCHANGED <<data, loads, mine>>
    BY <1>5 DEF OthersWork
  <2>2. IsSequence(log') /\ Len(log') = Len(log) + 1 /\ Len(log) \in Nat
    BY <2>1, Appended DEF WorkInv, VersionsSound
  <2> QED
    BY <2>1, <2>2, LoggedSound
<1>6. CASE FinishLoad
  BY <1>6, FinishLoadSound
<1>7. CASE UNCHANGED vars
  BY <1>7, KeptSound DEF vars, core, KeepsData
<1> QED
  BY <1>1, <1>2, <1>3, <1>4, <1>5, <1>6, <1>7 DEF Next

\* What the user's own calls made is on the screen once everything has come
\* back, unless the page says that a load failed, or an older load came last
\* (loadAppData reads every part after the call that asks for the reload).
THEOREM OwnWorkShown == Spec => []OwnWorkIsShown
<1>1. WorkInv => OwnWorkIsShown
  BY DEF WorkInv, Covered, OwnWorkIsShown, Quiet
<1> QED
  BY InitSound, StepSound, <1>1, PTL DEF Spec

-----------------------------------------------------------------------------
(* Types *)

Stages == {"checking", "loading", "in", "out", "portal"}

\* A workspace that is not shown waits for no call, and one that is not there for no load;
\* customers never get there.
Seated ==
  /\ {"at", "role"} \subseteq DOMAIN session /\ session.at \in Stages
  /\ session.at \in {"checking", "portal"} \/ Role = "customer" => loads = <<>> /\ call = None
  /\ Role = "customer" => session.at \notin {"loading", "in"}
  /\ call # None => SignedIn /\ Len(loads) < MaxLoads
  /\ session.at \in {"loading", "in"} => Shows(Page, Role)

\* Nothing was read from a version that is not there.
Sourced ==
  /\ Len(log) >= 1
  /\ \A p \in Parts : data[p] \in 0..Len(log)
  /\ data.loading \in BOOLEAN /\ data.failed \in BOOLEAN
  /\ \A i \in DOMAIN loads : loads[i].from \in 1..Len(log)
  /\ Len(loads) <= MaxLoads + 1

TypeInv == WorkInv /\ Seated /\ Sourced /\ Budgeted(budget)

\* A page that may not be seen gives way to one that all see.
LEMMA PermittedShows == \A to, role : Shows(PageOf(Permitted(to, role)), role)
<1>1. PageOf(PagePath("dashboard")) = "dashboard"
  BY DEF PageOf, PageAt, PlainPages, PagePath, OwnPath, Path
<1>2. \A role : Shows("dashboard", role)
  BY DEF Shows, OnlyAdmins
<1> QED
  BY <1>1, <1>2 DEF Permitted

\* Wherever a user is led, the page may be seen if the one that is left may.
LEMMA LedShows ==
  ASSUME NEW place, NEW to, NEW g, Shows(PageOf(place.path), Role)
  PROVE  Shows(PageOf(LedTo(place, to, g).path), Role)
<1>1. ASSUME NEW lead PROVE Visit(place, lead, g).path = Permitted(lead.to, Role)
  BY DEF Visit, Rendered, Arrived
<1> QED
  BY <1>1, PermittedShows DEF LedTo

\* How many versions and loads there are.
LEMMA Lengths == WorkInv => /\ Len(log) \in Nat /\ Len(loads) \in Nat /\ DOMAIN loads = 1..Len(loads)
BY LenProperties DEF WorkInv, VersionsSound, Entries, IsSequence

\* What keeps the data and stays where it is keeps the types.
LEMMA RoutineTyped == ASSUME TypeInv, WorkInv', Routine PROVE TypeInv'
<1>1. UNCHANGED <<log, data, loads, mine, session, path>> /\ Budgeted(budget')
  BY DEF Routine, KeepsData, StaysPut, TypeInv
<1>2. Role' = Role /\ Page' = Page /\ (SignedIn' <=> SignedIn)
  BY <1>1 DEF Role, Page, SignedIn
<1>3. call' # None => SignedIn /\ Len(loads) < MaxLoads
  BY DEF Routine, StaysPut, TypeInv, Seated
<1>4. session.at \in {"checking", "portal"} \/ Role = "customer" => ~SignedIn
  BY DEF TypeInv, Seated, SignedIn
<1>5. Seated'
  BY <1>1, <1>2, <1>3, <1>4 DEF TypeInv, Seated
<1>6. Sourced'
  BY <1>1 DEF TypeInv, Sourced
<1> QED
  BY <1>1, <1>5, <1>6 DEF TypeInv

\* What may go wrong goes wrong as often as it may.
LEMMA SufferedKeeps == ASSUME NEW fate, Budgeted(budget), fate = FALSE => budget.faults > 0, Suffered(fate), fate \in BOOLEAN PROVE Budgeted(budget')
BY DEF Suffered, Budgeted

\* A load that begins reads what there is.
LEMMA BegunTyped ==
  ASSUME WorkInv, NEW s, Entries(s), Len(s) <= MaxLoads, NEW kind, NEW tail,
         loads' = Append(s, Load(kind, tail)), \A i \in 1..Len(s) : s[i].from \in 1..Len(log),
         Len(log') \in Nat, Len(log') >= Len(log), Len(log) >= 1
  PROVE  /\ \A i \in DOMAIN loads' : loads'[i].from \in 1..Len(log')
         /\ Len(loads') <= MaxLoads + 1 /\ Len(loads') = Len(s) + 1
<1>1. /\ IsSequence(loads') /\ Len(loads') = Len(s) + 1 /\ Len(s) \in Nat
      /\ \A i \in 1..Len(s) : loads'[i] = s[i]
      /\ loads'[Len(s) + 1] = Load(kind, tail)
  BY Appended DEF Entries
<1>2. DOMAIN loads' = 1..(Len(s) + 1)
  BY <1>1, LenProperties DEF IsSequence
<1>3. Load(kind, tail).from = Len(log')
  BY DEF Load
<1>4. Len(log) \in Nat
  BY Lengths
<1>5. ASSUME NEW i \in 1..(Len(s) + 1) PROVE loads'[i].from \in 1..Len(log')
  <2>1. CASE i \in 1..Len(s)
    BY <1>1, <1>4, <2>1
  <2>2. CASE i = Len(s) + 1
    BY <1>1, <1>3, <1>4, <2>2
  <2> QED
    BY <1>1, <1>5, <2>1, <2>2
<1> QED
  BY <1>1, <1>2, <1>5, BoundsAssumption

\* Loads that are carried, or of which one has come back, are those that there were.
LEMMA CarriedTyped ==
  ASSUME WorkInv
  PROVE  /\ Entries(Carried(loads)) /\ Len(Carried(loads)) = Len(loads) /\ DOMAIN Carried(loads) = 1..Len(loads)
         /\ \A i \in 1..Len(loads) : Carried(loads)[i].from = loads[i].from
<1>1. Carried(loads) = Carried(loads) /\ DOMAIN Carried(loads) = DOMAIN loads
  BY DEF Carried
<1> QED
  BY <1>1, CarriedEntries, Lengths DEF WorkInv

\* Every variable starts with a value of its type.
LEMMA InitTyped == Init => TypeInv
<1> SUFFICES ASSUME Init PROVE TypeInv
  OBVIOUS
<1>1. PICK s \in Starts : /\ session = [at |-> "checking", role |-> s.role, signed |-> s.signed]
                          /\ budget = [clicks |-> s.clicks, faults |-> s.faults, others |-> s.others, menu |-> s.menu]
  BY DEF Init
<1>2. Budgeted(budget)
  BY <1>1, BoundsAssumption DEF Budgeted
<1>3. Seated
  BY <1>1 DEF Init, Seated, Stages, SignedIn
<1>4. Sourced
  <2>1. Len(log) = 1 /\ loads = <<>> /\ data = NoData
    BY DEF Init
  <2>2. DOMAIN loads = {} /\ Len(loads) = 0
    BY <2>1
  <2>3. \A p \in Parts : data[p] = 0
    BY <2>1 DEF NoData, Parts
  <2>4. data.loading = TRUE /\ data.failed = FALSE
    BY <2>1 DEF NoData
  <2>5. \A p \in Parts : data[p] \in 0..Len(log)
    BY <2>1, <2>3
  <2>6. Len(loads) <= MaxLoads + 1
    BY <2>2, BoundsAssumption
  <2>7. data.loading \in BOOLEAN /\ data.failed \in BOOLEAN
    BY <2>4
  <2> QED
    BY <2>1, <2>2, <2>5, <2>6, <2>7 DEF Sourced
<1> QED
  BY <1>2, <1>3, <1>4, InitSound DEF TypeInv

\* Signing in and out, and the portal.
LEMMA SessionsTyped == ASSUME TypeInv, WorkInv', Sessions PROVE TypeInv'
<1>1. Len(log) \in Nat /\ Len(loads) \in Nat /\ DOMAIN loads = 1..Len(loads) /\ Len(log) >= 1 /\ MaxLoads \in Nat
  BY Lengths, BoundsAssumption DEF TypeInv, Sourced
<1>2. {"at", "role"} \subseteq DOMAIN session /\ Parts \cup {"loading", "failed"} \subseteq DOMAIN data
  BY DEF TypeInv, Seated, WorkInv, VersionsSound
<1>3. ASSUME NEW kind, Began(kind), Len(loads) <= MaxLoads, UNCHANGED log
      PROVE  (\A i \in DOMAIN loads' : loads'[i].from \in 1..Len(log')) /\ Len(loads') <= MaxLoads + 1
  BY <1>1, <1>3, BegunTyped DEF TypeInv, Sourced, WorkInv, Began
<1>4. CASE SessionFound
  <2>1. CASE Role = "customer"
    <3>1. Enter("portal") /\ UNCHANGED <<log, loads, data, call, budget>>
      BY <1>4, <2>1 DEF SessionFound
    <3>2. session'.at = "portal" /\ Role' = Role /\ {"at", "role"} \subseteq DOMAIN session'
      BY <1>2, <3>1 DEF Enter, Role
    <3>3. Seated'
      BY <2>1, <3>1, <3>2 DEF TypeInv, Seated, Stages, SignedIn
    <3> QED
      BY <3>1, <3>3 DEF TypeInv, Sourced
  <2>2. CASE Role # "customer"
    <3>1. /\ Enter("loading") /\ Began("boot") /\ path' = Permitted(path, Role) /\ UNCHANGED <<log, data, call, budget>>
          /\ session.at = "checking"
      BY <1>4, <2>2 DEF SessionFound
    <3>2. session'.at = "loading" /\ Role' = Role /\ {"at", "role"} \subseteq DOMAIN session'
      BY <1>2, <3>1 DEF Enter, Role
    <3>3. loads = <<>> /\ call = None
      BY <3>1 DEF TypeInv, Seated
    <3>4. Shows(Page', Role')
      BY <3>1, <3>2, PermittedShows DEF Page
    <3>5. Seated'
      BY <2>2, <3>1, <3>2, <3>3, <3>4 DEF Seated, Stages
    <3>6. Len(loads) <= MaxLoads
      BY <1>1, <3>3
    <3>7. Sourced'
      BY <1>3, <3>1, <3>6 DEF TypeInv, Sourced
    <3> QED
      BY <3>1, <3>5, <3>7 DEF TypeInv
  <2> QED
    BY <2>1, <2>2
<1>5. CASE SessionMissing
  <2>1. /\ Enter("out") /\ data' = [data EXCEPT !.loading = FALSE] /\ UNCHANGED <<log, loads, call, budget>>
        /\ session.at = "checking"
    BY <1>5 DEF SessionMissing
  <2>2. session'.at = "out" /\ Role' = Role /\ {"at", "role"} \subseteq DOMAIN session'
    BY <1>2, <2>1 DEF Enter, Role
  <2>3. Seated'
    BY <2>1, <2>2 DEF TypeInv, Seated, Stages
  <2>4. data'.loading = FALSE /\ data'.failed = data.failed /\ \A p \in Parts : data'[p] = data[p]
    BY <1>2, <2>1 DEF Parts
  <2>5. Sourced'
    BY <2>1, <2>4 DEF TypeInv, Sourced
  <2> QED
    BY <2>1, <2>3, <2>5 DEF TypeInv
<1>6. CASE Login
  <2>1. session.at = "out" /\ Len(loads) < MaxLoads /\ call = None /\ UNCHANGED <<log, call, budget>>
    BY <1>6 DEF Login, TypeInv, Seated, SignedIn
  <2>2. CASE Role = "customer"
    <3>1. Enter("portal") /\ UNCHANGED <<data, loads>>
      BY <1>6, <2>2 DEF Login
    <3>2. session'.at = "portal" /\ Role' = Role /\ {"at", "role"} \subseteq DOMAIN session'
      BY <1>2, <3>1 DEF Enter, Role
    <3>3. Seated'
      BY <2>1, <2>2, <3>1, <3>2 DEF TypeInv, Seated, Stages
    <3> QED
      BY <2>1, <3>1, <3>3 DEF TypeInv, Sourced
  <2>3. CASE Role # "customer"
    <3>1. /\ session' = [session EXCEPT !.at = "in", !.signed = TRUE] /\ Began("spin")
          /\ data' = [data EXCEPT !.loading = TRUE, !.failed = FALSE]
          /\ GoTo(Arrived(Permitted(path, Role), contexts, Given(log, data', Role)))
      BY <1>6, <2>3 DEF Login
    <3>2. session'.at = "in" /\ Role' = Role /\ {"at", "role"} \subseteq DOMAIN session'
      BY <1>2, <3>1 DEF Role
    <3>3. path' = Permitted(path, Role)
      BY <3>1 DEF GoTo, Arrived
    <3>4. Seated'
      BY <2>1, <2>3, <3>2, <3>3, PermittedShows DEF Seated, Stages, Page
    <3>5. data'.loading = TRUE /\ data'.failed = FALSE /\ \A p \in Parts : data'[p] = data[p]
      BY <1>2, <3>1 DEF Parts
    <3>6. Sourced'
      BY <1>1, <1>3, <2>1, <3>1, <3>5 DEF TypeInv, Sourced
    <3> QED
      BY <2>1, <3>4, <3>6 DEF TypeInv
  <2> QED
    BY <2>2, <2>3
<1>7. CASE Logout
  <2>1. /\ session' = [session EXCEPT !.at = "out", !.signed = FALSE] /\ UNCHANGED <<log, loads, call>>
        /\ data' = [data EXCEPT !.documents = 0, !.stock = 0, !.ledger = 0, !.masters = 0]
        /\ call = None /\ SignedIn /\ budget' = [budget EXCEPT !.clicks = @ - 1] /\ budget.clicks > 0
    BY <1>7 DEF Logout, Working, Click
  <2>2. session'.at = "out" /\ Role' = Role /\ {"at", "role"} \subseteq DOMAIN session'
    BY <1>2, <2>1 DEF Role
  <2>3. Role # "customer"
    BY <2>1 DEF TypeInv, Seated, SignedIn
  <2>4. Seated'
    BY <2>1, <2>2, <2>3 DEF Seated, Stages
  <2>5. data'.loading = data.loading /\ data'.failed = data.failed /\ \A p \in Parts : data'[p] \in {data[p], 0}
    BY <1>2, <2>1 DEF Parts
  <2>6. Sourced'
    BY <1>1, <2>1, <2>5 DEF TypeInv, Sourced
  <2>7. Budgeted(budget')
    BY <2>1 DEF TypeInv, Budgeted
  <2> QED
    BY <2>4, <2>6, <2>7 DEF TypeInv
<1>8. CASE OpenPortal
  <2>1. /\ Enter("portal") /\ UNCHANGED <<log, loads, call>> /\ data' = NoData /\ loads = <<>> /\ call = None
        /\ budget' = [budget EXCEPT !.clicks = @ - 1] /\ budget.clicks > 0
    BY <1>8 DEF OpenPortal, Working, Click
  <2>2. session'.at = "portal" /\ Role' = Role /\ {"at", "role"} \subseteq DOMAIN session'
    BY <1>2, <2>1 DEF Enter, Role
  <2>3. Seated'
    BY <2>1, <2>2 DEF Seated, Stages
  <2>4. data'.loading = TRUE /\ data'.failed = FALSE /\ \A p \in Parts : data'[p] = 0
    BY <2>1 DEF NoData, Parts
  <2>5. Sourced'
    <3>1. \A p \in Parts : data'[p] \in 0..Len(log')
      BY <1>1, <2>1, <2>4
    <3>2. data'.loading \in BOOLEAN /\ data'.failed \in BOOLEAN
      BY <2>4
    <3> QED
      BY <2>1, <3>1, <3>2 DEF TypeInv, Sourced
  <2>6. Budgeted(budget')
    BY <2>1 DEF TypeInv, Budgeted
  <2> QED
    BY <2>3, <2>5, <2>6 DEF TypeInv
<1>9. CASE ExitPortal
  <2>1. /\ Enter("checking") /\ UNCHANGED <<log, loads, call, data>> /\ session.at = "portal"
        /\ budget' = [budget EXCEPT !.clicks = @ - 1] /\ budget.clicks > 0
    BY <1>9 DEF ExitPortal, Click
  <2>2. session'.at = "checking" /\ Role' = Role /\ {"at", "role"} \subseteq DOMAIN session'
    BY <1>2, <2>1 DEF Enter, Role
  <2>3. Seated'
    BY <2>1, <2>2 DEF TypeInv, Seated, Stages
  <2>4. Budgeted(budget')
    BY <2>1 DEF TypeInv, Budgeted
  <2> QED
    BY <2>1, <2>3, <2>4 DEF TypeInv, Sourced
<1> QED
  BY <1>4, <1>5, <1>6, <1>7, <1>8, <1>9 DEF Sessions

\* A call that is answered may bring a version, a load and another place.
LEMMA AnswerTyped == ASSUME TypeInv, WorkInv', Answer PROVE TypeInv'
<1>1. call # None /\ call' = None /\ UNCHANGED session /\ SignedIn /\ Len(loads) < MaxLoads
  BY DEF Answer, TypeInv, Seated
<1>2. PICK answer : Grant(answer) \/ Deny(answer) \/ Lose(answer)
  BY DEF Answer
<1>3. Len(log) \in Nat /\ Len(loads) \in Nat /\ DOMAIN loads = 1..Len(loads) /\ Len(log) >= 1 /\ MaxLoads \in Nat
  BY Lengths, BoundsAssumption DEF TypeInv, Sourced
<1>4. ASSUME NEW yard, log' = Append(log, yard) PROVE Len(log') = Len(log) + 1
  BY <1>4, Appended DEF TypeInv, WorkInv, VersionsSound
<1>5. /\ Entries(Carried(loads)) /\ Len(Carried(loads)) = Len(loads) /\ DOMAIN Carried(loads) = 1..Len(loads)
      /\ \A i \in 1..Len(loads) : Carried(loads)[i].from = loads[i].from
  BY CarriedTyped DEF TypeInv
<1>6. /\ Parts \cup {"loading", "failed"} \subseteq DOMAIN data /\ Role' = Role /\ Shows(Page, Role)
      /\ {"at", "role"} \subseteq DOMAIN session /\ session.at = "in" /\ Role # "customer"
  BY <1>1 DEF TypeInv, Seated, WorkInv, VersionsSound, Role, SignedIn
<1>7. ASSUME Shows(Page', Role) PROVE Seated'
  BY <1>1, <1>6, <1>7 DEF Seated, Stages
<1>8. ASSUME Len(log') \in {Len(log), Len(log) + 1}, UNCHANGED data, loads' = loads \/ loads' = Carried(loads)
      PROVE  Sourced'
  <2>1. \A i \in 1..Len(loads) : loads[i].from \in 1..Len(log)
    BY <1>3 DEF TypeInv, Sourced
  <2>2. Len(loads') = Len(loads) /\ DOMAIN loads' = 1..Len(loads) /\ \A i \in 1..Len(loads) : loads'[i].from = loads[i].from
    BY <1>3, <1>5, <1>8
  <2>3. Len(log') \in Nat /\ Len(log') >= Len(log)
    BY <1>3, <1>8
  <2>4. \A p \in Parts : data'[p] \in 0..Len(log')
    BY <1>3, <1>8, <2>3 DEF TypeInv, Sourced
  <2>5. \A i \in DOMAIN loads' : loads'[i].from \in 1..Len(log')
    BY <1>3, <2>1, <2>2, <2>3
  <2> QED
    BY <1>3, <1>8, <2>2, <2>3, <2>4, <2>5 DEF TypeInv, Sourced
<1>9. CASE Grant(answer)
  <2>1. /\ log' = Append(log, answer.yard) /\ GoTo(AnsweredAt(answer.id))
        /\ \E up : Suffered(up = FilesOf(call.request)) /\ (up = FilesOf(call.request) \/ budget.faults > 0)
                   /\ Follow(answer.id, up)
    BY <1>9 DEF Grant
  <2>2. PICK up : /\ Suffered(up = FilesOf(call.request)) /\ (up = FilesOf(call.request) \/ budget.faults > 0)
                  /\ Follow(answer.id, up)
    BY <2>1
  <2>3. Len(log') = Len(log) + 1
    BY <1>4, <2>1
  <2>4. Shows(Page', Role)
    <3>1. Shows(PageOf(AnsweredAt(answer.id).path), Role)
      <4> DEFINE place == [Place EXCEPT !.local = Settles(PageAnswered(Page, local, call.request, G.documents, answer.id))]
      <4>1. place.path = path
        BY DEF Place
      <4>2. AnsweredAt(answer.id) = LedTo(place, LedAtOnce(call.page, call.request, answer.id), G)
        BY DEF AnsweredAt
      <4> HIDE DEF place
      <4> QED
        BY <1>6, <4>1, <4>2, LedShows DEF Page
    <3> QED
      BY <2>1, <3>1 DEF GoTo, Page
  <2>5. Seated'
    BY <1>7, <2>4
  <2>6. Sourced'
    <3>1. CASE loads' = Carried(loads) /\ UNCHANGED <<mine, data>>
      BY <1>8, <2>3, <3>1
    <3>2. CASE /\ \E tail : loads' = Append(Carried(loads), Load("quiet", tail))
               /\ data' = [data EXCEPT !.failed = FALSE]
      <4>1. PICK tail : loads' = Append(Carried(loads), Load("quiet", tail))
        BY <3>2
      <4>2. \A i \in 1..Len(Carried(loads)) : Carried(loads)[i].from \in 1..Len(log)
        BY <1>3, <1>5 DEF TypeInv, Sourced
      <4>3. (\A i \in DOMAIN loads' : loads'[i].from \in 1..Len(log')) /\ Len(loads') <= MaxLoads + 1
        BY <1>1, <1>3, <1>5, <2>3, <4>1, <4>2, BegunTyped DEF TypeInv
      <4>4. data'.failed = FALSE /\ data'.loading = data.loading /\ \A p \in Parts : data'[p] = data[p]
        BY <1>6, <3>2 DEF Parts
      <4>5. \A p \in Parts : data'[p] \in 0..Len(log')
        BY <1>3, <2>3, <4>4 DEF TypeInv, Sourced
      <4>6. data'.loading \in BOOLEAN /\ data'.failed \in BOOLEAN
        BY <4>4 DEF TypeInv, Sourced
      <4>7. Len(log') >= 1
        BY <1>3, <2>3
      <4> QED
        BY <4>3, <4>5, <4>6, <4>7 DEF Sourced
    <3> QED
      BY <2>2, <3>1, <3>2 DEF Follow
  <2>7. Budgeted(budget')
    BY <2>2, SufferedKeeps DEF TypeInv
  <2> QED
    BY <2>5, <2>6, <2>7 DEF TypeInv
<1>10. ASSUME Refuse PROVE UNCHANGED <<path, data, loads>> /\ Seated'
  <2>1. UNCHANGED <<path, data, loads>>
    BY <1>10 DEF Refuse
  <2> QED
    BY <1>6, <1>7, <2>1 DEF Page
<1>11. CASE Deny(answer)
  <2>1. Refuse /\ UNCHANGED <<log, budget>>
    BY <1>11 DEF Deny
  <2> QED
    BY <1>8, <1>10, <2>1 DEF TypeInv
<1>12. CASE Lose(answer)
  <2>1. Refuse /\ budget.faults > 0 /\ Suffered(FALSE) /\ log' \in {log, Append(log, answer.yard)}
    BY <1>12 DEF Lose
  <2>2. Len(log') \in {Len(log), Len(log) + 1}
    BY <1>4, <2>1
  <2>3. Budgeted(budget')
    BY <2>1, SufferedKeeps DEF TypeInv
  <2> QED
    BY <1>8, <1>10, <2>1, <2>2, <2>3 DEF TypeInv
<1> QED
  BY <1>2, <1>9, <1>11, <1>12

\* What a load brings was there since it began.
LEMMA FinishTyped == ASSUME TypeInv, WorkInv', FinishLoad PROVE TypeInv'
<1>1. Len(log) \in Nat /\ Len(loads) \in Nat /\ DOMAIN loads = 1..Len(loads) /\ Len(log) >= 1 /\ MaxLoads \in Nat
  BY Lengths, BoundsAssumption DEF TypeInv, Sourced
<1> DEFINE Finished(i, lost, read) ==
             /\ data' = LoadedData(loads[i], read, lost) /\ Suffered(lost = None)
             /\ Show(loads[i], Given(log, data', Role))
             /\ loads' = RemoveAt(Carried(loads), i) /\ call' = Heard(call, PageOf(path'))
             /\ UNCHANGED log
<1>0. PICK i \in DOMAIN loads, lost \in {None} \cup {p \in Parts : budget.faults > 0} :
        \E read \in Readings(loads[i].from) : Finished(i, lost, read)
  BY DEF FinishLoad
<1>2. PICK read \in Readings(loads[i].from) : Finished(i, lost, read)
  BY <1>0
<1>3. /\ {"at", "role"} \subseteq DOMAIN session /\ Parts \cup {"loading", "failed"} \subseteq DOMAIN data
      /\ loads # <<>>
  BY <1>1, <1>2 DEF TypeInv, Seated, WorkInv, VersionsSound
<1>4. session.at \notin {"checking", "portal"} /\ Role # "customer"
  BY <1>3 DEF TypeInv, Seated
<1>5. Budgeted(budget')
  <2>1. lost # None => budget.faults > 0
    BY <1>2
  <2> QED
    BY <1>2, <2>1, SufferedKeeps DEF TypeInv
<1>6. /\ Len(loads') < Len(loads)
      /\ \A j \in DOMAIN loads' : \E k \in 1..Len(loads) : loads'[j].from = loads[k].from
  <2>1. /\ Entries(Carried(loads)) /\ Len(Carried(loads)) = Len(loads) /\ DOMAIN Carried(loads) = 1..Len(loads)
        /\ \A j \in 1..Len(loads) : Carried(loads)[j].from = loads[j].from
    BY CarriedTyped DEF TypeInv
  <2>2. Len(loads') = Len(Carried(loads)) - 1 /\ \A j \in DOMAIN loads' : \E k \in DOMAIN Carried(loads) : loads'[j] = Carried(loads)[k]
    <3>1. i \in DOMAIN Carried(loads) /\ loads' = RemoveAt(Carried(loads), i)
      BY <1>1, <1>2, <2>1
    <3> QED
      BY <2>1, <3>1, Removed
  <2> QED
    BY <1>1, <2>1, <2>2
<1>7. Sourced'
  <2>1. \A p \in Parts : read[p] \in 0..Len(log)
    <3>1. loads[i].from \in 1..Len(log)
      BY <1>2 DEF TypeInv, Sourced
    <3>2. PICK q \in Parts, v \in (loads[i].from..Newest) \X (loads[i].from..Newest) :
            read = [r \in Parts |-> IF r = q THEN v[1] ELSE v[2]]
      BY <1>2 DEF Readings
    <3>3. v[1] \in 0..Len(log) /\ v[2] \in 0..Len(log)
      BY <1>1, <3>1, <3>2 DEF Newest
    <3> QED
      BY <3>2, <3>3
  <2>2. \A p \in Parts : data'[p] \in {data[p], read[p]}
    BY <1>2, <1>3 DEF LoadedData, Parts
  <2>3. data' = LoadedData(loads[i], read, lost)
    BY <1>2
  <2>4. data'.loading \in BOOLEAN /\ data'.failed \in BOOLEAN
    <3>1. data'["loading"] \in BOOLEAN
      BY <1>3, <2>3 DEF LoadedData, Parts
    <3>2. data'["failed"] \in BOOLEAN
      BY <1>3, <2>3 DEF LoadedData, Parts
    <3> QED
      BY <3>1, <3>2
  <2>5. \A p \in Parts : data'[p] \in 0..Len(log')
    BY <1>2, <2>1, <2>2 DEF TypeInv, Sourced
  <2>6. \A j \in DOMAIN loads' : loads'[j].from \in 1..Len(log')
    BY <1>1, <1>2, <1>6 DEF TypeInv, Sourced
  <2>7. Len(loads') <= MaxLoads + 1
    <3>1. Len(loads') \in Nat
      BY LenProperties DEF WorkInv, Entries, IsSequence
    <3> QED
      BY <1>1, <1>6, <3>1 DEF TypeInv, Sourced
  <2> QED
    BY <1>1, <1>2, <2>4, <2>5, <2>6, <2>7 DEF Sourced
<1>8. Seated'
  <2>1. call' # None => call # None
    BY <1>2 DEF Heard
  <2>2. Len(loads) < MaxLoads => Len(loads') < MaxLoads
    <3>1. Len(loads') \in Nat
      BY LenProperties DEF WorkInv, Entries, IsSequence
    <3> QED
      BY <1>1, <1>6, <3>1
  <2> DEFINE after == Given(log, data', Role)
  <2>3. Role' = Role /\ {"at", "role"} \subseteq DOMAIN session'
    BY <1>2, <1>3 DEF Show, Enter, Role
  <2>4. /\ session'.at \in {"in", "out"} /\ (SignedIn => SignedIn')
        /\ session'.at = "in" => Shows(Page', Role)
    <3>1. CASE session.at = "loading" /\ Enter("in") /\ GoTo(Arrived(path, contexts, after))
      <4>1. session'.at = "in" /\ path' = path
        BY <1>3, <3>1 DEF Enter, GoTo, Arrived
      <4> QED
        BY <3>1, <4>1 DEF TypeInv, Seated, SignedIn, Page
    <3>2. CASE SignedIn /\ GoTo(Concluded(Reloaded(after), loads[i].tail, after)) /\ UNCHANGED session
      <4>1. Shows(Page, Role)
        BY <3>2 DEF TypeInv, Seated, SignedIn
      <4>2. Reloaded(after).path = path
        <5> DEFINE there == Rendered(Place, path, contexts, G, after, TRUE)
        <5>1. there.path = path
          BY DEF Rendered, Arrived
        <5> HIDE DEF there
        <5>2. GridsGiven(there).path = path
          BY <5>1 DEF GridsGiven
        <5> QED
          BY <5>2 DEF Reloaded, there
      <4>3. Shows(PageOf(Concluded(Reloaded(after), loads[i].tail, after).path), Role)
        <5> DEFINE there == Reloaded(after)
                   place == SettledAt(there, loads[i].tail)
        <5>1. place.path = there.path
          BY DEF SettledAt
        <5> HIDE DEF there, place
        <5>2. Shows(PageOf(there.path), Role) /\ Shows(PageOf(place.path), Role)
          BY <4>1, <4>2, <5>1 DEF Page, there
        <5>3. \A to : Shows(PageOf(LedTo(place, to, after).path), Role)
          BY <5>2, LedShows
        <5> QED
          BY <5>2, <5>3 DEF Concluded, there, place
      <4> QED
        BY <3>2, <4>3 DEF GoTo, Page, SignedIn
    <3>3. CASE session.at = "out" /\ UNCHANGED session
      BY <3>3 DEF SignedIn
    <3> QED
      BY <1>2, <3>1, <3>2, <3>3 DEF Show, after
  <2> QED
    BY <1>4, <2>1, <2>2, <2>3, <2>4 DEF TypeInv, Seated, Stages
<1> QED
  BY <1>5, <1>7, <1>8 DEF TypeInv

\* Every step keeps the types: going somewhere here, the rest in the lemmas.
LEMMA StepTyped == WorkInv /\ TypeInv /\ [Next]_vars => TypeInv'
<1> SUFFICES ASSUME TypeInv, [Next]_vars PROVE TypeInv'
  OBVIOUS
<1>1. WorkInv'
  BY StepSound DEF TypeInv
<1>2. CASE Sessions
  BY <1>1, <1>2, SessionsTyped
<1>3. CASE Clicks
  <2>1. ASSUME NEW lead, Navigate(lead) PROVE TypeInv'
    <3>1. /\ GoTo(Visit(Place, lead, G)) /\ call' = Heard(call, PageOf(path')) /\ loads' = Carried(loads)
          /\ SignedIn /\ budget' = [budget EXCEPT !.clicks = @ - 1] /\ budget.clicks > 0
          /\ UNCHANGED <<log, session, data, mine>>
      BY <2>1 DEF Navigate, Click
    <3>2. Shows(Page', Role)
      <4>1. path' = Permitted(lead.to, Role)
        BY <3>1 DEF GoTo, Visit, Rendered, Arrived
      <4> QED
        BY <4>1, PermittedShows DEF Page
    <3>3. /\ Len(loads') = Len(loads) /\ DOMAIN loads' = 1..Len(loads) /\ DOMAIN loads = 1..Len(loads)
          /\ \A i \in 1..Len(loads) : loads'[i].from = loads[i].from
      BY <3>1, CarriedTyped, Lengths DEF TypeInv
    <3>4. call' # None => call # None
      BY <3>1 DEF Heard
    <3>5. Role' = Role /\ (SignedIn' <=> SignedIn) /\ session.at = "in" /\ Role # "customer"
      BY <3>1 DEF Role, SignedIn, TypeInv, Seated
    <3>6. Seated'
      BY <3>1, <3>2, <3>3, <3>4, <3>5 DEF TypeInv, Seated
    <3>7. Sourced'
      BY <3>1, <3>3 DEF TypeInv, Sourced
    <3>8. Budgeted(budget')
      BY <3>1 DEF TypeInv, Budgeted
    <3> QED
      BY <1>1, <3>6, <3>7, <3>8 DEF TypeInv
  <2>2. DocumentClicks \/ StockClicks \/ ContainerClicks \/ RecordClicks \/ WarehouseClicks \/ ReportClicks => TypeInv'
    BY <1>1, RoutineTyped, DocumentClicksKeep, StockClicksKeep, ContainerClicksKeep, RecordClicksKeep,
       WarehouseClicksKeep, ReportClicksKeep
  <2> QED
    BY <1>3, <2>1, <2>2 DEF Clicks
<1>4. CASE Fetch
  BY <1>1, <1>4, RoutineTyped, FetchKeeps
<1>5. CASE Answer
  BY <1>1, <1>5, AnswerTyped
<1>6. CASE OthersWork
  <2>1. /\ \E yard : log' = Append(log, yard) /\ UNCHANGED <<session, data, path, loads, call>>
        /\ \E request : budget' = [budget EXCEPT !.others = @ \ {request}]
    BY <1>6 DEF OthersWork
  <2>2. Len(log') = Len(log) + 1 /\ Len(log) \in Nat
    BY <2>1, Appended DEF TypeInv, WorkInv, VersionsSound
  <2>3. Budgeted(budget')
    BY <2>1 DEF TypeInv, Budgeted
  <2>4. Seated'
    BY <2>1 DEF TypeInv, Seated, Role, Page, SignedIn
  <2>5. Sourced'
    BY <2>1, <2>2 DEF TypeInv, Sourced
  <2> QED
    BY <1>1, <2>3, <2>4, <2>5 DEF TypeInv
<1>7. CASE FinishLoad
  BY <1>1, <1>7, FinishTyped
<1>8. CASE UNCHANGED vars
  BY <1>1, <1>8 DEF vars, core, TypeInv, Seated, Sourced, Role, Page, SignedIn
<1> QED
  BY <1>2, <1>3, <1>4, <1>5, <1>6, <1>7, <1>8 DEF Next

(* Versions are those of the log, loads read what was there, and nobody is  *)
(* ever on a page that is not shown to their role: not by an address typed  *)
(* in, a lead of another page, an answer or a load that leads on, or after  *)
(* the portal (App.tsx, the redirect of the routes).                       *)
THEOREM TypeOKHolds == Spec => []TypeOK
<1>1. TypeInv => TypeOK
  BY DEF TypeInv, WorkInv, VersionsSound, Seated, Stages, Sourced, Budgeted, TypeOK, Role, SignedIn, Newest
<1>2. TypeInv => WorkInv
  BY DEF TypeInv
<1> QED
  BY InitTyped, StepTyped, <1>1, <1>2, PTL DEF Spec

-----------------------------------------------------------------------------
(* Sealed containers *)

\* The present yard is lawful, and what is asked for can be read.
LawInv ==
  /\ IsSequence(log) /\ log # <<>> /\ LawfulYard(log[Newest])
  /\ "others" \in DOMAIN budget /\ \A request \in budget.others : WellFormed(request)
  /\ call # None => Called(call)

\* A yard that follows on the last is the present one.
LEMMA Succession ==
  ASSUME LawInv, NEW yard, LawfulYard(yard), log' = Append(log, yard)
  PROVE  IsSequence(log') /\ log' # <<>> /\ LawfulYard(log'[Newest'])
BY Appended DEF LawInv, Newest

\* At first the yard is the one assumed.
LEMMA LawInit == Init => LawInv
<1> SUFFICES ASSUME Init PROVE LawInv
  OBVIOUS
<1>1. log \in Seq({FirstYard}) /\ log # <<>> /\ log[Newest] = FirstYard
  BY DEF Init, Newest
<1>2. LawfulYard(FirstYard)
  BY YardAssumption DEF LawfulYard, LawfulAll, Lawful, SealedAreDrafts, Of
<1>3. "others" \in DOMAIN budget /\ \A request \in budget.others : WellFormed(request)
  BY OthersAssumption DEF Init
<1>4. call = None
  BY DEF Init
<1> QED
  BY <1>1, <1>2, <1>3, <1>4 DEF LawInv, IsSequence

\* A click leaves the yards alone, and asks for nothing that cannot be read.
LEMMA LawRoutine ==
  ASSUME LawInv, UNCHANGED log, OrdersKept
  PROVE  LawInv'
BY DEF LawInv, OrdersKept, Newest

\* Whoever is heard of elsewhere still asks for the same.
LEMMA HeardOrders ==
  ASSUME LawInv, NEW page, call' = Heard(call, page)
  PROVE  call' # None => Called(call')
BY DEF LawInv, Heard, Called

\* Every step keeps it.
LEMMA LawStep == LawInv /\ [Next]_vars => LawInv'
<1> SUFFICES ASSUME LawInv, [Next]_vars PROVE LawInv'
  OBVIOUS
<1>0. "others" \in DOMAIN budget
  BY DEF LawInv
<1>1. CASE Sessions
  <2>1. UNCHANGED <<log, call>> /\ (budget' = budget \/ Click)
    BY <1>1 DEF Sessions, SessionFound, SessionMissing, Login, Logout, OpenPortal, ExitPortal, Enter, Began
  <2>2. "others" \in DOMAIN budget' /\ budget'.others = budget.others
    BY <1>0, <2>1 DEF Click
  <2> QED
    BY <2>1, <2>2, LawRoutine DEF OrdersKept
<1>2. CASE Clicks
  <2>1. ASSUME NEW lead, Navigate(lead) PROVE LawInv'
    <3>1. UNCHANGED log /\ Click /\ call' = Heard(call, PageOf(path'))
      BY <2>1 DEF Navigate
    <3>2. "others" \in DOMAIN budget' /\ budget'.others = budget.others
      BY <1>0, <3>1 DEF Click
    <3>3. call' # None => Called(call')
      BY <3>1, HeardOrders
    <3> QED
      BY <3>1, <3>2, <3>3, LawRoutine DEF OrdersKept
  <2>2. DocumentClicks \/ StockClicks \/ ContainerClicks \/ RecordClicks \/ WarehouseClicks \/ ReportClicks => LawInv'
    BY LawRoutine, DocumentClicksKeep, StockClicksKeep, ContainerClicksKeep, RecordClicksKeep, WarehouseClicksKeep,
       ReportClicksKeep DEF Routine, KeepsData
  <2> QED
    BY <1>2, <2>1, <2>2 DEF Clicks
<1>3. CASE Fetch
  BY <1>3, LawRoutine, FetchKeeps DEF Routine, KeepsData
<1>4. CASE Answer
  <2> DEFINE answer == ServeTo(Role, log[Newest], call.request)
  <2>1. LawfulYard(answer.yard)
    <3>1. LawfulYard(Serve(log[Newest], call.request).yard)
      BY <1>4, ServeLawful DEF LawInv, Called, Answer
    <3>2. LawfulYard(Denied(log[Newest]).yard)
      BY DEF Denied, LawInv
    <3> QED
      BY <3>1, <3>2 DEF ServeTo
  <2>2. call' = None /\ (Grant(answer) \/ Deny(answer) \/ Lose(answer))
    BY <1>4 DEF Answer
  <2> HIDE DEF answer
  <2>3. log' = log \/ log' = Append(log, answer.yard)
    BY <2>2 DEF Grant, Deny, Lose
  <2>4. budget' \in {budget, [budget EXCEPT !.faults = @ - 1]}
    BY <2>2 DEF Grant, Deny, Lose, Suffered
  <2>5. "others" \in DOMAIN budget' /\ budget'.others = budget.others
    BY <1>0, <2>4
  <2>6. IsSequence(log') /\ log' # <<>> /\ LawfulYard(log'[Newest'])
    BY <2>1, <2>3, Succession DEF LawInv, Newest
  <2> QED
    BY <2>2, <2>5, <2>6 DEF LawInv
<1>5. CASE OthersWork
  <2>1. PICK request \in budget.others : \E answer \in {Serve(log[Newest], request)} :
          /\ log' = Append(log, answer.yard)
          /\ budget' = [budget EXCEPT !.others = @ \ {request}]
    BY <1>5 DEF OthersWork
  <2>2. LawfulYard(Serve(log[Newest], request).yard)
    BY ServeLawful DEF LawInv
  <2>3. IsSequence(log') /\ log' # <<>> /\ LawfulYard(log'[Newest'])
    BY <2>1, <2>2, Succession
  <2>4. "others" \in DOMAIN budget' /\ budget'.others \subseteq budget.others
    BY <1>0, <2>1
  <2>5. UNCHANGED call
    BY <1>5 DEF OthersWork
  <2> QED
    BY <2>3, <2>4, <2>5 DEF LawInv
<1>6. CASE FinishLoad
  <2>1. UNCHANGED log /\ call' = Heard(call, PageOf(path')) /\ budget' \in {budget, [budget EXCEPT !.faults = @ - 1]}
    BY <1>6 DEF FinishLoad, Suffered
  <2>2. "others" \in DOMAIN budget' /\ budget'.others = budget.others
    BY <1>0, <2>1
  <2>3. call' # None => Called(call')
    BY <2>1, HeardOrders
  <2> QED
    BY <2>1, <2>2, <2>3, LawRoutine DEF OrdersKept
<1>7. CASE UNCHANGED vars
  BY <1>7 DEF vars, core, LawInv, Newest
<1> QED
  BY <1>1, <1>2, <1>3, <1>4, <1>5, <1>6, <1>7 DEF Next

\* Whatever the pages ask for and others do, no sealed container is confirmed:
\* neither by its own page, nor with others of a list, by its tracking or as it
\* is saved (confirmInboundDocumentTx, UpdateInboundDocumentTrackingStatus).
THEOREM SealedStays == Spec => []SealedStaysDraft
<1>1. LawInv => SealedStaysDraft
  BY DEF LawInv, LawfulYard, LawfulAll, Lawful, SealedStaysDraft, SealedAreDrafts, Of, Newest
<1> QED
  BY LawInit, LawStep, <1>1, PTL DEF Spec

-----------------------------------------------------------------------------
(* Permissions *)

Shut(l, field, value) == field \in DOMAIN l /\ l[field] = value

\* On a page of someone who may only look, nothing is open that sends a request.
Passive(page, l) ==
  /\ page \in ListPageKeys => Shut(l, "prompt", None)
  /\ page \in StockPageKeys => Shut(l, "dialog", None) /\ Shut(l, "whole", None)
  /\ page = "container-contents" => Shut(l, "bulk", None)
  /\ page = "container-detail" => Shut(l, "quick", None)
  /\ page = "inbound-detail" => Shut(l, "adjusting", FALSE)

\* A list keeps its question, whatever is filtered, selected or loaded.
LEMMA ListStaysClosed ==
  ASSUME NEW l, Shut(l, "prompt", None)
  PROVE  /\ \A live, i : Shut(SelectDocument(l, live, i), "prompt", None)
         /\ \A filter : Shut(SetListFilter(l, filter), "prompt", None)
         /\ \A context, documents : Shut(LaunchList(l, context, documents), "prompt", None)
         /\ \A documents : /\ Shut(ListReloaded(l, documents), "prompt", None)
                           /\ Shut(ListFound(l, documents), "prompt", None)
         /\ Shut(ListUnfound(l), "prompt", None) /\ Shut(ListRefused(l), "prompt", None)
<1>1. ASSUME NEW k, Shut(k, "prompt", None), NEW live, NEW i PROVE Shut(SelectDocument(k, live, i), "prompt", None)
  BY <1>1 DEF Shut, SelectDocument
<1>2. \A filter : Shut(SetListFilter(l, filter), "prompt", None)
  BY DEF Shut, SetListFilter
<1>3. ASSUME NEW context, NEW documents PROVE Shut(LaunchList(l, context, documents), "prompt", None)
  BY <1>1, <1>2 DEF LaunchList
<1>4. ASSUME NEW documents PROVE Shut(ListReloaded(l, documents), "prompt", None)
  BY <1>1 DEF ListReloaded
<1>5. ASSUME NEW documents PROVE Shut(ListFound(l, documents), "prompt", None)
  BY DEF Shut, ListFound
<1>6. Shut(ListUnfound(l), "prompt", None)
  BY DEF Shut, ListUnfound
<1>7. Shut(ListRefused(l), "prompt", None)
  BY DEF Shut, ListRefused, ListIdle
<1> QED
  BY <1>1, <1>2, <1>3, <1>4, <1>5, <1>6, <1>7

\* A log that is queried, answered or loaded again keeps what the contents' page adds to it.
LEMMA ContentsStayClosed ==
  ASSUME NEW l, Shut(l, "bulk", None)
  PROVE  /\ \A query, version : Shut(SetContentsQuery(l, query, version), "bulk", None)
         /\ \A version : Shut(SubmitContentsSearch(l, version), "bulk", None)
         /\ \A version : Shut(LogAnswered(l, version), "bulk", None) /\ Shut(LogFollows(l, version), "bulk", None)
         /\ Shut(LogFailed(l), "bulk", None)
         /\ \A g, reloaded : Shut(ContentsFollow(l, g, reloaded), "bulk", None)
<1>1. ASSUME NEW k, Shut(k, "bulk", None), NEW version PROVE Shut(LogAsks(k, version), "bulk", None)
  BY <1>1 DEF Shut, LogAsks
<1>2. ASSUME NEW query, NEW version PROVE Shut(SetContentsQuery(l, query, version), "bulk", None)
  <2>1. Shut([l EXCEPT !.query = query], "bulk", None)
    BY DEF Shut
  <2>2. Shut(SetQuery(l, query, version), "bulk", None)
    BY <1>1, <2>1 DEF SetQuery
  <2> QED
    BY <2>2 DEF SetContentsQuery, Shut
<1>3. \A version : Shut(LogAnswered(l, version), "bulk", None)
  BY DEF Shut, LogAnswered
<1>4. \A version : Shut(LogFollows(l, version), "bulk", None)
  BY DEF Shut, LogFollows
<1>5. Shut(LogFailed(l), "bulk", None)
  BY DEF Shut, LogFailed
<1>6. ASSUME NEW g, NEW reloaded PROVE Shut(ContentsFollow(l, g, reloaded), "bulk", None)
  BY <1>4 DEF Shut, ContentsFollow
<1> QED
  BY <1>2, <1>3, <1>4, <1>5, <1>6 DEF SubmitContentsSearch

\* A page that comes on the screen for someone who may only look opens nothing.
LEMMA MountedPassive ==
  ASSUME NEW page, NEW path0, NEW g, NEW context, ~g.manages
  PROVE  Passive(page, MountedAt(page, path0, g, context))
<1> DEFINE l == MountedAt(page, path0, g, context)
<1>1. CASE page \in ListPageKeys
  <2>1. Shut(FreshList(ListMode(page)), "prompt", None)
    BY DEF FreshList, Shut
  <2>2. Shut(LaunchList(FreshList(ListMode(page)), context, g.documents), "prompt", None)
    BY <2>1, ListStaysClosed
  <2>3. l \in {FreshList(ListMode(page)), LaunchList(FreshList(ListMode(page)), context, g.documents)}
    BY <1>1 DEF MountedAt, ListPageKeys, StockPageKeys, MasterPageKeys
  <2> QED
    BY <1>1, <2>1, <2>2, <2>3 DEF Passive, ListPageKeys, StockPageKeys
<1>2. CASE page \in StockPageKeys
  <2>1. l = FreshStockPage
    BY <1>2 DEF MountedAt, ListPageKeys, StockPageKeys, MasterPageKeys, Launched, LaunchReady
  <2> QED
    BY <1>2, <2>1 DEF Passive, ListPageKeys, StockPageKeys, FreshStockPage, Shut
<1>3. CASE page = "container-contents"
  <2>1. Shut(FreshContents(g.ledger), "bulk", None)
    BY DEF Shut, FreshContents, Over, FreshLog
  <2>2. Shut([FreshContents(g.ledger) EXCEPT !.typed = context.search], "bulk", None)
    BY <2>1 DEF Shut
  <2>3. Shut(LaunchContents(g.ledger, context), "bulk", None)
    BY <2>2, ContentsStayClosed DEF LaunchContents
  <2>4. l \in {FreshContents(g.ledger), LaunchContents(g.ledger, context)}
    BY <1>3 DEF MountedAt, ListPageKeys, StockPageKeys, MasterPageKeys
  <2> QED
    BY <1>3, <2>1, <2>3, <2>4 DEF Passive, ListPageKeys, StockPageKeys
<1>4. CASE page = "container-detail"
  <2>1. l = FreshContainer
    BY <1>4 DEF MountedAt, ListPageKeys, StockPageKeys, MasterPageKeys
  <2> QED
    BY <1>4, <2>1 DEF Passive, ListPageKeys, StockPageKeys, FreshContainer, Shut
<1>5. CASE page = "inbound-detail"
  <2>1. PICK document : l = FreshReceipt(document)
    BY <1>5 DEF MountedAt, ListPageKeys, StockPageKeys, MasterPageKeys
  <2>2. Shut(FreshReceipt(document), "adjusting", FALSE)
    BY DEF Shut, FreshReceipt, Over, FreshDetail
  <2> QED
    BY <1>5, <2>1, <2>2 DEF Passive, ListPageKeys, StockPageKeys
<1> QED
  BY <1>1, <1>2, <1>3, <1>4, <1>5 DEF Passive

\* A page that is rendered again opens nothing either.
LEMMA FollowedPassive ==
  ASSUME NEW page, NEW to, NEW from, NEW l, NEW before, NEW g, NEW context, NEW reloaded, ~g.manages, Passive(page, l)
  PROVE  Passive(page, FollowedAt(page, to, from, l, before, g, context, reloaded))
<1> DEFINE k == FollowedAt(page, to, from, l, before, g, context, reloaded)
<1>1. CASE page \in ListPageKeys
  <2>1. k \in {l, ListReloaded(l, g.documents)} /\ Shut(l, "prompt", None)
    BY <1>1 DEF FollowedAt, ListPageKeys, StockPageKeys, Passive
  <2>2. Shut(k, "prompt", None)
    BY <2>1, ListStaysClosed
  <2> QED
    BY <1>1, <2>2 DEF Passive, ListPageKeys, StockPageKeys
<1>2. CASE page \in StockPageKeys
  <2> DEFINE kept == KeptPosting(l, Postings(g.documents, PostedTypes(page)))
  <2>1. Shut(l, "dialog", None) /\ Shut(l, "whole", None)
    BY <1>2 DEF Passive
  <2>2. k \in {kept, [kept EXCEPT !.dialog = DialogReloaded(page, @, g.items)]}
    BY <1>2 DEF FollowedAt, ListPageKeys, StockPageKeys, StockPageFollows, Launched, LaunchReady
  <2>3. Shut(kept, "dialog", None) /\ Shut(kept, "whole", None)
    BY <2>1 DEF KeptPosting, Shut
  <2> HIDE DEF kept
  <2>4. Shut(k, "dialog", None) /\ Shut(k, "whole", None)
    BY <2>2, <2>3 DEF Shut, DialogReloaded
  <2> QED
    BY <1>2, <2>4 DEF Passive, ListPageKeys, StockPageKeys
<1>3. CASE page = "container-contents"
  <2>1. k = ContentsFollow(l, g, reloaded) /\ Shut(l, "bulk", None)
    BY <1>3 DEF FollowedAt, ListPageKeys, StockPageKeys, Passive
  <2> QED
    BY <1>3, <2>1, ContentsStayClosed DEF Passive, ListPageKeys, StockPageKeys
<1>4. CASE page = "container-detail"
  <2>1. k = ContainerFollows(l, g, ContainerOf(to, None), reloaded) /\ Shut(l, "quick", None)
    BY <1>4 DEF FollowedAt, ListPageKeys, StockPageKeys, Passive
  <2>2. k = l
    BY <2>1 DEF ContainerFollows, Shut
  <2> QED
    BY <1>4, <2>1, <2>2 DEF Passive, ListPageKeys, StockPageKeys
<1>5. CASE page = "inbound-detail"
  <2>1. PICK old, new : k = ReceiptFollows(l, old, new, g.items, reloaded)
    BY <1>5 DEF FollowedAt, ListPageKeys, StockPageKeys
  <2>2. Shut(l, "adjusting", FALSE)
    BY <1>5 DEF Passive
  <2>3. Shut(DetailFollows(l, DetailDocument(old), DetailDocument(new)), "adjusting", FALSE)
    BY <2>2 DEF DetailFollows, Shut
  <2>4. Shut(k, "adjusting", FALSE)
    BY <2>1, <2>2, <2>3 DEF ReceiptFollows, Shut
  <2> QED
    BY <1>5, <2>4 DEF Passive, ListPageKeys, StockPageKeys
<1> QED
  BY <1>1, <1>2, <1>3, <1>4, <1>5 DEF Passive

\* A refusal opens nothing.
LEMMA RefusedPassive ==
  ASSUME NEW page, NEW l, NEW request, Passive(page, l)
  PROVE  Passive(page, PageRefused(page, l, request))
<1>1. CASE page \in ListPageKeys
  <2>1. PageRefused(page, l, request) = ListRefused(l) /\ Shut(l, "prompt", None)
    BY <1>1 DEF PageRefused, ListPageKeys, StockPageKeys, MasterPageKeys, Passive
  <2> QED
    BY <1>1, <2>1, ListStaysClosed DEF Passive, ListPageKeys, StockPageKeys
<1>2. CASE page \in StockPageKeys
  <2>1. /\ PageRefused(page, l, request) \in {[l EXCEPT !.whole = DialogRefused(@)], [l EXCEPT !.dialog = DialogRefused(@)]}
        /\ Shut(l, "dialog", None) /\ Shut(l, "whole", None)
    BY <1>2 DEF PageRefused, ListPageKeys, StockPageKeys, MasterPageKeys, Passive
  <2> QED
    BY <1>2, <2>1 DEF Passive, ListPageKeys, StockPageKeys, DialogRefused, Shut
<1>3. CASE page = "container-contents"
  <2>1. PageRefused(page, l, request) = [l EXCEPT !.bulk = DialogRefused(@)] /\ Shut(l, "bulk", None)
    BY <1>3 DEF PageRefused, ListPageKeys, StockPageKeys, MasterPageKeys, Passive
  <2> QED
    BY <1>3, <2>1 DEF Passive, ListPageKeys, StockPageKeys, DialogRefused, Shut
<1>4. CASE page = "container-detail"
  <2>1. PageRefused(page, l, request) = [l EXCEPT !.dialog = DialogRefused(@)] /\ Shut(l, "quick", None)
    BY <1>4 DEF PageRefused, ListPageKeys, StockPageKeys, MasterPageKeys, Passive
  <2> QED
    BY <1>4, <2>1 DEF Passive, ListPageKeys, StockPageKeys, Shut
<1>5. CASE page = "inbound-detail"
  <2>1. PageRefused(page, l, request) = ReceiptRefused(l, request) /\ Shut(l, "adjusting", FALSE)
    BY <1>5 DEF PageRefused, ListPageKeys, StockPageKeys, MasterPageKeys, Passive
  <2>2. Shut(ReceiptRefused(l, request), "adjusting", FALSE)
    BY <2>1 DEF ReceiptRefused, Shut
  <2> QED
    BY <1>5, <2>1, <2>2 DEF Passive, ListPageKeys, StockPageKeys
<1> QED
  BY <1>1, <1>2, <1>3, <1>4, <1>5 DEF Passive

\* What stands here of the permissions of the user.
May(c) ==
  /\ {"request", "page", "here"} \subseteq DOMAIN c
  /\ MayAsk(Role, c.request) \/ c.page = "container-lifecycle"
NoTails == \A i \in DOMAIN loads : {"from", "tail"} \subseteq DOMAIN loads[i] /\ loads[i].tail = None
MayInv ==
  /\ {"at", "role"} \subseteq DOMAIN session
  /\ call # None => May(call)
  /\ SignedIn => view = Screen(path, local, G, log)
  /\ ~Manages => (SignedIn => Passive(Page, local)) /\ NoTails

\* A click leaves the user where it was.
Offers ==
  /\ UNCHANGED <<session, path, loads>>
  /\ ~Manages => Passive(Page, local')
  /\ call' = call \/ May(call')

\* Those who may change something are the administrators and the operators (App.tsx, canManage).
LEMMA WhoManages == Manages <=> Role \in {"admin", "operator"}
BY DEF Manages, G, Given

\* Most pages have nothing that opens.
LEMMA Elsewhere ==
  ASSUME NEW page, page \notin ListPageKeys \cup StockPageKeys \cup {"container-contents", "container-detail", "inbound-detail"}
  PROVE  \A l : Passive(page, l)
BY DEF Passive

\* What only changes the page leaves what is asked.
LEMMA ActOffers == ASSUME NEW l, Act(l), Manages \/ Passive(Page, l) PROVE Offers
BY DEF Act, Offers

\* A request is well sent by who may ask for it, or from the page of a life.
LEMMA SendOffers ==
  ASSUME NEW l, NEW request, Send(l, request), MayAsk(Role, request) \/ Page = "container-lifecycle"
  PROVE  Offers
<1>1. UNCHANGED <<session, path, loads>> /\ call' = [request |-> request, page |-> Page, here |-> TRUE]
  BY DEF Send
<1>2. May(call')
  BY <1>1 DEF May
<1>3. Manages \/ Page = "container-lifecycle"
  BY WhoManages DEF MayAsk
<1>4. Page = "container-lifecycle" => Passive(Page, local')
  BY Elsewhere DEF ListPageKeys, StockPageKeys
<1> QED
  BY <1>1, <1>2, <1>3, <1>4 DEF Offers

\* Whoever may change something sends what it likes, but not of the records.
LEMMA StaffSends ==
  ASSUME NEW l, NEW request, Send(l, request), Manages, request.op \notin {"put", "drop"}
  PROVE  Offers
BY SendOffers, WhoManages DEF MayAsk

\* An administrator sends what it likes.
LEMMA AdminSends == ASSUME NEW l, NEW request, Send(l, request), Role = "admin" PROVE Offers
BY SendOffers DEF MayAsk

\* The buttons of a receipt, and of its editor, are for who may use them.
LEMMA ButtonsManage ==
  ASSUME MayInv
  PROVE  /\ \A button : MayPress(button) /\ button # "workspace" => Manages
         /\ \A button \in {"draft", "submit", "copy"} : OnEditor /\ button \in view.buttons => Manages
<1>1. ASSUME NEW button, MayPress(button), button # "workspace" PROVE Manages
  <2>1. Page = "inbound-detail" /\ view = Screen(path, local, G, log) /\ view.state = "ready"
    BY <1>1 DEF MayInv, MayPress, OnReceipt, Here
  <2>2. view = ReceiptScreen(local, Lookup(G.documents, DetailOf(path)), G)
    BY <2>1 DEF Screen, ScreenOf, Page, ListPageKeys, StockPageKeys
  <2>3. PICK document : view.receipt = DetailView(document, G.manages)
    BY <2>1, <2>2 DEF ReceiptScreen
  <2>4. button \in DetailButtons(document, G.manages)
    BY <1>1, <2>3 DEF MayPress, DetailView
  <2> QED
    BY <1>1, <2>4 DEF DetailButtons, Manages
<1>2. ASSUME NEW button \in {"draft", "submit", "copy"}, OnEditor, button \in view.buttons PROVE Manages
  <2>1. Page = "receipt-editor" /\ view = Screen(path, local, G, log) /\ view.state = "ready"
    BY <1>2 DEF MayInv, OnEditor, Here
  <2>2. view = EditorScreen(path, local, G)
    BY <2>1 DEF Screen, ScreenOf, Page, ListPageKeys, StockPageKeys
  <2>3. PICK document : view.buttons = Buttons(local, document, G.manages)
    BY <2>1, <2>2 DEF EditorScreen, EditorView
  <2> QED
    BY <1>2, <2>3 DEF Buttons, ReadOnly, Manages
<1> QED
  BY <1>1, <1>2

\* So are the dialogs, wherever they open.
LEMMA DialogsManage ==
  ASSUME MayInv, SignedIn
  PROVE  /\ \A page \in StockPageKeys : InDialog(page) => Manages
         /\ DialogPage # None /\ local.dialog # None => Manages
         /\ InWarehouseDialog => Manages
         /\ OnContents /\ local.bulk # None => Manages
         /\ OnList /\ local.prompt # None => Manages
<1> SUFFICES ASSUME ~Manages
             PROVE  /\ \A page \in StockPageKeys : ~InDialog(page)
                    /\ DialogPage = None \/ local.dialog = None
                    /\ ~InWarehouseDialog /\ ~(OnContents /\ local.bulk # None) /\ ~(OnList /\ local.prompt # None)
  OBVIOUS
<1>1. Passive(Page, local)
  BY DEF MayInv
<1>2. DialogPage = None \/ local.dialog = None
  <2>1. CASE Page \in StockPageKeys
    BY <1>1, <2>1 DEF Passive, Shut
  <2>2. CASE Page = "container-detail"
    BY <1>1, <2>2 DEF Passive, Shut, DialogPage, StockPageKeys
  <2>3. CASE Page = "inbound-detail"
    BY <1>1, <2>3 DEF Passive, Shut, DialogPage, StockPageKeys
  <2>4. CASE Page \notin StockPageKeys \cup {"container-detail", "inbound-detail"}
    BY <2>4 DEF DialogPage
  <2> QED
    BY <2>1, <2>2, <2>3, <2>4
<1>3. \A page \in StockPageKeys : ~InDialog(page)
  BY <1>2, NoneIsNoName DEF InDialog
<1>4. ~InWarehouseDialog /\ ~(OnContents /\ local.bulk # None) /\ ~(OnList /\ local.prompt # None)
  BY <1>1 DEF Passive, Shut, InWarehouseDialog, OnContents, OnList, Here, StockPageKeys
<1> QED
  BY <1>2, <1>3, <1>4

\* The clicks on receipts and shipments: lists, details, editors and the daily board.
LEMMA DocumentClicksOffer == MayInv /\ SignedIn /\ DocumentClicks => Offers
<1> SUFFICES ASSUME MayInv, SignedIn, DocumentClicks PROVE Offers
  OBVIOUS
<1>1. Manages \/ Passive(Page, local)
  BY DEF MayInv
<1>2. ASSUME NEW text PROVE TypeSearch(text) => Offers
  <2>1. Manages \/ Passive(Page, [local EXCEPT !.typed = text])
    BY <1>1 DEF Passive, Shut
  <2> QED
    BY <2>1, ActOffers DEF TypeSearch
<1>3. SearchFor => Offers
  <2>1. CASE Page \in ListPageKeys
    <3>1. Manages \/ Passive(Page, SubmitListSearch(local))
      BY <1>1, <2>1, ListStaysClosed DEF Passive, ListPageKeys, StockPageKeys, SubmitListSearch
    <3> QED
      BY <2>1, <3>1, ActOffers DEF SearchFor, SubmitSearches, ListPageKeys
  <2>2. CASE Page = "container-contents"
    <3>1. Manages \/ Passive(Page, SubmitContentsSearch(local, G.ledger))
      BY <1>1, <2>2, ContentsStayClosed DEF Passive, ListPageKeys, StockPageKeys
    <3> QED
      BY <2>2, <3>1, ActOffers DEF SearchFor, SubmitSearches, ListPageKeys
  <2>3. CASE Page \in Searches \ (ListPageKeys \cup {"container-contents"})
    BY <2>3, ActOffers, Elsewhere DEF SearchFor, Searches, ListPageKeys, StockPageKeys
  <2> QED
    BY <2>1, <2>2, <2>3 DEF SearchFor
<1>4. ASSUME NEW x PROVE SetPeriod(x) \/ TurnWeek(x) => Offers
  BY ActOffers, Elsewhere DEF SetPeriod, TurnWeek, Here, ListPageKeys, StockPageKeys
<1>5. ASSUME NEW kind PROVE AdvanceRow(kind) \/ CopyRow(kind) => Offers
  <2>1. ASSUME AdvanceRow(kind) PROVE Offers
    <3>1. PICK row : /\ Manages
                     /\ Send([local EXCEPT !.busy = <<"track", row.id>>],
                             [op |-> "track", id |-> row.id, target |-> row.next])
      BY <2>1 DEF AdvanceRow, CanAdvance
    <3> QED
      BY <3>1, StaffSends
  <2>2. ASSUME CopyRow(kind) PROVE Offers
    <3>1. PICK row : /\ Manages
                     /\ Send([local EXCEPT !.busy = <<"copy", row.id>>], [op |-> "copy", id |-> row.id, kind |-> kind])
      BY <2>2 DEF CopyRow, CanCopy
    <3> QED
      BY <3>1, StaffSends
  <2> QED
    BY <2>1, <2>2
<1>6. ASSUME OnList, NEW l, Shut(local, "prompt", None) => Shut(l, "prompt", None) PROVE Act(l) => Offers
  <2>1. Manages \/ Passive(Page, l)
    BY <1>1, <1>6 DEF Passive, OnList, ListPageKeys, StockPageKeys
  <2> QED
    BY <2>1, ActOffers
<1>7. ASSUME NEW x PROVE FilterList(x) \/ SelectListed(x) => Offers
  BY <1>6, ListStaysClosed DEF FilterList, SelectListed
<1>8. ASSUME NEW i
      PROVE ConfirmListed(i) \/ TrackListed(i) \/ CopyListed(i) \/ CancelListed(i) \/ ChooseListed(i) => Offers
  BY ActOffers, StaffSends DEF ConfirmListed, TrackListed, CopyListed, CancelListed, ChooseListed, Ask, Manageable
<1>9. AnswerNo \/ AnswerYes => Offers
  <2>1. Shut(local, "prompt", None) => Shut(ClosePrompt(local), "prompt", None)
    BY DEF Shut, ClosePrompt
  <2>2. AnswerYes => Manages
    BY DialogsManage DEF AnswerYes
  <2>3. AnswerYes => Offers
    BY <2>2, StaffSends DEF AnswerYes, AllBatches
  <2> QED
    BY <1>6, <2>1, <2>3 DEF AnswerNo
<1>10. ASSUME NEW x PROVE ChooseAllListed \/ AskForBatch \/ SaveListNote \/ TypeListNote(x) => Offers
  BY ActOffers, StaffSends DEF ChooseAllListed, AskForBatch, SaveListNote, TypeListNote, Manageable
<1>11. ASSUME NEW x PROVE ChooseType(x) \/ SaveType \/ CopyHere \/ AdjustHere => Offers
  BY ActOffers, StaffSends, ButtonsManage DEF ChooseType, SaveType, CopyHere, AdjustHere
<1>12. ASSUME NEW x, NEW y
       PROVE FillHeader(x) \/ SetHandling(x) \/ RemoveReceiptLine(x) \/ ChooseSku(x, y) \/ TypeReceived(x, y)
               \/ AddReceiptLine \/ AttachFile => Offers
  BY ActOffers DEF FillHeader, SetHandling, RemoveReceiptLine, ChooseSku, TypeReceived, AddReceiptLine, AttachFile, Edit,
                   ReadOnly
<1>13. ASSUME NEW x PROVE GoToStep(x) => Offers
  BY ActOffers, Elsewhere DEF GoToStep, OnEditor, Here, ListPageKeys, StockPageKeys
<1>14. SaveAs("draft", "DRAFT") \/ SaveAs("submit", "CONFIRMED") \/ CopyDrawn => Offers
  <2>1. ASSUME NEW status PROVE SaveRequest(status).op \notin {"put", "drop"}
    BY DEF SaveRequest
  <2> QED
    BY <2>1, ActOffers, StaffSends, ButtonsManage DEF SaveAs, CopyDrawn
<1> QED
  BY <1>2, <1>3, <1>4, <1>5, <1>7, <1>8, <1>9, <1>10, <1>11, <1>12, <1>13, <1>14 DEF DocumentClicks

\* The clicks on the pages that post corrections, counts and transfers.
LEMMA StockClicksOffer == MayInv /\ SignedIn /\ StockClicks => Offers
<1> SUFFICES ASSUME MayInv, SignedIn, StockClicks PROVE Offers
  OBVIOUS
<1>1. Manages \/ Passive(Page, local)
  BY DEF MayInv
<1>2. ASSUME Manages, NEW dialog PROVE Adapt(dialog) => Offers
  BY <1>2, ActOffers DEF Adapt
<1>3. ASSUME Manages, NEW op \in {"adjust", "transfer", "count"}, NEW payload PROVE Submits(op, payload) => Offers
  BY <1>3, StaffSends DEF Submits
<1>4. OpenDialog \/ CloseDialog => Offers
  BY <1>2, ActOffers, DialogsManage DEF OpenDialog, CloseDialog
<1>5. ASSUME InDialog("adjustments") \/ InDialog("transfers") \/ InDialog("cycle-counts") PROVE Manages
  BY <1>5, DialogsManage DEF StockPageKeys
<1>6. InDialog("adjustments") /\ AdjustmentClicks => Offers
  BY <1>2, <1>3, <1>5
     DEF AdjustmentClicks, ChooseContainerToAdjust, SetAdjustmentMode, GiveReason, SubmitAdjustment, TypeBalance
<1>7. InDialog("transfers") /\ TransferClicks => Offers
  BY <1>2, <1>3, <1>5
     DEF TransferClicks, ChooseContainerToMove, ChooseMode, ChooseDestination, ChooseSection, TypeMoved, SubmitTransfer
<1>8. InDialog("cycle-counts") /\ CountClicks => Offers
  BY <1>2, <1>3, <1>5 DEF CountClicks, ChooseSource, AddCount, SubmitCount, RemoveCount, ChooseItem, TypeCounted
<1>9. OpenWarehouse \/ CloseWhole \/ SubmitWarehouse => Offers
  BY ActOffers, StaffSends, DialogsManage DEF OpenWarehouse, CloseWhole, SubmitWarehouse
<1>10. ASSUME NEW x PROVE ChooseFrom(x) \/ ChooseTo(x) => Offers
  BY ActOffers, DialogsManage DEF ChooseFrom, ChooseTo
<1>11. ASSUME NEW x PROVE SelectPosting(x) => Offers
  <2>1. Manages \/ Passive(Page, [local EXCEPT !.selected = x])
    BY <1>1 DEF Passive, Shut
  <2> QED
    BY <2>1, ActOffers DEF SelectPosting
<1> QED
  BY <1>4, <1>6, <1>7, <1>8, <1>9, <1>10, <1>11 DEF StockClicks

\* The clicks on the pages of containers, of their contents and of their lives.
LEMMA ContainerClicksOffer == MayInv /\ SignedIn /\ ContainerClicks => Offers
<1> SUFFICES ASSUME MayInv, SignedIn, ContainerClicks PROVE Offers
  OBVIOUS
<1>1. Manages \/ Passive(Page, local)
  BY DEF MayInv
<1>2. view = Screen(path, local, G, log)
  BY DEF MayInv
<1>3. ASSUME NEW query PROVE QueryContents(query) => Offers
  <2>1. ASSUME OnContents, NEW q PROVE Manages \/ Passive(Page, SetContentsQuery(local, q, G.ledger))
    BY <1>1, <2>1, ContentsStayClosed DEF Passive, OnContents, Here, ListPageKeys, StockPageKeys
  <2> QED
    BY <2>1, ActOffers DEF QueryContents
<1>4. OpenBulkDialog => Offers
  <2>1. ASSUME OpenBulkDialog PROVE Manages
    <3>1. Page = "container-contents" /\ view.transfer
      BY <2>1 DEF OpenBulkDialog, OnContents, Here
    <3>2. view = ContentsView(local, ContentsRows(local, G.items, YardAt(log, local.rows.version).movements), G.manages)
      BY <1>2, <3>1 DEF Screen, ScreenOf, Page, ListPageKeys, StockPageKeys
    <3>3. view.transfer => Manages
      BY <3>2 DEF ContentsView, Manages
    <3> QED
      BY <3>1, <3>3
  <2> QED
    BY <2>1, ActOffers DEF OpenBulkDialog
<1>5. ASSUME NEW x PROVE ChooseRow(x) \/ CloseBulkDialog \/ SubmitBulk \/ ChooseBulkDestination(x) => Offers
  BY ActOffers, StaffSends, DialogsManage DEF ChooseRow, CloseBulkDialog, SubmitBulk, ChooseBulkDestination
<1>6. ASSUME NEW x PROVE OpenContainerDialog(x) => Offers
  <2>1. ASSUME OpenContainerDialog(x) PROVE Manages
    <3>1. Page = "container-detail" /\ view.state = "ready" /\ view.quick
      BY <2>1 DEF OpenContainerDialog, Here
    <3>2. view = ContainerScreen(local, ContainerRow(G, ContainerOf(path, None)), G)
      BY <1>2, <3>1 DEF Screen, ScreenOf, Page, ListPageKeys, StockPageKeys
    <3>3. view.quick => Manages
      BY <3>1, <3>2 DEF ContainerScreen, Manages
    <3> QED
      BY <3>1, <3>3
  <2> QED
    BY <2>1, ActOffers DEF OpenContainerDialog
<1>7. ASSUME NEW x, NEW y PROVE FilterContainers(x) \/ ClickNode(x) \/ SaveBoxType(x) \/ TellEvent(x, y) => Offers
  BY ActOffers, SendOffers, Elsewhere
     DEF FilterContainers, ClickNode, SaveBoxType, TellEvent, PanelReady, OnLifecycle, Here, ListPageKeys, StockPageKeys
<1>8. ASSUME NEW x
      PROVE QueryLog(x) \/ SelectMovement(x) \/ FilterSummary(x) \/ FilterMap(x) \/ SelectSource(x) \/ ClickBlock(x) => Offers
  BY ActOffers, Elsewhere
     DEF QueryLog, SelectMovement, FilterSummary, FilterMap, SelectSource, ClickBlock, Here, ListPageKeys, StockPageKeys
<1> QED
  BY <1>3, <1>4, <1>5, <1>6, <1>7, <1>8 DEF ContainerClicks

\* The clicks on records, warehouses and reports: records are for administrators only.
LEMMA RecordClicksOffer == MayInv /\ SignedIn /\ (RecordClicks \/ WarehouseClicks \/ ReportClicks) => Offers
<1> SUFFICES ASSUME MayInv, SignedIn PROVE (RecordClicks => Offers) /\ (WarehouseClicks => Offers) /\ (ReportClicks => Offers)
  OBVIOUS
<1>1. ASSUME NEW l, Role = "admin" PROVE Act(l) => Offers
  BY <1>1, ActOffers, WhoManages
<1>2. ASSUME NEW x PROVE SelectCustomer(x) => Offers
  BY ActOffers, Elsewhere DEF SelectCustomer, Here, ListPageKeys, StockPageKeys
<1>3. ASSUME NEW x PROVE EditRecord(x) \/ DeleteRecord(x) \/ FillRecord(x) => Offers
  BY <1>1, AdminSends DEF EditRecord, DeleteRecord, FillRecord, InRecord, OnRecords
<1>4. NewRecord \/ CloseRecordDialog \/ SubmitRecord => Offers
  BY <1>1, AdminSends DEF NewRecord, CloseRecordDialog, SubmitRecord, InRecord, OnRecords
<1>5. ASSUME NEW x, NEW y PROVE EditCell(x, y) \/ DragColumn(x, y) => Offers
  BY <1>1, AdminSends DEF EditCell, DragColumn, Masters, InColumns, OnRecords
<1>6. OpenColumns \/ CloseColumns \/ ResetColumns \/ SaveColumns => Offers
  BY <1>1, AdminSends DEF OpenColumns, CloseColumns, ResetColumns, SaveColumns, InColumns, OnRecords
<1>7. RecordClicks => Offers
  BY <1>2, <1>3, <1>4, <1>5, <1>6 DEF RecordClicks
<1>8. ASSUME Role = "admin", NEW refused, NEW record PROVE SaveWarehouse(refused, record) => Offers
  BY <1>1, <1>8, AdminSends DEF SaveWarehouse
<1>9. ASSUME NEW x, NEW y PROVE OpenWarehouseRecord(x, y) \/ NameSection(x, y) \/ ChangeBlock(x, y) => Offers
  BY <1>1 DEF OpenWarehouseRecord, NameSection, ChangeBlock, OnStorage, InWarehouseRecord, OnLayout, Masters
<1>10. ASSUME NEW x
       PROVE DeleteWarehouse(x) \/ SaveName(x) \/ NameWarehouse(x) \/ SelectBlock(x) \/ AddLayoutBlock(x) => Offers
  BY <1>1, <1>8, AdminSends
     DEF DeleteWarehouse, SaveName, NameWarehouse, SelectBlock, AddLayoutBlock, OnStorage, InWarehouseRecord, OnLayout, Masters
<1>11. CloseWarehouseRecord \/ SaveSections \/ DropBlock \/ SubmitLayout => Offers
  BY <1>1, <1>8, AdminSends
     DEF CloseWarehouseRecord, SaveSections, DropBlock, SubmitLayout, OnStorage, InWarehouseRecord, OnLayout, Masters
<1>12. WarehouseClicks => Offers
  BY <1>9, <1>10, <1>11 DEF WarehouseClicks
<1>13. ASSUME NEW x PROVE ShowTab(x) \/ FillForm(x) \/ TypeRate(x) => Offers
  BY ActOffers, Elsewhere DEF ShowTab, FillForm, TypeRate, Here, ListPageKeys, StockPageKeys
<1>14. ReportClicks => Offers
  BY <1>13 DEF ReportClicks
<1> QED
  BY <1>7, <1>12, <1>14

\* What a page asks for on its own opens nothing when it is answered.
LEMMA FetchOffers == MayInv /\ Fetch => Offers
<1> SUFFICES ASSUME MayInv, Fetch PROVE Offers
  OBVIOUS
<1>1. ASSUME NEW reply, Fetched(reply), Manages \/ (Passive(Page, reply[1]) /\ Passive(Page, reply[2])) PROVE Offers
  BY <1>1 DEF Fetched, Offers
<1>2. SignedIn => Manages \/ Passive(Page, local)
  BY DEF MayInv
<1>3. CASE FetchList
  <2>1. ASSUME NEW l, Shut(local, "prompt", None) => Shut(l, "prompt", None) PROVE Manages \/ Passive(Page, l)
    BY <1>2, <1>3, <2>1 DEF FetchList, Passive, ListPageKeys, StockPageKeys
  <2>2. Manages \/ (Passive(Page, ListFound(local, log[Newest].documents)) /\ Passive(Page, ListUnfound(local)))
    BY <2>1, ListStaysClosed
  <2> QED
    BY <1>1, <1>3, <2>2 DEF FetchList, Reply
<1>4. CASE FetchLog
  <2>1. CASE Page = "container-contents"
    <3>1. Manages \/ (Passive(Page, LogAnswered(local, Newest)) /\ Passive(Page, LogFailed(local)))
      BY <1>2, <1>4, <2>1, ContentsStayClosed DEF FetchLog, Passive, ListPageKeys, StockPageKeys
    <3> QED
      BY <1>1, <1>4, <2>1, <3>1 DEF FetchLog, Reply, LogReply
  <2>2. CASE Page = "all-activity"
    BY <1>1, <1>4, <2>2, Elsewhere DEF FetchLog, ListPageKeys, StockPageKeys
  <2> QED
    BY <1>4, <2>1, <2>2 DEF FetchLog
<1>5. CASE FetchReport \/ FetchContainers \/ FetchLife \/ FetchOrder
  BY <1>1, <1>5, Elsewhere
     DEF FetchReport, FetchContainers, FetchLife, FetchOrder, OnLifecycle, Here, RecordPages, ListPageKeys, StockPageKeys
<1> QED
  BY <1>3, <1>4, <1>5 DEF Fetch

\* Wherever a lead goes, nothing is open there.
LEMMA RenderedPassive ==
  ASSUME NEW place, NEW to, NEW pending, NEW before, NEW g, NEW reloaded, ~g.manages,
         Passive(PageOf(place.path), place.local)
  PROVE  LET there == Rendered(place, to, pending, before, g, reloaded)
         IN there.path = to /\ Passive(PageOf(there.path), there.local)
BY MountedPassive, FollowedPassive DEF Rendered, Arrived, Mounted, Followed

\* A step that leaves the user where it was keeps what may be asked.
LEMMA OffersSound == MayInv /\ Offers /\ Render => MayInv'
<1> SUFFICES ASSUME MayInv, Offers, Render PROVE MayInv'
  OBVIOUS
<1>1. Role' = Role /\ Page' = Page /\ (Manages' <=> Manages)
  BY WhoManages DEF Offers, Role, Page, Manages, G, Given
<1>2. call' # None => May(call)'
  BY <1>1 DEF MayInv, Offers, May
<1>3. SignedIn' => view' = Screen(path', local', G', log')
  BY DEF Render, SignedIn, G, Role
<1>4. ~Manages' => (SignedIn' => Passive(Page', local')) /\ NoTails'
  BY <1>1 DEF MayInv, Offers, NoTails
<1> QED
  BY <1>1, <1>2, <1>3, <1>4 DEF MayInv, Offers

\* What every step has to show of a user who may only look.
LEMMA MovedSound ==
  ASSUME MayInv, Render, {"at", "role"} \subseteq DOMAIN session', Role' = Role, call' # None => May(call)',
         ~Manages => (SignedIn' => Passive(Page', local')) /\ NoTails'
  PROVE  MayInv'
<1>1. Manages' <=> Manages
  BY DEF Manages, G, Given
<1>2. SignedIn' => view' = Screen(path', local', G', log')
  BY DEF Render, SignedIn, G, Role
<1> QED
  BY <1>1, <1>2 DEF MayInv

\* A call that is heard of no more is the same request still.
LEMMA HeardMay == ASSUME MayInv, Role' = Role, NEW page, call' = Heard(call, page) PROVE call' # None => May(call)'
BY DEF MayInv, Heard, May

\* A load that is carried to another page keeps what it has to follow.
LEMMA CarriedTails == ASSUME NoTails, loads' = Carried(loads) PROVE NoTails'
BY DEF NoTails, Carried, Heard

\* A load that is begun without a call has no tail.
LEMMA BegunTails == ASSUME WorkInv, NoTails, NEW kind, Began(kind) PROVE NoTails'
<1>1. Began(kind) /\ IsSequence(loads)
  BY DEF WorkInv, Entries
<1>2. \A i \in DOMAIN loads' : (i \in DOMAIN loads /\ loads'[i] = loads[i]) \/ loads'[i] = Load(kind, None)
  <2>1. /\ IsSequence(loads') /\ Len(loads) \in Nat /\ Len(loads') = Len(loads) + 1
        /\ \A i \in 1..Len(loads) : loads'[i] = loads[i]
        /\ loads'[Len(loads) + 1] = Load(kind, None)
    BY <1>1, Appended DEF Began
  <2>2. DOMAIN loads' = 1..Len(loads') /\ DOMAIN loads = 1..Len(loads)
    BY <1>1, <2>1, LenProperties DEF IsSequence
  <2>3. \A i \in 1..(Len(loads) + 1) : i \in 1..Len(loads) \/ i = Len(loads) + 1
    BY <2>1
  <2> QED
    BY <2>1, <2>2, <2>3
<1> QED
  BY <1>2 DEF NoTails, Load

\* Nor does any of those that are left when one has come back.
LEMMA RemovedTails ==
  ASSUME WorkInv, NoTails, NEW i \in DOMAIN loads, loads' = RemoveAt(Carried(loads), i)
  PROVE  NoTails'
<1>1. Entries(Carried(loads)) /\ i \in DOMAIN Carried(loads)
  BY CarriedEntries DEF WorkInv, Carried
<1>2. \A j \in DOMAIN loads' : \E k \in DOMAIN Carried(loads) : loads'[j] = Carried(loads)[k]
  BY <1>1, Removed
<1>3. \A k \in DOMAIN Carried(loads) : {"from", "tail"} \subseteq DOMAIN Carried(loads)[k] /\ Carried(loads)[k].tail = None
  BY DEF NoTails, Carried, Heard
<1> QED
  BY <1>2, <1>3 DEF NoTails

\* Whatever happens keeps who may ask for what.
LEMMA MayStep == WorkInv /\ MayInv /\ [Next]_vars => MayInv'
<1> SUFFICES ASSUME WorkInv, MayInv, [Next]_vars PROVE MayInv'
  OBVIOUS
<1>1. CASE Sessions /\ Render
  <2>1. ASSUME NEW at, Enter(at), UNCHANGED call, at = "in" => Manages \/ Passive(Page', local'),
               UNCHANGED loads \/ \E kind : Began(kind)
        PROVE MayInv'
    <3>1. {"at", "role"} \subseteq DOMAIN session' /\ Role' = Role /\ session'.at = at
      BY <2>1 DEF MayInv, Enter, Role
    <3>2. call' # None => May(call)'
      BY <2>1, <3>1 DEF MayInv, May
    <3>3. NoTails => NoTails'
      BY <2>1, BegunTails DEF NoTails
    <3>4. ~Manages => (SignedIn' => Passive(Page', local')) /\ NoTails'
      BY <2>1, <3>1, <3>3 DEF MayInv, SignedIn
    <3> QED
      BY <1>1, <3>1, <3>2, <3>4, MovedSound
  <2>2. CASE SessionFound \/ SessionMissing \/ Logout \/ OpenPortal \/ ExitPortal
    <3>1. Logout => MayInv'
      <4>1. ASSUME Logout PROVE {"at", "role"} \subseteq DOMAIN session' /\ Role' = Role /\ ~SignedIn' /\ UNCHANGED <<call, loads>>
        BY <4>1 DEF Logout, MayInv, SignedIn, Role
      <4> QED
        BY <1>1, <4>1, MovedSound DEF MayInv, May, NoTails
    <3> QED
      BY <2>1, <2>2, <3>1 DEF SessionFound, SessionMissing, OpenPortal, ExitPortal
  <2>3. CASE Login
    <3>1. CASE Enter("portal") /\ UNCHANGED <<loads, call>>
      BY <2>1, <3>1
    <3>2. CASE /\ session' = [session EXCEPT !.at = "in", !.signed = TRUE]
               /\ Began("spin") /\ GoTo(Arrived(Permitted(path, Role), contexts, Given(log, data', Role)))
      <4>1. {"at", "role"} \subseteq DOMAIN session' /\ Role' = Role
        BY <3>2 DEF MayInv, Role
      <4>2. call' # None => May(call)'
        BY <2>3, <4>1 DEF Login, MayInv, May
      <4>3. ~Manages => Passive(Page', local')
        <5>1. ~Manages => ~Given(log, data', Role).manages
          BY DEF Manages, G, Given
        <5>2. path' = Permitted(path, Role) /\ local' = Mounted(path', Given(log, data', Role), ContextOf(contexts, PageOf(path'), None))
          BY <3>2 DEF GoTo, Arrived
        <5> QED
          BY <5>1, <5>2, MountedPassive DEF Mounted, Page
      <4>4. ~Manages => NoTails'
        BY <3>2, BegunTails DEF MayInv
      <4> QED
        BY <1>1, <4>1, <4>2, <4>3, <4>4, MovedSound
    <3> QED
      BY <2>3, <3>1, <3>2 DEF Login
  <2> QED
    BY <1>1, <2>2, <2>3 DEF Sessions
<1>2. CASE Clicks /\ Render
  <2>1. ASSUME NEW lead, Navigate(lead) PROVE MayInv'
    <3>1. /\ GoTo(Visit(Place, lead, G)) /\ call' = Heard(call, PageOf(path')) /\ loads' = Carried(loads)
          /\ UNCHANGED session /\ SignedIn
      BY <2>1 DEF Navigate
    <3>2. {"at", "role"} \subseteq DOMAIN session' /\ Role' = Role
      BY <3>1 DEF MayInv, Role
    <3>3. ~Manages => Passive(Page', local')
      <4>1. ~Manages => ~G.manages /\ Passive(PageOf(Place.path), Place.local)
        BY <3>1 DEF MayInv, Manages, Place, Page
      <4> QED
        BY <3>1, <4>1, RenderedPassive DEF Visit, GoTo, Page
    <3>4. ~Manages => NoTails'
      BY <3>1, CarriedTails DEF MayInv
    <3> QED
      BY <1>2, <3>1, <3>2, <3>3, <3>4, HeardMay, MovedSound
  <2>2. SignedIn
    BY <1>2 DEF Clicks
  <2> QED
    BY <1>2, <2>1, <2>2, OffersSound, DocumentClicksOffer, StockClicksOffer, ContainerClicksOffer, RecordClicksOffer DEF Clicks
<1>3. CASE Fetch /\ Render
  BY <1>3, FetchOffers, OffersSound
<1>4. CASE Answer /\ Render
  <2>1. call' = None /\ {"at", "role"} \subseteq DOMAIN session' /\ UNCHANGED session /\ Role' = Role
    BY <1>4 DEF Answer, MayInv, Role
  <2>2. ASSUME ~Manages PROVE (SignedIn' => Passive(Page', local')) /\ NoTails'
    <3>1. ServeTo(Role, log[Newest], call.request) = Denied(log[Newest])
      BY <2>2, WhoManages DEF ServeTo, MayAsk
    <3>2. Refuse
      <4>1. ~Denied(log[Newest]).ok
        BY DEF Denied
      <4>2. Grant(Denied(log[Newest])) \/ Deny(Denied(log[Newest])) \/ Lose(Denied(log[Newest]))
        BY <1>4, <3>1 DEF Answer
      <4> QED
        BY <4>1, <4>2 DEF Grant, Deny, Lose
    <3>3. local' \in {local, PageRefused(Page, local, call.request)} /\ UNCHANGED <<path, loads>>
      BY <3>2 DEF Refuse, Settles
    <3>4. SignedIn => Passive(Page, local')
      BY <2>2, <3>3, RefusedPassive DEF MayInv
    <3> QED
      BY <2>1, <2>2, <3>3, <3>4 DEF MayInv, Page, SignedIn, NoTails
  <2> QED
    BY <1>4, <2>1, <2>2, MovedSound
<1>5. CASE OthersWork /\ Render
  <2>1. UNCHANGED <<session, path, local, loads, call>>
    BY <1>5 DEF OthersWork
  <2>2. Role' = Role /\ (SignedIn' <=> SignedIn) /\ Page' = Page
    BY <2>1 DEF Role, SignedIn, Page
  <2> QED
    BY <1>5, <2>1, <2>2, MovedSound DEF MayInv, May, NoTails
<1>6. CASE FinishLoad /\ Render
  <2>1. PICK i \in DOMAIN loads :
          /\ Show(loads[i], Given(log, data', Role))
          /\ loads' = RemoveAt(Carried(loads), i) /\ call' = Heard(call, PageOf(path'))
    BY <1>6 DEF FinishLoad
  <2> DEFINE after == Given(log, data', Role)
  <2>2. {"at", "role"} \subseteq DOMAIN session' /\ Role' = Role
    BY <2>1 DEF Show, Enter, MayInv, Role
  <2>3. ASSUME ~Manages, SignedIn' PROVE Passive(Page', local')
    <3>1. ~after.manages
      BY <2>3 DEF Manages, G, Given
    <3> HIDE DEF after
    <3>2. CASE GoTo(Arrived(path, contexts, after))
      BY <3>1, <3>2, MountedPassive DEF GoTo, Arrived, Mounted, Page
    <3>3. CASE SignedIn /\ GoTo(Concluded(Reloaded(after), loads[i].tail, after))
      <4>1. GoTo(Reloaded(after)) /\ Passive(PageOf(Place.path), Place.local)
        BY <2>3, <3>3 DEF MayInv, NoTails, Concluded, Place, Page
      <4> DEFINE there == Rendered(Place, path, contexts, G, after, TRUE)
      <4>2. there.path = path /\ Passive(PageOf(there.path), there.local)
        BY <3>1, <4>1, RenderedPassive
      <4>3. path' = GridsGiven(there).path /\ local' = GridsGiven(there).local
        BY <4>1 DEF GoTo, Reloaded
      <4>4. /\ {"path", "local"} \subseteq DOMAIN there
        BY DEF Rendered, Arrived
      <4> HIDE DEF there
      <4>5. path' = path /\ local' = GridsLoaded(PageOf(path), there.local)
        BY <4>2, <4>3, <4>4 DEF GridsGiven
      <4> QED
        BY <4>2, <4>5, Elsewhere DEF GridsLoaded, Page, ListPageKeys, StockPageKeys
    <3>4. CASE session.at = "out" /\ UNCHANGED session
      BY <2>3, <3>4 DEF SignedIn
    <3> QED
      BY <2>1, <3>2, <3>3, <3>4 DEF Show, after
  <2>4. ~Manages => NoTails'
    BY <2>1, RemovedTails DEF MayInv
  <2> QED
    BY <1>6, <2>1, <2>2, <2>3, <2>4, HeardMay, MovedSound
<1>7. CASE UNCHANGED vars
  BY <1>7 DEF vars, core, MayInv, May, Manages, SignedIn, Page, G, Role, NoTails
<1> QED
  BY <1>1, <1>2, <1>3, <1>4, <1>5, <1>6, <1>7 DEF Next

\* At first nothing is asked.
LEMMA MayInit == Init => MayInv
<1> SUFFICES ASSUME Init PROVE MayInv
  OBVIOUS
<1>1. {"at", "role"} \subseteq DOMAIN session /\ session.at = "checking"
  BY DEF Init
<1>2. call = None /\ loads = <<>>
  BY DEF Init
<1> QED
  BY <1>1, <1>2 DEF MayInv, SignedIn, NoTails

(* No page asks for what the server refuses to the role of its user: what   *)
(* `canManage` of the pages hides is what the groups of the routes deny     *)
(* (staff_routes.go, requireRoles), whatever a page was left open with, or  *)
(* another page left for it.  Only the page of a container's life asks all. *)
THEOREM OnlyServedIsAsked == Spec => []AsksWhatIsServed
<1>1. MayInv => AsksWhatIsServed
  BY DEF MayInv, May, AsksWhatIsServed
<1> QED
  BY InitSound, StepSound, MayInit, MayStep, <1>1, PTL DEF Spec

-----------------------------------------------------------------------------
(* Answers and questions *)

\* What a list found is what its filter lists of that.
FoundFits(l) == {"mode", "filter", "found"} \subseteq DOMAIN l /\ Ids(l.found) \subseteq RowsIn(l, l.found)

\* The rows of a log are those of its query once it neither waits nor failed.
LogFits(l) ==
  /\ {"query", "rows", "asked", "failed"} \subseteq DOMAIN l /\ {"version", "query"} \subseteq DOMAIN l.rows
  /\ l.asked = TRUE \/ l.failed = TRUE \/ l.rows.query = l.query

\* A tab that is shown waits, has nothing, or has the answer for its form.
IsTab(tab) == {"form", "answer", "asked"} \subseteq DOMAIN tab
TabFits(tab) == tab.asked = TRUE \/ tab.answer = NoAnswer \/ tab.answer.scope = ScopeOf(tab.form, Today)
ReportFits(l) ==
  /\ {"tab", "overview", "flow"} \subseteq DOMAIN l /\ l.tab \in {"overview", "sku-flow"}
  /\ IsTab(l.overview) /\ IsTab(l.flow) /\ TabFits(Shown(l))

\* The life that is shown is that of the container in the address.
LifeFits(scope, l) ==
  /\ {"answer", "asked", "failed"} \subseteq DOMAIN l
  /\ scope # None => l.asked = TRUE \/ l.failed = TRUE \/ l.answer.container = scope[2]

LogPages == {"all-activity", "container-contents"}
Fits(page, to, l) ==
  /\ page \in ListPageKeys => FoundFits(l)
  /\ page \in LogPages => LogFits(l)
  /\ page = "reports" => ReportFits(l)
  /\ page = "container-lifecycle" => LifeFits(LifecycleOf(to, None), l)

Asking == ListPageKeys \cup LogPages \cup {"reports", "container-lifecycle"}
\* A page that asks for nothing fits anything.
LEMMA NothingAsked == ASSUME NEW page, page \notin Asking PROVE \A to, l : Fits(page, to, l)
BY DEF Fits, Asking

\* What a list does besides asking leaves what it found, and for what.
SameList(l, k) ==
  {"mode", "filter", "found"} \subseteq DOMAIN k /\ k.mode = l.mode /\ k.filter = l.filter /\ k.found = l.found

\* Such a list fits as it did.
LEMMA SameListFits == ASSUME NEW l, NEW k, FoundFits(l), SameList(l, k) PROVE FoundFits(k)
BY DEF FoundFits, SameList, RowsIn

\* Of what is listed, all is listed again.
LEMMA ListedAgain ==
  ASSUME NEW l, NEW d
  PROVE  Ids(Restrict(d, RowsIn(l, d))) \subseteq RowsIn(l, Restrict(d, RowsIn(l, d)))
<1> DEFINE S == RowsIn(l, d)
           r == Restrict(d, S)
<1>1. DOMAIN r = S /\ \A i \in S : r[i] = d[i]
  BY DEF Restrict
<1>2. ASSUME NEW i \in S PROVE i \in RowsIn(l, r)
  <2>1. r[i] = d[i] /\ i \in DOMAIN r
    BY <1>1
  <2> HIDE DEF r
  <2>2. CASE l.mode = "IN"
    BY <2>1, <2>2 DEF RowsIn, InboundRows, Ids
  <2>3. CASE l.mode # "IN"
    BY <2>1, <2>3 DEF RowsIn, OutboundRows, Ids
  <2> QED
    BY <2>2, <2>3
<1> QED
  BY <1>1, <1>2 DEF Ids

\* A list that found nothing fits any filter.
LEMMA NothingFound == ASSUME NEW l, {"mode", "filter", "found"} \subseteq DOMAIN l, l.found = <<>> PROVE FoundFits(l)
<1>1. DOMAIN l.found = {}
  OBVIOUS
<1> QED
  BY <1>1 DEF FoundFits, Ids

\* A list whose filter changes has found nothing for it yet.
LEMMA ListStillFits ==
  ASSUME NEW l, FoundFits(l)
  PROVE  /\ \A live, i : SameList(l, SelectDocument(l, live, i))
         /\ \A filter : FoundFits(SetListFilter(l, filter))
         /\ \A context, documents : FoundFits(LaunchList(l, context, documents))
         /\ \A documents : FoundFits(ListReloaded(l, documents)) /\ FoundFits(ListFound(l, documents))
         /\ FoundFits(ListUnfound(l)) /\ SameList(l, ListIdle(l)) /\ SameList(l, ListRefused(l))
<1> USE DEF FoundFits
<1>1. ASSUME NEW k, {"mode", "filter", "found"} \subseteq DOMAIN k, NEW live, NEW i PROVE SameList(k, SelectDocument(k, live, i))
  BY <1>1 DEF SameList, SelectDocument
<1>2. ASSUME NEW filter PROVE FoundFits(SetListFilter(l, filter))
  <2> DEFINE k == [l EXCEPT !.filter = filter, !.found = <<>>, !.unfound = FALSE, !.asked = filter # NoFilter]
  <2>1. DOMAIN k = DOMAIN l /\ k.found = <<>>
    OBVIOUS
  <2>2. FoundFits(k)
    BY <2>1, NothingFound
  <2> QED
    BY <2>2 DEF SetListFilter
<1>3. ASSUME NEW context, NEW documents PROVE FoundFits(LaunchList(l, context, documents))
  <2>1. PICK k : FoundFits(k) /\ \E live, i : LaunchList(l, context, documents) = SelectDocument(k, live, i)
    BY <1>2 DEF LaunchList
  <2> QED
    BY <1>1, <2>1, SameListFits
<1>4. ASSUME NEW documents PROVE FoundFits(ListReloaded(l, documents))
  BY <1>1, SameListFits DEF ListReloaded
<1>5. ASSUME NEW documents PROVE FoundFits(ListFound(l, documents))
  <2> DEFINE d == OfMode(l, documents)
             k == ListFound(l, documents)
  <2>1. DOMAIN k = DOMAIN l /\ k.mode = l.mode /\ k.filter = l.filter /\ k.found = Restrict(d, RowsIn(l, d))
    BY DEF ListFound
  <2> HIDE DEF d, k
  <2>2. RowsIn(k, k.found) = RowsIn(l, k.found)
    BY <2>1 DEF RowsIn
  <2>3. Ids(k.found) \subseteq RowsIn(l, k.found)
    BY <2>1, ListedAgain
  <2> QED
    BY <2>1, <2>2, <2>3 DEF k
<1>6. SameList(l, ListUnfound(l)) /\ SameList(l, ListIdle(l)) /\ SameList(l, ListRefused(l))
  BY DEF SameList, ListUnfound, ListIdle, ListRefused
<1> QED
  BY <1>1, <1>2, <1>3, <1>4, <1>5, <1>6, SameListFits

\* A log that is queried asks, or shows what there is for no query.
LEMMA LogStillFits ==
  ASSUME NEW l, LogFits(l)
  PROVE  /\ \A query, version : LogFits(SetQuery(l, query, version)) /\ LogFits(SetContentsQuery(l, query, version))
         /\ \A version : LogFits(LogAnswered(l, version)) /\ LogFits(LogFollows(l, version))
         /\ LogFits(LogFailed(l))
<1> USE DEF LogFits
<1>1. ASSUME NEW query, NEW version PROVE LogFits(SetQuery(l, query, version))
  <2> DEFINE k == [l EXCEPT !.query = query]
  <2>1. DOMAIN k = DOMAIN l /\ k.rows = l.rows /\ k.query = query
    OBVIOUS
  <2> HIDE DEF k
  <2>2. CASE IsFiltered(query)
    BY <2>1, <2>2 DEF LogAsks, SetQuery, k
  <2>3. CASE ~IsFiltered(query)
    <3> DEFINE m == [k EXCEPT !.loading = FALSE, !.failed = FALSE, !.asked = FALSE,
                              !.rows = [version |-> version, query |-> NoQuery]]
    <3>1. LogAsks(k, version) = m
      BY <2>1, <2>3 DEF LogAsks
    <3>2. DOMAIN m = DOMAIN k /\ m.query = query /\ m.rows = [version |-> version, query |-> NoQuery]
      BY <2>1
    <3>3. query = NoQuery
      BY <2>3 DEF IsFiltered
    <3> HIDE DEF m
    <3>4. LogFits(m)
      BY <2>1, <3>2, <3>3
    <3> QED
      BY <3>1, <3>4 DEF SetQuery, k
  <2> QED
    BY <2>2, <2>3
<1>2. ASSUME NEW query, NEW version PROVE LogFits(SetContentsQuery(l, query, version))
  <2> DEFINE k == SetQuery(l, query, version)
  <2>1. LogFits(k)
    BY <1>1
  <2> HIDE DEF k
  <2>2. LogFits([k EXCEPT !.chosen = {}])
    BY <2>1
  <2> QED
    BY <2>2 DEF SetContentsQuery, k
<1>3. ASSUME NEW version PROVE LogFits(LogAnswered(l, version))
  BY DEF LogAnswered
<1>4. ASSUME NEW version PROVE LogFits(LogFollows(l, version))
  <2>1. LogFits([l EXCEPT !.rows.version = version])
    OBVIOUS
  <2> QED
    BY <2>1 DEF LogFollows
<1>5. LogFits(LogFailed(l))
  BY DEF LogFailed
<1> QED
  BY <1>1, <1>2, <1>3, <1>4, <1>5

\* Asking concerns one tab, and a tab that is shown asks.
Tabs(l) ==
  {"tab", "overview", "flow"} \subseteq DOMAIN l /\ l.tab \in {"overview", "sku-flow"} /\ IsTab(l.overview) /\ IsTab(l.flow)

\* A tab that asks is a tab still, and waits.
LEMMA TabsAsk ==
  ASSUME NEW l, Tabs(l)
  PROVE  /\ Tabs(OverviewAsks(l)) /\ OverviewAsks(l).tab = l.tab /\ OverviewAsks(l).flow = l.flow
         /\ l.tab = "overview" => OverviewAsks(l).overview.asked = TRUE
         /\ Tabs(FlowAsks(l)) /\ FlowAsks(l).tab = l.tab /\ FlowAsks(l).overview = l.overview
         /\ l.tab = "sku-flow" => FlowAsks(l).flow.asked = TRUE \/ FlowAsks(l).flow.answer = NoAnswer
<1> USE DEF Tabs, IsTab
<1>1. ASSUME NEW t, IsTab(t) PROVE IsTab(AskAgain(t)) /\ AskAgain(t).asked = TRUE /\ IsTab(Dropped(t))
  BY <1>1 DEF AskAgain, Dropped
<1>2. ASSUME NEW t, IsTab(t) PROVE IsTab([Dropped(t) EXCEPT !.answer = NoAnswer]) /\ [Dropped(t) EXCEPT !.answer = NoAnswer].answer = NoAnswer
  BY <1>2 DEF Dropped
<1>3. /\ Tabs(OverviewAsks(l)) /\ OverviewAsks(l).tab = l.tab /\ OverviewAsks(l).flow = l.flow
      /\ l.tab = "overview" => OverviewAsks(l).overview.asked = TRUE
  <2>1. PICK t : OverviewAsks(l) = [l EXCEPT !.overview = t] /\ IsTab(t) /\ (l.tab = "overview" => t.asked = TRUE)
    BY <1>1 DEF OverviewAsks
  <2> QED
    BY <2>1
<1>4. /\ Tabs(FlowAsks(l)) /\ FlowAsks(l).tab = l.tab /\ FlowAsks(l).overview = l.overview
      /\ l.tab = "sku-flow" => FlowAsks(l).flow.asked = TRUE \/ FlowAsks(l).flow.answer = NoAnswer
  <2>1. PICK t : /\ FlowAsks(l) = [l EXCEPT !.flow = t] /\ IsTab(t)
                 /\ l.tab = "sku-flow" => t.asked = TRUE \/ t.answer = NoAnswer
    BY <1>1, <1>2 DEF FlowAsks
  <2> QED
    BY <2>1
<1> QED
  BY <1>3, <1>4

\* The reports fit when the tab they show does.
LEMMA ShownTab == ASSUME NEW l, Tabs(l), TabFits(IF l.tab = "overview" THEN l.overview ELSE l.flow) PROVE ReportFits(l)
BY DEF Tabs, ReportFits, Shown

\* The overview that asks fits.
LEMMA AskedOverview == ASSUME NEW l, Tabs(l), l.tab = "overview" PROVE ReportFits(OverviewAsks(l))
BY TabsAsk, ShownTab DEF TabFits

\* So does the flow of a product that asks.
LEMMA AskedFlow == ASSUME NEW l, Tabs(l), l.tab = "sku-flow" PROVE ReportFits(FlowAsks(l))
BY TabsAsk, ShownTab DEF TabFits

\* A tab that is shown, or whose form asks for something else, asks again.
LEMMA ReportStillFits ==
  ASSUME NEW l, ReportFits(l)
  PROVE  /\ \A skus : ReportFits(WithFirstSku(l, skus))
         /\ \A tab \in {"overview", "sku-flow"} : ReportFits(SetTab(l, tab))
         /\ \A form : ReportFits(SetForm(l, form))
         /\ \A version : /\ l.tab = "overview" => ReportFits([l EXCEPT !.overview = Answered(@, version)])
                         /\ l.tab # "overview" => ReportFits([l EXCEPT !.flow = Answered(@, version)])
         /\ l.tab = "overview" => ReportFits([l EXCEPT !.overview = Failed(@)])
         /\ l.tab # "overview" => ReportFits([l EXCEPT !.flow = Failed(@)])
<1>0. Tabs(l) /\ (l.tab = "overview" => TabFits(l.overview)) /\ (l.tab # "overview" => TabFits(l.flow))
  BY DEF ReportFits, Tabs, Shown
<1>1. ASSUME NEW skus PROVE ReportFits(WithFirstSku(l, skus))
  <2> DEFINE k == [l EXCEPT !.flow.form.search = CHOOSE s \in skus : TRUE]
  <2>1. Tabs(k) /\ k.tab = l.tab /\ k.overview = l.overview
    BY <1>0 DEF Tabs, IsTab
  <2> HIDE DEF k
  <2>2. CASE k.tab = "overview"
    <3>1. FlowAsks(k).tab = "overview" /\ Tabs(FlowAsks(k)) /\ FlowAsks(k).overview = l.overview
      BY <2>1, <2>2, TabsAsk
    <3> QED
      BY <1>0, <2>1, <2>2, <3>1, ShownTab DEF WithFirstSku, k
  <2>3. CASE k.tab = "sku-flow"
    BY <2>1, <2>3, AskedFlow DEF WithFirstSku, k
  <2> QED
    BY <2>1, <2>2, <2>3 DEF Tabs
<1>2. ASSUME NEW tab \in {"overview", "sku-flow"} PROVE ReportFits(SetTab(l, tab))
  <2> DEFINE k == [l EXCEPT !.tab = tab]
  <2>1. Tabs(k) /\ k.tab = tab
    BY <1>0 DEF Tabs
  <2> HIDE DEF k
  <2> DEFINE m == FlowAsks(k)
  <2>2. Tabs(m) /\ m.tab = tab /\ (tab = "sku-flow" => TabFits(m.flow))
    BY <2>1, TabsAsk DEF TabFits
  <2> HIDE DEF m
  <2>3. CASE tab = "overview"
    BY <2>2, <2>3, AskedOverview DEF SetTab, k, m
  <2>4. CASE tab = "sku-flow"
    <3>1. Tabs(OverviewAsks(m)) /\ OverviewAsks(m).tab = tab /\ OverviewAsks(m).flow = m.flow
      BY <2>2, TabsAsk
    <3> QED
      BY <2>2, <2>4, <3>1, ShownTab DEF SetTab, k, m
  <2> QED
    BY <2>3, <2>4
<1>3. ASSUME NEW form PROVE ReportFits(SetForm(l, form))
  <2>1. CASE l.tab = "overview"
    <3> DEFINE k == [l EXCEPT !.overview.form = form]
    <3>1. Tabs(k) /\ k.tab = "overview" /\ k.overview = [l.overview EXCEPT !.form = form]
      BY <1>0, <2>1 DEF Tabs, IsTab
    <3> HIDE DEF k
    <3>2. CASE ScopeOf(form, Today) = ScopeOf(l.overview.form, Today)
      <4>1. TabFits([l.overview EXCEPT !.form = form])
        BY <1>0, <2>1, <3>2 DEF TabFits, Tabs, IsTab
      <4> QED
        BY <2>1, <3>1, <3>2, <4>1, ShownTab DEF SetForm, k
    <3> QED
      BY <2>1, <3>1, <3>2, AskedOverview DEF SetForm, k
  <2>2. CASE l.tab # "overview"
    <3> DEFINE k == [l EXCEPT !.flow.form = form]
    <3>1. Tabs(k) /\ k.tab = "sku-flow" /\ k.flow = [l.flow EXCEPT !.form = form]
      BY <1>0, <2>2 DEF Tabs, IsTab
    <3> HIDE DEF k
    <3>2. CASE ScopeOf(form, Today) = ScopeOf(l.flow.form, Today)
      <4>1. TabFits([l.flow EXCEPT !.form = form])
        BY <1>0, <2>2, <3>2 DEF TabFits, Tabs, IsTab
      <4> QED
        BY <2>2, <3>1, <3>2, <4>1, ShownTab DEF SetForm, k
    <3> QED
      BY <2>2, <3>1, <3>2, AskedFlow DEF SetForm, k
  <2> QED
    BY <2>1, <2>2
<1>4. ASSUME NEW t, IsTab(t)
      PROVE  /\ IsTab(Failed(t)) /\ TabFits(Failed(t))
             /\ \A version : IsTab(Answered(t, version)) /\ TabFits(Answered(t, version))
  BY <1>4 DEF IsTab, TabFits, Failed, Answered
<1>5. ASSUME NEW t, IsTab(t), TabFits(t)
      PROVE  /\ l.tab = "overview" => ReportFits([l EXCEPT !.overview = t])
             /\ l.tab # "overview" => ReportFits([l EXCEPT !.flow = t])
  <2>1. Tabs([l EXCEPT !.overview = t]) /\ Tabs([l EXCEPT !.flow = t])
    BY <1>0, <1>5 DEF Tabs
  <2>2. /\ [l EXCEPT !.overview = t].tab = l.tab /\ [l EXCEPT !.flow = t].tab = l.tab
        /\ [l EXCEPT !.overview = t].overview = t /\ [l EXCEPT !.flow = t].flow = t
    BY <1>0 DEF Tabs
  <2> QED
    BY <1>5, <2>1, <2>2, ShownTab
<1>6. IsTab(l.overview) /\ IsTab(l.flow)
  BY <1>0 DEF Tabs
<1> QED
  BY <1>1, <1>2, <1>3, <1>4, <1>5, <1>6

\* A life that is looked up again waits; without a container nothing is shown.
LEMMA LifeStillFits ==
  ASSUME NEW scope, NEW l, LifeFits(scope, l)
  PROVE  /\ \A other : LifeFits(other, Rescope(l, other))
         /\ LifeFits(scope, LifecycleFollows(l, scope, FALSE))
         /\ \A filter : LifeFits(scope, Refilter(l, filter))
         /\ \A other, busy : LifeFits(other, [Reload(l) EXCEPT !.busy = busy])
         /\ \A version, life, type : LifeFits(scope, LifecycleAnswered(l, version, scope[2], life, type))
         /\ \A other : LifeFits(other, LifecycleFailed(l))
         /\ \A life, node : LifeFits(scope, SelectNode(l, life, node))
         /\ \A version : LifeFits(scope, Listed(l, version)) /\ LifeFits(scope, NotListed(l))
<1> USE DEF LifeFits
<1>1. ASSUME NEW s, NEW k, LifeFits(s, k), NEW filter PROVE LifeFits(s, Refilter(k, filter))
  BY <1>1 DEF Refilter
<1>2. ASSUME NEW other PROVE LifeFits(other, Rescope(l, other))
  <2>1. CASE other = None
    BY <2>1 DEF Rescope
  <2>2. CASE other # None
    <3> DEFINE k == [l EXCEPT !.node = NoNode, !.loading = TRUE, !.asked = TRUE, !.failed = FALSE]
    <3>1. LifeFits(other, k)
      OBVIOUS
    <3>2. PICK filter : Rescope(l, other) = Refilter(k, filter)
      BY <2>2 DEF Rescope
    <3> HIDE DEF k, LifeFits
    <3> QED
      BY <1>1, <3>1, <3>2
  <2> QED
    BY <2>1, <2>2
<1>3. LifeFits(scope, LifecycleFollows(l, scope, FALSE))
  <2>1. LifeFits(scope, [l EXCEPT !.node = NoNode])
    OBVIOUS
  <2> QED
    BY <1>1, <2>1 DEF LifecycleFollows
<1>4. ASSUME NEW other, NEW busy PROVE LifeFits(other, [Reload(l) EXCEPT !.busy = busy])
  BY DEF Reload
<1>5. ASSUME NEW version, NEW life, NEW type PROVE LifeFits(scope, LifecycleAnswered(l, version, scope[2], life, type))
  BY DEF LifecycleAnswered
<1>6. ASSUME NEW other PROVE LifeFits(other, LifecycleFailed(l))
  BY DEF LifecycleFailed
<1>7. ASSUME NEW life, NEW node PROVE LifeFits(scope, SelectNode(l, life, node))
  BY DEF SelectNode
<1>8. ASSUME NEW version PROVE LifeFits(scope, Listed(l, version)) /\ LifeFits(scope, NotListed(l))
  BY DEF Listed, NotListed
<1> QED
  BY <1>1, <1>2, <1>3, <1>4, <1>5, <1>6, <1>7, <1>8

-----------------------------------------------------------------------------
\* A page that comes on the screen has asked for what its address needs.
LEMMA MountedFits ==
  ASSUME NEW page, NEW to, NEW g, NEW context
  PROVE  Fits(page, to, MountedAt(page, to, g, context))
<1> DEFINE l == MountedAt(page, to, g, context)
<1>1. CASE page \in ListPageKeys
  <2>1. FoundFits(FreshList(ListMode(page)))
    BY NothingFound DEF FreshList
  <2>2. FoundFits(LaunchList(FreshList(ListMode(page)), context, g.documents))
    BY <2>1, ListStillFits
  <2>3. l \in {FreshList(ListMode(page)), LaunchList(FreshList(ListMode(page)), context, g.documents)}
    BY <1>1 DEF MountedAt, ListPageKeys, StockPageKeys, MasterPageKeys
  <2> QED
    BY <1>1, <2>1, <2>2, <2>3 DEF Fits, ListPageKeys, LogPages
<1>2. ASSUME NEW version PROVE LogFits(FreshLog(version)) /\ LogFits(FreshContents(version))
  <2>1. LogFits(FreshLog(version))
    BY DEF LogFits, FreshLog, NoLog
  <2>2. LogFits(FreshContents(version))
    BY DEF LogFits, FreshContents, Over, FreshLog, NoLog
  <2> QED
    BY <2>1, <2>2
<1>3. CASE page = "container-contents"
  <2> DEFINE k == FreshContents(g.ledger)
  <2>1. LogFits(k)
    BY <1>2
  <2> HIDE DEF k
  <2>2. LogFits([k EXCEPT !.typed = context.search])
    BY <2>1 DEF LogFits
  <2>3. LogFits(LaunchContents(g.ledger, context))
    BY <2>2, LogStillFits DEF LaunchContents, k
  <2>4. l \in {k, LaunchContents(g.ledger, context)}
    BY <1>3 DEF MountedAt, ListPageKeys, StockPageKeys, MasterPageKeys, k
  <2> QED
    BY <1>3, <2>1, <2>3, <2>4 DEF Fits, ListPageKeys, LogPages
<1>4. CASE page = "all-activity"
  <2> DEFINE k == FreshLog(g.ledger)
  <2>1. LogFits(k)
    BY <1>2
  <2> HIDE DEF k
  <2>2. LogFits([k EXCEPT !.typed = context.search, !.selected = None])
    BY <2>1 DEF LogFits
  <2>3. LogFits(LaunchLog(k, context, g.ledger))
    BY <2>2, LogStillFits DEF LaunchLog
  <2>4. l \in {k, LaunchLog(k, context, g.ledger)}
    BY <1>4 DEF MountedAt, ListPageKeys, StockPageKeys, MasterPageKeys, k
  <2> QED
    BY <1>4, <2>1, <2>3, <2>4 DEF Fits, ListPageKeys, LogPages
<1>5. CASE page = "reports"
  <2> DEFINE k == FreshReports(Rates)
  <2>1. Tabs(k) /\ k.tab = "overview"
    BY DEF Tabs, IsTab, FreshReports, NewTab
  <2> HIDE DEF k
  <2>2. ReportFits(OverviewAsks(k))
    BY <2>1, AskedOverview
  <2>3. l = WithFirstSku(OverviewAsks(k), DOMAIN g.masters.skus)
    BY <1>5 DEF MountedAt, ListPageKeys, StockPageKeys, MasterPageKeys, OpenedReports, k
  <2>4. ReportFits(l)
    BY <2>2, <2>3, ReportStillFits
  <2> QED
    BY <1>5, <2>4 DEF Fits, ListPageKeys, LogPages
<1>6. CASE page = "container-lifecycle"
  <2>1. l = FreshLifecycle(LifecycleOf(to, None))
    BY <1>6 DEF MountedAt, ListPageKeys, StockPageKeys, MasterPageKeys
  <2>2. ASSUME NEW scope PROVE LifeFits(scope, FreshLifecycle(scope))
    BY DEF LifeFits, FreshLifecycle
  <2> QED
    BY <1>6, <2>1, <2>2 DEF Fits, ListPageKeys, LogPages
<1> QED
  BY <1>1, <1>3, <1>4, <1>5, <1>6, NothingAsked DEF Asking, LogPages

\* A page that is rendered again, or for another address, asks again for what it then needs.
LEMMA FollowedFits ==
  ASSUME NEW page, NEW to, NEW from, NEW l, NEW before, NEW g, NEW context, NEW reloaded, Fits(page, from, l)
  PROVE  Fits(page, to, FollowedAt(page, to, from, l, before, g, context, reloaded))
<1> DEFINE k == FollowedAt(page, to, from, l, before, g, context, reloaded)
<1>1. CASE page \in ListPageKeys
  <2>1. FoundFits(l) /\ FoundFits(ListReloaded(l, g.documents))
    BY <1>1, ListStillFits DEF Fits
  <2>2. k \in {l, ListReloaded(l, g.documents)}
    BY <1>1 DEF FollowedAt, ListPageKeys, StockPageKeys
  <2> QED
    BY <1>1, <2>1, <2>2 DEF Fits, ListPageKeys, LogPages
<1>2. CASE page = "container-contents"
  <2> DEFINE m == LogFollows(l, g.ledger)
  <2>1. LogFits(m)
    BY <1>2, LogStillFits DEF Fits, LogPages
  <2>2. PICK bulk : k \in {m, [m EXCEPT !.bulk = bulk]}
    BY <1>2 DEF FollowedAt, ListPageKeys, StockPageKeys, ContentsFollow
  <2> HIDE DEF m
  <2>3. LogFits([m EXCEPT !.bulk = bulk])
    BY <2>1 DEF LogFits
  <2> QED
    BY <1>2, <2>1, <2>2, <2>3 DEF Fits, ListPageKeys, LogPages
<1>3. CASE page = "all-activity"
  <2> DEFINE m == LogFollows(l, g.ledger)
  <2>1. LogFits(l) /\ LogFits(m)
    BY <1>3, LogStillFits DEF Fits, LogPages
  <2>2. k \in {l, m, [m EXCEPT !.selected = None]}
    BY <1>3 DEF FollowedAt, ListPageKeys, StockPageKeys, KeptMovement
  <2> HIDE DEF m
  <2>3. LogFits([m EXCEPT !.selected = None])
    BY <2>1 DEF LogFits
  <2> QED
    BY <1>3, <2>1, <2>2, <2>3 DEF Fits, ListPageKeys, LogPages
<1>4. CASE page = "reports"
  <2>1. ReportFits(l)
    BY <1>4 DEF Fits
  <2>2. k = WithFirstSku(l, DOMAIN g.masters.skus)
    BY <1>4 DEF FollowedAt, ListPageKeys, StockPageKeys
  <2>3. ReportFits(k)
    BY <2>1, <2>2, ReportStillFits
  <2> QED
    BY <1>4, <2>3 DEF Fits, ListPageKeys, LogPages
<1>5. CASE page = "container-lifecycle"
  <2>1. LifeFits(LifecycleOf(from, None), l)
    BY <1>5 DEF Fits
  <2>2. k = LifecycleFollows(l, LifecycleOf(to, None), to # from)
    BY <1>5 DEF FollowedAt, ListPageKeys, StockPageKeys
  <2>3. CASE to # from
    <3>1. k = Rescope(l, LifecycleOf(to, None))
      BY <2>2, <2>3 DEF LifecycleFollows
    <3>2. LifeFits(LifecycleOf(to, None), k)
      BY <2>1, <3>1, LifeStillFits
    <3> QED
      BY <1>5, <3>2 DEF Fits, ListPageKeys, LogPages
  <2>4. CASE to = from
    <3>1. k = LifecycleFollows(l, LifecycleOf(to, None), FALSE)
      BY <2>2, <2>4 DEF LifecycleFollows
    <3>2. LifeFits(LifecycleOf(to, None), k)
      BY <2>1, <2>4, <3>1, LifeStillFits
    <3> QED
      BY <1>5, <3>2 DEF Fits, ListPageKeys, LogPages
  <2> QED
    BY <2>3, <2>4
<1> QED
  BY <1>1, <1>2, <1>3, <1>4, <1>5, NothingAsked DEF Asking, LogPages

\* An answer, a refusal and what follows the next load leave what was asked for, or ask again.
LEMMA CalledFits ==
  ASSUME NEW page, NEW to, NEW l, NEW request, Fits(page, to, l)
  PROVE  /\ \A documents, done : Fits(page, to, PageAnswered(page, l, request, documents, done))
         /\ Fits(page, to, PageRefused(page, l, request))
         /\ \A files : Fits(page, to, PageSettled(page, l, request, files))
<1>1. CASE page \in ListPageKeys
  <2>1. FoundFits(l)
    BY <1>1 DEF Fits
  <2>2. ASSUME NEW k, SameList(l, k) PROVE Fits(page, to, k)
    BY <1>1, <2>1, <2>2, SameListFits DEF Fits, ListPageKeys, LogPages
  <2>3. ASSUME NEW documents, NEW done PROVE SameList(l, PageAnswered(page, l, request, documents, done))
    <3> DEFINE live == Live(l, documents)
    <3> HIDE DEF live
    <3>1. ASSUME NEW i, NEW chosen PROVE SameList(l, [SelectDocument(l, live, i) EXCEPT !.chosen = chosen])
      <4> DEFINE k == SelectDocument(l, live, i)
      <4>1. SameList(l, k)
        BY <2>1, ListStillFits
      <4> HIDE DEF k
      <4> QED
        BY <4>1 DEF SameList, k
    <3>2. SameList(l, ListAnswered(l, request, live, done))
      BY <2>1, <3>1, ListStillFits DEF ListAnswered, SameList, FoundFits
    <3>3. SameList(l, [l EXCEPT !.type = request.type, !.saved = request.type, !.saving = FALSE])
      BY <2>1 DEF SameList, FoundFits
    <3>4. PageAnswered(page, l, request, documents, done)
             \in {ListAnswered(l, request, live, done),
                  [l EXCEPT !.type = request.type, !.saved = request.type, !.saving = FALSE]}
      BY <1>1 DEF PageAnswered, ListPageKeys, MasterPageKeys, live
    <3> QED
      BY <3>2, <3>3, <3>4
  <2>4. PageRefused(page, l, request) = ListRefused(l) /\ \A files : PageSettled(page, l, request, files) = ListIdle(l)
    BY <1>1 DEF PageRefused, PageSettled, ListPageKeys, StockPageKeys, MasterPageKeys
  <2>5. SameList(l, PageRefused(page, l, request)) /\ \A files : SameList(l, PageSettled(page, l, request, files))
    BY <2>1, <2>4, ListStillFits
  <2> QED
    BY <2>2, <2>3, <2>5
<1>2. CASE page \in LogPages
  <2>1. LogFits(l)
    BY <1>2 DEF Fits
  <2>2. ASSUME NEW k, LogFits(k) PROVE Fits(page, to, k)
    BY <1>2, <2>2 DEF Fits, ListPageKeys, LogPages
  <2>3. ASSUME NEW documents, NEW done PROVE LogFits(PageAnswered(page, l, request, documents, done))
    <3>1. PageAnswered(page, l, request, documents, done)
             \in {l, [l EXCEPT !.type = request.type, !.saved = request.type, !.saving = FALSE]}
      BY <1>2 DEF PageAnswered, ListPageKeys, LogPages, MasterPageKeys
    <3> QED
      BY <2>1, <3>1 DEF LogFits
  <2>4. LogFits(PageRefused(page, l, request))
    <3>1. PICK bulk : PageRefused(page, l, request) \in {l, [l EXCEPT !.bulk = bulk]}
      BY <1>2 DEF PageRefused, ListPageKeys, LogPages, StockPageKeys, MasterPageKeys
    <3> QED
      BY <2>1, <3>1 DEF LogFits
  <2>5. ASSUME NEW files PROVE LogFits(PageSettled(page, l, request, files))
    <3>1. PageSettled(page, l, request, files) \in {l, [l EXCEPT !.bulk = None, !.chosen = {}]}
      BY <1>2 DEF PageSettled, ListPageKeys, LogPages, StockPageKeys, MasterPageKeys
    <3> QED
      BY <2>1, <3>1 DEF LogFits
  <2> QED
    BY <2>2, <2>3, <2>4, <2>5
<1>3. CASE page = "reports"
  <2>1. ReportFits(l)
    BY <1>3 DEF Fits
  <2>2. ASSUME NEW documents, NEW done PROVE ReportFits(PageAnswered(page, l, request, documents, done))
    <3>1. PageAnswered(page, l, request, documents, done)
             \in {l, [l EXCEPT !.type = request.type, !.saved = request.type, !.saving = FALSE]}
      BY <1>3 DEF PageAnswered, ListPageKeys, MasterPageKeys
    <3> QED
      BY <2>1, <3>1 DEF ReportFits, Shown
  <2>3. PageRefused(page, l, request) = l /\ \A files : PageSettled(page, l, request, files) = l
    BY <1>3 DEF PageRefused, PageSettled, ListPageKeys, StockPageKeys, MasterPageKeys
  <2> QED
    BY <1>3, <2>1, <2>2, <2>3 DEF Fits, ListPageKeys, LogPages
<1>4. CASE page = "container-lifecycle"
  <2> DEFINE scope == LifecycleOf(to, None)
  <2>1. LifeFits(scope, l)
    BY <1>4 DEF Fits
  <2>2. ASSUME NEW k, LifeFits(scope, k) PROVE Fits(page, to, k)
    BY <1>4, <2>2 DEF Fits, ListPageKeys, LogPages
  <2> HIDE DEF scope
  <2>3. ASSUME NEW documents, NEW done PROVE LifeFits(scope, PageAnswered(page, l, request, documents, done))
    <3>1. PageAnswered(page, l, request, documents, done)
             \in {[Reload(l) EXCEPT !.busy = None],
                  [l EXCEPT !.type = request.type, !.saved = request.type, !.saving = FALSE]}
      BY <1>4 DEF PageAnswered, ListPageKeys, MasterPageKeys
    <3>2. LifeFits(scope, [l EXCEPT !.type = request.type, !.saved = request.type, !.saving = FALSE])
      BY <2>1 DEF LifeFits
    <3>3. LifeFits(scope, [Reload(l) EXCEPT !.busy = None])
      BY <2>1, LifeStillFits
    <3> QED
      BY <3>1, <3>2, <3>3
  <2>4. LifeFits(scope, PageRefused(page, l, request))
    <3>1. PageRefused(page, l, request) = [l EXCEPT !.busy = None]
      BY <1>4 DEF PageRefused, ListPageKeys, StockPageKeys, MasterPageKeys
    <3> QED
      BY <2>1, <3>1 DEF LifeFits
  <2>5. \A files : PageSettled(page, l, request, files) = l
    BY <1>4 DEF PageSettled, ListPageKeys, StockPageKeys, MasterPageKeys
  <2> QED
    BY <2>1, <2>2, <2>3, <2>4, <2>5
<1> QED
  BY <1>1, <1>2, <1>3, <1>4, NothingAsked DEF Asking

\* Grids that are drawn again are on a page that asks for nothing.
LEMMA GridsFit == ASSUME NEW page, NEW to, NEW l, Fits(page, to, l) PROVE Fits(page, to, GridsLoaded(page, l))
<1>1. page = "sku-master" => page \notin Asking
  BY DEF Asking, LogPages, ListPageKeys
<1> QED
  BY <1>1, NothingAsked DEF GridsLoaded

\* Wherever a lead goes, the page there has asked for what its address needs.
LEMMA RenderedFits ==
  ASSUME NEW place, NEW to, NEW pending, NEW before, NEW g, NEW reloaded,
         Fits(PageOf(place.path), place.path, place.local)
  PROVE  LET there == Rendered(place, to, pending, before, g, reloaded)
         IN there.path = to /\ Fits(PageOf(there.path), there.path, there.local)
BY MountedFits, FollowedFits DEF Rendered, Arrived, Mounted, Followed

\* So it has when one lead follows another.
LEMMA LedFits ==
  ASSUME NEW place, NEW to, NEW g, Fits(PageOf(place.path), place.path, place.local)
  PROVE  Fits(PageOf(LedTo(place, to, g).path), LedTo(place, to, g).path, LedTo(place, to, g).local)
<1>1. ASSUME NEW lead
      PROVE  Fits(PageOf(Visit(place, lead, g).path), Visit(place, lead, g).path, Visit(place, lead, g).local)
  BY RenderedFits DEF Visit
<1> QED
  BY <1>1 DEF LedTo

-----------------------------------------------------------------------------
\* What is asked for, and which page hears of a load that follows a call.
Fit == Fits(Page, path, local)
HeardThere(tail, page) == tail # None => {"page", "here"} \subseteq DOMAIN tail /\ (tail.here = TRUE => tail.page = page)
Tails(s) == \A i \in DOMAIN s : HeardThere(s[i].tail, Page)
NoneFollow == \A i \in DOMAIN loads : loads[i].tail = None
FitInv == (SignedIn => Fit) /\ Tails(loads) /\ (~SignedIn => NoneFollow)

\* A click, or an answer to what the page asked on its own, leaves the user where it was.
Apt == UNCHANGED <<session, path, loads>> /\ Fit'

\* A click or a call of a page leaves the user there, with what the page asks for.
LEMMA ActStays == ASSUME NEW l, Act(l), Fits(Page, path, l) PROVE Apt
BY DEF Act, Apt, Fit, Page
\* So does a call it sends.
LEMMA SendStays == ASSUME NEW l, NEW request, Send(l, request), Fits(Page, path, l) PROVE Apt
BY DEF Send, Apt, Fit, Page

\* On most pages nothing is asked.
LEMMA Quietly == ASSUME Page \notin Asking, NEW l PROVE /\ Act(l) => Apt
                                                       /\ \A request : Send(l, request) => Apt
BY ActStays, SendStays, NothingAsked

\* On a list, what leaves what it found.
LEMMA OnListStays ==
  ASSUME OnList, Fit, NEW l, FoundFits(l) \/ SameList(local, l)
  PROVE  (Act(l) => Apt) /\ \A request : Send(l, request) => Apt
<1>1. FoundFits(local) /\ Page \in ListPageKeys
  BY DEF OnList, Fit, Fits
<1>2. FoundFits(l)
  BY <1>1, SameListFits
<1>3. Fits(Page, path, l)
  BY <1>1, <1>2 DEF Fits, ListPageKeys, LogPages
<1> QED
  BY <1>3, ActStays, SendStays

\* The clicks on lists, boards and forms of documents.
LEMMA DocumentClicksStay == Fit /\ SignedIn /\ DocumentClicks => Apt
<1> SUFFICES ASSUME Fit, SignedIn, DocumentClicks PROVE Apt
  OBVIOUS
<1>1. ASSUME NEW text PROVE TypeSearch(text) => Apt
  <2> DEFINE l == [local EXCEPT !.typed = text]
  <2>1. FoundFits(local) => FoundFits(l)
    BY DEF FoundFits, RowsIn
  <2>2. LogFits(local) => LogFits(l)
    BY DEF LogFits
  <2>3. ReportFits(local) => ReportFits(l)
    BY DEF ReportFits, Shown
  <2>4. TypeSearch(text) => Page # "container-lifecycle"
    BY DEF TypeSearch, Searches, ListPageKeys
  <2> HIDE DEF l
  <2>5. TypeSearch(text) => Fits(Page, path, l)
    BY <2>1, <2>2, <2>3, <2>4 DEF Fit, Fits
  <2> QED
    BY <2>5, ActStays DEF TypeSearch, l
<1>2. SearchFor => Apt
  <2> DEFINE l == SubmitSearches(Page, local, G.ledger)
  <2>1. SearchFor => Fits(Page, path, l)
    <3>1. CASE Page \in ListPageKeys
      <4>1. l = SubmitListSearch(local) /\ FoundFits(local)
        BY <3>1 DEF SubmitSearches, ListPageKeys, Fit, Fits
      <4>2. FoundFits(l)
        BY <4>1, ListStillFits DEF SubmitListSearch
      <4> QED
        BY <3>1, <4>2 DEF Fits, ListPageKeys, LogPages
    <3>2. CASE Page \in LogPages
      <4>1. l \in {SubmitLogSearch(local, G.ledger), SubmitContentsSearch(local, G.ledger)} /\ LogFits(local)
        BY <3>2 DEF SubmitSearches, ListPageKeys, LogPages, Fit, Fits
      <4>2. LogFits(l)
        BY <4>1, LogStillFits DEF SubmitLogSearch, SubmitContentsSearch
      <4> QED
        BY <3>2, <4>2 DEF Fits, ListPageKeys, LogPages
    <3>3. CASE Page = "reports"
      <4>1. l \in {local, SubmitSearch(local)} /\ ReportFits(local)
        BY <3>3 DEF SubmitSearches, ListPageKeys, Fit, Fits
      <4>2. ReportFits(l)
        BY <4>1, ReportStillFits DEF SubmitSearch
      <4> QED
        BY <3>3, <4>2 DEF Fits, ListPageKeys, LogPages
    <3>4. CASE Page \notin ListPageKeys \cup LogPages \cup {"reports"}
      BY <3>4, NothingAsked DEF SearchFor, Searches, Asking, LogPages
    <3> QED
      BY <3>1, <3>2, <3>3, <3>4
  <2> HIDE DEF l
  <2> QED
    BY <2>1, ActStays DEF SearchFor, l
<1>3. ASSUME NEW x PROVE SetPeriod(x) \/ TurnWeek(x) \/ AdvanceRow(x) \/ CopyRow(x) => Apt
  BY Quietly DEF SetPeriod, TurnWeek, AdvanceRow, CopyRow, Here, Asking, LogPages, ListPageKeys
<1>4. OnList => FoundFits(local)
  BY DEF OnList, Fit, Fits
<1>5. ASSUME NEW x PROVE FilterList(x) \/ SelectListed(x) => Apt
  BY <1>4, OnListStays, ListStillFits DEF FilterList, SelectListed
<1>6. ASSUME OnList, NEW op, NEW i, NEW request PROVE Ask(op, i, request) => Apt
  <2>1. SameList(local, Doing(local, op, i))
    BY <1>4, <1>6 DEF SameList, FoundFits, Doing
  <2> QED
    BY <1>6, <2>1, OnListStays DEF Ask
<1>7. ASSUME NEW i PROVE ConfirmListed(i) \/ TrackListed(i) \/ CopyListed(i) => Apt
  BY <1>6 DEF ConfirmListed, TrackListed, CopyListed, Manageable
<1>8. ASSUME NEW i PROVE CancelListed(i) \/ ChooseListed(i) => Apt
  <2>1. OnList => SameList(local, CancelDocument(local, LiveNow[i])) /\ SameList(local, SelectRow(local, LiveNow, i))
    BY <1>4 DEF SameList, FoundFits, CancelDocument, SelectRow
  <2> QED
    BY <2>1, OnListStays DEF CancelListed, ChooseListed, Manageable
<1>9. AnswerNo \/ AnswerYes => Apt
  <2>1. OnList => SameList(local, ClosePrompt(local)) /\ SameList(local, Approved(local))
    BY <1>4 DEF SameList, FoundFits, ClosePrompt, Approved, Doing
  <2> QED
    BY <2>1, OnListStays DEF AnswerNo, AnswerYes
<1>10. ASSUME NEW x PROVE ChooseAllListed \/ AskForBatch \/ SaveListNote \/ TypeListNote(x) => Apt
  <2>1. OnList => /\ SameList(local, SelectAll(local, LiveNow)) /\ SameList(local, SaveNote(local))
                  /\ SameList(local, TypeNote(local, x)) /\ \A op : SameList(local, AskBatch(local, LiveNow, op))
    BY <1>4 DEF SameList, FoundFits, SelectAll, SaveNote, TypeNote, AskBatch
  <2> QED
    BY <2>1, OnListStays DEF ChooseAllListed, AskForBatch, SaveListNote, TypeListNote, Manageable
<1>11. ASSUME NEW x PROVE ChooseType(x) \/ SaveType \/ CopyHere \/ AdjustHere => Apt
  BY Quietly DEF ChooseType, SaveType, CopyHere, AdjustHere, MayPress, OnReceipt, Here, Asking, LogPages, ListPageKeys
<1>12. ASSUME NEW form PROVE Edit(form) => Apt
  BY Quietly DEF Edit, OnEditor, Here, Asking, LogPages, ListPageKeys
<1>13. ASSUME NEW x, NEW y
       PROVE FillHeader(x) \/ SetHandling(x) \/ RemoveReceiptLine(x) \/ ChooseSku(x, y) \/ TypeReceived(x, y)
               \/ AddReceiptLine => Apt
  BY <1>12 DEF FillHeader, SetHandling, RemoveReceiptLine, ChooseSku, TypeReceived, AddReceiptLine
<1>14. ASSUME NEW x, NEW y PROVE AttachFile \/ GoToStep(x) \/ SaveAs(x, y) \/ CopyDrawn => Apt
  BY Quietly DEF AttachFile, GoToStep, SaveAs, CopyDrawn, OnEditor, Here, Asking, LogPages, ListPageKeys
<1> QED
  BY <1>1, <1>2, <1>3, <1>5, <1>7, <1>8, <1>9, <1>10, <1>11, <1>13, <1>14 DEF DocumentClicks

\* The clicks on the pages of the stock, which ask for nothing.
LEMMA StockClicksStay == SignedIn /\ StockClicks => Apt
<1> SUFFICES ASSUME SignedIn, StockClicks PROVE Apt
  OBVIOUS
<1>1. ASSUME Page \in StockPageKeys \cup {"container-detail", "inbound-detail"} PROVE Page \notin Asking
  BY <1>1 DEF StockPageKeys, Asking, LogPages, ListPageKeys
<1>2. ASSUME DialogPage # None PROVE Page \notin Asking
  BY <1>1, <1>2 DEF DialogPage, StockPageKeys
<1>3. ASSUME NEW page \in StockPageKeys, InDialog(page) PROVE Page \notin Asking
  BY <1>2, <1>3, NoneIsNoName DEF InDialog
<1>4. ASSUME InDialog("adjustments") \/ InDialog("transfers") \/ InDialog("cycle-counts") PROVE Page \notin Asking
  BY <1>3, <1>4 DEF StockPageKeys
<1>5. OpenDialog \/ CloseDialog => Apt
  BY <1>1, <1>2, Quietly DEF OpenDialog, CloseDialog, OnStockPage, Adapt
<1>6. InDialog("adjustments") /\ AdjustmentClicks => Apt
  BY <1>4, Quietly
     DEF AdjustmentClicks, ChooseContainerToAdjust, SetAdjustmentMode, GiveReason, SubmitAdjustment, TypeBalance, Adapt,
         Submits
<1>7. InDialog("transfers") /\ TransferClicks => Apt
  BY <1>4, Quietly
     DEF TransferClicks, ChooseContainerToMove, ChooseMode, ChooseDestination, ChooseSection, TypeMoved, SubmitTransfer,
         Adapt, Submits
<1>8. InDialog("cycle-counts") /\ CountClicks => Apt
  BY <1>4, Quietly
     DEF CountClicks, ChooseSource, AddCount, SubmitCount, RemoveCount, ChooseItem, TypeCounted, Adapt, Submits
<1>9. "transfers" \in StockPageKeys
  BY DEF StockPageKeys
<1>10. OpenWarehouse \/ CloseWhole \/ SubmitWarehouse => Apt
  BY <1>1, <1>9, Quietly DEF OpenWarehouse, CloseWhole, SubmitWarehouse, InWarehouseDialog, Here
<1>11. ASSUME NEW x PROVE ChooseFrom(x) \/ ChooseTo(x) \/ SelectPosting(x) => Apt
  BY <1>1, <1>9, Quietly DEF ChooseFrom, ChooseTo, SelectPosting, InWarehouseDialog, OnStockPage, Here
<1> QED
  BY <1>5, <1>6, <1>7, <1>8, <1>10, <1>11 DEF StockClicks

\* The clicks on the logs and on the life of a container.
LEMMA ContainerClicksStay == Fit /\ SignedIn /\ ContainerClicks => Apt
<1> SUFFICES ASSUME Fit, SignedIn, ContainerClicks PROVE Apt
  OBVIOUS
<1>1. ASSUME Page \in LogPages, NEW l, LogFits(local) => LogFits(l)
      PROVE  (Act(l) => Apt) /\ \A request : Send(l, request) => Apt
  <2>1. Fits(Page, path, l)
    BY <1>1 DEF Fit, Fits, ListPageKeys, LogPages
  <2> QED
    BY <2>1, ActStays, SendStays
<1>2. OnContents => Page \in LogPages
  BY DEF OnContents, Here, LogPages
<1>3. ASSUME NEW x PROVE QueryContents(x) \/ QueryLog(x) => Apt
  BY <1>1, <1>2, LogStillFits DEF QueryContents, QueryLog, Here, LogPages
<1>4. ASSUME NEW x PROVE OpenBulkDialog \/ CloseBulkDialog \/ ChooseRow(x) \/ ChooseBulkDestination(x) \/ SubmitBulk => Apt
  <2>1. ASSUME NEW bulk PROVE LogFits(local) => LogFits([local EXCEPT !.bulk = bulk])
    BY DEF LogFits
  <2>2. LogFits(local) => LogFits(ChooseContainer(local, x.key))
    BY DEF LogFits, ChooseContainer
  <2>3. LogFits(local) => LogFits([local EXCEPT !.bulk.submitting = TRUE, !.bulk.failed = FALSE])
    BY DEF LogFits
  <2> QED
    BY <1>1, <1>2, <2>1, <2>2, <2>3
       DEF OpenBulkDialog, OpenBulkTransfer, CloseBulkDialog, CloseBulkTransfer, ChooseRow, ChooseBulkDestination, SubmitBulk
<1>5. ASSUME NEW x PROVE SelectMovement(x) => Apt
  <2>1. LogFits(local) => LogFits([local EXCEPT !.selected = x])
    BY DEF LogFits
  <2> QED
    BY <1>1, <2>1 DEF SelectMovement, Here, LogPages
<1>6. ASSUME OnLifecycle, NEW l, LifeFits(Scope, local) => LifeFits(Scope, l)
      PROVE  (Act(l) => Apt) /\ \A request : Send(l, request) => Apt
  <2>1. Fits(Page, path, l)
    BY <1>6 DEF OnLifecycle, Here, Scope, Fit, Fits, ListPageKeys, LogPages
  <2> QED
    BY <2>1, ActStays, SendStays
<1>7. ASSUME NEW x PROVE FilterContainers(x) \/ ClickNode(x) => Apt
  BY <1>6, LifeStillFits DEF FilterContainers, ClickNode, PanelReady
<1>8. ASSUME NEW x, NEW y PROVE SaveBoxType(x) \/ TellEvent(x, y) => Apt
  <2>1. /\ LifeFits(Scope, local) => LifeFits(Scope, [local EXCEPT !.type = x, !.busy = "container"])
        /\ LifeFits(Scope, local) => LifeFits(Scope, [local EXCEPT !.busy = "event"])
    BY DEF LifeFits
  <2> QED
    BY <1>6, <2>1 DEF SaveBoxType, TellEvent, PanelReady
<1>9. ASSUME NEW x PROVE OpenContainerDialog(x) \/ FilterSummary(x) \/ SelectSource(x) \/ FilterMap(x) \/ ClickBlock(x) => Apt
  BY Quietly
     DEF OpenContainerDialog, FilterSummary, SelectSource, FilterMap, ClickBlock, Here, Asking, LogPages, ListPageKeys
<1> QED
  BY <1>3, <1>4, <1>5, <1>7, <1>8, <1>9 DEF ContainerClicks

\* The clicks on the records, the warehouses and the reports.
LEMMA RecordClicksStay == Fit /\ SignedIn /\ (RecordClicks \/ WarehouseClicks \/ ReportClicks) => Apt
<1> SUFFICES ASSUME Fit, SignedIn PROVE (RecordClicks => Apt) /\ (WarehouseClicks => Apt) /\ (ReportClicks => Apt)
  OBVIOUS
<1>1. Page \in RecordPages \cup {"storage-management", "storage-location-editor"} => Page \notin Asking
  BY DEF RecordPages, Asking, LogPages, ListPageKeys
<1>2. OnRecords \/ InRecord \/ InColumns \/ Here("customers") \/ Masters("sku-master") => Page \notin Asking
  BY <1>1 DEF OnRecords, InRecord, InColumns, Masters, Here, RecordPages
<1>3. OnStorage \/ OnLayout \/ (\E kind : InWarehouseRecord(kind)) => Page \notin Asking
  BY <1>1 DEF OnStorage, OnLayout, InWarehouseRecord, Masters, Here
<1>4. ASSUME NEW x, NEW y
      PROVE SelectCustomer(x) \/ EditRecord(x) \/ DeleteRecord(x) \/ FillRecord(x) \/ EditCell(x, y) \/ DragColumn(x, y) => Apt
  BY <1>2, Quietly DEF SelectCustomer, EditRecord, DeleteRecord, FillRecord, EditCell, DragColumn
<1>5. NewRecord \/ CloseRecordDialog \/ SubmitRecord \/ OpenColumns \/ CloseColumns \/ ResetColumns \/ SaveColumns => Apt
  BY <1>2, Quietly DEF NewRecord, CloseRecordDialog, SubmitRecord, OpenColumns, CloseColumns, ResetColumns, SaveColumns
<1>6. RecordClicks => Apt
  BY <1>4, <1>5 DEF RecordClicks
<1>7. ASSUME Page \notin Asking, NEW refused, NEW record PROVE SaveWarehouse(refused, record) => Apt
  BY <1>7, Quietly DEF SaveWarehouse
<1>8. ASSUME NEW x, NEW y PROVE OpenWarehouseRecord(x, y) \/ NameSection(x, y) \/ ChangeBlock(x, y) => Apt
  BY <1>3, Quietly DEF OpenWarehouseRecord, NameSection, ChangeBlock
<1>9. ASSUME NEW x
      PROVE DeleteWarehouse(x) \/ SaveName(x) \/ NameWarehouse(x) \/ SelectBlock(x) \/ AddLayoutBlock(x) => Apt
  BY <1>3, <1>7, Quietly DEF DeleteWarehouse, SaveName, NameWarehouse, SelectBlock, AddLayoutBlock
<1>10. CloseWarehouseRecord \/ SaveSections \/ DropBlock \/ SubmitLayout => Apt
  BY <1>3, <1>7, Quietly DEF CloseWarehouseRecord, SaveSections, DropBlock, SubmitLayout
<1>11. WarehouseClicks => Apt
  BY <1>8, <1>9, <1>10 DEF WarehouseClicks
<1>12. ASSUME Here("reports"), NEW l, ReportFits(local) => ReportFits(l) PROVE Act(l) => Apt
  <2>1. Fits(Page, path, l)
    BY <1>12 DEF Here, Fit, Fits, ListPageKeys, LogPages
  <2> QED
    BY <2>1, ActStays
<1>13. ASSUME NEW tab \in {"overview", "sku-flow"} PROVE ShowTab(tab) => Apt
  BY <1>12, ReportStillFits DEF ShowTab
<1>14. ASSUME NEW x PROVE FillForm(x) \/ TypeRate(x) => Apt
  <2>1. ReportFits(local) => ReportFits(SetRate(local, x))
    BY DEF ReportFits, Shown, SetRate
  <2> QED
    BY <1>12, <2>1, ReportStillFits DEF FillForm, TypeRate
<1>15. ReportClicks => Apt
  BY <1>13, <1>14 DEF ReportClicks
<1> QED
  BY <1>6, <1>11, <1>15

\* An answer is for what is asked when it comes; without one the page says so.
LEMMA FetchStays == Fit /\ SignedIn /\ Fetch => Apt
<1> SUFFICES ASSUME Fit, SignedIn, Fetch PROVE Apt
  OBVIOUS
<1>1. ASSUME NEW reply, Fetched(reply), Fits(Page, path, reply[1]), Fits(Page, path, reply[2]) PROVE Apt
  BY <1>1 DEF Fetched, Apt, Fit, Page
<1>2. CASE FetchList
  <2>1. FoundFits(ListFound(local, log[Newest].documents)) /\ FoundFits(ListUnfound(local))
    BY <1>2, ListStillFits DEF FetchList, Fit, Fits
  <2> QED
    BY <1>1, <1>2, <2>1 DEF FetchList, Reply, Fits, ListPageKeys, LogPages
<1>3. CASE FetchLog
  <2> DEFINE m == LogAnswered(local, Newest)
  <2>1. LogFits(m) /\ LogFits(LogFailed(local))
    BY <1>3, LogStillFits DEF FetchLog, Fit, Fits, LogPages
  <2>2. LogReply \in {m, [m EXCEPT !.selected = None]}
    BY DEF LogReply, KeptMovement
  <2> HIDE DEF m
  <2>3. LogFits([m EXCEPT !.selected = None])
    BY <2>1 DEF LogFits
  <2>4. LogFits(LogReply)
    BY <2>1, <2>2, <2>3
  <2> QED
    BY <1>1, <1>3, <2>1, <2>4 DEF FetchLog, Reply, Fits, ListPageKeys, LogPages
<1>4. CASE FetchReport
  <2>1. ReportFits(local)
    BY <1>4 DEF FetchReport, Here, Fit, Fits
  <2>2. ReportFits(TabReply(local.tab)[1]) /\ ReportFits(TabReply(local.tab)[2])
    BY <2>1, ReportStillFits DEF TabReply, Reply
  <2> QED
    BY <1>1, <1>4, <2>2 DEF FetchReport, Here, Fits, ListPageKeys, LogPages
<1>5. CASE FetchContainers \/ FetchLife
  <2>1. Page = "container-lifecycle" /\ LifeFits(Scope, local)
    BY <1>5 DEF FetchContainers, FetchLife, OnLifecycle, Here, Fit, Fits, Scope
  <2>2. ASSUME NEW l, LifeFits(Scope, l) PROVE Fits(Page, path, l)
    BY <2>1, <2>2 DEF Fits, Scope, ListPageKeys, LogPages
  <2>3. FetchContainers => Apt
    <3>1. LifeFits(Scope, Listed(local, Newest)) /\ LifeFits(Scope, NotListed(local))
      BY <2>1, LifeStillFits
    <3> QED
      BY <1>1, <2>2, <3>1 DEF FetchContainers, Reply
  <2>4. FetchLife => Apt
    <3>1. ASSUME NEW life, NEW type PROVE LifeFits(Scope, LifecycleAnswered(local, Newest, Scope[2], life, type))
      BY <2>1, LifeStillFits
    <3>2. LifeFits(Scope, LifecycleFailed(local))
      BY <2>1, LifeStillFits
    <3> QED
      BY <1>1, <2>2, <3>1, <3>2 DEF FetchLife, LifeReply, Reply
  <2> QED
    BY <1>5, <2>3, <2>4
<1>6. CASE FetchOrder
  <2>1. Page \notin Asking
    BY <1>6 DEF FetchOrder, RecordPages, Asking, LogPages, ListPageKeys
  <2> QED
    BY <1>1, <1>6, <2>1, NothingAsked DEF FetchOrder
<1> QED
  BY <1>2, <1>3, <1>4, <1>5, <1>6 DEF Fetch

-----------------------------------------------------------------------------
\* A load that is carried along is heard of on the page that waits for it.
LEMMA CarriedThere ==
  ASSUME Entries(loads), Tails(loads)
  PROVE  \A i \in DOMAIN Carried(loads) : HeardThere(Carried(loads)[i].tail, PageOf(path'))
<1>1. ASSUME NEW i \in DOMAIN Carried(loads) PROVE HeardThere(Carried(loads)[i].tail, PageOf(path'))
  <2>1. i \in DOMAIN loads /\ Carried(loads)[i] = [loads[i] EXCEPT !.tail = Heard(@, PageOf(path'))]
    BY <1>1 DEF Carried
  <2>2. Entry(loads[i])
    BY <2>1, LenProperties DEF Entries, IsSequence
  <2>3. Carried(loads)[i].tail = Heard(loads[i].tail, PageOf(path'))
    BY <2>1, <2>2 DEF Entry
  <2>4. ASSUME NEW tail, HeardThere(tail, Page) PROVE HeardThere(Heard(tail, PageOf(path')), PageOf(path'))
    BY <2>4 DEF HeardThere, Heard
  <2> QED
    BY <2>1, <2>3, <2>4 DEF Tails
<1> QED
  BY <1>1

\* What is begun with a call that is answered is heard of there as well.
LEMMA BegunThere ==
  ASSUME NEW s, Entries(s), NEW load, NEW page, HeardThere(load.tail, page),
         \A i \in DOMAIN s : HeardThere(s[i].tail, page)
  PROVE  \A i \in DOMAIN Append(s, load) : HeardThere(Append(s, load)[i].tail, page)
<1>1. IsSequence(s)
  BY DEF Entries
<1>2. /\ IsSequence(Append(s, load)) /\ Len(s) \in Nat /\ Len(Append(s, load)) = Len(s) + 1
      /\ \A i \in 1..Len(s) : Append(s, load)[i] = s[i]
      /\ Append(s, load)[Len(s) + 1] = load
  BY <1>1, Appended
<1>3. DOMAIN Append(s, load) = 1..(Len(s) + 1) /\ DOMAIN s = 1..Len(s)
  BY <1>1, <1>2, LenProperties DEF IsSequence
<1>4. \A i \in 1..(Len(s) + 1) : i \in 1..Len(s) \/ i = Len(s) + 1
  BY <1>2
<1> QED
  BY <1>2, <1>3, <1>4

\* A load that has come back leaves the others where they are heard of.
LEMMA RemovedThere ==
  ASSUME Entries(loads), Tails(loads), NEW i \in DOMAIN loads, loads' = RemoveAt(Carried(loads), i)
  PROVE  Tails(loads)'
<1>1. Entries(Carried(loads)) /\ i \in DOMAIN Carried(loads)
  BY CarriedEntries DEF Carried
<1>2. \A j \in DOMAIN loads' : \E k \in DOMAIN Carried(loads) : loads'[j] = Carried(loads)[k]
  BY <1>1, Removed
<1> QED
  BY <1>2, CarriedThere DEF Tails, Page

\* Where nothing follows, nobody hears of it.
LEMMA NoneFollowThere == NoneFollow => \A page : \A i \in DOMAIN loads : HeardThere(loads[i].tail, page)
BY DEF NoneFollow, HeardThere

\* A click keeps what is asked and heard.
LEMMA AptSound == FitInv /\ SignedIn /\ Apt => FitInv'
<1> SUFFICES ASSUME FitInv, SignedIn, Apt PROVE FitInv'
  OBVIOUS
<1>1. Page' = Page /\ SignedIn'
  BY DEF Apt, Page, SignedIn
<1>2. Tails(loads)'
  BY <1>1 DEF FitInv, Apt, Tails
<1> QED
  BY <1>1, <1>2 DEF FitInv, Apt

\* Nothing follows a load of one who is not signed in, and a session begins on a page that asks.
LEMMA SessionsFit == WorkInv /\ TypeInv /\ FitInv /\ Sessions => FitInv'
<1> SUFFICES ASSUME WorkInv, TypeInv, FitInv, Sessions PROVE FitInv'
  OBVIOUS
<1>1. {"at", "role"} \subseteq DOMAIN session /\ Entries(loads)
  BY DEF TypeInv, Seated, WorkInv
<1>2. ASSUME ~SignedIn, NEW kind, Began(kind) PROVE NoneFollow' /\ Tails(loads)'
  <2>1. NoneFollow
    BY <1>2 DEF FitInv
  <2>2. \A i \in DOMAIN loads' : (i \in DOMAIN loads /\ loads'[i] = loads[i]) \/ loads'[i] = Load(kind, None)
    <3>1. /\ IsSequence(loads') /\ Len(loads) \in Nat /\ Len(loads') = Len(loads) + 1
          /\ \A i \in 1..Len(loads) : loads'[i] = loads[i]
          /\ loads'[Len(loads) + 1] = Load(kind, None) /\ IsSequence(loads)
      BY <1>1, <1>2, Appended DEF Began, Entries
    <3>2. DOMAIN loads' = 1..Len(loads') /\ DOMAIN loads = 1..Len(loads)
      BY <3>1, LenProperties DEF IsSequence
    <3>3. \A i \in 1..(Len(loads) + 1) : i \in 1..Len(loads) \/ i = Len(loads) + 1
      BY <3>1
    <3> QED
      BY <3>1, <3>2, <3>3
  <2> QED
    BY <2>1, <2>2 DEF NoneFollow, Tails, HeardThere, Load
<1>3. ASSUME NoneFollow, UNCHANGED loads PROVE NoneFollow' /\ Tails(loads)'
  BY <1>3 DEF NoneFollow, Tails, HeardThere
<1>4. ~Working => NoneFollow
  BY DEF Working, NoneFollow
<1>5. ASSUME NEW at, Enter(at) PROVE SignedIn' <=> at = "in"
  BY <1>1, <1>5 DEF Enter, SignedIn
<1>6. CASE SessionFound
  <2>1. ~SignedIn' /\ ~SignedIn
    BY <1>5, <1>6 DEF SessionFound, SignedIn
  <2> QED
    BY <1>2, <1>3, <1>6, <2>1 DEF SessionFound, FitInv
<1>7. CASE SessionMissing \/ ExitPortal
  <2>1. ~SignedIn' /\ ~SignedIn /\ UNCHANGED loads
    BY <1>5, <1>7 DEF SessionMissing, ExitPortal, SignedIn
  <2> QED
    BY <1>3, <2>1 DEF FitInv
<1>8. CASE Logout \/ OpenPortal
  <2>1. ASSUME Logout PROVE ~SignedIn'
    <3>1. session' = [session EXCEPT !.at = "out", !.signed = FALSE]
      BY <2>1 DEF Logout
    <3>2. session'.at = "out"
      BY <1>1, <3>1
    <3> QED
      BY <3>2 DEF SignedIn
  <2>2. ASSUME OpenPortal PROVE ~SignedIn'
    <3>1. Enter("portal")
      BY <2>2 DEF OpenPortal
    <3> QED
      BY <1>5, <3>1
  <2>3. ~Working /\ UNCHANGED loads
    BY <1>8 DEF Logout, OpenPortal
  <2> QED
    BY <1>3, <1>4, <1>8, <2>1, <2>2, <2>3 DEF FitInv
<1>9. CASE Login
  <2>1. ~SignedIn
    BY <1>9 DEF Login, SignedIn
  <2>2. CASE Enter("portal") /\ UNCHANGED loads
    BY <1>3, <1>5, <2>1, <2>2 DEF FitInv
  <2>3. CASE Began("spin") /\ GoTo(Arrived(Permitted(path, Role), contexts, Given(log, data', Role)))
    <3>1. Fit'
      BY <2>3, MountedFits DEF Fit, GoTo, Arrived, Mounted, Page
    <3>2. NoneFollow' /\ Tails(loads)'
      BY <1>2, <2>1, <2>3
    <3> QED
      BY <3>1, <3>2 DEF FitInv
  <2> QED
    BY <1>9, <2>2, <2>3 DEF Login
<1> QED
  BY <1>6, <1>7, <1>8, <1>9 DEF Sessions

\* The answer of a call leaves the page, or leads to one that asks.
LEMMA AnswerFits == WorkInv /\ TypeInv /\ FitInv /\ Answer => FitInv'
<1> SUFFICES ASSUME WorkInv, TypeInv, FitInv, Answer PROVE FitInv'
  OBVIOUS
<1>1. SignedIn /\ Fit /\ Tails(loads) /\ Entries(loads)
  BY DEF Answer, TypeInv, Seated, FitInv, WorkInv
<1>2. UNCHANGED session /\ SignedIn'
  BY <1>1 DEF Answer, SignedIn
<1>3. PICK answer : Grant(answer) \/ Deny(answer) \/ Lose(answer)
  BY DEF Answer
<1>4. CASE Grant(answer)
  <2> DEFINE place == [Place EXCEPT !.local = Settles(PageAnswered(Page, local, call.request, G.documents, answer.id))]
  <2>1. Fits(PageOf(place.path), place.path, place.local)
    <3>1. place.path = path
          /\ place.local = Settles(PageAnswered(Page, local, call.request, G.documents, answer.id))
      BY DEF Place
    <3>2. Fits(Page, path, Settles(PageAnswered(Page, local, call.request, G.documents, answer.id)))
      BY <1>1, CalledFits DEF Fit, Settles
    <3> HIDE DEF place
    <3> QED
      BY <3>1, <3>2 DEF Page
  <2>2. GoTo(LedTo(place, LedAtOnce(call.page, call.request, answer.id), G))
    BY <1>4 DEF Grant, AnsweredAt
  <2> HIDE DEF place
  <2>3. Fit'
    BY <2>1, <2>2, LedFits DEF GoTo, Fit, Page
  <2>4. Tails(loads)'
    <3>1. PICK up : Follow(answer.id, up)
      BY <1>4 DEF Grant
    <3>2. Entries(Carried(loads)) /\ \A i \in DOMAIN Carried(loads) : HeardThere(Carried(loads)[i].tail, PageOf(path'))
      BY <1>1, CarriedEntries, CarriedThere
    <3>3. HeardThere(TailOf(answer.id, call.here /\ PageOf(path') = call.page, up), PageOf(path'))
      BY DEF HeardThere, TailOf
    <3>4. CASE loads' = Carried(loads)
      BY <3>2, <3>4 DEF Tails, Page
    <3>5. CASE loads' = Append(Carried(loads), Load("quiet", TailOf(answer.id, call.here /\ PageOf(path') = call.page, up)))
      <4>1. HeardThere(Load("quiet", TailOf(answer.id, call.here /\ PageOf(path') = call.page, up)).tail, PageOf(path'))
        BY <3>3 DEF Load
      <4> QED
        BY <3>2, <3>5, <4>1, BegunThere DEF Tails, Page
    <3> QED
      BY <3>1, <3>4, <3>5 DEF Follow
  <2> QED
    BY <1>2, <2>3, <2>4 DEF FitInv
<1>5. CASE Refuse
  <2>1. UNCHANGED <<path, loads>> /\ local' \in {local, PageRefused(Page, local, call.request)}
    BY <1>5 DEF Refuse, Settles
  <2>2. Fits(Page, path, PageRefused(Page, local, call.request))
    BY <1>1, CalledFits DEF Fit
  <2>3. Fit'
    BY <1>1, <2>1, <2>2 DEF Fit, Page
  <2>4. Tails(loads)'
    BY <1>1, <2>1 DEF Tails, Page
  <2> QED
    BY <1>2, <2>3, <2>4 DEF FitInv
<1> QED
  BY <1>3, <1>4, <1>5 DEF Deny, Lose

\* A load that came back is heard of on the page its call was made on, which asks again if need be.
LEMMA FinishFits == WorkInv /\ TypeInv /\ FitInv /\ FinishLoad => FitInv'
<1> SUFFICES ASSUME WorkInv, TypeInv, FitInv, FinishLoad PROVE FitInv'
  OBVIOUS
<1>1. PICK i \in DOMAIN loads :
        /\ Show(loads[i], Given(log, data', Role))
        /\ loads' = RemoveAt(Carried(loads), i)
  BY DEF FinishLoad
<1> DEFINE after == Given(log, data', Role)
           load == loads[i]
<1> HIDE DEF after
<1>2. Entries(loads) /\ Tails(loads)
  BY DEF WorkInv, FitInv
<1>3. Tails(loads)'
  BY <1>1, <1>2, RemovedThere
<1>4. ASSUME ~SignedIn PROVE NoneFollow'
  <2>1. Entries(Carried(loads)) /\ i \in DOMAIN Carried(loads)
    BY <1>1, <1>2, CarriedEntries DEF Carried
  <2>2. \A j \in DOMAIN loads' : \E k \in DOMAIN Carried(loads) : loads'[j] = Carried(loads)[k]
    BY <1>1, <2>1, Removed
  <2>3. ASSUME NEW k \in DOMAIN Carried(loads) PROVE Carried(loads)[k].tail = None
    <3>1. k \in DOMAIN loads /\ Carried(loads)[k] = [loads[k] EXCEPT !.tail = Heard(@, PageOf(path'))]
      BY DEF Carried
    <3>2. Entry(loads[k]) /\ loads[k].tail = None
      BY <1>2, <1>4, <3>1, LenProperties DEF Entries, IsSequence, FitInv, NoneFollow
    <3> QED
      BY <3>1, <3>2 DEF Entry, Heard
  <2> QED
    BY <2>2, <2>3 DEF NoneFollow
<1>5. CASE Enter("in") /\ GoTo(Arrived(path, contexts, after))
  <2>1. Fit'
    BY <1>5, MountedFits DEF Fit, GoTo, Arrived, Mounted, Page
  <2>2. SignedIn'
    BY <1>5 DEF TypeInv, Seated, Enter, SignedIn
  <2> QED
    BY <1>3, <2>1, <2>2 DEF FitInv
<1>6. CASE SignedIn /\ GoTo(Concluded(Reloaded(after), load.tail, after)) /\ UNCHANGED session
  <2> DEFINE there == Rendered(Place, path, contexts, G, after, TRUE)
             given == GridsGiven(there)
  <2>1. Fits(PageOf(Place.path), Place.path, Place.local)
    BY <1>6 DEF FitInv, Fit, Place, Page
  <2>2. there.path = path /\ Fits(Page, path, there.local) /\ {"path", "local"} \subseteq DOMAIN there
    <3>1. there.path = path /\ Fits(PageOf(there.path), there.path, there.local)
      BY <2>1, RenderedFits
    <3>2. {"path", "local"} \subseteq DOMAIN there
      BY DEF Rendered, Arrived
    <3> QED
      BY <3>1, <3>2 DEF Page
  <2> HIDE DEF there
  <2>3. given.path = path /\ Fits(Page, path, given.local) /\ {"path", "local"} \subseteq DOMAIN given
    BY <2>2, GridsFit DEF GridsGiven, Page
  <2> HIDE DEF given
  <2> DEFINE settled == SettledAt(given, load.tail)
  <2>4. settled.path = path /\ Fits(Page, path, settled.local)
    <3>1. CASE settled = given
      BY <2>3, <3>1
    <3>2. CASE /\ load.tail # None /\ load.tail.here = TRUE
               /\ settled = [given EXCEPT !.local = PageSettled(load.tail.page, @, load.tail.request, load.tail.files)]
      <4>1. load.tail.page = Page
        BY <1>1, <1>2, <3>2 DEF Tails, HeardThere
      <4>2. Fits(Page, path, PageSettled(Page, given.local, load.tail.request, load.tail.files))
        BY <2>3, CalledFits
      <4> QED
        BY <2>3, <3>2, <4>1, <4>2
    <3>3. ~load.tail.here => settled = given
      BY DEF SettledAt
    <3> QED
      BY <3>1, <3>2, <3>3 DEF SettledAt
  <2> HIDE DEF settled
  <2>5. path' = Concluded(given, load.tail, after).path /\ local' = Concluded(given, load.tail, after).local
    BY <1>6 DEF GoTo, Reloaded, there, given
  <2>6. Fit'
    <3>1. CASE load.tail = None
      BY <2>3, <2>5, <3>1 DEF Concluded, Fit, Page
    <3>2. CASE load.tail # None
      <4>1. Fits(PageOf(settled.path), settled.path, settled.local)
        BY <2>4 DEF Page
      <4>2. PICK to : Concluded(given, load.tail, after) = LedTo(settled, to, after)
        BY <3>2 DEF Concluded, settled
      <4> QED
        BY <2>5, <4>1, <4>2, LedFits DEF Fit, Page
    <3> QED
      BY <3>1, <3>2
  <2> QED
    BY <1>3, <1>6, <2>6 DEF FitInv, SignedIn
<1>7. CASE session.at = "out" /\ UNCHANGED session
  BY <1>3, <1>4, <1>7 DEF FitInv, SignedIn
<1> QED
  BY <1>1, <1>5, <1>6, <1>7 DEF Show, after

\* Every step keeps it.
LEMMA FitStep == WorkInv /\ TypeInv /\ FitInv /\ [Next]_vars => FitInv'
<1> SUFFICES ASSUME WorkInv, TypeInv, FitInv, [Next]_vars PROVE FitInv'
  OBVIOUS
<1>1. CASE Sessions
  BY <1>1, SessionsFit
<1>2. CASE Clicks
  <2>1. ASSUME NEW lead, Navigate(lead) PROVE FitInv'
    <3>1. GoTo(Visit(Place, lead, G)) /\ loads' = Carried(loads) /\ UNCHANGED session /\ SignedIn
      BY <2>1 DEF Navigate
    <3>2. Fits(PageOf(Place.path), Place.path, Place.local)
      BY <3>1 DEF FitInv, Fit, Place, Page
    <3>3. Fit'
      BY <3>1, <3>2, RenderedFits DEF Visit, GoTo, Fit, Page
    <3>4. Tails(loads)'
      BY <3>1, CarriedThere DEF FitInv, WorkInv, Tails, Page
    <3> QED
      BY <3>1, <3>3, <3>4 DEF FitInv, SignedIn
  <2>2. SignedIn /\ Fit
    BY <1>2 DEF Clicks, FitInv
  <2> QED
    BY <1>2, <2>1, <2>2, AptSound, DocumentClicksStay, StockClicksStay, ContainerClicksStay, RecordClicksStay DEF Clicks
<1>3. CASE Fetch
  <2>1. SignedIn
    BY <1>3 DEF Fetch, FetchList, FetchLog, FetchReport, FetchContainers, FetchLife, FetchOrder, OnLifecycle, Here
  <2> QED
    BY <1>3, <2>1, FetchStays, AptSound DEF FitInv
<1>4. CASE Answer
  BY <1>4, AnswerFits
<1>5. CASE OthersWork
  BY <1>5 DEF OthersWork, FitInv, Fit, Tails, NoneFollow, SignedIn, Page
<1>6. CASE FinishLoad
  BY <1>6, FinishFits
<1>7. CASE UNCHANGED vars
  BY <1>7 DEF vars, core, FitInv, Fit, Tails, NoneFollow, SignedIn, Page
<1> QED
  BY <1>1, <1>2, <1>3, <1>4, <1>5, <1>6, <1>7 DEF Next

\* At first nobody is signed in and nothing is asked.
LEMMA FitInit == Init => FitInv
BY DEF Init, FitInv, SignedIn, Tails, NoneFollow

(* What a page got for a question is shown for that question only, once it  *)
(* has stopped waiting: a list, a log, a tab of the reports and the life of *)
(* a container ask again in the effect that hears of a new filter, query,   *)
(* form or address, whatever answers, loads and calls come in between, and  *)
(* whichever page hears of a load that follows a call.                      *)
THEOREM AnswersMatch == Spec => []AnswersMatchQuestions
<1>1. FitInv => AnswersMatchQuestions
  <2> SUFFICES ASSUME SignedIn, Fits(Page, path, local) PROVE AnswersMatchQuestions
    BY DEF FitInv, Fit, AnswersMatchQuestions
  <2>1. CASE Page \in ListPageKeys
    BY <2>1 DEF AnswersMatchQuestions, Fits, FoundFits, ListPageKeys
  <2>2. CASE Page \in {"all-activity", "container-contents"}
    BY <2>2 DEF AnswersMatchQuestions, Fits, LogFits, LogPages, ListPageKeys
  <2>3. CASE Page = "reports"
    BY <2>3 DEF AnswersMatchQuestions, Fits, ReportFits, TabFits, ListPageKeys
  <2>4. CASE Page = "container-lifecycle"
    BY <2>4 DEF AnswersMatchQuestions, Fits, LifeFits, Scope, ListPageKeys
  <2>5. CASE Page \notin Asking
    BY <2>5 DEF AnswersMatchQuestions, Asking, LogPages
  <2> QED
    BY <2>1, <2>2, <2>3, <2>4, <2>5 DEF Asking, LogPages
<1>2. TypeInv => WorkInv
  BY DEF TypeInv
<1> QED
  BY InitTyped, StepTyped, FitInit, FitStep, <1>1, <1>2, PTL DEF Spec

-----------------------------------------------------------------------------
(* The life of a container *)

\* What is reached, one edge after the other.
Reaches(flow, step, t) ==
  /\ t[0] = {step} /\ \A i \in 1 .. 9 : t[i] = NextSteps(flow, t[i - 1])
  /\ ReachedFrom(flow, step) = t[9]

\* There is such a way through the nine kinds of steps.
LEMMA Reaching ==
  ASSUME NEW flow, NEW step
  PROVE  \E t : Reaches(flow, step, t)
<1> DEFINE Goes(m, t) == t = [i \in 0 .. m |-> IF i = 0 THEN {step} ELSE NextSteps(flow, t[i - 1])]
           S == {m \in Nat : \E t : Goes(m, t)}
<1>1. 0 \in S
  <2>1. Goes(0, [i \in 0 .. 0 |-> {step}])
    OBVIOUS
  <2> QED
    BY <2>1
<1>2. ASSUME NEW m \in Nat, m \in S PROVE m + 1 \in S
  <2>1. PICK t : Goes(m, t)
    BY <1>2
  <2> DEFINE u == [i \in 0 .. m + 1 |-> IF i = m + 1 THEN NextSteps(flow, t[m]) ELSE t[i]]
  <2>2. Goes(m + 1, u)
    <3> SUFFICES ASSUME NEW i \in 0 .. m + 1 PROVE u[i] = IF i = 0 THEN {step} ELSE NextSteps(flow, u[i - 1])
      OBVIOUS
    <3>1. CASE i = m + 1
      BY <3>1
    <3>2. CASE i \in 0 .. m
      <4>1. u[i] = t[i] /\ (i # 0 => u[i - 1] = t[i - 1])
        BY <3>2
      <4>2. t[i] = IF i = 0 THEN {step} ELSE NextSteps(flow, t[i - 1])
        BY <2>1, <3>2
      <4> HIDE DEF u
      <4> QED
        BY <4>1, <4>2
    <3> QED
      BY <3>1, <3>2
  <2> HIDE DEF u, Goes
  <2> QED
    BY <2>2
<1>3. 9 \in S
  <2> HIDE DEF S
  <2> QED
    BY <1>1, <1>2, SetInduction
<1>4. ReachedFrom(flow, step) = (CHOOSE t : Goes(9, t))[9]
  BY DEF ReachedFrom, Accumulate, StepKinds
<1>5. PICK t : t = (CHOOSE u : Goes(9, u))
  OBVIOUS
<1>6. Goes(9, t)
  BY <1>3, <1>5
<1>7. \A i \in 0 .. 9 : t[i] = IF i = 0 THEN {step} ELSE NextSteps(flow, t[i - 1])
  BY <1>6
<1>8. t[0] = {step} /\ \A i \in 1 .. 9 : t[i] = NextSteps(flow, t[i - 1])
  BY <1>7
<1>9. ReachedFrom(flow, step) = t[9]
  BY <1>4, <1>5
<1>10. Reaches(flow, step, t)
  BY <1>8, <1>9 DEF Reaches
<1> QED
  BY <1>10

\* Who may add to the flow is shown all of its steps.
LEMMA AllSteps ==
  ASSUME NEW life, NEW events
  PROVE  LET steps == MainSteps(life, events, TRUE)
         IN /\ IsSequence(steps) /\ Len(steps) = 5
            /\ steps[1] = "container" /\ steps[2] = "tracking" /\ steps[3] = "pickup" /\ steps[4] = "received"
            /\ steps[5] = "inventory"
<1> DEFINE s == <<"container", "tracking", "pickup", "received", "inventory">>
           A == {"container", "tracking", "pickup", "received", "inventory"}
<1>1. MainSteps(life, events, TRUE) = Only(s, A)
  <2>1. {x \in A : \/ x \in {"received", "inventory"} \/ TRUE
                   \/ x = "container" /\ (life.box \/ events # {})
                   \/ x \in {"tracking", "pickup"} /\ OfKind(events, x) # {}} = A
    OBVIOUS
  <2> QED
    BY <2>1 DEF MainSteps
<1>2. /\ Len(s) = 5 /\ s[1] = "container" /\ s[2] = "tracking" /\ s[3] = "pickup" /\ s[4] = "received"
      /\ s[5] = "inventory"
  OBVIOUS
<1>3. A = {"container", "tracking", "pickup", "received", "inventory"} /\ Len(s) \in Nat
  BY <1>2
<1> HIDE DEF s, A
<1>0. Len(s) \in Nat
  BY <1>3
<1>4. PICK t : /\ t[0] = <<>>
               /\ \A i \in 1 .. Len(s) : t[i] = IF s[i] \in A THEN Append(t[i - 1], s[i]) ELSE t[i - 1]
               /\ Only(s, A) = t[Len(s)]
  BY <1>0, Keeping
<1>5. /\ t[1] = Append(t[0], "container") /\ t[2] = Append(t[1], "tracking") /\ t[3] = Append(t[2], "pickup")
      /\ t[4] = Append(t[3], "received") /\ t[5] = Append(t[4], "inventory") /\ Only(s, A) = t[5]
  BY <1>2, <1>3, <1>4
<1>6. IsSequence(t[0]) /\ Len(t[0]) = 0
  BY <1>4, EmptySeq DEF IsSequence
<1>7. /\ IsSequence(t[1]) /\ Len(t[1]) = 1
      /\ t[1][1] = "container"
  BY <1>5, <1>6, Appended
<1>8. /\ IsSequence(t[2]) /\ Len(t[2]) = 2
      /\ t[2][1] = "container" /\ t[2][2] = "tracking"
  BY <1>5, <1>7, Appended
<1>9. /\ IsSequence(t[3]) /\ Len(t[3]) = 3
      /\ t[3][1] = "container" /\ t[3][2] = "tracking" /\ t[3][3] = "pickup"
  BY <1>5, <1>8, Appended
<1>10. /\ IsSequence(t[4]) /\ Len(t[4]) = 4
      /\ t[4][1] = "container" /\ t[4][2] = "tracking" /\ t[4][3] = "pickup" /\ t[4][4] = "received"
  BY <1>5, <1>9, Appended
<1>11. /\ IsSequence(t[5]) /\ Len(t[5]) = 5
      /\ t[5][1] = "container" /\ t[5][2] = "tracking" /\ t[5][3] = "pickup" /\ t[5][4] = "received" /\ t[5][5] = "inventory"
  BY <1>5, <1>10, Appended
<1> QED
  BY <1>1, <1>5, <1>11

\* The flow is drawn in one piece, whatever is selected and whatever there is of the container.
LEMMA FlowConnected ==
  ASSUME NEW life, NEW documents, NEW selected
  PROVE  LET flow == LifecycleFlow(life, documents, "admin", TRUE, selected)
         IN /\ \A e \in flow.edges : e[1] \in flow.nodes /\ e[2] \in flow.nodes
            /\ ReachedFrom(flow, <<"container", 0, "">>) = flow.nodes
<1> DEFINE flow == LifecycleFlow(life, documents, "admin", TRUE, selected)
           told == Told(life.events, "admin")
           steps == MainSteps(life, told, TRUE)
           orders == DOMAIN ShownOrders(life)
           papers == PapersOf(life, selected, TRUE)
           moved == HasTransfer(life, "admin")
           nodes == flow.nodes
           edges == flow.edges
           Single(s) == <<s, 0, "">>
           Picked(i) == <<"picking", i, "">>
           Delivered(i) == <<"delivery", i, "">>
           Receipted(i) == <<"papers", i, "received">>
           Owner(n) == <<n[3], n[2], "">>
           Arrow(m, n) == <<m, n>>
           source == IF moved THEN Single("transfer") ELSE Single("inventory")
           names == {"container", "tracking", "pickup", "received", "inventory"}
           both == {<<k, i, "">> : k \in {"picking", "delivery"}, i \in orders}
           chain == {Arrow(Single(steps[i]), Single(steps[i + 1])) : i \in 1 .. 4}
           crossing == {e \in {Arrow(Single("inventory"), Single("transfer"))} : moved}
           leaving == {Arrow(source, Picked(i)) : i \in orders}
           hauled == {Arrow(Picked(i), Delivered(i)) : i \in orders}
           listed == {Arrow(Single("received"), Receipted(i)) : i \in life.lists}
           filed == {Arrow(Owner(n), n) : n \in papers}
<1>1. /\ flow.nodes = FlowNodes(life, told, "admin", TRUE, selected)
      /\ flow.edges = FlowEdges(life, told, "admin", TRUE, selected)
  BY DEF LifecycleFlow, FlowOf
<1>2. /\ DOMAIN steps = 1 .. 5 /\ Len(steps) = 5
      /\ steps[1] = "container" /\ steps[2] = "tracking" /\ steps[3] = "pickup" /\ steps[4] = "received"
      /\ steps[5] = "inventory"
  <2>1. /\ IsSequence(steps) /\ Len(steps) = 5
        /\ steps[1] = "container" /\ steps[2] = "tracking" /\ steps[3] = "pickup" /\ steps[4] = "received"
        /\ steps[5] = "inventory"
    BY AllSteps
  <2> HIDE DEF steps
  <2> QED
    BY <2>1 DEF IsSequence
<1>3. ToSet(steps) = names
  <2> HIDE DEF steps
  <2> QED
    BY <1>2 DEF ToSet
<1>4. nodes = {Single(s) : s \in names} \cup {n \in {Single("transfer")} : moved} \cup both
                \cup {Receipted(i) : i \in life.lists} \cup papers
  <2>1. FlowNodes(life, told, "admin", TRUE, selected)
          = {<<s, 0, "">> : s \in ToSet(steps)} \cup {n \in {<<"transfer", 0, "">>} : moved} \cup both
              \cup {<<"papers", i, "received">> : i \in life.lists} \cup papers
    BY DEF FlowNodes
  <2> HIDE DEF flow, told, steps, moved, both, papers
  <2> QED
    BY <1>1, <1>3, <2>1
<1>5. edges = chain \cup crossing \cup leaving \cup hauled \cup listed \cup filed
  <2>1. Len(steps) - 1 = 4
    <3> HIDE DEF steps
    <3> QED
      BY <1>2
  <2>2. edges = {<<<<steps[i], 0, "">>, <<steps[i + 1], 0, "">>>> : i \in 1..(Len(steps) - 1)}
                 \cup crossing \cup leaving \cup hauled \cup listed \cup filed
    BY <1>1 DEF FlowEdges, PaperEdges
  <2> HIDE DEF steps
  <2> QED
    BY <2>1, <2>2
<1>6. \A n \in papers : Owner(n) \in both
  <2>1. \A n \in papers : n[3] \in {"picking", "delivery"} /\ n[2] \in orders
    BY DEF PapersOf
  <2> HIDE DEF papers, orders
  <2> QED
    BY <2>1
<1>7. \A i \in orders : Picked(i) \in both /\ Delivered(i) \in both
  <2> HIDE DEF orders
  <2> QED
    OBVIOUS
<1>8. \A n \in both : \E i \in orders : n = Picked(i) \/ n = Delivered(i)
  <2> HIDE DEF orders
  <2>1. \A n : n \in both <=> \E k \in {"picking", "delivery"}, i \in orders : n = <<k, i, "">>
    OBVIOUS
  <2> HIDE DEF both
  <2> QED
    BY <2>1
<1>9. \A m, n : Arrow(m, n)[1] = m /\ Arrow(m, n)[2] = n
  OBVIOUS
<1>10. PICK t : /\ t[0] = {Single("container")} /\ \A i \in 1 .. 9 : t[i] = NextSteps(flow, t[i - 1])
                /\ ReachedFrom(flow, Single("container")) = t[9]
  <2>1. PICK t : Reaches(flow, Single("container"), t)
    BY Reaching
  <2>2. /\ t[0] = {Single("container")} /\ \A i \in 1 .. 9 : t[i] = NextSteps(flow, t[i - 1])
        /\ ReachedFrom(flow, Single("container")) = t[9]
    BY <2>1 DEF Reaches
  <2> QED
    BY <2>2
<1>11. \A s : NextSteps(flow, s) = {e[2] : e \in {e \in edges : e[1] \in s}} \cup s
  BY DEF NextSteps
<1> HIDE DEF flow, told, steps, orders, papers, moved, nodes, edges, both, Single, Picked, Delivered, Receipted, Owner, Arrow
<1>12. /\ \A s \in names : Single(s) \in nodes
       /\ moved => Single("transfer") \in nodes
       /\ both \subseteq nodes /\ papers \subseteq nodes
       /\ \A i \in life.lists : Receipted(i) \in nodes
  BY <1>4
<1>13. source \in nodes
  BY <1>12
<1>14. \A e \in edges : e[1] \in nodes /\ e[2] \in nodes
  <2>1. ASSUME NEW e \in edges PROVE e[1] \in nodes /\ e[2] \in nodes
    <3>1. CASE e \in chain
      BY <1>2, <1>9, <1>12, <3>1
    <3>2. CASE e \in crossing
      BY <1>9, <1>12, <3>2
    <3>3. CASE e \in leaving
      BY <1>7, <1>9, <1>12, <1>13, <3>3
    <3>4. CASE e \in hauled
      BY <1>7, <1>9, <1>12, <3>4
    <3>5. CASE e \in listed
      BY <1>9, <1>12, <3>5
    <3>6. CASE e \in filed
      BY <1>6, <1>9, <1>12, <3>6
    <3> QED
      BY <1>5, <3>1, <3>2, <3>3, <3>4, <3>5, <3>6
  <2> QED
    BY <2>1
<1>15. /\ \A i \in 1 .. 4 : Arrow(Single(steps[i]), Single(steps[i + 1])) \in edges
       /\ moved => Arrow(Single("inventory"), Single("transfer")) \in edges
       /\ \A i \in orders : Arrow(source, Picked(i)) \in edges /\ Arrow(Picked(i), Delivered(i)) \in edges
       /\ \A i \in life.lists : Arrow(Single("received"), Receipted(i)) \in edges
       /\ \A n \in papers : Arrow(Owner(n), n) \in edges
  BY <1>5
<1>16. /\ Arrow(Single("container"), Single("tracking")) \in edges /\ Arrow(Single("tracking"), Single("pickup")) \in edges
       /\ Arrow(Single("pickup"), Single("received")) \in edges /\ Arrow(Single("received"), Single("inventory")) \in edges
  <2>1. /\ Arrow(Single(steps[1]), Single(steps[1 + 1])) \in edges /\ Arrow(Single(steps[2]), Single(steps[2 + 1])) \in edges
        /\ Arrow(Single(steps[3]), Single(steps[3 + 1])) \in edges /\ Arrow(Single(steps[4]), Single(steps[4 + 1])) \in edges
    BY <1>15
  <2> QED
    BY <1>2, <2>1
<1> HIDE DEF source, chain, crossing, leaving, hauled, listed, filed
<1>17. ASSUME NEW i \in 0 .. 8, t[i] \subseteq nodes
       PROVE  /\ t[i] \subseteq t[i + 1] /\ t[i + 1] \subseteq nodes
              /\ \A m, n : m \in t[i] /\ Arrow(m, n) \in edges => n \in t[i + 1]
  <2>1. t[i + 1] = NextSteps(flow, t[i])
    <3>1. i + 1 \in 1 .. 9 /\ (i + 1) - 1 = i
      OBVIOUS
    <3> QED
      BY <1>10, <3>1
  <2>2. t[i + 1] = {e[2] : e \in {e \in edges : e[1] \in t[i]}} \cup t[i]
    BY <1>11, <2>1
  <2>3. t[i] \subseteq t[i + 1] /\ t[i + 1] \subseteq nodes
    BY <1>14, <1>17, <2>2
  <2>4. ASSUME NEW m, NEW n, m \in t[i], Arrow(m, n) \in edges PROVE n \in t[i + 1]
    <3>1. Arrow(m, n)[1] \in t[i] /\ Arrow(m, n)[2] = n
      BY <1>9, <2>4
    <3> QED
      BY <2>2, <2>4, <3>1
  <2> QED
    BY <2>3, <2>4
<1>18. t[0] \subseteq nodes
  BY <1>10, <1>12
<1>19. /\ t[1] \subseteq nodes /\ t[2] \subseteq nodes /\ t[3] \subseteq nodes /\ t[4] \subseteq nodes
       /\ t[5] \subseteq nodes /\ t[6] \subseteq nodes /\ t[7] \subseteq nodes /\ t[8] \subseteq nodes
       /\ t[9] \subseteq nodes
  <2>1. t[1] \subseteq nodes /\ t[2] \subseteq nodes /\ t[3] \subseteq nodes
    BY <1>17, <1>18
  <2>2. t[4] \subseteq nodes /\ t[5] \subseteq nodes /\ t[6] \subseteq nodes
    BY <1>17, <2>1
  <2>3. t[7] \subseteq nodes /\ t[8] \subseteq nodes /\ t[9] \subseteq nodes
    BY <1>17, <2>2
  <2> QED
    BY <2>1, <2>2, <2>3
<1>20. Single("container") \in t[0] /\ Single("tracking") \in t[1] /\ Single("pickup") \in t[2]
  BY <1>10, <1>17, <1>18, <1>19, <1>16
<1>21. Single("received") \in t[3] /\ Single("inventory") \in t[4]
  BY <1>17, <1>19, <1>16, <1>20
<1>22. \A i \in life.lists : Receipted(i) \in t[4]
  BY <1>15, <1>17, <1>19, <1>21
<1>23. (moved => Single("transfer") \in t[5]) /\ Single("inventory") \in t[5]
  BY <1>15, <1>17, <1>19, <1>21
<1>24. source \in t[5]
  BY <1>23 DEF source
<1>25. \A i \in orders : Picked(i) \in t[6]
  BY <1>15, <1>17, <1>19, <1>24
<1>26. \A i \in orders : Delivered(i) \in t[7] /\ Picked(i) \in t[7]
  BY <1>15, <1>17, <1>19, <1>25
<1>27. both \subseteq t[7]
  BY <1>8, <1>26
<1>28. papers \subseteq t[8]
  BY <1>15, <1>6, <1>17, <1>19, <1>27
<1>29. t[0] \subseteq t[9] /\ t[1] \subseteq t[9] /\ t[2] \subseteq t[9] /\ t[3] \subseteq t[9] /\ t[4] \subseteq t[9]
       /\ t[5] \subseteq t[9] /\ t[6] \subseteq t[9] /\ t[7] \subseteq t[9] /\ t[8] \subseteq t[9]
  <2>1. t[8] \subseteq t[9] /\ t[7] \subseteq t[8] /\ t[6] \subseteq t[7] /\ t[5] \subseteq t[6] /\ t[4] \subseteq t[5]
    BY <1>17, <1>19
  <2>2. t[0] \subseteq t[1] /\ t[1] \subseteq t[2] /\ t[2] \subseteq t[3] /\ t[3] \subseteq t[4]
    BY <1>17, <1>18, <1>19
  <2> QED
    BY <2>1, <2>2
<1>30. nodes \subseteq t[9]
  BY <1>4, <1>20, <1>21, <1>22, <1>23, <1>27, <1>28, <1>29
<1> QED
  BY <1>14, <1>10, <1>19, <1>30 DEF flow, nodes, edges, Single

(* The life of a container is drawn as one flow, whatever is told of it,    *)
(* whatever is selected, loads or is answered: no step hangs in the air     *)
(* (buildContainerLifecycleFlow).                                          *)
THEOREM FlowStaysConnected == Spec => []FlowIsConnected
<1>1. MayInv => FlowIsConnected
  <2> SUFFICES ASSUME MayInv, OnLifecycle, view.life # None, view.life.ready PROVE FlowIsConnected
    BY DEF FlowIsConnected
  <2> DEFINE answered == YardAt(log, local.answer.version)
             life == LifeOf(answered, local.answer.container)
  <2>1. SignedIn /\ Page = "container-lifecycle" /\ view = Screen(path, local, G, log)
    BY DEF OnLifecycle, Here, MayInv
  <2>2. view = LifecycleScreen(LifecycleOf(path, None), local, G, YardAt(log, local.list.version), answered)
    BY <2>1 DEF Screen, ScreenOf, Page, ListPageKeys, StockPageKeys
  <2>3. view.life = LifecycleView(local, life, answered.documents)
    BY <2>2 DEF LifecycleScreen
  <2> HIDE DEF life, answered
  <2>4. view.life.flow = LifecycleFlow(life, answered.documents, "admin", TRUE, local.node)
    <3> DEFINE flow == LifecycleFlow(life, answered.documents, "admin", TRUE, local.node)
    <3> HIDE DEF flow
    <3>1. view.life \in {[ready |-> FALSE, flow |-> None, side |-> None],
                         [ready |-> TRUE, flow |-> flow, side |-> NodePanel(local, life, answered.documents)]}
      BY <2>3 DEF LifecycleView, flow
    <3>2. view.life.flow = flow
      BY <3>1
    <3> QED
      BY <3>2 DEF flow
  <2>5. LET flow == LifecycleFlow(life, answered.documents, "admin", TRUE, local.node)
        IN /\ \A e \in flow.edges : e[1] \in flow.nodes /\ e[2] \in flow.nodes
           /\ ReachedFrom(flow, <<"container", 0, "">>) = flow.nodes
    BY FlowConnected
  <2> QED
    BY <2>4, <2>5 DEF FlowIsConnected
<1> QED
  BY InitSound, StepSound, MayInit, MayStep, <1>1, PTL DEF Spec
=============================================================================
