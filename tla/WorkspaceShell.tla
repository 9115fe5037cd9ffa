----------------------------- MODULE WorkspaceShell -----------------------------
(***************************************************************************)
(* The shell of the browser's workspace (App.tsx): the session, the data   *)
(* that all pages are given, the address, the page that is on the screen,  *)
(* the calls that pages make and the loads that follow them.               *)
(*                                                                         *)
(* The server's yards are kept in a log; what the browser has is named by  *)
(* the versions it was read from, part by part, because a load is a bundle *)
(* of requests that are answered one by one.  Other users change the yard  *)
(* while a call or a load of this one is on its way.                       *)
(*                                                                         *)
(* Bounds: a user clicks `clicks` times, and once more after a call; one   *)
(* call and MaxLoads loads are in flight; a page that was left with a call *)
(* unfinished is followed until that is done; nobody signs out, or opens   *)
(* the portal, with a call unfinished.                                     *)
(***************************************************************************)
EXTENDS PageScreens

CONSTANTS
  Starts,     \* [role, signed, path, contexts, clicks, faults, others, menu]
  FirstYard,
  MaxLoads

(* A sealed container is a draft: it is not counted into stock. *)
SealedAreDrafts(yard) ==
  \A i \in Of("IN", yard.documents) : yard.documents[i].handling = "SEALED_TRANSIT" => IsDraft(yard.documents[i])

\* What a document and the payload of a receipt always say.
Stated == {"status", "tracking", "container", "location", "date", "lines"}
Complete(document) ==
  {"id", "kind"} \cup Stated \subseteq DOMAIN document /\ (document.kind = "IN" => "handling" \in DOMAIN document)
WellFormed(request) ==
  request.op = "receipt" => "payload" \in DOMAIN request /\ {"handling"} \cup Stated \subseteq DOMAIN request.payload

ASSUME YardAssumption ==
  /\ "documents" \in DOMAIN FirstYard
  /\ LastId(FirstYard) \in Nat /\ Ids(FirstYard.documents) \subseteq 1..LastId(FirstYard)
  /\ \A i \in Ids(FirstYard.documents) : Complete(FirstYard.documents[i])
  /\ SealedAreDrafts(FirstYard)
ASSUME OthersAssumption == \A s \in Starts : \A request \in s.others : WellFormed(request)
ASSUME BoundsAssumption == MaxLoads \in Nat /\ \A s \in Starts : s.clicks \in Nat /\ s.faults \in Nat

VARIABLES
  log,       \* the yards that the server had, the last one is its present one
  session,   \* whose workspace it is, and whether that is known
  data,      \* part -> version, and whether it loads or some of it failed to
  path,      \* the address
  local,     \* the state of the page at the address
  contexts,  \* what pages have left for other pages
  loads,     \* in the order in which they were started
  call,      \* the call that a page waits for
  budget,    \* what may still happen: clicks, faults, requests of others
  mine,      \* the version that this user made last
  view       \* what the page shows

core == <<log, session, data, path, local, contexts, loads, call, budget, mine>>
vars == <<core, view>>

-----------------------------------------------------------------------------
(* What the page is given *)

Newest == Len(log)
Role == session.role
G == Given(log, data, Role)
Page == PageOf(path)
SignedIn == session.at = "in"
Here(page) == SignedIn /\ Page = page

Parts == {"documents", "stock", "ledger", "masters", "skus"}
ASSUME NoneIsNoName == None \notin Parts \cup StockPageKeys
NoData == [documents |-> 0, stock |-> 0, ledger |-> 0, masters |-> 0, skus |-> 0, loading |-> TRUE, failed |-> FALSE]

(* A page with work that is not finished was left. *)
Away == \/ call # None /\ ~call.here
        \/ \E i \in DOMAIN loads : loads[i].tail # None /\ ~loads[i].tail.here
Working == call # None \/ \E i \in DOMAIN loads : loads[i].tail # None

Click == /\ budget.clicks > 0 /\ ~Away
         /\ budget' = [budget EXCEPT !.clicks = @ - 1]
(* Whether something goes wrong is up to the network, as often as it may. *)
Fates == {TRUE} \cup {fate \in {FALSE} : budget.faults > 0}
Suffered(fate) == budget' = IF fate THEN budget ELSE [budget EXCEPT !.faults = @ - 1]

-----------------------------------------------------------------------------
(* Going somewhere *)

Place == [path |-> path, local |-> local, contexts |-> contexts]
Unmounted == [route |-> <<>>, launched |-> FALSE]

LeftOver(pending, to, l, g) ==
  IF PageOf(to) \in DOMAIN pending /\ Takes(to, l, g) THEN Taken(pending, PageOf(to)) ELSE pending
Arrived(to, pending, g) ==
  [path |-> to, contexts |-> LeftOver(pending, to, Unmounted, g),
   local |-> Mounted(to, g, ContextOf(pending, PageOf(to), None))]

(* A page that the new path shows too is not mounted again. *)
Rendered(place, to, pending, before, g, reloaded) ==
  IF PageOf(to) # PageOf(place.path) THEN Arrived(to, pending, g)
  ELSE [path |-> to, contexts |-> LeftOver(pending, to, place.local, g),
        local |-> Followed(to, place.path, place.local, before, g, ContextOf(pending, PageOf(to), None), reloaded)]

Visit(place, lead, g) ==
  Rendered(place, Permitted(lead.to, Role),
           IF lead.with = None THEN place.contexts ELSE Pending(place.contexts, PageOf(lead.to), lead.with), g, g, FALSE)
LedTo(place, to, g) == IF to = None THEN place ELSE Visit(place, Lead(to), g)

(* A page that is left no longer hears of what it began. *)
Heard(work, page) == IF work = None THEN None ELSE [work EXCEPT !.here = @ /\ work.page = page]
Carried(at) == [i \in DOMAIN at |-> [at[i] EXCEPT !.tail = Heard(@, PageOf(path'))]]

GoTo(place) == path' = place.path /\ local' = place.local /\ contexts' = place.contexts
StayHere == UNCHANGED <<path, local, contexts>>

Navigate(lead) ==
  /\ SignedIn /\ Click
  /\ GoTo(Visit(Place, lead, G))
  /\ call' = Heard(call, PageOf(path')) /\ loads' = Carried(loads)
  /\ UNCHANGED <<log, session, data, mine>>

-----------------------------------------------------------------------------
(* The session *)

(* Slip: what is loaded may have been read before the call was answered. *)
EarlyLoad(kind, tail) == [kind |-> kind, from |-> Len(log), tail |-> tail]
Load(kind, tail) == [kind |-> kind, from |-> Len(log'), tail |-> tail]
Began(kind) == loads' = Append(loads, Load(kind, None))

Enter(at) == session' = [session EXCEPT !.at = at]

SessionFound ==
  /\ session.at = "checking" /\ session.signed
  /\ IF Role = "customer" THEN Enter("portal") /\ UNCHANGED <<path, loads, log>>
     ELSE /\ Enter("loading") /\ UNCHANGED log
          /\ path' = Permitted(path, Role) /\ Began("boot")
  /\ UNCHANGED <<data, local, contexts, call, budget, mine>>

SessionMissing ==
  /\ session.at = "checking" /\ ~session.signed
  /\ Enter("out")
  /\ data' = [data EXCEPT !.loading = FALSE]
  /\ UNCHANGED <<log, path, local, contexts, loads, call, budget, mine>>

(* The workspace shows at once, with what an earlier session left of it. *)
Login ==
  /\ session.at = "out" /\ ~data.loading /\ Len(loads) < MaxLoads
  /\ UNCHANGED log
  /\ IF Role = "customer" THEN Enter("portal") /\ StayHere /\ UNCHANGED <<data, loads>>
     ELSE /\ session' = [session EXCEPT !.at = "in", !.signed = TRUE]
          /\ data' = [data EXCEPT !.loading = TRUE, !.failed = FALSE] /\ Began("spin")
          /\ GoTo(Arrived(Permitted(path, Role), contexts, Given(log, data', Role)))
  /\ UNCHANGED <<call, budget, mine>>

(* The SKUs stay, and loads that are on their way still fill the rest. *)
Logout ==
  /\ SignedIn /\ Click /\ ~Working
  /\ session' = [session EXCEPT !.at = "out", !.signed = FALSE]
  /\ data' = [data EXCEPT !.documents = 0, !.stock = 0, !.ledger = 0, !.masters = 0]
  /\ local' = NoState /\ mine' = [version |-> 0, overtaken |-> FALSE]
  /\ UNCHANGED <<log, path, contexts, loads, call>>

(* The portal takes the place of the workspace, which starts anew after it. *)
OpenPortal ==
  /\ Here("customers") /\ Role = "admin" /\ local.selected # None
  /\ Click /\ ~Working /\ loads = <<>>
  /\ Enter("portal")
  /\ data' = NoData /\ local' = NoState /\ mine' = [version |-> 0, overtaken |-> FALSE]
  /\ UNCHANGED <<log, path, contexts, loads, call>>

ExitPortal ==
  /\ session.at = "portal" /\ Click
  /\ Enter("checking") /\ path' = PagePath("dashboard")
  /\ UNCHANGED <<log, data, local, contexts, loads, call, mine>>

-----------------------------------------------------------------------------
(* Calls *)

(* What only changes the page. *)
Act(l) ==
  /\ SignedIn /\ l # local /\ Click
  /\ local' = l
  /\ UNCHANGED <<log, session, data, path, contexts, loads, call, mine>>

(* After a call the user clicks once more at most (bound). *)
Send(l, request) ==
  /\ SignedIn /\ call = None /\ Len(loads) < MaxLoads
  /\ budget.clicks > 0 /\ ~Away
  /\ budget' = [budget EXCEPT !.clicks = Min({@ - 1, 1})]
  /\ local' = l
  /\ call' = [request |-> request, page |-> Page, here |-> TRUE]
  /\ UNCHANGED <<log, session, data, path, contexts, loads, mine>>

Settles(l) == IF call.here THEN l ELSE local

(* Attachments go up one by one after the receipt they belong to. *)
FilesOf(request) == IF request.op = "receipt" THEN request.files ELSE 0
TailOf(id, here, up) ==
  [request |-> call.request, page |-> call.page, id |-> id, here |-> here, files |-> up,
   complete |-> up = FilesOf(call.request)]

AnsweredAt(id) ==
  LedTo([Place EXCEPT !.local = Settles(PageAnswered(Page, local, call.request, G.documents, id))],
        LedAtOnce(call.page, call.request, id), G)

Follow(id, up) ==
  IF Reloads(call.page, call.request)
  THEN /\ loads' = Append(Carried(loads), Load("quiet", TailOf(id, call.here /\ PageOf(path') = call.page, up)))
       /\ mine' = [mine EXCEPT !.version = Len(log')]
       /\ data' = [data EXCEPT !.failed = FALSE]
  ELSE loads' = Carried(loads) /\ UNCHANGED <<mine, data>>

Grant(answer) ==
  /\ answer.ok
  /\ log' = Append(log, answer.yard)
  /\ GoTo(AnsweredAt(answer.id))
  /\ \E up \in 0..FilesOf(call.request) :
       /\ up = FilesOf(call.request) \/ budget.faults > 0
       /\ Suffered(up = FilesOf(call.request)) /\ Follow(answer.id, up)

(* The server's refusal, and what looks the same to the page: the request   *)
(* or its answer was lost.                                                 *)
Refuse ==
  /\ local' = Settles(PageRefused(Page, local, call.request))
  /\ UNCHANGED <<path, contexts, loads, data, mine>>
Deny(answer) == ~answer.ok /\ Refuse /\ UNCHANGED <<log, budget>>
Lose(answer) ==
  /\ budget.faults > 0 /\ answer.ok
  /\ Refuse /\ Suffered(FALSE)
  /\ log' \in {log, Append(log, answer.yard)}

Answer ==
  /\ call # None /\ call' = None
  /\ \E answer \in {ServeTo(Role, log[Newest], call.request)} : Grant(answer) \/ Deny(answer) \/ Lose(answer)
  /\ UNCHANGED session

OthersWork ==
  /\ call # None \/ loads # <<>>
  /\ \E request \in budget.others :
       \E answer \in {Serve(log[Newest], request)} :
         /\ answer.ok
         /\ log' = Append(log, answer.yard)
         /\ budget' = [budget EXCEPT !.others = @ \ {request}]
  /\ UNCHANGED <<session, data, path, local, contexts, loads, call, mine>>

-----------------------------------------------------------------------------
(* Loads *)

(* All parts of one version but one, which was read before the others. *)
Readings(from) ==
  {[q \in Parts |-> IF q = p THEN v[1] ELSE v[2]] :
     p \in Parts, v \in {w \in (from..Newest) \X (from..Newest) : w[1] <= w[2]}}

(* What did not come stays as it was. *)
LoadedData(load, read, lost) ==
  [f \in DOMAIN data |->
     CASE f = "loading" -> data.loading /\ load.kind = "quiet"
       [] f = "failed" -> data.failed \/ lost # None
       [] f \in Parts -> IF f = lost THEN data[f] ELSE read[f]]

SettledAt(place, tail) ==
  IF tail = None \/ ~tail.here THEN place
  ELSE [place EXCEPT !.local = PageSettled(tail.page, @, tail.request, tail.files)]
GridsGiven(place) == [place EXCEPT !.local = GridsLoaded(PageOf(place.path), @)]
Reloaded(after) == GridsGiven(Rendered(Place, path, contexts, G, after, TRUE))
Concluded(place, tail, after) ==
  IF tail = None THEN place
  ELSE LedTo(SettledAt(place, tail), LedOnceLoaded(tail.page, tail.request, tail.id, tail.complete), after)

(* Only the first load of a session keeps the pages off the screen. *)
Show(load, after) ==
  \/ /\ session.at = "loading"
     /\ Enter("in") /\ GoTo(Arrived(path, contexts, after))
  \/ /\ SignedIn
     /\ GoTo(Concluded(Reloaded(after), load.tail, after)) /\ UNCHANGED session
  \/ session.at = "out" /\ StayHere /\ UNCHANGED session

(* A load that was started earlier, and is still out, will bring older data. *)
FinishLoad ==
  \E i \in DOMAIN loads, lost \in {None} \cup {p \in Parts : budget.faults > 0} :
    \E read \in Readings(loads[i].from) :
      /\ data' = LoadedData(loads[i], read, lost) /\ Suffered(lost = None)
      /\ Show(loads[i], Given(log, data', Role))
      /\ loads' = RemoveAt(Carried(loads), i) /\ call' = Heard(call, PageOf(path'))
      /\ mine' = [mine EXCEPT !.overtaken = @ \/ i > 1]
      /\ UNCHANGED log
=============================================================================
