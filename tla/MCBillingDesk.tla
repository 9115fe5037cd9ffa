---------------------------- MODULE MCBillingDesk ----------------------------
(* Two customers; containers of both types, one of them received before the *)
(* period and one by a transfer; scopes of one customer and of all, all     *)
(* containers and one type; a draft from before movements were recorded. *)
EXTENDS BillingDesk

MCContainers == 1..3
MCCustomers == {1, 2}
MCCustomerOf == <<1, 1, 2>>
MCTypeOf == <<"NORMAL", "WEST_COAST_TRANSFER", "NORMAL">>

MCRates == [inbound |-> 10, transfer |-> 2, wrapping |-> 3, outbound |-> 0,
            daily |-> [NORMAL |-> 1, WEST_COAST_TRANSFER |-> 2]]

Scope(customer, type, rates) ==
  [customer |-> customer, start |-> 4, end |-> 6, type |-> type, grace |-> TRUE, rates |-> rates]

TypedRates == [MCRates EXCEPT !.wrapping = 4, !.daily["NORMAL"] = 2]
MCScopes == {Scope(AllCustomers, All, MCRates), Scope(1, "NORMAL", TypedRates)}
MCFilters == {MCContainers, {2}}
MCFirstScope == Scope(AllCustomers, All, MCRates)

Pallets(container, day, delta) == [container |-> container, day |-> day, delta |-> delta]
MCFirstMoves == <<Pallets(1, 2, 3), Pallets(3, 4, 2), Pallets(2, 5, 2)>>
MCCandidates == {Pallets(1, 5, -1)}

LegacySegment == [start |-> 2, end |-> 3, pallets |-> 3, days |-> 2, palletDays |-> 6, free |-> 6,
                  billable |-> 0, gross |-> 6, discount |-> 6, amount |-> 0]
LegacyLine ==
  [id |-> 1, type |-> "STORAGE", container |-> 3, day |-> 3, quantity |-> 0, amount |-> 0, manual |-> FALSE,
   details |-> [NoDetails EXCEPT !.summary = TRUE, !.tracked = 3, !.palletDays = 6, !.free = 6,
                                 !.gross = 6, !.discount = 6, !.segments = <<LegacySegment>>]]
MCFirstInvoices ==
  <<[id |-> 1, status |-> "DRAFT", customer |-> 2, start |-> 1, end |-> 3, containers |-> All,
     settlement |-> FALSE, lines |-> <<LegacyLine>>, subtotal |-> 0, discountTotal |-> 0,
     grandTotal |-> 0, snapshot |-> <<>>]>>

MCForms ==
  {[type |-> "DISCOUNT", amount |-> -2, container |-> InvoiceLevel],
   [type |-> "DISCOUNT", amount |-> 0, container |-> InvoiceLevel],
   [type |-> "OUTBOUND", amount |-> 5, container |-> 1]}
=============================================================================
