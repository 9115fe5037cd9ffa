------------------------- MODULE MCBillingInvoices -------------------------
(* Two requests at a time, on one or two invoices of one or two lines.      *)
EXTENDS BillingInvoices, TLC

CONSTANTS i1, i2, l1, l2, r1, r2

MCInvoices == {i1, i2}
MCOneInvoice == {i1}
MCLines == {l1, l2}
MCOneLine == {l1}
MCRequests == {r1, r2}

Symmetry == Permutations(MCInvoices) \cup Permutations(MCRequests)
=============================================================================
