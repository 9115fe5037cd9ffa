-------------------------------- MODULE Sums --------------------------------
(* Sums over the values of a function, the code's SUM and its += loops. *)
EXTENDS Lists

\* The pairs <<x, i-th unit of x>>, and their number.
Units(n) == UNION {{x} \X (1..n[x]) : x \in DOMAIN n}
Sum(n) == Cardinality(Units(n))

\* What whole numbers come to: the gains less the losses.
Gains(n) == [x \in DOMAIN n |-> IF n[x] > 0 THEN n[x] ELSE 0]
Losses(n) == [x \in DOMAIN n |-> IF n[x] < 0 THEN -n[x] ELSE 0]
Net(n) == Sum(Gains(n)) - Sum(Losses(n))
=============================================================================
