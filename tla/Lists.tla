-------------------------------- MODULE Lists --------------------------------
(* What a loop over a list computes. *)
EXTENDS Integers, FiniteSets, Sequences

\* What a loop makes of a list: a fold from the left, by recursion on the number of
\* elements done rather than on sets of indexes, so that proofs can follow it.
Accumulate(Step(_, _), start, seq) ==
  LET done[i \in 0 .. Len(seq)] == IF i = 0 THEN start ELSE Step(done[i - 1], seq[i])
  IN done[Len(seq)]

\* The sum of a list of numbers.
Summed(numbers) == Accumulate(LAMBDA n, m : n + m, 0, numbers)

\* The elements of a list that are in a set, in their order.
Only(seq, set) == Accumulate(LAMBDA kept, e : IF e \in set THEN Append(kept, e) ELSE kept, <<>>, seq)

\* Lists one after the other.
Joined(lists) == Accumulate(LAMBDA all, list : all \o list, <<>>, lists)

\* A list with an element put in after its first n.
PutAfter(seq, n, e) == Append(SubSeq(seq, 1, n), e) \o SubSeq(seq, n + 1, Len(seq))
=============================================================================
