-------------------------- MODULE MCS6PriceConfirm --------------------------
(* Instances of S6PriceConfirm for TLC. *)
EXTENDS S6PriceConfirmDocs, TLC

CONSTANTS op, op2, owner, p1, p2, w1, w2

NoBatches == {}
OneBatch == {<<p1, p2>>}

(* What the previews may end as.                                           *)
Mix(singles, batches, rejections) ==
    [one |-> singles, batch |-> batches, rejected |-> rejections]
BatchOrSingles == {Mix(0, 1, 1), Mix(2, 0, 1)}
BatchesOnly == {Mix(0, 1, 0)}
TwoSingles == {Mix(2, 0, 0)}

Interchangeable == Permutations(Workers)
=============================================================================
