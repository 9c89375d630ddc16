-------------------------- MODULE MCS13ReviewReply --------------------------
(* Instances of S13ReviewReply for TLC. *)
EXTENDS S13ReviewReplyDocs, TLC

CONSTANTS rv1, r1, r2, c1, c2, w1, w2, f1

OneMeituan == [v \in {rv1} |-> "meituan"]

Interchangeable ==
    Permutations(Workers) \cup Permutations(Requests) \cup Permutations(Contents)
=============================================================================
