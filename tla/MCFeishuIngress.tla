-------------------------- MODULE MCFeishuIngress --------------------------
(* Instances of FeishuIngress for TLC: a group and a direct chat, two      *)
(* hotels that list promotions of their own.                               *)
EXTENDS FeishuIngress, TLC

CONSTANTS h1, h2, group, direct, boss, clerk, m1, m2, m3, p1, p2

SomeMail ==
    (m1 :> [bot |-> h1, chat |-> group, group |-> TRUE, sender |-> boss, launch |-> p1])
    @@ (m2 :> [bot |-> h1, chat |-> direct, group |-> FALSE, sender |-> clerk, launch |-> p2])
    @@ (m3 :> [bot |-> h2, chat |-> group, group |-> TRUE, sender |-> None, launch |-> p2])
Promotions == (h1 :> {p1}) @@ (h2 :> {p1, p2})
Bindings == (group :> h1) @@ (direct :> h2)
BossOwns == (boss :> [h \in Hotels |-> IF h = h1 THEN "owner" ELSE "none"])
            @@ (clerk :> [h \in Hotels |-> IF h = h2 THEN "owner" ELSE "operator"])
=============================================================================
