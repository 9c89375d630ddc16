--------------------------- MODULE S6PriceOutbox ---------------------------
(***************************************************************************)
(* What price confirmation promises, one previewed price at a time: a task *)
(* is written only while somebody holds the token of its preview, at most  *)
(* one for a token; a token that has its task is spent and one that has    *)
(* none is given back; the plugin alone moves a task, and only once.       *)
(* S6PriceConfirm is shown to implement this specification.                *)
(***************************************************************************)
EXTENDS Sequences

VARIABLES claim,     \* tokens in the order of their creation
          booked     \* tasks in the order of their creation

bookVars == <<claim, booked>>

(* A "void" token stands for no price: a batch, or a rejected preview.     *)
Claims == {"open", "held", "spent", "void"}

HasTask(t) == \E i \in DOMAIN booked : booked[i].token = t

BookInit == claim = <<>> /\ booked = <<>>

Offer(c) ==
    /\ c \in {"open", "void"}
    /\ claim' = Append(claim, c)
    /\ UNCHANGED booked

Take(t) ==
    /\ claim[t] = "open"
    /\ claim' = [claim EXCEPT ![t] = "held"]
    /\ UNCHANGED booked

WriteTask(t) ==
    /\ claim[t] = "held" /\ ~ HasTask(t)
    /\ booked' = Append(booked, [token |-> t, status |-> "PENDING"])
    /\ UNCHANGED claim

Settle(t) ==
    /\ claim[t] = "held"
    /\ claim' = [claim EXCEPT ![t] = IF HasTask(t) THEN "spent" ELSE "open"]
    /\ UNCHANGED booked

Observe(i, s) ==
    /\ booked[i].status = "PENDING" /\ s \in {"SUCCESS", "FAILED"}
    /\ booked' = [booked EXCEPT ![i].status = s]
    /\ UNCHANGED claim

BookNext ==
    \/ \E c \in Claims : Offer(c)
    \/ \E t \in DOMAIN claim : Take(t) \/ WriteTask(t) \/ Settle(t)
    \/ \E i \in DOMAIN booked, s \in {"SUCCESS", "FAILED"} : Observe(i, s)

BookSpec == BookInit /\ [][BookNext]_bookVars
=============================================================================
