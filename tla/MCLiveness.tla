----------------------------- MODULE MCLiveness -----------------------------
(* The liveness of the three services that owe somebody an answer: the     *)
(* gateway (EXTENDS), the review replies and the price confirmations.      *)
(* They share no state, so a behaviour is one of the service in focus      *)
(* while the others stay where they begin.                                 *)
EXTENDS MCFeishuIngress

CONSTANTS w1, w2, rv1, r1, f1, c1, op, owner

VARIABLES
    focus,                                                       \* the service that runs
    now, source, refs, requests, events, attempts, task, wrote, replying,   \* S13
    rows, lapsed, approvals, prices, confirming                             \* S6

S13 == INSTANCE S13ReviewReply WITH
    Reviews <- {rv1}, PlatformOf <- [v \in {rv1} |-> "meituan"], Refs <- {f1},
    Requests <- {r1}, Contents <- {c1}, Workers <- {w1, w2}, RefTTL <- 1, ConfirmTTL <- 0,
    MaxTime <- 0, MaxSnapshot <- 0, MaxVersion <- 2, Unconfigured <- {}, WriterFails <- TRUE,
    CanCrash <- FALSE, Reported <- {}, Decisions <- {"cancelled"}, Reports <- {"failed"},
    wk <- replying

S6 == INSTANCE S6PriceConfirm WITH
    Users <- {op, owner}, Owners <- {owner}, Products <- {p1, p2}, Batches <- {<<p1, p2>>},
    Workers <- {w1, w2}, MaxTokens <- 4, MaxLapsed <- 0, Requesters <- {op},
    Previews <- {[one |-> 0, batch |-> 1, rejected |-> 0]}, PluginResults <- {"SUCCESS"}, CanCrash <- FALSE,
    tasks <- prices, wk <- confirming

s13 == <<now, source, refs, requests, events, attempts, task, wrote, replying>>
s6 == <<rows, lapsed, approvals, prices, confirming>>
allvars == <<focus, vars, s13, s6>>

AllInit == focus \in {"gateway", "s13", "s6"} /\ Init /\ S13!Init /\ S6!Init

InGateway(A) == focus = "gateway" /\ A /\ UNCHANGED <<focus, s13, s6>>
InS13(A) == focus = "s13" /\ A /\ UNCHANGED <<focus, vars, s6>>
InS6(A) == focus = "s6" /\ A /\ UNCHANGED <<focus, vars, s13>>

AllNext == InGateway(Next) \/ InS13(S13!Next) \/ InS6(S6!Next)

(* The fairness each service states for itself.                            *)
LiveSpec ==
    /\ AllInit /\ [][AllNext]_allvars
    /\ \A d \in Deliveries : /\ WF_allvars(InGateway(StartRoute(d)))
                             /\ WF_allvars(InGateway(Answer(d) \/ RouteFails(d)))
    /\ \A w \in {w1, w2} : /\ WF_allvars(InS13(S13!Draft(w) \/ S13!Confirm(w)))
                           /\ WF_allvars(InS6(S6!Step(w)))

(* Every write attempt of S13 gets a result as long as no process dies.    *)
AttemptsResolve == S13!AttemptsResolve

(* Every claimed price confirmation leaves "processing" as long as no      *)
(* process dies.                                                           *)
ClaimsResolve == S6!ClaimsResolve
=============================================================================
