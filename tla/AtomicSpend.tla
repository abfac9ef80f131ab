---------------------------- MODULE AtomicSpend ----------------------------
(***************************************************************************)
(* What a spend promises its caller: one judgement, made once, that        *)
(* depends on the request alone.                                           *)
(***************************************************************************)
CONSTANTS
    Requests,
    Judgement(_),
    Unjudged

VARIABLES request, judgement

Init == request \in Requests /\ judgement = Unjudged

Judge ==
    /\ judgement = Unjudged
    /\ judgement' = Judgement(request)
    /\ UNCHANGED request

Spec == Init /\ [][Judge]_<<request, judgement>>
=============================================================================
