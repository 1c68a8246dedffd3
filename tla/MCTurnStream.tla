---------------------------- MODULE MCTurnStream ----------------------------
(* Two upstreams, two models, and a fallback from one to the other.  The     *)
(* discovery finds a model twice, fails at one upstream, finds each model    *)
(* at one upstream, finds only the fallback, or finds a model whose fallback *)
(* is missing, with which the service does not start.                        *)
EXTENDS TurnStream, TLC
CONSTANTS u1, u2, small, large
MCUpstreams == <<u1, u2>>
MCModels == {small, large}
MCFallbacks == (small :> <<large>>) @@ (large :> <<>>)
Listing(a, b) == (u1 :> a) @@ (u2 :> b)
MCListings ==
    {Listing({small}, {small, large}), Listing({}, {small, large}),
     Listing({large}, {small}), Listing({}, {large}), Listing({small}, {})}
=============================================================================
