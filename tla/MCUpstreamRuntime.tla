------------------------- MODULE MCUpstreamRuntime -------------------------
(* Two turns on one upstream with a single slot; one of them calls twice. *)
EXTENDS UpstreamRuntime, TLC
CONSTANTS t1, t2
MCCallers == {t1, t2}
MCMaxCalls == (t1 :> 2) @@ (t2 :> 1)
=============================================================================
