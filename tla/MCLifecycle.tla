----------------------------- MODULE MCLifecycle -----------------------------
(* Three services and the shapes their declarations can have.              *)
EXTENDS Lifecycle, TLC

CONSTANTS db, mcp, web

Join == db :> {} @@ mcp :> {} @@ web :> {db, mcp}
Cycle == db :> {web} @@ mcp :> {db} @@ web :> {mcp}
AllGraphs == {Join, Cycle}
Enabled == {{}, {db, web}, Names}
OneRetry == [s \in Names |-> IF s = db THEN 1 ELSE 0]
=============================================================================
