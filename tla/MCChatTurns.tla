---------------------------- MODULE MCChatTurns -----------------------------
(***************************************************************************)
(* Small instances of ChatTurns: one chat all the requests contend for,    *)
(* two models, and the processes, fallbacks and fixed responses each       *)
(* configuration chooses.                                                  *)
(***************************************************************************)
EXTENDS ChatTurns, TLC

CONSTANTS c1, m1, m2, r1, r2

OneChat == [t \in Turns |-> c1]

AtHome == [t \in Turns |-> r1]

\* The requests are spread over two processes.
Spread == [t \in Turns |-> IF t = (CHOOSE u \in Turns : TRUE) THEN r1 ELSE r2]

NoFallbacks == [m \in Servable |-> <<>>]

\* The second model stands in for the first.
OneFallback == [m \in Servable |-> IF m = m1 THEN <<m2>> ELSE <<>>]

\* With every request on one chat and in one process, requests are alike.
AnyTurn == Permutations(Turns)
=============================================================================
