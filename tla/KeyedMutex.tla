----------------------------- MODULE KeyedMutex -----------------------------
(***************************************************************************)
(* What a per-chat turn lock promises, with none of its machinery: a       *)
(* caller holds at most one key, a key has at most one holder, and a       *)
(* caller can always let go.  TurnLocks implements it; ChatTurns takes its *)
(* turns' locks from it.                                                   *)
(***************************************************************************)

CONSTANTS Callers,  \* whoever may take a lock
          Keys,     \* what is locked
          NoKey     \* holding nothing; not one of the Keys

VARIABLE holding  \* [Callers -> Keys \cup {NoKey}]

TypeOK == holding \in [Callers -> Keys \cup {NoKey}]

Free(k) == \A g \in Callers : holding[g] # k

Init == holding = [g \in Callers |-> NoKey]

Acquire(g, k) == /\ holding[g] = NoKey
                 /\ Free(k)
                 /\ holding' = [holding EXCEPT ![g] = k]

Release(g) == /\ holding[g] # NoKey
              /\ holding' = [holding EXCEPT ![g] = NoKey]

Next == \E g \in Callers : \/ \E k \in Keys : Acquire(g, k)
                           \/ Release(g)

Spec == Init /\ [][Next]_holding
=============================================================================
