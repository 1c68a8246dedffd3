----------------------------- MODULE MCHistory -----------------------------
(* Tables of earlier versions for the runs of History. *)
EXTENDS History

CONSTANTS c1, c2

MCCallLists == {<<>>, <<c1, c2>>}

Turn(t, ms) == [i \in DOMAIN ms |-> Row([ms[i] EXCEPT !.turn = t], TRUE)]

User == Message(0, "user", 1)
Answer == Message(0, "assistant", 1)
Calling == [Answer EXCEPT !.calls = <<c1>>]
Result == [Message(0, "tool", 2) EXCEPT !.answers = c1]
Note == [Message(0, "system", 1) EXCEPT !.origin = "injection"]

MCLegacies ==
    LET old == MaxTurns + 1
        older == MaxTurns + 2
    IN { <<>>,
         Turn(older, <<User, Calling, Answer>>)
            \o Turn(old, <<User, Calling, Result, Answer>>),
         Turn(older, <<User, Message(0, "system", 1), Answer>>)
            \o Turn(old, <<User, Answer, Note>>)
            \o <<[Turn(old + 2, <<Calling>>)[1] EXCEPT !.readable = FALSE]>> }
=============================================================================
