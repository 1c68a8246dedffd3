----------------------------- MODULE Transcript -----------------------------
(***************************************************************************)
(* What a durable conversation promises.  Messages join a conversation at  *)
(* its end; only the newest one can be answered, once, and for good; and a *)
(* model is asked with exactly the answered exchanges that precede the     *)
(* message.  ChatTurns implements it with locks, rows and transactions.    *)
(***************************************************************************)
EXTENDS Sequences

CONSTANTS Turns,    \* one submitted message and the answer to it
          Chats,    \* conversations
          ChatOf,   \* [Turns -> Chats]
          NoPrompt  \* the context of a turn that never asks with a history

VARIABLES log,       \* chat -> its messages, oldest first
          answered,  \* the turns with an answer
          context    \* turn -> the exchanges its model was shown

tvars == <<log, answered, context>>

Exchanges(c) == {u \in answered : ChatOf[u] = c}

Submitted(t) == \E i \in DOMAIN log[ChatOf[t]] : log[ChatOf[t]][i] = t

Init == /\ log = [c \in Chats |-> <<>>]
        /\ answered = {}
        /\ context = [t \in Turns |-> NoPrompt]

Submit(t) ==
    /\ ~Submitted(t)
    /\ log' = [log EXCEPT ![ChatOf[t]] = Append(@, t)]
    /\ context' \in {context, [context EXCEPT ![t] = Exchanges(ChatOf[t])]}
    /\ UNCHANGED answered

Answer(t) ==
    LET l == log[ChatOf[t]] IN
    /\ l # <<>> /\ l[Len(l)] = t
    /\ t \notin answered
    /\ answered' = answered \cup {t}
    /\ UNCHANGED <<log, context>>

Next == \E t \in Turns : Submit(t) \/ Answer(t)

Spec == Init /\ [][Next]_tvars
=============================================================================
