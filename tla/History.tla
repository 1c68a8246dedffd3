------------------------------ MODULE History ------------------------------
(***************************************************************************)
(* What a chat remembers: the rows a turn stores, how the next turn reads  *)
(* them back, which of them fit the prompt, and what the agent loop does   *)
(* to the list of messages while it runs its rounds.                       *)
(*                                                                         *)
(* One chat, its turns one after another: the turn lock (TurnLocks,        *)
(* ChatTurns) keeps the handlers modelled here apart.  A message is what   *)
(* the code's decisions look at: its turn, role, origin, the tool calls it *)
(* makes or answers, whether it carries any text, and its size in tokens.  *)
(***************************************************************************)
EXTENDS Naturals, Sequences, FiniteSets, SequencesExt

CONSTANTS MaxTurns,     \* turns this service runs in the chat
          MaxRounds,    \* calls of the provider in one turn
          Calls,        \* the ids of tool calls
          CallLists,    \* the lists of tool calls a reply may make
          ResultSizes,  \* the tokens a tool result may have
          SystemSize,   \* the tokens of the system prompt
          ToolsSize,    \* the tokens of the tool schemas
          Budgets,      \* the values of maxHistoryTokens a user may set
          Legacies,     \* the rows a chat may have from earlier versions
          NoCall        \* the empty call id

\* What a tool injects is a system message.
Messages ==
    {m \in [turn : Nat, role : {"system", "user", "assistant", "tool"},
            origin : {"seed", "turn", "injection"}, calls : Seq(Calls),
            answers : Calls \cup {NoCall}, empty : BOOLEAN, size : Nat] :
        m.origin = "injection" => m.role = "system"}

Rows == [msg : Messages, complete : BOOLEAN, readable : BOOLEAN]

\* drainToolCalls drops a call without an id and one whose id the reply used
\* before, so a reply's calls are distinct; turn ids are never used again.
ASSUME HistoryAssumption ==
    /\ MaxTurns \in Nat /\ MaxRounds \in Nat \ {0}
    /\ NoCall \notin Calls
    /\ <<>> \in CallLists /\ CallLists \subseteq Seq(Calls)
    /\ \A calls \in CallLists : IsInjective(calls)
    /\ ResultSizes \subseteq Nat \ {0} /\ Budgets \subseteq Nat
    /\ SystemSize \in Nat /\ ToolsSize \in Nat
    /\ Legacies \subseteq Seq(Rows)
    /\ \A rs \in Legacies : \A i \in DOMAIN rs : rs[i].msg.turn > MaxTurns

VARIABLES rows,      \* the chat's message rows by position
          budget,    \* the chat's maxHistoryTokens
          phase,     \* where the turn is
          turn,      \* its number, counting from 1
          round,     \* the provider calls answered in it
          prompt,    \* the history selected for it, and the reported counts
          messages,  \* the agent loop's list
          shown      \* ghost: turn -> the messages streamed to the client

vars == <<rows, budget, phase, turn, round, prompt, messages, shown>>

TypeOK ==
    /\ rows \in Seq(Rows)
    /\ budget \in Budgets
    /\ phase \in {"idle", "asking", "sent", "tools", "done"}
    /\ turn \in 0..MaxTurns
    /\ round \in 0..MaxRounds
    /\ prompt \in [history : Seq(Messages), budget : Budgets, omittedTurns : Nat,
                   omittedMessages : Nat, retainedTurns : Nat, retainedMessages : Nat]
    /\ messages \in Seq(Messages)
    /\ shown \in [1..MaxTurns -> Seq(Messages)]

----------------------------------------------------------------------------
(* Messages and rows *)

Message(t, role, size) ==
    [turn |-> t, role |-> role, origin |-> "turn", calls |-> <<>>,
     answers |-> NoCall, empty |-> FALSE, size |-> size]

Question(t) == [Message(t, "user", 1) EXCEPT !.origin = "seed"]

System == [Message(0, "system", SystemSize) EXCEPT !.origin = "seed"]

Row(m, complete) == [msg |-> m, complete |-> complete, readable |-> TRUE]

\* The elements of s at the positions in I.
Picked(s, I) ==
    LET part[i \in 0..Len(s)] ==
          IF i = 0 THEN <<>>
          ELSE part[i - 1] \o (IF i \in I THEN <<s[i]>> ELSE <<>>)
    IN part[Len(s)]

Total(ms) ==
    LET sum[i \in 0..Len(ms)] == IF i = 0 THEN 0 ELSE sum[i - 1] + ms[i].size
    IN sum[Len(ms)]

----------------------------------------------------------------------------
(* loadHistory *)

\* A system row is replayed only as an injection the service stored itself.
IsDurableMessage(row) ==
    row.msg.role = "system" => row.msg.origin = "injection"

ShouldSkipEmptyAssistant(m) ==
    m.role = "assistant" /\ m.empty /\ m.calls = <<>> /\ m.answers = NoCall

\* The rows of each turn, turns in the order of their first rows.
GroupHistoryRows(rs) ==
    LET firsts == {i \in DOMAIN rs : \A j \in 1..(i - 1) : rs[j].msg.turn # rs[i].msg.turn}
        leads == Picked(rs, firsts)
    IN [k \in DOMAIN leads |->
          Picked(rs, {i \in DOMAIN rs : rs[i].msg.turn = leads[k].msg.turn})]

HistoryMessages(rs) ==
    LET kept == Picked(rs, {i \in DOMAIN rs : /\ IsDurableMessage(rs[i])
                                               /\ ~ShouldSkipEmptyAssistant(rs[i].msg)})
    IN [i \in DOMAIN kept |-> kept[i].msg]

\* One message against the calls that wait for a result.
ValidMessage(pending, m) ==
    IF pending # {}
    THEN m.role = "tool" /\ m.answers \in pending /\ m.calls = <<>>
    ELSE /\ m.answers = NoCall /\ m.role \in {"user", "assistant"}
         /\ m.role = "user" => m.calls = <<>>
         /\ NoCall \notin ToSet(m.calls) /\ IsInjective(m.calls)

PendingAfter(pending, m) ==
    IF pending # {} THEN pending \ {m.answers} ELSE ToSet(m.calls)

Pending(ms) ==
    LET after[i \in 0..Len(ms)] ==
          IF i = 0 THEN {} ELSE PendingAfter(after[i - 1], ms[i])
    IN after

ValidateToolHistory(ms) ==
    /\ \A i \in DOMAIN ms : ValidMessage(Pending(ms)[i - 1], ms[i])
    /\ Pending(ms)[Len(ms)] = {}

\* A turn is replayed whole or skipped with a warning.
TurnMessages(rs) ==
    LET ms == HistoryMessages(rs) IN
    IF /\ \A i \in DOMAIN rs : IsDurableMessage(rs[i]) => rs[i].readable
       /\ ms # <<>>
       /\ ValidateToolHistory(ms)
    THEN ms ELSE <<>>

LoadHistory(rs) ==
    LET turns == GroupHistoryRows(Picked(rs, {i \in DOMAIN rs : rs[i].complete}))
    IN FlattenSeq([i \in DOMAIN turns |-> TurnMessages(turns[i])])

----------------------------------------------------------------------------
(* selectPromptHistory *)

UnitEnd(ms, i) ==
    IF ms[i].calls = <<>> THEN i
    ELSE CHOOSE e \in i..Len(ms) :
            /\ \A k \in (i + 1)..e : ms[k].role = "tool"
            /\ e < Len(ms) => ms[e + 1].role # "tool"

\* A tool-call message and the results that follow it at once are one unit;
\* an injection belongs to none.
HistoryUnits(ms) ==
    LET scan[i \in 0..Len(ms)] ==
          IF i = 0 THEN [end |-> 0, units |-> <<>>]
          ELSE LET acc == scan[i - 1]
               IN IF i <= acc.end \/ ms[i].origin = "injection" THEN acc
                  ELSE [end |-> UnitEnd(ms, i),
                        units |-> Append(acc.units, SubSeq(ms, i, UnitEnd(ms, i)))]
    IN scan[Len(ms)].units

PromptTokenCount(ms, q) == SystemSize + Total(ms) + q.size

\* Mutant of SelectPromptHistory: a unit that does not fit is passed over.
SelectWhatFits(ms, q, b) ==
    LET units == HistoryUnits(ms)
        sel[n \in 0..Len(units)] ==
          IF n = 0 THEN [kept |-> <<>>, full |-> FALSE,
                         omittedTurns |-> 0, omittedMessages |-> 0]
          ELSE LET acc == sel[n - 1]
                   unit == units[Len(units) - n + 1]
               IN IF PromptTokenCount(unit \o acc.kept, q) > b
                  THEN [acc EXCEPT !.full = TRUE, !.omittedTurns = @ + 1,
                                   !.omittedMessages = @ + Len(unit)]
                  ELSE [acc EXCEPT !.kept = unit \o @]
        all == sel[Len(units)]
    IN [history |-> all.kept, budget |-> b,
        omittedTurns |-> all.omittedTurns,
        omittedMessages |-> all.omittedMessages,
        retainedTurns |-> Len(HistoryUnits(all.kept)),
        retainedMessages |-> Len(all.kept)]

\* Newest unit first; the first that would exceed the budget ends it.
SelectPromptHistory(ms, q, b) ==
    LET units == HistoryUnits(ms)
        sel[n \in 0..Len(units)] ==
          IF n = 0 THEN [kept |-> <<>>, full |-> FALSE,
                         omittedTurns |-> 0, omittedMessages |-> 0]
          ELSE LET acc == sel[n - 1]
                   unit == units[Len(units) - n + 1]
               IN IF acc.full \/ PromptTokenCount(unit \o acc.kept, q) > b
                  THEN [acc EXCEPT !.full = TRUE, !.omittedTurns = @ + 1,
                                   !.omittedMessages = @ + Len(unit)]
                  ELSE [acc EXCEPT !.kept = unit \o @]
        all == sel[Len(units)]
    IN [history |-> all.kept, budget |-> b,
        omittedTurns |-> all.omittedTurns,
        omittedMessages |-> all.omittedMessages,
        retainedTurns |-> Len(HistoryUnits(all.kept)),
        retainedMessages |-> Len(all.kept)]

\* What the loop starts from: history and question are seed, not output.
BuildPrompt(ms, q) ==
    LET kept == Picked(ms, {i \in DOMAIN ms : ms[i].origin # "injection"})
    IN <<System>> \o [i \in DOMAIN kept |-> [kept[i] EXCEPT !.origin = "seed"]]
       \o <<q>>

----------------------------------------------------------------------------
(* The agent loop's limit on its list *)

\* The last of a set of positions, 0 if there is none.
LastOf(is) == IF is = {} THEN 0 ELSE CHOOSE i \in is : \A j \in is : j <= i

LastUser(ms) ==
    LastOf({i \in DOMAIN ms : ms[i].role = "user" /\ ms[i].origin # "injection"})

LastAssistant(ms) ==
    LastOf({i \in DOMAIN ms : ms[i].role = "assistant" /\ ms[i].origin # "injection"})

LastCalling(ms) == LastOf({i \in DOMAIN ms : ms[i].calls # <<>>})

\* The exchange whose results no reply has been asked for yet, or the one
\* before the final answer: pinned as long as the user has not spoken since.
IsLiveToolExchange(ms, i) ==
    LET c == LastCalling(ms)
    IN c > 0 /\ c >= LastUser(ms) /\ i \in c..UnitEnd(ms, c)

Droppable(ms) ==
    {i \in DOMAIN ms :
        /\ ~(i = 1 /\ ms[i].role = "system")
        /\ ~(ms[i].origin = "injection" /\ i > LastAssistant(ms))
        /\ i # LastUser(ms)
        /\ ~IsLiveToolExchange(ms, i)}

\* Mutant of DropOldestUnit: one message at a time.
DropOldestMessage(ms) ==
    LET i == CHOOSE d \in Droppable(ms) : \A j \in Droppable(ms) : d <= j
    IN SubSeq(ms, 1, i - 1) \o SubSeq(ms, i + 1, Len(ms))

DropOldestUnit(ms) ==
    LET i == CHOOSE d \in Droppable(ms) : \A j \in Droppable(ms) : d <= j
    IN SubSeq(ms, 1, i - 1) \o SubSeq(ms, UnitEnd(ms, i) + 1, Len(ms))

\* Oldest units go until the list and the tool schemas sent with it fit, or
\* nothing may.
CompactToBudget(ms, tools, b) ==
    LET after[n \in 0..Len(ms)] ==
          IF n = 0 THEN ms
          ELSE LET p == after[n - 1]
               IN IF Total(p) + tools <= b \/ Droppable(p) = {} THEN p
                  ELSE DropOldestUnit(p)
    IN after[Len(ms)]

----------------------------------------------------------------------------
(* turnRows and persistCompletedTurn *)

BelongsInStoredHistory(ms, i) ==
    \/ ms[i].origin = "turn"
    \/ ms[i].origin = "injection" /\ i = Len(ms)

\* Mutant of TurnRows: tool results are not stored.
TurnRowsWithoutResults(ms) ==
    LET kept == Picked(ms, {i \in DOMAIN ms : ms[i].origin = "turn" /\ ms[i].role # "tool"})
    IN [i \in DOMAIN kept |-> Row(kept[i], TRUE)]

TurnRows(ms) ==
    LET kept == Picked(ms, {i \in DOMAIN ms : BelongsInStoredHistory(ms, i)})
    IN [k \in DOMAIN kept |-> Row([kept[k] EXCEPT !.turn = turn], TRUE)]

IsCheckpoint(r) ==
    r.msg.turn = turn /\ r.msg.role = "assistant" /\ ~r.complete

PersistCompletedTurn(rs, new) ==
    LET kept == Picked(rs, {i \in DOMAIN rs : ~IsCheckpoint(rs[i])})
        Complete(r) == IF r.msg.turn = turn /\ r.msg.role = "user"
                       THEN [r EXCEPT !.complete = TRUE] ELSE r
    IN [i \in DOMAIN kept |-> Complete(kept[i])] \o new

----------------------------------------------------------------------------
Init ==
    /\ rows \in Legacies
    /\ budget \in Budgets
    /\ phase = "idle" /\ turn = 0 /\ round = 0
    /\ prompt = SelectPromptHistory(<<>>, Question(0), budget)
    /\ messages = <<>>
    /\ shown = [t \in 1..MaxTurns |-> <<>>]

\* UpdateSettings replaces the chat's settings; it takes no turn lock, and a
\* turn under way keeps the budget its history was selected for.
UpdateSettings(b) ==
    /\ b # budget
    /\ budget' = b
    /\ UNCHANGED <<rows, phase, turn, round, prompt, messages, shown>>

\* nextTurnBody: load, select, build, then the pending user row.
Ask ==
    LET q == Question(turn + 1)
        selected == SelectPromptHistory(LoadHistory(rows), q, budget)
    IN /\ phase = "idle" /\ turn < MaxTurns
       /\ turn' = turn + 1 /\ round' = 0
       /\ prompt' = selected
       /\ messages' = BuildPrompt(selected.history, q)
       /\ rows' = Append(rows, Row(q, FALSE))
       /\ phase' = "asking"
       /\ UNCHANGED <<budget, shown>>

\* A fixed-response turn stores its question and the joined text of its
\* script; its tool cards are not stored.
Demo ==
    LET t == turn + 1 IN
    /\ phase = "idle" /\ turn < MaxTurns
    /\ turn' = t
    /\ rows' = rows \o <<Row(Question(t), TRUE),
                         Row(Message(t, "assistant", 1), TRUE)>>
    /\ shown' = [shown EXCEPT ![t] = <<Message(t, "assistant", 1)>>]
    /\ UNCHANGED <<budget, phase, round, prompt, messages>>

\* The schemas that go with the round about to run: the last one has no tools.
OfferedTools == IF round + 1 = MaxRounds THEN 0 ELSE ToolsSize

\* Before every provider call the loop fits its list to the budget.
Send ==
    /\ phase = "asking"
    /\ messages' = CompactToBudget(messages, OfferedTools, prompt.budget)
    /\ phase' = "sent"
    /\ UNCHANGED <<rows, budget, turn, round, prompt, shown>>

\* The first useful delta of a reply is kept as an incomplete row.
Checkpoint ==
    /\ phase = "sent"
    /\ ~\E i \in DOMAIN rows : IsCheckpoint(rows[i])
    /\ rows' = Append(rows, Row(Message(turn, "assistant", 1), FALSE))
    /\ UNCHANGED <<budget, phase, turn, round, prompt, messages, shown>>

\* The reply joins the list; in the last round the tools are withheld.  A
\* reply that calls tools comes without text here: its calls are what counts.
Reply(calls, empty) ==
    LET m == [Message(turn, "assistant", 1) EXCEPT !.calls = calls,
                                                   !.empty = empty]
    IN /\ phase = "sent"
       /\ calls # <<>> => empty
       /\ round + 1 = MaxRounds => calls = <<>>
       /\ messages' = Append(messages, m)
       /\ shown' = [shown EXCEPT ![turn] = Append(@, m)]
       /\ round' = round + 1
       /\ phase' = IF calls = <<>> THEN "done" ELSE "tools"
       /\ UNCHANGED <<rows, budget, turn, prompt>>

\* Every result in the order of the calls, then the injections.
RunTools(size, injects) ==
    LET calls == messages[Len(messages)].calls
        results == [i \in DOMAIN calls |->
                      [Message(turn, "tool", size) EXCEPT !.answers = calls[i]]]
        note == [Message(turn, "system", 1) EXCEPT !.origin = "injection"]
    IN /\ phase = "tools"
       /\ messages' = messages \o results \o (IF injects THEN <<note>> ELSE <<>>)
       /\ shown' = [shown EXCEPT ![turn] = @ \o results]
       /\ phase' = "asking"
       /\ UNCHANGED <<rows, budget, turn, round, prompt>>

\* persistTurn, after the run ended well.
Persist ==
    /\ phase = "done"
    /\ rows' = PersistCompletedTurn(rows, TurnRows(messages))
    /\ phase' = "idle" /\ messages' = <<>>
    /\ UNCHANGED <<budget, turn, round, prompt, shown>>

\* The run fails, its request goes away, or the transaction is refused: the
\* question and the checkpoint stay incomplete.
Fail ==
    /\ phase # "idle"
    /\ phase' = "idle" /\ messages' = <<>>
    /\ UNCHANGED <<rows, budget, turn, round, prompt, shown>>

Next ==
    \/ \E b \in Budgets : UpdateSettings(b)
    \/ Ask \/ Demo \/ Send \/ Checkpoint
    \/ \E calls \in CallLists, empty \in BOOLEAN : Reply(calls, empty)
    \/ \E size \in ResultSizes, injects \in BOOLEAN : RunTools(size, injects)
    \/ Persist \/ Fail

Spec == Init /\ [][Next]_vars

----------------------------------------------------------------------------
(* Properties *)

\* Each calling message is followed at once by one result per call, and every
\* result is one of those.
Paired(ms) ==
    /\ \A i \in DOMAIN ms : LET n == Len(ms[i].calls) IN
          /\ i + n <= Len(ms)
          /\ \A k \in (i + 1)..(i + n) : ms[k].role = "tool"
          /\ {ms[k].answers : k \in (i + 1)..(i + n)} = ToSet(ms[i].calls)
    /\ \A k \in DOMAIN ms : ms[k].role = "tool" =>
          \E i \in 1..(k - 1) : k <= i + Len(ms[i].calls)

\* What a provider is sent, in every round and after every compaction: calls
\* with their results ("no tool_call_id is ever orphaned"), the system prompt,
\* this turn's question, and the results of the latest calls, which the reply
\* is about.
SentIsPaired ==
    phase = "sent" =>
        LET own == LastCalling(shown[turn]) IN
        /\ Paired(messages)
        /\ messages[1] = System
        /\ Contains(messages, Question(turn))
        /\ own > 0 => \E i \in DOMAIN messages : \E j \in i..Len(messages) :
              SubSeq(messages, i, j) =
                  SubSeq(shown[turn], own, Len(shown[turn]))

\* Whatever the budget did to a turn while it ran, and whatever a checkpoint
\* or an earlier version left in the table, the next turn reads back each
\* completed turn whole and in order, and nothing of an incomplete one: the
\* loader never rejects what the service itself stored.
HistoryIsWhole ==
    LET h == LoadHistory(rows)
        Stored(r) == r.complete /\ r.msg.turn <= MaxTurns
                     /\ ~ShouldSkipEmptyAssistant(r.msg)
        own == Picked(rows, {i \in DOMAIN rows : Stored(rows[i])})
    IN /\ Paired(h)
       /\ Picked(h, {i \in DOMAIN h : h[i].turn <= MaxTurns})
            = [i \in DOMAIN own |-> own[i].msg]

\* The selection is the longest end of the history that starts with a message
\* and not with a result and fits the budget, and the four counts reported
\* with it add up to the history ("the exact history selection").
SelectionIsLongest ==
    phase # "idle" =>
        LET h == LoadHistory(rows)
            From(k) == SubSeq(h, k + 1, Len(h))
            cuts == {k \in 0..Len(h) : k < Len(h) => h[k + 1].role # "tool"}
            fits == {k \in cuts : \/ k = Len(h)
                                  \/ SystemSize + Total(From(k)) + 1
                                        <= prompt.budget}
            best == CHOOSE k \in fits : \A l \in fits : k <= l
        IN /\ prompt.history = From(best)
           /\ prompt.omittedMessages = best
           /\ prompt.retainedMessages = Len(h) - best
           /\ prompt.omittedTurns = Cardinality({k \in cuts : k < best})
           /\ prompt.retainedTurns =
                Cardinality({k \in cuts : best <= k /\ k < Len(h)})

\* "stream reasoning, text, tool-use, and tool-result blocks", then "On success,
\* atomically remove the checkpoint, save assistant/tool rows as one completed
\* turn" (core/chats/README.md:24-28), which engine-side limiting is not to affect
\* (CHANGELOG.md:1123): a completed turn keeps every message its client was shown.
\* The limit drops this turn's own earlier exchanges too, and what it drops is
\* never stored.
ShownIsStored ==
    phase = "idle" =>
        \A t \in 1..turn :
            LET Answers(r) == r.msg.turn = t /\ r.msg.role # "user"
                Asked(r) == r.msg.turn = t /\ r.msg.role = "user"
                stored == Picked(rows, {i \in DOMAIN rows : Answers(rows[i])})
            IN (\E i \in DOMAIN rows : Asked(rows[i]) /\ rows[i].complete) =>
                  [i \in DOMAIN stored |-> stored[i].msg] = shown[t]

\* "the composer renders that response rather than estimating locally, so its
\* ... counts ... describe the prompt the next stream will actually receive"
\* (core/chats/README.md:73): the loop counts the tool schemas as well, and
\* may drop more of the selection.
PreviewIsSent ==
    phase = "sent" /\ round = 0 =>
        messages = BuildPrompt(prompt.history, Question(turn))
=============================================================================
