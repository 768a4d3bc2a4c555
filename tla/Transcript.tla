------------------------------ MODULE Transcript ------------------------------
(***************************************************************************)
(* The view model of one Session: ViewModelReducer of                      *)
(* apps/cli/src/tui/data/viewModel.ts, which folds the durable events and  *)
(* the streamed deltas of a Session into the items of the transcript.      *)
(*                                                                         *)
(* The Harness is external: turns of steps, a step of one or more attempts *)
(* of which the last commits a message, then tool calls whose results come *)
(* in any order.  Its events and deltas arrive in the order it writes them *)
(* (one follow stream); a reconnect folds the journal from its beginning.  *)
(***************************************************************************)
EXTENDS Naturals, Sequences, SequencesExt

CONSTANTS
    MaxChunks,     \* bound: deltas of one kind in one attempt
    MaxCalls,      \* bound: tool calls
    MaxAttempts,   \* bound: attempts
    MaxUsers,      \* bound: user messages
    MaxTurns,      \* bound: turns
    MaxEvents,     \* bound: durable events
    MaxNotices,    \* bound: notices shown at once
    QuietNotices   \* TRUE: no local notice is added while an attempt streams

VARIABLES
    journal,    \* the durable events of the Session
    turn,       \* where the Harness is in its turn
    attempt,    \* the number of the current attempt
    spoken,     \* the reasoning and text chunks streamed in it
    view        \* the reducer

vars == <<journal, turn, attempt, spoken, view>>

Call == 1..MaxCalls

-----------------------------------------------------------------------------
(* The reducer.  start is the index of the first item the live attempt     *)
(* streamed, 0 outside an attempt; row gives the item of a pending call.   *)

Item(kind, text, streaming, status) ==
    [kind |-> kind, text |-> text, streaming |-> streaming, status |-> status]

Empty == [items |-> <<>>, start |-> 0, row |-> [c \in Call |-> 0], busy |-> FALSE]

Push(v, item) == [v EXCEPT !.items = Append(@, item)]

Streams(v, kind) ==
    v.items # <<>> /\ Last(v.items).kind = kind /\ Last(v.items).streaming

SealStreaming(v) ==
    IF v.items = <<>> THEN v
    ELSE [v EXCEPT !.items[Len(v.items)].streaming = FALSE]

\* applyReasoningDelta and applyDelta: extend the streaming item at the tail, or
\* open one, which may be the first of its attempt.
Delta(v, kind, text) ==
    IF text = <<>> THEN v
    ELSE IF Streams(v, kind)
    THEN [v EXCEPT !.items[Len(v.items)].text = @ \o text]
    ELSE LET s == SealStreaming(v)
         IN Push([s EXCEPT !.start = IF @ = 0 THEN Len(s.items) + 1 ELSE @],
                 Item(kind, text, TRUE, "none"))

\* Keep what the stream delivered, unless the durable record is longer.
Complete(streamed, durable) ==
    IF durable = <<>> THEN streamed
    ELSE IF streamed = <<>> THEN durable
    ELSE IF Len(durable) > Len(streamed) /\ IsPrefix(streamed, durable)
    THEN durable ELSE streamed

\* The first, or last, item of a kind at or after from; 0 if there is none.
FirstOf(items, kind, from) ==
    SelectInSubSeq(items, from, Len(items), LAMBDA x : x.kind = kind)
LastOf(items, kind, from) ==
    SelectLastInSubSeq(items, from, Len(items), LAMBDA x : x.kind = kind)

AppendUnless(blank, items, item) == IF blank THEN items ELSE Append(items, item)

\* Mutant: the durable message is always appended, also what was streamed.
SettleTwice(v, reasoning, text) ==
    [v EXCEPT !.start = 0,
              !.items = AppendUnless(text = <<>>,
                           AppendUnless(reasoning = <<>>, v.items,
                               Item("reasoning", reasoning, FALSE, "none")),
                           Item("assistant", text, FALSE, "none"))]

\* settleAttempt: a durable message completes what its attempt streamed, in
\* place; without a stream its blocks are appended.
SettleAttempt(v, reasoning, text) ==
    LET thought == Item("reasoning", reasoning, FALSE, "none")
        answer == Item("assistant", text, FALSE, "none")
        sealed == [i \in DOMAIN v.items |->
                      IF i >= v.start /\ v.items[i].kind \in {"reasoning", "assistant"}
                      THEN [v.items[i] EXCEPT !.streaming = FALSE] ELSE v.items[i]]
        r == FirstOf(sealed, "reasoning", v.start)
        reasoned == IF r # 0
                    THEN [sealed EXCEPT ![r].text = Complete(@, reasoning)]
                    ELSE IF reasoning = <<>> THEN sealed
                    ELSE InsertAt(sealed, v.start, thought)
        a == LastOf(reasoned, "assistant", v.start)
        answered == IF a # 0
                    THEN [reasoned EXCEPT ![a].text = Complete(@, text)]
                    ELSE AppendUnless(text = <<>>, reasoned, answer)
        replayed == AppendUnless(text = <<>>,
                        AppendUnless(reasoning = <<>>, v.items, thought), answer)
    IN [v EXCEPT !.start = 0, !.items = IF v.start = 0 THEN replayed ELSE answered]

\* assistant/attempt: the attempt committed nothing; the next one is a new range.
AttemptFailed(v) == [SealStreaming(v) EXCEPT !.start = 0]

CallTool(v, c) ==
    [Push(v, Item("tool", <<c>>, FALSE, "running")) EXCEPT
        !.start = 0, !.row[c] = Len(v.items) + 1]

\* Mutant: a result lands on the newest row.
SettleNewestTool(v, c, status) ==
    IF v.items # <<>> /\ Last(v.items).kind = "tool"
    THEN [v EXCEPT !.items[Len(v.items)].status = status, !.row[c] = 0]
    ELSE Push(v, Item("tool", <<>>, FALSE, status))

\* A result settles the row of its call, or becomes a row without a name.
SettleTool(v, c, status) ==
    IF v.row[c] # 0 /\ v.items[v.row[c]].kind = "tool"
    THEN [v EXCEPT !.items[v.row[c]].status = status, !.row[c] = 0]
    ELSE [Push(v, Item("tool", <<>>, FALSE, status)) EXCEPT !.row[c] = 0]

\* Mutant: the end of a turn leaves the stream open.
EndTurnOpen(v, reason) == [v EXCEPT !.start = 0, !.busy = FALSE]

EndTurn(v, reason) ==
    LET s == [SealStreaming(v) EXCEPT !.start = 0, !.busy = FALSE]
    IN CASE reason = "completed" -> s
         [] reason = "error"     -> Push(s, Item("error", <<>>, FALSE, "none"))
         [] reason = "aborted"   -> Push(s, Item("notice", <<>>, FALSE, "none"))

\* applyEvent
Apply(v, e) ==
    CASE e.type = "turn/start"         -> [v EXCEPT !.busy = TRUE]
      [] e.type = "user/message"       -> Push([v EXCEPT !.start = 0],
                                               Item("user", <<e.id>>, FALSE, "none"))
      [] e.type = "assistant/message"  -> SettleAttempt(v, e.reasoning, e.text)
      [] e.type = "assistant/attempt"  -> AttemptFailed(v)
      [] e.type = "tool/call"          -> CallTool(v, e.call)
      [] e.type = "tool/result"        -> SettleTool(v, e.call, e.status)
      [] e.type = "compaction/summary" -> Push(v, Item("summary", <<>>, FALSE, "none"))
      [] e.type = "step/end"           -> [v EXCEPT !.start = 0]
      [] e.type = "turn/end"           -> EndTurn(v, e.reason)

\* addNotice says the same thing only once in a row.
AddNotice(v) ==
    IF v.items # <<>> /\ Last(v.items).kind = "notice" THEN v
    ELSE Push(v, Item("notice", <<>>, FALSE, "none"))

-----------------------------------------------------------------------------
(* The Harness                                                             *)

Nothing == [reasoning |-> <<>>, text |-> <<>>]

Count(type) == Len(SelectSeq(journal, LAMBDA e : e.type = type))

Answered(c) == \E i \in DOMAIN journal : journal[i].type = "tool/result" /\ journal[i].call = c
Pending == {c \in 1..Count("tool/call") : ~Answered(c)}

Write(e) ==
    /\ Len(journal) < MaxEvents
    /\ journal' = Append(journal, e)
    /\ view' = Apply(view, e)

StartTurn ==
    /\ turn = "idle" /\ Count("turn/start") < MaxTurns
    /\ turn' = "step"
    /\ Write([type |-> "turn/start"])
    /\ UNCHANGED <<attempt, spoken>>

\* The prompt of the turn, or one that steers it at a step boundary.
AdmitUser ==
    /\ turn = "step" /\ Count("user/message") < MaxUsers
    /\ Write([type |-> "user/message", id |-> Count("user/message") + 1])
    /\ UNCHANGED <<turn, attempt, spoken>>

Summarise ==
    /\ turn = "step" /\ Count("compaction/summary") = 0
    /\ Write([type |-> "compaction/summary"])
    /\ UNCHANGED <<turn, attempt, spoken>>

\* An attempt streams its reasoning before its text.
Reason ==
    /\ turn \in {"step", "attempt"} /\ attempt <= MaxAttempts
    /\ spoken.text = <<>> /\ Len(spoken.reasoning) < MaxChunks
    /\ LET chunk == <<attempt, Len(spoken.reasoning) + 1>>
       IN /\ spoken' = [spoken EXCEPT !.reasoning = Append(@, chunk)]
          /\ view' = Delta(view, "reasoning", <<chunk>>)
    /\ turn' = "attempt"
    /\ UNCHANGED <<journal, attempt>>

Speak ==
    /\ turn \in {"step", "attempt"} /\ attempt <= MaxAttempts
    /\ Len(spoken.text) < MaxChunks
    /\ LET chunk == <<attempt, Len(spoken.text) + 1>>
       IN /\ spoken' = [spoken EXCEPT !.text = Append(@, chunk)]
          /\ view' = Delta(view, "assistant", <<chunk>>)
    /\ turn' = "attempt"
    /\ UNCHANGED <<journal, attempt>>

EndStream ==
    /\ turn = "attempt"
    /\ turn' = "ended"
    /\ view' = SealStreaming(view)
    /\ UNCHANGED <<journal, attempt, spoken>>

\* The message may hold one more chunk of either kind than was streamed.
Commit(moreReasoning, moreText) ==
    /\ turn \in {"step", "attempt", "ended"} /\ attempt <= MaxAttempts
    /\ LET more(s) == Append(s, <<attempt, Len(s) + 1>>)
       IN Write([type |-> "assistant/message",
                 reasoning |-> IF moreReasoning THEN more(spoken.reasoning) ELSE spoken.reasoning,
                 text |-> IF moreText THEN more(spoken.text) ELSE spoken.text])
    /\ turn' = "tools" /\ attempt' = attempt + 1 /\ spoken' = Nothing

Retry ==
    /\ turn \in {"attempt", "ended"}
    /\ Write([type |-> "assistant/attempt"])
    /\ turn' = "step" /\ attempt' = attempt + 1 /\ spoken' = Nothing

RequestTool ==
    /\ turn = "tools" /\ Count("tool/call") < MaxCalls
    /\ Write([type |-> "tool/call", call |-> Count("tool/call") + 1])
    /\ UNCHANGED <<turn, attempt, spoken>>

AnswerTool(c, status) ==
    /\ turn = "tools" /\ c \in Pending
    /\ Write([type |-> "tool/result", call |-> c, status |-> status])
    /\ UNCHANGED <<turn, attempt, spoken>>

EndStep ==
    /\ turn = "tools" /\ Pending = {}
    /\ Write([type |-> "step/end"])
    /\ turn' = "step"
    /\ UNCHANGED <<attempt, spoken>>

\* A turn completes after a step, and fails or is cancelled at any time.
FinishTurn(reason) ==
    /\ turn # "idle" /\ Pending = {}
    /\ reason = "completed" => turn = "step"
    /\ Write([type |-> "turn/end", reason |-> reason])
    /\ turn' = "idle" /\ spoken' = Nothing
    /\ attempt' = IF spoken = Nothing THEN attempt ELSE attempt + 1

-----------------------------------------------------------------------------
(* The client                                                              *)

\* A notice of the client's own: a model or level was chosen, a cancel sent ...
LocalNotice ==
    /\ QuietNotices => spoken = Nothing
    /\ Len(SelectSeq(view.items, LAMBDA x : x.kind = "notice")) < MaxNotices
    /\ view' = AddNotice(view)
    /\ UNCHANGED <<journal, turn, attempt, spoken>>

\* Mutant: reset clears the items, and keeps the indexes into them.
ReplayKeepsIndexes(events, live) ==
    LET folded == FoldLeft(Apply, [view EXCEPT !.items = <<>>], events)
    IN Delta(Delta(folded, "reasoning", live.reasoning), "assistant", live.text)

\* reset, the records of the snapshot, and the active attempt as two deltas.
Replay(events, live) ==
    LET folded == FoldLeft(Apply, Empty, events)
    IN Delta(Delta(folded, "reasoning", live.reasoning), "assistant", live.text)

Reopen ==
    /\ view' = Replay(journal, spoken)
    /\ UNCHANGED <<journal, turn, attempt, spoken>>

Init ==
    /\ journal = <<>>
    /\ turn = "idle"
    /\ attempt = 1
    /\ spoken = Nothing
    /\ view = Empty

Next ==
    \/ StartTurn \/ AdmitUser \/ Summarise \/ Reason \/ Speak \/ EndStream
    \/ (\E r, t \in BOOLEAN : Commit(r, t))
    \/ Retry \/ RequestTool \/ EndStep
    \/ (\E c \in Call, status \in {"ok", "stopped"} : AnswerTool(c, status))
    \/ (\E reason \in {"completed", "error", "aborted"} : FinishTurn(reason))
    \/ LocalNotice \/ Reopen

Spec == Init /\ [][Next]_vars

-----------------------------------------------------------------------------
\* Type invariant: every index of the reducer points at an item.
TranscriptTypeOK ==
    /\ turn \in {"idle", "step", "attempt", "ended", "tools"}
    /\ view.start \in 0..Len(view.items)
    /\ view.row \in [Call -> 0..Len(view.items)]
    /\ view.busy \in BOOLEAN
    /\ \A i \in DOMAIN view.items :
          /\ view.items[i].kind \in {"user", "reasoning", "assistant", "tool",
                                     "error", "summary", "notice"}
          /\ view.items[i].streaming \in BOOLEAN
          /\ view.items[i].status \in {"none", "running", "ok", "error", "stopped"}

\* What a transcript shows of one block, message or call.
Blocks(kind, chunks) == [i \in DOMAIN chunks |-> <<kind, chunks[i]>>]

Committed ==
    {e \in ToSet(journal) : e.type = "assistant/message"}
Kept(chunk) ==
    \/ chunk[1] = attempt
    \/ \E e \in Committed : chunk \in ToSet(e.reasoning) \cup ToSet(e.text)

Shown(item) ==
    CASE item.kind \in {"reasoning", "assistant"} -> Blocks(item.kind, SelectSeq(item.text, Kept))
      [] item.kind = "user" -> <<<<"user", item.text[1]>>>>
      [] item.kind = "tool" -> <<<<"tool", item.text, item.status>>>>
      [] item.kind = "summary" -> <<<<"summary">>>>
      [] OTHER -> <<>>

Outcome(c) ==
    IF Answered(c)
    THEN (CHOOSE e \in ToSet(journal) : e.type = "tool/result" /\ e.call = c).status
    ELSE "running"

Recorded(e) ==
    CASE e.type = "assistant/message" -> Blocks("reasoning", e.reasoning) \o Blocks("assistant", e.text)
      [] e.type = "user/message" -> <<<<"user", e.id>>>>
      [] e.type = "tool/call" -> <<<<"tool", <<e.call>>, Outcome(e.call)>>>>
      [] e.type = "compaction/summary" -> <<<<"summary">>>>
      [] OTHER -> <<>>

\* The transcript is the journal: every message, every chunk of every committed
\* answer and every call with its own result appear once and in order, whether
\* they were streamed, completed by the durable message, or replayed; only failed
\* attempts and the client's own notices are left out of the comparison.
ShowsTheJournal ==
    FlattenSeq([i \in DOMAIN view.items |-> Shown(view.items[i])])
      = FlattenSeq([i \in DOMAIN journal |-> Recorded(journal[i])])
          \o Blocks("reasoning", spoken.reasoning) \o Blocks("assistant", spoken.text)

\* Only the tail of a running attempt shows a cursor: no block goes on streaming
\* behind another one, or after its turn.
OneCursor ==
    \A i \in DOMAIN view.items :
        view.items[i].streaming => i = Len(view.items) /\ turn \in {"attempt", "ended"}

\* The screen tells the turn as the journal has it: what was said, and which line of
\* it is still being said.
ShowsTheTurn == ShowsTheJournal /\ OneCursor

Settled(v, i) ==
    /\ ~v.items[i].streaming /\ v.items[i].status # "running"
    /\ v.start = 0 \/ i < v.start

\* What has been settled is never rewritten or moved, except by a reconnect.
HistoryStands ==
    [][view' = Replay(journal, spoken)
       \/ \A i \in DOMAIN view.items :
             Settled(view, i) => i \in DOMAIN view'.items /\ view'.items[i] = view.items[i]]_vars

=============================================================================
