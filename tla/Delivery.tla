------------------------------- MODULE Delivery -------------------------------
(***************************************************************************)
(* How a line becomes work: the command plugin of                          *)
(* apps/cli/src/tui/plugins/commands.ts (submit, dequeue, cancel and the   *)
(* drafts of a window without a Session) with the part of the view model   *)
(* that mirrors the Host: busy and the two pending lists.                  *)
(*                                                                         *)
(* The Host is external: a Session with its steering and follow-up lists,  *)
(* turns that claim from them, and one multiplexed connection that carries *)
(* its frames in order.  A call of the window is answered at some later    *)
(* time; its answer may be lost with the connection.                       *)
(***************************************************************************)
EXTENDS Naturals, FiniteSets, Sequences, SequencesExt

CONSTANTS
    Session,        \* the Sessions
    NoSession,      \* no Session is open yet
    MaxLines,       \* bound: the prompts a user types
    Dequeuer,       \* bound: dequeue gestures that may overlap
    Faults          \* "prompt": prompts fail; "removal": the answer of a removal may be
                    \* lost after the Host removed

ASSUME SessionAssumption == NoSession \notin Session
ASSUME BoundAssumption == MaxLines \in Nat

VARIABLES
    host,       \* per Session: running, the two pending lists, and what was said
    open,       \* session.id
    stage,      \* "closed", "opening" (open awaits the catalog) or "live"
    wire,       \* the frames under way to the window
    view,       \* the reducer: shown, steering, followUp, busy
    typed,      \* how many lines were typed: they are 1..typed
    drafts,     \* every line typed before a Session was open, with its mode
    replayed,   \* how many of the drafts were taken off pendingLines
    draining,   \* the drafts are being replayed
    calls,      \* the calls under way
    dequeue,    \* per gesture: the items left and the texts restored
    editor,     \* the lines in the composer
    refused,    \* the lines whose prompt failed: an error is shown
    cancelRequested

windowVars == <<open, stage, view, typed, drafts, replayed, draining, dequeue,
                editor, refused, cancelRequested>>
vars == <<host, wire, calls, windowVars>>

Idle == [busy |-> FALSE, items |-> <<>>, restored |-> <<>>]
Blank == [shown |-> {}, steering |-> <<>>, followUp |-> <<>>, busy |-> FALSE]

\* A list without a line: lines are told apart by their id, a list holds each once.
Without(list, line) ==
    IF line \in ToSet(list)
    THEN RemoveAt(list, CHOOSE i \in DOMAIN list : list[i] = line)
    ELSE list

-----------------------------------------------------------------------------
(* The frames of the Host                                                  *)

Inbox(h) == [type |-> "inbox", steering |-> h.steering, followUp |-> h.followUp]

\* Only the open Session is followed, once its stream is open.
Sent(s, frames) == IF s = open /\ stage = "live" THEN wire \o frames ELSE wire

-----------------------------------------------------------------------------
(* Calls.  A call is sent, then done at the Host, then answered.  One that   *)
(* is sent may fail, refused or lost; one that is done may lose its answer.  *)

PromptCall(line, mode, draft) ==
    [kind |-> "prompt", session |-> open, line |-> line, mode |-> mode,
     by |-> draft, state |-> "sent"]
RemoveCall(line, d) ==
    [kind |-> "remove", session |-> open, line |-> line, by |-> d, state |-> "sent"]
CancelCall == [kind |-> "cancel", session |-> open, state |-> "sent"]

Done(c) == (calls \ {c}) \cup {[c EXCEPT !.state = "done"]}

-----------------------------------------------------------------------------
(* The window: prompts                                                     *)

\* Mutant: Enter steers when no turn runs.
ModeForSwapped(gesture) ==
    IF gesture = "accelerated" \/ view.busy THEN "queue" ELSE "steer"

\* Enter steers a running turn; the queue chord, and an idle Session, queue.
ModeFor(gesture) ==
    IF gesture = "accelerated" \/ ~view.busy THEN "queue" ELSE "steer"

Submit(gesture) ==
    /\ typed < MaxLines
    /\ typed' = typed + 1
    /\ IF open = NoSession
       THEN /\ drafts' = Append(drafts, [line |-> typed', mode |-> ModeFor(gesture)])
            /\ UNCHANGED <<calls, view>>
       ELSE /\ calls' = calls \cup {PromptCall(typed', ModeFor(gesture), FALSE)}
            /\ view' = [view EXCEPT !.busy = TRUE]
            /\ UNCHANGED drafts
    /\ UNCHANGED <<host, wire, open, stage, replayed, draining, dequeue, editor,
                   refused, cancelRequested>>

Replaying == \E c \in calls : c.kind = "prompt" /\ c.by

SendDraft ==
    /\ draining /\ replayed < Len(drafts)
    /\ replayed' = replayed + 1
    /\ LET draft == drafts[replayed + 1]
       IN calls' = calls \cup {PromptCall(draft.line, draft.mode, TRUE)}
    /\ view' = [view EXCEPT !.busy = TRUE]
    /\ UNCHANGED <<host, wire, open, stage, typed, drafts, draining, dequeue, editor,
                   refused, cancelRequested>>

\* Mutant: the drafts are sent without awaiting each other.
ReplayDraftAtOnce == SendDraft

\* Each draft awaits the answer of the one before it.
ReplayDraft == ~Replaying /\ SendDraft

PromptAnswered(c) ==
    /\ c \in calls /\ c.kind = "prompt" /\ c.state = "done"
    /\ calls' = calls \ {c}
    /\ UNCHANGED <<host, wire, windowVars>>

\* Refused or lost: the window shows an error and takes itself for idle.
PromptFails(c) ==
    /\ "prompt" \in Faults
    /\ c \in calls /\ c.kind = "prompt"
    /\ calls' = calls \ {c}
    /\ view' = [view EXCEPT !.busy = FALSE]
    /\ refused' = IF c.state = "done" THEN refused ELSE refused \cup {c.line}
    /\ UNCHANGED <<host, wire, open, stage, typed, drafts, replayed, draining,
                   dequeue, editor, cancelRequested>>

-----------------------------------------------------------------------------
(* The window: dequeue                                                     *)

\* Mutant: what the composer held is replaced.
RestoredOver(d, restored) == restored

\* The restored texts go in front of what the composer holds by then.
Restored(d, restored) == restored \o editor

\* Remove the next item from the Session that is open now, or finish.
Advance(d, items, restored, others) ==
    IF items = <<>>
    THEN /\ editor' = Restored(d, restored)
         /\ dequeue' = [dequeue EXCEPT ![d] = Idle]
         /\ calls' = others
    ELSE /\ dequeue' = [dequeue EXCEPT ![d] =
                           [busy |-> TRUE, items |-> Tail(items), restored |-> restored]]
         /\ calls' = others \cup {RemoveCall(Head(items), d)}
         /\ UNCHANGED editor

Dequeue(d) ==
    LET items == view.steering \o view.followUp
    IN /\ open # NoSession /\ ~dequeue[d].busy /\ items # <<>>
       /\ Advance(d, items, <<>>, calls)
       /\ UNCHANGED <<host, wire, open, stage, view, typed, drafts, replayed, draining,
                      refused, cancelRequested>>

RemovalAnswered(c) ==
    /\ c \in calls /\ c.kind = "remove" /\ c.state = "done"
    /\ Advance(c.by, dequeue[c.by].items, Append(dequeue[c.by].restored, c.line), calls \ {c})
    /\ UNCHANGED <<host, wire, open, stage, view, typed, drafts, replayed, draining,
                   refused, cancelRequested>>

\* The window takes any failure to mean that the turn claimed the item.
RemovalFails(c) ==
    /\ c \in calls /\ c.kind = "remove"
    /\ c.state = "done" => "removal" \in Faults
    /\ Advance(c.by, dequeue[c.by].items, dequeue[c.by].restored, calls \ {c})
    /\ UNCHANGED <<host, wire, open, stage, view, typed, drafts, replayed, draining,
                   refused, cancelRequested>>

-----------------------------------------------------------------------------
(* The window: cancel, open                                                *)

Cancel ==
    /\ open # NoSession /\ ~cancelRequested
    /\ cancelRequested' = TRUE
    /\ calls' = calls \cup {CancelCall}
    /\ UNCHANGED <<host, wire, open, stage, view, typed, drafts, replayed, draining,
                   dequeue, editor, refused>>

\* Refused or lost before the Host had it.
CancelFails(c) ==
    /\ c \in calls /\ c.kind = "cancel"
    /\ calls' = calls \ {c}
    /\ cancelRequested' = FALSE
    /\ UNCHANGED <<host, wire, open, stage, view, typed, drafts, replayed, draining,
                   dequeue, editor, refused>>

\* open, up to its await; also what a reconnect does with the same Session.
OpenStart(s) ==
    /\ stage # "opening"
    /\ open' = s /\ stage' = "opening"
    /\ wire' = <<>>
    /\ view' = Blank
    /\ UNCHANGED <<host, calls, typed, drafts, replayed, draining, dequeue, editor,
                   refused, cancelRequested>>

\* The stream is opened, its first frame the snapshot; hulala/session-opened.
Opened ==
    /\ stage = "opening"
    /\ stage' = "live"
    /\ wire' = <<[type |-> "snapshot", said |-> host[open].said, running |-> host[open].running],
                 Inbox(host[open])>>
    /\ cancelRequested' = FALSE
    /\ draining' = TRUE
    /\ UNCHANGED <<host, calls, open, view, typed, drafts, replayed, dequeue, editor, refused>>

-----------------------------------------------------------------------------
(* The window: frames                                                      *)

\* Mutant: an admitted message stays in the pending block.
DropNothing(v, line) == v

DropPending(v, line) ==
    [v EXCEPT !.steering = Without(@, line), !.followUp = Without(@, line)]

\* setInbox, and applyEvent as far as it concerns busy, shown and pending.
Folded(v, f) ==
    CASE f.type = "turn/start" -> [v EXCEPT !.busy = TRUE]
      [] f.type = "turn/end"   -> [v EXCEPT !.busy = FALSE]
      [] f.type = "user"       -> [DropPending(v, f.line) EXCEPT !.shown = @ \cup {f.line}]
      [] f.type = "inbox"      -> [v EXCEPT !.steering = f.steering, !.followUp = f.followUp]
      [] f.type = "snapshot"   -> [v EXCEPT !.shown = @ \cup ToSet(f.said),
                                            !.busy = IF f.said = <<>> THEN @ ELSE f.running]
      [] f.type = "status"     -> v

\* Mutant: the end of a turn leaves the cancel outstanding.
ClearedNever(f) == cancelRequested

\* onSessionStatus: a Session that stops running has no outstanding cancel; one that
\* starts only repaints.
Cleared(f) == cancelRequested /\ f.type # "status"

Deliver ==
    /\ stage = "live" /\ wire # <<>>
    /\ wire' = Tail(wire)
    /\ view' = Folded(view, Head(wire))
    /\ cancelRequested' = Cleared(Head(wire))
    /\ UNCHANGED <<host, calls, open, stage, typed, drafts, replayed, draining,
                   dequeue, editor, refused>>

-----------------------------------------------------------------------------
(* The Host                                                                *)

\* A prompt steers a running turn, or waits for a turn of its own.
HostPrompt(c) ==
    /\ c \in calls /\ c.kind = "prompt" /\ c.state = "sent"
    /\ LET s == c.session
           h == IF c.mode = "steer" /\ host[s].running
                THEN [host[s] EXCEPT !.steering = Append(@, c.line)]
                ELSE [host[s] EXCEPT !.followUp = Append(@, c.line)]
       IN /\ host' = [host EXCEPT ![s] = h]
          /\ wire' = Sent(s, <<Inbox(h)>>)
    /\ calls' = Done(c)
    /\ UNCHANGED windowVars

\* The removal of a pending line; of any other the Host refuses.
HostRemove(c) ==
    /\ c \in calls /\ c.kind = "remove" /\ c.state = "sent"
    /\ LET s == c.session
           h == [host[s] EXCEPT !.steering = Without(@, c.line), !.followUp = Without(@, c.line)]
       IN /\ h # host[s]
          /\ host' = [host EXCEPT ![s] = h]
          /\ wire' = Sent(s, <<Inbox(h)>>)
    /\ calls' = Done(c)
    /\ UNCHANGED windowVars

\* The claim is logged before the projection publishes its removal.
Claimed(s, h, line, before) ==
    LET claimed == [h EXCEPT !.said = Append(@, line)]
    IN /\ host' = [host EXCEPT ![s] = claimed]
       /\ wire' = Sent(s, before \o <<[type |-> "user", line |-> line], Inbox(claimed)>>)

HostStartTurn(s) ==
    /\ ~host[s].running /\ host[s].followUp # <<>>
    /\ Claimed(s, [host[s] EXCEPT !.running = TRUE, !.followUp = Tail(@)],
               Head(host[s].followUp),
               <<[type |-> "turn/start"]>>)
    /\ UNCHANGED <<calls, windowVars>>

HostSteer(s) ==
    /\ host[s].running /\ host[s].steering # <<>>
    /\ Claimed(s, [host[s] EXCEPT !.steering = Tail(@)], Head(host[s].steering), <<>>)
    /\ UNCHANGED <<calls, windowVars>>

\* What steered too late waits for a turn of its own.
Stopped(s) ==
    LET h == [host[s] EXCEPT !.running = FALSE, !.steering = <<>>,
                             !.followUp = host[s].steering \o @]
    IN /\ host' = [host EXCEPT ![s] = h]
       /\ wire' = Sent(s, <<[type |-> "turn/end"], Inbox(h), [type |-> "status"]>>)

HostEndTurn(s) ==
    /\ host[s].running
    /\ Stopped(s)
    /\ UNCHANGED <<calls, windowVars>>

\* A cancel ends the running turn; an idle Session may accept it too.  The window
\* does nothing with the answer, and asks again if it is lost.
HostCancel(c, lost) ==
    /\ c \in calls /\ c.kind = "cancel"
    /\ IF host[c.session].running THEN Stopped(c.session) ELSE UNCHANGED <<host, wire>>
    /\ calls' = calls \ {c}
    /\ cancelRequested' = (cancelRequested /\ ~lost)
    /\ UNCHANGED <<open, stage, view, typed, drafts, replayed, draining, dequeue,
                   editor, refused>>

-----------------------------------------------------------------------------
Init ==
    /\ host = [s \in Session |->
                 [running |-> FALSE, steering |-> <<>>, followUp |-> <<>>, said |-> <<>>]]
    /\ open = NoSession /\ stage = "closed"
    /\ wire = <<>> /\ calls = {}
    /\ view = Blank
    /\ typed = 0
    /\ drafts = <<>> /\ replayed = 0 /\ draining = FALSE
    /\ dequeue = [d \in Dequeuer |-> Idle]
    /\ editor = <<>> /\ refused = {}
    /\ cancelRequested = FALSE

User ==
    \/ \E gesture \in {"enter", "accelerated"} : Submit(gesture)
    \/ \E d \in Dequeuer : Dequeue(d)
    \/ Cancel
    \/ \E s \in Session : OpenStart(s)

Answer ==
    \E c \in calls :
        \/ PromptAnswered(c) \/ PromptFails(c)
        \/ RemovalAnswered(c) \/ RemovalFails(c)
        \/ CancelFails(c)

Host ==
    \/ \E c \in calls : HostPrompt(c) \/ HostRemove(c)
    \/ \E c \in calls, lost \in BOOLEAN : HostCancel(c, lost)
    \/ \E s \in Session : HostStartTurn(s) \/ HostSteer(s) \/ HostEndTurn(s)

Next == User \/ Opened \/ ReplayDraft \/ Deliver \/ Answer \/ Host

Spec == Init /\ [][Next]_vars

\* The catalog is answered or fails, frames arrive while the connection lives,
\* and a turn ends.
FairSpec ==
    /\ Spec
    /\ WF_vars(Opened) /\ WF_vars(Deliver)
    /\ \A s \in Session : WF_vars(HostEndTurn(s))

-----------------------------------------------------------------------------
\* Type invariant; a draft always queues, for no turn runs without a Session.
DeliveryTypeOK ==
    /\ open \in Session \cup {NoSession}
    /\ (open = NoSession) <=> (stage = "closed")
    /\ typed \in 0..MaxLines /\ refused \subseteq 1..typed
    /\ replayed \in 0..Len(drafts)
    /\ \A i \in DOMAIN drafts : drafts[i].line \in 1..typed /\ drafts[i].mode = "queue"
    /\ \A c \in calls : c.session \in Session /\ c.state \in {"sent", "done"}
    /\ \A d \in Dequeuer : dequeue[d].busy <=> \E c \in calls : c.kind = "remove" /\ c.by = d
    /\ draining => stage # "closed"

Holds(list, line) == {i \in DOMAIN list : list[i] = line}

\* Every place where a typed line can be.
Places(line) ==
    {<<"draft", i>> : i \in {j \in replayed + 1..Len(drafts) : drafts[j].line = line}}
    \cup {<<"call", c>> : c \in {x \in calls :
              \/ x.kind = "prompt" /\ x.line = line /\ x.state = "sent"
              \/ x.kind = "remove" /\ x.line = line /\ x.state = "done"}}
    \cup (UNION {{<<"steering", s, i>> : i \in Holds(host[s].steering, line)} : s \in Session})
    \cup (UNION {{<<"followUp", s, i>> : i \in Holds(host[s].followUp, line)} : s \in Session})
    \cup (UNION {{<<"said", s, i>> : i \in Holds(host[s].said, line)} : s \in Session})
    \cup (UNION {{<<"restored", d, i>> : i \in Holds(dequeue[d].restored, line)} : d \in Dequeuer})
    \cup {<<"editor", i>> : i \in Holds(editor, line)}
    \cup {<<"refused">> : x \in refused \cap {line}}

\* A typed line is never lost and never said twice: it is a draft, under way,
\* pending or said in one Session, restored, in the composer, or refused.
NothingLost == \A line \in 1..typed : Cardinality(Places(line)) = 1

\* The pending block never echoes a message the transcript already shows.
NoEcho ==
    \A line \in view.shown :
        line \notin ToSet(view.steering) \cup ToSet(view.followUp)

\* Nothing typed is lost, said twice, or shown as pending once it was said.
SaidOnce == NothingLost /\ NoEcho

\* The drafts of one Session are said in the order they were typed.
DraftsInOrder ==
    \A s \in Session, i, j \in DOMAIN drafts :
        LET said == host[s].said IN
        \A a, b \in DOMAIN said :
            (i < j /\ said[a] = drafts[i].line /\ said[b] = drafts[j].line) => a < b

\* A turn that ends clears the outstanding cancel, wherever the end came from:
\* the next turn can be cancelled.
CancelClears ==
    (cancelRequested /\ open # NoSession /\ host[open].running) ~> ~cancelRequested

\* Enter steers a running turn: a window that has heard everything knows that a
\* turn runs.  The code takes a failed prompt for the end of the turn.
SeesTheTurn ==
    (stage = "live" /\ wire = <<>> /\ host[open].running) => view.busy
=============================================================================
