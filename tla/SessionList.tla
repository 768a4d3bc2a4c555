------------------------------ MODULE SessionList ------------------------------
(***************************************************************************)
(* The one array of Sessions that every view of a window reads: re-read    *)
(* from the Host, changed by the events of the control stream and by the   *)
(* journal of the open Session.  Each of the three is in order, none is    *)
(* with respect to the others.                                             *)
(***************************************************************************)
EXTENDS Integers, Sequences, SequencesExt

CONSTANTS
    Session,
    Clock,      \* bound on the changes the Host dates
    Reads       \* bound on the re-reads of a window

Missing == [there |-> FALSE, updatedAt |-> 0, running |-> FALSE, blank |-> TRUE, title |-> FALSE]

Reply(step, rows) == [step |-> step, list |-> rows]

VARIABLES
    host,       \* Session -> what the Host knows of it
    clock,
    events,     \* list events under way, oldest first
    journal,    \* events of the open Session's journal under way
    reply,      \* a re-read under way: not asked, asked, or the Host's list made
    passed,     \* an event was applied since that answer was made
    overtaken,  \* the list is such an answer
    sessions,   \* Session -> its row in the window
    open,       \* the Sessions the window follows: none or one
    created,    \* Sessions the Host created for this window, unanswered
    reads
list == <<host, clock, events, journal, reply, passed, overtaken, sessions, open, created, reads>>

ListInit ==
    /\ host \in [Session -> {Missing, [Missing EXCEPT !.there = TRUE]}]
    /\ clock = 0 /\ events = <<>> /\ journal = <<>> /\ reply = Reply("none", host)
    /\ passed = FALSE /\ overtaken = TRUE
    /\ sessions = [s \in Session |-> Missing]
    /\ open = {} /\ created = {} /\ reads = 0

-----------------------------------------------------------------------------
(* The Host, with its other clients *)

Publish(s, kinds) ==
    events' = events \o [i \in 1 .. Len(kinds) |-> [kind |-> kinds[i], id |-> s, row |-> host'[s]]]
Journals(s, kind) == journal' = IF s \in open THEN Append(journal, [kind |-> kind, id |-> s]) ELSE journal
WindowVars == <<reply, passed, overtaken, sessions, open, reads>>

HostCreates(s) ==
    /\ ~host[s].there /\ clock < Clock /\ clock' = clock + 1
    /\ host' = [host EXCEPT ![s] = [Missing EXCEPT !.there = TRUE, !.updatedAt = clock']]
    /\ Publish(s, <<"added">>)
    /\ created' \in {created, created \cup {s}}
    /\ UNCHANGED <<journal, WindowVars>>

HostPrompted(s) ==
    /\ host[s].there /\ ~host[s].running /\ clock < Clock /\ clock' = clock + 1
    /\ host' = [host EXCEPT ![s].updatedAt = clock', ![s].running = TRUE, ![s].blank = FALSE]
    /\ Publish(s, <<"activity", "status">>)
    /\ Journals(s, "user/message")
    /\ UNCHANGED <<created, WindowVars>>

HostFinishes(s) ==
    /\ host[s].running
    /\ host' = [host EXCEPT ![s].running = FALSE, ![s].title = TRUE]
    /\ Publish(s, <<"status">>)
    /\ Journals(s, "session/title")
    /\ UNCHANGED <<clock, created, WindowVars>>

HostRemoves(s) ==
    /\ host[s].there /\ s \notin open \cup created   \* no client removes what another is being given
    /\ host' = [host EXCEPT ![s] = Missing]
    /\ Publish(s, <<"removed">>)
    /\ UNCHANGED <<clock, journal, created, WindowVars>>

HostAnswers ==
    /\ reply.step = "asked" /\ reply' = Reply("made", host) /\ passed' = FALSE
    /\ UNCHANGED <<host, clock, events, journal, overtaken, sessions, open, created, reads>>

-----------------------------------------------------------------------------
(* The window *)

\* A summary replaces the row but for what it leaves out; speaking is one-way.
\* Mutant: a summary replaces the row.
replaced(previous, summary) == summary
merged(previous, summary) ==
    [summary EXCEPT !.blank = @ /\ ~(previous.there /\ ~previous.blank),
                    !.title = @ \/ previous.title]

\* Mutant: an event of a Session without a row is passed over, a new one too.
AfterKnown(event) ==
    LET previous == sessions[event.id]
    IN  IF ~previous.there THEN sessions
        ELSE IF event.kind = "added" THEN [sessions EXCEPT ![event.id] = merged(previous, event.row)]
        ELSE IF event.kind = "removed" THEN [sessions EXCEPT ![event.id] = Missing]
        ELSE [sessions EXCEPT ![event.id].running = event.row.running,
                              ![event.id].updatedAt = event.row.updatedAt]
After(event) ==
    LET previous == sessions[event.id]
        at(row) == [sessions EXCEPT ![event.id] = row]
    IN  IF event.kind = "added" THEN at(merged(previous, event.row))
        ELSE IF event.kind = "removed" THEN at(Missing)
        ELSE IF ~previous.there THEN sessions
        ELSE IF event.kind = "status" THEN at([previous EXCEPT !.running = event.row.running])
        ELSE at([previous EXCEPT !.updatedAt = event.row.updatedAt, !.blank = FALSE])

applySessionList ==
    /\ events # <<>>
    /\ sessions' = After(Head(events)) /\ events' = Tail(events)
    /\ passed' = TRUE
    /\ UNCHANGED <<host, clock, journal, reply, overtaken, open, created, reads>>

\* What the journal of the open Session tells of its row.
onEvent ==
    /\ journal # <<>> /\ journal' = Tail(journal)
    /\ LET event == Head(journal)
           row == sessions[event.id]
       IN  sessions' = IF ~row.there THEN sessions
                       ELSE IF event.kind = "user/message" THEN [sessions EXCEPT ![event.id].blank = FALSE]
                       ELSE [sessions EXCEPT ![event.id].title = TRUE]
    /\ UNCHANGED <<host, clock, events, reply, passed, overtaken, open, created, reads>>

Refresh ==
    /\ reply.step = "none" /\ reads < Reads
    /\ reads' = reads + 1 /\ reply' = Reply("asked", reply.list)
    /\ UNCHANGED <<host, clock, events, journal, passed, overtaken, sessions, open, created>>

\* A failed re-read keeps the list the events have built.
RefreshFails ==
    /\ reply.step # "none" /\ reply' = Reply("none", reply.list)
    /\ UNCHANGED <<host, clock, events, journal, passed, overtaken, sessions, open, created, reads>>

Refreshed ==
    /\ reply.step = "made"
    /\ sessions' = reply.list /\ reply' = Reply("none", reply.list) /\ overtaken' = passed
    /\ UNCHANGED <<host, clock, events, journal, passed, open, created, reads>>

\* The answer of createSession: a row, unless an event brought it already.
create(s) ==
    /\ s \in created /\ created' = created \ {s}
    /\ sessions' = [sessions EXCEPT ![s] =
                      IF @.there THEN @ ELSE [Missing EXCEPT !.there = TRUE, !.updatedAt = clock]]
    /\ UNCHANGED <<host, clock, events, journal, reply, passed, overtaken, open, reads>>

\* Another Session: its journal is told from the start, the rest of the old one
\* is dropped.
Told(s) == (IF host[s].blank THEN <<>> ELSE <<"user/message">>)
           \o (IF host[s].title THEN <<"session/title">> ELSE <<>>)
Open(s) ==
    /\ sessions[s].there /\ host[s].there /\ s \notin open
    /\ open' = {s}
    /\ journal' = [i \in 1 .. Len(Told(s)) |-> [kind |-> Told(s)[i], id |-> s]]
    /\ UNCHANGED <<host, clock, events, reply, passed, overtaken, sessions, created, reads>>

ListNext ==
    \/ \E s \in Session : HostCreates(s) \/ HostPrompted(s) \/ HostFinishes(s) \/ HostRemoves(s)
    \/ HostAnswers \/ applySessionList \/ onEvent \/ Refresh \/ RefreshFails \/ Refreshed
    \/ \E s \in Session : create(s) \/ Open(s)

-----------------------------------------------------------------------------
\* Nothing but a re-read hides a Session that has spoken, or forgets a title:
\* an event older than the journal's does not.
SpokenStays ==
    [][\A s \in Session :
         sessions[s].there /\ sessions'[s].there /\ reads' = reads /\ reply' = reply =>
           /\ ~sessions[s].blank => ~sessions'[s].blank
           /\ sessions[s].title => sessions'[s].title]_list

\* Once every event has been applied, the list is the Host's: unless an event
\* passed the last re-read under way, which then shows older rows than it had.
Settled == events = <<>> /\ journal = <<>> /\ created = {}
Row(r) == <<r.there, r.running, r.blank, IF r.there THEN r.updatedAt ELSE 0>>
ListIsCurrent ==
    Settled /\ ~overtaken => \A s \in Session : Row(sessions[s]) = Row(host[s])
=============================================================================
