---------------------------- MODULE SessionWindow ----------------------------
(***************************************************************************)
(* The Session one terminal window looks at: the plugin of                 *)
(* apps/cli/src/tui/plugins/session.ts over the follow streams of          *)
(* apps/cli/src/tui/data/remote.ts.                                        *)
(*                                                                         *)
(* The Host's journals are external: a journal grows, other clients select *)
(* models, and a follow stream delivers a snapshot and then events.  The   *)
(* client runs one callback at a time, so an action is what runs between   *)
(* two awaits: a user call up to its request, an answer and what follows   *)
(* it, one frame, one timer.                                               *)
(***************************************************************************)
EXTENDS Naturals, Sequences, FiniteSetsExt

CONSTANTS
    Sid,          \* Sessions that exist or may be created
    Existing,     \* those that exist when the window starts
    NoSid,
    Model,        \* model routes
    DefaultModel, \* the catalog's default
    NoModel,
    Text,         \* a journal event that selects no model
    Slot,         \* identities of follow streams, reused once a stream is gone
    NoSlot,
    MaxEvents,    \* bound: length of a journal
    Overlap       \* FALSE: no call, timer or rival selection while one awaits

ASSUME SessionAssumption ==
    /\ Existing \subseteq Sid /\ NoSid \notin Sid
    /\ DefaultModel \in Model /\ NoModel \notin Model /\ Text \notin Model
    /\ NoSlot \notin Slot /\ MaxEvents \in Nat /\ Overlap \in BOOLEAN

VARIABLES
    exists,       \* Host: the Sessions there are
    journal,      \* Host: the events of each Session
    row,          \* the model in the window's list row of each Session
    id,           \* the open Session
    model,        \* the model the window shows
    transcript,   \* the events folded since the last reset, as <<Session, seq>>
    stream,       \* the follow streams
    held,         \* the stream followDispose disposes, NoSlot if none or failed
    opening,      \* open() calls that await the catalog, per Session
    creating,     \* startNew() awaits the Host
    selecting,    \* the model selection that awaits the Host
    disconnected,
    timer,        \* the reconnect timer is set
    shut

hostSide == <<exists, journal>>
callSide == <<opening, creating, selecting>>
vars == <<exists, journal, row, id, model, transcript, stream, held, opening,
          creating, selecting, disconnected, timer, shut>>

Gone == [of |-> NoSid, last |-> 0, phase |-> "gone"]
Fresh(s) == [of |-> s, last |-> 0, phase |-> "new"]
NoSelection == [to |-> NoSid, model |-> NoModel, phase |-> "none"]

Live(k) == stream[k].phase # "gone"

\* Mutant: the last event counts, whatever its type.
SelectedAny(events, else) == IF events = <<>> THEN else ELSE events[Len(events)]

\* The model the last selection in a journal names.
Selected(events, else) ==
    LET at == {i \in 1..Len(events) : events[i] \in Model}
    IN IF at = {} THEN else ELSE events[Max(at)]

HostModel(s) == Selected(journal[s], NoModel)

Opening == \E s \in Sid : opening[s] > 0
Awaiting == Opening \/ creating \/ selecting # NoSelection

-----------------------------------------------------------------------------
(* open                                                                    *)

\* backend.follow: a new stream in a free slot of st, kept in followDispose.
Follow(s, st) ==
    \E k \in {x \in Slot : st[x] = Gone} :
        stream' = [st EXCEPT ![k] = Fresh(s)] /\ held' = k

\* The streams once followDispose has been called.
Disposed == IF held = NoSlot THEN stream ELSE [stream EXCEPT ![held] = Gone]

\* Mutant: the previous stream is not disposed.
OpenUndisposed(s, known) ==
    /\ id' = s
    /\ transcript' = <<>>
    /\ disconnected' = FALSE
    /\ model' = known
    /\ IF known = NoModel
       THEN /\ opening' = [opening EXCEPT ![s] = @ + 1]
            /\ stream' = stream /\ held' = NoSlot
       ELSE opening' = opening /\ Follow(s, stream)

\* open(next) up to its await.  A Session whose row names no model awaits the
\* catalog before it is followed; any other is followed at once.
OpenNow(s, known) ==
    /\ id' = s
    /\ transcript' = <<>>
    /\ disconnected' = FALSE
    /\ model' = known
    /\ IF known = NoModel
       THEN /\ opening' = [opening EXCEPT ![s] = @ + 1]
            /\ stream' = Disposed /\ held' = NoSlot
       ELSE opening' = opening /\ Follow(s, Disposed)

\* Calls a user may make now.
MayCall == ~shut /\ (Overlap \/ ~Awaiting)

Open(s) ==
    /\ MayCall /\ s \in exists
    /\ OpenNow(s, row[s])
    /\ UNCHANGED <<hostSide, row, creating, selecting, timer, shut>>

\* The catalog, or its failure, arrives in an open() that awaits it.
CatalogArrives(s) ==
    /\ opening[s] > 0
    /\ opening' = [opening EXCEPT ![s] = @ - 1]
    /\ \E loaded \in BOOLEAN : model' = IF loaded THEN DefaultModel ELSE model
    /\ IF shut THEN UNCHANGED <<stream, held>> ELSE Follow(s, stream)
    /\ UNCHANGED <<hostSide, row, id, transcript, creating, selecting,
                   disconnected, timer, shut>>

-----------------------------------------------------------------------------
(* startNew, refresh and the list events                                   *)

StartNew ==
    /\ MayCall /\ ~creating
    /\ creating' = TRUE
    /\ UNCHANGED <<hostSide, row, id, model, transcript, stream, held, opening,
                   selecting, disconnected, timer, shut>>

\* The Host created s; the window lists it without a model and opens it.
Created(s) ==
    /\ creating /\ s \notin exists /\ (Overlap \/ ~Opening)
    /\ creating' = FALSE
    /\ exists' = exists \cup {s}
    /\ row' = [row EXCEPT ![s] = NoModel]
    /\ IF shut
       THEN UNCHANGED <<id, model, transcript, stream, held, opening, disconnected>>
       ELSE OpenNow(s, NoModel)
    /\ UNCHANGED <<journal, selecting, timer, shut>>

CreateFails ==
    /\ creating
    /\ creating' = FALSE
    /\ UNCHANGED <<hostSide, row, id, model, transcript, stream, held, opening,
                   selecting, disconnected, timer, shut>>

\* listSessions replaces every row; an `added' event merges one, and keeps a
\* known model the summary does not carry.
Refresh ==
    /\ ~shut
    /\ row' = [s \in Sid |-> IF s \in exists THEN HostModel(s) ELSE NoModel]
    /\ UNCHANGED <<hostSide, id, model, transcript, stream, held, callSide,
                   disconnected, timer, shut>>

ListAdded(s) ==
    /\ ~shut /\ s \in exists
    /\ row' = [row EXCEPT ![s] = Selected(journal[s], @)]
    /\ UNCHANGED <<hostSide, id, model, transcript, stream, held, callSide,
                   disconnected, timer, shut>>

-----------------------------------------------------------------------------
(* commitSelection                                                         *)

Select(m) ==
    /\ MayCall /\ selecting = NoSelection /\ id # NoSid
    /\ selecting' = [to |-> id, model |-> m, phase |-> "sent"]
    /\ UNCHANGED <<hostSide, row, id, model, transcript, stream, held, opening,
                   creating, disconnected, timer, shut>>

HostSelects ==
    /\ selecting.phase = "sent" /\ Len(journal[selecting.to]) < MaxEvents
    /\ selecting' = [selecting EXCEPT !.phase = "answered"]
    /\ journal' = [journal EXCEPT ![selecting.to] = Append(@, selecting.model)]
    /\ UNCHANGED <<exists, row, id, model, transcript, stream, held, opening,
                   creating, disconnected, timer, shut>>

SelectAnswered ==
    /\ selecting.phase = "answered"
    /\ selecting' = NoSelection
    /\ model' = selecting.model
    /\ UNCHANGED <<hostSide, row, id, transcript, stream, held, opening,
                   creating, disconnected, timer, shut>>

\* Refused, or the answer was lost: the window keeps the model it shows.
SelectFails ==
    /\ selecting # NoSelection
    /\ selecting' = NoSelection
    /\ UNCHANGED <<hostSide, row, id, model, transcript, stream, held, opening,
                   creating, disconnected, timer, shut>>

-----------------------------------------------------------------------------
(* The follow streams and their handlers                                   *)

\* A Host event in a Session: text, or another client's model selection.
HostWrites(s, e) ==
    /\ s \in exists /\ Len(journal[s]) < MaxEvents
    /\ e \in Model => Overlap \/ selecting = NoSelection
    /\ journal' = [journal EXCEPT ![s] = Append(@, e)]
    /\ UNCHANGED <<exists, row, id, model, transcript, stream, held, callSide,
                   disconnected, timer, shut>>

\* Mutant: the handler leaves the model to the list.
FoldIgnoresModel(k, from, to) ==
    LET s == stream[k].of
    IN /\ transcript' = transcript \o [i \in 1..(to - from + 1) |-> <<s, from + i - 1>>]
       /\ model' = model
       /\ stream' = [stream EXCEPT ![k] = [of |-> s, last |-> to, phase |-> "following"]]

\* onEvent for the records from..to of stream k's Session.
Fold(k, from, to) ==
    LET s == stream[k].of
    IN /\ transcript' = transcript \o [i \in 1..(to - from + 1) |-> <<s, from + i - 1>>]
       /\ model' = Selected(SubSeq(journal[s], from, to), model)
       /\ stream' = [stream EXCEPT ![k] = [of |-> s, last |-> to, phase |-> "following"]]

Snapshot(k) ==
    /\ stream[k].phase = "new"
    /\ Fold(k, 1, Len(journal[stream[k].of]))
    /\ UNCHANGED <<hostSide, row, id, held, callSide, disconnected, timer, shut>>

\* Mutant: a frame the snapshot already covered is folded again.
FrameAgain(k, n) ==
    /\ stream[k].phase = "following" /\ n <= stream[k].last + 1
    /\ n \in 1..Len(journal[stream[k].of])
    /\ IF n < stream[k].last
       THEN UNCHANGED <<transcript, model, stream>>
       ELSE Fold(k, n, n)
    /\ UNCHANGED <<hostSide, row, id, held, callSide, disconnected, timer, shut>>

\* An event frame: the next event, or one the stream has delivered already.
Frame(k, n) ==
    /\ stream[k].phase = "following" /\ n <= stream[k].last + 1
    /\ n \in 1..Len(journal[stream[k].of])
    /\ IF n <= stream[k].last
       THEN UNCHANGED <<transcript, model, stream>>
       ELSE Fold(k, n, n)
    /\ UNCHANGED <<hostSide, row, id, held, callSide, disconnected, timer, shut>>

\* onError of any stream: reconnect() sets the timer unless it is set.
Fails(k) ==
    /\ Live(k)
    /\ stream' = [stream EXCEPT ![k] = Gone]
    /\ held' = IF held = k THEN NoSlot ELSE held
    /\ IF shut \/ id = NoSid \/ timer
       THEN UNCHANGED <<disconnected, timer>>
       ELSE disconnected' = TRUE /\ timer' = TRUE
    /\ UNCHANGED <<hostSide, row, id, model, transcript, callSide, shut>>

\* Mutant: a timer set for one Session does not reopen another.
ReconnectOnlyWhenShown ==
    /\ timer /\ (Overlap \/ ~Opening)
    /\ timer' = FALSE
    /\ IF disconnected
       THEN OpenNow(id, row[id])
       ELSE UNCHANGED <<id, model, transcript, stream, held, opening, disconnected>>
    /\ UNCHANGED <<hostSide, row, creating, selecting, shut>>

Reconnect ==
    /\ timer /\ (Overlap \/ ~Opening)
    /\ timer' = FALSE
    /\ OpenNow(id, row[id])
    /\ UNCHANGED <<hostSide, row, creating, selecting, shut>>

\* The window closes: whatever is open dies with it.
Shut ==
    /\ ~shut
    /\ shut' = TRUE
    /\ stream' = Disposed /\ held' = NoSlot
    /\ timer' = FALSE
    /\ UNCHANGED <<hostSide, row, id, model, transcript, callSide, disconnected>>

-----------------------------------------------------------------------------
Init ==
    /\ exists = Existing
    /\ journal \in {j \in [Sid -> {<<>>} \cup {<<m>> : m \in Model}] :
                       \A s \in Sid \ Existing : j[s] = <<>>}
    /\ row = [s \in Sid |-> HostModel(s)]
    /\ id = NoSid
    /\ model = NoModel
    /\ transcript = <<>>
    /\ stream = [k \in Slot |-> Gone]
    /\ held = NoSlot
    /\ opening = [s \in Sid |-> 0]
    /\ creating = FALSE
    /\ selecting = NoSelection
    /\ disconnected = FALSE
    /\ timer = FALSE
    /\ shut = FALSE

Answer == (\E s \in Sid : CatalogArrives(s) \/ Created(s)) \/ CreateFails
          \/ HostSelects \/ SelectAnswered \/ SelectFails

Deliver == \E k \in Slot : Snapshot(k) \/ \E n \in 1..MaxEvents : Frame(k, n)

Next ==
    \/ \E s \in Sid : Open(s) \/ ListAdded(s)
    \/ \E s \in Sid, e \in Model \cup {Text} : HostWrites(s, e)
    \/ \E m \in Model : Select(m)
    \/ StartNew \/ Refresh \/ Shut
    \/ Answer \/ Deliver \/ Reconnect
    \/ \E k \in Slot : Fails(k)

Spec == Init /\ [][Next]_vars

\* Requests are answered or fail, an open stream delivers, and the timer fires;
\* a user need not do anything, and a stream that keeps failing may keep failing.
FairSpec ==
    /\ Spec
    /\ WF_vars(Answer) /\ WF_vars(Reconnect)
    /\ \A k \in Slot : WF_vars(Snapshot(k))
    /\ \A k \in Slot : WF_vars(Frame(k, stream[k].last + 1))

-----------------------------------------------------------------------------
SessionTypeOK ==
    /\ exists \subseteq Sid
    /\ journal \in [Sid -> Seq(Model \cup {Text})]
    /\ row \in [Sid -> Model \cup {NoModel}]
    /\ id \in Sid \cup {NoSid}
    /\ model \in Model \cup {NoModel}
    /\ transcript \in Seq(Sid \X Nat)
    /\ stream \in [Slot -> [of : Sid \cup {NoSid}, last : Nat, phase : {"gone", "new", "following"}]]
    /\ held \in Slot \cup {NoSlot}
    /\ opening \in [Sid -> Nat]
    /\ creating \in BOOLEAN /\ disconnected \in BOOLEAN /\ timer \in BOOLEAN /\ shut \in BOOLEAN
    /\ selecting \in [to : Sid \cup {NoSid}, model : Model \cup {NoModel},
                      phase : {"none", "sent", "answered"}]

\* The follow stream is the one subscription of the window, and it dies with the
\* window: a stream that nobody can dispose any more would fold another Session's
\* events, or the same ones twice, for as long as the Host lives.
OneSubscription == \A k \in Slot : Live(k) => held = k /\ stream[k].of = id /\ ~shut

\* What the window shows is the open Session's journal from its beginning, every
\* event once and in order, across switches, reconnects and overlapping frames.
TranscriptFaithful ==
    \A i \in 1..Len(transcript) : transcript[i] = <<id, i>>

\* One stream feeds the transcript, and each of its events once.
FollowsOneSession == OneSubscription /\ TranscriptFaithful

\* Two windows on one Session never disagree about its model: once the stream has
\* caught up, the model shown is the one the Session runs.
ModelShown ==
    ~Awaiting /\ held # NoSlot /\ stream[held].phase = "following"
        /\ stream[held].last = Len(journal[id]) /\ HostModel(id) # NoModel
        => model = HostModel(id)

\* A window that lost its stream follows its Session again, whatever the user,
\* the Host or the transport did meanwhile: no failure goes unnoticed.
FollowedAgain ==
    \A s \in Sid : (id = s /\ held = NoSlot) ~> (id # s \/ held # NoSlot \/ shut)

=============================================================================
