-------------------------------- MODULE Thinking --------------------------------
(***************************************************************************)
(* The thinking level of the open Session: what the footer names, /thinking*)
(* with and without a level, and Shift-Tab.  Each reads the Host's         *)
(* catalog, computes a selection from it and from the model the window     *)
(* shows, sends it and adopts it with the answer; the journal tells of     *)
(* every selection, its own and another client's.                          *)
(***************************************************************************)
EXTENDS Integers, Sequences, SequencesExt, FiniteSets

CONSTANTS
    Model,
    Efforts,        \* Model -> the levels it advertises, in order
    DefaultEffort,  \* Model -> the level of a selection without one
    Op,             \* commands that may be under way
    Writes,         \* selections that another client makes
    Careless        \* a command may begin, and another client select, while one is under way

VARIABLES
    session,    \* Host: the selection of the Session
    default,    \* Host: the selection for new ones, which every selection replaces
    events,     \* selections of the journal that the window has not received
    model, catalog, \* the window: the selection it shows, the default of the catalog it keeps
    op,         \* Op -> where the command is
    writes,
    applied     \* the last selection of a Shift-Tab, with the level that was in effect before
thinking == <<session, default, events, model, catalog, op, writes, applied>>

NoLevel == "none"
Selection == [model : Model, level : UNION {Range(Efforts[m]) : m \in Model} \cup {NoLevel}]
Fits(s) == s.level \in Range(Efforts[s.model]) \cup {NoLevel}
Unread == [model |-> "none", level |-> NoLevel]
Idle == [stage |-> "idle", kind |-> "none", to |-> Unread]

ThinkingInit ==
    /\ session \in {s \in Selection : Fits(s)} /\ default = session
    /\ events = <<>> /\ model = session /\ catalog = Unread
    /\ op = [c \in Op |-> Idle] /\ writes = 0
    /\ applied = [from |-> Unread, to |-> Unread]

-----------------------------------------------------------------------------
\* Mutant: a selection that names no level has none.
levelGiven(s, c) == s.level
thinkingLevelOf(s, c) ==
    IF s.level # NoLevel \/ c = Unread THEN s.level ELSE DefaultEffort[s.model]
thinkingLevelsOf(s) == Efforts[s.model]
\* What a new Session would start at, when that is on this route.
defaultThinkingLevelOf(s, c) ==
    IF c = Unread \/ c.model # s.model THEN NoLevel ELSE thinkingLevelOf(c, c)

\* The level the Host runs a selection at.
Effective(s) == IF s.level # NoLevel THEN s.level ELSE DefaultEffort[s.model]

\* Mutant: the level under the cursor again.
nextAt(levels, current) ==
    LET n == IF current \in Range(levels) THEN CHOOSE i \in 1 .. Len(levels) : levels[i] = current ELSE 0
    IN  levels[IF n = Len(levels) THEN n ELSE n + 1]
\* Round the levels, from the first when the current one is not among them.
nextLevel(levels, current) ==
    LET n == IF current \in Range(levels) THEN CHOOSE i \in 1 .. Len(levels) : levels[i] = current ELSE 0
    IN  levels[(n % Len(levels)) + 1]

Quiet == (\A c \in Op : op[c] = Idle) /\ events = <<>>
Becomes(c, to) == op' = [op EXCEPT ![c] = to]

\* /thinking, /thinking level, Shift-Tab; and /model, which has no need of the catalog here.
Press(c, kind) ==
    /\ op[c] = Idle /\ (Careless \/ Quiet)
    /\ Becomes(c, [stage |-> "catalog", kind |-> kind, to |-> Unread])
    /\ UNCHANGED <<session, default, events, model, catalog, writes, applied>>

loadThinking(c) ==
    LET levels == thinkingLevelsOf(model)
    IN  /\ op[c].stage = "catalog" /\ catalog' = default
        /\ IF levels = <<>> THEN Becomes(c, Idle)
           ELSE CASE op[c].kind = "cycle" ->
                       Becomes(c, [stage |-> "sent", kind |-> "cycle",
                         to |-> [model |-> model.model, level |-> nextLevel(levels, thinkingLevelOf(model, default))]])
                  [] op[c].kind = "named" ->    \* an unknown name is an error
                       \E level \in Range(levels) \cup {NoLevel} :
                          Becomes(c, IF level = NoLevel THEN Idle
                                     ELSE [stage |-> "sent", kind |-> "named", to |-> [model |-> model.model, level |-> level]])
                  [] OTHER -> Becomes(c, [op[c] EXCEPT !.stage = "panel", !.to = model])
        /\ UNCHANGED <<session, default, events, model, writes, applied>>

loadFails(c) ==
    /\ op[c].stage = "catalog" /\ Becomes(c, Idle)
    /\ UNCHANGED <<session, default, events, model, catalog, writes, applied>>

\* The panel is about the route that it was opened for.
chooseThinking(c) ==
    /\ op[c].stage = "panel"
    /\ \/ Becomes(c, Idle)
       \/ \E level \in Range(thinkingLevelsOf(op[c].to)) :
             Becomes(c, [op[c] EXCEPT !.stage = "sent", !.to.level = level])
    /\ UNCHANGED <<session, default, events, model, catalog, writes, applied>>

\* The Host takes a selection: it is the default for new Sessions too.
Selects(s) == session' = s /\ default' = s /\ events' = Append(events, s)

HostApplies(c) ==
    /\ op[c].stage = "sent" /\ Selects(op[c].to) /\ Becomes(c, [op[c] EXCEPT !.stage = "applied"])
    /\ applied' = IF op[c].kind = "cycle" THEN [from |-> session, to |-> op[c].to] ELSE applied
    /\ UNCHANGED <<model, catalog, writes>>

commitSelection(c) ==
    /\ op[c].stage = "applied" /\ Becomes(c, Idle)
    /\ model' = op[c].to
    /\ catalog' = IF catalog = Unread THEN catalog ELSE op[c].to
    /\ UNCHANGED <<session, default, events, writes, applied>>
\* Refused, or the answer is lost.
commitFails(c) ==
    /\ op[c].stage \in {"sent", "applied"} /\ Becomes(c, Idle)
    /\ UNCHANGED <<session, default, events, model, catalog, writes, applied>>

\* model/selection in the journal.
onEvent ==
    /\ events # <<>> /\ model' = Head(events) /\ events' = Tail(events)
    /\ UNCHANGED <<session, default, catalog, op, writes, applied>>

OtherClient(s) ==
    /\ writes < Writes /\ Fits(s) /\ s # session
    /\ Careless \/ \A c \in Op : op[c].stage \in {"idle", "panel"}
    /\ Selects(s) /\ writes' = writes + 1
    /\ UNCHANGED <<model, catalog, op, applied>>

ThinkingNext ==
    \/ \E c \in Op :
          \/ \E kind \in {"cycle", "named", "panel"} : Press(c, kind)
          \/ loadThinking(c) \/ loadFails(c) \/ chooseThinking(c)
          \/ HostApplies(c) \/ commitSelection(c) \/ commitFails(c)
    \/ onEvent \/ \E s \in Selection : OtherClient(s)

-----------------------------------------------------------------------------
\* With nothing under way, and the catalog read, the level in the footer is the one the
\* Host runs at, whoever selected it and whatever was refused.
LevelShown ==
    Quiet => /\ model = session
             /\ catalog # Unread => thinkingLevelOf(model, catalog) = Effective(session)

\* Each Shift-Tab is one step round the levels of the model in effect at the Host.
EachPressIsOneLevel ==
    applied.to = Unread \/ LET levels == Efforts[applied.from.model] IN
        /\ applied.to.model = applied.from.model
        /\ \E i \in 1 .. Len(levels) : levels[i] = Effective(applied.from) /\ applied.to.level = levels[(i % Len(levels)) + 1]
=============================================================================
