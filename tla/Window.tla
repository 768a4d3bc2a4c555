------------------------------- MODULE Window -------------------------------
(***************************************************************************)
(* One window of the terminal client: the keys, the columns, the programs  *)
(* in them, the dialogs and panels that take the keyboard, and the quit    *)
(* that asks the editor first.                                             *)
(*                                                                         *)
(* A process that nobody uses is "free"; a started one is "alive", then    *)
(* "exited" when it ended by itself, or "killed" when the client disposed  *)
(* of it; its exit event frees it.  The model keeps one approval and one   *)
(* conflict dialog at a time (the other dialogs behave as the approval     *)
(* does), two leave() calls under way, and rail widths up to MaxDrag.      *)
(***************************************************************************)
EXTENDS Frame, TLC

CONSTANTS
    Proc,      \* processes that may run in the columns
    Request,   \* /model and /login commands, which show a panel when the Host has answered
    Widths,    \* terminal widths
    MaxDrag,   \* the widest rail a drag asks for
    Patient    \* the user presses no key while such a command waits for the Host

ASSUME WindowAssumption ==
    /\ NoProc \notin Proc
    /\ "composer" \notin Proc \cup Request
    /\ Widths \subseteq Nat /\ MaxDrag \in Nat /\ Patient \in BOOLEAN

VARIABLES
    w,         \* the window: see Frame
    leaving,   \* each leave(): "no", "asked" to quit, "discarding"; its dialog is in w.up
    quits,     \* the leave() calls that a quit waits for
    request,   \* each command: "none", "waiting" for the Host, "shown"
    closing    \* "no", "closing", "closed"

vars == <<w, leaving, quits, request, closing>>

Free == {p \in Proc : w.child[p] = "free"}

\* Processes have no names.
Symmetric == Permutations(Proc)

TypeOK ==
    /\ w.runtime \in [Kind -> Proc \cup {NoProc}]
    /\ w.child \in [Proc -> {"free", "alive", "exited", "killed"}]
    /\ w.kind \in [Proc -> Kind]
    /\ w.up \subseteq EditorModals \cup {"approval"}
    /\ w.open \in Nat
    /\ leaving \in [Leaver -> {"no", "asked", "discarding"}]
    /\ quits \subseteq Leaver
    /\ request \in [Request -> {"none", "waiting", "shown"}]
    /\ closing \in {"no", "closing", "closed"}

\* The first frame: the rail is on when it fits, the composer has the keyboard.
Init ==
    /\ \E columns \in Widths :
         w = Lay([columns |-> columns, dragged |-> 0,
                  railWanted |-> TRUE, railShown |-> FALSE,
                  conversationWanted |-> TRUE, conversationShown |-> TRUE,
                  paneOn |-> FALSE, seat |-> "none", visible |-> "none", last |-> "none",
                  runtime |-> [kind \in Kind |-> NoProc],
                  railFocused |-> FALSE, paneFocused |-> FALSE, focus |-> "composer",
                  child |-> [p \in Proc |-> "free"], kind |-> [p \in Proc |-> "terminal"],
                  slot |-> "composer", up |-> {}, open |-> 0])
    /\ leaving = [l \in Leaver |-> "no"]
    /\ quits = {}
    /\ request = [r \in Request |-> "none"]
    /\ closing = "no"

Only(v) == w' = v /\ UNCHANGED <<leaving, quits, request, closing>>

-----------------------------------------------------------------------------
(* leave() and shutdown() *)

Idle(l) == leaving[l] = "no" /\ l \notin w.up

\* app.ts: shutdown() up to the close of the connection.
Shutdown(v) == w' = disposePanes(v) /\ closing' = "closing"

\* panes.leave() while an editor runs: ":qa" is typed into it.
BeginLeave(v, quit) ==
    \E l \in Leaver :
        /\ Idle(l)
        /\ w' = v
        /\ leaving' = [leaving EXCEPT ![l] = "asked"]
        /\ quits' = IF quit THEN quits \cup {l} ELSE quits \ {l}
        /\ UNCHANGED <<request, closing>>

\* requestShutdown()
Quit ==
    IF w.runtime["editor"] = NoProc
    THEN Shutdown(w) /\ UNCHANGED <<leaving, quits, request>>
    ELSE BeginLeave(w, TRUE)

\* gone(): the poll finds the editor gone, and leave() returns true.
Left(l) ==
    /\ leaving[l] # "no" /\ w.runtime["editor"] = NoProc
    /\ leaving' = [leaving EXCEPT ![l] = "no"]
    /\ IF l \in quits /\ closing = "no" THEN Shutdown(w) ELSE UNCHANGED <<w, closing>>
    /\ UNCHANGED <<quits, request>>

\* The editor is still there at the deadline: the dialog asks.
Refused(l) ==
    /\ leaving[l] = "asked" /\ w.runtime["editor"] # NoProc
    /\ leaving' = [leaving EXCEPT ![l] = "no"]
    /\ w' = Open(w, l)
    /\ UNCHANGED <<quits, request, closing>>

\* ":qa!" did not end it in 800 ms either: leave() returns false.
NotDiscarded(l) ==
    /\ leaving[l] = "discarding" /\ w.runtime["editor"] # NoProc
    /\ leaving' = [leaving EXCEPT ![l] = "no"]
    /\ UNCHANGED <<w, quits, request, closing>>

\* The user settles the dialog: cancel, discard, or save and ask again.
Decide(l) ==
    /\ closing = "no" /\ l \in w.up
    /\ w' = Settle(w, {l})
    /\ \E next \in {"no", "discarding", "asked"} : leaving' = [leaving EXCEPT ![l] = next]
    /\ UNCHANGED <<quits, request, closing>>

\* The connection is closed and the context disposes of every plugin.
Dispose ==
    /\ closing = "closing" /\ closing' = "closed"
    /\ w' = cancelEditorModals(setPane(disposePanes(w), FALSE))
    /\ UNCHANGED <<leaving, quits, request>>

-----------------------------------------------------------------------------
(* The columns' keys *)

\* focus(): a column that has no process starts one, or a notice says why not.
FocusColumn(v, kind) ==
    \/ v.runtime[kind] # NoProc /\ Only(focusPane(v, kind))
    \/ /\ v.runtime[kind] = NoProc /\ v.columns >= MIN_SPLIT_COLUMNS
       /\ \E p \in Free : Only(focusPane(mount(v, kind, p), kind))
    \/ v.runtime[kind] = NoProc /\ Only(v)

\* toggle(): a painted terminal is hidden, a painted editor is asked to leave.
Toggle(v, kind) ==
    IF v.visible = kind /\ v.paneOn
    THEN IF kind = "terminal" THEN Only(close(v))
         ELSE IF v.runtime["editor"] = NoProc THEN Only(v) ELSE BeginLeave(v, FALSE)
    ELSE FocusColumn(v, kind)

\* Ctrl-D.
ToggleConversation ==
    LET hidden == setConversationVisible(w, FALSE)
        back   == setConversationVisible(w, TRUE)
    IN  IF w.conversationShown
        THEN IF \/ ~w.railShown /\ ~w.paneOn
                \/ w.paneFocused \/ w.railFocused
             THEN Only(hidden)
             ELSE IF w.visible # "none" THEN FocusColumn(hidden, w.visible)
             ELSE Only(focusRail(hidden))
        ELSE Only(IF back.paneFocused THEN blurPane(back)
                  ELSE IF back.railFocused THEN blurRail(back)
                  ELSE [back EXCEPT !.focus = "composer"])

\* A step of the rail's rule; the pane's own rule moves nothing that is kept here.
MoveDivider ==
    /\ w.railShown /\ w.conversationShown /\ ~(w.paneFocused /\ w.paneOn)
    /\ \E delta \in {-2, 2} :
         DraggedTo(w, delta) <= MaxDrag /\ Only(moveRailDivider(w, delta))

RailKey ==
    /\ w.railFocused
    /\ \/ Only(toggleRail(w))                                   \* Ctrl-G
       \/ \E kind \in Kind : Toggle(blurRail(w), kind)          \* Ctrl-T, Ctrl-F
       \/ Only(blurRail(w))                                     \* Ctrl-], Esc

\* Esc is the program's own while it has something to cancel.
PaneKey ==
    /\ w.paneFocused /\ ~w.railFocused
    /\ \/ Only(blurPane(w))                                     \* Ctrl-[
       \/ \E kind \in Kind : Toggle(w, kind)                    \* Ctrl-T, Ctrl-F
       \/ Only(toggleRail(IF w.railShown THEN w ELSE blurPane(w)))  \* Ctrl-G

ComposerKey ==
    /\ ~w.paneFocused /\ ~w.railFocused
    /\ \/ w.railWanted /\ Only(focusRail(w))                    \* Esc
       \/ switchable(w) # "none" /\ FocusColumn(w, switchable(w))  \* Ctrl-]
       \/ \E kind \in Kind : Toggle(w, kind)                    \* Ctrl-T, Ctrl-F, /terminal
       \/ Only(toggleRail(w))                                   \* Ctrl-G

\* The input listener answers while no dialog and no panel holds the keyboard.
Key ==
    /\ closing = "no" /\ w.open = 0
    /\ Patient => \A r \in Request : request[r] # "waiting"
    /\ \/ Quit \/ ToggleConversation \/ MoveDivider
       \/ RailKey \/ PaneKey \/ ComposerKey

-----------------------------------------------------------------------------
(* Panels in the composer's place *)

\* /model and /login, typed into the composer: they ask the Host first.
Ask(r) ==
    /\ closing = "no" /\ w.focus = "composer" /\ w.open = 0
    /\ Patient => \A q \in Request : request[q] # "waiting"
    /\ request[r] = "none" /\ request' = [request EXCEPT ![r] = "waiting"]
    /\ UNCHANGED <<w, leaving, quits, closing>>

\* composer.panel()
ShowPanel(r) ==
    /\ closing = "no" /\ request[r] = "waiting"
    /\ request' = [request EXCEPT ![r] = "shown"]
    /\ w' = [w EXCEPT !.open = @ + 1, !.slot = r, !.focus = "panel"]
    /\ UNCHANGED <<leaving, quits, closing>>

\* The panel in the slot has the keyboard; it settles, or the Host's answer showed nothing.
Answer(r) ==
    /\ closing = "no" /\ w.slot = r /\ w.focus = "panel"
    /\ request' = [request EXCEPT ![r] = "none"]
    /\ w' = [w EXCEPT !.open = @ - 1, !.slot = "composer", !.focus = "composer"]
    /\ UNCHANGED <<leaving, quits, closing>>

Unanswered(r) ==
    /\ request[r] = "waiting" /\ request' = [request EXCEPT ![r] = "none"]
    /\ UNCHANGED <<w, leaving, quits, closing>>

-----------------------------------------------------------------------------
(* What happens around the window *)

\* An approval is asked for; it is answered, or the turn that asked is aborted.
AskApproval == closing = "no" /\ "approval" \notin w.up /\ Only(Open(w, "approval"))
SettleApproval == closing = "no" /\ "approval" \in w.up /\ Only(Settle(w, {"approval"}))

\* The timer of a running editor finds a reported conflict; the answer types into the editor.
AskConflict ==
    /\ closing = "no" /\ w.runtime["editor"] # NoProc /\ "conflict" \notin w.up
    /\ Only(Open(w, "conflict"))
SettleConflict == closing = "no" /\ "conflict" \in w.up /\ Only(Settle(w, {"conflict"}))

Exit(p) == w.child[p] = "alive" /\ Only([w EXCEPT !.child[p] = "exited"])

\* Mutant: the handler does not look at the disposed flag.
DisposedNever(p) == FALSE

\* The session was disposed of: another process has its column, or none.
Disposed(p) == w.runtime[w.kind[p]] # p

\* The pty reports that the process is gone.
ExitEvent(p) ==
    /\ w.child[p] \in {"exited", "killed"}
    /\ Only([(IF Disposed(p) THEN w ELSE drop(w, w.kind[p])) EXCEPT
                !.child[p] = "free", !.kind[p] = "terminal"])

\* session.open() of another Session, or in another directory.
SwitchSession == closing = "no" /\ Only(reset(w))

\* hulala/session-opened, and the end of an open that the rail began.
SessionOpened == closing # "closed" /\ Only(blurRail(w))

\* Mutant: a window without a pane is not laid out again.
ResizedPaneOnly(v) == IF v.paneOn THEN rebuild(v) ELSE v

Resized(v) == IF v.paneOn \/ v.railWanted THEN rebuild(v) ELSE v

Resize ==
    /\ closing # "closed"
    /\ \E columns \in Widths : Only(Resized([w EXCEPT !.columns = columns]))

Next ==
    \/ Key \/ Dispose
    \/ \E l \in Leaver : Left(l) \/ Refused(l) \/ NotDiscarded(l) \/ Decide(l)
    \/ \E r \in Request : Ask(r) \/ ShowPanel(r) \/ Answer(r) \/ Unanswered(r)
    \/ AskApproval \/ SettleApproval \/ AskConflict \/ SettleConflict
    \/ \E p \in Proc : Exit(p) \/ ExitEvent(p)
    \/ SwitchSession \/ SessionOpened \/ Resize

Spec == Init /\ [][Next]_vars

-----------------------------------------------------------------------------
(* Properties *)

\* The keyboard has one home: the flags of the rail and the panes plugin, the component that
\* has the focus and the columns on the screen agree.
KeyboardHome ==
    closing = "no" =>
        /\ ~(w.railFocused /\ w.paneFocused)
        /\ w.railFocused => w.railShown /\ w.focus = "rail"
        /\ w.paneFocused => /\ paneShown(w) /\ w.seat = w.visible
                            /\ w.focus = w.runtime[w.visible]
        /\ ~w.railFocused /\ ~w.paneFocused =>
               w.focus = IF w.slot = "composer" THEN "composer" ELSE "panel"

\* The keyboard does not stay on a column that is not painted (rail.ts:259-260): not on the
\* composer of a conversation that is put away either.
ComposerPainted ==
    closing = "no" /\ w.focus \in {"composer", "panel"} => w.conversationShown

\* Global keys come back: every hold belongs to a dialog on the screen or to the panel in the
\* composer's place, and an editor's dialog to an editor that runs.
HoldAnswered ==
    closing = "no" =>
        /\ w.open = Cardinality(w.up) + (IF w.slot = "composer" THEN 0 ELSE 1)
        /\ w.up \cap EditorModals # {} => w.runtime["editor"] # NoProc

\* A program ends by itself, with the Session, or with the window: nothing else takes a live
\* process out of its column.
ProgramKept ==
    [][\A kind \in Kind :
         LET p == w.runtime[kind]
         IN  p # NoProc /\ w.runtime'[kind] # p =>
               w.child[p] = "exited" \/ SwitchSession \/ closing' # "no"]_vars

\* No program runs that the window does not know, and none after it is closed.
NoneLeftBehind ==
    \A p \in Proc : w.child[p] = "alive" =>
        w.runtime[w.kind[p]] = p /\ closing = "no"

\* What is painted is what fits the terminal as it is: no resize, drag or column left the
\* frame stale.
FrameCurrent == closing = "no" => w = Lay(w)

\* Keys go to a column that is painted, and every column is painted where it is.
KeysFollowTheFrame == KeyboardHome /\ FrameCurrent
=============================================================================
