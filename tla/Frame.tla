-------------------------------- MODULE Frame --------------------------------
(***************************************************************************)
(* The columns of the window and who has the keyboard: the layout, rail    *)
(* and panes plugins, whose functions call each other synchronously.  Each *)
(* is an operator from window to window; a window w is a record of         *)
(*                                                                         *)
(*   columns, dragged      the terminal's width; the rail width a drag     *)
(*                         asked for (0: none did)                         *)
(*   railWanted, railShown, conversationWanted, conversationShown          *)
(*   paneOn, seat          paneId is set; whose view is in the pane seat   *)
(*   visible, last         the column painted, and the one painted before  *)
(*   runtime               the live process of each column                 *)
(*   railFocused, paneFocused   the flag that each plugin keeps            *)
(*   focus                 what screen.setFocus was last given: "composer",*)
(*                         "rail", "panel", or the view of a process       *)
(*   child, kind           each process, and the column it was started for *)
(*   slot                  the request whose panel is in the composer slot *)
(*   up, open              the dialogs on the screen, and the count that   *)
(*                         silences the global keys                        *)
(***************************************************************************)
EXTENDS Integers, FiniteSets

CONSTANT NoProc

Kind == {"terminal", "editor"}

\* Dialogs that belong to the editor column: one per leave() under way, and the conflict.
Leaver == {"first", "second"}
EditorModals == Leaver \cup {"conflict"}

-----------------------------------------------------------------------------
(* The arithmetic of the columns: view/layout.ts and plugins/layout.ts *)

SPLIT_MIN_SIZE == 32
RAIL_MIN_SIZE == 18
RAIL_MAX_SIZE == 24
RAIL_CONVERSATION_MIN == 34
MIN_SPLIT_COLUMNS == 82
SPLIT_GAP == 1

Least(a, b) == IF a < b THEN a ELSE b
Greatest(a, b) == IF a < b THEN b ELSE a

\* The default share: 15 in the hundred, rounded, between 18 and 24.
railWidthFor(columns) ==
    Least(RAIL_MAX_SIZE, Greatest(RAIL_MIN_SIZE, (15 * columns + 50) \div 100))

\* Mutant: the pane's share is forgotten.
railFitsWithoutPane(columns, withPane, railWidth) ==
    columns >= RAIL_MIN_SIZE + SPLIT_GAP + RAIL_CONVERSATION_MIN

railFits(columns, withPane, railWidth) ==
    /\ columns >= RAIL_MIN_SIZE + SPLIT_GAP + RAIL_CONVERSATION_MIN
    /\ withPane => columns >= railWidth + SPLIT_GAP + RAIL_CONVERSATION_MIN
                                + SPLIT_GAP + SPLIT_MIN_SIZE

\* Cells of gaps and rules beside the columns, and the pane's minimum.
chrome(withPane) == IF withPane THEN 6 + SPLIT_MIN_SIZE ELSE 3

railWidthLimit(columns, withPane) ==
    Greatest(RAIL_MIN_SIZE,
             Least(columns \div 2, columns - RAIL_CONVERSATION_MIN - chrome(withPane)))

\* The width asked of the rail; wanted is 0 until a divider was moved.
railWidthNow(columns, withPane, wanted) ==
    Least(railWidthLimit(columns, withPane) + 1,
          Greatest(RAIL_MIN_SIZE, IF wanted = 0 THEN railWidthFor(columns) ELSE wanted))

\* The width the rail is drawn at: its cell without the gap before the rule.
railDrawnWidth(railWidth) == Greatest(RAIL_MIN_SIZE, railWidth - 1)

\* The cells a frame with a rail cannot do without.
Needed(withPane, railWidth) ==
    railDrawnWidth(railWidth) + RAIL_CONVERSATION_MIN + chrome(withPane)

-----------------------------------------------------------------------------
(* plugins/layout.ts *)

paneShown(w) == w.paneOn /\ w.seat # "none"

\* The columns that fit at this width; one column always stays.
Lay(w) ==
    LET rail == /\ w.railWanted
                /\ railFits(w.columns, paneShown(w),
                            railWidthNow(w.columns, paneShown(w), w.dragged))
    IN  [w EXCEPT !.railShown = rail,
                  !.conversationShown = w.conversationWanted \/ (~rail /\ ~paneShown(w))]

\* Lay out, then the rail's listener: no keyboard on a rail that is not painted.
rebuild(w) ==
    LET laid == Lay(w)
        lost == [laid EXCEPT !.railFocused = FALSE, !.focus = "composer"]
    IN  IF ~laid.railFocused THEN laid
        ELSE IF laid.railShown THEN [laid EXCEPT !.focus = "rail"]
        ELSE IF laid.conversationShown THEN lost
        ELSE Lay([lost EXCEPT !.conversationWanted = TRUE])

setRailVisible(w, visible) ==
    IF w.railWanted = visible THEN w ELSE rebuild([w EXCEPT !.railWanted = visible])

\* Refused while it would leave the frame empty.
setConversationVisible(w, visible) ==
    IF \/ w.conversationWanted = visible
       \/ ~visible /\ ~w.railShown /\ ~w.paneOn
    THEN w
    ELSE rebuild([w EXCEPT !.conversationWanted = visible])

showConversation(w) ==
    IF w.conversationShown THEN w ELSE setConversationVisible(w, TRUE)

setPane(w, on) == IF w.paneOn = on THEN w ELSE rebuild([w EXCEPT !.paneOn = on])

\* The width the rail would be dragged to.
DraggedTo(w, delta) ==
    LET drawn == railDrawnWidth(railWidthNow(w.columns, w.paneOn, w.dragged))
    IN  Least(railWidthLimit(w.columns, w.paneOn) + 1,
              Greatest(RAIL_MIN_SIZE, drawn + 1 + delta))

\* Without the conversation, the step resizes the pane, whose width no rule reads.
moveRailDivider(w, delta) ==
    IF \/ ~w.conversationShown
       \/ DraggedTo(w, delta) = railWidthNow(w.columns, w.paneOn, w.dragged)
    THEN w
    ELSE rebuild([w EXCEPT !.dragged = DraggedTo(w, delta)])

\* The removal that register() returned for this column.
vacate(w, kind) == IF w.seat = kind THEN rebuild([w EXCEPT !.seat = "none"]) ELSE w

-----------------------------------------------------------------------------
(* plugins/overlays.ts *)

Open(w, dialog) == [w EXCEPT !.up = @ \cup {dialog}, !.open = @ + 1]

Settle(w, dialogs) == [w EXCEPT !.up = @ \ dialogs, !.open = @ - Cardinality(w.up \cap dialogs)]

cancelEditorModals(w) == Settle(w, EditorModals)

-----------------------------------------------------------------------------
(* plugins/panes.ts *)

\* Mutant: the flag is dropped, the focus stays.
blurPaneFlagOnly(w) == [w EXCEPT !.paneFocused = FALSE]

blurPane(w) ==
    IF w.paneFocused
    THEN [showConversation([w EXCEPT !.paneFocused = FALSE]) EXCEPT !.focus = "composer"]
    ELSE w

close(w) ==
    LET left   == blurPane([w EXCEPT !.last = IF w.visible = "none" THEN @ ELSE w.visible])
        hidden == setPane([left EXCEPT !.visible = "none"], FALSE)
    IN  IF ~w.paneOn THEN w
        ELSE IF w.paneFocused THEN [hidden EXCEPT !.focus = "composer"] ELSE hidden

\* Mutant: the process goes on.
disposeNothing(w, p) == w

\* ScreenSession.dispose(): a process that is still there is killed, and its exit is ignored.
disposeSession(w, p) == [w EXCEPT !.child[p] = IF @ = "alive" THEN "killed" ELSE @]

\* Mutant: the editor's dialogs stay on the screen.
dropDialogsKept(w, kind) ==
    LET gone == disposeSession(vacate([w EXCEPT !.runtime[kind] = NoProc], kind), w.runtime[kind])
    IN  IF w.runtime[kind] = NoProc THEN w
        ELSE IF gone.visible = kind THEN close(gone) ELSE gone

drop(w, kind) ==
    LET gone    == vacate([w EXCEPT !.runtime[kind] = NoProc], kind)
        settled == disposeSession(IF kind = "editor" THEN cancelEditorModals(gone) ELSE gone,
                                  w.runtime[kind])
    IN  IF w.runtime[kind] = NoProc THEN w
        ELSE IF settled.visible = kind THEN close(settled) ELSE settled

reset(w) == drop(drop(close(w), "terminal"), "editor")

\* Each process is killed without a close(): the window is going away.
disposePanes(w) ==
    LET bare == vacate(vacate([w EXCEPT !.paneFocused = FALSE, !.visible = "none"],
                              "terminal"), "editor")
        killed(kind, v) == IF w.runtime[kind] = NoProc THEN v
                           ELSE disposeSession(v, w.runtime[kind])
    IN  [killed("terminal", killed("editor", bare)) EXCEPT
            !.runtime = [kind \in Kind |-> NoProc]]

\* open() with the process that was started, for a column that has none.
mount(w, kind, p) == [w EXCEPT !.runtime[kind] = p, !.child[p] = "alive", !.kind[p] = kind]

\* focus(), once open() has succeeded.
focusPane(w, kind) ==
    LET named  == [w EXCEPT !.visible = kind, !.last = kind, !.paneFocused = TRUE]
        seated == rebuild([vacate(named, kind) EXCEPT !.seat = kind])
    IN  [setPane(seated, TRUE) EXCEPT !.focus = w.runtime[kind]]

\* The column Ctrl-] goes to: the painted one, the last one, the editor first.
switchable(w) ==
    LET live == {kind \in Kind : w.runtime[kind] # NoProc}
    IN  IF w.visible # "none" THEN w.visible
        ELSE IF w.last \in live THEN w.last
        ELSE IF "editor" \in live THEN "editor"
        ELSE IF live = {} THEN "none" ELSE "terminal"

-----------------------------------------------------------------------------
(* plugins/rail.ts *)

blurRail(w) ==
    IF w.railFocused
    THEN [showConversation([w EXCEPT !.railFocused = FALSE]) EXCEPT !.focus = "composer"]
    ELSE w

\* Whether it fits is asked with the width it is drawn at, not with the width rebuild() uses.
focusRail(w) ==
    IF railFits(w.columns, w.paneOn,
                railDrawnWidth(railWidthNow(w.columns, w.paneOn, w.dragged)))
    THEN [setRailVisible([w EXCEPT !.railFocused = TRUE], TRUE) EXCEPT !.focus = "rail"]
    ELSE w

toggleRail(w) ==
    LET away == showConversation(setRailVisible([w EXCEPT !.railFocused = FALSE], FALSE))
    IN  IF ~w.railShown THEN focusRail(w)
        ELSE IF w.railFocused THEN [away EXCEPT !.focus = "composer"] ELSE away
=============================================================================
