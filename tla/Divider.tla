------------------------------- MODULE Divider -------------------------------
(***************************************************************************)
(* The rules between the columns: what a drag, a key and a resize of the   *)
(* terminal make of the widths (plugins/panes.ts, plugins/layout.ts, the   *)
(* builders of view/layout.ts), and the gesture that a rule recognises     *)
(* (view/splitDivider.ts).  A frame f is a record of                       *)
(*                                                                         *)
(*   columns                 the terminal's width                          *)
(*   dragged                 the rail width a drag asked for (0: none)     *)
(*   ratio                   the pane's share, a fraction <<n, d>>         *)
(*   rail, pane, conversation   which columns are asked for                *)
(*   tree                    what is drawn: the kind of tree, the width of *)
(*                           the rail in it, the width asked of the pane,  *)
(*                           and the basis it has for it                   *)
(*                                                                         *)
(* Columns of the screen are counted from 0, as screenX is.  The pointer   *)
(* only moves to Points; there are at most MaxKeys key steps.              *)
(***************************************************************************)
EXTENDS Frame

CONSTANTS
    Widths,      \* terminal widths
    Points,      \* columns the pointer may be in
    MaxKeys,     \* bound: key steps
    Flaws        \* what terminals do: "mislabels" a resting pointer as one with a button
                 \* down, "loses" a release outside the window, or "both"

VARIABLES
    f,         \* the frame
    focused,   \* the pane has the keyboard
    held,      \* the rule on which the button went down and is down still
    pressed,   \* what each rule believes of the button
    steps,     \* key steps so far
    moved,     \* the last step: a drag or key, its rule and where it takes it
    flaw       \* of this terminal

dividers == <<f, focused, held, pressed, steps, moved, flaw>>

Rule == {"rail", "pane"}

DIVIDER_STEP == 2

-----------------------------------------------------------------------------
(* Widths *)

\* The width asked of the pane: its share, rounded, with room for the conversation.
paneColumns(g) ==
    Greatest(SPLIT_MIN_SIZE,
             Least(g.columns - SPLIT_MIN_SIZE - 1,
                   (2 * g.columns * g.ratio[1] + g.ratio[2]) \div (2 * g.ratio[2])))

\* The tree of each combination of columns; a pane is one cell narrower than asked.
Built(g) ==
    LET r       == railWidthNow(g.columns, g.pane, g.dragged)
        railOn  == g.rail /\ railFits(g.columns, g.pane, r)
        talking == g.conversation \/ (~railOn /\ ~g.pane)
    IN  [kind |-> IF ~talking THEN (IF railOn /\ g.pane THEN "sides" ELSE "alone")
                  ELSE IF railOn /\ g.pane THEN "railSplit"
                  ELSE IF railOn THEN "rail"
                  ELSE IF g.pane THEN "split" ELSE "plain",
         rail |-> railDrawnWidth(r),
         asked |-> paneColumns(g),
         pane |-> Greatest(SPLIT_MIN_SIZE, paneColumns(g) - 1)]

rebuilt(g) == [g EXCEPT !.tree = Built(g)]

\* The tree is kept and the pane put into it anew, in the tree without a
\* conversation with the whole width as its basis.
setPaneWidth(g) ==
    IF g.tree.kind \notin {"split", "railSplit", "sides"} \/ g.tree.asked = paneColumns(g) THEN g
    ELSE [g EXCEPT !.tree.asked = paneColumns(g),
                   !.tree.pane = IF g.tree.kind = "sides" THEN paneColumns(g) ELSE Built(g).pane]

\* The cells that the conversation, the rail and the rules leave the pane.
room(g) ==
    CASE g.tree.kind = "split"     -> g.columns - SPLIT_MIN_SIZE - 3
      [] g.tree.kind = "railSplit" -> g.columns - g.tree.rail - RAIL_CONVERSATION_MIN - 6
      [] g.tree.kind = "sides"     -> g.columns - RAIL_MIN_SIZE - 3

\* The pane as the stack of columns draws it: it gives way down to its minimum.
paneDrawn(g) == Greatest(SPLIT_MIN_SIZE, Least(g.tree.pane, room(g)))

Drawn(g) ==
    CASE g.tree.kind \in {"rail", "sides"} -> {"rail"}
      [] g.tree.kind = "split"             -> {"pane"}
      [] g.tree.kind = "railSplit"         -> Rule
      [] OTHER                             -> {}

\* The column in which a rule is drawn.
At(g, rule) ==
    IF rule = "pane" \/ g.tree.kind = "sides" THEN g.columns - paneDrawn(g) - 2 ELSE g.tree.rail + 1

-----------------------------------------------------------------------------
(* Moving a rule *)

\* The share that puts the pane's rule in column x, between a quarter and three.
Share(x, width) ==
    IF 4 * (width - x - 1) < width THEN <<1, 4>>
    ELSE IF 4 * (width - x - 1) > 3 * width THEN <<3, 4>>
    ELSE <<width - x - 1, width>>

dragDividerTo(g, x) == setPaneWidth([g EXCEPT !.ratio = Share(x, g.columns)])

railDividerColumn(g) ==
    IF g.tree.kind \in {"sides", "alone"} THEN g.columns - paneColumns(g) - 1
    ELSE railDrawnWidth(railWidthNow(g.columns, g.pane, g.dragged)) + 1

\* Without a conversation the rail's rule is the pane's edge.
moveRailRule(g, delta) ==
    LET next == Least(railWidthLimit(g.columns, g.pane) + 1,
                      Greatest(RAIL_MIN_SIZE, railDividerColumn(g) + delta))
    IN  IF delta = 0 THEN g
        ELSE IF g.tree.kind \in {"sides", "alone"}
        THEN IF g.pane THEN dragDividerTo(g, g.columns - (paneColumns(g) - delta) - 1) ELSE g
        ELSE IF next = railWidthNow(g.columns, g.pane, g.dragged) THEN g
        ELSE rebuilt([g EXCEPT !.dragged = next])

\* Where the pointer takes the rule it holds.
dragTo(g, rule, x) ==
    IF rule = "rail" THEN moveRailRule(g, x - railDividerColumn(g)) ELSE dragDividerTo(g, x)

\* The rule that a key moves, and where to.
keyRule(g) == IF "pane" \in Drawn(g) /\ (focused \/ "rail" \notin Drawn(g)) THEN "pane" ELSE "rail"

\* A key steps from the width that is asked for, not from the one that is drawn.
keyColumn(g, direction) ==
    direction * DIVIDER_STEP
        + (IF keyRule(g) = "pane" THEN g.columns - paneColumns(g) - 1 ELSE railDividerColumn(g))

keyTo(g, direction) == dragTo(g, keyRule(g), keyColumn(g, direction))

-----------------------------------------------------------------------------
Still == [by |-> "none", rule |-> "rail", to |-> 0]

DividerInit ==
    /\ \E c \in Widths :
          f = rebuilt([columns |-> c, dragged |-> 0, ratio |-> <<1, 3>>, rail |-> TRUE, pane |-> FALSE,
                       conversation |-> TRUE, tree |-> [kind |-> "plain", rail |-> 0, asked |-> 0, pane |-> 0]])
    /\ focused = FALSE /\ held = "none" /\ pressed = [r \in Rule |-> FALSE] /\ steps = 0 /\ moved = Still
    /\ flaw \in Flaws

Press(r) ==
    /\ held = "none" /\ r \in Drawn(f)
    /\ held' = r /\ pressed' = [pressed EXCEPT ![r] = TRUE] /\ moved' = Still
    /\ UNCHANGED <<f, focused, steps>>

\* A motion reported with a button down, at a rule that may not have seen it go down.
Motion(r, x) ==
    /\ r \in Drawn(f)
    /\ held = r \/ (held = "none" /\ flaw \in {"mislabels", "both"})
    /\ f' = IF pressed[r] THEN dragTo(f, r, x) ELSE f
    /\ moved' = IF pressed[r] THEN [by |-> "pointer", rule |-> r, to |-> x] ELSE Still
    /\ UNCHANGED <<focused, held, pressed, steps>>

Release(r) ==
    /\ held = r /\ held' = "none" /\ moved' = Still
    /\ pressed' = [pressed EXCEPT ![r] = FALSE]
    /\ UNCHANGED <<f, focused, steps>>

\* A motion without a button makes up for a release that was lost.
Hover(r) ==
    /\ held = "none" /\ flaw \in {"none", "loses"} /\ r \in Drawn(f)
    /\ pressed' = [pressed EXCEPT ![r] = FALSE] /\ moved' = Still
    /\ UNCHANGED <<f, focused, held, steps>>

\* The button goes up outside the window.
LoseRelease ==
    /\ flaw \in {"loses", "both"} /\ held # "none" /\ held' = "none" /\ moved' = Still
    /\ UNCHANGED <<f, focused, pressed, steps>>

Key(direction) ==
    /\ steps < MaxKeys /\ steps' = steps + 1
    /\ Drawn(f) # {} \/ f.pane
    /\ f' = keyTo(f, direction)
    /\ moved' = [by |-> "key", rule |-> keyRule(f), to |-> keyColumn(f, direction)]
    /\ UNCHANGED <<focused, held, pressed>>

\* A frame without side columns has no widths to lay out anew.
Resize(c) ==
    /\ c # f.columns /\ moved' = Still
    /\ LET wider == [f EXCEPT !.columns = c]
       IN  f' = IF f.pane \/ f.rail THEN rebuilt(wider) ELSE wider
    /\ UNCHANGED <<focused, held, pressed, steps>>

\* A column is shown or put away by its key; the rail keeps the frame from being empty.
Toggle ==
    /\ \/ f' = rebuilt([f EXCEPT !.pane = ~@]) /\ focused' = ~f.pane
       \/ f' = rebuilt([f EXCEPT !.rail = ~@]) /\ UNCHANGED focused
       \/ /\ f.pane \/ f.tree.kind = "rail" \/ ~f.conversation
          /\ f' = rebuilt([f EXCEPT !.conversation = ~@]) /\ UNCHANGED focused
       \/ f.pane /\ focused' = ~focused /\ UNCHANGED f
    /\ moved' = Still /\ UNCHANGED <<held, pressed, steps>>

DividerNext ==
    /\ UNCHANGED flaw
    /\ \/ \E r \in Rule : Press(r) \/ Release(r) \/ Hover(r) \/ \E x \in Points : Motion(r, x)
       \/ LoseRelease \/ (\E d \in {-1, 1} : Key(d)) \/ (\E c \in Widths : Resize(c)) \/ Toggle

-----------------------------------------------------------------------------
\* The columns between which the neighbours' minima and the pane's share keep a rule.
Within(g, rule, x) ==
    LET widest   == Least(room(g), Least(g.columns - SPLIT_MIN_SIZE - 1, (3 * g.columns + 2) \div 4) - 1)
        narrowest == Greatest(SPLIT_MIN_SIZE, (g.columns + 2) \div 4 - 1)
    IN  IF rule = "pane"
        THEN Greatest(g.columns - widest - 2, Least(g.columns - narrowest - 2, x))
        ELSE Greatest(RAIL_MIN_SIZE + 1, Least(railWidthLimit(g.columns, g.pane) + 1, x))

Talking(g) == g.tree.kind \notin {"sides", "alone"}

\* A rule lands under the pointer that drags it, and a key takes it where a drag to
\* that column would (plugins/layout.ts, plugins/panes.ts), after any history of
\* drags, keys, resizes and columns put away.
RuleLands ==
    [][moved'.by # "none" /\ moved'.rule \in Drawn(f) /\ Talking(f)
       => At(f', moved'.rule) = Within(f', moved'.rule, moved'.to)]_dividers

\* A tree that was kept is the one a rebuild would make: nothing jumps later.
TreeIsCurrent == [](Talking(f) /\ Drawn(f) # {} => f.tree = Built(f))

\* A column is resized by a button that is down, never by a pointer that rests.
OnlyWhileHeld == [][moved'.by = "pointer" => held # "none"]_dividers

\* Disagreements.  Without a conversation too, "the rule has to land under the pointer
\* that dragged it" (plugins/layout.ts:217-218); and "a key and a drag can never disagree
\* about where the boundary sits" (plugins/panes.ts:194-195), of a squeezed pane too.
LandsInEveryTree ==
    [][moved'.by = "pointer" /\ f.tree.kind = "sides" => At(f', "rail") = Within(f', "pane", moved'.to)]_dividers
EveryKeyMoves ==
    [][\A direction \in {-1, 1} :
         LET rule == keyRule(f)
         IN  f' # f /\ f' = keyTo(f, direction) /\ moved'.by = "key" /\ rule \in Drawn(f) /\ Talking(f)
             => At(f', rule) = Within(f', rule, At(f, rule) + direction * DIVIDER_STEP)]_dividers
=============================================================================
