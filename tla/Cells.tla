--------------------------------- MODULE Cells ---------------------------------
(***************************************************************************)
(* How a row of a column's screen becomes a line of the frame: the cells   *)
(* of the engine, each with its pen, one after the other, and the cell     *)
(* under the program's cursor drawn by the pane.  A pen is only written    *)
(* when it changes, and a wide glyph has a second cell without text.       *)
(***************************************************************************)
EXTENDS Integers, Sequences, SequencesExt

CONSTANTS
    Width,      \* columns of the pane
    Pen,        \* styles beside the terminal's default
    Colourless  \* the terminal has told no colours: a cursor without focus is a hollow block

DefaultPen == "default"
Blank == ""
\* The engine's rows: text, blanks, and "wide" with its tail.
Piece ==
    UNION {{<<[text |-> Blank, sgr |-> p]>>, <<[text |-> "a", sgr |-> p]>>,
            <<[text |-> "wide", sgr |-> p], [text |-> Blank, sgr |-> p]>>} : p \in Pen \cup {DefaultPen}}
Longer(rows, k) == UNION {{r \o p : r \in rows} : p \in {q \in Piece : Len(q) = k}}
Rows[n \in 0 .. Width] ==
    IF n = 0 THEN {<<>>}
    ELSE Longer(Rows[n - 1], 1) \cup (IF n = 1 THEN {} ELSE Longer(Rows[n - 2], 2))

VARIABLES
    row,        \* the cells of the engine
    where,      \* column of the program's cursor, Width for none in this row
    cursor,     \* "focused", "dim", or "none" while history is shown
    next,       \* the cell to read
    line,       \* what has been written
    pen,        \* the pen that is open, as far as the code knows
    column, pendingWide, finished
cells == <<row, where, cursor, next, line, pen, column, pendingWide, finished>>

CellsInit ==
    /\ row \in Rows[Width] /\ where \in 0 .. Width
    /\ cursor \in (IF where = Width THEN {"none"} ELSE {"none", "focused", "dim"})
    /\ next = 1 /\ line = <<>> /\ pen = DefaultPen /\ column = 0
    /\ pendingWide = FALSE /\ finished = FALSE

WidthOf(text) == IF text = "wide" THEN 2 ELSE 1
Reset == [op |-> "reset"]
Open(p) == [op |-> "pen", pen |-> p]
Put(text) == [op |-> "put", text |-> text]
\* The ink of the cursor closes its own style.
Ink(text) ==
    [op |-> "ink", text |-> IF cursor = "dim" /\ Colourless THEN "hollow" ELSE text]
UnderCursor == cursor # "none" /\ where = column

-----------------------------------------------------------------------------
\* Mutant: the pen is taken to be open still after the cursor.
DrawKept(text, sgr, width) ==
    /\ line' = line \o <<Reset, Ink(text)>> /\ UNCHANGED pen
    /\ column' = column + width
DrawCursor(text, sgr, width) ==
    /\ line' = line \o <<Reset, Ink(text)>> /\ pen' = DefaultPen
    /\ column' = column + width

DrawText(text, sgr, width) ==
    /\ line' = line \o (IF sgr = pen THEN <<>> ELSE IF sgr = DefaultPen THEN <<Reset>> ELSE <<Reset, Open(sgr)>>)
                    \o <<Put(text)>>
    /\ pen' = sgr /\ column' = column + width

More == ~finished /\ column < Width /\ next <= Len(row)

\* The second cell of a wide glyph.
SecondCell ==
    /\ More /\ pendingWide /\ row[next].text = Blank
    /\ pendingWide' = FALSE /\ next' = next + 1
    /\ UNCHANGED <<row, where, cursor, line, pen, column, finished>>

Draw ==
    /\ More /\ ~(pendingWide /\ row[next].text = Blank)
    /\ LET c == row[next] IN
         /\ IF UnderCursor THEN DrawCursor(c.text, c.sgr, WidthOf(c.text))
                           ELSE DrawText(c.text, c.sgr, WidthOf(c.text))
         \* A blank leaves pendingWide as it is; it is off here.
         /\ pendingWide' = (WidthOf(c.text) > 1)
    /\ next' = next + 1 /\ UNCHANGED <<row, where, cursor, finished>>

\* The pen is closed, and the line filled up to the width.
Finish ==
    /\ ~finished /\ ~More /\ finished' = TRUE
    /\ line' = Append(line, Reset) \o [n \in 1 .. Width - column |-> Put(Blank)]
    /\ UNCHANGED <<row, where, cursor, next, pen, column, pendingWide>>

CellsNext == SecondCell \/ Draw \/ Finish

-----------------------------------------------------------------------------
\* What a terminal makes of a line: its columns, with the pen of each.
Shown(text, p) == IF text = "wide" THEN <<[text |-> text, pen |-> p], [text |-> "tail", pen |-> p]>>
                  ELSE <<[text |-> text, pen |-> p]>>
Act(screen, token) ==
    CASE token.op = "reset" -> [screen EXCEPT !.pen = DefaultPen]
      [] token.op = "pen" -> [screen EXCEPT !.pen = token.pen]
      [] token.op = "put" -> [screen EXCEPT !.columns = @ \o Shown(token.text, screen.pen)]
      [] token.op = "ink" -> [pen |-> DefaultPen, columns |-> screen.columns \o Shown(token.text, "ink")]
Screen(tokens) == FoldLeft(Act, [pen |-> DefaultPen, columns |-> <<>>], tokens)

\* The cells of the row, the one under the cursor in the pane's ink, also when that
\* is the first half of a wide glyph.
Inked(n) == cursor # "none" /\ n = where + 1
Meant(n) ==
    LET tail == n > 1 /\ row[n].text = Blank /\ row[n - 1].text = "wide"
    IN  [text |-> IF tail THEN "tail" ELSE IF Inked(n) THEN Ink(row[n].text).text ELSE row[n].text,
         pen |-> IF (IF tail THEN Inked(n - 1) ELSE Inked(n)) THEN "ink" ELSE row[n].sgr]

\* Every column of the line shows its cell, in its own style, and nothing leaks into
\* the next line: not from the cell before it, and not from the cursor.
LineIsTheRow ==
    finished => Screen(line) = [pen |-> DefaultPen, columns |-> [n \in 1 .. Width |-> Meant(n)]]
=============================================================================
