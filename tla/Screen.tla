-------------------------------- MODULE Screen --------------------------------
(***************************************************************************)
(* The screen of a column: the bytes of a program, in chunks of any size,  *)
(* go to a terminal engine, and an erase on the way is rewritten as the    *)
(* blanks it leaves, since the engine forgets the pen's background.  Below *)
(* it a terminal that does not forget, for comparison.  The program writes *)
(* text, line feeds, pens, erases and other escapes; one history line      *)
(* stands for many.                                                        *)
(***************************************************************************)
EXTENDS Integers, Sequences, FiniteSets

CONSTANTS
    Columns, Rows,
    Tokens,     \* bound on what the program writes
    History     \* lines of history; 0 for the editor

VARIABLES
    written,    \* what the program has written so far, counted
    out,        \* bytes in the pty
    early,      \* bytes that came before anybody listened
    attached,
    pending,    \* the head of a sequence whose remainder is in the next chunk
    engine,     \* libghostty-vt
    terminal,   \* the terminal the program believes in
    above, back, \* lines of history, and how far the viewport is up there
    spoiled     \* an erase the rewriting does not cover has passed
screen == <<written, out, early, attached, pending, engine, terminal, above, back, spoiled>>

Smaller(a, b) == IF a < b THEN a ELSE b
Digit == [d \in {"0", "1", "2", "3", "4", "7"} |->
            CASE d = "0" -> 0 [] d = "1" -> 1 [] d = "2" -> 2
              [] d = "3" -> 3 [] d = "4" -> 4 [] d = "7" -> 7]
Shown(n) == CHOOSE d \in DOMAIN Digit : Digit[d] = n

Cell(text, pen) == [text |-> text, pen |-> pen]
Empty == Cell(" ", "plain")
BlankRow(columns) == [x \in 0 .. columns - 1 |-> Empty]

Fresh == [ mode |-> "ground", parameter |-> 0, x |-> 0, y |-> 0, wrap |-> FALSE,
           pen |-> "plain", cells |-> [y \in 0 .. Rows - 1 |-> BlankRow(Columns)], scrolled |-> 0 ]

ScreenInit ==
    /\ written = 0 /\ out = <<>> /\ early = <<>> /\ attached = FALSE /\ pending = <<>>
    /\ engine = Fresh /\ terminal = Fresh
    /\ above = 0 /\ back = 0 /\ spoiled = FALSE

-----------------------------------------------------------------------------
(* A terminal, byte by byte *)

NextLine(t) ==
    IF t.y < Rows - 1 THEN [t EXCEPT !.y = @ + 1, !.wrap = FALSE]
    ELSE [t EXCEPT !.wrap = FALSE, !.scrolled = @ + 1,
            !.cells = [y \in 0 .. Rows - 1 |-> IF y = Rows - 1 THEN BlankRow(Columns) ELSE t.cells[y + 1]]]

\* The last column waits for the next character before it wraps.
PrintAt(t, text) ==
    LET printed == [t EXCEPT !.cells[t.y][t.x] = Cell(text, t.pen)]
    IN  IF t.x = Columns - 1 THEN [printed EXCEPT !.wrap = TRUE] ELSE [printed EXCEPT !.x = @ + 1]
PrintOn(t, text) == PrintAt(IF t.wrap THEN [NextLine(t) EXCEPT !.x = 0] ELSE t, text)

\* The columns that an erase blanks, from its first to before its last.
From(t, final, parameter) == IF final = "K" /\ parameter \in {1, 2} THEN 0 ELSE t.x
Until(t, final, parameter) ==
    IF final = "X" THEN Smaller(Columns, t.x + IF parameter = 0 THEN 1 ELSE parameter)
    ELSE IF parameter = 1 THEN t.x + 1 ELSE Columns

EraseWith(t, final, pen) ==
    LET erased == From(t, final, t.parameter) .. Until(t, final, t.parameter) - 1
    IN  [t EXCEPT !.wrap = FALSE,
           !.cells[t.y] = [x \in DOMAIN @ |-> IF x \in erased THEN Cell(" ", pen) ELSE @[x]]]

\* `forgets`: an erase leaves the default background.
Control(t, final, forgets) ==
    [ ( IF final \in {"K", "X"} THEN EraseWith(t, final, IF forgets THEN "plain" ELSE t.pen)
        ELSE IF final = "m" THEN [t EXCEPT !.pen = IF t.parameter = 0 THEN "plain" ELSE "panel"]
        ELSE IF final = "G" THEN [t EXCEPT !.x = t.parameter - 1, !.wrap = FALSE]
        ELSE t )
      EXCEPT !.mode = "ground" ]

Byte(t, byte, forgets) ==
    IF t.mode = "ground"
    THEN IF byte = "ESC" THEN [t EXCEPT !.mode = "escape"]
         ELSE IF byte = "LF" THEN [NextLine(t) EXCEPT !.x = 0]
         ELSE PrintOn(t, byte)
    ELSE IF t.mode = "escape" THEN [t EXCEPT !.mode = IF byte = "[" THEN "csi" ELSE "ground", !.parameter = 0]
    ELSE IF byte \in DOMAIN Digit THEN [t EXCEPT !.parameter = 10 * @ + Digit[byte]]
    ELSE Control(t, byte, forgets)

Feed(t, bytes, forgets) ==
    LET fed[i \in 0 .. Len(bytes)] == IF i = 0 THEN t ELSE Byte(fed[i - 1], bytes[i], forgets)
    IN  fed[Len(bytes)]

-----------------------------------------------------------------------------
(* GhosttyVt.write *)

\* The length of an erase at the head of the bytes, 0 if there is none.
eraseAt(bytes) ==
    LET ends == {i \in 3 .. Len(bytes) : \A j \in 3 .. i - 1 : bytes[j] \in DOMAIN Digit}
        finals == {i \in ends : bytes[i] \in {"K", "X"}}
    IN  IF finals = {} THEN 0 ELSE CHOOSE i \in finals : TRUE
ParameterOf(bytes) ==
    LET digits == {i \in 3 .. Len(bytes) - 1 : bytes[i] \in DOMAIN Digit}
    IN  IF digits = {} THEN 0 ELSE Digit[bytes[3]]
partialCsiAt(bytes) == \A i \in 3 .. Len(bytes) : bytes[i] \in DOMAIN Digit

\* The cursor is known while its cell is in the viewport.
Visible(t, up) == t.y + up < Rows

\* Blanks with the pen of now, and the cursor back where it was.
\* Mutant: the cursor is left behind them.
eraseAndStay(t, final, parameter) ==
    LET from == From(t, final, parameter)
        count == Until(t, final, parameter) - from
    IN  Feed(t, (IF from = t.x THEN <<>> ELSE <<"ESC", "[", "1", "G">>) \o [i \in 1 .. count |-> " "], TRUE)
erase(t, final, parameter) ==
    LET from == From(t, final, parameter)
        count == Until(t, final, parameter) - from
    IN  Feed(t, (IF from = t.x THEN <<>> ELSE <<"ESC", "[", "1", "G">>)
                \o [i \in 1 .. count |-> " "] \o <<"ESC", "[", Shown(t.x + 1), "G">>, TRUE)

Result(t, held, missed, up) == [engine |-> t, held |-> held, missed |-> missed, up |-> up]

\* Lines that scroll away under a viewport in the history take it along.
Pinned(t, after, up) == IF up = 0 THEN 0 ELSE Smaller(History, up + after.scrolled - t.scrolled)

\* The next item of the bytes ahead: one byte, an escape, or an erase, rewritten.
\* What cannot be told yet is held.
WriteItem(r) ==
    LET bytes == r.held
        length == eraseAt(bytes)
        ahead(n) == SubSeq(bytes, n + 1, Len(bytes))
        fed(n) == Feed(r.engine, SubSeq(bytes, 1, n), TRUE)
        passes(n) == Result(fed(n), ahead(n), r.missed, Pinned(r.engine, fed(n), r.up))
        rewritten == erase(r.engine, bytes[length], ParameterOf(SubSeq(bytes, 1, length)))
    IN  IF bytes = <<>> THEN r
        ELSE IF bytes[1] # "ESC" THEN passes(1)
        ELSE IF Len(bytes) = 1 THEN r
        ELSE IF bytes[2] # "[" THEN passes(2)
        ELSE IF length = 0 THEN IF partialCsiAt(bytes) THEN r ELSE passes(2)
        ELSE IF ~Visible(r.engine, r.up) THEN Result(fed(length), ahead(length), TRUE, r.up)
        ELSE Result(rewritten, ahead(length), r.missed \/ r.engine.wrap,
                    Pinned(r.engine, rewritten, r.up))
WriteFrom(r, bytes) ==
    LET after[n \in 0 .. Len(bytes)] ==
          IF n = 0 THEN [r EXCEPT !.held = bytes] ELSE WriteItem(after[n - 1])
    IN  after[Len(bytes)]

\* Mutant: what was held is not joined.
WriteAlone(chunk) == WriteFrom(Result(engine, <<>>, spoiled, back), chunk)
write(chunk) == WriteFrom(Result(engine, <<>>, spoiled, back), pending \o chunk)

-----------------------------------------------------------------------------
(* The program, the pty, and the keys of the pane *)

Token == { <<"c">>, <<"LF">>, <<"ESC", "[", "7", "m">>, <<"ESC", "[", "m">>, <<"ESC", "7">>,
           <<"ESC", "[", "K">>, <<"ESC", "[", "1", "K">>, <<"ESC", "[", "2", "K">>,
           <<"ESC", "[", "X">>, <<"ESC", "[", "2", "X">> }

Program ==
    /\ written < Tokens /\ Len(out) < 4
    /\ written' = written + 1
    /\ \E token \in Token : out' = out \o token
    /\ UNCHANGED <<early, attached, pending, engine, terminal, above, back, spoiled>>

Takes(chunk) ==
    LET r == write(chunk)
        grown == r.engine.scrolled - engine.scrolled
    IN  /\ engine' = [r.engine EXCEPT !.scrolled = 0]
        /\ terminal' = [Feed(terminal, chunk, FALSE) EXCEPT !.scrolled = 0]
        /\ pending' = r.held /\ spoiled' = r.missed
        /\ above' = Smaller(History, above + grown)
        /\ back' = Smaller(r.up, above')

onData ==
    /\ attached
    /\ \E n \in 1 .. Len(out) : Takes(SubSeq(out, 1, n)) /\ out' = SubSeq(out, n + 1, Len(out))
    /\ UNCHANGED <<written, early, attached>>

\* A first paint before anybody listens is kept, and delivered first.
Early ==
    /\ ~attached
    /\ \E n \in 1 .. Len(out) :
         early' = early \o SubSeq(out, 1, n) /\ out' = SubSeq(out, n + 1, Len(out))
    /\ UNCHANGED <<written, attached, pending, engine, terminal, above, back, spoiled>>

Attach ==
    /\ ~attached /\ attached' = TRUE
    /\ Takes(early) /\ early' = <<>>
    /\ UNCHANGED <<written, out>>

scrollable == attached /\ above > 0
\* A negative page goes back.
scrollPages(pages) ==
    /\ scrollable
    /\ back' = IF pages < 0 THEN Smaller(above, back + Rows)
               ELSE IF back > Rows THEN back - Rows ELSE 0
    /\ UNCHANGED <<written, out, early, attached, pending, engine, terminal, above, spoiled>>

\* Anything typed means the user is done reading.
follow ==
    /\ scrollable /\ back > 0 /\ back' = 0
    /\ UNCHANGED <<written, out, early, attached, pending, engine, terminal, above, spoiled>>

ScreenNext ==
    \/ Program \/ onData \/ Early \/ Attach \/ follow
    \/ \E pages \in {-1, 1} : scrollPages(pages)

-----------------------------------------------------------------------------
\* However the pty cuts the bytes, the engine shows what a terminal that keeps
\* the background of an erase shows, cursor and pen included: unless an erase
\* met a cursor that waits to wrap, or one out of the viewport.
Seen(t) == <<t.cells, t.x, t.y, t.pen>>
SameScreen == ~spoiled => Seen(engine) = Seen(terminal)

\* The rewriting never moves the cursor to another line ("the cursor put back
\* where the erase left it").
SameLine == engine.y = terminal.y
=============================================================================
