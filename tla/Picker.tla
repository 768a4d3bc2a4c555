-------------------------------- MODULE Picker --------------------------------
(***************************************************************************)
(* The lists that take the composer's place: /model, /login and /thinking, *)
(* and then the session browser, which shares no state with them.          *)
(* A list shows a window of its filtered rows around the cursor, and Enter *)
(* answers with the row under the cursor, as the terminal grows, shrinks,  *)
(* and the filter comes and goes.  The rows are 1..Rows in the order of    *)
(* the list; the cursor counts from 0.                                     *)
(***************************************************************************)
EXTENDS Integers, Sequences, FiniteSets

CONSTANTS
    Rows,       \* rows of the unfiltered list
    Heights,    \* terminal heights
    Efforts     \* reasoning efforts that a model with reasoning advertises

VARIABLES
    list,       \* "model", "provider" or "thinking"
    height,     \* terminal rows
    query,      \* what the search field holds: nothing, a text, "/login"
    filtered,   \* the rows that match, in order
    cursor,
    efforts,    \* model row -> chosen effort; 0: none, Efforts + 1: one it has no more
    drawn,      \* what was drawn last: the rows, the highlighted one, its effort
    answer      \* what the panel ended with
picker == <<list, height, query, filtered, cursor, efforts, drawn, answer>>

Least2(a, b) == IF a < b THEN a ELSE b
Greatest2(a, b) == IF a > b THEN a ELSE b

\* The remainder of the language has the sign of its left operand.
Remainder(a, n) == IF a < 0 THEN -((-a) % n) ELSE a % n

CHROME == [model |-> 12, provider |-> 8, thinking |-> 8]
MAX_VISIBLE == 8

listCapacity(rows, chromeRows) == Greatest2(3, Least2(MAX_VISIBLE, rows - chromeRows))

\* Index of the first row in the window.
\* Mutant: the window starts at the cursor, one row short.
WindowAtCursor(length, at, capacity) == Greatest2(0, Least2(at, length - capacity - 1))
windowOf(length, at, capacity) ==
    Greatest2(0, Least2(at - capacity \div 2, length - capacity))

Capacity == listCapacity(height, CHROME[list])

Reasons(row) == row % 2 = 1

Nothing == [row |-> 0, effort |-> 0]
Ends(kind, at) == [kind |-> kind, at |-> at]

\* The row of `rows` under `at`, with the effort chosen for it; Nothing beside the list.
Under(rows, at, chosen) ==
    IF at \in 0 .. Len(rows) - 1
    THEN [row |-> rows[at + 1], effort |-> chosen[rows[at + 1]]]
    ELSE Nothing

\* The lines and the detail that updateList draws.
updateList(rows, at, chosen) ==
    LET start == windowOf(Len(rows), at, Capacity)
        lines == SubSeq(rows, start + 1, Least2(Len(rows), start + Capacity))
    IN  drawn' = [ rows |-> lines,
                   highlighted |-> IF at \in start .. start + Len(lines) - 1
                                   THEN lines[at - start + 1] ELSE 0,
                   detail |-> Under(rows, at, chosen) ]

\* Rows in the order of the list.
Ordered(set) == [i \in 1 .. Cardinality(set) |->
    CHOOSE row \in set : Cardinality({other \in set : other < row}) = i - 1]

PickerInit ==
    /\ list \in DOMAIN CHROME
    /\ height \in Heights
    /\ query = "empty" /\ filtered = Ordered(1 .. Rows)
    \* /thinking opens on the level in use, the others on their first row.
    /\ cursor \in IF list = "thinking" THEN 0 .. Rows - 1 ELSE {0}
    \* /model carries the effort of the Session's model, its first row.
    /\ efforts \in [1 .. Rows -> 0 .. Efforts + 1]
    /\ \A row \in 2 .. Rows : efforts[row] = 0
    /\ list # "model" => efforts[1] = 0
    /\ drawn = [ rows |-> <<>>, highlighted |-> 0, detail |-> Nothing ]
    /\ answer = Ends("open", Nothing)

Open == answer.kind = "open"

\* The constructor's last call.
Draw ==
    /\ Open /\ drawn.rows = <<>> /\ filtered # <<>>
    /\ updateList(filtered, cursor, efforts)
    /\ UNCHANGED <<list, height, query, filtered, cursor, efforts, answer>>

Drawn == drawn.rows # <<>> \/ filtered = <<>>

\* Mutant: the cursor is not clamped.
KeepCursor(rows) == cursor
ClampCursor(rows) == Least2(cursor, Greatest2(0, Len(rows) - 1))

\* A key of the search field; fuzzyFilter may leave any of the rows.
Type(text) ==
    /\ Open /\ Drawn /\ list # "thinking"
    /\ query' = text
    /\ \E matching \in SUBSET (1 .. Rows) :
         /\ text = "empty" => matching = 1 .. Rows
         /\ filtered' = Ordered(matching)
    /\ cursor' = IF text = "empty" THEN ClampCursor(filtered') ELSE 0
    /\ updateList(filtered', cursor', efforts)
    /\ UNCHANGED <<list, height, efforts, answer>>

\* Up, down and the pages; /thinking has no pages.
move(delta) ==
    /\ Open /\ Drawn /\ filtered # <<>>
    /\ cursor' = Remainder(cursor + delta + Len(filtered), Len(filtered))
    /\ updateList(filtered, cursor', efforts)
    /\ UNCHANGED <<list, height, query, filtered, efforts, answer>>

Page(sign) == list # "thinking" /\ move(sign * Capacity)

\* The effort after this one; the adapter's default, 1, stands for none.
NextEffort(effort) ==
    IF effort = Efforts + 1 THEN 1
    ELSE ((IF effort = 0 THEN 1 ELSE effort) % Efforts) + 1

cycleEffort ==
    LET at == Under(filtered, cursor, efforts)
    IN  /\ Open /\ Drawn /\ list = "model"
        /\ at # Nothing /\ Reasons(at.row)
        /\ efforts' = [efforts EXCEPT ![at.row] = NextEffort(@)]
        /\ updateList(filtered, cursor, efforts')
        /\ UNCHANGED <<list, height, query, filtered, cursor, answer>>

confirm ==
    LET at == Under(filtered, cursor, efforts)
    IN  /\ Open /\ Drawn
        /\ \/ list = "model" /\ query = "/login" /\ answer' = Ends("login", Nothing)
           \/ /\ ~(list = "model" /\ query = "/login")
              /\ at # Nothing
              /\ answer' = Ends("select", at)
        /\ UNCHANGED <<list, height, query, filtered, cursor, efforts, drawn>>

Cancel ==
    /\ Open /\ answer' = Ends("cancel", Nothing)
    /\ UNCHANGED <<list, height, query, filtered, cursor, efforts, drawn>>

\* The list is not drawn anew: it keeps the rows it had.
Resize ==
    /\ Open /\ height' \in Heights \ {height}
    /\ UNCHANGED <<list, query, filtered, cursor, efforts, drawn, answer>>

PickerNext ==
    \/ Draw
    \/ \E text \in {"empty", "text", "/login"} : Type(text)
    \/ \E delta \in {-1, 1} : move(delta)
    \/ \E sign \in {-1, 1} : Page(sign)
    \/ cycleEffort \/ confirm \/ Cancel \/ Resize

-----------------------------------------------------------------------------
\* Enter answers with the highlighted row and the effort beside it, whatever
\* filter, page or resize came before.
AnswersTheHighlight ==
    answer.kind = "select" =>
        /\ answer.at.row = drawn.highlighted
        /\ answer.at = drawn.detail

\* A list with rows has one under the cursor ("the selected model's detail").
RowSelected == Drawn /\ filtered # <<>> => drawn.highlighted # 0

-----------------------------------------------------------------------------
(* The session browser: a list of Sessions, filtered as the user types, or *)
(* the answer of a content search of the Host.  Keys act on the state,     *)
(* the user sees the last frame; a key asks for a frame, an answer of the  *)
(* Host does not.                                                          *)

CONSTANTS
    Session,    \* numbers, the most recently used last
    Here,       \* those of the launch directory
    Blank,      \* those in which nothing was said
    Text,       \* queries
    Limit       \* rows the list shows; 12 in the code

VARIABLES
    like,       \* text -> Sessions whose directory or identifier resembles it
    tab, text, at,
    search,     \* <<>>, or the one answer shown instead of the list
    pending,    \* searches the Host has not answered
    frame,      \* what is on the screen
    due,        \* a frame was asked for
    fresh,      \* an answer came after the frame
    picked      \* what the browser ended with
resume == <<like, tab, text, at, search, pending, frame, due, fresh, picked>>

\* The most recent first.
Recent(set) == [i \in 1 .. Cardinality(set) |->
    CHOOSE s \in set : Cardinality({t \in set : t > s}) = i - 1]

visibleRows ==
    LET scoped == IF tab = "cwd" THEN Here ELSE Session
    IN  Recent(IF text = "empty" THEN scoped \ Blank ELSE scoped \cap like[text])

Searching == search # <<>>

\* What Enter chooses from, and how many of those rows a frame shows.
Choices == IF Searching THEN search[1] ELSE visibleRows
Count == IF Searching \/ Len(Choices) < Limit THEN Len(Choices) ELSE Limit

\* The row that Enter at `position` resolves to.
Chosen(rows, position) ==
    IF position < Len(rows) THEN [kind |-> "session", session |-> rows[position + 1]]
    ELSE [kind |-> IF Searching THEN "cancel" ELSE "new", session |-> 0]

Undecided == [kind |-> "open", session |-> 0]
Dismissed == [kind |-> "cancel", session |-> 0]

ResumeInit ==
    /\ like \in [Text -> SUBSET Session]
    /\ tab = "cwd" /\ text = "empty" /\ at = 0 /\ search = <<>> /\ pending = {}
    /\ frame = Undecided /\ due = TRUE /\ fresh = FALSE
    /\ picked = Undecided

Browsing == picked = Undecided

\* The cursor of a list that became shorter goes to its last row.
\* Mutant: the cursor is not clamped.
CursorAsIs == at
ClampedCursor == IF at < Count THEN at ELSE IF Count = 0 THEN 0 ELSE Count - 1

Frame ==
    /\ Browsing /\ due
    /\ at' = ClampedCursor
    /\ frame' = Chosen(SubSeq(Choices, 1, Count), at')
    /\ due' = FALSE /\ fresh' = FALSE
    /\ UNCHANGED <<like, tab, text, search, pending, picked>>

Key == Browsing /\ due' = TRUE /\ UNCHANGED <<like, frame, fresh>>

Escape ==
    /\ Key /\ search' = <<>>
    /\ picked' = IF Searching THEN picked ELSE Dismissed
    /\ UNCHANGED <<tab, text, at, pending>>

Interrupt ==
    /\ Key /\ picked' = Dismissed
    /\ UNCHANGED <<tab, text, at, search, pending>>

Tab ==
    /\ Key /\ tab' = IF tab = "cwd" THEN "all" ELSE "cwd"
    /\ at' = 0 /\ search' = <<>>
    /\ UNCHANGED <<text, pending, picked>>

\* A character or backspace.
Edit ==
    /\ Key /\ text' \in (Text \cup {"empty"}) \ {text}
    /\ at' = 0 /\ search' = <<>>
    /\ UNCHANGED <<tab, pending, picked>>

Up == Key /\ at > 0 /\ at' = at - 1 /\ UNCHANGED <<tab, text, search, pending, picked>>

\* Nothing bounds the cursor until the next frame; here the rows past the list do.
Down ==
    /\ Key /\ at <= Cardinality(Session) /\ at' = at + 1
    /\ UNCHANGED <<tab, text, search, pending, picked>>

\* Ctrl-F, and Enter on a typed text; a search of the same text asks again.
runSearch ==
    /\ Key /\ text # "empty"
    /\ pending' = pending \cup {text}
    /\ UNCHANGED <<tab, text, at, search, picked>>

Enter ==
    /\ Key /\ (text = "empty" \/ Searching)
    /\ picked' = Chosen(Choices, at)
    /\ UNCHANGED <<tab, text, at, search, pending>>

\* The answer is shown whatever has been typed since.
Answered ==
    /\ Browsing
    /\ \E asked \in pending, found \in SUBSET Session :
         pending' = pending \ {asked} /\ search' = <<Recent(found)>>
    /\ at' = 0 /\ fresh' = TRUE
    /\ UNCHANGED <<like, tab, text, frame, due, picked>>

\* A failed search shows as one that found nothing, and leaves the cursor.
SearchFails ==
    /\ Browsing
    /\ \E asked \in pending : pending' = pending \ {asked}
    /\ search' = <<(<<>>)>> /\ fresh' = TRUE
    /\ UNCHANGED <<like, tab, text, at, frame, due, picked>>

ResumeNext ==
    \/ Frame \/ Escape \/ Interrupt \/ Tab \/ Edit \/ Up \/ Down
    \/ runSearch \/ Enter \/ Answered \/ SearchFails

-----------------------------------------------------------------------------
\* An Enter pressed on a finished frame opens what that frame highlights.
Enters == Browsing /\ picked'.kind \in {"session", "new"}
EnterOpensTheHighlighted ==
    [][Enters /\ ~due /\ ~fresh => picked' = frame]_resume

\* The same without a word about answers: no answer changes what Enter does
\* before a frame has shown it.
EnterOpensWhatIsShown == [][Enters /\ ~due => picked' = frame]_resume
=============================================================================
