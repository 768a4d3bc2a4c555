--------------------------------- MODULE Rail ---------------------------------
(***************************************************************************)
(* The rail: rows made of the Session list, a filter and two folds, a      *)
(* cursor that is an index, and a scroll window that only a frame moves.   *)
(* The list changes under all of them.                                     *)
(***************************************************************************)
EXTENDS Integers, Sequences, FiniteSets

CONSTANTS
    Here, Elsewhere,            \* Sessions of the open one's directory, and others
    RAIL_SESSION_LIMIT, RAIL_SESSION_LIMIT_MAX,
    Filters,                    \* the Sessions that a filter may leave
    Areas                       \* lines for the rows, by the terminal's height

VARIABLES
    order,      \* the Sessions, the most recent first
    running, current,
    matches,    \* the Sessions that a filter keeps, or Everything
    searching, allExpanded, revealed,
    area,
    cursor, offset,
    dirty       \* something changed since the last frame
rail == <<order, running, current, matches, searching, allExpanded, revealed,
          area, cursor, offset, dirty>>

Sessions == Here \cup Elsewhere
Lesser(a, b) == IF a < b THEN a ELSE b
Larger(a, b) == IF a > b THEN a ELSE b

NewRow == [kind |-> "new", id |-> 0]
MoreRow == [kind |-> "more", id |-> 0]
AllRow == [kind |-> "all", id |-> 0]
SessionRow(s) == [kind |-> "session", id |-> s]

\* Those of a set, in the order of the list.
Kept(set) ==
    [n \in 1 .. Cardinality({i \in DOMAIN order : order[i] \in set}) |->
        order[CHOOSE i \in DOMAIN order :
                order[i] \in set /\ Cardinality({j \in 1 .. i : order[j] \in set}) = n]]

Everything == {0}
Filtered == matches # Everything
Pick(sessions) == Kept(IF Filtered THEN sessions \cap matches ELSE sessions)

\* The first page: the limit, raised as far as the last row that needs attention.
Attention(rows) == {i \in DOMAIN rows : rows[i] \in running \cup {current}}
BaseLimit == Lesser(RAIL_SESSION_LIMIT, area)
\* Mutant: the page is not raised.
PageLimitBelow(rows) == BaseLimit
PageLimit(rows) ==
    LET marked == Attention(rows)
        last == CHOOSE i \in marked \cup {0} : \A j \in marked : j <= i
    IN  IF last > BaseLimit THEN Lesser(RAIL_SESSION_LIMIT_MAX, last) ELSE BaseLimit
firstPage(rows) ==
    IF revealed THEN rows ELSE SubSeq(rows, 1, Lesser(Len(rows), PageLimit(rows)))

\* Rows in the order of the cursor; the row of the fold comes after them.
rowsOf ==
    LET ordered == Pick(Here)
        page == IF Filtered THEN ordered ELSE firstPage(ordered)
        more == \/ revealed /\ Len(ordered) > RAIL_SESSION_LIMIT
                \/ ~revealed /\ Len(page) < Len(ordered)
        foreign == IF allExpanded THEN Pick(Elsewhere) ELSE <<>>
        shown(sessions) == [i \in DOMAIN sessions |-> SessionRow(sessions[i])]
    IN  <<NewRow>> \o shown(page) \o (IF more THEN <<MoreRow>> ELSE <<>>) \o shown(foreign)

RowAt(rows, at) == IF at < Len(rows) THEN rows[at + 1] ELSE AllRow

\* The index of the first row that is this one, or where the cursor is.
IndexOf(rows, row, else) ==
    IF \E i \in DOMAIN rows : rows[i] = row
    THEN CHOOSE i \in 0 .. Len(rows) - 1 : rows[i + 1] = row /\ \A j \in 1 .. i : rows[j] # row
    ELSE else

\* The cursor goes to this row of the list as it is now.
CursorTo(row) == \E rows \in {rowsOf'} : cursor' = IndexOf(rows, row, cursor)

RailInit ==
    /\ order = <<>> /\ running = {} /\ current = 0
    /\ matches = Everything /\ searching = FALSE /\ allExpanded = FALSE /\ revealed = FALSE
    /\ area \in Areas /\ cursor = 0 /\ offset = 0
    /\ dirty = TRUE

-----------------------------------------------------------------------------
(* Frames *)

ClampedCursor(rows) == Lesser(Len(rows), cursor)
\* Mutant: the window does not follow the cursor.
UnmovedWindow(rows, at) == IF Len(rows) <= area THEN 0 ELSE Lesser(offset, Len(rows) - area)
clampWindow(rows, at) ==
    LET scroll == Lesser(at, Len(rows) - 1)
        up == IF scroll < offset THEN scroll ELSE offset
        down == IF scroll >= up + area THEN scroll - area + 1 ELSE up
    IN  IF Len(rows) <= area THEN 0 ELSE Larger(0, Lesser(down, Len(rows) - area))

render ==
    /\ dirty /\ dirty' = FALSE
    /\ \E rows \in {rowsOf} :
         /\ cursor' = ClampedCursor(rows)
         /\ offset' = clampWindow(rows, cursor')
    /\ UNCHANGED <<order, running, current, matches, searching, allExpanded, revealed, area>>

Touch == dirty' = TRUE

-----------------------------------------------------------------------------
(* The list, which no key of the rail changes *)

\* Any change of the list is announced: the cursor goes to the open Session.
Without(s) == Kept(Sessions \ {s})
Listed ==
    /\ \E s \in Sessions :
         \/ order' = <<s>> \o Without(s) /\ UNCHANGED running
         \/ order' = Without(s) /\ running' = running \ {s}
         \/ order' = order /\ running' = IF s \in running THEN {} ELSE {s}   \* one at a time
    /\ UNCHANGED <<current, matches, searching, allExpanded, revealed, area, offset>>
    /\ CursorTo(SessionRow(current))
    /\ Touch

\* Opened from here or elsewhere; a Session of this directory, so the fold stays.
SessionOpened ==
    /\ \E i \in DOMAIN order : order[i] \in Here \ {current} /\ current' = order[i]
    /\ matches' = Everything
    /\ UNCHANGED <<order, running, searching, allExpanded, revealed, area, offset>>
    /\ CursorTo(SessionRow(current'))
    /\ Touch

Resized ==
    /\ area' \in Areas \ {area}
    /\ UNCHANGED <<order, running, current, matches, searching, allExpanded, revealed, cursor, offset>>
    /\ Touch

-----------------------------------------------------------------------------
(* Keys *)

\* Entering drops the filter; so does leaving.
startEditing ==
    /\ matches' = Everything /\ searching' = FALSE
    /\ UNCHANGED <<order, running, current, allExpanded, revealed, area, offset>>
    /\ CursorTo(SessionRow(current))
    /\ Touch

move(delta) ==
    /\ cursor' = Larger(0, Lesser(Len(rowsOf), cursor + delta))
    /\ UNCHANGED <<order, running, current, matches, searching, allExpanded, revealed, area, offset>>
    /\ Touch

\* "/" opens the filter; a character, backspace, or Esc, which closes it.
StartFilter ==
    /\ ~searching /\ searching' = TRUE
    /\ UNCHANGED <<order, running, current, matches, allExpanded, revealed, area, cursor, offset>>
    /\ Touch

setQuery ==
    /\ searching
    /\ matches' \in {Everything} \cup Filters
    /\ searching' \in {TRUE} \cup (IF matches' = Everything THEN {FALSE} ELSE {})
    /\ UNCHANGED <<order, running, current, allExpanded, revealed, area>>
    /\ \E rows \in {rowsOf'} : cursor' = IF Len(rows) > 1 THEN 1 ELSE 0
    /\ offset' = 0
    /\ Touch

\* Arrow keys leave the cursor; Enter on the fold's row keeps it there.
fold(moveCursor) ==
    /\ allExpanded' = ~allExpanded
    /\ UNCHANGED <<order, running, current, matches, searching, revealed, area, offset>>
    /\ cursor' = IF moveCursor THEN Len(rowsOf') ELSE cursor

reveal ==
    /\ revealed' = ~revealed
    /\ UNCHANGED <<order, running, current, matches, searching, allExpanded, area, offset>>
    /\ CursorTo(MoreRow)

\* Opening and creating are the Session's, and come back as its events.
activate ==
    /\ \/ RowAt(rowsOf, cursor) = AllRow /\ fold(TRUE)
       \/ RowAt(rowsOf, cursor) = MoreRow /\ reveal
    /\ Touch

RailNext ==
    \/ render \/ Listed \/ SessionOpened \/ Resized
    \/ startEditing \/ StartFilter \/ setQuery \/ activate
    \/ \E delta \in {-1, 1} : move(delta)
    \/ ~searching /\ fold(FALSE) /\ Touch

-----------------------------------------------------------------------------
\* A finished frame has the row that Enter would act on in its window, and a
\* row of this directory that needs attention is before the fold, up to the
\* largest page, whatever the list, the filter and the folds did.
CursorPainted ==
    cursor < Len(rowsOf) => cursor \in offset .. offset + area - 1
AttentionBeforeFold ==
    LET rows == Pick(Here)
        painted == rowsOf
    IN  \A i \in Attention(rows) :
            i <= RAIL_SESSION_LIMIT_MAX =>
                \E j \in DOMAIN painted : painted[j] = SessionRow(rows[i])
RowsInReach == (~dirty => CursorPainted) /\ AttentionBeforeFold
=============================================================================
