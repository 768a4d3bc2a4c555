------------------------------ MODULE Completion ------------------------------
(***************************************************************************)
(* The completion menu of the composer: the token under the cursor asks    *)
(* for a list, at once for a slash command, after reading a directory for  *)
(* a path; the list comes back to a line that has been edited since.       *)
(*                                                                         *)
(* The first line of the draft is its tokens, the cursor stands at the end *)
(* of one of them, or, at 0, on a later line.                              *)
(***************************************************************************)
EXTENDS Integers, Sequences, SequencesExt, FiniteSets

CONSTANTS
    Slash,      \* tokens that begin with a slash
    Path,       \* other tokens that look like a path
    Word,       \* tokens that are neither
    Command,    \* the slash commands, each a token of Slash
    MaxTokens, MaxRequests,
    Careless    \* the pointer or the queue changes the line under an open menu, and
                \* End goes from a token to an equal one

NoMenu == [token |-> "", start |-> 0, entries |-> 0]

VARIABLES
    draft, cursor,
    menu, menuIndex,    \* NoMenu, or whose entries are up
    menuToken,
    requestId,
    listing,            \* directories being read
    accepted            \* the last completion accepted: the line before and after, the menu
completion == <<draft, cursor, menu, menuIndex, menuToken, requestId, listing, accepted>>

Token == Slash \cup Path \cup Word \cup {""}
Nothing == [line |-> <<"">>, at |-> 1, menu |-> NoMenu, becomes |-> <<"">>, quiet |-> FALSE]

CompletionInit ==
    /\ draft = <<"">> /\ cursor = 1
    /\ menu = NoMenu /\ menuIndex = 1 /\ menuToken = "" /\ requestId = 0 /\ listing = {}
    /\ accepted = Nothing

-----------------------------------------------------------------------------
\* A cursor on a later line has no token.
TokenAt(line, at) == IF at = 0 THEN "" ELSE line[at]
providerKind(token, start) ==
    IF start = 1 /\ token \in Slash THEN "slash"
    ELSE IF token \in Slash \cup Path THEN "path" ELSE "none"

dismissMenu == menu' = NoMenu /\ menuToken' = "" /\ requestId' = requestId + 1

\* After every key that the menu has not taken.
Refresh(line, at, force) ==
    LET token == TokenAt(line, at)
        kind == providerKind(token, at)
    IN  IF kind = "none" THEN dismissMenu /\ UNCHANGED <<menuIndex, listing>>
        ELSE IF ~force /\ token = menuToken /\ menu # NoMenu
             THEN UNCHANGED <<menu, menuIndex, menuToken, requestId, listing>>
        ELSE /\ menuToken' = token /\ requestId' = requestId + 1
             /\ IF kind = "slash"   \* resolved before the next key
                THEN /\ menu' \in {NoMenu, [token |-> token, start |-> at, entries |-> Cardinality(Command)]}
                     /\ menuIndex' = 1 /\ UNCHANGED listing
                ELSE /\ listing' = listing \cup {[id |-> requestId', token |-> token, start |-> at]}
                     /\ UNCHANGED <<menu, menuIndex>>

Room == requestId < MaxRequests

\* Mutant: whichever list comes last is shown.
ListedLate(r, n) ==
    /\ listing' = listing \ {r}
    /\ menu' = IF n = 0 THEN NoMenu ELSE [token |-> r.token, start |-> r.start, entries |-> n]
    /\ menuIndex' = 1
    /\ UNCHANGED <<draft, cursor, menuToken, requestId, accepted>>
\* An answer that is not of the last request changes nothing.
Listed(r, n) ==
    /\ listing' = listing \ {r}
    /\ IF r.id = requestId
       THEN /\ menu' = IF n = 0 THEN NoMenu ELSE [token |-> r.token, start |-> r.start, entries |-> n]
            /\ menuIndex' = 1
       ELSE UNCHANGED <<menu, menuIndex>>
    /\ UNCHANGED <<draft, cursor, menuToken, requestId, accepted>>

\* A key changes the token under the cursor; from one kind to another it passes
\* through a token of none.
Edit(t) ==
    /\ Room /\ cursor > 0 /\ t # draft[cursor]
    /\ LET Kind(u) == IF u \in Slash THEN "slash" ELSE IF u \in Path THEN "path" ELSE "none"
       IN  Kind(t) = Kind(draft[cursor]) \/ "none" \in {Kind(t), Kind(draft[cursor])}
    /\ draft' = [draft EXCEPT ![cursor] = t]
    /\ Refresh(draft', cursor, FALSE) /\ UNCHANGED <<cursor, accepted>>

Space ==
    /\ Room /\ cursor > 0 /\ Len(draft) < MaxTokens
    /\ draft' = InsertAt(draft, cursor + 1, "") /\ cursor' = cursor + 1
    /\ Refresh(draft', cursor', FALSE) /\ UNCHANGED accepted

\* Home, End, a word to the left, another line.
Jump(i) ==
    /\ Room /\ cursor' = i /\ i # cursor
    /\ Careless \/ menu = NoMenu \/ TokenAt(draft, i) # TokenAt(draft, cursor)
    /\ Refresh(draft, i, FALSE) /\ UNCHANGED <<draft, accepted>>

\* Tab with a menu or Enter: the entry takes the place of what stands between
\* the start that its list was made for and the cursor.
acceptCompletion(entry) ==
    LET before == SubSeq(draft, 1, menu.start - 1)
        after == IF cursor = 0 THEN <<>> ELSE SubSeq(draft, cursor + 1, Len(draft))
        trailing == IF entry \in Slash /\ menu.start = 1 THEN <<"">> ELSE <<>>
        line == before \o <<entry>> \o trailing \o after
    IN  /\ accepted' = [line |-> draft, at |-> cursor, menu |-> menu, becomes |-> line, quiet |-> listing = {}]
        /\ dismissMenu /\ UNCHANGED <<menuIndex, listing>>

\* What the highlighted row may hold.
Entry == IF providerKind(menu.token, menu.start) = "slash" THEN Command ELSE Path \cup Word

TabAccepts ==
    /\ Room /\ menu # NoMenu /\ \E entry \in Entry : acceptCompletion(entry)
    /\ draft' = accepted'.becomes /\ cursor' = Len(draft')
TabAsks ==
    /\ Room /\ menu = NoMenu
    /\ Refresh(draft, cursor, TRUE) /\ UNCHANGED <<draft, cursor, accepted>>

\* A slash command is submitted with its acceptance.
EnterAccepts ==
    /\ Room /\ menu # NoMenu
    /\ \E entry \in Entry :
          /\ acceptCompletion(entry)
          /\ IF entry \in Slash THEN draft' = <<"">> /\ cursor' = 1
             ELSE draft' = accepted'.becomes /\ cursor' = Len(draft')
EnterSubmits ==
    /\ Room /\ menu = NoMenu
    /\ draft' = <<"">> /\ cursor' = 1 /\ Refresh(draft', 1, FALSE) /\ UNCHANGED accepted
\* The queue chord outranks the menu.
Accelerated ==
    /\ Room /\ draft' = <<"">> /\ cursor' = 1
    /\ dismissMenu /\ UNCHANGED <<menuIndex, listing, accepted>>

Move ==
    /\ menu # NoMenu /\ menuIndex' \in {menuIndex - 1, menuIndex + 1} \cap 1 .. menu.entries
    /\ UNCHANGED <<draft, cursor, menu, menuToken, requestId, listing, accepted>>
Escape == Room /\ menu # NoMenu /\ dismissMenu /\ UNCHANGED <<draft, cursor, menuIndex, listing, accepted>>
\* The menu paints six rows; a selection below them goes back to the first.
renderMenu ==
    /\ menuIndex > 6 /\ menuIndex' = 1
    /\ UNCHANGED <<draft, cursor, menu, menuToken, requestId, listing, accepted>>

\* A click into the body, and texts that come back from the queue, refresh nothing.
Outside ==
    /\ (menu = NoMenu /\ listing = {}) \/ Careless
    /\ \/ cursor' \in 0 .. Len(draft) /\ UNCHANGED draft
       \/ \E t \in Word : draft' = Append(draft, t) /\ Len(draft) < MaxTokens /\ cursor' = Len(draft')
    /\ UNCHANGED <<menu, menuIndex, menuToken, requestId, listing, accepted>>

CompletionNext ==
    \/ \E t \in Token : Edit(t)
    \/ \E i \in 0 .. MaxTokens : i <= Len(draft) /\ Jump(i)
    \/ \E r \in listing, n \in {0, 1, 7} : Listed(r, n)
    \/ Space \/ TabAccepts \/ TabAsks \/ EnterAccepts \/ EnterSubmits \/ Accelerated
    \/ Move \/ Escape \/ renderMenu \/ Outside

-----------------------------------------------------------------------------
\* With no list under way, the menu is of the token under the cursor.
MenuIsForTheToken ==
    menu # NoMenu /\ listing = {} =>
        cursor > 0 /\ menu.start = cursor /\ menu.token = draft[cursor]

\* A completion accepted while no directory is being read replaces the token
\* under the cursor, for which it was made, and leaves the rest of the line.
AcceptsAtTheCursor ==
    LET a == accepted
    IN  a # Nothing /\ a.quiet =>
            /\ a.at > 0 /\ a.menu.start = a.at /\ a.menu.token = a.line[a.at]
            /\ SubSeq(a.becomes, 1, a.at - 1) = SubSeq(a.line, 1, a.at - 1)
            /\ \E n \in 0 .. Len(a.becomes) :
                  SubSeq(a.becomes, n + 1, Len(a.becomes)) = SubSeq(a.line, a.at + 1, Len(a.line))
\* The same of every completion: a list of the next token may still be under way.
AcceptsAlwaysAtTheCursor ==
    accepted # Nothing => accepted.menu.start = accepted.at
=============================================================================
