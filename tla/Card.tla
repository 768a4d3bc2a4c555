--------------------------------- MODULE Card ---------------------------------
(***************************************************************************)
(* The cards that ask the user: the questions of the agent, one after      *)
(* another, the key of a provider, and the fixed choices (tool approval,   *)
(* unsaved text in the editor, file changed on disk, language).  A typed   *)
(* answer is a draft that survives a look back at the rows.                *)
(***************************************************************************)
EXTENDS Integers, Sequences, FiniteSets

CONSTANTS
    Options,    \* rows of a question that has any
    Questions,  \* questions of one request
    DraftLimit  \* characters of a draft, at most

\* Answers of a card of fixed choices to its keys; any other key is ignored.
ApprovalKeys == [y |-> "allowed-once", n |-> "rejected", interrupt |-> "cancelled"]
ConfirmKeys == [s |-> "save", d |-> "discard", interrupt |-> "cancel", escape |-> "cancel"]
ConflictKeys == [k |-> "keep", r |-> "reload", interrupt |-> "later", escape |-> "later"]
LanguageKeys == [en |-> "en", zh |-> "zh-CN", interrupt |-> "cancel", escape |-> "cancel"]
Fixed == [ approval |-> ApprovalKeys, confirm |-> ConfirmKeys,
           conflict |-> ConflictKeys, language |-> LanguageKeys ]

\* Questions to choose one row or any rows of, or to type; the key of a provider.
Field == {"text", "key"}
Kind == {"single", "multi"} \cup Field \cup DOMAIN Fixed

VARIABLES
    card,       \* the kind of the card on the screen, "none" after the last
    row,        \* the row under the cursor, from 0; Options is the typed one
    toggled, draft, editing,
    answers,    \* what the cards of the request were answered so far
    reply       \* what the request ended with: nothing yet, all answers, none
cards == <<card, row, toggled, draft, editing, answers, reply>>

Show(kind) ==
    /\ card' = kind
    /\ row' = 0 /\ toggled' = {} /\ draft' = <<>> /\ editing' = FALSE

CardInit ==
    /\ card \in Kind
    /\ row \in IF card = "language" THEN 0 .. 1 ELSE {0}   \* the language in use
    /\ toggled = {} /\ draft = <<>> /\ editing = FALSE
    /\ answers = <<>> /\ reply = "none"

-----------------------------------------------------------------------------
(* The text of a draft: characters and blanks *)

Visible == {i \in DOMAIN draft : draft[i] # " "}
IsBlank == Visible = {}

\* Without blanks at its ends.
Trim ==
    IF IsBlank THEN <<>>
    ELSE LET first == CHOOSE i \in Visible : \A j \in Visible : i <= j
             last == CHOOSE i \in Visible : \A j \in Visible : j <= i
         IN  SubSeq(draft, first, last)

\* Without the word it ends in, and the blanks before it.
WithoutWord ==
    IF draft = <<>> \/ draft[Len(draft)] = " " THEN draft
    ELSE LET blanks == {i \in DOMAIN draft : draft[i] = " "}
             kept == {i \in DOMAIN draft :
                        draft[i] # " " /\ \E j \in blanks : i < j}
         IN  IF kept = {} THEN <<>>
             ELSE SubSeq(draft, 1, CHOOSE i \in kept : \A j \in kept : j <= i)

-----------------------------------------------------------------------------
(* Answers *)

Listed == card \in {"single", "multi"}
Checked == IF card = "multi" THEN toggled ELSE {}

\* The next question of the request, or the reply.
Answer(selected, custom) ==
    LET given == Append(answers, [kind |-> card, selected |-> selected, custom |-> custom])
    IN  /\ answers' = given
        /\ \/ /\ card \in {"single", "multi", "text"} /\ Len(given) < Questions
              /\ \E kind \in {"single", "multi", "text"} : Show(kind)
              /\ UNCHANGED reply
           \/ /\ card \notin {"single", "multi", "text"} \/ Len(given) >= Questions
              /\ Show("none") /\ reply' = "given"

\* One card dismissed, the whole request is.
Dismiss == Show("none") /\ reply' = "dismissed" /\ UNCHANGED answers

submit == IF Listed /\ card = "single" THEN Answer({row}, <<>>) ELSE Answer(Checked, <<>>)

\* Typing goes to the draft: always in a field, in a list once the row is open.
Typing == card \in Field \/ (Listed /\ editing)
OnCustom == row = Options

EditsTo(text) ==
    /\ draft' = text
    /\ UNCHANGED <<card, row, toggled, answers, reply>>

Erase ==
    /\ Typing
    /\ \/ draft # <<>> /\ EditsTo(SubSeq(draft, 1, Len(draft) - 1))
       \/ EditsTo(<<>>)
       \/ EditsTo(WithoutWord)
    /\ UNCHANGED editing

\* A character typed on the last row of a list opens it; a blank in a list of
\* several choices is a toggle.
Type(character) ==
    /\ Len(draft) < DraftLimit
    /\ Typing \/ (Listed /\ OnCustom /\ ~(card = "multi" /\ character = " "))
    /\ editing' = Listed
    /\ EditsTo(Append(draft, character))

\* Nothing typed: a field waits, a list goes back to its rows.
EnterDraft ==
    /\ Typing
    /\ \/ /\ Trim = <<>> /\ editing' = FALSE
          /\ UNCHANGED <<card, row, toggled, draft, answers, reply>>
       \/ Trim # <<>> /\ Answer(Checked, Trim)

\* Mutant: Enter submits the typed row too.
EnterAnyRow == Listed /\ ~editing /\ submit
EnterRow == Listed /\ ~editing /\ ~OnCustom /\ submit

OpenDraft ==
    /\ Listed /\ ~editing /\ OnCustom /\ editing' = TRUE
    /\ UNCHANGED <<card, row, toggled, draft, answers, reply>>

Toggle ==
    /\ card = "multi" /\ ~editing /\ ~OnCustom
    /\ toggled' = IF row \in toggled THEN toggled \ {row} ELSE toggled \cup {row}
    /\ UNCHANGED <<card, row, draft, editing, answers, reply>>

Move ==
    /\ (Listed /\ ~editing) \/ card = "language"
    /\ row' \in {row - 1, row + 1} \cap 0 .. (IF card = "language" THEN 1 ELSE Options)
    /\ UNCHANGED <<card, toggled, draft, editing, answers, reply>>

Escape ==
    \/ /\ Listed /\ editing /\ editing' = FALSE
       /\ UNCHANGED <<card, row, toggled, draft, answers, reply>>
    \/ (card \in Field \/ (Listed /\ ~editing)) /\ Dismiss

Interrupt == card \in {"single", "multi"} \cup Field /\ Dismiss

Choose ==
    /\ card \in DOMAIN Fixed
    /\ \E key \in DOMAIN Fixed[card] : Answer({}, Fixed[card][key])

ChooseRow ==
    /\ card = "language"
    /\ Answer({}, LanguageKeys[IF row = 0 THEN "en" ELSE "zh"])

CardNext ==
    \/ Erase \/ (\E character \in {"x", " "} : Type(character))
    \/ EnterDraft \/ EnterRow \/ OpenDraft \/ Toggle \/ Move
    \/ Escape \/ Interrupt \/ Choose \/ ChooseRow

-----------------------------------------------------------------------------
\* A card is answered by what the user chose or typed: a row of the question
\* or a text that is more than blanks, and a text replaces the single choice;
\* a reply has an answer of every question, so no stray Enter answers for one.
AnsweredByTheUser ==
    /\ \A i \in DOMAIN answers :
         LET a == answers[i] IN
         /\ a.kind = "single" => \/ a.custom = <<>> /\ \E r \in 0 .. Options - 1 : a.selected = {r}
                                 \/ a.custom # <<>> /\ a.selected = {}
         /\ a.kind = "multi" => a.selected \subseteq 0 .. Options - 1
         /\ a.kind \in Field => a.custom # <<>> /\ a.selected = {}
    /\ reply = "given" /\ answers[1].kind \in {"single", "multi", "text"} => Len(answers) = Questions
=============================================================================
