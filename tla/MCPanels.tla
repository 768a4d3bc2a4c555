------------------------------- MODULE MCPanels -------------------------------
(***************************************************************************)
(* The parts of a window that keep a state of their own beside the frame:  *)
(* the lists and cards that ask the user, the Session list and its rail,   *)
(* /login, and the editor column with its autosave, its published files    *)
(* and its screen.  No property looks at two of them, so one is chosen     *)
(* first, and the others rest in one of their initial states.              *)
(***************************************************************************)
EXTENDS Integers, Sequences, FiniteSets

CONSTANTS
    Rows, Heights, Efforts,                     \* Picker: the lists
    Session, Here, Blank, Text, Limit,          \*     the browser; SessionList takes the Sessions Here
    Options, Questions, DraftLimit,             \* Card
    Clock, Reads,                               \* SessionList
    RailHere, RailElsewhere, PageSize, PageMax, Areas, \* Rail
    Window, Revisions,                          \* Login, EditorHome
    File, Changes,                              \* Autosave
    Package,                                    \* EditorHome
    ScreenColumns, ScreenRows, Tokens, History  \* Screen

\* The rail has a line for its rows, however low the terminal is, and the browser shows a
\* row; a request asks a question at least; the versions of the editor count from 1.
ASSUME PanelsAssumption ==
    /\ IsFiniteSet(File)
    /\ Rows \in Nat /\ Heights \subseteq Int
    /\ IsFiniteSet(Session) /\ Here \subseteq Session /\ Limit \in Nat \ {0}
    /\ Options \in Nat /\ Questions \in Nat \ {0}
    /\ Package \subseteq Nat \ {0}
    /\ PageSize \in Nat /\ PageMax \in Nat /\ Areas \subseteq Nat \ {0}

VARIABLES
    subject,
    list, height, query, filtered, cursor, efforts, drawn, answer,
    like, tab, text, at, search, pending, frame, due, fresh, picked,
    card, row, toggled, draft, editing, answers, reply,
    host, clock, events, journal, reread, passed, overtaken, sessions, open, created, reads,
    order, running, current, matches, searching, allExpanded, revealed, area, railCursor, offset, dirty,
    named, revision, keys, selected, model, step, profile, chosen, calls, wish, crossed,
    changed, disk, known, autosave_stamp, autosave_reported, autosave_timer, modified, buffer,
    writing, todo, raced, report, taking, questions, said,
    version, doing, home, hurt, marker, alone, torn, overlapped,
    written, out, early, attached, held, engine, terminal, above, back, spoiled

Picking == INSTANCE Picker
Asking == INSTANCE Card
Listing == INSTANCE SessionList WITH Session <- Here, reply <- reread
Railing == INSTANCE Rail WITH
    Here <- RailHere, Elsewhere <- RailElsewhere, cursor <- railCursor,
    RAIL_SESSION_LIMIT <- PageSize, RAIL_SESSION_LIMIT_MAX <- PageMax,
    Filters <- {{CHOOSE s \in RailHere : TRUE} \cup RailElsewhere}
LoggingIn == INSTANCE Login
Saving == INSTANCE Autosave WITH
    Clock <- Changes, clock <- changed, current <- buffer, step <- writing, marker <- report
Publishing == INSTANCE EditorHome WITH at <- doing
Drawing == INSTANCE Screen WITH Columns <- ScreenColumns, Rows <- ScreenRows, pending <- held

picker == <<list, height, query, filtered, cursor, efforts, drawn, answer>>
resume == <<like, tab, text, at, search, pending, frame, due, fresh, picked>>
cards == <<card, row, toggled, draft, editing, answers, reply>>
sessionList == <<host, clock, events, journal, reread, passed, overtaken, sessions, open, created, reads>>
rail == <<order, running, current, matches, searching, allExpanded, revealed, area, railCursor, offset, dirty>>
login == <<named, revision, keys, selected, model, step, profile, chosen, calls, wish, crossed>>
autosave == <<changed, disk, known, autosave_stamp, autosave_reported, autosave_timer, modified, buffer,
              writing, todo, raced, report, taking, questions, said>>
editorHome == <<version, doing, home, hurt, marker, alone, torn, overlapped>>
screen == <<written, out, early, attached, held, engine, terminal, above, back, spoiled>>
panels == <<subject, picker, resume, cards, sessionList, rail, login, autosave, editorHome, screen>>

Subject == {"picker", "resume", "card", "list", "rail", "login", "autosave", "home", "screen"}

\* One initial state of a part that is not the subject.
Rests(part, state) == subject = part \/ state

Lowest(set) == CHOOSE n \in set : \A m \in set : n <= m

PanelsInit ==
    /\ subject \in Subject
    /\ Picking!PickerInit
    /\ Rests("picker", list = "provider" /\ height = Lowest(Heights) /\ cursor = 0)
    /\ Picking!ResumeInit /\ Rests("resume", like = [t \in Text |-> {}])
    /\ Asking!CardInit /\ Rests("card", card = "key")
    /\ Listing!ListInit /\ Rests("list", host = [s \in Here |-> Listing!Missing])
    /\ Railing!RailInit /\ Rests("rail", area = Lowest(Areas))
    /\ LoggingIn!LoginInit /\ Rests("login", selected = "q1")
    /\ Saving!AutosaveInit
    /\ Publishing!HomeInit /\ Rests("home", version = [w \in Window |-> Lowest(Package)])
    /\ Drawing!ScreenInit

PanelsNext ==
    /\ UNCHANGED subject
    /\ \/ /\ subject = "picker" /\ Picking!PickerNext
          /\ UNCHANGED <<resume, cards, sessionList, rail, login, autosave, editorHome, screen>>
       \/ /\ subject = "resume" /\ Picking!ResumeNext
          /\ UNCHANGED <<picker, cards, sessionList, rail, login, autosave, editorHome, screen>>
       \/ /\ subject = "card" /\ Asking!CardNext
          /\ UNCHANGED <<picker, resume, sessionList, rail, login, autosave, editorHome, screen>>
       \/ /\ subject = "list" /\ Listing!ListNext
          /\ UNCHANGED <<picker, resume, cards, rail, login, autosave, editorHome, screen>>
       \/ /\ subject = "rail" /\ Railing!RailNext
          /\ UNCHANGED <<picker, resume, cards, sessionList, login, autosave, editorHome, screen>>
       \/ /\ subject = "login" /\ LoggingIn!LoginNext
          /\ UNCHANGED <<picker, resume, cards, sessionList, rail, autosave, editorHome, screen>>
       \/ /\ subject = "autosave" /\ Saving!AutosaveNext
          /\ UNCHANGED <<picker, resume, cards, sessionList, rail, login, editorHome, screen>>
       \/ /\ subject = "home" /\ Publishing!HomeNext
          /\ UNCHANGED <<picker, resume, cards, sessionList, rail, login, autosave, screen>>
       \/ /\ subject = "screen" /\ Drawing!ScreenNext
          /\ UNCHANGED <<picker, resume, cards, sessionList, rail, login, autosave, editorHome>>

PanelsSpec == PanelsInit /\ [][PanelsNext]_panels

-----------------------------------------------------------------------------
\* What a list highlights is what Enter answers; a key answers the question it was
\* typed for; a row under the cursor is on the screen; and a pick of the user stands
\* (Picker, Card, Rail, Login).
AnswersAreTheUsers ==
    /\ subject = "picker" => Picking!AnswersTheHighlight
    /\ subject = "card" => Asking!AnsweredByTheUser
    /\ subject = "rail" => Railing!RowsInReach
    /\ subject = "login" => LoggingIn!PickStands
EnterOpensTheHighlighted == Picking!EnterOpensTheHighlighted

\* Once everything was delivered the list is the Host's (SessionList).
ListIsCurrent == subject = "list" => Listing!ListIsCurrent

\* No title, profile key or file version of another writer is written over
\* (SessionList, Login, Autosave).
NobodyOverwritten ==
    Listing!SpokenStays /\ LoggingIn!NamedStays /\ Saving!NothingOverwritten

\* The editor that is started is that of one package (EditorHome), and its screen is
\* the one its program drew (Screen).
EditorIsItsPackages ==
    /\ subject = "home" => Publishing!EditorIsOnePackage
    /\ subject = "screen" => Drawing!SameScreen

\* Disagreements: conflict.ts, "Path of the file that changed underneath the buffer";
\* and Enter after an answer that came behind the frame (resume.ts).
AnswerIsForItsFile == Saving!AnswerIsForItsFile
EnterOpensWhatIsShown == Picking!EnterOpensWhatIsShown
=============================================================================
