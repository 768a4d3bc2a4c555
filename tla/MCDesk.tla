-------------------------------- MODULE MCDesk --------------------------------
(***************************************************************************)
(* The parts around the window that keep a state of their own: the prompt  *)
(* with its completion and thinking level, the keyboard protocol and the   *)
(* input source, the language file, a cell grid, the commands that install *)
(* a command path, check a plugin or attach to the Host, the launcher, the *)
(* file and git methods of the server, the download site, and the rules    *)
(* between the columns.  No property looks at two of them, so one is       *)
(* chosen first, and the others rest in one of their initial states.       *)
(***************************************************************************)
EXTENDS CommandPath, Integers, Sequences

CONSTANTS
    Slash, Path, Word, Command, MaxTokens, MaxRequests,      \* Completion
    Careless,                                                \* the same in every module
    Call, Name, Inner, Text,                                 \* ServerMethods, InputSource
    Terminal, Version, Hosts,                                \* Attachment
    Model, Efforts, DefaultEffort, Op, Writes,               \* Thinking
    Width, Pen, Colourless,                                  \* Cells
    Windows,                                                 \* Keyboard
    Window, Choices,                                         \* Language, InputSource
    Seats,                                                   \* PluginCheck
    Branch, Odd, Upstream,                                   \* ServerMethods
    Request, Days, DaysAMonth, DAILY_READ_LIMIT, MONTHLY_READ_LIMIT, Size, Newest, \* Downloads
    Widths, Points, MaxKeys, Flaws                           \* Divider

VARIABLES
    subject,
    draft, caret, menu, menuIndex, menuToken, requestId, listing, accepted,
    tree, call,
    session, default, events, model, catalog, op, writes, applied,
    row, where, inkAt, next, line, pen, column, pendingWide, finished,
    knows, flags, raw, shellRaw, paste, window, started, stopped, wasRaw, typed, got,
    file, temporary, saved, stage, override, code, source, problem, heir, prompted, cursor, choice, chosen,
    phase, registered, keeps, timer, drawn, named, exit,
    heads, head, before, query, output, answer,
    running, serving, turn, asked, own, doing, record, cookie, kernel, link, clockwork, ended,
    helper, build, compiled, keyboard, focus, byHand, failed, request,
    clock, counter, object, download, spent,
    bucket, deployed, policy, pruning, obsolete, listed,
    columns, focused, held, pressed, strokes, moved, flaw

Completing == INSTANCE Completion WITH cursor <- caret
Serving == INSTANCE ServerMethods
Choosing == INSTANCE Thinking
Inking == INSTANCE Cells WITH cursor <- inkAt
Typing == INSTANCE Keyboard
Speaking == INSTANCE Language WITH at <- stage
Checking == INSTANCE PluginCheck WITH at <- phase
Attaching == INSTANCE Attachment WITH
    version <- running, command <- asked, at <- doing, timer <- clockwork, code <- ended
Selecting == INSTANCE InputSource WITH temporary <- compiled, source <- keyboard, call <- request
Downloading == INSTANCE Downloads WITH request <- download, at <- pruning
Dragging == INSTANCE Divider WITH NoProc <- None, f <- columns, steps <- strokes

completion == <<draft, caret, menu, menuIndex, menuToken, requestId, listing, accepted>>
files == <<tree, call>>
thinking == <<session, default, events, model, catalog, op, writes, applied>>
cells == <<row, where, inkAt, next, line, pen, column, pendingWide, finished>>
keys == <<knows, flags, raw, shellRaw, paste, window, started, stopped, wasRaw, typed, got>>
language == <<file, temporary, saved, stage, override, code, source, problem, heir, prompted, cursor, choice, chosen>>
check == <<phase, registered, keeps, timer, drawn, named, exit>>
git == <<heads, head, before, query, output, answer>>
attachment == <<running, serving, turn, asked, own, doing, record, cookie, kernel, link, clockwork, ended>>
inputs == <<helper, build, compiled, keyboard, focus, byHand, failed, request>>
site == <<clock, counter, object, download, spent>>
retention == <<bucket, deployed, policy, pruning, obsolete, listed>>
dividers == <<columns, focused, held, pressed, strokes, moved, flaw>>

\* Three models: three levels, two levels, no thinking.
MCEfforts == [m |-> <<"off", "low", "high">>, n |-> <<"low", "max">>, o |-> <<>>]
MCDefaultEffort == [m |-> "low", n |-> "max", o |-> "none"]

vars == <<subject, commandPath, completion, files, launcher, thinking, cells, keys, language, check, git, attachment, inputs, site, retention, dividers>>

Subject == {"path", "completion", "files", "launcher", "thinking", "cells", "keyboard", "language", "check", "git", "attachment", "inputSource", "downloads", "prune", "dividers"}

\* One initial state of a part that is not the subject.
Rests(part, state) == subject = part \/ state

Init ==
    /\ subject \in Subject
    /\ PathInit /\ Rests("path", at = [b \in Bin |-> "none"])
    /\ Completing!CompletionInit
    /\ Serving!FilesInit /\ Rests("files", \A p \in DOMAIN tree : tree[p] # "dir" => tree[p] = CHOOSE t \in Text : TRUE)
    /\ LauncherInit /\ Rests("launcher", \A w \in DOMAIN found : found[w] = 0)
    /\ Choosing!ThinkingInit /\ Rests("thinking", session = CHOOSE s \in Choosing!Selection : Choosing!Fits(s))
    /\ Inking!CellsInit /\ Rests("cells", where = 0 /\ inkAt = "none" /\ \A i \in 1 .. Width : row[i] = [text |-> "", sgr |-> "default"])
    /\ Typing!KeyboardInit /\ Rests("keyboard", ~knows /\ ~shellRaw)
    /\ Speaking!LanguageInit /\ Rests("language", file = "none" /\ override = [w \in Window |-> "none"])
    /\ Checking!CheckInit
    /\ Serving!GitInit /\ Rests("git", heads = {} /\ head.kind = "detached")
    /\ Attaching!AttachInit /\ Rests("attachment", serving = 0 /\ \A t \in Terminal : asked[t] = "stop" /\ own[t] = CHOOSE v \in Version : TRUE)
    /\ Selecting!InputInit /\ Rests("inputSource", helper = "none" /\ keyboard = "english")
    /\ Downloading!DownloadsInit /\ Rests("downloads", clock = 1)
    /\ Downloading!PruneInit /\ Rests("prune", policy = 2 /\ deployed = 2)
    /\ Dragging!DividerInit /\ Rests("dividers", flaw = "loses" /\ columns.columns = 100)

Next ==
    /\ UNCHANGED subject
    /\ \/ /\ subject = "path" /\ PathNext
          /\ UNCHANGED <<completion, files, launcher, thinking, cells, keys, language, check, git, attachment, inputs, site, retention, dividers>>
       \/ /\ subject = "completion" /\ Completing!CompletionNext
          /\ UNCHANGED <<commandPath, files, launcher, thinking, cells, keys, language, check, git, attachment, inputs, site, retention, dividers>>
       \/ /\ subject = "files" /\ Serving!FilesNext
          /\ UNCHANGED <<commandPath, completion, launcher, thinking, cells, keys, language, check, git, attachment, inputs, site, retention, dividers>>
       \/ /\ subject = "launcher" /\ LauncherNext
          /\ UNCHANGED <<commandPath, completion, files, thinking, cells, keys, language, check, git, attachment, inputs, site, retention, dividers>>
       \/ /\ subject = "thinking" /\ Choosing!ThinkingNext
          /\ UNCHANGED <<commandPath, completion, files, launcher, cells, keys, language, check, git, attachment, inputs, site, retention, dividers>>
       \/ /\ subject = "cells" /\ Inking!CellsNext
          /\ UNCHANGED <<commandPath, completion, files, launcher, thinking, keys, language, check, git, attachment, inputs, site, retention, dividers>>
       \/ /\ subject = "keyboard" /\ Typing!KeyboardNext
          /\ UNCHANGED <<commandPath, completion, files, launcher, thinking, cells, language, check, git, attachment, inputs, site, retention, dividers>>
       \/ /\ subject = "language" /\ Speaking!LanguageNext
          /\ UNCHANGED <<commandPath, completion, files, launcher, thinking, cells, keys, check, git, attachment, inputs, site, retention, dividers>>
       \/ /\ subject = "check" /\ Checking!CheckNext
          /\ UNCHANGED <<commandPath, completion, files, launcher, thinking, cells, keys, language, git, attachment, inputs, site, retention, dividers>>
       \/ /\ subject = "git" /\ Serving!GitNext
          /\ UNCHANGED <<commandPath, completion, files, launcher, thinking, cells, keys, language, check, attachment, inputs, site, retention, dividers>>
       \/ /\ subject = "attachment" /\ Attaching!AttachNext
          /\ UNCHANGED <<commandPath, completion, files, launcher, thinking, cells, keys, language, check, git, inputs, site, retention, dividers>>
       \/ /\ subject = "inputSource" /\ Selecting!InputNext
          /\ UNCHANGED <<commandPath, completion, files, launcher, thinking, cells, keys, language, check, git, attachment, site, retention, dividers>>
       \/ /\ subject = "downloads" /\ Downloading!DownloadsNext
          /\ UNCHANGED <<commandPath, completion, files, launcher, thinking, cells, keys, language, check, git, attachment, inputs, retention, dividers>>
       \/ /\ subject = "prune" /\ Downloading!PruneNext
          /\ UNCHANGED <<commandPath, completion, files, launcher, thinking, cells, keys, language, check, git, attachment, inputs, site, dividers>>
       \/ /\ subject = "dividers" /\ Dragging!DividerNext
          /\ UNCHANGED <<commandPath, completion, files, launcher, thinking, cells, keys, language, check, git, attachment, inputs, site, retention>>

Spec == Init /\ [][Next]_vars

-----------------------------------------------------------------------------
\* The prompt: a menu is of the token under the cursor and a completion replaces it;
\* the level in the footer is the one the Host runs at (Completion, Thinking).
PromptIsCurrent ==
    /\ Completing!MenuIsForTheToken /\ Completing!AcceptsAtTheCursor
    /\ Choosing!LevelShown /\ Choosing!EachPressIsOneLevel

\* The terminal and the machine are left as the next one expects them: the keyboard's
\* modes, the saved language, the input source (Keyboard, Language, InputSource).
LeftForTheNext ==
    /\ Typing!ModesGivenBack /\ Speaking!SavedIsSpoken
    /\ Selecting!HelperIsWhole /\ Selecting!PanelHasEnglish

\* A key means to a column's program what it means without the protocol; a key, a drag
\* and a resize agree about where a rule is (Keyboard, Divider).
KeysMeanTheSame ==
    /\ Typing!MeansTheSame
    /\ Dragging!RuleLands /\ Dragging!TreeIsCurrent /\ Dragging!OnlyWhileHeld

\* What is drawn or reported is so: a line shows its row, the installed command is
\* found, the launcher ends as its program, a check has drawn what it passes, and
\* nothing outlives a terminal's command (Cells, CommandPath, PluginCheck, Attachment).
ReportsWhatIsSo ==
    /\ subject = "cells" => Inking!LineIsTheRow
    /\ subject = "path" => NewTerminalsFind
    /\ subject = "launcher" => EndsAsItsProgram
    /\ Checking!CheckIsHonest
    /\ Attaching!EndsClean

\* What is changed is what was named: an installation takes no other program's place
\* and an uninstall leaves nothing of its own; the server's file and git methods change
\* and answer what they are asked; retention deletes nothing that is served
\* (CommandPath, ServerMethods, Downloads).
DoesWhatIsNamed ==
    /\ OthersAreKept /\ LeavesNothing
    /\ Serving!OnlyWhatIsNamed
    /\ Serving!AnswersTheRepository /\ Serving!SwitchesToTheNamed
    /\ Downloading!DeletesTheObsolete

\* The download site stays within its reads, and gives the range it is asked for
\* (Downloads).
ReadsAreMetered == Downloading!ReadsAreMetered /\ Downloading!GivesTheRange
=============================================================================
