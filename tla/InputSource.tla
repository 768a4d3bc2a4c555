------------------------------- MODULE InputSource -------------------------------
(***************************************************************************)
(* The keyboard's input source.  A panel that takes the keyboard asks for  *)
(* English: a helper process reads the source, and another one selects     *)
(* English when it was something else.  A checkout builds the helper at    *)
(* the start of a window; windows of one checkout share the file.          *)
(***************************************************************************)
EXTENDS Integers, FiniteSets

CONSTANTS
    Window,
    Call,      \* how often panels ask
    Careless   \* TRUE: the user goes back to the composer while a helper runs

VARIABLES
    helper,    \* bin/ime: "none", "half", "old", "new"
    build,     \* window -> its build: "starts", "compiles", "moves", "done"
    temporary, \* window -> its own file
    source,    \* the machine's input source: "english" or "other"
    focus,     \* "composer" or "panel"
    byHand,    \* the user chose a source since the panel took the keyboard
    failed,    \* no helper was there, or one failed to select
    call       \* call -> "free", "reads", "selects", "done"
inputSource == <<helper, build, temporary, source, focus, byHand, failed, call>>

InputInit ==
    /\ helper \in {"none", "old"}
    /\ build = [w \in Window |-> "starts"] /\ temporary = [w \in Window |-> "none"]
    /\ source \in {"english", "other"} /\ focus = "composer"
    /\ byHand = FALSE /\ failed = FALSE
    /\ call = [c \in Call |-> "free"]

-----------------------------------------------------------------------------
\* publishImeHelper

\* A helper newer than its source, and one without a source, is left alone.
publishImeHelper(w) ==
    /\ build[w] = "starts"
    /\ build' = [build EXCEPT ![w] = IF helper = "new" THEN "done" ELSE "compiles"]
    /\ UNCHANGED <<helper, temporary, source, focus, byHand, failed, call>>

\* Mutant: the compiler writes the file itself.
compileInPlace(w) ==
    /\ build[w] = "compiles"
    /\ \/ helper # "half" /\ helper' = "half" /\ UNCHANGED build
       \/ helper = "half" /\ helper' = "new" /\ build' = [build EXCEPT ![w] = "done"]
    /\ UNCHANGED <<temporary, source, focus, byHand, failed, call>>
\* clang writes the window's temporary file, which is renamed when it is whole.
compile(w) ==
    /\ build[w] = "compiles"
    /\ \/ temporary[w] = "none" /\ temporary' = [temporary EXCEPT ![w] = "half"] /\ UNCHANGED build
       \/ temporary[w] = "half" /\ temporary' = [temporary EXCEPT ![w] = "new"] /\ build' = [build EXCEPT ![w] = "moves"]
    /\ UNCHANGED <<helper, source, focus, byHand, failed, call>>
move(w) ==
    /\ build[w] = "moves" /\ helper' = temporary[w]
    /\ temporary' = [temporary EXCEPT ![w] = "none"] /\ build' = [build EXCEPT ![w] = "done"]
    /\ UNCHANGED <<source, focus, byHand, failed, call>>
\* No clang, a compilation that fails, a state root that cannot be written.
buildFails(w) ==
    /\ build[w] \in {"compiles", "moves"}
    /\ temporary' = [temporary EXCEPT ![w] = "none"] /\ build' = [build EXCEPT ![w] = "done"]
    /\ UNCHANGED <<helper, source, focus, byHand, failed, call>>
\* The window dies in its build.
dies(w) ==
    /\ build[w] \in {"compiles", "moves"} /\ build' = [build EXCEPT ![w] = "done"]
    /\ UNCHANGED <<helper, temporary, source, focus, byHand, failed, call>>

-----------------------------------------------------------------------------
\* The rail, the editor and the shell ask as they take the keyboard.
ensure(c) ==
    /\ call[c] = "free" /\ \A d \in Call : d < c => call[d] # "free"
    /\ \E w \in Window : build[w] = "done"
    /\ focus' = "panel" /\ byHand' = FALSE /\ failed' = (helper = "none")
    /\ call' = [call EXCEPT ![c] = IF helper = "none" THEN "done" ELSE "reads"]
    /\ UNCHANGED <<helper, build, temporary, source>>

\* Mutant: a helper that printed nothing is taken for English.
NotEnglish(printed) == printed = "other"
\* A helper that answers nothing gets English selected too.
NeedsEnglish(printed) == printed # "english"
current(c) ==
    /\ call[c] = "reads"
    /\ call' = [call EXCEPT ![c] = IF NeedsEnglish(source) THEN "selects" ELSE "done"]
    /\ UNCHANGED <<helper, build, temporary, source, focus, byHand, failed>>
\* It cannot be spawned, exits with an error, or prints no name.
currentFails(c) ==
    /\ call[c] = "reads"
    /\ call' = [call EXCEPT ![c] = IF NeedsEnglish("none") THEN "selects" ELSE "done"]
    /\ UNCHANGED <<helper, build, temporary, source, focus, byHand, failed>>
select(c) ==
    /\ call[c] = "selects" /\ source' = "english" /\ call' = [call EXCEPT ![c] = "done"]
    /\ UNCHANGED <<helper, build, temporary, focus, byHand, failed>>
\* An English layout that is not enabled, or a helper that cannot run: nobody looks.
selectFails(c) ==
    /\ call[c] = "selects" /\ failed' = TRUE /\ call' = [call EXCEPT ![c] = "done"]
    /\ UNCHANGED <<helper, build, temporary, source, focus, byHand>>

Running == {c \in Call : call[c] \in {"reads", "selects"}}
UserSelects ==
    /\ source' \in {"english", "other"} /\ byHand' = TRUE
    /\ UNCHANGED <<helper, build, temporary, focus, failed, call>>
Composer ==
    /\ focus = "panel" /\ (Careless \/ Running = {}) /\ focus' = "composer"
    /\ UNCHANGED <<helper, build, temporary, source, byHand, failed, call>>

InputNext ==
    \/ \E w \in Window : publishImeHelper(w) \/ compile(w) \/ move(w) \/ buildFails(w) \/ dies(w)
    \/ \E c \in Call : ensure(c) \/ current(c) \/ currentFails(c) \/ select(c) \/ selectFails(c)
    \/ UserSelects \/ Composer

-----------------------------------------------------------------------------
\* The helper is never half of one: builds of several windows, and a window that
\* dies in its own, leave the one that was there or a whole one.
HelperIsWhole == helper # "half"

\* When its helpers have ended, a panel that has the keyboard has English, unless
\* the user chose otherwise there or the helper could not select it.
PanelHasEnglish ==
    focus = "panel" /\ Running = {} /\ ~byHand /\ ~failed => source = "english"

\* Disagreement with inputSource.ts: "The composer is never switched".
ComposerIsLeft == [][source' # source /\ ~byHand' => focus = "panel"]_inputSource
=============================================================================
