------------------------------- MODULE Autosave -------------------------------
(***************************************************************************)
(* Autosave in the editor column.  Neovim writes the buffers by itself,    *)
(* the agent writes the same files; a buffer whose file changed is not     *)
(* written but reported in a file, which a timer of the window turns into  *)
(* a question, whose answer is typed into the editor.  Every look at the   *)
(* disk is a step, and the agent may write between any two.                *)
(***************************************************************************)
EXTENDS Integers, Sequences, SequencesExt

CONSTANTS
    File,
    Clock       \* bound: nobody edits or writes after so many changes of the disk

VARIABLES
    clock,
    disk,       \* file -> when it was written last, and by whom
    known,      \* file -> the time of the version that Neovim read or wrote last
    autosave_stamp, autosave_reported, autosave_timer,
    modified,   \* buffers with changes that are not on the disk
    current,    \* the buffer on the screen: a file, or the file tree
    step, todo, \* where Neovim is in writing these buffers; "rest", "gone"
    raced,      \* files the agent wrote between two looks of an autosave
    marker,     \* files reported to the window
    taking,     \* reported files the window is about to forget, and ask about the first
    questions,  \* files the user is asked about, the topmost last
    said        \* what the user decided in this step
autosave == <<clock, disk, known, autosave_stamp, autosave_reported, autosave_timer,
              modified, current, step, todo, raced, marker, taking, questions, said>>

Tree == "tree"
Silent == [choice |-> "none", file |-> Tree]
Says(choice, file) == said' = [choice |-> choice, file |-> file]

AutosaveInit ==
    /\ clock = 0 /\ disk = [f \in File |-> [at |-> 0, by |-> "agent"]]
    /\ known = [f \in File |-> 0] /\ autosave_stamp = known
    /\ autosave_reported = [f \in File |-> -1] /\ autosave_timer = {}
    /\ modified = {} /\ current = Tree
    /\ step = "rest" /\ todo = <<>> /\ raced = {}
    /\ marker = <<>> /\ taking = <<>> /\ questions = <<>> /\ said = Silent

Stamps == <<known, autosave_stamp, autosave_reported>>
Reports == <<marker, taking, questions>>
At(f) == disk[f].at

-----------------------------------------------------------------------------
(* The agent, the user, and Neovim itself *)

AgentWrites(f) ==
    /\ clock < Clock /\ clock' = clock + 1
    /\ disk' = [disk EXCEPT ![f] = [at |-> clock', by |-> "agent"]]
    /\ raced' = raced \cup (IF step \in {"write", "stamp"} /\ f = Head(todo) THEN {f} ELSE {})
    /\ said' = Silent
    /\ UNCHANGED <<Stamps, autosave_timer, modified, current, step, todo, Reports>>

\* The keyboard is in the editor, and nothing waits.
Editing == step = "rest" /\ questions = <<>> /\ current \in File

Type ==
    /\ Editing /\ clock < Clock
    /\ modified' = modified \cup {current} /\ autosave_timer' = autosave_timer \cup {current}
    /\ said' = Silent
    /\ UNCHANGED <<clock, disk, Stamps, current, step, todo, raced, Reports>>

InsertEnter ==
    /\ Editing /\ autosave_timer' = autosave_timer \ {current} /\ said' = Silent
    /\ UNCHANGED <<clock, disk, Stamps, modified, current, step, todo, raced, Reports>>

\* A version is read or written: Neovim knows it, and autosave_remember looks again.
ReadsFile(f) ==
    /\ known' = [known EXCEPT ![f] = At(f)]
    /\ autosave_stamp' = [autosave_stamp EXCEPT ![f] = At(f)]
    /\ raced' = raced \ {f}
Writes(f) ==
    /\ clock' = clock + 1
    /\ disk' = [disk EXCEPT ![f] = [at |-> clock', by |-> "editor"]]
    /\ known' = [known EXCEPT ![f] = clock']
    /\ modified' = modified \ {f} /\ raced' = raced \ {f}

\* Neovim reads a file anew that changed under an unmodified buffer.
Rereads(f) ==
    /\ step = "rest" /\ f \notin modified /\ known[f] # At(f)
    /\ ReadsFile(f) /\ said' = Silent
    /\ UNCHANGED <<clock, disk, autosave_reported, autosave_timer, modified, current, step, todo, Reports>>

-----------------------------------------------------------------------------
(* Autosave *)

Begin(buffers) ==
    /\ step = "rest" /\ buffers # <<>> /\ step' = "check" /\ todo' = buffers /\ said' = Silent
    /\ UNCHANGED <<clock, disk, Stamps, modified, raced, Reports>>

\* A second after the last change.
Fires(f) ==
    /\ f \in autosave_timer /\ autosave_timer' = autosave_timer \ {f}
    /\ UNCHANGED current /\ Begin(<<f>>)

BufLeave(to) ==
    /\ questions = <<>> /\ current # to /\ current' = to
    /\ autosave_timer' = autosave_timer \ {current}
    /\ IF current \in File THEN Begin(<<current>>)
       ELSE step = "rest" /\ said' = Silent /\ UNCHANGED <<clock, disk, Stamps, modified, step, todo, raced, Reports>>

\* The column loses the focus, Neovim is suspended, or asked to quit.
autosave_write_all == Begin(SetToSeq(File)) /\ UNCHANGED <<autosave_timer, current>>

Done == /\ todo' = Tail(todo) /\ step' = IF Len(todo) = 1 THEN "rest" ELSE "check"

\* autosave_write up to the write: the stamp must be the time of the file.
\* Mutant: Neovim is left to notice.
CheckModified ==
    /\ step = "check" /\ said' = Silent
    /\ IF Head(todo) \in modified THEN step' = "write" /\ UNCHANGED todo ELSE Done
    /\ UNCHANGED <<autosave_reported, marker>>
    /\ UNCHANGED <<clock, disk, known, autosave_stamp, autosave_timer, modified, current, raced, taking, questions>>
Check ==
    LET f == Head(todo)
        changed == f \in modified /\ autosave_stamp[f] # At(f)
        new == changed /\ autosave_reported[f] # At(f)
    IN  /\ step = "check" /\ said' = Silent
        /\ IF f \in modified /\ ~changed THEN step' = "write" /\ UNCHANGED todo ELSE Done
        /\ autosave_reported' = IF new THEN [autosave_reported EXCEPT ![f] = At(f)] ELSE autosave_reported
        /\ marker' = IF new THEN Append(marker, f) ELSE marker
        /\ UNCHANGED <<clock, disk, known, autosave_stamp, autosave_timer, modified, current, raced, taking, questions>>

\* "silent! write": Neovim asks on its mode line when the file is not the one it knows.
\* Mutant: the write is forced.
WriteForced ==
    /\ step = "write" /\ Writes(Head(todo)) /\ step' = "stamp" /\ said' = Silent
    /\ UNCHANGED <<autosave_stamp, autosave_reported, autosave_timer, current, todo, Reports>>
Write ==
    LET f == Head(todo) IN
    /\ step = "write" /\ said' = Silent
    /\ IF known[f] = At(f) THEN Writes(f) /\ step' = "stamp"
       ELSE step' = "asks" /\ UNCHANGED <<clock, disk, known, modified, raced>>
    /\ UNCHANGED <<autosave_stamp, autosave_reported, autosave_timer, current, todo, Reports>>

\* Any key but y, and Esc of the next thing typed, leaves the file.
Declined ==
    /\ step = "asks" /\ step' = "stamp" /\ said' = Silent
    /\ UNCHANGED <<clock, disk, Stamps, autosave_timer, modified, current, todo, raced, Reports>>

\* autosave_remember, written or not.
Stamp ==
    LET f == Head(todo) IN
    /\ step = "stamp" /\ said' = Silent /\ Done
    /\ autosave_stamp' = [autosave_stamp EXCEPT ![f] = At(f)]
    /\ autosave_reported' = [autosave_reported EXCEPT ![f] = -1]
    /\ UNCHANGED <<clock, disk, known, autosave_timer, modified, current, raced, Reports>>

-----------------------------------------------------------------------------
(* The window: once a second it takes the first line of the report *)

ReadConflict ==
    /\ step # "gone" /\ taking = <<>> /\ marker # <<>> /\ taking' = <<Head(marker)>> /\ said' = Silent
    /\ UNCHANGED <<clock, disk, Stamps, autosave_timer, modified, current, step, todo, raced, marker, questions>>

\* The whole report is emptied, and the dialog is up.
showConflict ==
    /\ taking # <<>> /\ taking' = <<>> /\ marker' = <<>> /\ said' = Silent
    /\ questions' = questions \o taking
    /\ UNCHANGED <<clock, disk, Stamps, autosave_timer, modified, current, step, todo, raced>>

Later ==
    /\ questions # <<>> /\ questions' = Front(questions) /\ Says("later", Last(questions))
    /\ UNCHANGED <<clock, disk, Stamps, autosave_timer, modified, current, step, todo, raced, marker, taking>>

\* ":write!" and ":edit!" are typed into the editor, whose buffer is the current one.
Keep ==
    /\ questions # <<>> /\ step = "rest" /\ clock < Clock
    /\ questions' = Front(questions) /\ Says("keep", Last(questions))
    /\ IF current \in File
       THEN Writes(current) /\ autosave_stamp' = [autosave_stamp EXCEPT ![current] = clock']
       ELSE UNCHANGED <<clock, disk, known, autosave_stamp, modified, raced>>
    /\ UNCHANGED <<autosave_reported, autosave_timer, current, step, todo, marker, taking>>

Reload ==
    /\ questions # <<>> /\ step = "rest"
    /\ questions' = Front(questions) /\ Says("reload", Last(questions))
    /\ IF current \in File
       THEN ReadsFile(current) /\ modified' = modified \ {current}
       ELSE UNCHANGED <<known, autosave_stamp, modified, raced>>
    /\ UNCHANGED <<clock, disk, autosave_reported, autosave_timer, current, step, todo, marker, taking>>

\* leave(): ":silent! wall" writes what Neovim can write without asking; ":qa" ends
\* an editor with nothing modified, ":qa!" any.  Its reports and questions go with it.
Wall(f) ==
    /\ step = "rest" /\ questions = <<>> /\ f \in modified /\ known[f] = At(f)
    /\ Writes(f) /\ autosave_stamp' = [autosave_stamp EXCEPT ![f] = clock'] /\ Says("save", f)
    /\ UNCHANGED <<autosave_reported, autosave_timer, current, step, todo, Reports>>

Gone(choice) ==
    /\ step = "rest" /\ step' = "gone" /\ Says(choice, current)
    /\ modified' = {} /\ autosave_timer' = {}
    /\ marker' = <<>> /\ taking' = <<>> /\ questions' = <<>>
    /\ UNCHANGED <<clock, disk, Stamps, current, todo, raced>>
Quit == modified = {} /\ Gone("quit")
Discard == questions = <<>> /\ Gone("discard")

AutosaveNext ==
    \/ \E f \in File : AgentWrites(f) \/ Rereads(f) \/ Fires(f) \/ Wall(f)
    \/ Type \/ InsertEnter \/ (\E to \in File \cup {Tree} : BufLeave(to)) \/ autosave_write_all
    \/ Check \/ Write \/ Declined \/ Stamp
    \/ ReadConflict \/ showConflict \/ Later \/ Keep \/ Reload \/ Quit \/ Discard

-----------------------------------------------------------------------------
\* Nothing of either side vanishes but by the user's word: a version of the
\* agent that the editor has not read is written over only by an answer
\* "keep", and changes of a buffer go to the disk or by "reload" or "discard",
\* also when the agent writes between two looks of an autosave.
NothingOverwritten ==
    [][\A f \in File :
         /\ disk'[f] # disk[f] /\ disk'[f].by = "editor" /\ known[f] # At(f) => said'.choice = "keep"
         /\ f \in modified \ modified' => disk'[f] # disk[f] \/ said'.choice \in {"reload", "discard"}]_autosave

\* Neovim asks on its mode line only about a file that the agent wrote between
\* two looks of an autosave; any other change on the disk is the window's question.
AsksOnlyWhenRaced == step = "asks" => Head(todo) \in raced

\* An answer acts on the file the question named.
AnswerIsForItsFile ==
    [][\A f \in File :
         /\ disk'[f] # disk[f] /\ said'.choice = "keep" => said'.file = f
         /\ f \in modified \ modified' /\ said'.choice = "reload" => said'.file = f]_autosave
=============================================================================
