-------------------------------- MODULE ServerMethods --------------------------------
(***************************************************************************)
(* The requests of @hulala/api-files and @hulala/api-git on one workspace. *)
(* The file methods: several under way at once, beside the agent's own     *)
(* tools; between the look at a path and the change, and between making    *)
(* the parents and the change, the Host awaits.  The Git methods: each     *)
(* checks what it was given, runs one git command and reads its output,    *)
(* while the agent and the user run git too.  Files and branches are told  *)
(* apart: the two have no state in common.                                 *)
(***************************************************************************)
EXTENDS Integers, Sequences, SequencesExt, FiniteSets

CONSTANTS
    Call,       \* requests that may be under way
    Name, Inner, \* names of entries in the workspace, and in its first directory
    Text,        \* contents
    Branch,     \* names that are valid for the method
    Odd,        \* names that git takes and the method refuses ("feature#2")
    Upstream    \* the names that a remote has too

Root == <<>>
Outside == <<"..">>     \* any path that fs.contains refuses
First == <<CHOOSE a \in Name : TRUE>>
Paths == {Root} \cup {<<a>> : a \in Name} \cup {Append(First, b) : b \in Inner}

VARIABLES
    tree,       \* the entries of the workspace: "dir", or a text
    call,       \* Call -> the request and how far it is
    heads,      \* the local branches
    head,       \* what HEAD is: a branch, one without commits, or none
    before,     \* the branch `git switch -` goes back to
    query,      \* the method in progress and its arguments
    output,     \* what git wrote, and the repository it wrote it about
    answer      \* what the method answered
files == <<tree, call>>
git == <<heads, head, before, query, output, answer>>

Idle == [op |-> "none", from |-> Root, to |-> Root, step |-> "idle"]
Beneath(p) == {q \in DOMAIN tree : IsPrefix(p, q)}
Parents(p) == {SubSeq(p, 1, n) : n \in 0 .. Len(p) - 1}
IsFile(p) == p \in DOMAIN tree /\ tree[p] # "dir"
IsDir(p) == p \in DOMAIN tree /\ tree[p] = "dir"

FilesInit ==
    /\ \E t \in Text : tree = [p \in {Root, First} |-> IF p = Root THEN "dir" ELSE t]
    /\ call = [c \in Call |-> Idle]

\* The methods with their parameters; each can be cancelled.
Method == {"writeText", "mkdir", "remove", "rename", "copy"}
TwoPaths == {"rename", "copy"}

\* The path a method writes to.
Target(r) == IF r.op \in TwoPaths THEN r.to ELSE r.from

\* Mutant: the root is only protected as a destination.
refusedTo(r) == Outside \in {r.from, r.to} \/ (r.op \in TwoPaths /\ r.to = Root)
\* What a method refuses before it touches anything: a path outside, and the root
\* where the method may not have it.
refused(r) ==
    \/ Outside \in {r.from, r.to}
    \/ r.op \in {"writeText", "remove", "rename"} /\ r.from = Root
    \/ r.op \in TwoPaths /\ r.to = Root

Ends(c) == call' = [call EXCEPT ![c] = Idle]
Goes(c, step) == call' = [call EXCEPT ![c].step = step]

-----------------------------------------------------------------------------
\* The request comes in and finds its paths; a refusal is the answer.
locate(c, r) ==
    /\ call[c] = Idle
    /\ IF refused(r) THEN Ends(c) ELSE call' = [call EXCEPT ![c] = r]
    /\ UNCHANGED tree

\* A cancellation that is seen: before the parents are made.
throwIfAborted(c) == call[c].step = "located" /\ Ends(c) /\ UNCHANGED tree

\* mkdir of the parents; mkdir() itself is nothing else.
mkdirp(c) ==
    LET r == call[c]
        missing == (Parents(Target(r)) \cup IF r.op = "mkdir" THEN {r.from} ELSE {}) \ DOMAIN tree
    IN  /\ r.step = "located" /\ r.op # "remove"
        /\ IF \E p \in Parents(Target(r)) \cup IF r.op = "mkdir" THEN {r.from} ELSE {} : IsFile(p)
           THEN Ends(c) /\ UNCHANGED tree
           ELSE /\ IF r.op = "mkdir" THEN Ends(c) ELSE Goes(c, "parents")
                /\ tree' = [p \in DOMAIN tree \cup missing |-> IF p \in missing THEN "dir" ELSE tree[p]]

writeText(c, t) ==
    LET r == call[c] IN
    /\ r.op = "writeText" /\ r.step = "parents" /\ Ends(c)
    /\ IF IsDir(r.from) \/ ~(\A p \in Parents(r.from) : IsDir(p)) THEN UNCHANGED tree
       ELSE tree' = [p \in DOMAIN tree \cup {r.from} |-> IF p = r.from THEN t ELSE tree[p]]

remove(c) ==
    LET r == call[c] IN
    /\ r.op = "remove" /\ r.step = "located" /\ Ends(c)
    /\ IF r.from \notin DOMAIN tree THEN UNCHANGED tree ELSE tree' = Restrict(tree, DOMAIN tree \ Beneath(r.from))

\* rename(2): a file over a file, a directory over an empty one.
MayReplace(from, to) ==
    \/ to \notin DOMAIN tree
    \/ IsFile(from) /\ IsFile(to)
    \/ IsDir(from) /\ IsDir(to) /\ Beneath(to) = {to}
Moved(from, to, q) == to \o SubSeq(q, Len(from) + 1, Len(q))
rename(c) ==
    LET r == call[c]
        gone == Beneath(r.from)
        there == {Moved(r.from, r.to, q) : q \in gone}
    IN  /\ r.op = "rename" /\ r.step = "parents" /\ Ends(c)
        /\ IF \/ r.from \notin DOMAIN tree \/ IsPrefix(r.from, r.to) \/ ~MayReplace(r.from, r.to)
              \/ ~(\A p \in Parents(r.to) : IsDir(p)) \/ ~(there \subseteq Paths)
           THEN UNCHANGED tree
           ELSE tree' = [p \in (DOMAIN tree \ gone) \cup there |->
                           IF p \in there THEN tree[CHOOSE q \in gone : Moved(r.from, r.to, q) = p] ELSE tree[p]]

\* cp, entry by entry: errorOnExist is without effect unless force is off, so that
\* an existing file is written over.
copy(c) ==
    LET r == call[c] IN
    /\ r.op = "copy" /\ r.step \in {"parents", "copying"}
    /\ \/ /\ \/ r.from \notin DOMAIN tree \/ IsPrefix(r.from, r.to)
             \/ r.step = "copying"      \* done, or stopped by an error
          /\ Ends(c) /\ UNCHANGED tree
       \/ /\ r.from \in DOMAIN tree /\ ~IsPrefix(r.from, r.to) /\ Goes(c, "copying")
          /\ \E q \in Beneath(r.from) :
                LET p == Moved(r.from, r.to, q) IN
                /\ p \in Paths /\ \A d \in Parents(p) : IsDir(d)
                /\ p \in DOMAIN tree => IsFile(p) /\ IsFile(q) /\ tree[p] # tree[q]
                /\ tree' = [d \in DOMAIN tree \cup {p} |-> IF d = p THEN tree[q] ELSE tree[d]]

\* A tool of the agent, and git switch: files come, change and go.
Elsewhere(p, t) ==
    /\ p # Root /\ \A d \in Parents(p) : IsDir(d)
    /\ \/ ~IsDir(p) /\ tree' = [q \in DOMAIN tree \cup {p} |-> IF q = p THEN t ELSE tree[q]]
       \/ IsFile(p) /\ tree' = Restrict(tree, DOMAIN tree \ {p})
    /\ UNCHANGED call

FilesNext ==
    \/ \E c \in Call :
          \/ \E op \in Method, from, to \in Paths \cup {Outside} :
                /\ op \notin TwoPaths => to = Root
                /\ locate(c, [op |-> op, from |-> from, to |-> to, step |-> "located"])
          \/ throwIfAborted(c) \/ mkdirp(c) \/ remove(c) \/ rename(c) \/ copy(c)
          \/ \E t \in Text : writeText(c, t)
    \/ \E p \in Paths, t \in Text : Elsewhere(p, t)

-----------------------------------------------------------------------------
(* apiGit.ts *)

LocalName == Branch \cup Odd
NoName == "none"
Bare == "-"     \* git's name for the branch before
NoQuery == [method |-> NoName, name |-> NoName, create |-> FALSE]
On(kind, name) == [kind |-> kind, name |-> name]
Checked == IF head.kind = "branch" THEN head.name ELSE NoName
NoOutput == [code |-> -1, rows |-> <<>>, heads |-> {}, head |-> On("none", NoName)]
NoAnswer == [method |-> NoName, current |-> NoName, branches |-> {}, failed |-> FALSE]
Failed == [NoAnswer EXCEPT !.failed = TRUE]

GitInit ==
    /\ heads \in SUBSET LocalName
    /\ head \in {On("branch", b) : b \in heads} \cup {On("detached", "(HEAD detached)")}
                \cup {On("unborn", b) : b \in {n \in Branch : heads = {}}}
    /\ before = NoName
    /\ query = NoQuery /\ output = NoOutput /\ answer = NoAnswer

\* Mutant: a name may begin with a dash.
AnyName(name) == name \notin Odd
\* What checkout lets through to git.
ValidName(name) == name \notin Odd \cup {Bare}

Calls(method, name, create) ==
    /\ query = NoQuery
    /\ IF method = "checkout" /\ ~ValidName(name)
       THEN answer' = Failed /\ UNCHANGED query
       ELSE query' = [method |-> method, name |-> name, create |-> create] /\ answer' = NoAnswer
    /\ output' = NoOutput
    /\ UNCHANGED <<heads, head, before>>

-----------------------------------------------------------------------------
\* git

Row(marker, name) == [marker |-> marker, name |-> name]
\* `git branch`: the row of a detached HEAD, then the local branches.
BranchRows ==
    (IF head.kind = "detached" THEN <<Row("*", head.name)>> ELSE <<>>)
    \o [i \in 1 .. Cardinality(heads) |->
          LET name == SetToSeq(heads)[i] IN Row(IF head = On("branch", name) THEN "*" ELSE " ", name)]
\* `git status`: the head line; a branch that has an upstream names it too.
StatusRow ==
    <<CASE head.kind = "branch" -> Row("##", head.name)
        [] head.kind = "unborn" -> Row("## No commits yet on", head.name)
        [] OTHER -> Row("## HEAD (no branch)", NoName)>>
Wrote(code, rows) == output' = [code |-> code, rows |-> rows, heads |-> heads, head |-> head]

Reads ==
    /\ query.method \in {"status", "branches", "diff"} /\ output = NoOutput
    /\ Wrote(0, IF query.method = "branches" THEN BranchRows ELSE IF query.method = "status" THEN StatusRow ELSE <<>>)
    /\ UNCHANGED <<heads, head, before, query, answer>>

SwitchTo(name) == head' = On("branch", name) /\ before' = Checked
\* git switch: to a local branch, to one that it makes of a remote's, or back.
Switches ==
    /\ query.method = "checkout" /\ output = NoOutput
    /\ LET name == IF query.name = Bare THEN before ELSE query.name
       IN \/ ~query.create /\ name \in heads /\ SwitchTo(name) /\ UNCHANGED heads
          \/ ~query.create /\ name \in Upstream \ heads /\ SwitchTo(name) /\ heads' = heads \cup {name}
          \/ query.create /\ name \notin heads /\ name # NoName /\ SwitchTo(name) /\ heads' = heads \cup {name}
    /\ Wrote(0, <<>>)
    /\ UNCHANGED <<query, answer>>
\* It refuses, is cancelled, or its workspace is no repository any more.
GitFails ==
    /\ query # NoQuery /\ output = NoOutput
    /\ Wrote(1, <<>>)
    /\ UNCHANGED <<heads, head, before, query, answer>>

\* The agent's and the user's own commands.
GitElsewhere ==
    /\ \/ \E b \in LocalName : heads' = heads \cup {b} /\ head' = On("branch", b) /\ before' = Checked
       \/ \E b \in heads : b # Checked /\ heads' = heads \ {b} /\ UNCHANGED <<head, before>>
       \/ head' = On("detached", "(HEAD detached)") /\ before' = Checked /\ UNCHANGED heads
    /\ UNCHANGED <<query, output, answer>>

-----------------------------------------------------------------------------
\* Mutant: a row without its tab is dropped.
RowsWithTab(rows) == IF rows # <<>> /\ rows[1].marker = " " THEN Tail(rows) ELSE rows
\* trim takes the blank and the tab of a first row that is not the current branch;
\* such a row is a name all the same.
ParsedRows(rows) ==
    IF rows # <<>> /\ rows[1].marker = " " THEN <<Row(rows[1].name, rows[1].name)>> \o Tail(rows) ELSE rows

Current(rows) ==
    IF \E i \in DOMAIN rows : rows[i].marker = "*"
    THEN rows[CHOOSE i \in DOMAIN rows : rows[i].marker = "*"].name ELSE NoName
\* The head line without its mark: the words of an unborn or a detached HEAD stay.
HeadName(row) == IF row.marker = "##" THEN row.name ELSE row.marker

Answers ==
    /\ query # NoQuery /\ output # NoOutput /\ query' = NoQuery /\ output' = NoOutput
    /\ answer' =
        IF output.code # 0 THEN Failed
        ELSE LET rows == ParsedRows(output.rows)
             IN [NoAnswer EXCEPT
                   !.method = query.method,
                   !.current = CASE query.method = "branches" -> Current(rows)
                                 [] query.method = "status" -> HeadName(output.rows[1])
                                 [] OTHER -> query.name,
                   !.branches = IF query.method = "branches" THEN {rows[i].name : i \in DOMAIN rows} ELSE {}]
    /\ UNCHANGED <<heads, head, before>>

GitNext ==
    \/ \E method \in {"status", "branches", "diff"} : Calls(method, NoName, FALSE)
    \/ \E name \in LocalName \cup {Bare}, create \in BOOLEAN : Calls("checkout", name, create)
    \/ Reads \/ Switches \/ GitFails \/ GitElsewhere \/ Answers

-----------------------------------------------------------------------------
Changed == {p \in DOMAIN tree \cup DOMAIN tree' :
               (p \in DOMAIN tree /\ p \in DOMAIN tree') => tree[p] # tree'[p]}

\* A request changes what is at or beneath the paths it names, but for directories
\* made on the way to them, and a copy keeps what it copies: so neither the
\* workspace itself nor what another request is about goes away, in whatever
\* order they are done.
OnlyWhatIsNamed ==
    [][\A c \in Call :
         LET r == call[c] IN
         call'[c] # r => \A p \in Changed :
            \/ IsPrefix(Target(r), p) /\ p # Root
            \/ r.op = "rename" /\ IsPrefix(r.from, p) /\ p # Root
            \/ p \in Parents(Target(r)) /\ p \notin DOMAIN tree]_files

\* "Copy ... to a new path": a copy changes nothing that was there.
CopiesToANewPath ==
    [][\A c \in Call : call[c].op = "copy" /\ call'[c] # call[c] => Changed \cap DOMAIN tree = {}]_files

\* What is answered is what git saw: every local branch and no other name, and the
\* branch that was checked out, when one was.
AnswersTheRepository ==
    [][output.head.kind = "branch" /\ answer' # answer /\ answer'.method \in {"status", "branches"} =>
         /\ answer'.current = output.head.name
         /\ answer'.method = "branches" => answer'.branches = output.heads]_git

GitSwitched == query.method = "checkout" /\ output = NoOutput /\ output'.code = 0
\* A checkout leaves the workspace on the branch it names, and makes one only when
\* it is asked to or when a remote has the name.
SwitchesToTheNamed ==
    [][GitSwitched =>
         /\ head' = On("branch", query.name)
         /\ heads' # heads => query.create \/ query.name \in Upstream]_git

\* Disagreement with apiGit.ts: "Switch to a local branch, optionally creating it
\* first."
SwitchesToLocal == [][GitSwitched /\ ~query.create => query.name \in heads]_git

\* Disagreement with apiGit.ts: "List local branches and identify the checked-out
\* one."  A detached HEAD is listed among them.
ListsLocalBranches ==
    [][answer' # answer /\ answer'.method = "branches" => answer'.branches \subseteq output.heads]_git
===============================================================================
