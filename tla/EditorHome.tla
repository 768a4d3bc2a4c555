------------------------------ MODULE EditorHome ------------------------------
(***************************************************************************)
(* The bundled editor, copied from the package of the window that opens it *)
(* into the state root that all windows share: executables renamed into    *)
(* place, directories removed and copied anew, the marker last.  Windows   *)
(* of two versions open their editor at any time, and any of them may die  *)
(* between two steps.                                                      *)
(***************************************************************************)
EXTENDS Integers, Sequences, FiniteSets

CONSTANTS
    Window,
    Package     \* versions, numbered from 1

VARIABLES
    version,    \* window -> the package it runs from
    at,         \* window -> where its prepare() is: an index of Steps, or "idle", "ready"
    home,       \* part -> versions that have files there, and whether one has all of its own
    hurt,       \* windows that copy a directory somebody removed meanwhile
    marker,     \* .editor-package.json: the version published last, or 0
    alone,      \* windows that publish and met no other publication
    torn,       \* versions whose publication ended early since the marker was written
    overlapped  \* publications ran at the same time since then
editorHome == <<version, at, home, hurt, marker, alone, torn, overlapped>>

\* The parsers are copied between the two directories, in the same way.
Part == {"binaries", "runtime", "plugins"}

\* publishEditor after the check; a directory is removed, and copied file by file.
Steps == << <<"install", "binaries">>,
            <<"remove", "runtime">>, <<"copy", "runtime">>, <<"copied", "runtime">>,
            <<"remove", "plugins">>, <<"copy", "plugins">>, <<"copied", "plugins">>,
            <<"mark", "all">> >>

Idle == 0
Ready == Len(Steps) + 1
Publishing == {w \in Window : at[w] \in DOMAIN Steps}

Absent == [of |-> {}, whole |-> FALSE]

HomeInit ==
    /\ version \in [Window -> Package]
    /\ at = [w \in Window |-> Idle]
    /\ home = [p \in Part |-> Absent] /\ hurt = {} /\ marker = 0
    /\ alone = {} /\ torn = {} /\ overlapped = FALSE

Files == <<home, hurt, marker>>
Ghosts == <<alone, torn, overlapped>>
Go(w, step) == at' = [at EXCEPT ![w] = step]
Now(w, act) == at[w] \in DOMAIN Steps /\ Steps[at[w]][1] = act
PartOf(w) == Steps[at[w]][2]

\* The marker is of this package, its runtime and its executables are there.
published(w) ==
    /\ marker = version[w]
    /\ home["runtime"].of # {} /\ home["binaries"].of # {}

prepare(w) ==
    /\ at[w] = Idle
    /\ IF published(w)
       THEN Go(w, Ready) /\ UNCHANGED Ghosts
       ELSE /\ Go(w, 1)
            /\ alone' = IF Publishing = {} THEN {w} ELSE {}
            /\ overlapped' = (overlapped \/ Publishing # {})
            /\ UNCHANGED torn
    /\ UNCHANGED <<version, Files>>

\* A copy beside it is renamed over each executable.
installBinary(w) ==
    /\ Now(w, "install") /\ Go(w, at[w] + 1)
    /\ home' = [home EXCEPT !["binaries"] = [of |-> {version[w]}, whole |-> TRUE]]
    /\ UNCHANGED <<version, hurt, marker, Ghosts>>

\* "Replace, never merge."
\* Mutant: the copy goes over what is there.
RemoveNothing(w) ==
    /\ Now(w, "remove") /\ Go(w, at[w] + 1)
    /\ UNCHANGED <<version, Files, Ghosts>>
Remove(w) ==
    /\ Now(w, "remove") /\ Go(w, at[w] + 1)
    /\ home' = [home EXCEPT ![PartOf(w)] = Absent]
    /\ hurt' = hurt \cup {v \in Publishing \ {w} : Now(v, "copied") /\ PartOf(v) = PartOf(w)}
    /\ UNCHANGED <<version, marker, Ghosts>>

Copy(w) ==
    /\ Now(w, "copy") /\ Go(w, at[w] + 1)
    /\ home' = [home EXCEPT ![PartOf(w)] = [of |-> @.of \cup {version[w]}, whole |-> FALSE]]
    /\ hurt' = hurt \ {w}
    /\ UNCHANGED <<version, marker, Ghosts>>
Copied(w) ==
    /\ Now(w, "copied") /\ Go(w, at[w] + 1)
    /\ home' = [home EXCEPT ![PartOf(w)] = [of |-> @.of \cup {version[w]}, whole |-> w \notin hurt]]
    /\ UNCHANGED <<version, hurt, marker, Ghosts>>

Mark(w) ==
    /\ Now(w, "mark") /\ Go(w, Ready)
    /\ marker' = version[w]
    /\ torn' = {} /\ overlapped' = (overlapped /\ w \notin alone)
    /\ alone' = alone \ {w}
    /\ UNCHANGED <<version, home, hurt>>

\* The window dies, or the file system refuses a step: the editor says so.
Stops(w) ==
    /\ at[w] # Idle /\ Go(w, Idle)
    /\ torn' = torn \cup (IF w \in Publishing THEN {version[w]} ELSE {})
    /\ alone' = alone \ {w}
    /\ version' \in {version} \cup {[version EXCEPT ![w] = p] : p \in Package}
    /\ UNCHANGED <<Files, overlapped>>

HomeNext ==
    \E w \in Window :
        \/ prepare(w) \/ installBinary(w) \/ Remove(w) \/ Copy(w) \/ Copied(w) \/ Mark(w)
        \/ Stops(w)

-----------------------------------------------------------------------------
\* While nobody publishes, the editor is the one the marker names, with no
\* file of another: after any number of publications that died, unless one of
\* another version did since, or two ran at the same time.
Whole(p) == \A part \in Part : home[part] = [of |-> {p}, whole |-> TRUE]
EditorIsOnePackage ==
    Publishing = {} /\ marker # 0 /\ torn \subseteq {marker} /\ ~overlapped => Whole(marker)

\* A window that is ready has the editor of its package, whoever died before
\* ("an older Neovim's files must not survive a downgrade").
ReadyIsWhole == Publishing = {} /\ ~overlapped => \A w \in Window : at[w] = Ready => Whole(version[w])
=============================================================================
