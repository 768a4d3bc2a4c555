------------------------------ MODULE CommandPath ------------------------------
(***************************************************************************)
(* Where the command of an installation goes: the real file in Hulala's    *)
(* own bin, its link in a directory of the user, and the block in the      *)
(* shell's profiles that puts that directory on PATH, written by install   *)
(* and update and taken back by uninstall (the directories of the versions *)
(* are Install's).  One command at a time, under the operation lock; it    *)
(* may be killed, and another program may come to the same name.           *)
(*                                                                         *)
(* And what that command does in a terminal: the shell script picks a      *)
(* Node, the program reads active.json, spawns the installed version and   *)
(* ends as it ended, while updates of other terminals replace active.json  *)
(* and remove the versions that nothing leads to.                          *)
(***************************************************************************)
EXTENDS Integers, FiniteSets

CONSTANTS
    Bin,        \* directories for the command outside the state root
    Base,       \* those that are on PATH whatever the profiles say
    Default,    \* ~/.local/bin
    Profile,    \* the files a terminal of this shell reads, one or the other; none for an unknown shell
    Moves,      \* --bin may name another directory than the recorded one
    None,
    Launchers,
    Versions,   \* the releases, in the order in which they are installed
    Floor,      \* the Node that is new enough
    Nodes       \* the Node versions that may be found

ASSUME PathAssumption == Base \subseteq Bin /\ Default \in Bin /\ None \notin Bin

VARIABLES
    path,       \* PATH of the terminal the command runs in
    at,         \* Bin -> what has the name: "none", "link" to the real file, "launcher" of this
                \* root, or the "other" program
    real,       \* bin/hulala of the state root
    receipt,    \* installation.json: the command's directory, the directory registered and where
    profiles,   \* Profile -> directories whose block is in it
    run,        \* the command under way
    said,       \* the directory an install has just reported that new terminals find
    killed,     \* a command has been killed, or could not write a profile
    found,      \* Node in the state root, in the shared directory of old, on PATH; 0 for none
    active,     \* active.json
    dirs,       \* versions/
    launched,   \* Launchers -> where its command is
    version,    \* Launchers -> the version read from active.json
    updates,    \* Launchers -> updates since then
    child,      \* Launchers -> its program: "none", "runs", or how it ended
    outcome     \* Launchers -> how the command ended
commandPath == <<path, at, real, receipt, profiles, run, said, killed>>
launcher == <<found, active, dirs, launched, version, updates, child, outcome>>

NoReceipt == [bin |-> None, block |-> None, files |-> {}]
Idle == [step |-> "idle", bin |-> None, add |-> FALSE, before |-> NoReceipt, files |-> {}]

PathInit ==
    /\ path = Base /\ at \in [Bin -> {"none", "launcher", "other"}]
    /\ real = FALSE /\ receipt = NoReceipt
    /\ profiles = [f \in Profile |-> {}]
    /\ run = Idle /\ said = None /\ killed = FALSE

Goto(step) == run' = [run EXCEPT !.step = step]

-----------------------------------------------------------------------------
(* install and update                                                      *)

\* The directories on PATH that the user may write to; any of them may be the best.
userPathDirectories == path
\* --bin, else the recorded directory, else one of the user's on PATH, else the default.
Chosen(option) ==
    IF option # None THEN {option}
    ELSE IF receipt.bin # None THEN {receipt.bin}
    ELSE IF userPathDirectories # {} THEN userPathDirectories ELSE {Default}

Install(option, add) ==
    /\ run = Idle
    /\ option = None \/ receipt.bin = None \/ option = receipt.bin \/ Moves
    /\ \E bin \in Chosen(option) :
          run' = [step |-> "receipt", bin |-> bin, add |-> add, before |-> receipt, files |-> {}]
    /\ said' = None /\ UNCHANGED <<path, at, real, receipt, profiles, killed>>

\* Mutant: the new receipt forgets the registration.
writeReceiptAnew ==
    /\ run.step = "receipt" /\ Goto("file")
    /\ receipt' = [NoReceipt EXCEPT !.bin = run.bin]
    /\ UNCHANGED <<path, at, real, profiles, said, killed>>
writeReceipt ==
    /\ run.step = "receipt" /\ Goto("file")
    /\ receipt' = [receipt EXCEPT !.bin = run.bin]
    /\ UNCHANGED <<path, at, real, profiles, said, killed>>

writeCommand ==
    /\ run.step = "file" /\ real' = TRUE /\ Goto("link")
    /\ UNCHANGED <<path, at, receipt, profiles, said, killed>>

\* Mutant: whatever has the name gives way.
takeName ==
    /\ run.step = "link"
    /\ IF at[run.bin] = "link" THEN Goto("path") /\ UNCHANGED at
       ELSE Goto("symlink") /\ at' = [at EXCEPT ![run.bin] = "none"]
    /\ UNCHANGED <<path, real, receipt, profiles, said, killed>>
\* Hulala's link stays, its launcher of old makes way, another program's file ends the install.
freeName ==
    /\ run.step = "link"
    /\ CASE at[run.bin] = "link" -> Goto("path") /\ UNCHANGED at
         [] at[run.bin] = "other" -> run' = Idle /\ UNCHANGED at
         [] OTHER -> Goto("symlink") /\ at' = [at EXCEPT ![run.bin] = "none"]
    /\ UNCHANGED <<path, real, receipt, profiles, said, killed>>

\* EEXIST when somebody came first.
symlink ==
    /\ run.step = "symlink"
    /\ IF at[run.bin] = "none" THEN at' = [at EXCEPT ![run.bin] = "link"] /\ Goto("path")
       ELSE run' = Idle /\ UNCHANGED at
    /\ UNCHANGED <<path, real, receipt, profiles, said, killed>>

\* A registration of the receipt, for whichever directory, is taken for this one.
onPathAlready ==
    /\ run.step = "path"
    /\ IF run.bin \notin path /\ run.before.block = None /\ run.add /\ Profile # {}
       THEN Goto("profile") ELSE Goto("report")
    /\ UNCHANGED <<path, at, real, receipt, profiles, said, killed>>

\* Mutant: the profile of one kind of terminal is enough.
addOnce(f) ==
    /\ run.step = "profile" /\ run.files = {}
    /\ profiles' = [profiles EXCEPT ![f] = @ \cup {run.bin}]
    /\ run' = [run EXCEPT !.files = Profile]
    /\ UNCHANGED <<path, at, real, receipt, said, killed>>
\* One profile after the other, unless it has the block.
addCommandPath(f) ==
    /\ run.step = "profile" /\ f \notin run.files
    /\ profiles' = [profiles EXCEPT ![f] = @ \cup {run.bin}]
    /\ run' = [run EXCEPT !.files = @ \cup {f}]
    /\ UNCHANGED <<path, at, real, receipt, said, killed>>

\* A profile that cannot be written: the install goes on, nothing is remembered.
addFails ==
    /\ run.step = "profile" /\ run.files # Profile
    /\ Goto("report") /\ killed' = TRUE
    /\ UNCHANGED <<path, at, real, receipt, profiles, said>>

rememberPath ==
    /\ run.step = "profile" /\ run.files = Profile
    /\ receipt' = [receipt EXCEPT !.block = run.bin, !.files = run.files]
    /\ Goto("report")
    /\ UNCHANGED <<path, at, real, profiles, said, killed>>

\* "New terminals can already run it", unless this one can, or nothing is registered.
report ==
    /\ run.step = "report"
    /\ said' = IF run.bin \notin path /\ receipt.block # None THEN run.bin ELSE None
    /\ run' = Idle
    /\ UNCHANGED <<path, at, real, receipt, profiles, killed>>

-----------------------------------------------------------------------------
(* uninstall                                                               *)

\* A file that is not a link passes, and is left alone.
assertLauncherOwned ==
    /\ run = Idle /\ receipt.bin # None /\ real /\ at[receipt.bin] # "none"
    /\ run' = [Idle EXCEPT !.step = "unlink", !.before = receipt] /\ said' = None
    /\ UNCHANGED <<path, at, real, receipt, profiles, killed>>

removeCommand ==
    \/ /\ run.step = "unlink"
       /\ IF at[receipt.bin] = "none" THEN run' = Idle /\ UNCHANGED <<at, real>>
          ELSE /\ Goto("forget") /\ real' = FALSE
               /\ at' = [at EXCEPT ![receipt.bin] = IF @ = "link" THEN "none" ELSE @]
       /\ UNCHANGED receipt
    \/ /\ run.step = "forget" /\ receipt' = NoReceipt /\ Goto("unblock")
       /\ UNCHANGED <<at, real>>
Unlinks == removeCommand /\ UNCHANGED <<path, profiles, said, killed>>

\* The receipt is gone; the registration is the one read before.
removeCommandPath(f) ==
    /\ run.step = "unblock" /\ f \in run.before.files
    /\ profiles' = [profiles EXCEPT ![f] = @ \ {run.before.block}]
    /\ run' = [run EXCEPT !.before.files = @ \ {f}]
    /\ UNCHANGED <<path, at, real, receipt, said, killed>>

Uninstalled ==
    /\ run.step = "unblock" /\ run.before.files = {}
    /\ run' = Idle
    /\ UNCHANGED <<path, at, real, receipt, profiles, said, killed>>

-----------------------------------------------------------------------------
Killed ==
    /\ run # Idle /\ run' = Idle /\ killed' = TRUE
    /\ UNCHANGED <<path, at, real, receipt, profiles, said>>

\* A login shell and another one read different files.
NewTerminal ==
    /\ run = Idle
    /\ path' \in IF Profile = {} THEN {Base} ELSE {Base \cup profiles[f] : f \in Profile}
    /\ UNCHANGED <<at, real, receipt, profiles, run, said, killed>>

OtherProgram(bin) ==
    /\ at[bin] \in {"none", "other"}
    /\ at' = [at EXCEPT ![bin] = IF @ = "none" THEN "other" ELSE "none"]
    /\ UNCHANGED <<path, real, receipt, profiles, run, said, killed>>

PathNext ==
    \/ \E option \in Bin \cup {None}, add \in BOOLEAN : Install(option, add)
    \/ writeReceipt \/ writeCommand \/ freeName \/ symlink
    \/ onPathAlready \/ addFails \/ rememberPath \/ report
    \/ assertLauncherOwned \/ Unlinks \/ Uninstalled
    \/ \E f \in Profile : addCommandPath(f) \/ removeCommandPath(f)
    \/ Killed \/ NewTerminal \/ \E bin \in Bin : OtherProgram(bin)

-----------------------------------------------------------------------------
(* The launcher                                                            *)

Where == {"installed", "shared", "path"}
Signal == {"SIGINT", "SIGTERM", "SIGHUP", "SIGKILL"}
Forwarded == {"SIGINT", "SIGTERM"}
Code == {"0", "1"}

LauncherInit ==
    /\ found \in [Where -> Nodes \cup {0}]
    /\ active = [current |-> 1, previous |-> 0] /\ dirs = {1}
    /\ launched = [t \in Launchers |-> "shell"]
    /\ version = [t \in Launchers |-> 0] /\ updates = [t \in Launchers |-> 0]
    /\ child = [t \in Launchers |-> "none"] /\ outcome = [t \in Launchers |-> "none"]

\* The Node of the state root hides the one of the shared directory, usable or not.
Candidates ==
    (IF found["installed"] # 0 THEN {"installed"} ELSE {"shared"}) \cup {"path"}
node_usable(where) == found[where] >= Floor

Ends(t, how) == launched' = [launched EXCEPT ![t] = "ended"] /\ outcome' = [outcome EXCEPT ![t] = how]

launcherScript(t) ==
    /\ launched[t] = "shell"
    /\ IF \E where \in Candidates : node_usable(where)
       THEN launched' = [launched EXCEPT ![t] = "read"] /\ UNCHANGED outcome
       ELSE Ends(t, "1")
    /\ UNCHANGED <<found, active, dirs, version, updates, child>>

readActive(t) ==
    /\ launched[t] = "read"
    /\ version' = [version EXCEPT ![t] = active.current]
    /\ updates' = [updates EXCEPT ![t] = 0]
    /\ launched' = [launched EXCEPT ![t] = "spawn"]
    /\ UNCHANGED <<found, active, dirs, child, outcome>>

\* The error event of a program that is not there.
spawn(t) ==
    /\ launched[t] = "spawn"
    /\ IF version[t] \in dirs
       THEN launched' = [launched EXCEPT ![t] = "waits"] /\ child' = [child EXCEPT ![t] = "runs"] /\ UNCHANGED outcome
       ELSE Ends(t, "1") /\ UNCHANGED child
    /\ UNCHANGED <<found, active, dirs, version, updates>>

\* A program that handles a signal ends with a code of its own, if it ends at all.
ChildEnds(t, how) ==
    /\ child[t] = "runs" /\ child' = [child EXCEPT ![t] = how]
    /\ UNCHANGED <<found, active, dirs, launched, version, updates, outcome>>

\* Mutant: the handlers stay, so that its own signal goes to the program once more
\* and the command ends with code 0.
endsForwarding(t) ==
    /\ launched[t] = "waits" /\ child[t] \notin {"none", "runs"}
    /\ Ends(t, IF child[t] \in Forwarded THEN "0" ELSE child[t])
    /\ UNCHANGED <<found, active, dirs, version, updates, child>>
ends(t) ==
    /\ launched[t] = "waits" /\ child[t] \notin {"none", "runs"}
    /\ Ends(t, child[t])
    /\ UNCHANGED <<found, active, dirs, version, updates, child>>

\* A signal to the command alone: forwarded while the program is waited for,
\* its end at any other time or of any other kind.
LauncherKilled(t, signal) ==
    /\ launched[t] \notin {"shell", "ended"}
    /\ IF launched[t] = "waits" /\ signal \in Forwarded
       THEN /\ child' \in {child, [child EXCEPT ![t] = IF @ = "runs" THEN signal ELSE @]}
            /\ UNCHANGED <<launched, outcome>>
       ELSE Ends(t, signal) /\ UNCHANGED child
    /\ UNCHANGED <<found, active, dirs, version, updates>>

\* Mutant: only the current version is retained.
RetainedCurrent(own) == {active.current, own}
\* What an update by a program of version own keeps.
Retained(own) == {active.current, active.previous, own}

\* An update to the next version, by the program of a terminal or by the installer's script.
Activate(own) ==
    /\ active.current < Versions /\ own \in {active.current} \cup {version[t] : t \in {u \in Launchers : child[u] = "runs"}}
    /\ active' = [current |-> active.current + 1, previous |-> active.current]
    /\ dirs' = dirs \cup {active'.current}
    /\ updates' = [t \in Launchers |-> updates[t] + 1]
    /\ UNCHANGED <<found, launched, version, child, outcome>>
\* The removals that follow it, one at a time.
Prune(own, v) ==
    /\ v \in dirs \ Retained(own) /\ dirs' = dirs \ {v}
    /\ UNCHANGED <<found, active, launched, version, updates, child, outcome>>

LauncherNext ==
    \/ \E t \in Launchers :
          \/ launcherScript(t) \/ readActive(t) \/ spawn(t) \/ ends(t)
          \/ \E how \in Code \cup Signal : ChildEnds(t, how)
          \/ \E signal \in Signal : LauncherKilled(t, signal)
    \/ \E own \in dirs : Activate(own) \/ \E v \in dirs : Prune(own, v)

-----------------------------------------------------------------------------
\* Another program at the chosen name is never removed or written over, whichever
\* step it comes between.
OthersAreKept ==
    [][\A bin \in Bin : at[bin] = "other" /\ at'[bin] # "other" => run' = run]_commandPath

\* What an install reports is so: every kind of new terminal finds the command.
NewTerminalsFind ==
    said # None /\ ~killed => \A f \in Profile : said \in Base \cup profiles[f]

\* An uninstall that comes to its end leaves no link and no block in any profile.
LeavesNothing ==
    [][Uninstalled /\ ~killed =>
        /\ \A bin \in Bin : at[bin] # "link"
        /\ \A f \in Profile : profiles[f] = {}]_commandPath

\* A command ends as its program ended, unless the command itself was killed by a
\* signal it does not forward; and where a usable Node and one update at most leave
\* no reason to fail, it does not end before its program.
EndsAsItsProgram ==
    \A t \in Launchers : launched[t] = "ended" =>
        \/ outcome[t] = child[t]
        \/ outcome[t] \in Signal \ (IF child[t] = "none" THEN {} ELSE Forwarded)
        \/ /\ child[t] = "none" /\ outcome[t] = "1"
           /\ updates[t] >= 2 \/ ~\E where \in Candidates : node_usable(where)
=============================================================================
