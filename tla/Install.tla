-------------------------------- MODULE Install --------------------------------
(***************************************************************************)
(* The program directory of a release: hulala install, update, rollback    *)
(* and uninstall under the operation lock, from                            *)
(* apps/cli/src/distribution/install.ts and commands.ts.                   *)
(*                                                                         *)
(* A process may crash, or its operation throw, between any two writes; a  *)
(* recursive removal passes through a damaged directory.  Downloading and  *)
(* unpacking happen in directories of their own and are part of staging.   *)
(*                                                                         *)
(* Two timings are assumed away.  Between finding a lock dead and removing *)
(* it, no other waiter does the same; and a process that made the lock     *)
(* writes its owner file within the ten seconds of grace.                  *)
(***************************************************************************)
EXTENDS Naturals, FiniteSets, TLC

CONSTANTS
    Process,    \* terminals; each runs one command after the other
    Version,    \* the releases
    None        \* no version, no lock, no active.json

ASSUME InstallAssumption ==
    /\ None \notin Version
    /\ None \notin [holder : Process, owned : BOOLEAN, live : BOOLEAN]
    /\ None \notin [current : Version, previous : Version \cup {None}]

VARIABLES
    pc,         \* where the command of a process is
    job,        \* its command and the version it installs or goes back to
    own,        \* the version it runs itself (HULALA_PACKAGE_ROOT)
    lock,       \* .operation-lock: who made it, with owner.json, by a live process
    dirs,       \* versions/: "absent", "complete" or "damaged"
    active,     \* active.json
    victim,     \* the directory a process is removing
    command,    \* installation.json, bin/hulala and its link on PATH
    removing    \* an uninstall began and none has finished since

files == <<dirs, active, victim, command, removing>>
vars == <<pc, job, own, lock, files>>

\* Terminals and versions are alike.
Alike == Permutations(Process) \cup Permutations(Version)

\* The first step of each command under the lock.
First == [install |-> "stage", rollback |-> "roll", uninstall |-> "assert"]

Goto(p, label) == pc' = [pc EXCEPT ![p] = label]
Inside(p) == pc[p] \notin {"idle", "lock", "refused"}
Reachable(a) == IF a = None THEN {} ELSE {a.current, a.previous} \ {None}

-----------------------------------------------------------------------------
(* The lock                                                                *)

\* Mutant: a lock without an owner file is dead at once.
DeadEarly(l) == ~l.owned \/ ~l.live

\* Its process is gone; without an owner file it is ten seconds old, which is longer
\* than a living process takes to write that file or to fail.
Dead(l) == IF l.owned THEN ~l.live ELSE ~Inside(l.holder)

\* Every command but install needs the receipt of an installation.
Start(p, kind, v) ==
    /\ pc[p] = "idle"
    /\ kind # "install" => command.receipt
    /\ Goto(p, "lock")
    /\ job' = [job EXCEPT ![p] = [kind |-> kind, version |-> v]]
    /\ own' = [own EXCEPT ![p] = IF active = None THEN None ELSE active.current]
    /\ UNCHANGED <<lock, files>>

MakeLock(p) ==
    /\ pc[p] = "lock" /\ lock = None
    /\ lock' = [holder |-> p, owned |-> FALSE, live |-> TRUE]
    /\ Goto(p, "own")
    /\ UNCHANGED <<job, own, files>>

BreakLock(p) ==
    /\ pc[p] = "lock" /\ lock # None /\ Dead(lock)
    /\ lock' = None
    /\ UNCHANGED <<pc, job, own, files>>

\* The deadline of two minutes, which only a lock found alive runs into.
GiveUp(p) ==
    /\ pc[p] = "lock" /\ lock # None /\ ~Dead(lock)
    /\ Goto(p, "refused")
    /\ UNCHANGED <<job, own, lock, files>>

Return(p) ==
    /\ pc[p] = "refused"
    /\ Goto(p, "idle")
    /\ UNCHANGED <<job, own, lock, files>>

WriteOwner(p) ==
    /\ pc[p] = "own"
    /\ lock' = [holder |-> p, owned |-> TRUE, live |-> TRUE]
    /\ Goto(p, First[job[p].kind])
    /\ UNCHANGED <<job, own, files>>

\* Mutant: what the command left behind is not given back.
UnlockLate(p) ==
    /\ pc[p] = "unlock"
    /\ Goto(p, "idle")
    /\ UNCHANGED <<job, own, lock, files>>

\* Only the lock whose owner file has the nonce of this process is removed.
Unlock(p) ==
    /\ pc[p] = "unlock"
    /\ lock' = IF lock # None /\ lock.holder = p /\ lock.owned THEN None ELSE lock
    /\ Goto(p, "idle")
    /\ UNCHANGED <<job, own, files>>

\* Mutant: the removal under way is forgotten only by a crash.
FailsOpen(p) ==
    /\ Inside(p) /\ pc[p] # "unlock"
    /\ Goto(p, "unlock")
    /\ UNCHANGED <<job, own, lock, files>>

\* Any step of the operation may throw; finally gives the lock back.
Fails(p) ==
    /\ Inside(p) /\ pc[p] # "unlock"
    /\ Goto(p, "unlock")
    /\ victim' = [victim EXCEPT ![p] = None]
    /\ UNCHANGED <<job, own, lock, dirs, active, command, removing>>

Crash(p) ==
    /\ Inside(p)
    /\ Goto(p, "idle")
    /\ victim' = [victim EXCEPT ![p] = None]
    /\ lock' = IF lock # None /\ lock.holder = p THEN [lock EXCEPT !.live = FALSE] ELSE lock
    /\ UNCHANGED <<job, own, dirs, active, command, removing>>

-----------------------------------------------------------------------------
(* install and update                                                      *)

\* A verified directory of this version is used as it is.
Stage(p) ==
    /\ pc[p] = "stage"
    /\ Goto(p, IF dirs[job[p].version] = "complete" THEN "activate" ELSE "copy")
    /\ UNCHANGED <<job, own, lock, files>>

\* The staged copy was verified and run; it does not replace a damaged directory.
Commit(p) ==
    /\ pc[p] = "copy" /\ dirs[job[p].version] # "damaged"
    /\ dirs' = [dirs EXCEPT ![job[p].version] = "complete"]
    /\ Goto(p, "activate")
    /\ UNCHANGED <<job, own, lock, active, victim, command, removing>>

Activated(a, v) ==
    IF a # None /\ a.current = v THEN a
    ELSE [current |-> v, previous |-> IF a = None THEN None ELSE a.current]

Activate(p) ==
    /\ pc[p] = "activate" /\ dirs[job[p].version] = "complete"
    /\ active' = Activated(active, job[p].version)
    /\ Goto(p, IF job[p].kind = "install" THEN "prune" ELSE "unlock")
    /\ UNCHANGED <<job, own, lock, dirs, victim, command, removing>>

\* Mutant: the previous version is not kept.
RetainedCurrent(p) == {active.current, own[p]}

\* Current, previous, and the version this very process runs.
Retained(p) == Reachable(active) \cup {own[p]}

Prune(p, v) ==
    /\ pc[p] = "prune" /\ dirs[v] = "complete" /\ v \notin Retained(p)
    /\ dirs' = [dirs EXCEPT ![v] = "damaged"]
    /\ victim' = [victim EXCEPT ![p] = v]
    /\ Goto(p, "pruning")
    /\ UNCHANGED <<job, own, lock, active, command, removing>>

Pruned(p) ==
    /\ pc[p] = "pruning"
    /\ dirs' = [dirs EXCEPT ![victim[p]] = "absent"]
    /\ victim' = [victim EXCEPT ![p] = None]
    /\ Goto(p, "prune")
    /\ UNCHANGED <<job, own, lock, active, command, removing>>

\* Damaged directories and those that refused removal are left alone.
PruneEnds(p) ==
    /\ pc[p] = "prune" /\ \A v \in Version \ Retained(p) : dirs[v] # "complete"
    /\ Goto(p, "receipt")
    /\ UNCHANGED <<job, own, lock, files>>

PruneRefused(p) ==
    /\ pc[p] = "pruning"
    /\ victim' = [victim EXCEPT ![p] = None]
    /\ Goto(p, "prune")
    /\ UNCHANGED <<job, own, lock, dirs, active, command, removing>>

\* One write of installLauncher: the receipt, the command file, then the link.
Write(p, at, field, next) ==
    /\ pc[p] = at
    /\ command' = [command EXCEPT ![field] = TRUE]
    /\ Goto(p, next)
    /\ UNCHANGED <<job, own, lock, dirs, active, victim, removing>>

\* Mutant: the link comes before the command it points to.
InstallLink(p) ==
    \/ Write(p, "receipt", "receipt", "link")
    \/ Write(p, "link", "link", "file")
    \/ Write(p, "file", "file", "unlock")

InstallLauncher(p) ==
    \/ Write(p, "receipt", "receipt", "file")
    \/ Write(p, "file", "file", "link")
    \/ Write(p, "link", "link", "unlock")

-----------------------------------------------------------------------------
(* rollback and uninstall                                                  *)

Rollback(p) ==
    /\ pc[p] = "roll" /\ active # None /\ active.previous # None
    /\ job' = [job EXCEPT ![p] = [kind |-> "rollback", version |-> active.previous]]
    /\ Goto(p, "activate")
    /\ UNCHANGED <<own, lock, files>>

\* assertLauncherOwned
CheckOwned(p) ==
    /\ pc[p] = "assert" /\ command.receipt /\ command.file /\ command.link
    /\ removing' = TRUE
    /\ Goto(p, "remove")
    /\ UNCHANGED <<job, own, lock, dirs, active, victim, command>>

\* Mutant: the version the uninstaller runs is left behind.
RemovableOthers(p) == {v \in Version : dirs[v] = "complete"} \ {own[p]}

\* Directories with a valid manifest.
Removable(p) == {v \in Version : dirs[v] = "complete"}

Remove(p, v) ==
    /\ pc[p] = "remove" /\ v \in Removable(p)
    /\ dirs' = [dirs EXCEPT ![v] = "damaged"]
    /\ victim' = [victim EXCEPT ![p] = v]
    /\ Goto(p, "deleting")
    /\ UNCHANGED <<job, own, lock, active, command, removing>>

Removed(p) ==
    /\ pc[p] = "deleting"
    /\ dirs' = [dirs EXCEPT ![victim[p]] = "absent"]
    /\ victim' = [victim EXCEPT ![p] = None]
    /\ Goto(p, "remove")
    /\ UNCHANGED <<job, own, lock, active, command, removing>>

RemoveEnds(p) ==
    /\ pc[p] = "remove" /\ Removable(p) = {}
    /\ Goto(p, "unlink")
    /\ UNCHANGED <<job, own, lock, files>>

Erase(p, at, field, next) ==
    /\ pc[p] = at
    /\ command' = [command EXCEPT ![field] = FALSE]
    /\ Goto(p, next)
    /\ UNCHANGED <<job, own, lock, dirs, active, victim, removing>>

Deactivate(p) ==
    /\ pc[p] = "deactivate"
    /\ active' = None
    /\ Goto(p, "forget")
    /\ UNCHANGED <<job, own, lock, dirs, victim, command, removing>>

Forget(p) ==
    /\ pc[p] = "forget"
    /\ command' = [command EXCEPT !["receipt"] = FALSE]
    /\ removing' = FALSE
    /\ Goto(p, "unlock")
    /\ UNCHANGED <<job, own, lock, dirs, active, victim>>

RemoveCommand(p) ==
    \/ Erase(p, "unlink", "link", "unfile")
    \/ Erase(p, "unfile", "file", "deactivate")
    \/ Deactivate(p) \/ Forget(p)

-----------------------------------------------------------------------------
Init ==
    /\ pc = [p \in Process |-> "idle"]
    /\ job = [p \in Process |-> [kind |-> "install", version |-> None]]
    /\ own = [p \in Process |-> None]
    /\ lock = None
    /\ dirs = [v \in Version |-> "absent"]
    /\ active = None
    /\ victim = [p \in Process |-> None]
    /\ command = [field \in {"receipt", "file", "link"} |-> FALSE]
    /\ removing = FALSE

Locking(p) ==
    MakeLock(p) \/ BreakLock(p) \/ GiveUp(p) \/ Return(p) \/ WriteOwner(p) \/ Unlock(p)

Installing(p) ==
    \/ Stage(p) \/ Commit(p) \/ Activate(p)
    \/ \E v \in Version : Prune(p, v)
    \/ Pruned(p) \/ PruneRefused(p) \/ PruneEnds(p) \/ InstallLauncher(p)

Removing(p) ==
    \/ Rollback(p) \/ CheckOwned(p)
    \/ \E v \in Version : Remove(p, v)
    \/ Removed(p) \/ RemoveEnds(p) \/ RemoveCommand(p)

Next == \E p \in Process :
    \/ \E v \in Version : Start(p, "install", v)
    \/ \E kind \in {"rollback", "uninstall"} : Start(p, kind, None)
    \/ Locking(p) \/ Installing(p) \/ Removing(p) \/ Fails(p) \/ Crash(p)

Spec == Init /\ [][Next]_vars

-----------------------------------------------------------------------------
\* Type invariant.
InstallTypeOK ==
    /\ job \in [Process -> [kind : DOMAIN First, version : Version \cup {None}]]
    /\ own \in [Process -> Version \cup {None}]
    /\ lock = None \/ lock \in [holder : Process, owned : BOOLEAN, live : BOOLEAN]
    /\ dirs \in [Version -> {"absent", "complete", "damaged"}]
    /\ active = None \/ active \in [current : Version, previous : Version \cup {None}]
    /\ command \in [{"receipt", "file", "link"} -> BOOLEAN]
    /\ \A p \in Process : (victim[p] # None) <=> pc[p] \in {"pruning", "deleting"}

\* Operations serialize: one command at a time is past the lock, whoever crashed.
OneOperation == \A p, q \in Process : Inside(p) /\ Inside(q) => p = q

\* The active version and the one a rollback goes to are complete on the disk, after
\* any crash or failure of an install, update or rollback.
ReachableInstalled ==
    ~removing => \A v \in Reachable(active) : dirs[v] = "complete"

\* The command on PATH leads to an active version.
CommandStarts == ~removing /\ command.link => command.file /\ active # None

\* The command on PATH works as soon as it is there, and so does the version it
\* starts and the one a rollback would start.
CommandWorks == ReachableInstalled /\ CommandStarts

\* Disagreement: install.ts, "keeping those plus a version still running in another
\* terminal".  pruneVersions is told the version of its own process only.
RunningIsKept ==
    \A p, q \in Process : pc[p] = "pruning" /\ pc[q] # "idle" => victim[p] # own[q]

\* A command is refused because another one runs, never because one crashed.
RefusedByTheRunning ==
    [][\A p \in Process : pc[p] = "lock" /\ pc'[p] = "refused" => Inside(lock.holder)]_vars

\* An uninstall that ends without an error leaves no version and no command.
UninstallComplete ==
    [][\A p \in Process : Forget(p) =>
          /\ active = None /\ ~command.link /\ ~command.file
          /\ \A v \in Version : dirs[v] # "complete"]_vars

\* Commands end as they report: refused by one that runs, or uninstalled entirely.
CommandsReportTruly == RefusedByTheRunning /\ UninstallComplete
=============================================================================
