---------------------------- MODULE InstallProofs ----------------------------
(***************************************************************************)
(* Theorems about Install, for every set of terminals and releases.        *)
(*                                                                         *)
(* One inductive invariant carries them.  Its heart is Holding: whoever is *)
(* past the lock made the lock directory there is, which no other command  *)
(* may take for dead.  The rest says what each phase of the one command    *)
(* that runs has established on the disk.                                  *)
(***************************************************************************)
EXTENDS Install, TLAPS

-----------------------------------------------------------------------------
(* The invariant                                                           *)

Label == {"idle", "lock", "own", "refused", "stage", "copy", "activate", "prune",
          "pruning", "receipt", "file", "link", "roll", "assert", "remove",
          "deleting", "unlink", "unfile", "deactivate", "forget", "unlock"}

Types ==
    /\ pc \in [Process -> Label]
    /\ job \in [Process -> [kind : {"install", "rollback", "uninstall"},
                            version : Version \cup {None}]]
    /\ own \in [Process -> Version \cup {None}]
    /\ lock = None \/ lock \in [holder : Process, owned : BOOLEAN, live : BOOLEAN]
    /\ dirs \in [Version -> {"absent", "complete", "damaged"}]
    /\ active = None \/ active \in [current : Version, previous : Version \cup {None}]
    /\ victim \in [Process -> Version \cup {None}]
    /\ command \in [{"receipt", "file", "link"} -> BOOLEAN]
    /\ removing \in BOOLEAN

\* A command that installs names a release, and a removal its directory.
Named ==
    \A p \in Process :
        /\ pc[p] \in {"lock", "own"} /\ job[p].kind = "install" => job[p].version \in Version
        /\ pc[p] \in {"stage", "copy", "activate"} => job[p].version \in Version
        /\ (victim[p] # None) <=> pc[p] \in {"pruning", "deleting"}

\* The lock directory is that of the command inside, and nobody may break it.
Holding ==
    /\ \A p \in Process : Inside(p) => lock # None /\ lock.holder = p /\ lock.live
    /\ lock # None /\ lock.owned /\ lock.live => Inside(lock.holder)

\* What an install or update has done by the time it reaches a phase.
InstallPhases ==
    \A p \in Process :
        /\ pc[p] \in {"prune", "pruning", "receipt", "file", "link"} => active # None
        /\ pc[p] = "pruning" => victim[p] \notin Reachable(active)
        /\ pc[p] = "link" => command.file

\* What an uninstall has done by the time it reaches a phase.
UninstallPhases ==
    \A p \in Process :
        /\ pc[p] \in {"remove", "deleting", "unlink", "unfile", "deactivate", "forget"} => removing
        /\ pc[p] \in {"unlink", "unfile", "deactivate", "forget"}
              => \A v \in Version : dirs[v] # "complete"
        /\ pc[p] \in {"unfile", "deactivate", "forget"} => ~command.link
        /\ pc[p] \in {"deactivate", "forget"} => ~command.file
        /\ pc[p] = "forget" => active = None

\* The disk, and what the command at work on it may rely on.
DiskInv == Named /\ InstallPhases /\ UninstallPhases /\ ReachableInstalled /\ CommandStarts

InstallInv == Types /\ Holding /\ DiskInv

LEMMA InvInitial == Init => InstallInv
<1> SUFFICES ASSUME Init PROVE InstallInv
  OBVIOUS
<1>1. Types
  BY DEF Init, Types, Label
<1>2. Named /\ InstallPhases /\ UninstallPhases
  BY DEF Init, Named, InstallPhases, UninstallPhases
<1>3. Holding
  BY DEF Init, Holding, Inside
<1>4. ReachableInstalled /\ CommandStarts
  BY DEF Init, ReachableInstalled, Reachable, CommandStarts
<1> QED BY <1>1, <1>2, <1>3, <1>4 DEF InstallInv, DiskInv

LEMMA TypesStep ==
  ASSUME Types, Named, [Next]_vars
  PROVE  Types'
<1> USE DEF Types, Label, Goto, files
<1>1. ASSUME NEW p \in Process, NEW v \in Version, Start(p, "install", v) PROVE Types'
  BY <1>1 DEF Start
<1>2. ASSUME NEW p \in Process, NEW kind \in {"rollback", "uninstall"}, Start(p, kind, None)
      PROVE Types'
  BY <1>2 DEF Start
<1>3. ASSUME NEW p \in Process, Locking(p) PROVE Types'
  <2>1. CASE MakeLock(p)
    BY <2>1 DEF MakeLock
  <2>2. CASE BreakLock(p)
    BY <2>2 DEF BreakLock
  <2>3. CASE GiveUp(p) \/ Return(p)
    BY <2>3 DEF GiveUp, Return
  <2>4. CASE WriteOwner(p)
    <3>1. First[job[p].kind] \in {"stage", "roll", "assert"}
      BY DEF First
    <3> QED BY <2>4, <3>1 DEF WriteOwner
  <2>5. CASE Unlock(p)
    BY <2>5 DEF Unlock
  <2> QED BY <1>3, <2>1, <2>2, <2>3, <2>4, <2>5 DEF Locking
<1>4. ASSUME NEW p \in Process, Installing(p) PROVE Types'
  <2>1. CASE Stage(p) \/ Commit(p)
    BY <2>1 DEF Stage, Commit
  <2>2. CASE Activate(p)
    <3>1. active' \in [current : Version, previous : Version \cup {None}]
      BY <2>2 DEF Activate, Activated, Named
    <3> QED BY <2>2, <3>1 DEF Activate
  <2>3. ASSUME NEW v \in Version, Prune(p, v) PROVE Types'
    BY <2>3 DEF Prune
  <2>4. CASE Pruned(p) \/ PruneRefused(p) \/ PruneEnds(p)
    BY <2>4 DEF Pruned, PruneRefused, PruneEnds
  <2>5. CASE InstallLauncher(p)
    <3>1. ASSUME NEW at, NEW field \in {"receipt", "file", "link"}, NEW next \in Label,
                 Write(p, at, field, next)
          PROVE  Types'
      BY <3>1 DEF Write
    <3> QED BY <2>5, <3>1 DEF InstallLauncher
  <2> QED BY <1>4, <2>1, <2>2, <2>3, <2>4, <2>5 DEF Installing
<1>5. ASSUME NEW p \in Process, Removing(p) PROVE Types'
  <2>1. CASE Rollback(p)
    BY <2>1 DEF Rollback
  <2>2. CASE CheckOwned(p)
    BY <2>2 DEF CheckOwned
  <2>3. ASSUME NEW v \in Version, Remove(p, v) PROVE Types'
    BY <2>3 DEF Remove
  <2>4. CASE Removed(p) \/ RemoveEnds(p)
    BY <2>4 DEF Removed, RemoveEnds
  <2>5. CASE RemoveCommand(p)
    <3>1. ASSUME NEW at, NEW field \in {"receipt", "file", "link"}, NEW next \in Label,
                 Erase(p, at, field, next)
          PROVE  Types'
      BY <3>1 DEF Erase
    <3>2. CASE Deactivate(p)
      BY <3>2 DEF Deactivate
    <3>3. CASE Forget(p)
      <4>1. command' \in [{"receipt", "file", "link"} -> BOOLEAN]
        BY <3>3 DEF Forget
      <4> QED BY <3>3, <4>1 DEF Forget
    <3>4. Erase(p, "unlink", "link", "unfile") => Types'
      BY <3>1
    <3>5. Erase(p, "unfile", "file", "deactivate") => Types'
      BY <3>1
    <3> QED BY <2>5, <3>2, <3>3, <3>4, <3>5 DEF RemoveCommand
  <2> QED BY <1>5, <2>1, <2>2, <2>3, <2>4, <2>5 DEF Removing
<1>6. ASSUME NEW p \in Process, Fails(p) \/ Crash(p) PROVE Types'
  BY <1>6 DEF Fails, Crash
<1>7. CASE UNCHANGED vars
  BY <1>7 DEF vars
<1> QED BY <1>1, <1>2, <1>3, <1>4, <1>5, <1>6, <1>7 DEF Next

-----------------------------------------------------------------------------
(* The lock                                                                *)

\* Whoever is past the lock is alone there.
LEMMA Alone ==
  ASSUME Holding, Types, NEW p \in Process, Inside(p)
  PROVE  /\ lock # None /\ lock.holder = p /\ lock.live
         /\ \A q \in Process : q # p => pc[q] \in {"idle", "lock", "refused"}
BY DEF Holding, Types, Inside

\* A step of the operation itself keeps the lock.
LEMMA Working ==
  ASSUME Types, Holding, NEW p \in Process, Inside(p), UNCHANGED lock,
         NEW label, pc' = [pc EXCEPT ![p] = label], label \notin {"idle", "lock", "refused"}
  PROVE  Holding'
BY DEF Types, Holding, Inside

LEMMA HoldingStep ==
  ASSUME Types, Holding, [Next]_vars
  PROVE  Holding'
<1> USE DEF Goto, files
<1>1. ASSUME NEW p \in Process, NEW kind, NEW v, Start(p, kind, v) PROVE Holding'
  BY <1>1 DEF Start, Types, Holding, Inside
<1>2. ASSUME NEW p \in Process, Locking(p) PROVE Holding'
  <2> USE DEF Types, Holding, Inside
  <2>1. CASE MakeLock(p)
    <3>1. lock' \in [holder : Process, owned : BOOLEAN, live : BOOLEAN]
      BY <2>1 DEF MakeLock
    <3>2. lock' # None
      BY <3>1, InstallAssumption
    <3>3. \A q \in Process : ~Inside(q)
      BY <2>1 DEF MakeLock
    <3> QED BY <2>1, <3>2, <3>3 DEF MakeLock
  <2>2. CASE BreakLock(p)
    BY <2>2 DEF BreakLock, Dead
  <2>3. CASE GiveUp(p) \/ Return(p)
    BY <2>3 DEF GiveUp, Return
  <2>4. CASE WriteOwner(p)
    <3>1. /\ Inside(p) /\ lock # None
          /\ \A q \in Process : q # p => ~Inside(q)
      BY <2>4, Alone DEF WriteOwner
    <3>2. First[job[p].kind] \in {"stage", "roll", "assert"}
      BY DEF First
    <3>3. lock' \in [holder : Process, owned : BOOLEAN, live : BOOLEAN]
      BY <2>4 DEF WriteOwner
    <3>4. lock' # None
      BY <3>3, InstallAssumption
    <3> QED BY <2>4, <3>1, <3>2, <3>4 DEF WriteOwner
  <2>5. CASE Unlock(p)
    BY <2>5, Alone DEF Unlock
  <2> QED BY <1>2, <2>1, <2>2, <2>3, <2>4, <2>5 DEF Locking
<1>3. ASSUME NEW p \in Process, Installing(p) PROVE Holding'
  BY <1>3, Working DEF Inside, Installing, Stage, Commit, Activate, Prune, Pruned,
     PruneRefused, PruneEnds, InstallLauncher, Write
<1>4. ASSUME NEW p \in Process, Removing(p) PROVE Holding'
  BY <1>4, Working DEF Inside, Removing, Rollback, CheckOwned, Remove, Removed, RemoveEnds,
     RemoveCommand, Erase, Deactivate, Forget
<1>5. ASSUME NEW p \in Process, Fails(p) PROVE Holding'
  BY <1>5, Working DEF Fails
<1>6. ASSUME NEW p \in Process, Crash(p) PROVE Holding'
  BY <1>6, Alone, InstallAssumption DEF Crash, Types, Holding, Inside
<1>7. CASE UNCHANGED vars
  BY <1>7 DEF vars, Holding, Inside
<1> QED BY <1>1, <1>2, <1>3, <1>4, <1>5, <1>6, <1>7 DEF Next

-----------------------------------------------------------------------------
(* The disk                                                                *)

LEMMA DiskStep ==
  ASSUME InstallInv, [Next]_vars
  PROVE  DiskInv'
<1> USE InstallAssumption DEF InstallInv, DiskInv, Types, Named, InstallPhases, UninstallPhases,
        ReachableInstalled, CommandStarts, Reachable, Goto, files
<1>1. ASSUME NEW p \in Process, NEW v \in Version, Start(p, "install", v) PROVE DiskInv'
  BY <1>1 DEF Start
<1>2. ASSUME NEW p \in Process, NEW kind \in {"rollback", "uninstall"}, Start(p, kind, None)
      PROVE DiskInv'
  BY <1>2 DEF Start
<1>3. ASSUME NEW p \in Process, Locking(p) PROVE DiskInv'
  <2>1. CASE MakeLock(p) \/ BreakLock(p) \/ GiveUp(p) \/ Return(p)
    BY <2>1 DEF MakeLock, BreakLock, GiveUp, Return
  <2>2. CASE WriteOwner(p)
    BY <2>2 DEF WriteOwner, First
  <2>3. CASE Unlock(p)
    BY <2>3 DEF Unlock
  <2> QED BY <1>3, <2>1, <2>2, <2>3 DEF Locking
<1>4. ASSUME NEW p \in Process, Installing(p) PROVE DiskInv'
  <2>1. \A q \in Process : q # p => pc[q] \in {"idle", "lock", "refused"}
    BY <1>4, Alone DEF Inside, Installing, Stage, Commit, Activate, Prune, Pruned,
       PruneRefused, PruneEnds, InstallLauncher, Write
  <2>2. CASE Stage(p)
    BY <2>1, <2>2 DEF Stage
  <2>3. CASE Commit(p)
    <3>1. job[p].version \in Version
      BY <2>3 DEF Commit
    <3>2. \A v \in Version : dirs[v] = "complete" => dirs'[v] = "complete"
      BY <2>3, <3>1 DEF Commit
    <3>3. ReachableInstalled' /\ CommandStarts'
      BY <2>3, <3>2 DEF Commit
    <3>4. UninstallPhases' /\ InstallPhases'
      BY <2>1, <2>3 DEF Commit
    <3>5. Named'
      BY <2>3 DEF Commit
    <3> QED BY <3>3, <3>4, <3>5
  <2>4. CASE Activate(p)
    BY <2>1, <2>4 DEF Activate, Activated
  <2>5. ASSUME NEW v \in Version, Prune(p, v) PROVE DiskInv'
    BY <2>1, <2>5 DEF Prune, Retained
  <2>6. CASE Pruned(p)
    BY <2>1, <2>6 DEF Pruned
  <2>7. CASE PruneRefused(p) \/ PruneEnds(p)
    BY <2>1, <2>7 DEF PruneRefused, PruneEnds
  <2>8. CASE InstallLauncher(p)
    BY <2>1, <2>8, SMTT(30) DEF InstallLauncher, Write
  <2> QED BY <1>4, <2>2, <2>3, <2>4, <2>5, <2>6, <2>7, <2>8 DEF Installing
<1>5. ASSUME NEW p \in Process, Removing(p) PROVE DiskInv'
  <2>1. \A q \in Process : q # p => pc[q] \in {"idle", "lock", "refused"}
    BY <1>5, Alone DEF Inside, Removing, Rollback, CheckOwned, Remove, Removed, RemoveEnds,
       RemoveCommand, Erase, Deactivate, Forget
  <2>2. CASE Rollback(p)
    BY <2>1, <2>2 DEF Rollback
  <2>3. CASE CheckOwned(p)
    BY <2>1, <2>3 DEF CheckOwned
  <2>4. ASSUME NEW v \in Version, Remove(p, v) PROVE DiskInv'
    BY <2>1, <2>4 DEF Remove, Removable
  <2>5. CASE Removed(p) \/ RemoveEnds(p)
    BY <2>1, <2>5, SMTT(30) DEF Removed, RemoveEnds, Removable
  <2>6. CASE RemoveCommand(p)
    BY <2>1, <2>6, SMTT(30) DEF RemoveCommand, Erase, Deactivate, Forget
  <2> QED BY <1>5, <2>2, <2>3, <2>4, <2>5, <2>6 DEF Removing
<1>6. ASSUME NEW p \in Process, Fails(p) \/ Crash(p) PROVE DiskInv'
  BY <1>6 DEF Fails, Crash
<1>7. CASE UNCHANGED vars
  BY <1>7 DEF vars
<1> QED BY <1>1, <1>2, <1>3, <1>4, <1>5, <1>6, <1>7 DEF Next

\* The invariant all of the following rest on: the lock excludes, and each phase of a
\* command finds the disk as the phases before it left it.
THEOREM Invariant == Spec => []InstallInv
<1>1. InstallInv /\ [Next]_vars => InstallInv'
  BY TypesStep, HoldingStep, DiskStep DEF InstallInv, DiskInv
<1> QED BY <1>1, InvInitial, PTL DEF Spec

-----------------------------------------------------------------------------
(* What it gives                                                           *)

\* Type correctness: indexes, records and the victim of a removal stay in range.
THEOREM InstallTypes == Spec => []InstallTypeOK
<1>1. InstallInv => InstallTypeOK
  <2>1. DOMAIN First = {"install", "rollback", "uninstall"}
    BY DEF First
  <2> QED BY <2>1 DEF InstallInv, DiskInv, Types, Named, InstallTypeOK
<1> QED BY <1>1, Invariant, PTL

\* Operations serialize, for any number of terminals, whoever crashed and wherever:
\* the lock directory stays with the command inside until it gives it back.
THEOREM OperationsSerialize == Spec => []OneOperation
<1>1. InstallInv => OneOperation
  BY DEF InstallInv, Holding, OneOperation
<1> QED BY <1>1, Invariant, PTL

\* active.json always leads to complete versions, the current one and the one a
\* rollback goes to, whatever crashed or failed, as long as nobody began an uninstall.
THEOREM ActiveIsComplete == Spec => []ReachableInstalled
<1>1. InstallInv => ReachableInstalled
  BY DEF InstallInv, DiskInv
<1> QED BY <1>1, Invariant, PTL

\* The link on PATH leads to a command file and an active version: installLauncher
\* writes it last, and activation and pruning come before it.
THEOREM CommandLeadsToActive == Spec => []CommandStarts
<1>1. InstallInv => CommandStarts
  BY DEF InstallInv, DiskInv
<1> QED BY <1>1, Invariant, PTL

\* A command that is refused was refused by one that runs: the lock of a process that
\* crashed never keeps anybody out.
THEOREM RefusedOnlyByTheRunning == Spec => RefusedByTheRunning
<1>1. InstallInv /\ [Next]_vars
        => [\A p \in Process : pc[p] = "lock" /\ pc'[p] = "refused" => Inside(lock.holder)]_vars
  <2> SUFFICES ASSUME InstallInv, [Next]_vars, NEW p \in Process, pc[p] = "lock", pc'[p] = "refused"
               PROVE  Inside(lock.holder)
    OBVIOUS
  <2>1. GiveUp(p)
    <3> USE DEF InstallInv, Types, Goto
    <3>1. ASSUME NEW q \in Process, NEW kind, NEW v, Start(q, kind, v) PROVE FALSE
      BY <3>1 DEF Start
    <3>2. ASSUME NEW q \in Process, Locking(q) PROVE GiveUp(p)
      BY <3>2 DEF Locking, MakeLock, BreakLock, GiveUp, Return, WriteOwner, Unlock, First
    <3>3. ASSUME NEW q \in Process, Installing(q) PROVE FALSE
      BY <3>3 DEF Installing, Stage, Commit, Activate, Prune, Pruned, PruneRefused, PruneEnds,
         InstallLauncher, Write
    <3>4. ASSUME NEW q \in Process, Removing(q) PROVE FALSE
      BY <3>4 DEF Removing, Rollback, CheckOwned, Remove, Removed, RemoveEnds, RemoveCommand,
         Erase, Deactivate, Forget
    <3>5. ASSUME NEW q \in Process, Fails(q) \/ Crash(q) PROVE FALSE
      BY <3>5 DEF Fails, Crash
    <3> QED BY <3>1, <3>2, <3>3, <3>4, <3>5 DEF Next, vars
  <2> QED BY <2>1 DEF GiveUp, Dead, InstallInv, Holding
<1> QED BY <1>1, Invariant, PTL DEF Spec, RefusedByTheRunning

\* An uninstall that ends without an error has removed every version, the command and
\* active.json: nothing else ran meanwhile that could have brought one back.
THEOREM UninstallLeavesNothing == Spec => UninstallComplete
<1>1. InstallInv /\ [Next]_vars
        => [\A p \in Process : Forget(p) =>
               /\ active = None /\ ~command.link /\ ~command.file
               /\ \A v \in Version : dirs[v] # "complete"]_vars
  BY DEF InstallInv, DiskInv, UninstallPhases, Forget
<1> QED BY <1>1, Invariant, PTL DEF Spec, UninstallComplete

\* Whatever crashed, the command on PATH leads to complete versions (activate,
\* pruneVersions and installLauncher together).
THEOREM InstalledCommandWorks == Spec => []CommandWorks
<1>1. ReachableInstalled /\ CommandStarts => CommandWorks
  BY DEF CommandWorks
<1> QED BY <1>1, ActiveIsComplete, CommandLeadsToActive, PTL

\* A refusal names a command that runs, and an uninstall without an error is one.
THEOREM CommandsEndAsReported == Spec => CommandsReportTruly
BY RefusedOnlyByTheRunning, UninstallLeavesNothing DEF CommandsReportTruly
=============================================================================
