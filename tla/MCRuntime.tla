------------------------------ MODULE MCRuntime ------------------------------
(***************************************************************************)
(* A state root from two sides that no property joins: the runtimes that   *)
(* boot over its profile patch, and the commands that bring releases into  *)
(* the installation.  The side is chosen first; the other one rests.       *)
(***************************************************************************)
EXTENDS Releases

CONSTANTS Slot, Setting0, Release, CutWrites

VARIABLES side, patch, creator, switching, asked, saved, installed, rt

Booting == INSTANCE Boot

boot == <<patch, creator, switching, asked, saved, installed, rt>>
vars == <<side, releases, boot>>

Init == side \in {"boot", "releases"} /\ Booting!Init /\ ReleasesInit

Next ==
    /\ UNCHANGED side
    /\ \/ side = "boot" /\ Booting!Next /\ UNCHANGED releases
       \/ side = "releases" /\ ReleasesNext /\ UNCHANGED boot

Fairness ==
    /\ \A p \in Slot : WF_vars(side = "boot" /\ Booting!BootStep(p) /\ UNCHANGED <<side, releases>>)
    /\ \A p \in Slot : WF_vars(side = "boot" /\ Booting!ChildStep(p) /\ UNCHANGED <<side, releases>>)
    /\ WF_vars(side = "releases" /\ Command /\ UNCHANGED <<side, boot>>)
    /\ WF_vars(side = "releases" /\ Removal /\ UNCHANGED <<side, boot>>)

Spec == Init /\ [][Next]_vars /\ Fairness

-----------------------------------------------------------------------------
\* A runtime runs the rows of its own release, and leaves settings, the choice of
\* Creator mode and the process as the next boot expects them (Boot).
BootsItsOwn ==
    Booting!RunsItsBundle /\ Booting!SettingsKept /\ Booting!CreatorRemembered /\ Booting!CleanEnd
\* A stop that was asked for ends, also when the child ignores it (Boot).
StopEnds == Booting!StopEnds

\* Neither the cache nor an installed version mixes two builds or lacks a part (Releases).
ReleaseIsWhole == CachedIsOneBuild /\ InstalledIsWhole
=============================================================================
