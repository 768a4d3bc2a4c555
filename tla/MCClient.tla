------------------------------- MODULE MCClient -------------------------------
(***************************************************************************)
(* What runs on a machine around the window, one program at a time: the    *)
(* installation script, the plugin directory under `hulala plugin` and     *)
(* starting windows, a window from start to exit, and the client without a *)
(* terminal.  They share no state that the properties look at, so the      *)
(* program is chosen first and the rest stays as it is.                    *)
(***************************************************************************)
EXTENDS Startup, Installer

CONSTANT Process

VARIABLES
    program,
    package, record, wish, at, job, ids, loads, off, writes, asked, overlaps

D == INSTANCE PluginDirectory

directory == <<package, record, wish, at, job, ids, loads, off, writes, asked, overlaps>>
vars == <<program, startup, installer, directory, plain>>

Init ==
    /\ program \in {"install.sh", "plugin", "window", "plain"}
    /\ InstallerInit /\ D!DirectoryInit /\ PlainInit /\ StartupInit

Next ==
    /\ UNCHANGED program
    /\ \/ program = "install.sh" /\ InstallerNext /\ UNCHANGED <<startup, directory, plain>>
       \/ program = "plugin" /\ D!DirectoryNext /\ UNCHANGED <<startup, installer, plain>>
       \/ program = "plain" /\ PlainNext /\ UNCHANGED <<startup, installer, directory>>
       \/ program = "window" /\ StartupNext /\ UNCHANGED <<installer, directory, plain>>

\* In the steps of each program the others do not move.
Spec ==
    /\ Init /\ [][Next]_vars
    /\ StartupFairness

-----------------------------------------------------------------------------
\* The Node.js that is pointed at is whole, and only bytes with the digest are
\* unpacked, wherever the script is killed (Installer).
InstallsWhatWasChecked == NodeRuns /\ UnpacksVerified

\* A line is one answer, a reminder is seen when it is given, the terminal is handed
\* over once, and every plugin is torn down (Startup).
OnceEach == OneUse /\ ReminderSeen /\ OneSuccessor /\ TornDown

\* The record forgets missing packages only, and an offer is never an old one
\* (PluginDirectory, Startup).
NothingForgotten == D!OnlyTheMissing /\ OfferIsRecent

\* The window comes up whatever its plugins do, and tells of a release that it found
\* (Startup).
StartEnds == BootEnds /\ ReminderGiven

\* Disagreement with directory.ts, which keeps the record outside the package since
\* "a disabled marker inside the package would be lost the moment the user reinstalled it".
OffStaysOff == D!OffStaysOff
=============================================================================
