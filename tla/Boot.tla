-------------------------------- MODULE Boot --------------------------------
(***************************************************************************)
(* Runtimes over one state root: a Host that boots the Harness in its own  *)
(* process (packages/runtime/src/in-process.ts, apps/server/src/host.ts)   *)
(* or starts it as a child (packages/runtime/src/index.ts), the profile    *)
(* patch and the Creator-mode setting (creator.ts) they share, and the     *)
(* user who upgrades the program and switches Creator mode between boots.  *)
(*                                                                         *)
(* Every awaited call is a step; a crash may come between any two.         *)
(***************************************************************************)
EXTENDS Naturals

CONSTANTS
    Slot,        \* runtimes that may ever be started
    Setting0,    \* settings the user may save
    Release,     \* releases, 1..n
    CutWrites    \* TRUE: a crash may come in the middle of a writeFile

-----------------------------------------------------------------------------
(***************************************************************************)
(* A row is a record.  kind says who owns it: "host" and "creator" rows    *)
(* have an id of HOST_ROW_IDS, "preset" rows the name of an agent preset,  *)
(* "setting" rows are what the running Harness saved for the user.  of is  *)
(* the release the row came from, or the setting.  A patch is a list whose *)
(* elements are rows or { insert: [rows] } groups: grouped says where the  *)
(* row is.  plugins are the rows a preset gives an agent.                  *)
(***************************************************************************)

Row(kind, of, grouped) == [kind |-> kind, of |-> of, grouped |-> grouped, plugins |-> {}]

Setting(s) == Row("setting", s, FALSE)

\* hostRows: overrides of upstream rows, and the inserted group, with Creator
\* mode's two rows in it only when the user asked for them.
hostRows(v, creator) ==
    {Row("host", v, FALSE), Row("host", v, TRUE)}
    \cup (IF creator THEN {Row("creator", v, TRUE)} ELSE {})

\* The native Agent Loop: upstream rows disabled, two rows inserted.
createNativeHarnessPatch(v) == {Row("host", v, FALSE), Row("host", v, TRUE)}

\* Plugins of a shipped preset, and those this process cannot activate.
Shipped == {"tools", "workflow-ptc"}
UNAVAILABLE_PRESET_MODULES == {"workflow-ptc"}

preparePresetRows(plugins) == plugins \ UNAVAILABLE_PRESET_MODULES

\* The presets of the installed bundle, which declares them in insert groups.
presetPatches(v) ==
    {[Row("preset", v, TRUE) EXCEPT !.plugins = preparePresetRows(Shipped)]}

Composition(v, creator) ==
    presetPatches(v) \cup hostRows(v, creator) \cup createNativeHarnessPatch(v)

\* Rows whose id the Host composition owns, and agent presets.
HOST_ROW_IDS == {"host", "creator"}
isPresetRow(row) == row.kind = "preset"
isOwned(row) == row.kind \in HOST_ROW_IDS \/ isPresetRow(row)

Settings(rows) == {row.of : row \in {r \in rows : r.kind = "setting"}}

\* The tool row is added to, or removed from, every *element of the list* that
\* is a preset; a group is not looked into.
withCreatorTools(rows, creator) ==
    {IF isPresetRow(row) /\ ~row.grouped
       THEN [row EXCEPT !.plugins = IF creator THEN @ \cup {"tool-cordis"}
                                                ELSE @ \ {"tool-cordis"}]
       ELSE row : row \in rows}

\* Mutant: declarations of agent presets are kept like settings.
rewrittenKeepsPresets(rows, v, creator) ==
    withCreatorTools({r \in rows : r.kind \notin HOST_ROW_IDS}
                       \cup Composition(v, creator), creator)

\* Mutant: the whole document is replaced by the composition.
rewrittenWholesale(rows, v, creator) ==
    withCreatorTools(Composition(v, creator), creator)

\* Owned rows are replaced wholesale, never merged; the others stay.
rewritten(rows, v, creator) ==
    withCreatorTools({r \in rows : ~isOwned(r)} \cup Composition(v, creator), creator)

\* A profile that is absent or empty is seeded.
seeded(v, creator) == withCreatorTools(Composition(v, creator), creator)

-----------------------------------------------------------------------------
VARIABLES
    patch,       \* the profile patch: its form, and its rows when it is whole
    creator,     \* creator.json: "absent", "on", "off"
    switching,   \* the choice `hulala creator` has in its temporary file, or "none"
    asked,       \* the choice of the last `hulala creator` that finished
    saved,       \* the settings the user saved through a Host
    installed,   \* the release that is installed
    rt           \* rt[p]: the runtime p

vars == <<patch, creator, switching, asked, saved, installed, rt>>

\* What one runtime holds.  state is what state() answers; temp, the temporary
\* profile directory, and env, the assigned environment, are what it must undo;
\* child is the child process; ctx, the loaded rows of an in-process Harness.
Off == [pc |-> "off", state |-> "none", v |-> 0, creator |-> FALSE, temp |-> FALSE,
        env |-> FALSE, ctx |-> {}, child |-> "none", code |-> 0]

Forms == {"absent", "empty", "cut", "whole"}

InProcess == {"profile", "linked", "prepared", "truncated", "written", "settling", "mounting",
              "serving", "disposing", "removing", "failing", "cleaning"}
ChildPhases == {"childTemp", "polling", "healthy", "childFailed", "childRunning",
                "terminating"}
Ended == {"stopped", "failed", "exited", "crashed"}

\* The context is loaded and the handle exists: state() answers "running".
Running(p) == rt[p].pc \in {"mounting", "serving"}

\* The daemon lock: one Host boots or runs in this root (HostDaemon).
Alone(p) == \A q \in Slot \ {p} : rt[q].pc \notin InProcess

Goto(p, pc) == rt' = [rt EXCEPT ![p].pc = pc]

\* installEnvironment and its undoing.
Assigned(r) == [r EXCEPT !.env = TRUE]
Restored(r) == [r EXCEPT !.env = FALSE]

Become(p, r) == rt' = [rt EXCEPT ![p] = r]

disk == <<patch, creator, switching, asked, saved, installed>>

Init ==
    /\ patch = [form |-> "absent", rows |-> {}]
    /\ creator = "absent" /\ switching = "none" /\ asked = "off"
    /\ saved = {} /\ installed = 1
    /\ rt = [p \in Slot |-> Off]

-----------------------------------------------------------------------------
(* bootRepositoryHarness                                                   *)

\* Paths and the temporary directory.  What fails here, or at the link and the
\* root config below, is outside the try: nothing is undone.
BeginBoot(p) ==
    /\ rt[p].pc = "off" /\ Alone(p)
    /\ \/ Become(p, [rt[p] EXCEPT !.pc = "profile", !.temp = TRUE, !.v = installed])
       \/ Goto(p, "exited")
    /\ UNCHANGED disk

LinkRoot(p) ==
    /\ rt[p].pc = "profile"
    /\ \/ Become(p, Assigned([rt[p] EXCEPT !.pc = "linked", !.state = "starting"]))
       \/ Goto(p, "exited")
    /\ UNCHANGED disk

\* verifyOverriddenRows, the preset layers, the profile's manifest, and the
\* setting: a file that is missing or cannot be read is off.
readCreatorMode == creator = "on"

Prepare(p) ==
    /\ rt[p].pc = "linked"
    /\ \/ Become(p, [rt[p] EXCEPT !.pc = "prepared", !.creator = readCreatorMode])
       \/ Goto(p, "failing")
    /\ UNCHANGED disk

\* ensureProfilePatch reads what is there -- a patch cut short does not load --
\* and opens the file for writing, which empties it ...
ReadProfile(p) ==
    /\ rt[p].pc = "prepared"
    /\ IF patch.form = "cut"
         THEN Goto(p, "failing") /\ UNCHANGED patch
         ELSE /\ Become(p, [rt[p] EXCEPT !.pc = "truncated",
                            !.ctx = IF patch.form = "whole"
                                      THEN rewritten(patch.rows, rt[p].v, rt[p].creator)
                                      ELSE seeded(rt[p].v, rt[p].creator)])
              /\ patch' = [form |-> "empty", rows |-> {}]
    /\ UNCHANGED <<creator, switching, asked, saved, installed>>

\* ... and writes the rows it computed.
WriteProfile(p) ==
    /\ rt[p].pc = "truncated"
    /\ patch' = [form |-> "whole", rows |-> rt[p].ctx]
    /\ Become(p, [rt[p] EXCEPT !.pc = "written", !.ctx = {}])
    /\ UNCHANGED <<creator, switching, asked, saved, installed>>

\* boot() loads the patch it reads back; readiness is committed, and the rows
\* that waited for it get a moment to settle.
Load(p) ==
    /\ rt[p].pc = "written"
    /\ \/ /\ patch.form = "whole"
          /\ Become(p, [rt[p] EXCEPT !.pc = "settling", !.ctx = patch.rows])
       \/ Goto(p, "failing")
    /\ UNCHANGED disk

Settle(p) ==
    /\ rt[p].pc = "settling"
    /\ \/ Become(p, [rt[p] EXCEPT !.pc = "mounting", !.state = "running"])
       \/ Goto(p, "failing")
    /\ UNCHANGED disk

\* The catch: the context is disposed, then the directory and the environment go.
FailDispose(p) ==
    /\ rt[p].pc = "failing"
    /\ Become(p, [rt[p] EXCEPT !.pc = "cleaning", !.state = "failed", !.ctx = {}])
    /\ UNCHANGED disk

\* Mutant: the failed boot leaves the process environment as it set it.
FailCleanKeepsEnvironment(p) ==
    /\ rt[p].pc = "cleaning"
    /\ Become(p, [rt[p] EXCEPT !.pc = "failed", !.temp = FALSE])
    /\ UNCHANGED disk

FailClean(p) ==
    /\ rt[p].pc = "cleaning"
    /\ Become(p, Restored([rt[p] EXCEPT !.pc = "failed", !.temp = FALSE]))
    /\ UNCHANGED disk

\* createDesktopHost mounts the Host plugin on the running context; what it
\* throws stops the runtime.
Mount(p) ==
    /\ rt[p].pc = "mounting"
    /\ Goto(p, "serving")
    /\ UNCHANGED disk

MountFails(p) ==
    /\ rt[p].pc = "mounting"
    /\ Become(p, [rt[p] EXCEPT !.pc = "disposing", !.state = "stopping"])
    /\ UNCHANGED disk

\* stop(): only the first call does anything.
Stop(p) ==
    /\ rt[p].pc = "serving"
    /\ Become(p, [rt[p] EXCEPT !.pc = "disposing", !.state = "stopping"])
    /\ UNCHANGED disk

StopDispose(p) ==
    /\ rt[p].pc = "disposing"
    /\ Become(p, [rt[p] EXCEPT !.pc = "removing", !.ctx = {}])
    /\ UNCHANGED disk

StopClean(p) ==
    /\ rt[p].pc = "removing"
    /\ Become(p, Restored([rt[p] EXCEPT !.pc = "stopped", !.state = "stopped", !.temp = FALSE]))
    /\ UNCHANGED disk

\* The running Harness keeps live settings in the profile patch (external).
SaveSetting(p, s) ==
    /\ Running(p)
    /\ saved' = saved \cup {s}
    /\ patch' = [form |-> "whole", rows |-> patch.rows \cup {Setting(s)}]
    /\ UNCHANGED <<creator, switching, asked, installed, rt>>

-----------------------------------------------------------------------------
(* startHarnessRuntime                                                     *)

BeginChild(p) ==
    /\ rt[p].pc = "off"
    /\ \/ Become(p, [rt[p] EXCEPT !.pc = "childTemp", !.temp = TRUE])
       \/ Goto(p, "exited")
    /\ UNCHANGED disk

Spawn(p) ==
    /\ rt[p].pc = "childTemp"
    /\ \/ Become(p, [rt[p] EXCEPT !.pc = "polling", !.state = "starting", !.child = "starting"])
       \/ Goto(p, "exited")
    /\ UNCHANGED disk

\* The child binds its port and answers; it may end at any time (external).
ChildReady(p) ==
    /\ rt[p].child = "starting"
    /\ Become(p, [rt[p] EXCEPT !.child = "ready"])
    /\ UNCHANGED disk

ChildEnds(p) ==
    /\ rt[p].child \in {"starting", "ready"}
    /\ \E code \in {0, 1} : Become(p, [rt[p] EXCEPT !.child = "gone", !.code = code])
    /\ UNCHANGED disk

\* The `exited` promise: the state that an end means, and the directory.
ExitNoticed(p) ==
    /\ rt[p].child = "gone" /\ rt[p].pc # "crashed"
    /\ Become(p, [rt[p] EXCEPT !.child = "noticed", !.temp = FALSE,
                  !.state = IF rt[p].state = "stopping" \/ rt[p].code = 0
                              THEN "stopped" ELSE "failed"])
    /\ UNCHANGED disk

\* waitForHealth: the exit code is looked at before each request.  The port
\* was given back before the child binds it, so another runtime that was given
\* the same one may answer instead.
PollAnswered(p) ==
    /\ rt[p].pc = "polling"
    /\ \E q \in Slot : rt[q].child = "ready"
    /\ Goto(p, "healthy")
    /\ UNCHANGED disk

PollFails(p) ==
    /\ rt[p].pc = "polling"
    /\ Become(p, [rt[p] EXCEPT !.pc = "childFailed", !.state = "failed"])
    /\ UNCHANGED disk

\* The answer is awaited: an end of the child may have been noticed meanwhile.
Healthy(p) ==
    /\ rt[p].pc = "healthy"
    /\ Become(p, [rt[p] EXCEPT !.pc = "childRunning", !.state = "running"])
    /\ UNCHANGED disk

\* A failed start has asked the child to end and waits for it, without a limit.
ChildFailed(p) ==
    /\ rt[p].pc = "childFailed" /\ rt[p].child = "noticed"
    /\ Goto(p, "failed")
    /\ UNCHANGED disk

\* Mutant: the state is not left to the end of the child.
StopChildAtOnce(p) ==
    /\ rt[p].pc = "childRunning" /\ rt[p].state \notin {"stopped", "failed"}
    /\ Become(p, [rt[p] EXCEPT !.pc = "terminating", !.state = "stopped"])
    /\ UNCHANGED disk

\* stop(): SIGTERM, which the child may ignore ...
StopChild(p) ==
    /\ rt[p].pc = "childRunning" /\ rt[p].state \notin {"stopped", "failed"}
    /\ Become(p, [rt[p] EXCEPT !.pc = "terminating", !.state = "stopping"])
    /\ UNCHANGED disk

\* Mutant: SIGKILL is not sent to a child that answers health requests.
ForceKillSpares(p) ==
    /\ rt[p].pc = "terminating" /\ rt[p].child = "starting"
    /\ Become(p, [rt[p] EXCEPT !.child = "gone", !.code = 1])
    /\ UNCHANGED disk

\* ... and SIGKILL when it has not ended five seconds later.
ForceKill(p) ==
    /\ rt[p].pc = "terminating" /\ rt[p].child \in {"starting", "ready"}
    /\ Become(p, [rt[p] EXCEPT !.child = "gone", !.code = 1])
    /\ UNCHANGED disk

StopReturns(p) ==
    /\ rt[p].pc = "terminating" /\ rt[p].child = "noticed"
    /\ Goto(p, "stopped")
    /\ UNCHANGED disk

-----------------------------------------------------------------------------
(* Crashes, and the user                                                   *)

\* The directory stays; a child process outlives the process that started it.
Crash(p) ==
    /\ rt[p].pc \in InProcess \cup ChildPhases
    /\ rt[p].pc = "truncated" => CutWrites
    /\ Become(p, [rt[p] EXCEPT !.pc = "crashed", !.env = FALSE, !.ctx = {}])
    /\ IF rt[p].pc = "truncated"
         THEN \E form \in {"empty", "cut"} : patch' = [form |-> form, rows |-> {}]
         ELSE UNCHANGED patch
    /\ UNCHANGED <<creator, switching, asked, saved, installed>>

\* Mutant: creator.json itself is opened for writing.
SwitchCreatorInPlace(choice) ==
    /\ switching = "none"
    /\ switching' = choice
    /\ creator' = "absent"
    /\ UNCHANGED <<patch, asked, saved, installed, rt>>

\* `hulala creator on|off`: a temporary file ...
SwitchCreator(choice) ==
    /\ switching = "none"
    /\ switching' = choice
    /\ UNCHANGED <<patch, creator, asked, saved, installed, rt>>

\* ... that takes the place of the old one, unless the command dies first.
Switched ==
    /\ switching # "none"
    /\ creator' = switching /\ asked' = switching
    /\ switching' = "none"
    /\ UNCHANGED <<patch, saved, installed, rt>>

SwitchDies ==
    /\ switching # "none"
    /\ switching' = "none"
    /\ UNCHANGED <<patch, creator, asked, saved, installed, rt>>

\* Another release is installed (Install), while no Host runs or under one.
Upgrade ==
    /\ installed + 1 \in Release
    /\ installed' = installed + 1
    /\ UNCHANGED <<patch, creator, switching, asked, saved, rt>>

BootStep(p) ==
    \/ LinkRoot(p) \/ Prepare(p) \/ ReadProfile(p) \/ WriteProfile(p) \/ Load(p)
    \/ Settle(p) \/ FailDispose(p) \/ FailClean(p) \/ Mount(p) \/ MountFails(p)
    \/ StopDispose(p) \/ StopClean(p)

ChildStep(p) ==
    \/ Spawn(p) \/ ExitNoticed(p) \/ PollAnswered(p) \/ PollFails(p) \/ Healthy(p)
    \/ ChildFailed(p) \/ ForceKill(p) \/ StopReturns(p)

Environment(p) ==
    \/ BeginBoot(p) \/ BeginChild(p) \/ Stop(p) \/ StopChild(p)
    \/ ChildReady(p) \/ ChildEnds(p) \/ Crash(p)
    \/ \E s \in Setting0 : SaveSetting(p, s)

User == (\E choice \in {"on", "off"} : SwitchCreator(choice)) \/ Switched \/ SwitchDies \/ Upgrade

Next == User \/ \E p \in Slot : BootStep(p) \/ ChildStep(p) \/ Environment(p)

\* Everything can end with no runtime left to start.
Fairness == \A p \in Slot : WF_vars(BootStep(p)) /\ WF_vars(ChildStep(p))

Spec == Init /\ [][Next]_vars /\ Fairness

-----------------------------------------------------------------------------
(* Properties                                                              *)

\* The rows a Host runs, of those the composition owns, are the ones of its own
\* release and of the Creator choice it read: nothing an older profile kept.
RunsItsBundle ==
    \A p \in Slot : Running(p) =>
        {row \in rt[p].ctx : isOwned(row)} =
            withCreatorTools(Composition(rt[p].v, rt[p].creator), rt[p].creator)

\* What the user saved is in the profile whenever no boot is rewriting it,
\* through upgrades, failed boots and crashes.
SettingsKept ==
    (\A p \in Slot : rt[p].pc # "truncated") => Settings(patch.rows) = saved

\* A `hulala creator` that dies leaves the choice of the last one that finished.
CreatorRemembered == switching = "none" => (readCreatorMode <=> asked = "on")

\* A runtime that stopped, or failed to start, after it had begun leaves neither
\* its temporary directory nor the environment it assigned.
CleanEnd == \A p \in Slot : rt[p].pc \in {"stopped", "failed"} => ~rt[p].temp /\ ~rt[p].env

\* The handle of a child runtime says "stopped" or "failed" of a child that ended.
StoppedIsGone ==
    \A p \in Slot :
        /\ rt[p].pc \in {"childRunning", "terminating", "stopped"}
        /\ rt[p].child # "none" /\ rt[p].state \in {"stopped", "failed"}
        => rt[p].child \in {"gone", "noticed"}

\* A stop that was asked for comes to an end.
StopEnds ==
    \A p \in Slot : rt[p].pc \in {"disposing", "removing", "terminating"} ~> rt[p].pc \in Ended

\* packages/runtime/src/creator.ts:14 says that the agent preset gains its
\* tool-cordis row when Creator mode is on.
PresetHasCreatorTool ==
    \A p \in Slot : Running(p) /\ rt[p].creator =>
        \A row \in rt[p].ctx : isPresetRow(row) => "tool-cordis" \in row.plugins
=============================================================================
