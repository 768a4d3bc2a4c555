---------------------------- MODULE RuntimeProofs ----------------------------
(***************************************************************************)
(* Theorems about the two sides of MCRuntime: the runtimes that boot over  *)
(* one profile patch, for any number of them, of settings and of releases, *)
(* and the commands that bring releases, for any number of releases and    *)
(* archives of any length.                                                 *)
(***************************************************************************)
EXTENDS MCRuntime, FiniteSetTheorems, WellFoundedInduction, TLAPS

-----------------------------------------------------------------------------
\* One side steps at a time.
LEMMA SideSteps ==
  ASSUME [Next]_vars
  PROVE  [Booting!Next]_boot /\ [ReleasesNext]_releases
BY DEF Next, vars

-----------------------------------------------------------------------------
(* The rows of a profile patch.                                            *)

Rows ==
    [kind : {"host", "creator", "preset", "setting"}, of : Nat \cup Setting0, grouped : BOOLEAN,
     plugins : SUBSET {"tools", "workflow-ptc", "tool-cordis"}]

\* The rows that the composition owns, and those of a release and a Creator choice.
Owned(rows) == {row \in rows : Booting!isOwned(row)}
Fresh(v, c) == Booting!withCreatorTools(Booting!Composition(v, c), c)

\* The tool row changes the plugins of a preset, and nothing else.
WithTool(row, c) ==
    IF Booting!isPresetRow(row) /\ ~row.grouped
    THEN [row EXCEPT !.plugins = IF c THEN @ \cup {"tool-cordis"} ELSE @ \ {"tool-cordis"}]
    ELSE row

LEMMA ToolKeepsRow ==
  ASSUME NEW row \in Rows, NEW c \in BOOLEAN
  PROVE  /\ WithTool(row, c) \in Rows
         /\ WithTool(row, c).kind = row.kind /\ WithTool(row, c).of = row.of
BY DEF WithTool, Rows

LEMMA CompositionIsOwned ==
  ASSUME NEW v \in Nat, NEW c \in BOOLEAN
  PROVE  /\ Booting!Composition(v, c) \subseteq Rows
         /\ \A row \in Booting!Composition(v, c) : Booting!isOwned(row)
<1>1. \A k \in {"host", "creator"}, grouped \in BOOLEAN :
         Booting!Row(k, v, grouped) \in Rows /\ Booting!isOwned(Booting!Row(k, v, grouped))
  BY DEF Booting!Row, Rows, Booting!isOwned, Booting!HOST_ROW_IDS
<1>2. \A row \in Booting!presetPatches(v) : row \in Rows /\ Booting!isOwned(row)
  BY DEF Booting!presetPatches, Booting!preparePresetRows, Booting!Shipped, Booting!Row, Rows,
         Booting!UNAVAILABLE_PRESET_MODULES, Booting!isOwned, Booting!isPresetRow
<1> QED BY <1>1, <1>2 DEF Booting!Composition, Booting!hostRows, Booting!createNativeHarnessPatch

\* A rewritten profile has the owned rows of its composition, and the settings it had.
LEMMA Rewriting ==
  ASSUME NEW rows \in SUBSET Rows, NEW v \in Nat, NEW c \in BOOLEAN
  PROVE  LET new == Booting!rewritten(rows, v, c)
         IN  /\ new \subseteq Rows
             /\ Owned(new) = Fresh(v, c)
             /\ Booting!Settings(new) = Booting!Settings(rows)
<1> DEFINE new == Booting!rewritten(rows, v, c)
           kept == {r \in rows : ~Booting!isOwned(r)}
           owned == Booting!Composition(v, c)
<1>1. new = {WithTool(row, c) : row \in kept \cup owned} /\ Fresh(v, c) = {WithTool(row, c) : row \in owned}
  BY DEF Booting!rewritten, Booting!withCreatorTools, WithTool, Fresh
<1>2. owned \subseteq Rows /\ \A row \in owned : Booting!isOwned(row)
  BY CompositionIsOwned
<1> HIDE DEF new, owned
<1>3. \A row \in kept \cup owned :
         /\ row \in Rows /\ WithTool(row, c) \in Rows
         /\ Booting!isOwned(WithTool(row, c)) <=> row \in owned
         /\ WithTool(row, c).kind = row.kind /\ WithTool(row, c).of = row.of
  BY <1>2, ToolKeepsRow DEF Booting!isOwned, Booting!isPresetRow
<1>4. new \subseteq Rows /\ Owned(new) = Fresh(v, c)
  BY <1>1, <1>3 DEF Owned
<1>5. \A row \in owned : row.kind # "setting"
  BY <1>2 DEF Booting!isOwned, Booting!isPresetRow, Booting!HOST_ROW_IDS
<1>6. \A row \in rows : row.kind = "setting" => row \in kept
  BY DEF Booting!isOwned, Booting!isPresetRow, Booting!HOST_ROW_IDS
<1>7. Booting!Settings(new) = Booting!Settings(rows)
  <2>1. ASSUME NEW s \in Booting!Settings(new) PROVE s \in Booting!Settings(rows)
    <3>1. PICK row \in kept \cup owned : WithTool(row, c).kind = "setting" /\ s = WithTool(row, c).of
      BY <1>1, <2>1 DEF Booting!Settings
    <3>2. row \in rows /\ row.kind = "setting" /\ s = row.of
      BY <1>3, <1>5, <3>1
    <3> QED BY <3>2 DEF Booting!Settings
  <2>2. ASSUME NEW s \in Booting!Settings(rows) PROVE s \in Booting!Settings(new)
    <3>1. PICK row \in rows : row.kind = "setting" /\ s = row.of
      BY <2>2 DEF Booting!Settings
    <3>2. WithTool(row, c) \in new /\ WithTool(row, c).kind = "setting" /\ s = WithTool(row, c).of
      BY <1>1, <1>3, <1>6, <3>1
    <3> QED BY <3>2 DEF Booting!Settings
  <2> QED BY <2>1, <2>2
<1> QED BY <1>4, <1>7 DEF new

LEMMA Seeding ==
  ASSUME NEW v \in Nat, NEW c \in BOOLEAN
  PROVE  Booting!seeded(v, c) = Booting!rewritten({}, v, c)
BY DEF Booting!seeded, Booting!rewritten

\* A setting is not a row of the composition.
LEMMA SettingRow ==
  ASSUME NEW s \in Setting0, NEW rows \in SUBSET Rows
  PROVE  /\ rows \cup {Booting!Setting(s)} \subseteq Rows
         /\ Booting!Settings(rows \cup {Booting!Setting(s)}) = Booting!Settings(rows) \cup {s}
<1> DEFINE row == Booting!Setting(s)
<1>1. row \in Rows /\ row.kind = "setting" /\ row.of = s
  BY DEF Booting!Setting, Booting!Row, Rows
<1> HIDE DEF row
<1>2. Booting!Settings(rows \cup {row}) = Booting!Settings(rows) \cup {s}
  BY <1>1 DEF Booting!Settings
<1> QED BY <1>1, <1>2 DEF row

-----------------------------------------------------------------------------
(* Runtimes over one state root.                                           *)

Phases ==
    {"off", "profile", "linked", "prepared", "truncated", "written", "settling", "mounting",
     "serving", "disposing", "removing", "failing", "cleaning", "childTemp", "polling", "healthy",
     "childFailed", "childRunning", "terminating", "stopped", "failed", "exited", "crashed"}

Runtimes ==
    [pc : Phases, state : {"none", "starting", "running", "stopping", "stopped", "failed"},
     v : Nat, creator : BOOLEAN, temp : BOOLEAN, env : BOOLEAN, ctx : SUBSET Rows,
     child : {"none", "starting", "ready", "gone", "noticed"}, code : {0, 1}]

\* What one runtime knows of the profile, and has to undo.
RuntimeOK(r) ==
    /\ r.pc = "truncated" =>
          /\ Owned(r.ctx) = Fresh(r.v, r.creator)
          /\ ~CutWrites => Booting!Settings(r.ctx) = saved
    /\ r.pc = "written" => Owned(patch.rows) = Fresh(r.v, r.creator)
    /\ r.pc \in {"settling", "mounting", "serving"} => Owned(r.ctx) = Fresh(r.v, r.creator)
    /\ r.pc \in {"off"} \cup Booting!ChildPhases => ~r.env
    /\ r.pc = "off" => r.child = "none"
    /\ r.child = "noticed" => ~r.temp
    /\ r.pc \in {"stopped", "failed"} => ~r.temp /\ ~r.env

OneBoots ==
    \A p, q \in Slot :
        rt[p].pc \in Booting!InProcess /\ rt[q].pc \in Booting!InProcess => p = q

BootInv ==
    /\ rt \in [Slot -> Runtimes]
    /\ patch \in [form : Booting!Forms, rows : SUBSET Rows]
    /\ patch.form # "whole" => patch.rows = {}
    /\ installed \in Nat
    /\ creator = "on" <=> asked = "on"
    /\ OneBoots
    /\ ~CutWrites => Booting!SettingsKept
    /\ \A p \in Slot : RuntimeOK(rt[p])

LEMMA BootStarts == Booting!Init => BootInv
<1> SUFFICES ASSUME Booting!Init PROVE BootInv
  OBVIOUS
<1>1. Booting!Off \in Runtimes /\ RuntimeOK(Booting!Off)
  BY DEF Booting!Off, Runtimes, Phases, RuntimeOK
<1>2. Booting!SettingsKept
  BY DEF Booting!Init, Booting!SettingsKept, Booting!Settings
<1> QED BY <1>1, <1>2 DEF Booting!Init, BootInv, OneBoots, Booting!Off, Booting!InProcess, Booting!Forms

\* A step of one runtime that leaves the disk and the settings.
LEMMA RuntimeMoves ==
  ASSUME BootInv, NEW p \in Slot, NEW r \in Runtimes, rt' = [rt EXCEPT ![p] = r], RuntimeOK(r),
         r.pc \in Booting!InProcess => rt[p].pc \in Booting!InProcess \/ Booting!Alone(p),
         rt[p].pc = "truncated" <=> r.pc = "truncated",
         UNCHANGED <<patch, creator, switching, asked, saved, installed>>
  PROVE  BootInv'
<1>1. rt' \in [Slot -> Runtimes] /\ rt'[p] = r /\ \A q \in Slot : q # p => rt'[q] = rt[q]
  BY DEF BootInv
<1>2. \A q \in Slot : RuntimeOK(rt[q])'
  BY <1>1 DEF BootInv, RuntimeOK
<1>3. OneBoots'
  BY <1>1 DEF BootInv, OneBoots, Booting!Alone
<1>4. (~CutWrites => Booting!SettingsKept)'
  BY <1>1 DEF BootInv, Booting!SettingsKept, Booting!Settings
<1> QED BY <1>1, <1>2, <1>3, <1>4 DEF BootInv

\* The steps of a Host that look at no file.
LEMMA HostMoves ==
  ASSUME BootInv, NEW p \in Slot,
         \/ Booting!BeginBoot(p) \/ Booting!LinkRoot(p) \/ Booting!Prepare(p) \/ Booting!Settle(p)
         \/ Booting!FailDispose(p) \/ Booting!FailClean(p) \/ Booting!Mount(p) \/ Booting!MountFails(p)
         \/ Booting!Stop(p) \/ Booting!StopDispose(p) \/ Booting!StopClean(p)
  PROVE  BootInv'
<1> DEFINE now == rt[p]
<1>1. now \in Runtimes /\ RuntimeOK(now) /\ installed \in Nat
  BY DEF BootInv
<1> USE DEF Booting!disk, Booting!Become, Booting!Goto, Booting!Assigned, Booting!Restored,
        Booting!ChildPhases
<1>2. CASE Booting!BeginBoot(p)
  <2> DEFINE begun == [now EXCEPT !.pc = "profile", !.temp = TRUE, !.v = installed]
             ends == [now EXCEPT !.pc = "exited"]
  <2>1. begun \in Runtimes /\ now.pc # "truncated" /\ begun.pc # "truncated"
    BY <1>1, <1>2 DEF Runtimes, Phases, Booting!BeginBoot
  <2>2. RuntimeOK(begun)
    BY <1>1, <1>2 DEF Runtimes, RuntimeOK, Booting!BeginBoot
  <2>3. begun.pc \in Booting!InProcess => now.pc \in Booting!InProcess \/ Booting!Alone(p)
    BY <1>1, <1>2 DEF Runtimes, Booting!InProcess, Booting!BeginBoot
  <2>4. ends \in Runtimes /\ now.pc # "truncated" /\ ends.pc # "truncated"
    BY <1>1, <1>2 DEF Runtimes, Phases, Booting!BeginBoot
  <2>5. RuntimeOK(ends)
    BY <1>1, <1>2 DEF Runtimes, RuntimeOK, Booting!BeginBoot
  <2>6. ends.pc \in Booting!InProcess => now.pc \in Booting!InProcess \/ Booting!Alone(p)
    BY <1>1, <1>2 DEF Runtimes, Booting!InProcess, Booting!BeginBoot
  <2>7. rt' = [rt EXCEPT ![p] = begun] \/ rt' = [rt EXCEPT ![p] = ends]
    BY <1>2 DEF Booting!BeginBoot
  <2>8. UNCHANGED Booting!disk
    BY <1>2 DEF Booting!BeginBoot
  <2> HIDE DEF begun, ends
  <2> QED BY <2>1, <2>2, <2>3, <2>4, <2>5, <2>6, <2>7, <2>8, RuntimeMoves
<1>3. CASE Booting!LinkRoot(p)
  <2> DEFINE linked == [now EXCEPT !.pc = "linked", !.state = "starting", !.env = TRUE]
             ends == [now EXCEPT !.pc = "exited"]
  <2>1. linked \in Runtimes /\ now.pc # "truncated" /\ linked.pc # "truncated"
    BY <1>1, <1>3 DEF Runtimes, Phases, Booting!LinkRoot
  <2>2. RuntimeOK(linked)
    BY <1>1, <1>3 DEF Runtimes, RuntimeOK, Booting!LinkRoot
  <2>3. linked.pc \in Booting!InProcess => now.pc \in Booting!InProcess \/ Booting!Alone(p)
    BY <1>1, <1>3 DEF Runtimes, Booting!InProcess, Booting!LinkRoot
  <2>4. ends \in Runtimes /\ now.pc # "truncated" /\ ends.pc # "truncated"
    BY <1>1, <1>3 DEF Runtimes, Phases, Booting!LinkRoot
  <2>5. RuntimeOK(ends)
    BY <1>1, <1>3 DEF Runtimes, RuntimeOK, Booting!LinkRoot
  <2>6. ends.pc \in Booting!InProcess => now.pc \in Booting!InProcess \/ Booting!Alone(p)
    BY <1>1, <1>3 DEF Runtimes, Booting!InProcess, Booting!LinkRoot
  <2>7. rt' = [rt EXCEPT ![p] = linked] \/ rt' = [rt EXCEPT ![p] = ends]
    BY <1>3 DEF Booting!LinkRoot
  <2>8. UNCHANGED Booting!disk
    BY <1>3 DEF Booting!LinkRoot
  <2> HIDE DEF linked, ends
  <2> QED BY <2>1, <2>2, <2>3, <2>4, <2>5, <2>6, <2>7, <2>8, RuntimeMoves
<1>4. CASE Booting!Prepare(p)
  <2> DEFINE choice == Booting!readCreatorMode
             ready == [now EXCEPT !.pc = "prepared", !.creator = choice]
             fails == [now EXCEPT !.pc = "failing"]
  <2>0. choice \in BOOLEAN
    BY Zenon DEF Booting!readCreatorMode
  <2> HIDE DEF choice
  <2>1. ready \in Runtimes /\ now.pc # "truncated" /\ ready.pc # "truncated"
    BY <1>1, <1>4, <2>0 DEF Runtimes, Phases, Booting!Prepare
  <2>2. RuntimeOK(ready)
    BY <1>1, <1>4 DEF Runtimes, RuntimeOK, Booting!Prepare
  <2>3. ready.pc \in Booting!InProcess => now.pc \in Booting!InProcess \/ Booting!Alone(p)
    BY <1>1, <1>4 DEF Runtimes, Booting!InProcess, Booting!Prepare
  <2>4. fails \in Runtimes /\ now.pc # "truncated" /\ fails.pc # "truncated"
    BY <1>1, <1>4, <2>0 DEF Runtimes, Phases, Booting!Prepare
  <2>5. RuntimeOK(fails)
    BY <1>1, <1>4 DEF Runtimes, RuntimeOK, Booting!Prepare
  <2>6. fails.pc \in Booting!InProcess => now.pc \in Booting!InProcess \/ Booting!Alone(p)
    BY <1>1, <1>4 DEF Runtimes, Booting!InProcess, Booting!Prepare
  <2>7. rt' = [rt EXCEPT ![p] = ready] \/ rt' = [rt EXCEPT ![p] = fails]
    BY <1>4 DEF Booting!Prepare, choice
  <2>8. UNCHANGED Booting!disk
    BY <1>4 DEF Booting!Prepare
  <2> HIDE DEF ready, fails
  <2> QED BY <2>1, <2>2, <2>3, <2>4, <2>5, <2>6, <2>7, <2>8, RuntimeMoves
<1>5. CASE Booting!Settle(p)
  <2> DEFINE ready == [now EXCEPT !.pc = "mounting", !.state = "running"]
             fails == [now EXCEPT !.pc = "failing"]
  <2>1. ready \in Runtimes /\ now.pc # "truncated" /\ ready.pc # "truncated"
    BY <1>1, <1>5 DEF Runtimes, Phases, Booting!Settle
  <2>2. RuntimeOK(ready)
    BY <1>1, <1>5 DEF Runtimes, RuntimeOK, Booting!Settle
  <2>3. ready.pc \in Booting!InProcess => now.pc \in Booting!InProcess \/ Booting!Alone(p)
    BY <1>1, <1>5 DEF Runtimes, Booting!InProcess, Booting!Settle
  <2>4. fails \in Runtimes /\ now.pc # "truncated" /\ fails.pc # "truncated"
    BY <1>1, <1>5 DEF Runtimes, Phases, Booting!Settle
  <2>5. RuntimeOK(fails)
    BY <1>1, <1>5 DEF Runtimes, RuntimeOK, Booting!Settle
  <2>6. fails.pc \in Booting!InProcess => now.pc \in Booting!InProcess \/ Booting!Alone(p)
    BY <1>1, <1>5 DEF Runtimes, Booting!InProcess, Booting!Settle
  <2>7. rt' = [rt EXCEPT ![p] = ready] \/ rt' = [rt EXCEPT ![p] = fails]
    BY <1>5 DEF Booting!Settle
  <2>8. UNCHANGED Booting!disk
    BY <1>5 DEF Booting!Settle
  <2> HIDE DEF ready, fails
  <2> QED BY <2>1, <2>2, <2>3, <2>4, <2>5, <2>6, <2>7, <2>8, RuntimeMoves
<1>6. CASE Booting!FailDispose(p)
  <2> DEFINE disposed == [now EXCEPT !.pc = "cleaning", !.state = "failed", !.ctx = {}]
  <2>1. disposed \in Runtimes /\ now.pc # "truncated" /\ disposed.pc # "truncated"
    BY <1>1, <1>6 DEF Runtimes, Phases, Booting!FailDispose
  <2>2. RuntimeOK(disposed)
    BY <1>1, <1>6 DEF Runtimes, RuntimeOK, Booting!FailDispose
  <2>3. disposed.pc \in Booting!InProcess => now.pc \in Booting!InProcess \/ Booting!Alone(p)
    BY <1>1, <1>6 DEF Runtimes, Booting!InProcess, Booting!FailDispose
  <2>4. rt' = [rt EXCEPT ![p] = disposed]
    BY <1>6 DEF Booting!FailDispose
  <2>5. UNCHANGED Booting!disk
    BY <1>6 DEF Booting!FailDispose
  <2> HIDE DEF disposed
  <2> QED BY <2>1, <2>2, <2>3, <2>4, <2>5, RuntimeMoves
<1>7. CASE Booting!FailClean(p)
  <2> DEFINE cleaned == [now EXCEPT !.pc = "failed", !.temp = FALSE, !.env = FALSE]
  <2>1. cleaned \in Runtimes /\ now.pc # "truncated" /\ cleaned.pc # "truncated"
    BY <1>1, <1>7 DEF Runtimes, Phases, Booting!FailClean
  <2>2. RuntimeOK(cleaned)
    BY <1>1, <1>7 DEF Runtimes, RuntimeOK, Booting!FailClean
  <2>3. cleaned.pc \in Booting!InProcess => now.pc \in Booting!InProcess \/ Booting!Alone(p)
    BY <1>1, <1>7 DEF Runtimes, Booting!InProcess, Booting!FailClean
  <2>4. rt' = [rt EXCEPT ![p] = cleaned]
    BY <1>7 DEF Booting!FailClean
  <2>5. UNCHANGED Booting!disk
    BY <1>7 DEF Booting!FailClean
  <2> HIDE DEF cleaned
  <2> QED BY <2>1, <2>2, <2>3, <2>4, <2>5, RuntimeMoves
<1>8. CASE Booting!Mount(p)
  <2> DEFINE serves == [now EXCEPT !.pc = "serving"]
  <2>1. serves \in Runtimes /\ now.pc # "truncated" /\ serves.pc # "truncated"
    BY <1>1, <1>8 DEF Runtimes, Phases, Booting!Mount
  <2>2. RuntimeOK(serves)
    BY <1>1, <1>8 DEF Runtimes, RuntimeOK, Booting!Mount
  <2>3. serves.pc \in Booting!InProcess => now.pc \in Booting!InProcess \/ Booting!Alone(p)
    BY <1>1, <1>8 DEF Runtimes, Booting!InProcess, Booting!Mount
  <2>4. rt' = [rt EXCEPT ![p] = serves]
    BY <1>8 DEF Booting!Mount
  <2>5. UNCHANGED Booting!disk
    BY <1>8 DEF Booting!Mount
  <2> HIDE DEF serves
  <2> QED BY <2>1, <2>2, <2>3, <2>4, <2>5, RuntimeMoves
<1>9. CASE Booting!MountFails(p) \/ Booting!Stop(p)
  <2> DEFINE stops == [now EXCEPT !.pc = "disposing", !.state = "stopping"]
  <2>1. stops \in Runtimes /\ now.pc # "truncated" /\ stops.pc # "truncated"
    BY <1>1, <1>9 DEF Runtimes, Phases, Booting!MountFails, Booting!Stop
  <2>2. RuntimeOK(stops)
    BY <1>1, <1>9 DEF Runtimes, RuntimeOK, Booting!MountFails, Booting!Stop
  <2>3. stops.pc \in Booting!InProcess => now.pc \in Booting!InProcess \/ Booting!Alone(p)
    BY <1>1, <1>9 DEF Runtimes, Booting!InProcess, Booting!MountFails, Booting!Stop
  <2>4. rt' = [rt EXCEPT ![p] = stops]
    BY <1>9 DEF Booting!MountFails, Booting!Stop
  <2>5. UNCHANGED Booting!disk
    BY <1>9 DEF Booting!MountFails, Booting!Stop
  <2> HIDE DEF stops
  <2> QED BY <2>1, <2>2, <2>3, <2>4, <2>5, RuntimeMoves
<1>10. CASE Booting!StopDispose(p)
  <2> DEFINE disposed == [now EXCEPT !.pc = "removing", !.ctx = {}]
  <2>1. disposed \in Runtimes /\ now.pc # "truncated" /\ disposed.pc # "truncated"
    BY <1>1, <1>10 DEF Runtimes, Phases, Booting!StopDispose
  <2>2. RuntimeOK(disposed)
    BY <1>1, <1>10 DEF Runtimes, RuntimeOK, Booting!StopDispose
  <2>3. disposed.pc \in Booting!InProcess => now.pc \in Booting!InProcess \/ Booting!Alone(p)
    BY <1>1, <1>10 DEF Runtimes, Booting!InProcess, Booting!StopDispose
  <2>4. rt' = [rt EXCEPT ![p] = disposed]
    BY <1>10 DEF Booting!StopDispose
  <2>5. UNCHANGED Booting!disk
    BY <1>10 DEF Booting!StopDispose
  <2> HIDE DEF disposed
  <2> QED BY <2>1, <2>2, <2>3, <2>4, <2>5, RuntimeMoves
<1>11. CASE Booting!StopClean(p)
  <2> DEFINE cleaned == [now EXCEPT !.pc = "stopped", !.state = "stopped", !.temp = FALSE, !.env = FALSE]
  <2>1. cleaned \in Runtimes /\ now.pc # "truncated" /\ cleaned.pc # "truncated"
    BY <1>1, <1>11 DEF Runtimes, Phases, Booting!StopClean
  <2>2. RuntimeOK(cleaned)
    BY <1>1, <1>11 DEF Runtimes, RuntimeOK, Booting!StopClean
  <2>3. cleaned.pc \in Booting!InProcess => now.pc \in Booting!InProcess \/ Booting!Alone(p)
    BY <1>1, <1>11 DEF Runtimes, Booting!InProcess, Booting!StopClean
  <2>4. rt' = [rt EXCEPT ![p] = cleaned]
    BY <1>11 DEF Booting!StopClean
  <2>5. UNCHANGED Booting!disk
    BY <1>11 DEF Booting!StopClean
  <2> HIDE DEF cleaned
  <2> QED BY <2>1, <2>2, <2>3, <2>4, <2>5, RuntimeMoves
<1> QED BY <1>2, <1>3, <1>4, <1>5, <1>6, <1>7, <1>8, <1>9, <1>10, <1>11

\* The steps of a runtime that is a child process.
LEMMA ChildMoves ==
  ASSUME BootInv, NEW p \in Slot,
         Booting!BeginChild(p) \/ Booting!StopChild(p) \/ Booting!ChildReady(p) \/ Booting!ChildEnds(p)
            \/ Booting!ChildStep(p)
  PROVE  BootInv'
<1> DEFINE now == rt[p]
<1>1. now \in Runtimes /\ RuntimeOK(now) /\ installed \in Nat
  BY DEF BootInv
<1> USE DEF Booting!disk, Booting!Become, Booting!Goto, Booting!ChildPhases
<1>2. CASE Booting!BeginChild(p)
  <2> DEFINE begun == [now EXCEPT !.pc = "childTemp", !.temp = TRUE]
             ends == [now EXCEPT !.pc = "exited"]
  <2>1. begun \in Runtimes /\ now.pc # "truncated" /\ begun.pc # "truncated"
    BY <1>1, <1>2 DEF Runtimes, Phases, Booting!BeginChild
  <2>2. RuntimeOK(begun)
    BY <1>1, <1>2 DEF Runtimes, RuntimeOK, Booting!BeginChild
  <2>3. begun.pc \in Booting!InProcess => now.pc \in Booting!InProcess \/ Booting!Alone(p)
    BY <1>1, <1>2 DEF Runtimes, Booting!InProcess, Booting!BeginChild
  <2>4. ends \in Runtimes /\ now.pc # "truncated" /\ ends.pc # "truncated"
    BY <1>1, <1>2 DEF Runtimes, Phases, Booting!BeginChild
  <2>5. RuntimeOK(ends)
    BY <1>1, <1>2 DEF Runtimes, RuntimeOK, Booting!BeginChild
  <2>6. ends.pc \in Booting!InProcess => now.pc \in Booting!InProcess \/ Booting!Alone(p)
    BY <1>1, <1>2 DEF Runtimes, Booting!InProcess, Booting!BeginChild
  <2>7. rt' = [rt EXCEPT ![p] = begun] \/ rt' = [rt EXCEPT ![p] = ends]
    BY <1>2 DEF Booting!BeginChild
  <2>8. UNCHANGED Booting!disk
    BY <1>2 DEF Booting!BeginChild
  <2> HIDE DEF begun, ends
  <2> QED BY <2>1, <2>2, <2>3, <2>4, <2>5, <2>6, <2>7, <2>8, RuntimeMoves
<1>3. CASE Booting!Spawn(p)
  <2> DEFINE spawned == [now EXCEPT !.pc = "polling", !.state = "starting", !.child = "starting"]
             ends == [now EXCEPT !.pc = "exited"]
  <2>1. spawned \in Runtimes /\ now.pc # "truncated" /\ spawned.pc # "truncated"
    BY <1>1, <1>3 DEF Runtimes, Phases, Booting!Spawn
  <2>2. RuntimeOK(spawned)
    BY <1>1, <1>3 DEF Runtimes, RuntimeOK, Booting!Spawn
  <2>3. spawned.pc \in Booting!InProcess => now.pc \in Booting!InProcess \/ Booting!Alone(p)
    BY <1>1, <1>3 DEF Runtimes, Booting!InProcess, Booting!Spawn
  <2>4. ends \in Runtimes /\ now.pc # "truncated" /\ ends.pc # "truncated"
    BY <1>1, <1>3 DEF Runtimes, Phases, Booting!Spawn
  <2>5. RuntimeOK(ends)
    BY <1>1, <1>3 DEF Runtimes, RuntimeOK, Booting!Spawn
  <2>6. ends.pc \in Booting!InProcess => now.pc \in Booting!InProcess \/ Booting!Alone(p)
    BY <1>1, <1>3 DEF Runtimes, Booting!InProcess, Booting!Spawn
  <2>7. rt' = [rt EXCEPT ![p] = spawned] \/ rt' = [rt EXCEPT ![p] = ends]
    BY <1>3 DEF Booting!Spawn
  <2>8. UNCHANGED Booting!disk
    BY <1>3 DEF Booting!Spawn
  <2> HIDE DEF spawned, ends
  <2> QED BY <2>1, <2>2, <2>3, <2>4, <2>5, <2>6, <2>7, <2>8, RuntimeMoves
\* What happens to the child, at whichever step its starter is.
<1>4. CASE Booting!ChildReady(p)
  <2> DEFINE answers == [now EXCEPT !.child = "ready"]
  <2>1. answers \in Runtimes /\ RuntimeOK(answers) /\ answers.pc = now.pc
    BY <1>1, <1>4 DEF Runtimes, RuntimeOK, Booting!ChildReady
  <2>2. rt' = [rt EXCEPT ![p] = answers] /\ UNCHANGED Booting!disk
    BY <1>4 DEF Booting!ChildReady
  <2> HIDE DEF answers
  <2> QED BY <2>1, <2>2, RuntimeMoves
<1>5. ASSUME NEW code \in {0, 1}, now.child \in {"starting", "ready"}, UNCHANGED Booting!disk,
             Booting!Become(p, [now EXCEPT !.child = "gone", !.code = code])
      PROVE  BootInv'
  <2> DEFINE gone == [now EXCEPT !.child = "gone", !.code = code]
  <2>1. gone \in Runtimes /\ RuntimeOK(gone) /\ gone.pc = now.pc
    BY <1>1, <1>5 DEF Runtimes, RuntimeOK
  <2>2. rt' = [rt EXCEPT ![p] = gone] /\ UNCHANGED Booting!disk
    BY <1>5
  <2> HIDE DEF gone
  <2> QED BY <2>1, <2>2, RuntimeMoves
<1>6. CASE Booting!ChildEnds(p) \/ Booting!ForceKill(p)
  BY <1>6, <1>5 DEF Booting!ChildEnds, Booting!ForceKill
<1>7. CASE Booting!ExitNoticed(p)
  <2> DEFINE state == IF now.state = "stopping" \/ now.code = 0 THEN "stopped" ELSE "failed"
             noticed == [now EXCEPT !.child = "noticed", !.temp = FALSE, !.state = state]
  <2>1. state \in {"stopped", "failed"}
    OBVIOUS
  <2>2. rt' = [rt EXCEPT ![p] = noticed] /\ UNCHANGED Booting!disk
    BY <1>7 DEF Booting!ExitNoticed
  <2> HIDE DEF state
  <2>3. noticed \in Runtimes /\ RuntimeOK(noticed) /\ noticed.pc = now.pc
    BY <1>1, <1>7, <2>1 DEF Runtimes, RuntimeOK, Booting!ExitNoticed
  <2> HIDE DEF noticed
  <2> QED BY <2>2, <2>3, RuntimeMoves
<1>8. CASE Booting!PollAnswered(p)
  <2> DEFINE answered == [now EXCEPT !.pc = "healthy"]
  <2>1. answered \in Runtimes /\ now.pc # "truncated" /\ answered.pc # "truncated"
    BY <1>1, <1>8 DEF Runtimes, Phases, Booting!PollAnswered
  <2>2. RuntimeOK(answered)
    BY <1>1, <1>8 DEF Runtimes, RuntimeOK, Booting!PollAnswered
  <2>3. answered.pc \in Booting!InProcess => now.pc \in Booting!InProcess \/ Booting!Alone(p)
    BY <1>1, <1>8 DEF Runtimes, Booting!InProcess, Booting!PollAnswered
  <2>4. rt' = [rt EXCEPT ![p] = answered]
    BY <1>8 DEF Booting!PollAnswered
  <2>5. UNCHANGED Booting!disk
    BY <1>8 DEF Booting!PollAnswered
  <2> HIDE DEF answered
  <2> QED BY <2>1, <2>2, <2>3, <2>4, <2>5, RuntimeMoves
<1>9. CASE Booting!PollFails(p)
  <2> DEFINE fails == [now EXCEPT !.pc = "childFailed", !.state = "failed"]
  <2>1. fails \in Runtimes /\ now.pc # "truncated" /\ fails.pc # "truncated"
    BY <1>1, <1>9 DEF Runtimes, Phases, Booting!PollFails
  <2>2. RuntimeOK(fails)
    BY <1>1, <1>9 DEF Runtimes, RuntimeOK, Booting!PollFails
  <2>3. fails.pc \in Booting!InProcess => now.pc \in Booting!InProcess \/ Booting!Alone(p)
    BY <1>1, <1>9 DEF Runtimes, Booting!InProcess, Booting!PollFails
  <2>4. rt' = [rt EXCEPT ![p] = fails]
    BY <1>9 DEF Booting!PollFails
  <2>5. UNCHANGED Booting!disk
    BY <1>9 DEF Booting!PollFails
  <2> HIDE DEF fails
  <2> QED BY <2>1, <2>2, <2>3, <2>4, <2>5, RuntimeMoves
<1>10. CASE Booting!Healthy(p)
  <2> DEFINE ready == [now EXCEPT !.pc = "childRunning", !.state = "running"]
  <2>1. ready \in Runtimes /\ now.pc # "truncated" /\ ready.pc # "truncated"
    BY <1>1, <1>10 DEF Runtimes, Phases, Booting!Healthy
  <2>2. RuntimeOK(ready)
    BY <1>1, <1>10 DEF Runtimes, RuntimeOK, Booting!Healthy
  <2>3. ready.pc \in Booting!InProcess => now.pc \in Booting!InProcess \/ Booting!Alone(p)
    BY <1>1, <1>10 DEF Runtimes, Booting!InProcess, Booting!Healthy
  <2>4. rt' = [rt EXCEPT ![p] = ready]
    BY <1>10 DEF Booting!Healthy
  <2>5. UNCHANGED Booting!disk
    BY <1>10 DEF Booting!Healthy
  <2> HIDE DEF ready
  <2> QED BY <2>1, <2>2, <2>3, <2>4, <2>5, RuntimeMoves
<1>11. CASE Booting!StopChild(p)
  <2> DEFINE stops == [now EXCEPT !.pc = "terminating", !.state = "stopping"]
  <2>1. stops \in Runtimes /\ now.pc # "truncated" /\ stops.pc # "truncated"
    BY <1>1, <1>11 DEF Runtimes, Phases, Booting!StopChild
  <2>2. RuntimeOK(stops)
    BY <1>1, <1>11 DEF Runtimes, RuntimeOK, Booting!StopChild
  <2>3. stops.pc \in Booting!InProcess => now.pc \in Booting!InProcess \/ Booting!Alone(p)
    BY <1>1, <1>11 DEF Runtimes, Booting!InProcess, Booting!StopChild
  <2>4. rt' = [rt EXCEPT ![p] = stops]
    BY <1>11 DEF Booting!StopChild
  <2>5. UNCHANGED Booting!disk
    BY <1>11 DEF Booting!StopChild
  <2> HIDE DEF stops
  <2> QED BY <2>1, <2>2, <2>3, <2>4, <2>5, RuntimeMoves
<1>12. CASE Booting!ChildFailed(p)
  <2> DEFINE fails == [now EXCEPT !.pc = "failed"]
  <2>1. fails \in Runtimes /\ now.pc # "truncated" /\ fails.pc # "truncated"
    BY <1>1, <1>12 DEF Runtimes, Phases, Booting!ChildFailed
  <2>2. RuntimeOK(fails)
    BY <1>1, <1>12 DEF Runtimes, RuntimeOK, Booting!ChildFailed
  <2>3. fails.pc \in Booting!InProcess => now.pc \in Booting!InProcess \/ Booting!Alone(p)
    BY <1>1, <1>12 DEF Runtimes, Booting!InProcess, Booting!ChildFailed
  <2>4. rt' = [rt EXCEPT ![p] = fails]
    BY <1>12 DEF Booting!ChildFailed
  <2>5. UNCHANGED Booting!disk
    BY <1>12 DEF Booting!ChildFailed
  <2> HIDE DEF fails
  <2> QED BY <2>1, <2>2, <2>3, <2>4, <2>5, RuntimeMoves
<1>13. CASE Booting!StopReturns(p)
  <2> DEFINE stopped == [now EXCEPT !.pc = "stopped"]
  <2>1. stopped \in Runtimes /\ now.pc # "truncated" /\ stopped.pc # "truncated"
    BY <1>1, <1>13 DEF Runtimes, Phases, Booting!StopReturns
  <2>2. RuntimeOK(stopped)
    BY <1>1, <1>13 DEF Runtimes, RuntimeOK, Booting!StopReturns
  <2>3. stopped.pc \in Booting!InProcess => now.pc \in Booting!InProcess \/ Booting!Alone(p)
    BY <1>1, <1>13 DEF Runtimes, Booting!InProcess, Booting!StopReturns
  <2>4. rt' = [rt EXCEPT ![p] = stopped]
    BY <1>13 DEF Booting!StopReturns
  <2>5. UNCHANGED Booting!disk
    BY <1>13 DEF Booting!StopReturns
  <2> HIDE DEF stopped
  <2> QED BY <2>1, <2>2, <2>3, <2>4, <2>5, RuntimeMoves
<1> QED BY <1>2, <1>3, <1>4, <1>5, <1>6, <1>7, <1>8, <1>9, <1>10, <1>11, <1>12, <1>13 DEF Booting!ChildStep

\* The steps that read or write the profile patch.
LEMMA ReadProfileHolds ==
  ASSUME BootInv, NEW p \in Slot, Booting!ReadProfile(p), patch.form # "cut"
  PROVE  BootInv'
<1> DEFINE now == rt[p]
           rows == IF patch.form = "whole" THEN Booting!rewritten(patch.rows, now.v, now.creator)
                   ELSE Booting!seeded(now.v, now.creator)
           read == [now EXCEPT !.pc = "truncated", !.ctx = rows]
<1>1. now \in Runtimes /\ RuntimeOK(now) /\ now.pc = "prepared" /\ now.v \in Nat /\ now.creator \in BOOLEAN
  BY DEF BootInv, Booting!ReadProfile, Runtimes
<1>2. patch.rows \in SUBSET Rows /\ (patch.form # "whole" => patch.rows = {})
  BY DEF BootInv
<1>3. rows = Booting!rewritten(patch.rows, now.v, now.creator)
  BY <1>1, <1>2, Seeding
<1>4. /\ rt' = [rt EXCEPT ![p] = read] /\ patch' = [form |-> "empty", rows |-> {}]
      /\ UNCHANGED <<creator, switching, asked, saved, installed>>
  BY DEF Booting!ReadProfile, Booting!Become
<1> HIDE DEF rows
<1>5. /\ rows \subseteq Rows /\ Owned(rows) = Fresh(now.v, now.creator)
      /\ Booting!Settings(rows) = Booting!Settings(patch.rows)
  <2> HIDE DEF now
  <2> QED BY <1>1, <1>2, <1>3, Rewriting, ZenonT(60)
<1>6. /\ read \in Runtimes /\ read.pc = "truncated" /\ read.ctx = rows /\ read.child = now.child
      /\ read.v = now.v /\ read.creator = now.creator /\ read.temp = now.temp
  BY <1>1, <1>5 DEF Runtimes, Phases
<1> HIDE DEF read
<1>7. rt' \in [Slot -> Runtimes] /\ rt'[p] = read /\ \A q \in Slot : q # p => rt'[q] = rt[q]
  BY <1>4, <1>6 DEF BootInv
<1>8. \A q \in Slot : q # p => rt[q].pc \notin Booting!InProcess
  BY <1>1 DEF BootInv, OneBoots, Booting!InProcess
<1>9. ~CutWrites => Booting!Settings(patch.rows) = saved
  BY <1>1, <1>8 DEF BootInv, Booting!SettingsKept, Booting!InProcess
<1>10. \A q \in Slot : RuntimeOK(rt[q])'
  <2>1. RuntimeOK(rt[p])'
    BY <1>1, <1>4, <1>5, <1>6, <1>7, <1>9 DEF RuntimeOK, Booting!ChildPhases, Booting!Settings
  <2>2. ASSUME NEW q \in Slot, q # p PROVE RuntimeOK(rt[q])'
    BY <1>4, <1>7, <1>8, <2>2 DEF BootInv, RuntimeOK, Booting!InProcess
  <2> QED BY <2>1, <2>2
<1>11. OneBoots'
  BY <1>7, <1>8 DEF OneBoots
<1>12. Booting!SettingsKept'
  BY <1>6, <1>7 DEF Booting!SettingsKept
<1> QED BY <1>4, <1>7, <1>10, <1>11, <1>12 DEF BootInv, Booting!Forms

LEMMA ReadCutProfileHolds ==
  ASSUME BootInv, NEW p \in Slot, Booting!ReadProfile(p), patch.form = "cut"
  PROVE  BootInv'
<1> DEFINE now == rt[p]
           fails == [now EXCEPT !.pc = "failing"]
<1>1. now \in Runtimes /\ RuntimeOK(now) /\ now.pc = "prepared"
  BY DEF BootInv, Booting!ReadProfile
<1>2. rt' = [rt EXCEPT ![p] = fails] /\ UNCHANGED <<patch, creator, switching, asked, saved, installed>>
  BY DEF Booting!ReadProfile, Booting!Goto
<1>3. fails \in Runtimes /\ fails.pc = "failing"
  BY <1>1 DEF Runtimes, Phases
<1>4. RuntimeOK(fails)
  BY <1>1 DEF Runtimes, RuntimeOK, Booting!ChildPhases
<1>5. now.pc \in Booting!InProcess
  BY <1>1 DEF Booting!InProcess
<1> HIDE DEF fails
<1> QED BY <1>1, <1>2, <1>3, <1>4, <1>5, RuntimeMoves

LEMMA WriteProfileHolds ==
  ASSUME BootInv, NEW p \in Slot, Booting!WriteProfile(p)
  PROVE  BootInv'
<1> DEFINE now == rt[p]
           wrote == [now EXCEPT !.pc = "written", !.ctx = {}]
<1>1. now \in Runtimes /\ RuntimeOK(now) /\ now.pc = "truncated"
  BY DEF BootInv, Booting!WriteProfile
<1>2. /\ rt' = [rt EXCEPT ![p] = wrote] /\ patch' = [form |-> "whole", rows |-> now.ctx]
      /\ UNCHANGED <<creator, switching, asked, saved, installed>>
  BY DEF Booting!WriteProfile, Booting!Become
<1>3. /\ wrote \in Runtimes /\ wrote.pc = "written" /\ wrote.child = now.child
      /\ wrote.v = now.v /\ wrote.creator = now.creator /\ wrote.temp = now.temp
  BY <1>1 DEF Runtimes, Phases
<1>4. now.ctx \subseteq Rows /\ Owned(now.ctx) = Fresh(now.v, now.creator) /\ (~CutWrites => Booting!Settings(now.ctx) = saved)
  BY <1>1 DEF Runtimes, RuntimeOK
<1> HIDE DEF wrote
<1>5. rt' \in [Slot -> Runtimes] /\ rt'[p] = wrote /\ \A q \in Slot : q # p => rt'[q] = rt[q]
  BY <1>2, <1>3 DEF BootInv
<1>6. \A q \in Slot : q # p => rt[q].pc \notin Booting!InProcess
  BY <1>1 DEF BootInv, OneBoots, Booting!InProcess
<1>7. \A q \in Slot : RuntimeOK(rt[q])'
  <2>1. RuntimeOK(rt[p])'
    BY <1>1, <1>2, <1>3, <1>4, <1>5 DEF RuntimeOK, Booting!ChildPhases
  <2>2. ASSUME NEW q \in Slot, q # p PROVE RuntimeOK(rt[q])'
    BY <1>2, <1>5, <1>6, <2>2 DEF BootInv, RuntimeOK, Booting!InProcess
  <2> QED BY <2>1, <2>2
<1>8. OneBoots'
  BY <1>5, <1>6 DEF OneBoots
<1>9. (~CutWrites => Booting!SettingsKept)'
  BY <1>2, <1>4 DEF Booting!SettingsKept, Booting!Settings
<1>10. patch' \in [form : Booting!Forms, rows : SUBSET Rows] /\ patch'.form = "whole"
  BY <1>2, <1>4 DEF Booting!Forms
<1> QED BY <1>2, <1>5, <1>7, <1>8, <1>9, <1>10 DEF BootInv

LEMMA LoadHolds ==
  ASSUME BootInv, NEW p \in Slot, Booting!Load(p)
  PROVE  BootInv'
<1> DEFINE now == rt[p]
           loaded == [now EXCEPT !.pc = "settling", !.ctx = patch.rows]
           fails == [now EXCEPT !.pc = "failing"]
<1>1. now \in Runtimes /\ RuntimeOK(now) /\ now.pc = "written" /\ patch.rows \in SUBSET Rows
  BY DEF BootInv, Booting!Load
<1>2. /\ rt' = [rt EXCEPT ![p] = loaded] \/ rt' = [rt EXCEPT ![p] = fails]
      /\ UNCHANGED Booting!disk
  BY DEF Booting!Load, Booting!Become, Booting!Goto
<1>3. /\ loaded \in Runtimes /\ loaded.pc = "settling"
      /\ fails \in Runtimes /\ fails.pc = "failing"
  BY <1>1 DEF Runtimes, Phases
<1>4. RuntimeOK(loaded)
  BY <1>1 DEF Runtimes, RuntimeOK, Booting!ChildPhases
<1>5. RuntimeOK(fails)
  BY <1>1 DEF Runtimes, RuntimeOK, Booting!ChildPhases
<1>6. now.pc \in Booting!InProcess
  BY <1>1 DEF Booting!InProcess
<1> HIDE DEF loaded, fails
<1> QED BY <1>1, <1>2, <1>3, <1>4, <1>5, <1>6, RuntimeMoves DEF Booting!disk

\* A setting is saved by the one Host there is.
LEMMA SaveSettingHolds ==
  ASSUME BootInv, NEW p \in Slot, NEW s \in Setting0, Booting!SaveSetting(p, s)
  PROVE  BootInv'
<1>1. rt[p].pc \in {"mounting", "serving"}
  BY DEF Booting!SaveSetting, Booting!Running
<1>2. \A q \in Slot : q # p => rt[q].pc \notin Booting!InProcess
  BY <1>1 DEF BootInv, OneBoots, Booting!InProcess
<1>3. \A q \in Slot : rt[q].pc \notin {"truncated", "written"}
  BY <1>1, <1>2 DEF Booting!InProcess
<1>4. /\ patch' = [form |-> "whole", rows |-> patch.rows \cup {Booting!Setting(s)}]
      /\ saved' = saved \cup {s} /\ UNCHANGED <<creator, asked, installed, rt>>
  BY DEF Booting!SaveSetting
<1>5. /\ patch.rows \cup {Booting!Setting(s)} \subseteq Rows
      /\ Booting!Settings(patch.rows \cup {Booting!Setting(s)}) = Booting!Settings(patch.rows) \cup {s}
  BY SettingRow DEF BootInv
<1>6. \A q \in Slot : RuntimeOK(rt[q])'
  BY <1>3, <1>4 DEF BootInv, RuntimeOK
<1>7. (~CutWrites => Booting!SettingsKept)'
  BY <1>3, <1>4, <1>5 DEF BootInv, Booting!SettingsKept, Booting!Settings
<1>8. patch' \in [form : Booting!Forms, rows : SUBSET Rows] /\ patch'.form = "whole"
  BY <1>4, <1>5 DEF Booting!Forms
<1> QED BY <1>4, <1>6, <1>7, <1>8 DEF BootInv, OneBoots

\* A runtime that is killed; the one that was writing leaves a file cut short.
LEMMA CrashHolds ==
  ASSUME BootInv, NEW p \in Slot, Booting!Crash(p)
  PROVE  BootInv'
<1> DEFINE now == rt[p]
           dead == [now EXCEPT !.pc = "crashed", !.env = FALSE, !.ctx = {}]
<1>1. now \in Runtimes /\ RuntimeOK(now)
  BY DEF BootInv
<1>2. rt' = [rt EXCEPT ![p] = dead] /\ UNCHANGED <<creator, switching, asked, saved, installed>>
  BY DEF Booting!Crash, Booting!Become
<1>3. dead \in Runtimes /\ dead.pc = "crashed"
  BY <1>1 DEF Runtimes, Phases
<1>4. dead.child = now.child /\ dead.temp = now.temp
  BY <1>1 DEF Runtimes
<1> HIDE DEF dead
<1>5. RuntimeOK(dead)
  BY <1>1, <1>3, <1>4 DEF RuntimeOK, Booting!ChildPhases
<1>6. "crashed" \notin Booting!InProcess
  BY DEF Booting!InProcess
<1>7. CASE now.pc # "truncated"
  BY <1>1, <1>2, <1>3, <1>5, <1>6, <1>7, RuntimeMoves DEF Booting!Crash
<1>8. CASE now.pc = "truncated"
  <2>1. CutWrites /\ \E form \in {"empty", "cut"} : patch' = [form |-> form, rows |-> {}]
    BY <1>8 DEF Booting!Crash
  <2>2. patch' \in [form : Booting!Forms, rows : SUBSET Rows] /\ patch'.rows = {}
    BY <2>1 DEF Booting!Forms
  <2>3. rt' \in [Slot -> Runtimes] /\ rt'[p] = dead /\ \A q \in Slot : q # p => rt'[q] = rt[q]
    BY <1>2, <1>3 DEF BootInv
  <2>4. \A q \in Slot : q # p => rt[q].pc \notin Booting!InProcess
    BY <1>8 DEF BootInv, OneBoots, Booting!InProcess
  <2>5. OneBoots'
    BY <2>3, <2>4 DEF OneBoots
  <2>6. RuntimeOK(rt[p])'
    BY <1>2, <1>3, <1>5, <2>3 DEF RuntimeOK
  <2>7. ASSUME NEW q \in Slot, q # p PROVE RuntimeOK(rt[q])'
    BY <1>2, <2>3, <2>4, <2>7 DEF BootInv, RuntimeOK, Booting!InProcess
  <2> QED BY <1>2, <2>1, <2>2, <2>3, <2>5, <2>6, <2>7 DEF BootInv
<1> QED BY <1>7, <1>8

\* The user's commands leave the runtimes alone, and the profile.
LEMMA UserHolds ==
  ASSUME BootInv, Booting!User
  PROVE  BootInv'
<1>1. rt' = rt /\ patch' = patch /\ saved' = saved
  BY DEF Booting!User, Booting!SwitchCreator, Booting!Switched, Booting!SwitchDies, Booting!Upgrade
<1>2. installed' \in Nat
  BY DEF BootInv, Booting!User, Booting!SwitchCreator, Booting!Switched, Booting!SwitchDies,
         Booting!Upgrade
<1>3. (creator = "on" <=> asked = "on")'
  BY DEF BootInv, Booting!User, Booting!SwitchCreator, Booting!Switched, Booting!SwitchDies,
         Booting!Upgrade
<1>4. \A p \in Slot : RuntimeOK(rt[p])'
  BY <1>1 DEF BootInv, RuntimeOK
<1>5. OneBoots' /\ (~CutWrites => Booting!SettingsKept)'
  BY <1>1 DEF BootInv, OneBoots, Booting!SettingsKept, Booting!Settings
<1> QED BY <1>1, <1>2, <1>3, <1>4, <1>5 DEF BootInv

LEMMA BootHolds == BootInv /\ [Booting!Next]_boot => BootInv'
<1> SUFFICES ASSUME BootInv, [Booting!Next]_boot PROVE BootInv'
  OBVIOUS
<1>1. CASE UNCHANGED boot
  <2>1. rt' = rt /\ patch' = patch /\ saved' = saved /\ creator' = creator /\ asked' = asked
        /\ installed' = installed
    BY <1>1 DEF boot
  <2>2. \A p \in Slot : RuntimeOK(rt[p])'
    BY <2>1 DEF BootInv, RuntimeOK
  <2>3. OneBoots' /\ (~CutWrites => Booting!SettingsKept)'
    BY <2>1 DEF BootInv, OneBoots, Booting!SettingsKept, Booting!Settings
  <2> QED BY <2>1, <2>2, <2>3 DEF BootInv
<1>2. CASE Booting!User
  BY <1>2, UserHolds
<1>3. ASSUME NEW p \in Slot, Booting!BootStep(p) PROVE BootInv'
  BY <1>3, HostMoves, ReadProfileHolds, ReadCutProfileHolds, WriteProfileHolds, LoadHolds
     DEF Booting!BootStep
<1>4. ASSUME NEW p \in Slot, Booting!ChildStep(p) PROVE BootInv'
  BY <1>4, ChildMoves
<1>5. ASSUME NEW p \in Slot, Booting!Environment(p) PROVE BootInv'
  BY <1>5, HostMoves, ChildMoves, CrashHolds, SaveSettingHolds DEF Booting!Environment
<1> QED BY <1>1, <1>2, <1>3, <1>4, <1>5 DEF Booting!Next

LEMMA BootIsInvariant == Spec => []BootInv
<1>1. Init => BootInv
  BY BootStarts DEF Init
<1>2. BootInv /\ [Next]_vars => BootInv'
  BY SideSteps, BootHolds
<1> QED BY <1>1, <1>2, PTL DEF Spec

\* Whichever runtimes share the root, crash, upgrade and switch Creator mode, also in the
\* middle of a write: a Host runs the rows of its own release and choice
\* (ensureProfilePatch), the choice is the last one that finished (creator.ts), and a boot
\* that ended undid what it set up (bootRepositoryHarness).
THEOREM RunsItsRelease ==
  Spec => [](Booting!RunsItsBundle /\ Booting!CreatorRemembered /\ Booting!CleanEnd)
<1>1. BootInv => Booting!RunsItsBundle /\ Booting!CreatorRemembered /\ Booting!CleanEnd
  BY DEF BootInv, RuntimeOK, Owned, Fresh, Booting!RunsItsBundle, Booting!Running,
         Booting!CreatorRemembered, Booting!readCreatorMode, Booting!CleanEnd
<1> QED BY <1>1, BootIsInvariant, PTL

\* And nothing the user saved is lost, as long as no process dies inside the one write of
\* the profile patch (ensureProfilePatch).
THEOREM SettingsSurvive ==
  ASSUME ~CutWrites
  PROVE  Spec => []BootsItsOwn
<1>1. BootInv => Booting!SettingsKept
  BY DEF BootInv
<1>2. BootInv => Booting!RunsItsBundle /\ Booting!CreatorRemembered /\ Booting!CleanEnd
  BY DEF BootInv, RuntimeOK, Owned, Fresh, Booting!RunsItsBundle, Booting!Running,
         Booting!CreatorRemembered, Booting!readCreatorMode, Booting!CleanEnd
<1> QED BY <1>1, <1>2, BootIsInvariant, PTL DEF BootsItsOwn

-----------------------------------------------------------------------------
(* The commands that bring releases.                                       *)

LEMMA MaxIsMember ==
  ASSUME NEW S \in SUBSET Version, S # {}
  PROVE  Max(S) \in S
<1> DEFINE back == {d \in 0..Newest : Newest - d \in S}
<1>1. Newest \in Nat /\ S \subseteq 1..Newest
  BY ReleasesAssumption DEF Version
<1>2. PICK v \in S : TRUE
  OBVIOUS
<1>3. Newest - v \in back /\ back \subseteq Nat
  BY <1>1, <1>2
<1>4. PICK d \in back : \A x \in back : ~(<<x, d>> \in OpToRel(<, Nat))
  <2> HIDE DEF back
  <2> QED BY <1>3, NatLessThanWellFounded, WFMin
<1>5. \A x \in back : ~(x < d)
  BY <1>3, <1>4 DEF OpToRel
<1>6. Newest - d \in S /\ d \in Nat
  BY <1>1
<1>7. ASSUME NEW w \in S PROVE Newest - d >= w
  <2>1. Newest - w \in 0..Newest /\ Newest - (Newest - w) = w /\ w \in Nat
    BY <1>1
  <2>2. Newest - w \in back
    BY <2>1
  <2> HIDE DEF back
  <2>3. ~(Newest - w < d)
    BY <1>5, <2>2
  <2> QED BY <1>1, <1>6, <2>1, <2>3
<1>8. \E m \in S : \A w \in S : m >= w
  BY <1>6, <1>7
<1> QED BY <1>8, Zenon DEF Max

\* The package that a user has unpacked, as a command that failed may have left it.
Packages == [version : Version, pin : 1..2, tree : SUBSET Stage]

\* A build of a release that the index has named.
Pinned(v, b) == v \in Version /\ b \in 1..pins[v]

\* Only a tree that has everything is marked.
Complete(made) == made \subseteq Stage /\ ("marker" \in made => made = Stage)

ServerOK ==
    /\ objects \in [Version -> 0..2] /\ pins \in [Version -> 0..2] /\ stable \in Version
    /\ pins[stable] >= 1 /\ pins[1] >= 1

CacheOK ==
    /\ archive \in [Version -> {None} \cup [1..Chunks -> 1..2]]
    /\ CachedIsOneBuild

Usable == local \in Packages /\ Pinned(local.version, local.pin) /\ Complete(local.tree)

LocalOK == local # None => Usable

\* What the command has in its hands, phase by phase.
CommandOK ==
    /\ Pinned(chosen.version, chosen.pin)
    /\ Complete(tree)
    /\ kind = "from" => Usable
    /\ at = "patch" => tree = {"modules"}
    /\ at = "trim" => tree = {"modules", "patched"}
    /\ at = "mark" => tree = {"modules", "patched", "trimmed"}
    /\ at = "activate" => tree = Stage
    /\ kind # "from" /\ at \in {"depend", "npm", "patch", "trim", "pack", "mark", "activate"}
         => archive[it] = Whole(chosen.pin)

ActiveOK ==
    /\ active # None => active.version \in Version
    /\ InstalledIsWhole

ReleaseInv == ServerOK /\ CacheOK /\ LocalOK /\ CommandOK /\ ActiveOK

LEMMA ReleaseStarts == ReleasesInit => ReleaseInv
<1> SUFFICES ASSUME ReleasesInit PROVE ReleaseInv
  OBVIOUS
<1> USE ReleasesAssumption
<1>1. 1 \in Version /\ ServerOK /\ pins[1] = 1
  BY DEF ReleasesInit, ServerOK, Version
<1>2. CacheOK
  BY DEF ReleasesInit, CacheOK, CachedIsOneBuild
<1>3. Pinned(1, 1) /\ Complete({}) /\ 1 \in 1..pins[1]
  BY <1>1 DEF Pinned, Complete
<1>4. CommandOK
  BY <1>3 DEF ReleasesInit, CommandOK, Nothing
<1>5. ActiveOK
  BY <1>1, <1>3 DEF ReleasesInit, ActiveOK, InstalledIsWhole
<1>6. LocalOK
  BY DEF ReleasesInit, LocalOK
<1> QED BY <1>1, <1>2, <1>4, <1>5, <1>6 DEF ReleaseInv

\* The publisher names a build that it has uploaded, and later ones after it.
LEMMA PublisherHolds ==
  ASSUME ReleaseInv, NEW v \in Version, Upload(v) \/ Promote(v)
  PROVE  ReleaseInv'
<1> USE ReleasesAssumption
<1>1. UNCHANGED <<cache, active, command, local>>
  BY DEF Upload, Promote
<1>2. ServerOK' /\ \A w \in Version : pins'[w] \in Nat /\ pins[w] \in Nat /\ pins[w] <= pins'[w]
  <2>1. CASE Upload(v)
    BY <2>1 DEF Upload, ReleaseInv, ServerOK, Version
  <2>2. CASE Promote(v)
    <3>1. /\ objects[v] \in 0..2 /\ pins[v] \in 0..2 /\ objects[v] > pins[v]
          /\ pins' = [pins EXCEPT ![v] = objects[v]] /\ stable' = v /\ objects' = objects
      BY <2>2 DEF Promote, ReleaseInv, ServerOK
    <3>2. 1 \in Version
      BY DEF Version
    <3> QED BY <3>1, <3>2 DEF ReleaseInv, ServerOK
  <2> QED BY <2>1, <2>2
<1>3. \A w \in Version : 1..pins[w] \subseteq 1..pins'[w]
  BY <1>2
<1>4. CacheOK'
  BY <1>1, <1>3 DEF cache, ReleaseInv, CacheOK, CachedIsOneBuild
<1>5. LocalOK'
  BY <1>1, <1>3 DEF ReleaseInv, LocalOK, Usable, Pinned, Packages
<1>6. CommandOK'
  BY <1>1, <1>3 DEF ReleaseInv, CommandOK, Usable, Pinned, command, cache, it
<1>7. ActiveOK'
  BY <1>1, <1>3 DEF ReleaseInv, ActiveOK, InstalledIsWhole
<1> QED BY <1>2, <1>4, <1>5, <1>6, <1>7 DEF ReleaseInv

\* A command that ends, however it does, has nothing in its hands.
LEMMA IdleHolds ==
  ASSUME ReleaseInv, Idle, UNCHANGED <<server, archive, active>>,
         local' = local \/ Usable'
  PROVE  ReleaseInv'
<1> USE ReleasesAssumption
<1>1. Pinned(1, 1)'
  BY DEF server, ReleaseInv, ServerOK, Pinned, Version
<1>2. CommandOK'
  BY <1>1 DEF Idle, CommandOK, Nothing, Complete
<1>3. ServerOK' /\ CacheOK' /\ ActiveOK'
  BY DEF server, ReleaseInv, ServerOK, CacheOK, CachedIsOneBuild, ActiveOK, InstalledIsWhole
<1>4. LocalOK'
  BY DEF server, ReleaseInv, LocalOK, Usable, Pinned
<1> QED BY <1>2, <1>3, <1>4 DEF ReleaseInv

\* The choice of a release: one in the cache is the build that the index named.
LEMMA ChosenIsPinned ==
  ASSUME ReleaseInv, NEW reachable \in BOOLEAN, NEW pack \in BOOLEAN
  PROVE  Pinned(Chosen(reachable, pack).version, Chosen(reachable, pack).pin)
<1> USE ReleasesAssumption
<1>1. Pinned(stable, pins[stable])
  BY DEF ReleaseInv, ServerOK, Pinned
<1>2. ASSUME CachedReleases # {}
      PROVE  Pinned(Max(CachedReleases), archive[Max(CachedReleases)][1])
  <2> DEFINE v == Max(CachedReleases)
  <2>1. v \in CachedReleases
    BY <1>2, MaxIsMember DEF CachedReleases
  <2> HIDE DEF v
  <2>2. v \in Version /\ archive[v] # None
    BY <2>1 DEF CachedReleases
  <2>3. PICK b \in 1..pins[v] : archive[v] = Whole(b)
    BY <2>2 DEF ReleaseInv, CacheOK, CachedIsOneBuild
  <2>4. archive[v][1] = b
    BY <2>3 DEF Whole
  <2>5. Pinned(v, archive[v][1])
    BY <2>2, <2>3, <2>4 DEF Pinned
  <2> QED BY <2>5 DEF v
<1> QED BY <1>1, <1>2 DEF Chosen

\* A step of a command that leaves the server and the installation.
LEMMA CommandMoves ==
  ASSUME ReleaseInv, UNCHANGED <<server, active>>, CacheOK', LocalOK', CommandOK'
  PROVE  ReleaseInv'
BY DEF server, ReleaseInv, ServerOK, ActiveOK, InstalledIsWhole

LEMMA SelectHolds ==
  ASSUME ReleaseInv, NEW reachable \in BOOLEAN, NEW pack \in BOOLEAN, Select(reachable, pack)
  PROVE  ReleaseInv'
<1> DEFINE release == Chosen(reachable, pack)
<1>1. UNCHANGED <<server, archive, active, local>> /\ at = "select"
  BY DEF Select, cache
<1>2. CASE Idle
  BY <1>1, <1>2, IdleHolds DEF ReleaseInv
<1>3. CASE ~Idle
  <2> HIDE DEF release
  <2>1. /\ chosen' = release /\ at' \in {"fetch", "unpack"}
        /\ UNCHANGED <<kind, runs, conn, tree>>
    BY <1>3 DEF Select, Goto, release
  <2>2. Pinned(release.version, release.pin)
    BY ChosenIsPinned DEF release
  <2>3. CommandOK'
    BY <1>1, <2>1, <2>2 DEF ReleaseInv, CommandOK, Usable, Pinned, server
  <2>4. CacheOK' /\ LocalOK'
    BY <1>1 DEF ReleaseInv, CacheOK, CachedIsOneBuild, LocalOK, Usable, Pinned, server
  <2> QED BY <1>1, <2>3, <2>4, CommandMoves
<1> QED BY <1>2, <1>3

\* What downloading does to the cache: an archive appears when it is the pinned build.
LEMMA DownloadHolds ==
  ASSUME ReleaseInv, Download \/ Chunk \/ Short \/ Unpack
  PROVE  ReleaseInv'
<1> USE ReleasesAssumption
<1>1. it \in Version /\ chosen.pin \in 1..pins[it] /\ pins[it] \in 0..2
  BY DEF ReleaseInv, ServerOK, CommandOK, Pinned, it
<1>2. Whole(chosen.pin) \in [1..Chunks -> 1..2]
  BY <1>1 DEF Whole
<1>3. ASSUME UNCHANGED <<server, active, archive, kind, chosen, tree, local>>,
             at' \in {at, "fetch", "request", "transfer", "sidecar", "unpack", "end"}
      PROVE  ReleaseInv'
  <2>1. CacheOK' /\ LocalOK'
    BY <1>3 DEF ReleaseInv, CacheOK, CachedIsOneBuild, LocalOK, Usable, Pinned, server
  <2>2. CommandOK'
    BY <1>3 DEF ReleaseInv, CommandOK, Usable, Pinned, server, it
  <2> QED BY <1>3, <2>1, <2>2, CommandMoves
<1>4. CASE Fetch
  <2>1. CASE archive' = archive
    BY <1>3, <1>4, <2>1 DEF Fetch, Goto, AfterFetch
  <2>2. CASE archive' = [archive EXCEPT ![it] = None]
    <3>1. at' = "request" \/ archive' = archive
      BY <1>4 DEF Fetch, Goto
    <3>2. CASE at' = "request"
      <4>1. CacheOK' /\ LocalOK'
        BY <1>1, <1>4, <2>2 DEF Fetch, ReleaseInv, CacheOK, CachedIsOneBuild, LocalOK, Usable, Pinned, server
      <4>2. CommandOK'
        BY <1>4, <3>2 DEF Fetch, ReleaseInv, CommandOK, Usable, Pinned, server
      <4> QED BY <1>4, <4>1, <4>2, CommandMoves DEF Fetch
    <3> QED BY <2>1, <3>1, <3>2
  <2> QED BY <1>4, <2>1, <2>2 DEF Fetch
<1>5. CASE \E afresh \in BOOLEAN : Answered(afresh)
  BY <1>3, <1>5 DEF Answered, Goto
<1>6. CASE ResumeRefused
  BY <1>6, IdleHolds DEF ResumeRefused, ReleaseInv
<1>7. CASE CurlComplete
  BY <1>3, <1>7 DEF CurlComplete, Goto, cache
<1>8. CASE Received
  <2>1. CASE Verified(part[it])
    <3>1. /\ archive' = [archive EXCEPT ![it] = Whole(chosen.pin)] /\ at' = "sidecar"
          /\ UNCHANGED <<server, active, kind, chosen, tree, local>>
      BY <1>8, <2>1 DEF Received, Goto, Verified
    <3>2. archive' \in [Version -> {None} \cup [1..Chunks -> 1..2]]
      BY <1>1, <1>2, <3>1 DEF ReleaseInv, CacheOK
    <3>3. CachedIsOneBuild'
      <4>1. SUFFICES ASSUME NEW v \in Version, archive'[v] # None
                     PROVE  \E b \in 1..pins[v] : archive'[v] = Whole(b)
        BY <3>1 DEF CachedIsOneBuild, server, Whole
      <4>2. CASE v = it
        BY <1>1, <3>1, <4>2 DEF ReleaseInv, CacheOK
      <4>3. CASE v # it
        BY <3>1, <4>1, <4>3 DEF ReleaseInv, CacheOK, CachedIsOneBuild
      <4> QED BY <4>2, <4>3
    <3>4. LocalOK' /\ CommandOK'
      BY <3>1 DEF ReleaseInv, LocalOK, CommandOK, Usable, Pinned, server
    <3> QED BY <3>1, <3>2, <3>3, <3>4, CommandMoves DEF CacheOK
  <2>2. CASE ~Verified(part[it])
    BY <1>8, <2>2, IdleHolds DEF Received, ReleaseInv
  <2> QED BY <2>1, <2>2
<1>9. CASE \E written \in BOOLEAN : WriteSidecar(written)
  BY <1>3, <1>9 DEF WriteSidecar, Goto, AfterFetch
<1>10. CASE Ready
  BY <1>10, IdleHolds DEF Ready, ReleaseInv, cache
<1>11. CASE Chunk
  BY <1>3, <1>11 DEF Chunk, command
<1>12. CASE Short
  BY <1>12, IdleHolds DEF Short, ReleaseInv
<1>13. CASE Unpack
  <2>1. /\ archive[it] = Whole(chosen.pin) /\ at' = "depend"
        /\ UNCHANGED <<server, archive, active, kind, chosen, tree, local>>
    BY <1>13 DEF Unpack, Verified, Goto, cache
  <2>2. CacheOK' /\ LocalOK'
    BY <2>1 DEF ReleaseInv, CacheOK, CachedIsOneBuild, LocalOK, Usable, Pinned, server
  <2>3. CommandOK'
    BY <2>1 DEF ReleaseInv, CommandOK, Usable, Pinned, server, it, Whole
  <2> QED BY <2>1, <2>2, <2>3, CommandMoves
<1> QED BY <1>4, <1>5, <1>6, <1>7, <1>8, <1>9, <1>10, <1>11, <1>12, <1>13 DEF Download

\* The dependency tree: a failure keeps what there is, and the mark comes last.
LEMMA DependenciesHold ==
  ASSUME ReleaseInv, Dependencies
  PROVE  ReleaseInv'
<1>1. ASSUME NEW done, Kept(done), Complete(done), UNCHANGED server
      PROVE  local' = local \/ Usable'
  <2>1. CASE kind = "from"
    <3>1. Usable /\ local' = [local EXCEPT !.tree = done]
      BY <1>1, <2>1 DEF ReleaseInv, CommandOK, Kept
    <3>2. /\ local' \in Packages /\ local'.version = local.version /\ local'.pin = local.pin
          /\ local'.tree = done
      BY <1>1, <3>1 DEF Usable, Packages, Complete
    <3> QED BY <1>1, <3>1, <3>2 DEF Usable, Pinned, server
  <2> QED BY <1>1, <2>1 DEF Kept
<1> DEFINE phases == {"depend", "npm", "patch", "trim", "pack", "mark"}
\* What a step owes, when it goes on to the next phase with what it made.
<1>2. ASSUME NEW done, Tree(done), Complete(done), at \in phases, at' \in phases \cup {"activate"},
             at' = "patch" => done = {"modules"},
             at' = "trim" => done = {"modules", "patched"},
             at' = "mark" => done = {"modules", "patched", "trimmed"},
             at' = "activate" => done = Stage
      PROVE  ReleaseInv'
  <2>1. tree' = done /\ UNCHANGED <<server, archive, active, kind, chosen>>
    BY <1>2 DEF Tree, cache
  <2>2. local' = local \/ Usable'
    BY <1>1, <1>2, <2>1 DEF Tree
  <2>3. CacheOK' /\ LocalOK'
    BY <2>1, <2>2 DEF ReleaseInv, CacheOK, CachedIsOneBuild, LocalOK, Usable, Pinned, server
  <2>4. kind' = "from" => Usable'
    BY <2>1, <2>2 DEF ReleaseInv, CommandOK, Usable, Pinned, server
  <2>5. CommandOK'
    BY <1>2, <2>1, <2>4 DEF ReleaseInv, CommandOK, Pinned, server, it
  <2> QED BY <2>1, <2>3, <2>5, CommandMoves
<1>3. ASSUME Idle, UNCHANGED <<server, cache, active>>, local' = local \/ Usable' PROVE ReleaseInv'
  BY <1>3, IdleHolds DEF cache
<1>4. Complete(tree)
  BY DEF ReleaseInv, CommandOK
<1> USE DEF Goto
<1>5. CASE Present
  BY <1>2, <1>4, <1>5 DEF Present, Complete
<1>6. CASE NoLock \/ NoPack
  BY <1>3, <1>6 DEF NoLock, NoPack, Fails
<1>7. CASE FetchLock
  BY <1>2, <1>7 DEF FetchLock, Complete
<1>8. CASE Npm
  BY <1>2, <1>8 DEF Npm, Complete, Stage
<1>9. CASE \E left \in {{}, {"modules"}} : NpmFails(left)
  BY <1>2, <1>9 DEF NpmFails, Complete, Stage
<1>10. CASE Patch
  <2>1. tree \cup {"patched"} = {"modules", "patched"}
    BY <1>10 DEF Patch, ReleaseInv, CommandOK
  <2> QED BY <1>2, <1>10, <2>1 DEF Patch, Complete, Stage
<1>11. CASE Trim
  <2>1. tree \cup {"trimmed"} = {"modules", "patched", "trimmed"}
    BY <1>11 DEF Trim, ReleaseInv, CommandOK
  <2> QED BY <1>2, <1>11, <2>1 DEF Trim, Complete, Stage
<1>12. CASE Pack
  BY <1>2, <1>12 DEF Pack, Complete, Stage
<1>13. CASE PackFails
  <2>1. Complete({"modules"})
    BY DEF Complete, Stage
  <2> QED BY <1>1, <1>3, <1>13, <2>1 DEF PackFails
<1>14. CASE Mark
  <2>1. tree \cup {"marker"} = Stage
    BY <1>14 DEF Mark, ReleaseInv, CommandOK, Stage
  <2> QED BY <1>2, <1>14, <2>1 DEF Mark, Complete
<1> QED BY <1>5, <1>6, <1>7, <1>8, <1>9, <1>10, <1>11, <1>12, <1>13, <1>14 DEF Dependencies

\* Activation takes what the phases before it have made; pruning only removes.
LEMMA FinishHolds ==
  ASSUME ReleaseInv, Finish
  PROVE  ReleaseInv'
<1>1. CASE Activate
  <2>1. /\ at = "activate" /\ at' = "prune"
        /\ active' = [version |-> it, tree |-> tree,
                      bytes |-> IF kind = "from" THEN Whole(chosen.pin) ELSE archive[it]]
        /\ UNCHANGED <<server, archive, kind, chosen, tree, local>>
    BY <1>1 DEF Activate, Goto, cache
  <2>2. tree = Stage /\ Pinned(it, chosen.pin) /\ (kind # "from" => archive[it] = Whole(chosen.pin))
    BY <2>1 DEF ReleaseInv, CommandOK, it
  <2>3. active'.version = it /\ active'.tree = Stage /\ active'.bytes = Whole(chosen.pin)
    BY <2>1, <2>2
  <2>4. ActiveOK'
    BY <2>1, <2>2, <2>3 DEF ActiveOK, InstalledIsWhole, Pinned, server, Whole
  <2>5. ServerOK' /\ CacheOK' /\ LocalOK'
    BY <2>1 DEF ReleaseInv, ServerOK, CacheOK, CachedIsOneBuild, LocalOK, Usable, Pinned, server
  <2>6. CommandOK'
    BY <2>1 DEF ReleaseInv, CommandOK, Usable, Pinned, server
  <2> QED BY <2>4, <2>5, <2>6 DEF ReleaseInv
<1>2. ASSUME NEW v \in Version, PruneCached(v) PROVE ReleaseInv'
  <2>1. /\ at = "prune" /\ archive' = [archive EXCEPT ![v] = None]
        /\ UNCHANGED <<server, active, at, kind, chosen, tree, local>>
    BY <1>2 DEF PruneCached, command
  <2>2. CacheOK'
    BY <2>1 DEF ReleaseInv, CacheOK, CachedIsOneBuild, server
  <2>3. LocalOK' /\ CommandOK'
    BY <2>1 DEF ReleaseInv, LocalOK, CommandOK, Usable, Pinned, server
  <2> QED BY <2>1, <2>2, <2>3, CommandMoves
<1>3. CASE PruneEnds
  <2>1. /\ at' = "done" /\ UNCHANGED <<server, archive, active, kind, chosen, tree, local>>
    BY <1>3 DEF PruneEnds, Goto
  <2>2. CacheOK' /\ LocalOK' /\ CommandOK'
    BY <2>1 DEF ReleaseInv, CacheOK, CachedIsOneBuild, LocalOK, CommandOK, Usable, Pinned, server
  <2> QED BY <2>1, <2>2, CommandMoves
<1>4. CASE Report
  BY <1>4, IdleHolds DEF Report, cache
<1> QED BY <1>1, <1>2, <1>3, <1>4 DEF Finish

\* What begins a command, and the helper, which only takes the installation away.
LEMMA BeginningHolds ==
  ASSUME ReleaseInv,
         \/ \E k \in {"update", "download"}, v \in Version : Start(k, v)
         \/ Unpacked \/ \E lock, pack \in BOOLEAN : StartFrom(lock, pack)
         \/ Schedule \/ Removal \/ HelperDies
  PROVE  ReleaseInv'
<1>1. ASSUME NEW k \in {"update", "download"}, NEW v \in Version, Start(k, v) PROVE ReleaseInv'
  <2>1. /\ kind' = k /\ at' = "select" /\ UNCHANGED <<server, archive, active, chosen, tree, local>>
    BY <1>1 DEF Start, cache
  <2>2. CacheOK' /\ LocalOK' /\ CommandOK'
    BY <2>1 DEF ReleaseInv, CacheOK, CachedIsOneBuild, LocalOK, CommandOK, Usable, Pinned, server
  <2> QED BY <2>1, <2>2, CommandMoves
<1>2. CASE Unpacked
  <2>1. /\ at = "idle" /\ local' = [version |-> stable, pin |-> pins[stable], tree |-> {}]
        /\ UNCHANGED <<server, archive, active, at, kind, chosen, tree>>
    BY <1>2 DEF Unpacked, cache, command
  <2>2. Usable'
    BY <2>1 DEF ReleaseInv, ServerOK, Usable, Pinned, Packages, Complete, server
  <2>3. CacheOK' /\ LocalOK'
    BY <2>1, <2>2 DEF ReleaseInv, CacheOK, CachedIsOneBuild, LocalOK, server
  <2>4. CommandOK'
    BY <2>1, <2>2 DEF ReleaseInv, CommandOK, Pinned, server
  <2> QED BY <2>1, <2>3, <2>4, CommandMoves
<1>3. ASSUME NEW lock \in BOOLEAN, NEW pack \in BOOLEAN, StartFrom(lock, pack) PROVE ReleaseInv'
  <2>1. /\ kind' = "from" /\ at' = "depend" /\ local # None /\ tree' = local.tree
        /\ chosen' = [version |-> local.version, pin |-> local.pin, lock |-> lock, pack |-> pack]
        /\ UNCHANGED <<server, archive, active, local>>
    BY <1>3 DEF StartFrom, cache
  <2>2. Usable
    BY <2>1 DEF ReleaseInv, LocalOK
  <2>3. CacheOK' /\ LocalOK'
    BY <2>1 DEF ReleaseInv, CacheOK, CachedIsOneBuild, LocalOK, Usable, Pinned, server
  <2>4. CommandOK'
    BY <2>1, <2>2 DEF CommandOK, Usable, Pinned, server
  <2> QED BY <2>1, <2>3, <2>4, CommandMoves
<1>4. CASE Schedule \/ Removal \/ HelperDies
  <2>1. active' \in {active, None} /\ UNCHANGED <<server, archive, at, kind, chosen, tree, local>>
    BY <1>4 DEF Schedule, Removal, HelperRemoves, HelperFails, HelperEnds, HelperDies, cache, command
  <2>2. ServerOK' /\ CacheOK' /\ LocalOK'
    BY <2>1 DEF ReleaseInv, ServerOK, CacheOK, CachedIsOneBuild, LocalOK, Usable, Pinned, server
  <2>3. CommandOK'
    BY <2>1 DEF ReleaseInv, CommandOK, Usable, Pinned, server, it
  <2>4. ActiveOK'
    BY <2>1 DEF ReleaseInv, ActiveOK, InstalledIsWhole, server
  <2> QED BY <2>2, <2>3, <2>4 DEF ReleaseInv
<1> QED BY <1>1, <1>2, <1>3, <1>4

LEMMA ReleaseHolds == ReleaseInv /\ [ReleasesNext]_releases => ReleaseInv'
<1> SUFFICES ASSUME ReleaseInv, [ReleasesNext]_releases PROVE ReleaseInv'
  OBVIOUS
<1>1. CASE UNCHANGED releases
  <2>1. UNCHANGED <<server, archive, active, at, kind, chosen, tree, local>>
    BY <1>1 DEF releases, cache, command
  <2>2. CacheOK' /\ LocalOK' /\ CommandOK'
    BY <2>1 DEF ReleaseInv, CacheOK, CachedIsOneBuild, LocalOK, CommandOK, Usable, Pinned, server, it
  <2> QED BY <2>1, <2>2, CommandMoves
<1>2. CASE Fails \/ Stalled \/ Unreachable
  BY <1>2, IdleHolds DEF Fails, Stalled, Unreachable, cache
<1>3. CASE Command
  BY <1>2, <1>3, SelectHolds, DownloadHolds, DependenciesHold, FinishHolds DEF Command
<1> QED BY <1>1, <1>2, <1>3, PublisherHolds, DownloadHolds, BeginningHolds DEF ReleasesNext

\* Whatever the network, the publisher and the user do, and wherever a command fails: an
\* archive in the cache is one build that the index named, and so is what is installed,
\* with a dependency tree that lacks nothing (downloadArchive, ensureRuntimeDependencies).
THEOREM ReleasesAreWhole == Spec => []ReleaseIsWhole
<1>1. Init => ReleaseInv
  BY ReleaseStarts DEF Init
<1>2. ReleaseInv /\ [Next]_vars => ReleaseInv'
  BY SideSteps, ReleaseHolds
<1>3. ReleaseInv => ReleaseIsWhole
  BY DEF ReleaseInv, CacheOK, ActiveOK, ReleaseIsWhole
<1> QED BY <1>1, <1>2, <1>3, PTL DEF Spec

\* No command is under way while a removal is reserved.
ReservedInv == removal = "reserved" => at = "idle"

LEMMA ReservedHolds ==
  ASSUME ReservedInv, [ReleasesNext]_releases
  PROVE  /\ ReservedInv'
         /\ removal = "reserved" /\ removal' = "reserved" => active' = active \/ active' = None
<1>1. CASE UNCHANGED releases
  BY <1>1 DEF releases, command, removing, ReservedInv
<1>2. CASE \E v \in Version : Upload(v) \/ Promote(v)
  BY <1>2 DEF Upload, Promote, command, removing, ReservedInv
<1>3. CASE \/ \E k \in {"update", "download"}, v \in Version : Start(k, v)
           \/ \E lock, pack \in BOOLEAN : StartFrom(lock, pack)
  BY <1>3 DEF Start, StartFrom, Unreserved, removing, ReservedInv
<1>4. CASE Unpacked \/ Schedule \/ Removal \/ HelperDies
  BY <1>4 DEF Unpacked, Schedule, Removal, HelperRemoves, HelperFails, HelperEnds, HelperDies,
              command, removing, ReservedInv
<1>5. ASSUME at # "idle", UNCHANGED removing
      PROVE  /\ ReservedInv'
             /\ removal = "reserved" /\ removal' = "reserved" => active' = active \/ active' = None
  BY <1>5 DEF removing, ReservedInv
<1>6. CASE Command \/ Chunk \/ Short \/ Fails
  <2>1. CASE Download \/ Chunk \/ Short \/ Unpack
    BY <1>5, <2>1 DEF Download, Chunk, Short, Unpack, Fetch, ResumeRefused, CurlComplete, Received,
       Ready, Answered, WriteSidecar, removing
  <2>2. CASE Fails \/ Stalled \/ Unreachable \/ \E reachable, pack \in BOOLEAN : Select(reachable, pack)
    BY <1>5, <2>2 DEF Fails, Stalled, Unreachable, Select, removing
  <2>3. CASE Dependencies
    BY <1>5, <2>3 DEF Dependencies, Present, NoLock, Fails, FetchLock, Npm, NpmFails, Patch, Trim, Pack,
       PackFails, NoPack, Mark, Tree, removing
  <2>4. CASE Finish
    BY <1>5, <2>4 DEF Finish, Activate, PruneCached, PruneEnds, Report, removing
  <2> QED BY <1>6, <2>1, <2>2, <2>3, <2>4 DEF Command
<1> QED BY <1>1, <1>2, <1>3, <1>4, <1>6 DEF ReleasesNext

\* From the reservation of a deferred removal until its end no command brings another
\* installation under the helper (commands.ts, the look for removal.json).
THEOREM RemovalIsAlone == Spec => ReservationHolds
<1>1. Init => ReservedInv
  BY DEF Init, ReleasesInit, ReservedInv
<1>2. ReservedInv /\ [Next]_vars => ReservedInv'
  BY SideSteps, ReservedHolds
<1>3. ReservedInv /\ [Next]_vars
         => [removal = "reserved" /\ removal' = "reserved" => active' = active \/ active' = None]_releases
  BY SideSteps, ReservedHolds
<1> QED BY <1>1, <1>2, <1>3, PTL DEF Spec, ReservationHolds
=============================================================================
