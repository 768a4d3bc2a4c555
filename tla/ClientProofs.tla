---------------------------- MODULE ClientProofs ----------------------------
(***************************************************************************)
(* Theorems about the programs of MCClient: the installation script, for   *)
(* any releases and builds of Node.js and archives of any length; windows  *)
(* and the client without a terminal, for any number of plugins, requests  *)
(* and lines; and the plugin directory, for any number of processes.       *)
(***************************************************************************)
EXTENDS MCClient, SequenceTheorems, TLAPS

-----------------------------------------------------------------------------
\* One program steps at a time.
LEMMA ProgramSteps ==
  ASSUME [Next]_vars
  PROVE  /\ [InstallerNext]_installer /\ [StartupNext]_startup
         /\ [PlainNext]_plain /\ [D!DirectoryNext]_directory
BY DEF Next, vars

-----------------------------------------------------------------------------
(* The installation script.                                                *)

\* From the first file of a Node.js build on until its entry script is linked there is no
\* entry; what CURRENT names and what is linked is whole.
InstallerInv ==
    /\ unpacked \in [Node -> {"none", "partly", "whole"}]
    /\ "node" \in entry => current # "none"
    /\ NodeRuns /\ UnpacksVerified
    /\ script \in {"tar", "point", "clear"} => "node" \notin entry /\ fetching \in Node
    /\ script \in {"point", "clear"} => unpacked[fetching] = "whole"
    /\ script = "clear" => current = fetching
    /\ script = "npm" => "node" \in entry

LEMMA InstallerStarts == InstallerInit => InstallerInv
BY DEF InstallerInit, InstallerInv, NodeRuns, node_bin_root, UnpacksVerified

\* A step that does not touch Node.js and begins no phase of its installation.
LEMMA NodeStays ==
  ASSUME InstallerInv, UNCHANGED <<unpacked, current, entry>>, UnpacksVerified',
         \/ UNCHANGED <<script, fetching>>
         \/ script' \notin {"tar", "point", "clear", "npm"}
  PROVE  InstallerInv'
BY DEF InstallerInv, NodeRuns, node_bin_root

LEMMA InstallerHolds ==
  ASSUME InstallerInv, [InstallerNext]_installer
  PROVE  InstallerInv'
<1> USE InstallerAssumption DEF Goto
<1>1. CASE UNCHANGED installer
  BY <1>1, NodeStays DEF installer, nodeVars, InstallerInv, UnpacksVerified
<1>2. CASE Exit /\ UNCHANGED <<unpacked, current, entry>>
  BY <1>2, NodeStays DEF Exit, UnpacksVerified
<1>3. CASE Stops \/ DownloadFails \/ \E machine \in BOOLEAN : release_command(machine)
  BY <1>2, <1>3 DEF Stops, DownloadFails, release_command
<1>4. CASE (\E v \in Release : Run(v)) \/ \E v \in Release \cup {0} : Elsewhere(v)
  BY <1>4, NodeStays DEF Run, Elsewhere, nodeVars, InstallerInv, UnpacksVerified
<1>5. CASE \E there \in BOOLEAN : check_installed(there) \/ check_node(there)
  <2>1. CASE \E command \in BOOLEAN : check_installed(command)
    <3>1. \/ Exit /\ UNCHANGED <<unpacked, current, entry>>
          \/ script' = "node" /\ UNCHANGED <<unpacked, current, entry>>
      BY <2>1 DEF check_installed, nodeVars
    <3> QED BY <1>2, <3>1, NodeStays DEF UnpacksVerified
  <2>2. CASE \E usable \in BOOLEAN : check_node(usable)
    BY <2>2, NodeStays DEF check_node, nodeVars, UnpacksVerified
  <2> QED BY <1>5, <2>1, <2>2
<1>6. ASSUME NEW n \in Node, install_node(n) PROVE InstallerInv'
  BY <1>6 DEF install_node, InstallerInv, NodeRuns, node_bin_root, UnpacksVerified
<1>7. CASE Untarred
  BY <1>7 DEF Untarred, InstallerInv, NodeRuns, node_bin_root, UnpacksVerified
<1>8. CASE Point
  BY <1>8 DEF Point, InstallerInv, NodeRuns, node_bin_root, UnpacksVerified
<1>9. ASSUME NEW n \in Node, ClearBuild(n) PROVE InstallerInv'
  BY <1>9 DEF ClearBuild, Others, InstallerInv, NodeRuns, node_bin_root, UnpacksVerified
<1>10. CASE ClearEntry
  BY <1>10 DEF ClearEntry, InstallerInv, NodeRuns, node_bin_root, UnpacksVerified
<1>11. CASE Link
  BY <1>11 DEF Link, InstallerInv, NodeRuns, node_bin_root, UnpacksVerified
<1>12. CASE download
  <2>1. PICK b \in {1, 2}, n \in 0..Chunks, afresh \in BOOLEAN : Transferred(b, n, afresh)
    BY <1>12 DEF download
  <2>2. \/ script' = "unpack" /\ work' = Whole
        \/ script' = "download"
    BY <1>12, <2>1 DEF download, Transferred, Matches
  <2>3. UnpacksVerified' /\ UNCHANGED <<unpacked, current, entry>>
    BY <1>12, <2>2 DEF download, nodeVars, UnpacksVerified, Whole
  <2> QED BY <2>2, <2>3, NodeStays
<1> QED BY <1>1, <1>3, <1>4, <1>5, <1>6, <1>7, <1>8, <1>9, <1>10, <1>11, <1>12
        DEF InstallerNext, Script

\* However many installations were killed before, and whatever two sources sent: a
\* Node.js that is trusted without running it is whole, and only an archive with the
\* script's digest is unpacked (install.sh: install_node_standalone, download).
THEOREM InstallsWhole == Spec => []InstallsWhatWasChecked
<1>1. Init => InstallerInv
  BY InstallerStarts DEF Init
<1>2. InstallerInv /\ [Next]_vars => InstallerInv'
  BY ProgramSteps, InstallerHolds
<1>3. InstallerInv => InstallsWhatWasChecked
  BY DEF InstallerInv, InstallsWhatWasChecked
<1> QED BY <1>1, <1>2, <1>3, PTL DEF Spec

-----------------------------------------------------------------------------
(* A window from its start to its exit.                                    *)

\* Requests to quit, and installations, wait in a window that is up; only a shutdown
\* that has begun starts a successor.
ShutdownInv ==
    /\ stage \in {"off", "plugins", "ready", "bootstrap", "running"}
    /\ exit \in {"no", "backend", "kernel", "gone"}
    /\ leaving \in Nat /\ updating \in BOOLEAN /\ wanted \in BOOLEAN
    /\ successors \in {0, 1} /\ (exit = "no" => successors = 0) /\ (successors = 1 => wanted)
    /\ stage = "plugins" => exit = "no"
    /\ stage = "plugins" \/ (stage = "off" /\ exit = "no") => leaving = 0 /\ ~updating

\* The loader has left every plugin once the window is up, and the teardown of each that is
\* active is known until the context is disposed.
Settled == \A q \in Plugin : loaded[q] \in {"active", "failed"}
PluginsInv ==
    /\ loaded \in [Plugin -> {"waiting", "importing", "activating", "active", "failed"}]
    /\ stage \in {"ready", "bootstrap", "running"} \/ exit # "no" => Settled
    /\ exit # "gone" => \A q \in Plugin : loaded[q] = "active" => q \in teardowns
    /\ pending \subseteq Plugin /\ seats \subseteq Plugin /\ left \subseteq Plugin
    /\ TornDown

\* A reminder is given in a transcript that is there.
ReminderInv ==
    /\ opens \in 0..2 /\ (session => opens # 0)
    /\ announced => session
    /\ ReminderSeen

WindowInv == ShutdownInv /\ PluginsInv /\ ReminderInv

LEMMA WindowStarts == StartupInit => WindowInv
<1> SUFFICES ASSUME StartupInit PROVE WindowInv
  OBVIOUS
<1>1. ShutdownInv
  <2>1. ~updating /\ updating \in BOOLEAN /\ wanted \in BOOLEAN
    BY Zenon DEF StartupInit
  <2> QED BY <2>1 DEF StartupInit, ShutdownInv
<1>2. PluginsInv
  BY DEF StartupInit, PluginsInv, Settled, TornDown
<1>3. ReminderInv
  BY DEF StartupInit, ReminderInv, ReminderSeen
<1> QED BY <1>1, <1>2, <1>3 DEF WindowInv

LEMMA ResetHolds == ASSUME Reset PROVE WindowInv'
<1>1. ShutdownInv'
  <2>1. ~updating' /\ updating' \in BOOLEAN /\ wanted' \in BOOLEAN
    BY Zenon DEF Reset
  <2> QED BY <2>1 DEF Reset, ShutdownInv
<1>2. PluginsInv'
  BY DEF Reset, Disposed, PluginsInv, Settled, TornDown
<1>3. ReminderInv'
  BY DEF Reset, ReminderInv, ReminderSeen
<1> QED BY <1>1, <1>2, <1>3 DEF WindowInv

\* The loader and the code of the plugins.
LEMMA PluginHolds ==
  ASSUME WindowInv, NEW q \in Plugin,
         Load(q) \/ Register(q) \/ Settle(q) \/ Throws(q) \/ TimesOut(q) \/ RenderFails(q)
  PROVE  WindowInv'
<1> USE DEF WindowInv
<1>1. UNCHANGED <<stage, session, opens, closing, reminder>>
  BY DEF Load, Import, ImportFails, Activate, Register, Settle, Throws, TimesOut, RenderFails
<1>2. ShutdownInv' /\ ReminderInv'
  BY <1>1 DEF closing, reminder, ShutdownInv, ReminderInv, ReminderSeen
<1>3. CASE Load(q)
  <2>1. stage = "plugins" /\ exit = "no" /\ UNCHANGED <<stage, exit, seats, left, teardowns>>
    BY <1>3 DEF Load, Import, ImportFails, Activate, Turn, ShutdownInv, closing
  <2>2. \E to \in {"importing", "failed", "activating"} : loaded' = [loaded EXCEPT ![q] = to]
    BY <1>3 DEF Load, Import, ImportFails, Activate
  <2>3. pending' \subseteq Plugin
    BY <1>3 DEF Load, Import, ImportFails, Activate, PluginsInv
  <2> QED BY <1>2, <2>1, <2>2, <2>3 DEF PluginsInv, TornDown
<1>4. CASE Register(q)
  BY <1>2, <1>4 DEF Register, PluginsInv, Settled, TornDown, closing
<1>5. CASE Settle(q)
  BY <1>2, <1>5 DEF Settle, PluginsInv, Settled, TornDown, closing
<1>6. CASE Throws(q)
  BY <1>2, <1>6 DEF Throws, PluginsInv, Settled, TornDown, closing
<1>7. CASE TimesOut(q)
  BY <1>2, <1>7 DEF TimesOut, PluginsInv, Settled, TornDown, closing
<1>8. CASE RenderFails(q)
  BY <1>2, <1>8 DEF RenderFails, PluginsInv, Settled, TornDown, closing
<1> QED BY <1>3, <1>4, <1>5, <1>6, <1>7, <1>8

\* The requests to quit, the shutdown, and the installation of an update.
LEMMA QuitHolds ==
  ASSUME WindowInv,
         \/ requestShutdown \/ Left \/ Stay \/ BackendClosed \/ Exits
         \/ InstallUpdate \/ Installed \/ InstallFails
  PROVE  WindowInv'
<1> USE DEF WindowInv
<1>1. ShutdownInv'
  <2>1. CASE requestShutdown
    BY <2>1 DEF requestShutdown, Closing, ShutdownInv
  <2>2. CASE Left
    BY <2>2 DEF Left, Shutdown, Closing, ShutdownInv
  <2>3. CASE Stay
    BY <2>3 DEF Stay, ShutdownInv
  <2>4. CASE BackendClosed \/ Exits
    BY <2>4 DEF BackendClosed, Exits, ShutdownInv
  <2>5. CASE InstallUpdate
    BY <2>5 DEF InstallUpdate, Closing, ShutdownInv
  <2>6. CASE Installed
    <3>1. ~updating' /\ updating' \in BOOLEAN /\ wanted' \in BOOLEAN /\ wanted'
      BY <2>6, Zenon DEF Installed
    <3> QED BY <2>6, <3>1 DEF Installed, Closing, ShutdownInv
  <2>7. CASE InstallFails
    BY <2>7 DEF InstallFails, ShutdownInv
  <2> QED BY <2>1, <2>2, <2>3, <2>4, <2>5, <2>6, <2>7
<1>2. ReminderInv'
  BY DEF requestShutdown, Left, Stay, BackendClosed, Exits, InstallUpdate, Installed, InstallFails,
         reminder, ReminderInv, ReminderSeen
<1>3. CASE Exits
  BY <1>1, <1>2, <1>3 DEF Exits, Disposed, ShutdownInv, PluginsInv, Settled, TornDown
<1>4. CASE ~Exits
  <2>1. UNCHANGED <<stage, plugins>> /\ (exit' = "gone" <=> exit = "gone")
    BY <1>4 DEF requestShutdown, Left, Stay, Shutdown, Closing, BackendClosed, InstallUpdate, Installed,
         InstallFails, ShutdownInv
  <2>2. exit' # "no" => exit # "no" \/ stage \in {"ready", "bootstrap", "running"}
    BY <1>4 DEF requestShutdown, Left, Stay, Shutdown, Closing, BackendClosed, InstallUpdate, Installed,
         InstallFails, ShutdownInv
  <2> QED BY <1>1, <1>2, <2>1, <2>2 DEF plugins, PluginsInv, Settled, TornDown
<1> QED BY <1>3, <1>4

\* The start, the first Session, and the check that reminds of a release.
LEMMA StartHolds ==
  ASSUME WindowInv, (\E v \in 1..Newest : Launch(v)) \/ Boot \/ Remind \/ Reopen \/ Publish \/ Tick
  PROVE  WindowInv'
<1> USE DEF WindowInv
<1>1. ShutdownInv'
  BY DEF Launch, Boot, Frame, Ready, Open, BootFails, Booted, Shutdown, Closing, Remind, ReadCache,
         IndexAnswers, NoAnswer, Reopen, Publish, Tick, closing, ShutdownInv
<1>2. ReminderInv'
  BY DEF Launch, Boot, Frame, Ready, Open, Opened, BootFails, Booted, Announce, Offer, Remind, ReadCache,
         IndexAnswers, NoAnswer, Reopen, Publish, Tick, reminder, ReminderInv, ReminderSeen
<1>3. UNCHANGED plugins /\ (exit' = "gone" <=> exit = "gone")
  BY DEF Launch, Boot, Frame, Ready, Open, BootFails, Booted, Shutdown, Closing, Remind, ReadCache,
         IndexAnswers, NoAnswer, Reopen, Publish, Tick, closing
<1>4. stage' \in {"ready", "bootstrap", "running"} \/ exit' # "no" => Settled
  BY DEF Launch, Boot, Frame, Ready, Open, BootFails, Booted, Shutdown, Closing, Remind, ReadCache,
         IndexAnswers, NoAnswer, Reopen, Publish, Tick, closing, PluginsInv, Settled
<1> QED BY <1>1, <1>2, <1>3, <1>4 DEF plugins, PluginsInv, Settled, TornDown

LEMMA WindowHolds ==
  ASSUME WindowInv, [StartupNext]_startup
  PROVE  WindowInv'
<1>1. CASE UNCHANGED startup
  <2>1. UNCHANGED <<stage, plugins, session, opens, closing, reminder>>
    BY <1>1 DEF startup
  <2>2. ShutdownInv'
    BY <2>1 DEF WindowInv, ShutdownInv, closing
  <2>3. PluginsInv'
    BY <2>1 DEF WindowInv, PluginsInv, Settled, TornDown, plugins, closing
  <2>4. ReminderInv'
    BY <2>1 DEF WindowInv, ReminderInv, ReminderSeen, reminder
  <2> QED BY <2>2, <2>3, <2>4 DEF WindowInv
<1>2. CASE Crash \/ Clear
  BY <1>2, ResetHolds DEF Crash, Clear
<1>3. CASE \E q \in Plugin :
              Load(q) \/ Register(q) \/ Settle(q) \/ Throws(q) \/ TimesOut(q) \/ RenderFails(q)
  BY <1>3, PluginHolds
<1> QED BY <1>1, <1>2, <1>3, QuitHolds, StartHolds DEF StartupNext, Close

-----------------------------------------------------------------------------
(* The client without a terminal.                                          *)

\* Lines are counted: the next one has had no use.
PlainInv ==
    /\ line \in Nat
    /\ prompts \subseteq 1..line
    /\ answered \in [Request -> 0..line]
    /\ OneUse

LEMMA PlainStarts == PlainInit => PlainInv
BY DEF PlainInit, PlainInv, OneUse

LEMMA PlainHolds ==
  ASSUME PlainInv, [PlainNext]_plain
  PROVE  PlainInv'
<1>1. CASE UNCHANGED <<line, prompts, answered>>
  BY <1>1 DEF PlainInv, OneUse
<1>2. ASSUME NEW typed \in {"y", "n", "other", "quit"}, Line(typed) PROVE PlainInv'
  <2>1. line' = line + 1 /\ line' \in Nat
    BY <1>2 DEF Line, PlainInv
  <2>2. CASE Answers(typed)
    <3>1. answered' = [answered EXCEPT ![asking] = line + 1] /\ prompts' = prompts
      BY <2>2 DEF Answers
    <3>2. prompts' \subseteq 1..line' /\ answered' \in [Request -> 0..line']
      <4>1. /\ line \in Nat /\ 1..line \subseteq 1..line' /\ 0..line \subseteq 0..line'
            /\ line + 1 \in 0..line'
        BY <2>1 DEF PlainInv
      <4> QED BY <3>1, <4>1 DEF PlainInv
    <3>3. \A i \in Request : answered'[i] = answered[i] \/ (i = asking /\ answered'[i] = line + 1)
      BY <3>1 DEF PlainInv
    <3>4. \A i \in Request : answered[i] \in 0..line /\ answered[i] # line + 1
      BY DEF PlainInv
    <3>5. line + 1 \notin prompts
      BY DEF PlainInv
    <3>6. OneUse'
      BY <3>1, <3>3, <3>4, <3>5 DEF PlainInv, OneUse
    <3> QED BY <2>1, <3>2, <3>6 DEF PlainInv
  <2>3. CASE Prompts(typed) \/ Unheard
    <3>1. answered' = answered /\ prompts' \subseteq prompts \cup {line + 1}
      BY <2>3 DEF Prompts, Unheard
    <3>2. prompts' \subseteq 1..line' /\ answered' \in [Request -> 0..line']
      <4>1. line \in Nat /\ 1..line \cup {line + 1} \subseteq 1..line' /\ 0..line \subseteq 0..line'
        BY <2>1 DEF PlainInv
      <4> QED BY <3>1, <4>1 DEF PlainInv
    <3>3. \A i \in Request : answered[i] # line + 1
      BY DEF PlainInv
    <3>4. OneUse'
      BY <3>1, <3>3 DEF PlainInv, OneUse
    <3> QED BY <2>1, <3>2, <3>4 DEF PlainInv
  <2> QED BY <1>2, <2>2, <2>3 DEF Line
<1>3. CASE \/ UNCHANGED plain \/ (\E i \in Request : onApproval(i)) \/ Eof \/ Listen \/ Done
  BY <1>1, <1>3 DEF plain, onApproval, Eof, Listen, Done
<1> QED BY <1>2, <1>3 DEF PlainNext

\* Whatever is typed, asked, tried and killed in whichever order: a line is one answer, a
\* reminder is given in the transcript it is spent on, one client takes the terminal over,
\* and a process exits after the teardown of every active plugin (app.ts).
THEOREM EverythingOnce == Spec => []OnceEach
<1>1. Init => WindowInv /\ PlainInv
  BY WindowStarts, PlainStarts DEF Init
<1>2. WindowInv /\ PlainInv /\ [Next]_vars => WindowInv' /\ PlainInv'
  BY ProgramSteps, WindowHolds, PlainHolds
<1>3. WindowInv => ReminderSeen /\ OneSuccessor /\ TornDown
  BY DEF WindowInv, ShutdownInv, PluginsInv, ReminderInv, OneSuccessor
<1>4. WindowInv /\ PlainInv => OnceEach
  BY <1>3 DEF PlainInv, OnceEach
<1> QED BY <1>1, <1>2, <1>4, PTL DEF Spec

-----------------------------------------------------------------------------
(* What the check of a newer release offers.                               *)

\* The stable releases of the ticks before, none newer than the one after it; a result of
\* the check is at least as new as the one that was stable a tick before it was kept.
CacheInv ==
    /\ stable \in [1..TTL + 1 -> Nat] /\ runs \in Nat
    /\ \A i, j \in 1..TTL + 1 : i <= j => stable[i] >= stable[j]
    /\ cached # None =>
         /\ cached \in [version : Nat, age : 0..TTL]
         /\ cached.age < TTL => cached.version >= stable[cached.age + 2]

LEMMA CacheStarts == StartupInit => CacheInv
BY StartupAssumption DEF StartupInit, CacheInv

LEMMA CacheHolds ==
  ASSUME CacheInv, [StartupNext]_startup
  PROVE  CacheInv'
<1> USE StartupAssumption
<1>1. ASSUME UNCHANGED <<stable, cached>>, runs' \in Nat PROVE CacheInv'
  BY <1>1 DEF CacheInv
<1>2. CASE \E v \in 1..Newest : Launch(v)
  BY <1>1, <1>2 DEF Launch, world
<1>3. CASE Crash \/ Clear
  BY <1>1, <1>3 DEF Crash, Clear, Reset, world
<1>4. CASE \/ UNCHANGED startup
           \/ \E q \in Plugin :
                 Load(q) \/ Register(q) \/ Settle(q) \/ Throws(q) \/ TimesOut(q) \/ RenderFails(q)
           \/ Boot \/ Reopen \/ ReadCache \/ NoAnswer \/ BackendClosed \/ Exits
           \/ requestShutdown \/ Left \/ Stay \/ InstallUpdate \/ Installed \/ InstallFails
  <2>1. UNCHANGED <<stable, cached, runs>>
    BY <1>4 DEF startup, world, Load, Import, ImportFails, Activate, Register, Settle, Throws, TimesOut,
       RenderFails, Boot, Frame, Ready, Open, BootFails, Booted, Reopen, ReadCache, NoAnswer, BackendClosed,
       Exits, requestShutdown, Left, Stay, InstallUpdate, Installed, InstallFails
  <2> QED BY <1>1, <2>1 DEF CacheInv
<1>5. CASE IndexAnswers
  <2>1. cached' = [version |-> stable[1], age |-> 0] /\ UNCHANGED <<stable, runs>>
    BY <1>5 DEF IndexAnswers
  <2>2. stable[1] \in Nat /\ stable[1] >= stable[2] /\ 0 \in 0..TTL
    BY DEF CacheInv
  <2> QED BY <2>1, <2>2 DEF CacheInv
<1>6. CASE Publish
  <2>1. stable' = [stable EXCEPT ![1] = @ + 1] /\ UNCHANGED <<cached, runs>>
    BY <1>6 DEF Publish, world
  <2>2. /\ stable' \in [1..TTL + 1 -> Nat] /\ stable'[1] >= stable[1]
        /\ \A i \in 2..TTL + 1 : stable'[i] = stable[i]
    BY <2>1 DEF CacheInv
  <2>3. \A i, j \in 1..TTL + 1 : i <= j => stable'[i] >= stable'[j]
    BY <2>1 DEF CacheInv
  <2> QED BY <2>1, <2>2, <2>3 DEF CacheInv
<1>7. CASE Tick
  <2>1. stable' = <<stable[1]>> \o SubSeq(stable, 1, TTL) /\ runs' = runs
    BY <1>7 DEF Tick
  <2>2. stable \in Seq(Nat) /\ Len(stable) = TTL + 1
    BY DEF CacheInv
  <2>3. /\ stable' \in [1..TTL + 1 -> Nat] /\ stable'[1] = stable[1]
        /\ \A i \in 2..TTL + 1 : stable'[i] = stable[i - 1]
    <3> DEFINE now == <<stable[1]>>
               past == SubSeq(stable, 1, TTL)
    <3>1. now \in Seq(Nat) /\ Len(now) = 1 /\ now[1] = stable[1] /\ stable[1] \in Nat
      BY DEF CacheInv
    <3>2. past \in Seq(Nat) /\ Len(past) = TTL /\ \A i \in 1..TTL : past[i] = stable[i]
      BY <2>2
    <3>3. stable' = now \o past
      BY <2>1
    <3> DEFINE both == now \o past
    <3> HIDE DEF now, past
    <3>4. /\ both \in Seq(Nat) /\ Len(both) = TTL + 1
          /\ \A i \in 1..TTL + 1 : both[i] = IF i <= 1 THEN now[i] ELSE past[i - 1]
      <4>1. /\ now \o past \in Seq(Nat) /\ Len(now \o past) = Len(now) + Len(past)
            /\ \A i \in 1..Len(now) + Len(past) :
                  (now \o past)[i] = IF i <= Len(now) THEN now[i] ELSE past[i - Len(now)]
        BY <3>1, <3>2, ConcatProperties, ZenonT(60)
      <4>2. Len(now) = 1 /\ Len(past) = TTL /\ 1 + TTL = TTL + 1
        BY <3>1, <3>2
      <4> QED BY <4>1, <4>2
    <3>5. both \in [1..TTL + 1 -> Nat]
      BY <3>4, LenProperties
    <3>6. \A i \in 2..TTL + 1 : i \in 1..TTL + 1 /\ ~(i <= 1) /\ i - 1 \in 1..TTL
      OBVIOUS
    <3> HIDE DEF both
    <3>7. \A i \in 2..TTL + 1 : both[i] = stable[i - 1]
      BY <3>2, <3>4, <3>6
    <3>8. both[1] = stable[1]
      BY <3>1, <3>4
    <3>9. stable' = both
      BY <3>3 DEF both
    <3> QED BY <3>5, <3>7, <3>8, <3>9
  <2>4. \A i, j \in 1..TTL + 1 : i <= j => stable'[i] >= stable'[j]
    <3>1. SUFFICES ASSUME NEW i \in 1..TTL + 1, NEW j \in 1..TTL + 1, i <= j
                   PROVE  stable'[i] >= stable'[j]
      OBVIOUS
    <3>2. CASE i = 1 /\ j = 1
      BY <2>3, <3>2 DEF CacheInv
    <3>3. CASE i = 1 /\ j # 1
      BY <2>3, <3>3 DEF CacheInv
    <3>4. CASE i # 1
      BY <2>3, <3>1, <3>4 DEF CacheInv
    <3> QED BY <3>2, <3>3, <3>4
  <2>5. CASE cached = None \/ cached.age = TTL
    <3>1. cached' = cached /\ (cached # None => ~(cached.age < TTL))
      BY <1>7, <2>5 DEF Tick, CacheInv
    <3> QED BY <2>1, <2>3, <2>4, <3>1 DEF CacheInv
  <2>6. CASE cached # None /\ cached.age # TTL
    <3>1. /\ cached' = [cached EXCEPT !.age = @ + 1] /\ cached \in [version : Nat, age : 0..TTL]
          /\ cached.age < TTL /\ cached.version >= stable[cached.age + 2]
      BY <1>7, <2>6 DEF Tick, CacheInv
    <3>2. /\ cached' \in [version : Nat, age : 0..TTL] /\ cached'.version = cached.version
          /\ cached'.age = cached.age + 1
      BY <3>1
    <3>3. cached'.age < TTL => cached'.version >= stable'[cached'.age + 2]
      <4>1. cached'.age < TTL => cached'.age + 2 \in 2..TTL + 1 /\ (cached'.age + 2) - 1 = cached.age + 2
        BY <3>2, <3>1
      <4>2. cached'.age < TTL => stable'[cached'.age + 2] = stable[(cached'.age + 2) - 1]
        BY <2>3, <4>1
      <4> QED BY <3>1, <3>2, <4>1, <4>2
    <3> QED BY <2>1, <2>3, <2>4, <3>2, <3>3 DEF CacheInv
  <2> QED BY <2>5, <2>6
<1> QED BY <1>2, <1>3, <1>4, <1>5, <1>6, <1>7 DEF StartupNext, Remind, Close

LEMMA OffersAreRecent ==
  ASSUME CacheInv, [StartupNext]_startup
  PROVE  found' \notin {0, found} => found' > runs /\ found' >= stable[TTL + 1]
<1> USE StartupAssumption
<1>1. CASE ReadCache
  <2>1. SUFFICES ASSUME found' # found PROVE found' > runs /\ found' >= stable[TTL + 1]
    OBVIOUS
  <2>2. Fresh /\ found' = cached.version /\ Newer(cached.version) > 0
    BY <1>1, <2>1 DEF ReadCache, Offer
  <2>3. /\ cached \in [version : Nat, age : 0..TTL] /\ cached.age < TTL
        /\ cached.version >= stable[cached.age + 2]
    BY <2>2 DEF Fresh, CacheInv
  <2>4. stable[cached.age + 2] >= stable[TTL + 1] /\ stable[cached.age + 2] \in Nat /\ stable[TTL + 1] \in Nat
    BY <2>3 DEF CacheInv
  <2>5. found' > runs
    BY <2>2 DEF Newer
  <2> QED BY <2>2, <2>3, <2>4, <2>5
<1>2. CASE IndexAnswers
  <2>1. SUFFICES ASSUME found' # found PROVE found' > runs /\ found' >= stable[TTL + 1]
    OBVIOUS
  <2>2. found' = stable[1] /\ Newer(stable[1]) > 0
    BY <1>2, <2>1 DEF IndexAnswers, Offer
  <2>3. stable[1] >= stable[TTL + 1]
    BY DEF CacheInv
  <2> QED BY <2>2, <2>3 DEF Newer
<1>3. CASE Crash \/ Clear
  BY <1>3 DEF Crash, Clear, Reset
<1>4. CASE ~ReadCache /\ ~IndexAnswers /\ ~Crash /\ ~Clear
  <2>1. found' = found
    BY <1>4 DEF StartupNext, startup, reminder, Launch, Load, Import, ImportFails, Activate, Register, Settle,
       Throws, TimesOut, RenderFails, Boot, Frame, Ready, Open, BootFails, Booted, Remind, NoAnswer, Reopen,
       Close, BackendClosed, Exits, Publish, Tick, requestShutdown, Left, Stay, InstallUpdate, Installed,
       InstallFails
  <2> QED BY <2>1
<1> QED BY <1>1, <1>2, <1>3, <1>4

-----------------------------------------------------------------------------
(* The record of the plugins that are switched off.                        *)

\* A process that has met no other one is alone, and what it is about to write is still
\* what it made of the record.
DirectoryInv ==
    /\ DOMAIN at = Process
    /\ job \in [Process -> [plugin : Plugin \cup {None}, to : {"on", "off"}]]
    /\ DOMAIN ids = Process /\ DOMAIN loads = Process /\ DOMAIN writes = Process
    /\ \A me \in Process : at[me] # "idle" /\ me \notin overlaps =>
         /\ \A other \in Process \ {me} : at[other] = "idle"
         /\ at[me] = "rename" => writes[me] = record \cap ids[me]
         /\ at[me] = "set" =>
               writes[me] = IF job[me].to = "on" THEN record \ {job[me].plugin} ELSE record \cup {job[me].plugin}

LEMMA DirectoryStarts == D!DirectoryInit => DirectoryInv
BY DEF D!DirectoryInit, DirectoryInv, D!Nobody

\* A step of one process that leaves the record, and begins no write.
LEMMA OneProceeds ==
  ASSUME DirectoryInv, NEW me \in Process, NEW label, D!Goes(me, label),
         at[me] # "idle", label \notin {"rename", "set"}, UNCHANGED <<record, job, overlaps>>,
         DOMAIN ids' = Process, DOMAIN loads' = Process, DOMAIN writes' = Process,
         \A other \in Process \ {me} : ids'[other] = ids[other] /\ writes'[other] = writes[other]
  PROVE  DirectoryInv'
<1>1. /\ DOMAIN at' = Process /\ at'[me] = label
      /\ \A other \in Process \ {me} : at'[other] = at[other]
  BY DEF DirectoryInv, D!Goes
<1>2. ASSUME NEW p \in Process, at'[p] # "idle", p \notin overlaps
      PROVE  at[p] # "idle" /\ \A other \in Process \ {p} : at'[other] = "idle"
  <2>1. at[p] # "idle"
    BY <1>1, <1>2
  <2>2. \A other \in Process \ {p} : at[other] = "idle"
    BY <1>2, <2>1 DEF DirectoryInv
  <2>3. p = me
    BY <2>2
  <2> QED BY <1>1, <2>1, <2>2, <2>3
<1> QED BY <1>1, <1>2 DEF DirectoryInv

\* A process is through.
LEMMA OneLeaves ==
  ASSUME DirectoryInv, NEW me \in Process, at[me] # "idle", D!Gone(me)
  PROVE  DirectoryInv'
<1>1. /\ DOMAIN at' = Process /\ at'[me] = "idle"
      /\ \A other \in Process \ {me} : at'[other] = at[other]
  BY DEF DirectoryInv, D!Goes, D!Gone
<1>2. /\ job' \in [Process -> [plugin : Plugin \cup {None}, to : {"on", "off"}]]
      /\ \A other \in Process \ {me} : job'[other] = job[other]
  BY DEF DirectoryInv, D!Gone, D!Nobody
<1>3. /\ DOMAIN ids' = Process /\ DOMAIN loads' = Process /\ DOMAIN writes' = Process
      /\ \A other \in Process \ {me} : ids'[other] = ids[other] /\ writes'[other] = writes[other]
      /\ overlaps' = overlaps \ {me} /\ record' = record
  BY DEF DirectoryInv, D!Gone
<1>4. ASSUME NEW p \in Process, at'[p] # "idle", p \notin overlaps' PROVE p = me
  <2>1. SUFFICES ASSUME p # me PROVE FALSE
    OBVIOUS
  <2>2. at[p] # "idle" /\ p \notin overlaps
    BY <1>1, <1>3, <1>4, <2>1
  <2>3. at[me] = "idle"
    BY <2>1, <2>2 DEF DirectoryInv
  <2> QED BY <2>3
<1> QED BY <1>1, <1>2, <1>3, <1>4 DEF DirectoryInv

\* A process begins, and meets those that run.
LEMMA OneJoins ==
  ASSUME DirectoryInv, NEW me \in Process, NEW label, D!Goes(me, label),
         at[me] = "idle", label \notin {"rename", "set"}, D!Joins(me),
         NEW q \in Plugin \cup {None}, NEW to \in {"on", "off"},
         job' = [job EXCEPT ![me] = [plugin |-> q, to |-> to]],
         UNCHANGED <<record, ids, loads, writes>>
  PROVE  DirectoryInv'
<1>1. /\ DOMAIN at' = Process /\ at'[me] = label
      /\ \A other \in Process \ {me} : at'[other] = at[other]
  BY DEF DirectoryInv, D!Goes
<1>2. /\ job' \in [Process -> [plugin : Plugin \cup {None}, to : {"on", "off"}]]
      /\ \A other \in Process \ {me} : job'[other] = job[other]
  <2> DEFINE new == [plugin |-> q, to |-> to]
  <2>1. new \in [plugin : Plugin \cup {None}, to : {"on", "off"}] /\ job' = [job EXCEPT ![me] = new]
    OBVIOUS
  <2> HIDE DEF new
  <2> QED BY <2>1 DEF DirectoryInv
<1> DEFINE running == {other \in Process \ {me} : at[other] # "idle"}
<1>3. overlaps' = IF running = {} THEN overlaps \ {me} ELSE overlaps \cup running \cup {me}
  BY DEF D!Joins
<1>4. ASSUME NEW p \in Process, at'[p] # "idle", p \notin overlaps'
      PROVE  p = me /\ \A other \in Process \ {p} : at'[other] = "idle"
  <2>1. running = {}
    <3>1. SUFFICES ASSUME running # {} PROVE FALSE
      OBVIOUS
    <3>2. p \notin running /\ p # me
      BY <1>3, <1>4, <3>1
    <3> QED BY <1>1, <1>4, <3>2
  <2>2. p = me
    BY <1>1, <1>4, <2>1
  <2> QED BY <1>1, <2>1, <2>2
<1> QED BY <1>1, <1>2, <1>4 DEF DirectoryInv

LEMMA DirectoryHolds ==
  ASSUME DirectoryInv, [D!DirectoryNext]_directory
  PROVE  DirectoryInv'
<1>1. CASE UNCHANGED directory \/ \E q \in Plugin : D!Copy(q)
  BY <1>1 DEF directory, D!Copy, D!process, DirectoryInv
<1>2. ASSUME NEW p \in Process, NEW q \in Plugin, D!newPlugin(p, q) PROVE DirectoryInv'
  BY <1>2, OneJoins DEF D!newPlugin
<1>3. ASSUME NEW p \in Process, D!writePlugin(p) PROVE DirectoryInv'
  BY <1>3, OneProceeds DEF D!writePlugin, DirectoryInv
<1>4. ASSUME NEW p \in Process, NEW q \in Plugin \cup {None}, NEW to \in {"on", "off"}, D!Begin(p, q, to)
      PROVE  DirectoryInv'
  BY <1>4, OneJoins DEF D!Begin
<1>5. ASSUME NEW p \in Process, D!Scan(p) \/ D!NoRoot(p) PROVE DirectoryInv'
  <2>1. /\ DOMAIN ids' = Process /\ DOMAIN loads' = Process /\ DOMAIN writes' = Process
        /\ \A other \in Process \ {p} : ids'[other] = ids[other] /\ writes'[other] = writes[other]
    BY <1>5 DEF D!Scan, D!NoRoot, DirectoryInv
  <2> QED BY <1>5, <2>1, OneProceeds DEF D!Scan, D!NoRoot
<1>6. ASSUME NEW p \in Process, D!readDisabled(p) \/ D!PruneFails(p) PROVE DirectoryInv'
  BY <1>6, OneProceeds DEF D!readDisabled, D!PruneFails, DirectoryInv
<1>7. ASSUME NEW p \in Process, D!pruneState(p) \/ D!setEnabled(p) PROVE DirectoryInv'
  <2>1. /\ UNCHANGED <<record, job, ids, loads, overlaps>> /\ at[p] # "idle"
        /\ \E label, new : D!Goes(p, label) /\ writes' = [writes EXCEPT ![p] = new]
        /\ at'[p] = "rename" => writes'[p] = record \cap ids[p]
        /\ at'[p] = "set" =>
             writes'[p] = IF job[p].to = "on" THEN record \ {job[p].plugin} ELSE record \cup {job[p].plugin}
    <3>1. CASE D!pruneState(p)
      BY <3>1 DEF D!pruneState, D!Goes, DirectoryInv
    <3>2. CASE D!setEnabled(p)
      BY <3>2 DEF D!setEnabled, D!Target, D!Goes, DirectoryInv
    <3> QED BY <1>7, <3>1, <3>2
  <2>2. /\ DOMAIN at' = Process /\ DOMAIN writes' = Process
        /\ \A other \in Process \ {p} : at'[other] = at[other] /\ writes'[other] = writes[other]
    BY <2>1 DEF DirectoryInv, D!Goes
  <2>3. ASSUME NEW me \in Process, at'[me] # "idle", me \notin overlaps
        PROVE  me = p /\ \A other \in Process \ {me} : at'[other] = "idle"
    <3>1. at[me] # "idle"
      BY <2>1, <2>2, <2>3
    <3>2. \A other \in Process \ {me} : at[other] = "idle"
      BY <2>3, <3>1 DEF DirectoryInv
    <3> QED BY <2>1, <2>2, <3>2
  <2> QED BY <2>1, <2>2, <2>3 DEF DirectoryInv
<1>8. ASSUME NEW p \in Process, D!Rename(p) PROVE DirectoryInv'
  <2>1. PICK label \in {"use", "said"} : D!Goes(p, label)
    BY <1>8 DEF D!Rename
  <2>2. at[p] \in {"rename", "set"} /\ UNCHANGED <<job, ids, loads, writes, overlaps>>
    BY <1>8 DEF D!Rename
  <2>3. /\ DOMAIN at' = Process /\ at'[p] = label
        /\ \A other \in Process \ {p} : at'[other] = at[other]
    BY <2>1 DEF DirectoryInv, D!Goes
  <2>4. ASSUME NEW me \in Process, at'[me] # "idle", me \notin overlaps
        PROVE  me = p /\ \A other \in Process \ {me} : at'[other] = "idle"
    <3>1. at[me] # "idle"
      BY <2>2, <2>3, <2>4
    <3>2. \A other \in Process \ {me} : at[other] = "idle"
      BY <2>4, <3>1 DEF DirectoryInv
    <3> QED BY <2>2, <2>3, <3>2
  <2> QED BY <2>2, <2>3, <2>4 DEF DirectoryInv
<1>9. ASSUME NEW p \in Process, D!Switched(p) \/ D!Ends(p) PROVE DirectoryInv'
  BY <1>9, OneLeaves DEF D!Switched, D!Ends
<1> QED BY <1>1, <1>2, <1>3, <1>4, <1>5, <1>6, <1>7, <1>8, <1>9 DEF D!DirectoryNext

\* The step of OnlyTheMissing.
LEMMA MissingOnly ==
  ASSUME DirectoryInv, [D!DirectoryNext]_directory, NEW q \in record \ record', NEW p \in Process,
         at[p] # "idle", p \notin overlaps
  PROVE  at[p] \in {"rename", "set"} /\ (q \notin ids[p] \/ job[p] = [plugin |-> q, to |-> "on"])
<1>1. PICK writer \in Process : D!Rename(writer)
  BY DEF D!DirectoryNext, directory, D!Copy, D!newPlugin, D!writePlugin, D!Begin, D!Scan, D!NoRoot,
     D!readDisabled, D!pruneState, D!PruneFails, D!setEnabled, D!Switched, D!Ends, D!Gone
<1>2. at[writer] \in {"rename", "set"} /\ record' = writes[writer]
  BY <1>1 DEF D!Rename
<1>3. writer = p
  BY <1>2 DEF DirectoryInv
<1>4. CASE at[p] = "rename"
  BY <1>2, <1>3, <1>4 DEF DirectoryInv
<1>5. CASE at[p] = "set"
  <2>1. q \notin IF job[p].to = "on" THEN record \ {job[p].plugin} ELSE record \cup {job[p].plugin}
    BY <1>2, <1>3, <1>5 DEF DirectoryInv
  <2>2. job[p].to = "on" /\ job[p].plugin = q
    BY <2>1
  <2>3. job[p] \in [plugin : Plugin \cup {None}, to : {"on", "off"}]
    BY DEF DirectoryInv
  <2> QED BY <1>5, <2>2, <2>3
<1> QED BY <1>2, <1>3, <1>4, <1>5

\* A process that runs alone takes from the record only what was gone at its scan or what the
\* user switches on (directory.ts), however many processes there are and wherever they die;
\* a release is offered only when it is newer than the program and was stable within the
\* time that a result is kept for (update/check.ts).
THEOREM RecordsAreKept == Spec => NothingForgotten
<1>1. Init => DirectoryInv /\ CacheInv
  BY DirectoryStarts, CacheStarts DEF Init
<1>2. DirectoryInv /\ CacheInv /\ [Next]_vars => DirectoryInv' /\ CacheInv'
  BY ProgramSteps, DirectoryHolds, CacheHolds
<1>3. DirectoryInv /\ [Next]_vars =>
        [\A q \in record \ record', p \in Process :
           at[p] # "idle" /\ p \notin overlaps =>
             at[p] \in {"rename", "set"} /\ (q \notin ids[p] \/ job[p] = [plugin |-> q, to |-> "on"])]_(D!directory)
  BY ProgramSteps, MissingOnly DEF D!directory, D!process, directory
<1>4. CacheInv /\ [Next]_vars =>
        [found' \notin {0, found} => found' > runs /\ found' >= stable[TTL + 1]]_startup
  BY ProgramSteps, OffersAreRecent
<1> QED BY <1>1, <1>2, <1>3, <1>4, PTL DEF Spec, NothingForgotten, D!OnlyTheMissing, OfferIsRecent

=============================================================================
