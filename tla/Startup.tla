-------------------------------- MODULE Startup --------------------------------
(***************************************************************************)
(* One terminal window from its start to the exit of its process           *)
(* (apps/cli/src/tui/app.ts): the plugins of the user (plugins/user.ts,    *)
(* pluginApi.ts), the first Session, the reminder of a newer release       *)
(* (update/check.ts, plugins/update.ts) and the shutdown.  Windows follow  *)
(* one another; the cache of the update check outlives them.               *)
(*                                                                         *)
(* The client without a terminal (runPlain) is at the end: it shares       *)
(* nothing with a window but its source.                                   *)
(*                                                                         *)
(* Plugins are those that module PluginDirectory lets a window activate.   *)
(* Time is counted in ticks; one answer of the index takes less than one.  *)
(***************************************************************************)
EXTENDS Naturals, Sequences

CONSTANTS
    Plugin,     \* loaded in this order: 1..n
    Hangs,      \* which code of a plugin may never end: "import", "activate"
    Newest,     \* releases are 1..Newest
    TTL,        \* how many ticks a result of the check is reused
    Quits,      \* how many requests to quit may wait for the columns at a time
    Request,    \* runPlain: approvals and questions of the Host, one question each
    Lines,      \*     how many lines the input has
    None

ASSUME StartupAssumption ==
    /\ Plugin \subseteq Nat /\ Hangs \subseteq {"import", "activate"}
    /\ Newest \in Nat \ {0} /\ TTL \in Nat \ {0} /\ Quits \in Nat

VARIABLES
    stage,      \* "off", "plugins", "ready", "bootstrap", "running"
    loaded,     \* each plugin: "waiting", "importing", "activating", "active", "failed"
    pending,    \* those whose activate() has not settled
    seats,      \* those that have registered a seat or a command
    marked,     \* those whose seat is a marker, as its render() has failed
    left,       \* those that hold a resource of their own when the process exits
    teardowns,  \* those whose teardown the context knows
    session,    \* a Session is open
    opens,      \* how often one was opened, up to 2
    exit,       \* the shutdown: "no", "backend", "kernel"
    leaving,    \* requests to quit that wait for the columns
    updating,   \* /update has started the new release's installation
    wanted,     \* restartWanted
    successors, \* clients started in the place of this one
    runs,       \* the release of the program
    check,      \* the update check: "off", "asking", "done"
    found,      \* the release it offers, 0 if none
    announced,  \*     the reminder was given
    notice,     \*     and is in the transcript
    cached,     \* update-check.json: a release and its age in ticks
    stable      \* the stable release, now and at the end of the ticks before

plugins == <<loaded, pending, seats, marked, left, teardowns>>
closing == <<exit, leaving, updating, wanted, successors>>
reminder == <<check, found, announced, notice>>
world == <<cached, stable>>
startup == <<stage, plugins, session, opens, closing, runs, reminder, world>>

Closing == exit # "no"

-----------------------------------------------------------------------------
(* The plugins of the user, one after another                              *)

Launch(v) ==
    /\ stage = "off" /\ exit = "no" /\ v <= stable[1]
    /\ stage' = "plugins" /\ runs' = v
    /\ UNCHANGED <<plugins, session, opens, closing, reminder, world>>

Turn(q) ==
    /\ stage = "plugins"
    /\ \A r \in Plugin : r < q => loaded[r] \in {"active", "failed"}

Import(q) ==
    /\ Turn(q) /\ loaded[q] = "waiting"
    /\ loaded' = [loaded EXCEPT ![q] = "importing"]
    /\ UNCHANGED <<stage, pending, seats, marked, left, teardowns, session, opens, closing, runs, reminder, world>>

\* No such module, an error in it, no activate().
ImportFails(q) ==
    /\ Turn(q) /\ loaded[q] = "importing"
    /\ loaded' = [loaded EXCEPT ![q] = "failed"]
    /\ UNCHANGED <<stage, pending, seats, marked, left, teardowns, session, opens, closing, runs, reminder, world>>

\* The module is there: activate() is called with the API of this plugin.
Activate(q) ==
    /\ Turn(q) /\ loaded[q] = "importing"
    /\ loaded' = [loaded EXCEPT ![q] = "activating"]
    /\ pending' = pending \cup {q}
    /\ UNCHANGED <<stage, seats, marked, left, teardowns, session, opens, closing, runs, reminder, world>>

\* Also after its time is over.
Register(q) ==
    /\ q \in pending /\ exit # "gone"
    /\ seats' = seats \cup {q}
    /\ UNCHANGED <<stage, loaded, pending, marked, left, teardowns, session, opens, closing, runs, reminder, world>>

\* activate() returns a teardown; the loader takes it only while it waits.
Settle(q) ==
    /\ q \in pending
    /\ pending' = pending \ {q}
    /\ IF loaded[q] = "activating"
       THEN /\ loaded' = [loaded EXCEPT ![q] = "active"]
            /\ teardowns' = teardowns \cup {q}
       ELSE UNCHANGED <<loaded, teardowns>>
    /\ UNCHANGED <<stage, seats, marked, left, session, opens, closing, runs, reminder, world>>

Throws(q) ==
    /\ q \in pending
    /\ pending' = pending \ {q}
    /\ loaded' = [loaded EXCEPT ![q] = IF @ = "activating" THEN "failed" ELSE @]
    /\ UNCHANGED <<stage, seats, marked, left, teardowns, session, opens, closing, runs, reminder, world>>

\* Mutant: a plugin is awaited for as long as it takes.
NeverTimesOut(q) == FALSE /\ UNCHANGED startup
TimesOut(q) ==
    /\ loaded[q] = "activating"
    /\ loaded' = [loaded EXCEPT ![q] = "failed"]
    /\ UNCHANGED <<stage, pending, seats, marked, left, teardowns, session, opens, closing, runs, reminder, world>>

RenderFails(q) ==
    /\ stage \in {"ready", "bootstrap", "running"}
    /\ q \in seats \ marked
    /\ marked' = marked \cup {q}
    /\ UNCHANGED <<stage, loaded, pending, seats, left, teardowns, session, opens, closing, runs, reminder, world>>

-----------------------------------------------------------------------------
(* The reminder                                                            *)

Newer(v) == IF v > runs THEN v ELSE 0

\* Mutant: a result is reused one tick too long.
FreshToTheTick == cached # None /\ cached.age <= TTL
Fresh == cached # None /\ cached.age < TTL

\* What is offered is announced, if there is a Session to show it in.
\* Mutant: the reminder does not wait for a Session.
AnnounceAtOnce(offer) ==
    IF offer > 0 /\ ~announced
    THEN announced' = TRUE /\ notice' = TRUE
    ELSE UNCHANGED <<announced, notice>>
Announce(offer) ==
    IF offer > 0 /\ ~announced /\ session
    THEN announced' = TRUE /\ notice' = TRUE
    ELSE UNCHANGED <<announced, notice>>

Offer(v) == IF Newer(v) > 0 /\ ~Closing
            THEN found' = v /\ Announce(v)
            ELSE UNCHANGED <<found, announced, notice>>

\* The first frame; then the check reads its cache.
Frame ==
    /\ stage = "plugins" /\ \A q \in Plugin : loaded[q] \in {"active", "failed"}
    /\ stage' = "ready"
    /\ check' = "cache"
    /\ UNCHANGED <<plugins, session, opens, closing, runs, found, announced, notice, world>>

ReadCache ==
    /\ check = "cache"
    /\ IF Fresh THEN check' = "done" /\ Offer(cached.version)
                ELSE check' = "asking" /\ UNCHANGED <<found, announced, notice>>
    /\ UNCHANGED <<stage, plugins, session, opens, closing, runs, world>>

IndexAnswers ==
    /\ check = "asking" /\ check' = "done"
    /\ cached' = [version |-> stable[1], age |-> 0]
    /\ Offer(stable[1])
    /\ UNCHANGED <<stage, plugins, session, opens, closing, runs, stable>>

\* Offline, disabled, no archive for this platform.
NoAnswer ==
    /\ check \in {"cache", "asking"} /\ check' = "done"
    /\ UNCHANGED <<stage, plugins, session, opens, closing, runs, found, announced, notice, world>>

-----------------------------------------------------------------------------
(* Shutdown                                                                *)

\* Everything up to the first await: the columns, the screen, the successor.
\* Mutant: the flag is not taken before the rest.
ShutdownAgain ==
    /\ exit' = "backend"
    /\ successors' = IF wanted THEN successors + 1 ELSE successors
Shutdown ==
    IF Closing THEN UNCHANGED <<exit, successors>>
    ELSE /\ exit' = "backend"
         /\ successors' = IF wanted THEN successors + 1 ELSE successors

requestShutdown ==
    /\ stage \in {"ready", "bootstrap", "running"} /\ ~Closing
    /\ leaving + (IF updating THEN 1 ELSE 0) < Quits
    /\ leaving' = leaving + 1
    /\ UNCHANGED <<stage, plugins, session, opens, exit, updating, wanted, successors, runs, reminder, world>>

\* The columns agree, or the user keeps an unsaved buffer.
Left ==
    /\ leaving > 0 /\ leaving' = leaving - 1
    /\ Shutdown
    /\ UNCHANGED <<stage, plugins, session, opens, updating, wanted, runs, reminder, world>>
Stay ==
    /\ leaving > 0 /\ leaving' = leaving - 1
    /\ UNCHANGED <<stage, plugins, session, opens, exit, updating, wanted, successors, runs, reminder, world>>

BackendClosed ==
    /\ exit = "backend" /\ exit' = "kernel"
    /\ UNCHANGED <<stage, plugins, session, opens, leaving, updating, wanted, successors, runs, reminder, world>>

\* A plugin that has a seat holds a resource of its own as well.
Disposed(kept) == seats' = {} /\ marked' = {} /\ left' = kept /\ teardowns' = {}

\* The context is disposed, and the process exits.
\* Mutant: the process exits first.
ExitsAtOnce ==
    /\ exit = "kernel" /\ exit' = "gone"
    /\ stage' = "off"
    /\ Disposed(seats)
    /\ UNCHANGED <<loaded, pending, session, opens, leaving, updating, wanted, successors, runs, reminder, world>>
Exits ==
    /\ exit = "kernel" /\ exit' = "gone"
    /\ stage' = "off"
    /\ Disposed(seats \ teardowns)
    /\ UNCHANGED <<loaded, pending, session, opens, leaving, updating, wanted, successors, runs, reminder, world>>

\* A client that can install by itself; one installation at a time is enough here.
InstallUpdate ==
    /\ stage = "running" /\ ~Closing /\ found > 0 /\ ~updating /\ leaving < Quits
    /\ updating' = TRUE
    /\ UNCHANGED <<stage, plugins, session, opens, exit, leaving, wanted, successors, runs, reminder, world>>
Installed ==
    /\ updating /\ updating' = FALSE
    /\ wanted' = TRUE
    /\ leaving' = IF Closing THEN leaving ELSE leaving + 1
    /\ UNCHANGED <<stage, plugins, session, opens, exit, successors, runs, reminder, world>>
InstallFails ==
    /\ updating /\ updating' = FALSE
    /\ UNCHANGED <<stage, plugins, session, opens, exit, leaving, wanted, successors, runs, reminder, world>>

-----------------------------------------------------------------------------
(* The first Session                                                       *)

\* The Host answers, or not: a line says so, and the start goes on.
Ready ==
    /\ stage = "ready" /\ stage' = "bootstrap"
    /\ UNCHANGED <<plugins, session, opens, closing, runs, reminder, world>>

\* open() of plugins/session.ts resets the transcript.
Opened == session' = TRUE /\ opens' = (IF opens = 0 THEN 1 ELSE 2) /\ notice' = FALSE

Open ==
    /\ stage = "bootstrap" /\ ~session
    /\ Opened
    /\ UNCHANGED <<stage, plugins, closing, runs, check, found, announced, world>>

\* Mutant: the reminder is given by the check alone.
BootedSilently ==
    /\ stage = "bootstrap" /\ session
    /\ stage' = "running"
    /\ IF Closing THEN Shutdown ELSE UNCHANGED <<exit, successors>>
    /\ UNCHANGED <<announced, notice>>
    /\ UNCHANGED <<plugins, session, opens, leaving, updating, wanted, runs, check, found, world>>
Booted ==
    /\ stage = "bootstrap" /\ session
    /\ stage' = "running"
    /\ IF Closing THEN Shutdown /\ UNCHANGED <<announced, notice>>
       ELSE Announce(found) /\ UNCHANGED <<exit, successors>>
    /\ UNCHANGED <<plugins, session, opens, leaving, updating, wanted, runs, check, found, world>>

\* No Session can be created: the window closes.
BootFails ==
    /\ stage = "bootstrap" /\ ~session
    /\ stage' = "running"
    /\ Shutdown
    /\ UNCHANGED <<plugins, session, opens, leaving, updating, wanted, runs, reminder, world>>

\* The user opens another Session, or the stream is opened again.
Reopen ==
    /\ stage = "running" /\ session /\ ~Closing
    /\ Opened
    /\ UNCHANGED <<stage, plugins, closing, runs, check, found, announced, world>>

-----------------------------------------------------------------------------
\* What a process leaves behind goes with it.
Reset ==
    /\ loaded' = [q \in Plugin |-> "waiting"] /\ pending' = {} /\ Disposed({})
    /\ session' = FALSE /\ opens' = 0
    /\ exit' = "no" /\ leaving' = 0 /\ updating' = FALSE /\ wanted' = FALSE /\ successors' = 0
    /\ check' = "off" /\ found' = 0 /\ announced' = FALSE /\ notice' = FALSE
    /\ stage' = "off" /\ runs' = 1
Clear == exit = "gone" /\ Reset /\ UNCHANGED world
Crash == stage # "off" /\ Reset /\ UNCHANGED world

\* Releases and time matter to a window only when its check begins: between two windows.
Publish ==
    /\ stage = "off" /\ exit = "no"
    /\ stable[1] < Newest /\ stable' = [stable EXCEPT ![1] = @ + 1]
    /\ UNCHANGED <<stage, plugins, session, opens, closing, runs, reminder, cached>>

Tick ==
    /\ stage = "off" /\ exit = "no"
    /\ stable' = <<stable[1]>> \o SubSeq(stable, 1, TTL)
    /\ cached' = IF cached = None \/ cached.age = TTL THEN cached ELSE [cached EXCEPT !.age = @ + 1]
    /\ UNCHANGED <<stage, plugins, session, opens, closing, runs, reminder>>

StartupInit ==
    /\ stage = "off" /\ loaded = [q \in Plugin |-> "waiting"] /\ pending = {}
    /\ seats = {} /\ marked = {} /\ left = {} /\ teardowns = {}
    /\ session = FALSE /\ opens = 0
    /\ exit = "no" /\ leaving = 0 /\ updating = FALSE /\ wanted = FALSE /\ successors = 0
    /\ runs = 1 /\ check = "off" /\ found = 0 /\ announced = FALSE /\ notice = FALSE
    /\ cached = None /\ stable = [t \in 1..TTL + 1 |-> 1]

Load(q) == Import(q) \/ ImportFails(q) \/ Activate(q)
Boot == Frame \/ Ready \/ Open \/ BootFails \/ Booted
Remind == ReadCache \/ IndexAnswers \/ NoAnswer
Close == BackendClosed \/ Exits \/ Clear

StartupNext ==
    \/ \E v \in 1..Newest : Launch(v)
    \/ \E q \in Plugin : Load(q) \/ Register(q) \/ Settle(q) \/ Throws(q) \/ TimesOut(q) \/ RenderFails(q)
    \/ Boot \/ Remind \/ Reopen \/ Close \/ Crash \/ Publish \/ Tick
    \/ requestShutdown \/ Left \/ Stay \/ InstallUpdate \/ Installed \/ InstallFails

\* The timer of the loader, the client's own steps, and the code of a plugin that ends.
StartupFairness ==
    /\ WF_startup(Boot) /\ WF_startup(Remind)
    /\ \A q \in Plugin :
        /\ WF_startup(TimesOut(q)) /\ WF_startup(Import(q))
        /\ "import" \notin Hangs => WF_startup(ImportFails(q) \/ Activate(q))
        /\ "activate" \notin Hangs => WF_startup(Settle(q) \/ Throws(q))

-----------------------------------------------------------------------------
(* The client without a terminal.  Lines of input are prompts, commands, or*)
(* answers to what the Host asks; several requests of the Host may be      *)
(* pending, the readline module asks one question at a time and forgets a  *)
(* second one (external: Node.js).                                         *)

VARIABLES
    phase,      \* "create" a Session, "listen", "closing", "done"
    input,      \* "open", "ended", or "closed" by the client
    line,       \* how many lines were read
    asking,     \* the request whose question readline holds
    shown,      \* the requests whose text was printed
    outcome,    \* what the Host was told: None, "y", "n" or "other"
    answered,   \* for each request, the line that answered it
    prompts     \* the lines that were sent to the Host

plain == <<phase, input, line, asking, shown, outcome, answered, prompts>>

\* rl.question: a second question is not kept, one on a closed input throws.
Asked(i) ==
    IF asking = None /\ input = "open" THEN asking' = i ELSE UNCHANGED asking

onApproval(i) ==
    /\ phase \in {"create", "listen"} /\ i \notin shown
    /\ shown' = shown \cup {i}
    /\ Asked(i)
    /\ UNCHANGED <<phase, input, line, outcome, answered, prompts>>

\* A line while a question is held is its answer, and nothing else.
\* Mutant: it answers every request that was printed.
AnswersAll(typed) ==
    /\ asking # None /\ asking' = None
    /\ outcome' = [i \in Request |-> IF i \in shown /\ outcome[i] = None THEN typed ELSE outcome[i]]
    /\ answered' = [i \in Request |-> IF i \in shown /\ outcome[i] = None THEN line + 1 ELSE answered[i]]
    /\ UNCHANGED <<phase, prompts>>
Answers(typed) ==
    /\ asking # None /\ asking' = None
    /\ outcome' = [outcome EXCEPT ![asking] = typed]
    /\ answered' = [answered EXCEPT ![asking] = line + 1]
    /\ UNCHANGED <<phase, prompts>>

Prompts(typed) ==
    /\ asking = None /\ phase = "listen"
    /\ IF typed = "quit" THEN phase' = "closing" /\ UNCHANGED prompts
       ELSE prompts' = prompts \cup {line + 1} /\ UNCHANGED phase
    /\ UNCHANGED <<asking, outcome, answered>>

\* Nobody listens before the Session is there.
Unheard == asking = None /\ phase # "listen" /\ UNCHANGED <<phase, asking, outcome, answered, prompts>>

Line(typed) ==
    /\ input = "open" /\ line < Lines
    /\ line' = line + 1
    /\ Answers(typed) \/ Prompts(typed) \/ Unheard
    /\ input' = IF phase' = "closing" THEN "closed" ELSE input
    /\ UNCHANGED shown

\* The end of the input closes the client, if it listens.
Eof ==
    /\ input = "open" /\ input' = "ended"
    /\ phase' = IF phase = "listen" THEN "closing" ELSE phase
    /\ UNCHANGED <<line, asking, shown, outcome, answered, prompts>>

Listen ==
    /\ phase = "create" /\ phase' = "listen"
    /\ UNCHANGED <<input, line, asking, shown, outcome, answered, prompts>>

Done ==
    /\ phase = "closing" /\ phase' = "done"
    /\ UNCHANGED <<input, line, asking, shown, outcome, answered, prompts>>

PlainInit ==
    /\ phase = "create" /\ input = "open" /\ line = 0 /\ asking = None
    /\ shown = {} /\ outcome = [i \in Request |-> None] /\ answered = [i \in Request |-> 0]
    /\ prompts = {}

PlainNext ==
    \/ \E i \in Request : onApproval(i)
    \/ \E typed \in {"y", "n", "other", "quit"} : Line(typed)
    \/ Eof \/ Listen \/ Done

-----------------------------------------------------------------------------
(* Properties                                                              *)

\* "One bad plugin never blocks boot" (plugins/user.ts:9): the frame appears, or the
\* process is killed.
BootEnds == stage = "plugins" ~> stage # "plugins"

\* A newer release that the check found is announced once there is a Session, whichever
\* of the two is first, unless the window closes.
ReminderGiven == found > 0 /\ session ~> announced \/ Closing \/ stage = "off"

\* The reminder is not spent before the transcript of the first Session is there.
ReminderSeen == announced /\ opens <= 1 => notice

\* What is offered is newer than the program, and was stable within the last TTL ticks.
OfferIsRecent == [][found' \notin {0, found} => found' > runs /\ found' >= stable[TTL + 1]]_startup

\* However many requests to quit wait at a time, at most one client takes the terminal
\* over, and none before an update was installed.
OneSuccessor == successors <= 1 /\ (successors > 0 => wanted)

\* The process exits after the teardown of every plugin that is active.
TornDown == exit = "gone" => \A q \in left : loaded[q] # "active"

\* A line has one use: it answers one request, or it is sent, never both, however the
\* requests of the Host and the lines interleave.
OneUse ==
    /\ \A i \in Request : answered[i] \notin prompts
    /\ \A i, j \in Request : answered[i] = answered[j] /\ answered[i] # 0 => i = j

=============================================================================
