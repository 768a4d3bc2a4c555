------------------------------- MODULE PluginCheck -------------------------------
(***************************************************************************)
(* `hulala plugin check`: it reads the manifest, imports the entry,        *)
(* activates the plugin against an API that only records, waits for it     *)
(* with a time limit, and draws every view at three widths.  The process   *)
(* lives while something keeps its event loop alive, and the timer of the  *)
(* limit does not.                                                         *)
(***************************************************************************)
EXTENDS Integers, Sequences, FiniteSets

CONSTANT Seats   \* how many views a plugin registers at most

VARIABLES
    at,          \* the step of the check
    registered,  \* how many views the recording API holds
    keeps,       \* the plugin keeps a handle that keeps the process alive
    timer,
    drawn,       \* seat -> what its view returned so far, one result a width
    named,       \* a message named the plugin
    exit         \* the exit code, -1 while the process lives
check == <<at, registered, keeps, timer, drawn, named, exit>>

WidthsDrawn == 3
Seat == 1 .. Seats
Result == {"strings", "other", "throws"}

CheckInit ==
    /\ at = "dispatch" /\ registered = 0 /\ keeps = FALSE /\ timer = "off"
    /\ drawn = [s \in Seat |-> <<>>] /\ named = FALSE /\ exit = -1

Goto(step) == at' = step
Returns(code) == at' = "ended" /\ exit' = code
Fail == Returns(1) /\ named' = TRUE

\* An unknown command or a missing id is answered with the usage.
runPluginCommand ==
    /\ at = "dispatch"
    /\ \/ Goto("resolve") /\ UNCHANGED <<named, exit>>
       \/ Fail
    /\ UNCHANGED <<registered, keeps, timer, drawn>>

\* No directory, no package.json, or a manifest that readManifest refuses.
resolveTarget ==
    /\ at = "resolve"
    /\ \/ Goto("import") /\ UNCHANGED <<named, exit>>
       \/ Fail
    /\ UNCHANGED <<registered, keeps, timer, drawn>>

\* No entry file, an import that throws, or no activate().
importEntry ==
    /\ at = "import"
    /\ \/ Goto("activate") /\ UNCHANGED <<named, exit>>
       \/ Fail
    /\ UNCHANGED <<registered, keeps, timer, drawn>>

\* activate() registers views and may start something; it throws, returns, or
\* leaves a promise.
activate ==
    /\ at = "activate"
    /\ registered' \in 0 .. Seats /\ keeps' \in BOOLEAN
    /\ \/ Fail /\ UNCHANGED timer
       \/ Goto("dispose") /\ UNCHANGED <<timer, named, exit>>
       \/ Goto("waits") /\ timer' = "armed" /\ UNCHANGED <<named, exit>>
    /\ UNCHANGED drawn

\* Only something that lives can settle the promise.
settle ==
    /\ at = "waits" /\ keeps /\ timer' = "off" /\ keeps' \in BOOLEAN
    /\ \/ Goto("dispose") /\ UNCHANGED <<named, exit>>
       \/ Fail
    /\ UNCHANGED <<registered, drawn>>
withPluginTimeout ==
    /\ at = "waits" /\ keeps /\ timer = "armed" /\ timer' = "off"
    /\ Fail
    /\ UNCHANGED <<registered, keeps, drawn>>
\* What the plugin started ends by itself.
letsGo ==
    /\ keeps /\ keeps' = FALSE
    /\ UNCHANGED <<at, registered, timer, drawn, named, exit>>
\* The unsettled await of a process that nothing keeps alive.
loopEmpties ==
    /\ at = "waits" /\ ~keeps
    /\ Returns(13)
    /\ UNCHANGED <<registered, keeps, timer, drawn, named>>

dispose ==
    /\ at = "dispose"
    /\ \/ Goto("render") /\ keeps' \in {keeps, FALSE} /\ UNCHANGED <<named, exit>>
       \/ Fail /\ UNCHANGED keeps
    /\ UNCHANGED <<registered, timer, drawn>>

\* Mutant: a seat is done when its view was drawn once.
DoneOnce(s) == drawn[s] # <<>>
\* A seat is done at its first problem, or when it was drawn at every width.
Done(s) == Len(drawn[s]) = WidthsDrawn \/ \E i \in DOMAIN drawn[s] : drawn[s][i] # "strings"

render(s) ==
    /\ at = "render" /\ s <= registered /\ ~Done(s)
    /\ \A earlier \in 1 .. s - 1 : Done(earlier)
    /\ \E result \in Result : drawn' = [drawn EXCEPT ![s] = Append(@, result)]
    /\ UNCHANGED <<at, registered, keeps, timer, named, exit>>

problems == {s \in 1 .. registered : \E i \in DOMAIN drawn[s] : drawn[s][i] # "strings"}
reportCheck ==
    /\ at = "render" /\ \A s \in 1 .. registered : Done(s)
    /\ IF problems # {} THEN Fail ELSE Returns(0) /\ named' = TRUE
    /\ UNCHANGED <<registered, keeps, timer, drawn>>

CheckNext ==
    \/ runPluginCommand \/ resolveTarget \/ importEntry \/ activate \/ settle \/ withPluginTimeout
    \/ letsGo \/ loopEmpties \/ dispose \/ reportCheck
    \/ \E s \in Seat : render(s)

-----------------------------------------------------------------------------
\* A check that succeeds has drawn every view at every width and got strings; one
\* that fails has said which plugin it is.
CheckIsHonest ==
    /\ exit = 0 => \A s \in 1 .. registered : drawn[s] = [i \in 1 .. WidthsDrawn |-> "strings"]
    /\ exit = 1 => named

\* Disagreement with timeout.ts: "A plugin that never settles would otherwise hang
\* the window before its first frame - or `hulala plugin check`, with no output at
\* all - and the user would have no way to see which plugin did it."
EveryEndNamesThePlugin == exit # -1 => named
=============================================================================
