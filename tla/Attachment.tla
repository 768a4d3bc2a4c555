------------------------------- MODULE Attachment -------------------------------
(***************************************************************************)
(* The commands that deal with the Host: a terminal window from its attach *)
(* to its end, `hulala host start`, `status` and `stop`, and the stop that *)
(* an update asks for.  How a Host is found, replaced and stopped is       *)
(* HostClient's; here each of these is a step.                             *)
(***************************************************************************)
EXTENDS Integers, Sequences, FiniteSets

CONSTANTS Terminal, Version, Hosts   \* how many Hosts are started

VARIABLES
    version,   \* Host -> the version it runs, 0 before it is started
    serving,   \* the Host that answers, 0 for none
    turn,      \* a turn runs in it
    command, own, at,   \* terminal -> its command, the version that runs it, its step
    record,    \* terminal -> the Host that was found
    cookie,    \* terminal -> the Host that signed its cookie
    kernel,    \* terminal -> "none", "live", "disposed"
    link,      \* terminal -> its transport is connected
    timer,     \* terminal -> the 15 seconds of ready
    code       \* terminal -> the exit code, -1 before the end
attachment == <<version, serving, turn, command, own, at, record, cookie, kernel, link, timer, code>>

Commands == {"window", "start", "status", "stop", "activated"}
Host == 1 .. Hosts
Started == Cardinality({h \in Host : version[h] # 0})

AttachInit ==
    /\ serving \in {0, 1} /\ turn = FALSE
    /\ \E v \in Version : version = [h \in Host |-> IF h = serving THEN v ELSE 0]
    /\ command \in [Terminal -> Commands] /\ own \in [Terminal -> Version]
    /\ at = [t \in Terminal |-> "shell"]
    /\ record = [t \in Terminal |-> 0] /\ cookie = [t \in Terminal |-> 0]
    /\ kernel = [t \in Terminal |-> "none"] /\ link = [t \in Terminal |-> FALSE]
    /\ timer = [t \in Terminal |-> FALSE] /\ code = [t \in Terminal |-> -1]

Goto(t, step) == at' = [at EXCEPT ![t] = step]
Ends(t, exit) == Goto(t, "ended") /\ code' = [code EXCEPT ![t] = exit]
HostsStay == UNCHANGED <<version, serving, turn>>
HostStops ==
    /\ serving' = 0 /\ turn' = FALSE /\ link' = [t \in Terminal |-> FALSE]
    /\ UNCHANGED version

runTerminal(t) == command[t] = "window" /\ Goto(t, "attach")
runHostCommand(t) ==
    \/ command[t] = "start" /\ Goto(t, "attach")
    \/ command[t] = "status" /\ Goto(t, "inspects")
    \/ command[t] = "stop" /\ Goto(t, "stops")
\* The program behind "activated" has installed a version before it comes to the Host.
runCli(t) ==
    /\ at[t] = "shell"
    /\ runTerminal(t) \/ runHostCommand(t) \/ (command[t] = "activated" /\ Goto(t, "inspects"))
    /\ HostsStay /\ UNCHANGED <<command, own, record, cookie, kernel, link, timer, code>>

\* ensureHostDaemon of a caller that may start a Host: it takes one of its own
\* version and stops one of another; it starts one where none answered, and takes
\* the Host that answers then.
ensureHostDaemon(t) ==
    /\ at[t] = "attach"
    /\ IF serving = 0 THEN Goto(t, "launch") /\ HostsStay /\ UNCHANGED <<record, link>>
       ELSE IF version[serving] = own[t]
       THEN record' = [record EXCEPT ![t] = serving] /\ Goto(t, "exchange") /\ HostsStay /\ UNCHANGED link
       ELSE Goto(t, "launch") /\ HostStops /\ UNCHANGED record
    /\ UNCHANGED <<command, own, cookie, kernel, timer, code>>
\* A second Host finds the first one serving, and ends.
launch(t) ==
    /\ at[t] = "launch" /\ Started < Hosts /\ Goto(t, "waits")
    /\ IF serving = 0
       THEN serving' = Started + 1 /\ version' = [version EXCEPT ![serving'] = own[t]] /\ UNCHANGED turn
       ELSE HostsStay
    /\ UNCHANGED <<command, own, record, cookie, kernel, link, timer, code>>
waitForDaemon(t) ==
    /\ at[t] = "waits" /\ serving # 0
    /\ record' = [record EXCEPT ![t] = serving] /\ Goto(t, "exchange")
    /\ HostsStay /\ UNCHANGED <<command, own, cookie, kernel, link, timer, code>>
\* An incompatible Host, a start that fails, or one that takes too long.
attachFails(t) ==
    /\ at[t] \in {"attach", "launch", "waits"} /\ Ends(t, 1)
    /\ HostsStay /\ UNCHANGED <<command, own, record, cookie, kernel, link, timer>>

\* /connect: a Host that is gone, refuses, or sends no cookie ends the command.
attachHost(t) ==
    /\ at[t] = "exchange"
    /\ \/ /\ serving = record[t] /\ cookie' = [cookie EXCEPT ![t] = serving]
          /\ IF command[t] = "start" THEN Ends(t, 0) ELSE (Goto(t, "kernel") /\ UNCHANGED code)
       \/ Ends(t, 1) /\ UNCHANGED cookie
    /\ HostsStay /\ UNCHANGED <<command, own, record, kernel, link, timer>>

createTerminalKernel(t) ==
    /\ at[t] = "kernel" /\ Goto(t, "transport") /\ kernel' = [kernel EXCEPT ![t] = "live"]
    /\ HostsStay /\ UNCHANGED <<command, own, record, cookie, link, timer, code>>
\* The transport's plugins are installed and the Host's services mounted, or not.
createHostBackend(t) ==
    /\ at[t] = "transport"
    /\ \/ Goto(t, "ready") /\ timer' = [timer EXCEPT ![t] = TRUE]
       \/ Goto(t, "fails") /\ UNCHANGED timer
    /\ HostsStay /\ UNCHANGED <<command, own, record, cookie, kernel, link, code>>
\* The transport connects, as often as it is lost, to the address it was given.
Connects(t) ==
    /\ at[t] \in {"ready", "boot", "open"} /\ ~link[t] /\ serving = cookie[t] /\ serving # 0
    /\ link' = [link EXCEPT ![t] = TRUE]
    /\ HostsStay /\ UNCHANGED <<command, own, at, record, cookie, kernel, timer, code>>

\* ready: the transport was connected once, or the limit is over and a notice says
\* so.  Either way its timer is over.
ready(t) ==
    /\ at[t] = "ready" /\ timer' = [timer EXCEPT ![t] = FALSE]
    /\ Goto(t, "boot")
    /\ HostsStay /\ UNCHANGED <<command, own, record, cookie, kernel, link, code>>
\* A quit during ready leaves its timer.
requestShutdown(t) ==
    /\ at[t] \in {"ready", "boot", "open"} /\ Goto(t, "leaves")
    /\ HostsStay /\ UNCHANGED <<command, own, record, cookie, kernel, link, timer, code>>
\* The calls of a first Session do not need the transport's connection.  A Session
\* that cannot be created ends the window, the one of --resume is opened in any case,
\* and what throws unwinds.
bootstrap(t) ==
    /\ at[t] = "boot" /\ \E next \in {"open", "leaves", "fails"} : Goto(t, next)
    /\ HostsStay /\ UNCHANGED <<command, own, record, cookie, kernel, link, timer, code>>

disposeKernel(t) ==
    kernel' = [kernel EXCEPT ![t] = "disposed"] /\ link' = [link EXCEPT ![t] = FALSE]
\* shutdown: the kernel is disposed of, and process.exit ends the timers.
shutdown(t) ==
    /\ at[t] = "leaves" /\ disposeKernel(t) /\ Ends(t, 0)
    /\ timer' = [timer EXCEPT ![t] = FALSE]
    /\ HostsStay /\ UNCHANGED <<command, own, record, cookie>>
\* Each `finally` on the way out.  Nothing calls process.exit here: the process ends
\* when nothing keeps its event loop alive.
unwind(t) ==
    /\ at[t] = "fails" /\ disposeKernel(t) /\ Ends(t, 1)
    /\ HostsStay /\ UNCHANGED <<command, own, record, cookie, timer>>

-----------------------------------------------------------------------------
inspectHost(t) ==
    /\ at[t] = "inspects" /\ command[t] = "status"
    /\ record' = [record EXCEPT ![t] = serving] /\ Ends(t, 0)
    /\ HostsStay /\ UNCHANGED <<command, own, cookie, kernel, link, timer>>
\* The tail of install, update and rollback: a Host of another version than the one
\* just activated is to be stopped.
stopStaleHost(t) ==
    /\ at[t] = "inspects" /\ command[t] = "activated"
    /\ record' = [record EXCEPT ![t] = serving]
    /\ IF serving # 0 /\ version[serving] # own[t]
       THEN Goto(t, "stops") /\ UNCHANGED code ELSE Ends(t, 0)
    /\ HostsStay /\ UNCHANGED <<command, own, cookie, kernel, link, timer>>
\* stopHost reads the published endpoint anew.
stopHost(t) ==
    /\ at[t] = "stops"
    /\ IF serving # 0 THEN HostStops ELSE HostsStay /\ UNCHANGED link
    /\ Ends(t, 0)
    /\ UNCHANGED <<command, own, record, cookie, kernel, timer>>

Turn ==
    /\ serving # 0 /\ \E t \in Terminal : link[t] /\ at[t] = "open"
    /\ turn' = ~turn
    /\ UNCHANGED <<version, serving, command, own, at, record, cookie, kernel, link, timer, code>>
HostDies ==
    /\ serving # 0 /\ HostStops
    /\ UNCHANGED <<command, own, at, record, cookie, kernel, timer, code>>

AttachNext ==
    \/ Turn \/ HostDies
    \/ \E t \in Terminal :
          \/ runCli(t) \/ ensureHostDaemon(t) \/ launch(t) \/ waitForDaemon(t) \/ attachFails(t) \/ attachHost(t)
          \/ createTerminalKernel(t) \/ createHostBackend(t) \/ Connects(t) \/ ready(t) \/ requestShutdown(t)
          \/ bootstrap(t) \/ shutdown(t) \/ unwind(t) \/ inspectHost(t) \/ stopStaleHost(t) \/ stopHost(t)

-----------------------------------------------------------------------------
\* A command that has ended keeps neither plugins nor a connection nor a timer that
\* would keep its process alive, whichever of its steps failed (cli.ts).
EndsClean ==
    \A t \in Terminal : at[t] = "ended" => kernel[t] # "live" /\ ~link[t] /\ ~timer[t]

\* Disagreement with commands.ts: "an ordinary client still only attaches, or
\* refuses with `version-mismatch` and names the stop command."
ClientsOnlyAttach ==
    [][\A t \in Terminal : at[t] = "attach" /\ at'[t] = "launch" => serving' = serving]_attachment

\* Disagreement with commands.ts: "Stop the Host when it runs another version than
\* the one just activated."
StopsTheStale ==
    [][\A t \in Terminal : command[t] = "activated" /\ at[t] = "stops" /\ at'[t] = "ended" /\ serving # 0
         => version[serving] # own[t]]_attachment
=============================================================================
