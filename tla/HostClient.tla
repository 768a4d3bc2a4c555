----------------------------- MODULE HostClient -----------------------------
(***************************************************************************)
(* The clients of one state root: ensureHostDaemon and stopHostDaemon of   *)
(* packages/host-client/src/ensureHostDaemon.ts, on top of the discovery   *)
(* of discovery.ts, composed with the daemons of HostDaemon.tla.           *)
(*                                                                         *)
(* A client runs one call at a time.  Reading the endpoint, probing it,    *)
(* signalling, polling and removing the endpoint are separate steps.       *)
(***************************************************************************)
EXTENDS HostDaemon

CONSTANTS
    Client,        \* Desktop, CLI and terminal clients of the state root
    Version,       \* product versions a client may run
    NewProtocol    \* the versions that speak another discovery protocol

ASSUME ProtocolAssumption == NewProtocol \subseteq Version
ASSUME VersionAssumption == Version # {}

VARIABLES
    version,   \* version[p]: product version of the Host p
    step,      \* what each client is about to do
    call,      \* the call it runs
    want,      \* options.version of its last call
    target,    \* the endpoint record the call works on
    attached   \* the Host its last ensureHostDaemon returned, or NoPid

clientVars == <<version, step, call, want, target, attached>>
vars == <<hostVars, clientVars>>

\* ensureHostDaemon attaches only ("attach") or may launch ("ensure"); it goes
\* on to "replace" a Host of another version and to "wait" for the one launched.
Calls == {"none", "attach", "ensure", "replace", "wait", "stop"}
Steps == {"idle", "discover", "probe", "launch", "stopRead", "stopProbe",
          "signal", "poll", "forget"}

At(c, s) == step[c] = s

\* Client c goes on with step s of call k about record p; a finished call keeps
\* neither.
Go(c, s, k, p) ==
    /\ step' = [step EXCEPT ![c] = s]
    /\ call' = [call EXCEPT ![c] = IF s = "idle" THEN "none" ELSE k]
    /\ target' = [target EXCEPT ![c] = IF s = "idle" THEN NoPid ELSE p]

To(c, s) == Go(c, s, call[c], target[c])

Foreign(p, c) == (version[p] \in NewProtocol) # (want[c] \in NewProtocol)

-----------------------------------------------------------------------------
(* ensureHostDaemon                                                        *)

Ensure(c, v, k) ==
    /\ At(c, "idle")
    /\ Go(c, "discover", k, NoPid)
    /\ want' = [want EXCEPT ![c] = v]
    /\ attached' = [attached EXCEPT ![c] = NoPid]
    /\ UNCHANGED <<hostVars, version>>

\* No healthy Host: keep waiting for the one launched, launch one, or fail.
NotReady(c) ==
    CASE call[c] = "wait"   -> "discover"
      [] call[c] = "ensure" -> "launch"
      [] call[c] = "attach" -> "idle"

\* readHostEndpoint, and the protocol check on the record.
Discover(c) ==
    /\ At(c, "discover")
    /\ Go(c, IF endpoint = NoPid THEN NotReady(c)
             ELSE IF Foreign(endpoint, c) THEN "idle" ELSE "probe",
          call[c], endpoint)
    /\ UNCHANGED <<hostVars, version, want, attached>>

\* Mutant: a launcher replaces whatever Host it finds.
StaleAlways(c) == call[c] # "wait"

\* The Host is of another version than this call's.  waitForDaemon does not ask.
Stale(c) == call[c] # "wait" /\ version[target[c]] # want[c]

\* probeHostEndpoint answered: attach, or replace a stale Host, or refuse it.
ProbeReady(c) ==
    /\ At(c, "probe")
    /\ TRUE \in ProbeResults(target[c])
    /\ \/ ~Stale(c) /\ attached' = [attached EXCEPT ![c] = target[c]] /\ To(c, "idle")
       \/ Stale(c) /\ call[c] = "attach" /\ UNCHANGED attached /\ To(c, "idle")
       \/ /\ Stale(c) /\ call[c] = "ensure"
          /\ Go(c, "stopRead", "replace", target[c])
          /\ UNCHANGED attached
    /\ UNCHANGED <<hostVars, version, want>>

ProbeUnhealthy(c) ==
    /\ At(c, "probe")
    /\ FALSE \in ProbeResults(target[c])
    /\ To(c, NotReady(c))
    /\ UNCHANGED <<hostVars, version, want, attached>>

\* spawnDetached: a new process of the client's own version.
Launch(c, p) ==
    /\ At(c, "launch")
    /\ Start(p)
    /\ version' = [version EXCEPT ![p] = want[c]]
    /\ Go(c, "discover", "wait", NoPid)
    /\ UNCHANGED <<want, attached>>

\* Mutant: the failed launch leaves the call in a state of its own.
LaunchFailsStrays(c) ==
    /\ At(c, "launch")
    /\ To(c, "failed")
    /\ UNCHANGED <<hostVars, version, want, attached>>

LaunchFails(c) ==
    /\ At(c, "launch")
    /\ To(c, "idle")
    /\ UNCHANGED <<hostVars, version, want, attached>>

\* Mutant: the deadline is only tested once an endpoint has been seen.
StartTimeoutLate(c) ==
    /\ call[c] = "wait" /\ At(c, "discover")
    /\ endpoint # NoPid
    /\ \A p \in Pid : pc[p] \notin Acquiring
    /\ To(c, "idle")
    /\ UNCHANGED <<hostVars, version, want, attached>>

\* The start budget (30 s) ran out.  It outlasts the file-system calls of a
\* starting process, not the boot of its Host.
StartTimeout(c) ==
    /\ call[c] = "wait" /\ At(c, "discover")
    /\ \A p \in Pid : pc[p] \notin Acquiring
    /\ To(c, "idle")
    /\ UNCHANGED <<hostVars, version, want, attached>>

-----------------------------------------------------------------------------
(* stopHostDaemon                                                          *)

Stop(c) ==
    /\ At(c, "idle")
    /\ Go(c, "stopRead", "stop", NoPid)
    /\ attached' = [attached EXCEPT ![c] = NoPid]
    /\ UNCHANGED <<hostVars, version, want>>

\* A stop that serves a replacement goes on to launch.
Stopped(c) == IF call[c] = "replace" THEN "launch" ELSE "idle"

\* The record is read again; without one the call answers `absent'.
StopRead(c) ==
    /\ At(c, "stopRead")
    /\ Go(c, IF endpoint = NoPid THEN Stopped(c) ELSE "stopProbe", call[c], endpoint)
    /\ UNCHANGED <<hostVars, version, want, attached>>

\* Only a process that answers for its record is going to be sent SIGTERM ...
StopProven(c) ==
    /\ At(c, "stopProbe")
    /\ TRUE \in ProbeResults(target[c])
    /\ To(c, "signal")
    /\ UNCHANGED <<hostVars, version, want, attached>>

StopUnhealthy(c) ==
    /\ At(c, "stopProbe")
    /\ FALSE \in ProbeResults(target[c])
    /\ To(c, "forget")
    /\ UNCHANGED <<hostVars, version, want, attached>>

\* Mutant: the stop does not wait for the process to end.
StopSignalForgets(c) ==
    /\ At(c, "signal")
    /\ To(c, "forget")
    /\ IF Alive(target[c]) THEN Signal(target[c]) ELSE UNCHANGED hostVars
    /\ UNCHANGED <<version, want, attached>>

\* ... and one that ended since is ESRCH, which terminate() ignores.
StopSignal(c) ==
    /\ At(c, "signal")
    /\ To(c, "poll")
    /\ IF Alive(target[c]) THEN Signal(target[c]) ELSE UNCHANGED hostVars
    /\ UNCHANGED <<version, want, attached>>

PollGone(c) ==
    /\ At(c, "poll")
    /\ ~Alive(target[c])
    /\ To(c, "forget")
    /\ UNCHANGED <<hostVars, version, want, attached>>

\* Mutant: the stop gives up without SIGKILL.
PollGivesUp(c) ==
    /\ At(c, "poll")
    /\ To(c, "forget")
    /\ UNCHANGED <<hostVars, version, want, attached>>

\* The stop budget ran out: SIGKILL.
PollTimeout(c) ==
    /\ At(c, "poll")
    /\ Kill(target[c])
    /\ To(c, "forget")
    /\ UNCHANGED <<version, want, attached>>

\* rm(endpoint): whatever record is there by now.
Forget(c) ==
    /\ At(c, "forget")
    /\ endpoint' = NoPid
    /\ To(c, Stopped(c))
    /\ UNCHANGED <<lock, recorded, pc, attempt, seen, published, version, want, attached>>

-----------------------------------------------------------------------------
ClientInit ==
    /\ Init
    /\ version = [p \in Pid |-> CHOOSE v \in Version : TRUE]
    /\ step = [c \in Client |-> "idle"]
    /\ call = [c \in Client |-> "none"]
    /\ want = [c \in Client |-> CHOOSE v \in Version : TRUE]
    /\ target = [c \in Client |-> NoPid]
    /\ attached = [c \in Client |-> NoPid]

\* What a call in progress does of its own accord.
Proceed(c) ==
    \/ Discover(c) \/ ProbeReady(c) \/ ProbeUnhealthy(c)
    \/ (\E p \in Pid : Launch(c, p)) \/ LaunchFails(c)
    \/ StopRead(c) \/ StopProven(c) \/ StopUnhealthy(c) \/ StopSignal(c)
    \/ PollGone(c) \/ PollTimeout(c) \/ Forget(c)

\* With serial starts, a process launched earlier has finished its few
\* file-system calls before the user makes the next call.
UserCall(c) ==
    /\ SerialStarts => \A p \in Pid : pc[p] \notin Acquiring
    /\ Stop(c) \/ \E v \in Version, k \in {"attach", "ensure"} : Ensure(c, v, k)

\* The daemons run, and die; they are started and stopped by clients only.
HostStep(p) == (Run(p) \/ Kill(p) \/ Fault(p)) /\ UNCHANGED clientVars

ClientNext ==
    \/ \E c \in Client : UserCall(c) \/ Proceed(c) \/ StartTimeout(c)
    \/ \E p \in Pid : HostStep(p)

ClientSpec == ClientInit /\ [][ClientNext]_vars

\* Calls and processes keep running.  A wait polls in a loop that tests its
\* deadline on every turn, so a clock that advances ends it: strong fairness.
FairClientSpec ==
    /\ ClientSpec
    /\ \A p \in Pid : WF_vars(Run(p) /\ UNCHANGED clientVars)
    /\ \A c \in Client : WF_vars(Proceed(c)) /\ SF_vars(StartTimeout(c))

-----------------------------------------------------------------------------
ClientTypeOK ==
    /\ TypeOK
    /\ version \in [Pid -> Version]
    /\ step \in [Client -> Steps]
    /\ call \in [Client -> Calls]
    /\ want \in [Client -> Version]
    /\ target \in [Client -> Pid \cup {NoPid}]
    /\ attached \in [Client -> Pid \cup {NoPid}]

\* Attaching never hands a client a Host of another product version.
AttachedVersion ==
    \A c \in Client : attached[c] # NoPid => version[attached[c]] = want[c]

\* A Host is terminated for a replacement only if it runs another version than
\* the launcher that replaces it, although the stop reads the record anew.
ReplacedOnlyWhenStale ==
    \A c \in Client :
        At(c, "signal") /\ call[c] = "replace" => version[target[c]] # want[c]

\* A replacement is sequential and justified: the new Host loads its plugins and
\* database only after the stale one has let go of them.
ReplacesCleanly == OneHost /\ ReplacedOnlyWhenStale

\* When a stop is over, the Host it was aimed at is gone or in its exit handler:
\* what is launched next does not boot beside it.
StoppedIsGone ==
    [][\A c \in Client : At(c, "forget") /\ ~At(c, "forget")' =>
          ~Alive(target[c]) \/ pc[target[c]] \in Exiting]_vars

\* A published Host of the right version that keeps serving is found by every
\* call that attaches.
EnsureFindsHost ==
    \A c \in Client, p \in Pid :
        (At(c, "discover") /\ call[c] \in {"attach", "ensure"} /\ pc[p] \in Serving
              /\ endpoint = p /\ version[p] = want[c])
            ~> (attached[c] = p \/ pc[p] \notin Serving)

\* Every call returns: discovery, replacement, launch, wait and stop.
EveryCallReturns == \A c \in Client : (~At(c, "idle")) ~> At(c, "idle")

\* Every call ends, and with what it was for: the Host that was there, or the end
\* of the Host it stopped.
CallsEndInOrder == EveryCallReturns /\ EnsureFindsHost /\ StoppedIsGone

=============================================================================
