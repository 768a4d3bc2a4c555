----------------------------- MODULE HostDaemon -----------------------------
(***************************************************************************)
(* Single-instance ownership of one Hulala state root: the `--daemon`      *)
(* processes of apps/server/src/main.ts and the two files they share,      *)
(* host.lock and endpoint.json (apps/server/src/daemon.ts).                *)
(*                                                                         *)
(* A member of Pid is one process, from its start to its end; pids are not *)
(* reused.  Every awaited file-system call is a step of its own, so any    *)
(* other process may run between a read and the unlink it decided on, and  *)
(* between the creation of the lock and the writing of its record.         *)
(***************************************************************************)
EXTENDS Naturals

CONSTANTS
    Pid,              \* processes that may ever be started with --daemon
    NoPid,            \* absent file, or a record that cannot be read
    SerialStarts,     \* TRUE: no process is started while another acquires
    ProbeMayTimeout   \* TRUE: a live Host may miss the /health budget

ASSUME PidAssumption == NoPid \notin Pid
ASSUME ModeAssumption == SerialStarts \in BOOLEAN /\ ProbeMayTimeout \in BOOLEAN

MaxAttempts == 3

VARIABLES
    lock,       \* the process that created the present host.lock, or NoPid
    recorded,   \* recorded[p]: p wrote its record into the lock it created
    endpoint,   \* the pid of the record in endpoint.json, or NoPid
    pc,         \* what each process is about to do
    attempt,    \* turns of the acquire loop each process has spent
    seen,       \* the endpoint record a refused start read
    published   \* published[p]: p published, and installed its exit handler

hostVars == <<lock, recorded, endpoint, pc, attempt, seen, published>>

-----------------------------------------------------------------------------
(* Phases of one process.                                                  *)

Acquiring == {"open", "read", "reap", "write"}
Refused   == {"refused", "probe"}
Serving   == {"serve"}
Disposing == {"clearRead", "clearUnlink", "releaseRead", "releaseUnlink"}
Exiting   == {"exitEndpoint", "exitEndpointUnlink", "exitLock", "exitLockUnlink"}
Ended     == {"exited", "reported", "conflict", "killed"}

Phase == {"off"} \cup Acquiring \cup Refused \cup Serving \cup Disposing
         \cup Exiting \cup Ended \cup {"boot", "publish", "register", "teardown"}

Alive(p) == pc[p] \notin {"off"} \cup Ended

\* The process holds the daemon role: from creating the lock to giving it back.
Owner(p) == pc[p] \in {"write", "boot", "publish", "register"} \cup Serving \cup Disposing

\* Plugins, cron and the product database are loaded, or are being loaded.
Loaded(p) ==
    \/ pc[p] \in {"boot", "publish", "register", "teardown"} \cup Serving
    \/ pc[p] \in Disposing /\ published[p]

\* The HTTP transport is up: after the boot, until handle.stop().
Answers(p) ==
    \/ pc[p] \in {"publish", "register"} \cup Serving
    \/ pc[p] \in Disposing /\ published[p]

\* What readLock returns: an absent or still unwritten lock has no owner.
LockRecord == IF lock # NoPid /\ recorded[lock] THEN lock ELSE NoPid

\* What probeHostEndpoint can return for a record that names p.
ProbeResults(p) == {Answers(p)} \cup (IF ProbeMayTimeout THEN {FALSE} ELSE {})

Goto(p, phase) == pc' = [pc EXCEPT ![p] = phase]

-----------------------------------------------------------------------------
(* acquireHostDaemonLock                                                   *)

Start(p) ==
    /\ pc[p] = "off"
    /\ SerialStarts => \A q \in Pid : pc[q] \notin Acquiring
    /\ Goto(p, "open")
    /\ UNCHANGED <<lock, recorded, endpoint, attempt, seen, published>>

\* open(lock, 'wx') creates an empty file ...
CreateLock(p) ==
    /\ pc[p] = "open"
    /\ lock = NoPid
    /\ lock' = p
    /\ Goto(p, "write")
    /\ UNCHANGED <<recorded, endpoint, attempt, seen, published>>

\* ... or fails with EEXIST.
FindLock(p) ==
    /\ pc[p] = "open"
    /\ lock # NoPid
    /\ Goto(p, "read")
    /\ UNCHANGED <<lock, recorded, endpoint, attempt, seen, published>>

\* Mutant: the holder's liveness is not consulted, every lock is reaped.
JudgeLockReapsAll(p) ==
    /\ pc[p] = "read"
    /\ Goto(p, "reap")
    /\ UNCHANGED <<lock, recorded, endpoint, attempt, seen, published>>

\* Mutant: the holder's liveness is not consulted, every readable lock counts.
JudgeLockTrustsAll(p) ==
    /\ pc[p] = "read"
    /\ Goto(p, IF LockRecord \in Pid THEN "refused" ELSE "reap")
    /\ UNCHANGED <<lock, recorded, endpoint, attempt, seen, published>>

\* A readable lock of a live process is respected; every other lock is reaped.
JudgeLock(p) ==
    /\ pc[p] = "read"
    /\ Goto(p, IF LockRecord \in Pid /\ Alive(LockRecord) THEN "refused" ELSE "reap")
    /\ UNCHANGED <<lock, recorded, endpoint, attempt, seen, published>>

\* unlink removes whatever file has the name by now.
ReapLock(p) ==
    /\ pc[p] = "reap"
    /\ lock' = NoPid
    /\ attempt' = [attempt EXCEPT ![p] = @ + 1]
    /\ Goto(p, IF attempt[p] + 1 < MaxAttempts THEN "open" ELSE "refused")
    /\ UNCHANGED <<recorded, endpoint, seen, published>>

\* The record goes into the file p created, which may have been unlinked since.
WriteLock(p) ==
    /\ pc[p] = "write"
    /\ recorded' = [recorded EXCEPT ![p] = TRUE]
    /\ Goto(p, "boot")
    /\ UNCHANGED <<lock, endpoint, attempt, seen, published>>

-----------------------------------------------------------------------------
(* prepareHostDaemon for a start that did not get the lock                 *)

ReadRival(p) ==
    /\ pc[p] = "refused"
    /\ seen' = [seen EXCEPT ![p] = endpoint]
    /\ Goto(p, IF endpoint = NoPid THEN "conflict" ELSE "probe")
    /\ UNCHANGED <<lock, recorded, endpoint, attempt, published>>

ProbeRival(p) ==
    /\ pc[p] = "probe"
    /\ \E ok \in ProbeResults(seen[p]) : Goto(p, IF ok THEN "reported" ELSE "conflict")
    /\ UNCHANGED <<lock, recorded, endpoint, attempt, seen, published>>

-----------------------------------------------------------------------------
(* createDesktopHost and publish                                           *)

BootHost(p) ==
    /\ pc[p] = "boot"
    /\ Goto(p, "publish")
    /\ UNCHANGED <<lock, recorded, endpoint, attempt, seen, published>>

\* A failed boot disposes the lifecycle, which published nothing yet.
FailBoot(p) ==
    /\ pc[p] = "boot"
    /\ Goto(p, "releaseRead")
    /\ UNCHANGED <<lock, recorded, endpoint, attempt, seen, published>>

\* writePrivateJson renames a complete record into place.
PublishEndpoint(p) ==
    /\ pc[p] = "publish"
    /\ endpoint' = p
    /\ Goto(p, "register")
    /\ UNCHANGED <<lock, recorded, attempt, seen, published>>

\* The exit handler, and then main's signal handlers, are installed.
RegisterHandlers(p) ==
    /\ pc[p] = "register"
    /\ published' = [published EXCEPT ![p] = TRUE]
    /\ Goto(p, "serve")
    /\ UNCHANGED <<lock, recorded, endpoint, attempt, seen>>

-----------------------------------------------------------------------------
(* stop: the lifecycle is disposed before the runtime is torn down         *)

\* SIGTERM or SIGINT.  Before RegisterHandlers, and once the handler has been
\* consumed, the default action ends the process with its files in place.
Signal(p) ==
    /\ Alive(p)
    /\ Goto(p, IF pc[p] \in Serving THEN "clearRead" ELSE "killed")
    /\ UNCHANGED <<lock, recorded, endpoint, attempt, seen, published>>

\* SIGKILL, a power failure, or an error before the exit handler is installed.
Kill(p) ==
    /\ Alive(p)
    /\ Goto(p, "killed")
    /\ UNCHANGED <<lock, recorded, endpoint, attempt, seen, published>>

\* Mutant: a stop gives the lock back without clearing the endpoint.
ReadOwnEndpointSkips(p) ==
    /\ pc[p] = "clearRead"
    /\ Goto(p, "releaseRead")
    /\ UNCHANGED <<lock, recorded, endpoint, attempt, seen, published>>

\* clearHostEndpoint reads, and spares only a record of another process ...
ReadOwnEndpoint(p) ==
    /\ pc[p] = "clearRead"
    /\ Goto(p, IF endpoint \in {p, NoPid} THEN "clearUnlink" ELSE "releaseRead")
    /\ UNCHANGED <<lock, recorded, endpoint, attempt, seen, published>>

\* ... and then unlinks by name.
ClearEndpoint(p) ==
    /\ pc[p] = "clearUnlink"
    /\ endpoint' = NoPid
    /\ Goto(p, "releaseRead")
    /\ UNCHANGED <<lock, recorded, attempt, seen, published>>

\* After release() a stopping Host tears its runtime down; one whose boot
\* failed has nothing left to stop.
AfterRelease(p) == IF published[p] THEN "teardown" ELSE "exited"

ReadOwnLock(p) ==
    /\ pc[p] = "releaseRead"
    /\ Goto(p, IF LockRecord = p THEN "releaseUnlink" ELSE AfterRelease(p))
    /\ UNCHANGED <<lock, recorded, endpoint, attempt, seen, published>>

ReleaseLock(p) ==
    /\ pc[p] = "releaseUnlink"
    /\ lock' = NoPid
    /\ Goto(p, AfterRelease(p))
    /\ UNCHANGED <<recorded, endpoint, attempt, seen, published>>

\* Mutant: the process enters a phase the program does not have.
TeardownStrays(p) ==
    /\ pc[p] = "teardown"
    /\ Goto(p, "stopped")
    /\ UNCHANGED <<lock, recorded, endpoint, attempt, seen, published>>

\* handle.stop(), then process.exit(0); a rejection ends the process too.
Teardown(p) ==
    /\ pc[p] = "teardown"
    /\ Goto(p, "exitEndpoint")
    /\ UNCHANGED <<lock, recorded, endpoint, attempt, seen, published>>

\* An uncaught error of a published Host also runs the exit handler.
Fault(p) ==
    /\ pc[p] \in Serving \cup Disposing \cup {"teardown"}
    /\ published[p]
    /\ Goto(p, "exitEndpoint")
    /\ UNCHANGED <<lock, recorded, endpoint, attempt, seen, published>>

-----------------------------------------------------------------------------
(* The exit handler: unlinkOwnedSync(endpoint), unlinkOwnedSync(lock)      *)

\* Mutants: the exit handler unlinks files without looking whose they are.
ExitEndpointUnowned(p) ==
    /\ pc[p] = "exitEndpoint"
    /\ Goto(p, "exitEndpointUnlink")
    /\ UNCHANGED <<lock, recorded, endpoint, attempt, seen, published>>

ExitLockUnowned(p) ==
    /\ pc[p] = "exitLock"
    /\ Goto(p, "exitLockUnlink")
    /\ UNCHANGED <<lock, recorded, endpoint, attempt, seen, published>>

ExitReadEndpoint(p) ==
    /\ pc[p] = "exitEndpoint"
    /\ Goto(p, IF endpoint = p THEN "exitEndpointUnlink" ELSE "exitLock")
    /\ UNCHANGED <<lock, recorded, endpoint, attempt, seen, published>>

ExitUnlinkEndpoint(p) ==
    /\ pc[p] = "exitEndpointUnlink"
    /\ endpoint' = NoPid
    /\ Goto(p, "exitLock")
    /\ UNCHANGED <<lock, recorded, attempt, seen, published>>

ExitReadLock(p) ==
    /\ pc[p] = "exitLock"
    /\ Goto(p, IF LockRecord = p THEN "exitLockUnlink" ELSE "exited")
    /\ UNCHANGED <<lock, recorded, endpoint, attempt, seen, published>>

ExitUnlinkLock(p) ==
    /\ pc[p] = "exitLockUnlink"
    /\ lock' = NoPid
    /\ Goto(p, "exited")
    /\ UNCHANGED <<recorded, endpoint, attempt, seen, published>>

-----------------------------------------------------------------------------
Init ==
    /\ lock = NoPid
    /\ recorded = [p \in Pid |-> FALSE]
    /\ endpoint = NoPid
    /\ pc = [p \in Pid |-> "off"]
    /\ attempt = [p \in Pid |-> 0]
    /\ seen = [p \in Pid |-> NoPid]
    /\ published = [p \in Pid |-> FALSE]

Acquire(p) == CreateLock(p) \/ FindLock(p) \/ JudgeLock(p) \/ ReapLock(p) \/ WriteLock(p)
Refuse(p)  == ReadRival(p) \/ ProbeRival(p)
Boot(p)    == BootHost(p) \/ FailBoot(p) \/ PublishEndpoint(p) \/ RegisterHandlers(p)
Dispose(p) == ReadOwnEndpoint(p) \/ ClearEndpoint(p) \/ ReadOwnLock(p) \/ ReleaseLock(p)
Exit(p)    == Teardown(p) \/ ExitReadEndpoint(p) \/ ExitUnlinkEndpoint(p)
              \/ ExitReadLock(p) \/ ExitUnlinkLock(p)

\* What a process does of its own accord; the rest is done to it.
Run(p) == Acquire(p) \/ Refuse(p) \/ Boot(p) \/ Dispose(p) \/ Exit(p)

Next == \E p \in Pid : Start(p) \/ Run(p) \/ Signal(p) \/ Kill(p) \/ Fault(p)

Spec == Init /\ [][Next]_hostVars

\* A process that is not killed keeps running; nobody has to start or stop one.
FairSpec == Spec /\ \A p \in Pid : WF_hostVars(Run(p))

-----------------------------------------------------------------------------
TypeOK ==
    /\ lock \in Pid \cup {NoPid}
    /\ recorded \in [Pid -> BOOLEAN]
    /\ endpoint \in Pid \cup {NoPid}
    /\ pc \in [Pid -> Phase]
    /\ attempt \in [Pid -> 0..MaxAttempts]
    /\ seen \in [Pid -> Pid \cup {NoPid}]
    /\ published \in [Pid -> BOOLEAN]

\* One process at a time holds the daemon role, across crashes at any point,
\* stale locks, failed boots and stops (acquireHostDaemonLock, release).
OneOwner == \A p, q \in Pid : Owner(p) /\ Owner(q) => p = q

\* A serving Host can be found: nobody removed or replaced its endpoint, and
\* its lock still names it (clearHostEndpoint, unlinkOwnedSync, unlink of a
\* stale lock).
ServingIsPublished ==
    \A p \in Pid : pc[p] \in Serving => endpoint = p /\ LockRecord = p

\* A client that reads the endpoint can connect at once: the record never names
\* a running process whose transport is not up, apart from one already on its
\* way out (publish after the boot, dispose before handle.stop()).
PublishedAnswers ==
    \A p \in Pid : endpoint = p /\ Alive(p) => Answers(p) \/ pc[p] \in Exiting

\* The endpoint can be trusted in both directions: a serving Host is named by it,
\* and the running process it names can be connected to.
FoundWhileServing == ServingIsPublished /\ PublishedAnswers

\* A start is turned away only while another process is alive and holds, or is
\* leaving, the role: a dead holder's files never block the next start.
RefusedByTheLiving ==
    [][\A p \in Pid : pc[p] \in Acquiring /\ pc'[p] \in Refused =>
          \E q \in Pid \ {p} : Owner(q) \/ pc[q] \in Exiting]_hostVars

\* The first start after everybody died gets the role, whatever files the dead
\* left behind.
NextStartRecovers ==
    \A p \in Pid :
        (pc[p] = "open" /\ \A q \in Pid \ {p} : ~Alive(q))
            ~> (Owner(p) \/ pc[p] = "killed")

\* A second start beside a Host that goes on serving reports that Host.
SecondStartReports ==
    \A p, q \in Pid :
        (pc[p] = "open" /\ pc[q] \in Serving)
            ~> (pc[p] \in {"reported", "killed"} \/ pc[q] \notin Serving)

\* No process removes or replaces the lock of another process that is alive.
NeverStolen ==
    [][\A p \in Pid : lock = p /\ Owner(p) /\ lock' # p =>
          pc[p] = "releaseUnlink" /\ pc'[p] # pc[p]]_hostVars

\* The role is never lost: a start is refused by the living only, the lock of the
\* living is never taken, a start after the last death gets the role and a start
\* beside a serving Host ends by reporting it.
RoleRecovered ==
    RefusedByTheLiving /\ NeverStolen /\ NextStartRecovers /\ SecondStartReports

\* No two processes have the Host's plugins and database loaded.
OneHost == \A p, q \in Pid : Loaded(p) /\ Loaded(q) => p = q

-----------------------------------------------------------------------------
(* The lock and the endpoint implement the abstract role.                  *)

Owners == {p \in Pid : Owner(p)}

RoleOwner == IF Owners = {} THEN NoPid ELSE CHOOSE p \in Owners : TRUE

Role == INSTANCE HostRole WITH owner <- RoleOwner, advertised <- endpoint

\* One process at a time plays the role, and only it publishes or withdraws.
ImplementsRole == Role!RoleSpec

=============================================================================
