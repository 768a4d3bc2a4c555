-------------------------------- MODULE Releases --------------------------------
(***************************************************************************)
(* hulala update, its download cache, the dependency tree of a package and *)
(* the deferred removal of Windows: distribution/commands.ts, releaseCache *)
(* .ts, dependencies.ts, deferred-uninstall.ts and the archive download of *)
(* packages/distribution.                                                  *)
(*                                                                         *)
(* Commands run one at a time under the operation lock (module Install), so*)
(* there is one command here, and a process that dies gives the lock back. *)
(* The bytes of an archive are a sequence of chunks, each from one build of*)
(* the release: a digest matches when all are of the pinned build.         *)
(***************************************************************************)
EXTENDS Naturals, Sequences, FiniteSets, FiniteSetsExt

CONSTANTS
    Newest,     \* releases are 1..Newest
    Rebuilt,    \* the releases that may be built and uploaded a second time
    Chunks,     \* the length of an archive
    None

ASSUME ReleasesAssumption ==
    /\ Newest \in Nat \ {0} /\ Rebuilt \subseteq 1..Newest /\ Chunks \in Nat \ {0}
    /\ None \notin [1..Chunks -> 1..2]

Version == 1..Newest
Facts == {"sha256", "dataFormat", "manifestSha256"}
Stage == {"modules", "patched", "trimmed", "marker"}

VARIABLES
    objects,    \* the build of each archive that the server holds (0: none)
    pins,       \* the build that the release index names
    stable,     \* its stable channel
    archive,    \* cache/releases/<version>: the archive
    part,       \*     its .part
    sidecar,    \*     the facts in its .json
    active,     \* the installation: version, bytes and dependency tree
    at,         \* where the command is
    kind,       \* "update", "download" (--download-only) or "from" (--from)
    runs,       \* the version of the program that runs the command
    chosen,     \* the release it installs
    conn,       \* the build its connection serves
    tree,       \* runtime/node_modules of the package being prepared
    local,      \* an unpacked package that a user passes with --from
    removal,    \* removal.json
    helper      \* the process that removes the locked files

server == <<objects, pins, stable>>
cache == <<archive, part, sidecar>>
command == <<at, kind, runs, chosen, conn, tree>>
removing == <<removal, helper>>
releases == <<server, cache, active, command, local, removing>>

Whole(b) == [i \in 1..Chunks |-> b]
Nothing == [version |-> 1, pin |-> 1, lock |-> FALSE, pack |-> FALSE]

-----------------------------------------------------------------------------
(* The publisher: an archive is uploaded before the index names it.        *)

Upload(v) ==
    /\ v \in {stable, stable + 1} \cap Version
    /\ objects[v] < IF v \in Rebuilt THEN 2 ELSE 1
    /\ objects' = [objects EXCEPT ![v] = @ + 1]
    /\ UNCHANGED <<pins, stable, cache, active, command, local, removing>>

Promote(v) ==
    /\ v >= stable
    /\ objects[v] > pins[v]
    /\ pins' = [pins EXCEPT ![v] = objects[v]]
    /\ stable' = v
    /\ UNCHANGED <<objects, cache, active, command, local, removing>>

-----------------------------------------------------------------------------
(* A command begins and ends                                               *)

Goto(label) == at' = label
Idle ==
    /\ at' = "idle" /\ kind' = "update" /\ runs' = 1
    /\ chosen' = Nothing /\ conn' = 0 /\ tree' = {}

\* An error, or the death of the process: the temporary directory goes, and the lock.
Fails == at # "idle" /\ Idle /\ UNCHANGED <<server, cache, active, local, removing>>

\* Mutant: a command does not look for removal.json.
UnreservedUnchecked == removal \in {"none", "reserved"}
Unreserved == removal = "none"

\* A terminal may still run a version that another one has replaced.
Start(k, v) ==
    /\ at = "idle" /\ Unreserved
    /\ active # None /\ v <= active.version
    /\ kind' = k /\ runs' = v /\ at' = "select"
    /\ UNCHANGED <<server, cache, active, chosen, conn, tree, local, removing>>

\* A user, or install.sh, unpacks the archive of a release.
Unpacked ==
    /\ at = "idle"
    /\ local' = [version |-> stable, pin |-> pins[stable], tree |-> {}]
    /\ UNCHANGED <<server, cache, active, command, removing>>

\* hulala install --from <package>, with or without the lock of the release.
StartFrom(lock, pack) ==
    /\ at = "idle" /\ Unreserved /\ local # None
    /\ kind' = "from" /\ runs' = local.version
    /\ chosen' = [version |-> local.version, pin |-> local.pin, lock |-> lock, pack |-> pack]
    /\ tree' = local.tree /\ at' = "depend"
    /\ UNCHANGED <<server, cache, active, conn, local, removing>>

-----------------------------------------------------------------------------
(* Which release                                                           *)

CachedReleases == {v \in Version : archive[v] # None /\ "sha256" \in sidecar[v]}

Chosen(reachable, pack) ==
    IF CachedReleases # {} /\ (~reachable \/ Max(CachedReleases) >= stable)
    THEN [version |-> Max(CachedReleases), pin |-> archive[Max(CachedReleases)][1],
          lock |-> FALSE, pack |-> FALSE]
    ELSE [version |-> stable, pin |-> pins[stable], lock |-> TRUE, pack |-> pack]

\* A cached release is a file already, also to --download-only.
Select(reachable, pack) ==
    /\ at = "select"
    /\ reachable \/ CachedReleases # {}
    /\ LET release == Chosen(reachable, pack)
       IN  IF release.version <= runs
           THEN Idle
           ELSE /\ chosen' = release
                /\ Goto(IF release.lock THEN "fetch" ELSE "unpack")
                /\ UNCHANGED <<kind, runs, conn, tree>>
    /\ UNCHANGED <<server, cache, active, local, removing>>

Unreachable == at = "select" /\ CachedReleases = {} /\ Fails

-----------------------------------------------------------------------------
(* cachedArchive and downloadArchive                                       *)

it == chosen.version
\* Mutant: a file of the right length is taken for the release.
VerifiedByLength(bytes) == Len(bytes) = Chunks
Verified(bytes) == bytes = Whole(chosen.pin)

AfterFetch == IF kind = "download" THEN "end" ELSE "unpack"

Fetch ==
    /\ at = "fetch"
    /\ IF archive[it] # None /\ Verified(archive[it])
       THEN Goto(AfterFetch) /\ UNCHANGED archive
       ELSE Goto("request") /\ archive' = [archive EXCEPT ![it] = None]
    /\ UNCHANGED <<server, part, sidecar, active, kind, runs, chosen, conn, tree, local, removing>>

\* The server continues the part, or (200) sends everything again.
Answered(afresh) ==
    /\ at = "request"
    /\ afresh \/ Len(part[it]) < Chunks
    /\ part' = IF afresh THEN [part EXCEPT ![it] = <<>>] ELSE part
    /\ conn' = objects[it]
    /\ Goto("transfer")
    /\ UNCHANGED <<server, archive, sidecar, active, kind, runs, chosen, tree, local, removing>>

Discard == part' = [part EXCEPT ![it] = <<>>]

\* 416, or another offset: the part goes, and the command fails.
ResumeRefused ==
    /\ at = "request" /\ part[it] # <<>>
    /\ Discard /\ Idle
    /\ UNCHANGED <<server, archive, sidecar, active, local, removing>>

\* curl takes the 416 for a complete part.
CurlComplete ==
    /\ at = "request" /\ Len(part[it]) = Chunks
    /\ Goto("transfer")
    /\ UNCHANGED <<server, cache, active, kind, runs, chosen, conn, tree, local, removing>>

Chunk ==
    /\ at = "transfer" /\ Len(part[it]) < Chunks
    /\ part' = [part EXCEPT ![it] = Append(@, conn)]
    /\ UNCHANGED <<server, archive, sidecar, active, command, local, removing>>

\* Mutant: no stall timer runs while a body is read.
StalledConnecting == at = "request" /\ Fails
\* No connection, no chunk for 90 seconds: the part is kept.
Stalled == at \in {"request", "transfer"} /\ Fails

\* The body ends before the length the server announced.
Short ==
    /\ at = "transfer" /\ Len(part[it]) < Chunks
    /\ Discard /\ Idle
    /\ UNCHANGED <<server, archive, sidecar, active, local, removing>>

Received ==
    /\ at = "transfer" /\ Len(part[it]) = Chunks
    /\ Discard
    /\ IF Verified(part[it])
       THEN /\ archive' = [archive EXCEPT ![it] = part[it]]
            /\ Goto("sidecar")
            /\ UNCHANGED <<kind, runs, chosen, conn, tree>>
       ELSE Idle /\ UNCHANGED archive
    /\ UNCHANGED <<server, sidecar, active, local, removing>>

\* The facts that the caller of cachedArchive passes; a failed write is ignored.
WriteSidecar(written) ==
    /\ at = "sidecar"
    /\ sidecar' = IF written THEN [sidecar EXCEPT ![it] = Facts \ {"sha256"}] ELSE sidecar
    /\ Goto(AfterFetch)
    /\ UNCHANGED <<server, archive, part, active, kind, runs, chosen, conn, tree, local, removing>>

Ready == at = "end" /\ Idle /\ UNCHANGED <<server, cache, active, local, removing>>

Unpack ==
    /\ at = "unpack"
    /\ archive[it] # None /\ Verified(archive[it])
    /\ Goto("depend")
    /\ UNCHANGED <<server, cache, active, kind, runs, chosen, conn, tree, local, removing>>

-----------------------------------------------------------------------------
(* ensureRuntimeDependencies                                               *)

\* The tree is made inside the package: a package passed with --from keeps it.
Kept(done) == local' = IF kind = "from" THEN [local EXCEPT !.tree = done] ELSE local
Tree(done) ==
    /\ tree' = done
    /\ Kept(done)
    /\ UNCHANGED <<server, cache, active, kind, runs, chosen, conn, removing>>

Present == at = "depend" /\ "marker" \in tree /\ Goto("activate") /\ Tree(tree)
NoLock == at = "depend" /\ "marker" \notin tree /\ ~chosen.lock /\ Fails
FetchLock ==
    /\ at = "depend" /\ "marker" \notin tree /\ chosen.lock
    /\ Goto("npm") /\ Tree({})

Npm == at = "npm" /\ Goto("patch") /\ Tree({"modules"})
\* Every registry failed, and may have left some of the tree.
NpmFails(left) == at = "npm" /\ Goto("pack") /\ Tree(left)
Patch == at = "patch" /\ Goto("trim") /\ Tree(tree \cup {"patched"})
Trim == at = "trim" /\ Goto("mark") /\ Tree(tree \cup {"trimmed"})

\* Mutant: a tar that fails is not noticed.
PackUnnoticed == at = "pack" /\ chosen.pack /\ Goto("mark") /\ Tree({"modules"})
\* The published tree of the release, which replaces what npm has left.
Pack == at = "pack" /\ chosen.pack /\ Goto("mark") /\ Tree({"modules", "patched", "trimmed"})
PackFails ==
    /\ at = "pack" /\ chosen.pack
    /\ Idle /\ Kept({"modules"})
    /\ UNCHANGED <<server, cache, active, removing>>
NoPack == at = "pack" /\ ~chosen.pack /\ Fails

Mark == at = "mark" /\ Goto("activate") /\ Tree(tree \cup {"marker"})

-----------------------------------------------------------------------------
(* Activation (module Install) and what follows it                         *)

\* A user's own package is what it is: unpacking has verified the others.
Activate ==
    /\ at = "activate"
    /\ active' = [version |-> it, tree |-> tree,
                  bytes |-> IF kind = "from" THEN Whole(chosen.pin) ELSE archive[it]]
    /\ Goto("prune")
    /\ UNCHANGED <<server, cache, kind, runs, chosen, conn, tree, local, removing>>

\* Mutant: a directory without an archive is passed over.
ObsoleteArchives == {v \in Version \ {active.version} : archive[v] # None}
\* What a cache holds besides the installed release.
Obsolete == {v \in Version \ {active.version} : archive[v] # None \/ part[v] # <<>> \/ sidecar[v] # {}}

PruneCached(v) ==
    /\ at = "prune" /\ v \in Obsolete
    /\ archive' = [archive EXCEPT ![v] = None]
    /\ part' = [part EXCEPT ![v] = <<>>]
    /\ sidecar' = [sidecar EXCEPT ![v] = {}]
    /\ UNCHANGED <<server, active, command, local, removing>>

PruneEnds ==
    /\ at = "prune" /\ Obsolete = {}
    /\ part' = [part EXCEPT ![active.version] = <<>>]
    /\ Goto("done")
    /\ UNCHANGED <<server, archive, sidecar, active, kind, runs, chosen, conn, tree, local, removing>>

Report == at = "done" /\ Idle /\ UNCHANGED <<server, cache, active, local, removing>>

-----------------------------------------------------------------------------
(* The deferred removal: a helper waits for the command to exit            *)

Schedule ==
    /\ at = "idle" /\ Unreserved /\ active # None /\ helper = "none"
    /\ removal' = "reserved" /\ helper' = "waiting"
    /\ UNCHANGED <<server, cache, active, command, local>>

\* It takes the operation lock, and the installation goes.
HelperRemoves ==
    /\ at = "idle" /\ helper = "waiting"
    /\ active' = None /\ helper' = "removed"
    /\ UNCHANGED <<server, cache, command, local, removal>>

\* The launcher outlives the minute, the lock is held, or a file cannot be removed.
HelperFails ==
    /\ helper = "waiting" /\ helper' = "failed"
    /\ UNCHANGED <<server, cache, active, command, local, removal>>

\* Mutant: the reservation is dropped on success only.
HelperEndsRemoved ==
    /\ helper \in {"removed", "failed"}
    /\ removal' = IF helper = "removed" THEN "none" ELSE removal
    /\ helper' = IF helper = "removed" THEN "none" ELSE helper
    /\ UNCHANGED <<server, cache, active, command, local>>
HelperEnds ==
    /\ helper \in {"removed", "failed"}
    /\ removal' = "none" /\ helper' = "none"
    /\ UNCHANGED <<server, cache, active, command, local>>

HelperDies ==
    /\ helper # "none" /\ helper' = "dead"
    /\ UNCHANGED <<server, cache, active, command, local, removal>>

-----------------------------------------------------------------------------
ReleasesInit ==
    /\ objects = [v \in Version |-> IF v = 1 THEN 1 ELSE 0]
    /\ pins = objects /\ stable = 1
    /\ archive = [v \in Version |-> None]
    /\ part = [v \in Version |-> <<>>]
    /\ sidecar = [v \in Version |-> {}]
    /\ active = [version |-> 1, bytes |-> Whole(1), tree |-> Stage]
    /\ at = "idle" /\ kind = "update" /\ runs = 1
    /\ chosen = Nothing /\ conn = 0 /\ tree = {}
    /\ local = None /\ removal = "none" /\ helper = "none"

Download ==
    \/ Fetch \/ ResumeRefused \/ CurlComplete \/ Received \/ Ready
    \/ \E afresh \in BOOLEAN : Answered(afresh)
    \/ \E written \in BOOLEAN : WriteSidecar(written)

Dependencies ==
    \/ Present \/ NoLock \/ FetchLock \/ Npm \/ Patch \/ Trim \/ Pack \/ PackFails \/ NoPack \/ Mark
    \/ \E left \in {{}, {"modules"}} : NpmFails(left)

Finish == Activate \/ PruneEnds \/ Report \/ \E v \in Version : PruneCached(v)

Removal == HelperRemoves \/ HelperFails \/ HelperEnds

\* What needs neither a user nor bytes from the network.
Command ==
    \/ \E reachable, pack \in BOOLEAN : Select(reachable, pack)
    \/ Unreachable \/ Download \/ Stalled \/ Unpack \/ Dependencies \/ Finish

ReleasesNext ==
    \/ \E v \in Version : Upload(v) \/ Promote(v)
    \/ \E k \in {"update", "download"}, v \in Version : Start(k, v)
    \/ Unpacked \/ \E lock, pack \in BOOLEAN : StartFrom(lock, pack)
    \/ Command \/ Chunk \/ Short \/ Fails
    \/ Schedule \/ Removal \/ HelperDies

ReleasesSpec ==
    /\ ReleasesInit /\ [][ReleasesNext]_releases
    /\ WF_releases(Command) /\ WF_releases(Removal)

-----------------------------------------------------------------------------
(* Properties                                                              *)

ReleasesTypeOK ==
    /\ objects \in [Version -> 0..2] /\ pins \in [Version -> 0..2] /\ stable \in Version
    /\ \A v \in Version :
        /\ archive[v] = None \/ archive[v] \in [1..Chunks -> 1..2]
        /\ Len(part[v]) <= Chunks
        /\ sidecar[v] \subseteq Facts
    /\ tree \subseteq Stage /\ local # None => local.tree \subseteq Stage

\* An archive in the cache is one build of its release, and one that the index named:
\* parts resumed across builds never end as an archive (archive.ts, downloadArchive).
CachedIsOneBuild ==
    \A v \in Version : archive[v] # None => \E b \in 1..pins[v] : archive[v] = Whole(b)

\* What is installed is a build that the index named, with a dependency tree that has
\* gone through every stage, whichever way it came and whatever failed before.
InstalledIsWhole ==
    active # None => /\ active.tree = Stage
                     /\ \E b \in 1..pins[active.version] : active.bytes = Whole(b)

\* When an update reports success the cache holds no other release, not even a part.
InstallPrunes ==
    at = "done" => \A v \in Version :
        /\ part[v] = <<>>
        /\ v # active.version => archive[v] = None /\ sidecar[v] = {}

\* From the reservation of a deferred removal until its end, no command changes the
\* installation under the helper (commands.ts:302).
ReservationHolds ==
    [][removal = "reserved" /\ removal' = "reserved" => active' = active \/ active' = None]_releases

\* A command ends, however the network behaves.
CommandEnds == at # "idle" ~> at = "idle"

\* A reservation ends with its helper, unless the helper is killed.
ReservationEnds == removal = "reserved" ~> removal = "none" \/ helper = "dead"

\* A package that was downloaded for this machine and is newer than the program can be
\* installed without the index (releaseCache.ts:8-9).
InstallsOffline ==
    [][Unreachable => ~\E v \in Version : v > runs /\ archive[v] # None]_releases

=============================================================================
