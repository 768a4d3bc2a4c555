------------------------------- MODULE Installer -------------------------------
(***************************************************************************)
(* install.sh, rendered by scripts/release/installScriptTemplate.ts: the   *)
(* private Node.js, the download from two sources, and the hand-over to    *)
(* `hulala install --from`.  It may be killed between any two steps.       *)
(*                                                                         *)
(* The digest the script carries is that of build 1; a source may serve    *)
(* another one.  Chunks as in Releases.                                    *)
(***************************************************************************)
EXTENDS Naturals, Sequences

CONSTANTS
    Release,    \* the releases, 1 ..
    Node,       \* builds of Node.js in the release line
    Chunks,     \* the length of an archive
    Attempts    \* three rounds of two sources

ASSUME InstallerAssumption ==
    /\ Release \subseteq Nat \ {0}
    /\ Chunks \in Nat \ {0} /\ Attempts \in Nat \ {0}
    /\ "none" \notin Node

VARIABLES
    script,     \* where the script is
    renders,    \* the release it was rendered for
    unpacked,   \* runtime/node: how much of each build is there
    current,    \*     CURRENT
    entry,      \*     its scripts: a subset of {"node", "npm"}
    fetching,   \* the build of Node.js being installed
    work,       \* the archive in the temporary directory
    attempt,
    installed   \* the active version, 0 if there is none

nodeVars == <<unpacked, current, entry, fetching>>
installer == <<script, renders, nodeVars, work, attempt, installed>>

Goto(label) == script' = label
Exit ==
    /\ script' = "idle" /\ renders' = 0 /\ fetching' = "none"
    /\ work' = <<>> /\ attempt' = 1

\* An error, a signal or a kill; the trap removes the temporary directory.
Stops == script # "idle" /\ Exit /\ UNCHANGED <<unpacked, current, entry, installed>>

Run(v) ==
    /\ script = "idle" /\ Goto("check") /\ renders' = v
    /\ UNCHANGED <<nodeVars, work, attempt, installed>>

\* An equal version is started, or repaired when its command is missing; a newer one is
\* left alone.
check_installed(command) ==
    /\ script = "check"
    /\ IF installed > renders \/ (installed = renders /\ command)
       THEN Exit /\ UNCHANGED <<unpacked, current, entry, installed>>
       ELSE Goto("node") /\ UNCHANGED <<renders, nodeVars, work, attempt, installed>>

-----------------------------------------------------------------------------
(* Node.js                                                                 *)

node_bin_root == current # "none" /\ "node" \in entry

\* A usable Node.js of the machine, or the private one.
check_node(usable) ==
    /\ script = "node" /\ (usable \/ node_bin_root)
    /\ Goto("download")
    /\ UNCHANGED <<renders, nodeVars, work, attempt, installed>>

\* The user agrees, and the archive matched its published digest.
install_node(n) ==
    /\ script = "node" /\ ~node_bin_root
    /\ fetching' = n
    /\ unpacked' = [unpacked EXCEPT ![n] = "partly"]
    /\ Goto("tar")
    /\ UNCHANGED <<renders, current, entry, work, attempt, installed>>

\* Mutant: the script goes on when tar fails.
UntarredOrNot ==
    /\ script = "tar"
    /\ unpacked' \in {unpacked, [unpacked EXCEPT ![fetching] = "whole"]}
    /\ Goto("point")
    /\ UNCHANGED <<renders, current, entry, fetching, work, attempt, installed>>
Untarred ==
    /\ script = "tar"
    /\ unpacked' = [unpacked EXCEPT ![fetching] = "whole"]
    /\ Goto("point")
    /\ UNCHANGED <<renders, current, entry, fetching, work, attempt, installed>>

Point ==
    /\ script = "point"
    /\ current' = fetching
    /\ Goto("clear")
    /\ UNCHANGED <<renders, unpacked, entry, fetching, work, attempt, installed>>

\* Every other directory goes, also bin/.
Others == {n \in Node \ {fetching} : unpacked[n] # "none"}
ClearBuild(n) ==
    /\ script = "clear" /\ n \in Others
    /\ unpacked' = [unpacked EXCEPT ![n] = "none"]
    /\ UNCHANGED <<script, renders, current, entry, fetching, work, attempt, installed>>
ClearEntry ==
    /\ script = "clear" /\ entry # {}
    /\ entry' = {}
    /\ UNCHANGED <<script, renders, unpacked, current, fetching, work, attempt, installed>>

Link ==
    /\ \/ script = "clear" /\ Others = {} /\ entry = {} /\ entry' = {"node"} /\ Goto("npm")
       \/ script = "npm" /\ entry' = {"node", "npm"} /\ Goto("download")
    /\ UNCHANGED <<renders, unpacked, current, fetching, work, attempt, installed>>

-----------------------------------------------------------------------------
(* The archive                                                             *)

Whole == [i \in 1..Chunks |-> 1]
\* Mutant: the length is compared.
MatchesLength(bytes) == Len(bytes) = Chunks
Matches(bytes) == bytes = Whole

Extended(bytes, b, n) == bytes \o [i \in 1..n |-> b]

\* One transfer of build b: n chunks more, or from zero where the source cannot resume.
Transferred(b, n, afresh) ==
    LET bytes == Extended(IF afresh THEN <<>> ELSE work, b, n)
    IN  /\ Len(bytes) <= Chunks
        /\ IF Len(bytes) = Chunks /\ Matches(bytes)
           THEN work' = bytes /\ Goto("unpack") /\ UNCHANGED attempt
           ELSE /\ work' = IF Len(bytes) = Chunks THEN <<>> ELSE bytes
                /\ attempt' = attempt + 1
                /\ UNCHANGED script

download ==
    /\ script = "download" /\ attempt <= Attempts
    /\ \E b \in {1, 2}, n \in 0..Chunks, afresh \in BOOLEAN : Transferred(b, n, afresh)
    /\ UNCHANGED <<renders, nodeVars, installed>>

DownloadFails ==
    /\ script = "download" /\ attempt > Attempts
    /\ Exit /\ UNCHANGED <<unpacked, current, entry, installed>>

\* tar, then hulala install --from (modules Releases and Install), which needs an npm.
release_command(machine) ==
    /\ script = "unpack" /\ (machine \/ "npm" \in entry)
    /\ installed' = renders
    /\ Exit /\ UNCHANGED <<unpacked, current, entry>>

\* Another terminal runs `hulala update`, or uninstalls.
Elsewhere(v) ==
    /\ installed # 0 /\ (v = 0 \/ v > installed)
    /\ installed' = v
    /\ UNCHANGED <<script, renders, nodeVars, work, attempt>>

-----------------------------------------------------------------------------
InstallerInit ==
    /\ script = "idle" /\ renders = 0
    /\ unpacked = [n \in Node |-> "none"] /\ current = "none" /\ entry = {} /\ fetching = "none"
    /\ work = <<>> /\ attempt = 1 /\ installed = 0

Script ==
    \/ Untarred \/ Point \/ ClearEntry \/ Link \/ download \/ DownloadFails
    \/ \E there \in BOOLEAN : check_installed(there) \/ check_node(there) \/ release_command(there)
    \/ \E n \in Node : install_node(n) \/ ClearBuild(n)

InstallerNext ==
    \/ \E v \in Release : Run(v)
    \/ \E v \in Release \cup {0} : Elsewhere(v)
    \/ Script \/ Stops

-----------------------------------------------------------------------------
(* Properties                                                              *)

\* The private Node.js, once its entry script is there, is a whole build, however many
\* installations were killed before: the script then trusts it without running it.
NodeRuns == node_bin_root => unpacked[current] = "whole"

\* Only an archive that matches the digest in the script is unpacked, whatever two
\* sources sent, resumed or started again.
UnpacksVerified == script = "unpack" => work = Whole

=============================================================================
