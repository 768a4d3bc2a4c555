------------------------------ MODULE HostRole ------------------------------
(***************************************************************************)
(* What single-instance ownership promises for one Hulala state root, with *)
(* no lock file in sight: at any time one process, or none, plays the Host *)
(* role, and the advertisement clients read is written only by that        *)
(* process.  HostDaemon.tla shows under which starts the lock-file code of *)
(* apps/server/src/daemon.ts keeps this promise.                           *)
(***************************************************************************)

CONSTANTS Pid, NoPid

VARIABLES owner,      \* the process that plays the Host role, or NoPid
          advertised  \* the process named by the published endpoint, or NoPid

roleVars == <<owner, advertised>>

RoleInit == owner = NoPid /\ advertised = NoPid

Claim(p) == owner = NoPid /\ owner' = p /\ UNCHANGED advertised

Advertise(p) == owner = p /\ advertised' = p /\ UNCHANGED owner

\* The advertisement is withdrawn by the process it names, which either still
\* plays the role or died with nobody in its place.
Withdraw ==
    /\ owner \in {advertised, NoPid}
    /\ advertised' = NoPid
    /\ UNCHANGED owner

\* A stop or a death; a death leaves the advertisement behind.
Leave(p) == owner = p /\ owner' = NoPid /\ UNCHANGED advertised

RoleNext ==
    \/ \E p \in Pid : Claim(p) \/ Advertise(p) \/ Leave(p)
    \/ Withdraw

RoleSpec == RoleInit /\ [][RoleNext]_roleVars

=============================================================================
