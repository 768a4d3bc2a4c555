----------------------------- MODULE PluginDirectory -----------------------------
(***************************************************************************)
(* The plugins a user installs: config/plugins/<id>, and plugins.json      *)
(* beside it, which says which of them are switched off                    *)
(* (apps/cli/src/plugins/directory.ts, cli.ts and manifest.ts).            *)
(*                                                                         *)
(* Every process that starts a window or runs `hulala plugin` scans the    *)
(* directory and writes the record again.  Their file operations           *)
(* interleave, and a process may die between any two of them.              *)
(***************************************************************************)
EXTENDS Naturals

CONSTANTS
    Plugin,
    Process,
    None


VARIABLES
    package,    \* what is on disk: "absent", "partly" copied, "whole" or "invalid"
    record,     \* plugins.json: the ids that are switched off
    at,         \* where a process is: "idle", "scan" .. "said"; "new", "made"
    job,        \* the plugin it switches, or None for a window; on or off
    ids,        \* the ids its scan found
    loads,      \*     those of them with a valid manifest
    off,        \* what it read from the record
    writes,     \* what it is about to write
    wish,       \* what the user last switched, once the command has said so
    asked,      \*     as it was when a process began its scan
    overlaps    \* the processes that have run at the same time as another one

process == <<at, job, ids, loads, off, writes, asked, overlaps>>
directory == <<package, record, wish, process>>

Nobody == [plugin |-> None, to |-> "on"]
Found == {q \in Plugin : package[q] \in {"whole", "invalid"}}
Loadable == {q \in Plugin : package[q] = "whole"}

\* The process p alone changes, to the place given.
Goes(p, label) == at' = [at EXCEPT ![p] = label]

-----------------------------------------------------------------------------
(* The user copies, breaks and removes packages                            *)

Copy(q) ==
    /\ \/ package[q] = "absent" /\ package' = [package EXCEPT ![q] = "partly"]
       \/ package[q] = "partly" /\ \E as \in {"whole", "invalid"} : package' = [package EXCEPT ![q] = as]
       \/ package[q] \in {"whole", "invalid"} /\ \E as \in {"absent", "invalid", "whole"} :
             package' = [package EXCEPT ![q] = as]
    /\ UNCHANGED <<record, wish, process>>

Joins(p) ==
    LET others == {other \in Process \ {p} : at[other] # "idle"}
    IN  overlaps' = IF others = {} THEN overlaps \ {p} ELSE overlaps \cup others \cup {p}

\* hulala plugin new: the directory, and then the files in it, if it is still there.
newPlugin(p, q) ==
    /\ at[p] = "idle" /\ package[q] = "absent"
    /\ package' = [package EXCEPT ![q] = "partly"]
    /\ job' = [job EXCEPT ![p] = [plugin |-> q, to |-> "on"]]
    /\ Goes(p, "new") /\ Joins(p)
    /\ UNCHANGED <<record, wish, ids, loads, off, writes, asked>>
writePlugin(p) ==
    /\ at[p] = "new" /\ package[job[p].plugin] # "absent"
    /\ package' = [package EXCEPT ![job[p].plugin] = "whole"]
    /\ Goes(p, "made")
    /\ UNCHANGED <<record, wish, job, ids, loads, off, writes, asked, overlaps>>

-----------------------------------------------------------------------------
(* readPluginDirectory                                                     *)

\* A window (q = None), hulala plugin list, enable or disable.
Begin(p, q, to) ==
    /\ at[p] = "idle"
    /\ job' = [job EXCEPT ![p] = [plugin |-> q, to |-> to]]
    /\ asked' = [asked EXCEPT ![p] = wish]
    /\ Goes(p, "scan")
    /\ Joins(p)
    /\ wish' = IF q = None THEN wish ELSE [wish EXCEPT ![q] = "unsaid"]
    /\ UNCHANGED <<package, record, ids, loads, off, writes>>

\* Packages without a manifest are passed over, invalid ones are reported.
Scan(p) ==
    /\ at[p] = "scan"
    /\ ids' = [ids EXCEPT ![p] = Found]
    /\ loads' = [loads EXCEPT ![p] = Loadable]
    /\ Goes(p, "read")
    /\ UNCHANGED <<package, record, wish, job, off, writes, asked, overlaps>>

\* Without a plugins root there is nothing to prune.
NoRoot(p) ==
    /\ at[p] = "scan" /\ \A q \in Plugin : package[q] = "absent"
    /\ ids' = [ids EXCEPT ![p] = {}] /\ loads' = [loads EXCEPT ![p] = {}]
    /\ off' = [off EXCEPT ![p] = record]
    /\ Goes(p, "use")
    /\ UNCHANGED <<package, record, wish, job, writes, asked, overlaps>>

readDisabled(p) ==
    /\ at[p] = "read"
    /\ off' = [off EXCEPT ![p] = record]
    /\ Goes(p, "prune")
    /\ UNCHANGED <<package, record, wish, job, ids, loads, writes, asked, overlaps>>

\* The record is read again, and written only when an id is gone.
\* Mutant: an invalid package is not an installed one.
pruneToValid(p) ==
    /\ at[p] = "prune"
    /\ writes' = [writes EXCEPT ![p] = record \cap loads[p]]
    /\ Goes(p, IF record \subseteq loads[p] THEN "use" ELSE "rename")
    /\ UNCHANGED <<package, record, wish, job, ids, loads, off, asked, overlaps>>
pruneState(p) ==
    /\ at[p] = "prune"
    /\ writes' = [writes EXCEPT ![p] = record \cap ids[p]]
    /\ Goes(p, IF record \subseteq ids[p] THEN "use" ELSE "rename")
    /\ UNCHANGED <<package, record, wish, job, ids, loads, off, asked, overlaps>>

Rename(p) ==
    /\ at[p] \in {"rename", "set"}
    /\ record' = writes[p]
    /\ Goes(p, IF at[p] = "rename" THEN "use" ELSE "said")
    /\ UNCHANGED <<package, wish, job, ids, loads, off, writes, asked, overlaps>>

\* A failed prune is passed over.
PruneFails(p) ==
    /\ at[p] = "rename" /\ Goes(p, "use")
    /\ UNCHANGED <<package, record, wish, job, ids, loads, off, writes, asked, overlaps>>

-----------------------------------------------------------------------------
(* togglePlugin, setEnabled                                                *)

Target(p) == job[p].plugin
setEnabled(p) ==
    /\ at[p] = "use" /\ Target(p) \in loads[p]
    /\ writes' = [writes EXCEPT ![p] =
            IF job[p].to = "on" THEN record \ {Target(p)} ELSE record \cup {Target(p)}]
    /\ Goes(p, "set")
    /\ UNCHANGED <<package, record, wish, job, ids, loads, off, asked, overlaps>>

Gone(p) ==
    /\ Goes(p, "idle")
    /\ job' = [job EXCEPT ![p] = Nobody]
    /\ ids' = [ids EXCEPT ![p] = {}] /\ loads' = [loads EXCEPT ![p] = {}]
    /\ off' = [off EXCEPT ![p] = {}] /\ writes' = [writes EXCEPT ![p] = {}]
    /\ overlaps' = overlaps \ {p}
    /\ UNCHANGED <<package, record, asked>>

\* The command prints that the plugin is switched.
Switched(p) ==
    /\ at[p] = "said"
    /\ wish' = [wish EXCEPT ![Target(p)] = job[p].to]
    /\ Gone(p)

\* An unknown plugin, an error, a crash, a list; a window that has read what it needs.
Ends(p) == at[p] # "idle" /\ Gone(p) /\ UNCHANGED wish

\* What a window activates: what its scan found and its record does not name.
Activates(p) == IF at[p] = "use" /\ Target(p) = None THEN loads[p] \ off[p] ELSE {}

-----------------------------------------------------------------------------
DirectoryInit ==
    /\ package = [q \in Plugin |-> "absent"] /\ record = {}
    /\ at = [p \in Process |-> "idle"]
    /\ job = [p \in Process |-> Nobody]
    /\ ids = [p \in Process |-> {}] /\ loads = ids /\ off = ids /\ writes = ids
    /\ wish = [q \in Plugin |-> "on"]
    /\ asked = [p \in Process |-> wish] /\ overlaps = {}

DirectoryNext ==
    \/ \E q \in Plugin : Copy(q)
    \/ \E p \in Process :
        \/ (\E q \in Plugin : newPlugin(p, q)) \/ writePlugin(p)
        \/ \E q \in Plugin \cup {None}, to \in {"on", "off"} : (q = None => to = "on") /\ Begin(p, q, to)
        \/ Scan(p) \/ NoRoot(p) \/ readDisabled(p) \/ pruneState(p) \/ Rename(p) \/ PruneFails(p)
        \/ setEnabled(p) \/ Switched(p) \/ Ends(p)

-----------------------------------------------------------------------------
(* Properties                                                              *)

\* Under a process that runs alone, a plugin leaves the record only when the user switches it on
\* or when its package, also a broken one, was gone at the scan (directory.ts).
OnlyTheMissing ==
    [][\A q \in record \ record', p \in Process :
        at[p] # "idle" /\ p \notin overlaps => at[p] \in {"rename", "set"} /\ (q \notin ids[p] \/ job[p] = [plugin |-> q, to |-> "on"])]_directory

\* A plugin that the user switched off before a window started is not activated by it:
\* "a disabled marker inside the package would be lost the moment the user reinstalled
\* it from their own checkout" (directory.ts:6-8).
OffStaysOff == \A p \in Process : \A q \in Activates(p) : asked[p][q] # "off"

=============================================================================
