-------------------------------- MODULE Downloads --------------------------------
(***************************************************************************)
(* The download site.  Its gateway: Workers answer from a catalogue; an    *)
(* object is read from the bucket at most once a request, and only for a   *)
(* reservation of the counter that all Workers share.  A day belongs to a  *)
(* month of DaysAMonth days.  And the retention of its bucket: the objects *)
(* of the newest release are kept, those of older ones deleted, while      *)
(* releases may be uploaded and deployed; one object stands for the files  *)
(* of a release.  The two have no state in common.                         *)
(***************************************************************************)
EXTENDS Integers, FiniteSetsExt

CONSTANTS
    Request,
    Days, DaysAMonth,
    DAILY_READ_LIMIT, MONTHLY_READ_LIMIT,
    Size,      \* the catalogued size of the object
    Newest,    \* the releases are 1..Newest; the last one is uploaded while the prune runs
    Careless   \* TRUE: a release is deployed between the last look at it and the deletions

VARIABLES
    clock,     \* the counter's clock: a day, set forward and back
    counter,   \* the stored counter, day 0 before the first reservation
    object,    \* the object's size in the bucket; 0: it is not there
    request,   \* request -> where it is, the day of its reservation, the answer
    spent,     \* day -> reads of the bucket on reservations of that day
    bucket,    \* release -> its object: "none", "built", or "other" bytes under its key
    deployed,  \* the release that the gateway's catalogue serves
    policy,    \* the release to keep
    at,        \* the step of the prune; "stopped" when it threw
    obsolete,  \* its plan: key -> the identity to delete, "none" for no entry
    listed     \* the key whose identity was just looked at, 0 for none
downloads == <<clock, counter, object, request, spent>>
prune == <<bucket, deployed, policy, at, obsolete, listed>>

Day == 1..Days
Month(d) == (d - 1) \div DaysAMonth
NoLimit == -1

\* A Range header: digits on either side of the dash, or none there.
Header == [first : {NoLimit} \cup 0..Size, last : {NoLimit} \cup 0..Size + 1]
Whole == [first |-> NoLimit, last |-> NoLimit]
Free == [at |-> "free", day |-> 0, answer |-> "none"]

DownloadsInit ==
    /\ clock \in Day /\ counter = [day |-> 0, month |-> 0, daily |-> 0, monthly |-> 0]
    /\ object = Size /\ request = [r \in Request |-> Free] /\ spent = [d \in Day |-> 0]

-----------------------------------------------------------------------------
\* Nothing, as NoRange, for a header that cannot be satisfied.
NoRange == [offset |-> 0, length |-> 0]
Lesser(a, b) == IF a < b THEN a ELSE b
\* Mutant: the last byte is taken for a length.
byteRangeExclusive(h, size) ==
    IF h.first = NoLimit
    THEN IF h.last \in {NoLimit, 0} THEN NoRange
         ELSE [offset |-> size - Lesser(h.last, size), length |-> Lesser(h.last, size)]
    ELSE IF h.first >= size \/ (h.last # NoLimit /\ h.last < h.first) THEN NoRange
         ELSE [offset |-> h.first, length |-> (IF h.last = NoLimit THEN size - 1 ELSE Lesser(h.last, size)) - h.first + 1]
byteRange(h, size) ==
    IF h.first = NoLimit
    THEN IF h.last \in {NoLimit, 0} THEN NoRange
         ELSE [offset |-> size - Lesser(h.last, size), length |-> Lesser(h.last, size)]
    ELSE IF h.first >= size \/ (h.last # NoLimit /\ h.last < h.first) THEN NoRange
         ELSE [offset |-> h.first,
               length |-> Lesser(IF h.last = NoLimit THEN size - 1 ELSE h.last, size - 1) - h.first + 1]

\* Mutant: the counter follows the clock when it is set back.
reserveAnyDay(previous, d) ==
    LET daily == IF previous.day = d THEN previous.daily ELSE 0
        monthly == IF previous.day # 0 /\ previous.month = Month(d) THEN previous.monthly ELSE 0
    IN IF daily >= DAILY_READ_LIMIT \/ monthly >= MONTHLY_READ_LIMIT THEN previous
       ELSE [day |-> d, month |-> Month(d), daily |-> daily + 1, monthly |-> monthly + 1]
\* The counter of the reservation, or the one there is when it is refused.
reserve(previous, d) ==
    LET daily == IF previous.day = d THEN previous.daily ELSE 0
        monthly == IF previous.day # 0 /\ previous.month = Month(d) THEN previous.monthly ELSE 0
    IN IF d < previous.day \/ daily >= DAILY_READ_LIMIT \/ monthly >= MONTHLY_READ_LIMIT THEN previous
       ELSE [day |-> d, month |-> Month(d), daily |-> daily + 1, monthly |-> monthly + 1]

-----------------------------------------------------------------------------
Answered(r, answer) == request' = [request EXCEPT ![r].at = "done", ![r].answer = answer]
fallback(r) == Answered(r, "elsewhere")

\* An item of the catalogue: in the bucket, among the static assets, retired, or none.
\* HEAD, and a Range whose If-Range names another build, is a request of the whole.
fetch(r) ==
    /\ request[r].at = "free"
    /\ \/ \E answer \in {"static", "retired", "unknown"} : Answered(r, answer)
       \/ \E h \in Header \ {Whole} : byteRange(h, Size) = NoRange /\ Answered(r, "416")
       \/ \E h \in Header : (h = Whole \/ byteRange(h, Size) # NoRange)
                            /\ request' = [request EXCEPT ![r].at = "asks"]
    /\ UNCHANGED <<clock, counter, object, spent>>

\* The transaction commits or refuses; its answer reaches the Worker or is lost.
askQuota(r) ==
    /\ request[r].at = "asks"
    /\ counter' = reserve(counter, clock)
    /\ \/ /\ counter' # counter
          /\ request' = [request EXCEPT ![r].at = "reserved", ![r].day = clock]
       \/ fallback(r)
    /\ UNCHANGED <<clock, object, spent>>
\* The counter cannot be reached.
quotaFails(r) == request[r].at = "asks" /\ fallback(r) /\ UNCHANGED <<clock, counter, object, spent>>

\* Mutant: another read after one that gave nothing.
readAgain(r) ==
    /\ request[r].at = "reserved"
    /\ spent' = [spent EXCEPT ![request[r].day] = @ + (IF object = Size THEN 1 ELSE 2)]
    /\ fallback(r) /\ UNCHANGED <<clock, counter, object>>
\* One read; an object of another size is not served.
read(r) ==
    /\ request[r].at = "reserved"
    /\ spent' = [spent EXCEPT ![request[r].day] = @ + 1]
    /\ \/ /\ object = Size
          /\ Answered(r, "bucket")
       \/ fallback(r)
    /\ UNCHANGED <<clock, counter, object>>

Answers(r) == request[r].at = "done" /\ request' = [request EXCEPT ![r] = Free] /\ UNCHANGED <<clock, counter, object, spent>>
Clock == clock' \in Day \ {clock} /\ UNCHANGED <<counter, object, request, spent>>
\* A release overwrites the object, or removes it.
Bucket == object' \in {0, Size, Size + 1} \ {object} /\ UNCHANGED <<clock, counter, request, spent>>

DownloadsNext ==
    \/ \E r \in Request : fetch(r) \/ askQuota(r) \/ quotaFails(r) \/ read(r) \/ Answers(r)
    \/ Clock \/ Bucket

-----------------------------------------------------------------------------
(* Retention: pruneR2.ts *)

Key == 1..Newest
Nothing == [k \in Key |-> "none"]
\* A catalogue serves the release of its policy; the URLs of older ones only redirect.
latestOnlyCatalog(p) == [k \in 1..p |-> IF k = p THEN "live" ELSE "retired"]
Serves(k) == k \in DOMAIN latestOnlyCatalog(deployed) /\ latestOnlyCatalog(deployed)[k] = "live"

PruneInit ==
    /\ policy \in Key \ {1} /\ deployed \in {policy - 1, policy}
    /\ bucket = [k \in Key |-> IF k =< policy THEN "built" ELSE "none"]
    /\ at = "starts" /\ obsolete = Nothing /\ listed = 0

-----------------------------------------------------------------------------
Stops == at' = "stopped" /\ UNCHANGED obsolete

\* The inventory is planned from when the release to keep is there in its size and
\* every other object is catalogued.
Sound(inventory) == inventory[policy] # "none" /\ \A k \in Key : inventory[k] # "none" => k \in DOMAIN latestOnlyCatalog(policy)
\* Mutant: the plan spares nothing.
planAll(inventory) == inventory
prunePlan(inventory) == [k \in Key |-> IF k = policy THEN "none" ELSE inventory[k]]

bucketInventory ==
    /\ at = "starts"
    /\ IF Sound(bucket) THEN obsolete' = prunePlan(bucket) /\ at' = "asserts" ELSE Stops
    /\ UNCHANGED <<bucket, deployed, policy, listed>>

\* assertDeployed: the gateway answers with this catalogue and this policy, or there is
\* no answer.
assertDeployed(from, to) ==
    /\ at = from
    /\ \/ deployed = policy /\ at' = to /\ UNCHANGED obsolete
       \/ Stops
    /\ UNCHANGED <<bucket, deployed, policy, listed>>

\* The bytes of the release to keep, in the bucket and as the gateway serves them.
verify ==
    /\ at = "verifies"
    /\ \/ bucket[policy] = "built" /\ deployed = policy /\ at' = "refreshes" /\ UNCHANGED obsolete
       \/ Stops
    /\ UNCHANGED <<bucket, deployed, policy, listed>>
refresh ==
    /\ at = "refreshes"
    /\ IF Sound(bucket) /\ prunePlan(bucket) = obsolete THEN at' = "asserts again" /\ UNCHANGED obsolete ELSE Stops
    /\ UNCHANGED <<bucket, deployed, policy, listed>>

Rest == {k \in Key : obsolete[k] # "none"}
\* Mutant: what is under the key is not looked at.
lookKey == at = "deletes" /\ listed = 0 /\ Rest # {} /\ listed' \in Rest
           /\ UNCHANGED <<bucket, deployed, policy, at, obsolete>>
\* The listing of one key shows the identity of the plan, or the prune stops.
look ==
    /\ at = "deletes" /\ listed = 0 /\ Rest # {}
    /\ \E k \in Rest : /\ \A l \in Rest : k =< l
                     /\ \/ bucket[k] = obsolete[k] /\ listed' = k /\ UNCHANGED <<at, obsolete>>
                        \/ Stops /\ UNCHANGED listed
    /\ UNCHANGED <<bucket, deployed, policy>>
delete ==
    /\ at = "deletes" /\ listed # 0
    /\ \/ /\ bucket' = [bucket EXCEPT ![listed] = "none"] /\ obsolete' = [obsolete EXCEPT ![listed] = "none"]
          /\ listed' = 0 /\ UNCHANGED at
       \/ Stops /\ listed' = 0 /\ UNCHANGED bucket
    /\ UNCHANGED <<deployed, policy>>
after ==
    /\ at = "deletes" /\ Rest = {} /\ listed = 0
    /\ IF Sound(bucket) /\ prunePlan(bucket) = Nothing THEN at' = "asserts last" /\ UNCHANGED obsolete ELSE Stops
    /\ UNCHANGED <<bucket, deployed, policy, listed>>

-----------------------------------------------------------------------------
\* Somebody uploads a release, anew or over its key, but not between the look at a key
\* and its deletion.
Upload(k) ==
    /\ Careless \/ listed = 0
    /\ bucket' \in {[bucket EXCEPT ![k] = b] : b \in {"built", "other"}} /\ bucket' # bucket
    /\ UNCHANGED <<deployed, policy, at, obsolete, listed>>
\* A deployment names a release whose object is there.
Deploy(k) ==
    /\ (Careless \/ at # "deletes") /\ k # deployed /\ bucket[k] # "none"
    /\ deployed' = k /\ UNCHANGED <<bucket, policy, at, obsolete, listed>>

PruneNext ==
    \/ bucketInventory \/ verify \/ refresh \/ look \/ delete \/ after
    \/ assertDeployed("asserts", "verifies") \/ assertDeployed("asserts again", "deletes")
    \/ assertDeployed("asserts last", "done")
    \/ \E k \in Key : Upload(k) \/ Deploy(k)

-----------------------------------------------------------------------------
\* The reads of a day and of a month stay within their limits, whatever is lost and
\* however often the clock is set forward and back.
ReadsAreMetered ==
    /\ \A d \in Day : spent[d] =< DAILY_READ_LIMIT
    /\ \A d \in Day : MapThenSumSet(LAMBDA e : spent[e], {e \in Day : Month(e) = Month(d)}) =< MONTHLY_READ_LIMIT

\* The part that a Range header is answered with are the bytes that it names: from
\* first to last, or the last ones.
GivesTheRange ==
    \A h \in Header \ {Whole} : LET part == byteRange(h, Size) IN
        {i \in 0..Size + 1 : part.offset =< i /\ i < part.offset + part.length} =
        {i \in 0..Size - 1 : IF h.first = NoLimit THEN i >= Size - h.last
                             ELSE h.first =< i /\ (h.last # NoLimit => i =< h.last)}

\* A deletion takes an object as it was when the plan was made, and never the one that
\* the gateway serves.
DeletesTheObsolete ==
    [][\A k \in Key : bucket[k] # "none" /\ bucket'[k] = "none" => bucket[k] = obsolete[k] /\ ~Serves(k)]_prune
=============================================================================
