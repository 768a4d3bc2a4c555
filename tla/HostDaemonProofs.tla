-------------------------- MODULE HostDaemonProofs --------------------------
(***************************************************************************)
(* Theorems about HostDaemon, for every set of processes, and about        *)
(* HostClient with one client.                                             *)
(*                                                                         *)
(* The endpoint part needs no assumption.  The ownership part holds when   *)
(* starts do not overlap (SerialStarts); its inductive invariant says of   *)
(* the lock what the code never states: a live owner's lock is present and *)
(* readable, and a process about to unlink a lock is right about it.       *)
(***************************************************************************)
EXTENDS HostClient, TLAPS

-----------------------------------------------------------------------------
(* Types.                                                                  *)

\* A process that goes round the acquire loop has a turn left.
AttemptLeft ==
    \A p \in Pid : pc[p] \in {"off", "open", "read", "reap"} => attempt[p] < MaxAttempts

LEMMA TypeInitial == Init => TypeOK /\ AttemptLeft
BY DEF Init, TypeOK, AttemptLeft, Phase, MaxAttempts

LEMMA TypeStep == TypeOK /\ AttemptLeft /\ [Next]_hostVars => (TypeOK /\ AttemptLeft)'
<1> SUFFICES ASSUME TypeOK, AttemptLeft, [Next]_hostVars PROVE (TypeOK /\ AttemptLeft)'
  OBVIOUS
<1> USE DEF TypeOK, AttemptLeft, Goto, Phase, Acquiring, Refused, Serving, Disposing, Exiting, Ended
<1>1. ASSUME NEW p \in Pid, Start(p) \/ Signal(p) \/ Kill(p) \/ Fault(p)
      PROVE  (TypeOK /\ AttemptLeft)'
  BY <1>1 DEF Start, Signal, Kill, Fault, Alive
<1>2. ASSUME NEW p \in Pid, Acquire(p) PROVE (TypeOK /\ AttemptLeft)'
  <2>1. CASE ReapLock(p)
    <3>1. attempt[p] \in 0..2
      BY <2>1 DEF ReapLock, MaxAttempts
    <3>2. attempt' = [attempt EXCEPT ![p] = attempt[p] + 1] /\ lock' = NoPid
      BY <2>1 DEF ReapLock
    <3>3. attempt' \in [Pid -> 0..MaxAttempts]
      BY <3>1, <3>2 DEF MaxAttempts
    <3>4. pc' \in [Pid -> Phase] /\ UNCHANGED <<recorded, endpoint, seen, published>>
      BY <2>1 DEF ReapLock
    <3>5. \A q \in Pid : pc'[q] \in {"off", "open", "read", "reap"} => attempt'[q] < MaxAttempts
      BY <2>1, <3>1 DEF ReapLock, MaxAttempts
    <3> QED BY <3>2, <3>3, <3>4, <3>5
  <2>2. CASE CreateLock(p) \/ FindLock(p) \/ JudgeLock(p) \/ WriteLock(p)
    BY <2>2 DEF CreateLock, FindLock, JudgeLock, WriteLock
  <2> QED BY <1>2, <2>1, <2>2 DEF Acquire
<1>3. ASSUME NEW p \in Pid, Refuse(p) \/ Boot(p) PROVE (TypeOK /\ AttemptLeft)'
  BY <1>3, ZenonT(60) DEF Refuse, Boot, ReadRival, ProbeRival, BootHost, FailBoot,
              PublishEndpoint, RegisterHandlers
<1>4. ASSUME NEW p \in Pid, Dispose(p) PROVE (TypeOK /\ AttemptLeft)'
  BY <1>4 DEF Dispose, ReadOwnEndpoint, ClearEndpoint, ReadOwnLock, ReleaseLock, AfterRelease
<1>5. ASSUME NEW p \in Pid, Exit(p) PROVE (TypeOK /\ AttemptLeft)'
  BY <1>5 DEF Exit, Teardown, ExitReadEndpoint, ExitUnlinkEndpoint, ExitReadLock, ExitUnlinkLock
<1>6. CASE UNCHANGED hostVars
  BY <1>6 DEF hostVars
<1> QED BY <1>1, <1>2, <1>3, <1>4, <1>5, <1>6 DEF Next, Run

LEMMA TypeInductive == Spec => [](TypeOK /\ AttemptLeft)
BY TypeInitial, TypeStep, PTL DEF Spec

\* Type correctness: every step keeps the files, the phases and the bounded
\* attempt counter of acquireHostDaemonLock inside their ranges.
THEOREM TypeCorrect == Spec => []TypeOK
BY TypeInductive, PTL

-----------------------------------------------------------------------------
(* The endpoint: only the process it names can be behind it.               *)

\* The record of p appears after p's boot and is gone before p's teardown, and
\* a Host that disposes an endpoint is one that published.
EndpointInv ==
    \A p \in Pid :
        /\ endpoint = p => pc[p] \in {"register", "serve", "clearRead", "clearUnlink"}
                                     \cup Exiting \cup Ended
        /\ pc[p] \in {"serve", "clearRead", "clearUnlink"} => published[p]

LEMMA EndpointInitial == Init => EndpointInv
BY PidAssumption DEF Init, EndpointInv

LEMMA EndpointStep == TypeOK /\ EndpointInv /\ [Next]_hostVars => EndpointInv'
<1> SUFFICES ASSUME TypeOK, EndpointInv, [Next]_hostVars PROVE EndpointInv'
  OBVIOUS
<1> USE PidAssumption DEF TypeOK, EndpointInv, Goto, Acquiring, Refused, Serving,
        Disposing, Exiting, Ended
<1>1. ASSUME NEW p \in Pid, Start(p) \/ Signal(p) \/ Kill(p) \/ Fault(p) PROVE EndpointInv'
  BY <1>1 DEF Start, Signal, Kill, Fault, Alive
<1>2. ASSUME NEW p \in Pid, Acquire(p) PROVE EndpointInv'
  BY <1>2 DEF Acquire, CreateLock, FindLock, JudgeLock, ReapLock, WriteLock
<1>3. ASSUME NEW p \in Pid, Refuse(p) \/ Boot(p) PROVE EndpointInv'
  BY <1>3 DEF Refuse, Boot, ReadRival, ProbeRival, BootHost, FailBoot,
              PublishEndpoint, RegisterHandlers
<1>4. ASSUME NEW p \in Pid, Dispose(p) PROVE EndpointInv'
  BY <1>4 DEF Dispose, ReadOwnEndpoint, ClearEndpoint, ReadOwnLock, ReleaseLock, AfterRelease
<1>5. ASSUME NEW p \in Pid, Exit(p) PROVE EndpointInv'
  BY <1>5 DEF Exit, Teardown, ExitReadEndpoint, ExitUnlinkEndpoint, ExitReadLock, ExitUnlinkLock
<1>6. CASE UNCHANGED hostVars
  BY <1>6 DEF hostVars
<1> QED BY <1>1, <1>2, <1>3, <1>4, <1>5, <1>6 DEF Next, Run

\* A client that reads endpoint.json of a live Host can connect at once: publish
\* comes after the boot and dispose before handle.stop(), however starts race.
THEOREM EndpointAnswers == Spec => []PublishedAnswers
<1>1. EndpointInv => PublishedAnswers
  BY DEF EndpointInv, PublishedAnswers, Alive, Answers, Serving, Disposing, Exiting, Ended
<1> QED BY <1>1, EndpointInitial, EndpointStep, TypeCorrect, PTL DEF Spec

-----------------------------------------------------------------------------
(* The lock, when starts do not overlap.                                   *)

\* At most one process is in the acquire loop.
OneStarts == \A p, q \in Pid : pc[p] \in Acquiring /\ pc[q] \in Acquiring => p = q

\* The lock of an owner is its own, and readable once it is written.
OwnerLock ==
    \A p \in Pid : Owner(p) => lock = p /\ (pc[p] # "write" => recorded[p])

\* A lock was created by an owner that still is one, is exiting, or has ended.
LockCreator ==
    \A p \in Pid : lock = p =>
        /\ Owner(p) \/ pc[p] \in Exiting \cup Ended
        /\ pc[p] \in Exiting => recorded[p]

\* A process about to reap a lock, or to unlink it while exiting, is right.
UnlinkIsRight ==
    /\ \A p \in Pid : pc[p] = "reap" => \A q \in Pid : lock = q => ~Alive(q)
    /\ \A p \in Pid : pc[p] = "exitLockUnlink" => lock = p

LockInv == OneStarts /\ OwnerLock /\ LockCreator /\ UnlinkIsRight

LEMMA LockInitial == Init => LockInv
BY PidAssumption DEF Init, LockInv, OneStarts, OwnerLock, LockCreator, UnlinkIsRight,
   Owner, Acquiring, Serving, Disposing

LEMMA LockStep ==
  ASSUME SerialStarts
  PROVE  TypeOK /\ LockInv /\ [Next]_hostVars => LockInv'
<1> SUFFICES ASSUME TypeOK, LockInv, [Next]_hostVars PROVE LockInv'
  OBVIOUS
<1> USE PidAssumption DEF TypeOK, Goto, Acquiring, Refused, Serving, Disposing, Exiting, Ended,
        LockInv, OneStarts, OwnerLock, LockCreator, UnlinkIsRight, Owner, Alive
<1>1. ASSUME NEW p \in Pid, Start(p) PROVE LockInv'
  BY <1>1, SerialStarts DEF Start
<1>2. ASSUME NEW p \in Pid, Signal(p) \/ Kill(p) PROVE LockInv'
  BY <1>2 DEF Signal, Kill
<1>3. ASSUME NEW p \in Pid, Fault(p) PROVE LockInv'
  BY <1>3 DEF Fault
<1>4. ASSUME NEW p \in Pid, CreateLock(p) PROVE LockInv'
  BY <1>4 DEF CreateLock
<1>5. ASSUME NEW p \in Pid, FindLock(p) \/ WriteLock(p) PROVE LockInv'
  BY <1>5 DEF FindLock, WriteLock
<1>6. ASSUME NEW p \in Pid, JudgeLock(p) PROVE LockInv'
  <2>1. CASE pc'[p] = "reap"
    <3>1. \A q \in Pid : lock = q => ~Alive(q)
      BY <1>6, <2>1 DEF JudgeLock, LockRecord
    <3> QED BY <1>6, <2>1, <3>1 DEF JudgeLock
  <2>2. CASE pc'[p] = "refused"
    BY <1>6, <2>2 DEF JudgeLock
  <2> QED BY <1>6, <2>1, <2>2 DEF JudgeLock
<1>7. ASSUME NEW p \in Pid, ReapLock(p) PROVE LockInv'
  BY <1>7 DEF ReapLock
<1>8. ASSUME NEW p \in Pid, Refuse(p) \/ Boot(p) PROVE LockInv'
  BY <1>8 DEF Refuse, Boot, ReadRival, ProbeRival, BootHost, FailBoot,
              PublishEndpoint, RegisterHandlers
<1>9. ASSUME NEW p \in Pid, Dispose(p) PROVE LockInv'
  BY <1>9 DEF Dispose, ReadOwnEndpoint, ClearEndpoint, ReadOwnLock, ReleaseLock,
              AfterRelease, LockRecord
<1>10. ASSUME NEW p \in Pid, Exit(p) PROVE LockInv'
  BY <1>10 DEF Exit, Teardown, ExitReadEndpoint, ExitUnlinkEndpoint, ExitReadLock,
               ExitUnlinkLock, LockRecord
<1>11. CASE UNCHANGED hostVars
  BY <1>11 DEF hostVars
<1> QED
  BY <1>1, <1>2, <1>3, <1>4, <1>5, <1>6, <1>7, <1>8, <1>9, <1>10, <1>11
     DEF Next, Run, Acquire

\* One process at a time holds the daemon role, whatever crashes between the
\* creation of a lock, its record, its release and the exit handler.
THEOREM SingleOwner == ASSUME SerialStarts PROVE Spec => []OneOwner
<1>1. LockInv => OneOwner
  BY DEF LockInv, OwnerLock, OneOwner
<1>2. LockInv /\ TypeOK /\ [Next]_hostVars => LockInv'
  BY LockStep
<1> QED BY <1>1, <1>2, LockInitial, TypeCorrect, PTL DEF Spec

-----------------------------------------------------------------------------
(* The endpoint, when starts do not overlap.                               *)

\* A published Host's record stays in place until the Host removes it, and an
\* exiting process that still finds its record still has its lock.
OwnerEndpoint ==
    \A p \in Pid :
        /\ pc[p] \in {"register", "serve", "clearRead", "clearUnlink"} => endpoint = p
        /\ pc[p] = "exitEndpointUnlink" => endpoint = p /\ lock = p
        /\ pc[p] = "exitEndpoint" /\ endpoint = p => lock = p

RootInv == LockInv /\ EndpointInv /\ OwnerEndpoint

LEMMA RootInitial == Init => RootInv
BY LockInitial, EndpointInitial DEF Init, RootInv, OwnerEndpoint

LEMMA RootStep ==
  ASSUME SerialStarts
  PROVE  TypeOK /\ RootInv /\ [Next]_hostVars => RootInv'
<1> SUFFICES ASSUME TypeOK, RootInv, [Next]_hostVars PROVE OwnerEndpoint'
  BY LockStep, EndpointStep DEF RootInv
<1> USE PidAssumption DEF TypeOK, Goto, Acquiring, Refused, Serving, Disposing, Exiting, Ended,
        RootInv, EndpointInv, OwnerEndpoint, LockInv, OwnerLock, UnlinkIsRight, Owner, Alive
<1>1. ASSUME NEW p \in Pid, Start(p) \/ Signal(p) \/ Kill(p) PROVE OwnerEndpoint'
  BY <1>1 DEF Start, Signal, Kill
<1>2. ASSUME NEW p \in Pid, Fault(p) PROVE OwnerEndpoint'
  BY <1>2 DEF Fault
<1>3. ASSUME NEW p \in Pid, CreateLock(p) \/ FindLock(p) \/ JudgeLock(p) PROVE OwnerEndpoint'
  BY <1>3 DEF CreateLock, FindLock, JudgeLock
<1>4. ASSUME NEW p \in Pid, ReapLock(p) \/ WriteLock(p) PROVE OwnerEndpoint'
  BY <1>4 DEF ReapLock, WriteLock
<1>5. ASSUME NEW p \in Pid, Refuse(p) \/ Boot(p) PROVE OwnerEndpoint'
  BY <1>5 DEF Refuse, Boot, ReadRival, ProbeRival, BootHost, FailBoot,
              PublishEndpoint, RegisterHandlers
<1>6. ASSUME NEW p \in Pid, Dispose(p) PROVE OwnerEndpoint'
  BY <1>6 DEF Dispose, ReadOwnEndpoint, ClearEndpoint, ReadOwnLock, ReleaseLock, AfterRelease
<1>7. ASSUME NEW p \in Pid, Exit(p) PROVE OwnerEndpoint'
  BY <1>7 DEF Exit, Teardown, ExitReadEndpoint, ExitUnlinkEndpoint, ExitReadLock, ExitUnlinkLock
<1>8. CASE UNCHANGED hostVars
  BY <1>8 DEF hostVars
<1> QED
  BY <1>1, <1>2, <1>3, <1>4, <1>5, <1>6, <1>7, <1>8 DEF Next, Run, Acquire

LEMMA RootCorrect == ASSUME SerialStarts PROVE Spec => [](TypeOK /\ RootInv)
<1>1. TypeOK /\ RootInv /\ [Next]_hostVars => RootInv'
  BY RootStep
<1> QED BY <1>1, RootInitial, TypeCorrect, PTL DEF Spec

\* A serving Host's endpoint and lock both name it until it disposes them: no
\* reaper, exit handler or late clean-up of another process takes them away.
THEOREM ServingPublished == ASSUME SerialStarts PROVE Spec => []ServingIsPublished
<1>1. TypeOK /\ RootInv => ServingIsPublished
  BY PidAssumption DEF TypeOK, RootInv, LockInv, OwnerLock, OwnerEndpoint, ServingIsPublished,
     LockRecord, Owner, Serving
<1> QED BY <1>1, RootCorrect, PTL

\* Whatever dies at whatever step, a client finds the serving Host and only a
\* Host that answers (writeHostEndpoint, clearHostEndpoint, the exit handler).
THEOREM HostIsFound == ASSUME SerialStarts PROVE Spec => []FoundWhileServing
<1>1. ServingIsPublished /\ PublishedAnswers => FoundWhileServing
  BY DEF FoundWhileServing
<1> QED BY <1>1, ServingPublished, EndpointAnswers, PTL

-----------------------------------------------------------------------------
(* Who is refused, and whose lock is taken.                                *)

\* The turns of the acquire loop are not used up: a start that has reaped a lock finds
\* none the next time, since nobody else acquires.
FirstTurn ==
    \A p \in Pid :
        /\ pc[p] \in {"off", "read", "reap"} => attempt[p] = 0
        /\ pc[p] = "open" /\ attempt[p] # 0 => lock = NoPid

LEMMA FirstTurnStep ==
  TypeOK /\ LockInv /\ FirstTurn /\ [Next]_hostVars => FirstTurn'
<1> SUFFICES ASSUME TypeOK, LockInv, FirstTurn, [Next]_hostVars PROVE FirstTurn'
  OBVIOUS
<1> USE PidAssumption DEF TypeOK, Goto, Acquiring, Refused, Serving, Disposing, Exiting, Ended,
        LockInv, OneStarts, FirstTurn
<1>1. ASSUME NEW p \in Pid, Start(p) \/ Signal(p) \/ Kill(p) \/ Fault(p) PROVE FirstTurn'
  BY <1>1 DEF Start, Signal, Kill, Fault, Alive
<1>2. ASSUME NEW p \in Pid, CreateLock(p) PROVE FirstTurn'
  BY <1>2 DEF CreateLock
<1>3. ASSUME NEW p \in Pid, FindLock(p) \/ JudgeLock(p) \/ WriteLock(p) PROVE FirstTurn'
  BY <1>3 DEF FindLock, JudgeLock, WriteLock
<1>4. ASSUME NEW p \in Pid, ReapLock(p) PROVE FirstTurn'
  BY <1>4 DEF ReapLock
<1>5. ASSUME NEW p \in Pid, Refuse(p) \/ Boot(p) PROVE FirstTurn'
  BY <1>5 DEF Refuse, Boot, ReadRival, ProbeRival, BootHost, FailBoot, PublishEndpoint, RegisterHandlers
<1>6. ASSUME NEW p \in Pid, Dispose(p) PROVE FirstTurn'
  BY <1>6 DEF Dispose, ReadOwnEndpoint, ClearEndpoint, ReadOwnLock, ReleaseLock, AfterRelease
<1>7. ASSUME NEW p \in Pid, Exit(p) PROVE FirstTurn'
  BY <1>7 DEF Exit, Teardown, ExitReadEndpoint, ExitUnlinkEndpoint, ExitReadLock, ExitUnlinkLock
<1>8. CASE UNCHANGED hostVars
  BY <1>8 DEF hostVars
<1> QED BY <1>1, <1>2, <1>3, <1>4, <1>5, <1>6, <1>7, <1>8 DEF Next, Run, Acquire

\* A lock that is present and readable is of a process that is dead, or has the role or
\* leaves it.
LEMMA RefusedStep ==
  ASSUME TypeOK, LockInv, FirstTurn, Next,
         NEW p \in Pid, pc[p] \in Acquiring, pc'[p] \in Refused
  PROVE  \E q \in Pid \ {p} : Owner(q) \/ pc[q] \in Exiting
<1> USE PidAssumption DEF TypeOK, Goto, Acquiring, Refused
<1>1. ASSUME NEW q \in Pid, Start(q) \/ Signal(q) \/ Kill(q) \/ Fault(q) PROVE FALSE
  BY <1>1 DEF Start, Signal, Kill, Fault, Alive, Serving
<1>2. ASSUME NEW q \in Pid, CreateLock(q) \/ FindLock(q) \/ WriteLock(q) PROVE FALSE
  BY <1>2 DEF CreateLock, FindLock, WriteLock
<1>3. ASSUME NEW q \in Pid, ReapLock(q) PROVE FALSE
  BY <1>3 DEF ReapLock, FirstTurn, MaxAttempts
<1>4. ASSUME NEW q \in Pid, Refuse(q) \/ Boot(q) \/ Dispose(q) \/ Exit(q) PROVE FALSE
  <2>1. q # p
    BY <1>4 DEF Refuse, Boot, Dispose, Exit, ReadRival, ProbeRival, BootHost, FailBoot, PublishEndpoint,
       RegisterHandlers, ReadOwnEndpoint, ClearEndpoint, ReadOwnLock, ReleaseLock, Teardown,
       ExitReadEndpoint, ExitUnlinkEndpoint, ExitReadLock, ExitUnlinkLock
  <2>2. pc'[p] = pc[p]
    BY <1>4, <2>1 DEF Refuse, Boot, Dispose, Exit, ReadRival, ProbeRival, BootHost, FailBoot, PublishEndpoint,
       RegisterHandlers, ReadOwnEndpoint, ClearEndpoint, ReadOwnLock, ReleaseLock, Teardown,
       ExitReadEndpoint, ExitUnlinkEndpoint, ExitReadLock, ExitUnlinkLock
  <2> QED BY <2>2
<1>5. PICK q \in Pid : JudgeLock(q)
  BY <1>1, <1>2, <1>3, <1>4 DEF Next, Run, Acquire
<1>6. q = p /\ pc[p] = "read" /\ LockRecord \in Pid /\ Alive(LockRecord)
  BY <1>5 DEF JudgeLock
<1>7. lock \in Pid /\ Alive(lock)
  BY <1>6 DEF LockRecord
<1>8. Owner(lock) \/ pc[lock] \in Exiting
  BY <1>7 DEF LockInv, LockCreator, Alive, Ended
<1>9. lock # p
  BY <1>6, <1>8 DEF Owner, Serving, Disposing, Exiting
<1> QED BY <1>7, <1>8, <1>9

\* Only its release takes the lock of a process that has the role.
LEMMA StolenStep ==
  ASSUME TypeOK, LockInv, Next, NEW p \in Pid, lock = p, Owner(p), lock' # p
  PROVE  pc[p] = "releaseUnlink" /\ pc'[p] # pc[p]
<1> USE PidAssumption DEF TypeOK, Goto, LockInv
<1>1. ASSUME NEW q \in Pid, ReleaseLock(q) PROVE pc[p] = "releaseUnlink" /\ pc'[p] # pc[p]
  <2>1. q = p
    BY <1>1 DEF ReleaseLock, OwnerLock, Owner, Disposing
  <2> QED BY <1>1, <2>1 DEF ReleaseLock, AfterRelease
<1>2. ASSUME NEW q \in Pid, ReapLock(q) PROVE FALSE
  BY <1>2 DEF ReapLock, UnlinkIsRight, Alive, Owner, Serving, Disposing, Ended
<1>3. ASSUME NEW q \in Pid, ExitUnlinkLock(q) PROVE FALSE
  BY <1>3 DEF ExitUnlinkLock, UnlinkIsRight, Owner, Serving, Disposing
<1>4. ASSUME NEW q \in Pid, CreateLock(q) PROVE FALSE
  BY <1>4 DEF CreateLock
<1>5. ASSUME NEW q \in Pid, UNCHANGED lock PROVE FALSE
  BY <1>5
<1> QED
  BY <1>1, <1>2, <1>3, <1>4, <1>5 DEF Next, Run, Acquire, Refuse, Boot, Dispose, Exit, Start, Signal,
     Kill, Fault, FindLock, JudgeLock, WriteLock, ReadRival, ProbeRival, BootHost, FailBoot,
     PublishEndpoint, RegisterHandlers, ReadOwnEndpoint, ClearEndpoint, ReadOwnLock, Teardown,
     ExitReadEndpoint, ExitUnlinkEndpoint, ExitReadLock

\* A start is turned away by a process that is alive and has the role or leaves it, never
\* by what the dead left behind; and the lock of an owner is taken by its release alone
\* (acquireHostDaemonLock, release): what RoleRecovered says of each step.
THEOREM RoleIsKept == ASSUME SerialStarts PROVE Spec => RefusedByTheLiving /\ NeverStolen
<1> DEFINE Turned == \A p \in Pid : pc[p] \in Acquiring /\ pc'[p] \in Refused =>
                        \E q \in Pid \ {p} : Owner(q) \/ pc[q] \in Exiting
           Taken == \A p \in Pid : lock = p /\ Owner(p) /\ lock' # p =>
                        pc[p] = "releaseUnlink" /\ pc'[p] # pc[p]
<1>1. Init => FirstTurn
  BY DEF Init, FirstTurn
<1>2. TypeOK /\ RootInv /\ FirstTurn /\ [Next]_hostVars => FirstTurn' /\ [Turned]_hostVars /\ [Taken]_hostVars
  BY FirstTurnStep, RefusedStep, StolenStep DEF RootInv
<1>3. Spec => [][Turned]_hostVars /\ [][Taken]_hostVars
  <2> HIDE DEF Turned, Taken
  <2> QED BY <1>1, <1>2, RootCorrect, PTL DEF Spec
<1>4. RefusedByTheLiving <=> [][Turned]_hostVars
  BY PTL DEF RefusedByTheLiving
<1>5. NeverStolen <=> [][Taken]_hostVars
  BY PTL DEF NeverStolen
<1> HIDE DEF Turned, Taken
<1> QED BY <1>3, <1>4, <1>5, PTL

-----------------------------------------------------------------------------
(* The lock file implements the abstract role.                             *)

\* With at most one owner, the mapping yields that owner.
LEMMA RoleOwnerIs ==
  ASSUME OwnerLock, NEW p \in Pid
  PROVE  Owner(p) <=> RoleOwner = p
<1>1. \A q \in Pid : Owner(q) => lock = q
  BY DEF OwnerLock
<1>2. CASE Owner(p)
  <2>1. Owners = {p}
    BY <1>1, <1>2 DEF Owners
  <2> QED BY <1>2, <2>1 DEF RoleOwner
<1>3. CASE ~Owner(p)
  <2>1. p \notin Owners
    BY <1>3 DEF Owners
  <2>2. CASE Owners = {}
    BY <1>3, <2>2, PidAssumption DEF RoleOwner
  <2>3. CASE Owners # {}
    <3>1. RoleOwner \in Owners
      BY <2>3 DEF RoleOwner
    <3> QED BY <1>3, <2>1, <3>1
  <2> QED BY <2>2, <2>3
<1> QED BY <1>2, <1>3

LEMMA RoleOwnerType == RoleOwner \in Pid \cup {NoPid}
<1>1. CASE Owners = {}
  BY <1>1 DEF RoleOwner
<1>2. CASE Owners # {}
  <2>1. RoleOwner \in Owners
    BY <1>2 DEF RoleOwner
  <2> QED BY <2>1 DEF Owners
<1> QED BY <1>1, <1>2

LEMMA RoleOwnerNone ==
  ASSUME OwnerLock, \A p \in Pid : ~Owner(p)
  PROVE  RoleOwner = NoPid
BY DEF RoleOwner, Owners

\* A step that changes neither the owners nor the endpoint is a stutter.
LEMMA RoleStutter ==
  ASSUME \A q \in Pid : Owner(q)' <=> Owner(q), endpoint' = endpoint
  PROVE  UNCHANGED <<RoleOwner, endpoint>>
<1>1. Owners' = Owners
  BY DEF Owners
<1> QED BY <1>1 DEF RoleOwner

\* A step by which the only owner stops being one.
LEMMA RoleLeave ==
  ASSUME OwnerLock, OwnerLock', NEW p \in Pid, Owner(p), ~Owner(p)', endpoint' = endpoint,
         \A q \in Pid \ {p} : Owner(q)' <=> Owner(q)
  PROVE  Role!Leave(p)
<1>1. RoleOwner = p
  BY RoleOwnerIs
<1>2. \A q \in Pid : ~Owner(q)'
  BY DEF OwnerLock
<1>3. RoleOwner' = NoPid
  BY <1>2 DEF RoleOwner, Owners
<1> QED BY <1>1, <1>3 DEF Role!Leave

LEMMA RoleStep ==
  ASSUME SerialStarts
  PROVE  TypeOK /\ RootInv /\ RootInv' /\ [Next]_hostVars
             => [Role!RoleNext]_<<RoleOwner, endpoint>>
<1> SUFFICES ASSUME TypeOK, RootInv, RootInv', [Next]_hostVars
             PROVE  [Role!RoleNext]_<<RoleOwner, endpoint>>
  OBVIOUS
<1> USE PidAssumption
<1>inv. OwnerLock /\ OwnerLock' /\ OwnerEndpoint
  BY DEF RootInv, LockInv
<1>idle. ASSUME \A q \in Pid : Owner(q)' <=> Owner(q), endpoint' = endpoint
         PROVE  [Role!RoleNext]_<<RoleOwner, endpoint>>
  BY <1>idle, RoleStutter
<1>leave. ASSUME NEW p \in Pid, Owner(p), ~Owner(p)', endpoint' = endpoint,
                 \A q \in Pid \ {p} : Owner(q)' <=> Owner(q)
          PROVE  [Role!RoleNext]_<<RoleOwner, endpoint>>
  <2>1. Role!Leave(p)
    BY <1>inv, <1>leave, RoleLeave
  <2> QED BY <2>1 DEF Role!RoleNext
<1>1. ASSUME NEW p \in Pid, CreateLock(p) PROVE [Role!RoleNext]_<<RoleOwner, endpoint>>
  <2>1. RoleOwner = NoPid
    BY <1>1, <1>inv, RoleOwnerNone DEF CreateLock, OwnerLock
  <2>2. Owner(p)' /\ endpoint' = endpoint
    BY <1>1 DEF CreateLock, Goto, TypeOK, Owner
  <2>3. RoleOwner' = p
    <3>1. \A q \in Pid : Owner(q)' => q = p
      BY <1>inv, <2>2 DEF OwnerLock
    <3>2. Owners' = {p}
      BY <2>2, <3>1 DEF Owners
    <3> QED BY <3>2 DEF RoleOwner
  <2> QED BY <2>1, <2>2, <2>3 DEF Role!RoleNext, Role!Claim
<1>2. ASSUME NEW p \in Pid, PublishEndpoint(p) PROVE [Role!RoleNext]_<<RoleOwner, endpoint>>
  <2>1. RoleOwner = p /\ RoleOwner' = p
    <3>1. Owner(p) /\ \A q \in Pid : Owner(q)' <=> Owner(q)
      BY <1>2 DEF PublishEndpoint, Goto, TypeOK, Owner, Serving, Disposing
    <3>2. Owners' = Owners
      BY <3>1 DEF Owners
    <3> QED BY <1>inv, <3>1, <3>2, RoleOwnerIs DEF RoleOwner
  <2> QED BY <1>2, <2>1 DEF PublishEndpoint, Role!RoleNext, Role!Advertise
<1>3. ASSUME NEW p \in Pid, ClearEndpoint(p) PROVE [Role!RoleNext]_<<RoleOwner, endpoint>>
  <2>1. endpoint = p /\ Owner(p) /\ \A q \in Pid : Owner(q)' <=> Owner(q)
    BY <1>3, <1>inv DEF ClearEndpoint, OwnerEndpoint, Goto, TypeOK, Owner, Serving, Disposing
  <2>2. RoleOwner = endpoint
    BY <1>inv, <2>1, RoleOwnerIs
  <2>3. RoleOwner' = RoleOwner
    <3>1. Owners' = Owners
      BY <2>1 DEF Owners
    <3> QED BY <3>1 DEF RoleOwner
  <2> QED BY <1>3, <2>2, <2>3 DEF ClearEndpoint, Role!RoleNext, Role!Withdraw
<1>4. ASSUME NEW p \in Pid, ExitUnlinkEndpoint(p) PROVE [Role!RoleNext]_<<RoleOwner, endpoint>>
  <2>1. endpoint = p /\ lock = p /\ ~Owner(p)
    BY <1>4, <1>inv DEF ExitUnlinkEndpoint, OwnerEndpoint, Owner, Serving, Disposing
  <2>2. RoleOwner = NoPid
    BY <1>inv, <2>1, RoleOwnerNone DEF OwnerLock
  <2>3. RoleOwner' = RoleOwner
    <3>1. Owners' = Owners
      BY <1>4 DEF Owners, ExitUnlinkEndpoint, Goto, TypeOK, Owner, Serving, Disposing
    <3> QED BY <3>1 DEF RoleOwner
  <2> QED BY <1>4, <2>2, <2>3 DEF ExitUnlinkEndpoint, Role!RoleNext, Role!Withdraw
<1>5. ASSUME NEW p \in Pid,
             Signal(p) \/ Kill(p) \/ Fault(p) \/ ReadOwnLock(p) \/ ReleaseLock(p)
      PROVE  [Role!RoleNext]_<<RoleOwner, endpoint>>
  <2>1. endpoint' = endpoint /\ \A q \in Pid \ {p} : Owner(q)' <=> Owner(q)
    BY <1>5 DEF Signal, Kill, Fault, ReadOwnLock, ReleaseLock, Goto, TypeOK, Owner
  <2>2. Owner(p)' => Owner(p)
    BY <1>5 DEF Signal, Kill, Fault, ReadOwnLock, ReleaseLock, AfterRelease, Alive, Goto,
                TypeOK, Owner, Serving, Disposing
  <2>3. CASE Owner(p) /\ ~Owner(p)'
    BY <1>leave, <2>1, <2>3
  <2>4. CASE Owner(p)' <=> Owner(p)
    BY <1>idle, <2>1, <2>4
  <2> QED BY <2>2, <2>3, <2>4
<1>6. ASSUME NEW p \in Pid,
             Start(p) \/ FindLock(p) \/ JudgeLock(p) \/ ReapLock(p) \/ WriteLock(p)
      PROVE  [Role!RoleNext]_<<RoleOwner, endpoint>>
  BY <1>6, <1>idle DEF Start, FindLock, JudgeLock, ReapLock, WriteLock, Goto, TypeOK,
     Owner, Serving, Disposing
<1>7. ASSUME NEW p \in Pid,
             Refuse(p) \/ BootHost(p) \/ FailBoot(p) \/ RegisterHandlers(p) \/ ReadOwnEndpoint(p)
      PROVE  [Role!RoleNext]_<<RoleOwner, endpoint>>
  BY <1>7, <1>idle DEF Refuse, ReadRival, ProbeRival, BootHost, FailBoot, RegisterHandlers,
     ReadOwnEndpoint, Goto, TypeOK, Owner, Serving, Disposing
<1>8. ASSUME NEW p \in Pid,
             Teardown(p) \/ ExitReadEndpoint(p) \/ ExitReadLock(p) \/ ExitUnlinkLock(p)
      PROVE  [Role!RoleNext]_<<RoleOwner, endpoint>>
  BY <1>8, <1>idle DEF Teardown, ExitReadEndpoint, ExitReadLock, ExitUnlinkLock, Goto, TypeOK,
     Owner, Serving, Disposing
<1>9. CASE UNCHANGED hostVars
  BY <1>9, <1>idle DEF hostVars, Owner
<1> QED
  BY <1>1, <1>2, <1>3, <1>4, <1>5, <1>6, <1>7, <1>8, <1>9
     DEF Next, Run, Acquire, Boot, Dispose, Exit

\* The lock and endpoint files implement HostRole: one process at a time plays
\* the role, and only it, or it as it dies, publishes or withdraws the endpoint.
THEOREM ImplementsHostRole == ASSUME SerialStarts PROVE Spec => ImplementsRole
<1>1. Init => Role!RoleInit
  <2> SUFFICES ASSUME Init PROVE RoleOwner = NoPid /\ endpoint = NoPid
    BY DEF Role!RoleInit
  <2>1. \A p \in Pid : ~Owner(p)
    BY DEF Init, Owner, Serving, Disposing
  <2> QED BY <2>1 DEF Init, RoleOwner, Owners
<1>2. TypeOK /\ RootInv /\ RootInv' /\ [Next]_hostVars => [Role!RoleNext]_Role!roleVars
  BY RoleStep DEF Role!roleVars
<1> QED BY <1>1, <1>2, RootCorrect, PTL DEF Spec, ImplementsRole, Role!RoleSpec

-----------------------------------------------------------------------------
(* The clients, when one client drives the state root.                     *)

\* What a client is about to do belongs to the call it runs, and from the probe
\* on the call works on a process.
CallShape ==
    \A c \in Client :
        /\ step[c] = "idle" <=> call[c] = "none"
        /\ step[c] \in {"discover", "probe"} => call[c] \in {"attach", "ensure", "wait"}
        /\ step[c] = "launch" => call[c] \in {"ensure", "replace"}
        /\ step[c] \in {"stopRead", "stopProbe", "signal", "poll", "forget"}
              => call[c] \in {"replace", "stop"}
        /\ step[c] \in {"probe", "stopProbe", "signal", "poll", "forget"} => target[c] \in Pid
        /\ step[c] = "stopRead" /\ call[c] = "replace" => target[c] \in Pid

ShapeInv == ClientTypeOK /\ AttemptLeft /\ CallShape

\* A call other than a wait for a launched Host begins, and goes on, while no
\* process acquires the lock.
QuietCall ==
    \A c \in Client, p \in Pid : pc[p] \in Acquiring => call[c] \in {"none", "wait"}

\* A process registers its handlers once, after its boot.
PublishedOnce ==
    \A p \in Pid : published[p] =>
        pc[p] \notin {"off", "boot", "publish", "register"} \cup Acquiring \cup Refused

\* A Host winds down only under the eyes of the client that stops it, and one in
\* its teardown is followed by no owner.
WatchedEnd ==
    \A p \in Pid :
        /\ pc[p] = "teardown" \/ (pc[p] \in Disposing /\ published[p])
              => \A c \in Client : step[c] = "poll" /\ target[c] = p
        /\ pc[p] = "teardown" => \A q \in Pid : ~Owner(q)

\* A call works on a Host that has published, and the endpoint of a Host is never
\* that of another.
KnownTarget ==
    /\ \A c \in Client, p \in Pid : target[c] = p =>
          pc[p] \in {"register"} \cup Serving \cup Disposing \cup {"teardown"} \cup Exiting \cup Ended
    /\ \A p \in Pid : pc[p] \in {"register", "serve", "clearRead", "clearUnlink"}
          => endpoint \in {p, NoPid}
    /\ \A c \in Client, p \in Pid :
          target[c] = p /\ pc[p] \in Serving \cup Disposing => published[p]

\* What a replacement is about to signal is the stale Host it found: nobody has
\* become an owner, or published, since.
StaleTarget ==
    \A c \in Client : call[c] = "replace" /\ step[c] \in {"stopRead", "stopProbe", "signal"} =>
        /\ version[target[c]] # want[c]
        /\ endpoint \in {target[c], NoPid}
        /\ \A q \in Pid : Owner(q) => q = target[c]

ReplaceInv == QuietCall /\ PublishedOnce /\ WatchedEnd /\ KnownTarget /\ StaleTarget

LEMMA ClientStepIsHostStep ==
  ASSUME ShapeInv, [ClientNext]_vars
  PROVE  [Next]_hostVars \/ \E c \in Client : Forget(c)
<1> USE DEF hostVars, clientVars, vars
<1>1. CASE UNCHANGED vars
  BY <1>1
<1>2. ASSUME NEW c \in Client, UserCall(c) PROVE [Next]_hostVars
  BY <1>2 DEF UserCall, Stop, Ensure
<1>3. ASSUME NEW c \in Client, StartTimeout(c) PROVE [Next]_hostVars
  BY <1>3 DEF StartTimeout
<1>4. ASSUME NEW c \in Client, Proceed(c) PROVE [Next]_hostVars \/ Forget(c)
  <2>1. CASE Discover(c) \/ ProbeReady(c) \/ ProbeUnhealthy(c) \/ LaunchFails(c) \/ StopRead(c)
             \/ StopProven(c) \/ StopUnhealthy(c) \/ PollGone(c)
    BY <2>1 DEF Discover, ProbeReady, ProbeUnhealthy, LaunchFails, StopRead, StopProven,
                StopUnhealthy, PollGone
  <2>2. ASSUME NEW p \in Pid, Launch(c, p) PROVE [Next]_hostVars
    BY <2>2 DEF Launch, Next
  <2>3. CASE StopSignal(c)
    <3>1. target[c] \in Pid
      BY <2>3 DEF StopSignal, At, ShapeInv, CallShape
    <3> QED BY <2>3, <3>1 DEF StopSignal, Next
  <2>4. CASE PollTimeout(c)
    <3>1. target[c] \in Pid
      BY <2>4 DEF PollTimeout, At, ShapeInv, CallShape
    <3> QED BY <2>4, <3>1 DEF PollTimeout, Next
  <2> QED BY <1>4, <2>1, <2>2, <2>3, <2>4 DEF Proceed
<1>5. ASSUME NEW p \in Pid, HostStep(p) PROVE [Next]_hostVars
  BY <1>5 DEF HostStep, Next
<1> QED BY <1>1, <1>2, <1>3, <1>4, <1>5 DEF ClientNext

LEMMA ShapeInitial == ClientInit => ShapeInv
<1> SUFFICES ASSUME ClientInit PROVE ShapeInv
  OBVIOUS
<1>1. TypeOK /\ AttemptLeft
  BY TypeInitial DEF ClientInit
<1>2. (CHOOSE v \in Version : TRUE) \in Version
  BY VersionAssumption
<1> QED BY <1>1, <1>2, PidAssumption DEF ClientInit, ShapeInv, ClientTypeOK, CallShape, Steps, Calls

LEMMA ShapeStep == ShapeInv /\ [ClientNext]_vars => ShapeInv'
<1> SUFFICES ASSUME ShapeInv, [ClientNext]_vars PROVE ShapeInv'
  OBVIOUS
<1>host. (TypeOK /\ AttemptLeft)'
  <2>1. CASE [Next]_hostVars
    BY <2>1, TypeStep DEF ShapeInv, ClientTypeOK
  <2>2. ASSUME NEW c \in Client, Forget(c) PROVE (TypeOK /\ AttemptLeft)'
    BY <2>2 DEF Forget, ShapeInv, ClientTypeOK, TypeOK, AttemptLeft
  <2> QED BY <2>1, <2>2, ClientStepIsHostStep
<1>end. endpoint \in Pid \cup {NoPid}
  BY DEF ShapeInv, ClientTypeOK, TypeOK
<1> USE <1>host, PidAssumption DEF ShapeInv, ClientTypeOK, CallShape, Go, To, At, Steps, Calls
<1>1. ASSUME NEW c \in Client, UserCall(c) PROVE ShapeInv'
  BY <1>1 DEF UserCall, Stop, Ensure
<1>2. ASSUME NEW c \in Client, Discover(c) \/ ProbeUnhealthy(c) PROVE ShapeInv'
  <2>1. NotReady(c) = IF call[c] = "wait" THEN "discover"
                      ELSE IF call[c] = "ensure" THEN "launch" ELSE "idle"
    BY <1>2 DEF Discover, ProbeUnhealthy, NotReady
  <2>2. CASE Discover(c)
    BY <2>1, <2>2, <1>end DEF Discover
  <2>3. CASE ProbeUnhealthy(c)
    BY <2>1, <2>3 DEF ProbeUnhealthy
  <2> QED BY <1>2, <2>2, <2>3
<1>3. ASSUME NEW c \in Client, ProbeReady(c) \/ StartTimeout(c) \/ LaunchFails(c) PROVE ShapeInv'
  BY <1>3, ZenonT(60) DEF ProbeReady, StartTimeout, LaunchFails
<1>4. ASSUME NEW c \in Client, NEW p \in Pid, Launch(c, p) PROVE ShapeInv'
  BY <1>4 DEF Launch
<1>5. ASSUME NEW c \in Client, StopRead(c) \/ StopProven(c) \/ StopUnhealthy(c) PROVE ShapeInv'
  <2>1. CASE StopRead(c)
    BY <2>1, <1>end DEF StopRead, Stopped
  <2>2. CASE StopProven(c) \/ StopUnhealthy(c)
    BY <2>2, ZenonT(60) DEF StopProven, StopUnhealthy
  <2> QED BY <1>5, <2>1, <2>2
<1>6. ASSUME NEW c \in Client, StopSignal(c) \/ PollGone(c) \/ PollTimeout(c) \/ Forget(c)
      PROVE  ShapeInv'
  BY <1>6 DEF StopSignal, PollGone, PollTimeout, Forget, Stopped
<1>7. ASSUME NEW p \in Pid, HostStep(p) PROVE ShapeInv'
  BY <1>7 DEF HostStep, clientVars
<1>8. CASE UNCHANGED vars
  BY <1>8 DEF vars, clientVars
<1> QED BY <1>1, <1>2, <1>3, <1>4, <1>5, <1>6, <1>7, <1>8 DEF ClientNext, Proceed

LEMMA ReplaceInitial == ClientInit => ReplaceInv
BY PidAssumption DEF ClientInit, Init, ReplaceInv, QuietCall, PublishedOnce, WatchedEnd,
   KnownTarget, StaleTarget, Acquiring, Disposing

\* Neither lock nor process is touched when a client forgets the endpoint.
LEMMA ClientLocks ==
  ASSUME SerialStarts
  PROVE  ShapeInv /\ LockInv /\ EndpointInv /\ [ClientNext]_vars => LockInv' /\ EndpointInv'
<1> SUFFICES ASSUME ShapeInv, LockInv, EndpointInv, [ClientNext]_vars
             PROVE  LockInv' /\ EndpointInv'
  OBVIOUS
<1>1. CASE [Next]_hostVars
  BY <1>1, LockStep, EndpointStep DEF ShapeInv, ClientTypeOK
<1>2. ASSUME NEW c \in Client, Forget(c) PROVE LockInv' /\ EndpointInv'
  BY <1>2, PidAssumption DEF Forget, LockInv, OneStarts, OwnerLock, LockCreator, UnlinkIsRight,
     EndpointInv, Owner, Alive
<1> QED BY <1>1, <1>2, ClientStepIsHostStep

\* The processes' own steps, while the clients stand still.
LEMMA ReplaceHostStep ==
  ASSUME NEW d, Client = {d}, NEW p \in Pid, HostStep(p), ShapeInv, LockInv, EndpointInv, ReplaceInv
  PROVE  ReplaceInv'
<1> USE PidAssumption DEF HostStep, clientVars, ReplaceInv, QuietCall, PublishedOnce, WatchedEnd,
        KnownTarget, StaleTarget, Goto, Acquiring, Refused, Serving, Disposing, Exiting, Ended,
        Owner
<1>type. TypeOK /\ UNCHANGED clientVars
  BY DEF ShapeInv, ClientTypeOK
<1>one. \A q \in Pid : Owner(p) /\ Owner(q) => q = p
  BY DEF LockInv, OwnerLock
<1>poll. step[d] = "poll" => call[d] \in {"replace", "stop"}
  BY DEF ShapeInv, CallShape
<1>1. CASE CreateLock(p) \/ FindLock(p) \/ JudgeLock(p) \/ ReapLock(p) \/ WriteLock(p)
  BY <1>1, <1>type, <1>one, <1>poll DEF TypeOK, CreateLock, FindLock, JudgeLock, ReapLock, WriteLock
<1>2. CASE Refuse(p)
  BY <1>2, <1>type DEF TypeOK, Refuse, ReadRival, ProbeRival
<1>3. CASE BootHost(p) \/ FailBoot(p) \/ RegisterHandlers(p)
  BY <1>3, <1>type, <1>one DEF TypeOK, BootHost, FailBoot, RegisterHandlers
<1>4. CASE PublishEndpoint(p)
  BY <1>4, <1>type, <1>one DEF TypeOK, PublishEndpoint
<1>5. CASE Dispose(p)
  BY <1>5, <1>type, <1>one DEF TypeOK, Dispose, ReadOwnEndpoint, ClearEndpoint, ReadOwnLock,
     ReleaseLock, AfterRelease
<1>6. CASE Exit(p)
  BY <1>6, <1>type DEF TypeOK, Exit, Teardown, ExitReadEndpoint, ExitUnlinkEndpoint, ExitReadLock,
     ExitUnlinkLock
<1>7. CASE Kill(p) \/ Fault(p)
  BY <1>7, <1>type DEF TypeOK, Kill, Fault, Alive
<1> QED BY <1>1, <1>2, <1>3, <1>4, <1>5, <1>6, <1>7 DEF HostStep, Run, Acquire, Boot

LEMMA ReplaceStep ==
  ASSUME SerialStarts, NEW d, Client = {d},
         ShapeInv, ShapeInv', LockInv, EndpointInv, ReplaceInv, [ClientNext]_vars
  PROVE  ReplaceInv'
<1> USE PidAssumption DEF ReplaceInv, QuietCall, PublishedOnce, WatchedEnd, KnownTarget,
        StaleTarget, At, Go, To
<1>type. TypeOK /\ step \in [Client -> Steps] /\ call \in [Client -> Calls]
         /\ target \in [Client -> Pid \cup {NoPid}] /\ version \in [Pid -> Version]
         /\ want \in [Client -> Version]
  BY DEF ShapeInv, ClientTypeOK
<1>shape. /\ step[d] = "idle" <=> call[d] = "none"
          /\ step[d] \in {"discover", "probe"} => call[d] \in {"attach", "ensure", "wait"}
          /\ step[d] = "launch" => call[d] \in {"ensure", "replace"}
          /\ step[d] \in {"stopRead", "stopProbe", "signal", "poll", "forget"}
                => call[d] \in {"replace", "stop"}
          /\ step[d] \in {"probe", "stopProbe", "signal", "poll", "forget"} => target[d] \in Pid
  BY DEF ShapeInv, CallShape
<1>1. CASE UserCall(d)
  BY <1>1, <1>type, SerialStarts DEF UserCall, Stop, Ensure, hostVars, Owner
<1>2. CASE Discover(d)
  <2>1. endpoint \in Pid =>
          /\ pc[endpoint] \in {"register"} \cup Serving \cup Disposing \cup Exiting \cup Ended
          /\ pc[endpoint] \in Serving \cup Disposing => published[endpoint]
    BY DEF EndpointInv, Serving, Disposing, Exiting, Ended
  <2> QED BY <1>2, <1>type, <1>shape, <2>1 DEF Discover, NotReady, hostVars, Owner
<1>3. CASE ProbeUnhealthy(d) \/ LaunchFails(d) \/ StartTimeout(d)
  <2>1. CASE ProbeUnhealthy(d)
    <3>1. NotReady(d) \in {"discover", "launch", "idle"}
      BY <1>shape, <2>1 DEF ProbeUnhealthy, NotReady
    <3> QED BY <2>1, <3>1, <1>type, <1>shape DEF ProbeUnhealthy, hostVars, Owner
  <2>2. CASE LaunchFails(d) \/ StartTimeout(d)
    BY <2>2, <1>type, <1>shape DEF LaunchFails, StartTimeout, hostVars, Owner
  <2> QED BY <1>3, <2>1, <2>2
<1>4. CASE ProbeReady(d)
  <2>1. pc[target[d]] \in {"register", "serve"}
    BY <1>4, <1>type, <1>shape DEF ProbeReady, ProbeResults, Answers, Serving, Disposing, Exiting, Ended
  <2>2. endpoint \in {target[d], NoPid} /\ \A q \in Pid : Owner(q) => q = target[d]
    BY <1>shape, <2>1, <1>4 DEF LockInv, OwnerLock, Owner, Serving, ProbeReady
  <2> QED BY <1>4, <1>type, <1>shape, <2>2 DEF ProbeReady, Stale, hostVars, Owner
<1>5. ASSUME NEW p \in Pid, Launch(d, p) PROVE ReplaceInv'
  BY <1>5, <1>type, <1>shape DEF Launch, Start, Goto, TypeOK, Owner, Acquiring, Refused, Serving,
     Disposing, Exiting, Ended
<1>6. CASE StopRead(d) \/ StopProven(d) \/ StopUnhealthy(d) \/ PollGone(d)
  <2>1. CASE StopRead(d)
    <3>1. endpoint \in Pid =>
            /\ pc[endpoint] \in {"register"} \cup Serving \cup Disposing \cup Exiting \cup Ended
            /\ pc[endpoint] \in Serving \cup Disposing => published[endpoint]
      BY DEF EndpointInv, Serving, Disposing, Exiting, Ended
    <3> QED BY <2>1, <1>type, <1>shape, <3>1 DEF StopRead, Stopped, hostVars, Owner
  <2>2. CASE StopProven(d) \/ StopUnhealthy(d)
    <3>1. \A q \in Pid : Owner(q)' <=> Owner(q)
      BY <2>2 DEF StopProven, StopUnhealthy, hostVars, Owner
    <3>2. step'[d] \in {"signal", "forget"} /\ step[d] = "stopProbe"
          /\ call'[d] = call[d] /\ target'[d] = target[d]
          /\ UNCHANGED <<want, version, endpoint, pc, published>>
      BY <2>2, <1>type, <1>shape DEF StopProven, StopUnhealthy, hostVars
    <3> QED BY <3>1, <3>2
  <2>3. CASE PollGone(d)
    BY <2>3, <1>type, <1>shape DEF PollGone, Alive, Ended, Disposing, hostVars, Owner
  <2> QED BY <1>6, <2>1, <2>2, <2>3
<1>7. CASE StopSignal(d) \/ PollTimeout(d) \/ Forget(d)
  <2> USE DEF Goto, TypeOK, Alive, Owner, Acquiring, Refused, Serving, Disposing, Exiting, Ended
  <2>1. CASE StopSignal(d)
    BY <2>1, <1>type, <1>shape DEF StopSignal, Signal, hostVars
  <2>2. CASE PollTimeout(d)
    BY <2>2, <1>type, <1>shape DEF PollTimeout, Kill
  <2>3. CASE Forget(d)
    BY <2>3, <1>type, <1>shape DEF Forget, Stopped
  <2> QED BY <1>7, <2>1, <2>2, <2>3
<1>8. ASSUME NEW p \in Pid, HostStep(p) PROVE ReplaceInv'
  BY <1>8, ReplaceHostStep
<1>9. CASE UNCHANGED vars
  BY <1>9 DEF vars, hostVars, clientVars, Owner
<1> QED BY <1>1, <1>2, <1>3, <1>4, <1>5, <1>6, <1>7, <1>8, <1>9 DEF ClientNext, Proceed

ClientInv == ShapeInv /\ LockInv /\ EndpointInv /\ ReplaceInv

LEMMA ClientCorrect ==
  ASSUME SerialStarts, NEW CONSTANT d, Client = {d}
  PROVE  ClientSpec => []ClientInv
<1>1. ClientInit => ClientInv
  BY ShapeInitial, LockInitial, EndpointInitial, ReplaceInitial DEF ClientInit, ClientInv
<1>2. ClientInv /\ [ClientNext]_vars => ClientInv'
  BY ShapeStep, ClientLocks, ReplaceStep DEF ClientInv
<1> QED BY <1>1, <1>2, PTL DEF ClientSpec

\* When one client drives the state root, a replacement is sequential and justified:
\* no Host boots beside one that still has the plugins and the database, and only a
\* Host of another version than the launcher's is signalled (ensureHostDaemon).
THEOREM CleanReplacement ==
  ASSUME SerialStarts, NEW CONSTANT d, Client = {d}
  PROVE  ClientSpec => []ReplacesCleanly
<1>1. ClientInv => ReplacesCleanly
  <2> SUFFICES ASSUME ClientInv PROVE OneHost /\ ReplacedOnlyWhenStale
    BY DEF ReplacesCleanly
  <2> USE DEF ClientInv
  <2>1. ReplacedOnlyWhenStale
    BY DEF ReplacedOnlyWhenStale, ReplaceInv, StaleTarget, At
  <2>2. OneHost
    <3>1. \A p \in Pid : Loaded(p) => Owner(p) \/ pc[p] = "teardown"
      BY DEF Loaded, Owner
    <3>2. \A p, q \in Pid : Owner(p) /\ Owner(q) => p = q
      BY DEF LockInv, OwnerLock
    <3> QED BY <3>1, <3>2 DEF OneHost, ReplaceInv, WatchedEnd
  <2> QED BY <2>1, <2>2
<1> QED BY <1>1, ClientCorrect, PTL

\* What a stop forgets has ended, or is in its exit handler.
GoneTarget ==
    \A c \in Client : step[c] = "forget" => pc[target[c]] \in Exiting \cup Ended

LEMMA GoneStep ==
  ASSUME NEW d, Client = {d}, ~ProbeMayTimeout,
         ShapeInv, ReplaceInv, GoneTarget, [ClientNext]_vars
  PROVE  GoneTarget'
<1> USE PidAssumption DEF GoneTarget, At, Go, To, Exiting, Ended
<1>type. TypeOK /\ step \in [Client -> Steps] /\ target \in [Client -> Pid \cup {NoPid}]
  BY DEF ShapeInv, ClientTypeOK
<1>shape. step[d] \in {"stopProbe", "poll", "forget"} => target[d] \in Pid
  BY DEF ShapeInv, CallShape
<1>1. CASE UserCall(d)
  BY <1>1, <1>type DEF UserCall, Stop, Ensure, hostVars
<1>2. CASE Discover(d) \/ ProbeUnhealthy(d) \/ ProbeReady(d) \/ LaunchFails(d) \/ StartTimeout(d)
  <2>1. NotReady(d) # "forget" \/ call[d] \notin {"attach", "ensure", "wait"}
    BY DEF NotReady
  <2>2. step[d] \in {"discover", "probe"} => call[d] \in {"attach", "ensure", "wait"}
    BY DEF ShapeInv, CallShape
  <2> QED BY <1>2, <1>type, <2>1, <2>2
          DEF Discover, ProbeUnhealthy, ProbeReady, LaunchFails, StartTimeout
<1>3. ASSUME NEW p \in Pid, Launch(d, p) PROVE GoneTarget'
  BY <1>3, <1>type DEF Launch
<1>4. CASE StopRead(d) \/ StopProven(d) \/ StopSignal(d) \/ Forget(d)
  BY <1>4, <1>type DEF StopRead, StopProven, StopSignal, Forget, Stopped
<1>5. CASE StopUnhealthy(d)
  <2>1. ~Answers(target[d])
    BY <1>5 DEF StopUnhealthy, ProbeResults
  <2>2. pc[target[d]] \in Exiting \cup Ended
    BY <1>5, <1>shape, <2>1 DEF StopUnhealthy, Answers, ReplaceInv, KnownTarget, WatchedEnd
  <2> QED BY <1>5, <1>type, <1>shape, <2>2 DEF StopUnhealthy, hostVars
<1>6. CASE PollGone(d)
  <2>1. pc[target[d]] \in Exiting \cup Ended
    BY <1>6, <1>shape DEF PollGone, Alive, ReplaceInv, KnownTarget, Serving, Disposing
  <2> QED BY <1>6, <1>type, <1>shape, <2>1 DEF PollGone, hostVars
<1>7. CASE PollTimeout(d)
  BY <1>7, <1>type, <1>shape DEF PollTimeout, Kill, Goto, TypeOK
<1>8. ASSUME NEW p \in Pid, HostStep(p) PROVE GoneTarget'
  <2>1. UNCHANGED clientVars
    BY <1>8 DEF HostStep
  <2>2. pc[p] \in Ended => FALSE
    BY <1>8 DEF HostStep, Run, Acquire, CreateLock, FindLock, JudgeLock, ReapLock, WriteLock, Refuse,
       ReadRival, ProbeRival, Boot, BootHost, FailBoot, PublishEndpoint, RegisterHandlers, Dispose,
       ReadOwnEndpoint, ClearEndpoint, ReadOwnLock, ReleaseLock, Exit, Teardown, ExitReadEndpoint,
       ExitUnlinkEndpoint, ExitReadLock, ExitUnlinkLock, Kill, Alive, Fault, Serving, Disposing
  <2>3. pc[p] \in Exiting => pc'[p] \in Exiting \cup Ended
    BY <1>8, <1>type DEF HostStep, Run, Acquire, CreateLock, FindLock, JudgeLock, ReapLock, WriteLock,
       Refuse, ReadRival, ProbeRival, Boot, BootHost, FailBoot, PublishEndpoint, RegisterHandlers,
       Dispose, ReadOwnEndpoint, ClearEndpoint, ReadOwnLock, ReleaseLock, Exit, Teardown,
       ExitReadEndpoint, ExitUnlinkEndpoint, ExitReadLock, ExitUnlinkLock, Kill, Fault, Serving,
       Disposing, Goto, TypeOK
  <2>4. \A q \in Pid \ {p} : pc'[q] = pc[q]
    BY <1>8, <1>type DEF HostStep, Run, Acquire, CreateLock, FindLock, JudgeLock, ReapLock, WriteLock,
       Refuse, ReadRival, ProbeRival, Boot, BootHost, FailBoot, PublishEndpoint, RegisterHandlers,
       Dispose, ReadOwnEndpoint, ClearEndpoint, ReadOwnLock, ReleaseLock, Exit, Teardown,
       ExitReadEndpoint, ExitUnlinkEndpoint, ExitReadLock, ExitUnlinkLock, Kill, Fault, Goto, TypeOK
  <2> QED BY <2>1, <2>2, <2>3, <2>4, <1>shape DEF clientVars
<1>9. CASE UNCHANGED vars
  BY <1>9 DEF vars, hostVars, clientVars
<1> QED BY <1>1, <1>2, <1>3, <1>4, <1>5, <1>6, <1>7, <1>8, <1>9 DEF ClientNext, Proceed

\* When a probe that fails proves that the Host does not answer, a stop that ends has
\* ended its Host, or left it in its exit handler: what is launched next does not boot
\* beside it (stopHostDaemon).
THEOREM StopEndsItsHost ==
  ASSUME SerialStarts, ~ProbeMayTimeout, NEW CONSTANT d, Client = {d}
  PROVE  ClientSpec => StoppedIsGone
<1>1. ClientInit => GoneTarget
  BY DEF ClientInit, GoneTarget
<1>2. ClientInv /\ GoneTarget /\ [ClientNext]_vars => GoneTarget'
  BY GoneStep DEF ClientInv
<1>3. GoneTarget /\ [ClientNext]_vars =>
        [\A c \in Client : At(c, "forget") /\ ~At(c, "forget")' =>
            ~Alive(target[c]) \/ pc[target[c]] \in Exiting]_vars
  BY DEF GoneTarget, At, Alive
<1> QED BY <1>1, <1>2, <1>3, ClientCorrect, PTL DEF ClientSpec, StoppedIsGone

=============================================================================
