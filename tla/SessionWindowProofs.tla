------------------------- MODULE SessionWindowProofs -------------------------
(***************************************************************************)
(* Theorems about SessionWindow, for every set of Sessions, models and     *)
(* streams and for journals of any length.                                 *)
(*                                                                         *)
(* They hold of the window whose calls do not overlap (~Overlap).  The     *)
(* invariant says what an open() that awaits the catalog leaves behind: no *)
(* stream, an empty transcript and its own Session still open.  That is    *)
(* what an overlapping call breaks.                                        *)
(***************************************************************************)
EXTENDS SessionWindow, SequenceTheorems, WellFoundedInduction, TLAPS

-----------------------------------------------------------------------------
(* The invariant                                                           *)

Event == Model \cup {Text}
Stream == [of : Sid \cup {NoSid}, last : Nat, phase : {"gone", "new", "following"}]

\* The types the arguments need; what model and row hold is no matter here.
Types ==
    /\ exists \subseteq Sid
    /\ journal \in [Sid -> Seq(Event)]
    /\ id \in Sid \cup {NoSid}
    /\ transcript \in Seq(Sid \X Nat)
    /\ stream \in [Slot -> Stream]
    /\ held \in Slot \cup {NoSlot}
    /\ opening \in [Sid -> Nat]

\* At most one open() awaits the catalog: the one that opened this Session.
OneOpening ==
    /\ \A s \in Sid : opening[s] > 0 =>
          /\ opening[s] = 1 /\ id = s /\ transcript = <<>>
          /\ \A k \in Slot : stream[k] = Gone
    /\ timer => id # NoSid /\ ~shut

\* How far a stream has delivered is how much the transcript shows.
Delivered ==
    \A k \in Slot : Live(k) =>
        /\ stream[k].of \in Sid
        /\ Len(transcript) = stream[k].last
        /\ stream[k].phase = "new" => stream[k].last = 0

\* A stream that is not live is as it was before it was opened.
Clean == \A k \in Slot : Live(k) \/ stream[k] = Gone

\* A model selection names the open Session until it is answered, and no other call
\* is under way meanwhile.
Chosen ==
    selecting # NoSelection =>
        /\ selecting.phase \in {"sent", "answered"}
        /\ selecting.model \in Model /\ selecting.to = id
        /\ id # NoSid /\ ~creating

FollowInv == Types /\ OneOpening /\ Delivered /\ Clean /\ FollowsOneSession

LEMMA FollowInitial == Init => FollowInv
<1> SUFFICES ASSUME Init PROVE FollowInv
  OBVIOUS
<1>1. journal \in [Sid -> Seq(Event)]
  <2>1. \A m \in Model : <<m>> \in Seq(Event)
    BY DEF Event
  <2>2. /\ journal \in [Sid -> {<<>>} \cup {<<m>> : m \in Model}]
        /\ <<>> \in Seq(Event)
    BY EmptySeq DEF Init
  <2>3. \A s \in Sid : journal[s] \in Seq(Event)
    BY <2>1, <2>2
  <2> QED BY <2>2, <2>3
<1>2. Types
  BY <1>1, SessionAssumption DEF Init, Types, Stream, Gone
<1>3. OneOpening /\ Delivered /\ Clean
  BY DEF Init, OneOpening, Delivered, Clean, Live, Gone
<1>4. FollowsOneSession
  BY DEF Init, FollowsOneSession, OneSubscription, TranscriptFaithful, Live, Gone
<1> QED BY <1>2, <1>3, <1>4 DEF FollowInv

\* A step that leaves the streams and the transcript alone.
LEMMA Untouched ==
  ASSUME FollowInv, UNCHANGED <<id, transcript, stream, held, opening, timer, shut>>,
         exists' \subseteq Sid, journal' \in [Sid -> Seq(Event)]
  PROVE  FollowInv'
<1>1. Types' /\ OneOpening' /\ Delivered' /\ Clean'
  BY DEF FollowInv, Types, OneOpening, Delivered, Clean, Live
<1>2. FollowsOneSession'
  BY DEF FollowInv, FollowsOneSession, OneSubscription, TranscriptFaithful, Live
<1> QED BY <1>1, <1>2 DEF FollowInv

\* followDispose leaves no stream behind.
LEMMA DisposedAll == ASSUME FollowInv PROVE Disposed = [k \in Slot |-> Gone]
<1>1. \A k \in Slot : k # held => stream[k] = Gone
  BY DEF FollowInv, FollowsOneSession, OneSubscription, Clean
<1>2. stream \in [Slot -> Stream]
  BY DEF FollowInv, Types
<1>3. CASE held = NoSlot
  BY <1>1, <1>2, <1>3, SessionAssumption DEF Disposed
<1>4. CASE held # NoSlot
  BY <1>1, <1>2, <1>4 DEF Disposed
<1> QED BY <1>3, <1>4

\* Opening a Session forgets the one before it, stream and transcript.
LEMMA OpenStarts ==
  ASSUME FollowInv, ~shut, NEW s \in Sid, NEW known, \A r \in Sid : opening[r] = 0,
         OpenNow(s, known), shut' = shut, timer' \in {timer, FALSE},
         exists' \subseteq Sid, journal' = journal
  PROVE  FollowInv'
<1> USE DEF FollowInv
<1>1. Disposed = [k \in Slot |-> Gone]
  BY DisposedAll
<1>2. id' = s /\ transcript' = <<>> /\ Len(transcript') = 0 /\ transcript' \in Seq(Sid \X Nat)
  BY DEF OpenNow
<1>3. FollowsOneSession' /\ OneOpening' /\ Delivered' /\ Clean' /\ Types'
  <2>1. CASE known = NoModel
    <3>1. /\ opening' = [opening EXCEPT ![s] = @ + 1]
          /\ stream' = [k \in Slot |-> Gone] /\ held' = NoSlot
      BY <1>1, <2>1 DEF OpenNow
    <3>2. Types'
      BY <1>2, <3>1, SessionAssumption DEF Types, Stream, Gone
    <3>3. OneOpening' /\ Delivered' /\ Clean'
      BY <1>2, <3>1, SessionAssumption DEF OneOpening, Delivered, Clean, Live, Gone, Types
    <3>4. FollowsOneSession'
      BY <1>2, <3>1 DEF FollowsOneSession, OneSubscription, TranscriptFaithful, Live, Gone
    <3> QED BY <3>2, <3>3, <3>4
  <2>2. CASE known # NoModel
    <3>1. PICK k \in Slot : stream' = [Disposed EXCEPT ![k] = Fresh(s)] /\ held' = k
      BY <2>2 DEF OpenNow, Follow
    <3>2. opening' = opening
      BY <2>2 DEF OpenNow
    <3>3. \A x \in Slot : stream'[x] = IF x = k THEN Fresh(s) ELSE Gone
      BY <1>1, <3>1
    <3>4. Types'
      BY <1>1, <1>2, <3>1, <3>2, SessionAssumption DEF Types, Stream, Gone, Fresh
    <3>5. OneOpening' /\ Delivered' /\ Clean'
      BY <1>2, <3>2, <3>3, SessionAssumption DEF OneOpening, Delivered, Clean, Live, Gone, Fresh
    <3>6. FollowsOneSession'
      BY <1>2, <3>1, <3>3 DEF FollowsOneSession, OneSubscription, TranscriptFaithful, Live, Gone, Fresh
    <3> QED BY <3>4, <3>5, <3>6
  <2> QED BY <2>1, <2>2
<1> QED BY <1>3

\* The records that a fold appends.
LEMMA Records ==
  ASSUME NEW x \in Sid, NEW a \in Nat, NEW b \in Nat, a =< b
  PROVE  LET more == [i \in 1..(b - (a + 1) + 1) |-> <<x, a + 1 + i - 1>>]
         IN  /\ more \in Seq(Sid \X Nat) /\ Len(more) = b - a
             /\ \A i \in 1..Len(more) : more[i] = <<x, a + i>>
<1> DEFINE n == b - (a + 1) + 1
           more == [i \in 1..n |-> <<x, a + 1 + i - 1>>]
<1>1. n \in Nat /\ n = b - a
  OBVIOUS
<1>2. \A i \in 1..n : a + 1 + i - 1 = a + i /\ a + i \in Nat
  BY <1>1
<1>3. more \in [1..n -> Sid \X Nat]
  BY <1>1, <1>2
<1>4. more \in Seq(Sid \X Nat)
  <2> HIDE DEF n, more
  <2>1. more \in UNION {[1..m -> Sid \X Nat] : m \in Nat}
    BY <1>1, <1>3
  <2> QED BY <2>1, SeqDef, Zenon
<1>5. Len(more) = n
  BY <1>1, <1>3, <1>4, LenProperties
<1>6. \A i \in 1..n : more[i] = <<x, a + i>>
  BY <1>2
<1> QED BY <1>1, <1>4, <1>5, <1>6

\* The records that follow what the transcript shows extend it.
LEMMA FoldExtends ==
  ASSUME FollowInv, NEW k \in Slot, Live(k), NEW to \in Nat,
         Fold(k, stream[k].last + 1, to), to >= stream[k].last,
         UNCHANGED <<exists, journal, id, held, opening, timer, shut>>
  PROVE  FollowInv'
<1> USE DEF FollowInv
<1> DEFINE s == stream[k].of
           more == [i \in 1..(to - (stream[k].last + 1) + 1) |-> <<s, stream[k].last + 1 + i - 1>>]
<1>1. s \in Sid /\ s = id /\ stream[k].last = Len(transcript) /\ stream[k].last \in Nat
      /\ held = k /\ ~shut
  BY DEF Delivered, FollowsOneSession, OneSubscription, Types
<1>2. more \in Seq(Sid \X Nat) /\ Len(more) = to - stream[k].last
      /\ \A i \in 1..Len(more) : more[i] = <<s, stream[k].last + i>>
  BY <1>1, Records
<1>3. transcript' = transcript \o more
  BY DEF Fold
<1>4. transcript' \in Seq(Sid \X Nat) /\ Len(transcript') = to
      /\ \A i \in 1..to : transcript'[i] = <<id, i>>
  <2>1. transcript \in Seq(Sid \X Nat) /\ \A i \in 1..Len(transcript) : transcript[i] = <<id, i>>
    BY DEF Types, FollowsOneSession, TranscriptFaithful
  <2>2. /\ transcript' \in Seq(Sid \X Nat)
        /\ Len(transcript') = Len(transcript) + Len(more)
        /\ \A i \in 1..Len(transcript) + Len(more) : transcript'[i] =
              IF i <= Len(transcript) THEN transcript[i] ELSE more[i - Len(transcript)]
    BY <1>2, <1>3, <2>1, ConcatProperties
  <2>3. ASSUME NEW i \in 1..to PROVE transcript'[i] = <<id, i>>
    <3> HIDE DEF more, FollowInv
    <3>0. i \in 1..Len(transcript) + Len(more) /\ Len(transcript) \in Nat
      BY <1>1, <1>2
    <3>1. CASE i <= Len(transcript)
      BY <2>1, <2>2, <3>0, <3>1, SMTT(30)
    <3>2. CASE i > Len(transcript)
      <4>1. i - Len(transcript) \in 1..Len(more) /\ i \in 1..Len(transcript) + Len(more)
        BY <1>1, <1>2, <3>2
      <4>2. more[i - Len(transcript)] = <<s, i>>
        BY <1>1, <1>2, <4>1
      <4> QED BY <1>1, <2>2, <3>2, <4>1, <4>2
    <3> QED BY <1>1, <3>1, <3>2
  <2>4. Len(transcript') = to
    <3> HIDE DEF more, FollowInv
    <3> QED BY <1>1, <1>2, <2>1, <2>2
  <2> QED BY <2>2, <2>3, <2>4
<1>5. stream' = [stream EXCEPT ![k] = [of |-> s, last |-> to, phase |-> "following"]]
  BY DEF Fold
<1>6. \A x \in Slot : x # k => stream[x] = Gone
  BY <1>1 DEF FollowsOneSession, OneSubscription, Clean
<1>7. Types'
  BY <1>1, <1>4, <1>5 DEF Types, Stream
<1>8. Delivered' /\ Clean'
  BY <1>1, <1>4, <1>5, <1>6 DEF Delivered, Clean, Live, Types, Gone
<1>9. OneOpening'
  BY <1>1 DEF OneOpening, Live, Gone, Types
<1>10. FollowsOneSession'
  BY <1>1, <1>4, <1>5, <1>6 DEF FollowsOneSession, OneSubscription, TranscriptFaithful, Live, Types, Gone
<1> QED BY <1>7, <1>8, <1>9, <1>10

LEMMA ChosenStep == ASSUME ~Overlap, Chosen, [Next]_vars PROVE Chosen'
<1>1. CASE UNCHANGED <<selecting, id, creating>>
  BY <1>1 DEF Chosen
<1>2. ASSUME NEW s \in Sid, Open(s) PROVE Chosen'
  BY <1>2 DEF Open, MayCall, Awaiting, Chosen
<1>3. ASSUME NEW m \in Model, Select(m) PROVE Chosen'
  BY <1>3 DEF Select, MayCall, Awaiting, Chosen
<1>4. CASE StartNew
  BY <1>4 DEF StartNew, MayCall, Awaiting, Chosen
<1>5. ASSUME NEW s \in Sid, Created(s) PROVE Chosen'
  BY <1>5 DEF Created, Chosen
<1>6. CASE CreateFails
  BY <1>6 DEF CreateFails, Chosen
<1>7. CASE HostSelects
  BY <1>7 DEF HostSelects, Chosen, NoSelection
<1>8. CASE SelectAnswered \/ SelectFails
  BY <1>8 DEF SelectAnswered, SelectFails, Chosen
<1>9. CASE Reconnect
  BY <1>9 DEF Reconnect, OpenNow, Chosen
<1>10. CASE Refresh \/ Shut \/ \E s \in Sid : ListAdded(s) \/ CatalogArrives(s)
  BY <1>1, <1>10 DEF Refresh, Shut, ListAdded, CatalogArrives, callSide
<1>11. CASE \/ \E s \in Sid, e \in Model \cup {Text} : HostWrites(s, e)
            \/ \E k \in Slot : Snapshot(k) \/ Fails(k) \/ \E n \in 1..MaxEvents : Frame(k, n)
  BY <1>1, <1>11 DEF HostWrites, Snapshot, Fails, Frame, callSide
<1> QED
  BY <1>1, <1>2, <1>3, <1>4, <1>5, <1>6, <1>7, <1>8, <1>9, <1>10, <1>11
  DEF Next, Answer, Deliver, vars

LEMMA FollowStep == ASSUME ~Overlap, FollowInv, Chosen, [Next]_vars PROVE FollowInv'
<1> USE DEF FollowInv
<1>1. ASSUME NEW s \in Sid, Open(s) PROVE FollowInv'
  <2>1. \A r \in Sid : opening[r] = 0
    BY <1>1 DEF Open, MayCall, Awaiting, Opening, Types
  <2> QED BY <1>1, <2>1, OpenStarts DEF Open, MayCall, hostSide, Types
<1>2. ASSUME NEW s \in Sid, ListAdded(s) PROVE FollowInv'
  BY <1>2, Untouched DEF ListAdded, hostSide, callSide, Types
<1>3. ASSUME NEW s \in Sid, NEW e \in Event, HostWrites(s, e) PROVE FollowInv'
  <2>1. journal' \in [Sid -> Seq(Event)]
    BY <1>3 DEF HostWrites, Types
  <2> QED BY <1>3, <2>1, Untouched DEF HostWrites, callSide, Types
<1>4. ASSUME NEW m \in Model, Select(m) PROVE FollowInv'
  BY <1>4, Untouched DEF Select, hostSide, Types
<1>5. CASE StartNew
  BY <1>5, Untouched DEF StartNew, hostSide, Types
<1>6. CASE Refresh
  BY <1>6, Untouched DEF Refresh, hostSide, callSide, Types
<1>7. CASE Shut
  <2>1. stream' = [k \in Slot |-> Gone] /\ held' = NoSlot /\ timer' = FALSE
    BY <1>7, DisposedAll DEF Shut
  <2>2. UNCHANGED <<exists, journal, id, transcript, opening>>
    BY <1>7 DEF Shut, hostSide, callSide
  <2>3. Types'
    BY <2>1, <2>2 DEF Types, Stream, Gone
  <2>4. OneOpening' /\ Delivered' /\ Clean'
    BY <2>1, <2>2 DEF OneOpening, Delivered, Clean, Live, Gone
  <2>5. FollowsOneSession'
    BY <2>1, <2>2 DEF FollowsOneSession, OneSubscription, TranscriptFaithful, Live, Gone
  <2> QED BY <2>3, <2>4, <2>5
<1>8. ASSUME NEW s \in Sid, CatalogArrives(s) PROVE FollowInv'
  <2>1. /\ opening[s] = 1 /\ id = s /\ transcript = <<>>
        /\ \A k \in Slot : stream[k] = Gone
        /\ \A r \in Sid : opening'[r] = 0
        /\ UNCHANGED <<exists, journal, id, transcript, timer, shut>>
    BY <1>8 DEF CatalogArrives, OneOpening, Types, hostSide
  <2>2. Len(transcript) = 0 /\ opening' \in [Sid -> Nat]
    BY <1>8, <2>1 DEF CatalogArrives, Types
  <2>3. CASE shut
    <3>1. UNCHANGED <<stream, held>>
      BY <1>8, <2>3 DEF CatalogArrives
    <3>2. Types' /\ OneOpening' /\ Delivered' /\ Clean'
      BY <2>1, <2>2, <3>1 DEF Types, OneOpening, Delivered, Clean, Live
    <3> QED BY <2>1, <3>1, <3>2 DEF FollowsOneSession, OneSubscription, TranscriptFaithful, Live
  <2>4. CASE ~shut
    <3>1. PICK k \in Slot : stream' = [stream EXCEPT ![k] = Fresh(s)] /\ held' = k
      BY <1>8, <2>4 DEF CatalogArrives, Follow
    <3>2. \A x \in Slot : stream'[x] = IF x = k THEN Fresh(s) ELSE Gone
      BY <2>1, <3>1 DEF Types
    <3>3. Types'
      BY <2>1, <2>2, <3>1 DEF Types, Stream, Fresh
    <3>4. OneOpening' /\ Delivered' /\ Clean'
      BY <2>1, <2>2, <3>2 DEF OneOpening, Delivered, Clean, Live, Fresh, Gone
    <3>5. FollowsOneSession'
      BY <2>1, <2>2, <2>4, <3>1, <3>2
      DEF FollowsOneSession, OneSubscription, TranscriptFaithful, Live, Fresh, Gone
    <3> QED BY <3>3, <3>4, <3>5
  <2> QED BY <2>3, <2>4
<1>9. ASSUME NEW s \in Sid, Created(s) PROVE FollowInv'
  <2>1. exists' \subseteq Sid /\ UNCHANGED <<journal, timer, shut>>
        /\ \A r \in Sid : opening[r] = 0
    BY <1>9 DEF Created, Opening, Types
  <2>2. CASE shut
    <3>1. UNCHANGED <<id, transcript, stream, held, opening>>
      BY <1>9, <2>2 DEF Created
    <3> QED BY <2>1, <3>1, Untouched DEF Types
  <2>3. CASE ~shut
    BY <1>9, <2>1, <2>3, OpenStarts DEF Created
  <2> QED BY <2>2, <2>3
<1>10. CASE CreateFails
  BY <1>10, Untouched DEF CreateFails, hostSide, Types
<1>11. CASE HostSelects \/ SelectAnswered \/ SelectFails
  <2>1. CASE HostSelects
    <3>1. journal' \in [Sid -> Seq(Event)]
      <4>1. journal \in [Sid -> Seq(Event)] /\ selecting.model \in Event
            /\ journal' = [journal EXCEPT ![selecting.to] = Append(@, selecting.model)]
        BY <2>1 DEF HostSelects, Chosen, Types, Event, NoSelection
      <4>2. \A q \in Seq(Event) : Append(q, selecting.model) \in Seq(Event)
        BY <4>1
      <4> QED BY <4>1, <4>2
    <3> QED BY <2>1, <3>1, Untouched DEF HostSelects, Types
  <2>2. CASE SelectAnswered \/ SelectFails
    BY <2>2, Untouched DEF SelectAnswered, SelectFails, hostSide, Types
  <2> QED BY <1>11, <2>1, <2>2
<1>12. ASSUME NEW k \in Slot, Snapshot(k) PROVE FollowInv'
  <2>1. Live(k) /\ stream[k].last = 0 /\ stream[k].of \in Sid
    BY <1>12 DEF Snapshot, Live, Delivered
  <2>2. Len(journal[stream[k].of]) \in Nat
    BY <2>1 DEF Types
  <2> QED BY <1>12, <2>1, <2>2, FoldExtends DEF Snapshot, hostSide, callSide
<1>13. ASSUME NEW k \in Slot, NEW n \in 1..MaxEvents, Frame(k, n) PROVE FollowInv'
  <2>1. Live(k) /\ stream[k].last \in Nat
    BY <1>13 DEF Frame, Live, Types, Stream
  <2>2. CASE n <= stream[k].last
    BY <1>13, <2>2, Untouched DEF Frame, hostSide, callSide, Types
  <2>3. CASE n > stream[k].last
    <3>1. n = stream[k].last + 1
      BY <1>13, <2>1, <2>3 DEF Frame
    <3> QED BY <1>13, <2>1, <2>3, <3>1, FoldExtends DEF Frame, hostSide, callSide
  <2> QED BY <2>1, <2>2, <2>3
<1>14. CASE Reconnect
  <2>1. id \in Sid /\ \A r \in Sid : opening[r] = 0
    BY <1>14 DEF Reconnect, Opening, OneOpening, Types
  <2> QED BY <1>14, <2>1, OpenStarts DEF Reconnect, OneOpening, hostSide, Types
<1>15. ASSUME NEW k \in Slot, Fails(k) PROVE FollowInv'
  <2>1. stream' = [stream EXCEPT ![k] = Gone] /\ UNCHANGED <<exists, journal, id, transcript, opening, shut>>
    BY <1>15 DEF Fails, hostSide, callSide
  <2>2. \A x \in Slot : stream'[x] = Gone
    BY <1>15, <2>1 DEF Fails, Live, FollowsOneSession, OneSubscription, Clean, Types, Gone
  <2>3. Types'
    <3>1. held' \in Slot \cup {NoSlot}
      BY <1>15 DEF Fails, Types
    <3> QED BY <2>1, <3>1 DEF Types, Stream, Gone
  <2>4. OneOpening' /\ Delivered' /\ Clean'
    BY <1>15, <2>1, <2>2 DEF Fails, OneOpening, Delivered, Clean, Live, Gone
  <2>5. FollowsOneSession'
    BY <2>1, <2>2 DEF FollowsOneSession, OneSubscription, TranscriptFaithful, Live, Gone
  <2> QED BY <2>3, <2>4, <2>5
<1>16. CASE UNCHANGED vars
  BY <1>16, Untouched DEF vars, Types
<1> QED
  BY <1>1, <1>2, <1>3, <1>4, <1>5, <1>6, <1>7, <1>8, <1>9, <1>10, <1>11, <1>12, <1>13,
     <1>14, <1>15, <1>16 DEF Next, Answer, Deliver, Event

\* A window whose calls do not overlap follows the open Session by one stream, and
\* shows its journal from the beginning, each event once and in order (session.ts).
THEOREM OneSessionFollowed == ASSUME ~Overlap PROVE Spec => []FollowsOneSession
<1>1. Init => FollowInv /\ Chosen
  BY FollowInitial DEF Init, Chosen
<1>2. FollowInv /\ Chosen /\ [Next]_vars => FollowInv' /\ Chosen'
  BY FollowStep, ChosenStep
<1>3. FollowInv => FollowsOneSession
  BY DEF FollowInv
<1> QED BY <1>1, <1>2, <1>3, PTL DEF Spec

-----------------------------------------------------------------------------
(* The model shown                                                         *)

\* The i-th event of a journal is the last that selects a model.
LastSelection(q, i) ==
    /\ i \in 1..Len(q) /\ q[i] \in Model
    /\ \A j \in (i + 1)..Len(q) : q[j] \notin Model

\* Where a stream has delivered the last selection, the window shows it.
Shown ==
    \A k \in Slot : stream[k].phase = "following" =>
        /\ stream[k].last <= Len(journal[id])
        /\ \A i \in 1..stream[k].last : LastSelection(journal[id], i) => model = journal[id][i]

\* A selection the Host has made is the last of its Session.
Answered ==
    selecting.phase = "answered" =>
        \E i \in Nat : /\ LastSelection(journal[selecting.to], i)
                      /\ journal[selecting.to][i] = selecting.model

LEMMA AppendKeeps ==
  ASSUME NEW q \in Seq(Event), NEW e \in Event
  PROVE  /\ Append(q, e) \in Seq(Event) /\ Len(Append(q, e)) = Len(q) + 1
         /\ \A i \in 1..Len(q) : Append(q, e)[i] = q[i]
         /\ Append(q, e)[Len(q) + 1] = e
  OBVIOUS

LEMMA SelectedLast ==
  ASSUME NEW q \in Seq(Event), NEW i, LastSelection(q, i), NEW else
  PROVE  Selected(q, else) = q[i]
<1> DEFINE at == {j \in 1..Len(q) : q[j] \in Model}
<1>1. i \in at /\ \A j \in at : i >= j
  BY DEF LastSelection
<1>2. at \subseteq Int
  OBVIOUS
<1>3. Max(at) = i
  <2> HIDE DEF at
  <2>1. \A x \in at : (\A y \in at : x >= y) => x = i
    BY <1>1, <1>2
  <2>2. Max(at) \in at /\ \A y \in at : Max(at) >= y
    BY <1>1, Zenon DEF Max
  <2> QED BY <2>1, <2>2
<1> QED BY <1>1, <1>3 DEF Selected

\* A journal that names a model has a last selection.
LEMMA LastExists ==
  ASSUME NEW q \in Seq(Event), Selected(q, NoModel) # NoModel
  PROVE  \E i \in Nat : LastSelection(q, i)
<1> DEFINE at == {j \in 1..Len(q) : q[j] \in Model}
           back == {d \in 0..Len(q) : Len(q) - d \in at}
<1>1. Len(q) \in Nat /\ at # {}
  BY DEF Selected
<1>2. PICK j \in at : TRUE
  BY <1>1
<1>3. Len(q) - j \in back /\ back \subseteq Nat
  BY <1>1, <1>2
<1>4. PICK d \in back : \A x \in back : ~(<<x, d>> \in OpToRel(<, Nat))
  <2> HIDE DEF back
  <2> QED BY <1>3, NatLessThanWellFounded, WFMin
<1>5. \A x \in back : ~(x < d)
  BY <1>3, <1>4 DEF OpToRel
<1>6. d \in 0..Len(q) /\ Len(q) - d \in 1..Len(q) /\ q[Len(q) - d] \in Model
  BY <1>4
<1>7. ASSUME NEW x \in (Len(q) - d + 1)..Len(q) PROVE q[x] \notin Model
  <2>1. Len(q) - x < d /\ Len(q) - x \in 0..Len(q) /\ x \in 1..Len(q)
    BY <1>1, <1>6
  <2> QED BY <1>1, <1>5, <2>1, SMTT(30)
<1>8. (Len(q) - d) + 1 = Len(q) - d + 1 /\ Len(q) - d \in Nat
  BY <1>1, <1>6
<1> QED BY <1>6, <1>7, <1>8 DEF LastSelection

LEMMA SelectedOne ==
  ASSUME NEW q \in Seq(Event), NEW n \in 1..Len(q), NEW else
  PROVE  Selected(SubSeq(q, n, n), else) = IF q[n] \in Model THEN q[n] ELSE else
<1> DEFINE one == SubSeq(q, n, n)
<1>1. n \in Int /\ \A i \in n..n : q[i] \in Event
  BY ElementOfSeq
<1>2. one \in Seq(Event) /\ Len(one) = 1 /\ one[1] = q[n]
  BY <1>1, SubSeqProperties
<1> HIDE DEF one
<1>3. CASE q[n] \in Model
  <2>1. LastSelection(one, 1)
    BY <1>2, <1>3 DEF LastSelection
  <2> QED BY <1>2, <1>3, <2>1, SelectedLast DEF one
<1>4. CASE q[n] \notin Model
  <2>1. {j \in 1..Len(one) : one[j] \in Model} = {}
    BY <1>2, <1>4
  <2> QED BY <1>4, <2>1 DEF Selected, one
<1> QED BY <1>3, <1>4

\* A stream that follows is the one of the open Session.
LEMMA Following ==
  ASSUME FollowInv, NEW k \in Slot, stream[k].phase = "following"
  PROVE  /\ stream[k].of = id /\ id \in Sid /\ journal[id] \in Seq(Event)
         /\ stream[k].last \in Nat /\ held = k
BY DEF FollowInv, Types, Stream, Delivered, FollowsOneSession, OneSubscription, Live

\* What the Host appends is not delivered yet, so it cannot make what is shown wrong.
LEMMA ShownGrows ==
  ASSUME FollowInv, Shown, NEW s \in Sid, NEW e \in Event,
         journal' = [journal EXCEPT ![s] = Append(@, e)], UNCHANGED <<id, model, stream>>
  PROVE  Shown'
<1> SUFFICES ASSUME NEW k \in Slot, stream[k].phase = "following"
             PROVE  /\ stream[k].last <= Len(journal'[id])
                    /\ \A i \in 1..stream[k].last :
                          LastSelection(journal'[id], i) => model = journal'[id][i]
  BY DEF Shown
<1> DEFINE q == journal[id]
<1>1. id \in Sid /\ q \in Seq(Event) /\ stream[k].last \in Nat /\ stream[k].last <= Len(q)
  BY Following DEF Shown
<1>2. CASE s # id
  BY <1>1, <1>2 DEF Shown, FollowInv, Types
<1>3. CASE s = id
  <2>1. journal'[id] = Append(q, e)
    BY <1>1, <1>3 DEF FollowInv, Types
  <2>2. ASSUME NEW i \in 1..stream[k].last, LastSelection(Append(q, e), i)
        PROVE  LastSelection(q, i) /\ Append(q, e)[i] = q[i]
    BY <1>1, <2>2, AppendKeeps DEF LastSelection
  <2>3. stream[k].last <= Len(Append(q, e))
    BY <1>1, AppendKeeps
  <2> QED BY <2>1, <2>2, <2>3 DEF Shown
<1> QED BY <1>2, <1>3

\* The events a fold delivers leave the window with what they select.
LEMMA ShownFolds ==
  ASSUME FollowInv, Shown, NEW k \in Slot, Live(k),
         NEW from \in Nat, NEW to \in Nat, from = stream[k].last + 1, to <= Len(journal[id]),
         \/ from = 1 /\ to = Len(journal[id])
         \/ from = to /\ stream[k].phase = "following",
         Fold(k, from, to), UNCHANGED <<journal, id>>
  PROVE  Shown'
<1> DEFINE q == journal[id]
<1>1. stream[k].of = id /\ id \in Sid /\ q \in Seq(Event) /\ stream[k].last \in Nat
  BY DEF FollowInv, FollowsOneSession, OneSubscription, Delivered, Types, Stream
<1>2. \A x \in Slot : x # k => stream[x] = Gone
  BY DEF FollowInv, FollowsOneSession, OneSubscription, Clean
<1>3. stream' = [stream EXCEPT ![k] = [of |-> id, last |-> to, phase |-> "following"]]
      /\ model' = Selected(SubSeq(q, from, to), model)
  BY <1>1 DEF Fold
<1>4. stream'[k].last = to /\ \A x \in Slot : stream'[x].phase = "following" => x = k
  BY <1>2, <1>3 DEF FollowInv, Types, Gone
<1>5. ASSUME NEW i \in 1..to, LastSelection(q, i) PROVE model' = q[i]
  <2>1. CASE from = 1 /\ to = Len(q)
    <3>1. SubSeq(q, from, to) = q
      BY <1>1, <2>1, SubSeqFull
    <3> HIDE DEF q
    <3> QED BY <1>1, <1>3, <1>5, <3>1, SelectedLast
  <2>2. CASE from = to /\ stream[k].phase = "following"
    <3>1. to \in 1..Len(q)
      BY <1>1, <2>2
    <3>2. model' = IF q[to] \in Model THEN q[to] ELSE model
      <4> HIDE DEF q
      <4> QED BY <1>1, <1>3, <2>2, <3>1, SelectedOne
    <3>3. CASE i = to
      BY <1>5, <3>2, <3>3 DEF LastSelection
    <3>4. CASE i < to
      <4>1. q[to] \notin Model
        BY <1>1, <1>5, <3>1, <3>4 DEF LastSelection
      <4>2. i \in 1..stream[k].last
        BY <1>1, <2>2, <3>4
      <4>3. model = q[i]
        BY <1>5, <2>2, <4>2 DEF Shown
      <4> QED BY <3>2, <4>1, <4>3
    <3> QED BY <1>1, <3>3, <3>4
  <2> QED BY <2>1, <2>2
<1> QED BY <1>4, <1>5 DEF Shown

LEMMA AnsweredStep ==
  ASSUME ~Overlap, FollowInv, Chosen, Answered, [Next]_vars PROVE Answered'
<1>1. CASE UNCHANGED <<selecting, journal>>
  BY <1>1 DEF Answered, LastSelection
<1>2. ASSUME NEW m \in Model, Select(m) PROVE Answered'
  BY <1>2 DEF Select, Answered
<1>3. CASE SelectAnswered \/ SelectFails
  BY <1>3 DEF SelectAnswered, SelectFails, NoSelection, Answered
<1>4. CASE HostSelects
  <2> DEFINE s == selecting.to
             q == journal[s]
  <2>1. s \in Sid /\ selecting.model \in Model /\ q \in Seq(Event)
        /\ selecting.model \in Event
    BY <1>4 DEF HostSelects, Chosen, NoSelection, FollowInv, Types, Event
  <2>2. journal'[s] = Append(q, selecting.model) /\ selecting'.to = s
        /\ selecting'.model = selecting.model
    BY <1>4, <2>1 DEF HostSelects, FollowInv, Types, Chosen, NoSelection
  <2>3. LastSelection(Append(q, selecting.model), Len(q) + 1) /\ Len(q) + 1 \in Nat
    BY <2>1, AppendKeeps DEF LastSelection
  <2>4. journal'[selecting'.to] = Append(q, selecting.model)
        /\ Append(q, selecting.model)[Len(q) + 1] = selecting'.model
    BY <2>1, <2>2, AppendKeeps
  <2> HIDE DEF q
  <2> QED BY <2>3, <2>4 DEF Answered
<1>5. ASSUME NEW s \in Sid, NEW e \in Event, HostWrites(s, e) PROVE Answered'
  <2>1. selecting' = selecting /\ (e \in Model => selecting = NoSelection)
        /\ journal' = [journal EXCEPT ![s] = Append(@, e)]
    BY <1>5 DEF HostWrites, callSide
  <2>2. CASE selecting.phase = "answered" /\ selecting.to = s
    <3> DEFINE q == journal[s]
    <3>1. q \in Seq(Event) /\ journal'[s] = Append(q, e) /\ e \notin Model
      BY <2>1, <2>2 DEF FollowInv, Types, NoSelection
    <3>2. PICK i \in Nat : LastSelection(q, i) /\ q[i] = selecting.model
      BY <2>2 DEF Answered
    <3>3. LastSelection(Append(q, e), i) /\ Append(q, e)[i] = q[i]
      BY <3>1, <3>2, AppendKeeps DEF LastSelection
    <3> HIDE DEF q
    <3>4. selecting'.to = s /\ selecting'.model = selecting.model /\ selecting'.phase = "answered"
      BY <2>1, <2>2
    <3> QED BY <3>1, <3>2, <3>3, <3>4 DEF Answered
  <2>3. CASE selecting.phase = "answered" /\ selecting.to # s
    <3>1. selecting.to \in Sid
      BY <2>3 DEF Chosen, NoSelection, FollowInv, Types
    <3>2. journal'[selecting.to] = journal[selecting.to]
      BY <2>1, <2>3, <3>1 DEF FollowInv, Types
    <3> QED BY <2>1, <2>3, <3>2 DEF Answered, LastSelection
  <2>4. CASE selecting.phase # "answered"
    BY <2>1, <2>4 DEF Answered
  <2> QED BY <2>2, <2>3, <2>4
<1>6. ASSUME NEW s \in Sid, Open(s) \/ ListAdded(s) \/ CatalogArrives(s) \/ Created(s)
      PROVE  Answered'
  BY <1>1, <1>6 DEF Open, ListAdded, CatalogArrives, Created, hostSide, callSide
<1>7. CASE StartNew \/ Refresh \/ Shut \/ CreateFails \/ Reconnect
  BY <1>1, <1>7 DEF StartNew, Refresh, Shut, CreateFails, Reconnect, hostSide, callSide
<1>8. ASSUME NEW k \in Slot, Snapshot(k) \/ Fails(k) \/ \E n \in 1..MaxEvents : Frame(k, n)
      PROVE  Answered'
  BY <1>1, <1>8 DEF Snapshot, Fails, Frame, hostSide, callSide
<1> QED
  BY <1>1, <1>2, <1>3, <1>4, <1>5, <1>6, <1>7, <1>8 DEF Next, Answer, Deliver, Event, vars

LEMMA ShownStep ==
  ASSUME ~Overlap, FollowInv, Chosen, Answered, Shown, [Next]_vars PROVE Shown'
<1>1. CASE UNCHANGED <<journal, id, model, stream>>
  BY <1>1 DEF Shown, LastSelection
<1>2. CASE \A k \in Slot : stream'[k].phase # "following"
  BY <1>2 DEF Shown
<1>3. ASSUME ~shut, NEW s \in Sid, NEW known, OpenNow(s, known) PROVE Shown'
  <2>1. \A k \in Slot : stream'[k] \in {Gone, Fresh(s)}
    BY <1>3, DisposedAll DEF OpenNow, Follow
  <2> QED BY <1>2, <2>1 DEF Gone, Fresh
<1>4. ASSUME NEW s \in Sid, Open(s) PROVE Shown'
  BY <1>3, <1>4 DEF Open, MayCall
<1>5. ASSUME NEW s \in Sid, Created(s) PROVE Shown'
  BY <1>1, <1>3, <1>5 DEF Created
<1>6. CASE Reconnect
  <2>1. ~shut /\ id \in Sid
    BY <1>6 DEF Reconnect, FollowInv, OneOpening, Types
  <2> QED BY <1>3, <1>6, <2>1 DEF Reconnect
<1>7. CASE Shut
  BY <1>2, <1>7, DisposedAll DEF Shut, Gone
<1>8. ASSUME NEW s \in Sid, CatalogArrives(s) PROVE Shown'
  <2>1. \A k \in Slot : stream[k] = Gone
    BY <1>8 DEF CatalogArrives, FollowInv, OneOpening
  <2>2. \A k \in Slot : stream'[k] \in {Gone, Fresh(s)}
    BY <1>8, <2>1 DEF CatalogArrives, Follow, FollowInv, Types
  <2> QED BY <1>2, <2>2 DEF Gone, Fresh
<1>9. ASSUME NEW s \in Sid, NEW e \in Event, HostWrites(s, e) PROVE Shown'
  BY <1>9, ShownGrows DEF HostWrites
<1>10. CASE HostSelects
  <2>1. selecting.to \in Sid /\ selecting.model \in Event
    BY <1>10 DEF HostSelects, Chosen, NoSelection, FollowInv, Types, Event
  <2> QED BY <1>10, <2>1, ShownGrows DEF HostSelects
<1>11. CASE SelectAnswered
  <2>1. PICK i \in Nat : LastSelection(journal[id], i) /\ journal[id][i] = selecting.model
    BY <1>11 DEF SelectAnswered, Answered, Chosen, NoSelection
  <2>2. ASSUME NEW k \in Slot, stream[k].phase = "following", NEW j \in 1..stream[k].last,
               LastSelection(journal[id], j)
        PROVE  j = i
    BY <2>1, <2>2, Following DEF LastSelection
  <2>3. model' = journal[id][i] /\ UNCHANGED <<journal, id, stream>>
    BY <1>11, <2>1 DEF SelectAnswered, hostSide
  <2> QED BY <2>2, <2>3 DEF Shown, LastSelection
<1>12. CASE SelectFails \/ StartNew \/ Refresh \/ CreateFails
  BY <1>1, <1>12 DEF SelectFails, StartNew, Refresh, CreateFails, hostSide
<1>13. ASSUME NEW s \in Sid, ListAdded(s) PROVE Shown'
  BY <1>1, <1>13 DEF ListAdded, hostSide
<1>14. ASSUME NEW m \in Model, Select(m) PROVE Shown'
  BY <1>1, <1>14 DEF Select, hostSide
<1>15. ASSUME NEW k \in Slot, Snapshot(k) PROVE Shown'
  <2>1. /\ Live(k) /\ stream[k].last = 0 /\ stream[k].of = id
        /\ Len(journal[id]) \in Nat
    BY <1>15 DEF Snapshot, Live, FollowInv, Delivered, FollowsOneSession, OneSubscription, Types
  <2> QED BY <1>15, <2>1, ShownFolds DEF Snapshot, hostSide
<1>16. ASSUME NEW k \in Slot, NEW n \in 1..MaxEvents, Frame(k, n) PROVE Shown'
  <2>1. Live(k) /\ stream[k].phase = "following"
    BY <1>16 DEF Frame, Live
  <2>2. stream[k].last \in Nat
    BY <2>1, Following
  <2>3. CASE n <= stream[k].last
    BY <1>1, <1>16, <2>3 DEF Frame, hostSide
  <2>4. CASE n > stream[k].last
    <3>1. n = stream[k].last + 1 /\ n <= Len(journal[id]) /\ n \in Nat
      BY <1>16, <2>1, <2>4, Following DEF Frame
    <3>2. Fold(k, n, n) /\ UNCHANGED <<journal, id>>
      BY <1>16, <2>1, <2>2, <2>4 DEF Frame, hostSide
    <3> QED BY <2>1, <3>1, <3>2, ShownFolds
  <2> QED BY <2>2, <2>3, <2>4
<1>17. ASSUME NEW k \in Slot, Fails(k) PROVE Shown'
  <2>1. \A x \in Slot : stream'[x].phase = "following" => stream'[x] = stream[x]
    BY <1>17 DEF Fails, FollowInv, Types, Gone
  <2>2. UNCHANGED <<journal, id, model>>
    BY <1>17 DEF Fails, hostSide
  <2> QED BY <2>1, <2>2 DEF Shown, LastSelection
<1>18. CASE UNCHANGED vars
  BY <1>1, <1>18 DEF vars
<1> QED
  BY <1>4, <1>5, <1>6, <1>7, <1>8, <1>9, <1>10, <1>11, <1>12, <1>13, <1>14, <1>15, <1>16,
     <1>17, <1>18 DEF Next, Answer, Deliver, Event

\* What is shown where the stream has caught up is the model the Session runs.
LEMMA ShownIsRun == ASSUME FollowInv, Shown PROVE ModelShown
<1> SUFFICES ASSUME held # NoSlot, stream[held].phase = "following",
                    stream[held].last = Len(journal[id]), HostModel(id) # NoModel
             PROVE  model = HostModel(id)
  BY DEF ModelShown
<1>1. held \in Slot
  BY DEF FollowInv, Types
<1>2. journal[id] \in Seq(Event)
  BY <1>1, Following
<1>3. PICK i \in Nat : LastSelection(journal[id], i)
  BY <1>2, LastExists DEF HostModel
<1>4. model = journal[id][i]
  BY <1>1, <1>3 DEF Shown, LastSelection
<1> QED BY <1>2, <1>3, <1>4, SelectedLast DEF HostModel

\* A window whose calls do not overlap shows the model its Session runs as soon as
\* the stream has caught up, whoever selected it (session.ts, commitSelection).
THEOREM ShowsTheModel == ASSUME ~Overlap PROVE Spec => []ModelShown
<1>1. Init => FollowInv /\ Chosen /\ Answered /\ Shown
  BY FollowInitial DEF Init, Chosen, Answered, Shown, NoSelection, Gone
<1>2. FollowInv /\ Chosen /\ Answered /\ Shown /\ [Next]_vars
         => FollowInv' /\ Chosen' /\ Answered' /\ Shown'
  BY FollowStep, ChosenStep, AnsweredStep, ShownStep
<1>3. FollowInv /\ Shown => ModelShown
  BY ShownIsRun
<1> QED BY <1>1, <1>2, <1>3, PTL DEF Spec
=============================================================================
