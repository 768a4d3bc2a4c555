--------------------------- MODULE DeliveryProofs ---------------------------
(***************************************************************************)
(* Theorems about Delivery, for every set of Sessions, every number of     *)
(* lines and every number of overlapping dequeues.                         *)
(***************************************************************************)
EXTENDS Delivery, SequenceTheorems, FiniteSetTheorems, TLAPS

-----------------------------------------------------------------------------
(* Lists of lines.                                                         *)

\* A list holds each of its lines once.
Distinct(q) == \A i, j \in DOMAIN q : q[i] = q[j] => i = j

\* The first n lines stand in ascending order.
Ascending(q, n) ==
    \A i, j \in DOMAIN q : i < j /\ q[i] <= n /\ q[j] <= n => q[i] < q[j]

LEMMA AppendList ==
  ASSUME NEW q \in Seq(Nat), NEW x \in Nat
  PROVE  /\ Append(q, x) \in Seq(Nat)
         /\ ToSet(Append(q, x)) = ToSet(q) \cup {x}
         /\ Distinct(q) /\ x \notin ToSet(q) => Distinct(Append(q, x))
         /\ \A n \in Nat :
               Ascending(q, n) /\ (\A y \in ToSet(q) : y <= n /\ x <= n => y < x)
                  => Ascending(Append(q, x), n)
<1> DEFINE w == Append(q, x)
           k == Len(q)
<1>1. /\ w \in Seq(Nat) /\ k \in Nat
      /\ DOMAIN q = 1..k /\ DOMAIN w = 1..k + 1
      /\ w[k + 1] = x
      /\ \A i \in 1..k : w[i] = q[i] /\ q[i] \in Nat
  OBVIOUS
<1> HIDE DEF w, k
<1>2. ToSet(w) = ToSet(q) \cup {x}
  BY <1>1 DEF ToSet
<1>3. Distinct(q) /\ x \notin ToSet(q) => Distinct(w)
  BY <1>1 DEF ToSet, Distinct
<1>4. ASSUME NEW n \in Nat, Ascending(q, n), \A y \in ToSet(q) : y <= n /\ x <= n => y < x
      PROVE  Ascending(w, n)
  <2> SUFFICES ASSUME NEW i \in 1..k + 1, NEW j \in 1..k + 1, i < j, w[i] <= n, w[j] <= n
               PROVE  w[i] < w[j]
    BY <1>1 DEF Ascending
  <2>1. i \in 1..k /\ w[i] = q[i] /\ q[i] \in Nat
    BY <1>1
  <2>2. q[i] \in ToSet(q)
    BY <1>1, <2>1 DEF ToSet
  <2>3. CASE j = k + 1
    BY <1>1, <1>4, <2>1, <2>2, <2>3
  <2>4. CASE j \in 1..k
    BY <1>1, <1>4, <2>1, <2>4 DEF Ascending
  <2> QED BY <1>1, <2>3, <2>4
<1> QED BY <1>1, <1>2, <1>3, <1>4 DEF w

LEMMA TailList ==
  ASSUME NEW q \in Seq(Nat), q # <<>>
  PROVE  /\ Tail(q) \in Seq(Nat) /\ Head(q) \in Nat /\ Head(q) \in ToSet(q)
         /\ ToSet(Tail(q)) \subseteq ToSet(q)
         /\ Distinct(q) => Distinct(Tail(q)) /\ ToSet(Tail(q)) = ToSet(q) \ {Head(q)}
         /\ \A n \in Nat : Ascending(q, n) =>
               /\ Ascending(Tail(q), n)
               /\ \A y \in ToSet(Tail(q)) : Head(q) <= n /\ y <= n => Head(q) < y
<1> DEFINE t == Tail(q)
           k == Len(q)
<1>1. /\ t \in Seq(Nat) /\ k \in Nat /\ k >= 1 /\ Head(q) = q[1] /\ q[1] \in Nat
      /\ DOMAIN q = 1..k /\ DOMAIN t = 1..k - 1
      /\ \A i \in 1..k - 1 : t[i] = q[i + 1]
  OBVIOUS
<1> HIDE DEF t, k
<1>next. \A i \in 1..k - 1 : i + 1 \in 1..k
  BY <1>1
<1>2. Head(q) \in ToSet(q) /\ ToSet(t) \subseteq ToSet(q)
  <2>1. 1 \in 1..k
    BY <1>1
  <2>2. \A i \in 1..k - 1 : t[i] \in ToSet(q)
    BY <1>1, <1>next DEF ToSet
  <2> QED BY <1>1, <2>1, <2>2 DEF ToSet
<1>3. ASSUME Distinct(q) PROVE Distinct(t) /\ ToSet(t) = ToSet(q) \ {Head(q)}
  <2>1. Distinct(t)
    <3> SUFFICES ASSUME NEW i \in 1..k - 1, NEW j \in 1..k - 1, t[i] = t[j]
                 PROVE  i = j
      BY <1>1 DEF Distinct
    <3>1. q[i + 1] = q[j + 1] /\ i + 1 \in DOMAIN q /\ j + 1 \in DOMAIN q
      BY <1>1, <1>next
    <3>2. i + 1 = j + 1
      BY <1>3, <3>1 DEF Distinct
    <3> QED BY <1>1, <3>2
  <2>2. \A i \in 1..k : i # 1 => i - 1 \in 1..k - 1 /\ q[i] = t[i - 1]
    BY <1>1
  <2>3. ASSUME NEW i \in 1..k - 1 PROVE t[i] # q[1]
    <3>1. i + 1 \in DOMAIN q /\ 1 \in DOMAIN q /\ i + 1 # 1 /\ t[i] = q[i + 1]
      BY <1>1, <1>next
    <3> QED BY <1>3, <3>1 DEF Distinct
  <2>4. \A y \in ToSet(t) : y \in ToSet(q) /\ y # q[1]
    BY <1>1, <1>2, <2>3 DEF ToSet
  <2>5. ASSUME NEW i \in 1..k, q[i] # q[1] PROVE q[i] \in ToSet(t)
    BY <1>1, <2>2, <2>5 DEF ToSet
  <2>6. ToSet(q) \ {q[1]} \subseteq ToSet(t)
    BY <1>1, <2>5 DEF ToSet
  <2> QED BY <1>1, <2>1, <2>4, <2>6
<1>4. ASSUME NEW n \in Nat, Ascending(q, n)
      PROVE  /\ Ascending(t, n)
             /\ \A y \in ToSet(t) : Head(q) <= n /\ y <= n => Head(q) < y
  <2>1. \A i, j \in 1..k : i < j /\ q[i] <= n /\ q[j] <= n => q[i] < q[j]
    BY <1>1, <1>4 DEF Ascending
  <2>2. Ascending(t, n)
    <3> SUFFICES ASSUME NEW i \in 1..k - 1, NEW j \in 1..k - 1, i < j, t[i] <= n, t[j] <= n
                 PROVE  t[i] < t[j]
      BY <1>1 DEF Ascending
    <3>1. i + 1 \in 1..k /\ j + 1 \in 1..k /\ i + 1 < j + 1
      BY <1>1
    <3> QED BY <1>1, <2>1, <3>1
  <2>3. ASSUME NEW i \in 1..k - 1, q[1] <= n, t[i] <= n PROVE q[1] < t[i]
    <3>1. i + 1 \in 1..k /\ 1 \in 1..k /\ 1 < i + 1
      BY <1>1
    <3> QED BY <1>1, <2>1, <2>3, <3>1
  <2> QED BY <1>1, <2>2, <2>3 DEF ToSet
<1> QED BY <1>1, <1>2, <1>3, <1>4 DEF t

LEMMA ConcatList ==
  ASSUME NEW q \in Seq(Nat), NEW r \in Seq(Nat)
  PROVE  /\ q \o r \in Seq(Nat)
         /\ ToSet(q \o r) = ToSet(q) \cup ToSet(r)
         /\ Distinct(q) /\ Distinct(r) /\ ToSet(q) \cap ToSet(r) = {} => Distinct(q \o r)
         /\ \A n \in Nat : Ascending(r, n) /\ (\A y \in ToSet(q) : y > n) => Ascending(q \o r, n)
<1> DEFINE w == q \o r
           k == Len(q)
           m == Len(r)
<1>1. /\ w \in Seq(Nat) /\ k \in Nat /\ m \in Nat
      /\ DOMAIN q = 1..k /\ DOMAIN r = 1..m /\ DOMAIN w = 1..k + m
      /\ \A i \in 1..k : w[i] = q[i] /\ q[i] \in Nat
      /\ \A i \in 1..m : w[k + i] = r[i] /\ r[i] \in Nat
  OBVIOUS
<1> HIDE DEF w, k, m
<1>2. \A i \in 1..k + m : i \in 1..k \/ (i > k /\ i - k \in 1..m /\ i = k + (i - k))
  BY <1>1
<1>3. ToSet(w) = ToSet(q) \cup ToSet(r)
  <2>1. \A i \in 1..m : k + i \in 1..k + m
    BY <1>1
  <2>2. \A i \in 1..k : i \in 1..k + m
    BY <1>1
  <2>3. ToSet(q) \cup ToSet(r) \subseteq ToSet(w)
    BY <1>1, <2>1, <2>2 DEF ToSet
  <2>4. ASSUME NEW i \in 1..k + m PROVE w[i] \in ToSet(q) \cup ToSet(r)
    <3>1. CASE i \in 1..k
      BY <1>1, <3>1 DEF ToSet
    <3>2. CASE i - k \in 1..m /\ i = k + (i - k)
      <4>1. w[i] = r[i - k]
        BY <1>1, <3>2
      <4> QED BY <1>1, <3>2, <4>1 DEF ToSet
    <3> QED BY <1>2, <3>1, <3>2
  <2> QED BY <1>1, <2>3, <2>4 DEF ToSet
<1>4. ASSUME Distinct(q), Distinct(r), ToSet(q) \cap ToSet(r) = {} PROVE Distinct(w)
  <2> SUFFICES ASSUME NEW i \in 1..k + m, NEW j \in 1..k + m, w[i] = w[j] PROVE i = j
    BY <1>1 DEF Distinct
  <2>1. \A a \in 1..k, b \in 1..m : q[a] # r[b]
    BY <1>1, <1>4 DEF ToSet
  <2>2. CASE i \in 1..k /\ j \in 1..k
    BY <1>1, <1>4, <2>2 DEF Distinct
  <2>3. CASE i \in 1..k /\ j \notin 1..k
    <3>1. w[j] = r[j - k] /\ j - k \in 1..m
      BY <1>1, <1>2, <2>3
    <3> QED BY <1>1, <2>1, <2>3, <3>1
  <2>4. CASE i \notin 1..k /\ j \in 1..k
    <3>1. w[i] = r[i - k] /\ i - k \in 1..m
      BY <1>1, <1>2, <2>4
    <3> QED BY <1>1, <2>1, <2>4, <3>1
  <2>5. CASE i \notin 1..k /\ j \notin 1..k
    <3>1. w[i] = r[i - k] /\ i - k \in 1..m /\ w[j] = r[j - k] /\ j - k \in 1..m
      BY <1>1, <1>2, <2>5
    <3>2. i - k = j - k
      BY <1>1, <1>4, <3>1 DEF Distinct
    <3> QED BY <1>1, <3>2
  <2> QED BY <2>2, <2>3, <2>4, <2>5
<1>5. ASSUME NEW n \in Nat, Ascending(r, n), \A y \in ToSet(q) : y > n
      PROVE  Ascending(w, n)
  <2> SUFFICES ASSUME NEW i \in 1..k + m, NEW j \in 1..k + m, i < j, w[i] <= n, w[j] <= n
               PROVE  w[i] < w[j]
    BY <1>1 DEF Ascending
  <2>1. \A a \in 1..k : ~(w[a] <= n)
    <3> SUFFICES ASSUME NEW a \in 1..k PROVE ~(q[a] <= n)
      BY <1>1
    <3>1. q[a] \in ToSet(q) /\ q[a] \in Nat
      BY <1>1 DEF ToSet
    <3> QED BY <1>5, <3>1
  <2>2. w[i] = r[i - k] /\ i - k \in 1..m /\ w[j] = r[j - k] /\ j - k \in 1..m
    BY <1>1, <1>2, <2>1
  <2>3. i - k < j - k
    BY <1>1
  <2> QED BY <1>1, <1>5, <2>2, <2>3 DEF Ascending
<1> QED BY <1>1, <1>3, <1>4, <1>5 DEF w

LEMMA WithoutList ==
  ASSUME NEW q \in Seq(Nat), NEW x \in Nat, Distinct(q)
  PROVE  /\ Without(q, x) \in Seq(Nat) /\ Distinct(Without(q, x))
         /\ ToSet(Without(q, x)) = ToSet(q) \ {x}
         /\ Without(q, x) # q <=> x \in ToSet(q)
         /\ \A n \in Nat : Ascending(q, n) => Ascending(Without(q, x), n)
<1>1. CASE x \notin ToSet(q)
  BY <1>1 DEF Without
<1>2. CASE x \in ToSet(q)
  <2> DEFINE k == CHOOSE i \in DOMAIN q : q[i] = x
             a == SubSeq(q, 1, k - 1)
             b == SubSeq(q, k + 1, Len(q))
             w == a \o b
             n == Len(q)
  <2>1. k \in 1..n /\ q[k] = x /\ n \in Nat /\ DOMAIN q = 1..n
    BY <1>2 DEF ToSet
  <2>2. Without(q, x) = w
    BY <1>2 DEF Without, RemoveAt
  <2> HIDE DEF k
  <2>3. /\ a \in Seq(Nat) /\ b \in Seq(Nat) /\ Len(a) = k - 1 /\ Len(b) = n - k
        /\ \A i \in 1..k - 1 : a[i] = q[i]
        /\ \A i \in 1..n - k : b[i] = q[i + k]
    <3>1. /\ a \in Seq(Nat) /\ Len(a) = IF 1 <= k - 1 THEN k - 1 - 1 + 1 ELSE 0
          /\ \A i \in 1..k - 1 - 1 + 1 : a[i] = q[1 + i - 1]
      BY <2>1, SubSeqProperties
    <3>2. /\ b \in Seq(Nat) /\ Len(b) = IF k + 1 <= n THEN n - (k + 1) + 1 ELSE 0
          /\ \A i \in 1..n - (k + 1) + 1 : b[i] = q[k + 1 + i - 1]
      BY <2>1, SubSeqProperties
    <3> HIDE DEF a, b, n
    <3>3. Len(a) = k - 1 /\ Len(b) = n - k
      BY <2>1, <3>1, <3>2
    <3>4. ASSUME NEW i \in 1..k - 1 PROVE a[i] = q[i]
      <4>1. i \in 1..k - 1 - 1 + 1 /\ 1 + i - 1 = i
        BY <2>1
      <4> QED BY <3>1, <4>1
    <3>5. ASSUME NEW i \in 1..n - k PROVE b[i] = q[i + k]
      <4>1. i \in 1..n - (k + 1) + 1 /\ k + 1 + i - 1 = i + k
        BY <2>1
      <4> QED BY <3>2, <4>1
    <3> QED BY <3>1, <3>2, <3>3, <3>4, <3>5
  <2> HIDE DEF a, b, n
  <2>4. /\ w \in Seq(Nat) /\ DOMAIN w = 1..n - 1
        /\ \A i \in 1..k - 1 : w[i] = a[i]
        /\ \A i \in 1..n - 1 : i >= k => w[i] = b[i - (k - 1)] /\ i - (k - 1) \in 1..n - k
    <3>1. w \in Seq(Nat) /\ Len(w) = Len(a) + Len(b)
          /\ \A i \in 1..Len(a) + Len(b) : w[i] = IF i <= Len(a) THEN a[i] ELSE b[i - Len(a)]
      BY <2>3, ConcatProperties
    <3>2. DOMAIN w = 1..n - 1
      BY <2>1, <2>3, <3>1
    <3>3. \A i \in 1..k - 1 : i \in 1..Len(a) + Len(b) /\ i <= Len(a)
      BY <2>1, <2>3
    <3>4. \A i \in 1..n - 1 : i >= k =>
             i \in 1..Len(a) + Len(b) /\ ~(i <= Len(a)) /\ i - (k - 1) \in 1..n - k
      BY <2>1, <2>3
    <3> QED BY <2>3, <3>1, <3>2, <3>3, <3>4
  <2> HIDE DEF w
  <2>5. ASSUME NEW i \in 1..n - 1
        PROVE  w[i] = q[IF i < k THEN i ELSE i + 1] /\ (IF i < k THEN i ELSE i + 1) \in 1..n \ {k}
    <3>1. CASE i < k
      BY <2>1, <2>3, <2>4, <3>1
    <3>2. CASE ~(i < k)
      <4>1. w[i] = b[i - (k - 1)] /\ i - (k - 1) \in 1..n - k
        BY <2>1, <2>4, <3>2
      <4>2. i - (k - 1) + k = i + 1
        BY <2>1
      <4> QED BY <2>1, <2>3, <3>2, <4>1, <4>2
    <3> QED BY <3>1, <3>2
  <2>6. Distinct(w)
    <3> SUFFICES ASSUME NEW i \in 1..n - 1, NEW j \in 1..n - 1, w[i] = w[j] PROVE i = j
      BY <2>4 DEF Distinct
    <3>1. (IF i < k THEN i ELSE i + 1) = (IF j < k THEN j ELSE j + 1)
      BY <2>1, <2>5 DEF Distinct
    <3> QED BY <2>1, <3>1
  <2>7. ToSet(w) = ToSet(q) \ {x}
    <3>1. \A i \in 1..n \ {k} : q[i] # x
      BY <2>1 DEF Distinct
    <3>2. ASSUME NEW i \in 1..n \ {k} PROVE q[i] \in ToSet(w)
      <4> DEFINE j == IF i < k THEN i ELSE i - 1
      <4>1. j \in 1..n - 1 /\ (IF j < k THEN j ELSE j + 1) = i
        BY <2>1
      <4>2. w[j] = q[i]
        BY <2>5, <4>1
      <4> QED BY <2>4, <4>1, <4>2 DEF ToSet
    <3>3. \A i \in 1..n - 1 : w[i] \in ToSet(q) \ {x}
      BY <2>1, <2>5, <3>1 DEF ToSet
    <3>4. \A y \in ToSet(q) \ {x} : y \in ToSet(w)
      BY <2>1, <3>2 DEF ToSet
    <3> QED BY <2>4, <3>3, <3>4 DEF ToSet
  <2>8. ASSUME NEW m \in Nat, Ascending(q, m) PROVE Ascending(w, m)
    <3> SUFFICES ASSUME NEW i \in 1..n - 1, NEW j \in 1..n - 1, i < j, w[i] <= m, w[j] <= m
                 PROVE  w[i] < w[j]
      BY <2>4 DEF Ascending
    <3> DEFINE c == IF i < k THEN i ELSE i + 1
               d == IF j < k THEN j ELSE j + 1
    <3>1. w[i] = q[c] /\ w[j] = q[d] /\ c \in 1..n /\ d \in 1..n
      BY <2>5
    <3>2. c < d
      BY <2>1
    <3> QED BY <2>1, <2>8, <3>1, <3>2 DEF Ascending
  <2>9. w # q
    BY <1>2, <2>7
  <2> QED BY <1>2, <2>2, <2>4, <2>6, <2>7, <2>8, <2>9
<1> QED BY <1>1, <1>2

-----------------------------------------------------------------------------
(* The inductive invariant.                                                *)

Lists == Seq(Nat)

HostSessions == [running : BOOLEAN, steering : Lists, followUp : Lists, said : Lists]

PromptCalls == [kind : {"prompt"}, session : Session, line : Nat, mode : {"queue", "steer"},
                by : BOOLEAN, state : {"sent", "done"}]
RemoveCalls == [kind : {"remove"}, session : Session, line : Nat, by : Dequeuer,
                state : {"sent", "done"}]
CancelCalls == [kind : {"cancel"}, session : Session, state : {"sent", "done"}]

Frames ==
    [type : {"inbox"}, steering : Lists, followUp : Lists]
    \cup [type : {"user"}, line : Nat]
    \cup [type : {"snapshot"}, said : Lists, running : BOOLEAN]
    \cup [type : {"turn/start", "turn/end", "status"}]

Shapes ==
    /\ host \in [Session -> HostSessions]
    /\ open \in Session \cup {NoSession}
    /\ stage \in {"closed", "opening", "live"} /\ (open = NoSession <=> stage = "closed")
    /\ wire \in Seq(Frames)
    /\ view \in [shown : SUBSET Nat, steering : Lists, followUp : Lists, busy : BOOLEAN]
    /\ typed \in Nat
    /\ drafts \in Seq([line : Nat, mode : {"queue", "steer"}])
    /\ replayed \in 0..Len(drafts)
    /\ draining \in BOOLEAN
    /\ calls \subseteq PromptCalls \cup RemoveCalls \cup CancelCalls
    /\ dequeue \in [Dequeuer -> [busy : BOOLEAN, items : Lists, restored : Lists]]
    /\ editor \in Lists
    /\ refused \subseteq Nat

\* Before a Session is open the window has drafts, and nothing else; they are the
\* first lines, and are sent in their order.
DraftsFirst ==
    /\ \A i \in DOMAIN drafts : drafts[i].line = i /\ drafts[i].mode = "queue"
    /\ Len(drafts) <= typed
    /\ open = NoSession =>
          /\ typed = Len(drafts) /\ ~view.busy /\ ~draining /\ calls = {}
          /\ \A s \in Session :
                /\ ~host[s].running /\ host[s].steering = <<>>
                /\ host[s].followUp = <<>> /\ host[s].said = <<>>
    /\ \A c \in calls : c.kind = "prompt" =>
          /\ c.line <= typed
          /\ c.by => c.line = replayed /\ c.mode = "queue"
          /\ ~c.by => c.line > Len(drafts)

\* The drafts that reached a Session stand there in their order: those said before
\* those that wait for a turn of their own; none steers.
Stands(h) ==
    /\ \A y \in ToSet(h.steering) : y > Len(drafts)
    /\ Ascending(h.followUp, Len(drafts)) /\ Ascending(h.said, Len(drafts))
    /\ \A a \in ToSet(h.said), b \in ToSet(h.followUp) :
          a <= Len(drafts) /\ b <= Len(drafts) => a < b
    /\ \A y \in ToSet(h.followUp) \cup ToSet(h.said) : y <= Len(drafts) => y <= replayed

DraftsStand == \A s \in Session : Stands(host[s])

\* The call holds the line: nobody else has it until the answer.
InCall(c, line) ==
    \/ c.kind = "prompt" /\ c.line = line /\ c.state = "sent"
    \/ c.kind = "remove" /\ c.line = line /\ c.state = "done"

\* The place x of kind k holds the line.
Held(k, x, line) ==
    \/ k = "draft" /\ x = 0 /\ line \in replayed + 1..Len(drafts)
    \/ k = "call" /\ x \in calls /\ InCall(x, line)
    \/ k = "steering" /\ x \in Session /\ line \in ToSet(host[x].steering)
    \/ k = "followUp" /\ x \in Session /\ line \in ToSet(host[x].followUp)
    \/ k = "said" /\ x \in Session /\ line \in ToSet(host[x].said)
    \/ k = "restored" /\ x \in Dequeuer /\ line \in ToSet(dequeue[x].restored)
    \/ k = "editor" /\ x = 0 /\ line \in ToSet(editor)
    \/ k = "refused" /\ x = 0 /\ line \in refused

\* Every typed line has exactly one place, and no other line has any.
OnePlace ==
    /\ \A k, x, line : Held(k, x, line) => line \in 1..typed
    /\ \A line \in 1..typed :
          /\ \E k, x : Held(k, x, line)
          /\ \A k, x, k2, x2 : Held(k, x, line) /\ Held(k2, x2, line) => k = k2 /\ x = x2

\* Every list holds a line once, and a gesture that is over keeps none.
OnceInAList ==
    /\ \A s \in Session :
          Distinct(host[s].steering) /\ Distinct(host[s].followUp) /\ Distinct(host[s].said)
    /\ \A d \in Dequeuer :
          Distinct(dequeue[d].restored) /\ (~dequeue[d].busy => dequeue[d].restored = <<>>)
    /\ Distinct(editor)
    /\ Distinct(view.steering) /\ Distinct(view.followUp)
    /\ \A i \in DOMAIN wire : wire[i].type = "inbox" =>
          Distinct(wire[i].steering) /\ Distinct(wire[i].followUp)

\* What a frame adds to the transcript, and what it lists as pending.
Shows(f) ==
    IF f.type = "user" THEN {f.line} ELSE IF f.type = "snapshot" THEN ToSet(f.said) ELSE {}
Pends(f) == IF f.type = "inbox" THEN ToSet(f.steering) \cup ToSet(f.followUp) ELSE {}

\* The frames under way never list as pending what is shown by then, and the
\* snapshot comes first, to a window that lists nothing.
FramesAgree ==
    /\ stage # "live" => wire = <<>> /\ view.shown = {}
                         /\ view.steering = <<>> /\ view.followUp = <<>>
    /\ stage = "live" => view.shown \subseteq ToSet(host[open].said)
    /\ \A i \in DOMAIN wire :
          /\ Shows(wire[i]) \subseteq ToSet(host[open].said)
          /\ Pends(wire[i]) \cap view.shown = {}
          /\ \A j \in DOMAIN wire : j < i => Shows(wire[j]) \cap Pends(wire[i]) = {}
          /\ wire[i].type = "snapshot" => i = 1 /\ view.steering = <<>> /\ view.followUp = <<>>
    /\ NoEcho

PlaceInv == Shapes /\ DraftsFirst /\ OnceInAList /\ OnePlace

DeliveryInv == PlaceInv /\ DraftsStand /\ FramesAgree

-----------------------------------------------------------------------------
(* Shapes.                                                                 *)

\* A call is one of three records, told apart by its kind.
LEMMA CallKinds ==
  ASSUME Shapes, NEW c \in calls
  PROVE  /\ c.kind = "prompt" => c \in PromptCalls
         /\ c.kind = "remove" => c \in RemoveCalls
         /\ c.kind = "cancel" => c \in CancelCalls
         /\ c.session \in Session
         /\ c.kind # "cancel" => [c EXCEPT !.state = "done"] \in PromptCalls \cup RemoveCalls
BY DEF Shapes, PromptCalls, RemoveCalls, CancelCalls

LEMMA FrameShape ==
  ASSUME NEW h \in HostSessions
  PROVE  /\ Inbox(h) \in Frames
         /\ [type |-> "snapshot", said |-> h.said, running |-> h.running] \in Frames
         /\ \A line \in Nat : [type |-> "user", line |-> line] \in Frames
         /\ [type |-> "turn/start"] \in Frames /\ [type |-> "turn/end"] \in Frames
         /\ [type |-> "status"] \in Frames
BY DEF HostSessions, Frames, Inbox

LEMMA FrameKinds ==
  ASSUME NEW f \in Frames
  PROVE  /\ f.type \in {"inbox", "user", "snapshot", "turn/start", "turn/end", "status"}
         /\ f.type = "inbox" => f.steering \in Lists /\ f.followUp \in Lists
         /\ f.type = "user" => f.line \in Nat
         /\ f.type = "snapshot" => f.said \in Lists /\ f.running \in BOOLEAN
BY DEF Frames

\* One turn of the loop of a dequeue.
LEMMA AdvanceShapes ==
  ASSUME Shapes, NEW d \in Dequeuer, NEW items \in Lists, NEW restored \in Lists, NEW others,
         others \subseteq calls, open \in Session, Advance(d, items, restored, others)
  PROVE  /\ dequeue' \in [Dequeuer -> [busy : BOOLEAN, items : Lists, restored : Lists]]
         /\ calls' \subseteq PromptCalls \cup RemoveCalls \cup CancelCalls
         /\ editor' \in Lists
<1>1. CASE items = <<>>
  <2>1. Idle \in [busy : BOOLEAN, items : Lists, restored : Lists]
    BY DEF Idle, Lists
  <2>2. Restored(d, restored) \in Lists
    BY ConcatList DEF Restored, Lists, Shapes
  <2> QED BY <1>1, <2>1, <2>2 DEF Advance, Shapes
<1>2. CASE items # <<>>
  <2>1. Head(items) \in Nat /\ Tail(items) \in Lists
    BY <1>2, TailList DEF Lists
  <2>2. RemoveCall(Head(items), d) \in RemoveCalls
    BY <2>1 DEF RemoveCall, RemoveCalls
  <2>3. [busy |-> TRUE, items |-> Tail(items), restored |-> restored]
          \in [busy : BOOLEAN, items : Lists, restored : Lists]
    BY <2>1
  <2>4. calls' = others \cup {RemoveCall(Head(items), d)} /\ editor' = editor
        /\ dequeue' = [dequeue EXCEPT ![d] =
                          [busy |-> TRUE, items |-> Tail(items), restored |-> restored]]
    BY <1>2 DEF Advance
  <2>5. dequeue' \in [Dequeuer -> [busy : BOOLEAN, items : Lists, restored : Lists]]
    BY <2>3, <2>4 DEF Shapes
  <2> QED BY <2>2, <2>4, <2>5 DEF Shapes
<1> QED BY <1>1, <1>2

LEMMA ShapesInitial == Init => Shapes
<1> SUFFICES ASSUME Init PROVE Shapes
  OBVIOUS
<1>1. <<>> \in Lists /\ <<>> \in Seq(Frames) /\ Len(<<>>) = 0
      /\ <<>> \in Seq([line : Nat, mode : {"queue", "steer"}])
  BY DEF Lists
<1>2. host \in [Session -> HostSessions]
  BY <1>1 DEF Init, HostSessions
<1>3. dequeue \in [Dequeuer -> [busy : BOOLEAN, items : Lists, restored : Lists]]
  BY <1>1 DEF Init, Idle
<1>4. view \in [shown : SUBSET Nat, steering : Lists, followUp : Lists, busy : BOOLEAN]
  BY <1>1 DEF Init, Blank
<1>5. replayed \in 0..Len(drafts)
  BY <1>1 DEF Init
<1> QED BY <1>1, <1>2, <1>3, <1>4, <1>5, SessionAssumption DEF Init, Shapes

LEMMA WindowShapes ==
  ASSUME Shapes, DraftsFirst, User \/ Opened \/ ReplayDraft
  PROVE  Shapes'
<1> USE SessionAssumption
<1>1. ASSUME NEW gesture \in {"enter", "accelerated"}, Submit(gesture) PROVE Shapes'
  <2>1. ModeFor(gesture) \in {"queue", "steer"} /\ typed' \in Nat
    BY <1>1 DEF ModeFor, Submit, Shapes
  <2>2. CASE open = NoSession
    <3>1. drafts' = Append(drafts, [line |-> typed', mode |-> ModeFor(gesture)])
          /\ UNCHANGED <<host, wire, open, stage, replayed, draining, dequeue, editor, refused, calls, view>>
      BY <1>1, <2>2 DEF Submit
    <3>2. drafts' \in Seq([line : Nat, mode : {"queue", "steer"}]) /\ Len(drafts') = Len(drafts) + 1
      BY <2>1, <3>1 DEF Shapes
    <3> QED BY <2>1, <3>1, <3>2 DEF Shapes
  <2>3. CASE open # NoSession
    <3>1. PromptCall(typed', ModeFor(gesture), FALSE) \in PromptCalls
      BY <2>1, <2>3 DEF PromptCall, PromptCalls, Shapes
    <3> QED BY <1>1, <2>1, <2>3, <3>1 DEF Submit, Shapes
  <2> QED BY <2>2, <2>3
<1>2. ASSUME NEW d \in Dequeuer, Dequeue(d) PROVE Shapes'
  <2>1. open \in Session /\ view.steering \o view.followUp \in Lists /\ <<>> \in Lists
    BY <1>2, ConcatList DEF Dequeue, Shapes, Lists
  <2>2. Advance(d, view.steering \o view.followUp, <<>>, calls)
    BY <1>2 DEF Dequeue
  <2> QED BY <1>2, <2>1, <2>2, AdvanceShapes DEF Dequeue, Shapes
<1>3. CASE Cancel
  <2>1. CancelCall \in CancelCalls
    BY <1>3 DEF Cancel, CancelCall, CancelCalls, Shapes
  <2> QED BY <1>3, <2>1 DEF Cancel, Shapes
<1>4. ASSUME NEW s \in Session, OpenStart(s) PROVE Shapes'
  BY <1>4 DEF OpenStart, Shapes, Blank, Lists
<1>5. CASE Opened
  <2>1. open \in Session
    BY <1>5 DEF Opened, Shapes
  <2>2. wire' \in Seq(Frames)
    BY <1>5, <2>1, FrameShape DEF Opened, Shapes
  <2> QED BY <1>5, <2>1, <2>2 DEF Opened, Shapes
<1>6. CASE ReplayDraft
  <2>1. replayed + 1 \in 1..Len(drafts) /\ replayed' \in 0..Len(drafts)
    BY <1>6 DEF ReplayDraft, SendDraft, Shapes
  <2>2. drafts[replayed + 1].line \in Nat /\ drafts[replayed + 1].mode \in {"queue", "steer"}
    <3>1. drafts \in Seq([line : Nat, mode : {"queue", "steer"}])
      BY DEF Shapes
    <3>2. drafts[replayed + 1] \in [line : Nat, mode : {"queue", "steer"}]
      BY <2>1, <3>1, ElementOfSeq
    <3> QED BY <3>2
  <2>3. open \in Session
    BY <1>6, DraftsFirst DEF ReplayDraft, SendDraft, DraftsFirst, Shapes
  <2>4. PromptCall(drafts[replayed + 1].line, drafts[replayed + 1].mode, TRUE) \in PromptCalls
    BY <2>2, <2>3 DEF PromptCall, PromptCalls
  <2>5. calls' \subseteq PromptCalls \cup RemoveCalls \cup CancelCalls
    BY <1>6, <2>4 DEF ReplayDraft, SendDraft, Shapes
  <2> QED BY <1>6, <2>1, <2>5 DEF ReplayDraft, SendDraft, Shapes
<1> QED BY <1>1, <1>2, <1>3, <1>4, <1>5, <1>6 DEF User

LEMMA AnswerShapes ==
  ASSUME Shapes, DraftsFirst, Answer
  PROVE  Shapes'
<1> PICK c \in calls : \/ PromptAnswered(c) \/ PromptFails(c)
                       \/ RemovalAnswered(c) \/ RemovalFails(c)
                       \/ CancelFails(c)
  BY DEF Answer
<1>1. CASE PromptAnswered(c)
  BY <1>1 DEF PromptAnswered, windowVars, Shapes
<1>2. CASE PromptFails(c)
  BY <1>2, CallKinds DEF PromptFails, PromptCalls, Shapes
<1>3. CASE RemovalAnswered(c) \/ RemovalFails(c)
  <2>1. c \in RemoveCalls /\ c.by \in Dequeuer /\ c.line \in Nat /\ open \in Session
    BY <1>3, CallKinds DEF RemovalAnswered, RemovalFails, RemoveCalls, Shapes, DraftsFirst
  <2>2. dequeue[c.by].items \in Lists /\ dequeue[c.by].restored \in Lists
        /\ Append(dequeue[c.by].restored, c.line) \in Lists
    BY <2>1, AppendList DEF Shapes, Lists
  <2>3. \E restored \in Lists : Advance(c.by, dequeue[c.by].items, restored, calls \ {c})
    BY <1>3, <2>2 DEF RemovalAnswered, RemovalFails
  <2>4. /\ dequeue' \in [Dequeuer -> [busy : BOOLEAN, items : Lists, restored : Lists]]
        /\ calls' \subseteq PromptCalls \cup RemoveCalls \cup CancelCalls
        /\ editor' \in Lists
    BY <2>1, <2>2, <2>3, AdvanceShapes
  <2> QED BY <1>3, <2>4 DEF RemovalAnswered, RemovalFails, Shapes
<1>4. CASE CancelFails(c)
  BY <1>4 DEF CancelFails, Shapes
<1> QED BY <1>1, <1>2, <1>3, <1>4

LEMMA DeliverShapes ==
  ASSUME Shapes, OnceInAList, Deliver
  PROVE  Shapes'
<1> DEFINE f == Head(wire)
<1>1. f \in Frames /\ wire' \in Seq(Frames)
  BY HeadTailProperties DEF Deliver, Shapes
<1>2. Folded(view, f) \in [shown : SUBSET Nat, steering : Lists, followUp : Lists, busy : BOOLEAN]
  <2>1. CASE f.type \in {"turn/start", "turn/end", "status"}
    BY <2>1 DEF Folded, Shapes
  <2>2. CASE f.type = "user"
    <3>1. Without(view.steering, f.line) \in Lists /\ Without(view.followUp, f.line) \in Lists
      BY <1>1, <2>2, FrameKinds, WithoutList DEF Shapes, Lists, OnceInAList
    <3> QED BY <1>1, <2>2, <3>1, FrameKinds DEF Folded, DropPending, Shapes
  <2>3. CASE f.type = "inbox"
    BY <1>1, <2>3, FrameKinds DEF Folded, Shapes
  <2>4. CASE f.type = "snapshot"
    <3>1. ToSet(f.said) \subseteq Nat /\ f.running \in BOOLEAN
      BY <1>1, <2>4, FrameKinds DEF ToSet, Lists
    <3> QED BY <2>4, <3>1 DEF Folded, Shapes
  <2> QED BY <1>1, <2>1, <2>2, <2>3, <2>4, FrameKinds
<1> QED BY <1>1, <1>2 DEF Deliver, Shapes

LEMMA ShortSeqs ==
  ASSUME NEW S, NEW a \in S, NEW b \in S, NEW c \in S
  PROVE  <<>> \in Seq(S) /\ <<a>> \in Seq(S) /\ <<a, b>> \in Seq(S) /\ <<a, b, c>> \in Seq(S)
OBVIOUS

LEMMA Prefixed ==
  ASSUME NEW a, NEW b, NEW c
  PROVE  <<a>> \o <<b, c>> = <<a, b, c>> /\ <<>> \o <<b, c>> = <<b, c>>
<1> DEFINE S == {a, b, c}
           w == <<a>> \o <<b, c>>
<1>1. <<>> \in Seq(S) /\ <<a>> \in Seq(S) /\ <<b, c>> \in Seq(S) /\ <<a, b, c>> \in Seq(S)
  OBVIOUS
<1>2. w \in Seq(S) /\ Len(w) = 3 /\ w[1] = a /\ w[2] = b /\ w[3] = c
  OBVIOUS
<1>3. Len(<<a, b, c>>) = 3 /\ \A i \in 1..3 : w[i] = <<a, b, c>>[i]
  BY <1>2
<1>4. w = <<a, b, c>>
  BY <1>1, <1>2, <1>3, SeqEqual
<1>5. <<>> \o <<b, c>> = <<b, c>>
  BY <1>1, ConcatEmptySeq
<1> QED BY <1>4, <1>5

\* A prompt reaches the Host.
Prompted(h, c) ==
    IF c.mode = "steer" /\ h.running
    THEN [h EXCEPT !.steering = Append(@, c.line)]
    ELSE [h EXCEPT !.followUp = Append(@, c.line)]

\* Its removal does.
Removed(h, c) ==
    [h EXCEPT !.steering = Without(@, c.line), !.followUp = Without(@, c.line)]

\* The two claims of a turn, and its end.
Started(h) ==
    [h EXCEPT !.running = TRUE, !.followUp = Tail(@), !.said = Append(@, Head(h.followUp))]
Steered(h) == [h EXCEPT !.steering = Tail(@), !.said = Append(@, Head(h.steering))]
Ended(h)   == [h EXCEPT !.running = FALSE, !.steering = <<>>, !.followUp = h.steering \o @]

LEMMA HostSessionShapes ==
  ASSUME NEW h \in HostSessions
  PROVE  /\ \A c \in PromptCalls : Prompted(h, c) \in HostSessions
         /\ \A c \in RemoveCalls : Distinct(h.steering) /\ Distinct(h.followUp)
               => Removed(h, c) \in HostSessions
         /\ h.followUp # <<>> => Started(h) \in HostSessions /\ Head(h.followUp) \in Nat
         /\ h.steering # <<>> => Steered(h) \in HostSessions /\ Head(h.steering) \in Nat
         /\ Ended(h) \in HostSessions
<1> USE DEF HostSessions, Lists
<1>1. ASSUME NEW c \in PromptCalls PROVE Prompted(h, c) \in HostSessions
  <2>1. c.line \in Nat
    BY DEF PromptCalls
  <2>2. Append(h.steering, c.line) \in Lists /\ Append(h.followUp, c.line) \in Lists
    BY <2>1, AppendList
  <2> QED BY <2>2 DEF Prompted
<1>2. ASSUME NEW c \in RemoveCalls, Distinct(h.steering), Distinct(h.followUp)
      PROVE  Removed(h, c) \in HostSessions
  <2>1. c.line \in Nat
    BY DEF RemoveCalls
  <2>2. Without(h.steering, c.line) \in Lists /\ Without(h.followUp, c.line) \in Lists
    BY <1>2, <2>1, WithoutList
  <2> QED BY <2>2 DEF Removed
<1>3. ASSUME h.followUp # <<>> PROVE Started(h) \in HostSessions /\ Head(h.followUp) \in Nat
  <2>1. Tail(h.followUp) \in Lists /\ Head(h.followUp) \in Nat
    BY <1>3, TailList
  <2>2. Append(h.said, Head(h.followUp)) \in Lists
    BY <2>1, AppendList
  <2> QED BY <2>1, <2>2 DEF Started
<1>4. ASSUME h.steering # <<>> PROVE Steered(h) \in HostSessions /\ Head(h.steering) \in Nat
  <2>1. Tail(h.steering) \in Lists /\ Head(h.steering) \in Nat
    BY <1>4, TailList
  <2>2. Append(h.said, Head(h.steering)) \in Lists
    BY <2>1, AppendList
  <2> QED BY <2>1, <2>2 DEF Steered
<1>5. Ended(h) \in HostSessions
  <2>1. h.steering \o h.followUp \in Lists /\ <<>> \in Lists
    BY ConcatList
  <2> QED BY <2>1 DEF Ended
<1> QED BY <1>1, <1>2, <1>3, <1>4, <1>5

\* Every step of the Host, as one change of one Session and the frames it sends.
LEMMA HostSteps ==
  ASSUME Shapes
  PROVE  /\ \A c \in calls : HostPrompt(c) =>
               LET h == Prompted(host[c.session], c)
               IN host' = [host EXCEPT ![c.session] = h] /\ wire' = Sent(c.session, <<Inbox(h)>>)
         /\ \A c \in calls : HostRemove(c) =>
               LET h == Removed(host[c.session], c)
               IN /\ h # host[c.session]
                  /\ host' = [host EXCEPT ![c.session] = h] /\ wire' = Sent(c.session, <<Inbox(h)>>)
         /\ \A s \in Session : HostStartTurn(s) =>
               LET h == Started(host[s])
               IN /\ host' = [host EXCEPT ![s] = h]
                  /\ wire' = Sent(s, <<[type |-> "turn/start"],
                                       [type |-> "user", line |-> Head(host[s].followUp)], Inbox(h)>>)
         /\ \A s \in Session : HostSteer(s) =>
               LET h == Steered(host[s])
               IN /\ host' = [host EXCEPT ![s] = h]
                  /\ wire' = Sent(s, <<[type |-> "user", line |-> Head(host[s].steering)], Inbox(h)>>)
         /\ \A s \in Session : Stopped(s) =>
               LET h == Ended(host[s])
               IN /\ host' = [host EXCEPT ![s] = h]
                  /\ wire' = Sent(s, <<[type |-> "turn/end"], Inbox(h), [type |-> "status"]>>)
<1>1. ASSUME NEW c \in calls, HostPrompt(c)
      PROVE  LET h == Prompted(host[c.session], c)
             IN host' = [host EXCEPT ![c.session] = h] /\ wire' = Sent(c.session, <<Inbox(h)>>)
  BY <1>1 DEF HostPrompt, Prompted
<1>2. ASSUME NEW c \in calls, HostRemove(c)
      PROVE  LET h == Removed(host[c.session], c)
             IN /\ h # host[c.session]
                /\ host' = [host EXCEPT ![c.session] = h] /\ wire' = Sent(c.session, <<Inbox(h)>>)
  BY <1>2 DEF HostRemove, Removed
<1>3. ASSUME NEW s \in Session, HostStartTurn(s)
      PROVE  LET h == Started(host[s])
             IN /\ host' = [host EXCEPT ![s] = h]
                /\ wire' = Sent(s, <<[type |-> "turn/start"],
                                     [type |-> "user", line |-> Head(host[s].followUp)], Inbox(h)>>)
  <2> DEFINE h == [host[s] EXCEPT !.running = TRUE, !.followUp = Tail(@)]
             u == [type |-> "user", line |-> Head(host[s].followUp)]
  <2>1. [h EXCEPT !.said = Append(@, Head(host[s].followUp))] = Started(host[s])
    BY DEF Started, Shapes, HostSessions
  <2>2. <<[type |-> "turn/start"]>> \o <<u, Inbox(Started(host[s]))>>
          = <<[type |-> "turn/start"], u, Inbox(Started(host[s]))>>
    BY Prefixed
  <2> QED BY <1>3, <2>1, <2>2 DEF HostStartTurn, Claimed
<1>4. ASSUME NEW s \in Session, HostSteer(s)
      PROVE  LET h == Steered(host[s])
             IN /\ host' = [host EXCEPT ![s] = h]
                /\ wire' = Sent(s, <<[type |-> "user", line |-> Head(host[s].steering)], Inbox(h)>>)
  <2> DEFINE h == [host[s] EXCEPT !.steering = Tail(@)]
             u == [type |-> "user", line |-> Head(host[s].steering)]
  <2>1. [h EXCEPT !.said = Append(@, Head(host[s].steering))] = Steered(host[s])
    BY DEF Steered, Shapes, HostSessions
  <2>2. <<>> \o <<u, Inbox(Steered(host[s]))>> = <<u, Inbox(Steered(host[s]))>>
    BY Prefixed
  <2> QED BY <1>4, <2>1, <2>2 DEF HostSteer, Claimed
<1>5. ASSUME NEW s \in Session, Stopped(s)
      PROVE  LET h == Ended(host[s])
             IN /\ host' = [host EXCEPT ![s] = h]
                /\ wire' = Sent(s, <<[type |-> "turn/end"], Inbox(h), [type |-> "status"]>>)
  BY <1>5 DEF Stopped, Ended
<1> QED BY <1>1, <1>2, <1>3, <1>4, <1>5

LEMMA HostShapes ==
  ASSUME Shapes, OnceInAList, Host
  PROVE  Shapes'
<1>sent. ASSUME NEW s \in Session, NEW frames \in Seq(Frames) PROVE Sent(s, frames) \in Seq(Frames)
  BY ConcatProperties DEF Sent, Shapes
<1>step. ASSUME NEW s \in Session, NEW h \in HostSessions, NEW frames \in Seq(Frames),
                host' = [host EXCEPT ![s] = h], wire' = Sent(s, frames)
         PROVE  host' \in [Session -> HostSessions] /\ wire' \in Seq(Frames)
  BY <1>sent, <1>step DEF Shapes
<1>host. \A s \in Session : host[s] \in HostSessions
  BY DEF Shapes
<1>1. ASSUME NEW c \in calls, HostPrompt(c) PROVE Shapes'
  <2>1. c \in PromptCalls /\ c.session \in Session
    BY <1>1, CallKinds DEF HostPrompt
  <2>2. Prompted(host[c.session], c) \in HostSessions
    BY <1>host, <2>1, HostSessionShapes
  <2>3. <<Inbox(Prompted(host[c.session], c))>> \in Seq(Frames)
    BY <2>2, FrameShape, ShortSeqs
  <2>4. host' \in [Session -> HostSessions] /\ wire' \in Seq(Frames)
    BY <1>1, <1>step, <2>1, <2>2, <2>3, HostSteps
  <2>5. calls' \subseteq PromptCalls \cup RemoveCalls \cup CancelCalls
    BY <1>1, CallKinds DEF HostPrompt, Done, Shapes
  <2> QED BY <1>1, <2>4, <2>5 DEF HostPrompt, windowVars, Shapes
<1>2. ASSUME NEW c \in calls, HostRemove(c) PROVE Shapes'
  <2>1. c \in RemoveCalls /\ c.session \in Session
    BY <1>2, CallKinds DEF HostRemove
  <2>2. Removed(host[c.session], c) \in HostSessions
    BY <1>host, <2>1, HostSessionShapes DEF OnceInAList
  <2>3. <<Inbox(Removed(host[c.session], c))>> \in Seq(Frames)
    BY <2>2, FrameShape, ShortSeqs
  <2>4. host' \in [Session -> HostSessions] /\ wire' \in Seq(Frames)
    BY <1>2, <1>step, <2>1, <2>2, <2>3, HostSteps
  <2>5. calls' \subseteq PromptCalls \cup RemoveCalls \cup CancelCalls
    BY <1>2, CallKinds DEF HostRemove, Done, Shapes
  <2> QED BY <1>2, <2>4, <2>5 DEF HostRemove, windowVars, Shapes
<1>3. ASSUME NEW s \in Session, Stopped(s)
      PROVE  host' \in [Session -> HostSessions] /\ wire' \in Seq(Frames)
  <2>1. Ended(host[s]) \in HostSessions
    BY <1>host, HostSessionShapes
  <2>2. <<[type |-> "turn/end"], Inbox(Ended(host[s])), [type |-> "status"]>> \in Seq(Frames)
    BY <2>1, FrameShape, ShortSeqs
  <2> QED BY <1>3, <1>step, <2>1, <2>2, HostSteps
<1>4. ASSUME NEW c \in calls, NEW lost \in BOOLEAN, HostCancel(c, lost) PROVE Shapes'
  <2>1. host' \in [Session -> HostSessions] /\ wire' \in Seq(Frames)
    BY <1>3, <1>4, CallKinds DEF HostCancel, Shapes
  <2> QED BY <1>4, <2>1 DEF HostCancel, Shapes
<1>5. ASSUME NEW s \in Session, HostEndTurn(s) PROVE Shapes'
  BY <1>3, <1>5 DEF HostEndTurn, windowVars, Shapes
<1>6. ASSUME NEW s \in Session, HostStartTurn(s) PROVE Shapes'
  <2>1. Started(host[s]) \in HostSessions /\ Head(host[s].followUp) \in Nat
    BY <1>6, <1>host, HostSessionShapes DEF HostStartTurn
  <2>2. <<[type |-> "turn/start"], [type |-> "user", line |-> Head(host[s].followUp)],
          Inbox(Started(host[s]))>> \in Seq(Frames)
    BY <2>1, FrameShape, ShortSeqs
  <2>3. host' \in [Session -> HostSessions] /\ wire' \in Seq(Frames)
    BY <1>6, <1>step, <2>1, <2>2, HostSteps
  <2> QED BY <1>6, <2>3 DEF HostStartTurn, windowVars, Shapes
<1>7. ASSUME NEW s \in Session, HostSteer(s) PROVE Shapes'
  <2>1. Steered(host[s]) \in HostSessions /\ Head(host[s].steering) \in Nat
    BY <1>7, <1>host, HostSessionShapes DEF HostSteer
  <2>2. <<[type |-> "user", line |-> Head(host[s].steering)], Inbox(Steered(host[s]))>> \in Seq(Frames)
    BY <2>1, FrameShape, ShortSeqs
  <2>3. host' \in [Session -> HostSessions] /\ wire' \in Seq(Frames)
    BY <1>7, <1>step, <2>1, <2>2, HostSteps
  <2> QED BY <1>7, <2>3 DEF HostSteer, windowVars, Shapes
<1> QED BY <1>1, <1>2, <1>4, <1>5, <1>6, <1>7 DEF Host

-----------------------------------------------------------------------------
(* The place of a line.                                                    *)

\* Lines M move to one place, all other lines stay where they are.
MoveTo(k0, x0, M) ==
    \A k, x, line : Held(k, x, line)' <=> IF line \in M THEN k = k0 /\ x = x0
                                                     ELSE Held(k, x, line)

LEMMA Moved ==
  ASSUME OnePlace, typed \in Nat, typed' \in Nat, typed <= typed',
         NEW M, M \subseteq 1..typed', 1..typed' \subseteq 1..typed \cup M,
         NEW k0, NEW x0, MoveTo(k0, x0, M)
  PROVE  OnePlace'
<1>1. \A line \in 1..typed : line \in 1..typed'
  OBVIOUS
<1>2. ASSUME NEW k, NEW x, NEW line, Held(k, x, line)' PROVE line \in 1..typed'
  BY <1>1, <1>2 DEF OnePlace, MoveTo
<1>3. ASSUME NEW line \in 1..typed' PROVE \E k, x : Held(k, x, line)'
  BY DEF OnePlace, MoveTo
<1>4. ASSUME NEW line \in 1..typed', NEW k, NEW x, NEW k2, NEW x2,
             Held(k, x, line)', Held(k2, x2, line)'
      PROVE  k = k2 /\ x = x2
  BY <1>4 DEF OnePlace, MoveTo
<1> QED BY <1>2, <1>3, <1>4 DEF OnePlace

\* What a step of the Host does to the lists of its Session.
LEMMA PromptedLists ==
  ASSUME NEW h \in HostSessions, NEW c \in PromptCalls, NEW g, g = Prompted(h, c)
  PROVE  /\ g.said = h.said /\ g.running = h.running
         /\ \/ /\ c.mode = "steer" /\ g.steering = Append(h.steering, c.line)
               /\ ToSet(g.steering) = ToSet(h.steering) \cup {c.line}
               /\ g.followUp = h.followUp
            \/ /\ g.followUp = Append(h.followUp, c.line)
               /\ ToSet(g.followUp) = ToSet(h.followUp) \cup {c.line}
               /\ g.steering = h.steering
<1>1. c.line \in Nat
  BY DEF PromptCalls
<1>2. /\ ToSet(Append(h.steering, c.line)) = ToSet(h.steering) \cup {c.line}
      /\ ToSet(Append(h.followUp, c.line)) = ToSet(h.followUp) \cup {c.line}
  BY <1>1, AppendList DEF HostSessions, Lists
<1> QED BY <1>2 DEF Prompted, HostSessions

LEMMA RemovedLists ==
  ASSUME NEW h \in HostSessions, Distinct(h.steering), Distinct(h.followUp),
         NEW c \in RemoveCalls, NEW g, g = Removed(h, c)
  PROVE  /\ ToSet(g.steering) = ToSet(h.steering) \ {c.line}
         /\ ToSet(g.followUp) = ToSet(h.followUp) \ {c.line}
         /\ g.steering = Without(h.steering, c.line) /\ g.followUp = Without(h.followUp, c.line)
         /\ g.said = h.said /\ g.running = h.running
         /\ g # h => c.line \in ToSet(h.steering) \cup ToSet(h.followUp)
<1>1. c.line \in Nat
  BY DEF RemoveCalls
<1>2. /\ ToSet(Without(h.steering, c.line)) = ToSet(h.steering) \ {c.line}
      /\ ToSet(Without(h.followUp, c.line)) = ToSet(h.followUp) \ {c.line}
  BY <1>1, WithoutList DEF HostSessions, Lists
<1>3. c.line \notin ToSet(h.steering) \cup ToSet(h.followUp) => Removed(h, c) = h
  BY DEF Removed, Without, HostSessions
<1> QED BY <1>2, <1>3 DEF Removed, HostSessions

LEMMA HostLists ==
  ASSUME NEW h \in HostSessions, Distinct(h.steering), Distinct(h.followUp), Distinct(h.said)
  PROVE  /\ h.followUp # <<>> =>
               LET g == Started(h) IN
               LET line == Head(h.followUp) IN
               /\ line \in Nat /\ line \in ToSet(h.followUp)
               /\ ToSet(g.followUp) = ToSet(h.followUp) \ {line}
               /\ ToSet(g.said) = ToSet(h.said) \cup {line}
               /\ g.steering = h.steering
         /\ h.steering # <<>> =>
               LET g == Steered(h) IN
               LET line == Head(h.steering) IN
               /\ line \in Nat /\ line \in ToSet(h.steering)
               /\ ToSet(g.steering) = ToSet(h.steering) \ {line}
               /\ ToSet(g.said) = ToSet(h.said) \cup {line}
               /\ g.followUp = h.followUp
         /\ LET g == Ended(h)
            IN /\ ToSet(g.followUp) = ToSet(h.steering) \cup ToSet(h.followUp)
               /\ g.steering = <<>> /\ ToSet(g.steering) = {} /\ g.said = h.said
<1> USE DEF HostSessions, Lists
<1>1. ASSUME h.followUp # <<>>
      PROVE  LET g == Started(h) IN
             LET line == Head(h.followUp) IN
             /\ line \in Nat /\ line \in ToSet(h.followUp)
             /\ ToSet(g.followUp) = ToSet(h.followUp) \ {line}
             /\ ToSet(g.said) = ToSet(h.said) \cup {line}
             /\ g.steering = h.steering
  <2>1. Head(h.followUp) \in Nat /\ Head(h.followUp) \in ToSet(h.followUp)
        /\ ToSet(Tail(h.followUp)) = ToSet(h.followUp) \ {Head(h.followUp)}
    BY <1>1, TailList
  <2>2. ToSet(Append(h.said, Head(h.followUp))) = ToSet(h.said) \cup {Head(h.followUp)}
    BY <2>1, AppendList
  <2> QED BY <2>1, <2>2 DEF Started
<1>2. ASSUME h.steering # <<>>
      PROVE  LET g == Steered(h) IN
             LET line == Head(h.steering) IN
             /\ line \in Nat /\ line \in ToSet(h.steering)
             /\ ToSet(g.steering) = ToSet(h.steering) \ {line}
             /\ ToSet(g.said) = ToSet(h.said) \cup {line}
             /\ g.followUp = h.followUp
  <2>1. Head(h.steering) \in Nat /\ Head(h.steering) \in ToSet(h.steering)
        /\ ToSet(Tail(h.steering)) = ToSet(h.steering) \ {Head(h.steering)}
    BY <1>2, TailList
  <2>2. ToSet(Append(h.said, Head(h.steering))) = ToSet(h.said) \cup {Head(h.steering)}
    BY <2>1, AppendList
  <2> QED BY <2>1, <2>2 DEF Steered
<1>3. LET g == Ended(h)
      IN /\ ToSet(g.followUp) = ToSet(h.steering) \cup ToSet(h.followUp)
         /\ g.steering = <<>> /\ ToSet(g.steering) = {} /\ g.said = h.said
  <2>1. ToSet(h.steering \o h.followUp) = ToSet(h.steering) \cup ToSet(h.followUp)
    BY ConcatList
  <2>2. ToSet(<<>>) = {}
    BY DEF ToSet
  <2> QED BY <2>1, <2>2 DEF Ended
<1> QED BY <1>1, <1>2, <1>3

\* A call that holds no line comes and goes; nothing else moves.
LEMMA Unmoved ==
  ASSUME Shapes, OnePlace,
         UNCHANGED <<typed, replayed, drafts, host, editor, refused>>,
         \A d \in Dequeuer : dequeue'[d].restored = dequeue[d].restored,
         \A x, line : (x \in calls' /\ InCall(x, line)) <=> (x \in calls /\ InCall(x, line))
  PROVE  OnePlace'
<1>1. typed \in Nat
  BY DEF Shapes
<1>2. MoveTo("draft", 0, {})
  <2> SUFFICES ASSUME NEW k, NEW x, NEW line PROVE Held(k, x, line)' <=> Held(k, x, line)
    BY DEF MoveTo
  <2> QED BY DEF Held
<1> QED BY <1>1, <1>2, Moved

\* What a new call holds: nothing, but for a prompt its line.
LEMMA NewCall ==
  ASSUME NEW line, NEW mode, NEW draft, NEW d
  PROVE  /\ \A y : InCall(PromptCall(line, mode, draft), y) <=> y = line
         /\ \A y : ~InCall(RemoveCall(line, d), y)
         /\ \A y : ~InCall(CancelCall, y)
BY DEF InCall, PromptCall, RemoveCall, CancelCall

LEMMA SubmitPlaces ==
  ASSUME PlaceInv, NEW gesture, Submit(gesture)
  PROVE  OnePlace'
<1>1. typed \in Nat /\ typed' \in Nat /\ typed' = typed + 1 /\ typed' \notin 1..typed
  BY DEF Submit, PlaceInv, Shapes
<1>2. UNCHANGED <<host, replayed, dequeue, editor, refused>>
  BY DEF Submit
<1>3. \A k, x : ~Held(k, x, typed')
  BY <1>1 DEF PlaceInv, OnePlace
<1>4. CASE open = NoSession
  <2>1. Len(drafts') = typed' /\ Len(drafts) = typed /\ replayed \in 0..typed /\ calls' = calls
    BY <1>1, <1>4 DEF Submit, PlaceInv, Shapes, DraftsFirst
  <2>2. \A line : line \in replayed' + 1..Len(drafts') <=>
                    line \in replayed + 1..Len(drafts) \/ line = typed'
    BY <1>1, <1>2, <2>1
  <2>3. MoveTo("draft", 0, {typed'})
    <3> SUFFICES ASSUME NEW k, NEW x, NEW line
                 PROVE  Held(k, x, line)' <=> IF line = typed' THEN k = "draft" /\ x = 0
                                              ELSE Held(k, x, line)
      BY DEF MoveTo
    <3>1. CASE line = typed'
      BY <1>2, <1>3, <2>1, <2>2, <3>1 DEF Held
    <3>2. CASE line # typed'
      BY <1>2, <2>1, <2>2, <3>2 DEF Held
    <3> QED BY <3>1, <3>2
  <2> QED BY <1>1, <2>3, Moved DEF PlaceInv
<1>5. CASE open # NoSession
  <2> DEFINE c == PromptCall(typed', ModeFor(gesture), FALSE)
  <2>1. calls' = calls \cup {c} /\ drafts' = drafts
    BY <1>5 DEF Submit
  <2>2. \A y : InCall(c, y) <=> y = typed'
    BY NewCall
  <2> HIDE DEF c
  <2>3. MoveTo("call", c, {typed'})
    <3> SUFFICES ASSUME NEW k, NEW x, NEW line
                 PROVE  Held(k, x, line)' <=> IF line = typed' THEN k = "call" /\ x = c
                                              ELSE Held(k, x, line)
      BY DEF MoveTo
    <3>1. CASE line = typed'
      BY <1>2, <1>3, <2>1, <2>2, <3>1 DEF Held
    <3>2. CASE line # typed'
      BY <1>2, <2>1, <2>2, <3>2 DEF Held
    <3> QED BY <3>1, <3>2
  <2> QED BY <1>1, <2>3, Moved DEF PlaceInv
<1> QED BY <1>4, <1>5

LEMMA ReplayPlaces ==
  ASSUME PlaceInv, ReplayDraft
  PROVE  OnePlace'
<1> DEFINE line0 == replayed + 1
           c == PromptCall(drafts[line0].line, drafts[line0].mode, TRUE)
<1>1. typed \in Nat /\ replayed \in Nat /\ Len(drafts) \in Nat /\ Len(drafts) <= typed
      /\ line0 \in 1..Len(drafts) /\ line0 \in 1..typed /\ replayed' = line0
  BY DEF ReplayDraft, SendDraft, PlaceInv, Shapes, DraftsFirst
<1>2. UNCHANGED <<typed, host, drafts, dequeue, editor, refused>> /\ calls' = calls \cup {c}
  BY DEF ReplayDraft, SendDraft
<1>3. drafts[line0].line = line0
  BY <1>1 DEF PlaceInv, DraftsFirst, Shapes
<1>4. \A y : InCall(c, y) <=> y = line0
  BY <1>3, NewCall
<1> HIDE DEF c
<1>5. Held("draft", 0, line0)
  BY <1>1 DEF Held
<1>6. \A k, x : Held(k, x, line0) => k = "draft" /\ x = 0
  BY <1>1, <1>5 DEF PlaceInv, OnePlace
<1>7. \A y : y \in replayed' + 1..Len(drafts') <=> y \in replayed + 1..Len(drafts) /\ y # line0
  BY <1>1, <1>2
<1>8. MoveTo("call", c, {line0})
  <2> SUFFICES ASSUME NEW k, NEW x, NEW line
               PROVE  Held(k, x, line)' <=> IF line = line0 THEN k = "call" /\ x = c
                                            ELSE Held(k, x, line)
    BY DEF MoveTo
  <2>1. CASE line = line0
    BY <1>2, <1>4, <1>6, <1>7, <2>1 DEF Held
  <2>2. CASE line # line0
    BY <1>2, <1>4, <1>7, <2>2 DEF Held
  <2> QED BY <2>1, <2>2
<1> QED BY <1>1, <1>2, <1>8, Moved DEF PlaceInv

LEMMA WindowPlaces ==
  ASSUME PlaceInv, User \/ Opened \/ ReplayDraft \/ Deliver
  PROVE  OnePlace'
<1> USE DEF PlaceInv
<1>1. ASSUME NEW gesture \in {"enter", "accelerated"}, Submit(gesture) PROVE OnePlace'
  BY <1>1, SubmitPlaces
<1>2. ASSUME NEW d \in Dequeuer, Dequeue(d) PROVE OnePlace'
  <2> DEFINE items == view.steering \o view.followUp
             c == RemoveCall(Head(items), d)
  <2>1. /\ dequeue' = [dequeue EXCEPT ![d] =
                           [busy |-> TRUE, items |-> Tail(items), restored |-> <<>>]]
        /\ calls' = calls \cup {c}
        /\ UNCHANGED <<typed, replayed, drafts, host, editor, refused>>
    BY <1>2 DEF Dequeue, Advance
  <2>2. dequeue[d].restored = <<>>
    BY <1>2 DEF Dequeue, OnceInAList
  <2>3. \A x \in Dequeuer : dequeue'[x].restored = dequeue[x].restored
    BY <2>1, <2>2 DEF Shapes
  <2>4. \A line : ~InCall(c, line)
    BY NewCall
  <2> QED BY <2>1, <2>3, <2>4, Unmoved
<1>3. CASE Cancel
  <2>1. \A line : ~InCall(CancelCall, line)
    BY NewCall
  <2> QED BY <1>3, <2>1, Unmoved DEF Cancel
<1>4. ASSUME NEW s \in Session, OpenStart(s) PROVE OnePlace'
  BY <1>4, Unmoved DEF OpenStart
<1>5. CASE Opened
  BY <1>5, Unmoved DEF Opened
<1>6. CASE ReplayDraft
  BY <1>6, ReplayPlaces
<1>7. CASE Deliver
  BY <1>7, Unmoved DEF Deliver
<1> QED BY <1>1, <1>2, <1>3, <1>4, <1>5, <1>6, <1>7 DEF User

\* One turn of the loop of a dequeue: the texts of its gesture, with the line L of
\* the removal just answered, stay with the gesture or go to the composer.
LEMMA AdvancePlaces ==
  ASSUME PlaceInv, NEW c \in calls, c \in RemoveCalls, NEW restored \in Lists, NEW L,
         \A y : InCall(c, y) <=> y \in L,
         ToSet(restored) = ToSet(dequeue[c.by].restored) \cup L,
         Advance(c.by, dequeue[c.by].items, restored, calls \ {c}),
         UNCHANGED <<typed, replayed, drafts, host, refused>>
  PROVE  OnePlace'
<1> USE DEF PlaceInv
<1> DEFINE d == c.by
           items == dequeue[d].items
           M == ToSet(restored)
<1>1. typed \in Nat /\ d \in Dequeuer /\ M \subseteq 1..typed /\ L \subseteq 1..typed
  <2>1. typed \in Nat /\ d \in Dequeuer
    BY DEF Shapes, RemoveCalls
  <2>2. \A y \in L : Held("call", c, y)
    BY DEF Held
  <2>3. \A y \in ToSet(dequeue[d].restored) : Held("restored", d, y)
    BY <2>1 DEF Held
  <2> QED BY <2>1, <2>2, <2>3 DEF OnePlace
<1>2. \A k, x : \A y \in L : Held(k, x, y) => k = "call" /\ x = c
  <2>1. \A y \in L : Held("call", c, y)
    BY DEF Held
  <2> QED BY <1>1, <2>1 DEF OnePlace
<1>3. \A k, x : \A y \in ToSet(dequeue[d].restored) : Held(k, x, y) => k = "restored" /\ x = d
  <2>1. \A y \in ToSet(dequeue[d].restored) : Held("restored", d, y)
    BY <1>1 DEF Held
  <2> QED BY <1>1, <2>1 DEF OnePlace
<1>4. CASE items = <<>>
  <2>1. /\ dequeue' = [dequeue EXCEPT ![d] = Idle]
        /\ calls' = calls \ {c}
        /\ editor' = restored \o editor
    BY <1>4 DEF Advance, Restored
  <2>2. ToSet(editor') = M \cup ToSet(editor)
    BY <2>1, ConcatList DEF Shapes, Lists
  <2>3. ToSet(dequeue'[d].restored) = {} /\ \A x \in Dequeuer : x # d => dequeue'[x] = dequeue[x]
    BY <1>1, <2>1 DEF Shapes, Idle, ToSet
  <2>4. MoveTo("editor", 0, M)
    <3> SUFFICES ASSUME NEW k, NEW x, NEW line
                 PROVE  Held(k, x, line)' <=> IF line \in M THEN k = "editor" /\ x = 0
                                              ELSE Held(k, x, line)
      BY DEF MoveTo
    <3>1. CASE line \in M
      <4>1. Held(k, x, line) => (k = "call" /\ x = c) \/ (k = "restored" /\ x = d)
        BY <1>2, <1>3, <3>1
      <4> HIDE DEF M, d
      <4> QED BY <2>1, <2>2, <2>3, <3>1, <4>1 DEF Held
    <3>2. CASE line \notin M
      <4> QED BY <2>1, <2>2, <2>3, <3>2 DEF Held
    <3> QED BY <3>1, <3>2
  <2> QED BY <1>1, <2>4, Moved
<1>5. CASE items # <<>>
  <2> DEFINE r == RemoveCall(Head(items), d)
  <2>1. /\ dequeue' = [dequeue EXCEPT ![d] =
                           [busy |-> TRUE, items |-> Tail(items), restored |-> restored]]
        /\ calls' = (calls \ {c}) \cup {r}
        /\ editor' = editor
    BY <1>5 DEF Advance
  <2>2. \A y : ~InCall(r, y)
    BY NewCall
  <2>3. ToSet(dequeue'[d].restored) = M /\ \A x \in Dequeuer : x # d => dequeue'[x] = dequeue[x]
    BY <1>1, <2>1 DEF Shapes
  <2> HIDE DEF r
  <2>4. MoveTo("restored", d, L)
    <3> SUFFICES ASSUME NEW k, NEW x, NEW line
                 PROVE  Held(k, x, line)' <=> IF line \in L THEN k = "restored" /\ x = d
                                              ELSE Held(k, x, line)
      BY DEF MoveTo
    <3>1. CASE line \in L
      BY <1>1, <1>2, <2>1, <2>2, <2>3, <3>1 DEF Held
    <3>2. CASE line \notin L
      BY <1>1, <2>1, <2>2, <2>3, <3>2 DEF Held
    <3> QED BY <3>1, <3>2
  <2> QED BY <1>1, <2>4, Moved
<1> QED BY <1>4, <1>5

LEMMA AnswerPlaces ==
  ASSUME PlaceInv, "removal" \notin Faults, Answer
  PROVE  OnePlace'
<1> USE DEF PlaceInv
<1> PICK c \in calls : \/ PromptAnswered(c) \/ PromptFails(c)
                       \/ RemovalAnswered(c) \/ RemovalFails(c)
                       \/ CancelFails(c)
  BY DEF Answer
<1>kind. /\ c.kind = "prompt" => c \in PromptCalls
         /\ c.kind = "remove" => c \in RemoveCalls
  BY CallKinds
<1>1. CASE PromptAnswered(c)
  <2>1. \A y : ~InCall(c, y)
    BY <1>1 DEF PromptAnswered, InCall
  <2> QED BY <1>1, <2>1, Unmoved DEF PromptAnswered, windowVars
<1>2. CASE PromptFails(c)
  <2>1. /\ calls' = calls \ {c} /\ c.kind = "prompt"
        /\ UNCHANGED <<host, typed, drafts, replayed, dequeue, editor>>
    BY <1>2 DEF PromptFails
  <2>2. CASE c.state = "done"
    <3>1. \A y : ~InCall(c, y)
      BY <2>1, <2>2 DEF InCall
    <3> QED BY <1>2, <2>1, <2>2, <3>1, Unmoved DEF PromptFails
  <2>3. CASE c.state # "done"
    <3>1. c.state = "sent" /\ typed \in Nat /\ refused' = refused \cup {c.line}
      BY <1>kind, <1>2, <2>1, <2>3 DEF PromptCalls, Shapes, PromptFails
    <3>2. \A y : InCall(c, y) <=> y = c.line
      BY <2>1, <3>1 DEF InCall
    <3>3. Held("call", c, c.line)
      BY <3>2 DEF Held
    <3>4. c.line \in 1..typed /\ \A k, x : Held(k, x, c.line) => k = "call" /\ x = c
      BY <3>3 DEF OnePlace
    <3>5. MoveTo("refused", 0, {c.line})
      <4> SUFFICES ASSUME NEW k, NEW x, NEW line
                   PROVE  Held(k, x, line)' <=> IF line = c.line THEN k = "refused" /\ x = 0
                                                ELSE Held(k, x, line)
        BY DEF MoveTo
      <4>1. CASE line = c.line
        BY <2>1, <3>1, <3>2, <3>4, <4>1 DEF Held
      <4>2. CASE line # c.line
        BY <2>1, <3>1, <3>2, <4>2 DEF Held
      <4> QED BY <4>1, <4>2
    <3> QED BY <2>1, <3>1, <3>4, <3>5, Moved
  <2> QED BY <2>2, <2>3
<1>3. CASE RemovalAnswered(c)
  <2> DEFINE old == dequeue[c.by].restored
             restored == Append(old, c.line)
  <2>1. c \in RemoveCalls /\ c.by \in Dequeuer /\ c.line \in Nat /\ old \in Seq(Nat)
    BY <1>kind, <1>3 DEF RemovalAnswered, RemoveCalls, Shapes, Lists
  <2>2. restored \in Lists /\ ToSet(restored) = ToSet(old) \cup {c.line}
    BY <2>1, AppendList DEF Lists
  <2>3. \A y : InCall(c, y) <=> y \in {c.line}
    BY <1>3 DEF RemovalAnswered, InCall
  <2>4. /\ Advance(c.by, dequeue[c.by].items, restored, calls \ {c})
        /\ UNCHANGED <<typed, replayed, drafts, host, refused>>
    BY <1>3 DEF RemovalAnswered
  <2> QED BY <2>1, <2>2, <2>3, <2>4, AdvancePlaces
<1>4. CASE RemovalFails(c)
  <2> DEFINE old == dequeue[c.by].restored
             none == {}
  <2>1. c \in RemoveCalls /\ old \in Lists /\ ToSet(old) = ToSet(old) \cup none
    BY <1>kind, <1>4 DEF RemovalFails, RemoveCalls, Shapes
  <2>2. \A y : InCall(c, y) <=> y \in none
    BY <1>4 DEF RemovalFails, InCall
  <2>3. /\ Advance(c.by, dequeue[c.by].items, old, calls \ {c})
        /\ UNCHANGED <<typed, replayed, drafts, host, refused>>
    BY <1>4 DEF RemovalFails
  <2> HIDE DEF none
  <2> QED BY <2>1, <2>2, <2>3, AdvancePlaces
<1>5. CASE CancelFails(c)
  <2>1. \A y : ~InCall(c, y)
    BY <1>5 DEF CancelFails, InCall
  <2> QED BY <1>5, <2>1, Unmoved DEF CancelFails
<1> QED BY <1>1, <1>2, <1>3, <1>4, <1>5

LEMMA HostPlaces ==
  ASSUME PlaceInv, Host
  PROVE  OnePlace'
<1> USE DEF PlaceInv
<1>typed. typed \in Nat /\ \A s \in Session : host[s] \in HostSessions
  BY DEF Shapes
<1>lists. \A s \in Session : /\ Distinct(host[s].steering) /\ Distinct(host[s].followUp)
                            /\ Distinct(host[s].said)
  BY DEF OnceInAList
<1>one. ASSUME NEW s, NEW h, host' = [host EXCEPT ![s] = h], s \in Session
        PROVE  host'[s] = h /\ \A t \in Session : t # s => host'[t] = host[t]
  BY <1>one DEF Shapes
<1>1. ASSUME NEW c \in calls, HostPrompt(c) PROVE OnePlace'
  <2> DEFINE s == c.session
             h == Prompted(host[s], c)
             c2 == [c EXCEPT !.state = "done"]
  <2>1. c \in PromptCalls /\ s \in Session /\ c.state = "sent" /\ c.kind = "prompt"
    BY <1>1, CallKinds DEF HostPrompt
  <2>2. host'[s] = h /\ \A t \in Session : t # s => host'[t] = host[t]
    <3>1. host' = [host EXCEPT ![s] = h]
      BY <1>1, HostSteps
    <3> QED BY <1>one, <2>1, <3>1, ZenonT(60)
  <2>3. \A y : (InCall(c, y) <=> y = c.line) /\ ~InCall(c2, y)
    BY <2>1 DEF InCall, PromptCalls
  <2>4. calls' = (calls \ {c}) \cup {c2} /\ UNCHANGED <<typed, replayed, drafts, dequeue, editor, refused>>
    BY <1>1 DEF HostPrompt, Done, windowVars
  <2>5. Held("call", c, c.line)
    BY <2>3 DEF Held
  <2>6. c.line \in 1..typed /\ \A k, x : Held(k, x, c.line) => k = "call" /\ x = c
    BY <2>5 DEF OnePlace
  <2>7. \/ /\ ToSet(h.steering) = ToSet(host[s].steering) \cup {c.line}
           /\ h.followUp = host[s].followUp /\ h.said = host[s].said
        \/ /\ ToSet(h.followUp) = ToSet(host[s].followUp) \cup {c.line}
           /\ h.steering = host[s].steering /\ h.said = host[s].said
    <3>1. /\ host[s] \in HostSessions
          /\ Distinct(host[s].steering) /\ Distinct(host[s].followUp) /\ Distinct(host[s].said)
      BY <1>typed, <1>lists, <2>1
    <3> QED BY <2>1, <3>1, PromptedLists
  <2> HIDE DEF h, c2, s
  <2>8. \E k0 : MoveTo(k0, s, {c.line})
    <3>1. CASE /\ ToSet(h.steering) = ToSet(host[s].steering) \cup {c.line}
               /\ h.followUp = host[s].followUp /\ h.said = host[s].said
      <4> SUFFICES ASSUME NEW k, NEW x, NEW line
                   PROVE  Held(k, x, line)' <=> IF line = c.line THEN k = "steering" /\ x = s
                                                ELSE Held(k, x, line)
        BY DEF MoveTo
      <4>1. CASE line = c.line
        BY <2>1, <2>2, <2>3, <2>4, <2>6, <3>1, <4>1 DEF Held
      <4>2. CASE line # c.line
        BY <2>1, <2>2, <2>3, <2>4, <3>1, <4>2 DEF Held
      <4> QED BY <4>1, <4>2
    <3>2. CASE /\ ToSet(h.followUp) = ToSet(host[s].followUp) \cup {c.line}
               /\ h.steering = host[s].steering /\ h.said = host[s].said
      <4> SUFFICES ASSUME NEW k, NEW x, NEW line
                   PROVE  Held(k, x, line)' <=> IF line = c.line THEN k = "followUp" /\ x = s
                                                ELSE Held(k, x, line)
        BY DEF MoveTo
      <4>1. CASE line = c.line
        BY <2>1, <2>2, <2>3, <2>4, <2>6, <3>2, <4>1 DEF Held
      <4>2. CASE line # c.line
        BY <2>1, <2>2, <2>3, <2>4, <3>2, <4>2 DEF Held
      <4> QED BY <4>1, <4>2
    <3> QED BY <2>7, <3>1, <3>2
  <2> QED BY <1>typed, <2>4, <2>6, <2>8, Moved
<1>2. ASSUME NEW c \in calls, HostRemove(c) PROVE OnePlace'
  <2> DEFINE s == c.session
             h == Removed(host[s], c)
             c2 == [c EXCEPT !.state = "done"]
  <2>1. c \in RemoveCalls /\ s \in Session /\ c.state = "sent" /\ c.kind = "remove"
    BY <1>2, CallKinds DEF HostRemove
  <2>2. host'[s] = h /\ h # host[s] /\ \A t \in Session : t # s => host'[t] = host[t]
    <3>1. host' = [host EXCEPT ![s] = h] /\ h # host[s]
      BY <1>2, HostSteps
    <3> QED BY <1>one, <2>1, <3>1
  <2>3. \A y : ~InCall(c, y) /\ (InCall(c2, y) <=> y = c.line)
    BY <2>1 DEF InCall, RemoveCalls
  <2>4. calls' = (calls \ {c}) \cup {c2} /\ UNCHANGED <<typed, replayed, drafts, dequeue, editor, refused>>
    BY <1>2 DEF HostRemove, Done, windowVars
  <2>5. /\ ToSet(h.steering) = ToSet(host[s].steering) \ {c.line}
        /\ ToSet(h.followUp) = ToSet(host[s].followUp) \ {c.line}
        /\ h.said = host[s].said
        /\ c.line \in ToSet(host[s].steering) \cup ToSet(host[s].followUp)
    <3>1. /\ host[s] \in HostSessions
          /\ Distinct(host[s].steering) /\ Distinct(host[s].followUp) /\ Distinct(host[s].said)
      BY <1>typed, <1>lists, <2>1
    <3>2. h = Removed(host[s], c) /\ h # host[s] /\ c \in RemoveCalls
      BY <2>1, <2>2
    <3> DEFINE q == host[s]
    <3> HIDE DEF h, q
    <3>3. /\ ToSet(h.steering) = ToSet(q.steering) \ {c.line}
          /\ ToSet(h.followUp) = ToSet(q.followUp) \ {c.line}
          /\ h.said = q.said
          /\ h # q => c.line \in ToSet(q.steering) \cup ToSet(q.followUp)
      <4>1. /\ q \in HostSessions /\ Distinct(q.steering) /\ Distinct(q.followUp)
            /\ h = Removed(q, c)
        BY <3>1, <3>2 DEF q
      <4> QED BY <3>2, <4>1, RemovedLists
    <3> QED BY <3>2, <3>3 DEF q
  <2> HIDE DEF h, c2, s
  <2>6. PICK k0 \in {"steering", "followUp"} : Held(k0, s, c.line)
    BY <2>1, <2>5 DEF Held
  <2>7. c.line \in 1..typed /\ \A k, x : Held(k, x, c.line) => k = k0 /\ x = s
    BY <2>6 DEF OnePlace
  <2>8. MoveTo("call", c2, {c.line})
    <3> SUFFICES ASSUME NEW k, NEW x, NEW line
                 PROVE  Held(k, x, line)' <=> IF line = c.line THEN k = "call" /\ x = c2
                                              ELSE Held(k, x, line)
      BY DEF MoveTo
    <3>1. CASE line = c.line
      BY <2>1, <2>2, <2>3, <2>4, <2>5, <2>6, <2>7, <3>1, ZenonT(60) DEF Held
    <3>2. CASE line # c.line
      BY <2>1, <2>2, <2>3, <2>4, <2>5, <3>2 DEF Held
    <3> QED BY <3>1, <3>2
  <2> QED BY <1>typed, <2>4, <2>7, <2>8, Moved
<1>3. ASSUME NEW s \in Session, HostStartTurn(s) PROVE OnePlace'
  <2> DEFINE h == Started(host[s])
             head == Head(host[s].followUp)
  <2>1. host'[s] = h /\ \A t \in Session : t # s => host'[t] = host[t]
    <3>1. host' = [host EXCEPT ![s] = h]
      BY <1>3, HostSteps
    <3> QED BY <1>one, <3>1
  <2>2. UNCHANGED <<calls, typed, replayed, drafts, dequeue, editor, refused>>
    BY <1>3 DEF HostStartTurn, windowVars
  <2>3. /\ head \in ToSet(host[s].followUp)
        /\ ToSet(h.followUp) = ToSet(host[s].followUp) \ {head}
        /\ ToSet(h.said) = ToSet(host[s].said) \cup {head}
        /\ h.steering = host[s].steering
    BY <1>3, <1>typed, <1>lists, HostLists DEF HostStartTurn
  <2> HIDE DEF h, head
  <2>4. Held("followUp", s, head)
    BY <2>3 DEF Held
  <2>5. head \in 1..typed /\ \A k, x : Held(k, x, head) => k = "followUp" /\ x = s
    BY <2>4 DEF OnePlace
  <2>6. MoveTo("said", s, {head})
    <3> SUFFICES ASSUME NEW k, NEW x, NEW line
                 PROVE  Held(k, x, line)' <=> IF line = head THEN k = "said" /\ x = s
                                              ELSE Held(k, x, line)
      BY DEF MoveTo
    <3>1. CASE line = head
      BY <2>1, <2>2, <2>3, <2>5, <3>1 DEF Held
    <3>2. CASE line # head
      BY <2>1, <2>2, <2>3, <3>2 DEF Held
    <3> QED BY <3>1, <3>2
  <2> QED BY <1>typed, <2>2, <2>5, <2>6, Moved
<1>4. ASSUME NEW s \in Session, HostSteer(s) PROVE OnePlace'
  <2> DEFINE h == Steered(host[s])
             head == Head(host[s].steering)
  <2>1. host'[s] = h /\ \A t \in Session : t # s => host'[t] = host[t]
    <3>1. host' = [host EXCEPT ![s] = h]
      BY <1>4, HostSteps
    <3> QED BY <1>one, <3>1
  <2>2. UNCHANGED <<calls, typed, replayed, drafts, dequeue, editor, refused>>
    BY <1>4 DEF HostSteer, windowVars
  <2>3. /\ head \in ToSet(host[s].steering)
        /\ ToSet(h.steering) = ToSet(host[s].steering) \ {head}
        /\ ToSet(h.said) = ToSet(host[s].said) \cup {head}
        /\ h.followUp = host[s].followUp
    BY <1>4, <1>typed, <1>lists, HostLists DEF HostSteer
  <2> HIDE DEF h, head
  <2>4. Held("steering", s, head)
    BY <2>3 DEF Held
  <2>5. head \in 1..typed /\ \A k, x : Held(k, x, head) => k = "steering" /\ x = s
    BY <2>4 DEF OnePlace
  <2>6. MoveTo("said", s, {head})
    <3> SUFFICES ASSUME NEW k, NEW x, NEW line
                 PROVE  Held(k, x, line)' <=> IF line = head THEN k = "said" /\ x = s
                                              ELSE Held(k, x, line)
      BY DEF MoveTo
    <3>1. CASE line = head
      BY <2>1, <2>2, <2>3, <2>5, <3>1 DEF Held
    <3>2. CASE line # head
      BY <2>1, <2>2, <2>3, <3>2 DEF Held
    <3> QED BY <3>1, <3>2
  <2> QED BY <1>typed, <2>2, <2>5, <2>6, Moved
<1>5. ASSUME NEW s \in Session, Stopped(s), NEW gone, calls' = calls \ gone,
             \A c \in gone : \A y : ~InCall(c, y),
             UNCHANGED <<typed, replayed, drafts, dequeue, editor, refused>>
      PROVE  OnePlace'
  <2> DEFINE h == Ended(host[s])
             M == ToSet(host[s].steering)
  <2>1. host'[s] = h /\ \A t \in Session : t # s => host'[t] = host[t]
    <3>1. host' = [host EXCEPT ![s] = h]
      BY <1>5, HostSteps
    <3> QED BY <1>one, <3>1
  <2>2. /\ ToSet(h.followUp) = M \cup ToSet(host[s].followUp)
        /\ ToSet(h.steering) = {} /\ h.said = host[s].said
    BY <1>typed, <1>lists, HostLists
  <2> HIDE DEF h
  <2>3. \A y \in M : Held("steering", s, y)
    BY DEF Held
  <2>4. M \subseteq 1..typed /\ \A y \in M : \A k, x : Held(k, x, y) => k = "steering" /\ x = s
    BY <2>3 DEF OnePlace
  <2>5. MoveTo("followUp", s, M)
    <3> SUFFICES ASSUME NEW k, NEW x, NEW line
                 PROVE  Held(k, x, line)' <=> IF line \in M THEN k = "followUp" /\ x = s
                                              ELSE Held(k, x, line)
      BY DEF MoveTo
    <3>1. CASE line \in M
      BY <1>5, <2>1, <2>2, <2>4, <3>1 DEF Held
    <3>2. CASE line \notin M
      BY <1>5, <2>1, <2>2, <3>2 DEF Held
    <3> QED BY <3>1, <3>2
  <2> QED BY <1>5, <1>typed, <2>4, <2>5, Moved
<1>6. ASSUME NEW s \in Session, HostEndTurn(s) PROVE OnePlace'
  <2> DEFINE none == {}
  <2>1. calls' = calls \ none /\ \A c \in none : \A y : ~InCall(c, y)
    BY <1>6 DEF HostEndTurn
  <2>2. Stopped(s) /\ UNCHANGED <<typed, replayed, drafts, dequeue, editor, refused>>
    BY <1>6 DEF HostEndTurn, windowVars
  <2> HIDE DEF none
  <2> QED BY <1>5, <2>1, <2>2
<1>7. ASSUME NEW c \in calls, NEW lost \in BOOLEAN, HostCancel(c, lost) PROVE OnePlace'
  <2>1. c.session \in Session /\ \A y : ~InCall(c, y)
    BY <1>7, CallKinds DEF HostCancel, InCall
  <2>2. calls' = calls \ {c} /\ UNCHANGED <<typed, replayed, drafts, dequeue, editor, refused>>
    BY <1>7 DEF HostCancel
  <2>3. CASE host[c.session].running
    BY <1>5, <1>7, <2>1, <2>2, <2>3 DEF HostCancel
  <2>4. CASE ~host[c.session].running
    BY <1>7, <2>1, <2>2, <2>4, Unmoved DEF HostCancel
  <2> QED BY <2>3, <2>4
<1> QED BY <1>1, <1>2, <1>3, <1>4, <1>6, <1>7 DEF Host

-----------------------------------------------------------------------------
(* No list holds a line twice.                                             *)

\* The lists of a frame.
FrameOnce(f) == f.type = "inbox" => Distinct(f.steering) /\ Distinct(f.followUp)

LEMMA EmptyList == <<>> \in Seq(Nat) /\ Distinct(<<>>) /\ ToSet(<<>>) = {}
BY DEF Distinct, ToSet

\* What one place holds, no other place holds.
LEMMA Apart ==
  ASSUME OnePlace, NEW k, NEW x, NEW k2, NEW x2, NEW line,
         Held(k, x, line), Held(k2, x2, line)
  PROVE  k = k2 /\ x = x2 /\ line \in 1..typed
BY DEF OnePlace

LEMMA ShortDomains ==
  ASSUME NEW a, NEW b, NEW c
  PROVE  /\ DOMAIN <<>> = {}
         /\ DOMAIN <<a>> = {1} /\ <<a>>[1] = a
         /\ DOMAIN <<a, b>> = {1, 2} /\ <<a, b>>[1] = a /\ <<a, b>>[2] = b
         /\ DOMAIN <<a, b, c>> = {1, 2, 3}
         /\ <<a, b, c>>[1] = a /\ <<a, b, c>>[2] = b /\ <<a, b, c>>[3] = c
OBVIOUS

\* The frames under way, and those a step of the Host adds.
LEMMA WireElements ==
  ASSUME Shapes, NEW s, NEW frames \in Seq(Frames), wire' = Sent(s, frames)
  PROVE  \/ wire' = wire /\ (s # open \/ stage # "live")
         \/ /\ s = open /\ stage = "live"
            /\ Len(wire) \in Nat /\ DOMAIN wire = 1..Len(wire)
            /\ Len(frames) \in Nat /\ DOMAIN frames = 1..Len(frames)
            /\ DOMAIN wire' = 1..Len(wire) + Len(frames)
            /\ \A i \in 1..Len(wire) : wire'[i] = wire[i]
            /\ \A i \in 1..Len(wire) + Len(frames) : i \notin 1..Len(wire) =>
                  wire'[i] = frames[i - Len(wire)] /\ i - Len(wire) \in DOMAIN frames
<1>1. CASE s = open /\ stage = "live"
  <2> DEFINE k == Len(wire)
             m == Len(frames)
             w == wire \o frames
  <2>1. wire \in Seq(Frames) /\ wire' = w
    BY <1>1 DEF Shapes, Sent
  <2>2. /\ w \in Seq(Frames) /\ Len(w) = k + m
        /\ \A i \in 1..k + m : w[i] = IF i <= k THEN wire[i] ELSE frames[i - k]
    BY <2>1, ConcatProperties
  <2>3. k \in Nat /\ m \in Nat /\ DOMAIN wire = 1..k /\ DOMAIN frames = 1..m
        /\ DOMAIN w = 1..k + m
    BY <2>1, <2>2
  <2> HIDE DEF w, k, m
  <2>4. \A i \in 1..k : i \in 1..k + m /\ i <= k
    BY <2>3
  <2>5. \A i \in 1..k + m : i \notin 1..k => ~(i <= k) /\ i - k \in 1..m
    BY <2>3
  <2> QED BY <1>1, <2>1, <2>2, <2>3, <2>4, <2>5 DEF k, m
<1>2. CASE ~(s = open /\ stage = "live")
  BY <1>2 DEF Sent
<1> QED BY <1>1, <1>2

LEMMA SentOnce ==
  ASSUME Shapes, OnceInAList, NEW s, NEW frames \in Seq(Frames), wire' = Sent(s, frames),
         \A i \in DOMAIN frames : FrameOnce(frames[i])
  PROVE  \A i \in DOMAIN wire' : FrameOnce(wire'[i])
<1>1. \A i \in DOMAIN wire : FrameOnce(wire[i])
  BY DEF OnceInAList, FrameOnce
<1>2. CASE wire' = wire
  BY <1>1, <1>2
<1>3. CASE wire' # wire
  <2> DEFINE k == Len(wire)
             m == Len(frames)
  <2>1. /\ k \in Nat /\ m \in Nat /\ DOMAIN wire = 1..k /\ DOMAIN wire' = 1..k + m
        /\ \A i \in 1..k : wire'[i] = wire[i]
        /\ \A i \in 1..k + m : i \notin 1..k =>
              wire'[i] = frames[i - k] /\ i - k \in DOMAIN frames
    BY <1>3, WireElements
  <2> HIDE DEF k, m
  <2> QED BY <1>1, <2>1
<1> QED BY <1>2, <1>3

LEMMA WindowOnce ==
  ASSUME PlaceInv, User \/ Opened \/ ReplayDraft
  PROVE  OnceInAList'
<1> USE DEF PlaceInv, OnceInAList
<1>1. ASSUME NEW gesture \in {"enter", "accelerated"}, Submit(gesture) PROVE OnceInAList'
  BY <1>1 DEF Submit, Shapes
<1>2. ASSUME NEW d \in Dequeuer, Dequeue(d) PROVE OnceInAList'
  <2> DEFINE items == view.steering \o view.followUp
  <2>1. dequeue' = [dequeue EXCEPT ![d] =
                       [busy |-> TRUE, items |-> Tail(items), restored |-> <<>>]]
        /\ UNCHANGED <<host, view, wire, editor>>
    BY <1>2 DEF Dequeue, Advance
  <2>2. dequeue'[d].busy = TRUE /\ dequeue'[d].restored = <<>>
        /\ \A x \in Dequeuer : x # d => dequeue'[x] = dequeue[x]
    BY <2>1 DEF Shapes
  <2> QED BY <2>1, <2>2, EmptyList
<1>3. CASE Cancel
  BY <1>3 DEF Cancel
<1>4. ASSUME NEW s \in Session, OpenStart(s) PROVE OnceInAList'
  BY <1>4, EmptyList, ShortDomains DEF OpenStart, Blank
<1>5. CASE Opened
  <2>1. open \in Session
    BY <1>5 DEF Opened, Shapes
  <2>2. /\ DOMAIN wire' = {1, 2} /\ wire'[1].type = "snapshot" /\ wire'[2] = Inbox(host[open])
        /\ UNCHANGED <<host, view, dequeue, editor>>
    BY <1>5, ShortDomains DEF Opened
  <2> QED BY <2>1, <2>2 DEF Inbox
<1>6. CASE ReplayDraft
  BY <1>6 DEF ReplayDraft, SendDraft, Shapes
<1> QED BY <1>1, <1>2, <1>3, <1>4, <1>5, <1>6 DEF User

LEMMA DeliverOnce ==
  ASSUME PlaceInv, Deliver
  PROVE  OnceInAList'
<1> DEFINE f == Head(wire)
<1>1. /\ f \in Frames /\ f = wire[1] /\ 1 \in DOMAIN wire
      /\ \A i \in DOMAIN wire' : wire'[i] = wire[i + 1] /\ i + 1 \in DOMAIN wire
  BY DEF Deliver, PlaceInv, Shapes
<1>2. UNCHANGED <<host, dequeue, editor>> /\ view' = Folded(view, f)
  BY DEF Deliver
<1> HIDE DEF f
<1>3. Distinct(view'.steering) /\ Distinct(view'.followUp)
  <2>1. CASE f.type \in {"turn/start", "turn/end", "status", "snapshot"}
    BY <1>2, <2>1 DEF Folded, PlaceInv, Shapes, OnceInAList
  <2>2. CASE f.type = "user"
    <3>1. f.line \in Nat
      BY <1>1, <2>2, FrameKinds
    <3>2. Distinct(Without(view.steering, f.line)) /\ Distinct(Without(view.followUp, f.line))
      BY <3>1, WithoutList DEF PlaceInv, Shapes, Lists, OnceInAList
    <3> QED BY <1>2, <2>2, <3>2 DEF Folded, DropPending, PlaceInv, Shapes
  <2>3. CASE f.type = "inbox"
    BY <1>1, <1>2, <2>3 DEF Folded, PlaceInv, Shapes, OnceInAList
  <2> QED BY <1>1, <2>1, <2>2, <2>3, FrameKinds
<1> QED BY <1>1, <1>2, <1>3 DEF PlaceInv, OnceInAList

LEMMA AdvanceOnce ==
  ASSUME PlaceInv, NEW c \in calls, c \in RemoveCalls, NEW restored \in Lists, Distinct(restored),
         \A y \in ToSet(restored) : Held("restored", c.by, y) \/ Held("call", c, y),
         Advance(c.by, dequeue[c.by].items, restored, calls \ {c}),
         UNCHANGED <<host, view, wire>>
  PROVE  OnceInAList'
<1> USE DEF PlaceInv, OnceInAList
<1> DEFINE d == c.by
           items == dequeue[d].items
<1>1. d \in Dequeuer
  BY DEF RemoveCalls
<1>2. CASE items = <<>>
  <2>1. dequeue' = [dequeue EXCEPT ![d] = Idle] /\ editor' = restored \o editor
    BY <1>2 DEF Advance, Restored
  <2>2. ToSet(restored) \cap ToSet(editor) = {}
    <3>1. \A y \in ToSet(editor) : Held("editor", 0, y)
      BY DEF Held
    <3> QED BY <3>1, Apart
  <2>3. Distinct(editor')
    BY <2>1, <2>2, ConcatList DEF Shapes, Lists
  <2>4. dequeue'[d].restored = <<>> /\ \A x \in Dequeuer : x # d => dequeue'[x] = dequeue[x]
    BY <1>1, <2>1 DEF Shapes, Idle
  <2> QED BY <2>3, <2>4, EmptyList
<1>3. CASE items # <<>>
  <2>1. dequeue' = [dequeue EXCEPT ![d] =
                       [busy |-> TRUE, items |-> Tail(items), restored |-> restored]]
        /\ editor' = editor
    BY <1>3 DEF Advance
  <2>2. dequeue'[d].busy = TRUE /\ dequeue'[d].restored = restored
        /\ \A x \in Dequeuer : x # d => dequeue'[x] = dequeue[x]
    BY <1>1, <2>1 DEF Shapes
  <2> QED BY <2>1, <2>2
<1> QED BY <1>2, <1>3

LEMMA AnswerOnce ==
  ASSUME PlaceInv, Answer
  PROVE  OnceInAList'
<1> PICK c \in calls : \/ PromptAnswered(c) \/ PromptFails(c)
                       \/ RemovalAnswered(c) \/ RemovalFails(c)
                       \/ CancelFails(c)
  BY DEF Answer
<1>kind. c.kind = "remove" => c \in RemoveCalls
  BY CallKinds DEF PlaceInv
<1> DEFINE old == dequeue[c.by].restored
<1>old. c.kind = "remove" => /\ old \in Seq(Nat) /\ Distinct(old) /\ c.line \in Nat
                             /\ \A y \in ToSet(old) : Held("restored", c.by, y)
  BY <1>kind DEF PlaceInv, Shapes, OnceInAList, RemoveCalls, Held, Lists
<1>1. CASE PromptAnswered(c)
  BY <1>1 DEF PromptAnswered, windowVars, PlaceInv, OnceInAList
<1>2. CASE PromptFails(c)
  BY <1>2 DEF PromptFails, PlaceInv, OnceInAList, Shapes
<1>3. CASE RemovalAnswered(c)
  <2> DEFINE restored == Append(old, c.line)
  <2>1. c.kind = "remove" /\ Held("call", c, c.line)
    BY <1>3 DEF RemovalAnswered, Held, InCall
  <2>2. c.line \notin ToSet(old)
    BY <1>old, <2>1, Apart DEF PlaceInv
  <2>3. restored \in Lists /\ Distinct(restored) /\ ToSet(restored) = ToSet(old) \cup {c.line}
    BY <1>old, <2>1, <2>2, AppendList DEF Lists
  <2>4. \A y \in ToSet(restored) : Held("restored", c.by, y) \/ Held("call", c, y)
    BY <1>old, <2>1, <2>3
  <2>5. /\ Advance(c.by, dequeue[c.by].items, restored, calls \ {c})
        /\ UNCHANGED <<host, view, wire>>
    BY <1>3 DEF RemovalAnswered
  <2> HIDE DEF restored
  <2> QED BY <1>kind, <2>1, <2>3, <2>4, <2>5, AdvanceOnce
<1>4. CASE RemovalFails(c)
  <2>1. c.kind = "remove" /\ Advance(c.by, dequeue[c.by].items, old, calls \ {c})
        /\ UNCHANGED <<host, view, wire>>
    BY <1>4 DEF RemovalFails
  <2>2. old \in Lists
    BY <1>old, <2>1 DEF Lists
  <2> HIDE DEF old
  <2> QED BY <1>kind, <1>old, <2>1, <2>2, AdvanceOnce
<1>5. CASE CancelFails(c)
  BY <1>5 DEF CancelFails, PlaceInv, OnceInAList
<1> QED BY <1>1, <1>2, <1>3, <1>4, <1>5

-----------------------------------------------------------------------------
(* A step of the Host changes one Session, and sends its lists.            *)

OnceEach(h) == Distinct(h.steering) /\ Distinct(h.followUp) /\ Distinct(h.said)

\* The frames of a step that leaves the Session as h.
Tells(frames, h) ==
    \A i \in DOMAIN frames :
        \/ frames[i] = Inbox(h)
        \/ frames[i].type = "user" /\ frames[i].line \in ToSet(h.said)
        \/ frames[i].type \in {"turn/start", "turn/end", "status"}

\* What every step from h to g keeps.
Follows(h, g) ==
    /\ g \in HostSessions /\ OnceEach(g) /\ Stands(g)
    /\ ToSet(h.said) \subseteq ToSet(g.said)

LEMMA SessionFacts ==
  ASSUME PlaceInv, DraftsStand, NEW s \in Session
  PROVE  /\ host[s] \in HostSessions /\ OnceEach(host[s]) /\ Stands(host[s])
         /\ host[s].steering \in Seq(Nat) /\ host[s].followUp \in Seq(Nat)
         /\ host[s].said \in Seq(Nat) /\ Len(drafts) \in Nat /\ replayed \in Nat
         /\ \A y \in ToSet(host[s].steering) : Held("steering", s, y) /\ y \in Nat
         /\ \A y \in ToSet(host[s].followUp) : Held("followUp", s, y) /\ y \in Nat
         /\ \A y \in ToSet(host[s].said) : Held("said", s, y) /\ y \in Nat
<1>1. host[s] \in HostSessions /\ OnceEach(host[s]) /\ Stands(host[s])
  BY DEF PlaceInv, Shapes, OnceInAList, OnceEach, DraftsStand
<1>2. /\ host[s].steering \in Seq(Nat) /\ host[s].followUp \in Seq(Nat)
      /\ host[s].said \in Seq(Nat) /\ Len(drafts) \in Nat /\ replayed \in Nat
  BY <1>1 DEF HostSessions, Lists, PlaceInv, Shapes
<1>3. \A q \in Seq(Nat) : \A y \in ToSet(q) : y \in Nat
  BY DEF ToSet
<1>4. /\ \A y \in ToSet(host[s].steering) : Held("steering", s, y)
      /\ \A y \in ToSet(host[s].followUp) : Held("followUp", s, y)
      /\ \A y \in ToSet(host[s].said) : Held("said", s, y)
  BY DEF Held
<1> QED BY <1>1, <1>2, <1>3, <1>4

LEMMA PromptFollows ==
  ASSUME PlaceInv, DraftsStand, NEW c \in calls, c.kind = "prompt", c.state = "sent"
  PROVE  Follows(host[c.session], Prompted(host[c.session], c))
<1> DEFINE s == c.session
           h == host[s]
           g == Prompted(h, c)
           n == Len(drafts)
<1>1. c \in PromptCalls /\ s \in Session /\ c.line \in Nat
  BY CallKinds DEF PlaceInv, PromptCalls
<1>2. Held("call", c, c.line)
  BY DEF Held, InCall
<1>3. /\ c.line \notin ToSet(h.steering) /\ c.line \notin ToSet(h.followUp)
      /\ c.line \notin ToSet(h.said)
  <2>1. /\ \A y \in ToSet(h.steering) : Held("steering", s, y)
        /\ \A y \in ToSet(h.followUp) : Held("followUp", s, y)
        /\ \A y \in ToSet(h.said) : Held("said", s, y)
    BY <1>1, SessionFacts
  <2>2. \A k, x : Held(k, x, c.line) => k = "call"
    BY <1>2, Apart DEF PlaceInv
  <2> QED BY <2>1, <2>2
<1>4. c.line <= n => c.line = replayed /\ c.mode = "queue"
  <2>1. /\ c.by => c.line = replayed /\ c.mode = "queue"
        /\ ~c.by => c.line > n
    BY DEF PlaceInv, DraftsFirst
  <2>2. n \in Nat
    BY <1>1, SessionFacts
  <2> QED BY <1>1, <2>1, <2>2
<1>5. g \in HostSessions /\ h \in HostSessions
  BY <1>1, SessionFacts, HostSessionShapes
<1>6. /\ g.said = h.said /\ g.running = h.running
      /\ \/ /\ c.mode = "steer" /\ g.steering = Append(h.steering, c.line)
            /\ ToSet(g.steering) = ToSet(h.steering) \cup {c.line}
            /\ g.followUp = h.followUp
         \/ /\ g.followUp = Append(h.followUp, c.line)
            /\ ToSet(g.followUp) = ToSet(h.followUp) \cup {c.line}
            /\ g.steering = h.steering
  BY <1>1, <1>5, PromptedLists
<1>7. /\ OnceEach(h) /\ Stands(h) /\ n \in Nat /\ replayed \in Nat
      /\ h.steering \in Seq(Nat) /\ h.followUp \in Seq(Nat)
      /\ \A y \in ToSet(h.steering) \cup ToSet(h.followUp) \cup ToSet(h.said) : y \in Nat
  BY <1>1, SessionFacts
<1> HIDE DEF s, h, g, n
<1>8. CASE /\ c.mode = "steer" /\ g.steering = Append(h.steering, c.line)
           /\ ToSet(g.steering) = ToSet(h.steering) \cup {c.line}
           /\ g.followUp = h.followUp
  <2>1. Distinct(g.steering)
    BY <1>1, <1>3, <1>7, <1>8, AppendList DEF OnceEach
  <2>2. c.line > n
    BY <1>1, <1>4, <1>7, <1>8
  <2>3. OnceEach(g)
    BY <1>6, <1>7, <1>8, <2>1 DEF OnceEach
  <2>4. Stands(g)
    BY <1>6, <1>7, <1>8, <2>2 DEF Stands, n
  <2> QED BY <1>5, <1>6, <2>3, <2>4 DEF Follows, g, h, s
<1>9. CASE /\ g.followUp = Append(h.followUp, c.line)
           /\ ToSet(g.followUp) = ToSet(h.followUp) \cup {c.line}
           /\ g.steering = h.steering
  <2>1. OnceEach(g)
    <3>1. Distinct(g.followUp)
      BY <1>1, <1>3, <1>7, <1>9, AppendList DEF OnceEach
    <3> QED BY <1>6, <1>7, <1>9, <3>1 DEF OnceEach
  <2>2. ASSUME c.line <= n, NEW y \in ToSet(h.followUp) \cup ToSet(h.said), y <= n
        PROVE  y < c.line
    <3>1. y <= replayed /\ y \in Nat /\ y # c.line /\ c.line = replayed
      BY <1>3, <1>4, <1>7, <2>2 DEF Stands, n
    <3> QED BY <1>7, <3>1
  <2>3. Ascending(g.followUp, n)
    <3>1. Ascending(h.followUp, n)
      BY <1>7 DEF Stands, n
    <3>2. \A y \in ToSet(h.followUp) : y <= n /\ c.line <= n => y < c.line
      BY <2>2
    <3> QED BY <1>1, <1>7, <1>9, <3>1, <3>2, AppendList
  <2>4. Stands(g)
    BY <1>1, <1>4, <1>6, <1>7, <1>9, <2>2, <2>3 DEF Stands, n
  <2> QED BY <1>5, <1>6, <2>1, <2>4 DEF Follows, g, h, s
<1> QED BY <1>6, <1>8, <1>9

LEMMA RemoveFollows ==
  ASSUME PlaceInv, DraftsStand, NEW c \in calls, c.kind = "remove"
  PROVE  Follows(host[c.session], Removed(host[c.session], c))
<1> DEFINE s == c.session
           h == host[s]
           g == Removed(h, c)
           n == Len(drafts)
<1>1. c \in RemoveCalls /\ s \in Session /\ c.line \in Nat
  BY CallKinds DEF PlaceInv, RemoveCalls
<1>2. /\ h \in HostSessions /\ OnceEach(h) /\ Stands(h) /\ n \in Nat /\ replayed \in Nat
      /\ h.steering \in Seq(Nat) /\ h.followUp \in Seq(Nat)
  BY <1>1, SessionFacts
<1>3. g \in HostSessions
  BY <1>1, <1>2, HostSessionShapes DEF OnceEach
<1>4. g = Removed(h, c)
  OBVIOUS
<1> HIDE DEF s, h, g
<1>5. /\ ToSet(g.steering) = ToSet(h.steering) \ {c.line}
      /\ ToSet(g.followUp) = ToSet(h.followUp) \ {c.line}
      /\ g.steering = Without(h.steering, c.line) /\ g.followUp = Without(h.followUp, c.line)
      /\ g.said = h.said
  <2>1. Distinct(h.steering) /\ Distinct(h.followUp)
    BY <1>2 DEF OnceEach
  <2>2. h \in HostSessions /\ c \in RemoveCalls /\ g = Removed(h, c)
    BY <1>1, <1>2, <1>4
  <2> QED BY <2>1, <2>2, RemovedLists, ZenonT(60)
<1>6. OnceEach(g) /\ Ascending(g.followUp, n)
  <2>1. Ascending(h.followUp, n)
    BY <1>2 DEF Stands
  <2>2. Distinct(Without(h.steering, c.line))
    BY <1>1, <1>2, WithoutList DEF OnceEach
  <2>3. Distinct(Without(h.followUp, c.line)) /\ Ascending(Without(h.followUp, c.line), n)
    BY <1>1, <1>2, <2>1, WithoutList DEF OnceEach
  <2> QED BY <1>2, <1>5, <2>2, <2>3 DEF OnceEach
<1>7. Stands(g)
  BY <1>2, <1>5, <1>6 DEF Stands
<1> QED BY <1>3, <1>5, <1>6, <1>7 DEF Follows, g, h, s

LEMMA TurnFollows ==
  ASSUME PlaceInv, DraftsStand, NEW s \in Session
  PROVE  /\ host[s].followUp # <<>> => Follows(host[s], Started(host[s]))
         /\ host[s].steering # <<>> => Follows(host[s], Steered(host[s]))
         /\ Follows(host[s], Ended(host[s]))
<1> DEFINE h == host[s]
           n == Len(drafts)
<1>1. /\ h \in HostSessions /\ OnceEach(h) /\ Stands(h) /\ n \in Nat /\ replayed \in Nat
      /\ h.steering \in Seq(Nat) /\ h.followUp \in Seq(Nat) /\ h.said \in Seq(Nat)
      /\ \A y \in ToSet(h.steering) \cup ToSet(h.followUp) \cup ToSet(h.said) : y \in Nat
  BY SessionFacts
<1>2. /\ ToSet(h.steering) \cap ToSet(h.followUp) = {}
      /\ ToSet(h.steering) \cap ToSet(h.said) = {}
      /\ ToSet(h.followUp) \cap ToSet(h.said) = {}
  <2>1. /\ \A y \in ToSet(h.steering) : Held("steering", s, y)
        /\ \A y \in ToSet(h.followUp) : Held("followUp", s, y)
        /\ \A y \in ToSet(h.said) : Held("said", s, y)
    BY SessionFacts
  <2>2. \A k, x, k2, x2, line : Held(k, x, line) /\ Held(k2, x2, line) => k = k2
    BY Apart DEF PlaceInv
  <2> HIDE DEF h
  <2> QED BY <2>1, <2>2
<1> HIDE DEF h
<1>3. ASSUME h.followUp # <<>> PROVE Follows(h, Started(h))
  <2> DEFINE g == Started(h)
             x == Head(h.followUp)
  <2>1. /\ g \in HostSessions /\ g.followUp = Tail(h.followUp)
        /\ g.said = Append(h.said, x) /\ g.steering = h.steering
    BY <1>1, <1>3, HostSessionShapes DEF Started, HostSessions
  <2>2. /\ x \in Nat /\ x \in ToSet(h.followUp)
        /\ Distinct(g.followUp) /\ ToSet(g.followUp) = ToSet(h.followUp) \ {x}
        /\ Ascending(g.followUp, n)
        /\ \A y \in ToSet(g.followUp) : x <= n /\ y <= n => x < y
    BY <1>1, <1>3, <2>1, TailList DEF OnceEach, Stands
  <2>3. ToSet(g.said) = ToSet(h.said) \cup {x} /\ Distinct(g.said) /\ Ascending(g.said, n)
    <3>1. x \notin ToSet(h.said) /\ \A y \in ToSet(h.said) : y <= n /\ x <= n => y < x
      BY <1>1, <1>2, <2>2 DEF Stands
    <3> QED BY <1>1, <2>1, <2>2, <3>1, AppendList DEF OnceEach, Stands
  <2> HIDE DEF g, x
  <2>4. OnceEach(g)
    BY <1>1, <2>1, <2>2, <2>3 DEF OnceEach
  <2>5. Stands(g)
    BY <1>1, <2>1, <2>2, <2>3 DEF Stands
  <2> QED BY <2>1, <2>3, <2>4, <2>5 DEF Follows, g
<1>4. ASSUME h.steering # <<>> PROVE Follows(h, Steered(h))
  <2> DEFINE g == Steered(h)
             x == Head(h.steering)
  <2>1. /\ g \in HostSessions /\ g.steering = Tail(h.steering)
        /\ g.said = Append(h.said, x) /\ g.followUp = h.followUp
    BY <1>1, <1>4, HostSessionShapes DEF Steered, HostSessions
  <2>2. /\ x \in Nat /\ x \in ToSet(h.steering)
        /\ Distinct(g.steering) /\ ToSet(g.steering) = ToSet(h.steering) \ {x}
    BY <1>1, <1>4, <2>1, TailList DEF OnceEach
  <2>3. x > n
    BY <1>1, <2>2 DEF Stands
  <2>4. ToSet(g.said) = ToSet(h.said) \cup {x} /\ Distinct(g.said) /\ Ascending(g.said, n)
    <3>1. x \notin ToSet(h.said) /\ \A y \in ToSet(h.said) : y <= n /\ x <= n => y < x
      BY <1>1, <1>2, <2>2, <2>3
    <3> QED BY <1>1, <2>1, <2>2, <3>1, AppendList DEF OnceEach, Stands
  <2> HIDE DEF g, x
  <2>5. OnceEach(g)
    BY <1>1, <2>1, <2>2, <2>4 DEF OnceEach
  <2>6. Stands(g)
    BY <1>1, <2>1, <2>2, <2>3, <2>4 DEF Stands
  <2> QED BY <2>1, <2>4, <2>5, <2>6 DEF Follows, g
<1>5. Follows(h, Ended(h))
  <2> DEFINE g == Ended(h)
  <2>1. /\ g \in HostSessions /\ g.steering = <<>>
        /\ g.followUp = h.steering \o h.followUp /\ g.said = h.said
    BY <1>1, HostSessionShapes DEF Ended, HostSessions
  <2>2. /\ ToSet(g.followUp) = ToSet(h.steering) \cup ToSet(h.followUp)
        /\ Distinct(g.followUp) /\ Ascending(g.followUp, n)
    BY <1>1, <1>2, <2>1, ConcatList DEF OnceEach, Stands
  <2> HIDE DEF g
  <2>3. OnceEach(g)
    BY <1>1, <2>1, <2>2, EmptyList DEF OnceEach
  <2>4. Stands(g)
    BY <1>1, <2>1, <2>2, EmptyList DEF Stands
  <2> QED BY <2>1, <2>3, <2>4 DEF Follows, g
<1> QED BY <1>3, <1>4, <1>5 DEF h

LEMMA HostStep ==
  ASSUME PlaceInv, DraftsStand, Host
  PROVE  \/ UNCHANGED <<host, wire>>
         \/ \E s \in Session, g \in HostSessions, frames \in Seq(Frames) :
               /\ host' = [host EXCEPT ![s] = g] /\ wire' = Sent(s, frames)
               /\ Follows(host[s], g) /\ Tells(frames, g)
<1> DEFINE Step(s, g, frames) ==
               /\ host' = [host EXCEPT ![s] = g] /\ wire' = Sent(s, frames)
               /\ Follows(host[s], g) /\ Tells(frames, g)
           Goal == \E s \in Session, g \in HostSessions, frames \in Seq(Frames) : Step(s, g, frames)
<1>shapes. Shapes
  BY DEF PlaceInv
<1>host. \A s \in Session : host[s] \in HostSessions /\ OnceEach(host[s])
  BY SessionFacts
<1>inbox. ASSUME NEW g \in HostSessions PROVE <<Inbox(g)>> \in Seq(Frames) /\ Tells(<<Inbox(g)>>, g)
  <2> DEFINE f == Inbox(g)
  <2>1. f \in Frames
    BY FrameShape
  <2>2. DOMAIN <<f>> = {1} /\ <<f>>[1] = f
    BY ShortDomains
  <2>3. Tells(<<f>>, g)
    BY <2>2 DEF Tells
  <2> HIDE DEF f
  <2>4. <<f>> \in Seq(Frames)
    BY <2>1, ShortSeqs
  <2> QED BY <2>3, <2>4 DEF f
<1>1. ASSUME NEW c \in calls, HostPrompt(c) PROVE Goal
  <2> DEFINE s == c.session
             g == Prompted(host[s], c)
  <2>1. s \in Session /\ Follows(host[s], g) /\ g \in HostSessions
    BY <1>shapes, <1>1, CallKinds, PromptFollows DEF HostPrompt, Follows
  <2>2. host' = [host EXCEPT ![s] = g] /\ wire' = Sent(s, <<Inbox(g)>>)
    BY <1>shapes, <1>1, HostSteps
  <2> HIDE DEF s, g
  <2>3. Step(s, g, <<Inbox(g)>>)
    BY <1>inbox, <2>1, <2>2
  <2> HIDE DEF Step
  <2> QED BY <1>inbox, <2>1, <2>3
<1>2. ASSUME NEW c \in calls, HostRemove(c) PROVE Goal
  <2> DEFINE s == c.session
             g == Removed(host[s], c)
  <2>1. s \in Session /\ Follows(host[s], g) /\ g \in HostSessions
    BY <1>shapes, <1>2, CallKinds, RemoveFollows DEF HostRemove, Follows
  <2>2. host' = [host EXCEPT ![s] = g] /\ wire' = Sent(s, <<Inbox(g)>>)
    BY <1>shapes, <1>2, HostSteps
  <2> HIDE DEF s, g
  <2>3. Step(s, g, <<Inbox(g)>>)
    BY <1>inbox, <2>1, <2>2
  <2> HIDE DEF Step
  <2> QED BY <1>inbox, <2>1, <2>3
<1>3. ASSUME NEW s \in Session, HostStartTurn(s) PROVE Goal
  <2> DEFINE h == host[s]
             g == Started(h)
             line == Head(h.followUp)
             frames == <<[type |-> "turn/start"], [type |-> "user", line |-> line], Inbox(g)>>
  <2>1. h.followUp # <<>>
    BY <1>3 DEF HostStartTurn
  <2>2. Follows(host[s], g) /\ g \in HostSessions
    BY <2>1, TurnFollows DEF Follows
  <2>3. host' = [host EXCEPT ![s] = g] /\ wire' = Sent(s, frames)
    BY <1>shapes, <1>3, HostSteps
  <2>4. line \in Nat /\ line \in ToSet(g.said)
    <3>1. h \in HostSessions /\ Distinct(h.steering) /\ Distinct(h.followUp) /\ Distinct(h.said)
      BY <1>host DEF OnceEach
    <3> HIDE DEF h
    <3>2. line \in Nat /\ ToSet(g.said) = ToSet(h.said) \cup {line}
      BY <2>1, <3>1, HostLists
    <3> HIDE DEF g, line
    <3> QED BY <3>2
  <2> HIDE DEF g, line
  <2>5. frames \in Seq(Frames)
    BY <2>2, <2>4, FrameShape, ShortSeqs
  <2>6. Tells(frames, g)
    BY <2>4, ShortDomains DEF Tells
  <2>7. Step(s, g, frames)
    BY <2>2, <2>3, <2>6
  <2> HIDE DEF Step, frames
  <2> QED BY <2>2, <2>5, <2>7
<1>4. ASSUME NEW s \in Session, HostSteer(s) PROVE Goal
  <2> DEFINE h == host[s]
             g == Steered(h)
             line == Head(h.steering)
             frames == <<[type |-> "user", line |-> line], Inbox(g)>>
  <2>1. h.steering # <<>>
    BY <1>4 DEF HostSteer
  <2>2. Follows(host[s], g) /\ g \in HostSessions
    BY <2>1, TurnFollows DEF Follows
  <2>3. host' = [host EXCEPT ![s] = g] /\ wire' = Sent(s, frames)
    BY <1>shapes, <1>4, HostSteps
  <2>4. line \in Nat /\ line \in ToSet(g.said)
    <3>1. h \in HostSessions /\ Distinct(h.steering) /\ Distinct(h.followUp) /\ Distinct(h.said)
      BY <1>host DEF OnceEach
    <3> HIDE DEF h
    <3>2. line \in Nat /\ ToSet(g.said) = ToSet(h.said) \cup {line}
      BY <2>1, <3>1, HostLists
    <3> HIDE DEF g, line
    <3> QED BY <3>2
  <2> HIDE DEF g, line
  <2>5. frames \in Seq(Frames)
    BY <2>2, <2>4, FrameShape, ShortSeqs
  <2>6. Tells(frames, g)
    BY <2>4, ShortDomains DEF Tells
  <2>7. Step(s, g, frames)
    BY <2>2, <2>3, <2>6
  <2> HIDE DEF Step, frames
  <2> QED BY <2>2, <2>5, <2>7
<1>5. ASSUME NEW s \in Session, Stopped(s) PROVE Goal
  <2> DEFINE g == Ended(host[s])
             frames == <<[type |-> "turn/end"], Inbox(g), [type |-> "status"]>>
  <2>1. Follows(host[s], g) /\ g \in HostSessions
    BY TurnFollows DEF Follows
  <2>2. host' = [host EXCEPT ![s] = g] /\ wire' = Sent(s, frames)
    BY <1>shapes, <1>5, HostSteps
  <2> HIDE DEF g
  <2>3. frames \in Seq(Frames)
    BY <2>1, FrameShape, ShortSeqs
  <2>4. Tells(frames, g)
    BY ShortDomains DEF Tells
  <2>5. Step(s, g, frames)
    BY <2>1, <2>2, <2>4
  <2> HIDE DEF Step, frames
  <2> QED BY <2>1, <2>3, <2>5
<1>6. ASSUME NEW s \in Session, HostEndTurn(s) PROVE Goal
  BY <1>5, <1>6 DEF HostEndTurn
<1>7. ASSUME NEW c \in calls, NEW lost \in BOOLEAN, HostCancel(c, lost)
      PROVE  UNCHANGED <<host, wire>> \/ Goal
  <2>1. c.session \in Session
    BY <1>shapes, CallKinds
  <2> HIDE DEF Goal
  <2> QED BY <1>5, <1>7, <2>1 DEF HostCancel
<1> HIDE DEF Goal
<1>8. UNCHANGED <<host, wire>> \/ Goal
  BY <1>1, <1>2, <1>3, <1>4, <1>6, <1>7 DEF Host
<1> QED BY <1>8 DEF Goal

\* The Host touches nothing of the window but the cancel it answers.
LEMMA HostQuiet ==
  ASSUME Shapes, DraftsFirst, Host
  PROVE  /\ UNCHANGED <<open, stage, view, typed, drafts, replayed, draining, dequeue, editor>>
         /\ open # NoSession
         /\ \A c \in calls' : c.kind = "prompt" =>
               \E b \in calls : b.kind = "prompt" /\ b.line = c.line /\ b.by = c.by /\ b.mode = c.mode
<1> DEFINE Goal == /\ UNCHANGED <<open, stage, view, typed, drafts, replayed, draining, dequeue, editor>>
                   /\ open # NoSession
                   /\ \A c \in calls' : c.kind = "prompt" =>
                         \E b \in calls : b.kind = "prompt" /\ b.line = c.line /\ b.by = c.by
                                         /\ b.mode = c.mode
<1>1. ASSUME NEW c \in calls, HostPrompt(c) \/ HostRemove(c) PROVE Goal
  <2>1. calls' = (calls \ {c}) \cup {[c EXCEPT !.state = "done"]} /\ UNCHANGED windowVars
    BY <1>1 DEF HostPrompt, HostRemove, Done
  <2>2. LET e == [c EXCEPT !.state = "done"]
        IN e.kind = "prompt" =>
              c.kind = "prompt" /\ c.line = e.line /\ c.by = e.by /\ c.mode = e.mode
    <3>1. c \in PromptCalls \/ c \in RemoveCalls
      BY <1>1, CallKinds DEF HostPrompt, HostRemove
    <3> QED BY <3>1 DEF PromptCalls, RemoveCalls
  <2>3. open # NoSession
    BY DEF DraftsFirst
  <2> QED BY <2>1, <2>2, <2>3 DEF windowVars
<1>2. ASSUME NEW c \in calls, NEW lost \in BOOLEAN, HostCancel(c, lost) PROVE Goal
  BY <1>2 DEF HostCancel, DraftsFirst
<1>3. ASSUME NEW s \in Session, HostStartTurn(s) \/ HostSteer(s) \/ HostEndTurn(s) PROVE Goal
  BY <1>3 DEF HostStartTurn, HostSteer, HostEndTurn, windowVars, DraftsFirst
<1> HIDE DEF Goal
<1>4. Goal
  BY <1>1, <1>2, <1>3 DEF Host
<1> QED BY <1>4 DEF Goal

\* The same, with the Session and the frames of the step.
LEMMA HostCases ==
  ASSUME PlaceInv, DraftsStand, Host
  PROVE  \/ UNCHANGED <<host, wire>>
         \/ \E s \in Session, g \in HostSessions, frames \in Seq(Frames) :
               /\ host'[s] = g /\ (\A t \in Session : t # s => host'[t] = host[t])
               /\ wire' = Sent(s, frames) /\ Follows(host[s], g) /\ Tells(frames, g)
<1>1. CASE UNCHANGED <<host, wire>>
  BY <1>1
<1>2. CASE \E s \in Session, g \in HostSessions, frames \in Seq(Frames) :
               /\ host' = [host EXCEPT ![s] = g] /\ wire' = Sent(s, frames)
               /\ Follows(host[s], g) /\ Tells(frames, g)
  <2> PICK s \in Session, g \in HostSessions, frames \in Seq(Frames) :
               /\ host' = [host EXCEPT ![s] = g] /\ wire' = Sent(s, frames)
               /\ Follows(host[s], g) /\ Tells(frames, g)
    BY <1>2
  <2>1. host'[s] = g /\ \A t \in Session : t # s => host'[t] = host[t]
    BY DEF PlaceInv, Shapes
  <2> QED BY <2>1
<1> QED BY <1>1, <1>2, HostStep

LEMMA HostOnce ==
  ASSUME PlaceInv, DraftsStand, Host
  PROVE  OnceInAList'
<1>1. UNCHANGED <<view, dequeue, editor>>
  BY HostQuiet DEF PlaceInv
<1>2. CASE UNCHANGED <<host, wire>>
  BY <1>1, <1>2 DEF PlaceInv, OnceInAList
<1>3. CASE ~UNCHANGED <<host, wire>>
  <2> PICK s \in Session, g \in HostSessions, frames \in Seq(Frames) :
               /\ host'[s] = g /\ (\A t \in Session : t # s => host'[t] = host[t])
               /\ wire' = Sent(s, frames) /\ Follows(host[s], g) /\ Tells(frames, g)
    BY <1>3, HostCases
  <2>1. OnceEach(g)
    BY DEF Follows
  <2>2. \A i \in DOMAIN frames : FrameOnce(frames[i])
    BY <2>1 DEF Tells, FrameOnce, Inbox, OnceEach
  <2>3. \A i \in DOMAIN wire' : FrameOnce(wire'[i])
    BY <2>2, SentOnce DEF PlaceInv
  <2>4. \A t \in Session : OnceEach(host'[t])
    BY <2>1 DEF PlaceInv, OnceInAList, OnceEach
  <2> QED BY <1>1, <2>3, <2>4 DEF PlaceInv, OnceInAList, OnceEach, FrameOnce
<1> QED BY <1>2, <1>3

LEMMA HostStand ==
  ASSUME PlaceInv, DraftsStand, Host
  PROVE  DraftsStand'
<1>1. UNCHANGED <<drafts, replayed>>
  BY HostQuiet DEF PlaceInv
<1>2. ASSUME NEW s \in Session PROVE Stands(host'[s])
  <2>1. CASE UNCHANGED <<host, wire>>
    BY <2>1 DEF DraftsStand
  <2>2. CASE ~UNCHANGED <<host, wire>>
    BY <2>2, HostCases DEF Follows, DraftsStand
  <2> QED BY <2>1, <2>2
<1> QED BY <1>1, <1>2 DEF DraftsStand, Stands

-----------------------------------------------------------------------------
(* The drafts.                                                             *)

\* A step that leaves the drafts alone, and makes no call for a prompt.
LEMMA DraftsQuiet ==
  ASSUME Shapes, DraftsFirst, UNCHANGED <<open, typed, drafts, replayed, draining, host>>,
         open # NoSession,
         \A c \in calls' : c.kind = "prompt" =>
            \E b \in calls : b.kind = "prompt" /\ b.line = c.line /\ b.by = c.by /\ b.mode = c.mode
  PROVE  DraftsFirst'
<1>1. ASSUME NEW c \in calls', c.kind = "prompt"
      PROVE  c.line <= typed /\ (c.by => c.line = replayed /\ c.mode = "queue")
             /\ (~c.by => c.line > Len(drafts))
  BY <1>1 DEF DraftsFirst
<1> QED BY <1>1 DEF DraftsFirst

LEMMA SubmitDrafts ==
  ASSUME PlaceInv, NEW gesture \in {"enter", "accelerated"}, Submit(gesture)
  PROVE  DraftsFirst'
<1> USE DEF PlaceInv
<1>1. /\ typed \in Nat /\ typed' = typed + 1 /\ UNCHANGED <<host, open, replayed, draining>>
      /\ Len(drafts) \in Nat /\ Len(drafts) <= typed
      /\ drafts \in Seq([line : Nat, mode : {"queue", "steer"}])
  BY DEF Submit, Shapes, DraftsFirst
<1>2. CASE open = NoSession
  <2> DEFINE d == [line |-> typed', mode |-> ModeFor(gesture)]
             n == Len(drafts)
  <2>1. ModeFor(gesture) = "queue" /\ typed = n /\ calls' = {} /\ view' = view
    BY <1>2 DEF ModeFor, DraftsFirst, Submit
  <2>2. drafts' = Append(drafts, d)
    BY <1>2 DEF Submit
  <2>3. d.line = typed' /\ d.mode = "queue" /\ d \in [line : Nat, mode : {"queue", "steer"}]
    BY <1>1, <2>1
  <2> HIDE DEF d
  <2>4. /\ Len(drafts') = n + 1 /\ DOMAIN drafts' = 1..n + 1 /\ DOMAIN drafts = 1..n
        /\ \A i \in 1..n : drafts'[i] = drafts[i]
        /\ drafts'[n + 1] = d
    BY <1>1, <2>2, <2>3
  <2> HIDE DEF n
  <2>5. ASSUME NEW i \in 1..n + 1 PROVE drafts'[i].line = i /\ drafts'[i].mode = "queue"
    <3>1. CASE i = n + 1
      BY <1>1, <2>1, <2>3, <2>4, <3>1
    <3>2. CASE i # n + 1
      <4>1. i \in 1..n
        BY <1>1, <2>1, <3>2
      <4> QED BY <2>4, <4>1 DEF DraftsFirst
    <3> QED BY <3>1, <3>2
  <2>6. Len(drafts') = typed'
    BY <1>1, <2>1, <2>4
  <2> QED BY <1>1, <1>2, <2>1, <2>4, <2>5, <2>6 DEF DraftsFirst
<1>3. CASE open # NoSession
  <2> DEFINE c == PromptCall(typed', ModeFor(gesture), FALSE)
  <2>1. calls' = calls \cup {c} /\ drafts' = drafts
    BY <1>3 DEF Submit
  <2>2. c.line = typed' /\ c.by = FALSE
    BY DEF PromptCall
  <2> HIDE DEF c
  <2>3. \A x \in calls : x.kind = "prompt" => x.line <= typed'
    <3>1. ASSUME NEW x \in calls, x.kind = "prompt" PROVE x.line <= typed'
      <4>1. x.line \in Nat
        BY <3>1, CallKinds DEF PromptCalls
      <4>2. x.line <= typed
        BY <3>1 DEF DraftsFirst
      <4> QED BY <1>1, <4>1, <4>2
    <3> QED BY <3>1
  <2>4. typed' > Len(drafts) /\ typed' <= typed' /\ Len(drafts) <= typed'
    BY <1>1
  <2> QED BY <1>1, <1>3, <2>1, <2>2, <2>3, <2>4 DEF DraftsFirst
<1> QED BY <1>2, <1>3

LEMMA ReplayDrafts ==
  ASSUME PlaceInv, ReplayDraft
  PROVE  DraftsFirst'
<1> USE DEF PlaceInv
<1> DEFINE i == replayed + 1
           c == PromptCall(drafts[i].line, drafts[i].mode, TRUE)
<1>1. /\ i \in 1..Len(drafts) /\ replayed' = i /\ calls' = calls \cup {c}
      /\ UNCHANGED <<open, typed, drafts, draining, host>> /\ open # NoSession
      /\ Len(drafts) \in Nat /\ typed \in Nat /\ Len(drafts) <= typed
  BY DEF ReplayDraft, SendDraft, Shapes, DraftsFirst
<1>2. drafts[i].line = i /\ drafts[i].mode = "queue"
  BY <1>1 DEF DraftsFirst, Shapes
<1>3. c.line = i /\ c.mode = "queue" /\ c.by = TRUE
  BY <1>2 DEF PromptCall
<1>4. \A x \in calls : x.kind = "prompt" => ~x.by
  BY DEF ReplayDraft, Replaying
<1>5. i <= typed
  BY <1>1
<1> HIDE DEF c, i
<1> QED BY <1>1, <1>3, <1>4, <1>5 DEF DraftsFirst

LEMMA WindowDrafts ==
  ASSUME PlaceInv, User \/ Opened \/ ReplayDraft \/ Deliver
  PROVE  DraftsFirst'
<1> USE DEF PlaceInv
<1>1. ASSUME NEW gesture \in {"enter", "accelerated"}, Submit(gesture) PROVE DraftsFirst'
  BY <1>1, SubmitDrafts
<1>2. ASSUME NEW d \in Dequeuer, Dequeue(d) PROVE DraftsFirst'
  <2>1. \E c : calls' = calls \cup {c} /\ c.kind = "remove"
    BY <1>2, ZenonT(60) DEF Dequeue, Advance, RemoveCall
  <2>2. open # NoSession /\ UNCHANGED <<open, typed, drafts, replayed, draining, host>>
    BY <1>2 DEF Dequeue
  <2> QED BY <2>1, <2>2, DraftsQuiet
<1>3. CASE Cancel
  <2>1. CancelCall.kind = "cancel"
    BY DEF CancelCall
  <2> QED BY <1>3, <2>1, DraftsQuiet DEF Cancel
<1>4. ASSUME NEW s \in Session, OpenStart(s) PROVE DraftsFirst'
  BY <1>4, SessionAssumption DEF OpenStart, DraftsFirst
<1>5. CASE Opened
  BY <1>5 DEF Opened, DraftsFirst, Shapes
<1>6. CASE ReplayDraft
  BY <1>6, ReplayDrafts
<1>7. CASE Deliver
  BY <1>7 DEF Deliver, DraftsFirst, Shapes
<1> QED BY <1>1, <1>2, <1>3, <1>4, <1>5, <1>6, <1>7 DEF User

LEMMA AnswerDrafts ==
  ASSUME PlaceInv, Answer
  PROVE  DraftsFirst'
<1> USE DEF PlaceInv
<1> PICK c \in calls : \/ PromptAnswered(c) \/ PromptFails(c)
                       \/ RemovalAnswered(c) \/ RemovalFails(c)
                       \/ CancelFails(c)
  BY DEF Answer
<1>1. open # NoSession
  BY DEF DraftsFirst
<1>2. UNCHANGED <<open, typed, drafts, replayed, draining, host>>
  BY DEF PromptAnswered, PromptFails, RemovalAnswered, RemovalFails, CancelFails, windowVars
<1>3. CASE PromptAnswered(c) \/ PromptFails(c) \/ CancelFails(c)
  <2>1. calls' = calls \ {c}
    BY <1>3 DEF PromptAnswered, PromptFails, CancelFails
  <2> QED BY <1>1, <1>2, <2>1, DraftsQuiet
<1>4. CASE RemovalAnswered(c) \/ RemovalFails(c)
  <2>1. \E restored : Advance(c.by, dequeue[c.by].items, restored, calls \ {c})
    BY <1>4 DEF RemovalAnswered, RemovalFails
  <2>2. calls' = calls \ {c} \/ \E r : calls' = (calls \ {c}) \cup {r} /\ r.kind = "remove"
    BY <2>1 DEF Advance, RemoveCall
  <2> QED BY <1>1, <1>2, <2>2, DraftsQuiet
<1> QED BY <1>3, <1>4

LEMMA HostDrafts ==
  ASSUME PlaceInv, Host
  PROVE  DraftsFirst'
<1>1. UNCHANGED <<open, stage, view, typed, drafts, replayed, draining, dequeue, editor>>
      /\ open # NoSession
  BY HostQuiet DEF PlaceInv
<1>2. ASSUME NEW c \in calls', c.kind = "prompt"
      PROVE  c.line <= typed /\ (c.by => c.line = replayed /\ c.mode = "queue")
             /\ (~c.by => c.line > Len(drafts))
  BY <1>2, HostQuiet DEF PlaceInv, DraftsFirst
<1> QED BY <1>1, <1>2 DEF PlaceInv, DraftsFirst

\* The steps of the window do not touch what a Session holds.
LEMMA WindowStand ==
  ASSUME PlaceInv, DraftsStand, User \/ Opened \/ ReplayDraft \/ Deliver \/ Answer
  PROVE  DraftsStand'
<1> USE DEF PlaceInv
<1>1. ASSUME NEW gesture \in {"enter", "accelerated"}, Submit(gesture), open = NoSession
      PROVE  DraftsStand'
  <2>1. host' = host /\ \A s \in Session : /\ host[s].steering = <<>> /\ host[s].followUp = <<>>
                                          /\ host[s].said = <<>>
    BY <1>1 DEF Submit, DraftsFirst
  <2>2. ToSet(<<>>) = {} /\ DOMAIN <<>> = {}
    BY EmptyList, ShortDomains
  <2> QED BY <2>1, <2>2 DEF DraftsStand, Stands, Ascending
<1>2. CASE UNCHANGED <<host, drafts, replayed>>
  BY <1>2 DEF DraftsStand, Stands
<1>3. CASE ReplayDraft
  <2>1. host' = host /\ drafts' = drafts /\ replayed' = replayed + 1
    BY <1>3 DEF ReplayDraft, SendDraft
  <2>2. ASSUME NEW s \in Session PROVE Stands(host[s])'
    <3>1. \A y \in ToSet(host[s].followUp) \cup ToSet(host[s].said) :
             y <= Len(drafts) => y <= replayed + 1
      <4>1. replayed \in Nat
           /\ \A y \in ToSet(host[s].followUp) \cup ToSet(host[s].said) : y \in Nat
        BY SessionFacts
      <4>2. \A y \in ToSet(host[s].followUp) \cup ToSet(host[s].said) :
               y <= Len(drafts) => y <= replayed
        BY DEF DraftsStand, Stands
      <4> QED BY <4>1, <4>2
    <3> QED BY <2>1, <3>1 DEF DraftsStand, Stands
  <2> QED BY <2>1, <2>2 DEF DraftsStand
<1>4. ASSUME NEW gesture \in {"enter", "accelerated"}, Submit(gesture), open # NoSession
      PROVE  UNCHANGED <<host, drafts, replayed>>
  BY <1>4 DEF Submit
<1>5. ASSUME Opened \/ Deliver \/ Answer \/ Cancel \/ (\E d \in Dequeuer : Dequeue(d))
             \/ (\E s \in Session : OpenStart(s))
      PROVE  UNCHANGED <<host, drafts, replayed>>
  BY <1>5 DEF Opened, Deliver, Answer, Cancel, Dequeue, OpenStart, PromptAnswered, PromptFails,
              RemovalAnswered, RemovalFails, CancelFails, windowVars
<1> QED BY <1>1, <1>2, <1>3, <1>4, <1>5 DEF User

-----------------------------------------------------------------------------
(* The frames under way.                                                   *)

\* A step that leaves the Host, the wire and what the view lists alone.
LEMMA FramesQuiet ==
  ASSUME FramesAgree, UNCHANGED <<host, open, stage, wire>>, view'.shown = view.shown,
         view'.steering = view.steering, view'.followUp = view.followUp
  PROVE  FramesAgree'
BY DEF FramesAgree, NoEcho

LEMMA WindowFrames ==
  ASSUME PlaceInv, FramesAgree, User \/ ReplayDraft \/ Answer
  PROVE  FramesAgree'
<1> USE DEF PlaceInv
<1>1. ASSUME NEW gesture \in {"enter", "accelerated"}, Submit(gesture) PROVE FramesAgree'
  BY <1>1, FramesQuiet DEF Submit, Shapes
<1>2. ASSUME NEW d \in Dequeuer, Dequeue(d) PROVE FramesAgree'
  BY <1>2, FramesQuiet DEF Dequeue
<1>3. CASE Cancel
  BY <1>3, FramesQuiet DEF Cancel
<1>4. ASSUME NEW s \in Session, OpenStart(s) PROVE FramesAgree'
  <2>1. stage' = "opening" /\ wire' = <<>> /\ view' = Blank
    BY <1>4 DEF OpenStart
  <2>2. DOMAIN wire' = {} /\ view'.shown = {} /\ view'.steering = <<>> /\ view'.followUp = <<>>
    BY <2>1, ShortDomains DEF Blank
  <2> QED BY <2>1, <2>2 DEF FramesAgree, NoEcho
<1>5. CASE ReplayDraft
  BY <1>5, FramesQuiet DEF ReplayDraft, SendDraft, Shapes
<1>6. CASE Answer
  BY <1>6, FramesQuiet DEF Answer, PromptAnswered, PromptFails, RemovalAnswered, RemovalFails,
                           CancelFails, windowVars, Shapes
<1> QED BY <1>1, <1>2, <1>3, <1>4, <1>5, <1>6 DEF User

\* What a Session holds pending it has not said.
LEMMA PendingUnsaid ==
  ASSUME OnePlace, NEW s \in Session
  PROVE  (ToSet(host[s].steering) \cup ToSet(host[s].followUp)) \cap ToSet(host[s].said) = {}
<1>1. /\ \A y \in ToSet(host[s].steering) : Held("steering", s, y)
      /\ \A y \in ToSet(host[s].followUp) : Held("followUp", s, y)
      /\ \A y \in ToSet(host[s].said) : Held("said", s, y)
  BY DEF Held
<1>2. \A k, x, k2, x2, line : Held(k, x, line) /\ Held(k2, x2, line) => k = k2
  BY Apart
<1> QED BY <1>1, <1>2

LEMMA OpenedFrames ==
  ASSUME PlaceInv, FramesAgree, Opened
  PROVE  FramesAgree'
<1>1. /\ open \in Session /\ UNCHANGED <<host, open, view>> /\ stage' = "live"
      /\ view.shown = {} /\ view.steering = <<>> /\ view.followUp = <<>>
  BY DEF Opened, PlaceInv, Shapes, FramesAgree
<1>2. /\ DOMAIN wire' = {1, 2} /\ wire'[2] = Inbox(host[open])
      /\ wire'[1] = [type |-> "snapshot", said |-> host[open].said, running |-> host[open].running]
  BY ShortDomains DEF Opened
<1>3. /\ Shows(wire'[1]) = ToSet(host[open].said) /\ Pends(wire'[1]) = {}
      /\ wire'[1].type = "snapshot"
  BY <1>2 DEF Shows, Pends
<1>4. /\ Shows(wire'[2]) = {} /\ wire'[2].type = "inbox"
      /\ Pends(wire'[2]) = ToSet(host[open].steering) \cup ToSet(host[open].followUp)
  BY <1>2 DEF Shows, Pends, Inbox
<1>5. Pends(wire'[2]) \cap Shows(wire'[1]) = {}
  BY <1>1, <1>3, <1>4, PendingUnsaid DEF PlaceInv
<1>6. /\ Shows(wire[1])' = Shows(wire'[1]) /\ Pends(wire[1])' = Pends(wire'[1])
      /\ Shows(wire[2])' = Shows(wire'[2]) /\ Pends(wire[2])' = Pends(wire'[2])
  BY DEF Shows, Pends
<1> QED BY <1>1, <1>2, <1>3, <1>4, <1>5, <1>6 DEF FramesAgree, NoEcho

LEMMA HostFrames ==
  ASSUME PlaceInv, DraftsStand, FramesAgree, Host, OnePlace'
  PROVE  FramesAgree'
<1>1. UNCHANGED <<open, stage, view>>
  BY HostQuiet DEF PlaceInv
<1>2. CASE UNCHANGED <<host, wire>>
  BY <1>1, <1>2, FramesQuiet
<1>3. CASE ~UNCHANGED <<host, wire>>
  <2> PICK s \in Session, g \in HostSessions, frames \in Seq(Frames) :
               /\ host'[s] = g /\ (\A t \in Session : t # s => host'[t] = host[t])
               /\ wire' = Sent(s, frames) /\ Follows(host[s], g) /\ Tells(frames, g)
    BY <1>3, HostCases
  <2>1. CASE stage # "live"
    <3>1. wire' = wire /\ wire = <<>>
      BY <2>1 DEF Sent, FramesAgree
    <3>2. DOMAIN wire' = {}
      BY <3>1, ShortDomains
    <3> QED BY <1>1, <2>1, <3>1, <3>2 DEF FramesAgree, NoEcho
  <2>2. CASE stage = "live" /\ s # open
    <3>1. wire' = wire /\ host'[open] = host[open]
      BY <2>2 DEF Sent, PlaceInv, Shapes
    <3> QED BY <1>1, <3>1 DEF FramesAgree, NoEcho
  <2>3. CASE stage = "live" /\ s = open
    <3> DEFINE k == Len(wire)
               m == Len(frames)
               said == ToSet(host[open].said)
    <3>1. /\ k \in Nat /\ m \in Nat /\ DOMAIN wire = 1..k /\ DOMAIN wire' = 1..k + m
          /\ \A i \in 1..k : wire'[i] = wire[i]
          /\ \A i \in 1..k + m : i \notin 1..k =>
                wire'[i] = frames[i - k] /\ i - k \in DOMAIN frames
      <4>1. Shapes /\ ~(s # open \/ stage # "live")
        BY <2>3 DEF PlaceInv
      <4> QED BY <4>1, WireElements
    <3>2. said \subseteq ToSet(g.said) /\ host'[open'] = g
      BY <1>1, <2>3 DEF Follows
    <3>3. (ToSet(g.steering) \cup ToSet(g.followUp)) \cap ToSet(g.said) = {}
      <4>1. ASSUME NEW y, y \in ToSet(host'[s].steering) \/ y \in ToSet(host'[s].followUp),
                   y \in ToSet(host'[s].said)
            PROVE  FALSE
        <5>1. Held("said", s, y)' /\ (Held("steering", s, y)' \/ Held("followUp", s, y)')
          BY <4>1 DEF Held
        <5> QED BY <5>1 DEF OnePlace
      <4> QED BY <4>1
    <3>4. ASSUME NEW i \in DOMAIN frames
          PROVE  /\ Shows(frames[i]) \subseteq ToSet(g.said)
                 /\ Pends(frames[i]) \cap ToSet(g.said) = {}
                 /\ frames[i].type # "snapshot"
      <4>1. CASE frames[i] = Inbox(g)
        BY <3>3, <4>1 DEF Shows, Pends, Inbox
      <4>2. CASE frames[i].type = "user" /\ frames[i].line \in ToSet(g.said)
        BY <4>2 DEF Shows, Pends
      <4>3. CASE frames[i].type \in {"turn/start", "turn/end", "status"}
        BY <4>3 DEF Shows, Pends
      <4> QED BY <4>1, <4>2, <4>3 DEF Tells
    <3>5. ASSUME NEW i \in 1..k
          PROVE  /\ Shows(wire[i]) \subseteq said /\ Pends(wire[i]) \cap view.shown = {}
                 /\ \A j \in 1..k : j < i => Shows(wire[j]) \cap Pends(wire[i]) = {}
                 /\ wire[i].type = "snapshot" => i = 1 /\ view.steering = <<>> /\ view.followUp = <<>>
      BY <3>1 DEF FramesAgree
    <3>6. view.shown \subseteq said
      BY <2>3 DEF FramesAgree
    <3> HIDE DEF k, m, said
    <3>7. ASSUME NEW i \in 1..k + m
          PROVE  /\ Shows(wire'[i]) \subseteq ToSet(g.said) /\ Pends(wire'[i]) \cap view.shown = {}
                 /\ \A j \in 1..k + m : j < i => Shows(wire'[j]) \cap Pends(wire'[i]) = {}
                 /\ wire'[i].type = "snapshot" => i = 1 /\ view.steering = <<>> /\ view.followUp = <<>>
      <4>1. \A j \in 1..k + m : Shows(wire'[j]) \subseteq ToSet(g.said)
        BY <3>1, <3>2, <3>4, <3>5
      <4>2. CASE i \in 1..k
        <5>1. \A j \in 1..k + m : j < i => j \in 1..k
          BY <3>1, <4>2
        <5> QED BY <3>1, <3>5, <4>1, <4>2, <5>1
      <4>3. CASE i \notin 1..k
        <5>1. Pends(wire'[i]) \cap ToSet(g.said) = {} /\ wire'[i].type # "snapshot"
          BY <3>1, <3>4, <4>3
        <5> QED BY <3>2, <3>6, <4>1, <5>1
      <4> QED BY <4>2, <4>3
    <3>8. /\ view'.shown \subseteq ToSet(host'[open'].said) /\ NoEcho'
      BY <1>1, <3>2, <3>6 DEF FramesAgree, NoEcho
    <3>9. ASSUME NEW i PROVE Shows(wire[i])' = Shows(wire'[i]) /\ Pends(wire[i])' = Pends(wire'[i])
      BY DEF Shows, Pends
    <3> QED BY <1>1, <2>3, <3>1, <3>2, <3>7, <3>8, <3>9 DEF FramesAgree
  <2> QED BY <2>1, <2>2, <2>3
<1> QED BY <1>2, <1>3

LEMMA DeliverFrames ==
  ASSUME PlaceInv, FramesAgree, Deliver
  PROVE  FramesAgree'
<1> DEFINE f == Head(wire)
           said == ToSet(host[open].said)
           pending == ToSet(view.steering) \cup ToSet(view.followUp)
<1>1. /\ f \in Frames /\ f = wire[1] /\ 1 \in DOMAIN wire
      /\ \A i \in DOMAIN wire' : /\ wire'[i] = wire[i + 1] /\ i + 1 \in DOMAIN wire
                               /\ i \in Nat /\ 1 < i + 1 /\ i + 1 # 1
      /\ \A i, j \in DOMAIN wire' : j < i => j + 1 < i + 1
  BY DEF Deliver, PlaceInv, Shapes
<1>2. UNCHANGED <<host, open, stage>> /\ view' = Folded(view, f) /\ stage = "live"
  BY DEF Deliver
<1>3. /\ Shows(f) \subseteq said /\ Pends(f) \cap view.shown = {} /\ view.shown \subseteq said
      /\ f.type = "snapshot" => view.steering = <<>> /\ view.followUp = <<>>
      /\ view.shown \cap pending = {}
  BY <1>1, <1>2 DEF FramesAgree, NoEcho
<1>4. /\ view.steering \in Seq(Nat) /\ view.followUp \in Seq(Nat)
      /\ Distinct(view.steering) /\ Distinct(view.followUp)
  BY DEF PlaceInv, Shapes, Lists, OnceInAList
<1>view. view \in [shown : SUBSET Nat, steering : Lists, followUp : Lists, busy : BOOLEAN]
  BY DEF PlaceInv, Shapes
<1>kinds. /\ f.type \in {"inbox", "user", "snapshot", "turn/start", "turn/end", "status"}
          /\ f.type = "user" => f.line \in Nat
  BY <1>1, FrameKinds
<1> HIDE DEF f
<1>5. /\ view'.shown = view.shown \cup Shows(f)
      /\ (ToSet(view'.steering) \cup ToSet(view'.followUp)) \cap view'.shown = {}
  <2>1. CASE f.type \in {"turn/start", "turn/end", "status"}
    BY <1>2, <1>3, <1>view, <2>1 DEF Folded, Shows
  <2>2. CASE f.type = "user"
    <3>1. /\ view'.shown = view.shown \cup {f.line}
          /\ view'.steering = Without(view.steering, f.line)
          /\ view'.followUp = Without(view.followUp, f.line)
      BY <1>2, <1>view, <2>2 DEF Folded, DropPending
    <3>2. /\ ToSet(view'.steering) = ToSet(view.steering) \ {f.line}
          /\ ToSet(view'.followUp) = ToSet(view.followUp) \ {f.line}
      <4> DEFINE x == f.line
                 q == view.steering
                 r == view.followUp
      <4>1. x \in Nat /\ q \in Seq(Nat) /\ Distinct(q) /\ r \in Seq(Nat) /\ Distinct(r)
        BY <1>4, <1>kinds, <2>2
      <4> HIDE DEF x, q, r
      <4>2. ToSet(Without(q, x)) = ToSet(q) \ {x}
        BY <4>1, WithoutList
      <4>3. ToSet(Without(r, x)) = ToSet(r) \ {x}
        BY <4>1, WithoutList
      <4> QED BY <3>1, <4>2, <4>3 DEF x, q, r
    <3> QED BY <1>3, <2>2, <3>1, <3>2 DEF Shows
  <2>3. CASE f.type = "inbox"
    <3>1. /\ view'.shown = view.shown /\ view'.steering = f.steering /\ view'.followUp = f.followUp
      BY <1>2, <1>view, <2>3 DEF Folded
    <3> QED BY <1>3, <2>3, <3>1 DEF Shows, Pends
  <2>4. CASE f.type = "snapshot"
    <3>1. /\ view'.shown = view.shown \cup ToSet(f.said)
          /\ view'.steering = <<>> /\ view'.followUp = <<>>
      BY <1>2, <1>3, <1>view, <2>4 DEF Folded
    <3> QED BY <2>4, <3>1, EmptyList DEF Shows
  <2> QED BY <1>kinds, <2>1, <2>2, <2>3, <2>4
<1>6. ASSUME NEW i \in DOMAIN wire'
      PROVE  /\ Shows(wire'[i]) \subseteq said /\ Pends(wire'[i]) \cap view'.shown = {}
             /\ \A j \in DOMAIN wire' : j < i => Shows(wire'[j]) \cap Pends(wire'[i]) = {}
             /\ wire'[i].type # "snapshot"
  <2> DEFINE n == i + 1
  <2>1. wire'[i] = wire[n] /\ n \in DOMAIN wire /\ 1 < n /\ n # 1
    BY <1>1
  <2> HIDE DEF n
  <2>2. /\ Shows(wire[n]) \subseteq said /\ Pends(wire[n]) \cap view.shown = {}
        /\ Shows(wire[1]) \cap Pends(wire[n]) = {} /\ wire[n].type # "snapshot"
    BY <1>1, <2>1 DEF FramesAgree
  <2>3. ASSUME NEW j \in DOMAIN wire', j < i PROVE Shows(wire'[j]) \cap Pends(wire'[i]) = {}
    <3>1. j + 1 < n /\ wire'[j] = wire[j + 1] /\ j + 1 \in DOMAIN wire
      BY <1>1, <2>3 DEF n
    <3> QED BY <2>1, <3>1 DEF FramesAgree
  <2> QED BY <1>1, <1>5, <2>1, <2>2, <2>3
<1>7. view'.shown \subseteq said /\ NoEcho'
  BY <1>3, <1>5 DEF NoEcho
<1> QED BY <1>2, <1>6, <1>7 DEF FramesAgree, Shows, Pends

-----------------------------------------------------------------------------
(* The theorems.                                                           *)

LEMMA DeliveryInitial == Init => DeliveryInv
<1> SUFFICES ASSUME Init PROVE DeliveryInv
  OBVIOUS
<1>empty. ToSet(<<>>) = {} /\ DOMAIN <<>> = {} /\ Len(<<>>) = 0 /\ Distinct(<<>>)
  BY EmptyList, ShortDomains
<1>1. Shapes
  BY ShapesInitial
<1>2. \A s \in Session : /\ ~host[s].running /\ host[s].steering = <<>>
                        /\ host[s].followUp = <<>> /\ host[s].said = <<>>
  BY DEF Init
<1>3. DraftsFirst
  BY <1>empty, <1>2 DEF Init, DraftsFirst, Blank
<1>4. OnceInAList
  BY <1>empty, <1>2 DEF Init, OnceInAList, Blank, Idle
<1>5. \A k, x, line : ~Held(k, x, line)
  <2>1. 0 + 1..Len(<<>>) = {} /\ \A d \in Dequeuer : dequeue[d].restored = <<>>
    BY <1>empty DEF Init, Idle
  <2> QED BY <1>empty, <1>2, <2>1 DEF Init, Held
<1>6. OnePlace
  <2>1. 1..typed = {}
    BY DEF Init
  <2> QED BY <1>5, <2>1 DEF OnePlace
<1>7. DraftsStand
  BY <1>empty, <1>2 DEF DraftsStand, Stands, Ascending
<1>8. FramesAgree
  BY <1>empty DEF Init, FramesAgree, NoEcho, Blank
<1> QED BY <1>1, <1>3, <1>4, <1>6, <1>7, <1>8 DEF DeliveryInv, PlaceInv

LEMMA DeliveryStep ==
  ASSUME DeliveryInv, "removal" \notin Faults, [Next]_vars
  PROVE  DeliveryInv'
<1> USE DEF DeliveryInv, PlaceInv
<1>1. CASE User \/ ReplayDraft
  BY <1>1, WindowShapes, WindowPlaces, WindowOnce, WindowDrafts, WindowStand, WindowFrames
<1>2. CASE Opened
  BY <1>2, WindowShapes, WindowPlaces, WindowOnce, WindowDrafts, WindowStand, OpenedFrames
<1>3. CASE Deliver
  BY <1>3, DeliverShapes, WindowPlaces, DeliverOnce, WindowDrafts, WindowStand, DeliverFrames
<1>4. CASE Answer
  BY <1>4, AnswerShapes, AnswerPlaces, AnswerOnce, AnswerDrafts, WindowStand, WindowFrames
<1>5. CASE Host
  <2>1. OnePlace'
    BY <1>5, HostPlaces
  <2> QED BY <1>5, <2>1, HostShapes, HostOnce, HostDrafts, HostStand, HostFrames
<1>6. CASE UNCHANGED vars
  <2>1. FramesAgree' /\ DraftsStand' /\ OnceInAList' /\ DraftsFirst' /\ Shapes'
    BY <1>6 DEF vars, windowVars, FramesAgree, NoEcho, DraftsStand, Stands, OnceInAList, DraftsFirst, Shapes
  <2>2. OnePlace'
    BY <1>6, Unmoved DEF vars, windowVars
  <2> QED BY <2>1, <2>2
<1> QED BY <1>1, <1>2, <1>3, <1>4, <1>5, <1>6 DEF Next

LEMMA DeliveryCorrect == ASSUME "removal" \notin Faults PROVE Spec => []DeliveryInv
<1>1. DeliveryInv /\ [Next]_vars => DeliveryInv'
  BY DeliveryStep
<1> QED BY <1>1, DeliveryInitial, PTL DEF Spec

\* What is in Places, written out.
LEMMA PlaceElements ==
  ASSUME NEW line, NEW p
  PROVE  p \in Places(line) <=>
         \/ \E i \in {j \in replayed + 1..Len(drafts) : drafts[j].line = line} : p = <<"draft", i>>
         \/ \E c \in calls : InCall(c, line) /\ p = <<"call", c>>
         \/ \E s \in Session : \E i \in Holds(host[s].steering, line) : p = <<"steering", s, i>>
         \/ \E s \in Session : \E i \in Holds(host[s].followUp, line) : p = <<"followUp", s, i>>
         \/ \E s \in Session : \E i \in Holds(host[s].said, line) : p = <<"said", s, i>>
         \/ \E d \in Dequeuer : \E i \in Holds(dequeue[d].restored, line) : p = <<"restored", d, i>>
         \/ \E i \in Holds(editor, line) : p = <<"editor", i>>
         \/ line \in refused /\ p = <<"refused">>
<1> DEFINE A == {<<"draft", i>> : i \in {j \in replayed + 1..Len(drafts) : drafts[j].line = line}}
           B == {<<"call", c>> : c \in {x \in calls :
                    \/ x.kind = "prompt" /\ x.line = line /\ x.state = "sent"
                    \/ x.kind = "remove" /\ x.line = line /\ x.state = "done"}}
           C == UNION {{<<"steering", s, i>> : i \in Holds(host[s].steering, line)} : s \in Session}
           D == UNION {{<<"followUp", s, i>> : i \in Holds(host[s].followUp, line)} : s \in Session}
           E == UNION {{<<"said", s, i>> : i \in Holds(host[s].said, line)} : s \in Session}
           F == UNION {{<<"restored", d, i>> : i \in Holds(dequeue[d].restored, line)} : d \in Dequeuer}
           G == {<<"editor", i>> : i \in Holds(editor, line)}
           H == {<<"refused">> : x \in refused \cap {line}}
<1>1. p \in A <=> \E i \in {j \in replayed + 1..Len(drafts) : drafts[j].line = line} : p = <<"draft", i>>
  OBVIOUS
<1>2. p \in B <=> \E c \in calls : InCall(c, line) /\ p = <<"call", c>>
  BY DEF InCall
<1>3. p \in C <=> \E s \in Session : \E i \in Holds(host[s].steering, line) : p = <<"steering", s, i>>
  OBVIOUS
<1>4. p \in D <=> \E s \in Session : \E i \in Holds(host[s].followUp, line) : p = <<"followUp", s, i>>
  OBVIOUS
<1>5. p \in E <=> \E s \in Session : \E i \in Holds(host[s].said, line) : p = <<"said", s, i>>
  OBVIOUS
<1>6. p \in F <=> \E d \in Dequeuer : \E i \in Holds(dequeue[d].restored, line) :
                    p = <<"restored", d, i>>
  OBVIOUS
<1>7. p \in G <=> \E i \in Holds(editor, line) : p = <<"editor", i>>
  OBVIOUS
<1>8. p \in H <=> line \in refused /\ p = <<"refused">>
  OBVIOUS
<1>9. p \in Places(line) <=> \/ p \in A \/ p \in B \/ p \in C \/ p \in D
                            \/ p \in E \/ p \in F \/ p \in G \/ p \in H
  BY DEF Places
<1> HIDE DEF A, B, C, D, E, F, G, H
<1> QED BY <1>1, <1>2, <1>3, <1>4, <1>5, <1>6, <1>7, <1>8, <1>9

\* One place, held once, is one element of Places.
LEMMA PlaceCounted ==
  ASSUME DeliveryInv, NEW line \in 1..typed
  PROVE  Cardinality(Places(line)) = 1
<1> USE DEF DeliveryInv, PlaceInv
<1> DEFINE Indexed(kind, x, list) == {<<kind, x, i>> : i \in Holds(list, line)}
<1>1. \A p \in Places(line) :
         \/ p[1] = "draft" /\ p = <<"draft", line>> /\ Held("draft", 0, line)
         \/ p[1] = "call" /\ \E c : p = <<"call", c>> /\ Held("call", c, line)
         \/ p[1] = "steering" /\ \E s \in Session : Held("steering", s, line)
              /\ \E i \in DOMAIN host[s].steering :
                    host[s].steering[i] = line /\ p = <<"steering", s, i>>
         \/ p[1] = "followUp" /\ \E s \in Session : Held("followUp", s, line)
              /\ \E i \in DOMAIN host[s].followUp :
                    host[s].followUp[i] = line /\ p = <<"followUp", s, i>>
         \/ p[1] = "said" /\ \E s \in Session : Held("said", s, line)
              /\ \E i \in DOMAIN host[s].said : host[s].said[i] = line /\ p = <<"said", s, i>>
         \/ p[1] = "restored" /\ \E d \in Dequeuer : Held("restored", d, line)
              /\ \E i \in DOMAIN dequeue[d].restored :
                    dequeue[d].restored[i] = line /\ p = <<"restored", d, i>>
         \/ p[1] = "editor" /\ Held("editor", 0, line)
              /\ \E i \in DOMAIN editor : editor[i] = line /\ p = <<"editor", i>>
         \/ p[1] = "refused" /\ p = <<"refused">> /\ Held("refused", 0, line)
  <2> SUFFICES ASSUME NEW p \in Places(line)
               PROVE
         \/ p[1] = "draft" /\ p = <<"draft", line>> /\ Held("draft", 0, line)
         \/ p[1] = "call" /\ \E c : p = <<"call", c>> /\ Held("call", c, line)
         \/ p[1] = "steering" /\ \E s \in Session : Held("steering", s, line)
              /\ \E i \in DOMAIN host[s].steering :
                    host[s].steering[i] = line /\ p = <<"steering", s, i>>
         \/ p[1] = "followUp" /\ \E s \in Session : Held("followUp", s, line)
              /\ \E i \in DOMAIN host[s].followUp :
                    host[s].followUp[i] = line /\ p = <<"followUp", s, i>>
         \/ p[1] = "said" /\ \E s \in Session : Held("said", s, line)
              /\ \E i \in DOMAIN host[s].said : host[s].said[i] = line /\ p = <<"said", s, i>>
         \/ p[1] = "restored" /\ \E d \in Dequeuer : Held("restored", d, line)
              /\ \E i \in DOMAIN dequeue[d].restored :
                    dequeue[d].restored[i] = line /\ p = <<"restored", d, i>>
         \/ p[1] = "editor" /\ Held("editor", 0, line)
              /\ \E i \in DOMAIN editor : editor[i] = line /\ p = <<"editor", i>>
         \/ p[1] = "refused" /\ p = <<"refused">> /\ Held("refused", 0, line)
    OBVIOUS
  <2>1. ASSUME NEW i \in {j \in replayed + 1..Len(drafts) : drafts[j].line = line}, p = <<"draft", i>>
        PROVE  p[1] = "draft" /\ p = <<"draft", line>> /\ Held("draft", 0, line)
    <3>1. i \in DOMAIN drafts /\ i \in replayed + 1..Len(drafts) /\ drafts[i].line = line
      BY DEF Shapes
    <3>2. i = line
      BY <3>1 DEF DraftsFirst
    <3> QED BY <2>1, <3>1, <3>2 DEF Held
  <2>2. ASSUME NEW c \in calls, InCall(c, line), p = <<"call", c>>
        PROVE  p[1] = "call" /\ Held("call", c, line)
    BY <2>2 DEF Held
  <2>3. ASSUME NEW list, NEW i \in Holds(list, line)
        PROVE  i \in DOMAIN list /\ list[i] = line /\ line \in ToSet(list)
    BY DEF Holds, ToSet
  <2>4. \A s \in Session : line \in ToSet(host[s].steering) => Held("steering", s, line)
    BY DEF Held
  <2>5. \A s \in Session : line \in ToSet(host[s].followUp) => Held("followUp", s, line)
    BY DEF Held
  <2>6. \A s \in Session : line \in ToSet(host[s].said) => Held("said", s, line)
    BY DEF Held
  <2>7. \A d \in Dequeuer : line \in ToSet(dequeue[d].restored) => Held("restored", d, line)
    BY DEF Held
  <2>8. (line \in ToSet(editor) => Held("editor", 0, line)) /\ (line \in refused => Held("refused", 0, line))
    BY DEF Held
  <2>9. \/ \E i \in {j \in replayed + 1..Len(drafts) : drafts[j].line = line} : p = <<"draft", i>>
        \/ \E c \in calls : InCall(c, line) /\ p = <<"call", c>>
        \/ \E s \in Session : \E i \in Holds(host[s].steering, line) : p = <<"steering", s, i>>
        \/ \E s \in Session : \E i \in Holds(host[s].followUp, line) : p = <<"followUp", s, i>>
        \/ \E s \in Session : \E i \in Holds(host[s].said, line) : p = <<"said", s, i>>
        \/ \E d \in Dequeuer : \E i \in Holds(dequeue[d].restored, line) : p = <<"restored", d, i>>
        \/ \E i \in Holds(editor, line) : p = <<"editor", i>>
        \/ line \in refused /\ p = <<"refused">>
    BY PlaceElements
  <2> QED BY <2>1, <2>2, <2>3, <2>4, <2>5, <2>6, <2>7, <2>8, <2>9
<1>2. \E p : p \in Places(line)
  <2>1. PICK k, x : Held(k, x, line)
    BY DEF OnePlace
  <2>2. CASE k = "draft"
    <3>1. line \in replayed + 1..Len(drafts) /\ drafts[line].line = line
      BY <2>1, <2>2 DEF Held, DraftsFirst, Shapes
    <3> QED BY <3>1, PlaceElements, ZenonT(60)
  <2>3. CASE k = "call"
    <3>1. x \in calls /\ InCall(x, line)
      BY <2>1, <2>3 DEF Held
    <3>2. <<"call", x>> \in Places(line)
      BY <3>1, PlaceElements
    <3> QED BY <3>2
  <2>4. ASSUME NEW list, line \in ToSet(list) PROVE \E i : i \in Holds(list, line)
    BY <2>4 DEF ToSet, Holds
  <2>5. CASE k = "steering"
    <3>1. x \in Session /\ \E i : i \in Holds(host[x].steering, line)
      BY <2>1, <2>4, <2>5 DEF Held
    <3> QED BY <3>1, PlaceElements, ZenonT(60)
  <2>6. CASE k = "followUp"
    <3>1. x \in Session /\ \E i : i \in Holds(host[x].followUp, line)
      BY <2>1, <2>4, <2>6 DEF Held
    <3> QED BY <3>1, PlaceElements, ZenonT(60)
  <2>7. CASE k = "said"
    <3>1. x \in Session /\ \E i : i \in Holds(host[x].said, line)
      BY <2>1, <2>4, <2>7 DEF Held
    <3> QED BY <3>1, PlaceElements, ZenonT(60)
  <2>8. CASE k = "restored"
    <3>1. x \in Dequeuer /\ \E i : i \in Holds(dequeue[x].restored, line)
      BY <2>1, <2>4, <2>8 DEF Held
    <3> QED BY <3>1, PlaceElements
  <2>9. CASE k = "editor"
    <3>1. \E i : i \in Holds(editor, line)
      BY <2>1, <2>4, <2>9 DEF Held
    <3> QED BY <3>1, PlaceElements
  <2>10. CASE k = "refused"
    <3>1. line \in refused
      BY <2>1, <2>10 DEF Held
    <3> QED BY <3>1, PlaceElements
  <2> QED BY <2>1, <2>2, <2>3, <2>5, <2>6, <2>7, <2>8, <2>9, <2>10 DEF Held
<1>3. ASSUME NEW p \in Places(line), NEW q \in Places(line) PROVE p = q
  <2>1. \A k, x, k2, x2 : Held(k, x, line) /\ Held(k2, x2, line) => k = k2 /\ x = x2
    BY DEF OnePlace
  <2>2. /\ \A s \in Session : /\ Distinct(host[s].steering) /\ Distinct(host[s].followUp)
                             /\ Distinct(host[s].said)
        /\ \A d \in Dequeuer : Distinct(dequeue[d].restored)
        /\ Distinct(editor)
    BY DEF OnceInAList
  <2>3. p[1] = q[1]
    BY <1>1, <2>1
  <2>4. CASE p[1] \in {"draft", "call", "refused"}
    BY <1>1, <2>1, <2>3, <2>4
  <2>5. CASE p[1] = "steering"
    BY <1>1, <2>1, <2>2, <2>3, <2>5 DEF Distinct
  <2>6. CASE p[1] = "followUp"
    BY <1>1, <2>1, <2>2, <2>3, <2>6 DEF Distinct
  <2>7. CASE p[1] = "said"
    BY <1>1, <2>1, <2>2, <2>3, <2>7 DEF Distinct
  <2>8. CASE p[1] = "restored"
    BY <1>1, <2>1, <2>2, <2>3, <2>8 DEF Distinct
  <2>9. CASE p[1] = "editor"
    BY <1>1, <2>1, <2>2, <2>3, <2>9 DEF Distinct
  <2> QED BY <1>1, <2>4, <2>5, <2>6, <2>7, <2>8, <2>9
<1>4. \E p : Places(line) = {p}
  BY <1>2, <1>3
<1> QED BY <1>4, FS_Singleton

\* While the answer of a removal is never lost, no typed line is lost or said twice,
\* and none is shown as pending once it is said, whatever fails or overlaps in
\* submit, dequeue, cancel and the replay of the drafts of plugins/commands.ts.
THEOREM NothingTypedIsLost == ASSUME "removal" \notin Faults PROVE Spec => []SaidOnce
<1>1. DeliveryInv => SaidOnce
  BY PlaceCounted DEF SaidOnce, NothingLost, DeliveryInv, FramesAgree
<1> QED BY <1>1, DeliveryCorrect, PTL

\* The drafts that reach a Session are said there in the order they were typed, for
\* replayDrafts awaits each answer and a draft never steers.
THEOREM DraftsAreSaidInOrder == ASSUME "removal" \notin Faults PROVE Spec => []DraftsInOrder
<1>1. ASSUME DeliveryInv PROVE DraftsInOrder
  <2> SUFFICES ASSUME NEW s \in Session, NEW i \in DOMAIN drafts, NEW j \in DOMAIN drafts,
                      NEW a \in DOMAIN host[s].said, NEW b \in DOMAIN host[s].said,
                      i < j, host[s].said[a] = drafts[i].line, host[s].said[b] = drafts[j].line
               PROVE  a < b
    BY DEF DraftsInOrder
  <2>1. /\ i \in 1..Len(drafts) /\ j \in 1..Len(drafts) /\ Len(drafts) \in Nat
        /\ drafts[i].line = i /\ drafts[j].line = j /\ a \in Nat /\ b \in Nat
    <3>1. /\ drafts \in Seq([line : Nat, mode : {"queue", "steer"}]) /\ host[s].said \in Seq(Nat)
          /\ drafts[i].line = i /\ drafts[j].line = j
      BY <1>1 DEF DeliveryInv, PlaceInv, Shapes, DraftsFirst, HostSessions, Lists
    <3>2. \A S : \A q \in Seq(S) : DOMAIN q = 1..Len(q) /\ Len(q) \in Nat
      OBVIOUS
    <3>3. DOMAIN drafts = 1..Len(drafts) /\ Len(drafts) \in Nat
      BY <3>1, <3>2
    <3>4. DOMAIN host[s].said = 1..Len(host[s].said) /\ Len(host[s].said) \in Nat
      BY <3>1, <3>2
    <3> QED BY <3>1, <3>3, <3>4
  <2>2. Ascending(host[s].said, Len(drafts))
    BY <1>1 DEF DeliveryInv, DraftsStand, Stands
  <2>3. a # b
    BY <2>1
  <2>4. ~(b < a)
    BY <2>1, <2>2 DEF Ascending
  <2> QED BY <2>1, <2>3, <2>4
<1>2. DeliveryInv => DraftsInOrder
  BY <1>1
<1> QED BY <1>2, DeliveryCorrect, PTL
=============================================================================
