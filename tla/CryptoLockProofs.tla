------------------------- MODULE CryptoLockProofs -------------------------
(***************************************************************************)
(* Proofs about CryptoLock: for any set of tasks and any table of slots,   *)
(* no wake-up is lost, no slot leaks and the kernel's mutex counts are     *)
(* right; and when the AES tasks share one priority, whatever the others   *)
(* have, the owner of the engine is boosted and every task gets its own    *)
(* priority back.                                                          *)
(***************************************************************************)
EXTENDS CryptoLock, FiniteSetTheorems, SequenceTheorems, TLAPS

\* Between the two mutexes an AES call holds the private one.
Inside == {"sample", "slot", "boost", "takeCrypto", "waitCrypto", "expiredCrypto", "engine", "dma",
           "give", "leave", "restore"}

\* Which call a task is in when it is at a place of the code.
CallAt ==
  \A t \in Tasks :
    /\ pc[t] \in {"takeAes", "waitAes", "expiredAes", "giveAes"} => call[t] \in {"aes", "key"}
    /\ pc[t] \in Inside => call[t] \in {"aes", "chacha"}
    /\ call[t] \in {"aes", "key"} => t \in AesTasks

\* A mutex is held by the task that is where it is held, and by no other.
HoldsAes(t) == pc[t] = "giveAes" \/ (call[t] = "aes" /\ pc[t] \in Inside)
Owners ==
  \A t \in Tasks :
    /\ owner["aes"] = t <=> HoldsAes(t)
    /\ owner["crypto"] = t <=> pc[t] \in {"engine", "dma", "give"}

\* uxMutexesHeld, without the set of mutexes.
One(b) == IF b THEN 1 ELSE 0
Counts == \A t \in Tasks : tcb[t].held = One(owner["aes"] = t) + One(owner["crypto"] = t)

Types ==
  /\ pc \in [Tasks -> PCs]
  /\ tcb \in [Tasks -> Tcb(Priority)]
  /\ call \in [Tasks -> {"aes", "key", "chacha", "net"}]
  /\ inherited \in [Tasks -> BOOLEAN]
  /\ prior \in [Tasks -> Priority]
  /\ owner \in [Mutexes -> Tasks \cup {NoTask}]
  /\ queue \in [Mutexes -> Seq(Tasks)]
  /\ slots \in [Slots -> [task : Tasks \cup {NoTask}, original : Priority, depth : Nat]]

IInv == Types /\ CallAt /\ Owners /\ Counts /\ NoLostWakeup /\ SlotsOwned

\* One priority for all the tasks that may wait for one another behind the
\* private mutex: there is nothing to inherit through it.
Peers == \A s, t \in AesTasks : BasePriority[s] = BasePriority[t]

\* From the boost to the end of the section.
Raised(t) ==
  \/ HasSlot(t) /\ pc[t] \in {"takeCrypto", "waitCrypto", "expiredCrypto", "engine", "dma", "give", "leave"}
  \/ pc[t] = "restore"

\* What the priorities of a task are, given where it is.
LevelOf(t) ==
  /\ tcb[t].base = IF Raised(t) THEN Boost ELSE BasePriority[t]
  /\ tcb[t].prio >= tcb[t].base
  /\ tcb[t].rank = tcb[t].prio
  /\ tcb[t].held = 0 \/ pc[t] \in {"sample", "slot", "boost"} => tcb[t].prio = tcb[t].base
  /\ pc[t] \in {"slot", "boost", "restore"} => prior[t] = BasePriority[t]
  /\ pc[t] = "boost" => HasSlot(t)
Levels ==
  /\ \A t \in Tasks : LevelOf(t)
  /\ \A i \in Slots : slots[i].task # NoTask => slots[i].original = BasePriority[slots[i].task]
LInv == IInv /\ Levels

---------------------------------------------------------------------------
LEMMA InsertShape ==
  ASSUME NEW S, NEW q \in Seq(S), NEW n \in 1 .. Len(q) + 1, NEW e \in S
  PROVE  /\ InsertAt(q, n, e) \in Seq(S)
         /\ Len(InsertAt(q, n, e)) = Len(q) + 1
         /\ \A i \in 1 .. Len(q) + 1 :
              InsertAt(q, n, e)[i] = IF i < n THEN q[i] ELSE IF i = n THEN e ELSE q[i - 1]
<1> DEFINE front == SubSeq(q, 1, n - 1)
           back == SubSeq(q, n, Len(q))
<1>0. Len(q) \in Nat /\ n \in Nat /\ n >= 1 /\ \A i \in 1 .. Len(q) : q[i] \in S
  BY LenProperties, ElementOfSeq
<1>1. front \in Seq(S) /\ Len(front) = n - 1 /\ \A i \in 1 .. n - 1 : front[i] = q[i]
  BY <1>0, SubSeqProperties
<1>2. back \in Seq(S) /\ Len(back) = Len(q) - n + 1 /\ \A i \in 1 .. Len(q) - n + 1 : back[i] = q[n + i - 1]
  BY <1>0, SubSeqProperties
<1>3. <<e>> \in Seq(S) /\ Len(<<e>>) = 1 /\ <<e>>[1] = e
  OBVIOUS
<1>4. /\ front \o <<e>> \in Seq(S) /\ Len(front \o <<e>>) = n
      /\ \A i \in 1 .. n : (front \o <<e>>)[i] = IF i < n THEN q[i] ELSE e
  BY <1>0, <1>1, <1>3, ConcatProperties
<1>5. InsertAt(q, n, e) = (front \o <<e>>) \o back
  BY DEF InsertAt
<1> HIDE DEF front, back
<1>6. /\ (front \o <<e>>) \o back \in Seq(S)
      /\ Len((front \o <<e>>) \o back) = Len(q) + 1
      /\ \A i \in 1 .. Len(q) + 1 : ((front \o <<e>>) \o back)[i] =
           IF i <= n THEN (front \o <<e>>)[i] ELSE back[i - n]
  <2> DEFINE head == front \o <<e>>
  <2>1. head \in Seq(S) /\ Len(head) = n
    BY <1>4
  <2> HIDE DEF head
  <2>2. /\ head \o back \in Seq(S)
        /\ Len(head \o back) = Len(head) + Len(back)
        /\ \A i \in 1 .. Len(head) + Len(back) : (head \o back)[i] =
             IF i <= Len(head) THEN head[i] ELSE back[i - Len(head)]
    BY <1>2, <2>1, ConcatProperties
  <2>3. Len(head) + Len(back) = Len(q) + 1
    BY <1>0, <1>2, <2>1
  <2> QED
    BY <2>1, <2>2, <2>3 DEF head
<1> QED
  BY <1>0, <1>2, <1>4, <1>5, <1>6

LEMMA RemoveShape ==
  ASSUME NEW S, NEW q \in Seq(S), NEW n \in 1 .. Len(q)
  PROVE  /\ RemoveAt(q, n) \in Seq(S)
         /\ Len(RemoveAt(q, n)) = Len(q) - 1
         /\ \A i \in 1 .. Len(q) - 1 : RemoveAt(q, n)[i] = IF i < n THEN q[i] ELSE q[i + 1]
<1> DEFINE front == SubSeq(q, 1, n - 1)
           back == SubSeq(q, n + 1, Len(q))
<1>0. Len(q) \in Nat /\ n \in Nat /\ n >= 1 /\ \A i \in 1 .. Len(q) : q[i] \in S
  BY LenProperties, ElementOfSeq
<1>1. front \in Seq(S) /\ Len(front) = n - 1 /\ \A i \in 1 .. n - 1 : front[i] = q[i]
  BY <1>0, SubSeqProperties
<1>2. back \in Seq(S) /\ Len(back) = Len(q) - n /\ \A i \in 1 .. Len(q) - n : back[i] = q[n + i]
  BY <1>0, SubSeqProperties
<1>3. RemoveAt(q, n) = front \o back
  BY DEF RemoveAt
<1> HIDE DEF front, back
<1>4. /\ front \o back \in Seq(S)
      /\ Len(front \o back) = Len(q) - 1
      /\ \A i \in 1 .. Len(q) - 1 : (front \o back)[i] = IF i <= n - 1 THEN front[i] ELSE back[i - (n - 1)]
  <2>1. /\ front \o back \in Seq(S)
        /\ Len(front \o back) = Len(front) + Len(back)
        /\ \A i \in 1 .. Len(front) + Len(back) : (front \o back)[i] =
             IF i <= Len(front) THEN front[i] ELSE back[i - Len(front)]
    BY <1>1, <1>2, ConcatProperties
  <2>2. Len(front) + Len(back) = Len(q) - 1
    BY <1>0, <1>1, <1>2
  <2> QED
    BY <1>1, <2>1, <2>2
<1> QED
  BY <1>0, <1>1, <1>2, <1>3, <1>4

---------------------------------------------------------------------------
\* A queue without repetitions, and who is in it.
Queued(q, t) == \E i \in 1 .. Len(q) : q[i] = t
Once(q) == \A i, j \in 1 .. Len(q) : q[i] = q[j] => i = j

LEMMA QueueMeaning ==
  ASSUME NEW q \in Seq(Tasks), NEW t
  PROVE  /\ IsInjective(q) <=> Once(q)
         /\ t \in ToSet(q) <=> Queued(q, t)
BY LenProperties DEF IsInjective, Once, ToSet, Queued

\* A task that is inserted is in the queue, once.
LEMMA Inserted ==
  ASSUME NEW q \in Seq(Tasks), NEW n \in 1 .. Len(q) + 1, NEW t \in Tasks,
         Once(q), ~Queued(q, t)
  PROVE  /\ InsertAt(q, n, t) \in Seq(Tasks)
         /\ Once(InsertAt(q, n, t))
         /\ \A u : Queued(InsertAt(q, n, t), u) <=> u = t \/ Queued(q, u)
<1> DEFINE r == InsertAt(q, n, t)
<1>1. /\ r \in Seq(Tasks) /\ Len(r) = Len(q) + 1 /\ Len(q) \in Nat
      /\ \A i \in 1 .. Len(q) + 1 : r[i] = IF i < n THEN q[i] ELSE IF i = n THEN t ELSE q[i - 1]
  BY InsertShape, LenProperties
<1> HIDE DEF r
<1>2. Once(r)
  <2> SUFFICES ASSUME NEW i \in 1 .. Len(r), NEW j \in 1 .. Len(r), r[i] = r[j], i < j PROVE FALSE
    BY <1>1 DEF Once
  <2>1. \A k \in 1 .. Len(q) : q[k] # t
    BY DEF Queued
  <2>2. CASE j < n
    BY <1>1, <2>2 DEF Once
  <2>3. CASE j = n
    BY <1>1, <2>1, <2>3
  <2>4. CASE j > n /\ i < n
    <3>1. /\ i \in 1 .. Len(q) /\ j - 1 \in 1 .. Len(q) /\ i # j - 1
          /\ q[i] = q[j - 1]
      BY <1>1, <2>4
    <3> QED
      BY <3>1 DEF Once
  <2>5. CASE j > n /\ i = n
    BY <1>1, <2>1, <2>5
  <2>6. CASE j > n /\ i > n
    <3>1. /\ i - 1 \in 1 .. Len(q) /\ j - 1 \in 1 .. Len(q) /\ i - 1 # j - 1
          /\ q[i - 1] = q[j - 1]
      BY <1>1, <2>6
    <3> QED
      BY <3>1 DEF Once
  <2> QED
    BY <1>1, <2>2, <2>3, <2>4, <2>5, <2>6, SMTT(40)
<1>3. ASSUME NEW u PROVE Queued(r, u) <=> u = t \/ Queued(q, u)
  <2>1. Queued(r, u) => u = t \/ Queued(q, u)
    BY <1>1 DEF Queued
  <2>2. Queued(r, t)
    BY <1>1 DEF Queued
  <2>3. ASSUME NEW i \in 1 .. Len(q), q[i] = u PROVE Queued(r, u)
    <3>1. CASE i < n
      BY <1>1, <2>3, <3>1 DEF Queued
    <3>2. CASE i >= n
      <4>1. i + 1 \in 1 .. Len(r) /\ r[i + 1] = q[i]
        BY <1>1, <3>2
      <4> QED
        BY <4>1, <2>3 DEF Queued
    <3> QED
      BY <1>1, <3>1, <3>2
  <2> QED
    BY <2>1, <2>2, <2>3 DEF Queued
<1> QED
  BY <1>1, <1>2, <1>3 DEF r

\* A task that is removed is not in the queue any more; the others are.
LEMMA Removed ==
  ASSUME NEW q \in Seq(Tasks), NEW n \in 1 .. Len(q), Once(q)
  PROVE  /\ RemoveAt(q, n) \in Seq(Tasks)
         /\ Once(RemoveAt(q, n))
         /\ \A u : Queued(RemoveAt(q, n), u) <=> u # q[n] /\ Queued(q, u)
<1> DEFINE r == RemoveAt(q, n)
<1>1. /\ r \in Seq(Tasks) /\ Len(r) = Len(q) - 1 /\ Len(q) \in Nat
      /\ \A i \in 1 .. Len(q) - 1 : r[i] = IF i < n THEN q[i] ELSE q[i + 1]
  BY RemoveShape, LenProperties
<1> HIDE DEF r
<1>2. Once(r)
  BY <1>1 DEF Once
<1>3. ASSUME NEW u PROVE Queued(r, u) <=> u # q[n] /\ Queued(q, u)
  <2>1. ASSUME NEW i \in 1 .. Len(r), r[i] = u PROVE u # q[n] /\ Queued(q, u)
    BY <1>1, <2>1 DEF Once, Queued
  <2>2. ASSUME NEW i \in 1 .. Len(q), q[i] = u, u # q[n] PROVE Queued(r, u)
    <3>1. CASE i < n
      BY <1>1, <2>2, <3>1 DEF Queued
    <3>2. CASE i > n
      <4>1. i - 1 \in 1 .. Len(r) /\ r[i - 1] = q[i]
        BY <1>1, <3>2
      <4> QED
        BY <4>1, <2>2 DEF Queued
    <3> QED
      BY <1>1, <2>2, <3>1, <3>2
  <2> QED
    BY <2>1, <2>2 DEF Queued
<1> QED
  BY <1>1, <1>2, <1>3 DEF r

\* The tail loses the head.
LEMMA Beheaded ==
  ASSUME NEW q \in Seq(Tasks), q # <<>>, Once(q)
  PROVE  /\ Tail(q) \in Seq(Tasks)
         /\ Head(q) \in Tasks /\ Queued(q, Head(q))
         /\ Once(Tail(q))
         /\ \A u : Queued(Tail(q), u) <=> u # Head(q) /\ Queued(q, u)
<1>1. /\ Len(q) \in Nat /\ Len(q) >= 1 /\ Head(q) = q[1] /\ Head(q) \in Tasks
      /\ Tail(q) \in Seq(Tasks) /\ Len(Tail(q)) = Len(q) - 1
      /\ \A i \in 1 .. Len(Tail(q)) : Tail(q)[i] = q[i + 1]
  BY HeadTailProperties, EmptySeq, LenProperties
<1> DEFINE r == Tail(q)
<1>2. r = Tail(q)
  OBVIOUS
<1> HIDE DEF r
<1>3. Once(r)
  BY <1>1, <1>2 DEF Once
<1>4. ASSUME NEW u PROVE Queued(r, u) <=> u # q[1] /\ Queued(q, u)
  <2>1. ASSUME NEW i \in 1 .. Len(r), r[i] = u PROVE u # q[1] /\ Queued(q, u)
    BY <1>1, <1>2, <2>1 DEF Once, Queued
  <2>2. ASSUME NEW i \in 1 .. Len(q), q[i] = u, u # q[1] PROVE Queued(r, u)
    <3>1. i - 1 \in 1 .. Len(r) /\ r[i - 1] = q[i]
      BY <1>1, <1>2, <2>2
    <3> QED
      BY <3>1, <2>2 DEF Queued
  <2> QED
    BY <2>1, <2>2 DEF Queued
<1> QED
  BY <1>1, <1>2, <1>3, <1>4 DEF Queued

---------------------------------------------------------------------------
\* The labels, and the places they name.
LEMMA Labels ==
  /\ Mutexes = {"aes", "crypto"}
  /\ Taking["aes"] = "takeAes" /\ Taking["crypto"] = "takeCrypto"
  /\ Waiting["aes"] = "waitAes" /\ Waiting["crypto"] = "waitCrypto"
  /\ Expired["aes"] = "expiredAes" /\ Expired["crypto"] = "expiredCrypto"
BY DEF Mutexes, Taking, Waiting, Expired

AtMutex == {"takeAes", "waitAes", "expiredAes", "takeCrypto", "waitCrypto", "expiredCrypto"}
Waits == {"waitAes", "waitCrypto"}

\* NoLostWakeup in the terms of the lemmas about queues.
QueueOf(m) ==
  /\ \A t \in Tasks : pc[t] = Waiting[m] <=> Queued(queue[m], t)
  /\ Once(queue[m])
  /\ owner[m] = NoTask /\ queue[m] # <<>> => \E t \in Tasks : pc[t] \in {Taking[m], Expired[m]}

LEMMA QueueMeans ==
  ASSUME queue \in [Mutexes -> Seq(Tasks)]
  PROVE  NoLostWakeup <=> \A m \in Mutexes : QueueOf(m)
BY QueueMeaning DEF NoLostWakeup, QueueOf

\* A task that moves away from the mutexes, or towards one, disturbs no queue.
LEMMA Elsewhere ==
  ASSUME pc \in [Tasks -> PCs], NEW m \in Mutexes, QueueOf(m), NEW t \in Tasks, NEW label,
         pc' = [pc EXCEPT ![t] = label], UNCHANGED mutexes,
         pc[t] \notin AtMutex, label \notin Waits
  PROVE  QueueOf(m)'
<1>1. m = "aes" \/ m = "crypto"
  BY Labels
<1>2. \A u \in Tasks : pc'[u] = IF u = t THEN label ELSE pc[u]
  OBVIOUS
<1>3. CASE m = "aes"
  BY <1>2, <1>3, Labels DEF QueueOf, AtMutex, Waits, mutexes
<1>4. CASE m = "crypto"
  BY <1>2, <1>4, Labels DEF QueueOf, AtMutex, Waits, mutexes
<1> QED
  BY <1>1, <1>3, <1>4

\* What giving a mutex does to the other tasks and to the queues.
LEMMA GiveEffect ==
  ASSUME pc \in [Tasks -> PCs], queue \in [Mutexes -> Seq(Tasks)], owner \in [Mutexes -> Tasks \cup {NoTask}],
         \A n \in Mutexes : QueueOf(n),
         NEW t \in Tasks, NEW m \in Mutexes, NEW label \in {"leave", "idle"},
         pc[t] \in {"give", "giveAes"}, Give(t, m, label)
  PROVE  /\ pc' \in [Tasks -> PCs] /\ pc'[t] = label
         /\ \A u \in Tasks \ {t} : pc'[u] = pc[u] \/ (pc[u] = Waiting[m] /\ pc'[u] = Taking[m])
         /\ queue' \in [Mutexes -> Seq(Tasks)]
         /\ owner' \in [Mutexes -> Tasks \cup {NoTask}]
         /\ \A n \in Mutexes : QueueOf(n)'
<1>1. owner' = [owner EXCEPT ![m] = NoTask] /\ owner' \in [Mutexes -> Tasks \cup {NoTask}]
  BY DEF Give
<1>2. m \in {"aes", "crypto"} /\ Taking[m] \in PCs /\ label \in PCs /\ label \notin AtMutex
  BY Labels DEF PCs, Blocked, AtMutex
<1>3. pc[t] \notin AtMutex
  BY DEF AtMutex
<1>4. QueueOf(m) /\ queue[m] \in Seq(Tasks)
  OBVIOUS
<1>5. CASE queue[m] = <<>>
  <2>1. pc' = [pc EXCEPT ![t] = label] /\ queue' = queue
    BY <1>5 DEF Give, Goto
  <2>2. \A u \in Tasks : pc'[u] = IF u = t THEN label ELSE pc[u]
    BY <2>1
  <2>3. ASSUME NEW n \in Mutexes PROVE QueueOf(n)'
    <3>1. n \in {"aes", "crypto"} /\ QueueOf(n)
      BY Labels
    <3>2. CASE n = m
      <4>1. queue'[m] = <<>> /\ queue[m] = <<>>
        BY <1>5, <2>1
      <4>2. \A u \in Tasks : pc'[u] = Waiting[m] <=> pc[u] = Waiting[m]
        BY <1>2, <1>3, <2>2, Labels DEF AtMutex
      <4> QED
        BY <3>1, <3>2, <4>1, <4>2 DEF QueueOf
    <3>3. CASE n # m
      <4>1. owner'[n] = owner[n] /\ queue'[n] = queue[n]
        BY <1>1, <2>1, <3>3
      <4> QED
        BY <1>2, <1>3, <2>2, <3>1, <4>1, Labels DEF QueueOf, AtMutex
    <3> QED
      BY <3>2, <3>3
  <2> QED
    BY <1>1, <1>2, <2>1, <2>2, <2>3
<1>6. CASE queue[m] # <<>>
  <2> DEFINE w == Head(queue[m])
  <2>1. /\ Tail(queue[m]) \in Seq(Tasks) /\ w \in Tasks /\ Queued(queue[m], w)
        /\ Once(Tail(queue[m]))
        /\ \A u : Queued(Tail(queue[m]), u) <=> u # w /\ Queued(queue[m], u)
    BY <1>4, <1>6, Beheaded DEF QueueOf
  <2>2. pc[w] = Waiting[m] /\ w # t
    BY <1>2, <1>3, <1>4, <2>1, Labels DEF QueueOf, AtMutex
  <2>3. /\ pc' = [pc EXCEPT ![t] = label, ![w] = Taking[m]]
        /\ queue' = [queue EXCEPT ![m] = Tail(@)]
    BY <1>6 DEF Give
  <2> HIDE DEF w
  <2>4. \A u \in Tasks : pc'[u] = IF u = w THEN Taking[m] ELSE IF u = t THEN label ELSE pc[u]
    BY <2>1, <2>2, <2>3
  <2>5. queue' \in [Mutexes -> Seq(Tasks)] /\ queue'[m] = Tail(queue[m]) /\ pc' \in [Tasks -> PCs]
    BY <1>2, <2>1, <2>3
  <2>6. QueueOf(m)'
    <3>1. ASSUME NEW u \in Tasks PROVE pc'[u] = Waiting[m] <=> Queued(queue'[m], u)
      BY <1>2, <1>3, <1>4, <2>1, <2>2, <2>4, <2>5, Labels DEF QueueOf, AtMutex
    <3> QED
      BY <2>1, <2>4, <2>5, <3>1 DEF QueueOf
  <2>7. ASSUME NEW n \in Mutexes, n # m PROVE QueueOf(n)'
    <3>1. n \in {"aes", "crypto"} /\ QueueOf(n) /\ owner'[n] = owner[n] /\ queue'[n] = queue[n]
      BY <1>1, <2>3, <2>7, Labels
    <3>2. ASSUME NEW u \in Tasks
          PROVE  /\ pc'[u] = Waiting[n] <=> pc[u] = Waiting[n]
                 /\ pc[u] \in {Taking[n], Expired[n]} => pc'[u] = pc[u]
      BY <1>2, <1>3, <2>2, <2>4, <2>7, <3>1, Labels DEF AtMutex
    <3> QED
      BY <3>1, <3>2 DEF QueueOf
  <2> QED
    BY <1>1, <2>2, <2>4, <2>5, <2>6, <2>7
<1> QED
  BY <1>5, <1>6

---------------------------------------------------------------------------
\* The kernel routines keep a control block well formed.
LEMMA BlocksClosed ==
  ASSUME NEW b \in Tcb(Priority), NEW p \in Priority
  PROVE  /\ PrioritySet(b, p) \in Tcb(Priority)
         /\ Inherit(b, p) \in Tcb(Priority)
         /\ DisinheritAfterTimeout(b, p) \in Tcb(Priority)
         /\ b.held >= 1 => Disinherit(b) \in Tcb(Priority)
         /\ [b EXCEPT !.held = @ + 1] \in Tcb(Priority)
<1> USE DEF Tcb
<1>1. PrioritySet(b, p) \in Tcb(Priority)
  BY DEF PrioritySet
<1>2. Inherit(b, p) \in Tcb(Priority)
  BY DEF Inherit
<1>3. DisinheritAfterTimeout(b, p) \in Tcb(Priority)
  BY DEF DisinheritAfterTimeout
<1>4. ASSUME b.held >= 1 PROVE Disinherit(b) \in Tcb(Priority)
  <2>1. [b EXCEPT !.held = 0, !.prio = b.base, !.rank = b.base] \in Tcb(Priority)
    OBVIOUS
  <2>2. [b EXCEPT !.held = b.held - 1] \in Tcb(Priority)
    BY <1>4
  <2> QED
    BY <2>1, <2>2 DEF Disinherit
<1>5. [b EXCEPT !.held = @ + 1] \in Tcb(Priority)
  OBVIOUS
<1> QED
  BY <1>1, <1>2, <1>3, <1>4, <1>5

\* And the count of mutexes changes with a give alone.
LEMMA BlocksCount ==
  ASSUME NEW b \in Tcb(Priority), NEW p \in Priority
  PROVE  /\ PrioritySet(b, p).held = b.held
         /\ Inherit(b, p).held = b.held
         /\ DisinheritAfterTimeout(b, p).held = b.held
         /\ b.held >= 1 => Disinherit(b).held = b.held - 1
         /\ [b EXCEPT !.held = @ + 1].held = b.held + 1
BY BoostAssumption DEF Tcb, Priority, PrioritySet, Inherit, DisinheritAfterTimeout, Disinherit

\* Every step is one of these, by one task and at one mutex.
TaskStep(t) ==
  \/ Work(t) \/ Sample(t) \/ TakeSlot(t) \/ Raise(t) \/ Submit(t) \/ Unlock(t)
  \/ Leave(t) \/ Restore(t) \/ UnlockAes(t) \/ Call(t) \/ Complete(t)
  \/ \E m \in Mutexes : Take(t, m) \/ Wait(t, m) \/ Retry(t, m) \/ Expire(t, m)

LEMMA Steps ==
  ASSUME Next
  PROVE  \E t \in Tasks : TaskStep(t)
BY DEF Next, Step, TaskStep

\* The queues stay right under every step.
LEMMA QueuesStep ==
  ASSUME Types, Owners, \A n \in Mutexes : QueueOf(n), Next
  PROVE  /\ \A n \in Mutexes : QueueOf(n)'
         /\ queue' \in [Mutexes -> Seq(Tasks)]
         /\ owner' \in [Mutexes -> Tasks \cup {NoTask}]
         /\ pc' \in [Tasks -> PCs]
<1> USE DEF Types
<1> PICK t \in Tasks : TaskStep(t)
  BY Steps
<1> USE DEF TaskStep
<1>1. CASE Work(t) \/ Sample(t) \/ TakeSlot(t) \/ Raise(t) \/ Submit(t) \/ Leave(t) \/ Restore(t)
           \/ Call(t) \/ Complete(t)
  <2>1. UNCHANGED mutexes
    BY <1>1 DEF Work, Sample, TakeSlot, Raise, Submit, Leave, Restore, Call, Complete, mutexes
  <2>2. \E label \in PCs \ Waits : pc' = [pc EXCEPT ![t] = label]
    BY <1>1 DEF Work, Sample, TakeSlot, Raise, Submit, Leave, Restore, Call, Complete, Goto, AfterLeave,
       PCs, Blocked, Waits
  <2>3. pc[t] \notin AtMutex
    BY <1>1 DEF Work, Sample, TakeSlot, Raise, Submit, Leave, Restore, Call, Complete, AtMutex
  <2>4. \A n \in Mutexes : QueueOf(n)'
    BY <2>1, <2>2, <2>3, Elsewhere
  <2> QED
    BY <2>1, <2>2, <2>4 DEF mutexes
<1>2. CASE Unlock(t)
  BY <1>2, GiveEffect, Labels DEF Unlock
<1>3. CASE UnlockAes(t)
  BY <1>3, GiveEffect, Labels DEF UnlockAes
<1>4. ASSUME NEW m \in Mutexes, Take(t, m)
      PROVE  /\ \A n \in Mutexes : QueueOf(n)'
             /\ owner' \in [Mutexes -> Tasks \cup {NoTask}]
             /\ queue' = queue /\ pc' \in [Tasks -> PCs]
  <2>1. PICK label \in {"engine", "sample", "giveAes"} : pc' = [pc EXCEPT ![t] = label]
    BY <1>4 DEF Take, Goto
  <2>2. queue' = queue /\ owner' = [owner EXCEPT ![m] = t] /\ pc[t] = Taking[m]
    BY <1>4 DEF Take
  <2>3. t # NoTask
    BY TasksAssumption
  <2>4. ASSUME NEW n \in Mutexes PROVE QueueOf(n)'
    <3>1. n \in {"aes", "crypto"} /\ m \in {"aes", "crypto"} /\ QueueOf(n)
      BY Labels
    <3>2. \A u \in Tasks : pc'[u] = IF u = t THEN label ELSE pc[u]
      BY <2>1
    <3>3. \A u \in Tasks : pc'[u] = Waiting[n] <=> pc[u] = Waiting[n]
      BY <2>2, <3>1, <3>2, Labels
    <3>4. CASE n = m
      BY <2>2, <2>3, <3>1, <3>3, <3>4 DEF QueueOf
    <3>5. CASE n # m
      <4>1. \A u \in Tasks : pc[u] \in {Taking[n], Expired[n]} => pc'[u] = pc[u]
        BY <2>2, <3>1, <3>2, <3>5, Labels
      <4>2. owner'[n] = owner[n]
        BY <2>2, <3>5
      <4> QED
        BY <2>2, <3>1, <3>3, <4>1, <4>2 DEF QueueOf
    <3> QED
      BY <3>4, <3>5
  <2> QED
    BY <2>1, <2>2, <2>4 DEF PCs
<1>5. ASSUME NEW m \in Mutexes, Wait(t, m)
      PROVE  /\ \A n \in Mutexes : QueueOf(n)'
             /\ queue' \in [Mutexes -> Seq(Tasks)]
             /\ owner' = owner /\ pc' \in [Tasks -> PCs]
  <2>1. /\ pc' = [pc EXCEPT ![t] = Waiting[m]] /\ pc[t] = Taking[m]
        /\ owner' = owner /\ owner[m] # NoTask
    BY <1>5 DEF Wait, Goto
  <2>2. PICK k \in 1 .. Len(queue[m]) + 1 : queue' = [queue EXCEPT ![m] = InsertAt(@, k, t)]
    BY <1>5 DEF Wait
  <2>3. m \in {"aes", "crypto"} /\ Once(queue[m]) /\ ~Queued(queue[m], t) /\ queue[m] \in Seq(Tasks)
    BY <2>1, Labels DEF QueueOf
  <2>4. /\ InsertAt(queue[m], k, t) \in Seq(Tasks)
        /\ Once(InsertAt(queue[m], k, t))
        /\ \A u : Queued(InsertAt(queue[m], k, t), u) <=> u = t \/ Queued(queue[m], u)
    BY <2>3, Inserted
  <2>5. queue'[m] = InsertAt(queue[m], k, t) /\ queue' \in [Mutexes -> Seq(Tasks)]
    BY <2>2, <2>4
  <2>6. \A u \in Tasks : pc'[u] = IF u = t THEN Waiting[m] ELSE pc[u]
    BY <2>1
  <2>7. ASSUME NEW n \in Mutexes PROVE QueueOf(n)'
    <3>1. n \in {"aes", "crypto"} /\ QueueOf(n)
      BY Labels
    <3>2. CASE n = m
      BY <2>1, <2>4, <2>5, <2>6, <3>1, <3>2 DEF QueueOf
    <3>3. CASE n # m
      <4>1. \A u \in Tasks : /\ pc'[u] = Waiting[n] <=> pc[u] = Waiting[n]
                             /\ pc[u] \in {Taking[n], Expired[n]} => pc'[u] = pc[u]
        BY <2>1, <2>3, <2>6, <3>1, <3>3, Labels
      <4>2. queue'[n] = queue[n]
        BY <2>2, <3>3
      <4> QED
        BY <2>1, <3>1, <4>1, <4>2 DEF QueueOf
    <3> QED
      BY <3>2, <3>3
  <2> QED
    BY <2>1, <2>3, <2>5, <2>7, Labels DEF PCs, Blocked
<1>6. ASSUME NEW m \in Mutexes, Expire(t, m)
      PROVE  /\ \A n \in Mutexes : QueueOf(n)'
             /\ queue' \in [Mutexes -> Seq(Tasks)]
             /\ owner' = owner /\ pc' \in [Tasks -> PCs]
  <2>1. pc' = [pc EXCEPT ![t] = Expired[m]] /\ pc[t] = Waiting[m] /\ owner' = owner
    BY <1>6 DEF Expire, Goto, mutexes
  <2>2. m \in {"aes", "crypto"} /\ Once(queue[m]) /\ queue[m] \in Seq(Tasks)
    <3>1. QueueOf(m) /\ m \in {"aes", "crypto"} /\ queue[m] \in Seq(Tasks)
      BY Labels
    <3> QED
      BY <3>1 DEF QueueOf
  <2>3. PICK k \in 1 .. Len(queue[m]) : queue[m][k] = t /\ queue' = [queue EXCEPT ![m] = RemoveAt(@, k)]
    <3>1. DOMAIN queue[m] = 1 .. Len(queue[m])
      BY <2>2, LenProperties
    <3>2. \E i \in DOMAIN queue[m] : queue[m][i] = t /\ queue' = [queue EXCEPT ![m] = RemoveAt(@, i)]
      BY <1>6, Zenon DEF Expire
    <3> QED
      BY <3>1, <3>2, Zenon
  <2>4. /\ RemoveAt(queue[m], k) \in Seq(Tasks)
        /\ Once(RemoveAt(queue[m], k))
        /\ \A u : Queued(RemoveAt(queue[m], k), u) <=> u # t /\ Queued(queue[m], u)
    BY <2>2, <2>3, Removed
  <2>5. queue'[m] = RemoveAt(queue[m], k) /\ queue' \in [Mutexes -> Seq(Tasks)]
    BY <2>3, <2>4
  <2>6. \A u \in Tasks : pc'[u] = IF u = t THEN Expired[m] ELSE pc[u]
    BY <2>1
  <2>7. ASSUME NEW n \in Mutexes PROVE QueueOf(n)'
    <3>1. n \in {"aes", "crypto"} /\ QueueOf(n)
      BY Labels
    <3>2. CASE n = m
      <4>1. \A u \in Tasks : pc'[u] = Waiting[m] <=> Queued(queue'[m], u)
        BY <2>1, <2>2, <2>4, <2>5, <2>6, <3>1, <3>2, Labels DEF QueueOf
      <4> QED
        BY <2>4, <2>5, <2>6, <3>2, <4>1 DEF QueueOf
    <3>3. CASE n # m
      <4>1. \A u \in Tasks : /\ pc'[u] = Waiting[n] <=> pc[u] = Waiting[n]
                             /\ pc[u] \in {Taking[n], Expired[n]} => pc'[u] = pc[u]
        BY <2>1, <2>2, <2>6, <3>1, <3>3, Labels
      <4>2. queue'[n] = queue[n]
        BY <2>3, <3>3
      <4> QED
        BY <2>1, <3>1, <4>1, <4>2 DEF QueueOf
    <3> QED
      BY <3>2, <3>3
  <2> QED
    BY <2>1, <2>2, <2>5, <2>7, Labels DEF PCs
<1>7. ASSUME NEW m \in Mutexes, Retry(t, m)
      PROVE  /\ \A n \in Mutexes : QueueOf(n)'
             /\ UNCHANGED mutexes /\ pc' \in [Tasks -> PCs]
  <2>1. pc' = [pc EXCEPT ![t] = Taking[m]] /\ pc[t] = Expired[m] /\ UNCHANGED mutexes
    BY <1>7 DEF Retry, Goto
  <2>2. \A u \in Tasks : pc'[u] = IF u = t THEN Taking[m] ELSE pc[u]
    BY <2>1
  <2>3. ASSUME NEW n \in Mutexes PROVE QueueOf(n)'
    <3>1. n \in {"aes", "crypto"} /\ m \in {"aes", "crypto"} /\ QueueOf(n)
      BY Labels
    <3>2. \A u \in Tasks : /\ pc'[u] = Waiting[n] <=> pc[u] = Waiting[n]
                           /\ pc[u] \in {Taking[n], Expired[n]} => pc'[u] \in {Taking[n], Expired[n]}
      BY <2>1, <2>2, <3>1, Labels
    <3> QED
      BY <2>1, <3>1, <3>2 DEF QueueOf, mutexes
  <2> QED
    BY <2>1, <2>3, Labels DEF PCs
<1> QED
  BY <1>1, <1>2, <1>3, <1>4, <1>5, <1>6, <1>7 DEF mutexes

---------------------------------------------------------------------------
\* Retry gives the kernel a rank for the first waiter that is left.
NextRank(m) == IF queue[m] = <<>> THEN 0 ELSE tcb[Head(queue[m])].rank

LEMMA NextRankType ==
  ASSUME Types, NEW m \in Mutexes
  PROVE  NextRank(m) \in Priority
<1>1. CASE queue[m] = <<>>
  BY <1>1, BoostAssumption DEF NextRank, Priority
<1>2. CASE queue[m] # <<>>
  <2>1. Head(queue[m]) \in Tasks
    BY <1>2, HeadTailProperties DEF Types
  <2>2. tcb[Head(queue[m])].rank \in Priority
    BY <2>1 DEF Types, Tcb
  <2> QED
    BY <1>2, <2>2 DEF NextRank
<1> QED
  BY <1>1, <1>2

\* Which control block a step changes, and by which routine.
LEMMA BlockSteps ==
  ASSUME Types, Owners, Counts, Next
  PROVE  \E u \in Tasks : \E b :
           /\ tcb' = [tcb EXCEPT ![u] = b] /\ b \in Tcb(Priority)
<1> USE DEF Types
<1> PICK t \in Tasks : TaskStep(t)
  BY Steps
<1> USE DEF TaskStep
<1>0. /\ tcb[t] \in Tcb(Priority) /\ tcb = [tcb EXCEPT ![t] = tcb[t]]
      /\ prior[t] \in Priority /\ Boost \in Priority /\ tcb[t].prio \in Priority
  BY BoostAssumption DEF Tcb, Priority
<1>1. CASE Work(t) \/ Sample(t) \/ TakeSlot(t) \/ Submit(t) \/ Leave(t) \/ Call(t) \/ Complete(t)
           \/ \E m \in Mutexes : Expire(t, m)
  <2>1. tcb' = tcb
    BY <1>1 DEF Work, Sample, TakeSlot, Submit, Leave, Call, Complete, Expire
  <2> QED
    BY <1>0, <2>1
<1>2. CASE Raise(t)
  BY <1>0, <1>2, BlocksClosed DEF Raise
<1>3. CASE Restore(t)
  <2>1. CASE tcb[t].prio # prior[t]
    BY <1>0, <1>3, <2>1, BlocksClosed DEF Restore
  <2>2. CASE tcb[t].prio = prior[t]
    BY <1>0, <1>3, <2>2 DEF Restore
  <2> QED
    BY <2>1, <2>2
<1>4. CASE Unlock(t) \/ UnlockAes(t)
  <2>1. tcb' = [tcb EXCEPT ![t] = Disinherit(tcb[t])]
    BY <1>4 DEF Unlock, UnlockAes, Give
  <2>2. owner["crypto"] = t \/ owner["aes"] = t
    BY <1>4 DEF Unlock, UnlockAes, Owners, HoldsAes
  <2>3. tcb[t].held >= 1
    BY <2>2 DEF Counts, One
  <2> QED
    BY <1>0, <2>1, <2>3, BlocksClosed
<1>5. ASSUME NEW m \in Mutexes, Take(t, m)
      PROVE  tcb' = [tcb EXCEPT ![t] = [tcb[t] EXCEPT !.held = @ + 1]]
  BY <1>5 DEF Take
<1>6. ASSUME NEW m \in Mutexes, Wait(t, m)
      PROVE  /\ owner[m] \in Tasks
             /\ tcb' = [tcb EXCEPT ![owner[m]] = Inherit(tcb[owner[m]], tcb[t].prio)]
  BY <1>6 DEF Wait
<1>7. ASSUME NEW m \in Mutexes, Retry(t, m), tcb' # tcb
      PROVE  /\ owner[m] \in Tasks
             /\ tcb' = [tcb EXCEPT ![owner[m]] = DisinheritAfterTimeout(tcb[owner[m]], NextRank(m))]
  BY <1>7 DEF Retry, NextRank
<1>8. \A u \in Tasks : tcb[u] \in Tcb(Priority)
  OBVIOUS
<1>9. CASE \E m \in Mutexes : Take(t, m)
  BY <1>0, <1>5, <1>9, BlocksClosed
<1>10. CASE \E m \in Mutexes : Wait(t, m)
  <2> PICK m \in Mutexes : Wait(t, m)
    BY <1>10
  <2>1. owner[m] \in Tasks /\ Inherit(tcb[owner[m]], tcb[t].prio) \in Tcb(Priority)
    BY <1>0, <1>6, <1>8, BlocksClosed
  <2> QED
    BY <1>6, <2>1
<1>11. CASE \E m \in Mutexes : Retry(t, m)
  <2> PICK m \in Mutexes : Retry(t, m)
    BY <1>11
  <2>1. CASE tcb' = tcb
    BY <1>0, <2>1
  <2>2. CASE tcb' # tcb
    <3>1. owner[m] \in Tasks /\ DisinheritAfterTimeout(tcb[owner[m]], NextRank(m)) \in Tcb(Priority)
      BY <1>7, <1>8, <2>2, BlocksClosed, NextRankType
    <3> QED
      BY <1>7, <2>2, <3>1
  <2> QED
    BY <2>1, <2>2
<1> QED
  BY <1>1, <1>2, <1>3, <1>4, <1>9, <1>10, <1>11

\* Every variable keeps its type.
LEMMA TypesStep ==
  ASSUME Types, Owners, Counts, \A n \in Mutexes : QueueOf(n), Next
  PROVE  Types'
<1>1. /\ queue' \in [Mutexes -> Seq(Tasks)] /\ pc' \in [Tasks -> PCs]
      /\ owner' \in [Mutexes -> Tasks \cup {NoTask}]
  BY QueuesStep
<1>2. tcb' \in [Tasks -> Tcb(Priority)]
  BY BlockSteps DEF Types
<1> PICK t \in Tasks : TaskStep(t)
  BY Steps
<1> USE DEF TaskStep
<1>3. call' = call \/ \E c \in {"aes", "key", "chacha", "net"} : call' = [call EXCEPT ![t] = c]
  BY DEF Work, Sample, TakeSlot, Raise, Submit, Unlock, Leave, Restore, UnlockAes, Call, Complete,
         Take, Wait, Retry, Expire, locals
<1>4. inherited' = inherited \/ \E b \in BOOLEAN : inherited' = [inherited EXCEPT ![t] = b]
  BY DEF Work, Sample, TakeSlot, Raise, Submit, Unlock, Leave, Restore, UnlockAes, Call, Complete,
         Take, Wait, Retry, Expire, locals, Inherited
<1>5. prior' \in [Tasks -> Priority]
  <2>1. CASE Sample(t)
    BY <2>1 DEF Sample, Types, Tcb
  <2>2. CASE Leave(t)
    <3>1. \/ prior' = prior
          \/ \E i \in Slots : prior' = [prior EXCEPT ![t] = slots[i].original]
      BY <2>2 DEF Leave, FoundSlots
    <3> QED
      BY <3>1 DEF Types
  <2>3. CASE ~Sample(t) /\ ~Leave(t)
    BY <2>3 DEF Work, TakeSlot, Raise, Submit, Unlock, Restore, UnlockAes, Call, Complete,
         Take, Wait, Retry, Expire, locals, Types
  <2> QED
    BY <2>1, <2>2, <2>3
<1>6. slots' \in [Slots -> [task : Tasks \cup {NoTask}, original : Priority, depth : Nat]]
  <2> DEFINE Record == [task : Tasks \cup {NoTask}, original : Priority, depth : Nat]
  <2>0. slots \in [Slots -> Record] /\ prior[t] \in Priority
    BY DEF Types
  <2>1. CASE TakeSlot(t)
    <3>1. CASE slots' = slots
      BY <2>0, <3>1
    <3>2. CASE slots' # slots
      <4>1. PICK i \in Slots :
              slots' = [slots EXCEPT ![i] =
                [task |-> t, original |-> IF @.depth = 0 THEN prior[t] ELSE @.original, depth |-> @.depth + 1]]
        BY <2>1, <3>2 DEF TakeSlot, FoundSlots
      <4>2. slots[i] \in Record
        BY <2>0
      <4>3. [task |-> t, original |-> IF slots[i].depth = 0 THEN prior[t] ELSE slots[i].original,
             depth |-> slots[i].depth + 1] \in Record
        BY <2>0, <4>2
      <4> QED
        BY <2>0, <4>1, <4>3
    <3> QED
      BY <3>1, <3>2
  <2>2. CASE Leave(t)
    <3>1. CASE slots' = slots
      BY <2>0, <3>1
    <3>2. CASE slots' # slots
      <4>1. PICK i \in Slots :
              /\ slots[i].depth > 0
              /\ \/ slots' = [slots EXCEPT ![i].task = NoTask, ![i].depth = 0]
                 \/ slots' = [slots EXCEPT ![i].depth = @ - 1]
        BY <2>2, <3>2 DEF Leave, FoundSlots
      <4>2. slots[i] \in Record
        BY <2>0
      <4>3. [slots[i] EXCEPT !.depth = @ - 1] \in Record
        BY <4>1, <4>2
      <4>4. [slots[i] EXCEPT !.task = NoTask, !.depth = 0] \in Record
        BY <4>2
      <4>5. \/ slots' = [slots EXCEPT ![i] = [slots[i] EXCEPT !.task = NoTask, !.depth = 0]]
            \/ slots' = [slots EXCEPT ![i] = [slots[i] EXCEPT !.depth = @ - 1]]
        BY <2>0, <4>1
      <4> QED
        BY <2>0, <4>3, <4>4, <4>5
    <3> QED
      BY <3>1, <3>2
  <2>3. CASE ~TakeSlot(t) /\ ~Leave(t)
    BY <2>3 DEF Work, Sample, Raise, Submit, Unlock, Restore, UnlockAes, Call, Complete,
         Take, Wait, Retry, Expire, Types
  <2> QED
    BY <2>1, <2>2, <2>3
<1> QED
  BY <1>1, <1>2, <1>3, <1>4, <1>5, <1>6 DEF Types

---------------------------------------------------------------------------
\* A task that does not step is where it was, or is woken at a mutex.
Woken(u) ==
  \/ pc'[u] = pc[u]
  \/ pc[u] = "waitAes" /\ pc'[u] = "takeAes"
  \/ pc[u] = "waitCrypto" /\ pc'[u] = "takeCrypto"

LEMMA Gives ==
  ASSUME Types, \A n \in Mutexes : QueueOf(n), NEW t \in Tasks
  PROVE  /\ Unlock(t) =>
              /\ pc'[t] = "leave" /\ \A u \in Tasks \ {t} : Woken(u)
              /\ owner' = [owner EXCEPT !["crypto"] = NoTask]
              /\ tcb' = [tcb EXCEPT ![t] = Disinherit(@)]
         /\ UnlockAes(t) =>
              /\ pc'[t] = "idle" /\ \A u \in Tasks \ {t} : Woken(u)
              /\ owner' = [owner EXCEPT !["aes"] = NoTask]
              /\ tcb' = [tcb EXCEPT ![t] = Disinherit(@)]
<1>1. "crypto" \in Mutexes /\ "aes" \in Mutexes
  BY Labels
<1>2. ASSUME Unlock(t) PROVE Give(t, "crypto", "leave") /\ pc[t] = "give"
  BY <1>2 DEF Unlock
<1>3. ASSUME UnlockAes(t) PROVE Give(t, "aes", "idle") /\ pc[t] = "giveAes"
  BY <1>3 DEF UnlockAes
<1>4. ASSUME Unlock(t) PROVE pc'[t] = "leave" /\ \A u \in Tasks \ {t} : Woken(u)
  BY <1>1, <1>2, <1>4, GiveEffect, Labels DEF Types, Woken
<1>5. ASSUME UnlockAes(t) PROVE pc'[t] = "idle" /\ \A u \in Tasks \ {t} : Woken(u)
  BY <1>1, <1>3, <1>5, GiveEffect, Labels DEF Types, Woken
<1> QED
  BY <1>2, <1>3, <1>4, <1>5 DEF Give

\* Where the task that steps goes, and what it does to the owners.
Moves(t) ==
  \/ /\ owner' = owner
     /\ \/ /\ pc[t] = "idle"
           /\ \/ call'[t] \in {"aes", "key"} /\ t \in AesTasks /\ pc'[t] = "takeAes"
              \/ call'[t] = "chacha" /\ pc'[t] = "sample"
              \/ call'[t] = "net" /\ pc'[t] = "net"
        \/ /\ call'[t] = call[t]
           /\ \/ pc[t] = "net" /\ pc'[t] = "idle"
              \/ pc[t] = "takeAes" /\ pc'[t] = "waitAes"
              \/ pc[t] = "waitAes" /\ pc'[t] = "expiredAes"
              \/ pc[t] = "expiredAes" /\ pc'[t] = "takeAes"
              \/ pc[t] = "sample" /\ pc'[t] = "slot"
              \/ pc[t] = "slot" /\ pc'[t] \in {"boost", "takeCrypto"}
              \/ pc[t] = "boost" /\ pc'[t] = "takeCrypto"
              \/ pc[t] = "takeCrypto" /\ pc'[t] = "waitCrypto"
              \/ pc[t] = "waitCrypto" /\ pc'[t] = "expiredCrypto"
              \/ pc[t] = "expiredCrypto" /\ pc'[t] = "takeCrypto"
              \/ pc[t] = "engine" /\ pc'[t] = "dma"
              \/ pc[t] = "dma" /\ pc'[t] = "give"
              \/ pc[t] = "leave" /\ pc'[t] \in {"restore", AfterLeave(t)}
              \/ pc[t] = "restore" /\ pc'[t] = AfterLeave(t)
  \/ /\ call'[t] = call[t]
     /\ \/ /\ pc[t] = "takeAes" /\ pc'[t] = (IF call[t] = "aes" THEN "sample" ELSE "giveAes")
           /\ owner["aes"] = NoTask /\ owner' = [owner EXCEPT !["aes"] = t]
        \/ /\ pc[t] = "takeCrypto" /\ pc'[t] = "engine"
           /\ owner["crypto"] = NoTask /\ owner' = [owner EXCEPT !["crypto"] = t]
        \/ pc[t] = "give" /\ pc'[t] = "leave" /\ owner' = [owner EXCEPT !["crypto"] = NoTask]
        \/ pc[t] = "giveAes" /\ pc'[t] = "idle" /\ owner' = [owner EXCEPT !["aes"] = NoTask]

LEMMA MovesStep ==
  ASSUME Types, \A n \in Mutexes : QueueOf(n), NEW t \in Tasks,
         TaskStep(t)
  PROVE  Moves(t) /\ \A u \in Tasks \ {t} : Woken(u) /\ call'[u] = call[u]
<1> USE DEF TaskStep
<1> USE DEF Moves, Woken, Types, Goto, locals, mutexes
<1>1. CASE Work(t)
  BY <1>1 DEF Work
<1>2. CASE Sample(t)
  BY <1>2 DEF Sample
<1>3. CASE TakeSlot(t)
  BY <1>3 DEF TakeSlot
<1>4. CASE Raise(t)
  BY <1>4 DEF Raise
<1>5. CASE Submit(t)
  BY <1>5 DEF Submit
<1>6. CASE Complete(t)
  BY <1>6 DEF Complete
<1>7. CASE Leave(t)
  BY <1>7 DEF Leave, AfterLeave
<1>8. CASE Restore(t)
  BY <1>8 DEF Restore, AfterLeave
<1>9. CASE Call(t)
  BY <1>9 DEF Call
<1>10. CASE Unlock(t)
  BY <1>10, Gives DEF Unlock
<1>11. CASE UnlockAes(t)
  BY <1>11, Gives DEF UnlockAes
<1>12. ASSUME NEW m \in Mutexes, Take(t, m) PROVE Moves(t) /\ \A u \in Tasks \ {t} : Woken(u) /\ call'[u] = call[u]
  <2>1. m = "aes" \/ m = "crypto"
    BY Labels
  <2>2. CASE m = "aes"
    BY <1>12, <2>2, Labels DEF Take
  <2>3. CASE m = "crypto"
    BY <1>12, <2>3, Labels DEF Take
  <2> QED
    BY <2>1, <2>2, <2>3
<1>13. ASSUME NEW m \in Mutexes, Wait(t, m) PROVE Moves(t) /\ \A u \in Tasks \ {t} : Woken(u) /\ call'[u] = call[u]
  <2>1. m = "aes" \/ m = "crypto"
    BY Labels
  <2>2. CASE m = "aes"
    BY <1>13, <2>2, Labels DEF Wait
  <2>3. CASE m = "crypto"
    BY <1>13, <2>3, Labels DEF Wait
  <2> QED
    BY <2>1, <2>2, <2>3
<1>14. ASSUME NEW m \in Mutexes, Retry(t, m) PROVE Moves(t) /\ \A u \in Tasks \ {t} : Woken(u) /\ call'[u] = call[u]
  <2>1. m = "aes" \/ m = "crypto"
    BY Labels
  <2>2. CASE m = "aes"
    BY <1>14, <2>2, Labels DEF Retry
  <2>3. CASE m = "crypto"
    BY <1>14, <2>3, Labels DEF Retry
  <2> QED
    BY <2>1, <2>2, <2>3
<1>15. ASSUME NEW m \in Mutexes, Expire(t, m) PROVE Moves(t) /\ \A u \in Tasks \ {t} : Woken(u) /\ call'[u] = call[u]
  <2>1. m = "aes" \/ m = "crypto"
    BY Labels
  <2>2. CASE m = "aes"
    BY <1>15, <2>2, Labels DEF Expire
  <2>3. CASE m = "crypto"
    BY <1>15, <2>3, Labels DEF Expire
  <2> QED
    BY <2>1, <2>2, <2>3
<1> QED
  BY <1>1, <1>2, <1>3, <1>4, <1>5, <1>6, <1>7, <1>8, <1>9, <1>10, <1>11, <1>12, <1>13, <1>14, <1>15

\* Calls, places and owners stay in step.
LEMMA PlacesStep ==
  ASSUME Types, CallAt, Owners, \A n \in Mutexes : QueueOf(n), NEW t \in Tasks,
         Moves(t), \A u \in Tasks \ {t} : Woken(u) /\ call'[u] = call[u]
  PROVE  CallAt' /\ Owners'
<1>1. ASSUME NEW u \in Tasks \ {t}
      PROVE  /\ pc'[u] \in {"takeAes", "waitAes", "expiredAes", "giveAes"} => call'[u] \in {"aes", "key"}
             /\ pc'[u] \in Inside => call'[u] \in {"aes", "chacha"}
             /\ call'[u] \in {"aes", "key"} => u \in AesTasks
             /\ HoldsAes(u)' <=> HoldsAes(u)
             /\ pc'[u] \in {"engine", "dma", "give"} <=> pc[u] \in {"engine", "dma", "give"}
  BY <1>1 DEF CallAt, Woken, Inside, HoldsAes
<1>2. /\ pc'[t] \in {"takeAes", "waitAes", "expiredAes", "giveAes"} => call'[t] \in {"aes", "key"}
      /\ pc'[t] \in Inside => call'[t] \in {"aes", "chacha"}
      /\ call'[t] \in {"aes", "key"} => t \in AesTasks
  BY DEF CallAt, Moves, Inside, AfterLeave
<1>3. CallAt'
  BY <1>1, <1>2 DEF CallAt
<1>4. /\ owner'["aes"] = t <=> HoldsAes(t)'
      /\ owner'["crypto"] = t <=> pc'[t] \in {"engine", "dma", "give"}
  BY TasksAssumption, Labels DEF Types, CallAt, Owners, Moves, HoldsAes, Inside, AfterLeave
<1>5. ASSUME NEW u \in Tasks \ {t}
      PROVE  /\ owner'["aes"] = u <=> owner["aes"] = u
             /\ owner'["crypto"] = u <=> owner["crypto"] = u
  BY TasksAssumption, Labels DEF Types, Owners, Moves, HoldsAes, Inside
<1> QED
  BY <1>1, <1>3, <1>4, <1>5 DEF Owners

---------------------------------------------------------------------------
\* The counts follow the owners.
LEMMA CountsStep ==
  ASSUME Types, Owners, Counts, \A n \in Mutexes : QueueOf(n), NEW t \in Tasks,
         TaskStep(t)
  PROVE  Counts'
<1> USE DEF TaskStep
<1> USE DEF Types
<1>0. /\ \A u \in Tasks : tcb[u] \in Tcb(Priority) /\ prior[u] \in Priority /\ tcb[u].prio \in Priority
      /\ Boost \in Priority /\ t # NoTask /\ Mutexes = {"aes", "crypto"}
      /\ \A u \in Tasks : tcb[u].held = One(owner["aes"] = u) + One(owner["crypto"] = u)
  <2>1. \A u \in Tasks : tcb[u] \in Tcb(Priority) /\ prior[u] \in Priority
    OBVIOUS
  <2>2. \A u \in Tasks : tcb[u].prio \in Priority
    BY <2>1 DEF Tcb
  <2>3. Boost \in Priority /\ t # NoTask /\ Mutexes = {"aes", "crypto"}
    BY BoostAssumption, TasksAssumption, Labels DEF Priority
  <2>4. \A u \in Tasks : tcb[u].held = One(owner["aes"] = u) + One(owner["crypto"] = u)
    BY DEF Counts
  <2> QED
    BY <2>1, <2>2, <2>3, <2>4
<1>1. ASSUME owner' = owner, \A u \in Tasks : tcb'[u].held = tcb[u].held PROVE Counts'
  BY <1>0, <1>1 DEF Counts
<1>2. CASE Work(t) \/ Sample(t) \/ TakeSlot(t) \/ Submit(t) \/ Leave(t) \/ Call(t) \/ Complete(t)
           \/ \E m \in Mutexes : Expire(t, m)
  <2>1. tcb' = tcb /\ owner' = owner
    BY <1>2 DEF Work, Sample, TakeSlot, Submit, Leave, Call, Complete, Expire, mutexes
  <2> QED
    BY <1>1, <2>1
<1>3. CASE Raise(t) \/ Restore(t)
  <2>1. /\ owner' = owner
        /\ tcb' = tcb \/ \E p \in Priority : tcb' = [tcb EXCEPT ![t] = PrioritySet(tcb[t], p)]
    BY <1>0, <1>3 DEF Raise, Restore, mutexes
  <2>2. \A u \in Tasks : tcb'[u].held = tcb[u].held
    <3>1. CASE tcb' = tcb
      BY <3>1
    <3>2. ASSUME NEW p \in Priority, tcb' = [tcb EXCEPT ![t] = PrioritySet(tcb[t], p)]
          PROVE  \A u \in Tasks : tcb'[u].held = tcb[u].held
      <4>1. PrioritySet(tcb[t], p).held = tcb[t].held
        BY <1>0, BlocksCount
      <4> QED
        BY <3>2, <4>1
    <3> QED
      BY <2>1, <3>1, <3>2
  <2> QED
    BY <1>1, <2>1, <2>2
<1>4. CASE \E m \in Mutexes : Wait(t, m)
  <2> PICK m \in Mutexes : Wait(t, m)
    BY <1>4
  <2>1. /\ owner' = owner /\ owner[m] \in Tasks
        /\ tcb' = [tcb EXCEPT ![owner[m]] = Inherit(tcb[owner[m]], tcb[t].prio)]
    BY DEF Wait
  <2>2. \A u \in Tasks : tcb'[u].held = tcb[u].held
    BY <1>0, <2>1, BlocksCount
  <2> QED
    BY <1>1, <2>1, <2>2
<1>5. CASE \E m \in Mutexes : Retry(t, m)
  <2> PICK m \in Mutexes : Retry(t, m)
    BY <1>5
  <2>1. /\ owner' = owner
        /\ \/ tcb' = tcb
           \/ /\ owner[m] \in Tasks
              /\ tcb' = [tcb EXCEPT ![owner[m]] = DisinheritAfterTimeout(tcb[owner[m]], NextRank(m))]
    BY DEF Retry, NextRank, mutexes
  <2>2. \A u \in Tasks : tcb'[u].held = tcb[u].held
    <3>1. owner[m] \in Tasks => DisinheritAfterTimeout(tcb[owner[m]], NextRank(m)).held = tcb[owner[m]].held
      BY <1>0, BlocksCount, NextRankType
    <3> QED
      BY <2>1, <3>1
  <2> QED
    BY <1>1, <2>1, <2>2
<1>6. CASE \E m \in Mutexes : Take(t, m)
  <2> PICK m \in Mutexes : Take(t, m)
    BY <1>6
  <2>1. /\ owner[m] = NoTask /\ owner' = [owner EXCEPT ![m] = t]
        /\ tcb' = [tcb EXCEPT ![t].held = tcb[t].held + 1]
    BY DEF Take
  <2>2. \A u \in Tasks : tcb'[u].held = IF u = t THEN tcb[u].held + 1 ELSE tcb[u].held
    BY <1>0, <2>1 DEF Tcb
  <2>3. m = "aes" \/ m = "crypto"
    BY <1>0
  <2>4. /\ owner'[m] = t
        /\ \A n \in Mutexes \ {m} : owner'[n] = owner[n]
    BY <2>1
  <2>5. ASSUME NEW u \in Tasks PROVE tcb'[u].held = One(owner'["aes"] = u) + One(owner'["crypto"] = u)
    <3>0. u # NoTask
      BY TasksAssumption
    <3>1. CASE m = "aes"
      BY <1>0, <2>1, <2>2, <2>4, <3>0, <3>1 DEF One
    <3>2. CASE m = "crypto"
      BY <1>0, <2>1, <2>2, <2>4, <3>0, <3>2 DEF One
    <3> QED
      BY <2>3, <3>1, <3>2
  <2> QED
    BY <2>5 DEF Counts
<1>7. CASE Unlock(t) \/ UnlockAes(t)
  <2>1. PICK m \in {"aes", "crypto"} :
          /\ owner[m] = t /\ owner' = [owner EXCEPT ![m] = NoTask]
          /\ tcb' = [tcb EXCEPT ![t] = Disinherit(tcb[t])]
    BY <1>7 DEF Unlock, UnlockAes, Give, Owners, HoldsAes
  <2>2. tcb[t].held >= 1
    BY <1>0, <2>1 DEF One
  <2>3. \A u \in Tasks : tcb'[u].held = IF u = t THEN tcb[u].held - 1 ELSE tcb[u].held
    BY <1>0, <2>1, <2>2, BlocksCount
  <2>4. /\ owner'[m] = NoTask
        /\ \A n \in Mutexes \ {m} : owner'[n] = owner[n]
    BY <1>0, <2>1
  <2>5. ASSUME NEW u \in Tasks PROVE tcb'[u].held = One(owner'["aes"] = u) + One(owner'["crypto"] = u)
    <3>0. u # NoTask
      BY TasksAssumption
    <3>1. CASE m = "aes"
      BY <1>0, <2>1, <2>3, <2>4, <3>0, <3>1 DEF One
    <3>2. CASE m = "crypto"
      BY <1>0, <2>1, <2>3, <2>4, <3>0, <3>2 DEF One
    <3> QED
      BY <2>1, <3>1, <3>2
  <2> QED
    BY <2>5 DEF Counts
<1> QED
  BY <1>2, <1>3, <1>4, <1>5, <1>6, <1>7

---------------------------------------------------------------------------
\* From the slot to the leave: where a task may have one.
InSlot(u) == pc[u] \in {"boost", "takeCrypto", "waitCrypto", "expiredCrypto", "engine", "dma", "give", "leave"}
SlotSound(i) ==
  IF slots[i].task = NoTask THEN slots[i].depth = 0
  ELSE slots[i].depth = 1 /\ InSlot(slots[i].task)
SlotsApart == \A i, j \in Slots : slots[i].task = slots[j].task /\ i # j => slots[i].task = NoTask

LEMMA SlotsMean ==
  ASSUME Types
  PROVE  SlotsOwned <=> SlotsApart /\ \A i \in Slots : SlotSound(i)
<1>1. ASSUME NEW i \in Slots, slots[i].task # NoTask
      PROVE  /\ pc[slots[i].task] = "boost" \/ InSection(slots[i].task)
             /\ pc[slots[i].task] # "restore"
             <=> InSlot(slots[i].task)
  BY <1>1 DEF Types, PCs, Blocked, InSection, InSlot
<1> QED
  BY <1>1 DEF SlotsOwned, SlotsApart, SlotSound

\* Slots are taken by tasks that have none and given back by the task that has
\* one.
LEMMA SlotsStep ==
  ASSUME Types, SlotsApart, \A i \in Slots : SlotSound(i), NEW t \in Tasks,
         Moves(t), \A u \in Tasks \ {t} : Woken(u),
         TaskStep(t)
  PROVE  SlotsApart' /\ \A i \in Slots : SlotSound(i)'
<1> USE DEF TaskStep
<1> DEFINE Record == [task : Tasks \cup {NoTask}, original : Priority, depth : Nat]
<1>0. slots \in [Slots -> Record] /\ t # NoTask
  BY TasksAssumption DEF Types
<1>1. \A u \in Tasks \ {t} : InSlot(u) => InSlot(u)'
  BY DEF Woken, InSlot
<1>2. CASE TakeSlot(t)
  <2>1. \A i \in Slots : slots[i].task # t
    BY <1>0, <1>2 DEF TakeSlot, SlotSound, InSlot
  <2>2. pc'[t] \in {"boost", "takeCrypto"}
    BY <1>2 DEF TakeSlot, Goto, Types
  <2>3. CASE slots' = slots
    BY <1>0, <1>1, <2>1, <2>3 DEF SlotsApart, SlotSound, Types
  <2>4. CASE slots' # slots
    <3>1. PICK i \in Slots :
            /\ slots[i].task = NoTask
            /\ slots' = [slots EXCEPT ![i] =
                 [task |-> t, original |-> IF @.depth = 0 THEN prior[t] ELSE @.original, depth |-> @.depth + 1]]
      BY <1>2, <2>1, <2>4 DEF TakeSlot, FoundSlots, IsSlot, IsFreeSlot
    <3>2. slots[i].depth = 0
      BY <3>1 DEF SlotSound
    <3>3. /\ slots'[i].task = t /\ slots'[i].depth = 1
          /\ \A j \in Slots \ {i} : slots'[j] = slots[j]
      BY <1>0, <3>1, <3>2
    <3>4. SlotSound(i)'
      BY <1>0, <2>2, <3>3 DEF SlotSound, InSlot
    <3>5. ASSUME NEW j \in Slots \ {i} PROVE SlotSound(j)'
      BY <1>0, <1>1, <2>1, <3>3 DEF SlotSound
    <3>6. SlotsApart'
      BY <1>0, <2>1, <3>3 DEF SlotsApart
    <3> QED
      BY <3>4, <3>5, <3>6
  <2> QED
    BY <2>3, <2>4
<1>3. CASE Leave(t)
  <2>1. CASE slots' = slots
    <3>1. \A i \in Slots : slots[i].task # t
      <4>1. SUFFICES ASSUME NEW i \in Slots, slots[i].task = t PROVE FALSE
        OBVIOUS
      <4>2. slots[i].depth = 1 /\ i \in FoundSlots(t, FALSE)
        BY <1>0, <4>1 DEF SlotSound, FoundSlots, IsSlot
      <4>3. \A j \in FoundSlots(t, FALSE) : j = i
        BY <1>0, <4>1 DEF SlotsApart, FoundSlots, IsSlot
      <4>4. slots' = [slots EXCEPT ![i].task = NoTask, ![i].depth = 0]
        <5> slots[i].depth # 0
          BY <4>2
        <5>0. ~\A j \in FoundSlots(t, FALSE) : slots[j].depth = 0
          BY <4>2, Zenon
        <5>1. PICK j \in FoundSlots(t, FALSE) :
                IF slots[j].depth = 1
                THEN slots' = [slots EXCEPT ![j].task = NoTask, ![j].depth = 0]
                ELSE slots' = [slots EXCEPT ![j].depth = @ - 1]
          BY <1>3, <5>0 DEF Leave
        <5>2. j = i
          BY <4>3
        <5> QED
          BY <4>2, <5>1, <5>2
      <4> QED
        BY <1>0, <2>1, <4>1, <4>4
    <3> QED
      BY <1>0, <1>1, <2>1, <3>1 DEF SlotsApart, SlotSound
  <2>2. CASE slots' # slots
    <3>1. PICK i \in FoundSlots(t, FALSE) :
            /\ slots[i].depth > 0
            /\ IF slots[i].depth = 1
               THEN slots' = [slots EXCEPT ![i].task = NoTask, ![i].depth = 0]
               ELSE slots' = [slots EXCEPT ![i].depth = @ - 1]
      BY <1>3, <2>2 DEF Leave
    <3>2. i \in Slots /\ slots[i].task = t
      BY <3>1 DEF FoundSlots, IsSlot
    <3>3. slots[i].depth = 1
      BY <1>0, <3>2 DEF SlotSound
    <3>4. /\ slots'[i].task = NoTask /\ slots'[i].depth = 0
          /\ \A j \in Slots \ {i} : slots'[j] = slots[j] /\ slots[j].task # t
      BY <1>0, <3>1, <3>2, <3>3 DEF SlotsApart
    <3>5. SlotSound(i)'
      BY <3>4 DEF SlotSound
    <3>6. ASSUME NEW j \in Slots \ {i} PROVE SlotSound(j)'
      BY <1>0, <1>1, <3>4 DEF SlotSound
    <3>7. SlotsApart'
      BY <1>0, <3>4 DEF SlotsApart
    <3> QED
      BY <3>5, <3>6, <3>7
  <2> QED
    BY <2>1, <2>2
<1>4. CASE ~TakeSlot(t) /\ ~Leave(t)
  <2>1. slots' = slots /\ pc[t] # "leave"
    BY <1>4, Labels DEF Work, Sample, Raise, Submit, Unlock, Restore, UnlockAes, Call, Complete, Take, Wait, Retry, Expire
  <2>2. InSlot(t) => InSlot(t)'
    BY <2>1 DEF Moves, InSlot
  <2> QED
    BY <1>0, <1>1, <2>1, <2>2 DEF SlotsApart, SlotSound
<1> QED
  BY <1>2, <1>3, <1>4

---------------------------------------------------------------------------
\* The count of mutexes, as the kernel keeps it and as a cardinality.
LEMMA CountsMean ==
  ASSUME Types
  PROVE  Counts <=> HeldCount
<1> DEFINE Held(u) == {m \in Mutexes : owner[m] = u}
<1> DEFINE Sum(u) == One(owner["aes"] = u) + One(owner["crypto"] = u)
<1> SUFFICES ASSUME NEW t \in Tasks PROVE Cardinality(Held(t)) = Sum(t)
  <2>1. (\A t \in Tasks : Cardinality(Held(t)) = Sum(t)) => (Counts <=> HeldCount)
    <3> HIDE DEF Held, Sum
    <3>1. (\A t \in Tasks : Cardinality(Held(t)) = Sum(t)) =>
            ((\A t \in Tasks : tcb[t].held = Sum(t)) <=> (\A t \in Tasks : tcb[t].held = Cardinality(Held(t))))
      OBVIOUS
    <3> QED
      BY <3>1, Zenon DEF Counts, HeldCount, Held, Sum
  <2> QED
    BY <2>1
<1> DEFINE H == Held(t)
<1>1. IsFiniteSet({}) /\ Cardinality({}) = 0
  BY FS_EmptySet
<1>2. IsFiniteSet({"aes"}) /\ Cardinality({"aes"}) = 1 /\ Cardinality({"crypto"}) = 1
  BY FS_Singleton
<1>3. Cardinality({"aes", "crypto"}) = 2
  <2>1. {"aes"} \cup {"crypto"} = {"aes", "crypto"} /\ "crypto" \notin {"aes"}
    OBVIOUS
  <2> QED
    BY <1>2, <2>1, FS_AddElement
<1>4. CASE owner["aes"] = t /\ owner["crypto"] = t
  <2>1. H = {"aes", "crypto"}
    BY <1>4, Labels
  <2> QED
    BY <1>3, <1>4, <2>1 DEF One
<1>5. CASE owner["aes"] = t /\ owner["crypto"] # t
  <2>1. H = {"aes"}
    BY <1>5, Labels
  <2> QED
    BY <1>2, <1>5, <2>1 DEF One
<1>6. CASE owner["aes"] # t /\ owner["crypto"] = t
  <2>1. H = {"crypto"}
    BY <1>6, Labels
  <2> QED
    BY <1>2, <1>6, <2>1 DEF One
<1>7. CASE owner["aes"] # t /\ owner["crypto"] # t
  <2>1. H = {}
    BY <1>7, Labels
  <2> QED
    BY <1>1, <1>7, <2>1 DEF One
<1> QED
  BY <1>4, <1>5, <1>6, <1>7

LEMMA InitIInv == Init => IInv
<1> SUFFICES ASSUME Init PROVE IInv
  OBVIOUS
<1> USE DEF Init
<1>1. Types
  <2>1. \A t \in Tasks : BasePriority[t] \in Priority
    BY BaseAssumption, BoostAssumption DEF Priority
  <2>2. 0 \in Priority
    BY BoostAssumption DEF Priority
  <2>3. tcb \in [Tasks -> Tcb(Priority)]
    BY <2>1 DEF NewTcb, Tcb
  <2>4. slots \in [Slots -> [task : Tasks \cup {NoTask}, original : Priority, depth : Nat]]
    BY <2>2 DEF FreeSlot
  <2> QED
    BY <2>2, <2>3, <2>4, EmptySeq DEF Types, PCs, Blocked
<1>2. CallAt
  BY DEF CallAt, Inside
<1>3. Owners /\ Counts
  BY TasksAssumption, Labels DEF Owners, Counts, HoldsAes, Inside, NewTcb, One
<1>4. \A m \in Mutexes : QueueOf(m)
  <2>1. Len(<<>>) = 0
    BY EmptySeq
  <2>2. \A m \in Mutexes : \A t \in Tasks : pc[t] # Waiting[m]
    BY Labels
  <2>3. \A t \in Tasks : ~Queued(<<>>, t)
    BY <2>1 DEF Queued
  <2>4. Once(<<>>)
    BY <2>1 DEF Once
  <2> QED
    BY <2>2, <2>3, <2>4 DEF QueueOf
<1>5. SlotsApart /\ \A i \in Slots : SlotSound(i)
  BY DEF SlotsApart, SlotSound, FreeSlot
<1> QED
  BY <1>1, <1>2, <1>3, <1>4, <1>5, QueueMeans, SlotsMean DEF IInv, Types

\* The parts of the invariant in the form the lemmas about steps take.
LEMMA Parts ==
  ASSUME IInv
  PROVE  /\ Types /\ CallAt /\ Owners /\ Counts /\ SlotsApart
         /\ \A m \in Mutexes : QueueOf(m)
         /\ \A i \in Slots : SlotSound(i)
BY QueueMeans, SlotsMean DEF IInv, Types

LEMMA IInvStep == IInv /\ [Next]_vars => IInv'
<1>1. ASSUME IInv, Next PROVE IInv'
  <2>1. /\ Types /\ CallAt /\ Owners /\ Counts /\ SlotsApart
        /\ \A m \in Mutexes : QueueOf(m)
        /\ \A i \in Slots : SlotSound(i)
    BY <1>1, Parts
  <2> PICK t \in Tasks : TaskStep(t)
    BY <1>1, Steps
  <2>2. Moves(t) /\ \A u \in Tasks \ {t} : Woken(u) /\ call'[u] = call[u]
    BY <2>1, MovesStep
  <2>3. Types' /\ \A m \in Mutexes : QueueOf(m)'
    BY <1>1, <2>1, TypesStep, QueuesStep
  <2>4. CallAt' /\ Owners'
    BY <2>1, <2>2, PlacesStep
  <2>5. Counts'
    BY <2>1, CountsStep
  <2>6. SlotsApart' /\ \A i \in Slots : SlotSound(i)'
    BY <2>1, <2>2, SlotsStep
  <2>7. NoLostWakeup'
    <3>1. \A m \in Mutexes : queue'[m] \in Seq(Tasks)
      BY <2>3 DEF Types
    <3>2. ASSUME NEW m \in Mutexes
          PROVE  /\ IsInjective(queue'[m]) <=> Once(queue'[m])
                 /\ \A t_1 \in Tasks : t_1 \in ToSet(queue'[m]) <=> Queued(queue'[m], t_1)
      BY <3>1, QueueMeaning
    <3> QED
      BY <2>3, <3>2 DEF NoLostWakeup, QueueOf
  <2>8. SlotsOwned'
    <3>1. ASSUME NEW i \in Slots, slots'[i].task # NoTask
          PROVE  /\ pc'[slots'[i].task] = "boost" \/ InSection(slots[i].task)'
                 /\ pc'[slots'[i].task] # "restore"
                 <=> InSlot(slots[i].task)'
      BY <2>3, <3>1 DEF Types, PCs, Blocked, InSection, InSlot
    <3> QED
      BY <2>6, <3>1 DEF SlotsOwned, SlotsApart, SlotSound
  <2> QED
    BY <2>3, <2>4, <2>5, <2>7, <2>8 DEF IInv
<1>2. ASSUME IInv, UNCHANGED vars PROVE IInv'
  BY <1>2 DEF vars, locals, mutexes, IInv, Types, CallAt, Owners, Counts, HoldsAes, NoLostWakeup, SlotsOwned, InSection
<1> QED
  BY <1>1, <1>2

\* The inductive invariant holds in every reachable state, whatever the tasks,
\* their priorities and the number of slots.
THEOREM LockInvariant == Spec => []IInv
BY InitIInv, IInvStep, PTL DEF Spec

\* TypeOK: every variable of the lock keeps its type, and uxMutexesHeld counts
\* the mutexes of each task through timeouts, wake-ups and takes by a third task.
THEOREM TypeCorrect == Spec => []TypeOK
<1>1. IInv => TypeOK
  BY CountsMean DEF IInv, Types, TypeOK
<1> QED
  BY <1>1, LockInvariant, PTL

\* SlotsOwned: a boost slot belongs to one task that is in a crypto section, and
\* no slot leaks when the table is full.
THEOREM SlotsSafe == Spec => []SlotsOwned
<1>1. IInv => SlotsOwned
  BY DEF IInv
<1> QED
  BY <1>1, LockInvariant, PTL

\* NoLostWakeup: a task that waits for a mutex is queued there once, and somebody
\* is about to take a mutex that is free while tasks queue for it.
THEOREM WakeupsKept == Spec => []NoLostWakeup
<1>1. IInv => NoLostWakeup
  BY DEF IInv
<1> QED
  BY <1>1, LockInvariant, PTL

---------------------------------------------------------------------------
\* The priority in use is never below the base, and orders the task in a queue.
Fit(b) == b.prio >= b.base /\ b.rank = b.prio

\* What the kernel routines do to a control block that is Fit.
LEMMA Routines ==
  ASSUME NEW b \in Tcb(Priority), NEW p \in Priority, Fit(b)
  PROVE  /\ Inherit(b, p).base = b.base /\ Fit(Inherit(b, p))
         /\ p <= b.prio => Inherit(b, p) = b
         /\ DisinheritAfterTimeout(b, p).base = b.base /\ Fit(DisinheritAfterTimeout(b, p))
         /\ p <= b.base /\ b.prio = b.base => DisinheritAfterTimeout(b, p) = b
         /\ b.held >= 1 => /\ Disinherit(b).base = b.base /\ Fit(Disinherit(b))
                           /\ Disinherit(b).held = 0 => Disinherit(b).prio = b.base
         /\ b.prio = b.base /\ b.base # p =>
              /\ PrioritySet(b, p).base = p /\ PrioritySet(b, p).prio = p /\ Fit(PrioritySet(b, p))
<1>0. /\ b.prio \in Nat /\ b.base \in Nat /\ b.rank \in Nat /\ b.held \in Nat /\ p \in Nat
      /\ b \in [prio : Priority, base : Priority, held : Nat, rank : Priority]
  BY BoostAssumption DEF Tcb, Priority
<1>1. /\ Inherit(b, p).base = b.base /\ Fit(Inherit(b, p))
      /\ p <= b.prio => Inherit(b, p) = b
  BY <1>0 DEF Inherit, Fit
<1>2. /\ DisinheritAfterTimeout(b, p).base = b.base /\ Fit(DisinheritAfterTimeout(b, p))
      /\ p <= b.base /\ b.prio = b.base => DisinheritAfterTimeout(b, p) = b
  BY <1>0 DEF DisinheritAfterTimeout, Fit
<1>3. ASSUME b.held >= 1
      PROVE  /\ Disinherit(b).base = b.base /\ Fit(Disinherit(b))
             /\ Disinherit(b).held = 0 => Disinherit(b).prio = b.base
  <2>1. CASE b.prio # b.base /\ b.held = 1
    BY <1>0, <2>1 DEF Disinherit, Fit
  <2>2. CASE ~(b.prio # b.base /\ b.held = 1)
    BY <1>0, <1>3, <2>2 DEF Disinherit, Fit
  <2> QED
    BY <2>1, <2>2
<1>4. ASSUME b.prio = b.base, b.base # p
      PROVE  PrioritySet(b, p).base = p /\ PrioritySet(b, p).prio = p /\ Fit(PrioritySet(b, p))
  BY <1>0, <1>4 DEF PrioritySet, Fit
<1> QED
  BY <1>1, <1>2, <1>3, <1>4

\* A task that holds nothing is at its base; what a waiter for the private
\* mutex lends is no more than its holder has.
LEMMA WaiterLevel ==
  ASSUME Peers, LInv, NEW t \in Tasks, pc[t] \in {"takeAes", "waitAes", "expiredAes"}
  PROVE  /\ t \in AesTasks
         /\ tcb[t].prio = BasePriority[t] /\ tcb[t].rank = BasePriority[t]
         /\ \A u \in Tasks : owner["aes"] = u => u \in AesTasks /\ BasePriority[u] = BasePriority[t]
<1>1. t \in AesTasks /\ owner["aes"] # t /\ owner["crypto"] # t
  BY DEF LInv, IInv, CallAt, Owners, HoldsAes, Inside
<1>2. tcb[t].held = 0
  BY <1>1 DEF LInv, IInv, Counts, One
<1>3. LevelOf(t) /\ ~Raised(t)
  BY DEF LInv, Levels, Raised
<1>4. ASSUME NEW u \in Tasks, owner["aes"] = u PROVE u \in AesTasks
  BY <1>4 DEF LInv, IInv, CallAt, Owners, HoldsAes
<1> QED
  BY <1>1, <1>2, <1>3, <1>4 DEF LevelOf, Peers

\* What the levels say of one task, in terms of the control block.
LEMMA LevelMeans ==
  ASSUME Types, NEW t \in Tasks, LevelOf(t)
  PROVE  Fit(tcb[t]) /\ tcb[t] \in Tcb(Priority)
BY DEF LevelOf, Fit, Types

\* The task that steps leaves the levels of the others right.
LEMMA OtherLevels ==
  ASSUME Peers, LInv, NEW t \in Tasks, TaskStep(t), NEW u \in Tasks \ {t}
  PROVE  LevelOf(u)'
<1> USE DEF TaskStep
<1>0. /\ Types /\ CallAt /\ Owners /\ Counts /\ LevelOf(u)
      /\ \A m \in Mutexes : QueueOf(m)
      /\ Fit(tcb[u]) /\ tcb[u] \in Tcb(Priority) /\ tcb[t] \in Tcb(Priority)
  BY Parts, LevelMeans DEF LInv, Levels, Types
<1>1. Woken(u)
  BY <1>0, MovesStep
<1>2. prior'[u] = prior[u]
  BY <1>0 DEF Types, Work, Sample, TakeSlot, Raise, Submit, Unlock, Leave, Restore, UnlockAes, Call, Complete,
         Take, Wait, Retry, Expire, locals
<1>3. HasSlot(u)' <=> HasSlot(u)
  <2>1. CASE TakeSlot(t)
    <3>1. \/ slots' = slots
          \/ \E i \in Slots : /\ slots[i].task \in {t, NoTask}
                              /\ slots' = [slots EXCEPT ![i] =
                                   [task |-> t, original |-> IF @.depth = 0 THEN prior[t] ELSE @.original,
                                    depth |-> @.depth + 1]]
      BY <2>1 DEF TakeSlot, FoundSlots, IsSlot, IsFreeSlot
    <3>2. ASSUME NEW i \in Slots PROVE slots'[i].task = u <=> slots[i].task = u
      <4>1. CASE slots' = slots
        BY <4>1
      <4>2. CASE slots' # slots
        <5>1. PICK j \in Slots : 
                /\ slots[j].task \in {t, NoTask}
                /\ slots' = [slots EXCEPT ![j] =
                     [task |-> t, original |-> IF @.depth = 0 THEN prior[t] ELSE @.original,
                      depth |-> @.depth + 1]]
          BY <3>1, <4>2
        <5>2. u # t /\ u # NoTask /\ slots \in [Slots -> [task : Tasks \cup {NoTask}, original : Priority, depth : Nat]]
          BY <1>0, TasksAssumption DEF Types
        <5>3. CASE i = j
          BY <5>1, <5>2, <5>3
        <5>4. CASE i # j
          BY <5>1, <5>2, <5>4
        <5> QED
          BY <5>3, <5>4
      <4> QED
        BY <4>1, <4>2
    <3> QED
      BY <3>2 DEF HasSlot
  <2>2. CASE Leave(t)
    <3>1. \/ slots' = slots
          \/ \E i \in Slots : /\ slots[i].task = t
                              /\ \/ slots' = [slots EXCEPT ![i].task = NoTask, ![i].depth = 0]
                                 \/ slots' = [slots EXCEPT ![i].depth = @ - 1]
      BY <2>2 DEF Leave, FoundSlots, IsSlot
    <3>2. ASSUME NEW i \in Slots PROVE slots'[i].task = u <=> slots[i].task = u
      <4>1. CASE slots' = slots
        BY <4>1
      <4>2. CASE slots' # slots
        <5>1. PICK j \in Slots : 
                /\ slots[j].task = t
                /\ \/ slots' = [slots EXCEPT ![j].task = NoTask, ![j].depth = 0]
                   \/ slots' = [slots EXCEPT ![j].depth = @ - 1]
          BY <3>1, <4>2
        <5>2. u # t /\ u # NoTask /\ slots \in [Slots -> [task : Tasks \cup {NoTask}, original : Priority, depth : Nat]]
          BY <1>0, TasksAssumption DEF Types
        <5>3. CASE i = j
          BY <5>1, <5>2, <5>3
        <5>4. CASE i # j
          BY <5>1, <5>2, <5>4
        <5> QED
          BY <5>3, <5>4
      <4> QED
        BY <4>1, <4>2
    <3> QED
      BY <3>2 DEF HasSlot
  <2>3. CASE ~TakeSlot(t) /\ ~Leave(t)
    BY <2>3 DEF HasSlot, Work, Sample, Raise, Submit, Unlock, Restore, UnlockAes, Call, Complete, Take, Wait, Retry, Expire
  <2> QED
    BY <2>1, <2>2, <2>3
<1>4. /\ Raised(u)' <=> Raised(u)
      /\ pc'[u] \in {"sample", "slot", "boost"} <=> pc[u] \in {"sample", "slot", "boost"}
      /\ pc'[u] \in {"slot", "boost", "restore"} <=> pc[u] \in {"slot", "boost", "restore"}
      /\ pc'[u] = "boost" <=> pc[u] = "boost"
  BY <1>1, <1>3 DEF Woken, Raised
<1>5. ASSUME tcb'[u].base = tcb[u].base, Fit(tcb'[u]), tcb'[u].held = tcb[u].held,
             tcb[u].held = 0 \/ pc[u] \in {"sample", "slot", "boost"} => tcb'[u] = tcb[u]
      PROVE  LevelOf(u)'
  BY <1>0, <1>2, <1>3, <1>4, <1>5 DEF LevelOf, Fit
<1>6. ASSUME tcb'[u] = tcb[u] PROVE LevelOf(u)'
  BY <1>0, <1>5, <1>6
<1>7. CASE Work(t) \/ Sample(t) \/ TakeSlot(t) \/ Raise(t) \/ Submit(t) \/ Unlock(t) \/ Leave(t) \/ Restore(t)
           \/ UnlockAes(t) \/ Call(t) \/ Complete(t) \/ \E m \in Mutexes : Take(t, m) \/ Expire(t, m)
  <2>1. tcb' = tcb \/ \E b : tcb' = [tcb EXCEPT ![t] = b]
    BY <1>7 DEF Work, Sample, TakeSlot, Raise, Submit, Unlock, Leave, Restore, UnlockAes, Call, Complete,
         Take, Expire, Give
  <2> QED
    BY <1>0, <1>6, <2>1 DEF Types
<1>8. ASSUME NEW m \in Mutexes, owner[m] = u
      PROVE  /\ tcb[u].held # 0
             /\ pc[u] \in {"sample", "slot", "boost"} => m = "aes" /\ tcb[u].prio = tcb[u].base /\ tcb[u].base = BasePriority[u]
  <2>1. m = "aes" \/ m = "crypto"
    BY Labels
  <2>2. tcb[u].held # 0
    BY <1>0, <1>8, <2>1 DEF Counts, One
  <2>3. ASSUME pc[u] \in {"sample", "slot", "boost"}
        PROVE  m = "aes" /\ tcb[u].prio = tcb[u].base /\ tcb[u].base = BasePriority[u]
    BY <1>0, <1>8, <2>1, <2>3 DEF Owners, LevelOf, Raised
  <2> QED
    BY <2>2, <2>3
<1>9. ASSUME NEW m \in Mutexes, Wait(t, m) PROVE LevelOf(u)'
  <2>1. tcb' = [tcb EXCEPT ![owner[m]] = Inherit(tcb[owner[m]], tcb[t].prio)] /\ pc[t] = Taking[m]
    BY <1>9 DEF Wait
  <2>2. CASE owner[m] # u
    BY <1>0, <1>6, <2>1, <2>2 DEF Types
  <2>3. CASE owner[m] = u
    <3>1. tcb'[u] = Inherit(tcb[u], tcb[t].prio) /\ tcb[t].prio \in Priority
      BY <1>0, <2>1, <2>3 DEF Types, Tcb
    <3>2. ASSUME pc[u] \in {"sample", "slot", "boost"} PROVE tcb'[u] = tcb[u]
      <4>1. m = "aes" /\ tcb[u].prio = BasePriority[u]
        BY <1>8, <2>3, <3>2
      <4>2. tcb[t].prio = BasePriority[u]
        BY <2>1, <2>3, <4>1, WaiterLevel, Labels
      <4> QED
        BY <1>0, <3>1, <4>1, <4>2, Routines, BoostAssumption DEF Priority
    <3> QED
      BY <1>0, <1>5, <1>8, <2>3, <3>1, <3>2, Routines, BlocksCount
  <2> QED
    BY <2>2, <2>3
<1>10. ASSUME NEW m \in Mutexes, Retry(t, m) PROVE LevelOf(u)'
  <2>1. \/ tcb' = tcb
        \/ tcb' = [tcb EXCEPT ![owner[m]] = DisinheritAfterTimeout(tcb[owner[m]], NextRank(m))]
    BY <1>10 DEF Retry, NextRank
  <2>2. CASE owner[m] # u \/ tcb' = tcb
    BY <1>0, <1>6, <2>1, <2>2 DEF Types
  <2>3. CASE owner[m] = u /\ tcb' # tcb
    <3>1. tcb'[u] = DisinheritAfterTimeout(tcb[u], NextRank(m)) /\ NextRank(m) \in Priority
      BY <1>0, <2>1, <2>3, NextRankType DEF Types
    <3>2. ASSUME pc[u] \in {"sample", "slot", "boost"} PROVE tcb'[u] = tcb[u]
      <4>1. m = "aes" /\ tcb[u].prio = tcb[u].base /\ tcb[u].base = BasePriority[u]
        BY <1>8, <2>3, <3>2
      <4>2. NextRank("aes") <= BasePriority[u]
        <5>1. BasePriority[u] \in Nat
          BY BaseAssumption, BoostAssumption
        <5>2. CASE queue["aes"] = <<>>
          BY <5>1, <5>2 DEF NextRank
        <5>3. CASE queue["aes"] # <<>>
          <6>1. Head(queue["aes"]) \in Tasks /\ Queued(queue["aes"], Head(queue["aes"]))
            BY <1>0, <5>3, Beheaded, Labels DEF Types, QueueOf
          <6>2. pc[Head(queue["aes"])] = "waitAes"
            BY <1>0, <6>1, Labels DEF QueueOf
          <6>3. tcb[Head(queue["aes"])].rank = BasePriority[u]
            BY <2>3, <4>1, <6>1, <6>2, WaiterLevel
          <6> QED
            BY <5>1, <5>3, <6>3 DEF NextRank
        <5> QED
          BY <5>2, <5>3
      <4> QED
        BY <1>0, <3>1, <4>1, <4>2, Routines
    <3> QED
      BY <1>0, <1>5, <1>8, <2>3, <3>1, <3>2, Routines, BlocksCount
  <2> QED
    BY <2>2, <2>3
<1> QED
  BY <1>7, <1>9, <1>10

\* The task that steps has the levels of the place it goes to.
LEMMA OwnLevel ==
  ASSUME Peers, LInv, NEW t \in Tasks, TaskStep(t)
  PROVE  LevelOf(t)'
<1> USE DEF TaskStep
<1>0. /\ Types /\ CallAt /\ Owners /\ Counts /\ LevelOf(t) /\ Counts'
      /\ \A i \in Slots : SlotSound(i)
      /\ \A m \in Mutexes : QueueOf(m)
      /\ Fit(tcb[t]) /\ tcb[t] \in Tcb(Priority)
      /\ tcb[t].held = One(owner["aes"] = t) + One(owner["crypto"] = t)
      /\ BasePriority[t] \in Priority /\ Boost \in Priority /\ BasePriority[t] < Boost
      /\ t # NoTask
  <2>1. /\ Types /\ CallAt /\ Owners /\ Counts /\ LevelOf(t)
        /\ \A i \in Slots : SlotSound(i)
        /\ \A m \in Mutexes : QueueOf(m)
    BY Parts DEF LInv, Levels
  <2>2. Counts'
    BY <2>1, CountsStep
  <2>3. Fit(tcb[t]) /\ tcb[t] \in Tcb(Priority)
    BY <2>1 DEF LevelOf, Fit, Types
  <2>4. tcb[t].held = One(owner["aes"] = t) + One(owner["crypto"] = t)
    BY <2>1 DEF Counts
  <2>5. BasePriority[t] \in Priority /\ Boost \in Priority /\ BasePriority[t] < Boost
    BY BaseAssumption, BoostAssumption DEF Priority
  <2>6. t # NoTask
    BY TasksAssumption
  <2> QED
    BY <2>1, <2>2, <2>3, <2>4, <2>5, <2>6
<1>1. /\ tcb[t].base = IF Raised(t) THEN Boost ELSE BasePriority[t]
      /\ tcb[t].held = 0 \/ pc[t] \in {"sample", "slot", "boost"} => tcb[t].prio = tcb[t].base
      /\ pc[t] \in {"slot", "boost", "restore"} => prior[t] = BasePriority[t]
      /\ pc[t] = "boost" => HasSlot(t)
  BY <1>0 DEF LevelOf
\* Steps that leave the control block and the slots alone.
<1>2. ASSUME tcb' = tcb, slots' = slots, Raised(t)' <=> Raised(t),
             pc'[t] \in {"sample", "slot", "boost"} => tcb[t].prio = tcb[t].base,
             pc'[t] \in {"slot", "boost", "restore"} => prior'[t] = BasePriority[t],
             pc'[t] # "boost"
      PROVE  LevelOf(t)'
  BY <1>0, <1>1, <1>2 DEF LevelOf, Fit
<1>3. CASE Call(t)
  <2>1. tcb' = tcb /\ slots' = slots /\ pc[t] = "idle" /\ pc'[t] \in {"takeAes", "sample", "net"}
    BY <1>0, <1>3 DEF Call, Goto, Types
  <2>2. tcb[t].held = 0
    BY <1>0, <2>1 DEF Owners, HoldsAes, Inside, One
  <2> QED
    BY <1>1, <1>2, <2>1, <2>2 DEF Raised
<1>4. CASE Work(t) \/ Submit(t) \/ Complete(t)
  <2>1. /\ tcb' = tcb /\ slots' = slots
        /\ \/ pc[t] = "net" /\ pc'[t] = "idle"
           \/ pc[t] = "engine" /\ pc'[t] = "dma"
           \/ pc[t] = "dma" /\ pc'[t] = "give"
    BY <1>0, <1>4 DEF Work, Submit, Complete, Goto, Types
  <2> QED
    BY <1>2, <2>1 DEF Raised, HasSlot
<1>5. CASE Sample(t)
  <2>1. /\ tcb' = tcb /\ slots' = slots /\ pc[t] = "sample" /\ pc'[t] = "slot" /\ prior'[t] = tcb[t].prio
    BY <1>0, <1>5 DEF Sample, Goto, Types
  <2>2. tcb[t].prio = BasePriority[t]
    BY <1>1, <2>1 DEF Raised
  <2> QED
    BY <1>1, <1>2, <2>1, <2>2 DEF Raised
<1>6. CASE TakeSlot(t)
  <2>1. /\ tcb' = tcb /\ prior' = prior /\ pc[t] = "slot" /\ prior[t] = BasePriority[t]
        /\ tcb[t].prio = tcb[t].base /\ tcb[t].base = BasePriority[t]
    BY <1>1, <1>6 DEF TakeSlot, locals, Raised
  <2>2. CASE slots' # slots
    <3>1. PICK i \in Slots :
            slots' = [slots EXCEPT ![i] =
              [task |-> t, original |-> IF @.depth = 0 THEN prior[t] ELSE @.original, depth |-> @.depth + 1]]
      BY <1>6, <2>2 DEF TakeSlot, FoundSlots
    <3>2. pc'[t] = "boost"
      BY <1>0, <1>6, <2>1, <2>2 DEF TakeSlot, Goto, Types
    <3>3. HasSlot(t)'
      BY <1>0, <3>1 DEF HasSlot, Types
    <3> QED
      BY <1>0, <2>1, <3>2, <3>3 DEF LevelOf, Fit, Raised
  <2>3. CASE slots' = slots
    <3>1. \A i \in Slots : slots[i].task # t
      BY <1>0, <2>1 DEF SlotSound, InSlot
    <3>2. FoundSlots(t, TRUE) = {}
      <4>1. SUFFICES ASSUME NEW i \in FoundSlots(t, TRUE),
                            slots' = [slots EXCEPT ![i] = [task |-> t,
                              original |-> IF @.depth = 0 THEN prior[t] ELSE @.original, depth |-> @.depth + 1]]
                     PROVE  FALSE
        BY <1>6 DEF TakeSlot
      <4>2. i \in Slots
        BY DEF FoundSlots
      <4> QED
        BY <1>0, <2>3, <3>1, <4>1, <4>2 DEF Types
    <3>3. pc'[t] = "takeCrypto"
      BY <1>0, <1>6, <3>2 DEF TakeSlot, Goto, Types
    <3>4. ~HasSlot(t) /\ ~HasSlot(t)'
      BY <2>3, <3>1 DEF HasSlot
    <3> QED
      BY <1>2, <2>1, <2>3, <3>3, <3>4 DEF Raised
  <2> QED
    BY <2>2, <2>3
<1>7. CASE Raise(t)
  <2>1. /\ tcb'[t] = PrioritySet(tcb[t], Boost) /\ slots' = slots /\ prior' = prior
        /\ pc[t] = "boost" /\ pc'[t] = "takeCrypto"
    BY <1>0, <1>7 DEF Raise, Goto, Types, locals
  <2>2. HasSlot(t)' /\ tcb[t].prio = tcb[t].base /\ tcb[t].base = BasePriority[t] /\ tcb[t].base # Boost
    BY <1>0, <1>1, <2>1 DEF Raised, HasSlot, Priority
  <2>3. tcb'[t].base = Boost /\ tcb'[t].prio = Boost /\ Fit(tcb'[t])
    BY <1>0, <2>1, <2>2, Routines
  <2> QED
    BY <2>1, <2>2, <2>3 DEF LevelOf, Fit, Raised
<1>8. CASE Unlock(t) \/ UnlockAes(t)
  <2>1. /\ tcb'[t] = Disinherit(tcb[t]) /\ slots' = slots
        /\ \/ pc[t] = "give" /\ pc'[t] = "leave"
           \/ pc[t] = "giveAes" /\ pc'[t] = "idle"
    BY <1>0, <1>8, Gives DEF Unlock, UnlockAes, Types
  <2>2. tcb[t].held >= 1
    BY <1>0, <2>1 DEF Owners, HoldsAes, One
  <2>3. Raised(t)' <=> Raised(t)
    BY <2>1 DEF Raised, HasSlot
  <2>4. /\ tcb'[t].base = tcb[t].base /\ Fit(tcb'[t])
        /\ tcb'[t].held = 0 => tcb'[t].prio = tcb'[t].base
    BY <1>0, <2>1, <2>2, Routines
  <2> QED
    BY <1>1, <2>1, <2>3, <2>4 DEF LevelOf, Fit
<1>9. CASE Leave(t)
  <2>1. tcb' = tcb /\ pc[t] = "leave"
    BY <1>9 DEF Leave
  <2>2. CASE HasSlot(t)
    <3>1. PICK i \in Slots : slots[i].task = t
      BY <2>2 DEF HasSlot
    <3>2. slots[i].depth = 1 /\ slots[i].original = BasePriority[t] /\ \A j \in FoundSlots(t, FALSE) : j = i
      BY <1>0, <3>1, Parts DEF LInv, Levels, SlotSound, SlotsApart, FoundSlots, IsSlot
    <3>3. slots[i].depth # 0 /\ i \in FoundSlots(t, FALSE)
      BY <3>1, <3>2 DEF FoundSlots, IsSlot
    <3>4. ~\A j \in FoundSlots(t, FALSE) : slots[j].depth = 0
      BY <3>3, Zenon
    <3>5. PICK j \in FoundSlots(t, FALSE) :
            slots[j].depth = 1 => prior' = [prior EXCEPT ![t] = slots[j].original] /\ Goto(t, "restore")
      BY <1>9, <3>4 DEF Leave
    <3>6. prior'[t] = BasePriority[t] /\ pc'[t] = "restore"
      BY <1>0, <3>2, <3>5 DEF Goto, Types
    <3>7. Raised(t) /\ Raised(t)'
      BY <2>1, <2>2, <3>6 DEF Raised
    <3> QED
      BY <1>0, <1>1, <2>1, <3>6, <3>7 DEF LevelOf, Fit
  <2>3. CASE ~HasSlot(t)
    <3>1. FoundSlots(t, FALSE) = {}
      BY <2>3 DEF HasSlot, FoundSlots, IsSlot
    <3>2. slots' = slots /\ pc'[t] \in {"giveAes", "idle"}
      BY <1>0, <1>9, <3>1 DEF Leave, Goto, AfterLeave, Types
    <3> QED
      BY <1>2, <2>1, <2>3, <3>2 DEF Raised
  <2> QED
    BY <2>2, <2>3
<1>10. CASE Restore(t)
  <2>1. /\ slots' = slots /\ pc[t] = "restore" /\ pc'[t] \in {"giveAes", "idle"}
        /\ prior[t] = BasePriority[t] /\ tcb[t].base = Boost
    BY <1>0, <1>1, <1>10 DEF Restore, Goto, AfterLeave, Types, Raised
  <2>2. tcb[t].prio = Boost
    BY <1>0, <2>1, BoostAssumption DEF Fit, Tcb, Priority
  <2>3. tcb'[t] = PrioritySet(tcb[t], BasePriority[t])
    BY <1>0, <1>10, <2>1, <2>2 DEF Restore, Types, Priority
  <2>4. tcb'[t].base = BasePriority[t] /\ tcb'[t].prio = BasePriority[t] /\ Fit(tcb'[t])
    BY <1>0, <2>1, <2>2, <2>3, Routines DEF Priority
  <2>5. ~Raised(t)'
    BY <2>1 DEF Raised
  <2> QED
    BY <2>1, <2>4, <2>5 DEF LevelOf, Fit
<1>11. ASSUME NEW m \in Mutexes, Take(t, m) PROVE LevelOf(t)'
  <2>1. /\ tcb'[t] = [tcb[t] EXCEPT !.held = @ + 1] /\ slots' = slots
        /\ pc'[t] = IF m = "crypto" THEN "engine" ELSE IF call[t] = "aes" THEN "sample" ELSE "giveAes"
        /\ pc[t] = Taking[m] /\ m \in {"aes", "crypto"}
    BY <1>0, <1>11, Labels DEF Take, Goto, Types
  <2>2. tcb'[t].base = tcb[t].base /\ Fit(tcb'[t]) /\ tcb'[t].prio = tcb[t].prio /\ tcb'[t].held = tcb[t].held + 1
    BY <1>0, <2>1 DEF Fit, Tcb
  <2>3. Raised(t)' <=> Raised(t)
    BY <2>1, Labels DEF Raised, HasSlot
  <2>4. m = "aes" => tcb[t].prio = tcb[t].base
    <3>1. m = "aes" => tcb[t].held = 0
      BY <1>0, <2>1, Labels DEF Owners, HoldsAes, Inside, One
    <3> QED
      BY <1>1, <3>1
  <2>5. tcb'[t].held # 0
    BY <1>0, <2>2 DEF Tcb
  <2>6. pc'[t] \notin {"slot", "boost", "restore"} /\ (pc'[t] \in {"sample", "slot", "boost"} => m = "aes")
    BY <2>1
  <2> QED
    BY <1>1, <2>2, <2>3, <2>4, <2>5, <2>6 DEF LevelOf, Fit
<1>12. ASSUME NEW m \in Mutexes, Wait(t, m) \/ Retry(t, m) \/ Expire(t, m) PROVE LevelOf(t)'
  <2>1. /\ slots' = slots /\ prior' = prior /\ m \in {"aes", "crypto"}
        /\ \/ pc[t] = Taking[m] /\ pc'[t] = Waiting[m]
           \/ pc[t] = Waiting[m] /\ pc'[t] = Expired[m]
           \/ pc[t] = Expired[m] /\ pc'[t] = Taking[m]
    BY <1>0, <1>12, Labels DEF Wait, Retry, Expire, Goto, Types, locals
  <2>2. owner[m] # t
    BY <1>0, <2>1, Labels DEF Owners, HoldsAes, Inside
  <2>3. tcb'[t] = tcb[t]
    <3>1. tcb' = tcb \/ \E b : tcb' = [tcb EXCEPT ![owner[m]] = b]
      BY <1>12 DEF Wait, Retry, Expire
    <3> QED
      BY <1>0, <2>2, <3>1 DEF Types
  <2>4. Raised(t)' <=> Raised(t)
    BY <2>1, Labels DEF Raised, HasSlot
  <2>5. pc'[t] \notin {"sample", "slot", "boost", "restore"}
    BY <2>1, Labels
  <2> QED
    BY <1>0, <1>1, <2>3, <2>4, <2>5 DEF LevelOf, Fit
<1> QED
  BY <1>3, <1>4, <1>5, <1>6, <1>7, <1>8, <1>9, <1>10, <1>11, <1>12

\* What a slot keeps is the priority its task was created with.
LEMMA Originals ==
  ASSUME LInv, NEW t \in Tasks, TaskStep(t)
  PROVE  \A i \in Slots : slots'[i].task # NoTask => slots'[i].original = BasePriority[slots'[i].task]
<1> USE DEF TaskStep
<1>0. /\ Types /\ LevelOf(t) /\ \A i \in Slots : SlotSound(i)
      /\ \A i \in Slots : slots[i].task # NoTask => slots[i].original = BasePriority[slots[i].task]
  BY Parts DEF LInv, Levels
<1> SUFFICES ASSUME NEW i \in Slots, slots'[i].task # NoTask
             PROVE  slots'[i].original = BasePriority[slots'[i].task]
  OBVIOUS
<1>1. CASE slots'[i] = slots[i]
  BY <1>0, <1>1
<1>2. CASE slots'[i] # slots[i] /\ TakeSlot(t)
  <2>1. PICK j \in Slots :
          /\ slots[j].task \in {t, NoTask}
          /\ slots' = [slots EXCEPT ![j] =
               [task |-> t, original |-> IF @.depth = 0 THEN prior[t] ELSE @.original, depth |-> @.depth + 1]]
    BY <1>2 DEF TakeSlot, FoundSlots, IsSlot, IsFreeSlot
  <2>2. i = j /\ pc[t] = "slot"
    BY <1>0, <1>2, <2>1 DEF Types, TakeSlot
  <2>3. slots[i].depth = 0 /\ prior[t] = BasePriority[t]
    BY <1>0, <2>1, <2>2 DEF SlotSound, InSlot, LevelOf
  <2> QED
    BY <1>0, <2>1, <2>2, <2>3 DEF Types
<1>3. CASE slots'[i] # slots[i] /\ Leave(t)
  <2>1. PICK j \in Slots :
          \/ slots' = [slots EXCEPT ![j].task = NoTask, ![j].depth = 0]
          \/ slots' = [slots EXCEPT ![j].depth = @ - 1]
    BY <1>3 DEF Leave, FoundSlots
  <2>2. i = j
    BY <1>0, <1>3, <2>1 DEF Types
  <2>3. slots'[i].task = slots[i].task /\ slots'[i].original = slots[i].original
    BY <1>0, <2>1, <2>2 DEF Types
  <2> QED
    BY <1>0, <2>3
<1> QED
  BY <1>1, <1>2, <1>3 DEF Work, Sample, Raise, Submit, Unlock, Restore, UnlockAes, Call, Complete, Take, Wait, Retry, Expire

LEMMA InitLevels == Init => Levels
BY BaseAssumption, BoostAssumption DEF Init, Levels, LevelOf, Raised, HasSlot, FreeSlot, NewTcb

LEMMA LInvStep == Peers /\ LInv /\ [Next]_vars => LInv'
<1>1. ASSUME Peers, LInv, Next PROVE LInv'
  <2> PICK t \in Tasks : TaskStep(t)
    BY <1>1, Steps
  <2>1. IInv'
    BY <1>1, IInvStep DEF LInv
  <2>2. \A u \in Tasks : LevelOf(u)'
    BY <1>1, OtherLevels, OwnLevel
  <2>3. \A i \in Slots : slots'[i].task # NoTask => slots'[i].original = BasePriority[slots'[i].task]
    BY <1>1, Originals
  <2> QED
    BY <2>1, <2>2, <2>3 DEF LInv, Levels
<1>2. ASSUME LInv, UNCHANGED vars PROVE LInv'
  <2>1. IInv'
    BY <1>2, IInvStep DEF LInv
  <2>2. Levels'
    BY <1>2 DEF LInv, Levels, LevelOf, Raised, HasSlot, vars, locals, mutexes
  <2> QED
    BY <2>1, <2>2 DEF LInv
<1> QED
  BY <1>1, <1>2

\* With AES tasks of one priority, the levels hold in every reachable state.
THEOREM LevelsInvariant ==
  ASSUME Peers
  PROVE  Spec => []LInv
<1>1. Init => LInv
  BY InitIInv, InitLevels DEF LInv
<1>2. LInv /\ [Next]_vars => LInv'
  BY LInvStep
<1> QED
  BY <1>1, <1>2, PTL DEF Spec

\* OwnerBoosted: with AES tasks of one priority, whatever the others have, a task
\* that owns the engine and got a slot runs at the boosted priority.
THEOREM OwnerRaised ==
  ASSUME Peers
  PROVE  Spec => []OwnerBoosted
<1>1. LInv => OwnerBoosted
  <2> SUFFICES ASSUME LInv, NEW t \in Tasks, owner["crypto"] = t, HasSlot(t)
               PROVE  tcb[t].prio = Boost
    BY DEF OwnerBoosted
  <2>1. Raised(t) /\ LevelOf(t) /\ tcb[t] \in Tcb(Priority)
    BY DEF LInv, IInv, Owners, Raised, Levels, Types
  <2> QED
    BY <2>1, BoostAssumption DEF LevelOf, Tcb, Priority
<1> QED
  BY <1>1, LevelsInvariant, PTL

\* BoostRestored: with AES tasks of one priority, a task that has left the lock
\* has its base priority back and, when it holds no mutex, runs at it.  The run
\* that violates it shows that the hypothesis is needed.
THEOREM PriorityRestored ==
  ASSUME Peers
  PROVE  Spec => []BoostRestored
<1>1. LInv => BoostRestored
  <2> SUFFICES ASSUME LInv, NEW t \in Tasks, OutOfCrypto(t)
               PROVE  /\ tcb[t].base = BasePriority[t]
                      /\ (\A m \in Mutexes : owner[m] # t) => tcb[t].prio = BasePriority[t]
    BY DEF BoostRestored
  <2>1. ~Raised(t) /\ LevelOf(t)
    BY DEF LInv, Levels, OutOfCrypto, InSection, Raised
  <2>2. (\A m \in Mutexes : owner[m] # t) => tcb[t].held = 0
    BY Labels DEF LInv, IInv, Counts, One
  <2> QED
    BY <2>1, <2>2 DEF LevelOf
<1> QED
  BY <1>1, LevelsInvariant, PTL
===========================================================================
