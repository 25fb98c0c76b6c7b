--------------------------- MODULE TcpipRxProofs ---------------------------
(***************************************************************************)
(* Proofs about TcpipRx, for any tasks, pool, batch, mailbox, NCM list and *)
(* numbers of packets: the entries of the pool form one row that thread,   *)
(* mailbox and open batch share (Layout), so each is owned once; the WLAN  *)
(* packets have a rank that grows along that row and the envelopes between *)
(* (Order), so each is passed on once and in its turn; and the USB-NCM     *)
(* packets form a row that only grows at its end.                          *)
(***************************************************************************)
EXTENDS TcpipRx, WellFoundedInduction, SequenceTheorems, FiniteSetTheorems, TLAPS

Message == [type : {"batch", "entry", "packet", "marker", "api"},
            arg : Entries \cup Packets \cup {Nil}]
Entry   == [pkt : Packets \cup {Nil}, next : Entries \cup {Nil},
            queued : BOOLEAN, count : 0 .. PoolSize]
Pool    == [Entries -> Entry]
Batch   == [head : Entries \cup {Nil}, tail : Entries \cup {Nil}, count : 0 .. PoolSize]

\* The entries of the pool in one row: the entry in the thread's hand, those
\* that wait in the order they will be passed on, then the free list.
Row == {z \in [1 .. PoolSize -> Entries] :
          /\ \A i, j \in 1 .. PoolSize : z[i] = z[j] => i = j
          /\ \A x \in Entries : \E i \in 1 .. PoolSize : z[i] = x}

\* Positions a+1 .. z of a row, and the same linked in order and ending there.
Seg(row, a, z) == [j \in 1 .. z - a |-> row[a + j]]
Links(p, row, a, z) ==
  \A j \in a + 1 .. z : p[row[j]].next = IF j = z THEN Nil ELSE row[j + 1]

\* Message m holds positions a+1 .. z; message k of q those behind off[k].
MsgHolds(p, m, row, a, z) ==
  /\ m.type = "batch" => a < z /\ m.arg = row[a + 1] /\ p[m.arg].count = z - a
  /\ m.type = "entry" => z = a + 1 /\ m.arg = row[z]
  /\ m.type \notin {"batch", "entry"} => z = a
  /\ Links(p, row, a, z)
MboxHolds(p, q, row, off, e) ==
  /\ off \in [1 .. Len(q) + 1 -> 0 .. e]
  /\ \A k, l \in 1 .. Len(q) + 1 : k <= l => off[k] <= off[l]
  /\ \A k \in 1 .. Len(q) : MsgHolds(p, q[k], row, off[k], off[k + 1])

\* The open batch holds positions a+1 .. z.
BatchHolds(p, b, row, a, z) ==
  /\ b.count = z - a
  /\ a = z => b = NoBatch
  /\ a < z => b.head = row[a + 1] /\ b.tail = row[z]
  /\ Links(p, row, a, z)

\* The thread holds the positions up to z, the first of them in its hand.
Hand == IF pc = "release" THEN 1 ELSE 0
ThreadHolds(row, z) ==
  /\ Hand <= z
  /\ pc = "batch" => z > 0 /\ cur.index = row[1] /\ pool[cur.index].count = z
  /\ pc = "entries" => cur.left = z /\ (z > 0 => cur.index = row[1])
  /\ pc = "release" => /\ cur.left = z /\ cur.index = row[1]
                       /\ cur.next = IF z = 1 THEN Nil ELSE row[2]
  /\ pc \notin {"batch", "entries", "release"} => z = 0
  /\ Links(pool, row, Hand, z)

\* Thread, mailbox and batch share the first e positions, the others are free.
Layout(row, e, off) ==
  /\ row \in Row /\ e \in 0 .. PoolSize
  /\ free = Seg(row, e, PoolSize)
  /\ \A j \in 1 .. e : pool[row[j]].queued /\ pool[row[j]].pkt \in Packets
  /\ MboxHolds(pool, mbox, row, off, e)
  /\ ThreadHolds(row, off[1])
  /\ BatchHolds(pool, batch, row, off[Len(mbox) + 1], e)

\* Packets are ranked in the order in which they are passed on: those the thread
\* has passed on or holds, then entries and envelopes as they wait.
Held(e) == Hand + 1 .. e
Pkt(row, j) == pool[row[j]].pkt
Envelopes == {k \in 1 .. Len(mbox) : mbox[k].type = "packet"}
InHand == IF pc = "packet" THEN {cur.pkt} ELSE {}
Past == ToSet(delivered.wlan) \cup InHand

Sorted(rank, row, e, off) ==
  /\ \A i, j \in DOMAIN delivered.wlan :
       i < j => rank[delivered.wlan[i]] < rank[delivered.wlan[j]]
  /\ \A x \in ToSet(delivered.wlan), y \in InHand : rank[x] < rank[y]
  /\ \A x \in Past, j \in Held(e) : rank[x] < rank[Pkt(row, j)]
  /\ \A x \in Past, k \in Envelopes : rank[x] < rank[mbox[k].arg]
  /\ \A i, j \in Held(e) : i < j => rank[Pkt(row, i)] < rank[Pkt(row, j)]
  /\ \A k, l \in Envelopes : k < l => rank[mbox[k].arg] < rank[mbox[l].arg]
  /\ \A j \in Held(e), k \in Envelopes :
       /\ j <= off[k] => rank[Pkt(row, j)] < rank[mbox[k].arg]
       /\ j > off[k] => rank[mbox[k].arg] < rank[Pkt(row, j)]

\* Every accepted packet is one of them, and what was accepted before the call of
\* a packet has a lower rank; a packet on its way to an envelope comes before the
\* open batch.
Covered(row, e) ==
  Accepted = Past \cup {Pkt(row, j) : j \in Held(e)} \cup {mbox[k].arg : k \in Envelopes}
InTurn(rank, row, e, off) ==
  /\ \A p \in Accepted : \A x \in before[p] : x \in Accepted /\ rank[x] < rank[p]
  /\ \A w \in WlanTasks : falling[w] # Nil =>
       \A x \in before[falling[w]] :
         /\ x \in Accepted
         /\ \A j \in off[Len(mbox) + 1] + 1 .. e : x # Pkt(row, j)
Order(rank, top, row, e, off) ==
  /\ rank \in [Packets -> Int] /\ top \in Int /\ \A p \in Packets : rank[p] < top
  /\ Sorted(rank, row, e, off)
  /\ Covered(row, e)
  /\ InTurn(rank, row, e, off)

\* The calls of the producers.
Calls ==
  /\ \A w \in WlanTasks : falling[w] # Nil =>
       /\ falling[w] \in 1 .. sent.wlan /\ falling[w] \notin refused.wlan
       /\ \A v \in WlanTasks : falling[v] = falling[w] => v = w
  /\ refused.wlan \subseteq 1 .. sent.wlan /\ refused.ncm \subseteq 1 .. sent.ncm

Draining == pc \in {"marker", "ncmInput", "ncmFree"}
Markers == {k \in 1 .. Len(mbox) : mbox[k].type = "marker"}
NcmCount ==
  /\ ~marker => ncmQueue = <<>> /\ ~Draining /\ Markers = {}
  /\ marker => \/ Draining /\ Markers = {}
               \/ ~Draining /\ \E k \in 1 .. Len(mbox) : Markers = {k}
  /\ ncmFree + Len(ncmQueue) + (IF pc \in {"ncmInput", "ncmFree"} THEN 1 ELSE 0) = NcmSize
Args ==
  /\ pc = "ncmInput" => cur.pkt \in 1 .. MaxNcm
  /\ pc = "packet" => cur.pkt \in Packets
  /\ \A k \in 1 .. Len(mbox) : mbox[k].type = "packet" => mbox[k].arg \in Packets
  /\ \A k \in 1 .. Len(mbox) : mbox[k].type \in {"marker", "api"} => mbox[k].arg = Nil
Alone == ~available => batch = NoBatch

\* The parts of the type invariant.
MboxTypes == mbox \in Seq(Message) /\ Len(mbox) <= MboxSize
WlanTypes == /\ available \in BOOLEAN /\ armed \in BOOLEAN
             /\ pool \in Pool /\ free \in Seq(Entries) /\ batch \in Batch
NcmTypes == marker \in BOOLEAN /\ ncmQueue \in Seq(1 .. MaxNcm) /\ ncmFree \in 0 .. NcmSize
CallTypes ==
  /\ falling \in [WlanTasks -> Packets \cup {Nil}]
  /\ sent \in [wlan : 0 .. MaxWlan, ncm : 0 .. MaxNcm, other : 0 .. MaxOther]
  /\ refused \in [wlan : SUBSET Packets, ncm : SUBSET (1 .. MaxNcm)]
  /\ before \in [Packets -> SUBSET Packets]
ThreadTypes ==
  /\ pc \in {"fetch", "api", "packet", "batch", "entries", "release",
             "marker", "ncmInput", "ncmFree", "retry"}
  /\ cur \in [index : Entries \cup {Nil}, next : Entries \cup {Nil}, left : 0 .. PoolSize,
              pkt : Packets \cup (1 .. MaxNcm) \cup {Nil}]
  /\ delivered \in [wlan : Seq(Packets), ncm : Seq(1 .. MaxNcm)]

Owned == \E row, e, off : Layout(row, e, off)
Ordered ==
  \E row, e, off, rank, top : Layout(row, e, off) /\ Order(rank, top, row, e, off)

---------------------------------------------------------------------------
\* Every set of naturals that is not empty has a least element.
LEMMA LeastOf ==
  ASSUME NEW T \in SUBSET Nat, T # {}
  PROVE  \E x \in T : \A y \in T : x <= y
<1> DEFINE R == {p \in Nat \X Nat : p[1] < p[2]}
<1>1. IsWellFoundedOn(R, Nat)
  BY NatLessThanWellFounded DEF OpToRel
<1>2. \A a, b \in Nat : a < b => <<a, b>> \in R
  OBVIOUS
<1> HIDE DEF R
<1>3. PICK x \in T : \A y \in T : ~ (<<y, x>> \in R)
  BY <1>1, WFMin
<1>4. ASSUME NEW y \in T PROVE x <= y
  <2>1. ~ (<<y, x>> \in R) /\ x \in Nat /\ y \in Nat
    BY <1>3
  <2>2. y < x => <<y, x>> \in R
    BY <1>2, <2>1
  <2> QED
    BY <2>1, <2>2
<1> QED
  BY <1>4

LEMMA SegCat ==
  ASSUME NEW row, NEW a \in Nat, NEW b \in Nat, NEW c \in Nat, a <= b, b <= c
  PROVE  Seg(row, a, b) \o Seg(row, b, c) = Seg(row, a, c)
<1>1. /\ DOMAIN Seg(row, a, b) = 1 .. b - a
      /\ DOMAIN Seg(row, b, c) = 1 .. c - b
  BY DEF Seg
<1>2. Seg(row, a, b) \in Seq({row[i] : i \in Nat}) /\ Seg(row, b, c) \in Seq({row[i] : i \in Nat})
  BY DEF Seg
<1> QED
  BY <1>1, <1>2 DEF Seg

\* A function that is defined from its value one before is what satisfies its
\* equation.
LEMMA OnlyOne ==
  ASSUME NEW n \in Nat, NEW f, NEW g,
         \A k \in 1 .. n : (k > 1 => f[k - 1] = g[k - 1]) => f[k] = g[k]
  PROVE  \A k \in 1 .. n : f[k] = g[k]
<1> DEFINE T == {k \in 1 .. n : f[k] # g[k]}
<1>1. ASSUME T # {} PROVE FALSE
  <2>1. T \in SUBSET Nat
    OBVIOUS
  <2> HIDE DEF T
  <2>2. PICK x \in T : \A y \in T : x <= y
    BY <1>1, <2>1, LeastOf
  <2> USE DEF T
  <2>3. x \in 1 .. n /\ f[x] # g[x]
    OBVIOUS
  <2>4. ASSUME x > 1 PROVE f[x - 1] = g[x - 1]
    <3>1. x - 1 \in 1 .. n
      BY <2>3, <2>4
    <3>2. x - 1 \notin T
      <4> HIDE DEF T
      <4> QED
        BY <2>2, <2>3, <3>1
    <3> QED
      BY <3>1, <3>2
  <2> QED
    BY <2>3, <2>4
<1> QED
  BY <1>1

LEMMA ChainIs ==
  ASSUME NEW row, NEW a \in Nat, NEW n \in Nat, NEW first,
         \A j \in a + 1 .. a + n : row[j] # Nil,
         \A j \in a + 1 .. a + n - 1 : pool[row[j]].next = row[j + 1],
         n > 0 => first = row[a + 1]
  PROVE  Chain(first, n) = Seg(row, a, a + n)
<1> DEFINE V(k, f) == IF k = 1 THEN first
                      ELSE IF f[k - 1] = Nil THEN Nil ELSE pool[f[k - 1]].next
           F(f) == [k \in 1 .. n |-> V(k, f)]
           seg == [k \in 1 .. n |-> row[a + k]]
           at == CHOOSE f : f = F(f)
<1>1. seg = Seg(row, a, a + n)
  BY DEF Seg
<1>2. seg = F(seg)
  OBVIOUS
<1>3. at = F(at)
  <2> HIDE DEF F
  <2> QED
    BY <1>2
<1>4. Chain(first, n) = at
  BY DEF Chain
<1>5. at = seg
  <2> HIDE DEF at, V
  <2>1. at = [k \in 1 .. n |-> at[k]]
    BY <1>3
  <2>2. \A k \in 1 .. n : at[k] = V(k, at)
    BY <1>3
  <2>3. \A k \in 1 .. n : (k > 1 => at[k - 1] = seg[k - 1]) => at[k] = seg[k]
    <3> USE DEF V
    <3> SUFFICES ASSUME NEW k \in 1 .. n, k > 1 => at[k - 1] = seg[k - 1]
                 PROVE  at[k] = seg[k]
      OBVIOUS
    <3>1. CASE k = 1
      BY <3>1, <2>2
    <3>2. CASE k > 1
      <4>1. k - 1 \in 1 .. n /\ a + (k - 1) \in a + 1 .. a + n - 1 /\ a + (k - 1) + 1 = a + k
        BY <3>2
      <4>2. at[k - 1] = row[a + (k - 1)]
        BY <3>2, <4>1
      <4>3. at[k - 1] # Nil /\ pool[at[k - 1]].next = row[a + k]
        BY <4>1, <4>2
      <4> QED
        BY <3>2, <4>3, <2>2
    <3> QED
      BY <3>1, <3>2
  <2>4. seg = [k \in 1 .. n |-> seg[k]]
    OBVIOUS
  <2> HIDE DEF seg
  <2>5. \A k \in 1 .. n : at[k] = seg[k]
    BY ONLY n \in Nat, <2>3, OnlyOne
  <2>6. [k \in 1 .. n |-> at[k]] = [k \in 1 .. n |-> seg[k]]
    BY <2>5, Zenon
  <2> QED
    BY <2>1, <2>4, <2>6, Zenon
<1> QED
  BY <1>1, <1>4, <1>5

\* Chains that follow one another in the row make one part of it.
LEMMA FlattenIs ==
  ASSUME NEW row, NEW n \in Nat, NEW off \in [1 .. n + 1 -> Nat], NEW s,
         s = [k \in 1 .. n |-> s[k]],
         \A k, l \in 1 .. n + 1 : k <= l => off[k] <= off[l],
         \A k \in 1 .. n : s[k] = Seg(row, off[k], off[k + 1])
  PROVE  FlattenSeq(s) = Seg(row, off[1], off[n + 1])
<1>1. Len(s) = n
  OBVIOUS
<1>2. CASE n = 0
  <2>1. FlattenSeq(s) = s /\ s = <<>>
    BY <1>1, <1>2 DEF FlattenSeq
  <2>2. Seg(row, off[1], off[1]) = <<>>
    BY DEF Seg
  <2> QED
    BY <1>2, <2>1, <2>2
<1>3. CASE n > 0
  <2> DEFINE V(i, f) == IF i = 1 THEN s[i] ELSE f[i - 1] \o s[i]
             F(f) == [i \in 1 .. n |-> V(i, f)]
             seg == [i \in 1 .. n |-> Seg(row, off[1], off[i + 1])]
             flat == CHOOSE f : f = F(f)
  <2>1. FlattenSeq(s) = flat[n]
    BY <1>1, <1>3 DEF FlattenSeq
  <2>2. \A i \in 1 .. n : i > 1 => seg[i] = seg[i - 1] \o s[i]
    <3> SUFFICES ASSUME NEW i \in 1 .. n, i > 1
                 PROVE  seg[i] = seg[i - 1] \o s[i]
      OBVIOUS
    <3>1. i - 1 \in 1 .. n /\ {1, i, i + 1} \subseteq 1 .. n + 1
      OBVIOUS
    <3>2. off[1] \in Nat /\ off[i] \in Nat /\ off[i + 1] \in Nat
      BY <3>1
    <3>3. off[1] <= off[i] /\ off[i] <= off[i + 1]
      BY <3>1
    <3>4. seg[i - 1] = Seg(row, off[1], off[i]) /\ s[i] = Seg(row, off[i], off[i + 1])
      BY <3>1
    <3>5. seg[i] = Seg(row, off[1], off[i + 1])
      OBVIOUS
    <3>6. Seg(row, off[1], off[i]) \o Seg(row, off[i], off[i + 1]) = Seg(row, off[1], off[i + 1])
      BY <3>2, <3>3, SegCat
    <3> HIDE DEF seg
    <3> QED
      BY <3>4, <3>5, <3>6, Zenon
  <2>3. seg[1] = s[1]
    <3>1. 1 \in 1 .. n /\ 1 + 1 = 2
      BY <1>3
    <3> QED
      BY <3>1
  <2>4. \A i \in 1 .. n : seg[i] = V(i, seg)
    <3> HIDE DEF seg
    <3> SUFFICES ASSUME NEW i \in 1 .. n PROVE seg[i] = V(i, seg)
      BY Zenon
    <3>1. CASE i = 1
      BY <3>1, <2>3
    <3>2. CASE i # 1
      <4>1. i > 1
        BY <3>2
      <4> QED
        BY <3>2, <4>1, <2>2, Zenon
    <3> QED
      BY <3>1, <3>2
  <2>5. seg = [k \in 1 .. n |-> seg[k]]
    OBVIOUS
  <2>6. seg = F(seg)
    <3> HIDE DEF seg, V
    <3>1. [k \in 1 .. n |-> seg[k]] = [k \in 1 .. n |-> V(k, seg)]
      BY <2>4, Zenon
    <3> QED
      BY <2>5, <3>1, Zenon
  <2>7. flat = F(flat)
    <3> HIDE DEF F
    <3> QED
      BY <2>6
  <2>8. flat = seg
    <3> HIDE DEF flat, seg, V
    <3>1. flat = [k \in 1 .. n |-> flat[k]]
      BY <2>7
    <3>2. \A k \in 1 .. n : flat[k] = V(k, flat)
      BY <2>7
    <3>3. \A k \in 1 .. n : (k > 1 => flat[k - 1] = seg[k - 1]) => flat[k] = seg[k]
      BY <3>2, <2>4 DEF V
    <3>4. \A k \in 1 .. n : flat[k] = seg[k]
      BY <3>3, OnlyOne
    <3>5. [k \in 1 .. n |-> flat[k]] = [k \in 1 .. n |-> seg[k]]
      BY <3>4, Zenon
    <3> QED
      BY <3>1, <2>5, <3>5, Zenon
  <2> HIDE DEF flat
  <2> QED
    BY <2>1, <2>8, <1>3
<1> QED
  BY <1>2, <1>3
---------------------------------------------------------------------------
\* What disturbs no entry that is held disturbs no holder.
LEMMA RowFacts ==
  ASSUME NEW row \in Row
  PROVE  /\ row \in [1 .. PoolSize -> Entries]
         /\ \A j \in 1 .. PoolSize : row[j] \in Entries /\ row[j] # Nil
         /\ \A i, j \in 1 .. PoolSize : row[i] = row[j] => i = j
         /\ PoolSize \in Nat /\ PoolSize > 0
  BY NilAssumption, SizesAssumption DEF Row

LEMMA MsgFrame ==
  ASSUME NEW row, NEW a \in Nat, NEW z \in Nat, NEW m, NEW p, NEW p2,
         \A j \in a + 1 .. z : p2[row[j]].next = p[row[j]].next /\ p2[row[j]].count = p[row[j]].count,
         MsgHolds(p, m, row, a, z)
  PROVE  MsgHolds(p2, m, row, a, z)
<1>1. Links(p2, row, a, z)
  BY DEF MsgHolds, Links
<1>2. m.type = "batch" => p2[m.arg].count = z - a
  <2> HAVE m.type = "batch"
  <2>1. a < z /\ m.arg = row[a + 1] /\ p[m.arg].count = z - a
    BY DEF MsgHolds
  <2>2. a + 1 \in a + 1 .. z
    BY <2>1
  <2> QED
    BY <2>1, <2>2
<1> QED
  BY <1>1, <1>2 DEF MsgHolds

LEMMA MboxFrame ==
  ASSUME NEW row, NEW e \in Nat, NEW off, NEW q \in Seq(Message), NEW p, NEW p2,
         MboxHolds(p, q, row, off, e),
         \A j \in 1 .. off[Len(q) + 1] :
           p2[row[j]].next = p[row[j]].next /\ p2[row[j]].count = p[row[j]].count
  PROVE  MboxHolds(p2, q, row, off, e)
<1>1. Len(q) \in Nat
  OBVIOUS
<1>2. ASSUME NEW k \in 1 .. Len(q)
      PROVE  MsgHolds(p2, q[k], row, off[k], off[k + 1])
  <2>1. k \in 1 .. Len(q) + 1 /\ k + 1 \in 1 .. Len(q) + 1 /\ Len(q) + 1 \in 1 .. Len(q) + 1
    BY <1>1
  <2>2. off[k] \in Nat /\ off[k + 1] \in Nat /\ off[Len(q) + 1] \in Nat
    BY <2>1 DEF MboxHolds
  <2>3. off[k + 1] <= off[Len(q) + 1]
    BY <1>1, <2>1 DEF MboxHolds
  <2>4. \A j \in off[k] + 1 .. off[k + 1] : j \in 1 .. off[Len(q) + 1]
    BY <2>2, <2>3
  <2>5. MsgHolds(p, q[k], row, off[k], off[k + 1])
    BY DEF MboxHolds
  <2>6. \A j \in off[k] + 1 .. off[k + 1] :
          p2[row[j]].next = p[row[j]].next /\ p2[row[j]].count = p[row[j]].count
    BY <2>4
  <2> QED
    BY ONLY <2>2, <2>5, <2>6, MsgFrame
<1> QED
  BY <1>2 DEF MboxHolds

\* A message behind the others.
Added(off, n, z) == [k \in 1 .. n + 2 |-> IF k = n + 2 THEN z ELSE off[k]]

LEMMA AppendHolds ==
  ASSUME NEW row, NEW e \in Nat, NEW off, NEW q \in Seq(Message), NEW p,
         NEW m \in Message, NEW f \in Nat, NEW z \in 0 .. f, e <= f,
         MboxHolds(p, q, row, off, e),
         off[Len(q) + 1] <= z,
         MsgHolds(p, m, row, off[Len(q) + 1], z)
  PROVE  MboxHolds(p, Append(q, m), row, Added(off, Len(q), z), f)
<1> DEFINE n == Len(q)
           off2 == Added(off, n, z)
           q2 == Append(q, m)
<1>1. n \in Nat /\ Len(q2) = n + 1
  OBVIOUS
<1>2. /\ \A k \in 1 .. n + 1 : off2[k] = off[k] /\ off[k] \in 0 .. e
      /\ off2[n + 2] = z
      /\ \A k \in 1 .. n : q2[k] = q[k]
      /\ q2[n + 1] = m
  BY <1>1 DEF Added, MboxHolds
<1>3. off2 \in [1 .. n + 2 -> 0 .. f]
  <2>1. \A k \in 1 .. n + 2 : (IF k = n + 2 THEN z ELSE off[k]) \in 0 .. f
    <3> TAKE k \in 1 .. n + 2
    <3>1. k # n + 2 => k \in 1 .. n + 1
      BY <1>1
    <3> HIDE DEF n, off2
    <3> QED
      BY <3>1, <1>2
  <2> HIDE DEF n
  <2> QED
    BY <2>1 DEF Added
<1> HIDE DEF off2, q2
<1>4. ASSUME NEW k \in 1 .. n + 2, NEW l \in 1 .. n + 2, k <= l
      PROVE  off2[k] <= off2[l]
  <2>0. \A i, j \in 1 .. n + 1 : i <= j => off[i] <= off[j]
    BY DEF MboxHolds
  <2>1. CASE l = n + 2
    <3>1. CASE k = n + 2
      BY <2>1, <3>1, <1>2
    <3>2. CASE k # n + 2
      <4>1. k \in 1 .. n + 1 /\ n + 1 \in 1 .. n + 1 /\ k <= n + 1
        BY <1>1, <3>2
      <4>2. off[k] <= off[n + 1]
        BY <2>0, <4>1
      <4> QED
        BY <2>1, <4>1, <4>2, <1>2
    <3> QED
      BY <3>1, <3>2
  <2>2. CASE l # n + 2
    <3>1. k \in 1 .. n + 1 /\ l \in 1 .. n + 1
      BY <2>2, <1>1, <1>4
    <3> HIDE DEF n
    <3> QED
      BY <2>0, <3>1, <1>2, <1>4
  <2> QED
    BY <2>1, <2>2
<1>5. ASSUME NEW k \in 1 .. n + 1
      PROVE  MsgHolds(p, q2[k], row, off2[k], off2[k + 1])
  <2>1. CASE k = n + 1
    <3>1. n + 1 + 1 = n + 2 /\ n + 1 \in 1 .. n + 1
      BY <1>1
    <3> QED
      BY <2>1, <3>1, <1>2
  <2>2. CASE k # n + 1
    <3>1. k \in 1 .. n /\ k + 1 \in 1 .. n + 1 /\ k \in 1 .. n + 1
      BY <1>1, <2>2
    <3>2. MsgHolds(p, q[k], row, off[k], off[k + 1])
      BY <3>1 DEF MboxHolds
    <3> QED
      BY <3>1, <3>2, <1>2
  <2> QED
    BY <2>1, <2>2
<1> QED
  BY <1>1, <1>3, <1>4, <1>5 DEF MboxHolds, off2, q2

\* Where the positions of the messages end after Posted.
Sealed(b, off, q, e) == IF b.count = 0 \/ Full(q) THEN off ELSE Added(off, Len(q), e)

LEMMA PostedHolds ==
  ASSUME NEW row \in Row, NEW e \in 0 .. PoolSize, NEW off,
         NEW p \in Pool, NEW q \in Seq(Message), NEW b \in Batch,
         Len(q) <= MboxSize,
         MboxHolds(p, q, row, off, e),
         BatchHolds(p, b, row, off[Len(q) + 1], e),
         NEW r, r = Posted(b, p, q)
  PROVE  /\ r.pool \in Pool /\ r.batch \in Batch
         /\ r.mbox \in Seq(Message) /\ Len(r.mbox) <= MboxSize
         /\ Sealed(b, off, q, e)[1] = off[1]
         /\ MboxHolds(r.pool, r.mbox, row, Sealed(b, off, q, e), e)
         /\ BatchHolds(r.pool, r.batch, row, Sealed(b, off, q, e)[Len(r.mbox) + 1], e)
         /\ \A i \in Entries : /\ r.pool[i].next = p[i].next
                               /\ r.pool[i].queued = p[i].queued
                               /\ r.pool[i].pkt = p[i].pkt
         /\ \A j \in 1 .. off[Len(q) + 1] : r.pool[row[j]] = p[row[j]]
         /\ b.count = 0 => r.batch = b /\ r.pool = p /\ r.mbox = q
<1> DEFINE n == Len(q)
           a == off[n + 1]
           sealed == [p EXCEPT ![b.head].count = b.count]
<1>1. n \in Nat /\ n + 1 \in 1 .. n + 1 /\ 1 \in 1 .. n + 1
  OBVIOUS
<1>2. a \in 0 .. e /\ off[1] \in 0 .. e /\ off[1] <= a
  BY <1>1 DEF MboxHolds
<1>3. CASE b.count = 0
  <2>1. r = [batch |-> b, pool |-> p, mbox |-> q] /\ Sealed(b, off, q, e) = off
    BY <1>3 DEF Posted, Sealed
  <2>2. r.pool = p /\ r.mbox = q /\ r.batch = b
    BY <2>1
  <2> QED
    BY <2>1, <2>2
<1>4. CASE b.count # 0
  <2>1. a < e /\ b.head = row[a + 1] /\ b.count = e - a
    BY <1>2, <1>4 DEF BatchHolds
  <2>2. a + 1 \in 1 .. PoolSize /\ b.head \in Entries /\ b.count \in 0 .. PoolSize
    BY <1>2, <2>1, RowFacts DEF Batch
  <2>3. /\ sealed \in Pool
        /\ sealed[b.head].count = b.count
        /\ \A i \in Entries : i # b.head => sealed[i] = p[i]
        /\ \A i \in Entries : /\ sealed[i].next = p[i].next
                              /\ sealed[i].queued = p[i].queued
                              /\ sealed[i].pkt = p[i].pkt
    BY <2>2 DEF Pool, Entry
  <2> HIDE DEF sealed
  <2>4. \A j \in 1 .. a : row[j] \in Entries /\ sealed[row[j]] = p[row[j]]
    <3> TAKE j \in 1 .. a
    <3>1. j \in 1 .. PoolSize /\ j # a + 1 /\ a + 1 \in 1 .. PoolSize
      BY <1>2, <2>2, RowFacts
    <3>2. row[j] \in Entries /\ row[j] # b.head
      BY <2>1, <2>2, <3>1, RowFacts
    <3> QED
      BY <2>3, <3>2
  <2>5. MboxHolds(sealed, q, row, off, e)
    <3>1. e \in Nat
      BY RowFacts
    <3>2. \A j \in 1 .. off[Len(q) + 1] :
            sealed[row[j]].next = p[row[j]].next /\ sealed[row[j]].count = p[row[j]].count
      BY <2>4
    <3> QED
      BY ONLY <3>1, <3>2, q \in Seq(Message), MboxHolds(p, q, row, off, e), MboxFrame
  <2>6. Links(sealed, row, a, e)
    <3>1. \A j \in a + 1 .. e : row[j] \in Entries
      BY <1>2, RowFacts
    <3> QED
      BY <2>3, <3>1 DEF BatchHolds, Links
  <2>7. CASE Full(q)
    <3>1. r = [batch |-> b, pool |-> sealed, mbox |-> q] /\ Sealed(b, off, q, e) = off
      BY <1>4, <2>7 DEF Posted, Sealed, sealed
    <3>2. BatchHolds(sealed, b, row, a, e)
      BY <2>6 DEF BatchHolds
    <3>3. r.pool = sealed /\ r.mbox = q /\ r.batch = b
      BY <3>1
    <3> QED
      BY <1>4, <3>1, <3>2, <3>3, <2>3, <2>4, <2>5
  <2>8. CASE ~Full(q)
    <3> DEFINE m == Msg("batch", b.head)
    <3>1. r = [batch |-> NoBatch, pool |-> sealed, mbox |-> Append(q, m)]
      BY <1>4, <2>8 DEF Posted, sealed
    <3>2. Sealed(b, off, q, e) = Added(off, n, e)
      BY <1>4, <2>8 DEF Sealed
    <3>3. m \in Message /\ m.type = "batch" /\ m.arg = b.head
      BY <2>2 DEF Message, Msg
    <3>4. MsgHolds(sealed, m, row, a, e)
      BY <2>1, <2>3, <2>6, <3>3 DEF MsgHolds
    <3> HIDE DEF m
    <3>5. MboxHolds(sealed, Append(q, m), row, Sealed(b, off, q, e), e)
      <4>1. e \in Nat /\ e \in 0 .. e /\ a <= e
        BY <1>2
      <4> QED
        BY <2>5, <3>2, <3>3, <3>4, <4>1, AppendHolds
    <3>6. /\ Append(q, m) \in Seq(Message) /\ Len(Append(q, m)) = n + 1
          /\ n + 1 <= MboxSize
      BY <2>8, <3>3, SizesAssumption DEF Full
    <3>7. Sealed(b, off, q, e)[n + 2] = e /\ Sealed(b, off, q, e)[1] = off[1]
      BY <1>1, <3>2 DEF Added
    <3>8. NoBatch \in Batch /\ \A p2 : BatchHolds(p2, NoBatch, row, e, e)
      BY RowFacts DEF Batch, NoBatch, BatchHolds, Links
    <3>9. Len(r.mbox) + 1 = n + 2
      BY <1>1, <3>1, <3>6
    <3>10. r.pool = sealed /\ r.mbox = Append(q, m) /\ r.batch = NoBatch
      BY <3>1
    <3> HIDE DEF n
    <3>11. BatchHolds(r.pool, r.batch, row, Sealed(b, off, q, e)[Len(r.mbox) + 1], e)
      BY <3>7, <3>8, <3>9, <3>10
    <3> QED
      BY <1>4, <2>3, <2>4, <3>5, <3>6, <3>7, <3>8, <3>10, <3>11 DEF n
  <2> QED
    BY <2>7, <2>8
<1> QED
  BY <1>3, <1>4

---------------------------------------------------------------------------
\* Every step keeps the layout.
LEMMA TypeFacts ==
  ASSUME TypeOK
  PROVE  /\ mbox \in Seq(Message) /\ Len(mbox) <= MboxSize /\ Len(mbox) \in Nat
         /\ pool \in Pool /\ batch \in Batch
  BY DEF TypeOK, Message, Pool, Entry, Batch

LEMMA LayoutFacts ==
  ASSUME NEW row, NEW e, NEW off, TypeOK, Layout(row, e, off)
  PROVE  /\ e \in Nat /\ e <= PoolSize /\ PoolSize \in Nat
         /\ Len(mbox) \in Nat
         /\ 1 \in 1 .. Len(mbox) + 1 /\ Len(mbox) + 1 \in 1 .. Len(mbox) + 1
         /\ off[1] \in 0 .. e /\ off[Len(mbox) + 1] \in 0 .. e
         /\ off[1] <= off[Len(mbox) + 1]
         /\ \A k \in 1 .. Len(mbox) + 1 : off[k] \in 0 .. e
         /\ \A j \in 1 .. PoolSize : row[j] \in Entries /\ row[j] # Nil
         /\ \A i, j \in 1 .. PoolSize : row[i] = row[j] => i = j
<1>1. row \in Row /\ e \in 0 .. PoolSize /\ MboxHolds(pool, mbox, row, off, e)
  BY DEF Layout
<1>2. Len(mbox) \in Nat
  BY TypeFacts
<1>3. 1 \in 1 .. Len(mbox) + 1 /\ Len(mbox) + 1 \in 1 .. Len(mbox) + 1
  BY <1>2
<1>4. \A k \in 1 .. Len(mbox) + 1 : off[k] \in 0 .. e
  BY <1>1 DEF MboxHolds
<1>5. off[1] <= off[Len(mbox) + 1]
  BY <1>1, <1>2, <1>3 DEF MboxHolds
<1> QED
  BY <1>1, <1>2, <1>3, <1>4, <1>5, RowFacts

LEMMA ThreadFrame ==
  ASSUME NEW row, NEW z \in Nat, ThreadHolds(row, z),
         pc' = pc, cur' = cur,
         \A j \in 1 .. z : /\ pool'[row[j]].next = pool[row[j]].next
                           /\ pool'[row[j]].count = pool[row[j]].count
  PROVE  ThreadHolds(row, z)'
<1>1. Hand' = Hand /\ Hand \in {0, 1}
  BY DEF Hand
<1>2. Links(pool', row, Hand', z)
  <2>1. Links(pool, row, Hand, z)
    BY DEF ThreadHolds
  <2>2. \A j \in Hand + 1 .. z : j \in 1 .. z
    BY <1>1
  <2> QED
    BY <1>1, <2>1, <2>2 DEF Links
<1>3. pc = "batch" => pool'[cur.index].count = z
  <2> HAVE pc = "batch"
  <2>1. z > 0 /\ cur.index = row[1] /\ pool[cur.index].count = z
    BY DEF ThreadHolds
  <2>2. 1 \in 1 .. z
    BY <2>1
  <2> QED
    BY <2>1, <2>2
<1> QED
  BY <1>1, <1>2, <1>3 DEF ThreadHolds

LEMMA SameLayout ==
  ASSUME NEW row, NEW e, NEW off, Layout(row, e, off),
         UNCHANGED <<mbox, pool, free, batch>>,
         ThreadHolds(row, off[1])'
  PROVE  Layout(row, e, off)'
  BY DEF Layout

\* The steps that post the batch as it is.
LEMMA PostLayout ==
  ASSUME NEW row, NEW e, NEW off, TypeOK, Layout(row, e, off),
         LET r == Posted(batch, pool, mbox)
         IN batch' = r.batch /\ pool' = r.pool /\ mbox' = r.mbox,
         free' = free,
         \/ pc' = pc /\ cur' = cur
         \/ pc = "retry" /\ pc' = "fetch",
         NEW off2, off2 = Sealed(batch, off, mbox, e)
  PROVE  Layout(row, e, off2)'
<1> DEFINE r == Posted(batch, pool, mbox)
<1>1. batch' = r.batch /\ pool' = r.pool /\ mbox' = r.mbox
  OBVIOUS
<1>2. /\ row \in Row /\ e \in 0 .. PoolSize
      /\ MboxHolds(pool, mbox, row, off, e)
      /\ BatchHolds(pool, batch, row, off[Len(mbox) + 1], e)
      /\ ThreadHolds(row, off[1])
  BY DEF Layout
<1> HIDE DEF r
<1>3. /\ off2[1] = off[1]
      /\ MboxHolds(r.pool, r.mbox, row, off2, e)
      /\ BatchHolds(r.pool, r.batch, row, off2[Len(r.mbox) + 1], e)
      /\ \A i \in Entries : /\ r.pool[i].next = pool[i].next
                            /\ r.pool[i].queued = pool[i].queued
                            /\ r.pool[i].pkt = pool[i].pkt
      /\ \A j \in 1 .. off[Len(mbox) + 1] : r.pool[row[j]] = pool[row[j]]
  BY <1>2, TypeFacts, PostedHolds DEF r
<1>4. ThreadHolds(row, off[1])'
  <2>1. CASE pc' = pc /\ cur' = cur
    <3>1. off[1] \in Nat /\ \A j \in 1 .. off[1] : j \in 1 .. off[Len(mbox) + 1]
      BY LayoutFacts
    <3>2. \A j \in 1 .. off[1] : /\ pool'[row[j]].next = pool[row[j]].next
                                 /\ pool'[row[j]].count = pool[row[j]].count
      BY <1>1, <1>3, <3>1
    <3> QED
      BY <1>2, <2>1, <3>1, <3>2, ThreadFrame
  <2>2. CASE pc = "retry" /\ pc' = "fetch"
    <3>1. off[1] = 0
      BY <1>2, <2>2 DEF ThreadHolds
    <3> QED
      BY <2>2, <3>1 DEF ThreadHolds, Hand, Links
  <2> QED
    BY <2>1, <2>2
<1>5. \A j \in 1 .. e : pool'[row[j]].queued /\ pool'[row[j]].pkt \in Packets
  <2>1. \A j \in 1 .. e : row[j] \in Entries
    BY LayoutFacts
  <2> QED
    BY <1>1, <1>3, <2>1 DEF Layout
<1> QED
  BY <1>1, <1>2, <1>3, <1>4, <1>5 DEF Layout

\* The steps of the thread that leave lists and mailbox alone.
LEMMA ThreadLayout ==
  ASSUME NEW row, NEW e, NEW off, TypeOK, Layout(row, e, off),
         \/ Api \/ Packet \/ Open \/ EntryInput \/ EntriesDone
         \/ NcmTake \/ NcmInput \/ NcmFree
  PROVE  Layout(row, e, off)'
<1>1. UNCHANGED <<mbox, pool, free, batch>>
  BY DEF Api, Packet, Open, EntryInput, EntriesDone, NcmTake, NcmInput, NcmFree, wlanVars
<1>2. ThreadHolds(row, off[1])
  BY DEF Layout
<1>3. off[1] \in 0 .. PoolSize
  BY LayoutFacts
<1>4. CASE Api \/ Packet \/ NcmTake \/ NcmInput \/ NcmFree
  <2>1. /\ pc \notin {"batch", "entries", "release"}
        /\ pc' \notin {"batch", "entries", "release"}
    BY <1>4 DEF Api, Packet, NcmTake, NcmInput, NcmFree
  <2>2. off[1] = 0
    BY <1>2, <2>1 DEF ThreadHolds
  <2> QED
    BY <1>1, <2>1, <2>2, SameLayout DEF ThreadHolds, Hand, Links
<1>5. CASE Open
  <2>1. off[1] > 0 /\ cur.index = row[1] /\ pool[cur.index].count = off[1]
    BY <1>2, <1>5 DEF ThreadHolds, Open
  <2>2. cur'.left = off[1] /\ cur'.index = cur.index
    BY <1>5, <2>1 DEF Open, TypeOK
  <2>3. pc' = "entries"
    BY <1>3, <1>5, <2>1, <2>2 DEF Open
  <2>4. pc = "batch"
    BY <1>5 DEF Open
  <2>5. Links(pool, row, Hand, off[1]) /\ Hand = 0 /\ Hand' = 0
    BY <1>2, <2>3, <2>4 DEF ThreadHolds, Hand
  <2> QED
    BY <1>1, <1>3, <2>1, <2>2, <2>3, <2>5, SameLayout DEF ThreadHolds
<1>6. CASE EntryInput
  <2>1. cur.left = off[1] /\ (off[1] > 0 => cur.index = row[1]) /\ off[1] > 0
    BY <1>2, <1>6 DEF ThreadHolds, EntryInput, EntryLeft
  <2>2. /\ cur'.left = cur.left /\ cur'.index = cur.index
        /\ cur'.next = pool[cur.index].next
    BY <1>6 DEF EntryInput, TypeOK
  <2>3. pc = "entries" /\ pc' = "release" /\ Hand = 0 /\ Hand' = 1
    BY <1>6 DEF EntryInput, Hand
  <2>4. Links(pool, row, 0, off[1])
    BY <1>2, <2>3 DEF ThreadHolds
  <2>5. pool[row[1]].next = IF 1 = off[1] THEN Nil ELSE row[2]
    <3>1. 1 \in 0 + 1 .. off[1] /\ 1 + 1 = 2
      BY <1>3, <2>1
    <3> QED
      BY <2>4, <3>1 DEF Links
  <2>6. Links(pool, row, 1, off[1])
    <3>1. \A j \in 1 + 1 .. off[1] : j \in 0 + 1 .. off[1]
      BY <1>3
    <3> QED
      BY <2>4, <3>1 DEF Links
  <2> QED
    BY <1>1, <1>3, <2>1, <2>2, <2>3, <2>5, <2>6, SameLayout DEF ThreadHolds
<1>7. CASE EntriesDone
  <2>1. off[1] = 0
    <3> SUFFICES ASSUME off[1] # 0 PROVE FALSE
      OBVIOUS
    <3>1. cur.left = off[1] /\ cur.index = row[1] /\ off[1] > 0
      BY <1>2, <1>3, <1>7 DEF ThreadHolds, EntriesDone
    <3>2. 1 \in 1 .. e /\ 1 \in 1 .. PoolSize
      BY <1>3, <3>1, LayoutFacts
    <3>3. pool[row[1]].queued /\ row[1] # Nil
      BY <3>2, LayoutFacts DEF Layout
    <3> QED
      BY <1>7, <3>1, <3>3 DEF EntriesDone, EntryLeft
  <2>2. pc' = "retry"
    BY <1>7 DEF EntriesDone
  <2> QED
    BY <1>1, <2>1, <2>2, SameLayout DEF ThreadHolds, Hand, Links
<1> QED
  BY <1>4, <1>5, <1>6, <1>7

\* A message that holds no entry comes behind the others.
LEMMA AppendLayout ==
  ASSUME NEW row, NEW e, NEW off, TypeOK, Layout(row, e, off),
         UNCHANGED <<pool, free, batch, pc, cur>>,
         NEW m \in Message, m.type \notin {"batch", "entry"},
         mbox' = Append(mbox, m),
         NEW off2, off2 = Added(off, Len(mbox), off[Len(mbox) + 1])
  PROVE  Layout(row, e, off2)'
<1> DEFINE n == Len(mbox)
           z == off[n + 1]
<1>1. /\ n \in Nat /\ z \in 0 .. e /\ e \in Nat /\ mbox \in Seq(Message)
      /\ off[1] \in Nat
  BY LayoutFacts, TypeFacts
<1>2. MboxHolds(pool, mbox, row, off, e)
  BY DEF Layout
<1>3. MsgHolds(pool, m, row, z, z)
  BY <1>1 DEF MsgHolds, Links
<1>4. MboxHolds(pool, mbox', row, off2, e)
  <2>1. z <= z /\ e <= e
    BY <1>1
  <2> QED
    BY <1>1, <1>2, <1>3, <2>1, AppendHolds
<1>5. Len(mbox') = n + 1 /\ off2[1] = off[1] /\ off2[n + 1 + 1] = z
  BY <1>1 DEF Added
<1>6. ThreadHolds(row, off[1])'
  BY <1>1, ThreadFrame DEF Layout
<1> HIDE DEF n
<1> QED
  BY <1>4, <1>5, <1>6 DEF Layout, n

\* The marker comes before the others.
Led(off, n) == [k \in 1 .. n + 2 |-> IF k = 1 THEN off[1] ELSE off[k - 1]]

LEMMA MarkerLayout ==
  ASSUME NEW row, NEW e, NEW off, TypeOK, Layout(row, e, off),
         UNCHANGED <<pool, free, batch, pc, cur>>,
         mbox' = <<Marker>> \o mbox,
         NEW off2, off2 = Led(off, Len(mbox))
  PROVE  Layout(row, e, off2)'
<1> DEFINE n == Len(mbox)
<1>1. /\ n \in Nat /\ e \in Nat /\ mbox \in Seq(Message) /\ off[1] \in 0 .. e
      /\ \A k \in 1 .. n + 1 : off[k] \in 0 .. e
  BY LayoutFacts, TypeFacts
<1>2. /\ \A k, l \in 1 .. n + 1 : k <= l => off[k] <= off[l]
      /\ \A k \in 1 .. n : MsgHolds(pool, mbox[k], row, off[k], off[k + 1])
  BY DEF Layout, MboxHolds
<1>3. /\ Len(mbox') = n + 1 /\ mbox'[1] = Marker
      /\ \A k \in 2 .. n + 1 : mbox'[k] = mbox[k - 1]
  BY <1>1
<1>4. /\ DOMAIN off2 = 1 .. n + 2 /\ off2[1] = off[1]
      /\ \A k \in 2 .. n + 2 : off2[k] = off[k - 1] /\ k - 1 \in 1 .. n + 1
  BY <1>1 DEF Led
<1>0. off2 = [k \in 1 .. n + 2 |-> off2[k]]
  BY <1>1 DEF Led
<1> HIDE DEF n
<1>5. \A k \in 1 .. n + 2 : off2[k] \in 0 .. e
  <2> TAKE k \in 1 .. n + 2
  <2>1. k = 1 \/ k \in 2 .. n + 2
    BY <1>1
  <2> QED
    BY <1>1, <1>4, <2>1
<1>6. off2 \in [1 .. n + 2 -> 0 .. e]
  BY <1>0, <1>5
<1>7. ASSUME NEW k \in 1 .. n + 2, NEW l \in 1 .. n + 2, k <= l
      PROVE  off2[k] <= off2[l]
  <2>1. 1 \in 1 .. n + 1 /\ off[1] <= off[1]
    BY <1>1
  <2>2. CASE k = 1 /\ l = 1
    BY <2>1, <2>2, <1>4
  <2>3. CASE k = 1 /\ l # 1
    <3>1. l \in 2 .. n + 2 /\ l - 1 \in 1 .. n + 1 /\ 1 <= l - 1
      BY <1>1, <2>3
    <3> QED
      BY <1>2, <1>4, <2>1, <2>3, <3>1
  <2>4. CASE k # 1
    <3>1. k \in 2 .. n + 2 /\ l \in 2 .. n + 2 /\ k - 1 <= l - 1
      BY <1>1, <1>7, <2>4
    <3> QED
      BY <1>2, <1>4, <3>1
  <2> QED
    BY <2>2, <2>3, <2>4
<1>8. ASSUME NEW k \in 1 .. n + 1
      PROVE  MsgHolds(pool, mbox'[k], row, off2[k], off2[k + 1])
  <2>1. CASE k = 1
    <3>1. 2 \in 2 .. n + 2 /\ 2 - 1 = 1 /\ 1 + 1 = 2
      BY <1>1
    <3>2. off2[k] = off[1] /\ off2[k + 1] = off[1]
      BY <1>4, <2>1, <3>1
    <3>3. MsgHolds(pool, Marker, row, off[1], off[1])
      BY <1>1 DEF MsgHolds, Links, Marker, Msg
    <3>4. mbox'[k] = Marker
      BY <1>3, <2>1
    <3> QED
      BY ONLY <3>2, <3>3, <3>4, Zenon
  <2>2. CASE k # 1
    <3>1. /\ k \in 2 .. n + 1 /\ k \in 2 .. n + 2 /\ k + 1 \in 2 .. n + 2
          /\ k - 1 \in 1 .. n /\ k + 1 - 1 = k /\ k - 1 + 1 = k
      BY <1>1, <2>2
    <3>2. off2[k] = off[k - 1] /\ off2[k + 1] = off[k] /\ mbox'[k] = mbox[k - 1]
      BY <1>3, <1>4, <3>1
    <3>3. MsgHolds(pool, mbox[k - 1], row, off[k - 1], off[k - 1 + 1])
      BY <1>2, <3>1, Zenon
    <3>4. MsgHolds(pool, mbox[k - 1], row, off[k - 1], off[k])
      BY <3>1, <3>3
    <3> QED
      BY ONLY <3>2, <3>4, Zenon
  <2> QED
    BY <2>1, <2>2, Zenon
<1>9. off2[n + 2] = off[n + 1]
  <2>1. n + 2 \in 2 .. n + 2 /\ n + 2 - 1 = n + 1
    BY <1>1
  <2>2. off2[n + 2] = off[n + 2 - 1]
    BY ONLY <1>1, <1>4, <2>1
  <2> QED
    BY <2>1, <2>2
<1>10. n + 1 + 1 = n + 2
  BY <1>1
<1>11. MboxHolds(pool, mbox', row, off2, e)
  BY <1>3, <1>6, <1>7, <1>8, <1>10 DEF MboxHolds
<1>12. ThreadHolds(row, off[1])'
  BY <1>1, ThreadFrame DEF Layout
<1> QED
  BY <1>3, <1>4, <1>9, <1>10, <1>11, <1>12 DEF Layout, n

\* The thread takes the entries of the first message.
Fetched(off, n) == [k \in 1 .. n |-> off[k + 1]]

LEMMA FetchLayout ==
  ASSUME NEW row, NEW e, NEW off, TypeOK, Layout(row, e, off), Fetch,
         NEW off2, off2 = Fetched(off, Len(mbox))
  PROVE  Layout(row, e, off2)'
<1> DEFINE n == Len(mbox)
           m == mbox[1]
<1>1. /\ n \in Nat /\ n > 0 /\ mbox' = Tail(mbox) /\ pc = "fetch"
      /\ UNCHANGED <<pool, free, batch>> /\ m \in Message
      /\ Len(mbox') = n - 1
      /\ \A k \in 1 .. n - 1 : mbox'[k] = mbox[k + 1]
  BY TypeFacts DEF Fetch, wlanVars
<1>2. /\ row \in Row /\ e \in Nat /\ e <= PoolSize
      /\ \A k \in 1 .. n + 1 : off[k] \in 0 .. e
  BY LayoutFacts DEF Layout
<1>3. /\ \A k, l \in 1 .. n + 1 : k <= l => off[k] <= off[l]
      /\ \A k \in 1 .. n : MsgHolds(pool, mbox[k], row, off[k], off[k + 1])
  BY DEF Layout, MboxHolds
<1>4. off[1] = 0
  BY <1>1 DEF Layout, ThreadHolds
<1>5. /\ off2 = [k \in 1 .. n |-> off[k + 1]]
      /\ \A k \in 1 .. n : off2[k] = off[k + 1] /\ k + 1 \in 1 .. n + 1
  BY <1>1 DEF Fetched
<1>6. m = Head(mbox)
  BY <1>1
<1>7. ThreadHolds(row, off2[1])'
  <2>1. 1 \in 1 .. n /\ 1 + 1 = 2 /\ off2[1] = off[2] /\ off[2] \in 0 .. e
    BY <1>1, <1>2, <1>5
  <2>2. MsgHolds(pool, m, row, 0, off[2])
    BY <1>3, <1>4, <2>1
  <2>3. Links(pool, row, 0, off[2])
    BY <2>2 DEF MsgHolds
  <2>4. CASE m.type = "batch"
    <3>1. pc' = "batch" /\ cur'.index = m.arg
      BY <1>6, <2>4 DEF Fetch, Idle
    <3>2. Hand' = 0 /\ off[2] > 0 /\ m.arg = row[1] /\ pool[m.arg].count = off[2]
      BY <2>1, <2>2, <2>4, <3>1 DEF MsgHolds, Hand
    <3> QED
      BY <1>1, <2>1, <2>3, <3>1, <3>2 DEF ThreadHolds
  <2>5. CASE m.type = "entry"
    <3>1. pc' = "entries" /\ cur'.index = m.arg /\ cur'.left = 1
      BY <1>6, <2>5 DEF Fetch, Idle
    <3>2. Hand' = 0 /\ off[2] = 1 /\ m.arg = row[1]
      BY <2>1, <2>2, <2>5, <3>1 DEF MsgHolds, Hand
    <3> QED
      BY <1>1, <2>1, <2>3, <3>1, <3>2 DEF ThreadHolds
  <2>6. CASE m.type \notin {"batch", "entry"}
    <3>1. pc' \in {"packet", "marker", "api"}
      <4>1. m.type \in {"packet", "marker", "api"}
        BY <1>1, <2>6 DEF Message
      <4> QED
        BY <1>6, <4>1 DEF Fetch
    <3>2. Hand' = 0 /\ off[2] = 0
      BY <2>2, <2>6, <3>1 DEF MsgHolds, Hand
    <3> QED
      BY <1>1, <2>1, <2>3, <3>1, <3>2 DEF ThreadHolds
  <2> QED
    BY <2>4, <2>5, <2>6
<1> HIDE DEF n, m
<1>8. MboxHolds(pool', mbox', row, off2, e)
  <2>1. n - 1 + 1 = n
    BY <1>1
  <2>2. off2 \in [1 .. n -> 0 .. e]
    BY <1>2, <1>5
  <2>3. ASSUME NEW k \in 1 .. n, NEW l \in 1 .. n, k <= l
        PROVE  off2[k] <= off2[l]
    <3>1. k + 1 <= l + 1
      BY <2>3, <1>1
    <3> QED
      BY <1>3, <1>5, <3>1
  <2>4. ASSUME NEW k \in 1 .. n - 1
        PROVE  MsgHolds(pool', mbox'[k], row, off2[k], off2[k + 1])
    <3>1. k \in 1 .. n /\ k + 1 \in 1 .. n
      BY <1>1
    <3> QED
      BY <1>1, <1>3, <1>5, <3>1
  <2> QED
    BY <1>1, <2>1, <2>2, <2>3, <2>4 DEF MboxHolds
<1>9. off2[n - 1 + 1] = off[n + 1]
  <2>1. n - 1 + 1 = n /\ n \in 1 .. n
    BY <1>1
  <2> QED
    BY <1>5, <2>1
<1> QED
  BY <1>1, <1>2, <1>7, <1>8, <1>9 DEF Layout, n

LEMMA MboxWiden ==
  ASSUME NEW row, NEW e \in Nat, NEW f \in Nat, e <= f, NEW off, NEW p, NEW q \in Seq(Message),
         MboxHolds(p, q, row, off, e)
  PROVE  MboxHolds(p, q, row, off, f)
<1>1. \A k \in 0 .. e : k \in 0 .. f
  OBVIOUS
<1>2. off \in [1 .. Len(q) + 1 -> 0 .. f]
  BY <1>1 DEF MboxHolds
<1> QED
  BY <1>2 DEF MboxHolds

LEMMA FreeFacts ==
  ASSUME NEW row, NEW e, NEW off, TypeOK, Layout(row, e, off)
  PROVE  /\ free = <<>> <=> e = PoolSize
         /\ free # <<>> => /\ e + 1 \in 1 .. PoolSize
                           /\ Head(free) = row[e + 1]
                           /\ Tail(free) = Seg(row, e + 1, PoolSize)
<1>1. e \in Nat /\ e <= PoolSize /\ PoolSize \in Nat /\ free = Seg(row, e, PoolSize)
  BY LayoutFacts DEF Layout
<1>2. Len(free) = PoolSize - e
  BY <1>1 DEF Seg
<1>3. free \in Seq(Entries)
  BY DEF TypeOK
<1>4. free = <<>> <=> e = PoolSize
  BY <1>1, <1>2, <1>3
<1>5. ASSUME free # <<>>
      PROVE  /\ e + 1 \in 1 .. PoolSize
             /\ Head(free) = row[e + 1]
             /\ Tail(free) = Seg(row, e + 1, PoolSize)
  <2>1. e + 1 \in 1 .. PoolSize /\ 1 \in 1 .. PoolSize - e
    BY <1>1, <1>4, <1>5
  <2>2. Head(free) = row[e + 1]
    BY <1>1, <1>3, <1>5, <2>1 DEF Seg
  <2>3. Len(free) - 1 = PoolSize - (e + 1)
    BY <1>1, <1>2
  <2>4. ASSUME NEW j \in 1 .. PoolSize - (e + 1)
        PROVE  row[e + 1 + j] = free[j + 1]
    <3>1. j + 1 \in 1 .. PoolSize - e /\ e + (j + 1) = e + 1 + j
      BY <1>1
    <3> QED
      BY <1>1, <3>1 DEF Seg
  <2>5. Seg(row, e + 1, PoolSize) = Tail(free)
    <3> DEFINE s == Seg(row, e + 1, PoolSize)
               n == PoolSize - (e + 1)
    <3>1. n \in Nat /\ s = [j \in 1 .. n |-> row[e + 1 + j]]
      BY <1>1, <1>5, <1>4 DEF Seg
    <3>2. /\ Tail(free) \in Seq(Entries) /\ Len(Tail(free)) = n
          /\ \A j \in 1 .. n : Tail(free)[j] = free[j + 1]
      BY <1>3, <1>5, <2>3
    <3>3. \A j \in 1 .. n : row[e + 1 + j] \in Entries
      <4> TAKE j \in 1 .. n
      <4>1. e + 1 + j \in 1 .. PoolSize
        BY <1>1
      <4> QED
        BY <4>1, LayoutFacts
    <3>4. s \in Seq(Entries) /\ Len(s) = n /\ \A j \in 1 .. n : s[j] = row[e + 1 + j]
      BY <3>1, <3>3
    <3> HIDE DEF s
    <3>5. \A j \in 1 .. n : s[j] = Tail(free)[j]
      BY <2>4, <3>2, <3>4
    <3> QED
      BY ONLY <3>2, <3>4, <3>5, SeqEqual DEF s
  <2> QED
    BY <2>1, <2>2, <2>5
<1> QED
  BY <1>4, <1>5

LEMMA FilledIs ==
  ASSUME pool \in Pool, NEW i \in Entries, NEW x \in Packets
  PROVE  /\ Filled(i, x) \in Pool
         /\ Filled(i, x)[i].pkt = x /\ Filled(i, x)[i].next = Nil /\ Filled(i, x)[i].queued
         /\ \A k \in Entries : k # i => Filled(i, x)[k] = pool[k]
<1> DEFINE n == [pool[i] EXCEPT !.pkt = x, !.next = Nil, !.queued = TRUE]
           p == [pool EXCEPT ![i] = n]
<1>1. pool[i] \in Entry
  BY DEF Pool
<1>2. n \in Entry /\ n.pkt = x /\ n.next = Nil /\ n.queued
  BY <1>1 DEF Entry
<1>3. Filled(i, x) = p
  BY DEF Filled, Pool, Entry
<1>4. p[i] = n /\ p \in Pool /\ \A k \in Entries : k # i => p[k] = pool[k]
  <2> HIDE DEF n
  <2> QED
    BY <1>2 DEF Pool
<1> HIDE DEF p, n
<1> QED
  BY <1>2, <1>3, <1>4

Unqueued(p, i) == [p EXCEPT ![i].queued = FALSE]

LEMMA UnqueuedIs ==
  ASSUME NEW p \in Pool, NEW i \in Entries
  PROVE  /\ Unqueued(p, i) \in Pool
         /\ \A k \in Entries : /\ k # i => Unqueued(p, i)[k] = p[k]
                               /\ Unqueued(p, i)[k].next = p[k].next
                               /\ Unqueued(p, i)[k].count = p[k].count
                               /\ Unqueued(p, i)[k].pkt = p[k].pkt
<1> DEFINE n == [p[i] EXCEPT !.queued = FALSE]
           q == Unqueued(p, i)
<1>1. p[i] \in Entry
  BY DEF Pool
<1>2. n \in Entry /\ n.next = p[i].next /\ n.count = p[i].count /\ n.pkt = p[i].pkt
  BY <1>1 DEF Entry
<1>3. q = [p EXCEPT ![i] = n]
  BY DEF Pool, Entry, Unqueued
<1> HIDE DEF n, q
<1>4. q[i] = n /\ q \in Pool /\ \A k \in Entries : k # i => q[k] = p[k]
  BY <1>2, <1>3 DEF Pool
<1>5. \A k \in Entries : /\ k # i => q[k] = p[k]
                         /\ q[k].next = p[k].next /\ q[k].count = p[k].count
                        /\ q[k].pkt = p[k].pkt
  BY <1>2, <1>4
<1> QED
  BY <1>4, <1>5 DEF q

\* A packet joins the batch in the first free entry.
LEMMA GrowHolds ==
  ASSUME NEW row, NEW e, NEW off, TypeOK, Layout(row, e, off),
         free # <<>>, NEW x \in Packets,
         NEW i, i = Head(free),
         NEW b, b = Grown(batch, i),
         NEW p, p = Linked(batch, Filled(i, x), i)
  PROVE  /\ p \in Pool /\ b \in Batch /\ b.count > 0
         /\ MboxHolds(p, mbox, row, off, e + 1)
         /\ BatchHolds(p, b, row, off[Len(mbox) + 1], e + 1)
         /\ p[i].pkt = x
         /\ \A j \in 1 .. e : /\ p[row[j]].queued = pool[row[j]].queued
                              /\ p[row[j]].pkt = pool[row[j]].pkt
         /\ \A j \in 1 .. e + 1 : p[row[j]].queued /\ p[row[j]].pkt \in Packets
         /\ \A j \in 1 .. off[Len(mbox) + 1] : p[row[j]] = pool[row[j]]
<1> DEFINE a == off[Len(mbox) + 1]
           p1 == Filled(i, x)
<1>1. /\ e + 1 \in 1 .. PoolSize /\ i = row[e + 1] /\ i \in Entries /\ e \in Nat
      /\ a \in 0 .. e /\ PoolSize \in Nat
      /\ \A j \in 1 .. PoolSize : row[j] \in Entries /\ row[j] # Nil
      /\ \A k, j \in 1 .. PoolSize : row[k] = row[j] => k = j
  BY FreeFacts, LayoutFacts
<1>2. /\ pool \in Pool /\ batch \in Batch /\ mbox \in Seq(Message)
  BY TypeFacts
<1>3. /\ batch.count = e - a
      /\ a = e => batch = NoBatch
      /\ a < e => batch.head = row[a + 1] /\ batch.tail = row[e]
      /\ Links(pool, row, a, e)
      /\ MboxHolds(pool, mbox, row, off, e)
      /\ \A j \in 1 .. e : pool[row[j]].queued /\ pool[row[j]].pkt \in Packets
  BY DEF Layout, BatchHolds
<1> HIDE DEF a
<1>4. /\ p1 \in Pool
      /\ p1[i].pkt = x /\ p1[i].next = Nil /\ p1[i].queued
      /\ \A k \in Entries : k # i => p1[k] = pool[k]
  BY <1>1, <1>2, FilledIs DEF Entry
<1> HIDE DEF p1
<1>5. CASE a = e
  <2>1. batch.tail = Nil /\ batch.count = 0
    BY <1>1, <1>3, <1>5 DEF NoBatch
  <2>2. p = p1 /\ b = [head |-> i, tail |-> i, count |-> 1]
    BY <2>1 DEF Linked, Grown, p1
  <2>3. b \in Batch /\ b.count > 0
    BY <1>1, <2>2 DEF Batch
  <2>4. \A j \in 1 .. e : p[row[j]] = pool[row[j]]
    <3> TAKE j \in 1 .. e
    <3>1. j \in 1 .. PoolSize /\ j # e + 1
      BY <1>1
    <3> QED
      BY <1>1, <1>4, <2>2, <3>1
  <2>5. MboxHolds(p, mbox, row, off, e)
    <3>1. \A j \in 1 .. off[Len(mbox) + 1] :
            p[row[j]].next = pool[row[j]].next /\ p[row[j]].count = pool[row[j]].count
      BY <1>5, <2>4 DEF a
    <3> QED
      BY <1>1, <1>2, <1>3, <3>1, MboxFrame
  <2>6. MboxHolds(p, mbox, row, off, e + 1)
    <3>1. e + 1 \in Nat /\ e <= e + 1
      BY <1>1
    <3> QED
      BY <1>1, <1>2, <2>5, <3>1, MboxWiden
  <2>7. BatchHolds(p, b, row, a, e + 1)
    <3>1. Links(p, row, a, e + 1)
      <4>1. \A j \in a + 1 .. e + 1 : j = e + 1
        BY <1>1, <1>5
      <4> QED
        BY <1>1, <1>4, <2>2, <4>1 DEF Links
    <3>2. a + 1 = e + 1 /\ a < e + 1 /\ e + 1 - a = 1
      BY <1>1, <1>5
    <3> QED
      BY <1>1, <2>2, <3>1, <3>2 DEF BatchHolds
  <2>8. \A j \in 1 .. e + 1 : p[row[j]].queued /\ p[row[j]].pkt \in Packets
    <3> TAKE j \in 1 .. e + 1
    <3>1. j = e + 1 \/ j \in 1 .. e
      BY <1>1
    <3> QED
      BY <1>1, <1>3, <1>4, <2>2, <2>4, <3>1
  <2> QED
    BY <1>4, <1>5, <2>2, <2>3, <2>4, <2>6, <2>7, <2>8 DEF a
<1>6. CASE a # e
  <2>1. /\ a < e /\ e \in 1 .. PoolSize /\ a + 1 \in 1 .. PoolSize
        /\ batch.tail = row[e] /\ batch.head = row[a + 1] /\ row[e] # Nil
        /\ row[e] # i /\ row[e] \in Entries
    BY <1>1, <1>3, <1>6
  <2>2. p = [p1 EXCEPT ![row[e]].next = i]
    BY <2>1 DEF Linked, p1
  <2>3. /\ p \in Pool
        /\ p[row[e]].next = i
        /\ p[row[e]].queued = pool[row[e]].queued /\ p[row[e]].pkt = pool[row[e]].pkt
        /\ \A k \in Entries : k # row[e] => p[k] = p1[k]
    BY <1>1, <1>4, <2>1, <2>2 DEF Pool, Entry
  <2>4. b = [head |-> row[a + 1], tail |-> i, count |-> e - a + 1]
    BY <1>3, <2>1 DEF Grown
  <2>5. b \in Batch /\ b.count > 0
    BY <1>1, <2>1, <2>4 DEF Batch
  <2>6. \A j \in 1 .. e : j # e => p[row[j]] = pool[row[j]]
    <3> TAKE j \in 1 .. e
    <3> HAVE j # e
    <3>1. j \in 1 .. PoolSize /\ j # e + 1 /\ e \in 1 .. PoolSize /\ e + 1 \in 1 .. PoolSize
      BY <1>1, <2>1
    <3>2. row[j] \in Entries /\ row[j] # row[e] /\ row[j] # i
      BY <1>1, <3>1
    <3> QED
      BY <1>4, <2>3, <3>2
  <2>7. \A j \in 1 .. a : j \in 1 .. e /\ j # e
    BY <1>1, <2>1
  <2>8. MboxHolds(p, mbox, row, off, e)
    <3>1. \A j \in 1 .. off[Len(mbox) + 1] :
            p[row[j]].next = pool[row[j]].next /\ p[row[j]].count = pool[row[j]].count
      BY <2>6, <2>7 DEF a
    <3> QED
      BY <1>1, <1>2, <1>3, <3>1, MboxFrame
  <2>9. MboxHolds(p, mbox, row, off, e + 1)
    <3>1. e + 1 \in Nat /\ e <= e + 1
      BY <1>1
    <3> QED
      BY <1>1, <1>2, <2>8, <3>1, MboxWiden
  <2>10. Links(p, row, a, e + 1)
    <3> SUFFICES ASSUME NEW j \in a + 1 .. e + 1
                 PROVE  p[row[j]].next = IF j = e + 1 THEN Nil ELSE row[j + 1]
      BY DEF Links
    <3>1. CASE j = e + 1
      BY <1>1, <1>4, <2>1, <2>3, <3>1
    <3>2. CASE j = e
      BY <1>1, <2>3, <3>2
    <3>3. CASE j # e /\ j # e + 1
      <4>1. j \in 1 .. e /\ j \in a + 1 .. e
        BY <1>1, <3>3
      <4>2. p[row[j]] = pool[row[j]]
        BY <2>6, <3>3, <4>1
      <4>3. pool[row[j]].next = row[j + 1]
        BY <1>3, <3>3, <4>1 DEF Links
      <4> QED
        BY <3>3, <4>2, <4>3
    <3> QED
      BY <3>1, <3>2, <3>3
  <2>11. BatchHolds(p, b, row, a, e + 1)
    <3>1. a # e + 1 /\ e + 1 - a = e - a + 1
      BY <1>1
    <3> QED
      BY <1>1, <2>4, <2>10, <3>1 DEF BatchHolds
  <2>12. \A j \in 1 .. e : /\ p[row[j]].queued = pool[row[j]].queued
                           /\ p[row[j]].pkt = pool[row[j]].pkt
    BY <2>3, <2>6
  <2>13. p[i] = p1[i]
    BY <1>1, <2>1, <2>3
  <2>14. \A j \in 1 .. e + 1 : p[row[j]].queued /\ p[row[j]].pkt \in Packets
    <3> TAKE j \in 1 .. e + 1
    <3>1. j = e + 1 \/ j \in 1 .. e
      BY <1>1
    <3> QED
      BY <1>1, <1>3, <1>4, <2>12, <2>13, <3>1
  <2> QED
    BY <1>4, <2>3, <2>5, <2>6, <2>7, <2>9, <2>11, <2>12, <2>13, <2>14 DEF a
<1> QED
  BY <1>5, <1>6

LEMMA NextPacketFacts ==
  ASSUME TypeOK, NEW w \in WlanTasks, NextPacket(w)
  PROVE  /\ sent.wlan \in Nat /\ sent'.wlan = sent.wlan + 1 /\ sent'.wlan \in Packets
         /\ sent'.ncm = sent.ncm /\ sent'.other = sent.other
         /\ sent' \in [wlan : 0 .. MaxWlan, ncm : 0 .. MaxNcm, other : 0 .. MaxOther]
         /\ falling[w] = Nil
         /\ before' = [before EXCEPT ![sent'.wlan] = Accepted]
<1>1. sent \in [wlan : 0 .. MaxWlan, ncm : 0 .. MaxNcm, other : 0 .. MaxOther]
  BY DEF TypeOK
<1>2. sent.wlan < MaxWlan /\ sent' = [sent EXCEPT !.wlan = sent.wlan + 1] /\ MaxWlan \in Nat
  BY SizesAssumption DEF NextPacket
<1>3. sent.wlan \in Nat /\ sent.wlan + 1 \in 0 .. MaxWlan /\ sent.wlan + 1 \in 1 .. MaxWlan
  BY <1>1, <1>2
<1>4. sent' \in [wlan : 0 .. MaxWlan, ncm : 0 .. MaxNcm, other : 0 .. MaxOther]
  BY <1>1, <1>2, <1>3
<1>5. sent'.wlan = sent.wlan + 1 /\ sent'.ncm = sent.ncm /\ sent'.other = sent.other
  BY <1>1, <1>2
<1> QED
  BY <1>3, <1>4, <1>5 DEF NextPacket, Packets

LEMMA InpktLayout ==
  ASSUME NEW row, NEW e, NEW off, TypeOK, Layout(row, e, off),
         NEW w \in WlanTasks, Inpkt(w),
         NEW b, b = Grown(batch, Head(free)),
         NEW f, f = e + 1,
         NEW off2, off2 = IF b.count >= MaxBatch THEN Sealed(b, off, mbox, f) ELSE off
  PROVE  /\ Layout(row, f, off2)'
         /\ pool' \in Pool /\ batch' \in Batch
         /\ mbox' \in Seq(Message) /\ Len(mbox') <= MboxSize
         /\ off2[1] = off[1]
         /\ pool'[Head(free)].pkt = sent'.wlan
         /\ \A j \in 1 .. e : pool'[row[j]].pkt = pool[row[j]].pkt
<1> DEFINE i == Head(free)
           x == sent'.wlan
           p == Linked(batch, Filled(i, x), i)
           r == Posted(b, p, mbox)
<1>1. /\ free # <<>> /\ x \in Packets /\ free' = Tail(free)
      /\ UNCHANGED <<pc, cur>>
      /\ IF b.count >= MaxBatch
         THEN batch' = r.batch /\ pool' = r.pool /\ mbox' = r.mbox
         ELSE batch' = b /\ pool' = p /\ mbox' = mbox
  <2>1. NextPacket(w)
    BY DEF Inpkt
  <2>2. x \in Packets
    BY <2>1, NextPacketFacts
  <2> HIDE DEF x
  <2>3. x = sent'.wlan
    BY DEF x
  <2> QED
    BY <2>2, <2>3 DEF Inpkt
<1>2. /\ p \in Pool /\ b \in Batch /\ b.count > 0
      /\ MboxHolds(p, mbox, row, off, f)
      /\ BatchHolds(p, b, row, off[Len(mbox) + 1], f)
      /\ p[i].pkt = x
      /\ \A j \in 1 .. e : /\ p[row[j]].queued = pool[row[j]].queued
                           /\ p[row[j]].pkt = pool[row[j]].pkt
      /\ \A j \in 1 .. f : p[row[j]].queued /\ p[row[j]].pkt \in Packets
      /\ \A j \in 1 .. off[Len(mbox) + 1] : p[row[j]] = pool[row[j]]
  BY <1>1, GrowHolds
<1>3. /\ row \in Row /\ f \in 0 .. PoolSize /\ Tail(free) = Seg(row, f, PoolSize)
      /\ i \in Entries /\ e \in Nat
      /\ \A j \in 1 .. f : row[j] \in Entries
      /\ off[1] \in Nat /\ \A j \in 1 .. off[1] : j \in 1 .. off[Len(mbox) + 1]
      /\ mbox \in Seq(Message) /\ Len(mbox) <= MboxSize
  <2>1. e + 1 \in 1 .. PoolSize /\ i = row[e + 1] /\ Tail(free) = Seg(row, f, PoolSize)
    BY <1>1, FreeFacts
  <2> HIDE DEF i
  <2>2. /\ e \in Nat /\ PoolSize \in Nat /\ \A j \in 1 .. PoolSize : row[j] \in Entries
        /\ off[1] \in Nat /\ off[Len(mbox) + 1] \in Nat /\ off[1] <= off[Len(mbox) + 1]
    BY LayoutFacts
  <2>3. f \in 0 .. PoolSize /\ i \in Entries /\ \A j \in 1 .. f : row[j] \in Entries
    BY <2>1, <2>2
  <2>4. \A j \in 1 .. off[1] : j \in 1 .. off[Len(mbox) + 1]
    BY <2>2
  <2>5. row \in Row
    BY DEF Layout
  <2> QED
    BY <2>1, <2>2, <2>3, <2>4, <2>5, TypeFacts
<1>4. ThreadHolds(row, off[1])
  BY DEF Layout
<1> HIDE DEF p, r, i, x
<1>5. CASE b.count >= MaxBatch
  <2>1. off2 = Sealed(b, off, mbox, f)
    BY <1>5
  <2>2. batch' = r.batch /\ pool' = r.pool /\ mbox' = r.mbox
    BY <1>1, <1>5
  <2>3. /\ r.pool \in Pool /\ r.batch \in Batch
        /\ r.mbox \in Seq(Message) /\ Len(r.mbox) <= MboxSize
        /\ off2[1] = off[1]
        /\ MboxHolds(r.pool, r.mbox, row, off2, f)
        /\ BatchHolds(r.pool, r.batch, row, off2[Len(r.mbox) + 1], f)
        /\ \A k \in Entries : /\ r.pool[k].next = p[k].next
                              /\ r.pool[k].queued = p[k].queued
                              /\ r.pool[k].pkt = p[k].pkt
        /\ \A j \in 1 .. off[Len(mbox) + 1] : r.pool[row[j]] = p[row[j]]
    <3>2. /\ row \in Row /\ f \in 0 .. PoolSize /\ p \in Pool /\ b \in Batch
          /\ mbox \in Seq(Message) /\ Len(mbox) <= MboxSize
          /\ MboxHolds(p, mbox, row, off, f)
          /\ BatchHolds(p, b, row, off[Len(mbox) + 1], f)
      BY <1>2, <1>3
    <3> QED
      BY ONLY <2>1, <3>2, PostedHolds DEF r
  <2>4. ThreadHolds(row, off[1])'
    <3>1. \A j \in 1 .. off[1] : /\ pool'[row[j]].next = pool[row[j]].next
                                 /\ pool'[row[j]].count = pool[row[j]].count
      BY <1>2, <1>3, <2>2, <2>3
    <3> QED
      BY <1>1, <1>3, <1>4, <3>1, ThreadFrame
  <2>5. \A j \in 1 .. f : pool'[row[j]].queued /\ pool'[row[j]].pkt \in Packets
    BY <1>2, <1>3, <2>2, <2>3
  <2>6. \A j \in 1 .. e : j \in 1 .. f
    BY <1>3
  <2>7. \A j \in 1 .. e : pool'[row[j]].pkt = pool[row[j]].pkt
    BY <1>2, <1>3, <2>2, <2>3, <2>6
  <2>8. Layout(row, f, off2)'
    BY <1>1, <1>3, <2>2, <2>3, <2>4, <2>5 DEF Layout
  <2>9. pool'[i].pkt = x
    BY <1>2, <1>3, <2>2, <2>3
  <2> QED
    BY <2>2, <2>3, <2>7, <2>8, <2>9 DEF i, x
<1>6. CASE ~(b.count >= MaxBatch)
  <2>1. off2 = off /\ batch' = b /\ pool' = p /\ mbox' = mbox
    BY <1>1, <1>6
  <2>2. ThreadHolds(row, off[1])'
    <3>1. \A j \in 1 .. off[1] : /\ pool'[row[j]].next = pool[row[j]].next
                                 /\ pool'[row[j]].count = pool[row[j]].count
      BY <1>2, <1>3, <2>1
    <3> QED
      BY <1>1, <1>3, <1>4, <3>1, ThreadFrame
  <2>3. Layout(row, f, off2)'
    BY <1>1, <1>2, <1>3, <2>1, <2>2 DEF Layout
  <2> QED
    BY <1>2, <1>3, <2>1, <2>3 DEF i, x
<1> QED
  BY <1>5, <1>6

LEMMA InpktAloneLayout ==
  ASSUME NEW row, NEW e, NEW off, TypeOK, Alone, Layout(row, e, off),
         NEW w \in WlanTasks, InpktAlone(w)
  PROVE  /\ pool' \in Pool /\ batch' \in Batch
         /\ mbox' \in Seq(Message) /\ Len(mbox') <= MboxSize
         /\ Full(mbox) => Layout(row, e, off)'
         /\ ~Full(mbox) => \A off2 : off2 = Added(off, Len(mbox), e + 1) =>
                             Layout(row, e + 1, off2)'
         /\ pool'[Head(free)].pkt = sent'.wlan
         /\ \A j \in 1 .. e : pool'[row[j]].pkt = pool[row[j]].pkt
<1> DEFINE i == Head(free)
           x == sent'.wlan
           n == Len(mbox)
           p1 == Filled(i, x)
<1>1. /\ free # <<>> /\ x \in Packets /\ batch = NoBatch
      /\ UNCHANGED <<pc, cur, batch>>
  <2>1. NextPacket(w)
    BY DEF InpktAlone
  <2>2. x \in Packets
    BY <2>1, NextPacketFacts
  <2> QED
    BY <2>2 DEF InpktAlone, Alone
<1>2. /\ row \in Row /\ e + 1 \in 1 .. PoolSize /\ i = row[e + 1]
      /\ Tail(free) = Seg(row, e + 1, PoolSize)
      /\ i \in Entries /\ e \in Nat /\ PoolSize \in Nat
      /\ \A j \in 1 .. PoolSize : row[j] \in Entries
      /\ \A k, j \in 1 .. PoolSize : row[k] = row[j] => k = j
      /\ off[1] \in Nat /\ off[1] <= off[n + 1] /\ off[n + 1] \in 0 .. e
      /\ mbox \in Seq(Message) /\ n <= MboxSize /\ n \in Nat
      /\ pool \in Pool
  BY <1>1, FreeFacts, LayoutFacts, TypeFacts DEF Layout
<1>3. ThreadHolds(row, off[1]) /\ MboxHolds(pool, mbox, row, off, e)
  BY DEF Layout
<1>4. off[n + 1] = e
  <2>1. BatchHolds(pool, batch, row, off[n + 1], e)
    BY DEF Layout
  <2>2. batch.count = e - off[n + 1] /\ batch.count = 0
    BY <1>1, <2>1 DEF BatchHolds, NoBatch
  <2> QED
    BY <1>2, <2>2
<1>5. /\ p1 \in Pool
      /\ p1[i].pkt = x /\ p1[i].next = Nil /\ p1[i].queued
      /\ \A k \in Entries : k # i => p1[k] = pool[k]
  BY <1>1, <1>2, FilledIs
<1> HIDE DEF x, p1, i, n
<1>6. \A j \in 1 .. e : j \in 1 .. PoolSize /\ row[j] \in Entries /\ row[j] # i
  <2> TAKE j \in 1 .. e
  <2>1. j \in 1 .. PoolSize /\ j # e + 1
    BY <1>2
  <2> QED
    BY <1>2, <2>1
<1>7. ASSUME NEW p, \A k \in Entries : k # i => p[k] = pool[k]
      PROVE  /\ \A j \in 1 .. e : p[row[j]] = pool[row[j]]
             /\ MboxHolds(p, mbox, row, off, e)
  <2>1. \A j \in 1 .. e : p[row[j]] = pool[row[j]]
    BY <1>6, <1>7
  <2>2. \A j \in 1 .. off[Len(mbox) + 1] :
          p[row[j]].next = pool[row[j]].next /\ p[row[j]].count = pool[row[j]].count
    BY <2>1, <1>4 DEF n
  <2> QED
    BY <1>2, <1>3, <2>1, <2>2, MboxFrame
<1>8. \A p2 : BatchHolds(p2, NoBatch, row, e, e) /\ BatchHolds(p2, NoBatch, row, e + 1, e + 1)
  BY <1>2 DEF BatchHolds, NoBatch, Links
<1>9. batch' = NoBatch /\ batch' \in Batch
  BY <1>1, SizesAssumption DEF Batch, NoBatch
<1>10. \A k \in Entries : k # i => pool'[k] = pool[k]
  <2>1. CASE Full(mbox)
    <3>1. pool' = Unqueued(p1, i)
      BY <2>1 DEF InpktAlone, p1, x, i, Unqueued
    <3> QED
      BY <3>1, <1>2, <1>5, UnqueuedIs
  <2>2. CASE ~Full(mbox)
    <3>1. pool' = p1
      BY <2>2 DEF InpktAlone, p1, x, i
    <3> QED
      BY <3>1, <1>5
  <2> QED
    BY <2>1, <2>2
<1>11. ThreadHolds(row, off[1])'
  <2>1. \A j \in 1 .. off[1] : j \in 1 .. e
    BY <1>2, <1>4
  <2>2. \A j \in 1 .. off[1] : /\ pool'[row[j]].next = pool[row[j]].next
                               /\ pool'[row[j]].count = pool[row[j]].count
    BY <2>1, <1>7, <1>10
  <2> QED
    BY <1>1, <1>2, <1>3, <2>2, ThreadFrame
<1>12. /\ \A j \in 1 .. e : pool'[row[j]] = pool[row[j]]
       /\ \A j \in 1 .. e : pool'[row[j]].queued /\ pool'[row[j]].pkt \in Packets
       /\ MboxHolds(pool', mbox, row, off, e)
  BY <1>7, <1>10 DEF Layout
<1>13. CASE Full(mbox)
  <2>1. /\ pool' = Unqueued(p1, i)
        /\ UNCHANGED <<mbox, free>>
    BY <1>13 DEF InpktAlone, p1, x, i, Unqueued
  <2>2. pool' \in Pool /\ pool'[i].pkt = x
    BY <1>2, <1>5, <2>1, UnqueuedIs
  <2>3. Layout(row, e, off)'
    <3>1. BatchHolds(pool', batch', row, off[n + 1], e)
      BY <1>4, <1>8, <1>9
    <3> QED
      BY <1>11, <1>12, <2>1, <3>1 DEF Layout, n
  <2> QED
    BY <1>2, <1>9, <1>12, <1>13, <2>1, <2>2, <2>3 DEF n, i, x
<1>14. CASE ~Full(mbox)
  <2> DEFINE m == Msg("entry", i)
  <2>1. pool' = p1 /\ free' = Tail(free) /\ mbox' = Append(mbox, m)
    BY <1>14 DEF InpktAlone, p1, x, i
  <2>2. m \in Message /\ m.type = "entry" /\ m.arg = i
    BY <1>2 DEF Msg, Message
  <2> HIDE DEF m
  <2>3. MsgHolds(pool', m, row, e, e + 1)
    <3>1. Links(pool', row, e, e + 1)
      <4>1. \A j \in e + 1 .. e + 1 : j = e + 1
        BY <1>2
      <4> QED
        BY <1>2, <1>5, <2>1, <4>1 DEF Links
    <3> QED
      BY <1>2, <2>2, <3>1 DEF MsgHolds
  <2>4. ASSUME NEW off2, off2 = Added(off, n, e + 1)
        PROVE  Layout(row, e + 1, off2)'
    <3>1. MboxHolds(pool', mbox', row, off2, e + 1)
      <4>1. e + 1 \in Nat /\ e <= e + 1 /\ e + 1 \in 0 .. e + 1 /\ off[Len(mbox) + 1] <= e + 1
        BY <1>2, <1>4 DEF n
      <4>2. MsgHolds(pool', m, row, off[Len(mbox) + 1], e + 1)
        BY <1>4, <2>3 DEF n
      <4>3. off2 = Added(off, Len(mbox), e + 1)
        BY <2>4 DEF n
      <4> QED
        BY <1>2, <1>12, <2>1, <2>2, <4>1, <4>2, <4>3, AppendHolds
    <3>2. /\ off2[1] = off[1] /\ off2[n + 2] = e + 1
          /\ Len(mbox') = n + 1 /\ n + 1 + 1 = n + 2
      <4>1. Len(mbox') = n + 1
        BY <1>2, <2>1, <2>2 DEF n
      <4> QED
        BY <1>2, <2>4, <4>1 DEF Added
    <3>3. \A j \in 1 .. e + 1 : pool'[row[j]].queued /\ pool'[row[j]].pkt \in Packets
      <4> TAKE j \in 1 .. e + 1
      <4>1. j = e + 1 \/ j \in 1 .. e
        BY <1>2
      <4> QED
        BY <1>1, <1>2, <1>5, <1>12, <2>1, <4>1
    <3>4. BatchHolds(pool', batch', row, off2[n + 2], e + 1)
      BY <1>8, <1>9, <3>2
    <3>5. e + 1 \in 0 .. PoolSize
      BY <1>2
    <3> QED
      BY <1>2, <1>11, <2>1, <3>1, <3>2, <3>3, <3>4, <3>5 DEF Layout
  <2>5. mbox' \in Seq(Message) /\ Len(mbox') <= MboxSize
    BY <1>2, <1>14, <2>1, <2>2, SizesAssumption DEF Full, n
  <2> QED
    BY <1>5, <1>9, <1>12, <1>14, <2>1, <2>4, <2>5 DEF n, i, x
<1> QED
  BY <1>13, <1>14

\* The entry the thread has released goes from the front of the row to the front
\* of the free list; the others move one position up.
Rotated(row, e) ==
  [j \in 1 .. PoolSize |-> IF j < e THEN row[j + 1] ELSE IF j = e THEN row[1] ELSE row[j]]
Lowered(off, n) == [k \in 1 .. n + 1 |-> off[k] - 1]

LEMMA RotatedFacts ==
  ASSUME NEW row \in Row, NEW e \in 1 .. PoolSize
  PROVE  /\ Rotated(row, e) \in Row
         /\ \A j \in 1 .. PoolSize : Rotated(row, e)[j] =
              IF j < e THEN row[j + 1] ELSE IF j = e THEN row[1] ELSE row[j]
<1> DEFINE at(j) == IF j < e THEN j + 1 ELSE IF j = e THEN 1 ELSE j
           new == Rotated(row, e)
<1>1. PoolSize \in Nat /\ e \in Nat
  BY SizesAssumption
<1>2. \A j \in 1 .. PoolSize : at(j) \in 1 .. PoolSize
  BY <1>1
<1>3. \A i, j \in 1 .. PoolSize : at(i) = at(j) => i = j
  BY <1>1
<1>4. \A i \in 1 .. PoolSize : \E j \in 1 .. PoolSize : at(j) = i
  <2> TAKE i \in 1 .. PoolSize
  <2>1. CASE i = 1
    <3>1. at(e) = i
      BY <2>1
    <3> QED
      BY <3>1
  <2>2. CASE 1 < i /\ i <= e
    <3>1. i - 1 \in 1 .. PoolSize /\ at(i - 1) = i
      BY <1>1, <2>2
    <3> QED
      BY <3>1
  <2>3. CASE e < i
    <3>1. at(i) = i
      BY <1>1, <2>3
    <3> QED
      BY <3>1
  <2> QED
    BY <1>1, <2>1, <2>2, <2>3
<1>5. \A j \in 1 .. PoolSize : new[j] = row[at(j)]
  BY <1>1 DEF Rotated
<1>6. /\ row \in [1 .. PoolSize -> Entries]
      /\ \A i, j \in 1 .. PoolSize : row[i] = row[j] => i = j
      /\ \A x \in Entries : \E i \in 1 .. PoolSize : row[i] = x
  BY DEF Row
<1> HIDE DEF at
<1>7. new = [j \in 1 .. PoolSize |-> new[j]]
  BY DEF Rotated
<1> HIDE DEF new
<1>8. \A j \in 1 .. PoolSize : new[j] \in Entries
  BY <1>2, <1>5, <1>6
<1>9. new \in [1 .. PoolSize -> Entries]
  BY <1>7, <1>8
<1>10. \A i, j \in 1 .. PoolSize : new[i] = new[j] => i = j
  BY <1>2, <1>3, <1>5, <1>6
<1>11. ASSUME NEW x \in Entries PROVE \E i \in 1 .. PoolSize : new[i] = x
  <2>1. PICK i \in 1 .. PoolSize : row[i] = x
    BY <1>6
  <2>2. PICK j \in 1 .. PoolSize : at(j) = i
    BY <1>4
  <2> QED
    BY <1>5, <2>1, <2>2
<1>12. new \in Row
  BY <1>9, <1>10, <1>11 DEF Row
<1> QED
  BY <1>5, <1>12 DEF new, at

LEMMA ReleaseLayout ==
  ASSUME NEW row, NEW e, NEW off, TypeOK, Layout(row, e, off), EntryRelease,
         NEW row2, row2 = Rotated(row, e),
         NEW f, f = e - 1,
         NEW off2, off2 = Lowered(off, Len(mbox))
  PROVE  /\ Layout(row2, f, off2)'
         /\ cur.index = row[1] /\ off[1] > 0
         /\ \A j \in 1 .. f : row2[j] = row[j + 1]
         /\ pool' \in Pool
         /\ \A i \in Entries : pool'[i].pkt = pool[i].pkt
<1> DEFINE n == Len(mbox)
<1>1. /\ row \in Row /\ e \in 1 .. PoolSize /\ PoolSize \in Nat
      /\ n \in Nat /\ off[1] \in 1 .. e
      /\ \A k \in 1 .. n + 1 : off[k] \in 1 .. e
      /\ \A k, l \in 1 .. n + 1 : k <= l => off[k] <= off[l]
      /\ \A k \in 1 .. n : MsgHolds(pool, mbox[k], row, off[k], off[k + 1])
      /\ \A j \in 1 .. PoolSize : row[j] \in Entries /\ row[j] # Nil
      /\ \A i, j \in 1 .. PoolSize : row[i] = row[j] => i = j
      /\ 1 \in 1 .. n + 1 /\ n + 1 \in 1 .. n + 1
  <2>1. off[1] >= 1
    BY LayoutFacts DEF Layout, ThreadHolds, EntryRelease, Hand
  <2>2. /\ \A k, l \in 1 .. n + 1 : k <= l => off[k] <= off[l]
        /\ \A k \in 1 .. n : MsgHolds(pool, mbox[k], row, off[k], off[k + 1])
        /\ row \in Row
    BY DEF Layout, MboxHolds
  <2>3. \A k \in 1 .. n + 1 : off[k] \in 1 .. e
    <3> TAKE k \in 1 .. n + 1
    <3>1. off[1] <= off[k] /\ off[k] \in 0 .. e /\ off[1] \in 0 .. e /\ e \in Nat
      BY <2>2, LayoutFacts
    <3> QED
      BY <2>1, <3>1
  <2> QED
    BY <2>1, <2>2, <2>3, LayoutFacts
<1> DEFINE i == cur.index
<1>2. /\ i = row[1] /\ i \in Entries /\ cur.left = off[1] /\ cur.next = IF off[1] = 1 THEN Nil ELSE row[2]
      /\ Links(pool, row, 1, off[1])
  <2>1. 1 \in 1 .. PoolSize
    BY <1>1
  <2> QED
    BY <1>1, <2>1 DEF Layout, ThreadHolds, EntryRelease, Hand
<1>3. /\ pool' = Unqueued(pool, i) /\ free' = <<i>> \o free
      /\ cur'.index = cur.next /\ cur'.left = off[1] - 1
      /\ pc' = "entries" /\ UNCHANGED <<mbox, batch>> /\ Hand' = 0
  BY <1>2 DEF EntryRelease, Unqueued, TypeOK, Hand
<1>4. /\ pool' \in Pool
      /\ \A k \in Entries : /\ k # i => pool'[k] = pool[k]
                            /\ pool'[k].next = pool[k].next
                            /\ pool'[k].count = pool[k].count
                            /\ pool'[k].pkt = pool[k].pkt
  BY <1>2, <1>3, TypeFacts, UnqueuedIs
<1>5. /\ row2 \in Row
      /\ \A j \in 1 .. PoolSize : row2[j] =
              IF j < e THEN row[j + 1] ELSE IF j = e THEN row[1] ELSE row[j]
  BY <1>1, RotatedFacts
<1> HIDE DEF i, n
<1>6. ASSUME NEW z \in 1 .. e, NEW a \in 1 .. z, Links(pool, row, a, z)
      PROVE  Links(pool', row2, a - 1, z - 1)
  <2> SUFFICES ASSUME NEW j \in (a - 1) + 1 .. z - 1
               PROVE  pool'[row2[j]].next = IF j = z - 1 THEN Nil ELSE row2[j + 1]
    BY DEF Links
  <2>1. /\ j \in 1 .. PoolSize /\ j < e /\ j + 1 \in a + 1 .. z /\ j + 1 \in 1 .. PoolSize
        /\ j + 1 = z <=> j = z - 1
        /\ j # z - 1 => j + 1 < e
    BY <1>1
  <2>2. row2[j] = row[j + 1] /\ row[j + 1] \in Entries
    BY <1>1, <1>5, <2>1
  <2>3. pool[row[j + 1]].next = IF j + 1 = z THEN Nil ELSE row[j + 1 + 1]
    BY <1>6, <2>1 DEF Links
  <2>4. j # z - 1 => row2[j + 1] = row[j + 1 + 1]
    BY <1>5, <2>1
  <2> QED
    BY <1>4, <2>1, <2>2, <2>3, <2>4
<1>7. ASSUME NEW z \in 1 .. e, NEW a \in 1 .. z, a < z
      PROVE  row2[a - 1 + 1] = row[a + 1] /\ row2[z - 1] = row[z]
  <2>1. /\ a - 1 + 1 \in 1 .. PoolSize /\ a - 1 + 1 < e /\ a - 1 + 1 + 1 = a + 1
        /\ z - 1 \in 1 .. PoolSize /\ z - 1 < e /\ z - 1 + 1 = z
    BY <1>1, <1>7
  <2> QED
    BY <1>5, <2>1
<1>8. ASSUME NEW z \in 1 .. e, NEW a \in 1 .. z, NEW m, MsgHolds(pool, m, row, a, z)
      PROVE  MsgHolds(pool', m, row2, a - 1, z - 1)
  <2>1. Links(pool', row2, a - 1, z - 1)
    BY <1>6, <1>8 DEF MsgHolds
  <2>2. ASSUME m.type = "batch"
        PROVE  a - 1 < z - 1 /\ m.arg = row2[a - 1 + 1] /\ pool'[m.arg].count = z - 1 - (a - 1)
    <3>1. a < z /\ m.arg = row[a + 1] /\ pool[m.arg].count = z - a
      BY <1>8, <2>2 DEF MsgHolds
    <3>2. a + 1 \in 1 .. PoolSize /\ a - 1 < z - 1 /\ z - a = z - 1 - (a - 1)
      BY <1>1, <3>1
    <3> QED
      BY <1>1, <1>4, <1>7, <3>1, <3>2
  <2>3. ASSUME m.type = "entry"
        PROVE  z - 1 = a - 1 + 1 /\ m.arg = row2[z - 1]
    <3>1. z = a + 1 /\ m.arg = row[z]
      BY <1>8, <2>3 DEF MsgHolds
    <3>2. a < z
      BY <3>1
    <3> QED
      BY <1>7, <3>1, <3>2
  <2>4. ASSUME m.type \notin {"batch", "entry"}
        PROVE  z - 1 = a - 1
    BY <1>8, <2>4 DEF MsgHolds
  <2> QED
    BY <2>1, <2>2, <2>3, <2>4 DEF MsgHolds
<1>9. /\ off2 = [k \in 1 .. n + 1 |-> off[k] - 1]
      /\ \A k \in 1 .. n + 1 : off2[k] = off[k] - 1
  BY DEF Lowered, n
<1>10. \A k \in 1 .. n + 1 : off[k] - 1 \in 0 .. f
  BY <1>1
<1>11. MboxHolds(pool', mbox', row2, off2, f)
  <2>1. off2 \in [1 .. n + 1 -> 0 .. f]
    BY <1>9, <1>10
  <2>2. ASSUME NEW k \in 1 .. n + 1, NEW l \in 1 .. n + 1, k <= l
        PROVE  off2[k] <= off2[l]
    <3>1. off[k] <= off[l] /\ off[k] \in 1 .. e /\ off[l] \in 1 .. e
      BY <1>1, <2>2
    <3> QED
      BY <1>9, <3>1
  <2>3. ASSUME NEW k \in 1 .. n
        PROVE  MsgHolds(pool', mbox'[k], row2, off2[k], off2[k + 1])
    <3>1. k \in 1 .. n + 1 /\ k + 1 \in 1 .. n + 1 /\ k <= k + 1
      BY <1>1
    <3>2. off[k + 1] \in 1 .. e /\ off[k] \in 1 .. off[k + 1]
      BY <1>1, <3>1
    <3>3. MsgHolds(pool', mbox[k], row2, off[k] - 1, off[k + 1] - 1)
      BY <1>1, <1>8, <3>2
    <3> QED
      BY <1>3, <1>9, <3>1, <3>3
  <2> QED
    BY <1>3, <2>1, <2>2, <2>3 DEF MboxHolds, n
<1>12. ThreadHolds(row2, off2[1])'
  <2>1. off2[1] = off[1] - 1 /\ off[1] - 1 >= 0
    BY <1>1, <1>9
  <2>2. Links(pool', row2, 1 - 1, off[1] - 1)
    <3>1. off[1] \in 1 .. e /\ 1 \in 1 .. off[1]
      BY <1>1
    <3> QED
      BY <1>2, <1>6, <3>1
  <2>3. off[1] - 1 > 0 => cur.next = row2[1]
    <3> HAVE off[1] - 1 > 0
    <3>1. 1 \in 1 .. PoolSize /\ 1 < e /\ off[1] # 1 /\ 1 + 1 = 2
      BY <1>1
    <3> QED
      BY <1>2, <1>5, <3>1
  <2> QED
    BY <1>3, <2>1, <2>2, <2>3 DEF ThreadHolds
<1>13. BatchHolds(pool', batch', row2, off2[n + 1], f)
  <2> DEFINE a == off[n + 1]
  <2>1. a \in 1 .. e /\ e \in 1 .. e /\ off2[n + 1] = a - 1
    BY <1>1, <1>9
  <2>2. BatchHolds(pool, batch, row, a, e)
    BY DEF Layout, n
  <2> HIDE DEF a
  <2>3. Links(pool', row2, a - 1, f)
    BY <1>6, <2>1, <2>2 DEF BatchHolds
  <2>4. a < e => row2[a - 1 + 1] = row[a + 1] /\ row2[f] = row[e]
    BY <1>7, <2>1
  <2> QED
    BY <1>1, <1>3, <2>1, <2>2, <2>3, <2>4 DEF BatchHolds
<1>14. \A j \in 1 .. f : row2[j] = row[j + 1] /\ j + 1 \in 1 .. e /\ j + 1 \in 1 .. PoolSize
  <2> TAKE j \in 1 .. f
  <2>1. j \in 1 .. PoolSize /\ j < e /\ j + 1 \in 1 .. e /\ j + 1 \in 1 .. PoolSize
    BY <1>1
  <2> QED
    BY <1>5, <2>1
<1>15. \A j \in 1 .. f : pool'[row2[j]].queued /\ pool'[row2[j]].pkt \in Packets
  <2> TAKE j \in 1 .. f
  <2>1. row2[j] = row[j + 1] /\ j + 1 \in 1 .. e /\ j + 1 \in 1 .. PoolSize /\ 1 \in 1 .. PoolSize /\ j + 1 # 1
    BY <1>1, <1>14
  <2>2. row[j + 1] \in Entries /\ row[j + 1] # i
    BY <1>1, <1>2, <2>1
  <2> QED
    BY <1>4, <2>1, <2>2 DEF Layout
<1>16. free' = Seg(row2, f, PoolSize)
  <2> DEFINE s == Seg(row2, f, PoolSize)
             h == PoolSize - e
  <2>1. h \in Nat /\ PoolSize - f = h + 1
    BY <1>1
  <2>2. \A j \in 1 .. h + 1 : f + j \in 1 .. PoolSize
    BY <1>1
  <2>3. s = [j \in 1 .. h + 1 |-> row2[f + j]] /\ \A j \in 1 .. h + 1 : row2[f + j] \in Entries
    BY <2>1, <2>2, <1>5 DEF Seg, Row
  <2>4. s \in Seq(Entries) /\ Len(s) = h + 1 /\ \A j \in 1 .. h + 1 : s[j] = row2[f + j]
    BY <2>1, <2>3
  <2>5. free \in Seq(Entries) /\ free = [j \in 1 .. h |-> row[e + j]]
    BY DEF Layout, TypeOK, Seg
  <2>6. Len(free) = h /\ \A j \in 1 .. h : free[j] = row[e + j]
    BY <2>1, <2>5
  <2> HIDE DEF s, h
  <2>7. free' \in Seq(Entries) /\ Len(free') = h + 1 /\ free'[1] = i
        /\ \A j \in 2 .. h + 1 : free'[j] = free[j - 1]
    BY <1>2, <1>3, <2>1, <2>5, <2>6
  <2>8. \A j \in 1 .. h + 1 : s[j] = free'[j]
    <3> TAKE j \in 1 .. h + 1
    <3>1. CASE j = 1
      <4>1. f + 1 = e /\ e \in 1 .. PoolSize /\ ~ (e < e)
        BY <1>1
      <4> QED
        BY <1>2, <1>5, <2>4, <2>7, <3>1, <4>1
    <3>2. CASE j # 1
      <4>1. /\ j \in 2 .. h + 1 /\ j - 1 \in 1 .. h /\ e + (j - 1) = f + j
            /\ f + j \in 1 .. PoolSize /\ ~ (f + j < e) /\ f + j # e
        BY <1>1, <2>1, <2>2, <3>2
      <4>4. row2[f + j] = row[f + j]
        BY <1>5, <4>1
      <4>2. s[j] = row[f + j]
        BY <2>4, <4>4
      <4>3. free'[j] = row[e + (j - 1)]
        BY <2>6, <2>7, <4>1
      <4> QED
        BY <4>1, <4>2, <4>3
    <3> QED
      BY <3>1, <3>2
  <2>9. s = free'
    BY ONLY <2>1, <2>4, <2>7, <2>8, SeqEqual
  <2> QED
    BY <2>9 DEF s
<1>17. f \in 0 .. PoolSize
  BY <1>1
<1> QED
  BY <1>1, <1>2, <1>3, <1>4, <1>5, <1>11, <1>12, <1>13, <1>14, <1>15, <1>16, <1>17 DEF Layout, n, i

---------------------------------------------------------------------------
\* Every step keeps the types.
LEMMA TypeParts ==
  /\ TypeOK => MboxTypes /\ WlanTypes /\ NcmTypes /\ CallTypes /\ ThreadTypes
  /\ (MboxTypes /\ WlanTypes /\ NcmTypes /\ CallTypes /\ ThreadTypes)' => TypeOK'
<1>1. TypeOK => MboxTypes /\ WlanTypes /\ NcmTypes /\ CallTypes /\ ThreadTypes
  <2> HAVE TypeOK
  <2>1. MboxTypes
    BY DEF TypeOK, MboxTypes, Message
  <2>2. WlanTypes
    BY DEF TypeOK, WlanTypes, Pool, Entry, Batch
  <2>3. NcmTypes /\ CallTypes
    BY DEF TypeOK, NcmTypes, CallTypes
  <2>4. ThreadTypes
    BY DEF TypeOK, ThreadTypes
  <2> QED
    BY <2>1, <2>2, <2>3, <2>4
<1>2. (MboxTypes /\ WlanTypes /\ NcmTypes /\ CallTypes /\ ThreadTypes)' => TypeOK'
  BY Zenon DEF TypeOK, MboxTypes, WlanTypes, NcmTypes, CallTypes, ThreadTypes,
               Message, Pool, Entry, Batch
<1> QED
  BY <1>1, <1>2

\* How the mailbox changes: a message goes behind the others, the thread takes the
\* first, or the marker goes before them.
Behind(m) == /\ m \in Message /\ m.type # "marker"
             /\ m.type = "packet" => m.arg \in Packets
             /\ m.type = "api" => m.arg = Nil

LEMMA PostedMbox ==
  ASSUME NEW b \in Batch, NEW p, NEW q, NEW r, r = Posted(b, p, q)
  PROVE  r.mbox = q \/ (~Full(q) /\ \E m : Behind(m) /\ r.mbox = Append(q, m))
<1>1. CASE b.count = 0 \/ Full(q)
  BY <1>1 DEF Posted
<1>2. CASE b.count # 0 /\ ~Full(q)
  <2>1. r.mbox = Append(q, Msg("batch", b.head))
    BY <1>2 DEF Posted
  <2>2. Behind(Msg("batch", b.head))
    BY DEF Behind, Msg, Message, Batch
  <2> QED
    BY <1>2, <2>1, <2>2
<1> QED
  BY <1>1, <1>2

LEMMA MboxStep ==
  ASSUME TypeOK, Next
  PROVE  \/ mbox' = mbox
         \/ ~Full(mbox) /\ \E m : Behind(m) /\ mbox' = Append(mbox, m)
         \/ Fetch
         \/ NcmEnqueue /\ ~marker /\ ~Full(mbox) /\ mbox' = <<Marker>> \o mbox
<1> DEFINE Q == mbox' = mbox \/ (~Full(mbox) /\ \E m : Behind(m) /\ mbox' = Append(mbox, m))
<1>1. CASE Api \/ Packet \/ Open \/ EntryInput \/ EntryRelease \/ EntriesDone
           \/ NcmTake \/ NcmInput \/ NcmFree \/ NcmRefused
  BY <1>1 DEF Api, Packet, Open, EntryInput, EntryRelease, EntriesDone, NcmTake, NcmInput,
              NcmFree, NcmRefused
<1>2. CASE Retry \/ TimerFires \/ \E w \in WlanTasks : InpktExhausted(w)
  <2>1. mbox' = mbox \/ mbox' = Posted(batch, pool, mbox).mbox
    BY <1>2 DEF Retry, TimerFires, InpktExhausted
  <2> QED
    BY <2>1, TypeFacts, PostedMbox
<1>3. ASSUME NEW w \in WlanTasks, Inpkt(w) PROVE Q
  <2> DEFINE i == Head(free)
             b == Grown(batch, i)
             e == Linked(batch, Filled(i, sent'.wlan), i)
  <2>1. mbox' = mbox \/ (mbox' = Posted(b, e, mbox).mbox /\ b.count >= MaxBatch)
    BY <1>3 DEF Inpkt
  <2>2. CASE mbox' = Posted(b, e, mbox).mbox
    <3>1. i \in Entries
      BY <1>3 DEF TypeOK, Inpkt
    <3>2. b.head \in Entries \cup {Nil}
      BY <3>1 DEF TypeOK, Grown
    <3> HIDE DEF i
    <3>3. Behind(Msg("batch", b.head))
      BY <3>2 DEF Behind, Msg, Message
    <3>4. mbox' = mbox \/ (~Full(mbox) /\ mbox' = Append(mbox, Msg("batch", b.head)))
      BY <2>2 DEF Posted
    <3> QED
      BY <3>3, <3>4
  <2> QED
    BY <2>1, <2>2
<1>4. ASSUME NEW w \in WlanTasks, InpktAlone(w) PROVE Q
  <2>1. Head(free) \in Entries
    BY <1>4 DEF TypeOK, InpktAlone
  <2>2. Behind(Msg("entry", Head(free)))
    BY <2>1 DEF Behind, Msg, Message
  <2>3. mbox' = mbox \/ (~Full(mbox) /\ mbox' = Append(mbox, Msg("entry", Head(free))))
    BY <1>4 DEF InpktAlone
  <2> QED
    BY <2>2, <2>3
<1>5. ASSUME NEW w \in WlanTasks, Envelope(w) PROVE Q
  <2>1. falling[w] \in Packets
    BY <1>5 DEF TypeOK, Envelope
  <2>2. Behind(Msg("packet", falling[w]))
    BY <2>1 DEF Behind, Msg, Message
  <2>3. mbox' = mbox \/ (~Full(mbox) /\ mbox' = Append(mbox, Msg("packet", falling[w])))
    BY <1>5 DEF Envelope
  <2> QED
    BY <2>2, <2>3
<1>6. CASE Other
  <2>1. Behind(Msg("api", Nil))
    BY DEF Behind, Msg, Message
  <2> QED
    BY <1>6, <2>1 DEF Other
<1>7. CASE NcmEnqueue
  BY <1>7 DEF NcmEnqueue
<1> QED
  BY <1>1, <1>2, <1>3, <1>4, <1>5, <1>6, <1>7 DEF Next, Thread, Producer

\* The thread takes the first message.
LEMMA FetchFacts ==
  ASSUME TypeOK, Fetch, NEW m, m = Head(mbox)
  PROVE  /\ mbox \in Seq(Message) /\ mbox' = Tail(mbox)
         /\ Len(mbox) \in Nat \ {0} /\ 1 \in 1 .. Len(mbox) /\ m = mbox[1] /\ m \in Message
         /\ m.type \in {"batch", "entry", "packet", "marker", "api"}
         /\ pc = "fetch" /\ pc' = IF m.type = "entry" THEN "entries" ELSE m.type
         /\ cur' = [index |-> IF m.type = "packet" THEN Nil ELSE m.arg, next |-> Nil,
                    left |-> IF m.type = "entry" THEN 1 ELSE 0,
                    pkt |-> IF m.type = "packet" THEN m.arg ELSE Nil]
         /\ UNCHANGED <<wlanVars, ncmVars, callVars, delivered>>
<1>1. mbox \in Seq(Message) /\ Len(mbox) \in Nat /\ mbox # <<>>
  BY TypeFacts DEF Fetch
<1>2. Len(mbox) # 0 /\ m = mbox[1] /\ m \in Message
  BY <1>1
<1>3. m.type \in {"batch", "entry", "packet", "marker", "api"}
  BY <1>2 DEF Message
<1>4. ASSUME m.type = "packet"
      PROVE  pc' = "packet" /\ cur' = [Idle EXCEPT !.pkt = m.arg]
  BY <1>4 DEF Fetch
<1>5. ASSUME m.type = "entry"
      PROVE  pc' = "entries" /\ cur' = [Idle EXCEPT !.index = m.arg, !.left = 1]
  BY <1>5 DEF Fetch
<1>6. ASSUME m.type \notin {"packet", "entry"}
      PROVE  pc' = m.type /\ cur' = [Idle EXCEPT !.index = m.arg]
  BY <1>6 DEF Fetch
<1>7. /\ pc' = IF m.type = "entry" THEN "entries" ELSE m.type
      /\ cur' = [index |-> IF m.type = "packet" THEN Nil ELSE m.arg, next |-> Nil,
                 left |-> IF m.type = "entry" THEN 1 ELSE 0,
                 pkt |-> IF m.type = "packet" THEN m.arg ELSE Nil]
  <2>1. CASE m.type = "packet"
    BY ONLY <1>4, <2>1 DEF Idle
  <2>2. CASE m.type = "entry"
    BY ONLY <1>5, <2>2 DEF Idle
  <2>3. CASE m.type \notin {"packet", "entry"}
    BY ONLY <1>6, <2>3 DEF Idle
  <2> QED
    BY <2>1, <2>2, <2>3
<1>8. mbox' = Tail(mbox) /\ pc = "fetch" /\ UNCHANGED <<wlanVars, ncmVars, callVars, delivered>>
  BY DEF Fetch
<1> QED
  BY <1>1, <1>2, <1>3, <1>7, <1>8

LEMMA MboxTyped ==
  ASSUME TypeOK, Next
  PROVE  MboxTypes'
<1>1. mbox \in Seq(Message) /\ Len(mbox) <= MboxSize /\ Len(mbox) \in Nat /\ MboxSize \in Nat
  BY TypeFacts, SizesAssumption
<1>2. ASSUME ~Full(mbox), NEW m \in Message, mbox' \in {Append(mbox, m), <<m>> \o mbox}
      PROVE  mbox' \in Seq(Message) /\ Len(mbox') <= MboxSize
  <2>1. Len(mbox) + 1 <= MboxSize
    BY <1>1, <1>2 DEF Full
  <2>2. CASE mbox' = Append(mbox, m)
    BY <1>1, <2>1, <2>2
  <2>3. CASE mbox' = <<m>> \o mbox
    BY <1>1, <2>1, <2>3
  <2> QED
    BY <1>2, <2>2, <2>3
<1>3. Marker \in Message
  BY DEF Marker, Msg, Message
<1>4. CASE Fetch
  BY <1>1, <1>4 DEF Fetch, MboxTypes
<1>5. CASE ~Full(mbox) /\ \E m : Behind(m) /\ mbox' = Append(mbox, m)
  BY <1>2, <1>5 DEF Behind, MboxTypes
<1>6. CASE ~Full(mbox) /\ mbox' = <<Marker>> \o mbox
  BY <1>2, <1>3, <1>6 DEF MboxTypes
<1> QED
  BY <1>1, <1>4, <1>5, <1>6, MboxStep DEF MboxTypes

\* Every step keeps the pool in one row.
LEMMA OwnedKept ==
  ASSUME TypeOK, Alone, Owned, Next
  PROVE  Owned'
<1> PICK row, e, off : Layout(row, e, off)
  BY DEF Owned
<1>1. ASSUME NEW row2, NEW f, NEW off2, Layout(row2, f, off2)' PROVE Owned'
  BY <1>1 DEF Owned
<1>2. CASE Fetch
  BY <1>1, <1>2, FetchLayout
<1>3. CASE Api \/ Packet \/ Open \/ EntryInput \/ EntriesDone \/ NcmTake \/ NcmInput \/ NcmFree
  BY <1>1, <1>3, ThreadLayout
<1>4. CASE EntryRelease
  BY <1>1, <1>4, ReleaseLayout
<1>5. CASE Retry
  <2>1. CASE armed
    <3>1. UNCHANGED <<mbox, pool, free, batch>> /\ pc = "retry" /\ pc' = "fetch"
      BY <1>5, <2>1 DEF Retry
    <3>2. ThreadHolds(row, off[1])'
      <4>1. off[1] = 0
        BY <3>1 DEF Layout, ThreadHolds
      <4> QED
        BY <3>1, <4>1 DEF ThreadHolds, Hand, Links
    <3> QED
      BY <1>1, <3>1, <3>2, SameLayout
  <2>2. CASE ~armed
    <3>1. /\ LET r == Posted(batch, pool, mbox)
             IN batch' = r.batch /\ pool' = r.pool /\ mbox' = r.mbox
          /\ free' = free /\ pc = "retry" /\ pc' = "fetch"
      BY <1>5, <2>2 DEF Retry
    <3> QED
      BY <1>1, <3>1, PostLayout
  <2> QED
    BY <2>1, <2>2
<1>6. CASE TimerFires \/ \E w \in WlanTasks : InpktExhausted(w)
  <2>1. /\ LET r == Posted(batch, pool, mbox)
           IN batch' = r.batch /\ pool' = r.pool /\ mbox' = r.mbox
        /\ free' = free /\ pc' = pc /\ cur' = cur
    BY <1>6 DEF TimerFires, InpktExhausted
  <2> QED
    BY <1>1, <2>1, PostLayout
<1>7. ASSUME NEW w \in WlanTasks, Inpkt(w) PROVE Owned'
  BY <1>1, <1>7, InpktLayout
<1>8. ASSUME NEW w \in WlanTasks, InpktAlone(w) PROVE Owned'
  BY <1>1, <1>8, InpktAloneLayout
<1>9. ASSUME UNCHANGED <<pool, free, batch, pc, cur>>,
             \/ mbox' = mbox
             \/ \E m \in Message : m.type \notin {"batch", "entry"} /\ mbox' = Append(mbox, m)
             \/ mbox' = <<Marker>> \o mbox
      PROVE  Owned'
  <2>1. CASE mbox' = mbox
    <3>1. ThreadHolds(row, off[1])'
      BY <1>9, LayoutFacts, ThreadFrame DEF Layout
    <3> QED
      BY <1>1, <1>9, <2>1, <3>1, SameLayout
  <2>2. CASE \E m \in Message : m.type \notin {"batch", "entry"} /\ mbox' = Append(mbox, m)
    BY <1>1, <1>9, <2>2, AppendLayout
  <2>3. CASE mbox' = <<Marker>> \o mbox
    BY <1>1, <1>9, <2>3, MarkerLayout
  <2> QED
    BY <1>9, <2>1, <2>2, <2>3
<1>10. CASE NcmEnqueue \/ NcmRefused \/ Other \/ \E w \in WlanTasks : Envelope(w)
  <2>1. UNCHANGED <<pool, free, batch, pc, cur>>
    BY <1>10 DEF NcmEnqueue, NcmRefused, Other, Envelope, wlanVars
  <2>2. CASE NcmEnqueue \/ NcmRefused
    BY <1>9, <2>1, <2>2 DEF NcmEnqueue, NcmRefused
  <2>3. CASE Other
    <3>1. Msg("api", Nil) \in Message /\ Msg("api", Nil).type = "api"
      BY DEF Msg, Message
    <3> QED
      BY <1>9, <2>1, <2>3, <3>1 DEF Other
  <2>4. ASSUME NEW w \in WlanTasks, Envelope(w) PROVE Owned'
    <3>1. Msg("packet", falling[w]) \in Message /\ Msg("packet", falling[w]).type = "packet"
      BY <2>4 DEF Msg, Message, TypeOK
    <3> QED
      BY <1>9, <2>1, <2>4, <3>1 DEF Envelope
  <2> QED
    BY <1>10, <2>2, <2>3, <2>4
<1> QED
  BY <1>2, <1>3, <1>4, <1>5, <1>6, <1>7, <1>8, <1>10 DEF Next, Thread, Producer

\* The rest of the invariant.
LEMMA AloneKept ==
  ASSUME TypeOK, Alone, Next
  PROVE  Alone'
<1> SUFFICES ASSUME ~available' PROVE batch' = NoBatch
  BY DEF Alone
<1>1. available' = available
  BY DEF Next, Thread, Producer, Fetch, Api, Packet, Open, EntryInput, EntryRelease, EntriesDone,
         NcmTake, NcmInput, NcmFree, Retry, TimerFires, NcmEnqueue, NcmRefused, Other,
         Inpkt, InpktAlone, InpktExhausted, Envelope, wlanVars
<1>2. ~available /\ batch = NoBatch
  BY <1>1 DEF Alone
<1>3. Posted(batch, pool, mbox).batch = NoBatch
  BY <1>2 DEF Posted, NoBatch
<1>4. CASE Retry \/ TimerFires \/ \E w \in WlanTasks : InpktExhausted(w)
  BY <1>2, <1>3, <1>4 DEF Retry, TimerFires, InpktExhausted
<1>5. CASE \/ Fetch \/ Api \/ Packet \/ Open \/ EntryInput \/ EntryRelease \/ EntriesDone
           \/ NcmTake \/ NcmInput \/ NcmFree \/ NcmEnqueue \/ NcmRefused \/ Other
           \/ \E w \in WlanTasks : InpktAlone(w) \/ Envelope(w)
  BY <1>2, <1>5 DEF Fetch, Api, Packet, Open, EntryInput, EntryRelease, EntriesDone,
         NcmTake, NcmInput, NcmFree, NcmEnqueue, NcmRefused, Other, InpktAlone, Envelope, wlanVars
<1>6. \A w \in WlanTasks : ~ Inpkt(w)
  BY <1>2 DEF Inpkt
<1> QED
  BY <1>4, <1>5, <1>6 DEF Next, Thread, Producer

LEMMA ArgsKept ==
  ASSUME TypeOK, Args, Next
  PROVE  Args'
<1> DEFINE M(q) == /\ \A k \in 1 .. Len(q) : q[k].type = "packet" => q[k].arg \in Packets
                   /\ \A k \in 1 .. Len(q) : q[k].type \in {"marker", "api"} => q[k].arg = Nil
<1>1. mbox \in Seq(Message) /\ Len(mbox) \in Nat /\ M(mbox)
  BY TypeFacts DEF Args
<1>2. M(mbox')
  <2>1. ASSUME NEW m, Behind(m), mbox' = Append(mbox, m) PROVE M(mbox')
    <3>1. Len(mbox') = Len(mbox) + 1 /\ mbox'[Len(mbox) + 1] = m
          /\ \A k \in 1 .. Len(mbox) : mbox'[k] = mbox[k]
      BY <1>1, <2>1 DEF Behind
    <3>2. \A k \in 1 .. Len(mbox) + 1 : k = Len(mbox) + 1 \/ k \in 1 .. Len(mbox)
      BY <1>1
    <3> QED
      BY <1>1, <2>1, <3>1, <3>2 DEF Behind
  <2>2. ASSUME Fetch PROVE M(mbox')
    <3>1. mbox' = Tail(mbox) /\ mbox # <<>>
      BY <2>2 DEF Fetch
    <3>2. Len(mbox') = Len(mbox) - 1
          /\ \A k \in 1 .. Len(mbox) - 1 : mbox'[k] = mbox[k + 1] /\ k + 1 \in 1 .. Len(mbox)
      BY <1>1, <3>1
    <3> QED
      BY <1>1, <3>2
  <2>3. ASSUME mbox' = <<Marker>> \o mbox PROVE M(mbox')
    <3>1. /\ Len(mbox') = Len(mbox) + 1 /\ mbox'[1] = Marker
          /\ \A k \in 2 .. Len(mbox) + 1 : mbox'[k] = mbox[k - 1] /\ k - 1 \in 1 .. Len(mbox)
      BY <1>1, <2>3
    <3>2. \A k \in 1 .. Len(mbox) + 1 : k = 1 \/ k \in 2 .. Len(mbox) + 1
      BY <1>1
    <3>3. Marker.type = "marker" /\ Marker.arg = Nil
      BY DEF Marker, Msg
    <3> QED
      BY <1>1, <3>1, <3>2, <3>3
  <2>4. mbox' = mbox => M(mbox')
    BY <1>1
  <2> HIDE DEF M
  <2> QED
    BY <2>1, <2>2, <2>3, <2>4, MboxStep
<1> DEFINE C == /\ pc = "ncmInput" => cur.pkt \in 1 .. MaxNcm
                /\ pc = "packet" => cur.pkt \in Packets
<1>3. C'
  <2>1. C
    BY DEF Args
  <2>2. CASE Fetch
    <3> DEFINE m == Head(mbox)
    <3>1. /\ 1 \in 1 .. Len(mbox) /\ m = mbox[1] /\ m.type \in {"batch", "entry", "packet", "marker", "api"}
          /\ pc' = IF m.type = "entry" THEN "entries" ELSE m.type
          /\ cur'.pkt = IF m.type = "packet" THEN m.arg ELSE Nil
      BY <2>2, FetchFacts
    <3> QED
      BY <1>1, <3>1
  <2>3. CASE NcmTake
    <3>1. ncmQueue # <<>> => Head(ncmQueue) \in 1 .. MaxNcm
      <4>1. ncmQueue \in Seq(1 .. MaxNcm)
        BY DEF TypeOK
      <4> QED
        BY <4>1, HeadTailProperties
    <3>2. pc' = "ncmInput" => cur'.pkt = Head(ncmQueue) /\ ncmQueue # <<>>
      <4>1. cur \in [index : Entries \cup {Nil}, next : Entries \cup {Nil}, left : 0 .. PoolSize,
                     pkt : Packets \cup (1 .. MaxNcm) \cup {Nil}]
        BY DEF TypeOK
      <4> QED
        BY <2>3, <4>1 DEF NcmTake
    <3>3. pc' # "packet"
      BY <2>3 DEF NcmTake
    <3> QED
      BY <3>1, <3>2, <3>3
  <2>4. CASE Api \/ Packet \/ Open \/ EntryInput \/ EntryRelease \/ EntriesDone \/ NcmInput
             \/ NcmFree \/ Retry
    BY <2>4 DEF Api, Packet, Open, EntryInput, EntryRelease, EntriesDone, NcmInput, NcmFree, Retry
  <2>5. CASE TimerFires \/ NcmEnqueue \/ NcmRefused \/ Other \/ \E w \in WlanTasks : Producer(w)
    <3>1. pc' = pc /\ cur' = cur
      BY <2>5 DEF TimerFires, NcmEnqueue, NcmRefused, Other, Producer, Inpkt, InpktAlone,
                  InpktExhausted, Envelope
    <3> QED
      BY <2>1, <3>1
  <2> QED
    BY <2>2, <2>3, <2>4, <2>5 DEF Next, Thread
<1> QED
  BY <1>2, <1>3 DEF Args

\* The marker: it is pending while it is in the mailbox or being served, once.
LEMMA NcmCountKept ==
  ASSUME TypeOK, NcmCount, Next
  PROVE  NcmCount'
<1>1. /\ mbox \in Seq(Message) /\ Len(mbox) \in Nat /\ marker \in BOOLEAN
      /\ ncmQueue \in Seq(1 .. MaxNcm) /\ Len(ncmQueue) \in Nat
      /\ ncmFree \in Int /\ NcmSize \in Int
  <2>1. NcmSize \in Nat
    BY SizesAssumption
  <2>2. ncmQueue \in Seq(1 .. MaxNcm) /\ ncmFree \in 0 .. NcmSize /\ marker \in BOOLEAN
    BY DEF TypeOK
  <2> QED
    BY <2>1, <2>2, TypeFacts
<1> DEFINE Count == ncmFree + Len(ncmQueue) + (IF pc \in {"ncmInput", "ncmFree"} THEN 1 ELSE 0)
           Place == /\ ~marker => ncmQueue = <<>> /\ ~Draining /\ Markers = {}
                    /\ marker => \/ Draining /\ Markers = {}
                                 \/ ~Draining /\ \E k \in 1 .. Len(mbox) : Markers = {k}
<1>2. Count = NcmSize /\ Place
  BY DEF NcmCount
<1>3. ASSUME NEW m, m.type # "marker", m \in Message, mbox' = Append(mbox, m)
      PROVE  Markers' = Markers /\ Len(mbox') = Len(mbox) + 1
  <2>1. Len(mbox') = Len(mbox) + 1 /\ mbox'[Len(mbox) + 1] = m
        /\ \A k \in 1 .. Len(mbox) : mbox'[k] = mbox[k]
    BY <1>1, <1>3
  <2>2. \A k : k \in 1 .. Len(mbox) + 1 <=> k = Len(mbox) + 1 \/ k \in 1 .. Len(mbox)
    BY <1>1
  <2> QED
    BY <1>1, <1>3, <2>1, <2>2 DEF Markers
<1>4. Count' = NcmSize
  <2>1. CASE NcmEnqueue
    <3>1. CASE ~marker /\ Full(mbox)
      <4>1. ncmQueue = <<>>
        BY <1>2, <3>1
      <4> QED
        BY <1>2, <2>1, <3>1, <4>1 DEF NcmEnqueue
    <3>2. CASE ~ (~marker /\ Full(mbox))
      <4>1. ncmQueue' = Append(ncmQueue, sent'.ncm) /\ ncmFree' = ncmFree - 1 /\ pc' = pc
        BY <2>1, <3>2 DEF NcmEnqueue
      <4>2. Len(ncmQueue') = Len(ncmQueue) + 1
        BY <1>1, <4>1
      <4> QED
        BY <1>1, <1>2, <4>1, <4>2
    <3> QED
      BY <3>1, <3>2
  <2>2. CASE NcmTake
    <3>1. pc = "marker" /\ ncmFree' = ncmFree
      BY <2>2 DEF NcmTake
    <3>2. \/ ncmQueue' = ncmQueue /\ pc' = "retry"
          \/ ncmQueue # <<>> /\ ncmQueue' = Tail(ncmQueue) /\ pc' = "ncmInput"
      <4>1. CASE ncmQueue = <<>>
        BY <2>2, <4>1 DEF NcmTake
      <4>2. CASE ncmQueue # <<>>
        BY <2>2, <4>2 DEF NcmTake
      <4> QED
        BY <4>1, <4>2
    <3>3. ncmQueue # <<>> => Len(Tail(ncmQueue)) = Len(ncmQueue) - 1
      BY <1>1
    <3>4. Count = NcmSize
      BY <1>2
    <3>5. Count = ncmFree + Len(ncmQueue)
      BY <1>1, <3>1
    <3>6. CASE ncmQueue' = ncmQueue /\ pc' = "retry"
      BY ONLY <1>1, <3>1, <3>4, <3>5, <3>6
    <3>7. CASE ncmQueue # <<>> /\ ncmQueue' = Tail(ncmQueue) /\ pc' = "ncmInput"
      <4>1. Count' = ncmFree + Len(Tail(ncmQueue)) + 1
        BY <3>1, <3>7
      <4> QED
        BY ONLY <1>1, <3>3, <3>4, <3>5, <3>7, <4>1
    <3> QED
      BY <3>2, <3>6, <3>7
  <2>3. CASE NcmFree
    BY <1>1, <1>2, <2>3 DEF NcmFree
  <2>4. CASE NcmInput
    BY <1>1, <1>2, <2>4 DEF NcmInput, ncmVars
  <2>5. CASE Fetch
    <3>1. pc \notin {"ncmInput", "ncmFree"} /\ pc' \notin {"ncmInput", "ncmFree"}
          /\ UNCHANGED ncmVars
      BY <2>5, FetchFacts
    <3> QED
      BY <1>2, <3>1 DEF ncmVars
  <2>6. CASE Api \/ Packet \/ Open \/ EntryInput \/ EntryRelease \/ EntriesDone \/ Retry
    <3>1. pc \notin {"ncmInput", "ncmFree"} /\ pc' \notin {"ncmInput", "ncmFree"}
      BY <2>6 DEF Api, Packet, Open, EntryInput, EntryRelease, EntriesDone, Retry
    <3>2. UNCHANGED ncmVars
      BY <2>6 DEF Api, Packet, Open, EntryInput, EntryRelease, EntriesDone, Retry
    <3> QED
      BY <1>2, <3>1, <3>2 DEF ncmVars
  <2>7. CASE TimerFires \/ NcmRefused \/ Other \/ \E w \in WlanTasks : Producer(w)
    <3>1. UNCHANGED <<ncmVars, pc>>
      BY <2>7 DEF TimerFires, NcmRefused, Other, Producer, Inpkt, InpktAlone, InpktExhausted, Envelope
    <3> QED
      BY <1>2, <3>1 DEF ncmVars
  <2> QED
    BY <2>1, <2>2, <2>3, <2>4, <2>5, <2>6, <2>7 DEF Next, Thread
<1>5. Place'
  <2>1. CASE Fetch
    <3> DEFINE m == Head(mbox)
    <3>1. /\ mbox # <<>> /\ mbox' = Tail(mbox) /\ pc = "fetch" /\ UNCHANGED ncmVars
          /\ m = mbox[1] /\ m \in Message /\ 1 \in 1 .. Len(mbox)
      BY <2>1, FetchFacts
    <3>2. Draining' <=> m.type = "marker"
      BY <2>1, FetchFacts DEF Draining
    <3>3. /\ Len(mbox') = Len(mbox) - 1
          /\ \A k \in 1 .. Len(mbox) - 1 : mbox'[k] = mbox[k + 1]
      BY <1>1, <3>1
    <3>4. \A k : k \in Markers' <=> k \in 1 .. Len(mbox) - 1 /\ k + 1 \in Markers
      BY <1>1, <3>3 DEF Markers
    <3>5. ~Draining
      BY <3>1 DEF Draining
    <3> HIDE DEF m
    <3>6. CASE ~marker
      <4>1. Markers = {} /\ ncmQueue = <<>>
        BY <1>2, <3>6
      <4>2. m.type # "marker"
        BY <3>1, <4>1 DEF Markers
      <4>3. Markers' = {}
        BY <3>4, <4>1
      <4> QED
        BY <3>1, <3>2, <3>6, <4>1, <4>2, <4>3 DEF ncmVars
    <3>7. CASE marker
      <4>1. PICK k \in 1 .. Len(mbox) : Markers = {k}
        BY <1>2, <3>5, <3>7
      <4>2. m.type = "marker" <=> k = 1
        BY <3>1, <4>1 DEF Markers
      <4>3. CASE k = 1
        <5>1. Markers' = {}
          BY <1>1, <3>4, <4>1, <4>3
        <5> QED
          BY <3>1, <3>2, <3>7, <4>2, <4>3, <5>1 DEF ncmVars
      <4>4. CASE k # 1
        <5>1. k - 1 \in 1 .. Len(mbox')
          BY <1>1, <3>3, <4>1, <4>4
        <5>2. Markers' = {k - 1}
          BY <1>1, <3>3, <3>4, <4>1, <4>4, <5>1
        <5> QED
          BY <3>1, <3>2, <3>7, <4>2, <4>4, <5>1, <5>2 DEF ncmVars
      <4> QED
        BY <4>3, <4>4
    <3> QED
      BY <1>1, <3>6, <3>7
  <2>2. CASE NcmEnqueue
    <3>1. Draining' = Draining
      BY <2>2 DEF NcmEnqueue, Draining
    <3>2. CASE marker
      <4>1. mbox' = mbox /\ marker'
        BY <2>2, <3>2 DEF NcmEnqueue
      <4> QED
        BY <1>2, <3>1, <3>2, <4>1 DEF Markers
    <3>3. CASE ~marker /\ Full(mbox)
      <4>1. mbox' = mbox /\ ~marker' /\ ncmQueue' = <<>>
        BY <2>2, <3>3 DEF NcmEnqueue
      <4> QED
        BY <1>2, <3>1, <3>3, <4>1 DEF Markers
    <3>4. CASE ~marker /\ ~Full(mbox)
      <4>1. mbox' = <<Marker>> \o mbox /\ marker'
        BY <2>2, <3>4 DEF NcmEnqueue
      <4>2. ~Draining /\ Markers = {}
        BY <1>2, <3>4
      <4>3. /\ Len(mbox') = Len(mbox) + 1 /\ mbox'[1] = Marker
            /\ \A k \in 2 .. Len(mbox) + 1 : mbox'[k] = mbox[k - 1] /\ k - 1 \in 1 .. Len(mbox)
        BY <1>1, <4>1
      <4>4. Marker.type = "marker"
        BY DEF Marker, Msg
      <4>5. \A k \in 1 .. Len(mbox) + 1 : k = 1 \/ k \in 2 .. Len(mbox) + 1
        BY <1>1
      <4>6. Markers' = {1} /\ 1 \in 1 .. Len(mbox')
        <5>1. \A k \in 2 .. Len(mbox) + 1 : mbox'[k].type # "marker"
          BY <4>2, <4>3 DEF Markers
        <5> QED
          BY <1>1, <4>3, <4>4, <4>5, <5>1 DEF Markers
      <4> QED
        BY <3>1, <4>1, <4>2, <4>6
    <3> QED
      BY <1>1, <3>2, <3>3, <3>4
  <2>3. CASE NcmTake \/ NcmInput \/ NcmFree
    <3>1. mbox' = mbox /\ Draining
      BY <2>3 DEF NcmTake, NcmInput, NcmFree, Draining
    <3>2. marker /\ Markers = {}
      BY <1>1, <1>2, <3>1
    <3>3. \/ marker' = marker /\ Draining'
          \/ ~marker' /\ ncmQueue' = <<>> /\ ~Draining'
      BY <2>3 DEF NcmTake, NcmInput, NcmFree, Draining, ncmVars
    <3> QED
      BY <3>1, <3>2, <3>3 DEF Markers
  <2>4. ASSUME UNCHANGED ncmVars, Draining' = Draining, ~ Fetch,
               ~ (NcmEnqueue /\ mbox' = <<Marker>> \o mbox)
        PROVE  Place'
    <3>1. CASE mbox' = mbox
      BY <1>2, <2>4, <3>1 DEF ncmVars, Markers
    <3>2. ASSUME NEW m, Behind(m), mbox' = Append(mbox, m) PROVE Place'
      <4>1. Markers' = Markers /\ Len(mbox') = Len(mbox) + 1
        BY <1>3, <3>2 DEF Behind
      <4>2. \A k \in 1 .. Len(mbox) : k \in 1 .. Len(mbox')
        BY <1>1, <4>1
      <4> QED
        BY <1>2, <2>4, <4>1, <4>2 DEF ncmVars
    <3> QED
      BY <2>4, <3>1, <3>2, MboxStep
  <2>5. CASE \/ Api \/ Packet \/ Open \/ EntryInput \/ EntryRelease \/ EntriesDone \/ Retry
             \/ TimerFires \/ NcmRefused \/ Other \/ \E w \in WlanTasks : Producer(w)
    <3>1. UNCHANGED ncmVars
      BY <2>5 DEF Api, Packet, Open, EntryInput, EntryRelease, EntriesDone, Retry, TimerFires,
                  NcmRefused, Other, Producer, Inpkt, InpktAlone, InpktExhausted, Envelope
    <3>2. Draining' = Draining
      BY <2>5 DEF Api, Packet, Open, EntryInput, EntryRelease, EntriesDone, Retry, TimerFires,
                  NcmRefused, Other, Producer, Inpkt, InpktAlone, InpktExhausted, Envelope, Draining
    <3>3. CASE Fetch
      BY <2>1, <3>3
    <3>4. CASE NcmEnqueue
      BY <2>2, <3>4
    <3> QED
      BY <2>4, <3>1, <3>2, <3>3, <3>4
  <2> QED
    BY <2>1, <2>2, <2>3, <2>5 DEF Next, Thread
<1> HIDE DEF Draining, Markers
<1> QED
  BY <1>4, <1>5 DEF NcmCount

LEMMA WlanTyped ==
  ASSUME TypeOK, Alone, Owned, Owned', Next
  PROVE  WlanTypes'
<1> PICK row, e, off : Layout(row, e, off)
  BY DEF Owned
<1>1. free' \in Seq(Entries)
  <2>1. PICK row2, f, off2 : Layout(row2, f, off2)'
    BY DEF Owned
  <2>2. row2 \in [1 .. PoolSize -> Entries] /\ f \in 0 .. PoolSize /\ PoolSize \in Nat
    BY <2>1, SizesAssumption DEF Layout, Row
  <2>3. free' = [j \in 1 .. PoolSize - f |-> row2[f + j]]
    BY <2>1 DEF Layout, Seg
  <2>4. \A j \in 1 .. PoolSize - f : row2[f + j] \in Entries
    BY <2>2
  <2>5. PoolSize - f \in Nat
    BY <2>2
  <2> QED
    BY <2>3, <2>4, <2>5
<1>2. available' = available
  BY DEF Next, Thread, Producer, Fetch, Api, Packet, Open, EntryInput, EntryRelease, EntriesDone,
         NcmTake, NcmInput, NcmFree, Retry, TimerFires, NcmEnqueue, NcmRefused, Other,
         Inpkt, InpktAlone, InpktExhausted, Envelope, wlanVars
<1>3. armed' \in {armed, TRUE, FALSE}
  BY DEF Next, Thread, Producer, Fetch, Api, Packet, Open, EntryInput, EntryRelease, EntriesDone,
         NcmTake, NcmInput, NcmFree, Retry, TimerFires, NcmEnqueue, NcmRefused, Other,
         Inpkt, InpktAlone, InpktExhausted, Envelope, wlanVars
<1>4. pool' \in Pool /\ batch' \in Batch
  <2>1. pool \in Pool /\ batch \in Batch /\ mbox \in Seq(Message) /\ Len(mbox) <= MboxSize
    BY TypeFacts
  <2>2. /\ Posted(batch, pool, mbox).pool \in Pool
        /\ Posted(batch, pool, mbox).batch \in Batch
    BY <2>1, PostedHolds DEF Layout
  <2>3. CASE Retry \/ TimerFires \/ \E w \in WlanTasks : InpktExhausted(w)
    BY <2>1, <2>2, <2>3 DEF Retry, TimerFires, InpktExhausted
  <2>4. ASSUME NEW w \in WlanTasks, Inpkt(w) PROVE pool' \in Pool /\ batch' \in Batch
    BY <2>4, InpktLayout
  <2>5. ASSUME NEW w \in WlanTasks, InpktAlone(w) PROVE pool' \in Pool /\ batch' \in Batch
    BY <2>5, InpktAloneLayout
  <2>6. CASE EntryRelease
    <3>1. batch' = batch
      BY <2>6 DEF EntryRelease
    <3> QED
      BY <2>1, <2>6, <3>1, ReleaseLayout
  <2>7. CASE \/ Fetch \/ Api \/ Packet \/ Open \/ EntryInput \/ EntriesDone
             \/ NcmTake \/ NcmInput \/ NcmFree \/ NcmEnqueue \/ NcmRefused \/ Other
             \/ \E w \in WlanTasks : Envelope(w)
    <3>1. pool' = pool /\ batch' = batch
      BY <2>7 DEF Fetch, Api, Packet, Open, EntryInput, EntriesDone, NcmTake, NcmInput,
                  NcmFree, NcmEnqueue, NcmRefused, Other, Envelope, wlanVars
    <3> QED
      BY <2>1, <3>1
  <2> QED
    BY <2>3, <2>4, <2>5, <2>6, <2>7 DEF Next, Thread, Producer
<1>5. available \in BOOLEAN /\ armed \in BOOLEAN
  BY DEF TypeOK
<1> QED
  BY <1>1, <1>2, <1>3, <1>4, <1>5 DEF WlanTypes

LEMMA NcmTyped ==
  ASSUME TypeOK, NcmCount', Next
  PROVE  NcmTypes'
<1>1. /\ ncmQueue \in Seq(1 .. MaxNcm) /\ ncmFree \in 0 .. NcmSize /\ marker \in BOOLEAN
      /\ sent \in [wlan : 0 .. MaxWlan, ncm : 0 .. MaxNcm, other : 0 .. MaxOther]
      /\ MaxNcm \in Nat /\ NcmSize \in Nat
  BY SizesAssumption DEF TypeOK
<1>2. CASE NcmEnqueue
  <2>1. sent'.ncm \in 1 .. MaxNcm
    <3>1. sent.ncm < MaxNcm /\ sent' = [sent EXCEPT !.ncm = sent.ncm + 1]
      BY <1>2 DEF NcmEnqueue, NextNcm
    <3> QED
      BY <1>1, <3>1
  <2>2. ncmQueue' \in {<<>>, Append(ncmQueue, sent'.ncm)} /\ ncmFree' \in {ncmFree, ncmFree - 1}
        /\ marker' \in {marker, TRUE} /\ ncmFree > 0
    BY <1>2 DEF NcmEnqueue
  <2>3. Append(ncmQueue, sent'.ncm) \in Seq(1 .. MaxNcm)
    BY <1>1, <2>1, AppendProperties
  <2>4. ncmFree' \in 0 .. NcmSize
    BY <1>1, <2>2
  <2>5. ncmQueue' \in Seq(1 .. MaxNcm)
    BY ONLY <2>2, <2>3, EmptySeq
  <2> QED
    BY <1>1, <2>2, <2>4, <2>5 DEF NcmTypes
<1>3. CASE NcmTake
  <2>1. ncmQueue # <<>> => Tail(ncmQueue) \in Seq(1 .. MaxNcm)
    BY <1>1, HeadTailProperties
  <2>2. /\ ncmQueue' = ncmQueue \/ (ncmQueue # <<>> /\ ncmQueue' = Tail(ncmQueue))
        /\ ncmFree' = ncmFree /\ marker' \in {marker, FALSE}
    BY <1>3 DEF NcmTake
  <2> QED
    BY <1>1, <2>1, <2>2 DEF NcmTypes
<1>4. CASE NcmFree
  <2>1. ncmFree' = ncmFree + 1 /\ ncmQueue' = ncmQueue /\ marker' = marker /\ pc' = "marker"
    BY <1>4 DEF NcmFree
  <2>2. ncmFree + 1 + Len(ncmQueue) = NcmSize
    <3>1. ncmFree' + Len(ncmQueue')
            + (IF pc' \in {"ncmInput", "ncmFree"} THEN 1 ELSE 0) = NcmSize
      BY DEF NcmCount
    <3>2. ~ (pc' \in {"ncmInput", "ncmFree"})
      BY <2>1
    <3>3. Len(ncmQueue) \in Nat
      BY <1>1, LenProperties
    <3> QED
      BY ONLY <1>1, <2>1, <3>1, <3>2, <3>3
  <2>3. Len(ncmQueue) \in Nat
    BY <1>1, LenProperties
  <2>4. ncmFree + 1 \in 0 .. NcmSize
    BY <1>1, <2>2, <2>3
  <2> QED
    BY <1>1, <2>1, <2>4 DEF NcmTypes
<1>5. CASE \/ Fetch \/ Api \/ Packet \/ Open \/ EntryInput \/ EntryRelease \/ EntriesDone
           \/ NcmInput \/ Retry \/ TimerFires \/ NcmRefused \/ Other
           \/ \E w \in WlanTasks : Producer(w)
  <2>1. UNCHANGED ncmVars
    BY <1>5 DEF Fetch, Api, Packet, Open, EntryInput, EntryRelease, EntriesDone, NcmInput, Retry,
         TimerFires, NcmRefused, Other, Producer, Inpkt, InpktAlone, InpktExhausted, Envelope
  <2> QED
    BY <1>1, <2>1 DEF NcmTypes, ncmVars
<1> QED
  BY <1>2, <1>3, <1>4, <1>5 DEF Next, Thread

LEMMA AcceptedSent ==
  ASSUME CallTypes
  PROVE  Accepted \subseteq Packets /\ Accepted \subseteq 1 .. sent.wlan
<1>1. sent.wlan \in 0 .. MaxWlan /\ MaxWlan \in Nat
  BY SizesAssumption DEF CallTypes
<1>2. 1 .. sent.wlan \subseteq Packets
  BY <1>1 DEF Packets
<1> QED
  BY <1>2 DEF Accepted

LEMMA CallTyped ==
  ASSUME TypeOK, Next
  PROVE  CallTypes'
<1>1. CallTypes
  BY TypeParts
<1>2. /\ falling \in [WlanTasks -> Packets \cup {Nil}]
      /\ sent \in [wlan : 0 .. MaxWlan, ncm : 0 .. MaxNcm, other : 0 .. MaxOther]
      /\ refused \in [wlan : SUBSET Packets, ncm : SUBSET (1 .. MaxNcm)]
      /\ before \in [Packets -> SUBSET Packets]
  BY <1>1 DEF CallTypes
<1>3. ASSUME NEW w \in WlanTasks, NextPacket(w),
             falling' \in {falling, [falling EXCEPT ![w] = sent'.wlan]},
             refused' \in {refused, [refused EXCEPT !.wlan = @ \cup {sent'.wlan}]}
      PROVE  CallTypes'
  <2>1. /\ sent' \in [wlan : 0 .. MaxWlan, ncm : 0 .. MaxNcm, other : 0 .. MaxOther]
        /\ sent'.wlan \in Packets /\ before' = [before EXCEPT ![sent'.wlan] = Accepted]
    BY <1>3, NextPacketFacts
  <2>2. before' \in [Packets -> SUBSET Packets]
    BY <1>1, <1>2, <2>1, AcceptedSent
  <2>3. falling' \in [WlanTasks -> Packets \cup {Nil}]
    BY <1>2, <1>3, <2>1
  <2>4. refused' \in [wlan : SUBSET Packets, ncm : SUBSET (1 .. MaxNcm)]
    BY <1>2, <1>3, <2>1
  <2> QED
    BY <2>1, <2>2, <2>3, <2>4 DEF CallTypes
<1>4. ASSUME NEW w \in WlanTasks, Producer(w) PROVE CallTypes'
  <2>1. CASE Inpkt(w)
    BY <1>3, <2>1 DEF Inpkt
  <2>2. CASE InpktAlone(w)
    BY <1>3, <2>2 DEF InpktAlone
  <2>3. CASE InpktExhausted(w)
    BY <1>3, <2>3 DEF InpktExhausted
  <2>4. CASE Envelope(w)
    <3>1. /\ falling[w] \in Packets /\ falling' = [falling EXCEPT ![w] = Nil]
          /\ refused' \in {refused, [refused EXCEPT !.wlan = @ \cup {falling[w]}]}
          /\ UNCHANGED <<sent, before>>
      BY <1>2, <2>4 DEF Envelope
    <3>2. falling' \in [WlanTasks -> Packets \cup {Nil}]
      BY <1>2, <3>1
    <3>3. refused' \in [wlan : SUBSET Packets, ncm : SUBSET (1 .. MaxNcm)]
      BY <1>2, <3>1
    <3> QED
      BY <1>2, <3>1, <3>2, <3>3 DEF CallTypes
  <2> QED
    BY <1>4, <2>1, <2>2, <2>3, <2>4 DEF Producer
<1>5. CASE NcmEnqueue \/ NcmRefused
  <2>1. /\ sent.ncm < MaxNcm /\ sent' = [sent EXCEPT !.ncm = sent.ncm + 1]
        /\ refused' \in {refused, [refused EXCEPT !.ncm = @ \cup {sent'.ncm}]}
        /\ UNCHANGED <<falling, before>>
    BY <1>5 DEF NcmEnqueue, NcmRefused, NextNcm
  <2>2. MaxNcm \in Nat
    BY SizesAssumption
  <2>3. sent' \in [wlan : 0 .. MaxWlan, ncm : 0 .. MaxNcm, other : 0 .. MaxOther]
        /\ sent'.ncm \in 1 .. MaxNcm
    BY <1>2, <2>1, <2>2
  <2>4. refused' \in [wlan : SUBSET Packets, ncm : SUBSET (1 .. MaxNcm)]
    BY <1>2, <2>1, <2>3
  <2> QED
    BY <1>2, <2>1, <2>3, <2>4 DEF CallTypes
<1>6. CASE Other
  <2>1. /\ sent.other < MaxOther /\ sent' = [sent EXCEPT !.other = sent.other + 1]
        /\ UNCHANGED <<falling, before, refused>>
    BY <1>6 DEF Other
  <2>2. MaxOther \in Nat
    BY SizesAssumption
  <2>3. sent' \in [wlan : 0 .. MaxWlan, ncm : 0 .. MaxNcm, other : 0 .. MaxOther]
    BY <1>2, <2>1, <2>2
  <2> QED
    BY <1>2, <2>1, <2>3 DEF CallTypes
<1>7. CASE Thread \/ TimerFires
  <2>1. UNCHANGED callVars
    BY <1>7 DEF Thread, Fetch, Api, Packet, Open, EntryInput, EntryRelease, EntriesDone, NcmTake,
                NcmInput, NcmFree, Retry, TimerFires
  <2> QED
    BY <1>2, <2>1 DEF CallTypes, callVars
<1> QED
  BY <1>4, <1>5, <1>6, <1>7 DEF Next

LEMMA ThreadTyped ==
  ASSUME TypeOK, Args, Owned, Next
  PROVE  ThreadTypes'
<1> PICK row, e, off : Layout(row, e, off)
  BY DEF Owned
<1> DEFINE Cur == [index : Entries \cup {Nil}, next : Entries \cup {Nil}, left : 0 .. PoolSize,
                   pkt : Packets \cup (1 .. MaxNcm) \cup {Nil}]
           Pcs == {"fetch", "api", "packet", "batch", "entries", "release",
                   "marker", "ncmInput", "ncmFree", "retry"}
           Done == [wlan : Seq(Packets), ncm : Seq(1 .. MaxNcm)]
<1>1. cur \in Cur /\ pc \in Pcs /\ delivered \in Done /\ pool \in Pool
      /\ PoolSize \in Nat /\ PoolSize > 0
  <2>1. cur \in Cur /\ pc \in Pcs /\ delivered \in Done
    BY TypeParts DEF ThreadTypes
  <2> QED
    BY <2>1, TypeFacts, SizesAssumption
<1>2. \A j \in 1 .. e : row[j] \in Entries /\ pool[row[j]].pkt \in Packets
      /\ pool[row[j]].next \in Entries \cup {Nil} /\ pool[row[j]].count \in 0 .. PoolSize
  <2>1. \A j \in 1 .. e : row[j] \in Entries
    BY LayoutFacts
  <2> QED
    BY <1>1, <2>1 DEF Layout, Pool, Entry
<1>3. ThreadHolds(row, off[1]) /\ off[1] \in 0 .. e /\ e \in Nat /\ e <= PoolSize
  BY LayoutFacts DEF Layout
<1> SUFFICES cur' \in Cur /\ pc' \in Pcs /\ delivered' \in Done
  BY DEF ThreadTypes
<1>4. CASE Fetch
  <2> DEFINE m == Head(mbox)
  <2>1. /\ m = mbox[1] /\ 1 \in 1 .. Len(mbox) /\ m \in Message
        /\ m.type \in {"batch", "entry", "packet", "marker", "api"}
        /\ pc' = IF m.type = "entry" THEN "entries" ELSE m.type
        /\ cur' = [index |-> IF m.type = "packet" THEN Nil ELSE m.arg, next |-> Nil,
                   left |-> IF m.type = "entry" THEN 1 ELSE 0,
                   pkt |-> IF m.type = "packet" THEN m.arg ELSE Nil]
        /\ delivered' = delivered
    BY <1>4, FetchFacts
  <2>2. /\ m.type = "packet" => m.arg \in Packets
        /\ m.type \in {"marker", "api"} => m.arg = Nil
    BY <2>1 DEF Args
  <2>3. m.type \in {"batch", "entry"} => m.arg \in Entries
    <3>1. Len(mbox) \in Nat /\ 1 \in 1 .. Len(mbox) + 1 /\ 1 + 1 \in 1 .. Len(mbox) + 1
      BY <2>1, TypeFacts
    <3>2. MsgHolds(pool, m, row, off[1], off[1 + 1])
      BY <2>1 DEF Layout, MboxHolds
    <3>3. off[1] \in 0 .. e /\ off[1 + 1] \in 0 .. e
      BY <3>1, LayoutFacts
    <3> HIDE DEF m
    <3>4. ASSUME m.type = "batch" PROVE m.arg \in Entries
      <4>1. off[1] < off[1 + 1] /\ m.arg = row[off[1] + 1]
        BY <3>2, <3>4 DEF MsgHolds
      <4>2. off[1] + 1 \in 1 .. e
        BY <1>3, <3>3, <4>1
      <4> QED
        BY <1>2, <4>1, <4>2
    <3>5. ASSUME m.type = "entry" PROVE m.arg \in Entries
      <4>1. off[1 + 1] = off[1] + 1 /\ m.arg = row[off[1 + 1]]
        BY <3>2, <3>5 DEF MsgHolds
      <4>2. off[1 + 1] \in 1 .. e
        BY <1>3, <3>3, <4>1
      <4> QED
        BY <1>2, <4>1, <4>2
    <3> QED
      BY <3>4, <3>5
  <2> HIDE DEF m
  <2>4. /\ (IF m.type = "packet" THEN Nil ELSE m.arg) \in Entries \cup {Nil}
        /\ (IF m.type = "packet" THEN m.arg ELSE Nil) \in Packets \cup {Nil}
        /\ (IF m.type = "entry" THEN 1 ELSE 0) \in 0 .. PoolSize
    BY <1>1, <2>1, <2>2, <2>3
  <2>5. cur' \in Cur
    BY <2>1, <2>4
  <2>6. pc' \in Pcs
    BY <2>1
  <2> QED
    BY <1>1, <2>1, <2>5, <2>6
<1>5. CASE Open
  <2>1. pc = "batch" /\ cur' = [cur EXCEPT !.left = pool[cur.index].count]
        /\ pc' \in {"entries", "retry"} /\ delivered' = delivered
    BY <1>5 DEF Open
  <2>2. cur.index = row[1] /\ 1 \in 1 .. e
    BY <1>3, <2>1 DEF ThreadHolds
  <2>3. cur' \in Cur
    BY <1>1, <1>2, <2>1, <2>2
  <2> QED
    BY <1>1, <2>1, <2>3
<1>6. CASE EntryInput
  <2>1. /\ pc = "entries" /\ EntryLeft /\ pc' = "release"
        /\ cur' = [cur EXCEPT !.next = pool[cur.index].next]
        /\ delivered' = [delivered EXCEPT !.wlan = Append(@, pool[cur.index].pkt)]
    BY <1>6 DEF EntryInput
  <2>2. cur.index = row[1] /\ 1 \in 1 .. e
    BY <1>3, <2>1 DEF ThreadHolds, EntryLeft
  <2>3. cur' \in Cur
    BY <1>1, <1>2, <2>1, <2>2
  <2>4. delivered' \in Done
    <3>1. Append(delivered.wlan, pool[cur.index].pkt) \in Seq(Packets)
      BY <1>1, <1>2, <2>2, AppendProperties
    <3> QED
      BY <1>1, <2>1, <3>1
  <2> QED
    BY <2>1, <2>3, <2>4
<1>7. CASE EntryRelease
  <2>1. /\ pc = "release" /\ pc' = "entries" /\ delivered' = delivered
        /\ cur' = [cur EXCEPT !.index = cur.next, !.left = cur.left - 1]
    BY <1>7 DEF EntryRelease
  <2>2. cur.left = off[1] /\ 1 <= off[1]
    BY <1>3, <2>1 DEF ThreadHolds, Hand
  <2>3. cur.left - 1 \in 0 .. PoolSize
    BY <1>1, <1>3, <2>2
  <2>4. cur' \in Cur
    BY <1>1, <2>1, <2>3
  <2> QED
    BY <1>1, <2>1, <2>4
<1>8. CASE NcmTake
  <2>1. ncmQueue # <<>> => Head(ncmQueue) \in 1 .. MaxNcm
    <3>1. ncmQueue \in Seq(1 .. MaxNcm)
      BY DEF TypeOK
    <3> QED
      BY <3>1, HeadTailProperties
  <2>2. /\ cur' = cur \/ (ncmQueue # <<>> /\ cur' = [cur EXCEPT !.pkt = Head(ncmQueue)])
        /\ pc' \in {"retry", "ncmInput"} /\ delivered' = delivered
    BY <1>8 DEF NcmTake
  <2>3. cur' \in Cur
    BY <1>1, <2>1, <2>2
  <2> QED
    BY <1>1, <2>2, <2>3
<1>9. CASE Packet
  <2>1. /\ cur' = cur /\ pc' = "retry" /\ cur.pkt \in Packets
        /\ delivered' = [delivered EXCEPT !.wlan = Append(@, cur.pkt)]
    BY <1>9 DEF Packet, Args
  <2>2. Append(delivered.wlan, cur.pkt) \in Seq(Packets)
    BY <1>1, <2>1, AppendProperties
  <2>3. delivered' \in Done
    BY <1>1, <2>1, <2>2
  <2> QED
    BY <1>1, <2>1, <2>3
<1>10. CASE NcmInput
  <2>1. /\ cur' = cur /\ pc' = "ncmFree" /\ cur.pkt \in 1 .. MaxNcm
        /\ delivered' = [delivered EXCEPT !.ncm = Append(@, cur.pkt)]
    BY <1>10 DEF NcmInput, Args
  <2>2. Append(delivered.ncm, cur.pkt) \in Seq(1 .. MaxNcm)
    BY <1>1, <2>1, AppendProperties
  <2>3. delivered' \in Done
    BY <1>1, <2>1, <2>2
  <2> QED
    BY <1>1, <2>1, <2>3
<1>11. CASE Api \/ EntriesDone \/ NcmFree
  <2>1. UNCHANGED <<cur, delivered>> /\ pc' \in {"retry", "marker"}
    BY <1>11 DEF Api, EntriesDone, NcmFree
  <2> QED
    BY <1>1, <2>1
<1>12. CASE Retry
  <2>1. cur' = Idle /\ pc' = "fetch" /\ delivered' = delivered
    BY <1>12 DEF Retry
  <2>2. cur' \in Cur
    BY <1>1, <2>1 DEF Idle
  <2> QED
    BY <1>1, <2>1, <2>2
<1>13. CASE TimerFires \/ NcmEnqueue \/ NcmRefused \/ Other \/ \E w \in WlanTasks : Producer(w)
  <2>1. UNCHANGED <<pc, cur, delivered>>
    BY <1>13 DEF TimerFires, NcmEnqueue, NcmRefused, Other, Producer, Inpkt, InpktAlone,
                 InpktExhausted, Envelope
  <2> QED
    BY <1>1, <2>1
<1> QED
  BY <1>4, <1>5, <1>6, <1>7, <1>8, <1>9, <1>10, <1>11, <1>12, <1>13 DEF Next, Thread

---------------------------------------------------------------------------
\* The inductive invariant, but for the order of the packets.
PoolInv == TypeOK /\ Alone /\ NcmCount /\ Args /\ Owned

LEMMA PoolInvInit ==
  ASSUME Init
  PROVE  PoolInv
<1> DEFINE row == [i \in 1 .. PoolSize |-> i]
           off == [k \in 1 .. 1 |-> 0]
<1>1. /\ PoolSize \in Nat /\ NcmSize \in Nat /\ MboxSize \in Nat
      /\ MaxWlan \in Nat /\ MaxNcm \in Nat /\ MaxOther \in Nat
  BY SizesAssumption
<1>2. mbox = <<>> /\ Len(mbox) = 0 /\ pc = "fetch" /\ batch = NoBatch
      /\ free = [i \in Entries |-> i] /\ marker = FALSE /\ ncmQueue = <<>> /\ ncmFree = NcmSize
  BY DEF Init
<1>3. row \in Row
  BY <1>1 DEF Row, Entries
<1>4. TypeOK
  <2>1. mbox \in Seq(Message) /\ Len(mbox) <= MboxSize
    BY <1>1, <1>2
  <2>2. pool \in Pool
    <3>1. [pkt |-> Nil, next |-> Nil, queued |-> FALSE, count |-> 0] \in Entry
      BY <1>1 DEF Entry
    <3> QED
      BY <3>1 DEF Init, Pool
  <2>3. free \in Seq(Entries)
    BY <1>1, <1>2 DEF Entries
  <2>4. batch \in Batch
    BY <1>1, <1>2 DEF NoBatch, Batch
  <2>5. NcmTypes
    <3>1. NcmSize \in 0 .. NcmSize /\ ncmQueue \in Seq(1 .. MaxNcm)
      BY <1>1, <1>2, EmptySeq
    <3> QED
      BY <1>2, <3>1 DEF NcmTypes
  <2>6. CallTypes
    BY <1>1 DEF Init, CallTypes
  <2>7. ThreadTypes
    BY <1>1 DEF Init, ThreadTypes, Idle
  <2>8. available \in BOOLEAN /\ armed \in BOOLEAN
    BY DEF Init
  <2> QED
    BY <2>1, <2>2, <2>3, <2>4, <2>5, <2>6, <2>7, <2>8
       DEF TypeOK, Message, Pool, Entry, Batch, NcmTypes, CallTypes, ThreadTypes
<1>5. NcmCount
  <2>1. Markers = {} /\ ~Draining
    BY <1>2 DEF Markers, Draining
  <2> QED
    BY <1>1, <1>2, <2>1 DEF NcmCount
<1>6. Layout(row, 0, off)
  <2>1. free = Seg(row, 0, PoolSize)
    BY <1>1, <1>2 DEF Seg, Entries
  <2>2. off \in [1 .. 0 + 1 -> 0 .. 0] /\ off[1] = 0
    OBVIOUS
  <2>3. MboxHolds(pool, mbox, row, off, 0)
    BY <1>2, <2>2 DEF MboxHolds
  <2>4. ThreadHolds(row, off[1])
    BY <1>2, <2>2 DEF ThreadHolds, Hand, Links
  <2>5. BatchHolds(pool, batch, row, off[Len(mbox) + 1], 0)
    BY <1>2, <2>2 DEF BatchHolds, Links, NoBatch
  <2> QED
    BY <1>1, <1>3, <2>1, <2>3, <2>4, <2>5 DEF Layout
<1>7. Args
  BY <1>2 DEF Args
<1>8. Alone
  BY <1>2 DEF Alone
<1> QED
  BY <1>4, <1>5, <1>6, <1>7, <1>8 DEF PoolInv, Owned

LEMMA PoolInvKept ==
  ASSUME PoolInv, [Next]_vars
  PROVE  PoolInv'
<1>1. CASE Next
  <2>1. Owned' /\ Alone' /\ NcmCount' /\ Args'
    BY <1>1, OwnedKept, AloneKept, NcmCountKept, ArgsKept DEF PoolInv
  <2>2. MboxTypes' /\ WlanTypes'
    BY <1>1, <2>1, MboxTyped, WlanTyped DEF PoolInv
  <2>3. NcmTypes' /\ CallTypes' /\ ThreadTypes'
    BY <1>1, <2>1, NcmTyped, CallTyped, ThreadTyped DEF PoolInv
  <2> QED
    BY <2>1, <2>2, <2>3, TypeParts DEF PoolInv
<1>2. CASE UNCHANGED vars
  <2>1. TypeOK' /\ Alone' /\ Args'
    BY <1>2 DEF PoolInv, TypeOK, Alone, Args, vars, wlanVars, ncmVars, callVars
  <2>2. NcmCount'
    BY <1>2 DEF PoolInv, NcmCount, Draining, Markers, vars, ncmVars
  <2>3. Owned'
    <3> PICK row, e, off : Layout(row, e, off)
      BY DEF PoolInv, Owned
    <3>1. Layout(row, e, off)'
      BY <1>2 DEF Layout, ThreadHolds, Hand, vars, wlanVars
    <3> QED
      BY <3>1 DEF Owned
  <2> QED
    BY <2>1, <2>2, <2>3 DEF PoolInv
<1> QED
  BY <1>1, <1>2

\* The variables keep their types: no length, count or number of packets leaves
\* its range, and what the thread takes for an entry or a packet is one.
THEOREM TypeCorrect == Spec => []TypeOK
<1>1. PoolInv => TypeOK
  BY DEF PoolInv
<1> QED
  BY <1>1, PoolInvInit, PoolInvKept, PTL DEF Spec

---------------------------------------------------------------------------
\* The chains are parts of the row.
LEMMA SegFacts ==
  ASSUME NEW row \in Row, NEW z \in 0 .. PoolSize, NEW a \in 0 .. z
  PROVE  /\ Seg(row, a, z) \in Seq(Entries) /\ Len(Seg(row, a, z)) = z - a
         /\ ToSet(Seg(row, a, z)) = {row[j] : j \in a + 1 .. z}
         /\ a < z => Last(Seg(row, a, z)) = row[z]
<1>1. /\ \A j \in 1 .. PoolSize : row[j] \in Entries
      /\ PoolSize \in Nat /\ z - a \in Nat /\ a \in Nat /\ z \in Nat
  BY RowFacts
<1>2. \A j \in 1 .. z - a : row[a + j] \in Entries
  BY <1>1
<1>3. Seg(row, a, z) = [j \in 1 .. z - a |-> row[a + j]]
  BY DEF Seg
<1> DEFINE s == Seg(row, a, z)
<1>4. s \in Seq(Entries) /\ Len(s) = z - a /\ DOMAIN s = 1 .. z - a
      /\ \A j \in 1 .. z - a : s[j] = row[a + j]
  BY <1>1, <1>2, <1>3
<1> HIDE DEF s
<1>5. ToSet(s) = {row[j] : j \in a + 1 .. z}
  <2>1. ToSet(s) = {row[a + j] : j \in 1 .. z - a}
    BY <1>4 DEF ToSet
  <2>2. \A j \in a + 1 .. z : j - a \in 1 .. z - a /\ a + (j - a) = j
    BY <1>1
  <2>3. \A j \in 1 .. z - a : a + j \in a + 1 .. z
    BY <1>1
  <2> QED
    BY <2>1, <2>2, <2>3
<1>6. ASSUME a < z PROVE Last(s) = row[z]
  <2>1. z - a \in 1 .. z - a /\ a + (z - a) = z
    BY <1>1, <1>6
  <2> QED
    BY <1>4, <2>1 DEF Last
<1> QED
  BY <1>4, <1>5, <1>6 DEF s

LEMMA LinkedChain ==
  ASSUME NEW row \in Row, NEW z \in 0 .. PoolSize, NEW a \in 0 .. z, NEW first,
         Links(pool, row, a, z), a < z => first = row[a + 1]
  PROVE  Chain(first, z - a) = Seg(row, a, z) /\ Ends(Seg(row, a, z))
<1>1. a \in Nat /\ z \in Nat /\ z - a \in Nat /\ a + (z - a) = z
      /\ \A j \in a + 1 .. z : j \in 1 .. PoolSize
  BY RowFacts
<1>2. \A j \in a + 1 .. z : row[j] # Nil
  BY <1>1, RowFacts
<1>3. \A j \in a + 1 .. z - 1 : pool[row[j]].next = row[j + 1]
  BY <1>1 DEF Links
<1>4. Chain(first, z - a) = Seg(row, a, z)
  <2> DEFINE n == z - a
  <2>1. n \in Nat /\ a + n = z /\ (n > 0 => first = row[a + 1])
    BY <1>1
  <2> HIDE DEF n
  <2>3. /\ \A j \in a + 1 .. a + n : row[j] # Nil
        /\ \A j \in a + 1 .. a + n - 1 : pool[row[j]].next = row[j + 1]
    <3>1. a + n - 1 = z - 1
      BY <1>1, <2>1
    <3> QED
      BY ONLY <1>2, <1>3, <2>1, <3>1
  <2>2. Chain(first, n) = Seg(row, a, a + n)
    <3>1. a \in Nat /\ n \in Nat
      BY <1>1, <2>1
    <3> QED
      BY ONLY <2>1, <2>3, <3>1, ChainIs, Zenon
  <2> QED
    BY <2>1, <2>2 DEF n
<1>5. Ends(Seg(row, a, z))
  <2> SUFFICES ASSUME Seg(row, a, z) # <<>>
               PROVE  /\ Nil \notin ToSet(Seg(row, a, z))
                      /\ pool[Last(Seg(row, a, z))].next = Nil
    BY DEF Ends
  <2>1. a < z
    <3>1. Len(Seg(row, a, z)) = z - a /\ Seg(row, a, z) \in Seq(Entries)
      BY SegFacts
    <3> QED
      BY <1>1, <3>1
  <2>2. pool[row[z]].next = Nil
    <3>1. z \in a + 1 .. z
      BY <1>1, <2>1
    <3> QED
      BY ONLY <3>1, Links(pool, row, a, z) DEF Links
  <2>3. Last(Seg(row, a, z)) = row[z] /\ ToSet(Seg(row, a, z)) = {row[j] : j \in a + 1 .. z}
    BY <2>1, SegFacts
  <2> QED
    BY ONLY <1>2, <2>2, <2>3
<1> QED
  BY <1>4, <1>5

LEMMA ChainsAre ==
  ASSUME NEW row, NEW e, NEW off, TypeOK, Layout(row, e, off)
  PROVE  /\ BatchChain = Seg(row, off[Len(mbox) + 1], e)
         /\ \A k \in 1 .. Len(mbox) : MboxChains[k] = Seg(row, off[k], off[k + 1])
         /\ ThreadChain = Seg(row, Hand, off[1])
         /\ Ends(BatchChain) /\ Ends(ThreadChain)
         /\ \A k \in 1 .. Len(mbox) : Ends(MboxChains[k])
<1> DEFINE n == Len(mbox)
<1>1. /\ row \in Row /\ n \in Nat /\ e \in Nat /\ e <= PoolSize /\ PoolSize \in Nat
      /\ off[n + 1] \in 0 .. e /\ e \in 0 .. PoolSize
      /\ \A k \in 1 .. n + 1 : off[k] \in 0 .. e
      /\ off[1] \in 0 .. PoolSize
      /\ mbox \in Seq(Message)
      /\ Nil \notin Entries /\ \A j \in 1 .. PoolSize : row[j] # Nil
  BY LayoutFacts, TypeFacts, NilAssumption DEF Layout
<1>2. BatchChain = Seg(row, off[n + 1], e) /\ Ends(BatchChain)
  <2>1. BatchHolds(pool, batch, row, off[n + 1], e)
    BY DEF Layout
  <2>2. batch.count = e - off[n + 1] /\ Links(pool, row, off[n + 1], e)
        /\ (off[n + 1] < e => batch.head = row[off[n + 1] + 1])
    BY <2>1 DEF BatchHolds
  <2> HIDE DEF n
  <2>3. /\ Chain(batch.head, e - off[n + 1]) = Seg(row, off[n + 1], e)
        /\ Ends(Seg(row, off[n + 1], e))
    BY ONLY <1>1, <2>2, LinkedChain
  <2> QED
    BY <2>2, <2>3 DEF BatchChain
<1>3. ThreadChain = Seg(row, Hand, off[1]) /\ Ends(ThreadChain)
  <2>1. ThreadHolds(row, off[1])
    BY DEF Layout
  <2>2. Hand \in 0 .. off[1] /\ Links(pool, row, Hand, off[1]) /\ Hand \in {0, 1}
    BY <1>1, <2>1 DEF ThreadHolds, Hand
  <2>3. ASSUME NEW first, Hand < off[1] => first = row[Hand + 1]
        PROVE  Chain(first, off[1] - Hand) = Seg(row, Hand, off[1])
               /\ Ends(Seg(row, Hand, off[1]))
    BY ONLY <1>1, <2>2, <2>3, LinkedChain
  <2>4. CASE pc = "batch"
    <3>1. Hand = 0 /\ cur.index = row[0 + 1] /\ pool[cur.index].count = off[1] - 0
      BY <1>1, <2>1, <2>4 DEF ThreadHolds, Hand
    <3> QED
      BY <2>3, <2>4, <3>1 DEF ThreadChain
  <2>5. CASE pc = "entries"
    <3>1. Hand = 0 /\ cur.left = off[1] - 0 /\ (0 < off[1] => cur.index = row[0 + 1])
      BY <1>1, <2>1, <2>5 DEF ThreadHolds, Hand
    <3> QED
      BY <2>3, <2>5, <3>1 DEF ThreadChain
  <2>6. CASE pc = "release"
    <3>1. Hand = 1 /\ cur.left = off[1] /\ (1 < off[1] => cur.next = row[1 + 1])
      BY <1>1, <2>1, <2>6 DEF ThreadHolds, Hand
    <3> QED
      BY <2>3, <2>6, <3>1 DEF ThreadChain
  <2>7. CASE pc \notin {"batch", "entries", "release"}
    <3>1. Hand = 0 /\ off[1] = 0
      BY <2>1, <2>7 DEF ThreadHolds, Hand
    <3>2. ThreadChain = <<>> /\ Seg(row, 0, 0) = <<>>
      BY <2>7 DEF ThreadChain, Seg
    <3>3. Ends(<<>>)
      BY DEF Ends
    <3> QED
      BY <3>1, <3>2, <3>3
  <2> QED
    BY <2>4, <2>5, <2>6, <2>7
<1>4. ASSUME NEW k \in 1 .. n
      PROVE  MboxChains[k] = Seg(row, off[k], off[k + 1]) /\ Ends(MboxChains[k])
  <2> DEFINE m == mbox[k]
             a == off[k]
             z == off[k + 1]
  <2>1. MboxChains[k] = ChainOf(m)
    BY <1>1 DEF MboxChains
  <2>2. MsgHolds(pool, m, row, a, z)
    BY DEF Layout, MboxHolds
  <2>3. z \in 0 .. PoolSize /\ a \in 0 .. z
    <3>1. k \in 1 .. n + 1 /\ k + 1 \in 1 .. n + 1 /\ k <= k + 1
      BY <1>1
    <3>2. a <= z
      BY <3>1 DEF Layout, MboxHolds
    <3>3. a \in 0 .. e /\ z \in 0 .. e
      BY <1>1, <3>1
    <3> QED
      BY <1>1, <3>2, <3>3
  <2> HIDE DEF m, a, z, n
  <2>4. CASE m.type = "batch"
    <3>1. a < z /\ m.arg = row[a + 1] /\ pool[m.arg].count = z - a /\ Links(pool, row, a, z)
      BY <2>2, <2>4 DEF MsgHolds
    <3>2. Chain(m.arg, z - a) = Seg(row, a, z) /\ Ends(Seg(row, a, z))
      BY ONLY <1>1, <2>3, <3>1, LinkedChain
    <3> QED
      BY <2>1, <2>4, <3>1, <3>2 DEF ChainOf, a, z
  <2>5. CASE m.type = "entry"
    <3>1. z = a + 1 /\ m.arg = row[z] /\ Links(pool, row, a, z) /\ a \in Nat
      BY <2>2, <2>3, <2>5 DEF MsgHolds
    <3>2. Ends(Seg(row, a, z))
      BY ONLY <1>1, <2>3, <3>1, LinkedChain
    <3>3. Seg(row, a, z) = <<row[z]>>
      BY ONLY <3>1 DEF Seg
    <3> QED
      BY <2>1, <2>5, <3>1, <3>2, <3>3 DEF ChainOf, a, z
  <2>6. CASE m.type \notin {"batch", "entry"}
    <3>1. z = a /\ a \in Nat
      BY <2>2, <2>3, <2>6 DEF MsgHolds
    <3>2. Seg(row, a, z) = <<>> /\ Ends(<<>>)
      BY ONLY <3>1 DEF Seg, Ends
    <3> QED
      BY <2>1, <2>6, <3>2 DEF ChainOf, a, z
  <2> QED
    BY <2>4, <2>5, <2>6
<1> QED
  BY <1>2, <1>3, <1>4

\* The lists together are the row.
LEMMA WaitingIs ==
  ASSUME NEW row, NEW e, NEW off, TypeOK, Layout(row, e, off)
  PROVE  /\ Len(Waiting \o Released) = PoolSize
         /\ ToSet(Waiting) = {row[j] : j \in Hand + 1 .. e}
         /\ ToSet(Waiting \o Released) = Entries
<1> DEFINE n == Len(mbox)
           z == off[n + 1]
           a == off[1]
           A == Seg(row, z, e)
           B == Seg(row, a, z)
           C == Seg(row, Hand, a)
           D == Seg(row, e, PoolSize)
           E == Seg(row, 0, Hand)
<1>1. /\ row \in Row /\ n \in Nat /\ e \in 0 .. PoolSize /\ PoolSize \in 0 .. PoolSize
      /\ z \in 0 .. e /\ a \in 0 .. z /\ z \in 0 .. PoolSize /\ a \in 0 .. PoolSize
      /\ Hand \in 0 .. a /\ 0 \in 0 .. Hand /\ Hand \in 0 .. PoolSize
  <2>1. Hand <= a /\ Hand \in {0, 1}
    BY DEF Layout, ThreadHolds, Hand
  <2>2. /\ row \in Row /\ n \in Nat /\ e \in 0 .. PoolSize /\ PoolSize \in Nat
        /\ z \in 0 .. e /\ a \in 0 .. e /\ a <= z
    BY LayoutFacts DEF Layout
  <2> HIDE DEF z, a, n
  <2> QED
    BY <2>1, <2>2
<1>2. FlattenSeq(MboxChains) = B
  <2>1. off \in [1 .. n + 1 -> 0 .. e]
    BY DEF Layout, MboxHolds
  <2>2. \A i \in 0 .. e : i \in Nat
    OBVIOUS
  <2>3. off \in [1 .. n + 1 -> Nat]
    BY <2>1, <2>2
  <2>4. \A k, l \in 1 .. n + 1 : k <= l => off[k] <= off[l]
    BY DEF Layout, MboxHolds
  <2>5. \A k \in 1 .. n : MboxChains[k] = Seg(row, off[k], off[k + 1])
    BY ChainsAre
  <2>6. MboxChains = [k \in 1 .. n |-> MboxChains[k]]
    <3>1. DOMAIN mbox = 1 .. n
      BY TypeFacts
    <3> QED
      BY <3>1 DEF MboxChains
  <2> HIDE DEF n
  <2> QED
    BY ONLY <1>1, <2>3, <2>4, <2>5, <2>6, FlattenIs DEF z, a
<1>3. Waiting = A \o B \o C
  BY <1>2, ChainsAre DEF Waiting
<1>4. Released = D \o E
  <2>1. free = D
    BY DEF Layout
  <2>2. CASE pc = "release"
    <3>1. Hand = 1 /\ cur.index = row[1]
      BY <2>2 DEF Layout, ThreadHolds, Hand
    <3>2. E = <<row[1]>>
      BY <3>1 DEF Seg
    <3> QED
      BY <2>1, <2>2, <3>1, <3>2 DEF Released
  <2>3. CASE pc # "release"
    <3>1. Hand = 0
      BY <2>3 DEF Hand
    <3>2. E = <<>>
      BY <3>1 DEF Seg
    <3> QED
      BY <2>1, <2>3, <3>2 DEF Released
  <2> QED
    BY <2>2, <2>3
<1>5. /\ A \in Seq(Entries) /\ Len(A) = e - z /\ ToSet(A) = {row[j] : j \in z + 1 .. e}
      /\ B \in Seq(Entries) /\ Len(B) = z - a /\ ToSet(B) = {row[j] : j \in a + 1 .. z}
      /\ C \in Seq(Entries) /\ Len(C) = a - Hand /\ ToSet(C) = {row[j] : j \in Hand + 1 .. a}
      /\ D \in Seq(Entries) /\ Len(D) = PoolSize - e
      /\ ToSet(D) = {row[j] : j \in e + 1 .. PoolSize}
      /\ E \in Seq(Entries) /\ Len(E) = Hand - 0 /\ ToSet(E) = {row[j] : j \in 0 + 1 .. Hand}
  <2> HIDE DEF z, a, n
  <2> QED
    BY <1>1, SegFacts
<1> HIDE DEF n, z, a, A, B, C, D, E
<1>6. ASSUME NEW s \in Seq(Entries), NEW t \in Seq(Entries)
      PROVE  /\ s \o t \in Seq(Entries) /\ Len(s \o t) = Len(s) + Len(t)
             /\ ToSet(s \o t) = ToSet(s) \cup ToSet(t)
  <2>1. s \o t \in Seq(Entries) /\ Len(s \o t) = Len(s) + Len(t)
    BY ConcatProperties
  <2>2. ToSet(s \o t) = ToSet(s) \cup ToSet(t)
    <3>1. Range(s \o t) = Range(s) \cup Range(t)
      BY RangeConcatenation
    <3> QED
      BY <3>1 DEF ToSet, Range
  <2> QED
    BY <2>1, <2>2
<1>7. /\ A \o B \in Seq(Entries) /\ Len(A \o B) = Len(A) + Len(B)
      /\ ToSet(A \o B) = ToSet(A) \cup ToSet(B)
  BY <1>5, <1>6
<1>8. /\ Waiting \in Seq(Entries) /\ Len(Waiting) = Len(A) + Len(B) + Len(C)
      /\ ToSet(Waiting) = ToSet(A) \cup ToSet(B) \cup ToSet(C)
  BY <1>3, <1>5, <1>6, <1>7
<1>9. /\ Released \in Seq(Entries) /\ Len(Released) = Len(D) + Len(E)
      /\ ToSet(Released) = ToSet(D) \cup ToSet(E)
  BY <1>4, <1>5, <1>6
<1>10. /\ Len(Waiting \o Released) = Len(Waiting) + Len(Released)
       /\ ToSet(Waiting \o Released) = ToSet(Waiting) \cup ToSet(Released)
  BY <1>6, <1>8, <1>9
<1>11. Len(Waiting \o Released) = PoolSize
  <2>1. /\ Len(Waiting) = (e - z) + (z - a) + (a - Hand)
        /\ Len(Released) = (PoolSize - e) + (Hand - 0)
        /\ Len(Waiting \o Released) = Len(Waiting) + Len(Released)
    BY ONLY <1>5, <1>8, <1>9, <1>10
  <2>2. e \in Int /\ z \in Int /\ a \in Int /\ Hand \in Int /\ PoolSize \in Int
    BY ONLY <1>1
  <2>3. (e - z) + (z - a) + (a - Hand) + ((PoolSize - e) + (Hand - 0)) = PoolSize
    BY ONLY <2>2
  <2> QED
    BY ONLY <2>1, <2>3
<1>12. ToSet(Waiting) = {row[j] : j \in Hand + 1 .. e}
  <2>1. \A j : j \in Hand + 1 .. e
                 <=> j \in z + 1 .. e \/ j \in a + 1 .. z \/ j \in Hand + 1 .. a
    BY ONLY <1>1
  <2> QED
    BY ONLY <1>5, <1>8, <2>1
<1>13. ToSet(Waiting \o Released) = {row[j] : j \in 1 .. PoolSize}
  <2>1. \A j : j \in 1 .. PoolSize
                 <=> j \in Hand + 1 .. e \/ j \in e + 1 .. PoolSize \/ j \in 0 + 1 .. Hand
    BY ONLY <1>1
  <2> QED
    BY ONLY <1>5, <1>9, <1>10, <1>12, <2>1
<1>14. {row[j] : j \in 1 .. PoolSize} = Entries
  BY <1>1 DEF Row
<1> QED
  BY <1>11, <1>12, <1>13, <1>14

LEMMA PoolInvOwned ==
  ASSUME PoolInv
  PROVE  EntriesOwned
<1> PICK row, e, off : Layout(row, e, off)
  BY DEF PoolInv, Owned
<1>1. TypeOK
  BY DEF PoolInv
<1>2. batch.count > 0 => Last(BatchChain) = batch.tail
  <2> HAVE batch.count > 0
  <2> DEFINE a == off[Len(mbox) + 1]
  <2>1. a \in 0 .. e /\ e \in 0 .. PoolSize /\ row \in Row /\ BatchChain = Seg(row, a, e)
    BY <1>1, LayoutFacts, ChainsAre DEF Layout
  <2>2. BatchHolds(pool, batch, row, a, e)
    BY DEF Layout
  <2> HIDE DEF a
  <2>3. a < e /\ batch.tail = row[e]
    BY <2>1, <2>2 DEF BatchHolds
  <2> QED
    BY <2>1, <2>3, SegFacts
<1>3. DOMAIN mbox = 1 .. Len(mbox)
  BY <1>1, TypeFacts
<1> QED
  BY <1>1, <1>2, <1>3, ChainsAre, WaitingIs DEF EntriesOwned

\* Every entry of the pool is in one list, once, and every list has the length it
\* was sealed with, whoever seals and posts the batch: a task at its threshold,
\* the timer interrupt or the thread.
THEOREM PoolOwned == Spec => []EntriesOwned
BY PoolInvInit, PoolInvKept, PoolInvOwned, PTL DEF Spec

---------------------------------------------------------------------------
\* Every step keeps the order.

\* The steps that move no packet.
LEMMA OrderKept ==
  ASSUME NEW rank, NEW top, NEW row, NEW e, NEW off, NEW off2,
         Order(rank, top, row, e, off),
         Len(mbox) \in Nat, Len(mbox') \in Nat, e \in Nat,
         off[Len(mbox) + 1] \in Nat, off2[Len(mbox') + 1] \in Nat,
         delivered'.wlan = delivered.wlan, Hand' = Hand, InHand' = InHand, Accepted' = Accepted,
         \A j \in Held(e) : Pkt(row, j)' = Pkt(row, j),
         Hand \in Nat, Hand <= off[Len(mbox) + 1],
         NEW d \in Int,
         \A k \in Envelopes' : /\ k + d \in Envelopes
                               /\ mbox'[k].arg = mbox[k + d].arg /\ off2[k] = off[k + d],
         \A k \in Envelopes : k - d \in Envelopes',
         off[Len(mbox) + 1] <= off2[Len(mbox') + 1],
         \A p \in Accepted : before'[p] = before[p],
         \A w \in WlanTasks : falling'[w] # Nil =>
           \/ falling'[w] = falling[w] /\ before'[falling[w]] = before[falling[w]]
           \/ before'[falling'[w]] \subseteq Accepted /\ off2[Len(mbox') + 1] = e
  PROVE  Order(rank, top, row, e, off2)'
<1>1. Held(e)' = Held(e) /\ Past' = Past
  BY DEF Held, Past
<1>7. \A k \in Envelopes' : /\ k \in Int /\ k + d \in Envelopes
                            /\ mbox'[k].arg = mbox[k + d].arg /\ off2[k] = off[k + d]
  BY DEF Envelopes
<1>2. Sorted(rank, row, e, off2)'
  <2>1. Sorted(rank, row, e, off)
    BY DEF Order
  <2>2. \A i, j \in DOMAIN delivered.wlan :
          i < j => rank[delivered.wlan[i]] < rank[delivered.wlan[j]]
    BY ONLY <2>1 DEF Sorted
  <2>3. \A x \in ToSet(delivered.wlan), y \in InHand : rank[x] < rank[y]
    BY ONLY <2>1 DEF Sorted
  <2>4. \A x \in Past, j \in Held(e) : rank[x] < rank[Pkt(row, j)']
    <3>1. \A x \in Past, j \in Held(e) : rank[x] < rank[Pkt(row, j)]
      BY ONLY <2>1 DEF Sorted
    <3> QED
      BY <3>1
  <2>5. \A x \in Past, k \in Envelopes' : rank[x] < rank[mbox'[k].arg]
    <3>1. \A x \in Past, k \in Envelopes : rank[x] < rank[mbox[k].arg]
      BY ONLY <2>1 DEF Sorted
    <3> QED
      BY ONLY <1>7, <3>1
  <2>6. \A i, j \in Held(e) : i < j => rank[Pkt(row, i)'] < rank[Pkt(row, j)']
    <3>1. \A i, j \in Held(e) : i < j => rank[Pkt(row, i)] < rank[Pkt(row, j)]
      BY ONLY <2>1 DEF Sorted
    <3> QED
      BY <3>1
  <2>7. \A k, l \in Envelopes' : k < l => rank[mbox'[k].arg] < rank[mbox'[l].arg]
    <3>1. \A k, l \in Envelopes : k < l => rank[mbox[k].arg] < rank[mbox[l].arg]
      BY ONLY <2>1 DEF Sorted
    <3> QED
      BY ONLY <1>7, <3>1, d \in Int
  <2>8. \A j \in Held(e), k \in Envelopes' :
          /\ j <= off2[k] => rank[Pkt(row, j)'] < rank[mbox'[k].arg]
          /\ j > off2[k] => rank[mbox'[k].arg] < rank[Pkt(row, j)']
    <3>1. \A j \in Held(e), k \in Envelopes :
            /\ j <= off[k] => rank[Pkt(row, j)] < rank[mbox[k].arg]
            /\ j > off[k] => rank[mbox[k].arg] < rank[Pkt(row, j)]
      BY ONLY <2>1 DEF Sorted
    <3>2. \A j \in Held(e) : Pkt(row, j)' = Pkt(row, j)
      OBVIOUS
    <3> QED
      BY ONLY <1>7, <3>1, <3>2
  <2>9. delivered'.wlan = delivered.wlan /\ InHand' = InHand
    OBVIOUS
  <2> QED
    BY ONLY <1>1, <2>2, <2>3, <2>4, <2>5, <2>6, <2>7, <2>8, <2>9 DEF Sorted
<1>3. {Pkt(row, j)' : j \in Held(e)} = {Pkt(row, j) : j \in Held(e)}
  OBVIOUS
<1>4. {mbox'[k].arg : k \in Envelopes'} = {mbox[k].arg : k \in Envelopes}
  <2>1. \A k \in Envelopes : k \in Int /\ k - d \in Envelopes' /\ k - d + d = k
    BY DEF Envelopes
  <2> QED
    BY ONLY <1>7, <2>1
<1>5. Covered(row, e)'
  BY <1>1, <1>3, <1>4 DEF Order, Covered
<1>6. InTurn(rank, row, e, off2)'
  <2>1. \A p \in Accepted' : \A x \in before'[p] : x \in Accepted' /\ rank[x] < rank[p]
    BY DEF Order, InTurn
  <2>2. ASSUME NEW w \in WlanTasks, falling'[w] # Nil, NEW x \in before'[falling'[w]]
        PROVE  /\ x \in Accepted'
               /\ \A j \in off2[Len(mbox') + 1] + 1 .. e : x # Pkt(row, j)'
    <3>1. CASE falling'[w] = falling[w] /\ before'[falling[w]] = before[falling[w]]
      <4>1. x \in Accepted /\ \A j \in off[Len(mbox) + 1] + 1 .. e : x # Pkt(row, j)
        BY <2>2, <3>1 DEF Order, InTurn
      <4>2. \A j \in off2[Len(mbox') + 1] + 1 .. e : j \in off[Len(mbox) + 1] + 1 .. e /\ j \in Held(e)
        BY DEF Held
      <4> QED
        BY <4>1, <4>2
    <3>2. CASE before'[falling'[w]] \subseteq Accepted /\ off2[Len(mbox') + 1] = e
      BY <2>2, <3>2
    <3> QED
      BY <2>2, <3>1, <3>2
  <2> QED
    BY <2>1, <2>2 DEF InTurn
<1> QED
  BY <1>2, <1>5, <1>6 DEF Order

\* A new packet comes last.
LEMMA OrderGrown ==
  ASSUME NEW rank, NEW top, NEW row, NEW e, NEW off, NEW off2, NEW f, f = e + 1,
         Order(rank, top, row, e, off),
         Len(mbox) \in Nat, Len(mbox') \in Nat, e \in Nat,
         off[Len(mbox) + 1] \in Nat, off2[Len(mbox') + 1] \in Nat,
         \A k \in Envelopes : off[k] \in 0 .. e,
         NEW new \in Packets, new \notin Accepted, Accepted' = Accepted \cup {new},
         Accepted \subseteq Packets,
         delivered' = delivered, Hand' = Hand, InHand' = InHand,
         \A j \in Held(e) : Pkt(row, j)' = Pkt(row, j),
         Pkt(row, f)' = new,
         Hand \in Nat, Hand <= off[Len(mbox) + 1], Hand <= e,
         Envelopes' = Envelopes,
         \A k \in Envelopes : mbox'[k].arg = mbox[k].arg /\ off2[k] = off[k],
         off[Len(mbox) + 1] <= off2[Len(mbox') + 1],
         before'[new] = Accepted, \A p \in Accepted : before'[p] = before[p],
         \A w \in WlanTasks : falling'[w] # Nil =>
           falling'[w] = falling[w] /\ before'[falling[w]] = before[falling[w]]
  PROVE  \E rank2, top2 : Order(rank2, top2, row, f, off2)'
<1> PICK rank2, top2 : rank2 = [rank EXCEPT ![new] = top] /\ top2 = top + 1
  OBVIOUS
<1>1. Held(f)' = Held(e) \cup {f} /\ Past' = Past
  BY DEF Held, Past
<1>9. f \notin Held(e) /\ f \in Int /\ \A j \in Held(e) : j < f /\ j \in Int
  BY DEF Held
<1>2. /\ rank \in [Packets -> Int] /\ top \in Int /\ \A p \in Packets : rank[p] < top
      /\ Accepted = Past \cup {Pkt(row, j) : j \in Held(e)} \cup {mbox[k].arg : k \in Envelopes}
  BY DEF Order, Covered
<1>3. /\ rank2 \in [Packets -> Int] /\ top2 \in Int /\ \A p \in Packets : rank2[p] < top2
      /\ rank2[new] = top
      /\ \A p \in Accepted : rank2[p] = rank[p] /\ rank[p] < top /\ rank[p] \in Int
  BY <1>2
<1>4. /\ \A x \in Past : x \in Accepted
      /\ \A x \in ToSet(delivered.wlan) : x \in Accepted
      /\ \A x \in InHand : x \in Accepted
      /\ \A i \in DOMAIN delivered.wlan : delivered.wlan[i] \in Accepted
  BY <1>2 DEF Past, ToSet
<1>10. /\ \A j \in Held(e) : Pkt(row, j)' = Pkt(row, j) /\ Pkt(row, j) \in Accepted
       /\ Pkt(row, f)' = new
  BY <1>2
<1>11. \A k \in Envelopes : /\ mbox'[k].arg = mbox[k].arg /\ mbox[k].arg \in Accepted
                            /\ off2[k] = off[k] /\ off[k] \in Int /\ off[k] <= e
  BY <1>2
<1>12. f = e + 1 /\ e \in Nat
  OBVIOUS
<1>5. Sorted(rank, row, e, off)
  BY DEF Order
<1>6. Sorted(rank2, row, f, off2)'
  <2>1. \A i, j \in DOMAIN delivered.wlan :
          i < j => rank2[delivered.wlan[i]] < rank2[delivered.wlan[j]]
    BY ONLY <1>3, <1>4, <1>5 DEF Sorted
  <2>2. \A x \in ToSet(delivered.wlan), y \in InHand : rank2[x] < rank2[y]
    BY ONLY <1>3, <1>4, <1>5 DEF Sorted
  <2>3. \A x \in Past, j \in Held(e) \cup {f} : rank2[x] < rank2[Pkt(row, j)']
    BY ONLY <1>3, <1>4, <1>5, <1>10 DEF Sorted
  <2>4. \A x \in Past, k \in Envelopes : rank2[x] < rank2[mbox'[k].arg]
    BY ONLY <1>3, <1>4, <1>5, <1>11 DEF Sorted
  <2>5. \A i, j \in Held(e) \cup {f} : i < j => rank2[Pkt(row, i)'] < rank2[Pkt(row, j)']
    BY ONLY <1>3, <1>5, <1>9, <1>10 DEF Sorted
  <2>6. \A k, l \in Envelopes : k < l => rank2[mbox'[k].arg] < rank2[mbox'[l].arg]
    BY ONLY <1>3, <1>5, <1>11 DEF Sorted
  <2>7. \A j \in Held(e) \cup {f}, k \in Envelopes :
          /\ j <= off2[k] => rank2[Pkt(row, j)'] < rank2[mbox'[k].arg]
          /\ j > off2[k] => rank2[mbox'[k].arg] < rank2[Pkt(row, j)']
    <3> TAKE j \in Held(e) \cup {f}, k \in Envelopes
    <3>1. CASE j = f
      BY ONLY <1>3, <1>10, <1>11, <1>12, <3>1, k \in Envelopes
    <3>2. CASE j \in Held(e)
      BY ONLY <1>3, <1>5, <1>10, <1>11, <3>2, k \in Envelopes DEF Sorted
    <3> QED
      BY <3>1, <3>2
  <2>8. delivered' = delivered /\ InHand' = InHand /\ Envelopes' = Envelopes
    OBVIOUS
  <2> QED
    BY ONLY <1>1, <2>1, <2>2, <2>3, <2>4, <2>5, <2>6, <2>7, <2>8 DEF Sorted
<1>7. Covered(row, f)'
  <2>1. {Pkt(row, j)' : j \in Held(f)'} = {Pkt(row, j) : j \in Held(e)} \cup {new}
    BY <1>1
  <2>2. {mbox'[k].arg : k \in Envelopes} = {mbox[k].arg : k \in Envelopes}
    BY ONLY <1>11
  <2> QED
    BY <1>1, <1>2, <2>1, <2>2 DEF Covered
<1>8. InTurn(rank2, row, f, off2)'
  <2>1. ASSUME NEW p \in Accepted', NEW x \in before'[p]
        PROVE  x \in Accepted' /\ rank2[x] < rank2[p]
    <3>1. CASE p = new
      BY <1>3, <2>1, <3>1
    <3>2. CASE p # new
      <4>1. p \in Accepted /\ x \in before[p]
        BY <2>1, <3>2
      <4>2. x \in Accepted /\ rank[x] < rank[p]
        BY <4>1 DEF Order, InTurn
      <4> QED
        BY <1>3, <4>1, <4>2
    <3> QED
      BY <3>1, <3>2
  <2>2. ASSUME NEW w \in WlanTasks, falling'[w] # Nil, NEW x \in before'[falling'[w]]
        PROVE  /\ x \in Accepted'
               /\ \A j \in off2[Len(mbox') + 1] + 1 .. f : x # Pkt(row, j)'
    <3>1. falling'[w] = falling[w] /\ before'[falling[w]] = before[falling[w]]
      BY <2>2
    <3>2. InTurn(rank, row, e, off) /\ falling[w] # Nil /\ x \in before[falling[w]]
      BY <2>2, <3>1 DEF Order
    <3>3. x \in Accepted /\ \A j \in off[Len(mbox) + 1] + 1 .. e : x # Pkt(row, j)
      BY ONLY <3>2, w \in WlanTasks DEF InTurn
    <3>4. \A j \in off2[Len(mbox') + 1] + 1 .. f :
            j = f \/ (j \in off[Len(mbox) + 1] + 1 .. e /\ j \in Held(e))
      BY DEF Held
    <3>5. Accepted' = Accepted \cup {new} /\ new \notin Accepted
      OBVIOUS
    <3> QED
      BY ONLY <1>10, <3>3, <3>4, <3>5
  <2> QED
    BY <2>1, <2>2 DEF InTurn
<1> QED
  BY <1>3, <1>6, <1>7, <1>8 DEF Order

\* A rank of its own for a packet that is not in S, before all of S but those
\* whose rank is less than t.
Raised(rank2, top2, rank, t, S, new) ==
  /\ rank2 \in [Packets -> Int] /\ top2 \in Int /\ \A p \in Packets : rank2[p] < top2
  /\ \A p, q \in S : rank[p] < rank[q] => rank2[p] < rank2[q]
  /\ \A p \in S : /\ rank[p] < t => rank2[p] < rank2[new]
                  /\ ~ (rank[p] < t) => rank2[new] < rank2[p]

LEMMA Inserted ==
  ASSUME NEW rank \in [Packets -> Int], NEW top \in Int, \A p \in Packets : rank[p] < top,
         NEW S \in SUBSET Packets, NEW new \in Packets, new \notin S, NEW t \in Int, t <= top
  PROVE  \E rank2, top2 : Raised(rank2, top2, rank, t, S, new)
<1> DEFINE up(p) == IF rank[p] < t THEN rank[p] ELSE rank[p] + 1
           rank2 == [p \in Packets |-> IF p = new THEN t ELSE up(p)]
           top2 == top + 1
<1>1. \A p \in Packets : rank[p] \in Int /\ up(p) \in Int /\ up(p) < top2
  OBVIOUS
<1>2. top2 \in Int /\ t < top2
  OBVIOUS
<1>3. \A p, q \in Packets : rank[p] < rank[q] => up(p) < up(q)
  BY <1>1
<1>4. \A p \in Packets : (rank[p] < t => up(p) < t) /\ (~ (rank[p] < t) => t < up(p))
  BY <1>1
<1> HIDE DEF up, top2
<1>5. rank2 \in [Packets -> Int] /\ \A p \in Packets : rank2[p] < top2
  BY <1>1, <1>2
<1>6. rank2[new] = t /\ \A p \in S : rank2[p] = up(p) /\ p \in Packets
  OBVIOUS
<1> HIDE DEF rank2
<1>7. \A p, q \in S : rank[p] < rank[q] => rank2[p] < rank2[q]
  BY <1>3, <1>6
<1>8. \A p \in S : /\ rank[p] < t => rank2[p] < rank2[new]
                   /\ ~ (rank[p] < t) => rank2[new] < rank2[p]
  BY <1>4, <1>6
<1>9. Raised(rank2, top2, rank, t, S, new)
  BY ONLY <1>2, <1>5, <1>7, <1>8 DEF Raised
<1> QED
  BY <1>9

\* An envelope comes behind everything but the open batch.
LEMMA OrderEnveloped ==
  ASSUME NEW rank, NEW top, NEW row, NEW e, NEW off, NEW off2,
         Order(rank, top, row, e, off),
         NEW n \in Nat, n = Len(mbox), Len(mbox') = n + 1, e \in Nat,
         NEW z \in 0 .. e, z = off[n + 1], off2[n + 1] = z, off2[n + 2] = z,
         \A k \in Envelopes : off[k] \in Int /\ off[k] <= z,
         NEW new \in Packets, new \notin Accepted, Accepted' = Accepted \cup {new},
         Accepted \subseteq Packets,
         delivered' = delivered, Hand' = Hand, InHand' = InHand,
         \A j \in Held(e) : Pkt(row, j)' = Pkt(row, j),
         Hand \in Nat, Hand <= z,
         Envelopes' = Envelopes \cup {n + 1},
         mbox'[n + 1].arg = new,
         \A k \in Envelopes : mbox'[k].arg = mbox[k].arg /\ off2[k] = off[k],
         before' = before,
         NEW w0 \in WlanTasks, falling[w0] = new, new # Nil,
         \A w \in WlanTasks : falling'[w] # Nil => falling'[w] = falling[w]
  PROVE  \E rank2, top2 : Order(rank2, top2, row, e, off2)'
<1>1. /\ Held(e)' = Held(e) /\ Past' = Past
      /\ \A j \in Held(e) : j \in Int /\ j <= e
      /\ z < e => z + 1 \in Held(e)
  BY DEF Held, Past
<1>2. /\ rank \in [Packets -> Int] /\ top \in Int /\ \A p \in Packets : rank[p] < top
      /\ Accepted = Past \cup {Pkt(row, j) : j \in Held(e)} \cup {mbox[k].arg : k \in Envelopes}
      /\ Sorted(rank, row, e, off)
      /\ InTurn(rank, row, e, off)
  BY DEF Order, Covered
<1>3. /\ \A x \in Past : x \in Accepted
      /\ \A x \in ToSet(delivered.wlan) : x \in Accepted /\ x \in Past
      /\ \A x \in InHand : x \in Accepted
      /\ \A i \in DOMAIN delivered.wlan : delivered.wlan[i] \in Accepted
  BY <1>2 DEF Past, ToSet
<1>4. \A j \in Held(e) : Pkt(row, j)' = Pkt(row, j) /\ Pkt(row, j) \in Accepted
  BY <1>2
<1>5. /\ \A k \in Envelopes : /\ mbox'[k].arg = mbox[k].arg /\ mbox[k].arg \in Accepted
                              /\ off2[k] = off[k] /\ off[k] \in Int /\ off[k] <= z
                              /\ k \in Int /\ k < n + 1
      /\ mbox'[n + 1].arg = new /\ off2[n + 1] = z
  <2>1. \A k \in Envelopes : mbox[k].arg \in Accepted
    BY ONLY <1>2
  <2>2. \A k \in Envelopes : k \in Int /\ k < n + 1
    BY DEF Envelopes
  <2> QED
    BY <2>1, <2>2
<1>0. e \in Int /\ z \in Int /\ z <= e
  OBVIOUS
\* The rank of the first packet of the batch, which makes room.
<1> DEFINE t == IF z < e THEN rank[Pkt(row, z + 1)] ELSE top
<1>6. t \in Int /\ t <= top /\ (z < e => z + 1 \in Held(e) /\ t = rank[Pkt(row, z + 1)])
  <2>1. CASE z < e
    <3>1. z + 1 \in Held(e) /\ t = rank[Pkt(row, z + 1)]
      BY ONLY <1>1, <2>1
    <3>2. Pkt(row, z + 1) \in Packets
      BY <1>4, <3>1
    <3> HIDE DEF t
    <3> QED
      BY <1>2, <3>1, <3>2
  <2>2. CASE ~ (z < e)
    BY <1>2, <2>2
  <2> QED
    BY <2>1, <2>2
<1>7. \A j \in Held(e) : /\ j <= z => rank[Pkt(row, j)] < t
                         /\ j > z => ~ (rank[Pkt(row, j)] < t)
  <2> SUFFICES ASSUME NEW j \in Held(e)
               PROVE  /\ j <= z => rank[Pkt(row, j)] < t
                      /\ j > z => ~ (rank[Pkt(row, j)] < t)
    OBVIOUS
  <2>1. rank[Pkt(row, j)] \in Int /\ rank[Pkt(row, j)] < top /\ j \in Int /\ j <= e
    BY <1>1, <1>2, <1>4
  <2>2. CASE z < e
    <3>1. t = rank[Pkt(row, z + 1)] /\ z + 1 \in Held(e)
      BY <1>6, <2>2
    <3>2. \A i, k \in Held(e) : i < k => rank[Pkt(row, i)] < rank[Pkt(row, k)]
      BY ONLY <1>2 DEF Sorted
    <3> HIDE DEF t
    <3>3. /\ j < z + 1 => rank[Pkt(row, j)] < t
          /\ z + 1 < j => t < rank[Pkt(row, j)]
          /\ j = z + 1 => rank[Pkt(row, j)] = t
      BY ONLY <3>1, <3>2, j \in Held(e)
    <3> QED
      BY ONLY <3>3, <2>1, <1>0, <1>6
  <2>3. CASE ~ (z < e)
    <3>1. t = top /\ ~ (j > z)
      BY <1>0, <2>1, <2>3
    <3> QED
      BY ONLY <2>1, <3>1
  <2> QED
    BY <2>2, <2>3
<1>8. \A k \in Envelopes : rank[mbox[k].arg] < t
  <2> TAKE k \in Envelopes
  <2>1. CASE z < e
    <3>1. \A i \in Held(e), l \in Envelopes :
            i > off[l] => rank[mbox[l].arg] < rank[Pkt(row, i)]
      BY ONLY <1>2 DEF Sorted
    <3>2. z + 1 > off[k] /\ z + 1 \in Held(e) /\ t = rank[Pkt(row, z + 1)]
      BY <1>0, <1>5, <1>6, <2>1
    <3> HIDE DEF t
    <3> QED
      BY ONLY <3>1, <3>2, k \in Envelopes
  <2>2. CASE ~ (z < e)
    BY <1>2, <1>5, <2>2
  <2> QED
    BY <2>1, <2>2
<1>9. \A x \in Past : rank[x] < t
  <2> TAKE x \in Past
  <2>1. CASE z < e
    <3>1. \A y \in Past, i \in Held(e) : rank[y] < rank[Pkt(row, i)]
      BY ONLY <1>2 DEF Sorted
    <3> HIDE DEF t
    <3> QED
      BY ONLY <1>6, <2>1, <3>1, x \in Past
  <2>2. CASE ~ (z < e)
    BY <1>2, <1>3, <2>2
  <2> QED
    BY <2>1, <2>2
<1> HIDE DEF t
<1>10. PICK rank2, top2 : Raised(rank2, top2, rank, t, Accepted, new)
  <2>1. Accepted \in SUBSET Packets /\ new \in Packets /\ new \notin Accepted
    OBVIOUS
  <2> QED
    <3>1. rank \in [Packets -> Int] /\ top \in Int /\ \A p \in Packets : rank[p] < top
      BY ONLY <1>2
    <3>2. t \in Int /\ t <= top
      BY ONLY <1>6
    <3> QED
      BY ONLY <2>1, <3>1, <3>2, Inserted
<1>11. \A p, q \in Accepted : rank[p] < rank[q] => rank2[p] < rank2[q]
  BY ONLY <1>10 DEF Raised
<1>12. \A p \in Accepted : /\ rank[p] < t => rank2[p] < rank2[new]
                           /\ ~ (rank[p] < t) => rank2[new] < rank2[p]
  BY ONLY <1>10 DEF Raised
<1>13. Sorted(rank2, row, e, off2)'
  <2>1. \A i, j \in DOMAIN delivered.wlan :
          i < j => rank2[delivered.wlan[i]] < rank2[delivered.wlan[j]]
    BY ONLY <1>2, <1>3, <1>11 DEF Sorted
  <2>2. \A x \in ToSet(delivered.wlan), y \in InHand : rank2[x] < rank2[y]
    BY ONLY <1>2, <1>3, <1>11 DEF Sorted
  <2>3. \A x \in Past, j \in Held(e) : rank2[x] < rank2[Pkt(row, j)']
    BY ONLY <1>2, <1>3, <1>4, <1>11 DEF Sorted
  <2>4. \A x \in Past, k \in Envelopes \cup {n + 1} : rank2[x] < rank2[mbox'[k].arg]
    <3>1. \A x \in Past, k \in Envelopes : rank2[x] < rank2[mbox'[k].arg]
      BY ONLY <1>2, <1>3, <1>5, <1>11 DEF Sorted
    <3>2. \A x \in Past : rank2[x] < rank2[mbox'[n + 1].arg]
      BY ONLY <1>3, <1>5, <1>9, <1>12
    <3> QED
      BY ONLY <3>1, <3>2
  <2>5. \A i, j \in Held(e) : i < j => rank2[Pkt(row, i)'] < rank2[Pkt(row, j)']
    BY ONLY <1>2, <1>4, <1>11 DEF Sorted
  <2>6. \A k, l \in Envelopes \cup {n + 1} : k < l => rank2[mbox'[k].arg] < rank2[mbox'[l].arg]
    <3>1. \A k, l \in Envelopes : k < l => rank2[mbox'[k].arg] < rank2[mbox'[l].arg]
      BY ONLY <1>2, <1>5, <1>11 DEF Sorted
    <3>2. \A k \in Envelopes : rank2[mbox'[k].arg] < rank2[mbox'[n + 1].arg]
      BY ONLY <1>5, <1>8, <1>12
    <3>3. \A l \in Envelopes \cup {n + 1} : ~ (n + 1 < l)
      BY ONLY <1>5, n \in Nat
    <3> QED
      BY ONLY <3>1, <3>2, <3>3
  <2>7. \A j \in Held(e), k \in Envelopes \cup {n + 1} :
          /\ j <= off2[k] => rank2[Pkt(row, j)'] < rank2[mbox'[k].arg]
          /\ j > off2[k] => rank2[mbox'[k].arg] < rank2[Pkt(row, j)']
    <3>1. \A j \in Held(e), k \in Envelopes :
            /\ j <= off2[k] => rank2[Pkt(row, j)'] < rank2[mbox'[k].arg]
            /\ j > off2[k] => rank2[mbox'[k].arg] < rank2[Pkt(row, j)']
      BY ONLY <1>2, <1>4, <1>5, <1>11 DEF Sorted
    <3>2. \A j \in Held(e) :
            /\ j <= off2[n + 1] => rank2[Pkt(row, j)'] < rank2[mbox'[n + 1].arg]
            /\ j > off2[n + 1] => rank2[mbox'[n + 1].arg] < rank2[Pkt(row, j)']
      BY ONLY <1>4, <1>5, <1>7, <1>12
    <3> QED
      BY ONLY <3>1, <3>2
  <2>8. delivered' = delivered /\ InHand' = InHand /\ Envelopes' = Envelopes \cup {n + 1}
    OBVIOUS
  <2> QED
    BY ONLY <1>1, <2>1, <2>2, <2>3, <2>4, <2>5, <2>6, <2>7, <2>8 DEF Sorted
<1>14. Covered(row, e)'
  <2>1. {Pkt(row, j)' : j \in Held(e)} = {Pkt(row, j) : j \in Held(e)}
    BY ONLY <1>4
  <2>2. {mbox'[k].arg : k \in Envelopes \cup {n + 1}} = {mbox[k].arg : k \in Envelopes} \cup {new}
    BY ONLY <1>5
  <2>3. Accepted' = Accepted \cup {new} /\ Envelopes' = Envelopes \cup {n + 1}
    OBVIOUS
  <2> QED
    BY ONLY <1>1, <1>2, <2>1, <2>2, <2>3 DEF Covered
<1>15. InTurn(rank2, row, e, off2)'
  <2>1. \A x \in before[new] : x \in Accepted /\ \A j \in z + 1 .. e : x # Pkt(row, j)
    <3>1. falling[w0] = new /\ new # Nil /\ w0 \in WlanTasks /\ off[Len(mbox) + 1] = z
      OBVIOUS
    <3> QED
      BY ONLY <1>2, <3>1 DEF InTurn
  <2>2. \A j \in Held(e) : j > z <=> j \in z + 1 .. e
    BY <1>1
  <2>3. ASSUME NEW x \in before[new]
        PROVE  x \in Accepted /\ rank2[x] < rank2[new]
    <3>1. x \in Accepted /\ \A j \in z + 1 .. e : x # Pkt(row, j)
      BY <2>1
    <3>2. \/ x \in Past \/ \E k \in Envelopes : x = mbox[k].arg
          \/ \E j \in Held(e) : x = Pkt(row, j)
      BY ONLY <1>2, <3>1
    <3>3. \A j \in Held(e) : x = Pkt(row, j) => j <= z
      BY <1>1, <2>2, <3>1
    <3>4. rank[x] < t
      BY ONLY <1>7, <1>8, <1>9, <3>2, <3>3
    <3> QED
      BY ONLY <1>12, <3>1, <3>4
  <2>4. ASSUME NEW p \in Accepted', NEW x \in before'[p]
        PROVE  x \in Accepted' /\ rank2[x] < rank2[p]
    <3>1. CASE p = new
      BY <1>10, <2>3, <2>4, <3>1
    <3>2. CASE p # new
      <4>1. p \in Accepted /\ x \in before[p]
        BY <2>4, <3>2
      <4>2. x \in Accepted /\ rank[x] < rank[p]
        BY ONLY <1>2, <4>1 DEF InTurn
      <4> QED
        BY <1>11, <4>1, <4>2
    <3> QED
      BY <3>1, <3>2
  <2>5. ASSUME NEW w \in WlanTasks, falling'[w] # Nil, NEW x \in before'[falling'[w]]
        PROVE  /\ x \in Accepted'
               /\ \A j \in off2[Len(mbox') + 1] + 1 .. e : x # Pkt(row, j)'
    <3>1. falling'[w] = falling[w] /\ falling[w] # Nil /\ x \in before[falling[w]]
      BY <2>5
    <3>2. x \in Accepted /\ \A j \in z + 1 .. e : x # Pkt(row, j)
      BY <1>2, <3>1 DEF InTurn
    <3>3. off2[Len(mbox') + 1] = z
      <4>1. n + 1 + 1 = n + 2
        OBVIOUS
      <4> QED
        BY <4>1
    <3>4. \A j \in z + 1 .. e : j \in Held(e)
      BY DEF Held
    <3>5. Accepted' = Accepted \cup {new}
      OBVIOUS
    <3> QED
      BY ONLY <1>4, <3>2, <3>3, <3>4, <3>5
  <2> QED
    BY <2>4, <2>5 DEF InTurn
<1> QED
  BY <1>10, <1>13, <1>14, <1>15 DEF Order, Raised

\* The thread takes the first message.
LEMMA OrderFetched ==
  ASSUME NEW rank, NEW top, NEW row, NEW e, NEW off, NEW off2,
         Order(rank, top, row, e, off),
         NEW n \in Nat, n = Len(mbox), n > 0, Len(mbox') = n - 1, e \in Nat,
         off[1] = 0, off2[n] = off[n + 1],
         \A k \in 1 .. n - 1 : mbox'[k] = mbox[k + 1] /\ off2[k] = off[k + 1],
         UNCHANGED <<pool, delivered, falling, before, sent, refused>>,
         pc = "fetch", Hand' = 0,
         InHand' = IF mbox[1].type = "packet" THEN {mbox[1].arg} ELSE {}
  PROVE  Order(rank, top, row, e, off2)'
<1>1. /\ Held(e)' = Held(e) /\ \A j \in Held(e) : j \in Int /\ j > 0
      /\ InHand = {} /\ Past = ToSet(delivered.wlan) /\ Past' = Past \cup InHand'
      /\ Accepted' = Accepted /\ \A j : Pkt(row, j)' = Pkt(row, j)
      /\ delivered' = delivered
  BY DEF Held, Hand, InHand, Past, Accepted, Pkt
<1>2. /\ Sorted(rank, row, e, off) /\ InTurn(rank, row, e, off)
      /\ Accepted = Past \cup {Pkt(row, j) : j \in Held(e)} \cup {mbox[k].arg : k \in Envelopes}
  BY DEF Order, Covered
<1>3. /\ \A k \in Envelopes' : /\ k \in Int /\ k + 1 \in Envelopes /\ 1 < k + 1
                               /\ mbox'[k].arg = mbox[k + 1].arg /\ off2[k] = off[k + 1]
      /\ \A k \in Envelopes : k \in Int /\ (k # 1 => k - 1 \in Envelopes' /\ k - 1 + 1 = k)
  <2>1. Envelopes' = {k \in 1 .. n - 1 : mbox[k + 1].type = "packet"}
    BY DEF Envelopes
  <2> QED
    BY <2>1 DEF Envelopes
<1>4. /\ \A x \in InHand' : 1 \in Envelopes /\ x = mbox[1].arg
      /\ 1 \in Envelopes => mbox[1].arg \in InHand'
      /\ off[1] = 0
  BY DEF Envelopes
<1>5. Sorted(rank, row, e, off2)'
  <2>1. \A i, j \in DOMAIN delivered.wlan :
          i < j => rank[delivered.wlan[i]] < rank[delivered.wlan[j]]
    BY ONLY <1>2 DEF Sorted
  <2>2. \A x \in ToSet(delivered.wlan), y \in InHand' : rank[x] < rank[y]
    BY ONLY <1>1, <1>2, <1>4 DEF Sorted
  <2>3. \A x \in Past', j \in Held(e) : rank[x] < rank[Pkt(row, j)]
    BY ONLY <1>1, <1>2, <1>4 DEF Sorted
  <2>4. \A x \in Past', k \in Envelopes' : rank[x] < rank[mbox'[k].arg]
    BY ONLY <1>1, <1>2, <1>3, <1>4 DEF Sorted
  <2>5. \A i, j \in Held(e) : i < j => rank[Pkt(row, i)] < rank[Pkt(row, j)]
    BY ONLY <1>2 DEF Sorted
  <2>6. \A k, l \in Envelopes' : k < l => rank[mbox'[k].arg] < rank[mbox'[l].arg]
    BY ONLY <1>2, <1>3 DEF Sorted
  <2>7. \A j \in Held(e), k \in Envelopes' :
          /\ j <= off2[k] => rank[Pkt(row, j)] < rank[mbox'[k].arg]
          /\ j > off2[k] => rank[mbox'[k].arg] < rank[Pkt(row, j)]
    BY ONLY <1>2, <1>3 DEF Sorted
  <2> QED
    BY ONLY <1>1, <2>1, <2>2, <2>3, <2>4, <2>5, <2>6, <2>7 DEF Sorted
<1>6. Covered(row, e)'
  <2>1. {mbox[k].arg : k \in Envelopes} = InHand' \cup {mbox'[k].arg : k \in Envelopes'}
    BY ONLY <1>3, <1>4
  <2> QED
    BY ONLY <1>1, <1>2, <2>1 DEF Covered
<1>7. InTurn(rank, row, e, off2)'
  <2>1. off2[Len(mbox') + 1] = off[Len(mbox) + 1]
    BY n - 1 + 1 = n
  <2>2. before' = before /\ falling' = falling
    OBVIOUS
  <2> QED
    BY ONLY <1>1, <1>2, <2>1, <2>2 DEF InTurn
<1> QED
  BY <1>5, <1>6, <1>7 DEF Order

\* A packet is passed on: it is behind those that were, with a higher rank.
Rising(rank, d) == \A i, j \in DOMAIN d : i < j => rank[d[i]] < rank[d[j]]

LEMMA SortedAppend ==
  ASSUME NEW S, NEW d \in Seq(S), NEW x \in S, NEW d2, d2 = Append(d, x), NEW rank,
         Rising(rank, d),
         \A y \in ToSet(d) : rank[y] < rank[x]
  PROVE  /\ ToSet(d2) = ToSet(d) \cup {x}
         /\ Rising(rank, d2)
<1>1. /\ Len(d) \in Nat /\ DOMAIN d = 1 .. Len(d) /\ DOMAIN d2 = 1 .. Len(d) + 1
      /\ d2[Len(d) + 1] = x /\ \A i \in 1 .. Len(d) : d2[i] = d[i]
  OBVIOUS
<1>2. \A i : i \in 1 .. Len(d) + 1 <=> i \in 1 .. Len(d) \/ i = Len(d) + 1
  BY <1>1
<1>3. ToSet(d2) = ToSet(d) \cup {x}
  BY ONLY <1>1, <1>2 DEF ToSet
<1>4. ASSUME NEW i \in DOMAIN d2, NEW j \in DOMAIN d2, i < j
      PROVE  rank[d2[i]] < rank[d2[j]]
  <2>1. i \in 1 .. Len(d)
    BY ONLY <1>1, <1>4
  <2>2. CASE j \in 1 .. Len(d)
    BY <1>1, <1>4, <2>1, <2>2 DEF Rising
  <2>3. CASE j = Len(d) + 1
    <3>1. d2[i] \in ToSet(d) /\ d2[j] = x
      BY <1>1, <2>1, <2>3 DEF ToSet
    <3> QED
      BY <3>1
  <2> QED
    BY <1>1, <1>2, <1>4, <2>2, <2>3
<1> QED
  BY <1>3, <1>4 DEF Rising

LEMMA OrderPacket ==
  ASSUME NEW rank, NEW top, NEW row, NEW e, NEW off, TypeOK, Args,
         Order(rank, top, row, e, off), Packet
  PROVE  Order(rank, top, row, e, off)'
<1>1. /\ UNCHANGED <<mbox, pool, falling, sent, refused, before>>
      /\ delivered'.wlan = Append(delivered.wlan, cur.pkt)
      /\ pc = "packet" /\ pc' = "retry" /\ cur.pkt \in Packets
      /\ delivered.wlan \in Seq(Packets)
  <2>1. delivered \in [wlan : Seq(Packets), ncm : Seq(1 .. MaxNcm)]
    BY DEF TypeOK
  <2> QED
    BY <2>1 DEF Packet, Args, wlanVars, callVars
<1>2. /\ Sorted(rank, row, e, off) /\ InTurn(rank, row, e, off) /\ Covered(row, e)
      /\ rank \in [Packets -> Int] /\ top \in Int /\ \A p \in Packets : rank[p] < top
  BY DEF Order
<1>3. InHand = {cur.pkt} /\ InHand' = {} /\ Hand' = Hand
  BY <1>1 DEF InHand, Hand
<1>4. \A y \in ToSet(delivered.wlan) : rank[y] < rank[cur.pkt]
  BY ONLY <1>2, <1>3 DEF Sorted
<1>5. Rising(rank, delivered.wlan)
  BY ONLY <1>2 DEF Sorted, Rising
<1>6. /\ ToSet(delivered'.wlan) = ToSet(delivered.wlan) \cup {cur.pkt}
      /\ Rising(rank, delivered'.wlan)
  BY ONLY <1>1, <1>4, <1>5, SortedAppend
<1>7. /\ Past' = Past /\ Held(e)' = Held(e) /\ Envelopes' = Envelopes /\ Accepted' = Accepted
      /\ \A j : Pkt(row, j)' = Pkt(row, j)
  BY <1>1, <1>3, <1>6 DEF Past, Held, Envelopes, Accepted, Pkt
<1>8. Sorted(rank, row, e, off)'
  BY ONLY <1>1, <1>2, <1>3, <1>6, <1>7 DEF Sorted, Rising
<1>9. Covered(row, e)'
  BY ONLY <1>1, <1>2, <1>7 DEF Covered
<1>10. InTurn(rank, row, e, off)'
  BY ONLY <1>1, <1>2, <1>7 DEF InTurn
<1> QED
  BY <1>2, <1>8, <1>9, <1>10 DEF Order

LEMMA OrderInput ==
  ASSUME NEW rank, NEW top, NEW row, NEW e, NEW off, TypeOK, Layout(row, e, off),
         Order(rank, top, row, e, off), EntryInput
  PROVE  Order(rank, top, row, e, off)'
<1> DEFINE x == Pkt(row, 1)
<1>1. /\ UNCHANGED <<mbox, pool, falling, sent, refused, before>>
      /\ delivered'.wlan = Append(delivered.wlan, x)
      /\ pc = "entries" /\ pc' = "release" /\ x \in Packets
      /\ delivered.wlan \in Seq(Packets)
      /\ e \in Nat /\ e >= 1 /\ off[1] >= 1 /\ off[1] \in Int
  <2>1. delivered \in [wlan : Seq(Packets), ncm : Seq(1 .. MaxNcm)]
    BY DEF TypeOK
  <2>2. /\ pc = "entries" /\ pc' = "release" /\ EntryLeft
        /\ delivered' = [delivered EXCEPT !.wlan = Append(@, pool[cur.index].pkt)]
        /\ UNCHANGED <<mbox, pool, falling, sent, refused, before>>
    BY DEF EntryInput, wlanVars, callVars
  <2>3. /\ ThreadHolds(row, off[1]) /\ off[1] \in 0 .. e /\ e \in Nat
        /\ \A j \in 1 .. e : pool[row[j]].pkt \in Packets
    BY LayoutFacts DEF Layout
  <2>4. off[1] > 0 /\ cur.index = row[1]
    BY <2>2, <2>3 DEF ThreadHolds, EntryLeft
  <2>5. 1 \in 1 .. e /\ e >= 1 /\ off[1] >= 1 /\ off[1] \in Int
    BY <2>3, <2>4
  <2>6. x = pool[row[1]].pkt
    BY DEF Pkt
  <2> HIDE DEF x
  <2>7. x \in Packets
    BY <2>3, <2>5, <2>6
  <2>8. delivered'.wlan = Append(delivered.wlan, x)
    BY <2>1, <2>2, <2>4, <2>6
  <2> QED
    BY <2>1, <2>2, <2>3, <2>5, <2>7, <2>8
<1>2. /\ Sorted(rank, row, e, off) /\ InTurn(rank, row, e, off) /\ Covered(row, e)
      /\ rank \in [Packets -> Int] /\ top \in Int /\ \A p \in Packets : rank[p] < top
  BY DEF Order
<1>3. /\ InHand = {} /\ InHand' = {} /\ Hand = 0 /\ Hand' = 1
      /\ Envelopes' = Envelopes /\ Accepted' = Accepted
      /\ \A j : Pkt(row, j)' = Pkt(row, j)
  BY <1>1 DEF InHand, Hand, Envelopes, Accepted, Pkt
<1>4. /\ \A j : j \in Held(e) <=> j = 1 \/ j \in Held(e)'
      /\ \A j \in Held(e)' : j \in Int /\ 1 < j
  <2>1. e \in Nat /\ e >= 1
    BY <1>1
  <2>2. Held(e) = 0 + 1 .. e /\ Held(e)' = 1 + 1 .. e
    BY <1>3 DEF Held
  <2> QED
    BY ONLY <2>1, <2>2
<1>5. /\ \A y \in Past, j \in Held(e) : rank[y] < rank[Pkt(row, j)]
      /\ \A y \in Past, k \in Envelopes : rank[y] < rank[mbox[k].arg]
      /\ \A i, j \in Held(e) : i < j => rank[Pkt(row, i)] < rank[Pkt(row, j)]
      /\ \A k, l \in Envelopes : k < l => rank[mbox[k].arg] < rank[mbox[l].arg]
      /\ \A j \in Held(e), k \in Envelopes :
           /\ j <= off[k] => rank[Pkt(row, j)] < rank[mbox[k].arg]
           /\ j > off[k] => rank[mbox[k].arg] < rank[Pkt(row, j)]
  BY ONLY <1>2 DEF Sorted
<1>6. \A k \in Envelopes : 1 <= off[k]
  <2> TAKE k \in Envelopes
  <2>1. k \in 1 .. Len(mbox) + 1 /\ 1 \in 1 .. Len(mbox) + 1 /\ 1 <= k
    BY LayoutFacts DEF Envelopes
  <2>2. off[1] <= off[k] /\ off[k] \in 0 .. e
    BY <2>1, LayoutFacts DEF Layout, MboxHolds
  <2> QED
    BY <1>1, <2>2
<1>7. Past = ToSet(delivered.wlan) /\ Past' = ToSet(delivered'.wlan)
  BY <1>3 DEF Past
<1>8. Rising(rank, delivered.wlan)
  BY ONLY <1>2 DEF Sorted, Rising
<1> HIDE DEF x
<1>9. x = Pkt(row, 1)
  BY DEF x
<1>10. \A y \in ToSet(delivered.wlan) : rank[y] < rank[x]
  BY ONLY <1>4, <1>5, <1>7, <1>9
<1>11. /\ ToSet(delivered'.wlan) = ToSet(delivered.wlan) \cup {x}
       /\ Rising(rank, delivered'.wlan)
  BY ONLY <1>1, <1>8, <1>10, SortedAppend
<1>12. Past' = Past \cup {x}
  BY ONLY <1>7, <1>11
<1>13. Sorted(rank, row, e, off)'
  <2>1. \A y \in Past', j \in Held(e)' : rank[y] < rank[Pkt(row, j)]
    BY ONLY <1>4, <1>5, <1>9, <1>12
  <2>2. \A y \in Past', k \in Envelopes : rank[y] < rank[mbox[k].arg]
    BY ONLY <1>4, <1>5, <1>6, <1>9, <1>12
  <2>3. \A i, j \in Held(e)' : i < j => rank[Pkt(row, i)] < rank[Pkt(row, j)]
    BY ONLY <1>4, <1>5
  <2>4. \A j \in Held(e)', k \in Envelopes :
           /\ j <= off[k] => rank[Pkt(row, j)] < rank[mbox[k].arg]
           /\ j > off[k] => rank[mbox[k].arg] < rank[Pkt(row, j)]
    BY ONLY <1>4, <1>5
  <2>5. \A y \in ToSet(delivered'.wlan), z \in InHand' : rank[y] < rank[z]
    BY ONLY <1>3
  <2>6. \A k, l \in Envelopes : k < l => rank[mbox[k].arg] < rank[mbox[l].arg]
    BY ONLY <1>5
  <2>7. mbox' = mbox
    BY ONLY <1>1
  <2> QED
    BY ONLY <1>3, <1>11, <2>1, <2>2, <2>3, <2>4, <2>5, <2>6, <2>7 DEF Sorted, Rising
<1>14. Covered(row, e)'
  <2>1. {Pkt(row, j) : j \in Held(e)} = {x} \cup {Pkt(row, j) : j \in Held(e)'}
    BY ONLY <1>4, <1>9
  <2>2. {Pkt(row, j)' : j \in Held(e)'} = {Pkt(row, j) : j \in Held(e)'}
    BY ONLY <1>3
  <2>3. Accepted = Past \cup {Pkt(row, j) : j \in Held(e)} \cup {mbox[k].arg : k \in Envelopes}
    BY ONLY <1>2 DEF Covered
  <2>4. Accepted' = Past' \cup {Pkt(row, j)' : j \in Held(e)'} \cup {mbox'[k].arg : k \in Envelopes'}
    <3>1. mbox' = mbox
      BY ONLY <1>1
    <3> QED
      BY ONLY <1>3, <1>12, <2>1, <2>2, <2>3, <3>1
  <2> QED
    BY ONLY <2>4 DEF Covered
<1>15. InTurn(rank, row, e, off)'
  <2>1. UNCHANGED <<mbox, falling, before>>
    BY ONLY <1>1
  <2> QED
    BY ONLY <1>2, <1>3, <2>1 DEF InTurn
<1> QED
  BY <1>2, <1>13, <1>14, <1>15 DEF Order

LEMMA OrderReleased ==
  ASSUME NEW rank, NEW top, NEW row, NEW e, NEW off, TypeOK, Layout(row, e, off),
         Order(rank, top, row, e, off), EntryRelease,
         NEW row2, row2 = Rotated(row, e),
         NEW f, f = e - 1,
         NEW off2, off2 = Lowered(off, Len(mbox))
  PROVE  Order(rank, top, row2, f, off2)'
<1>1. /\ UNCHANGED <<mbox, delivered, falling, sent, refused, before>>
      /\ pc = "release" /\ pc' = "entries"
  BY DEF EntryRelease, callVars
<1>2. /\ Sorted(rank, row, e, off) /\ InTurn(rank, row, e, off) /\ Covered(row, e)
      /\ rank \in [Packets -> Int] /\ top \in Int /\ \A p \in Packets : rank[p] < top
  BY DEF Order
<1>3. /\ \A j \in 1 .. f : row2[j] = row[j + 1] /\ row[j + 1] \in Entries
      /\ \A i \in Entries : pool'[i].pkt = pool[i].pkt
      /\ e \in Nat /\ e >= 1 /\ e <= PoolSize /\ PoolSize \in Nat /\ Len(mbox) \in Nat
      /\ \A k \in 1 .. Len(mbox) + 1 : off[k] \in Int /\ off2[k] = off[k] - 1
  <2>1. /\ \A j \in 1 .. f : row2[j] = row[j + 1]
        /\ \A i \in Entries : pool'[i].pkt = pool[i].pkt
        /\ off[1] > 0
    BY ReleaseLayout
  <2>2. /\ e \in Nat /\ e <= PoolSize /\ PoolSize \in Nat /\ Len(mbox) \in Nat
        /\ off[1] \in 0 .. e
        /\ \A k \in 1 .. Len(mbox) + 1 : off[k] \in 0 .. e
        /\ \A j \in 1 .. PoolSize : row[j] \in Entries
    BY LayoutFacts
  <2>3. e >= 1
    BY <2>1, <2>2
  <2>4. \A j \in 1 .. f : j + 1 \in 1 .. PoolSize
    BY <2>2
  <2>5. \A k \in 1 .. Len(mbox) + 1 : off2[k] = off[k] - 1
    BY DEF Lowered
  <2> QED
    BY <2>1, <2>2, <2>3, <2>4, <2>5
<1>4. /\ InHand = {} /\ InHand' = {} /\ Hand = 1 /\ Hand' = 0
      /\ Envelopes' = Envelopes /\ Accepted' = Accepted /\ Past' = Past
  BY <1>1 DEF InHand, Hand, Envelopes, Accepted, Past
<1>5. /\ Held(e) = 2 .. e /\ Held(f)' = 1 .. f
      /\ \A j \in 1 .. f : j \in Int /\ j + 1 \in 2 .. e
      /\ \A j \in 2 .. e : j \in Int /\ j - 1 \in 1 .. f /\ j - 1 + 1 = j
  <2>1. e \in Nat /\ e >= 1 /\ f = e - 1
    BY <1>3
  <2>2. Held(e) = 1 + 1 .. e /\ Held(f)' = 0 + 1 .. f
    BY <1>4 DEF Held
  <2> QED
    BY ONLY <2>1, <2>2
<1>6. \A j \in 1 .. f : Pkt(row2, j)' = Pkt(row, j + 1)
  BY <1>3 DEF Pkt
<1>7. \A k \in Envelopes : off[k] \in Int /\ off2[k] = off[k] - 1
  BY <1>3 DEF Envelopes
<1>8. Sorted(rank, row2, f, off2)'
  <2>1. \A y \in Past, j \in 1 .. f : rank[y] < rank[Pkt(row2, j)']
    <3>1. \A y \in Past, j \in 2 .. e : rank[y] < rank[Pkt(row, j)]
      BY ONLY <1>2, <1>5 DEF Sorted
    <3> QED
      BY ONLY <1>5, <1>6, <3>1
  <2>2. \A i, j \in 1 .. f : i < j => rank[Pkt(row2, i)'] < rank[Pkt(row2, j)']
    <3>1. \A i, j \in 2 .. e : i < j => rank[Pkt(row, i)] < rank[Pkt(row, j)]
      BY ONLY <1>2, <1>5 DEF Sorted
    <3>2. \A i, j \in 1 .. f : i < j => i + 1 < j + 1
      BY ONLY <1>5
    <3> QED
      BY ONLY <1>5, <1>6, <3>1, <3>2
  <2>3. \A j \in 1 .. f, k \in Envelopes :
          /\ j <= off2[k] => rank[Pkt(row2, j)'] < rank[mbox[k].arg]
          /\ j > off2[k] => rank[mbox[k].arg] < rank[Pkt(row2, j)']
    <3>1. \A j \in 2 .. e, k \in Envelopes :
            /\ j <= off[k] => rank[Pkt(row, j)] < rank[mbox[k].arg]
            /\ j > off[k] => rank[mbox[k].arg] < rank[Pkt(row, j)]
      BY ONLY <1>2, <1>5 DEF Sorted
    <3>2. \A j \in 1 .. f, k \in Envelopes : /\ j <= off2[k] => j + 1 <= off[k]
                                             /\ j > off2[k] => j + 1 > off[k]
      BY ONLY <1>5, <1>7
    <3> QED
      BY ONLY <1>5, <1>6, <3>1, <3>2
  <2>4. /\ \A i, j \in DOMAIN delivered.wlan :
             i < j => rank[delivered.wlan[i]] < rank[delivered.wlan[j]]
        /\ \A y \in Past, k \in Envelopes : rank[y] < rank[mbox[k].arg]
        /\ \A k, l \in Envelopes : k < l => rank[mbox[k].arg] < rank[mbox[l].arg]
    BY ONLY <1>2 DEF Sorted
  <2>5. \A y \in ToSet(delivered'.wlan), z \in InHand' : rank[y] < rank[z]
    BY ONLY <1>4
  <2>6. mbox' = mbox /\ delivered' = delivered
    BY ONLY <1>1
  <2> QED
    BY ONLY <1>4, <1>5, <2>1, <2>2, <2>3, <2>4, <2>5, <2>6 DEF Sorted
<1>9. Covered(row2, f)'
  <2>1. {Pkt(row, j) : j \in 2 .. e} = {Pkt(row2, j)' : j \in 1 .. f}
    BY ONLY <1>5, <1>6
  <2>2. mbox' = mbox
    BY ONLY <1>1
  <2> QED
    BY ONLY <1>2, <1>4, <1>5, <2>1, <2>2 DEF Covered
<1>10. InTurn(rank, row2, f, off2)'
  <2>1. UNCHANGED <<mbox, falling, before>>
    BY ONLY <1>1
  <2>2. off2[Len(mbox) + 1] = off[Len(mbox) + 1] - 1 /\ off[Len(mbox) + 1] \in Int
    <3>1. Len(mbox) + 1 \in 1 .. Len(mbox) + 1
      BY <1>3
    <3> QED
      BY <1>3, <3>1
  <2>3. /\ off[Len(mbox) + 1] >= 1
        /\ \A w \in WlanTasks : falling[w] # Nil =>
             \A x \in before[falling[w]] :
               /\ x \in Accepted
               /\ \A j \in off[Len(mbox) + 1] + 1 .. e : x # Pkt(row, j)
    <3>1. off[1] >= 1 /\ off[1] <= off[Len(mbox) + 1] /\ off[1] \in Int
      BY <1>3, LayoutFacts, ReleaseLayout
    <3> QED
      BY ONLY <1>2, <2>2, <3>1 DEF InTurn
  <2>4. \A j \in off2[Len(mbox) + 1] + 1 .. f :
          j \in 1 .. f /\ j + 1 \in off[Len(mbox) + 1] + 1 .. e
    BY <1>3, <2>2, <2>3
  <2>5. \A p \in Accepted : \A x \in before[p] : x \in Accepted /\ rank[x] < rank[p]
    BY ONLY <1>2 DEF InTurn
  <2>6. \A j \in off2[Len(mbox) + 1] + 1 .. f : Pkt(row2, j)' = Pkt(row, j + 1)
    BY ONLY <1>6, <2>4
  <2>7. \A w \in WlanTasks : falling[w] # Nil =>
          \A x \in before[falling[w]] :
            /\ x \in Accepted
            /\ \A j \in off2[Len(mbox) + 1] + 1 .. f : x # Pkt(row2, j)'
    BY ONLY <2>3, <2>4, <2>6
  <2> QED
    BY ONLY <1>4, <2>1, <2>5, <2>7 DEF InTurn
<1> QED
  BY <1>2, <1>8, <1>9, <1>10 DEF Order

---------------------------------------------------------------------------
\* The calls of the producers.
LEMMA NewPacket ==
  ASSUME TypeOK, Calls, NEW w \in WlanTasks, NextPacket(w), NEW x, x = sent'.wlan
  PROVE  /\ x \in Packets /\ x \notin Accepted /\ x \notin refused.wlan
         /\ falling[w] = Nil /\ \A v \in WlanTasks : falling[v] # x
         /\ sent.wlan \in Nat /\ x = sent.wlan + 1 /\ sent'.ncm = sent.ncm
         /\ before'[x] = Accepted /\ \A p \in Packets : p # x => before'[p] = before[p]
         /\ falling' = falling /\ refused'.wlan = refused.wlan => Accepted' = Accepted \cup {x}
         /\ falling' = falling /\ refused'.wlan = refused.wlan \cup {x} => Accepted' = Accepted
         /\ falling' = [falling EXCEPT ![w] = x] /\ refused'.wlan = refused.wlan
              => Accepted' = Accepted
<1>1. /\ sent.wlan \in Nat /\ x = sent.wlan + 1 /\ x \in Packets /\ sent'.ncm = sent.ncm
      /\ falling[w] = Nil /\ before' = [before EXCEPT ![x] = Accepted]
  BY NextPacketFacts
<1>2. /\ falling \in [WlanTasks -> Packets \cup {Nil}]
      /\ before \in [Packets -> SUBSET Packets]
  BY DEF TypeOK
<1>3. x \notin 1 .. sent.wlan /\ 1 .. x = (1 .. sent.wlan) \cup {x}
  BY <1>1
<1>4. \A v \in WlanTasks : falling[v] # x
  BY <1>1, <1>3, NilAssumption DEF Calls
<1>5. x \notin refused.wlan
  BY <1>3 DEF Calls
<1>6. Accepted = (1 .. sent.wlan) \ (refused.wlan \cup {falling[v] : v \in WlanTasks})
      /\ Accepted' = (1 .. x) \ (refused'.wlan \cup {falling'[v] : v \in WlanTasks})
  BY DEF Accepted
<1>7. falling' = falling /\ refused'.wlan = refused.wlan => Accepted' = Accepted \cup {x}
  BY ONLY <1>3, <1>4, <1>5, <1>6
<1>8. falling' = falling /\ refused'.wlan = refused.wlan \cup {x} => Accepted' = Accepted
  BY ONLY <1>3, <1>6
<1>9. ASSUME falling' = [falling EXCEPT ![w] = x], refused'.wlan = refused.wlan
      PROVE  Accepted' = Accepted
  <2>1. Nil \notin 1 .. sent.wlan
    <3>1. sent.wlan \in 0 .. MaxWlan /\ MaxWlan \in Nat
      BY SizesAssumption DEF TypeOK
    <3> QED
      BY <3>1, NilAssumption DEF Packets
  <2>2. \A v \in WlanTasks : falling'[v] = IF v = w THEN x ELSE falling[v]
    BY <1>2, <1>9
  <2> QED
    BY ONLY <1>1, <1>3, <1>6, <1>9, <2>1, <2>2
<1>10. before'[x] = Accepted /\ \A p \in Packets : p # x => before'[p] = before[p]
  BY <1>1, <1>2
<1>11. x \notin Accepted
  BY ONLY <1>3, <1>6
<1> QED
  BY <1>1, <1>4, <1>5, <1>7, <1>8, <1>9, <1>10, <1>11

LEMMA EnvelopePacket ==
  ASSUME TypeOK, Calls, NEW w \in WlanTasks, Envelope(w), NEW x, x = falling[w]
  PROVE  /\ x \in Packets /\ x # Nil /\ x \notin Accepted
         /\ \A v \in WlanTasks : falling'[v] # Nil => falling'[v] = falling[v] /\ falling[v] # x
         /\ refused'.wlan = refused.wlan => Accepted' = Accepted \cup {x}
         /\ refused'.wlan = refused.wlan \cup {x} => Accepted' = Accepted
<1>1. /\ falling \in [WlanTasks -> Packets \cup {Nil}]
      /\ x # Nil /\ falling' = [falling EXCEPT ![w] = Nil] /\ sent' = sent
  BY DEF TypeOK, Envelope
<1>2. /\ x \in 1 .. sent.wlan /\ x \notin refused.wlan
      /\ \A v \in WlanTasks : falling[v] = x => v = w
  BY <1>1 DEF Calls
<1>3. \A v \in WlanTasks : falling'[v] = IF v = w THEN Nil ELSE falling[v]
  BY <1>1
<1>4. Accepted = (1 .. sent.wlan) \ (refused.wlan \cup {falling[v] : v \in WlanTasks})
      /\ Accepted' = (1 .. sent.wlan) \ (refused'.wlan \cup {falling'[v] : v \in WlanTasks})
  BY <1>1 DEF Accepted
<1>5. Nil \notin 1 .. sent.wlan
  <2>1. sent.wlan \in 0 .. MaxWlan /\ MaxWlan \in Nat
    BY SizesAssumption DEF TypeOK
  <2> QED
    BY <2>1, NilAssumption DEF Packets
<1>6. refused'.wlan = refused.wlan => Accepted' = Accepted \cup {x}
  BY ONLY <1>2, <1>3, <1>4, <1>5, x = falling[w], w \in WlanTasks
<1>7. refused'.wlan = refused.wlan \cup {x} => Accepted' = Accepted
  BY ONLY <1>2, <1>3, <1>4, <1>5, x = falling[w], w \in WlanTasks
<1>8. x \notin Accepted
  BY ONLY <1>4, x = falling[w], w \in WlanTasks
<1> QED
  BY <1>1, <1>2, <1>3, <1>6, <1>7, <1>8

LEMMA CallsKept ==
  ASSUME TypeOK, Calls, Next
  PROVE  Calls'
<1>1. /\ falling \in [WlanTasks -> Packets \cup {Nil}]
      /\ refused \in [wlan : SUBSET Packets, ncm : SUBSET (1 .. MaxNcm)]
      /\ sent \in [wlan : 0 .. MaxWlan, ncm : 0 .. MaxNcm, other : 0 .. MaxOther]
  BY DEF TypeOK
<1> DEFINE Falls == \A w \in WlanTasks : falling[w] # Nil =>
                      /\ falling[w] \in 1 .. sent.wlan /\ falling[w] \notin refused.wlan
                      /\ \A v \in WlanTasks : falling[v] = falling[w] => v = w
<1>2. Falls /\ refused.wlan \subseteq 1 .. sent.wlan /\ refused.ncm \subseteq 1 .. sent.ncm
  BY DEF Calls
<1>3. ASSUME NEW w \in WlanTasks, NextPacket(w),
             \/ UNCHANGED <<falling, refused>>
             \/ falling' = [falling EXCEPT ![w] = sent'.wlan] /\ UNCHANGED refused
             \/ falling' = falling /\ refused' = [refused EXCEPT !.wlan = @ \cup {sent'.wlan}]
      PROVE  Calls'
  <2> DEFINE x == sent'.wlan
  <2>1. /\ x \notin refused.wlan /\ falling[w] = Nil /\ \A v \in WlanTasks : falling[v] # x
        /\ sent.wlan \in Nat /\ x = sent.wlan + 1 /\ sent'.ncm = sent.ncm
    BY <1>3, NewPacket
  <2>2. 1 .. x = (1 .. sent.wlan) \cup {x} /\ x # Nil
    BY <1>3, <2>1, NewPacket, NilAssumption
  <2> HIDE DEF x
  <2>3. CASE UNCHANGED <<falling, refused>>
    BY <1>2, <2>1, <2>2, <2>3 DEF Calls, x
  <2>4. CASE falling' = [falling EXCEPT ![w] = x] /\ UNCHANGED refused
    <3>1. \A v \in WlanTasks : falling'[v] = IF v = w THEN x ELSE falling[v]
      BY <1>1, <2>4
    <3>2. \A v \in WlanTasks : falling'[v] # Nil =>
            /\ falling'[v] \in 1 .. x /\ falling'[v] \notin refused.wlan
            /\ \A u \in WlanTasks : falling'[u] = falling'[v] => u = v
      BY ONLY <1>2, <2>1, <2>2, <3>1
    <3> QED
      BY <1>2, <2>1, <2>2, <2>4, <3>2 DEF Calls, x
  <2>5. CASE falling' = falling /\ refused' = [refused EXCEPT !.wlan = @ \cup {x}]
    <3>1. refused'.wlan = refused.wlan \cup {x} /\ refused'.ncm = refused.ncm
      BY <1>1, <2>5
    <3> QED
      BY <1>2, <2>1, <2>2, <2>5, <3>1 DEF Calls, x
  <2> QED
    BY <1>3, <2>3, <2>4, <2>5 DEF x
<1>4. ASSUME NEW w \in WlanTasks, Producer(w) PROVE Calls'
  <2>1. CASE Inpkt(w)
    BY <1>3, <2>1 DEF Inpkt
  <2>2. CASE InpktAlone(w)
    BY <1>3, <2>2 DEF InpktAlone
  <2>3. CASE InpktExhausted(w)
    BY <1>3, <2>3 DEF InpktExhausted
  <2>4. CASE Envelope(w)
    <3> DEFINE x == falling[w]
    <3>1. /\ falling' = [falling EXCEPT ![w] = Nil] /\ sent' = sent /\ x # Nil
          /\ refused' = refused \/ refused' = [refused EXCEPT !.wlan = @ \cup {x}]
      BY <2>4 DEF Envelope
    <3>2. x \in 1 .. sent.wlan /\ x \notin refused.wlan
          /\ \A v \in WlanTasks : falling[v] = x => v = w
      BY <1>2, <3>1
    <3>3. refused'.wlan \in {refused.wlan, refused.wlan \cup {x}} /\ refused'.ncm = refused.ncm
      BY <1>1, <3>1
    <3>4. \A v \in WlanTasks : falling'[v] = IF v = w THEN Nil ELSE falling[v]
      BY <1>1, <3>1
    <3> HIDE DEF x
    <3>5. \A v \in WlanTasks : falling'[v] # Nil =>
            /\ falling'[v] \in 1 .. sent.wlan /\ falling'[v] \notin refused'.wlan
            /\ \A u \in WlanTasks : falling'[u] = falling'[v] => u = v
      BY ONLY <1>2, <3>2, <3>3, <3>4
    <3> QED
      BY <1>2, <3>1, <3>2, <3>3, <3>5 DEF Calls
  <2> QED
    BY <1>4, <2>1, <2>2, <2>3, <2>4 DEF Producer
<1>5. CASE NcmEnqueue \/ NcmRefused
  <2>1. /\ sent' = [sent EXCEPT !.ncm = sent.ncm + 1] /\ falling' = falling
        /\ refused' = refused \/ refused' = [refused EXCEPT !.ncm = @ \cup {sent'.ncm}]
    BY <1>5 DEF NcmEnqueue, NcmRefused, NextNcm
  <2>2. sent.ncm \in Int /\ sent'.ncm = sent.ncm + 1 /\ sent'.wlan = sent.wlan
    BY <1>1, <2>1
  <2>3. refused'.ncm \subseteq refused.ncm \cup {sent'.ncm} /\ refused'.wlan = refused.wlan
    BY <1>1, <2>1
  <2>4. sent.ncm \in Nat
    BY <1>1
  <2>5. 1 .. sent'.ncm = (1 .. sent.ncm) \cup {sent'.ncm}
    BY ONLY <2>2, <2>4
  <2> QED
    BY <1>2, <2>1, <2>2, <2>3, <2>5 DEF Calls
<1>6. CASE Thread \/ TimerFires \/ Other
  <2>1. falling' = falling /\ refused' = refused /\ sent'.wlan = sent.wlan /\ sent'.ncm = sent.ncm
    <3>1. CASE Other
      <4>1. falling' = falling /\ refused' = refused /\ sent' = [sent EXCEPT !.other = @ + 1]
        BY <3>1 DEF Other
      <4> QED
        BY <1>1, <4>1
    <3>2. CASE Thread \/ TimerFires
      BY <3>2 DEF Thread, Fetch, Api, Packet, Open, EntryInput, EntryRelease, EntriesDone, NcmTake,
                  NcmInput, NcmFree, Retry, TimerFires, callVars
    <3> QED
      BY <1>6, <3>1, <3>2
  <2> QED
    BY <1>2, <2>1 DEF Calls
<1> QED
  BY <1>4, <1>5, <1>6 DEF Next

---------------------------------------------------------------------------
\* A step leaves the mailbox alone, or puts a message that is no envelope behind
\* the others, with the positions up to z.
Queued(off, off2, z) ==
  \/ mbox' = mbox /\ off2 = off
  \/ \E m : /\ m.type # "packet" /\ mbox' = Append(mbox, m)
            /\ off2 = Added(off, Len(mbox), z)

LEMMA QueuedFacts ==
  ASSUME NEW row, NEW e, NEW off, TypeOK, Layout(row, e, off),
         NEW off2, NEW z \in Nat, off[Len(mbox) + 1] <= z, Queued(off, off2, z)
  PROVE  /\ Len(mbox') \in Nat /\ off2[Len(mbox') + 1] \in Nat
         /\ off[Len(mbox) + 1] <= off2[Len(mbox') + 1]
         /\ Envelopes' = Envelopes
         /\ \A k \in Envelopes : mbox'[k].arg = mbox[k].arg /\ off2[k] = off[k]
<1> DEFINE n == Len(mbox)
<1>1. /\ n \in Nat /\ mbox \in Seq(Message) /\ off[n + 1] \in Nat
      /\ \A k \in 1 .. n + 1 : off[k] \in Nat
  BY LayoutFacts, TypeFacts
<1>2. CASE mbox' = mbox /\ off2 = off
  BY <1>1, <1>2 DEF Envelopes
<1>3. ASSUME NEW m, m.type # "packet", mbox' = Append(mbox, m), off2 = Added(off, n, z)
      PROVE  /\ Len(mbox') \in Nat /\ off2[Len(mbox') + 1] \in Nat
             /\ off[Len(mbox) + 1] <= off2[Len(mbox') + 1]
             /\ Envelopes' = Envelopes
             /\ \A k \in Envelopes : mbox'[k].arg = mbox[k].arg /\ off2[k] = off[k]
  <2>1. /\ Len(mbox') = n + 1 /\ mbox'[n + 1] = m
        /\ \A k \in 1 .. n : mbox'[k] = mbox[k]
    BY <1>1, <1>3
  <2> HIDE DEF n
  <2>2. off2[n + 1 + 1] = z /\ \A k \in 1 .. n : off2[k] = off[k]
    BY <1>1, <1>3 DEF Added
  <2>3. 1 .. n + 1 = (1 .. n) \cup {n + 1}
    BY <1>1
  <2>4. Envelopes' = Envelopes
    <3>1. Envelopes' = {k \in 1 .. n + 1 : mbox'[k].type = "packet"}
      BY <2>1 DEF Envelopes
    <3>2. Envelopes = {k \in 1 .. n : mbox[k].type = "packet"}
      BY DEF Envelopes, n
    <3> QED
      BY ONLY <1>3, <2>1, <2>3, <3>1, <3>2
  <2>5. \A k \in Envelopes : k \in 1 .. n
    BY DEF Envelopes, n
  <2> QED
    BY <1>1, <2>1, <2>2, <2>4, <2>5 DEF n
<1> QED
  BY <1>2, <1>3 DEF Queued

\* The steps that move no entry.
LEMMA OrderQueued ==
  ASSUME NEW rank, NEW top, NEW row, NEW e, NEW off, TypeOK, Layout(row, e, off),
         Order(rank, top, row, e, off),
         NEW off2, NEW z \in Nat, off[Len(mbox) + 1] <= z, Queued(off, off2, z),
         delivered'.wlan = delivered.wlan, Hand' = Hand, InHand' = InHand, Accepted' = Accepted,
         \A j \in 1 .. e : pool'[row[j]].pkt = pool[row[j]].pkt,
         \A p \in Accepted : before'[p] = before[p],
         \A w \in WlanTasks : falling'[w] # Nil =>
           \/ falling'[w] = falling[w] /\ before'[falling[w]] = before[falling[w]]
           \/ before'[falling'[w]] \subseteq Accepted /\ off2[Len(mbox') + 1] = e
  PROVE  Order(rank, top, row, e, off2)'
<1>1. /\ e \in Nat /\ e <= PoolSize /\ PoolSize \in Nat /\ Len(mbox) \in Nat
      /\ off[Len(mbox) + 1] \in Nat /\ off[1] \in Nat /\ off[1] <= off[Len(mbox) + 1]
      /\ \A j \in 1 .. PoolSize : row[j] \in Entries
  BY LayoutFacts
<1>2. Hand \in Nat /\ Hand <= off[1]
  BY DEF Layout, ThreadHolds, Hand
<1>3. \A j \in Held(e) : Pkt(row, j)' = Pkt(row, j)
  BY <1>1, <1>2 DEF Held, Pkt
<1>4. /\ Len(mbox') \in Nat /\ off2[Len(mbox') + 1] \in Nat
      /\ off[Len(mbox) + 1] <= off2[Len(mbox') + 1]
      /\ Envelopes' = Envelopes
      /\ \A k \in Envelopes : mbox'[k].arg = mbox[k].arg /\ off2[k] = off[k]
  BY QueuedFacts
<1>5. \A k \in Envelopes : k + 0 = k /\ k - 0 = k
  BY DEF Envelopes
<1>6. /\ \A k \in Envelopes' : /\ k + 0 \in Envelopes
                               /\ mbox'[k].arg = mbox[k + 0].arg /\ off2[k] = off[k + 0]
      /\ \A k \in Envelopes : k - 0 \in Envelopes'
  BY ONLY <1>4, <1>5
<1>7. Hand <= off[Len(mbox) + 1] /\ 0 \in Int
  BY <1>1, <1>2
<1> QED
  BY ONLY <1>1, <1>2, <1>3, <1>4, <1>6, <1>7, OrderKept, Order(rank, top, row, e, off),
     delivered'.wlan = delivered.wlan, Hand' = Hand, InHand' = InHand, Accepted' = Accepted,
     \A p \in Accepted : before'[p] = before[p],
     \A w \in WlanTasks : falling'[w] # Nil =>
       \/ falling'[w] = falling[w] /\ before'[falling[w]] = before[falling[w]]
       \/ before'[falling'[w]] \subseteq Accepted /\ off2[Len(mbox') + 1] = e

LEMMA FetchOrdered ==
  ASSUME NEW rank, NEW top, NEW row, NEW e, NEW off, TypeOK, Layout(row, e, off),
         Order(rank, top, row, e, off), Fetch
  PROVE  Ordered'
<1> DEFINE n == Len(mbox)
           m == Head(mbox)
<1> PICK off2 : off2 = Fetched(off, n)
  OBVIOUS
<1>1. /\ mbox \in Seq(Message) /\ mbox' = Tail(mbox) /\ n \in Nat \ {0}
      /\ m = mbox[1] /\ m.type \in {"batch", "entry", "packet", "marker", "api"}
      /\ pc = "fetch" /\ pc' = IF m.type = "entry" THEN "entries" ELSE m.type
      /\ cur'.pkt = IF m.type = "packet" THEN m.arg ELSE Nil
      /\ UNCHANGED <<wlanVars, ncmVars, callVars, delivered>>
  BY FetchFacts
<1>2. Layout(row, e, off2)'
  BY FetchLayout
<1>3. off[1] = 0 /\ e \in Nat
  BY <1>1, LayoutFacts DEF Layout, ThreadHolds
<1>4. Hand' = 0 /\ InHand' = IF mbox[1].type = "packet" THEN {mbox[1].arg} ELSE {}
  BY <1>1 DEF Hand, InHand
<1>5. Len(mbox') = n - 1 /\ \A k \in 1 .. n - 1 : mbox'[k] = mbox[k + 1]
  BY <1>1
<1>6. UNCHANGED <<pool, delivered, falling, before, sent, refused>>
  BY <1>1 DEF wlanVars, callVars
<1> HIDE DEF n
<1>7. n \in Nat /\ n > 0 /\ n = Len(mbox)
  BY <1>1 DEF n
<1>8. off2[n] = off[n + 1] /\ \A k \in 1 .. n - 1 : off2[k] = off[k + 1]
  BY ONLY <1>7, off2 = Fetched(off, n) DEF Fetched
<1>9. Order(rank, top, row, e, off2)'
  BY <1>1, <1>3, <1>4, <1>5, <1>6, <1>7, <1>8, OrderFetched, Zenon
<1> QED
  BY <1>2, <1>9 DEF Ordered

\* The steps of the thread that pass nothing on.
LEMMA ThreadOrdered ==
  ASSUME NEW rank, NEW top, NEW row, NEW e, NEW off, TypeOK, Layout(row, e, off),
         Order(rank, top, row, e, off),
         Api \/ Open \/ EntriesDone \/ NcmTake \/ NcmInput \/ NcmFree
  PROVE  Ordered'
<1>1. Layout(row, e, off)'
  BY ThreadLayout
<1>2. /\ mbox' = mbox /\ pool' = pool /\ falling' = falling /\ before' = before
      /\ sent' = sent /\ refused' = refused
  BY DEF Api, Open, EntriesDone, NcmTake, NcmInput, NcmFree, wlanVars, callVars
<1>3. Hand' = Hand /\ InHand' = InHand
  BY DEF Api, Open, EntriesDone, NcmTake, NcmInput, NcmFree, Hand, InHand
<1>4. delivered'.wlan = delivered.wlan
  BY DEF Api, Open, EntriesDone, NcmTake, NcmInput, NcmFree, TypeOK
<1>5. Accepted' = Accepted
  BY <1>2 DEF Accepted
<1>6. off[Len(mbox) + 1] \in Nat /\ off[Len(mbox) + 1] <= off[Len(mbox) + 1]
  BY LayoutFacts
<1>7. Queued(off, off, off[Len(mbox) + 1])
  BY <1>2 DEF Queued
<1>8. Order(rank, top, row, e, off)'
  BY <1>2, <1>3, <1>4, <1>5, <1>6, <1>7, OrderQueued
<1> QED
  BY <1>1, <1>8 DEF Ordered

\* The steps that post the batch as it is.
LEMMA PostOrdered ==
  ASSUME NEW rank, NEW top, NEW row, NEW e, NEW off, TypeOK, Layout(row, e, off),
         Order(rank, top, row, e, off),
         LET r == Posted(batch, pool, mbox)
         IN batch' = r.batch /\ pool' = r.pool /\ mbox' = r.mbox,
         free' = free, delivered' = delivered, Accepted' = Accepted,
         \/ pc' = pc /\ cur' = cur
         \/ pc = "retry" /\ pc' = "fetch",
         \A p \in Accepted : before'[p] = before[p],
         \A w \in WlanTasks : falling'[w] # Nil =>
           \/ falling'[w] = falling[w] /\ before'[falling[w]] = before[falling[w]]
           \/ before'[falling'[w]] \subseteq Accepted /\ batch'.count = 0
  PROVE  Ordered'
<1> DEFINE r == Posted(batch, pool, mbox)
<1> PICK off2 : off2 = Sealed(batch, off, mbox, e)
  OBVIOUS
<1>1. Layout(row, e, off2)'
  BY PostLayout
<1>2. /\ row \in Row /\ e \in 0 .. PoolSize /\ e \in Nat /\ off[Len(mbox) + 1] <= e
      /\ MboxHolds(pool, mbox, row, off, e)
      /\ BatchHolds(pool, batch, row, off[Len(mbox) + 1], e)
      /\ \A j \in 1 .. e : row[j] \in Entries
  BY LayoutFacts DEF Layout
<1>3. batch' = r.batch /\ pool' = r.pool /\ mbox' = r.mbox
  OBVIOUS
<1>4. Queued(off, off2, e)
  <2>1. CASE batch.count = 0 \/ Full(mbox)
    BY <1>3, <2>1 DEF Queued, Sealed, Posted
  <2>2. CASE ~(batch.count = 0 \/ Full(mbox))
    <3>1. /\ mbox' = Append(mbox, Msg("batch", batch.head))
          /\ off2 = Added(off, Len(mbox), e)
      BY <1>3, <2>2 DEF Sealed, Posted
    <3>2. Msg("batch", batch.head).type # "packet"
      BY DEF Msg
    <3> QED
      BY <3>1, <3>2 DEF Queued
  <2> QED
    BY <2>1, <2>2
<1> HIDE DEF r
<1>5. \A j \in 1 .. e : pool'[row[j]].pkt = pool[row[j]].pkt
  <2>1. \A i \in Entries : r.pool[i].pkt = pool[i].pkt
    BY <1>2, TypeFacts, PostedHolds DEF r
  <2> QED
    BY <1>2, <1>3, <2>1
<1>6. batch'.count = 0 => off2[Len(mbox') + 1] = e
  <2>1. batch'.count = e - off2[Len(mbox') + 1] /\ off2[Len(mbox') + 1] \in Nat
    BY <1>1, <1>2, <1>4, QueuedFacts DEF Layout, BatchHolds
  <2> QED
    BY <1>2, <2>1
<1>7. Hand' = Hand /\ InHand' = InHand
  BY DEF Hand, InHand
<1>8. \A w \in WlanTasks : falling'[w] # Nil =>
        \/ falling'[w] = falling[w] /\ before'[falling[w]] = before[falling[w]]
        \/ before'[falling'[w]] \subseteq Accepted /\ off2[Len(mbox') + 1] = e
  BY ONLY <1>6,
     \A w \in WlanTasks : falling'[w] # Nil =>
       \/ falling'[w] = falling[w] /\ before'[falling[w]] = before[falling[w]]
       \/ before'[falling'[w]] \subseteq Accepted /\ batch'.count = 0
<1>9. Order(rank, top, row, e, off2)'
  BY <1>2, <1>4, <1>5, <1>7, <1>8, OrderQueued
<1> QED
  BY <1>1, <1>9 DEF Ordered

\* The steps of the thread.
LEMMA RetryOrdered ==
  ASSUME NEW rank, NEW top, NEW row, NEW e, NEW off, TypeOK, Layout(row, e, off),
         Order(rank, top, row, e, off), Retry \/ TimerFires
  PROVE  Ordered'
<1>1. /\ falling' = falling /\ before' = before /\ sent' = sent /\ refused' = refused
      /\ delivered' = delivered /\ free' = free
  BY DEF Retry, TimerFires, callVars
<1>2. Accepted' = Accepted
  BY <1>1 DEF Accepted
<1>3. CASE Retry /\ armed
  <2>1. UNCHANGED <<mbox, pool, free, batch>> /\ pc = "retry" /\ pc' = "fetch"
    BY <1>3 DEF Retry
  <2>2. off[1] = 0
    BY <2>1 DEF Layout, ThreadHolds
  <2>3. ThreadHolds(row, off[1])'
    BY <2>1, <2>2 DEF ThreadHolds, Hand, Links
  <2>4. Layout(row, e, off)'
    BY <2>1, <2>3, SameLayout
  <2>5. Hand' = Hand /\ InHand' = InHand
    BY <2>1 DEF Hand, InHand
  <2>6. off[Len(mbox) + 1] \in Nat /\ off[Len(mbox) + 1] <= off[Len(mbox) + 1]
    BY LayoutFacts
  <2>7. Queued(off, off, off[Len(mbox) + 1])
    BY <2>1 DEF Queued
  <2>8. Order(rank, top, row, e, off)'
    BY <1>1, <1>2, <2>1, <2>5, <2>6, <2>7, OrderQueued
  <2> QED
    BY <2>4, <2>8 DEF Ordered
<1>4. CASE TimerFires \/ (Retry /\ ~armed)
  <2>1. /\ LET r == Posted(batch, pool, mbox)
           IN batch' = r.batch /\ pool' = r.pool /\ mbox' = r.mbox
        /\ \/ pc' = pc /\ cur' = cur
           \/ pc = "retry" /\ pc' = "fetch"
    BY <1>4 DEF Retry, TimerFires
  <2> QED
    BY <1>1, <1>2, <2>1, PostOrdered
<1> QED
  BY <1>3, <1>4

\* A call that finds no entry.
LEMMA ExhaustedOrdered ==
  ASSUME NEW rank, NEW top, NEW row, NEW e, NEW off, TypeOK, Calls, Layout(row, e, off),
         Order(rank, top, row, e, off), NEW w \in WlanTasks, InpktExhausted(w)
  PROVE  Ordered'
<1> PICK x : x = sent'.wlan
  OBVIOUS
<1>1. NextPacket(w) /\ free' = free /\ delivered' = delivered /\ pc' = pc /\ cur' = cur
  BY DEF InpktExhausted
<1>2. /\ LET r == Posted(batch, pool, mbox)
         IN batch' = r.batch /\ pool' = r.pool /\ mbox' = r.mbox
      /\ \/ falling' = falling /\ refused' = [refused EXCEPT !.wlan = @ \cup {x}]
         \/ /\ falling' = [falling EXCEPT ![w] = x] /\ refused' = refused
            /\ batch'.count = 0
  BY DEF InpktExhausted
<1>3. /\ x \notin Accepted /\ x \in Packets /\ \A v \in WlanTasks : falling[v] # x
      /\ before'[x] = Accepted /\ \A p \in Packets : p # x => before'[p] = before[p]
      /\ falling' = falling /\ refused'.wlan = refused.wlan \cup {x} => Accepted' = Accepted
      /\ falling' = [falling EXCEPT ![w] = x] /\ refused'.wlan = refused.wlan
           => Accepted' = Accepted
  BY <1>1, NewPacket
<1>4. Accepted \subseteq Packets /\ falling \in [WlanTasks -> Packets \cup {Nil}]
  BY AcceptedSent, TypeParts DEF CallTypes
<1>5. refused' = [refused EXCEPT !.wlan = @ \cup {x}] => refused'.wlan = refused.wlan \cup {x}
  BY DEF TypeOK
<1>6. Accepted' = Accepted
  BY ONLY <1>2, <1>3, <1>5
<1>7. \A p \in Accepted : before'[p] = before[p]
  BY ONLY <1>3, <1>4
<1>8. \A v \in WlanTasks : falling'[v] # Nil =>
        \/ falling'[v] = falling[v] /\ before'[falling[v]] = before[falling[v]]
        \/ before'[falling'[v]] \subseteq Accepted /\ batch'.count = 0
  <2>1. \A v \in WlanTasks : falling[v] # Nil => before'[falling[v]] = before[falling[v]]
    BY ONLY <1>3, <1>4
  <2>2. CASE falling' = falling
    BY ONLY <2>1, <2>2
  <2>3. CASE falling' = [falling EXCEPT ![w] = x] /\ batch'.count = 0
    BY ONLY <1>3, <1>4, <2>1, <2>3
  <2> QED
    BY <1>2, <2>2, <2>3
<1> QED
  BY <1>1, <1>2, <1>6, <1>7, <1>8, PostOrdered

\* A packet that joins the row behind the others.
LEMMA OrderEntered ==
  ASSUME NEW rank, NEW top, NEW row, NEW e, NEW off, TypeOK, Calls, Layout(row, e, off),
         Order(rank, top, row, e, off),
         NEW w \in WlanTasks, NextPacket(w), falling' = falling, refused' = refused,
         delivered' = delivered, pc' = pc, cur' = cur,
         NEW f, f = e + 1, NEW off2, Queued(off, off2, f),
         pool'[row[f]].pkt = sent'.wlan,
         \A j \in 1 .. e : pool'[row[j]].pkt = pool[row[j]].pkt
  PROVE  \E rank2, top2 : Order(rank2, top2, row, f, off2)'
<1> PICK x : x = sent'.wlan
  OBVIOUS
<1>1. /\ x \notin Accepted /\ x \in Packets /\ \A v \in WlanTasks : falling[v] # x
      /\ before'[x] = Accepted /\ \A p \in Packets : p # x => before'[p] = before[p]
      /\ Accepted' = Accepted \cup {x}
  BY NewPacket
<1>2. Accepted \subseteq Packets /\ falling \in [WlanTasks -> Packets \cup {Nil}]
  BY AcceptedSent, TypeParts DEF CallTypes
<1>3. /\ e \in Nat /\ Len(mbox) \in Nat /\ off[Len(mbox) + 1] \in Nat
      /\ off[Len(mbox) + 1] <= e /\ off[1] \in Nat /\ off[1] <= off[Len(mbox) + 1]
      /\ \A k \in 1 .. Len(mbox) + 1 : off[k] \in 0 .. e
  BY LayoutFacts
<1>4. Hand \in Nat /\ Hand <= off[1]
  BY DEF Layout, ThreadHolds, Hand
<1>5. Hand' = Hand /\ InHand' = InHand
  BY DEF Hand, InHand
<1>6. /\ \A j \in Held(e) : Pkt(row, j)' = Pkt(row, j)
      /\ Pkt(row, f)' = x
  BY <1>3, <1>4 DEF Held, Pkt
<1>7. \A k \in Envelopes : off[k] \in 0 .. e
  BY <1>3 DEF Envelopes
<1>8. f \in Nat /\ off[Len(mbox) + 1] <= f /\ Hand <= off[Len(mbox) + 1] /\ Hand <= e
  BY <1>3, <1>4
<1>9. /\ Len(mbox') \in Nat /\ off2[Len(mbox') + 1] \in Nat
      /\ off[Len(mbox) + 1] <= off2[Len(mbox') + 1]
      /\ Envelopes' = Envelopes
      /\ \A k \in Envelopes : mbox'[k].arg = mbox[k].arg /\ off2[k] = off[k]
  BY <1>8, QueuedFacts
<1>10. /\ \A p \in Accepted : before'[p] = before[p]
       /\ \A v \in WlanTasks : falling'[v] # Nil =>
            falling'[v] = falling[v] /\ before'[falling[v]] = before[falling[v]]
  BY ONLY <1>1, <1>2, falling' = falling
<1> QED
  BY ONLY <1>1, <1>2, <1>3, <1>4, <1>5, <1>6, <1>7, <1>8, <1>9, <1>10, OrderGrown,
     Order(rank, top, row, e, off), f = e + 1, delivered' = delivered

LEMMA InpktOrdered ==
  ASSUME NEW rank, NEW top, NEW row, NEW e, NEW off, TypeOK, Calls, Layout(row, e, off),
         Order(rank, top, row, e, off), NEW w \in WlanTasks, Inpkt(w)
  PROVE  Ordered'
<1> DEFINE i == Head(free)
           p == Linked(batch, Filled(i, sent'.wlan), i)
<1> PICK b : b = Grown(batch, i)
  OBVIOUS
<1> PICK f : f = e + 1
  OBVIOUS
<1> PICK off2 : off2 = IF b.count >= MaxBatch THEN Sealed(b, off, mbox, f) ELSE off
  OBVIOUS
<1>1. /\ Layout(row, f, off2)'
      /\ pool'[i].pkt = sent'.wlan
      /\ \A j \in 1 .. e : pool'[row[j]].pkt = pool[row[j]].pkt
  BY InpktLayout
<1>2. i = row[f]
  BY FreeFacts DEF Inpkt
<1>3. Queued(off, off2, f)
  <2>1. CASE b.count >= MaxBatch /\ ~(b.count = 0 \/ Full(mbox))
    <3>1. mbox' = Append(mbox, Msg("batch", b.head)) /\ off2 = Added(off, Len(mbox), f)
      BY <2>1 DEF Inpkt, Posted, Sealed
    <3>2. Msg("batch", b.head).type # "packet"
      BY DEF Msg
    <3> QED
      BY <3>1, <3>2 DEF Queued
  <2>2. CASE ~(b.count >= MaxBatch) \/ b.count = 0 \/ Full(mbox)
    <3>1. mbox' = mbox /\ off2 = off
      BY <2>2 DEF Inpkt, Posted, Sealed
    <3> QED
      BY <3>1 DEF Queued
  <2> QED
    BY <2>1, <2>2
<1>4. /\ NextPacket(w) /\ falling' = falling /\ refused' = refused
      /\ delivered' = delivered /\ pc' = pc /\ cur' = cur
  BY DEF Inpkt
<1>5. pool'[row[f]].pkt = sent'.wlan
  BY <1>1, <1>2
<1>6. \E rank2, top2 : Order(rank2, top2, row, f, off2)'
  BY <1>1, <1>3, <1>4, <1>5, OrderEntered
<1> QED
  BY <1>1, <1>6 DEF Ordered

LEMMA AloneOrdered ==
  ASSUME NEW rank, NEW top, NEW row, NEW e, NEW off, TypeOK, Alone, Calls,
         Layout(row, e, off),
         Order(rank, top, row, e, off), NEW w \in WlanTasks, InpktAlone(w)
  PROVE  Ordered'
<1>1. /\ NextPacket(w) /\ falling' = falling /\ delivered' = delivered
      /\ pc' = pc /\ cur' = cur
  BY DEF InpktAlone
<1>2. /\ Full(mbox) => Layout(row, e, off)'
      /\ ~Full(mbox) => \A off2 : off2 = Added(off, Len(mbox), e + 1) =>
                          Layout(row, e + 1, off2)'
      /\ pool'[Head(free)].pkt = sent'.wlan
      /\ \A j \in 1 .. e : pool'[row[j]].pkt = pool[row[j]].pkt
  BY InpktAloneLayout
<1>3. CASE Full(mbox)
  <2>1. mbox' = mbox /\ refused' = [refused EXCEPT !.wlan = @ \cup {sent'.wlan}]
    BY <1>3 DEF InpktAlone
  <2>2. refused'.wlan = refused.wlan \cup {sent'.wlan}
    BY <2>1 DEF TypeOK
  <2>3. Accepted' = Accepted /\ sent'.wlan \notin Accepted
        /\ \A v \in WlanTasks : falling[v] # sent'.wlan
        /\ \A p \in Packets : p # sent'.wlan => before'[p] = before[p]
    BY <1>1, <2>2, NewPacket
  <2>4. Accepted \subseteq Packets /\ falling \in [WlanTasks -> Packets \cup {Nil}]
    BY AcceptedSent, TypeParts DEF CallTypes
  <2>5. /\ \A p \in Accepted : before'[p] = before[p]
        /\ \A v \in WlanTasks : falling'[v] # Nil =>
             falling'[v] = falling[v] /\ before'[falling[v]] = before[falling[v]]
    BY ONLY <1>1, <2>3, <2>4
  <2>6. Hand' = Hand /\ InHand' = InHand
    BY <1>1 DEF Hand, InHand
  <2>7. off[Len(mbox) + 1] \in Nat /\ off[Len(mbox) + 1] <= off[Len(mbox) + 1]
    BY LayoutFacts
  <2>8. Queued(off, off, off[Len(mbox) + 1])
    BY <2>1 DEF Queued
  <2>9. Order(rank, top, row, e, off)'
    BY <1>1, <1>2, <2>3, <2>5, <2>6, <2>7, <2>8, OrderQueued
  <2> QED
    BY <1>2, <1>3, <2>9 DEF Ordered
<1>4. CASE ~Full(mbox)
  <2> PICK f : f = e + 1
    OBVIOUS
  <2> PICK off2 : off2 = Added(off, Len(mbox), f)
    OBVIOUS
  <2>1. Layout(row, f, off2)'
    BY <1>2, <1>4
  <2>2. mbox' = Append(mbox, Msg("entry", Head(free))) /\ refused' = refused /\ free # <<>>
    BY <1>4 DEF InpktAlone
  <2>3. Head(free) = row[f]
    BY <2>2, FreeFacts
  <2>4. Queued(off, off2, f)
    BY <2>2 DEF Queued, Msg
  <2>5. pool'[row[f]].pkt = sent'.wlan
    BY <1>2, <2>3
  <2>6. \E rank2, top2 : Order(rank2, top2, row, f, off2)'
    BY <1>1, <1>2, <2>2, <2>4, <2>5, OrderEntered
  <2> QED
    BY <2>1, <2>6 DEF Ordered
<1> QED
  BY <1>3, <1>4

\* A packet in lwIP's own envelope.
LEMMA EnvelopeOrdered ==
  ASSUME NEW rank, NEW top, NEW row, NEW e, NEW off, TypeOK, Calls, Layout(row, e, off),
         Order(rank, top, row, e, off), NEW w \in WlanTasks, Envelope(w)
  PROVE  Ordered'
<1> PICK x : x = falling[w]
  OBVIOUS
<1> PICK n : n = Len(mbox)
  OBVIOUS
<1> PICK z : z = off[n + 1]
  OBVIOUS
<1>1. /\ x \in Packets /\ x # Nil /\ x \notin Accepted
      /\ \A v \in WlanTasks : falling'[v] # Nil => falling'[v] = falling[v]
      /\ refused'.wlan = refused.wlan => Accepted' = Accepted \cup {x}
      /\ refused'.wlan = refused.wlan \cup {x} => Accepted' = Accepted
  BY EnvelopePacket
<1>2. /\ pool' = pool /\ free' = free /\ batch' = batch /\ pc' = pc /\ cur' = cur
      /\ before' = before /\ delivered' = delivered
  BY DEF Envelope, wlanVars
<1>3. /\ e \in Nat /\ n \in Nat /\ z \in 0 .. e /\ off[1] \in Nat /\ off[1] <= z
      /\ \A k \in 1 .. n + 1 : off[k] \in 0 .. e
  BY LayoutFacts
<1>4. Hand \in Nat /\ Hand <= off[1]
  BY DEF Layout, ThreadHolds, Hand
<1>5. Hand' = Hand /\ InHand' = InHand
  BY <1>2 DEF Hand, InHand
<1>6. \A j : Pkt(row, j)' = Pkt(row, j)
  BY <1>2 DEF Pkt
<1>7. CASE mbox' = Append(mbox, Msg("packet", x)) /\ refused' = refused
  <2> DEFINE m == Msg("packet", x)
  <2> PICK off2 : off2 = Added(off, n, z)
    OBVIOUS
  <2>1. m \in Message /\ m.type = "packet" /\ m.arg = x
    BY <1>1 DEF Msg, Message
  <2>2. Layout(row, e, off2)'
    <3> HIDE DEF m
    <3>1. UNCHANGED <<pool, free, batch, pc, cur>> /\ m.type \notin {"batch", "entry"}
          /\ mbox' = Append(mbox, m)
      BY <1>2, <1>7, <2>1 DEF m
    <3> QED
      BY <2>1, <3>1, AppendLayout
  <2>3. /\ Len(mbox') = n + 1 /\ mbox'[n + 1] = m
        /\ \A k \in 1 .. n : mbox'[k] = mbox[k]
    BY <1>7, TypeFacts
  <2> HIDE DEF m
  <2>4. /\ off2[n + 1] = z /\ off2[n + 2] = z
        /\ \A k \in 1 .. n : off2[k] = off[k]
    BY ONLY <1>3, z = off[n + 1], off2 = Added(off, n, z) DEF Added
  <2>5. Envelopes' = Envelopes \cup {n + 1}
    <3>1. Envelopes' = {k \in 1 .. n + 1 : mbox'[k].type = "packet"}
      BY <2>3 DEF Envelopes
    <3>2. Envelopes = {k \in 1 .. n : mbox[k].type = "packet"}
      BY DEF Envelopes
    <3>3. 1 .. n + 1 = (1 .. n) \cup {n + 1}
      BY <1>3
    <3> QED
      BY ONLY <2>1, <2>3, <3>1, <3>2, <3>3
  <2>6. \A k \in Envelopes : k \in 1 .. n
    BY DEF Envelopes
  <2>7. \A k \in Envelopes : off[k] \in Int /\ off[k] <= z
    <3>1. \A k \in 1 .. n : off[k] <= off[n + 1]
      BY <1>3 DEF Layout, MboxHolds
    <3> QED
      BY <1>3, <2>6, <3>1
  <2>8. \A k \in Envelopes : mbox'[k].arg = mbox[k].arg /\ off2[k] = off[k]
    BY ONLY <2>3, <2>4, <2>6
  <2>9. Accepted' = Accepted \cup {x} /\ Accepted \subseteq Packets
    BY <1>1, <1>7, AcceptedSent, TypeParts
  <2>10. mbox'[n + 1].arg = x /\ Hand \in Nat /\ Hand <= z
    BY <1>3, <1>4, <2>1, <2>3
  <2>11. Len(mbox') = n + 1 /\ before' = before /\ delivered' = delivered
    BY <1>2, <2>3
  <2>12. e \in Nat /\ n \in Nat /\ z \in 0 .. e /\ off2[n + 1] = z /\ off2[n + 2] = z
    BY <1>3, <2>4
  <2>13. x \in Packets /\ x # Nil /\ x \notin Accepted
    BY <1>1
  <2>14. \A v \in WlanTasks : falling'[v] # Nil => falling'[v] = falling[v]
    BY <1>1
  <2>15. \E rank2, top2 : Order(rank2, top2, row, e, off2)'
    BY ONLY <1>5, <1>6, <2>5, <2>7, <2>8, <2>9, <2>10, <2>11, <2>12, <2>13, <2>14, SMTT(30),
       OrderEnveloped, Order(rank, top, row, e, off), n = Len(mbox), z = off[n + 1],
       w \in WlanTasks, x = falling[w]
  <2> QED
    BY <2>2, <2>15 DEF Ordered
<1>8. CASE mbox' = mbox /\ refused' = [refused EXCEPT !.wlan = @ \cup {x}]
  <2>1. refused'.wlan = refused.wlan \cup {x}
    BY <1>8 DEF TypeOK
  <2>2. Layout(row, e, off)'
    BY <1>2, <1>3, <1>8, ThreadFrame, SameLayout DEF Layout
  <2>3. Queued(off, off, z) /\ z <= z /\ z \in Nat /\ z = off[Len(mbox) + 1]
    BY <1>3, <1>8 DEF Queued
  <2>4. \A j \in 1 .. e : pool'[row[j]].pkt = pool[row[j]].pkt
    BY <1>2
  <2>5. \A v \in WlanTasks : falling'[v] # Nil =>
          falling'[v] = falling[v] /\ before'[falling[v]] = before[falling[v]]
    BY <1>1, <1>2
  <2>6. \A p \in Accepted : before'[p] = before[p]
    BY <1>2
  <2>7. Order(rank, top, row, e, off)'
    BY <1>1, <1>2, <1>5, <2>1, <2>3, <2>4, <2>5, <2>6, OrderQueued
  <2> QED
    BY <2>2, <2>7 DEF Ordered
<1> QED
  BY <1>7, <1>8 DEF Envelope

\* The calls that bring no WLAN packet.
LEMMA OthersOrdered ==
  ASSUME NEW rank, NEW top, NEW row, NEW e, NEW off, TypeOK, Layout(row, e, off),
         Order(rank, top, row, e, off), NcmEnqueue \/ NcmRefused \/ Other
  PROVE  Ordered'
<1> PICK n : n = Len(mbox)
  OBVIOUS
<1> PICK z : z = off[n + 1]
  OBVIOUS
<1>1. /\ pool' = pool /\ free' = free /\ batch' = batch /\ pc' = pc /\ cur' = cur
      /\ before' = before /\ delivered' = delivered /\ falling' = falling
  BY DEF NcmEnqueue, NcmRefused, Other, wlanVars
<1>2. Accepted' = Accepted
  <2>1. sent'.wlan = sent.wlan /\ refused'.wlan = refused.wlan
    BY DEF NcmEnqueue, NcmRefused, NextNcm, Other, TypeOK
  <2> QED
    BY <1>1, <2>1 DEF Accepted
<1>3. /\ e \in Nat /\ n \in Nat /\ z \in 0 .. e /\ off[1] \in Nat /\ off[1] <= z
      /\ PoolSize \in Nat /\ e <= PoolSize /\ mbox \in Seq(Message)
  BY LayoutFacts, TypeFacts
<1>4. Hand \in Nat /\ Hand <= off[1] /\ Hand' = Hand /\ InHand' = InHand
  BY <1>1 DEF Layout, ThreadHolds, Hand, InHand
<1>5. \A j : Pkt(row, j)' = Pkt(row, j)
  BY <1>1 DEF Pkt
<1>6. \A w \in WlanTasks : falling'[w] # Nil =>
        falling'[w] = falling[w] /\ before'[falling[w]] = before[falling[w]]
  BY <1>1
<1>7. ASSUME NEW off2, Queued(off, off2, z) PROVE Order(rank, top, row, e, off2)'
  BY <1>1, <1>2, <1>3, <1>4, <1>6, <1>7, OrderQueued
<1>8. CASE mbox' = mbox
  <2>1. Layout(row, e, off)'
    BY <1>1, <1>3, <1>8, ThreadFrame, SameLayout DEF Layout
  <2>2. Queued(off, off, z)
    BY <1>8 DEF Queued
  <2> QED
    BY <1>7, <2>1, <2>2 DEF Ordered
<1>9. CASE mbox' = Append(mbox, Msg("api", Nil))
  <2> PICK off2 : off2 = Added(off, n, z)
    OBVIOUS
  <2> PICK m : m = Msg("api", Nil)
    OBVIOUS
  <2>1. m \in Message /\ m.type = "api"
    BY DEF Msg, Message
  <2>2. Layout(row, e, off2)'
    BY <1>1, <1>9, <2>1, AppendLayout
  <2>3. Queued(off, off2, z)
    BY <1>9, <2>1 DEF Queued
  <2> QED
    BY <1>7, <2>2, <2>3 DEF Ordered
<1>10. CASE mbox' = <<Marker>> \o mbox
  <2> PICK off2 : off2 = Led(off, n)
    OBVIOUS
  <2>1. Layout(row, e, off2)'
    BY <1>1, <1>10, MarkerLayout
  <2>2. /\ Len(mbox') = n + 1 /\ mbox'[1].type = "marker"
        /\ \A k \in 2 .. n + 1 : mbox'[k] = mbox[k - 1]
    BY <1>3, <1>10 DEF Marker, Msg
  <2>3. \A k \in 2 .. n + 2 : off2[k] = off[k - 1]
    BY ONLY <1>3, off2 = Led(off, n) DEF Led
  <2> PICK d \in Int : d = -1
    OBVIOUS
  <2>4. /\ \A k \in 2 .. n + 1 : k \in 2 .. n + 2 /\ k + d = k - 1 /\ k - 1 \in 1 .. n
        /\ \A k \in 1 .. n : k - d = k + 1 /\ k + 1 \in 2 .. n + 1 /\ k + 1 - 1 = k
        /\ \A k \in 1 .. n + 1 : k = 1 \/ k \in 2 .. n + 1
        /\ \A k \in 2 .. n + 1 : k \in 1 .. n + 1
    BY <1>3
  <2>5. /\ \A k : k \in Envelopes' <=> k \in 1 .. n + 1 /\ mbox'[k].type = "packet"
        /\ \A k : k \in Envelopes <=> k \in 1 .. n /\ mbox[k].type = "packet"
    BY <2>2 DEF Envelopes
  <2>6. /\ \A k \in Envelopes' : /\ k + d \in Envelopes
                                 /\ mbox'[k].arg = mbox[k + d].arg /\ off2[k] = off[k + d]
        /\ \A k \in Envelopes : k - d \in Envelopes'
    <3>1. ASSUME NEW k \in Envelopes'
          PROVE  /\ k + d \in Envelopes
                 /\ mbox'[k].arg = mbox[k + d].arg /\ off2[k] = off[k + d]
      <4>1. k \in 2 .. n + 1 /\ mbox'[k].type = "packet"
        BY <2>2, <2>4, <2>5, <3>1
      <4>2. k + d = k - 1 /\ k - 1 \in 1 .. n /\ k \in 2 .. n + 2 /\ mbox'[k] = mbox[k - 1]
        BY ONLY <2>2, <2>4, <4>1
      <4> QED
        BY ONLY <2>3, <2>5, <4>1, <4>2
    <3>2. ASSUME NEW k \in Envelopes PROVE k - d \in Envelopes'
      <4>1. k - d = k + 1 /\ k + 1 \in 2 .. n + 1 /\ k + 1 - 1 = k /\ k + 1 \in 1 .. n + 1
        BY <2>4, <2>5, <3>2
      <4>2. mbox'[k + 1] = mbox[k] /\ mbox[k].type = "packet"
        BY ONLY <2>2, <2>5, <3>2, <4>1
      <4> QED
        BY ONLY <2>5, <4>1, <4>2
    <3> QED
      BY <3>1, <3>2
  <2>7. Len(mbox') \in Nat /\ off2[Len(mbox') + 1] = z
    <3>1. n + 1 + 1 \in 2 .. n + 2 /\ n + 1 + 1 - 1 = n + 1
      BY <1>3
    <3> QED
      BY <1>3, <2>2, <2>3, <3>1
  <2>8. Order(rank, top, row, e, off2)'
    <3>1. /\ Len(mbox) \in Nat /\ off[Len(mbox) + 1] \in Nat
          /\ off2[Len(mbox') + 1] \in Nat /\ off[Len(mbox) + 1] <= off2[Len(mbox') + 1]
          /\ Hand <= off[Len(mbox) + 1] /\ Hand \in Nat /\ e \in Nat
      BY <1>3, <1>4, <2>7
    <3>2. Hand' = Hand /\ InHand' = InHand
      BY <1>4
    <3>3. /\ \A p \in Accepted : before'[p] = before[p]
          /\ delivered'.wlan = delivered.wlan
          /\ \A j \in Held(e) : Pkt(row, j)' = Pkt(row, j)
      BY <1>1, <1>5
    <3> QED
      BY ONLY <1>2, <1>6, <2>6, <3>1, <3>2, <3>3, OrderKept,
         Order(rank, top, row, e, off), d \in Int
  <2> QED
    BY <2>1, <2>8 DEF Ordered
<1> QED
  BY <1>8, <1>9, <1>10 DEF NcmEnqueue, NcmRefused, Other

\* Every step keeps the packets in order.
LEMMA OrderedKept ==
  ASSUME TypeOK, Alone, Args, Calls, Ordered, Next
  PROVE  Ordered'
<1> PICK row, e, off, rank, top : Layout(row, e, off) /\ Order(rank, top, row, e, off)
  BY DEF Ordered
<1>1. CASE Fetch
  BY <1>1, FetchOrdered
<1>2. CASE Api \/ Open \/ EntriesDone \/ NcmTake \/ NcmInput \/ NcmFree
  BY <1>2, ThreadOrdered
<1>3. CASE Packet
  BY <1>3, ThreadLayout, OrderPacket DEF Ordered
<1>4. CASE EntryInput
  BY <1>4, ThreadLayout, OrderInput DEF Ordered
<1>5. CASE EntryRelease
  <2> PICK row2, f, off2 : /\ row2 = Rotated(row, e) /\ f = e - 1
                           /\ off2 = Lowered(off, Len(mbox))
    OBVIOUS
  <2>1. Layout(row2, f, off2)'
    BY <1>5, ReleaseLayout
  <2>2. Order(rank, top, row2, f, off2)'
    BY <1>5, OrderReleased
  <2> QED
    BY <2>1, <2>2 DEF Ordered
<1>6. CASE Retry \/ TimerFires
  BY <1>6, RetryOrdered
<1>7. CASE NcmEnqueue \/ NcmRefused \/ Other
  BY <1>7, OthersOrdered
<1>8. ASSUME NEW w \in WlanTasks, Producer(w) PROVE Ordered'
  BY <1>8, InpktOrdered, AloneOrdered, ExhaustedOrdered, EnvelopeOrdered DEF Producer
<1> QED
  BY <1>1, <1>2, <1>3, <1>4, <1>5, <1>6, <1>7, <1>8 DEF Next, Thread

---------------------------------------------------------------------------
\* The inductive invariant of the order.
OrderInv == PoolInv /\ Calls /\ Ordered

LEMMA OrderInvInit ==
  ASSUME Init
  PROVE  OrderInv
<1>1. PoolInv
  BY PoolInvInit
<1>2. /\ mbox = <<>> /\ Len(mbox) = 0 /\ pc = "fetch" /\ delivered = [wlan |-> <<>>, ncm |-> <<>>]
      /\ sent = [wlan |-> 0, ncm |-> 0, other |-> 0] /\ refused = [wlan |-> {}, ncm |-> {}]
      /\ \A w \in WlanTasks : falling[w] = Nil
  BY DEF Init
<1>3. Calls
  BY <1>2 DEF Calls
<1>4. Accepted = {}
  BY <1>2 DEF Accepted
<1> PICK row, e, off : Layout(row, e, off)
  BY <1>1 DEF PoolInv, Owned
<1>5. e = 0
  <2>1. off[1] = 0
    BY <1>2 DEF Layout, ThreadHolds
  <2>2. batch.count = e - off[1] /\ batch.count = 0 /\ e \in Nat
    BY <1>1, <1>2, LayoutFacts DEF Layout, BatchHolds, Init, NoBatch, PoolInv
  <2> QED
    BY <2>1, <2>2
<1>6. Held(e) = {} /\ Envelopes = {} /\ InHand = {} /\ Past = {}
  BY <1>2, <1>5 DEF Held, Hand, Envelopes, InHand, Past, ToSet
<1> DEFINE rank == [p \in Packets |-> 0]
<1>7. rank \in [Packets -> Int] /\ 1 \in Int /\ \A p \in Packets : rank[p] < 1
  OBVIOUS
<1> HIDE DEF rank
<1>8. Sorted(rank, row, e, off)
  BY <1>2, <1>6 DEF Sorted, ToSet
<1>9. Covered(row, e) /\ InTurn(rank, row, e, off)
  BY <1>2, <1>4, <1>6 DEF Covered, InTurn
<1>10. Order(rank, 1, row, e, off)
  BY <1>7, <1>8, <1>9 DEF Order
<1> QED
  BY <1>1, <1>3, <1>10 DEF OrderInv, Ordered

LEMMA OrderInvKept ==
  ASSUME OrderInv, [Next]_vars
  PROVE  OrderInv'
<1>1. PoolInv'
  BY PoolInvKept DEF OrderInv
<1>2. CASE Next
  BY <1>1, <1>2, CallsKept, OrderedKept DEF OrderInv, PoolInv
<1>3. CASE UNCHANGED vars
  <2>1. Calls'
    BY <1>3 DEF OrderInv, Calls, vars, callVars
  <2> PICK row, e, off, rank, top : Layout(row, e, off) /\ Order(rank, top, row, e, off)
    BY DEF OrderInv, Ordered
  <2>2. Layout(row, e, off)'
    BY <1>3 DEF Layout, ThreadHolds, Hand, vars, wlanVars
  <2>3. UNCHANGED <<mbox, pool, pc, cur, delivered, falling, sent, refused, before>>
    BY <1>3 DEF vars, wlanVars, callVars
  <2>4. /\ Hand' = Hand /\ InHand' = InHand /\ Accepted' = Accepted /\ Envelopes' = Envelopes
        /\ Past' = Past /\ Held(e)' = Held(e) /\ \A j : Pkt(row, j)' = Pkt(row, j)
    BY <2>3 DEF Hand, InHand, Accepted, Envelopes, Past, Held, Pkt
  <2>5. Sorted(rank, row, e, off)' /\ Covered(row, e)' /\ InTurn(rank, row, e, off)'
    BY <2>3, <2>4 DEF Order, Sorted, Covered, InTurn
  <2>6. Order(rank, top, row, e, off)'
    BY <2>5 DEF Order
  <2> QED
    BY <1>1, <2>1, <2>2, <2>6 DEF OrderInv, Ordered
<1> QED
  BY <1>2, <1>3

---------------------------------------------------------------------------
\* What the order says of the packets that were passed on, and of those that wait.
LEMMA OrderFacts ==
  ASSUME NEW rank, NEW top, NEW row, NEW e, NEW off, TypeOK, Order(rank, top, row, e, off)
  PROVE  /\ Accepted \subseteq Packets /\ \A p \in Packets : rank[p] \in Int
         /\ Past \subseteq Accepted /\ ToSet(delivered.wlan) \subseteq Past
         /\ \A i \in DOMAIN delivered.wlan : delivered.wlan[i] \in ToSet(delivered.wlan)
         /\ \A x \in ToSet(delivered.wlan) : \E i \in DOMAIN delivered.wlan : x = delivered.wlan[i]
         /\ \A x \in Past, y \in Accepted : y \notin Past => rank[x] < rank[y]
<1>1. Accepted \subseteq Packets /\ \A p \in Packets : rank[p] \in Int
  BY AcceptedSent, TypeParts DEF Order
<1>2. Accepted = Past \cup {Pkt(row, j) : j \in Held(e)} \cup {mbox[k].arg : k \in Envelopes}
  BY DEF Order, Covered
<1>3. \A x \in Past, y \in Accepted : y \notin Past => rank[x] < rank[y]
  <2>1. /\ \A x \in Past, j \in Held(e) : rank[x] < rank[Pkt(row, j)]
        /\ \A x \in Past, k \in Envelopes : rank[x] < rank[mbox[k].arg]
    BY DEF Order, Sorted
  <2> QED
    BY ONLY <1>2, <2>1
<1>4. /\ Past \subseteq Accepted /\ ToSet(delivered.wlan) \subseteq Past
      /\ \A i \in DOMAIN delivered.wlan : delivered.wlan[i] \in ToSet(delivered.wlan)
      /\ \A x \in ToSet(delivered.wlan) : \E i \in DOMAIN delivered.wlan : x = delivered.wlan[i]
  BY <1>2 DEF Past, ToSet
<1> QED
  BY <1>1, <1>3, <1>4

LEMMA OrderInvFifo ==
  ASSUME OrderInv
  PROVE  WlanFifo
<1> PICK row, e, off, rank, top : Layout(row, e, off) /\ Order(rank, top, row, e, off)
  BY DEF OrderInv, Ordered
<1> DEFINE d == delivered.wlan
<1> SUFFICES ASSUME NEW k \in DOMAIN d, NEW x \in before[d[k]]
             PROVE  \E j \in 1 .. k - 1 : x = d[j]
  BY DEF WlanFifo
<1>1. TypeOK /\ d \in Seq(Packets)
  BY DEF OrderInv, PoolInv, TypeOK
<1>2. /\ \A p \in Packets : rank[p] \in Int
      /\ Accepted \subseteq Packets /\ Past \subseteq Accepted /\ ToSet(d) \subseteq Past
      /\ \A i \in DOMAIN d : d[i] \in ToSet(d)
      /\ \A y \in ToSet(d) : \E i \in DOMAIN d : y = d[i]
      /\ \A y \in Past, z \in Accepted : z \notin Past => rank[y] < rank[z]
  BY <1>1, OrderFacts
<1>3. x \in Accepted /\ rank[x] < rank[d[k]]
  BY <1>2 DEF Order, InTurn
<1>4. x \in Past
  BY <1>2, <1>3
<1>5. x \in ToSet(d)
  <2>1. ASSUME x \in InHand PROVE FALSE
    <3>1. rank[d[k]] < rank[x]
      BY <1>2, <2>1 DEF Order, Sorted
    <3> QED
      BY <1>2, <1>3, <3>1
  <2> QED
    BY <1>4, <2>1 DEF Past
<1>6. PICK j \in DOMAIN d : x = d[j]
  BY <1>2, <1>5
<1>7. k \in 1 .. Len(d) /\ j \in 1 .. Len(d) /\ Len(d) \in Nat
  BY <1>1
<1>8. \A i, l \in DOMAIN d : i < l => rank[d[i]] < rank[d[l]]
  BY DEF Order, Sorted
<1>9. rank[d[k]] \in Int /\ rank[d[j]] \in Int
  BY <1>2
<1> HIDE DEF d
<1>10. j < k
  <2>1. j = k => FALSE
    BY <1>3, <1>6, <1>9
  <2>2. k < j => FALSE
    BY <1>3, <1>6, <1>8, <1>9
  <2> QED
    BY <1>7, <2>1, <2>2
<1> QED
  BY <1>6, <1>7, <1>10

LEMMA OrderInvKeeps ==
  ASSUME OrderInv
  PROVE  WlanKept
<1> PICK row, e, off, rank, top : Layout(row, e, off) /\ Order(rank, top, row, e, off)
  BY DEF OrderInv, Ordered
<1> DEFINE d == delivered.wlan
           waiting == {pool[i].pkt : i \in ToSet(Waiting)} \cup Enveloped
                        \cup (IF pc = "packet" THEN {cur.pkt} ELSE {})
<1>1. TypeOK /\ d \in Seq(Packets)
  BY DEF OrderInv, PoolInv, TypeOK
<1>2. /\ \A p \in Packets : rank[p] \in Int
      /\ Accepted \subseteq Packets /\ Past \subseteq Accepted /\ ToSet(d) \subseteq Past
      /\ \A i \in DOMAIN d : d[i] \in ToSet(d)
      /\ \A y \in ToSet(d) : \E i \in DOMAIN d : y = d[i]
      /\ \A y \in Past, z \in Accepted : z \notin Past => rank[y] < rank[z]
  BY <1>1, OrderFacts
<1>3. waiting = {Pkt(row, j) : j \in Held(e)} \cup {mbox[k].arg : k \in Envelopes} \cup InHand
  <2>1. ToSet(Waiting) = {row[j] : j \in Held(e)}
    BY <1>1, WaitingIs DEF Held
  <2>2. {pool[i].pkt : i \in ToSet(Waiting)} = {Pkt(row, j) : j \in Held(e)}
    BY <2>1 DEF Pkt
  <2>3. Enveloped = {mbox[k].arg : k \in Envelopes}
    <3>1. DOMAIN mbox = 1 .. Len(mbox)
      BY <1>1, TypeFacts
    <3> QED
      BY <3>1 DEF Enveloped, Envelopes
  <2> QED
    BY <2>2, <2>3 DEF InHand
<1>4. waiting \cup ToSet(d) = Accepted
  BY <1>3 DEF Order, Covered, Past
<1>5. waiting \cap ToSet(d) = {}
  <2> SUFFICES ASSUME NEW x \in waiting, x \in ToSet(d) PROVE FALSE
    OBVIOUS
  <2>1. x \in Past /\ rank[x] \in Int
    BY <1>2
  <2> HIDE DEF waiting
  <2>2. \/ \E j \in Held(e) : x = Pkt(row, j)
        \/ \E k \in Envelopes : x = mbox[k].arg
        \/ x \in InHand
    BY <1>3
  <2>3. rank[x] < rank[x]
    BY ONLY <2>1, <2>2, x \in ToSet(d), Order(rank, top, row, e, off) DEF Order, Sorted
  <2> QED
    BY <2>1, <2>3
<1> HIDE DEF waiting
<1>6. IsFiniteSet(Accepted)
  <2>1. IsFiniteSet(Packets)
    BY SizesAssumption, FS_Interval DEF Packets
  <2> QED
    BY <1>2, <2>1, FS_Subset
<1>7. IsFiniteSet(ToSet(d)) /\ Cardinality(ToSet(d)) = Len(d)
  <2>1. Len(d) \in Nat /\ DOMAIN d = 1 .. Len(d)
    BY <1>1
  <2>2. \A i, j \in DOMAIN d : d[i] = d[j] => i = j
    <3>1. \A i, j \in DOMAIN d : i < j => rank[d[i]] < rank[d[j]]
      BY DEF Order, Sorted
    <3>2. \A i \in DOMAIN d : rank[d[i]] \in Int /\ i \in Int
      BY <1>2, <2>1
    <3> HIDE DEF d
    <3> SUFFICES ASSUME NEW i \in DOMAIN d, NEW j \in DOMAIN d, d[i] = d[j], i # j PROVE FALSE
      OBVIOUS
    <3>3. i < j \/ j < i
      BY <3>2
    <3> QED
      BY <3>1, <3>2, <3>3
  <2>3. d \in [1 .. Len(d) -> ToSet(d)]
    <3>1. d = [i \in 1 .. Len(d) |-> d[i]]
      BY <1>1
    <3> QED
      BY <1>2, <2>1, <3>1
  <2> HIDE DEF d
  <2>4. d \in Bijection(1 .. Len(d), ToSet(d))
    <3>1. d \in Injection(1 .. Len(d), ToSet(d))
      BY <2>1, <2>2, <2>3 DEF Injection, IsInjective
    <3>2. d \in Surjection(1 .. Len(d), ToSet(d))
      BY <1>2, <2>1, <2>3 DEF Surjection
    <3> QED
      BY <3>1, <3>2 DEF Bijection
  <2>5. IsFiniteSet(1 .. Len(d)) /\ Cardinality(1 .. Len(d)) = Len(d)
    <3>1. 1 \in Int /\ Len(d) \in Int
      BY ONLY <2>1
    <3>2. /\ IsFiniteSet(1 .. Len(d))
          /\ Cardinality(1 .. Len(d)) = IF 1 > Len(d) THEN 0 ELSE Len(d) - 1 + 1
      BY ONLY <3>1, FS_Interval, Zenon
    <3>3. (IF 1 > Len(d) THEN 0 ELSE Len(d) - 1 + 1) = Len(d)
      BY ONLY <2>1
    <3> QED
      BY ONLY <3>2, <3>3
  <2>6. ExistsBijection(1 .. Len(d), ToSet(d))
    BY <2>4 DEF ExistsBijection
  <2> QED
    BY <2>5, <2>6, FS_Bijection
<1>8. IsFiniteSet(waiting)
  BY <1>4, <1>6, FS_Subset
<1>9. Cardinality(waiting) + Len(d) = Cardinality(Accepted)
  <2>1. Cardinality(waiting \cup ToSet(d))
          = Cardinality(waiting) + Cardinality(ToSet(d)) - Cardinality(waiting \cap ToSet(d))
    BY <1>7, <1>8, FS_Union
  <2>2. Cardinality({}) = 0
    BY FS_EmptySet
  <2>3. Cardinality(waiting) \in Nat /\ Len(d) \in Nat
    BY <1>1, <1>8, FS_CardinalityType
  <2> HIDE DEF d
  <2>4. Cardinality(waiting \cap ToSet(d)) = 0
    BY <1>5, <2>2, Zenon
  <2>5. Cardinality(waiting \cup ToSet(d)) = Cardinality(Accepted)
    BY <1>4, Zenon
  <2> QED
    BY <1>7, <2>1, <2>3, <2>4, <2>5
<1> QED
  BY <1>4, <1>9 DEF WlanKept, waiting

---------------------------------------------------------------------------
\* The USB-NCM packets: the row of those that were accepted grows at its end only.
Numbered(s, m, r) == /\ \A i, j \in DOMAIN s : i < j => s[i] < s[j]
                     /\ ToSet(s) = (1 .. m) \ r
NcmInv == PoolInv /\ Calls /\ Numbered(NcmRow, sent.ncm, refused.ncm)

LEMMA NcmInvInit ==
  ASSUME Init
  PROVE  NcmInv
<1>1. PoolInv /\ Calls
  BY OrderInvInit DEF OrderInv
<1>2. NcmRow = <<>> /\ sent.ncm = 0
  BY DEF Init, NcmRow
<1> QED
  BY <1>1, <1>2 DEF NcmInv, Numbered, ToSet

\* What a step does to the row.
LEMMA NcmRowStep ==
  ASSUME TypeOK, NcmCount, Args, Next
  PROVE  /\ NcmRow \in Seq(1 .. MaxNcm) /\ sent.ncm \in Nat
         /\ \/ NcmRow' = NcmRow /\ sent'.ncm = sent.ncm /\ refused'.ncm = refused.ncm
            \/ /\ NcmRow' = NcmRow /\ sent'.ncm = sent.ncm + 1
               /\ refused'.ncm = refused.ncm \cup {sent'.ncm}
            \/ /\ NcmRow' = Append(NcmRow, sent'.ncm) /\ sent'.ncm = sent.ncm + 1
               /\ refused'.ncm = refused.ncm
<1> DEFINE d == delivered.ncm
           h == IF pc = "ncmInput" THEN <<cur.pkt>> ELSE <<>>
           D == 1 .. MaxNcm
           Same == NcmRow' = NcmRow /\ sent'.ncm = sent.ncm /\ refused'.ncm = refused.ncm
           Step == \/ Same
                   \/ /\ NcmRow' = NcmRow /\ sent'.ncm = sent.ncm + 1
                      /\ refused'.ncm = refused.ncm \cup {sent'.ncm}
                   \/ /\ NcmRow' = Append(NcmRow, sent'.ncm) /\ sent'.ncm = sent.ncm + 1
                      /\ refused'.ncm = refused.ncm
<1>1. /\ d \in Seq(D) /\ h \in Seq(D) /\ ncmQueue \in Seq(D) /\ sent.ncm \in Nat
      /\ NcmRow = d \o h \o ncmQueue
  <2>1. d \in Seq(D) /\ ncmQueue \in Seq(D) /\ sent.ncm \in Nat
    BY SizesAssumption DEF TypeOK
  <2>2. h \in Seq(D)
    <3>1. CASE pc = "ncmInput"
      <4>1. cur.pkt \in D
        BY <3>1 DEF Args
      <4> HIDE DEF D
      <4> QED
        BY <3>1, <4>1
    <3>2. CASE pc # "ncmInput"
      BY <3>2
    <3> QED
      BY <3>1, <3>2
  <2> QED
    BY <2>1, <2>2 DEF NcmRow
<1>2. NcmRow \in Seq(D)
  <2> HIDE DEF d, h, D
  <2> QED
    BY <1>1
<1>3. ASSUME NcmTake PROVE Step
  <2>1. UNCHANGED <<sent, refused, delivered>> /\ pc = "marker"
    BY <1>3 DEF NcmTake, callVars
  <2>2. CASE ncmQueue = <<>>
    <3>1. ncmQueue' = ncmQueue /\ pc' = "retry"
      BY <1>3, <2>2 DEF NcmTake
    <3> QED
      BY <2>1, <3>1 DEF NcmRow
  <2>3. CASE ncmQueue # <<>>
    <3>1. cur'.pkt = Head(ncmQueue) /\ ncmQueue' = Tail(ncmQueue) /\ pc' = "ncmInput"
      BY <1>3, <2>3 DEF NcmTake, TypeOK
    <3>2. ncmQueue = <<Head(ncmQueue)>> \o Tail(ncmQueue)
      BY <1>1, <2>3
    <3>3. NcmRow = d \o <<>> \o ncmQueue
      BY <2>1 DEF NcmRow
    <3>4. NcmRow' = d \o <<Head(ncmQueue)>> \o Tail(ncmQueue)
      BY <2>1, <3>1 DEF NcmRow
    <3> HIDE DEF d, D
    <3>5. /\ Head(ncmQueue) \in D /\ Tail(ncmQueue) \in Seq(D)
      BY <1>1, <2>3
    <3>6. d \o <<Head(ncmQueue)>> \o Tail(ncmQueue) = d \o <<>> \o ncmQueue
      BY <1>1, <2>3, <3>5
    <3> QED
      BY <2>1, <3>3, <3>4, <3>6
  <2> QED
    BY <2>2, <2>3
<1>4. ASSUME NcmInput PROVE Step
  <2>1. /\ delivered'.ncm = Append(d, cur.pkt) /\ pc = "ncmInput" /\ pc' = "ncmFree"
        /\ UNCHANGED <<sent, refused, ncmQueue>>
    BY <1>4 DEF NcmInput, callVars, ncmVars, TypeOK
  <2>2. NcmRow = d \o <<cur.pkt>> \o ncmQueue /\ cur.pkt \in D
    BY <2>1 DEF NcmRow, Args
  <2>3. NcmRow' = Append(d, cur.pkt) \o <<>> \o ncmQueue
    BY <2>1 DEF NcmRow
  <2> HIDE DEF d, D
  <2>4. Append(d, cur.pkt) \o <<>> \o ncmQueue = d \o <<cur.pkt>> \o ncmQueue
    BY <1>1, <2>2
  <2> QED
    BY <2>1, <2>2, <2>3, <2>4
<1>5. ASSUME NcmEnqueue PROVE Step
  <2>1. /\ sent'.ncm = sent.ncm + 1 /\ delivered' = delivered /\ pc' = pc /\ cur' = cur
    BY <1>1, <1>5 DEF NcmEnqueue, NextNcm, TypeOK
  <2>2. CASE ~marker /\ Full(mbox)
    <3>1. ncmQueue' = ncmQueue
      BY <1>5, <2>2 DEF NcmEnqueue, NcmCount
    <3>2. refused'.ncm = refused.ncm \cup {sent'.ncm}
      BY <1>5, <2>2 DEF NcmEnqueue, TypeOK
    <3> QED
      BY <2>1, <3>1, <3>2 DEF NcmRow
  <2>3. CASE ~(~marker /\ Full(mbox))
    <3>1. ncmQueue' = Append(ncmQueue, sent'.ncm) /\ refused' = refused
      BY <1>5, <2>3 DEF NcmEnqueue
    <3>2. NcmRow' = d \o h \o Append(ncmQueue, sent'.ncm)
      BY <2>1, <3>1 DEF NcmRow
    <3>3. sent'.ncm \in D
      BY <1>1, <1>5, <2>1, SizesAssumption DEF NcmEnqueue, NextNcm
    <3> HIDE DEF d, h, D
    <3>4. d \o h \o Append(ncmQueue, sent'.ncm) = Append(d \o h \o ncmQueue, sent'.ncm)
      BY <1>1, <3>3
    <3> QED
      BY <1>1, <2>1, <3>1, <3>2, <3>4
  <2> QED
    BY <2>2, <2>3
<1>6. ASSUME NcmRefused PROVE Step
  <2>1. /\ sent'.ncm = sent.ncm + 1 /\ refused'.ncm = refused.ncm \cup {sent'.ncm}
        /\ UNCHANGED <<delivered, pc, cur, ncmQueue>>
    BY <1>1, <1>6 DEF NcmRefused, NextNcm, TypeOK, ncmVars
  <2> QED
    BY <2>1 DEF NcmRow
<1>7. ASSUME delivered'.ncm = delivered.ncm, ncmQueue' = ncmQueue,
             (pc' = pc /\ cur' = cur) \/ (pc # "ncmInput" /\ pc' # "ncmInput"),
             sent'.ncm = sent.ncm, refused'.ncm = refused.ncm
      PROVE  Same
  BY <1>7 DEF NcmRow
<1>8. ASSUME Fetch PROVE Step
  <2> PICK m : m = Head(mbox)
    OBVIOUS
  <2>1. /\ m.type \in {"batch", "entry", "packet", "marker", "api"}
        /\ pc = "fetch" /\ pc' = IF m.type = "entry" THEN "entries" ELSE m.type
        /\ UNCHANGED <<ncmVars, callVars, delivered>>
    BY <1>8, FetchFacts
  <2>2. Same
    BY <1>7, <2>1 DEF ncmVars, callVars
  <2> QED
    BY <2>2
<1>9. ASSUME Api \/ Packet \/ Open \/ EntryInput \/ EntryRelease \/ EntriesDone \/ NcmFree \/ Retry
             \/ TimerFires
      PROVE  Step
  <2>1. /\ ncmQueue' = ncmQueue /\ sent' = sent /\ refused' = refused
        /\ (pc' = pc /\ cur' = cur) \/ (pc # "ncmInput" /\ pc' # "ncmInput")
    BY <1>9 DEF Api, Packet, Open, EntryInput, EntryRelease, EntriesDone, NcmFree, Retry, TimerFires,
                ncmVars, callVars
  <2>2. delivered'.ncm = delivered.ncm
    BY <1>9 DEF Api, Packet, Open, EntryInput, EntryRelease, EntriesDone, NcmFree, Retry, TimerFires,
                TypeOK
  <2>3. Same
    BY <1>7, <2>1, <2>2
  <2> QED
    BY <2>3
<1>10. ASSUME Other \/ \E w \in WlanTasks : Producer(w) PROVE Step
  <2>1. /\ ncmQueue' = ncmQueue /\ delivered' = delivered /\ pc' = pc /\ cur' = cur
    BY <1>10 DEF Other, Producer, Inpkt, InpktAlone, InpktExhausted, Envelope, ncmVars
  <2>2. sent'.ncm = sent.ncm /\ refused'.ncm = refused.ncm
    BY <1>10 DEF Other, Producer, Inpkt, InpktAlone, InpktExhausted, Envelope, NextPacket, TypeOK
  <2>3. Same
    BY <1>7, <2>1, <2>2
  <2> QED
    BY <2>3
<1> QED
  <2>1. Step
    BY <1>3, <1>4, <1>5, <1>6, <1>8, <1>9, <1>10 DEF Next, Thread
  <2> QED
    BY <1>1, <1>2, <2>1

LEMMA NumberedStep ==
  ASSUME NEW m \in Nat, NEW D, NEW s \in Seq(D), NEW r, r \subseteq 1 .. m,
         NEW n, n = m + 1, Numbered(s, m, r)
  PROVE  /\ Numbered(s, n, r \cup {n})
         /\ n \in D => Numbered(Append(s, n), n, r)
<1>1. 1 .. n = (1 .. m) \cup {n} /\ n \notin 1 .. m /\ n \notin r
  OBVIOUS
<1>2. Numbered(s, n, r \cup {n})
  <2>1. (1 .. m) \ r = (1 .. n) \ (r \cup {n})
    BY ONLY <1>1, r \subseteq 1 .. m
  <2> QED
    BY <2>1 DEF Numbered
<1>3. ASSUME n \in D PROVE Numbered(Append(s, n), n, r)
  <2> PICK t : t = Append(s, n)
    OBVIOUS
  <2>1. /\ Len(s) \in Nat /\ DOMAIN s = 1 .. Len(s) /\ DOMAIN t = 1 .. Len(s) + 1
        /\ t[Len(s) + 1] = n /\ \A i \in 1 .. Len(s) : t[i] = s[i]
    BY <1>3
  <2>2. \A i \in 1 .. Len(s) : s[i] \in 1 .. m
    <3>1. \A i \in DOMAIN s : s[i] \in ToSet(s)
      BY DEF ToSet
    <3> QED
      BY <2>1, <3>1 DEF Numbered
  <2>3. ToSet(t) = ToSet(s) \cup {n}
    <3>1. 1 .. Len(s) + 1 = (1 .. Len(s)) \cup {Len(s) + 1}
      BY <2>1
    <3> QED
      BY ONLY <2>1, <3>1 DEF ToSet
  <2>4. ToSet(t) = (1 .. n) \ r
    BY <1>1, <2>3 DEF Numbered
  <2>5. ASSUME NEW i \in DOMAIN t, NEW j \in DOMAIN t, i < j PROVE t[i] < t[j]
    <3>1. i \in 1 .. Len(s) /\ j \in 1 .. Len(s) + 1
      BY <2>1, <2>5
    <3>2. CASE j = Len(s) + 1
      <4>1. t[i] \in 1 .. m /\ t[j] = n
        BY <2>1, <2>2, <3>1, <3>2
      <4> QED
        BY <4>1
    <3>3. CASE j # Len(s) + 1
      <4>1. j \in 1 .. Len(s)
        BY <2>1, <3>1, <3>3
      <4> QED
        BY <2>1, <2>5, <3>1, <4>1 DEF Numbered
    <3> QED
      BY <3>2, <3>3
  <2> QED
    BY <2>4, <2>5 DEF Numbered
<1> QED
  BY <1>2, <1>3

LEMMA NcmInvKept ==
  ASSUME NcmInv, [Next]_vars
  PROVE  NcmInv'
<1>1. PoolInv'
  BY PoolInvKept DEF NcmInv
<1>2. CASE Next
  <2>1. Calls'
    BY <1>2, CallsKept DEF NcmInv, PoolInv
  <2>2. Numbered(NcmRow, sent.ncm, refused.ncm) /\ refused.ncm \subseteq 1 .. sent.ncm
    BY DEF NcmInv, Calls
  <2>3. /\ NcmRow \in Seq(1 .. MaxNcm) /\ sent.ncm \in Nat
        /\ \/ NcmRow' = NcmRow /\ sent'.ncm = sent.ncm /\ refused'.ncm = refused.ncm
           \/ /\ sent'.ncm = sent.ncm + 1
              /\ \/ NcmRow' = NcmRow /\ refused'.ncm = refused.ncm \cup {sent'.ncm}
                 \/ NcmRow' = Append(NcmRow, sent'.ncm) /\ refused'.ncm = refused.ncm
    BY <1>2, NcmRowStep DEF NcmInv, PoolInv
  <2>4. sent'.ncm \in 1 .. MaxNcm \/ sent'.ncm = sent.ncm
    <3>1. sent' \in [wlan : 0 .. MaxWlan, ncm : 0 .. MaxNcm, other : 0 .. MaxOther]
      BY <1>2, CallTyped DEF NcmInv, PoolInv, CallTypes
    <3> QED
      BY <2>3, <3>1, SizesAssumption
  <2>5. Numbered(NcmRow, sent.ncm, refused.ncm)'
    <3>1. CASE sent'.ncm = sent.ncm
      BY <2>2, <2>3, <3>1
    <3>2. CASE sent'.ncm # sent.ncm
      <4>1. /\ sent'.ncm = sent.ncm + 1 /\ sent'.ncm \in 1 .. MaxNcm
            /\ \/ NcmRow' = NcmRow /\ refused'.ncm = refused.ncm \cup {sent'.ncm}
               \/ NcmRow' = Append(NcmRow, sent'.ncm) /\ refused'.ncm = refused.ncm
        BY ONLY <2>3, <2>4, <3>2
      <4>2. /\ Numbered(NcmRow, sent'.ncm, refused.ncm \cup {sent'.ncm})
            /\ Numbered(Append(NcmRow, sent'.ncm), sent'.ncm, refused.ncm)
        BY <2>2, <2>3, <4>1, NumberedStep
      <4> QED
        BY <4>1, <4>2, Zenon
    <3> QED
      BY <3>1, <3>2
  <2> QED
    BY <1>1, <2>1, <2>5 DEF NcmInv
<1>3. CASE UNCHANGED vars
  <2>1. Calls'
    BY <1>3 DEF NcmInv, Calls, vars, callVars
  <2>2. Numbered(NcmRow, sent.ncm, refused.ncm)'
    BY <1>3 DEF NcmInv, NcmRow, vars, ncmVars, callVars
  <2> QED
    BY <1>1, <2>1, <2>2 DEF NcmInv
<1> QED
  BY <1>2, <1>3

LEMMA NcmInvKeeps ==
  ASSUME NcmInv
  PROVE  NcmKept
<1> DEFINE S == {k \in DOMAIN mbox : mbox[k] = Marker}
<1>1. TypeOK /\ NcmCount /\ Args
  BY DEF NcmInv, PoolInv
<1>2. S = Markers
  <2>1. mbox \in Seq(Message) /\ DOMAIN mbox = 1 .. Len(mbox)
    BY <1>1, TypeFacts
  <2>2. \A k \in 1 .. Len(mbox) : mbox[k].type = "marker" <=> mbox[k] = Marker
    <3> TAKE k \in 1 .. Len(mbox)
    <3>1. mbox[k] \in Message
      BY <2>1
    <3>2. mbox[k] = [type |-> mbox[k].type, arg |-> mbox[k].arg]
      BY <3>1 DEF Message
    <3>3. mbox[k].type = "marker" => mbox[k].arg = Nil
      BY <1>1 DEF Args
    <3> QED
      BY <3>2, <3>3 DEF Marker, Msg
  <2> QED
    BY <2>1, <2>2 DEF Markers
<1>3. Cardinality(Markers) + (IF Draining THEN 1 ELSE 0) = (IF marker THEN 1 ELSE 0)
  <2>1. Markers = {} => Cardinality(Markers) = 0
    BY FS_EmptySet
  <2>2. \A k : Markers = {k} => Cardinality(Markers) = 1
    BY FS_Singleton
  <2>4. CASE marker
    <3>1. \/ Draining /\ Markers = {}
          \/ ~Draining /\ \E k \in 1 .. Len(mbox) : Markers = {k}
      BY <1>1, <2>4 DEF NcmCount
    <3>2. \/ Draining /\ Cardinality(Markers) = 0
          \/ ~Draining /\ Cardinality(Markers) = 1
      BY <2>1, <2>2, <3>1, Zenon
    <3> QED
      BY <2>4, <3>2
  <2>5. CASE ~marker
    <3>1. ~Draining /\ Cardinality(Markers) = 0
      BY <1>1, <2>1, <2>5, Zenon DEF NcmCount
    <3> QED
      BY <2>5, <3>1
  <2> QED
    BY <2>4, <2>5
<1> QED
  BY <1>2, <1>3 DEF NcmKept, NcmInv, Numbered, Draining

---------------------------------------------------------------------------
\* A WLAN packet never overtakes one that was accepted before its own call,
\* whichever way each of them came: with the batch, alone, or in lwIP's envelope.
THEOREM WlanInOrder == Spec => []WlanFifo
BY OrderInvInit, OrderInvKept, OrderInvFifo, PTL DEF Spec

\* A WLAN packet tcpip_inpkt has accepted waits in exactly one place until it has
\* been passed on, exactly once; one that was refused is never passed on.
THEOREM WlanOnce == Spec => []WlanKept
BY OrderInvInit, OrderInvKept, OrderInvKeeps, PTL DEF Spec

\* Whatever way it came, an accepted packet is passed on once and in its turn, and
\* the marker is in the mailbox or being served exactly while it is said to be.
THEOREM PacketsInTurn == Spec => []PacketsKept
<1>1. Spec => []NcmKept
  BY NcmInvInit, NcmInvKept, NcmInvKeeps, PTL DEF Spec
<1>2. WlanKept /\ WlanFifo /\ NcmKept => PacketsKept
  BY DEF PacketsKept
<1> QED
  BY <1>1, <1>2, WlanInOrder, WlanOnce, PTL
============================================================================
