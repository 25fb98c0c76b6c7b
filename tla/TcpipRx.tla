------------------------------ MODULE TcpipRx ------------------------------
(***************************************************************************)
(* The receive side of the lwIP thread (lwip_v2.1.2/src/api/tcpip.c):      *)
(* WLAN packets are collected in a batch of preallocated entries that is   *)
(* sealed and posted to tcpip_mbox by its threshold, by a one-shot timer   *)
(* interrupt, or by the thread itself after a full mailbox; USB-NCM        *)
(* packets wait in a FIFO of their own behind one marker at the front of   *)
(* the mailbox.  Critical sections are atomic; input_fn and everything     *)
(* else the thread does between them interleaves with producers and timer. *)
(***************************************************************************)
EXTENDS Integers, Sequences, SequencesExt, FiniteSets

CONSTANTS
  WlanTasks,  \* tasks that indicate WLAN packets
  Nil,        \* TCPIP_RX_STAGE1_INVALID_INDEX, and "no packet"
  PoolSize,   \* TCPIP_RX_STAGE1_POOL_SIZE
  MaxBatch,   \* CONFIG_TCPIP_RX_BATCH_MAX_PACKETS
  NcmSize,    \* TCPIP_NCM_RX_POOL_SIZE
  MboxSize,   \* TCPIP_MBOX_SIZE
  MaxWlan, MaxNcm, MaxOther \* packets and other messages sent (bounds)

Entries == 1 .. PoolSize
Packets == 1 .. MaxWlan

ASSUME SizesAssumption ==
  /\ {PoolSize, MaxBatch, NcmSize, MboxSize} \subseteq Nat \ {0}
  /\ {MaxWlan, MaxNcm, MaxOther} \subseteq Nat
ASSUME BatchAssumption == MaxBatch <= PoolSize
ASSUME NilAssumption == Nil \notin Entries \cup Packets

VARIABLES
  mbox,      \* tcpip_mbox
  available, \* tcpip_rx_timer_probe_available: a timer was found at start
  armed,     \* tcpip_rx_timer_probe_armed: the timer runs
  pool,      \* tcpip_rx_stage1_pool
  free,      \* its free list, first to be taken first
  batch,     \* tcpip_rx_batch_head, _tail and _count
  ncmQueue,  \* tcpip_ncm_rx_pending_head ... _tail: the packets of the list
  ncmFree,   \* entries in the free list of tcpip_ncm_rx_pool
  marker,    \* tcpip_ncm_rx_marker_pending
  falling,   \* the packet each WLAN task is passing on in lwIP's own envelope
  pc,        \* where the thread is
  cur,       \* its locals: entry, entry after it, packets left, packet
  sent,      \* WLAN packets so far (numbers them), NCM packets, other messages
  refused,   \* packets given back to their caller with ERR_MEM
  delivered, \* packets passed to input_fn, in order
  before     \* history: packets accepted before the call of each packet

wlanVars == <<available, armed, pool, free, batch>>
ncmVars == <<ncmQueue, ncmFree, marker>>
callVars == <<falling, sent, refused, before>>
vars == <<mbox, wlanVars, ncmVars, callVars, pc, cur, delivered>>

\* Messages of tcpip_mbox.
Msg(type, arg) == [type |-> type, arg |-> arg]
Marker == Msg("marker", Nil)
Full(q) == Len(q) >= MboxSize

NoBatch == [head |-> Nil, tail |-> Nil, count |-> 0]
Idle == [index |-> Nil, next |-> Nil, left |-> 0, pkt |-> Nil]

Init ==
  /\ mbox = <<>>
  /\ available \in BOOLEAN
  /\ armed = FALSE
  /\ pool = [i \in Entries |-> [pkt |-> Nil, next |-> Nil, queued |-> FALSE, count |-> 0]]
  /\ free = [i \in Entries |-> i]
  /\ batch = NoBatch
  /\ ncmQueue = <<>> /\ ncmFree = NcmSize /\ marker = FALSE
  /\ falling = [w \in WlanTasks |-> Nil]
  /\ pc = "fetch" /\ cur = Idle
  /\ sent = [wlan |-> 0, ncm |-> 0, other |-> 0]
  /\ refused = [wlan |-> {}, ncm |-> {}]
  /\ delivered = [wlan |-> <<>>, ncm |-> <<>>]
  /\ before = [p \in Packets |-> {}]

---------------------------------------------------------------------------
\* The batch.

\* tcpip_rx_batch_post_task_locked, and the same in the timer callback: the
\* batch is sealed and posted, or restored when the mailbox is full.
Posted(b, e, q) ==
  IF b.count = 0
  THEN [batch |-> b, pool |-> e, mbox |-> q]
  ELSE LET sealed == [e EXCEPT ![b.head].count = b.count]
       IN IF Full(q)
          THEN [batch |-> b, pool |-> sealed, mbox |-> q]
          ELSE [batch |-> NoBatch, pool |-> sealed, mbox |-> Append(q, Msg("batch", b.head))]

\* tcpip_inpkt links entry i behind the batch.
Linked(b, e, i) == IF b.tail = Nil THEN e ELSE [e EXCEPT ![b.tail].next = i]
Grown(b, i) ==
  [head |-> IF b.tail = Nil THEN i ELSE b.head, tail |-> i, count |-> b.count + 1]

\* tcpip_rx_stage1_alloc_locked and the fields tcpip_inpkt sets.
Filled(i, p) == [pool EXCEPT ![i].pkt = p, ![i].next = Nil, ![i].queued = TRUE]

Accepted == (1 .. sent.wlan) \ (refused.wlan \cup {falling[w] : w \in WlanTasks})

\* tcpip_inpkt is called with the next WLAN packet.
NextPacket(w) ==
  /\ falling[w] = Nil
  /\ sent.wlan < MaxWlan
  /\ sent' = [sent EXCEPT !.wlan = @ + 1]
  /\ before' = [before EXCEPT ![sent'.wlan] = Accepted]

\* With an entry and a timer the packet joins the batch, which goes out at its
\* threshold; the timer is armed in any case.
Inpkt(w) ==
  /\ NextPacket(w)
  /\ available
  /\ free # <<>>
  /\ LET i == Head(free)
         b == Grown(batch, i)
         e == Linked(batch, Filled(i, sent'.wlan), i)
         r == IF b.count >= MaxBatch THEN Posted(b, e, mbox)
              ELSE [batch |-> b, pool |-> e, mbox |-> mbox]
     IN batch' = r.batch /\ pool' = r.pool /\ mbox' = r.mbox
  /\ free' = Tail(free)
  /\ armed' = TRUE
  /\ UNCHANGED <<available, ncmVars, falling, refused, pc, cur, delivered>>

\* Without a timer every packet is posted alone, or refused.
InpktAlone(w) ==
  /\ NextPacket(w)
  /\ ~available
  /\ free # <<>>
  /\ IF Full(mbox)
     THEN /\ refused' = [refused EXCEPT !.wlan = @ \cup {sent'.wlan}]
          /\ pool' = [Filled(Head(free), sent'.wlan) EXCEPT ![Head(free)].queued = FALSE]
          /\ UNCHANGED <<mbox, free>>
     ELSE /\ mbox' = Append(mbox, Msg("entry", Head(free)))
          /\ pool' = Filled(Head(free), sent'.wlan)
          /\ free' = Tail(free)
          /\ UNCHANGED refused
  /\ UNCHANGED <<available, armed, batch, ncmVars, falling, pc, cur, delivered>>

\* Mutant: the packets collected so far stay behind.
InpktExhaustedOvertaking(w) ==
  /\ NextPacket(w)
  /\ free = <<>>
  /\ falling' = [falling EXCEPT ![w] = sent'.wlan]
  /\ UNCHANGED <<mbox, wlanVars, ncmVars, refused, pc, cur, delivered>>

\* Without an entry the older batch goes out first, or the packet is refused.
InpktExhausted(w) ==
  /\ NextPacket(w)
  /\ free = <<>>
  /\ LET r == Posted(batch, pool, mbox)
     IN batch' = r.batch /\ pool' = r.pool /\ mbox' = r.mbox
  /\ IF batch'.count # 0
     THEN refused' = [refused EXCEPT !.wlan = @ \cup {sent'.wlan}] /\ UNCHANGED falling
     ELSE falling' = [falling EXCEPT ![w] = sent'.wlan] /\ UNCHANGED refused
  /\ UNCHANGED <<available, armed, free, ncmVars, pc, cur, delivered>>

\* Outside the critical section: lwIP's own envelope, when there is one and
\* the mailbox has room.
Envelope(w) ==
  /\ falling[w] # Nil
  /\ \/ ~Full(mbox) /\ mbox' = Append(mbox, Msg("packet", falling[w])) /\ UNCHANGED refused
     \/ refused' = [refused EXCEPT !.wlan = @ \cup {falling[w]}] /\ UNCHANGED mbox
  /\ falling' = [falling EXCEPT ![w] = Nil]
  /\ UNCHANGED <<wlanVars, ncmVars, sent, before, pc, cur, delivered>>

\* tcpip_rx_timer_probe_callback, in the timer interrupt.
TimerFires ==
  /\ armed
  /\ armed' = FALSE
  /\ LET r == Posted(batch, pool, mbox)
     IN batch' = r.batch /\ pool' = r.pool /\ mbox' = r.mbox
  /\ UNCHANGED <<available, free, ncmVars, callVars, pc, cur, delivered>>

---------------------------------------------------------------------------
\* USB-NCM, and everybody else.

NextNcm == sent.ncm < MaxNcm /\ sent' = [sent EXCEPT !.ncm = @ + 1]

\* tcpip_ncm_rx_enqueue: with no marker in flight one is posted at the front;
\* if that fails the whole list is emptied again.
NcmEnqueue ==
  /\ NextNcm
  /\ ncmFree > 0
  /\ IF ~marker /\ Full(mbox)
     THEN /\ ncmQueue' = <<>>
          /\ refused' = [refused EXCEPT !.ncm = @ \cup {sent'.ncm}]
          /\ UNCHANGED <<ncmFree, marker, mbox>>
     ELSE /\ ncmQueue' = Append(ncmQueue, sent'.ncm)
          /\ ncmFree' = ncmFree - 1
          /\ marker' = TRUE
          /\ mbox' = IF marker THEN mbox ELSE <<Marker>> \o mbox
          /\ UNCHANGED refused
  /\ UNCHANGED <<wlanVars, falling, before, pc, cur, delivered>>

\* No entry: ERR_MEM.
NcmRefused ==
  /\ NextNcm
  /\ ncmFree = 0
  /\ refused' = [refused EXCEPT !.ncm = @ \cup {sent'.ncm}]
  /\ UNCHANGED <<mbox, wlanVars, ncmVars, falling, before, pc, cur, delivered>>

\* Another task posts an API message.
Other ==
  /\ sent.other < MaxOther
  /\ ~Full(mbox)
  /\ sent' = [sent EXCEPT !.other = @ + 1]
  /\ mbox' = Append(mbox, Msg("api", Nil))
  /\ UNCHANGED <<wlanVars, ncmVars, falling, refused, before, pc, cur, delivered>>

---------------------------------------------------------------------------
\* The thread.

Fetch ==
  /\ pc = "fetch"
  /\ mbox # <<>>
  /\ mbox' = Tail(mbox)
  /\ LET m == Head(mbox)
     IN CASE m.type = "packet" -> pc' = "packet" /\ cur' = [Idle EXCEPT !.pkt = m.arg]
          [] m.type = "entry" -> pc' = "entries" /\ cur' = [Idle EXCEPT !.index = m.arg, !.left = 1]
          [] OTHER -> pc' = m.type /\ cur' = [Idle EXCEPT !.index = m.arg]
  /\ UNCHANGED <<wlanVars, ncmVars, callVars, delivered>>

Api == pc = "api" /\ pc' = "retry" /\ UNCHANGED <<mbox, wlanVars, ncmVars, callVars, cur, delivered>>

\* A packet in lwIP's envelope.
Packet ==
  /\ pc = "packet"
  /\ delivered' = [delivered EXCEPT !.wlan = Append(@, cur.pkt)]
  /\ pc' = "retry"
  /\ UNCHANGED <<mbox, wlanVars, ncmVars, callVars, cur>>

\* Mutant: a batch longer than the threshold is rejected.
OpenShort ==
  /\ pc = "batch"
  /\ cur' = [cur EXCEPT !.left = pool[cur.index].count]
  /\ pc' = IF cur'.left \in 1 .. MaxBatch THEN "entries" ELSE "retry"
  /\ UNCHANGED <<mbox, wlanVars, ncmVars, callVars, delivered>>

\* TCPIP_MSG_INPKT_BATCH reads the length; only an impossible one is rejected.
Open ==
  /\ pc = "batch"
  /\ cur' = [cur EXCEPT !.left = pool[cur.index].count]
  /\ pc' = IF cur'.left \in 1 .. PoolSize THEN "entries" ELSE "retry"
  /\ UNCHANGED <<mbox, wlanVars, ncmVars, callVars, delivered>>

\* The thread goes on with a queued entry while packets are left.
EntryLeft == cur.index # Nil /\ cur.left > 0 /\ pool[cur.index].queued

\* The fields of an entry are read before input_fn ...
EntryInput ==
  /\ pc = "entries"
  /\ EntryLeft
  /\ cur' = [cur EXCEPT !.next = pool[cur.index].next]
  /\ delivered' = [delivered EXCEPT !.wlan = Append(@, pool[cur.index].pkt)]
  /\ pc' = "release"
  /\ UNCHANGED <<mbox, wlanVars, ncmVars, callVars>>

\* ... and the entry goes back to the free list after it.
EntryRelease ==
  /\ pc = "release"
  /\ pool' = [pool EXCEPT ![cur.index].queued = FALSE]
  /\ free' = <<cur.index>> \o free
  /\ cur' = [cur EXCEPT !.index = cur.next, !.left = @ - 1]
  /\ pc' = "entries"
  /\ UNCHANGED <<mbox, available, armed, batch, ncmVars, callVars, delivered>>

\* The end of the batch, or an entry the assertions of the thread do not expect.
EntriesDone ==
  /\ pc = "entries"
  /\ ~EntryLeft
  /\ pc' = "retry"
  /\ UNCHANGED <<mbox, wlanVars, ncmVars, callVars, cur, delivered>>

\* Mutant: the entry is free as soon as its packet is taken.
NcmTakeFreeing ==
  /\ pc = "marker"
  /\ IF ncmQueue = <<>>
     THEN marker' = FALSE /\ pc' = "retry" /\ UNCHANGED <<ncmQueue, ncmFree, cur>>
     ELSE /\ cur' = [cur EXCEPT !.pkt = Head(ncmQueue)]
          /\ ncmQueue' = Tail(ncmQueue)
          /\ ncmFree' = ncmFree + 1
          /\ pc' = "ncmInput"
          /\ UNCHANGED marker
  /\ UNCHANGED <<mbox, wlanVars, callVars, delivered>>

\* tcpip_ncm_rx_drain takes the first packet, or finds none and ends.
NcmTake ==
  /\ pc = "marker"
  /\ IF ncmQueue = <<>>
     THEN marker' = FALSE /\ pc' = "retry" /\ UNCHANGED <<ncmQueue, cur>>
     ELSE /\ cur' = [cur EXCEPT !.pkt = Head(ncmQueue)]
          /\ ncmQueue' = Tail(ncmQueue)
          /\ pc' = "ncmInput"
          /\ UNCHANGED marker
  /\ UNCHANGED <<mbox, wlanVars, ncmFree, callVars, delivered>>

NcmInput ==
  /\ pc = "ncmInput"
  /\ delivered' = [delivered EXCEPT !.ncm = Append(@, cur.pkt)]
  /\ pc' = "ncmFree"
  /\ UNCHANGED <<mbox, wlanVars, ncmVars, callVars, cur>>

NcmFree ==
  /\ pc = "ncmFree"
  /\ ncmFree' = ncmFree + 1
  /\ pc' = "marker"
  /\ UNCHANGED <<mbox, wlanVars, ncmQueue, marker, callVars, cur, delivered>>

\* Mutant: a batch that found the mailbox full waits for new packets.
RetryNever ==
  /\ pc = "retry"
  /\ pc' = "fetch"
  /\ cur' = Idle
  /\ UNCHANGED <<mbox, wlanVars, ncmVars, callVars, delivered>>

\* After every message: a batch that no timer will post is posted.
Retry ==
  /\ pc = "retry"
  /\ LET r == Posted(batch, pool, mbox)
     IN IF armed THEN UNCHANGED <<batch, pool, mbox>>
        ELSE batch' = r.batch /\ pool' = r.pool /\ mbox' = r.mbox
  /\ pc' = "fetch"
  /\ cur' = Idle
  /\ UNCHANGED <<available, armed, free, ncmVars, callVars, delivered>>

Thread ==
  \/ Fetch \/ Api \/ Packet \/ Open \/ EntryInput \/ EntryRelease \/ EntriesDone
  \/ NcmTake \/ NcmInput \/ NcmFree \/ Retry

Producer(w) == Inpkt(w) \/ InpktAlone(w) \/ InpktExhausted(w) \/ Envelope(w)

Next == Thread \/ TimerFires \/ NcmEnqueue \/ NcmRefused \/ Other \/ \E w \in WlanTasks : Producer(w)

Spec == Init /\ [][Next]_vars

\* The thread is scheduled and the timer it armed fires.  Producers owe nothing.
FairSpec == Spec /\ WF_vars(Thread) /\ WF_vars(TimerFires)

---------------------------------------------------------------------------
TypeOK ==
  /\ mbox \in Seq([type : {"batch", "entry", "packet", "marker", "api"}, arg : Entries \cup Packets \cup {Nil}])
  /\ Len(mbox) <= MboxSize
  /\ available \in BOOLEAN /\ armed \in BOOLEAN /\ marker \in BOOLEAN
  /\ pool \in [Entries -> [pkt : Packets \cup {Nil}, next : Entries \cup {Nil},
                           queued : BOOLEAN, count : 0 .. PoolSize]]
  /\ free \in Seq(Entries)
  /\ batch \in [head : Entries \cup {Nil}, tail : Entries \cup {Nil}, count : 0 .. PoolSize]
  /\ ncmQueue \in Seq(1 .. MaxNcm) /\ ncmFree \in 0 .. NcmSize
  /\ falling \in [WlanTasks -> Packets \cup {Nil}]
  /\ pc \in {"fetch", "api", "packet", "batch", "entries", "release",
             "marker", "ncmInput", "ncmFree", "retry"}
  /\ cur \in [index : Entries \cup {Nil}, next : Entries \cup {Nil}, left : 0 .. PoolSize,
              pkt : Packets \cup (1 .. MaxNcm) \cup {Nil}]
  /\ sent \in [wlan : 0 .. MaxWlan, ncm : 0 .. MaxNcm, other : 0 .. MaxOther]
  /\ refused \in [wlan : SUBSET Packets, ncm : SUBSET (1 .. MaxNcm)]
  /\ delivered \in [wlan : Seq(Packets), ncm : Seq(1 .. MaxNcm)]
  /\ before \in [Packets -> SUBSET Packets]

\* The entries that hang on a link: first, length, and what follows the last.
Chain(first, n) ==
  LET at[k \in 1 .. n] ==
        IF k = 1 THEN first ELSE IF at[k - 1] = Nil THEN Nil ELSE pool[at[k - 1]].next
  IN at
Ends(chain) == chain # <<>> => Nil \notin ToSet(chain) /\ pool[Last(chain)].next = Nil

ChainOf(m) == CASE m.type = "batch" -> Chain(m.arg, pool[m.arg].count)
              [] m.type = "entry" -> <<m.arg>>
              [] OTHER -> <<>>
MboxChains == [k \in DOMAIN mbox |-> ChainOf(mbox[k])]
ThreadChain ==
  CASE pc = "batch" -> Chain(cur.index, pool[cur.index].count)
    [] pc = "entries" -> Chain(cur.index, cur.left)
    [] pc = "release" -> Chain(cur.next, cur.left - 1)
    [] OTHER -> <<>>
BatchChain == Chain(batch.head, batch.count)
Waiting == BatchChain \o FlattenSeq(MboxChains) \o ThreadChain
Released == free \o (IF pc = "release" THEN <<cur.index>> ELSE <<>>)

\* Every entry of the pool is in one list, once, and every list has the length
\* it was sealed with: no entry of a posted batch is linked to, reused or lost,
\* however task, timer and thread interleave (the assertions of the thread,
\* tcpip.c:791, 827, 859).
EntriesOwned ==
  /\ Ends(BatchChain) /\ Ends(ThreadChain) /\ \A k \in DOMAIN mbox : Ends(MboxChains[k])
  /\ batch.count > 0 => Last(BatchChain) = batch.tail
  /\ Len(Waiting \o Released) = PoolSize
  /\ ToSet(Waiting \o Released) = Entries

Enveloped == {mbox[k].arg : k \in {j \in DOMAIN mbox : mbox[j].type = "packet"}}

\* A packet tcpip_inpkt has accepted waits in exactly one place until input_fn
\* has it, exactly once, and one it refused is never passed on (its caller frees
\* it): "Those pbufs have already been accepted" (tcpip.c:984-985).
WlanKept ==
  LET waiting == {pool[i].pkt : i \in ToSet(Waiting)} \cup Enveloped
                   \cup (IF pc = "packet" THEN {cur.pkt} ELSE {})
  IN /\ waiting \cup ToSet(delivered.wlan) = Accepted
     /\ Cardinality(waiting) + Len(delivered.wlan) = Cardinality(Accepted)

\* A WLAN packet never overtakes one that was accepted before its own call, also
\* when the pool is exhausted: "Preserve FIFO order if the fixed entry pool is
\* ever exhausted" (tcpip.c:1142-1143).
WlanFifo ==
  \A k \in DOMAIN delivered.wlan :
    before[delivered.wlan[k]] \subseteq {delivered.wlan[j] : j \in 1 .. k - 1}

\* The NCM packets in the order in which they arrived: passed on, in hand, listed.
NcmRow == delivered.ncm \o (IF pc = "ncmInput" THEN <<cur.pkt>> ELSE <<>>) \o ncmQueue

\* The marker is in the mailbox or being served exactly while it is said to be
\* pending, never twice, and the list is empty without it: so the failure path,
\* which empties the list, loses nothing, and NCM packets are delivered once, all
\* that were accepted, in order ("prioritizes RX without reversing a burst",
\* application.is.mk:1860-1861).
NcmKept ==
  LET markers == Cardinality({k \in DOMAIN mbox : mbox[k] = Marker})
      draining == pc \in {"marker", "ncmInput", "ncmFree"}
  IN /\ markers + (IF draining THEN 1 ELSE 0) = (IF marker THEN 1 ELSE 0)
     /\ \A i, j \in DOMAIN NcmRow : i < j => NcmRow[i] < NcmRow[j]
     /\ ToSet(NcmRow) = (1 .. sent.ncm) \ refused.ncm

\* Whatever way it came and however long it had to wait, an accepted packet is
\* passed on once and in its turn.
PacketsKept == WlanKept /\ WlanFifo /\ NcmKept

\* Every accepted packet is delivered, also when the timer found the mailbox full
\* and nothing is received any more: "so recovery does not require new RX"
\* (tcpip.c:986).
AcceptedDelivered ==
  /\ \A p \in Packets : p \in Accepted ~> p \in ToSet(delivered.wlan)
  /\ \A n \in 1 .. MaxNcm :
       (n <= sent.ncm /\ n \notin refused.ncm) ~> n \in ToSet(delivered.ncm)
===========================================================================
