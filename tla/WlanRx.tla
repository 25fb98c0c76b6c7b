------------------------------- MODULE WlanRx -------------------------------
(***************************************************************************)
(* Ownership of WLAN receive buffers, from the descriptor the hardware     *)
(* writes to the pbuf the application reads:                               *)
(*   - rtl8195b_recv_tasklet with the descriptor manager wlan_rx_dma_mgr.c *)
(*     swaps a fresh buffer into each completed descriptor;                *)
(*   - freertos_skbuff_recovered.c counts references of shared buffers;    *)
(*   - ethernetif_recv wraps a clone of the buffer in a custom pbuf;       *)
(*   - wifi_off closes the zero-copy gate and waits for the pbufs before   *)
(*     the driver frees its buffers, wifi_on rebuilds the pools.           *)
(*                                                                         *)
(* The closed driver between rtw_recv_entry and netif_rx is external: it   *)
(* may keep a frame, reorder frames, deliver them on either interface at   *)
(* once, or drop them, and it stops all of that before it frees the ring.  *)
(* The payload itself and the data cache are left out.  skb descriptors    *)
(* and heap are shared with transmit, so any allocation may fail.          *)
(***************************************************************************)
EXTENDS Integers, FiniteSets

CONSTANTS
  RingSize,       \* descriptors of the receive ring
  NumHeap,        \* heap blocks of ring size
  NumPool,        \* max_skb_buf_num
  NumWrappers,    \* WLAN_RX_ZERO_COPY_POOL_SIZE
  Ifaces,         \* WLAN0, WLAN1
  MaxFrames,      \* receive frames of the driver
  LargeMulticast  \* frames of MIN_LEN or more may be copied to the buddy

ASSUME RingAssumption == RingSize \in Nat \ {0, 1}
ASSUME PoolAssumption == /\ NumHeap \in Nat
                         /\ NumPool \in Nat
                         /\ NumWrappers \in Nat
ASSUME FramesAssumption == MaxFrames \in Nat
ASSUME MulticastAssumption == LargeMulticast \in BOOLEAN
ASSUME IfacesAssumption == IsFiniteSet(Ifaces)

Slots    == 0..(RingSize - 1)
Heap     == 1..NumHeap
Pool     == (NumHeap + 1)..(NumHeap + NumPool)
Bufs     == Heap \cup Pool
Wrappers == 1..NumWrappers

\* No buffer; in a descriptor, the buffer the vendor driver put there, which
\* is never freed while the ring exists.
None == 0

\* skb.dyalloc_flag
PoolFlag == 0
HeapFlag == 1
DmaFlag  == 2

Skbs  == [buf : Bufs, flag : PoolFlag..DmaFlag]
NoSkb == [buf |-> None, flag |-> PoolFlag]

VARIABLES
  live,        \* [b] the block is allocated
  refs,        \* [b] reference word of the block, at head + 1668

  desc,        \* [s] buffer address in the descriptor and its shadow
  slotSkb,     \* [s] buffer the descriptor manager owns for the slot
  orig,        \* [s] original_base, put back by wlan_rx_dma_deinit
  index,       \* descriptor the driver looks at next
  pending,     \* descriptors the hardware has completed

  rxPc,        \* where rtl8195b_recv_tasklet is
  base,        \* completed_base of the descriptor it handles
  zeroCopy,    \* wlan_rx_dma_rotate returned ZERO_COPY, base is its packet
  rxFrame,     \* the frame it builds

  held,        \* [i] frames the driver keeps for interface i
  cur,         \* [i] skb of interface i inside ethernetif_recv
  zpc,         \* [i] where ethernetif_recv is
  wr,          \* [i] wrapper it has reserved
  testSkb,     \* [i] clone of the running self-test

  used,        \* wrappers marked in g_wlan_rx_zc_used
  clone,       \* [w] rx_ref of the wrapper
  outstanding, \* g_wlan_rx_zc_stats.outstanding
  selftest,    \* 0 not run, 1 passed, 2 failed, 3 running
  quiesced,    \* the zero-copy gate is closed

  mpc,         \* where wifi_off and wifi_on are
  sampled      \* last value of outstanding the drain loop has read

bufVars  == <<live, refs>>
ringVars == <<desc, slotSkb, orig, index, pending>>
rxVars   == <<rxPc, base, zeroCopy, rxFrame>>
netVars  == <<held, cur, zpc, wr, testSkb>>
wrapVars == <<used, clone, outstanding, selftest>>
mgrVars  == <<quiesced, mpc, sampled>>
vars     == <<bufVars, ringVars, rxVars, netVars, wrapVars, mgrVars>>

RxPCs  == {"idle", "rotate", "bind", "route", "rearm"}
NetPCs == {"idle", "reserve", "check", "selftest", "testfree", "verdict",
           "acquire", "unreserve", "release"}
MgrPCs == {"on", "drain", "stopping", "off", "starting"}

TypeOK ==
  /\ live \in [Bufs -> BOOLEAN]
  /\ refs \in [Bufs -> Nat]
  /\ desc \in [Slots -> Bufs \cup {None}]
  /\ slotSkb \in [Slots -> Bufs \cup {None}]
  /\ orig \in [Slots -> Bufs \cup {None}]
  /\ index \in Slots /\ pending \in Slots
  /\ rxPc \in RxPCs
  /\ base \in Bufs \cup {None}
  /\ zeroCopy \in BOOLEAN
  /\ rxFrame \in Skbs \cup {NoSkb}
  /\ held \in [Ifaces -> SUBSET Skbs]
  /\ cur \in [Ifaces -> Skbs \cup {NoSkb}]
  /\ zpc \in [Ifaces -> NetPCs]
  /\ wr \in [Ifaces -> Wrappers \cup {None}]
  /\ testSkb \in [Ifaces -> Skbs \cup {NoSkb}]
  /\ used \in SUBSET Wrappers
  /\ clone \in [Wrappers -> Skbs \cup {NoSkb}]
  /\ outstanding \in Nat
  /\ selftest \in 0..3
  /\ quiesced \in BOOLEAN
  /\ mpc \in MgrPCs
  /\ sampled \in Nat

Init ==
  /\ live = [b \in Bufs |-> FALSE]
  /\ refs = [b \in Bufs |-> 0]
  /\ desc = [s \in Slots |-> None]
  /\ slotSkb = [s \in Slots |-> None]
  /\ orig = [s \in Slots |-> None]
  /\ index = 0 /\ pending = 0
  /\ rxPc = "idle" /\ base = None /\ zeroCopy = FALSE /\ rxFrame = NoSkb
  /\ held = [i \in Ifaces |-> {}]
  /\ cur = [i \in Ifaces |-> NoSkb]
  /\ zpc = [i \in Ifaces |-> "idle"]
  /\ wr = [i \in Ifaces |-> None]
  /\ testSkb = [i \in Ifaces |-> NoSkb]
  /\ used = {} /\ clone = [w \in Wrappers |-> NoSkb]
  /\ outstanding = 0 /\ selftest = 0 /\ quiesced = FALSE
  /\ mpc = "on" /\ sampled = 0

-----------------------------------------------------------------------------
(* skbs.  Which free block an allocator hands out does not matter: the     *)
(* lowest stands for all of them.                                          *)

FreeIn(S) == {b \in S : ~live[b]}
IsNext(b, S) == b \in FreeIn(S) /\ \A c \in FreeIn(S) : b <= c

\* alloc_skb: the reference word of a new block is 1.
Alloc(b) ==
  /\ live' = [live EXCEPT ![b] = TRUE]
  /\ refs' = [refs EXCEPT ![b] = 1]

\* Mutation: a DMA block is freed with the first of its references.
KfreeIgnoringShared(s) ==
  LET kept == live[s.buf] /\ s.flag = PoolFlag /\ refs[s.buf] > 1 IN
  /\ live' = [live EXCEPT ![s.buf] = kept]
  /\ refs' = [refs EXCEPT ![s.buf] = IF kept THEN @ - 1 ELSE 0]

\* kfree_skb: an ordinary heap block goes at once, any other with its last
\* reference.  The word of a free block means nothing: it is set to 0.
Kfree(s) ==
  LET kept == live[s.buf] /\ s.flag # HeapFlag /\ refs[s.buf] > 1 IN
  /\ live' = [live EXCEPT ![s.buf] = kept]
  /\ refs' = [refs EXCEPT ![s.buf] = IF kept THEN @ - 1 ELSE 0]

\* skb_clone: one reference more, and only the DMA flag is inherited.
RefAdded(r, s) == [r EXCEPT ![s.buf] = @ + 1]
CloneOf(s) ==
  [buf |-> s.buf, flag |-> IF s.flag = DmaFlag THEN DmaFlag ELSE PoolFlag]

-----------------------------------------------------------------------------
(* The ring.  The hardware owns every descriptor outside the window of     *)
(* completed ones and writes into the buffer the descriptor names.         *)

Done == {(index + k) % RingSize : k \in 0..(pending - 1)}
Armed(s) == mpc # "off" /\ s \notin Done

\* The hardware completes a descriptor; one stays empty.
HwReceive ==
  /\ mpc # "off"
  /\ pending < RingSize - 1
  /\ pending' = pending + 1
  /\ UNCHANGED <<bufVars, desc, slotSkb, orig, index, rxVars, netVars,
                 wrapVars, mgrVars>>

RxGoto(label) == rxPc' = label

FramesUsed ==
  Cardinality(UNION {held[i] : i \in Ifaces})
    + Cardinality({i \in Ifaces : cur[i] # NoSkb})

\* A completed descriptor is invalidated and its frame parsed; without a
\* receive frame, or with a bad length or CRC, it is rearmed as it is.
RxStart ==
  /\ mpc # "off" /\ rxPc = "idle" /\ pending > 0
  /\ base' = desc[index]
  /\ \/ FramesUsed < MaxFrames /\ RxGoto("rotate")
     \/ RxGoto("rearm")
  /\ UNCHANGED <<bufVars, ringVars, zeroCopy, rxFrame, netVars, wrapVars,
                 mgrVars>>

\* Mutation: the new block is published only when the slot is adopted.
RotateUnpublished ==
  /\ rxPc = "rotate"
  /\ \/ UNCHANGED <<bufVars, desc, slotSkb, orig, base, zeroCopy>>
     \/ \E b \in Heap :
          /\ IsNext(b, Heap) /\ Alloc(b)
          /\ slotSkb' = [slotSkb EXCEPT ![index] = b]
          /\ IF slotSkb[index] = None
               THEN /\ orig' = [orig EXCEPT ![index] = desc[index]]
                    /\ desc' = [desc EXCEPT ![index] = b]
                    /\ UNCHANGED <<base, zeroCopy>>
               ELSE /\ base' = slotSkb[index] /\ zeroCopy' = TRUE
                    /\ UNCHANGED <<orig, desc>>
  /\ RxGoto("bind")
  /\ UNCHANGED <<index, pending, rxFrame, netVars, wrapVars, mgrVars>>

\* wlan_rx_dma_rotate with wlan_rx_dma_publish: the slot takes a fresh block
\* and the descriptor its address; the first visit adopts the slot and leaves
\* the frame to the copy, as does a failed allocation.  Slot, descriptor and
\* shadow never disagree, so the defensive comparisons do not fire.
Rotate ==
  /\ rxPc = "rotate"
  /\ \/ UNCHANGED <<bufVars, desc, slotSkb, orig, base, zeroCopy>>
     \/ \E b \in Heap :
          /\ IsNext(b, Heap) /\ Alloc(b)
          /\ slotSkb' = [slotSkb EXCEPT ![index] = b]
          /\ desc' = [desc EXCEPT ![index] = b]
          /\ IF slotSkb[index] = None
               THEN /\ orig' = [orig EXCEPT ![index] = desc[index]]
                    /\ UNCHANGED <<base, zeroCopy>>
               ELSE /\ base' = slotSkb[index] /\ zeroCopy' = TRUE
                    /\ UNCHANGED orig
  /\ RxGoto("bind")
  /\ UNCHANGED <<index, pending, rxFrame, netVars, wrapVars, mgrVars>>

\* Mutation: without a pool buffer the descriptor is left for another try.
BindRetrying ==
  /\ rxPc = "bind"
  /\ \/ /\ zeroCopy
        /\ rxFrame' = [buf |-> base, flag |-> DmaFlag]
        /\ RxGoto("route")
        /\ UNCHANGED bufVars
     \/ /\ ~zeroCopy
        /\ \E b \in Pool :
             /\ IsNext(b, Pool) /\ Alloc(b)
             /\ rxFrame' = [buf |-> b, flag |-> PoolFlag]
        /\ RxGoto("route")
     \/ /\ ~zeroCopy
        /\ RxGoto("idle")
        /\ UNCHANGED <<bufVars, rxFrame>>
  /\ UNCHANGED <<ringVars, base, zeroCopy, netVars, wrapVars, mgrVars>>

\* The frame gets the completed buffer, or a copy in a pool buffer; without
\* one it is dropped.
Bind ==
  /\ rxPc = "bind"
  /\ \/ /\ zeroCopy
        /\ rxFrame' = [buf |-> base, flag |-> DmaFlag]
        /\ RxGoto("route")
        /\ UNCHANGED bufVars
     \/ /\ ~zeroCopy
        /\ \E b \in Pool :
             /\ IsNext(b, Pool) /\ Alloc(b)
             /\ rxFrame' = [buf |-> b, flag |-> PoolFlag]
        /\ RxGoto("route")
     \/ /\ ~zeroCopy
        /\ RxGoto("rearm")
        /\ UNCHANGED <<bufVars, rxFrame>>
  /\ UNCHANGED <<ringVars, base, zeroCopy, netVars, wrapVars, mgrVars>>

\* Not a data packet, or no frame or skb for the buddy's copy: released.
RouteRelease ==
  /\ rxPc = "route"
  /\ Kfree(rxFrame)
  /\ rxFrame' = NoSkb
  /\ RxGoto("rearm")
  /\ UNCHANGED <<ringVars, base, zeroCopy, netVars, wrapVars, mgrVars>>

\* rtw_recv_entry for one interface.
RouteUnicast(i) ==
  /\ rxPc = "route"
  /\ held' = [held EXCEPT ![i] = @ \cup {rxFrame}]
  /\ rxFrame' = NoSkb
  /\ RxGoto("rearm")
  /\ UNCHANGED <<bufVars, ringVars, base, zeroCopy, cur, zpc, wr, testSkb,
                 wrapVars, mgrVars>>

\* recvframe_process_buddy: the buddy gets a copy of a multicast frame.  The
\* copy reserves another packet length, so a long one is an ordinary heap skb.
RouteMulticast(i, j) ==
  /\ rxPc = "route" /\ i # j
  /\ FramesUsed + 1 < MaxFrames
  /\ \E copy \in [buf : Heap, flag : {HeapFlag}] \cup [buf : Pool, flag : {PoolFlag}] :
       /\ IsNext(copy.buf, IF copy.flag = HeapFlag THEN Heap ELSE Pool)
       /\ Alloc(copy.buf)
       /\ held' = [held EXCEPT ![i] = @ \cup {rxFrame}, ![j] = @ \cup {copy}]
  /\ rxFrame' = NoSkb
  /\ RxGoto("rearm")
  /\ UNCHANGED <<ringVars, base, zeroCopy, cur, zpc, wr, testSkb, wrapVars,
                 mgrVars>>

\* Mutation: the index does not wrap.
RearmUnwrapped ==
  /\ rxPc = "rearm"
  /\ index' = index + 1
  /\ pending' = pending - 1
  /\ base' = None /\ zeroCopy' = FALSE
  /\ RxGoto("idle")
  /\ UNCHANGED <<bufVars, desc, slotSkb, orig, rxFrame, netVars, wrapVars,
                 mgrVars>>

\* The descriptor goes back to the hardware.
Rearm ==
  /\ rxPc = "rearm"
  /\ index' = (index + 1) % RingSize
  /\ pending' = pending - 1
  /\ base' = None /\ zeroCopy' = FALSE
  /\ RxGoto("idle")
  /\ UNCHANGED <<bufVars, desc, slotSkb, orig, rxFrame, netVars, wrapVars,
                 mgrVars>>

-----------------------------------------------------------------------------
(* ethernetif_recv on interface i, called by the driver with one skb.      *)

ZGoto(i, label) == zpc' = [zpc EXCEPT ![i] = label]

\* The driver discards a frame it holds.
DriverDrop(i) ==
  /\ \E f \in held[i] : /\ held' = [held EXCEPT ![i] = @ \ {f}]
                        /\ Kfree(f)
  /\ UNCHANGED <<ringVars, rxVars, cur, zpc, wr, testSkb, wrapVars, mgrVars>>

\* The driver delivers a frame it holds; one shorter than MIN_LEN is only
\* copied.  A multicast copy that is in the heap need not be that long.
Deliver(i) ==
  /\ mpc # "off" /\ zpc[i] = "idle"
  /\ \E f \in held[i], label \in {"reserve", "release"} :
       /\ label = "reserve" /\ f.flag = HeapFlag => LargeMulticast
       /\ held' = [held EXCEPT ![i] = @ \ {f}]
       /\ cur' = [cur EXCEPT ![i] = f]
       /\ ZGoto(i, label)
  /\ UNCHANGED <<bufVars, ringVars, rxVars, wr, testSkb, wrapVars, mgrVars>>

\* Mutation: the gate is not tested under the lock.
ReserveIgnoringGate(i) ==
  /\ zpc[i] = "reserve"
  /\ IF used = Wrappers
       THEN ZGoto(i, "release") /\ UNCHANGED <<wr, used, outstanding>>
       ELSE \E w \in Wrappers \ used :
              /\ \A x \in Wrappers \ used : w <= x
              /\ wr' = [wr EXCEPT ![i] = w]
              /\ used' = used \cup {w}
              /\ outstanding' = outstanding + 1
              /\ ZGoto(i, "check")
  /\ UNCHANGED <<bufVars, ringVars, rxVars, held, cur, testSkb, clone,
                 selftest, mgrVars>>

\* wlan_rx_zc_wrapper_alloc: the first free wrapper, unless the gate is closed.
\* A failed self-test, which is final, is noticed before that.
Reserve(i) ==
  /\ zpc[i] = "reserve"
  /\ IF selftest = 2 \/ quiesced \/ used = Wrappers
       THEN ZGoto(i, "release") /\ UNCHANGED <<wr, used, outstanding>>
       ELSE \E w \in Wrappers \ used :
              /\ \A x \in Wrappers \ used : w <= x
              /\ wr' = [wr EXCEPT ![i] = w]
              /\ used' = used \cup {w}
              /\ outstanding' = outstanding + 1
              /\ ZGoto(i, "check")
  /\ UNCHANGED <<bufVars, ringVars, rxVars, held, cur, testSkb, clone,
                 selftest, mgrVars>>

\* Mutation: a frame that meets a running self-test goes on.
CheckIgnoringRunning(i) ==
  /\ zpc[i] = "check"
  /\ selftest' = IF selftest = 0 THEN 3 ELSE selftest
  /\ ZGoto(i, CASE selftest = 0 -> "selftest"
                [] selftest \in {1, 3} -> "acquire"
                [] selftest = 2 -> "unreserve")
  /\ UNCHANGED <<bufVars, ringVars, rxVars, held, cur, wr, testSkb, used,
                 clone, outstanding, mgrVars>>

\* The first frame runs the self-test; one that meets it running is copied.
Check(i) ==
  /\ zpc[i] = "check"
  /\ selftest' = IF selftest = 0 THEN 3 ELSE selftest
  /\ ZGoto(i, CASE selftest = 0 -> "selftest"
                [] selftest = 1 -> "acquire"
                [] selftest \in {2, 3} -> "unreserve")
  /\ UNCHANGED <<bufVars, ringVars, rxVars, held, cur, wr, testSkb, used,
                 clone, outstanding, mgrVars>>

\* rltk_wlan_rx_ref_selftest: a pool skb and a clone of it; without an skb the
\* test is left for a later frame.
SelfTest(i) ==
  /\ zpc[i] = "selftest"
  /\ \/ \E b \in Pool :
          LET s == [buf |-> b, flag |-> PoolFlag] IN
          /\ IsNext(b, Pool)
          /\ live' = [live EXCEPT ![b] = TRUE]
          /\ refs' = RefAdded([refs EXCEPT ![b] = 1], s)
          /\ testSkb' = [testSkb EXCEPT ![i] = CloneOf(s)]
          /\ ZGoto(i, "testfree")
          /\ UNCHANGED selftest
     \/ /\ selftest' = 0
        /\ ZGoto(i, "unreserve")
        /\ UNCHANGED <<bufVars, testSkb>>
  /\ UNCHANGED <<ringVars, rxVars, held, cur, wr, used, clone, outstanding,
                 mgrVars>>

\* The original is freed, before the clone is looked at.
TestFree(i) ==
  /\ zpc[i] = "testfree"
  /\ Kfree([buf |-> testSkb[i].buf, flag |-> PoolFlag])
  /\ ZGoto(i, "verdict")
  /\ UNCHANGED <<ringVars, rxVars, held, cur, wr, testSkb, wrapVars, mgrVars>>

\* The clone still reads what the original held if its block was kept; a freed
\* block may read either way.
Verdict(i) ==
  /\ zpc[i] = "verdict"
  /\ \/ selftest' = 1 /\ ZGoto(i, "acquire")
     \/ /\ ~live[testSkb[i].buf]
        /\ selftest' = 2
        /\ ZGoto(i, "unreserve")
  /\ Kfree(testSkb[i])
  /\ testSkb' = [testSkb EXCEPT ![i] = NoSkb]
  /\ UNCHANGED <<ringVars, rxVars, held, cur, wr, used, clone, outstanding,
                 mgrVars>>

\* rltk_wlan_rx_ref_acquire, pbuf_alloced_custom and netif->input: the pbuf
\* keeps a clone and is the stack's, or freed here when the stack refuses it.
Acquire(i) ==
  /\ zpc[i] = "acquire"
  /\ \/ /\ refs' = RefAdded(refs, cur[i])
        /\ clone' = [clone EXCEPT ![wr[i]] = CloneOf(cur[i])]
        /\ wr' = [wr EXCEPT ![i] = None]
        /\ ZGoto(i, "release")
     \/ /\ ZGoto(i, "unreserve")
        /\ UNCHANGED <<refs, clone, wr>>
  /\ UNCHANGED <<live, ringVars, rxVars, held, cur, testSkb, used,
                 outstanding, selftest, mgrVars>>

\* wlan_rx_zc_wrapper_free
WrapperFree(w) ==
  /\ used' = used \ {w}
  /\ outstanding' = outstanding - 1

\* The reserved wrapper is returned.
Unreserve(i) ==
  /\ zpc[i] = "unreserve"
  /\ WrapperFree(wr[i])
  /\ wr' = [wr EXCEPT ![i] = None]
  /\ ZGoto(i, "release")
  /\ UNCHANGED <<bufVars, ringVars, rxVars, held, cur, testSkb, clone,
                 selftest, mgrVars>>

\* A frame that got no pbuf of its own is copied into a pool pbuf; netif_rx
\* returns and the driver frees its skb.
Release(i) ==
  /\ zpc[i] = "release"
  /\ Kfree(cur[i])
  /\ cur' = [cur EXCEPT ![i] = NoSkb]
  /\ ZGoto(i, "idle")
  /\ UNCHANGED <<ringVars, rxVars, held, wr, testSkb, wrapVars, mgrVars>>

-----------------------------------------------------------------------------
(* A pbuf is freed by the stack, whenever and in whichever task, or by the *)
(* interface whose netif->input refused it.                                *)

OfStack(w) == w \in used /\ \A i \in Ifaces : wr[i] # w

\* wlan_rx_zc_free: first the clone,
FreeClone(w) ==
  /\ OfStack(w) /\ clone[w] # NoSkb
  /\ Kfree(clone[w])
  /\ clone' = [clone EXCEPT ![w] = NoSkb]
  /\ UNCHANGED <<ringVars, rxVars, netVars, used, outstanding, selftest,
                 mgrVars>>

\* then the wrapper.
FreeWrapper(w) ==
  /\ OfStack(w) /\ clone[w] = NoSkb
  /\ WrapperFree(w)
  /\ UNCHANGED <<bufVars, ringVars, rxVars, netVars, clone, selftest, mgrVars>>

-----------------------------------------------------------------------------
(* wifi_off (wifi_off_fastly does the same here) and wifi_on.              *)

\* ethernetif_wlan_rx_zc_quiesce closes the gate and reads outstanding under
\* one lock.
Off ==
  /\ mpc = "on"
  /\ mpc' = "drain"
  /\ quiesced' = TRUE
  /\ sampled' = outstanding
  /\ UNCHANGED <<bufVars, ringVars, rxVars, netVars, wrapVars>>

\* Nothing is outstanding: the driver may be stopped.
Drained ==
  /\ mpc = "drain" /\ sampled = 0
  /\ mpc' = "stopping"
  /\ UNCHANGED <<bufVars, ringVars, rxVars, netVars, wrapVars, quiesced, sampled>>

\* It sleeps 10 ms and looks again.
DrainPoll ==
  /\ mpc = "drain" /\ sampled # 0
  /\ sampled' = outstanding
  /\ UNCHANGED <<bufVars, ringVars, rxVars, netVars, wrapVars, quiesced, mpc>>

\* WLAN_RX_ZERO_COPY_DRAIN_TIMEOUT_MS is over: a last look, else the gate
\* opens and wifi_off returns RTW_ERROR.
DrainTimeout ==
  /\ mpc = "drain" /\ sampled # 0
  /\ IF outstanding = 0
       THEN mpc' = "stopping" /\ UNCHANGED quiesced
       ELSE mpc' = "on" /\ quiesced' = FALSE
  /\ sampled' = 0
  /\ UNCHANGED <<bufVars, ringVars, rxVars, netVars, wrapVars>>

\* rltk_wlan_deinit has stopped the DMA and flushed the driver's frames;
\* wlan_rx_dma_deinit puts the vendor buffers back and frees its own, then the
\* ring goes.
Deinit ==
  /\ mpc = "stopping" /\ rxPc = "idle"
  /\ \A i \in Ifaces : zpc[i] = "idle" /\ held[i] = {}
  /\ mpc' = "off"
  /\ desc' = [s \in Slots |-> IF slotSkb[s] # None THEN orig[s] ELSE desc[s]]
  /\ LET own == {slotSkb[s] : s \in Slots} IN
     /\ live' = [b \in Bufs |-> live[b] /\ (b \in own => refs[b] > 1)]
     /\ refs' = [b \in Bufs |-> IF b \in own THEN refs[b] - 1 ELSE refs[b]]
  /\ slotSkb' = [s \in Slots |-> None]
  /\ orig' = [s \in Slots |-> None]
  /\ index' = 0 /\ pending' = 0
  /\ UNCHANGED <<rxVars, netVars, wrapVars, quiesced, sampled>>

\* wifi_on: the driver rebuilds its pools and its ring, and runs.
On ==
  /\ mpc = "off"
  /\ mpc' = "starting"
  /\ live' = [b \in Bufs |-> b \notin Pool /\ live[b]]
  /\ refs' = [b \in Bufs |-> IF b \in Pool THEN 0 ELSE refs[b]]
  /\ desc' = [s \in Slots |-> None]
  /\ UNCHANGED <<slotSkb, orig, index, pending, rxVars, netVars, wrapVars, quiesced, sampled>>

\* An interface that does not start: wifi_on stops the driver again, without a
\* quiesce.  The gate is still as the last wifi_off left it.
StartFails ==
  /\ mpc = "starting"
  /\ mpc' = "stopping"
  /\ UNCHANGED <<bufVars, ringVars, rxVars, netVars, wrapVars, quiesced, sampled>>

\* ethernetif_wlan_rx_zc_resume, at the end of wifi_on.
Resume ==
  /\ mpc = "starting"
  /\ mpc' = "on"
  /\ quiesced' = FALSE
  /\ UNCHANGED <<bufVars, ringVars, rxVars, netVars, wrapVars, sampled>>

-----------------------------------------------------------------------------
Tasklet ==
  \/ RxStart \/ Rotate \/ Bind \/ RouteRelease \/ Rearm
  \/ \E i \in Ifaces : RouteUnicast(i)
  \/ \E i, j \in Ifaces : RouteMulticast(i, j)

Receive(i) ==
  \/ Reserve(i) \/ Check(i) \/ SelfTest(i) \/ TestFree(i)
  \/ Verdict(i) \/ Acquire(i) \/ Unreserve(i) \/ Release(i)

Driver(i) == DriverDrop(i) \/ Deliver(i)

StackFree(w) == FreeClone(w) \/ FreeWrapper(w)

Manager ==
  Off \/ Drained \/ DrainPoll \/ DrainTimeout \/ Deinit \/ On \/ StartFails \/ Resume

Next ==
  \/ HwReceive \/ Tasklet \/ Manager
  \/ \E i \in Ifaces : Receive(i) \/ Driver(i)
  \/ \E w \in Wrappers : StackFree(w)

\* The receive tasklet is scheduled; nothing is assumed of the stack, of the
\* driver's frames or of the hardware.
Fairness == WF_vars(Tasklet)

Spec == Init /\ [][Next]_vars
FairSpec == Spec /\ Fairness

-----------------------------------------------------------------------------
(* Properties.                                                             *)

\* The skbs that refer to a block: the frame in the tasklet, those the driver
\* keeps or delivers, and the clones held by pbufs and by the self-test.
Originals ==
  ({rxFrame} \cup (UNION {held[i] : i \in Ifaces}) \cup {cur[i] : i \in Ifaces})
    \ {NoSkb}
Clones ==
  ({clone[w] : w \in Wrappers} \cup {testSkb[i] : i \in Ifaces}) \ {NoSkb}

OwnedBySlots == {slotSkb[s] : s \in Slots} \ {None}
OwnedByDriver == {f.buf : f \in Originals}
OwnedByClones == {s.buf : s \in Clones}

\* A descriptor the hardware may write names the vendor's buffer or the live
\* block of its own slot, which no frame, no pbuf and no other slot refers to:
\* a payload is never overwritten by a later frame (wlan_rx_dma_rotate).
DmaExclusive ==
  \A s \in Slots : Armed(s) /\ desc[s] # None =>
    /\ desc[s] = slotSkb[s] /\ live[desc[s]]
    /\ desc[s] \notin OwnedByDriver \cup OwnedByClones
    /\ \A r \in Slots \ {s} : slotSkb[r] # desc[s]

\* Whatever is handed up or still to be copied is in a live block.
PayloadLive ==
  /\ OwnedByDriver \cup OwnedByClones \subseteq {b \in Bufs : live[b]}
  /\ rxPc = "bind" /\ base # None => live[base]

\* Every live block has a holder: no path of the tasklet, of ethernetif_recv or
\* of the shutdown leaks one.
NothingLeaked ==
  \A b \in Bufs : live[b] =>
    \/ b \in OwnedBySlots \cup OwnedByDriver \cup OwnedByClones
    \/ zeroCopy /\ b = base /\ rxPc = "bind"

\* A block of memory is allocated for as long as somebody holds it, no longer
\* and no shorter, however slots, driver and clones pass it on.
BlocksHeld == PayloadLive /\ NothingLeaked

\* From the moment the quiesce succeeds until the gate opens again no wrapper is
\* reserved or in a pbuf, so deinit and the rebuilt pools meet no clone
\* (wifi_off: do not deinit while lwIP still owns cloned RX buffers); and while
\* the interface is off nothing of the ring is left in a descriptor.
QuiescedIsDrained ==
  mpc \in {"stopping", "off", "starting"} =>
    /\ used = {} /\ \A w \in Wrappers : clone[w] = NoSkb
    /\ mpc = "off" => \A s \in Slots : desc[s] = None

\* A pbuf exists only after the self-test has passed, one interface at most runs
\* it, and with these skb functions it never fails.
SelfTestGuards ==
  /\ \A w \in Wrappers : clone[w] # NoSkb => selftest = 1
  /\ \A i, j \in Ifaces :
       /\ zpc[i] \in {"selftest", "testfree", "verdict"}
       /\ zpc[j] \in {"selftest", "testfree", "verdict"}
       => i = j
  /\ selftest # 2

\* A ring the hardware has filled never stays full, whatever allocations fail.
RingServed == pending = RingSize - 1 ~> pending < RingSize - 1
=============================================================================
