---------------------------- MODULE WlanRxProofs ----------------------------
(***************************************************************************)
(* Proofs about WlanRx: for any ring, heap and pools, the gate that        *)
(* wifi_off closes keeps every pbuf out of the shutdown; and when long     *)
(* multicast copies do not reach the zero-copy path, a block lives exactly *)
(* as long as somebody holds it and the DMA never writes into one that a   *)
(* frame or a pbuf refers to.                                              *)
(***************************************************************************)
EXTENDS WlanRx, FiniteSetTheorems, TLAPS

Testing  == {"selftest", "testfree", "verdict"}
Reserved == {"check", "unreserve", "acquire"} \cup Testing

\* Everything but the reference words, whose type rests on who holds a block.
RingTypes ==
  /\ live \in [Bufs -> BOOLEAN]
  /\ desc \in [Slots -> Bufs \cup {None}]
  /\ slotSkb \in [Slots -> Bufs \cup {None}]
  /\ orig \in [Slots -> Bufs \cup {None}]
  /\ index \in Slots /\ pending \in Slots
RxTypes ==
  /\ rxPc \in RxPCs
  /\ base \in Bufs \cup {None}
  /\ zeroCopy \in BOOLEAN
  /\ rxFrame \in Skbs \cup {NoSkb}
NetTypes ==
  /\ held \in [Ifaces -> SUBSET Skbs]
  /\ cur \in [Ifaces -> Skbs \cup {NoSkb}]
  /\ zpc \in [Ifaces -> NetPCs]
  /\ wr \in [Ifaces -> Wrappers \cup {None}]
  /\ testSkb \in [Ifaces -> Skbs \cup {NoSkb}]
WrapTypes ==
  /\ used \in SUBSET Wrappers
  /\ clone \in [Wrappers -> Skbs \cup {NoSkb}]
  /\ outstanding \in Nat
  /\ selftest \in 0..3
GateTypes ==
  /\ quiesced \in BOOLEAN
  /\ mpc \in MgrPCs
  /\ sampled \in Nat
ControlTypes == RingTypes /\ RxTypes /\ NetTypes /\ WrapTypes /\ GateTypes

\* The ring and the tasklet that serves it: a descriptor, its shadow and its
\* slot agree, and the vendor's own buffer is never among them.
Ring ==
  /\ \A s \in Slots : desc[s] = slotSkb[s] /\ orig[s] = None
  /\ rxPc \in {"idle", "rotate"} => ~zeroCopy
  /\ rxPc # "idle" => pending > 0 /\ mpc # "off"
  /\ rxPc = "rotate" => base = slotSkb[index]
  /\ rxPc = "bind" /\ zeroCopy => base # None
  /\ rxPc = "bind" /\ ~zeroCopy => base \in {None, slotSkb[index]}
  /\ rxFrame # NoSkb <=> rxPc = "route"
  /\ mpc = "off" => \A s \in Slots : slotSkb[s] = None

\* What a call of ethernetif_recv has where it is; one at most runs the test.
Calls ==
  /\ \A i \in Ifaces :
       /\ wr[i] # None <=> zpc[i] \in Reserved
       /\ cur[i] # NoSkb <=> zpc[i] # "idle"
       /\ testSkb[i] # NoSkb <=> zpc[i] \in {"testfree", "verdict"}
       /\ zpc[i] \in Testing => selftest = 3
       /\ zpc[i] = "acquire" => selftest = 1
       /\ mpc = "off" => zpc[i] = "idle" /\ held[i] = {}
  /\ \A i, j \in Ifaces : zpc[i] \in Testing /\ zpc[j] \in Testing => i = j

\* A wrapper marked as used is reserved by one call, or in the stack.
Wrapped ==
  /\ outstanding = Cardinality(used)
  /\ \A i \in Ifaces : wr[i] # None => wr[i] \in used /\ clone[wr[i]] = NoSkb
  /\ \A i, j \in Ifaces : wr[i] = wr[j] /\ wr[i] # None => i = j
  /\ \A w \in Wrappers : clone[w] # NoSkb => w \in used /\ selftest = 1

\* Behind a closed gate the wrappers only return.
Gate ==
  /\ mpc # "on" => quiesced
  /\ mpc = "drain" /\ sampled = 0 => used = {}
  /\ mpc \in {"stopping", "off", "starting"} => used = {}

GInv == ControlTypes /\ Ring /\ Calls /\ Wrapped /\ Gate

---------------------------------------------------------------------------
\* Where the one original skb of a block may be,
InSlot(b)  == \E s \in Slots : slotSkb[s] = b
InBase(b)  == rxPc = "bind" /\ zeroCopy /\ base = b
InFrame(b) == rxFrame.buf = b
InHeld(b)  == \E i \in Ifaces : \E f \in held[i] : f.buf = b
InCall(b)  == \E i \in Ifaces : cur[i].buf = b
InTest(b)  == \E i \in Ifaces : zpc[i] = "testfree" /\ testSkb[i].buf = b
\* and its one clone.
InPbuf(b)  == \E w \in Wrappers : clone[w].buf = b
InProbe(b) == \E i \in Ifaces : testSkb[i].buf = b

Queued(b)  == InSlot(b) \/ InBase(b) \/ InFrame(b) \/ InHeld(b)
HasOriginal(b) == Queued(b) \/ InCall(b) \/ InTest(b)
HasClone(b)    == InPbuf(b) \/ InProbe(b)

One(p) == IF p THEN 1 ELSE 0

\* Nobody holds a block twice, and the original is in one place.
OneSlot(b) == \A s, r \in Slots : slotSkb[s] = b /\ slotSkb[r] = b => s = r
OneHeld(b) ==
  \A i, j \in Ifaces : \A f \in held[i], g \in held[j] : f.buf = b /\ g.buf = b => i = j /\ f = g
OneCall(b) == \A i, j \in Ifaces : cur[i].buf = b /\ cur[j].buf = b => i = j
OnePbuf(b) == \A v, w \in Wrappers : clone[v].buf = b /\ clone[w].buf = b => v = w
Apart(b) ==
  /\ OneSlot(b) /\ OneHeld(b) /\ OneCall(b) /\ OnePbuf(b)
  /\ InSlot(b) => ~InBase(b) /\ ~InFrame(b) /\ ~InHeld(b)
  /\ InBase(b) => ~InFrame(b) /\ ~InHeld(b)
  /\ InFrame(b) => ~InHeld(b)
  /\ Queued(b) => ~InCall(b) /\ ~HasClone(b)
  /\ InTest(b) => InProbe(b)
  /\ InProbe(b) => ~InCall(b) /\ ~InPbuf(b)

\* The reference word counts them, and the block is allocated meanwhile.
Counted(b) ==
  /\ live[b] <=> HasOriginal(b) \/ HasClone(b)
  /\ refs[b] = One(HasOriginal(b)) + One(HasClone(b))

Tidy(b) == Apart(b) /\ Counted(b)

\* A frame is cloned once, at the end of its call, and never from the heap.
Uncloned(i) ==
  /\ zpc[i] # "release" => ~InPbuf(cur[i].buf)
  /\ cur[i].flag = HeapFlag => zpc[i] = "release" /\ ~InPbuf(cur[i].buf)

\* A clone is never an ordinary heap skb, and the self-test does not fail.
Flags ==
  /\ \A i \in Ifaces : testSkb[i].flag = PoolFlag
  /\ \A w \in Wrappers : clone[w].flag # HeapFlag
  /\ selftest # 2

Blocks ==
  /\ refs \in [Bufs -> Nat]
  /\ \A b \in Bufs : Tidy(b)
  /\ \A i \in Ifaces : cur[i] # NoSkb => Uncloned(i)
  /\ Flags

BInv == GInv /\ Blocks

---------------------------------------------------------------------------
\* Blocks, skbs and wrappers.
LEMMA Buffers ==
  /\ None \notin Bufs /\ None \notin Wrappers /\ Heap \subseteq Bufs /\ Pool \subseteq Bufs
  /\ \A s \in Skbs : s.buf \in Bufs /\ s.flag \in {PoolFlag, HeapFlag, DmaFlag} /\ s # NoSkb
  /\ NoSkb.buf = None /\ NoSkb.flag = PoolFlag
  /\ \A b \in Bufs, f \in {PoolFlag, HeapFlag, DmaFlag} : [buf |-> b, flag |-> f] \in Skbs
  /\ [buf : Heap, flag : {HeapFlag}] \cup [buf : Pool, flag : {PoolFlag}] \subseteq Skbs
<1>1. None \notin Bufs /\ None \notin Wrappers /\ Heap \subseteq Bufs /\ Pool \subseteq Bufs
  BY PoolAssumption DEF None, Bufs, Heap, Pool, Wrappers
<1>2. PoolFlag..DmaFlag = {PoolFlag, HeapFlag, DmaFlag}
  BY DEF PoolFlag, HeapFlag, DmaFlag
<1>3. Skbs = [buf : Bufs, flag : {PoolFlag, HeapFlag, DmaFlag}]
  BY <1>2 DEF Skbs
<1> HIDE DEF PoolFlag, HeapFlag, DmaFlag
<1>4. \A s \in Skbs : s.buf \in Bufs /\ s.flag \in {PoolFlag, HeapFlag, DmaFlag}
  BY <1>3
<1>5. \A b \in Bufs, f \in {PoolFlag, HeapFlag, DmaFlag} : [buf |-> b, flag |-> f] \in Skbs
  BY <1>3
<1>6. NoSkb.buf = None /\ NoSkb.flag = PoolFlag
  BY DEF NoSkb
<1>7. [buf : Heap, flag : {HeapFlag}] \cup [buf : Pool, flag : {PoolFlag}] \subseteq Skbs
  BY <1>1, <1>3
<1> QED
  BY <1>1, <1>4, <1>5, <1>6, <1>7

\* skb_clone.
LEMMA Cloned ==
  ASSUME NEW s \in Skbs
  PROVE  CloneOf(s) \in Skbs /\ CloneOf(s).buf = s.buf /\ CloneOf(s).flag # HeapFlag
<1>1. PoolFlag # HeapFlag /\ DmaFlag # HeapFlag
  BY DEF PoolFlag, HeapFlag, DmaFlag
<1> QED
  BY <1>1, Buffers DEF CloneOf

\* What each component leaves alone.
LEMMA Leaves ==
  /\ HwReceive => UNCHANGED <<bufVars, desc, slotSkb, orig, index, rxVars, netVars, wrapVars, mgrVars>>
  /\ Tasklet => UNCHANGED <<cur, zpc, wr, testSkb, wrapVars, mgrVars>>
  /\ \A i \in Ifaces : Receive(i) => UNCHANGED <<ringVars, rxVars, held, mgrVars>>
  /\ \A i \in Ifaces : Driver(i) => UNCHANGED <<ringVars, rxVars, wr, testSkb, wrapVars, mgrVars>>
  /\ \A w \in Wrappers : StackFree(w) => UNCHANGED <<ringVars, rxVars, netVars, selftest, mgrVars>>
  /\ Manager => UNCHANGED <<rxVars, netVars, wrapVars>>
<1> USE DEF bufVars, ringVars, rxVars, netVars, wrapVars, mgrVars
<1>1. HwReceive => UNCHANGED <<bufVars, desc, slotSkb, orig, index, rxVars, netVars, wrapVars, mgrVars>>
  BY DEF HwReceive
<1>2. Tasklet => UNCHANGED <<cur, zpc, wr, testSkb, wrapVars, mgrVars>>
  BY DEF Tasklet, RxStart, Rotate, Bind, RouteRelease, Rearm, RouteUnicast, RouteMulticast
<1>3. ASSUME NEW i \in Ifaces PROVE Receive(i) => UNCHANGED <<ringVars, rxVars, held, mgrVars>>
  BY DEF Receive, Reserve, Check, SelfTest, TestFree, Verdict, Acquire, Unreserve, Release
<1>4. ASSUME NEW i \in Ifaces
      PROVE  Driver(i) => UNCHANGED <<ringVars, rxVars, wr, testSkb, wrapVars, mgrVars>>
  BY DEF Driver, DriverDrop, Deliver
<1>5. ASSUME NEW w \in Wrappers
      PROVE  StackFree(w) => UNCHANGED <<ringVars, rxVars, netVars, selftest, mgrVars>>
  BY DEF StackFree, FreeClone, FreeWrapper
<1>6. Manager => UNCHANGED <<rxVars, netVars, wrapVars>>
  BY DEF Manager, Off, Drained, DrainPoll, DrainTimeout, Deinit, On, StartFails, Resume
<1> QED
  BY <1>1, <1>2, <1>3, <1>4, <1>5, <1>6

\* The ring's indices.
LEMMA Indices ==
  /\ 0 \in Slots
  /\ \A k \in Slots : k < RingSize - 1 => k + 1 \in Slots
  /\ \A k \in Slots : k > 0 => k - 1 \in Slots
  /\ \A k \in Slots : (k + 1) % RingSize \in Slots
<1> RingSize \in Nat /\ RingSize >= 2
  BY RingAssumption
<1>1. /\ 0 \in Slots
      /\ \A k \in Slots : k < RingSize - 1 => k + 1 \in Slots
      /\ \A k \in Slots : k > 0 => k - 1 \in Slots
  BY DEF Slots
<1>2. ASSUME NEW k \in Slots PROVE (k + 1) % RingSize \in Slots
  BY DEF Slots
<1> QED
  BY <1>1, <1>2

\* outstanding and the marks of the wrappers move together.
LEMMA WrapperCount ==
  ASSUME used \in SUBSET Wrappers, outstanding = Cardinality(used)
  PROVE  /\ outstanding \in Nat
         /\ outstanding = 0 => used = {}
         /\ \A w \in Wrappers \ used : Cardinality(used \cup {w}) = outstanding + 1
         /\ \A w \in used : outstanding - 1 \in Nat /\ Cardinality(used \ {w}) = outstanding - 1
<1>1. IsFiniteSet(Wrappers)
  BY PoolAssumption, FS_Interval DEF Wrappers
<1>2. IsFiniteSet(used)
  BY <1>1, FS_Subset
<1>3. Cardinality(used) \in Nat /\ (Cardinality(used) = 0 <=> used = {})
  BY <1>2, FS_CardinalityType, FS_EmptySet
<1>4. \A w \in Wrappers \ used : Cardinality(used \cup {w}) = outstanding + 1
  BY <1>2, FS_AddElement
<1>5. ASSUME NEW w \in used PROVE outstanding - 1 \in Nat /\ Cardinality(used \ {w}) = outstanding - 1
  <2>1. Cardinality(used \ {w}) = Cardinality(used) - 1
    BY <1>2, FS_RemoveElement
  <2>2. IsFiniteSet(used \ {w})
    BY <1>2, FS_Subset
  <2>3. Cardinality(used \ {w}) \in Nat
    BY <2>2, FS_CardinalityType
  <2> QED
    BY <2>1, <2>3
<1> QED
  BY <1>3, <1>4, <1>5

LEMMA RingTypesStep ==
  ASSUME ControlTypes, Ring, Calls, Wrapped, Gate, Next
  PROVE  RingTypes'
<1> USE DEF ControlTypes, RingTypes, bufVars, ringVars, rxVars, netVars, wrapVars, mgrVars
<1>1. ASSUME HwReceive PROVE RingTypes'
  BY <1>1, Indices DEF HwReceive
<1>2. ASSUME RxStart PROVE RingTypes'
  BY <1>2 DEF RxStart, RxGoto
<1>3. ASSUME Rotate PROVE RingTypes'
  <2>1. desc[index] \in Bufs \cup {None} /\ Heap \subseteq Bufs /\ UNCHANGED <<index, pending>>
    BY <1>3, Buffers DEF Rotate
  <2>2. CASE UNCHANGED <<bufVars, desc, slotSkb, orig, base, zeroCopy>>
    BY <2>1, <2>2
  <2>3. ASSUME NEW b \in Heap, Alloc(b), slotSkb' = [slotSkb EXCEPT ![index] = b],
               desc' = [desc EXCEPT ![index] = b],
               orig' = [orig EXCEPT ![index] = desc[index]] \/ orig' = orig
        PROVE  RingTypes'
    BY <2>1, <2>3 DEF Alloc
  <2> QED
    BY <1>3, <2>2, <2>3, Zenon DEF Rotate
<1>4. ASSUME Bind PROVE RingTypes'
  BY <1>4 DEF Bind, Alloc, RxGoto
<1>5. ASSUME RouteRelease PROVE RingTypes'
  BY <1>5 DEF RouteRelease, Kfree, RxGoto
<1>6. ASSUME Rearm PROVE RingTypes'
  <2>1. pending > 0
    BY <1>6 DEF Rearm, Ring
  <2> QED
    BY <1>6, <2>1, Indices DEF Rearm
<1>7. ASSUME NEW i \in Ifaces, RouteUnicast(i) PROVE RingTypes'
  BY <1>7 DEF RouteUnicast, RxGoto
<1>8. ASSUME NEW i \in Ifaces, NEW j \in Ifaces, RouteMulticast(i, j) PROVE RingTypes'
  BY <1>8 DEF RouteMulticast, Alloc, RxGoto
<1>9. ASSUME NEW i \in Ifaces, Reserve(i) PROVE RingTypes'
  BY <1>9 DEF Reserve, ZGoto
<1>10. ASSUME NEW i \in Ifaces, Check(i) PROVE RingTypes'
  BY <1>10 DEF Check, ZGoto
<1>11. ASSUME NEW i \in Ifaces, SelfTest(i) PROVE RingTypes'
  BY <1>11 DEF SelfTest, ZGoto
<1>12. ASSUME NEW i \in Ifaces, TestFree(i) PROVE RingTypes'
  BY <1>12 DEF TestFree, Kfree, ZGoto
<1>13. ASSUME NEW i \in Ifaces, Verdict(i) PROVE RingTypes'
  BY <1>13 DEF Verdict, Kfree, ZGoto
<1>14. ASSUME NEW i \in Ifaces, Acquire(i) PROVE RingTypes'
  BY <1>14 DEF Acquire, ZGoto
<1>15. ASSUME NEW i \in Ifaces, Unreserve(i) PROVE RingTypes'
  BY <1>15 DEF Unreserve, WrapperFree, ZGoto
<1>16. ASSUME NEW i \in Ifaces, Release(i) PROVE RingTypes'
  BY <1>16 DEF Release, Kfree, ZGoto
<1>17. ASSUME NEW i \in Ifaces, DriverDrop(i) PROVE RingTypes'
  BY <1>17 DEF DriverDrop, Kfree
<1>18. ASSUME NEW i \in Ifaces, Deliver(i) PROVE RingTypes'
  BY <1>18 DEF Deliver, ZGoto
<1>19. ASSUME NEW w \in Wrappers, FreeClone(w) PROVE RingTypes'
  BY <1>19 DEF FreeClone, Kfree, OfStack
<1>20. ASSUME NEW w \in Wrappers, FreeWrapper(w) PROVE RingTypes'
  BY <1>20 DEF FreeWrapper, WrapperFree, OfStack
<1>21. ASSUME Off PROVE RingTypes'
  BY <1>21 DEF Off
<1>22. ASSUME Drained PROVE RingTypes'
  BY <1>22 DEF Drained
<1>23. ASSUME DrainPoll PROVE RingTypes'
  BY <1>23 DEF DrainPoll
<1>24. ASSUME DrainTimeout PROVE RingTypes'
  BY <1>24 DEF DrainTimeout
<1>25. ASSUME Deinit PROVE RingTypes'
  <2>1. live' \in [Bufs -> BOOLEAN]
    BY <1>25, Zenon DEF Deinit
  <2>2. desc' \in [Slots -> Bufs \cup {None}]
    BY <1>25 DEF Deinit
  <2>3. slotSkb' \in [Slots -> Bufs \cup {None}] /\ orig' \in [Slots -> Bufs \cup {None}]
    BY <1>25 DEF Deinit
  <2>4. index' \in Slots /\ pending' \in Slots
    BY <1>25, Indices DEF Deinit
  <2> QED
    BY <2>1, <2>2, <2>3, <2>4
<1>26. ASSUME On PROVE RingTypes'
  BY <1>26 DEF On
<1>27. ASSUME Resume PROVE RingTypes'
  BY <1>27 DEF Resume
<1>28. ASSUME StartFails PROVE RingTypes'
  BY <1>28 DEF StartFails
<1> QED
  BY <1>1, <1>2, <1>3, <1>4, <1>5, <1>6, <1>7, <1>8, <1>9, <1>10, <1>11, <1>12, <1>13, <1>14, <1>15, <1>16, <1>17, <1>18, <1>19, <1>20, <1>21, <1>22, <1>23, <1>24, <1>25, <1>26, <1>27, <1>28 DEF Next, Tasklet, Receive, Driver, StackFree, Manager

LEMMA RxTypesStep ==
  ASSUME ControlTypes, Ring, Calls, Wrapped, Gate, Next
  PROVE  RxTypes'
<1> USE DEF ControlTypes, RxTypes, RxPCs, bufVars, ringVars, rxVars, netVars, wrapVars, mgrVars
<1>1. ASSUME HwReceive PROVE RxTypes'
  BY <1>1, Leaves
<1>2. ASSUME RxStart PROVE RxTypes'
  BY <1>2 DEF RxStart, RxGoto, RingTypes
<1>3. ASSUME Rotate PROVE RxTypes'
  BY <1>3 DEF Rotate, RxGoto, RingTypes
<1>4. ASSUME Bind PROVE RxTypes'
  <2>1. ASSUME zeroCopy, rxFrame' = [buf |-> base, flag |-> DmaFlag] PROVE rxFrame' \in Skbs
    <3>1. base \in Bufs
      BY <1>4, <2>1 DEF Bind, Ring
    <3> QED
      BY <2>1, <3>1, Buffers
  <2>2. ASSUME NEW b \in Pool, rxFrame' = [buf |-> b, flag |-> PoolFlag] PROVE rxFrame' \in Skbs
    BY <2>2, Buffers
  <2> QED
    BY <1>4, <2>1, <2>2 DEF Bind, RxGoto
<1>5. ASSUME RouteRelease PROVE RxTypes'
  BY <1>5 DEF RouteRelease, Kfree, RxGoto
<1>6. ASSUME Rearm PROVE RxTypes'
  BY <1>6 DEF Rearm, RxGoto
<1>7. ASSUME NEW i \in Ifaces, RouteUnicast(i) PROVE RxTypes'
  BY <1>7 DEF RouteUnicast, RxGoto
<1>8. ASSUME NEW i \in Ifaces, NEW j \in Ifaces, RouteMulticast(i, j) PROVE RxTypes'
  BY <1>8 DEF RouteMulticast, Alloc, RxGoto
<1>9. ASSUME NEW i \in Ifaces, Receive(i) PROVE RxTypes'
  BY <1>9, Leaves
<1>10. ASSUME NEW i \in Ifaces, Driver(i) PROVE RxTypes'
  BY <1>10, Leaves
<1>11. ASSUME NEW w \in Wrappers, StackFree(w) PROVE RxTypes'
  BY <1>11, Leaves
<1>12. ASSUME Manager PROVE RxTypes'
  BY <1>12, Leaves
<1> QED
  BY <1>1, <1>2, <1>3, <1>4, <1>5, <1>6, <1>7, <1>8, <1>9, <1>10, <1>11, <1>12 DEF Next, Tasklet

LEMMA NetTypesStep ==
  ASSUME ControlTypes, Ring, Calls, Wrapped, Gate, Next
  PROVE  NetTypes'
<1> USE DEF ControlTypes, NetTypes, NetPCs, bufVars, ringVars, rxVars, netVars, wrapVars, mgrVars
<1>1. ASSUME HwReceive PROVE NetTypes'
  BY <1>1, Leaves
<1>2. ASSUME RxStart PROVE NetTypes'
  BY <1>2 DEF RxStart, RxGoto
<1>3. ASSUME Rotate PROVE NetTypes'
  BY <1>3 DEF Rotate, Alloc, RxGoto
<1>4. ASSUME Bind PROVE NetTypes'
  BY <1>4 DEF Bind, Alloc, RxGoto
<1>5. ASSUME RouteRelease PROVE NetTypes'
  BY <1>5 DEF RouteRelease, Kfree, RxGoto
<1>6. ASSUME Rearm PROVE NetTypes'
  BY <1>6 DEF Rearm, RxGoto
<1>7. ASSUME NEW i \in Ifaces, RouteUnicast(i) PROVE NetTypes'
  <2>1. rxFrame \in Skbs
    BY <1>7 DEF RouteUnicast, RxTypes, Ring
  <2> QED
    BY <1>7, <2>1 DEF RouteUnicast
<1>8. ASSUME NEW i \in Ifaces, NEW j \in Ifaces, RouteMulticast(i, j) PROVE NetTypes'
  <2>1. rxFrame \in Skbs
    BY <1>8 DEF RouteMulticast, RxTypes, Ring
  <2>2. PICK copy \in [buf : Heap, flag : {HeapFlag}] \cup [buf : Pool, flag : {PoolFlag}] :
          held' = [held EXCEPT ![i] = @ \cup {rxFrame}, ![j] = @ \cup {copy}]
    BY <1>8, Zenon DEF RouteMulticast
  <2>3. copy \in Skbs
    BY <2>2, Buffers
  <2>4. UNCHANGED <<cur, zpc, wr, testSkb>>
    BY <1>8 DEF RouteMulticast
  <2> QED
    BY <2>1, <2>2, <2>3, <2>4
<1>9. ASSUME NEW i \in Ifaces, Reserve(i) PROVE NetTypes'
  BY <1>9 DEF Reserve, ZGoto
<1>10. ASSUME NEW i \in Ifaces, Check(i) PROVE NetTypes'
  <2>1. ASSUME NEW label, zpc' = [zpc EXCEPT ![i] = label], label \in NetPCs
        PROVE  zpc' \in [Ifaces -> NetPCs]
    BY <2>1
  <2> QED
    BY <1>10, <2>1 DEF Check, ZGoto, WrapTypes
<1>11. ASSUME NEW i \in Ifaces, SelfTest(i) PROVE NetTypes'
  <2>1. ASSUME NEW b \in Pool PROVE CloneOf([buf |-> b, flag |-> PoolFlag]) \in Skbs
    BY Buffers, Cloned
  <2> QED
    <3>1. zpc' \in {[zpc EXCEPT ![i] = "testfree"], [zpc EXCEPT ![i] = "unreserve"]}
      BY <1>11 DEF SelfTest, ZGoto
    <3>2. /\ UNCHANGED <<held, cur, wr>>
          /\ testSkb' = testSkb \/ \E b \in Pool : testSkb' = [testSkb EXCEPT ![i] = CloneOf([buf |-> b, flag |-> PoolFlag])]
      BY <1>11 DEF SelfTest
    <3> QED
      BY <2>1, <3>1, <3>2
<1>12. ASSUME NEW i \in Ifaces, TestFree(i) PROVE NetTypes'
  BY <1>12 DEF TestFree, Kfree, ZGoto
<1>13. ASSUME NEW i \in Ifaces, Verdict(i) PROVE NetTypes'
  BY <1>13 DEF Verdict, Kfree, ZGoto
<1>14. ASSUME NEW i \in Ifaces, Acquire(i) PROVE NetTypes'
  BY <1>14 DEF Acquire, ZGoto
<1>15. ASSUME NEW i \in Ifaces, Unreserve(i) PROVE NetTypes'
  BY <1>15 DEF Unreserve, WrapperFree, ZGoto
<1>16. ASSUME NEW i \in Ifaces, Release(i) PROVE NetTypes'
  BY <1>16 DEF Release, Kfree, ZGoto
<1>17. ASSUME NEW i \in Ifaces, DriverDrop(i) PROVE NetTypes'
  BY <1>17 DEF DriverDrop, Kfree
<1>18. ASSUME NEW i \in Ifaces, Deliver(i) PROVE NetTypes'
  BY <1>18 DEF Deliver, ZGoto
<1>19. ASSUME NEW w \in Wrappers, StackFree(w) PROVE NetTypes'
  BY <1>19, Leaves
<1>20. ASSUME Manager PROVE NetTypes'
  BY <1>20, Leaves
<1> QED
  BY <1>1, <1>2, <1>3, <1>4, <1>5, <1>6, <1>7, <1>8, <1>9, <1>10, <1>11, <1>12, <1>13, <1>14, <1>15, <1>16, <1>17, <1>18, <1>19, <1>20 DEF Next, Tasklet, Receive, Driver

LEMMA WrapTypesStep ==
  ASSUME ControlTypes, Ring, Calls, Wrapped, Gate, Next
  PROVE  WrapTypes'
<1> USE DEF ControlTypes, WrapTypes, bufVars, ringVars, rxVars, netVars, wrapVars, mgrVars
<1>1. ASSUME HwReceive PROVE WrapTypes'
  BY <1>1, Leaves
<1>2. ASSUME Tasklet PROVE WrapTypes'
  BY <1>2, Leaves
<1>3. ASSUME NEW i \in Ifaces, Reserve(i) PROVE WrapTypes'
  BY <1>3 DEF Reserve, ZGoto
<1>4. ASSUME NEW i \in Ifaces, Check(i) PROVE WrapTypes'
  BY <1>4 DEF Check, ZGoto
<1>5. ASSUME NEW i \in Ifaces, SelfTest(i) PROVE WrapTypes'
  <2>1. selftest' \in {0, selftest} /\ UNCHANGED <<used, clone, outstanding>>
    BY <1>5 DEF SelfTest
  <2> QED
    BY <2>1
<1>6. ASSUME NEW i \in Ifaces, TestFree(i) PROVE WrapTypes'
  BY <1>6 DEF TestFree, Kfree, ZGoto
<1>7. ASSUME NEW i \in Ifaces, Verdict(i) PROVE WrapTypes'
  BY <1>7 DEF Verdict, Kfree, ZGoto
<1>8. ASSUME NEW i \in Ifaces, Acquire(i) PROVE WrapTypes'
  <2>1. cur[i] \in Skbs /\ CloneOf(cur[i]) \in Skbs
    BY <1>8, Cloned DEF Acquire, Calls, NetTypes
  <2> QED
    BY <1>8, <2>1 DEF Acquire
<1>9. ASSUME NEW i \in Ifaces, Unreserve(i) PROVE WrapTypes'
  <2>1. outstanding - 1 \in Nat
    BY <1>9, WrapperCount DEF Unreserve, Calls, Wrapped, Reserved
  <2> QED
    BY <1>9, <2>1 DEF Unreserve, WrapperFree
<1>10. ASSUME NEW i \in Ifaces, Release(i) PROVE WrapTypes'
  BY <1>10 DEF Release, Kfree, ZGoto
<1>11. ASSUME NEW i \in Ifaces, Driver(i) PROVE WrapTypes'
  BY <1>11, Leaves
<1>12. ASSUME NEW w \in Wrappers, FreeClone(w) PROVE WrapTypes'
  BY <1>12 DEF FreeClone, Kfree, OfStack
<1>13. ASSUME NEW w \in Wrappers, FreeWrapper(w) PROVE WrapTypes'
  <2>1. outstanding - 1 \in Nat
    BY <1>13, WrapperCount DEF FreeWrapper, OfStack, Wrapped
  <2> QED
    BY <1>13, <2>1 DEF FreeWrapper, WrapperFree
<1>14. ASSUME Manager PROVE WrapTypes'
  BY <1>14, Leaves
<1> QED
  BY <1>1, <1>2, <1>3, <1>4, <1>5, <1>6, <1>7, <1>8, <1>9, <1>10, <1>11, <1>12, <1>13, <1>14 DEF Next, Receive, StackFree

LEMMA GateTypesStep ==
  ASSUME ControlTypes, Ring, Calls, Wrapped, Gate, Next
  PROVE  GateTypes'
<1> USE DEF ControlTypes, GateTypes, MgrPCs, bufVars, ringVars, rxVars, netVars, wrapVars, mgrVars
<1>1. ASSUME HwReceive PROVE GateTypes'
  BY <1>1, Leaves
<1>2. ASSUME Tasklet PROVE GateTypes'
  BY <1>2, Leaves
<1>3. ASSUME NEW i \in Ifaces, Receive(i) PROVE GateTypes'
  BY <1>3, Leaves
<1>4. ASSUME NEW i \in Ifaces, Driver(i) PROVE GateTypes'
  BY <1>4, Leaves
<1>5. ASSUME NEW w \in Wrappers, StackFree(w) PROVE GateTypes'
  BY <1>5, Leaves
<1>6. ASSUME Off PROVE GateTypes'
  BY <1>6 DEF Off, WrapTypes
<1>7. ASSUME Drained PROVE GateTypes'
  BY <1>7 DEF Drained
<1>8. ASSUME DrainPoll PROVE GateTypes'
  BY <1>8 DEF DrainPoll, WrapTypes
<1>9. ASSUME DrainTimeout PROVE GateTypes'
  BY <1>9 DEF DrainTimeout
<1>10. ASSUME Deinit PROVE GateTypes'
  BY <1>10 DEF Deinit
<1>11. ASSUME On PROVE GateTypes'
  BY <1>11 DEF On
<1>12. ASSUME Resume PROVE GateTypes'
  BY <1>12 DEF Resume
<1>13. ASSUME StartFails PROVE GateTypes'
  BY <1>13 DEF StartFails
<1> QED
  BY <1>1, <1>2, <1>3, <1>4, <1>5, <1>6, <1>7, <1>8, <1>9, <1>10, <1>11, <1>12, <1>13 DEF Next, Manager

LEMMA RingStep ==
  ASSUME ControlTypes, Ring, Calls, Wrapped, Gate, Next
  PROVE  Ring'
<1> USE DEF ControlTypes, RingTypes, RxTypes, Ring, bufVars, ringVars, rxVars, netVars, wrapVars, mgrVars
<1>1. ASSUME HwReceive PROVE Ring'
  BY <1>1, Leaves DEF HwReceive, Slots
<1>2. ASSUME RxStart PROVE Ring'
  BY <1>2 DEF RxStart, RxGoto
<1>3. ASSUME Rotate PROVE Ring'
  BY <1>3 DEF Rotate, Alloc, RxGoto
<1>4. ASSUME Bind PROVE Ring'
  <2>1. /\ rxPc = "bind" /\ UNCHANGED <<ringVars, base, zeroCopy, mgrVars>>
        /\ rxPc' \in {"route", "rearm"}
    BY <1>4 DEF Bind, RxGoto
  <2>2. rxFrame' # NoSkb <=> rxPc' = "route"
    <3>1. CASE rxPc' = "rearm"
      BY <1>4, <2>1, <3>1 DEF Bind, RxGoto
    <3>2. CASE rxPc' = "route"
      <4>1. rxFrame'.buf \in Bufs
        BY <1>4, <3>2, Buffers DEF Bind, RxGoto
      <4> QED
        BY <3>2, <4>1, Buffers
    <3> QED
      BY <2>1, <3>1, <3>2
  <2> QED
    BY <2>1, <2>2
<1>5. ASSUME RouteRelease PROVE Ring'
  BY <1>5 DEF RouteRelease, Kfree, RxGoto
<1>6. ASSUME Rearm PROVE Ring'
  BY <1>6 DEF Rearm, RxGoto
<1>7. ASSUME NEW i \in Ifaces, RouteUnicast(i) PROVE Ring'
  BY <1>7 DEF RouteUnicast, RxGoto
<1>8. ASSUME NEW i \in Ifaces, NEW j \in Ifaces, RouteMulticast(i, j) PROVE Ring'
  BY <1>8 DEF RouteMulticast, Alloc, RxGoto
<1>9. ASSUME NEW i \in Ifaces, Reserve(i) PROVE Ring'
  BY <1>9 DEF Reserve, ZGoto
<1>10. ASSUME NEW i \in Ifaces, Check(i) PROVE Ring'
  BY <1>10 DEF Check, ZGoto
<1>11. ASSUME NEW i \in Ifaces, SelfTest(i) PROVE Ring'
  BY <1>11 DEF SelfTest, ZGoto
<1>12. ASSUME NEW i \in Ifaces, TestFree(i) PROVE Ring'
  BY <1>12 DEF TestFree, Kfree, ZGoto
<1>13. ASSUME NEW i \in Ifaces, Verdict(i) PROVE Ring'
  BY <1>13 DEF Verdict, Kfree, ZGoto
<1>14. ASSUME NEW i \in Ifaces, Acquire(i) PROVE Ring'
  BY <1>14 DEF Acquire, ZGoto
<1>15. ASSUME NEW i \in Ifaces, Unreserve(i) PROVE Ring'
  BY <1>15 DEF Unreserve, WrapperFree, ZGoto
<1>16. ASSUME NEW i \in Ifaces, Release(i) PROVE Ring'
  BY <1>16 DEF Release, Kfree, ZGoto
<1>17. ASSUME NEW i \in Ifaces, DriverDrop(i) PROVE Ring'
  BY <1>17 DEF DriverDrop, Kfree
<1>18. ASSUME NEW i \in Ifaces, Deliver(i) PROVE Ring'
  BY <1>18 DEF Deliver, ZGoto
<1>19. ASSUME NEW w \in Wrappers, StackFree(w) PROVE Ring'
  BY <1>19, Leaves
<1>20. ASSUME Off PROVE Ring'
  BY <1>20 DEF Off
<1>21. ASSUME Drained PROVE Ring'
  BY <1>21 DEF Drained
<1>22. ASSUME DrainPoll PROVE Ring'
  BY <1>22 DEF DrainPoll
<1>23. ASSUME DrainTimeout PROVE Ring'
  BY <1>23 DEF DrainTimeout
<1>24. ASSUME Deinit PROVE Ring'
  BY <1>24 DEF Deinit
<1>25. ASSUME On PROVE Ring'
  BY <1>25 DEF On
<1>26. ASSUME Resume PROVE Ring'
  BY <1>26 DEF Resume
<1>27. ASSUME StartFails PROVE Ring'
  BY <1>27 DEF StartFails
<1> QED
  BY <1>1, <1>2, <1>3, <1>4, <1>5, <1>6, <1>7, <1>8, <1>9, <1>10, <1>11, <1>12, <1>13, <1>14, <1>15, <1>16, <1>17, <1>18, <1>19, <1>20, <1>21, <1>22, <1>23, <1>24, <1>25, <1>26, <1>27 DEF Next, Tasklet, Receive, Driver, Manager

LEMMA CallsStep ==
  ASSUME ControlTypes, Ring, Calls, Wrapped, Gate, Next
  PROVE  Calls'
<1> USE DEF ControlTypes, NetTypes, WrapTypes, Calls, Reserved, Testing, bufVars, ringVars, rxVars, netVars, wrapVars, mgrVars
<1>1. ASSUME HwReceive PROVE Calls'
  BY <1>1, Leaves
<1>2. ASSUME Tasklet PROVE Calls'
  <2>1. mpc # "off" /\ UNCHANGED <<cur, zpc, wr, testSkb, wrapVars, mgrVars>>
    BY <1>2, Leaves DEF Ring, Tasklet, RxStart, Rotate, Bind, RouteRelease, Rearm, RouteUnicast, RouteMulticast
  <2> QED
    BY <2>1
<1>3. ASSUME NEW i \in Ifaces, Reserve(i) PROVE Calls'
  <2>1. UNCHANGED <<held, cur, testSkb, selftest, mpc>> /\ zpc[i] = "reserve"
    BY <1>3 DEF Reserve
  <2>2. CASE zpc' = [zpc EXCEPT ![i] = "release"] /\ wr' = wr
    BY <2>1, <2>2
  <2>3. CASE zpc' = [zpc EXCEPT ![i] = "check"] /\ \E w \in Wrappers : wr' = [wr EXCEPT ![i] = w]
    BY <2>1, <2>3, Buffers
  <2> QED
    BY <1>3, <2>2, <2>3 DEF Reserve, ZGoto
<1>4. ASSUME NEW i \in Ifaces, Check(i) PROVE Calls'
  BY <1>4 DEF Check, ZGoto
<1>5. ASSUME NEW i \in Ifaces, SelfTest(i) PROVE Calls'
  <2>1. UNCHANGED <<held, cur, wr, mpc>> /\ zpc[i] = "selftest"
    BY <1>5 DEF SelfTest
  <2>2. CASE zpc' = [zpc EXCEPT ![i] = "unreserve"] /\ testSkb' = testSkb
    BY <1>5, <2>1, <2>2 DEF SelfTest
  <2>3. CASE \E s \in Skbs : /\ zpc' = [zpc EXCEPT ![i] = "testfree"] /\ selftest' = selftest
                             /\ testSkb' = [testSkb EXCEPT ![i] = s]
    BY <2>1, <2>3, Buffers
  <2>4. \A b \in Pool : CloneOf([buf |-> b, flag |-> PoolFlag]) \in Skbs
    BY Buffers, Cloned
  <2> QED
    BY <1>5, <2>2, <2>3, <2>4 DEF SelfTest, ZGoto
<1>6. ASSUME NEW i \in Ifaces, TestFree(i) PROVE Calls'
  BY <1>6 DEF TestFree, Kfree, ZGoto
<1>7. ASSUME NEW i \in Ifaces, Verdict(i) PROVE Calls'
  BY <1>7 DEF Verdict, Kfree, ZGoto
<1>8. ASSUME NEW i \in Ifaces, Acquire(i) PROVE Calls'
  BY <1>8 DEF Acquire, ZGoto
<1>9. ASSUME NEW i \in Ifaces, Unreserve(i) PROVE Calls'
  BY <1>9 DEF Unreserve, WrapperFree, ZGoto
<1>10. ASSUME NEW i \in Ifaces, Release(i) PROVE Calls'
  BY <1>10 DEF Release, Kfree, ZGoto
<1>11. ASSUME NEW i \in Ifaces, DriverDrop(i) PROVE Calls'
  BY <1>11 DEF DriverDrop, Kfree
<1>12. ASSUME NEW i \in Ifaces, Deliver(i) PROVE Calls'
  <2>1. PICK f \in held[i], label \in {"reserve", "release"} :
          /\ held' = [held EXCEPT ![i] = @ \ {f}]
          /\ cur' = [cur EXCEPT ![i] = f]
          /\ zpc' = [zpc EXCEPT ![i] = label]
    BY <1>12, Zenon DEF Deliver, ZGoto
  <2>2. f # NoSkb
    BY Buffers
  <2>3. UNCHANGED <<wr, testSkb, selftest, mpc>> /\ zpc[i] = "idle" /\ mpc # "off"
    BY <1>12 DEF Deliver
  <2> QED
    BY <2>1, <2>2, <2>3
<1>13. ASSUME NEW w \in Wrappers, StackFree(w) PROVE Calls'
  BY <1>13, Leaves
<1>14. ASSUME Off PROVE Calls'
  BY <1>14 DEF Off
<1>15. ASSUME Drained PROVE Calls'
  BY <1>15 DEF Drained
<1>16. ASSUME DrainPoll PROVE Calls'
  BY <1>16 DEF DrainPoll
<1>17. ASSUME DrainTimeout PROVE Calls'
  BY <1>17 DEF DrainTimeout
<1>18. ASSUME Deinit PROVE Calls'
  BY <1>18 DEF Deinit
<1>19. ASSUME On PROVE Calls'
  BY <1>19 DEF On
<1>20. ASSUME Resume PROVE Calls'
  BY <1>20 DEF Resume
<1>21. ASSUME StartFails PROVE Calls'
  BY <1>21 DEF StartFails
<1> QED
  BY <1>1, <1>2, <1>3, <1>4, <1>5, <1>6, <1>7, <1>8, <1>9, <1>10, <1>11, <1>12, <1>13, <1>14, <1>15, <1>16, <1>17, <1>18, <1>19, <1>20, <1>21 DEF Next, Receive, Driver, Manager

LEMMA WrappedStep ==
  ASSUME ControlTypes, Ring, Calls, Wrapped, Gate, Next
  PROVE  Wrapped'
<1> USE DEF ControlTypes, NetTypes, WrapTypes, Wrapped, Calls, Reserved, Testing, bufVars, ringVars, rxVars, netVars, wrapVars, mgrVars
<1>1. ASSUME HwReceive PROVE Wrapped'
  BY <1>1, Leaves
<1>2. ASSUME Tasklet PROVE Wrapped'
  BY <1>2, Leaves
<1>3. ASSUME NEW i \in Ifaces, Reserve(i) PROVE Wrapped'
  <2>1. UNCHANGED <<clone, selftest>> /\ zpc[i] = "reserve"
    BY <1>3 DEF Reserve
  <2>2. CASE UNCHANGED <<wr, used, outstanding>>
    BY <2>1, <2>2
  <2>3. ASSUME NEW w \in Wrappers \ used, wr' = [wr EXCEPT ![i] = w], used' = used \cup {w},
               outstanding' = outstanding + 1
        PROVE  Wrapped'
    <3>1. outstanding' = Cardinality(used')
      BY <2>3, WrapperCount
    <3>2. clone[w] = NoSkb
      BY <2>3
    <3> QED
      BY <2>1, <2>3, <3>1, <3>2
  <2> QED
    BY <1>3, <2>2, <2>3, Zenon DEF Reserve
<1>4. ASSUME NEW i \in Ifaces, Check(i) PROVE Wrapped'
  BY <1>4 DEF Check, ZGoto
<1>5. ASSUME NEW i \in Ifaces, SelfTest(i) PROVE Wrapped'
  BY <1>5 DEF SelfTest, ZGoto
<1>6. ASSUME NEW i \in Ifaces, TestFree(i) PROVE Wrapped'
  BY <1>6 DEF TestFree, Kfree, ZGoto
<1>7. ASSUME NEW i \in Ifaces, Verdict(i) PROVE Wrapped'
  BY <1>7 DEF Verdict, Kfree, ZGoto
<1>8. ASSUME NEW i \in Ifaces, Acquire(i) PROVE Wrapped'
  BY <1>8 DEF Acquire, ZGoto
<1>9. ASSUME NEW i \in Ifaces, Unreserve(i) PROVE Wrapped'
  <2>1. zpc[i] = "unreserve" /\ wr[i] # None /\ wr[i] \in used /\ clone[wr[i]] = NoSkb
    BY <1>9 DEF Unreserve
  <2>2. outstanding' = Cardinality(used') /\ used' = used \ {wr[i]}
    BY <1>9, <2>1, WrapperCount DEF Unreserve, WrapperFree
  <2>3. wr' = [wr EXCEPT ![i] = None] /\ UNCHANGED <<clone, selftest>>
    BY <1>9 DEF Unreserve
  <2> QED
    BY <2>1, <2>2, <2>3
<1>10. ASSUME NEW i \in Ifaces, Release(i) PROVE Wrapped'
  BY <1>10 DEF Release, Kfree, ZGoto
<1>11. ASSUME NEW i \in Ifaces, Driver(i) PROVE Wrapped'
  BY <1>11, Leaves
<1>12. ASSUME NEW w \in Wrappers, FreeClone(w) PROVE Wrapped'
  BY <1>12 DEF FreeClone, Kfree, OfStack
<1>13. ASSUME NEW w \in Wrappers, FreeWrapper(w) PROVE Wrapped'
  <2>1. w \in used /\ clone[w] = NoSkb /\ \A i \in Ifaces : wr[i] # w
    BY <1>13 DEF FreeWrapper, OfStack
  <2>2. outstanding' = Cardinality(used') /\ used' = used \ {w}
    BY <1>13, <2>1, WrapperCount DEF FreeWrapper, WrapperFree
  <2>3. UNCHANGED <<wr, clone, selftest>>
    BY <1>13 DEF FreeWrapper
  <2> QED
    BY <2>1, <2>2, <2>3
<1>14. ASSUME Manager PROVE Wrapped'
  BY <1>14, Leaves
<1> QED
  BY <1>1, <1>2, <1>3, <1>4, <1>5, <1>6, <1>7, <1>8, <1>9, <1>10, <1>11, <1>12, <1>13, <1>14 DEF Next, Receive, StackFree

LEMMA GateStep ==
  ASSUME ControlTypes, Ring, Calls, Wrapped, Gate, Next
  PROVE  Gate'
<1> USE DEF ControlTypes, GateTypes, WrapTypes, Wrapped, Gate, bufVars, ringVars, rxVars, netVars, wrapVars, mgrVars
<1>1. ASSUME HwReceive PROVE Gate'
  BY <1>1, Leaves
<1>2. ASSUME Tasklet PROVE Gate'
  BY <1>2, Leaves
<1>3. ASSUME NEW i \in Ifaces, Reserve(i) PROVE Gate'
  BY <1>3 DEF Reserve, ZGoto
<1>4. ASSUME NEW i \in Ifaces, Check(i) PROVE Gate'
  BY <1>4 DEF Check, ZGoto
<1>5. ASSUME NEW i \in Ifaces, SelfTest(i) PROVE Gate'
  BY <1>5 DEF SelfTest, ZGoto
<1>6. ASSUME NEW i \in Ifaces, TestFree(i) PROVE Gate'
  BY <1>6 DEF TestFree, Kfree, ZGoto
<1>7. ASSUME NEW i \in Ifaces, Verdict(i) PROVE Gate'
  BY <1>7 DEF Verdict, Kfree, ZGoto
<1>8. ASSUME NEW i \in Ifaces, Acquire(i) PROVE Gate'
  BY <1>8 DEF Acquire, ZGoto
<1>9. ASSUME NEW i \in Ifaces, Unreserve(i) PROVE Gate'
  BY <1>9 DEF Unreserve, WrapperFree, ZGoto
<1>10. ASSUME NEW i \in Ifaces, Release(i) PROVE Gate'
  BY <1>10 DEF Release, Kfree, ZGoto
<1>11. ASSUME NEW i \in Ifaces, Driver(i) PROVE Gate'
  BY <1>11, Leaves
<1>12. ASSUME NEW w \in Wrappers, FreeClone(w) PROVE Gate'
  BY <1>12 DEF FreeClone, Kfree, OfStack
<1>13. ASSUME NEW w \in Wrappers, FreeWrapper(w) PROVE Gate'
  BY <1>13 DEF FreeWrapper, WrapperFree, OfStack
<1>14. ASSUME Off PROVE Gate'
  BY <1>14, WrapperCount DEF Off
<1>15. ASSUME Drained PROVE Gate'
  BY <1>15 DEF Drained
<1>16. ASSUME DrainPoll PROVE Gate'
  BY <1>16, WrapperCount DEF DrainPoll
<1>17. ASSUME DrainTimeout PROVE Gate'
  BY <1>17, WrapperCount DEF DrainTimeout
<1>18. ASSUME Deinit PROVE Gate'
  BY <1>18 DEF Deinit
<1>19. ASSUME On PROVE Gate'
  BY <1>19 DEF On
<1>20. ASSUME Resume PROVE Gate'
  BY <1>20 DEF Resume
<1>21. ASSUME StartFails PROVE Gate'
  BY <1>21 DEF StartFails
<1> QED
  BY <1>1, <1>2, <1>3, <1>4, <1>5, <1>6, <1>7, <1>8, <1>9, <1>10, <1>11, <1>12, <1>13, <1>14, <1>15, <1>16, <1>17, <1>18, <1>19, <1>20, <1>21 DEF Next, Receive, StackFree, Manager

LEMMA InitGInv == Init => GInv
<1> SUFFICES ASSUME Init PROVE GInv
  OBVIOUS
<1> USE Buffers, Indices DEF Init
<1>1. RingTypes
  BY DEF RingTypes
<1>7. RxTypes
  BY DEF RxTypes, RxPCs
<1>8. NetTypes
  <2>1. held \in [Ifaces -> SUBSET Skbs]
    OBVIOUS
  <2>2. zpc \in [Ifaces -> NetPCs]
    BY DEF NetPCs
  <2>3. cur \in [Ifaces -> Skbs \cup {NoSkb}] /\ testSkb \in [Ifaces -> Skbs \cup {NoSkb}]
    OBVIOUS
  <2>4. wr \in [Ifaces -> Wrappers \cup {None}]
    OBVIOUS
  <2> QED
    BY <2>1, <2>2, <2>3, <2>4 DEF NetTypes
<1>2. WrapTypes
  <2>1. clone \in [Wrappers -> Skbs \cup {NoSkb}]
    OBVIOUS
  <2> QED
    BY <2>1 DEF WrapTypes
<1>9. GateTypes
  BY DEF GateTypes, MgrPCs
<1>3. Ring
  BY DEF Ring
<1>4. Calls
  BY DEF Calls, Reserved, Testing
<1>5. Wrapped
  BY FS_EmptySet DEF Wrapped
<1>6. Gate
  BY DEF Gate
<1> QED
  BY <1>1, <1>2, <1>3, <1>4, <1>5, <1>6, <1>7, <1>8, <1>9 DEF GInv, ControlTypes

LEMMA GInvStep == GInv /\ [Next]_vars => GInv'
<1>1. ASSUME GInv, Next PROVE GInv'
  BY <1>1, RingTypesStep, RxTypesStep, NetTypesStep, WrapTypesStep, GateTypesStep, RingStep, CallsStep,
     WrappedStep, GateStep DEF GInv, ControlTypes
<1>2. ASSUME GInv, UNCHANGED vars PROVE GInv'
  <2>1. UNCHANGED <<bufVars, ringVars, rxVars, netVars, wrapVars, mgrVars>>
    BY <1>2 DEF vars
  <2> USE DEF bufVars, ringVars, rxVars, netVars, wrapVars, mgrVars
  <2>2. ControlTypes'
    BY <1>2, <2>1 DEF GInv, ControlTypes, RingTypes, RxTypes, NetTypes, WrapTypes, GateTypes
  <2>3. Ring' /\ Calls'
    BY <1>2, <2>1 DEF GInv, Ring, Calls
  <2>4. Wrapped' /\ Gate'
    BY <1>2, <2>1 DEF GInv, Wrapped, Gate
  <2> QED
    BY <2>2, <2>3, <2>4 DEF GInv
<1> QED
  BY <1>1, <1>2

---------------------------------------------------------------------------
\* The control part of the invariant holds in every reachable state, whatever
\* the interfaces, the sizes of ring and pools, and the frames that are copied.
THEOREM GateInvariant == Spec => []GInv
BY InitGInv, GInvStep, PTL DEF Spec

\* QuiescedIsDrained: from a successful quiesce to the end of wifi_on no wrapper
\* is reserved and no pbuf holds a clone, and an interface that is off has no
\* descriptor of the ring left (wifi_off, wlan_rx_dma_deinit).
THEOREM QuiesceDrains == Spec => []QuiescedIsDrained
<1>1. GInv => QuiescedIsDrained
  <2> SUFFICES ASSUME GInv, mpc \in {"stopping", "off", "starting"}
               PROVE  /\ used = {} /\ \A w \in Wrappers : clone[w] = NoSkb
                      /\ mpc = "off" => \A s \in Slots : desc[s] = None
    BY DEF QuiescedIsDrained
  <2>1. used = {}
    BY DEF GInv, Gate
  <2>2. \A w \in Wrappers : clone[w] = NoSkb
    BY <2>1 DEF GInv, Wrapped
  <2>3. mpc = "off" => \A s \in Slots : desc[s] = None
    BY DEF GInv, Ring
  <2> QED
    BY <2>1, <2>2, <2>3
<1> QED
  BY <1>1, GateInvariant, PTL

---------------------------------------------------------------------------
\* What freeing an skb does to the blocks, when a block has two holders at most
\* and no other holder of an ordinary heap block.
LEMMA KfreeEffect ==
  ASSUME live \in [Bufs -> BOOLEAN], refs \in [Bufs -> Nat], NEW s \in Skbs, Kfree(s)
  PROVE  /\ live' \in [Bufs -> BOOLEAN] /\ refs' \in [Bufs -> Nat]
         /\ \A b \in Bufs \ {s.buf} : live'[b] = live[b] /\ refs'[b] = refs[b]
         /\ refs[s.buf] = 1 => ~live'[s.buf] /\ refs'[s.buf] = 0
         /\ refs[s.buf] = 2 /\ live[s.buf] /\ s.flag # HeapFlag => live'[s.buf] /\ refs'[s.buf] = 1
<1> DEFINE kept == live[s.buf] /\ s.flag # HeapFlag /\ refs[s.buf] > 1
<1>1. s.buf \in Bufs /\ refs[s.buf] \in Nat /\ kept \in BOOLEAN
  BY Buffers
<1>2. /\ live' = [live EXCEPT ![s.buf] = kept]
      /\ refs' = [refs EXCEPT ![s.buf] = IF kept THEN refs[s.buf] - 1 ELSE 0]
  BY DEF Kfree
<1>3. kept => refs[s.buf] > 1
  OBVIOUS
<1>4. refs[s.buf] = 1 => ~kept
  OBVIOUS
<1>5. refs[s.buf] = 2 /\ live[s.buf] /\ s.flag # HeapFlag => kept
  OBVIOUS
<1> HIDE DEF kept
<1> QED
  BY <1>1, <1>2, <1>3, <1>4, <1>5

LEMMA AllocEffect ==
  ASSUME live \in [Bufs -> BOOLEAN], refs \in [Bufs -> Nat], NEW a \in Bufs, Alloc(a)
  PROVE  /\ live' \in [Bufs -> BOOLEAN] /\ refs' \in [Bufs -> Nat]
         /\ \A b \in Bufs \ {a} : live'[b] = live[b] /\ refs'[b] = refs[b]
         /\ live'[a] /\ refs'[a] = 1
BY DEF Alloc

\* The holders of a block in the next state decide whether it is tidy then.
LEMMA Settled ==
  ASSUME NEW b \in Bufs, Tidy(b),
         OneSlot(b)', OneHeld(b)', OneCall(b)', OnePbuf(b)',
         InSlot(b)' <=> InSlot(b), InBase(b)' <=> InBase(b), InFrame(b)' <=> InFrame(b),
         InHeld(b)' <=> InHeld(b), InCall(b)' <=> InCall(b), InTest(b)' <=> InTest(b),
         InPbuf(b)' <=> InPbuf(b), InProbe(b)' <=> InProbe(b),
         live'[b] = live[b], refs'[b] = refs[b]
  PROVE  Tidy(b)'
<1>1. Apart(b)'
  BY DEF Tidy, Apart, Queued, HasClone
<1>2. (HasOriginal(b)' <=> HasOriginal(b)) /\ (HasClone(b)' <=> HasClone(b))
  BY DEF HasOriginal, HasClone, Queued
<1>3. Counted(b)'
  BY <1>2 DEF Tidy, Counted, One
<1> QED
  BY <1>1, <1>3 DEF Tidy

\* A step that moves no buffer.
LEMMA Still ==
  ASSUME NEW b \in Bufs, Tidy(b), UNCHANGED <<live, refs, slotSkb, rxFrame, held, cur, testSkb, clone>>,
         InBase(b)' <=> InBase(b), InTest(b)' <=> InTest(b)
  PROVE  Tidy(b)'
<1>1. OneSlot(b)' /\ OneHeld(b)' /\ OneCall(b)' /\ OnePbuf(b)'
  BY DEF Tidy, Apart, OneSlot, OneHeld, OneCall, OnePbuf
<1>2. /\ InSlot(b)' <=> InSlot(b)
      /\ InFrame(b)' <=> InFrame(b)
      /\ InHeld(b)' <=> InHeld(b)
      /\ InCall(b)' <=> InCall(b)
      /\ InPbuf(b)' <=> InPbuf(b)
      /\ InProbe(b)' <=> InProbe(b)
  BY DEF InSlot, InFrame, InHeld, InCall, InPbuf, InProbe
<1> QED
  BY <1>1, <1>2, Settled

\* How many hold a block, from where it is.
LEMMA Holders ==
  ASSUME NEW b \in Bufs, Tidy(b)
  PROVE  /\ Queued(b) => live[b] /\ refs[b] = 1 /\ ~InCall(b) /\ ~InTest(b) /\ ~InPbuf(b) /\ ~InProbe(b)
         /\ ~live[b] => /\ ~Queued(b) /\ ~InCall(b) /\ ~InTest(b) /\ ~InPbuf(b) /\ ~InProbe(b)
                        /\ refs[b] = 0
         /\ InCall(b) => live[b] /\ refs[b] = (IF InPbuf(b) THEN 2 ELSE 1) /\ ~InTest(b) /\ ~InProbe(b)
         /\ InPbuf(b) => live[b] /\ refs[b] = (IF InCall(b) THEN 2 ELSE 1) /\ ~Queued(b) /\ ~InTest(b) /\ ~InProbe(b)
         /\ InProbe(b) => live[b] /\ refs[b] = (IF InTest(b) THEN 2 ELSE 1) /\ ~Queued(b) /\ ~InCall(b) /\ ~InPbuf(b)
BY DEF Tidy, Apart, Counted, HasOriginal, HasClone, Queued, One

\* Where a block is when a step leaves the container alone.
LEMMA Same ==
  ASSUME NEW b
  PROVE  /\ slotSkb' = slotSkb => (InSlot(b)' <=> InSlot(b)) /\ (OneSlot(b)' <=> OneSlot(b))
         /\ UNCHANGED <<rxPc, zeroCopy, base>> => (InBase(b)' <=> InBase(b))
         /\ rxFrame' = rxFrame => (InFrame(b)' <=> InFrame(b))
         /\ held' = held => (InHeld(b)' <=> InHeld(b)) /\ (OneHeld(b)' <=> OneHeld(b))
         /\ cur' = cur => (InCall(b)' <=> InCall(b)) /\ (OneCall(b)' <=> OneCall(b))
         /\ UNCHANGED <<zpc, testSkb>> => (InTest(b)' <=> InTest(b))
         /\ clone' = clone => (InPbuf(b)' <=> InPbuf(b)) /\ (OnePbuf(b)' <=> OnePbuf(b))
         /\ testSkb' = testSkb => (InProbe(b)' <=> InProbe(b))
<1>1. slotSkb' = slotSkb => (InSlot(b)' <=> InSlot(b)) /\ (OneSlot(b)' <=> OneSlot(b))
  BY DEF InSlot, OneSlot
<1>2. UNCHANGED <<rxPc, zeroCopy, base>> => (InBase(b)' <=> InBase(b))
  BY DEF InBase
<1>3. rxFrame' = rxFrame => (InFrame(b)' <=> InFrame(b))
  BY DEF InFrame
<1>4. held' = held => (InHeld(b)' <=> InHeld(b)) /\ (OneHeld(b)' <=> OneHeld(b))
  BY DEF InHeld, OneHeld
<1>5. cur' = cur => (InCall(b)' <=> InCall(b)) /\ (OneCall(b)' <=> OneCall(b))
  BY DEF InCall, OneCall
<1>6. UNCHANGED <<zpc, testSkb>> => (InTest(b)' <=> InTest(b))
  BY DEF InTest
<1>7. clone' = clone => (InPbuf(b)' <=> InPbuf(b)) /\ (OnePbuf(b)' <=> OnePbuf(b))
  BY DEF InPbuf, OnePbuf
<1>8. testSkb' = testSkb => (InProbe(b)' <=> InProbe(b))
  BY DEF InProbe
<1> QED
  BY <1>1, <1>2, <1>3, <1>4, <1>5, <1>6, <1>7, <1>8

\* Where a block is when a container takes or gives up the skb of block a.
LEMMA SlotSwapped ==
  ASSUME slotSkb \in [Slots -> Bufs \cup {None}], NEW r \in Slots, NEW a, NEW old,
         slotSkb[r] = old, slotSkb' = [slotSkb EXCEPT ![r] = a], ~InSlot(a),
         NEW b, OneSlot(b)
  PROVE  /\ InSlot(b)' <=> b = a \/ (InSlot(b) /\ b # old)
         /\ OneSlot(b)'
BY DEF InSlot, OneSlot

LEMMA HeldTaken ==
  ASSUME held \in [Ifaces -> SUBSET Skbs], NEW i \in Ifaces, NEW f \in Skbs,
         held' = [held EXCEPT ![i] = @ \cup {f}], ~InHeld(f.buf),
         NEW b, OneHeld(b)
  PROVE  /\ InHeld(b)' <=> b = f.buf \/ InHeld(b)
         /\ OneHeld(b)'
BY DEF InHeld, OneHeld

LEMMA HeldTakenBoth ==
  ASSUME held \in [Ifaces -> SUBSET Skbs], NEW i \in Ifaces, NEW j \in Ifaces \ {i},
         NEW f \in Skbs, NEW g \in Skbs, f.buf # g.buf,
         held' = [held EXCEPT ![i] = @ \cup {f}, ![j] = @ \cup {g}],
         ~InHeld(f.buf), ~InHeld(g.buf),
         NEW b, OneHeld(b)
  PROVE  /\ InHeld(b)' <=> b \in {f.buf, g.buf} \/ InHeld(b)
         /\ OneHeld(b)'
<1>1. /\ held'[i] = held[i] \cup {f}
      /\ held'[j] = held[j] \cup {g}
      /\ \A k \in Ifaces \ {i, j} : held'[k] = held[k]
  OBVIOUS
<1>2. InHeld(b)' <=> b \in {f.buf, g.buf} \/ InHeld(b)
  BY <1>1 DEF InHeld
<1>3. OneHeld(b)'
  BY <1>1 DEF InHeld, OneHeld
<1> QED
  BY <1>2, <1>3

LEMMA HeldGiven ==
  ASSUME held \in [Ifaces -> SUBSET Skbs], NEW i \in Ifaces, NEW f \in held[i],
         held' = [held EXCEPT ![i] = @ \ {f}], OneHeld(f.buf),
         NEW b, OneHeld(b)
  PROVE  /\ InHeld(b)' <=> InHeld(b) /\ b # f.buf
         /\ OneHeld(b)'
BY DEF InHeld, OneHeld

LEMMA CallTaken ==
  ASSUME cur \in [Ifaces -> Skbs \cup {NoSkb}], NEW i \in Ifaces, NEW f \in Skbs,
         cur[i] = NoSkb, cur' = [cur EXCEPT ![i] = f], ~InCall(f.buf),
         NEW b \in Bufs, OneCall(b)
  PROVE  /\ InCall(b)' <=> b = f.buf \/ InCall(b)
         /\ OneCall(b)'
BY Buffers DEF InCall, OneCall

LEMMA CallGiven ==
  ASSUME cur \in [Ifaces -> Skbs \cup {NoSkb}], NEW i \in Ifaces, NEW f,
         cur[i] = f, cur' = [cur EXCEPT ![i] = NoSkb], OneCall(f.buf),
         NEW b \in Bufs, OneCall(b)
  PROVE  /\ InCall(b)' <=> InCall(b) /\ b # f.buf
         /\ OneCall(b)'
BY Buffers DEF InCall, OneCall

LEMMA PbufTaken ==
  ASSUME clone \in [Wrappers -> Skbs \cup {NoSkb}], NEW w \in Wrappers, NEW f \in Skbs,
         clone[w] = NoSkb, clone' = [clone EXCEPT ![w] = f], ~InPbuf(f.buf),
         NEW b \in Bufs, OnePbuf(b)
  PROVE  /\ InPbuf(b)' <=> b = f.buf \/ InPbuf(b)
         /\ OnePbuf(b)'
BY Buffers DEF InPbuf, OnePbuf

LEMMA PbufGiven ==
  ASSUME clone \in [Wrappers -> Skbs \cup {NoSkb}], NEW w \in Wrappers, NEW f,
         clone[w] = f, clone' = [clone EXCEPT ![w] = NoSkb], OnePbuf(f.buf),
         NEW b \in Bufs, OnePbuf(b)
  PROVE  /\ InPbuf(b)' <=> InPbuf(b) /\ b # f.buf
         /\ OnePbuf(b)'
BY Buffers DEF InPbuf, OnePbuf

LEMMA TestSame ==
  ASSUME zpc \in [Ifaces -> NetPCs], NEW i \in Ifaces, NEW label, zpc[i] # "testfree", label # "testfree",
         zpc' = [zpc EXCEPT ![i] = label], testSkb' = testSkb, NEW b
  PROVE  InTest(b)' <=> InTest(b)
BY DEF InTest

\* The skbs of the self-test belong to the one call that runs it.
LEMMA Sole ==
  ASSUME ControlTypes, Calls, NEW i \in Ifaces, zpc[i] \in Testing
  PROVE  /\ \A k \in Ifaces \ {i} : zpc[k] \notin Testing /\ testSkb[k] = NoSkb
         /\ \A b \in Bufs : InProbe(b) <=> testSkb[i].buf = b
         /\ \A b \in Bufs : InTest(b) <=> zpc[i] = "testfree" /\ testSkb[i].buf = b
<1>1. \A k \in Ifaces \ {i} : zpc[k] \notin Testing /\ testSkb[k] = NoSkb
  BY DEF Calls, Testing
<1>2. \A b \in Bufs : InProbe(b) <=> testSkb[i].buf = b
  BY <1>1, Buffers DEF InProbe
<1>3. \A b \in Bufs : InTest(b) <=> zpc[i] = "testfree" /\ testSkb[i].buf = b
  BY <1>1, Buffers DEF InTest
<1> QED
  BY <1>1, <1>2, <1>3

LEMMA TidyStep ==
  ASSUME ~LargeMulticast, BInv, NEW b \in Bufs, Next
  PROVE  Tidy(b)'
<1> USE DEF bufVars, ringVars, rxVars, netVars, wrapVars, mgrVars
<1>0. /\ Tidy(b) /\ ControlTypes /\ Ring /\ Calls /\ Wrapped /\ Gate
      /\ refs \in [Bufs -> Nat] /\ \A a \in Bufs : Tidy(a)
      /\ \A i \in Ifaces : testSkb[i].flag = PoolFlag
      /\ \A w \in Wrappers : clone[w].flag # HeapFlag
  BY DEF BInv, GInv, Blocks, Flags
<1>1. ASSUME HwReceive PROVE Tidy(b)'
  <2>1. UNCHANGED <<live, refs, slotSkb, rxFrame, held, cur, testSkb, clone>>
    BY <1>1 DEF HwReceive
  <2>2. (InBase(b)' <=> InBase(b)) /\ (InTest(b)' <=> InTest(b))
    BY <1>1 DEF HwReceive, InBase, InTest
  <2> QED
    BY <1>0, <2>1, <2>2, Still
<1>2. ASSUME RxStart PROVE Tidy(b)'
  <2>1. UNCHANGED <<live, refs, slotSkb, rxFrame, held, cur, testSkb, clone>>
    BY <1>2 DEF RxStart
  <2>2. (InBase(b)' <=> InBase(b)) /\ (InTest(b)' <=> InTest(b))
    BY <1>2 DEF RxStart, RxGoto, InBase, InTest
  <2> QED
    BY <1>0, <2>1, <2>2, Still
<1>3. ASSUME Rotate PROVE Tidy(b)'
  <2>1. /\ rxPc = "rotate" /\ rxPc' = "bind" /\ ~zeroCopy /\ base = slotSkb[index]
        /\ UNCHANGED <<index, pending, rxFrame, held, cur, zpc, testSkb, clone>>
    BY <1>3, <1>0 DEF Rotate, RxGoto, Ring
  <2>2. ~InBase(b)
    BY <2>1 DEF InBase
  <2>3. CASE UNCHANGED <<live, refs, slotSkb, base, zeroCopy>>
    <3>1. (InBase(b)' <=> InBase(b)) /\ (InTest(b)' <=> InTest(b))
      BY <2>1, <2>2, <2>3, Same DEF InBase
    <3> QED
      BY <1>0, <2>1, <2>3, <3>1, Still
  <2>4. ASSUME NEW a \in Heap, ~live[a], Alloc(a), slotSkb' = [slotSkb EXCEPT ![index] = a],
               IF slotSkb[index] = None THEN UNCHANGED <<base, zeroCopy>>
                                        ELSE base' = slotSkb[index] /\ zeroCopy' = TRUE
        PROVE  Tidy(b)'
    <3>1. a \in Bufs /\ Tidy(a) /\ index \in Slots /\ slotSkb \in [Slots -> Bufs \cup {None}]
      BY <1>0, Buffers DEF ControlTypes, RingTypes
    <3>2. ~Queued(a) /\ ~InCall(a) /\ ~InTest(a) /\ ~InPbuf(a) /\ ~InProbe(a)
      BY <2>4, <3>1, Holders
    <3>3. PICK old : old = slotSkb[index]
      OBVIOUS
    <3>4. (InSlot(b)' <=> b = a \/ (InSlot(b) /\ b # old)) /\ OneSlot(b)'
      BY <1>0, <2>4, <3>1, <3>2, <3>3, SlotSwapped DEF Tidy, Apart, Queued
    <3>5. InBase(b)' <=> b = old
      BY <2>1, <2>4, <3>3, Buffers DEF InBase
    <3>6. b = old => InSlot(b)
      BY <3>1, <3>3 DEF InSlot
    <3>7. IF b = a THEN live'[b] /\ refs'[b] = 1 ELSE live'[b] = live[b] /\ refs'[b] = refs[b]
      BY <1>0, <2>4, <3>1, AllocEffect DEF ControlTypes, RingTypes
    <3> QED
      BY <1>0, <2>1, <2>2, <3>2, <3>4, <3>5, <3>6, <3>7, Same, Holders DEF Tidy, Apart, Counted, HasOriginal, HasClone, Queued, One
  <2> QED
    BY <1>3, <2>3, <2>4, Zenon DEF Rotate, IsNext, FreeIn
<1>4. ASSUME Bind PROVE Tidy(b)'
  <2>1. /\ rxPc = "bind" /\ rxPc' # "bind" /\ rxFrame = NoSkb
        /\ UNCHANGED <<slotSkb, base, zeroCopy, held, cur, zpc, testSkb, clone>>
    BY <1>4, <1>0 DEF Bind, RxGoto, Ring
  <2>2. ~InFrame(b) /\ ~InBase(b)'
    BY <2>1, Buffers DEF InFrame, InBase
  <2>3. CASE zeroCopy /\ rxFrame' = [buf |-> base, flag |-> DmaFlag] /\ UNCHANGED bufVars
    <3>1. InFrame(b)' <=> InBase(b)
      BY <2>1, <2>3 DEF InFrame, InBase
    <3> QED
      BY <1>0, <2>1, <2>2, <2>3, <3>1, Same DEF Tidy, Apart, Counted, HasOriginal, HasClone, Queued, One
  <2>4. ASSUME ~zeroCopy, NEW a \in Pool, ~live[a], Alloc(a), rxFrame' = [buf |-> a, flag |-> PoolFlag]
        PROVE  Tidy(b)'
    <3>1. a \in Bufs /\ Tidy(a)
      BY <1>0, Buffers
    <3>2. ~Queued(a) /\ ~InCall(a) /\ ~InTest(a) /\ ~InPbuf(a) /\ ~InProbe(a)
      BY <2>4, <3>1, Holders
    <3>3. (InFrame(b)' <=> b = a) /\ ~InBase(b)
      BY <2>4 DEF InFrame, InBase
    <3>4. IF b = a THEN live'[b] /\ refs'[b] = 1 ELSE live'[b] = live[b] /\ refs'[b] = refs[b]
      BY <1>0, <2>4, <3>1, AllocEffect DEF ControlTypes, RingTypes
    <3> QED
      BY <1>0, <2>1, <2>2, <3>2, <3>3, <3>4, Same DEF Tidy, Apart, Counted, HasOriginal, HasClone, Queued, One
  <2>5. CASE ~zeroCopy /\ UNCHANGED <<live, refs, rxFrame>>
    <3>1. ~InBase(b)
      BY <2>5 DEF InBase
    <3> QED
      BY <1>0, <2>1, <2>2, <2>5, <3>1, Same, Still
  <2> QED
    BY <1>4, <2>3, <2>4, <2>5, Zenon DEF Bind, IsNext, FreeIn
<1>5. ASSUME RouteRelease PROVE Tidy(b)'
  <2>1. /\ rxPc = "route" /\ rxPc' = "rearm" /\ rxFrame' = NoSkb
        /\ UNCHANGED <<slotSkb, held, cur, zpc, testSkb, clone>>
    BY <1>5 DEF RouteRelease, RxGoto
  <2>2. rxFrame \in Skbs
    BY <1>0, <2>1 DEF ControlTypes, RxTypes, Ring
  <2>3. PICK f \in Skbs : f = rxFrame
    BY <2>2
  <2>4. f.buf \in Bufs /\ Tidy(f.buf) /\ InFrame(f.buf)
    BY <1>0, <2>3, Buffers DEF InFrame
  <2>5. ~InBase(b) /\ ~InBase(b)' /\ (InFrame(b) <=> b = f.buf) /\ ~InFrame(b)'
    BY <2>1, <2>3, Buffers DEF InBase, InFrame
  <2>6. Kfree(f)
    BY <1>5, <2>3 DEF RouteRelease, Kfree
  <2>7. refs[f.buf] = 1
    BY <2>4, Holders DEF Queued
  <2>8. IF b = f.buf THEN ~live'[b] /\ refs'[b] = 0 ELSE live'[b] = live[b] /\ refs'[b] = refs[b]
    BY <1>0, <2>6, <2>7, KfreeEffect DEF ControlTypes, RingTypes
  <2> QED
    BY <1>0, <2>1, <2>5, <2>8, Same DEF Tidy, Apart, Counted, HasOriginal, HasClone, Queued, One
<1>6. ASSUME Rearm PROVE Tidy(b)'
  <2>1. UNCHANGED <<live, refs, slotSkb, rxFrame, held, cur, testSkb, clone>>
    BY <1>6 DEF Rearm
  <2>2. (InBase(b)' <=> InBase(b)) /\ (InTest(b)' <=> InTest(b))
    BY <1>6 DEF Rearm, RxGoto, InBase, InTest
  <2> QED
    BY <1>0, <2>1, <2>2, Still
<1>7. ASSUME NEW i \in Ifaces, RouteUnicast(i) PROVE Tidy(b)'
  <2>1. /\ rxPc = "route" /\ rxPc' = "rearm" /\ rxFrame' = NoSkb
        /\ UNCHANGED <<slotSkb, live, refs, cur, zpc, testSkb, clone>>
    BY <1>7 DEF RouteUnicast, RxGoto
  <2>2. rxFrame \in Skbs
    BY <1>0, <2>1 DEF ControlTypes, RxTypes, Ring
  <2>3. PICK f \in Skbs : f = rxFrame
    BY <2>2
  <2>4. f.buf \in Bufs /\ Tidy(f.buf) /\ InFrame(f.buf)
    BY <1>0, <2>3, Buffers DEF InFrame
  <2>5. ~InBase(b) /\ ~InBase(b)' /\ (InFrame(b) <=> b = f.buf) /\ ~InFrame(b)'
    BY <2>1, <2>3, Buffers DEF InBase, InFrame
  <2>6. (InHeld(b)' <=> b = f.buf \/ InHeld(b)) /\ OneHeld(b)'
    <3>1. held' = [held EXCEPT ![i] = @ \cup {f}] /\ ~InHeld(f.buf)
      BY <1>7, <2>3, <2>4 DEF RouteUnicast, Tidy, Apart
    <3> QED
      BY <1>0, <3>1, HeldTaken DEF ControlTypes, NetTypes, Tidy, Apart
  <2> QED
    BY <1>0, <2>1, <2>4, <2>5, <2>6, Same DEF Tidy, Apart, Counted, HasOriginal, HasClone, Queued, One
<1>8. ASSUME NEW i \in Ifaces, NEW j \in Ifaces, RouteMulticast(i, j) PROVE Tidy(b)'
  <2>1. /\ rxPc = "route" /\ rxPc' = "rearm" /\ rxFrame' = NoSkb
        /\ UNCHANGED <<slotSkb, base, cur, zpc, testSkb, clone>>
    BY <1>8 DEF RouteMulticast, RxGoto
  <2>2. rxFrame \in Skbs
    BY <1>0, <2>1 DEF ControlTypes, RxTypes, Ring
  <2>3. PICK f \in Skbs : f = rxFrame
    BY <2>2
  <2>4. f.buf \in Bufs /\ Tidy(f.buf) /\ InFrame(f.buf)
    BY <1>0, <2>3, Buffers DEF InFrame
  <2>5. ~InBase(b) /\ ~InBase(b)' /\ (InFrame(b) <=> b = f.buf) /\ ~InFrame(b)'
    BY <2>1, <2>3, Buffers DEF InBase, InFrame
  <2>6. PICK copy \in [buf : Heap, flag : {HeapFlag}] \cup [buf : Pool, flag : {PoolFlag}] :
          /\ ~live[copy.buf] /\ Alloc(copy.buf)
          /\ held' = [held EXCEPT ![i] = @ \cup {rxFrame}, ![j] = @ \cup {copy}]
    BY <1>8, Zenon DEF RouteMulticast, IsNext, FreeIn
  <2>7. copy \in Skbs /\ copy.buf \in Bufs /\ Tidy(copy.buf)
    BY <1>0, Buffers
  <2>8. PICK a : a = copy.buf
    OBVIOUS
  <2>9. ~Queued(a) /\ ~InCall(a) /\ ~InTest(a) /\ ~InPbuf(a) /\ ~InProbe(a)
    BY <2>6, <2>7, <2>8, Holders
  <2>10. a # f.buf /\ ~InHeld(f.buf) /\ ~InHeld(a)
    BY <2>4, <2>9 DEF Queued, Tidy, Apart
  <2>11. (InHeld(b)' <=> b \in {f.buf, a} \/ InHeld(b)) /\ OneHeld(b)'
    <3>1. j \in Ifaces \ {i}
      BY <1>8 DEF RouteMulticast
    <3> QED
      BY <1>0, <2>3, <2>6, <2>7, <2>8, <2>10, <3>1, HeldTakenBoth DEF ControlTypes, NetTypes, Tidy, Apart
  <2>12. IF b = a THEN live'[b] /\ refs'[b] = 1 ELSE live'[b] = live[b] /\ refs'[b] = refs[b]
    BY <1>0, <2>6, <2>7, <2>8, AllocEffect DEF ControlTypes, RingTypes
  <2> QED
    BY <1>0, <2>1, <2>4, <2>5, <2>9, <2>10, <2>11, <2>12, Same DEF Tidy, Apart, Counted, HasOriginal, HasClone, Queued, One
<1>9. ASSUME NEW i \in Ifaces, Reserve(i) PROVE Tidy(b)'
  <2>1. UNCHANGED <<live, refs, slotSkb, rxPc, base, zeroCopy, rxFrame, held, cur, testSkb, clone>>
    BY <1>9 DEF Reserve
  <2>2. zpc[i] = "reserve" /\ zpc' \in {[zpc EXCEPT ![i] = "release"], [zpc EXCEPT ![i] = "check"]}
    BY <1>9 DEF Reserve, ZGoto
  <2>3. InTest(b)' <=> InTest(b)
    BY <1>0, <2>1, <2>2, TestSame DEF ControlTypes, NetTypes
  <2> QED
    BY <1>0, <2>1, <2>3, Same, Still
<1>10. ASSUME NEW i \in Ifaces, Check(i) PROVE Tidy(b)'
  <2>1. UNCHANGED <<live, refs, slotSkb, rxPc, base, zeroCopy, rxFrame, held, cur, testSkb, clone>>
    BY <1>10 DEF Check
  <2>2. /\ zpc[i] = "check"
        /\ zpc' \in {[zpc EXCEPT ![i] = "selftest"], [zpc EXCEPT ![i] = "acquire"], [zpc EXCEPT ![i] = "unreserve"]}
    <3>1. selftest \in {0, 1, 2, 3}
      BY <1>0 DEF ControlTypes, WrapTypes
    <3>2. /\ zpc[i] = "check"
          /\ zpc' = [zpc EXCEPT ![i] = CASE selftest = 0 -> "selftest" [] selftest = 1 -> "acquire"
                                         [] selftest \in {2, 3} -> "unreserve"]
      BY <1>10 DEF Check, ZGoto
    <3>3. selftest = 0 => zpc' = [zpc EXCEPT ![i] = "selftest"]
      BY <3>2
    <3>4. selftest = 1 => zpc' = [zpc EXCEPT ![i] = "acquire"]
      BY <3>2
    <3>5. selftest = 2 => zpc' = [zpc EXCEPT ![i] = "unreserve"]
      BY <3>2
    <3>6. selftest = 3 => zpc' = [zpc EXCEPT ![i] = "unreserve"]
      BY <3>2
    <3> QED
      BY <3>1, <3>2, <3>3, <3>4, <3>5, <3>6
  <2>3. InTest(b)' <=> InTest(b)
    BY <1>0, <2>1, <2>2, TestSame DEF ControlTypes, NetTypes
  <2> QED
    BY <1>0, <2>1, <2>3, Same, Still
<1>11. ASSUME NEW i \in Ifaces, SelfTest(i) PROVE Tidy(b)'
  <2>1. /\ zpc[i] = "selftest"
        /\ UNCHANGED <<slotSkb, rxPc, base, zeroCopy, rxFrame, held, cur, clone>>
    BY <1>11 DEF SelfTest
  <2>2. zpc \in [Ifaces -> NetPCs] /\ testSkb \in [Ifaces -> Skbs \cup {NoSkb}] /\ testSkb[i] = NoSkb
    BY <1>0, <2>1 DEF ControlTypes, NetTypes, Calls
  <2>3. ASSUME NEW a \in Pool, ~live[a], live' = [live EXCEPT ![a] = TRUE],
               refs' = RefAdded([refs EXCEPT ![a] = 1], [buf |-> a, flag |-> PoolFlag]),
               testSkb' = [testSkb EXCEPT ![i] = CloneOf([buf |-> a, flag |-> PoolFlag])],
               zpc' = [zpc EXCEPT ![i] = "testfree"]
        PROVE  Tidy(b)'
    <3>1. a \in Bufs /\ Tidy(a)
      BY <1>0, Buffers
    <3>2. ~Queued(a) /\ ~InCall(a) /\ ~InTest(a) /\ ~InPbuf(a) /\ ~InProbe(a)
      BY <2>3, <3>1, Holders
    <3>3. ~InProbe(b) /\ ~InTest(b)
      BY <1>0, <2>1, <2>2, Sole, Buffers DEF Testing
    <3>4. PICK f \in Skbs : f = CloneOf([buf |-> a, flag |-> PoolFlag]) /\ f.buf = a
      BY <3>1, Buffers, Cloned
    <3>5. testSkb'[i].buf = a /\ zpc'[i] = "testfree"
      BY <2>2, <2>3, <3>4
    <3>6. \A k \in Ifaces \ {i} : testSkb'[k] = testSkb[k] /\ testSkb[k].buf # b
      BY <2>2, <2>3, <3>3 DEF InProbe
    <3>7. (InProbe(b)' <=> b = a) /\ (InTest(b)' <=> b = a)
      BY <3>5, <3>6 DEF InProbe, InTest
    <3>8. IF b = a THEN live'[b] /\ refs'[b] = 2 ELSE live'[b] = live[b] /\ refs'[b] = refs[b]
      <4>1. live \in [Bufs -> BOOLEAN] /\ refs \in [Bufs -> Nat]
        BY <1>0 DEF ControlTypes, RingTypes
      <4>2. refs' = [[refs EXCEPT ![a] = 1] EXCEPT ![a] = @ + 1]
        BY <2>3 DEF RefAdded
      <4> QED
        BY <2>3, <3>1, <4>1, <4>2
    <3> QED
      BY <1>0, <2>1, <3>2, <3>3, <3>7, <3>8, Same DEF Tidy, Apart, Counted, HasOriginal, HasClone, Queued, One
  <2>4. CASE UNCHANGED <<live, refs, testSkb>> /\ zpc' = [zpc EXCEPT ![i] = "unreserve"]
    <3>1. InTest(b)' <=> InTest(b)
      BY <2>1, <2>2, <2>4, TestSame
    <3> QED
      BY <1>0, <2>1, <2>4, <3>1, Same, Still
  <2> QED
    BY <1>11, <2>3, <2>4, Zenon DEF SelfTest, ZGoto, IsNext, FreeIn
<1>12. ASSUME NEW i \in Ifaces, TestFree(i) PROVE Tidy(b)'
  <2>1. /\ zpc[i] = "testfree" /\ zpc[i] \in Testing
        /\ UNCHANGED <<slotSkb, rxPc, base, zeroCopy, rxFrame, held, cur, clone>>
    BY <1>12 DEF TestFree, Testing
  <2>2. zpc \in [Ifaces -> NetPCs] /\ testSkb \in [Ifaces -> Skbs \cup {NoSkb}] /\ testSkb[i] \in Skbs
    BY <1>0, <2>1 DEF ControlTypes, NetTypes, Calls
  <2>3. PICK f \in Skbs : f = testSkb[i]
    BY <2>2
  <2>4. f.buf \in Bufs /\ Tidy(f.buf) /\ InProbe(f.buf) /\ f.flag = PoolFlag /\ PoolFlag # HeapFlag
    BY <1>0, <2>3, Buffers DEF InProbe, PoolFlag, HeapFlag
  <2>5. testSkb' = testSkb /\ zpc' = [zpc EXCEPT ![i] = "verdict"]
    BY <1>12 DEF TestFree, ZGoto
  <2>6. (InProbe(b) <=> b = f.buf) /\ (InTest(b) <=> b = f.buf)
    BY <1>0, <2>1, <2>3, Sole
  <2>7. ~InTest(b)'
    <3>1. \A k \in Ifaces : zpc'[k] # "testfree"
      BY <1>0, <2>1, <2>2, <2>5 DEF Calls, Testing
    <3> QED
      BY <3>1 DEF InTest
  <2>8. InTest(f.buf)
    BY <2>1, <2>3 DEF InTest
  <2>9. refs[f.buf] = 2 /\ live[f.buf]
    BY <2>4, <2>8, Holders
  <2>10. [buf |-> f.buf, flag |-> PoolFlag] = f
    BY <2>4, Buffers DEF Skbs
  <2>11. Kfree(f)
    BY <1>12, <2>3, <2>10 DEF TestFree, Kfree
  <2>12. IF b = f.buf THEN live'[b] /\ refs'[b] = 1 ELSE live'[b] = live[b] /\ refs'[b] = refs[b]
    BY <1>0, <2>4, <2>9, <2>11, KfreeEffect DEF ControlTypes, RingTypes
  <2> QED
    BY <1>0, <2>1, <2>5, <2>6, <2>7, <2>12, Same DEF Tidy, Apart, Counted, HasOriginal, HasClone, Queued, One
<1>13. ASSUME NEW i \in Ifaces, Verdict(i) PROVE Tidy(b)'
  <2>1. /\ zpc[i] = "verdict" /\ zpc[i] \in Testing
        /\ UNCHANGED <<slotSkb, rxPc, base, zeroCopy, rxFrame, held, cur, clone>>
    BY <1>13 DEF Verdict, Testing
  <2>2. zpc \in [Ifaces -> NetPCs] /\ testSkb \in [Ifaces -> Skbs \cup {NoSkb}] /\ testSkb[i] \in Skbs
    BY <1>0, <2>1 DEF ControlTypes, NetTypes, Calls
  <2>3. PICK f \in Skbs : f = testSkb[i]
    BY <2>2
  <2>4. f.buf \in Bufs /\ Tidy(f.buf) /\ InProbe(f.buf) /\ f.flag = PoolFlag /\ PoolFlag # HeapFlag
    BY <1>0, <2>3, Buffers DEF InProbe, PoolFlag, HeapFlag
  <2>5. testSkb' = [testSkb EXCEPT ![i] = NoSkb] /\ zpc' \in {[zpc EXCEPT ![i] = "acquire"], [zpc EXCEPT ![i] = "unreserve"]}
    BY <1>13 DEF Verdict, ZGoto
  <2>6. (InProbe(b) <=> b = f.buf) /\ ~InTest(b) /\ ~InTest(f.buf)
    BY <1>0, <2>1, <2>3, <2>4, Sole
  <2>7. ~InTest(b)' /\ ~InProbe(b)'
    <3>1. \A k \in Ifaces \ {i} : testSkb'[k] = NoSkb
      BY <1>0, <2>1, <2>2, <2>5, Sole
    <3>2. testSkb'[i] = NoSkb
      BY <2>2, <2>5
    <3> QED
      BY <3>1, <3>2, Buffers DEF InTest, InProbe
  <2>8. refs[f.buf] = 1
    BY <2>4, <2>6, Holders
  <2>9. Kfree(f)
    BY <1>13, <2>3 DEF Verdict, Kfree
  <2>10. IF b = f.buf THEN ~live'[b] /\ refs'[b] = 0 ELSE live'[b] = live[b] /\ refs'[b] = refs[b]
    BY <1>0, <2>8, <2>9, KfreeEffect DEF ControlTypes, RingTypes
  <2> QED
    BY <1>0, <2>1, <2>4, <2>6, <2>7, <2>10, Same, Holders DEF Tidy, Apart, Counted, HasOriginal, HasClone, Queued, One
<1>14. ASSUME NEW i \in Ifaces, Acquire(i) PROVE Tidy(b)'
  <2>1. /\ zpc[i] = "acquire"
        /\ UNCHANGED <<slotSkb, rxPc, base, zeroCopy, rxFrame, held, testSkb, live, cur>>
    BY <1>14 DEF Acquire
  <2>2. zpc \in [Ifaces -> NetPCs] /\ cur \in [Ifaces -> Skbs \cup {NoSkb}] /\ cur[i] \in Skbs
    BY <1>0, <2>1 DEF ControlTypes, NetTypes, Calls
  <2>3. PICK f \in Skbs : f = cur[i]
    BY <2>2
  <2>4. f.buf \in Bufs /\ Tidy(f.buf) /\ InCall(f.buf)
    BY <1>0, <2>3, Buffers DEF InCall
  <2>5. Uncloned(i)
    BY <2>2, Buffers DEF BInv, Blocks
  <2>6. zpc' \in {[zpc EXCEPT ![i] = "release"], [zpc EXCEPT ![i] = "unreserve"]}
    BY <1>14 DEF Acquire, ZGoto
  <2>7. InTest(b)' <=> InTest(b)
    BY <2>1, <2>2, <2>6, TestSame
  <2>8. CASE UNCHANGED <<refs, clone>>
    BY <1>0, <2>1, <2>7, <2>8, Same, Still
  <2>9. CASE refs' = RefAdded(refs, cur[i]) /\ clone' = [clone EXCEPT ![wr[i]] = CloneOf(cur[i])]
    <3>1. ~InPbuf(f.buf) /\ refs[f.buf] = 1
      BY <2>1, <2>3, <2>4, <2>5, Holders DEF Uncloned
    <3>2. PICK w \in Wrappers : w = wr[i]
      BY <1>0, <2>1 DEF Calls, Reserved, ControlTypes, NetTypes
    <3>3. clone[w] = NoSkb
      BY <1>0, <3>2, Buffers DEF Wrapped
    <3>4. PICK g \in Skbs : g = CloneOf(f) /\ g.buf = f.buf
      BY Cloned
    <3>5. clone' = [clone EXCEPT ![w] = g]
      BY <2>3, <2>9, <3>2, <3>4
    <3>6. (InPbuf(b)' <=> b = f.buf \/ InPbuf(b)) /\ OnePbuf(b)'
      BY <1>0, <3>1, <3>3, <3>4, <3>5, PbufTaken DEF ControlTypes, WrapTypes, Tidy, Apart
    <3>7. IF b = f.buf THEN refs'[b] = 2 ELSE refs'[b] = refs[b]
      <4>1. refs' = [refs EXCEPT ![f.buf] = @ + 1]
        BY <2>3, <2>9 DEF RefAdded
      <4> QED
        BY <1>0, <2>4, <3>1, <4>1
    <3> QED
      BY <1>0, <2>1, <2>4, <2>7, <3>1, <3>6, <3>7, Same DEF Tidy, Apart, Counted, HasOriginal, HasClone, Queued, One
  <2> QED
    BY <1>14, <2>8, <2>9 DEF Acquire
<1>15. ASSUME NEW i \in Ifaces, Unreserve(i) PROVE Tidy(b)'
  <2>1. UNCHANGED <<live, refs, slotSkb, rxPc, base, zeroCopy, rxFrame, held, cur, testSkb, clone>>
    BY <1>15 DEF Unreserve
  <2>2. zpc[i] = "unreserve" /\ zpc' = [zpc EXCEPT ![i] = "release"]
    BY <1>15 DEF Unreserve, ZGoto
  <2>3. InTest(b)' <=> InTest(b)
    BY <1>0, <2>1, <2>2, TestSame DEF ControlTypes, NetTypes
  <2> QED
    BY <1>0, <2>1, <2>3, Same, Still
<1>16. ASSUME NEW i \in Ifaces, Release(i) PROVE Tidy(b)'
  <2>1. /\ zpc[i] = "release"
        /\ UNCHANGED <<slotSkb, rxPc, base, zeroCopy, rxFrame, held, testSkb, clone>>
    BY <1>16 DEF Release
  <2>2. zpc \in [Ifaces -> NetPCs] /\ cur \in [Ifaces -> Skbs \cup {NoSkb}] /\ cur[i] \in Skbs
    BY <1>0, <2>1 DEF ControlTypes, NetTypes, Calls
  <2>3. PICK f \in Skbs : f = cur[i]
    BY <2>2
  <2>4. f.buf \in Bufs /\ Tidy(f.buf) /\ InCall(f.buf)
    BY <1>0, <2>3, Buffers DEF InCall
  <2>5. Uncloned(i)
    BY <2>2, Buffers DEF BInv, Blocks
  <2>6. zpc' = [zpc EXCEPT ![i] = "idle"] /\ cur' = [cur EXCEPT ![i] = NoSkb]
    BY <1>16 DEF Release, ZGoto
  <2>7. InTest(b)' <=> InTest(b)
    BY <2>1, <2>2, <2>6, TestSame
  <2>8. (InCall(b)' <=> InCall(b) /\ b # f.buf) /\ OneCall(b)'
    BY <1>0, <2>2, <2>3, <2>4, <2>6, CallGiven DEF Tidy, Apart
  <2>9. Kfree(f)
    BY <1>16, <2>3 DEF Release, Kfree
  <2>10. live[f.buf] /\ refs[f.buf] = (IF InPbuf(f.buf) THEN 2 ELSE 1) /\ (InPbuf(f.buf) => f.flag # HeapFlag)
    BY <2>3, <2>4, <2>5, Holders DEF Uncloned
  <2>11. IF b = f.buf THEN IF InPbuf(b) THEN live'[b] /\ refs'[b] = 1 ELSE ~live'[b] /\ refs'[b] = 0
                     ELSE live'[b] = live[b] /\ refs'[b] = refs[b]
    BY <1>0, <2>4, <2>9, <2>10, KfreeEffect DEF ControlTypes, RingTypes
  <2> QED
    BY <1>0, <2>1, <2>4, <2>7, <2>8, <2>11, Same DEF Tidy, Apart, Counted, HasOriginal, HasClone, Queued, One
<1>17. ASSUME NEW i \in Ifaces, DriverDrop(i) PROVE Tidy(b)'
  <2>1. PICK f \in held[i] :
          held' = [held EXCEPT ![i] = @ \ {f}] /\ Kfree(f)
    BY <1>17, Zenon DEF DriverDrop
  <2>2. UNCHANGED <<slotSkb, rxPc, base, zeroCopy, rxFrame, testSkb, clone, cur, zpc>>
    BY <1>17 DEF DriverDrop
  <2>3. /\ held \in [Ifaces -> SUBSET Skbs] /\ cur \in [Ifaces -> Skbs \cup {NoSkb}]
        /\ zpc \in [Ifaces -> NetPCs]
    BY <1>0 DEF ControlTypes, NetTypes
  <2>4. f \in Skbs
    BY <2>3
  <2>5. f.buf \in Bufs /\ Tidy(f.buf) /\ InHeld(f.buf)
    BY <1>0, <2>4, Buffers DEF InHeld
  <2>6. (InHeld(b)' <=> InHeld(b) /\ b # f.buf) /\ OneHeld(b)'
    BY <1>0, <2>1, <2>3, <2>5, HeldGiven DEF Tidy, Apart
  <2>7. refs[f.buf] = 1
    BY <2>5, Holders DEF Queued
  <2>8. IF b = f.buf THEN ~live'[b] /\ refs'[b] = 0 ELSE live'[b] = live[b] /\ refs'[b] = refs[b]
    BY <1>0, <2>1, <2>4, <2>7, KfreeEffect DEF ControlTypes, RingTypes
  <2> QED
    BY <1>0, <2>2, <2>5, <2>6, <2>8, Same DEF Tidy, Apart, Counted, HasOriginal, HasClone, Queued, One
<1>18. ASSUME NEW i \in Ifaces, Deliver(i) PROVE Tidy(b)'
  <2>1. PICK f \in held[i], label \in {"reserve", "release"} :
          held' = [held EXCEPT ![i] = @ \ {f}] /\ cur' = [cur EXCEPT ![i] = f] /\ zpc' = [zpc EXCEPT ![i] = label]
    BY <1>18, Zenon DEF Deliver, ZGoto
  <2>2. UNCHANGED <<slotSkb, rxPc, base, zeroCopy, rxFrame, testSkb, clone, live, refs>>
    BY <1>18 DEF Deliver
  <2>3. /\ held \in [Ifaces -> SUBSET Skbs] /\ cur \in [Ifaces -> Skbs \cup {NoSkb}]
        /\ zpc \in [Ifaces -> NetPCs]
    BY <1>0 DEF ControlTypes, NetTypes
  <2>4. f \in Skbs
    BY <2>3
  <2>5. f.buf \in Bufs /\ Tidy(f.buf) /\ InHeld(f.buf)
    BY <1>0, <2>4, Buffers DEF InHeld
  <2>6. (InHeld(b)' <=> InHeld(b) /\ b # f.buf) /\ OneHeld(b)'
    BY <1>0, <2>1, <2>3, <2>5, HeldGiven DEF Tidy, Apart
  <2>7. zpc[i] = "idle" /\ cur[i] = NoSkb
    BY <1>18, <1>0 DEF Deliver, Calls
  <2>8. InTest(b)' <=> InTest(b)
    BY <2>1, <2>2, <2>3, <2>7, TestSame
  <2>9. ~InCall(f.buf)
    BY <2>5, Holders DEF Queued
  <2>10. (InCall(b)' <=> b = f.buf \/ InCall(b)) /\ OneCall(b)'
    BY <1>0, <2>1, <2>3, <2>4, <2>7, <2>9, CallTaken DEF Tidy, Apart
  <2> QED
    BY <1>0, <2>2, <2>5, <2>6, <2>8, <2>9, <2>10, Same DEF Tidy, Apart, Counted, HasOriginal, HasClone, Queued, One
<1>19. ASSUME NEW w \in Wrappers, FreeClone(w) PROVE Tidy(b)'
  <2>1. clone[w] # NoSkb /\ clone' = [clone EXCEPT ![w] = NoSkb]
    BY <1>19 DEF FreeClone
  <2>2. UNCHANGED <<slotSkb, rxPc, base, zeroCopy, rxFrame, held, cur, zpc, testSkb>>
    BY <1>19 DEF FreeClone
  <2>3. clone \in [Wrappers -> Skbs \cup {NoSkb}]
    BY <1>0 DEF ControlTypes, WrapTypes
  <2>4. PICK f \in Skbs : f = clone[w]
    BY <2>1, <2>3
  <2>5. f.buf \in Bufs /\ Tidy(f.buf) /\ InPbuf(f.buf) /\ f.flag # HeapFlag
    BY <1>0, <2>4, Buffers DEF InPbuf
  <2>6. (InPbuf(b)' <=> InPbuf(b) /\ b # f.buf) /\ OnePbuf(b)'
    BY <1>0, <2>1, <2>3, <2>4, <2>5, PbufGiven DEF Tidy, Apart
  <2>7. Kfree(f)
    BY <1>19, <2>4 DEF FreeClone, Kfree
  <2>8. live[f.buf] /\ refs[f.buf] = (IF InCall(f.buf) THEN 2 ELSE 1)
    BY <2>5, Holders
  <2>9. IF b = f.buf THEN IF InCall(b) THEN live'[b] /\ refs'[b] = 1 ELSE ~live'[b] /\ refs'[b] = 0
                    ELSE live'[b] = live[b] /\ refs'[b] = refs[b]
    BY <1>0, <2>5, <2>7, <2>8, KfreeEffect DEF ControlTypes, RingTypes
  <2> QED
    BY <1>0, <2>2, <2>5, <2>6, <2>9, Same DEF Tidy, Apart, Counted, HasOriginal, HasClone, Queued, One
<1>20. ASSUME NEW w \in Wrappers, FreeWrapper(w) PROVE Tidy(b)'
  <2>1. UNCHANGED <<live, refs, slotSkb, rxFrame, held, cur, testSkb, clone>>
    BY <1>20 DEF FreeWrapper
  <2>2. (InBase(b)' <=> InBase(b)) /\ (InTest(b)' <=> InTest(b))
    BY <1>20 DEF FreeWrapper, InBase, InTest
  <2> QED
    BY <1>0, <2>1, <2>2, Still
<1>21. ASSUME Off PROVE Tidy(b)'
  <2>1. UNCHANGED <<live, refs, slotSkb, rxFrame, held, cur, testSkb, clone>>
    BY <1>21 DEF Off
  <2>2. (InBase(b)' <=> InBase(b)) /\ (InTest(b)' <=> InTest(b))
    BY <1>21 DEF Off, InBase, InTest
  <2> QED
    BY <1>0, <2>1, <2>2, Still
<1>22. ASSUME Drained PROVE Tidy(b)'
  <2>1. UNCHANGED <<live, refs, slotSkb, rxFrame, held, cur, testSkb, clone>>
    BY <1>22 DEF Drained
  <2>2. (InBase(b)' <=> InBase(b)) /\ (InTest(b)' <=> InTest(b))
    BY <1>22 DEF Drained, InBase, InTest
  <2> QED
    BY <1>0, <2>1, <2>2, Still
<1>23. ASSUME DrainPoll PROVE Tidy(b)'
  <2>1. UNCHANGED <<live, refs, slotSkb, rxFrame, held, cur, testSkb, clone>>
    BY <1>23 DEF DrainPoll
  <2>2. (InBase(b)' <=> InBase(b)) /\ (InTest(b)' <=> InTest(b))
    BY <1>23 DEF DrainPoll, InBase, InTest
  <2> QED
    BY <1>0, <2>1, <2>2, Still
<1>24. ASSUME DrainTimeout PROVE Tidy(b)'
  <2>1. UNCHANGED <<live, refs, slotSkb, rxFrame, held, cur, testSkb, clone>>
    BY <1>24 DEF DrainTimeout
  <2>2. (InBase(b)' <=> InBase(b)) /\ (InTest(b)' <=> InTest(b))
    BY <1>24 DEF DrainTimeout, InBase, InTest
  <2> QED
    BY <1>0, <2>1, <2>2, Still
<1>25. ASSUME Deinit PROVE Tidy(b)'
  <2>1. UNCHANGED <<rxPc, base, zeroCopy, rxFrame, held, cur, zpc, testSkb, clone>>
    BY <1>25 DEF Deinit
  <2>2. \A s \in Slots : slotSkb'[s] = None
    BY <1>25 DEF Deinit
  <2>3. ~InSlot(b)' /\ OneSlot(b)'
    BY <2>2, Buffers DEF InSlot, OneSlot
  <2>4. InSlot(b) <=> b \in {slotSkb[s] : s \in Slots}
    BY DEF InSlot
  <2>5. /\ live'[b] <=> live[b] /\ (InSlot(b) => refs[b] > 1)
        /\ refs'[b] = IF InSlot(b) THEN refs[b] - 1 ELSE refs[b]
    BY <1>25, <2>4 DEF Deinit
  <2>6. InSlot(b) => live[b] /\ refs[b] = 1
    BY <1>0, Holders DEF Queued
  <2>7. IF InSlot(b) THEN ~live'[b] /\ refs'[b] = 0 ELSE (live'[b] <=> live[b]) /\ refs'[b] = refs[b]
    BY <2>5, <2>6
  <2> QED
    BY <1>0, <2>1, <2>3, <2>7, Same DEF Tidy, Apart, Counted, HasOriginal, HasClone, Queued, One
<1>26. ASSUME On PROVE Tidy(b)'
  <2>1. mpc = "off" /\ UNCHANGED <<slotSkb, rxPc, base, zeroCopy, rxFrame, held, cur, zpc, testSkb, clone>>
    BY <1>26 DEF On
  <2>2. /\ \A s \in Slots : slotSkb[s] = None
        /\ rxPc = "idle" /\ rxFrame = NoSkb
    BY <1>0, <2>1 DEF Ring, ControlTypes, RxTypes
  <2>3. \A k \in Ifaces : zpc[k] = "idle" /\ held[k] = {} /\ cur[k] = NoSkb /\ testSkb[k] = NoSkb
    BY <1>0, <2>1 DEF Calls
  <2>4. \A w \in Wrappers : clone[w] = NoSkb
    BY <1>0, <2>1 DEF Gate, Wrapped
  <2>5. ~InSlot(b) /\ ~InBase(b) /\ ~InFrame(b) /\ ~InHeld(b) /\ ~InCall(b) /\ ~InTest(b) /\ ~InPbuf(b) /\ ~InProbe(b)
    BY <2>2, <2>3, <2>4, Buffers DEF InSlot, InBase, InFrame, InHeld, InCall, InTest, InPbuf, InProbe
  <2>6. live[b] = FALSE /\ refs[b] = 0
    BY <1>0, <2>5 DEF Tidy, Apart, Counted, HasOriginal, HasClone, Queued, One, ControlTypes, RingTypes
  <2>7. live'[b] = FALSE /\ refs'[b] = 0
    BY <1>26, <2>6 DEF On
  <2> QED
    BY <1>0, <2>1, <2>6, <2>7, Same, Settled DEF Tidy, Apart
<1>27. ASSUME Resume PROVE Tidy(b)'
  <2>1. UNCHANGED <<live, refs, slotSkb, rxFrame, held, cur, testSkb, clone>>
    BY <1>27 DEF Resume
  <2>2. (InBase(b)' <=> InBase(b)) /\ (InTest(b)' <=> InTest(b))
    BY <1>27 DEF Resume, InBase, InTest
  <2> QED
    BY <1>0, <2>1, <2>2, Still
<1>28. ASSUME StartFails PROVE Tidy(b)'
  <2>1. UNCHANGED <<live, refs, slotSkb, rxFrame, held, cur, testSkb, clone>>
    BY <1>28 DEF StartFails
  <2>2. (InBase(b)' <=> InBase(b)) /\ (InTest(b)' <=> InTest(b))
    BY <1>28 DEF StartFails, InBase, InTest
  <2> QED
    BY <1>0, <2>1, <2>2, Still
<1> QED
  BY <1>1, <1>2, <1>3, <1>4, <1>5, <1>6, <1>7, <1>8, <1>9, <1>10, <1>11, <1>12, <1>13, <1>14, <1>15, <1>16, <1>17, <1>18, <1>19, <1>20, <1>21, <1>22, <1>23, <1>24, <1>25, <1>26, <1>27, <1>28 DEF Next, Tasklet, Receive, Driver, StackFree, Manager

---------------------------------------------------------------------------
\* The reference words stay numbers: where they change, what they count holds.
LEMMA RefsStep ==
  ASSUME refs \in [Bufs -> Nat], Next
  PROVE  refs' = [b \in Bufs |-> refs'[b]]
<1> USE DEF bufVars, ringVars, rxVars, netVars, wrapVars, mgrVars
<1>0. refs = [b \in Bufs |-> refs[b]]
  OBVIOUS
<1>1. ASSUME HwReceive PROVE refs' = [b \in Bufs |-> refs'[b]]
  BY <1>1, Leaves
<1>2. ASSUME RxStart PROVE refs' = [b \in Bufs |-> refs'[b]]
  BY <1>2 DEF RxStart, RxGoto
<1>3. ASSUME Rotate PROVE refs' = [b \in Bufs |-> refs'[b]]
  BY <1>3, <1>0 DEF Rotate, Alloc
<1>4. ASSUME Bind PROVE refs' = [b \in Bufs |-> refs'[b]]
  BY <1>4, <1>0 DEF Bind, Alloc
<1>5. ASSUME RouteRelease PROVE refs' = [b \in Bufs |-> refs'[b]]
  BY <1>5, <1>0 DEF RouteRelease, Kfree
<1>6. ASSUME Rearm PROVE refs' = [b \in Bufs |-> refs'[b]]
  BY <1>6 DEF Rearm, RxGoto
<1>7. ASSUME NEW i \in Ifaces, RouteUnicast(i) PROVE refs' = [b \in Bufs |-> refs'[b]]
  BY <1>7 DEF RouteUnicast, RxGoto
<1>8. ASSUME NEW i \in Ifaces, NEW j \in Ifaces, RouteMulticast(i, j) PROVE refs' = [b \in Bufs |-> refs'[b]]
  BY <1>8, <1>0 DEF RouteMulticast, Alloc
<1>9. ASSUME NEW i \in Ifaces, Reserve(i) PROVE refs' = [b \in Bufs |-> refs'[b]]
  BY <1>9 DEF Reserve, ZGoto
<1>10. ASSUME NEW i \in Ifaces, Check(i) PROVE refs' = [b \in Bufs |-> refs'[b]]
  BY <1>10 DEF Check, ZGoto
<1>11. ASSUME NEW i \in Ifaces, SelfTest(i) PROVE refs' = [b \in Bufs |-> refs'[b]]
  BY <1>11, <1>0 DEF SelfTest, RefAdded
<1>12. ASSUME NEW i \in Ifaces, TestFree(i) PROVE refs' = [b \in Bufs |-> refs'[b]]
  BY <1>12, <1>0 DEF TestFree, Kfree
<1>13. ASSUME NEW i \in Ifaces, Verdict(i) PROVE refs' = [b \in Bufs |-> refs'[b]]
  BY <1>13, <1>0 DEF Verdict, Kfree
<1>14. ASSUME NEW i \in Ifaces, Acquire(i) PROVE refs' = [b \in Bufs |-> refs'[b]]
  BY <1>14, <1>0 DEF Acquire, RefAdded
<1>15. ASSUME NEW i \in Ifaces, Unreserve(i) PROVE refs' = [b \in Bufs |-> refs'[b]]
  BY <1>15 DEF Unreserve, WrapperFree, ZGoto
<1>16. ASSUME NEW i \in Ifaces, Release(i) PROVE refs' = [b \in Bufs |-> refs'[b]]
  BY <1>16, <1>0 DEF Release, Kfree
<1>17. ASSUME NEW i \in Ifaces, DriverDrop(i) PROVE refs' = [b \in Bufs |-> refs'[b]]
  BY <1>17, <1>0 DEF DriverDrop, Kfree
<1>18. ASSUME NEW i \in Ifaces, Deliver(i) PROVE refs' = [b \in Bufs |-> refs'[b]]
  BY <1>18 DEF Deliver, ZGoto
<1>19. ASSUME NEW w \in Wrappers, FreeClone(w) PROVE refs' = [b \in Bufs |-> refs'[b]]
  BY <1>19, <1>0 DEF FreeClone, Kfree
<1>20. ASSUME NEW w \in Wrappers, FreeWrapper(w) PROVE refs' = [b \in Bufs |-> refs'[b]]
  BY <1>20 DEF FreeWrapper, WrapperFree, OfStack
<1>21. ASSUME Off PROVE refs' = [b \in Bufs |-> refs'[b]]
  BY <1>21 DEF Off
<1>22. ASSUME Drained PROVE refs' = [b \in Bufs |-> refs'[b]]
  BY <1>22 DEF Drained
<1>23. ASSUME DrainPoll PROVE refs' = [b \in Bufs |-> refs'[b]]
  BY <1>23 DEF DrainPoll
<1>24. ASSUME DrainTimeout PROVE refs' = [b \in Bufs |-> refs'[b]]
  BY <1>24 DEF DrainTimeout
<1>25. ASSUME Deinit PROVE refs' = [b \in Bufs |-> refs'[b]]
  BY <1>25, <1>0 DEF Deinit
<1>26. ASSUME On PROVE refs' = [b \in Bufs |-> refs'[b]]
  BY <1>26, <1>0 DEF On
<1>27. ASSUME Resume PROVE refs' = [b \in Bufs |-> refs'[b]]
  BY <1>27 DEF Resume
<1>28. ASSUME StartFails PROVE refs' = [b \in Bufs |-> refs'[b]]
  BY <1>28 DEF StartFails
<1> QED
  BY <1>1, <1>2, <1>3, <1>4, <1>5, <1>6, <1>7, <1>8, <1>9, <1>10, <1>11, <1>12, <1>13, <1>14, <1>15, <1>16, <1>17, <1>18, <1>19, <1>20, <1>21, <1>22, <1>23, <1>24, <1>25, <1>26, <1>27, <1>28 DEF Next, Tasklet, Receive, Driver, StackFree, Manager

\* A frame whose call goes on, or stays in its last state, is no more cloned.
LEMMA KeepUncloned ==
  ASSUME NEW k \in Ifaces, Uncloned(k), cur'[k] = cur[k], zpc[k] = "release" => zpc'[k] = "release",
         InPbuf(cur[k].buf)' => InPbuf(cur[k].buf)
  PROVE  Uncloned(k)'
BY DEF Uncloned

LEMMA UnclonedStep ==
  ASSUME ~LargeMulticast, BInv, NEW k \in Ifaces, cur'[k] # NoSkb, Next
  PROVE  Uncloned(k)'
<1> USE DEF bufVars, ringVars, rxVars, netVars, wrapVars, mgrVars
<1>0. /\ Calls /\ \A a \in Bufs : Tidy(a)
      /\ cur[k] # NoSkb => Uncloned(k)
      /\ held \in [Ifaces -> SUBSET Skbs]
      /\ cur \in [Ifaces -> Skbs \cup {NoSkb}]
      /\ zpc \in [Ifaces -> NetPCs]
      /\ wr \in [Ifaces -> Wrappers \cup {None}]
      /\ clone \in [Wrappers -> Skbs \cup {NoSkb}]
  BY DEF BInv, GInv, Blocks, ControlTypes, NetTypes, WrapTypes
<1>1. ASSUME HwReceive PROVE Uncloned(k)'
  <2>1. UNCHANGED <<cur, zpc, clone>>
    BY <1>1, Leaves
  <2> QED
    BY <1>0, <2>1, KeepUncloned DEF InPbuf
<1>2. ASSUME Tasklet PROVE Uncloned(k)'
  <2>1. UNCHANGED <<cur, zpc, clone>>
    BY <1>2, Leaves
  <2> QED
    BY <1>0, <2>1, KeepUncloned DEF InPbuf
<1>3. ASSUME NEW i \in Ifaces, Reserve(i) PROVE Uncloned(k)'
  <2>1. UNCHANGED <<cur, clone>> /\ zpc[i] = "reserve" /\ \A j \in Ifaces \ {i} : zpc'[j] = zpc[j]
    BY <1>3, <1>0 DEF Reserve, ZGoto
  <2> QED
    BY <1>0, <2>1, KeepUncloned DEF InPbuf
<1>4. ASSUME NEW i \in Ifaces, Check(i) PROVE Uncloned(k)'
  <2>1. UNCHANGED <<cur, clone>> /\ zpc[i] = "check" /\ \A j \in Ifaces \ {i} : zpc'[j] = zpc[j]
    BY <1>4, <1>0 DEF Check, ZGoto
  <2> QED
    BY <1>0, <2>1, KeepUncloned DEF InPbuf
<1>5. ASSUME NEW i \in Ifaces, SelfTest(i) PROVE Uncloned(k)'
  <2>1. UNCHANGED <<cur, clone>> /\ zpc[i] = "selftest" /\ \A j \in Ifaces \ {i} : zpc'[j] = zpc[j]
    BY <1>5, <1>0 DEF SelfTest, ZGoto
  <2> QED
    BY <1>0, <2>1, KeepUncloned DEF InPbuf
<1>6. ASSUME NEW i \in Ifaces, TestFree(i) PROVE Uncloned(k)'
  <2>1. UNCHANGED <<cur, clone>> /\ zpc[i] = "testfree" /\ \A j \in Ifaces \ {i} : zpc'[j] = zpc[j]
    BY <1>6, <1>0 DEF TestFree, ZGoto
  <2> QED
    BY <1>0, <2>1, KeepUncloned DEF InPbuf
<1>7. ASSUME NEW i \in Ifaces, Verdict(i) PROVE Uncloned(k)'
  <2>1. UNCHANGED <<cur, clone>> /\ zpc[i] = "verdict" /\ \A j \in Ifaces \ {i} : zpc'[j] = zpc[j]
    BY <1>7, <1>0 DEF Verdict, ZGoto
  <2> QED
    BY <1>0, <2>1, KeepUncloned DEF InPbuf
<1>8. ASSUME NEW i \in Ifaces, Acquire(i) PROVE Uncloned(k)'
  <2>1. cur' = cur /\ zpc[i] = "acquire" /\ zpc' \in {[zpc EXCEPT ![i] = "release"], [zpc EXCEPT ![i] = "unreserve"]}
    BY <1>8 DEF Acquire, ZGoto
  <2>2. CASE k = i
    <3>1. cur[i].flag # HeapFlag /\ ~InPbuf(cur[i].buf)
      BY <1>0, <2>1, <2>2 DEF Uncloned
    <3>2. CASE zpc' = [zpc EXCEPT ![i] = "release"]
      BY <1>0, <2>1, <2>2, <3>1, <3>2 DEF Uncloned
    <3>3. CASE zpc' = [zpc EXCEPT ![i] = "unreserve"] /\ clone' = clone
      BY <1>0, <2>1, <2>2, <3>1, <3>3 DEF Uncloned, InPbuf
    <3> QED
      BY <1>8, <3>2, <3>3 DEF Acquire, ZGoto
  <2>3. CASE k # i
    <3>1. PICK c \in Skbs, f \in Skbs : c = cur[k] /\ f = cur[i] /\ c.buf \in Bufs
      BY <1>0, <2>1, Buffers DEF Calls
    <3>2. c.buf # f.buf
      BY <1>0, <2>3, <3>1 DEF Tidy, Apart, OneCall
    <3>3. clone' = clone \/ \E w \in Wrappers, g \in Skbs : g.buf = f.buf /\ clone' = [clone EXCEPT ![w] = g]
      <4>1. wr[i] \in Wrappers
        BY <1>0, <2>1 DEF Calls, Reserved
      <4>2. CloneOf(f) \in Skbs /\ CloneOf(f).buf = f.buf
        BY Cloned
      <4> QED
        BY <1>8, <3>1, <4>1, <4>2 DEF Acquire
    <3>4. \A w \in Wrappers : clone'[w].buf = c.buf => clone[w].buf = c.buf
      BY <1>0, <3>2, <3>3
    <3>5. InPbuf(cur[k].buf)' => InPbuf(cur[k].buf)
      BY <2>1, <3>1, <3>4 DEF InPbuf
    <3> QED
      BY <1>0, <2>1, <2>3, <3>5, KeepUncloned
  <2> QED
    BY <2>2, <2>3
<1>9. ASSUME NEW i \in Ifaces, Unreserve(i) PROVE Uncloned(k)'
  <2>1. UNCHANGED <<cur, clone>> /\ zpc[i] = "unreserve" /\ \A j \in Ifaces \ {i} : zpc'[j] = zpc[j]
    BY <1>9, <1>0 DEF Unreserve, ZGoto
  <2> QED
    BY <1>0, <2>1, KeepUncloned DEF InPbuf
<1>10. ASSUME NEW i \in Ifaces, Release(i) PROVE Uncloned(k)'
  <2>1. clone' = clone /\ cur' = [cur EXCEPT ![i] = NoSkb] /\ zpc' = [zpc EXCEPT ![i] = "idle"]
    BY <1>10 DEF Release, ZGoto
  <2>2. k # i /\ cur'[k] = cur[k] /\ zpc'[k] = zpc[k]
    BY <1>0, <2>1
  <2> QED
    BY <1>0, <2>1, <2>2, KeepUncloned DEF InPbuf
<1>11. ASSUME NEW i \in Ifaces, DriverDrop(i) PROVE Uncloned(k)'
  <2>1. UNCHANGED <<cur, zpc, clone>>
    BY <1>11 DEF DriverDrop
  <2> QED
    BY <1>0, <2>1, KeepUncloned DEF InPbuf
<1>12. ASSUME NEW i \in Ifaces, Deliver(i) PROVE Uncloned(k)'
  <2>1. PICK f \in held[i], label \in {"reserve", "release"} :
          /\ label = "reserve" /\ f.flag = HeapFlag => LargeMulticast
          /\ cur' = [cur EXCEPT ![i] = f] /\ zpc' = [zpc EXCEPT ![i] = label]
    BY <1>12, Zenon DEF Deliver, ZGoto
  <2>2. clone' = clone
    BY <1>12 DEF Deliver
  <2>3. CASE k = i
    <3>1. f.buf \in Bufs /\ InHeld(f.buf) /\ Tidy(f.buf)
      BY <1>0, Buffers DEF InHeld
    <3>2. ~InPbuf(f.buf)
      BY <3>1, Holders DEF Queued
    <3>3. cur'[k] = f /\ zpc'[k] = label /\ (f.flag = HeapFlag => label = "release")
      BY <1>0, <2>1, <2>3
    <3> QED
      BY <2>2, <3>2, <3>3 DEF Uncloned, InPbuf
  <2>4. CASE k # i
    <3>1. cur'[k] = cur[k] /\ zpc'[k] = zpc[k]
      BY <1>0, <2>1, <2>4
    <3> QED
      BY <1>0, <2>2, <2>4, <3>1, KeepUncloned DEF InPbuf
  <2> QED
    BY <2>3, <2>4
<1>13. ASSUME NEW w \in Wrappers, FreeClone(w) PROVE Uncloned(k)'
  <2>1. UNCHANGED <<cur, zpc>> /\ clone' = [clone EXCEPT ![w] = NoSkb]
    BY <1>13 DEF FreeClone
  <2>2. InPbuf(cur[k].buf)' => InPbuf(cur[k].buf)
    BY <1>0, <2>1, Buffers DEF InPbuf
  <2> QED
    BY <1>0, <2>1, <2>2, KeepUncloned
<1>14. ASSUME NEW w \in Wrappers, FreeWrapper(w) PROVE Uncloned(k)'
  <2>1. UNCHANGED <<cur, zpc, clone>>
    BY <1>14 DEF FreeWrapper
  <2> QED
    BY <1>0, <2>1, KeepUncloned DEF InPbuf
<1>15. ASSUME Manager PROVE Uncloned(k)'
  <2>1. UNCHANGED <<cur, zpc, clone>>
    BY <1>15, Leaves
  <2> QED
    BY <1>0, <2>1, KeepUncloned DEF InPbuf
<1> QED
  BY <1>1, <1>2, <1>3, <1>4, <1>5, <1>6, <1>7, <1>8, <1>9, <1>10, <1>11, <1>12, <1>13, <1>14, <1>15 DEF Next, Receive, Driver, StackFree

LEMMA FlagsStep ==
  ASSUME BInv, Next
  PROVE  Flags'
<1> USE DEF Flags, bufVars, ringVars, rxVars, netVars, wrapVars, mgrVars
<1>0. /\ Calls /\ Flags /\ \A a \in Bufs : Tidy(a)
      /\ cur \in [Ifaces -> Skbs \cup {NoSkb}]
      /\ testSkb \in [Ifaces -> Skbs \cup {NoSkb}]
      /\ clone \in [Wrappers -> Skbs \cup {NoSkb}]
  BY DEF BInv, GInv, Blocks, ControlTypes, NetTypes, WrapTypes
<1>1. ASSUME HwReceive PROVE Flags'
  BY <1>0, <1>1, Leaves
<1>2. ASSUME Tasklet PROVE Flags'
  BY <1>0, <1>2, Leaves
<1>3. ASSUME NEW i \in Ifaces, Reserve(i) PROVE Flags'
  BY <1>0, <1>3 DEF Reserve, ZGoto
<1>4. ASSUME NEW i \in Ifaces, Check(i) PROVE Flags'
  <2>1. UNCHANGED <<testSkb, clone>> /\ selftest' \in {3, selftest}
    BY <1>4 DEF Check
  <2> QED
    BY <1>0, <2>1
<1>5. ASSUME NEW i \in Ifaces, SelfTest(i) PROVE Flags'
  <2>1. clone' = clone /\ selftest' \in {0, selftest}
    BY <1>5 DEF SelfTest
  <2>2. CASE testSkb' = testSkb
    BY <1>0, <2>1, <2>2
  <2>3. ASSUME NEW b \in Pool, testSkb' = [testSkb EXCEPT ![i] = CloneOf([buf |-> b, flag |-> PoolFlag])]
        PROVE  Flags'
    <3>1. CloneOf([buf |-> b, flag |-> PoolFlag]).flag = PoolFlag
      BY DEF CloneOf, PoolFlag, DmaFlag
    <3> QED
      BY <1>0, <2>1, <2>3, <3>1
  <2> QED
    BY <1>5, <2>2, <2>3 DEF SelfTest
<1>6. ASSUME NEW i \in Ifaces, TestFree(i) PROVE Flags'
  BY <1>0, <1>6 DEF TestFree, Kfree, ZGoto
<1>7. ASSUME NEW i \in Ifaces, Verdict(i) PROVE Flags'
  <2>1. clone' = clone /\ testSkb' = [testSkb EXCEPT ![i] = NoSkb] /\ zpc[i] = "verdict"
    BY <1>7 DEF Verdict
  <2>2. testSkb[i] \in Skbs
    BY <1>0, <2>1 DEF Calls
  <2>3. PICK f \in Skbs : f = testSkb[i] /\ f.buf \in Bufs
    BY <2>2, Buffers
  <2>4. live[f.buf]
    BY <1>0, <2>3, Holders DEF InProbe
  <2>5. selftest' = 1
    BY <1>7, <2>3, <2>4 DEF Verdict
  <2> QED
    BY <1>0, <2>1, <2>5, Buffers
<1>8. ASSUME NEW i \in Ifaces, Acquire(i) PROVE Flags'
  <2>1. UNCHANGED <<testSkb, selftest>> /\ zpc[i] = "acquire"
    BY <1>8 DEF Acquire
  <2>2. CASE clone' = clone
    BY <1>0, <2>1, <2>2
  <2>3. CASE clone' = [clone EXCEPT ![wr[i]] = CloneOf(cur[i])]
    <3>1. CloneOf(cur[i]).flag # HeapFlag
      BY <1>0, <2>1, Cloned DEF Calls
    <3> QED
      BY <1>0, <2>1, <2>3, <3>1
  <2> QED
    BY <1>8, <2>2, <2>3 DEF Acquire
<1>9. ASSUME NEW i \in Ifaces, Unreserve(i) PROVE Flags'
  BY <1>0, <1>9 DEF Unreserve, WrapperFree, ZGoto
<1>10. ASSUME NEW i \in Ifaces, Release(i) PROVE Flags'
  BY <1>0, <1>10 DEF Release, Kfree, ZGoto
<1>11. ASSUME NEW i \in Ifaces, Driver(i) PROVE Flags'
  BY <1>0, <1>11, Leaves
<1>12. ASSUME NEW w \in Wrappers, FreeClone(w) PROVE Flags'
  <2>1. UNCHANGED <<testSkb, selftest>> /\ clone' = [clone EXCEPT ![w] = NoSkb]
    BY <1>12 DEF FreeClone
  <2>2. NoSkb.flag # HeapFlag
    BY Buffers DEF PoolFlag, HeapFlag
  <2> QED
    BY <1>0, <2>1, <2>2
<1>13. ASSUME NEW w \in Wrappers, FreeWrapper(w) PROVE Flags'
  BY <1>0, <1>13 DEF FreeWrapper, WrapperFree, OfStack
<1>14. ASSUME Manager PROVE Flags'
  BY <1>0, <1>14, Leaves
<1> QED
  BY <1>1, <1>2, <1>3, <1>4, <1>5, <1>6, <1>7, <1>8, <1>9, <1>10, <1>11, <1>12, <1>13, <1>14 DEF Next, Receive, StackFree

LEMMA InitBInv == Init => BInv
<1> SUFFICES ASSUME Init PROVE BInv
  OBVIOUS
<1>1. GInv
  BY InitGInv
<1>2. refs \in [Bufs -> Nat]
  BY DEF Init
<1>3. ASSUME NEW b \in Bufs PROVE Tidy(b)
  <2>1. ~InSlot(b) /\ ~InBase(b) /\ ~InFrame(b)
    BY Buffers DEF Init, InSlot, InBase, InFrame
  <2>2. ~InHeld(b) /\ ~InCall(b)
    BY Buffers DEF Init, InHeld, InCall
  <2>3. ~InTest(b) /\ ~InPbuf(b) /\ ~InProbe(b)
    BY Buffers DEF Init, InTest, InPbuf, InProbe
  <2>4. OneSlot(b) /\ OneHeld(b) /\ OneCall(b) /\ OnePbuf(b)
    BY <2>1, <2>2, <2>3 DEF OneSlot, InSlot, OneHeld, InHeld, OneCall, InCall, OnePbuf, InPbuf
  <2>5. live[b] = FALSE /\ refs[b] = 0
    BY DEF Init
  <2> QED
    BY <2>1, <2>2, <2>3, <2>4, <2>5 DEF Tidy, Apart, Counted, HasOriginal, HasClone, Queued, One
<1>4. \A i \in Ifaces : cur[i] = NoSkb /\ testSkb[i] = NoSkb
  BY DEF Init
<1>5. Flags
  <2>1. NoSkb.flag = PoolFlag /\ PoolFlag # HeapFlag
    BY Buffers DEF PoolFlag, HeapFlag
  <2>2. selftest # 2
    BY DEF Init
  <2>3. \A w \in Wrappers : clone[w] = NoSkb
    BY DEF Init
  <2> QED
    BY <1>4, <2>1, <2>2, <2>3 DEF Flags
<1> QED
  BY <1>1, <1>2, <1>3, <1>4, <1>5 DEF BInv, Blocks

LEMMA BInvStep ==
  ASSUME ~LargeMulticast, BInv, [Next]_vars
  PROVE  BInv'
<1>1. GInv'
  BY GInvStep DEF BInv
<1>2. CASE Next
  <2>1. refs' \in [Bufs -> Nat] /\ \A b \in Bufs : Tidy(b)'
    <3>1. ASSUME NEW b \in Bufs PROVE Tidy(b)'
      BY <1>2, TidyStep
    <3>2. ASSUME NEW b \in Bufs PROVE refs'[b] \in Nat
      BY <3>1 DEF Tidy, Counted, One
    <3>3. refs' = [b \in Bufs |-> refs'[b]]
      BY <1>2, RefsStep DEF BInv, Blocks
    <3> QED
      BY <3>1, <3>2, <3>3
  <2>2. \A i \in Ifaces : cur'[i] # NoSkb => Uncloned(i)'
    BY <1>2, UnclonedStep
  <2>3. Flags'
    BY <1>2, FlagsStep
  <2> QED
    BY <1>1, <2>1, <2>2, <2>3 DEF BInv, Blocks
<1>3. CASE UNCHANGED vars
  <2>1. UNCHANGED <<bufVars, ringVars, rxVars, netVars, wrapVars, mgrVars>>
    BY <1>3 DEF vars
  <2> USE DEF bufVars, ringVars, rxVars, netVars, wrapVars, mgrVars
  <2>2. \A b \in Bufs : Tidy(b)'
    <3> SUFFICES ASSUME NEW b \in Bufs PROVE Tidy(b)'
      OBVIOUS
    <3>1. Tidy(b)
      BY DEF BInv, Blocks
    <3> QED
      BY <2>1, <3>1, Same, Still
  <2>3. \A i \in Ifaces : cur'[i] # NoSkb => Uncloned(i)'
    BY <2>1 DEF BInv, Blocks, Uncloned, InPbuf
  <2>4. Flags' /\ refs' \in [Bufs -> Nat]
    BY <2>1 DEF BInv, Blocks, Flags
  <2> QED
    BY <1>1, <2>2, <2>3, <2>4 DEF BInv, Blocks
<1> QED
  BY <1>2, <1>3

---------------------------------------------------------------------------
\* The invariant of the blocks, when no long multicast copy in the heap reaches
\* the zero-copy path: without that hypothesis it is false.
THEOREM BlockInvariant ==
  ASSUME ~LargeMulticast
  PROVE  Spec => []BInv
BY InitBInv, BInvStep, PTL DEF Spec

\* The skbs of the properties, by where they are.
LEMMA Members ==
  /\ \A f : f \in Originals <=> /\ f # NoSkb
                                /\ f = rxFrame \/ (\E i \in Ifaces : f \in held[i]) \/ (\E i \in Ifaces : f = cur[i])
  /\ \A f : f \in Clones <=> /\ f # NoSkb
                             /\ (\E w \in Wrappers : f = clone[w]) \/ (\E i \in Ifaces : f = testSkb[i])
<1>1. ASSUME NEW f
      PROVE  f \in Originals <=> /\ f # NoSkb
                                 /\ f = rxFrame \/ (\E i \in Ifaces : f \in held[i]) \/ (\E i \in Ifaces : f = cur[i])
  <2>1. f \in Originals <=> /\ f # NoSkb
                            /\ \/ f \in {rxFrame}
                               \/ f \in UNION {held[i] : i \in Ifaces}
                               \/ f \in {cur[i] : i \in Ifaces}
    BY DEF Originals
  <2>2. f \in UNION {held[i] : i \in Ifaces} <=> \E i \in Ifaces : f \in held[i]
    OBVIOUS
  <2>3. f \in {cur[i] : i \in Ifaces} <=> \E i \in Ifaces : f = cur[i]
    OBVIOUS
  <2> QED
    BY <2>1, <2>2, <2>3
<1>2. ASSUME NEW f
      PROVE  f \in Clones <=> /\ f # NoSkb
                              /\ (\E w \in Wrappers : f = clone[w]) \/ (\E i \in Ifaces : f = testSkb[i])
  BY DEF Clones
<1> QED
  BY <1>1, <1>2, Zenon

\* TypeOK: every variable keeps its type; that a reference word never falls
\* below zero, and an index never leaves the ring, rests on the invariant.
THEOREM TypeCorrect ==
  ASSUME ~LargeMulticast
  PROVE  Spec => []TypeOK
<1>1. BInv => TypeOK
  BY DEF BInv, GInv, Blocks, ControlTypes, RingTypes, RxTypes, NetTypes, WrapTypes, GateTypes, TypeOK
<1> QED
  BY <1>1, BlockInvariant, PTL

\* DmaExclusive: a descriptor the hardware may write names the live block of its
\* own slot, and no frame, pbuf, self-test or other slot refers to that block
\* (wlan_rx_dma_rotate, wlan_rx_dma_publish).
THEOREM DmaConfined ==
  ASSUME ~LargeMulticast
  PROVE  Spec => []DmaExclusive
<1>1. BInv => DmaExclusive
  <2> SUFFICES ASSUME BInv, NEW s \in Slots, desc[s] # None
               PROVE  /\ desc[s] = slotSkb[s] /\ live[desc[s]]
                      /\ desc[s] \notin OwnedByDriver \cup OwnedByClones
                      /\ \A r \in Slots \ {s} : slotSkb[r] # desc[s]
    BY DEF DmaExclusive
  <2>1. desc[s] = slotSkb[s] /\ desc[s] \in Bufs
    BY DEF BInv, GInv, ControlTypes, RingTypes, Ring
  <2>2. PICK b \in Bufs : b = desc[s]
    BY <2>1
  <2>3. Tidy(b) /\ InSlot(b)
    BY <2>1, <2>2 DEF BInv, Blocks, InSlot
  <2>4. live[b] /\ ~InFrame(b) /\ ~InHeld(b) /\ ~InCall(b) /\ ~InPbuf(b) /\ ~InProbe(b)
    BY <2>3, Holders DEF Tidy, Apart, Queued
  <2>5. b \notin OwnedByDriver
    BY <2>4, Members DEF OwnedByDriver, InFrame, InHeld, InCall
  <2>6. b \notin OwnedByClones
    BY <2>4, Members DEF OwnedByClones, InPbuf, InProbe
  <2>7. \A r \in Slots \ {s} : slotSkb[r] # b
    BY <2>1, <2>2, <2>3 DEF Tidy, Apart, OneSlot
  <2> QED
    BY <2>1, <2>2, <2>4, <2>5, <2>6, <2>7
<1> QED
  BY <1>1, BlockInvariant, PTL

\* BlocksHeld: a block is allocated exactly as long as a slot, the tasklet, the
\* driver, a call of ethernetif_recv, a pbuf or the self-test holds it.
THEOREM HeldWhileLive ==
  ASSUME ~LargeMulticast
  PROVE  Spec => []BlocksHeld
<1>1. ASSUME BInv PROVE PayloadLive
  <2>1. /\ ControlTypes /\ Ring /\ \A b \in Bufs : Tidy(b)
        /\ held \in [Ifaces -> SUBSET Skbs]
        /\ cur \in [Ifaces -> Skbs \cup {NoSkb}]
        /\ testSkb \in [Ifaces -> Skbs \cup {NoSkb}]
        /\ clone \in [Wrappers -> Skbs \cup {NoSkb}]
        /\ rxFrame \in Skbs \cup {NoSkb}
    BY <1>1 DEF BInv, GInv, Blocks, ControlTypes, RxTypes, NetTypes, WrapTypes
  <2>2. ASSUME NEW f \in Originals PROVE f.buf \in Bufs /\ live[f.buf]
    <3>1. f \in Skbs
      BY <2>1, Members
    <3>2. f.buf \in Bufs /\ Tidy(f.buf)
      BY <2>1, <3>1, Buffers
    <3>3. InFrame(f.buf) \/ InHeld(f.buf) \/ InCall(f.buf)
      BY Members DEF InFrame, InHeld, InCall
    <3> QED
      BY <3>2, <3>3, Holders DEF Queued
  <2>3. ASSUME NEW f \in Clones PROVE f.buf \in Bufs /\ live[f.buf]
    <3>1. f \in Skbs
      BY <2>1, Members
    <3>2. f.buf \in Bufs /\ Tidy(f.buf)
      BY <2>1, <3>1, Buffers
    <3>3. InPbuf(f.buf) \/ InProbe(f.buf)
      BY Members DEF InPbuf, InProbe
    <3> QED
      BY <3>2, <3>3, Holders
  <2>4. ASSUME rxPc = "bind", base # None PROVE live[base]
    <3>1. PICK b \in Bufs : b = base
      BY <2>1, <2>4 DEF ControlTypes, RxTypes
    <3>2. InBase(b) \/ InSlot(b)
      BY <2>1, <2>4, <3>1 DEF Ring, InBase, InSlot, ControlTypes, RingTypes
    <3> QED
      BY <2>1, <3>1, <3>2, Holders DEF Queued
  <2>5. OwnedByDriver \cup OwnedByClones \subseteq {b \in Bufs : live[b]}
    BY <2>2, <2>3 DEF OwnedByDriver, OwnedByClones
  <2> QED
    BY <2>4, <2>5 DEF PayloadLive
<1>2. ASSUME BInv PROVE NothingLeaked
  <2> SUFFICES ASSUME NEW b \in Bufs, live[b]
               PROVE  \/ b \in OwnedBySlots \cup OwnedByDriver \cup OwnedByClones
                      \/ zeroCopy /\ b = base /\ rxPc = "bind"
    BY DEF NothingLeaked
  <2>1. InSlot(b) \/ InBase(b) \/ InFrame(b) \/ InHeld(b) \/ InCall(b) \/ InPbuf(b) \/ InProbe(b)
    BY <1>2 DEF BInv, Blocks, Tidy, Apart, Counted, HasOriginal, HasClone, Queued
  <2>2. b # None /\ NoSkb.buf = None
    BY Buffers
  <2>3. InSlot(b) => b \in OwnedBySlots
    BY <2>2 DEF InSlot, OwnedBySlots
  <2>4. InFrame(b) => b \in OwnedByDriver
    BY <2>2, Members DEF InFrame, OwnedByDriver
  <2>5. InHeld(b) => b \in OwnedByDriver
    BY <2>2, Members DEF InHeld, OwnedByDriver
  <2>6. InCall(b) => b \in OwnedByDriver
    BY <2>2, Members DEF InCall, OwnedByDriver
  <2>7. InPbuf(b) \/ InProbe(b) => b \in OwnedByClones
    BY <2>2, Members DEF InPbuf, InProbe, OwnedByClones
  <2> QED
    BY <2>1, <2>3, <2>4, <2>5, <2>6, <2>7 DEF InBase
<1>3. BInv => BlocksHeld
  BY <1>1, <1>2 DEF BlocksHeld
<1> QED
  BY <1>3, BlockInvariant, PTL

\* SelfTestGuards: a pbuf exists only after the self-test has passed, one
\* interface at most runs it, and it does not fail
\* (rltk_wlan_rx_ref_selftest).
THEOREM SelfTestSound ==
  ASSUME ~LargeMulticast
  PROVE  Spec => []SelfTestGuards
<1>1. BInv => SelfTestGuards
  BY DEF BInv, GInv, Blocks, Flags, Calls, Testing, Wrapped, SelfTestGuards
<1> QED
  BY <1>1, BlockInvariant, PTL
=============================================================================
