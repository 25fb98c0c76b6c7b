-------------------------- MODULE SocketRecvProofs --------------------------
(***************************************************************************)
(* Proofs about SocketRecv, for any stream, window, mailbox, array of      *)
(* gathered records, pbuf chains and lengths asked for: what a call        *)
(* returns is the next part of the stream, every pbuf has one owner, the   *)
(* window is given back exactly and the end of the stream is not lost.     *)
(***************************************************************************)
EXTENDS SocketRecv, FiniteSetTheorems, TLAPS

\* The loop of lwip_recv_tcp, before anything is flushed, and after it.
Loop  == {"top", "try", "wait", "empty", "flag", "fin", "shut", "got", "copy"}
Mid   == Loop \cup {"flush", "consume"}
Tails == {"flush", "consume", "lastFlush", "lastConsume"}

Pbufs   == [from : Nat, len : Nat, tot : Nat]
Message == [kind : {"data", "closed", "reset"}, p : Pbufs]
Record  == [p : Pbufs, at : Nat, n : Nat]

ConnTypes ==
  /\ sent \in 0 .. MaxBytes /\ credit \in Nat /\ read \in Nat
  /\ peer \in {"open", "finished", "reset"}
  /\ resetDue \in BOOLEAN /\ mboxOpen \in BOOLEAN /\ mboxClosed \in BOOLEAN
  /\ pendingErr \in BOOLEAN /\ finPending \in BOOLEAN /\ eof \in BOOLEAN
  /\ mbox \in Seq(Message) /\ Len(mbox) <= MboxSize
CallTypes ==
  /\ pc \in PCs /\ lastdata \in Pbufs
  /\ peek \in BOOLEAN /\ noblock \in BOOLEAN /\ nofin \in BOOLEAN
  /\ recvd \in Nat /\ left \in Nat
  /\ pending \in Seq(Record) /\ Len(pending) <= PendingMax
  /\ DOMAIN buf = 1 .. recvd + left
  /\ \A i \in DOMAIN buf : buf[i] \in 0 .. MaxBytes

\* A pbuf of the stream.
Within(p, last) == 1 <= p.from /\ 0 < p.len /\ p.len <= p.tot /\ p.from + p.tot <= last + 1
Real(p) == Within(p, sent)

\* What the locals are where the call is.
Locals ==
  /\ pc \in {"idle", "closed"} => recvd = 0 /\ left = 0 /\ pending = <<>> /\ ~peek
  /\ pc \in {"got", "copy"} => lastdata # NoPbuf
  /\ pc \in {"try", "wait", "empty", "flag", "fin", "shut"} => lastdata = NoPbuf
  /\ pc \in Tails => pending # <<>>
  /\ pc \in {"copy", "ack"} => pending = <<>>
  /\ pc = "ack" => ~peek
  /\ pc \in Loop => Len(pending) < PendingMax /\ (left > 0 \/ recvd = 0)
  /\ pc \in Mid /\ recvd > 0 => nofin
  /\ pc \in {"fin", "shut"} => recvd = 0
  /\ peek => pending = <<>> /\ (recvd > 0 => pc = "done")

\* The gathered records hold the bytes of this call that are not copied yet,
\* in order; only the last one may be used in part.
Order ==
  /\ \A k \in DOMAIN pending :
       /\ Real(pending[k].p)
       /\ pending[k].p.from = read + pending[k].at + 1
       /\ pending[k].n <= pending[k].p.len
       /\ pending[k].at + pending[k].n <= recvd
       /\ Partial(pending[k]) =>
            /\ k = Len(pending) /\ pending[k].p = lastdata
            /\ left = 0 /\ pc \in {"flush", "consume"}
  /\ \A j, k \in DOMAIN pending : j < k => pending[j].at + pending[j].n <= pending[k].at
Cover ==
  \A i \in 1 .. recvd : pending # <<>> /\ i > pending[1].at =>
    \E k \in DOMAIN pending : i \in pending[k].at + 1 .. pending[k].at + pending[k].n

\* Bytes of this call whose pbufs are freed; the offset at which the pending
\* data of the socket begins; and the last position outside the mailbox.
Freed == IF pending # <<>> THEN pending[1].at ELSE IF peek THEN 0 ELSE recvd
LastAt ==
  IF peek THEN 0
  ELSE IF pending # <<>> /\ Partial(pending[Len(pending)]) THEN pending[Len(pending)].at
  ELSE recvd
Rear ==
  IF lastdata = NoPbuf THEN read + (IF peek THEN 0 ELSE recvd) ELSE lastdata.from + lastdata.tot - 1

LastInv == lastdata # NoPbuf => Real(lastdata) /\ lastdata.from = read + LastAt + 1
Used == read + recvd <= Rear /\ Rear <= sent

\* The mailbox holds the rest of the stream, in order, before its end.
Mail ==
  /\ \A k \in DOMAIN mbox :
       /\ mbox[k].kind = "data" => Real(mbox[k].p) /\ mbox[k].p.from > Rear
       /\ mbox[k].kind # "data" => mbox[k].p = NoPbuf /\ peer # "open"
  /\ \A j, k \in DOMAIN mbox : j < k /\ mbox[k].kind = "data" =>
       mbox[j].kind = "data" /\ mbox[j].p.from + mbox[j].p.tot <= mbox[k].p.from
  /\ \A i \in 1 .. sent : i > Rear =>
       \E k \in DOMAIN mbox : mbox[k].kind = "data" /\ i \in Positions(mbox[k].p)

Held == live = read + Freed + 1 .. sent

Stream == pc # "closed" => LastInv /\ Used /\ Mail /\ Held
Shutdown ==
  pc = "closed" =>
    live = {} /\ mbox = <<>> /\ lastdata = NoPbuf /\ ~mboxOpen /\ ~resetDue /\ peer = "reset" /\ read <= sent

\* A FIN is taken out of the mailbox when all data before it has been.
Ended ==
  /\ finPending \/ pc \in {"fin", "shut"} =>
       /\ peer # "open" /\ lastdata = NoPbuf
       /\ \A k \in DOMAIN mbox : mbox[k].kind # "data"
  /\ finPending => pc \in {"idle", "top", "done", "lastFlush", "lastConsume", "ack", "closed"}
  /\ finPending /\ pc = "top" => recvd = 0
  /\ ~mboxOpen => eof \/ pc = "closed"

Credit ==
  /\ credit <= read
  /\ peer # "reset" => credit = read
  /\ resetDue => peer = "reset"

\* The bytes copied so far are those of the stream.
Bytes ==
  \A i \in 1 .. recvd :
    pending = <<>> \/ pc \in {"consume", "lastConsume"} \/ i <= pending[1].at => buf[i] = read + i

CallInv == CallTypes /\ Locals /\ Order /\ Cover /\ Bytes

IInv == ConnTypes /\ CallInv /\ Stream /\ Shutdown /\ Ended /\ Credit

---------------------------------------------------------------------------
LEMMA Pbuf ==
  /\ NoPbuf \in Pbufs /\ NoPbuf.from = 0 /\ NoPbuf.len = 0 /\ NoPbuf.tot = 0
  /\ \A p : Real(p) => p # NoPbuf
BY DEF NoPbuf, Pbufs, Real, Within

\* Arithmetic of positions.
LEMMA Shift ==
  ASSUME NEW a \in Int, NEW b \in Int, NEW c \in Int
  PROVE  /\ (a + b + 1) + c - 1 = a + b + c /\ (a + b + 1) + c = a + (b + c) + 1
         /\ (a + 1) + c = (a + c) + 1
OBVIOUS

LEMMA Offset ==
  ASSUME NEW a \in Int, NEW b \in Int, NEW c \in Int PROVE (a + b + 1) + c - b - 1 = a + c
OBVIOUS

LEMMA Below == ASSUME NEW a \in Nat, NEW n \in Nat, NEW r \in Nat, a + n <= r PROVE a <= r
OBVIOUS

LEMMA Apart ==
  ASSUME NEW r \in Nat, NEW a \in Nat, NEW n \in Nat, NEW b \in Nat, NEW m \in Nat, a + n <= b
  PROVE  (r + a + 1 .. r + a + n) \cap (r + b + 1 .. r + b + m) = {}
OBVIOUS

\* No step follows lwip_close.
LEMMA NotClosed == ASSUME IInv, Next PROVE pc # "closed"
<1> USE DEF IInv, Shutdown, Room
<1>1. Arrive \/ Finish \/ Reset \/ PostReset => pc # "closed"
  BY DEF Arrive, Finish, Reset, PostReset
<1>2. (\E n \in Lengths, isPeek, dontWait \in BOOLEAN : Call(n, isPeek, dontWait)) \/ WaitTimeout \/ Close
        => pc # "closed"
  BY DEF Call, WaitTimeout, Close
<1>3. Recv => pc # "closed"
  BY DEF Recv, Top, Fetch, TryEmpty, PendingError, NothingThere, HandleFin, Shut, Gather, Scalar, Flush,
         Consume, Copy, Done, Ack
<1> QED
  BY <1>1, <1>2, <1>3 DEF Next

\* A mailbox nothing is taken from or put into.
LEMMA MailKept ==
  ASSUME Mail, mbox' = mbox, Rear' = Rear, sent' = sent, peer # "open" => peer' # "open"
  PROVE  Mail'
BY DEF Mail, Real, Within, Positions

\* A call returns, whether its bytes count or not.
LEMMA CallEnds ==
  ASSUME IInv, pc # "closed", pending = <<>>, Return, UNCHANGED <<sent, lastdata, live>>,
         read' = read + (IF peek THEN 0 ELSE recvd)
  PROVE  /\ CallInv' /\ LastInv' /\ Used' /\ Held' /\ Rear' = Rear
         /\ pc' = "idle" /\ read' \in Nat
<1> USE DEF IInv, CallInv, Stream
<1>1. /\ pc' = "idle" /\ recvd' = 0 /\ left' = 0 /\ pending' = <<>> /\ buf' = <<>>
      /\ peek' = FALSE /\ noblock' = FALSE /\ nofin' = FALSE
  BY DEF Return
<1>2. read \in Nat /\ recvd \in Nat /\ sent \in Nat /\ lastdata \in Pbufs
  BY DEF ConnTypes, CallTypes
<1>3. CallTypes'
  <2>1. DOMAIN buf' = 1 .. 0
    BY <1>1
  <2>2. pending' \in Seq(Record) /\ Len(pending') <= PendingMax
    BY <1>1, SizesAssumption
  <2>3. pc' \in PCs /\ lastdata' \in Pbufs /\ 1 .. recvd' + left' = 1 .. 0
    BY <1>1, <1>2 DEF PCs
  <2>4. ASSUME NEW i \in DOMAIN buf' PROVE buf'[i] \in 0 .. MaxBytes
    BY <2>1
  <2>5. recvd' \in Nat /\ left' \in Nat /\ peek' \in BOOLEAN /\ noblock' \in BOOLEAN /\ nofin' \in BOOLEAN
    BY <1>1
  <2> QED
    BY <2>1, <2>2, <2>3, <2>4, <2>5 DEF CallTypes
<1>4. Locals'
  BY <1>1 DEF Locals, Tails, Loop, Mid
<1>5. Order' /\ Cover' /\ Bytes'
  BY <1>1 DEF Order, Cover, Bytes
<1>6. LastAt' = 0 /\ LastAt = IF peek THEN 0 ELSE recvd
  BY <1>1 DEF LastAt
<1>7. LastInv'
  BY <1>1, <1>2, <1>6 DEF LastInv, Real, Within
<1>8. Rear' = Rear
  BY <1>1, <1>2 DEF Rear
<1>9. Used'
  <2>1. read + recvd <= Rear /\ Rear <= sent
    BY DEF Used
  <2>2. Rear \in Int
    BY <1>2 DEF Rear, Pbufs
  <2>3. read' + recvd' <= read + recvd
    BY <1>1, <1>2
  <2>4. read' + recvd' \in Int /\ read + recvd \in Int /\ sent \in Int /\ sent' = sent
    BY <1>1, <1>2
  <2>5. read' + recvd' <= Rear /\ Rear <= sent
    BY <2>1, <2>2, <2>3, <2>4
  <2>6. read' + recvd' <= Rear' /\ Rear' <= sent'
    BY <1>8, <2>4, <2>5
  <2> QED
    BY <2>6 DEF Used
<1>10. Held'
  BY <1>1, <1>2 DEF Held, Freed
<1> QED
  BY <1>1, <1>2, <1>3, <1>4, <1>5, <1>7, <1>8, <1>9, <1>10

\* netconn_recv_tcp_pbuf_flags comes back without a pbuf.
LEMMA NothingReceived ==
  ASSUME IInv, pc \in {"top", "try", "wait", "empty", "flag", "fin", "shut"}, lastdata = NoPbuf,
         NEW isEnd \in BOOLEAN, NoData(isEnd), UNCHANGED <<sent, lastdata, live>>
  PROVE  /\ CallInv' /\ LastInv' /\ Used' /\ Held' /\ Rear' = Rear
         /\ read' = read
         /\ IF recvd = 0 THEN pc' = "idle" /\ eof' = (eof \/ isEnd)
                         ELSE pc' = "done" /\ eof' = eof
<1> USE DEF IInv, CallInv, Stream
<1>1. pc \in Loop /\ pc # "closed" /\ recvd \in Nat /\ read \in Nat /\ pending \in Seq(Record)
  BY DEF Loop, ConnTypes, CallTypes
<1>2. CASE recvd > 0
  <2>1. pc' = "done" /\ UNCHANGED <<flagVars, dataVars, seenVars>>
    BY <1>2 DEF NoData
  <2> USE <2>1 DEF flagVars, dataVars, seenVars
  <2>2. CallTypes'
    BY DEF CallTypes, PCs
  <2>3. Locals'
    BY <1>1 DEF Locals, Tails, Loop, Mid
  <2>4. Order' /\ Cover'
    BY <1>1 DEF Order, Cover, Real, Within, Partial, Loop
  <2>5. Bytes'
    BY <1>1 DEF Bytes, Loop
  <2>6. LastInv' /\ Used' /\ Held' /\ Rear' = Rear
    BY <1>1 DEF LastInv, Used, Held, Rear, Freed, LastAt, Real, Within, Partial
  <2> QED
    BY <1>2, <2>2, <2>3, <2>4, <2>5, <2>6
<1>3. CASE recvd = 0
  <2>1. Return /\ eof' = (eof \/ isEnd) /\ UNCHANGED read
    BY <1>3 DEF NoData
  <2>2. pending = <<>>
    <3>1. SUFFICES ASSUME pending # <<>> PROVE FALSE
      OBVIOUS
    <3>2. 1 \in DOMAIN pending /\ pending[1] \in Record
      BY <1>1, <3>1
    <3>3. ~Partial(pending[1])
      BY <1>1, <3>2 DEF Order, Loop
    <3>4. pending[1].at + pending[1].n <= 0 /\ pending[1].p.tot > 0
      BY <1>3, <3>2 DEF Order, Real, Within, Record, Pbufs
    <3> QED
      BY <3>2, <3>3, <3>4 DEF Partial, Record, Pbufs
  <2>3. read' = read + (IF peek THEN 0 ELSE recvd)
    BY <1>1, <1>3, <2>1
  <2> QED
    BY <1>1, <1>3, <2>1, <2>2, <2>3, CallEnds
<1> QED
  BY <1>1, <1>2, <1>3

\* The call moves on without touching its data.
LEMMA CallMoves ==
  ASSUME IInv, pc \in Loop \cup {"done"}, pc' \in PCs \ {"idle", "closed", "consume", "lastConsume"}, Locals',
         UNCHANGED <<sent, lastdata, live, flagVars, dataVars, read>>
  PROVE  CallInv' /\ LastInv' /\ Used' /\ Held' /\ Rear' = Rear
<1> USE DEF IInv, CallInv, Stream, flagVars, dataVars
<1>1. pc # "closed" /\ pc \notin {"consume", "lastConsume"}
  BY DEF Loop
<1>2. CallTypes'
  BY DEF CallTypes
<1>3. \A k \in DOMAIN pending : ~Partial(pending[k])
  BY DEF Order, Loop
<1>4. Order' /\ Cover'
  BY <1>3 DEF Order, Cover, Real, Within, Partial
<1>5. Bytes'
  BY <1>1 DEF Bytes
<1>6. LastInv' /\ Used' /\ Held' /\ Rear' = Rear
  BY <1>1 DEF LastInv, Used, Held, Rear, Freed, LastAt, Real, Within, Partial
<1> QED
  BY <1>2, <1>4, <1>5, <1>6

---------------------------------------------------------------------------
\* The TCP/IP thread leaves the call alone.
LEMMA CallStays ==
  ASSUME IInv, pc # "closed", UNCHANGED <<lastdata, pc, flagVars, dataVars, seenVars>>,
         sent' \in 0 .. MaxBytes, sent <= sent'
  PROVE  CallInv' /\ LastInv' /\ Used' /\ Rear' = Rear
<1> USE DEF IInv, CallInv, Stream, flagVars, dataVars, seenVars
<1>1. sent \in Nat /\ lastdata \in Pbufs /\ read \in Nat /\ recvd \in Nat
  BY DEF ConnTypes, CallTypes
<1>2. CallTypes' /\ Locals'
  BY DEF CallTypes, Locals
<1>3. \A p \in Pbufs : Real(p) => Real(p)'
  BY <1>1 DEF Real, Within, Pbufs
<1>4. Order'
  <2>1. pending \in Seq(Record)
    BY DEF CallTypes
  <2>2. \A k \in DOMAIN pending : pending[k].p \in Pbufs
    <3>1. \A k \in DOMAIN pending : pending[k] \in Record
      BY <2>1
    <3> QED
      BY <3>1 DEF Record
  <2> QED
    BY <1>3, <2>2 DEF Order, Real, Within, Partial
<1>5. Cover' /\ Bytes'
  BY DEF Cover, Bytes
<1>6. LastInv' /\ Rear' = Rear
  BY <1>1, <1>3 DEF LastInv, Rear, LastAt, Real, Within, Partial
<1>7. Used'
  <2>1. Rear \in Int
    BY <1>1 DEF Rear, Pbufs
  <2> QED
    BY <1>1, <1>6, <2>1 DEF Used
<1> QED
  BY <1>2, <1>4, <1>5, <1>6, <1>7

\* An end of the stream goes behind the data.
LEMMA EndAppended ==
  ASSUME Mail, mbox \in Seq(Message), NEW m \in Message, m.kind # "data", m.p = NoPbuf,
         mbox' = Append(mbox, m), peer' # "open", Rear' = Rear, sent' = sent
  PROVE  Mail'
<1> DEFINE n == Len(mbox) + 1
<1>1. /\ DOMAIN mbox' = 1 .. n /\ mbox'[n] = m
      /\ \A k \in DOMAIN mbox : k \in 1 .. n - 1 /\ mbox'[k] = mbox[k]
      /\ DOMAIN mbox = 1 .. n - 1 /\ n \in Nat
  OBVIOUS
<1>2. \A k \in DOMAIN mbox' : k = n \/ k \in DOMAIN mbox
  BY <1>1
<1>3. \A k \in DOMAIN mbox : k \in DOMAIN mbox'
  BY <1>1
<1> HIDE DEF n
<1>4. \A k \in DOMAIN mbox' :
        /\ mbox'[k].kind = "data" => Within(mbox'[k].p, sent') /\ mbox'[k].p.from > Rear'
        /\ mbox'[k].kind # "data" => mbox'[k].p = NoPbuf /\ peer' # "open"
  BY <1>1, <1>2 DEF Mail, Real, Within
<1>5. \A j, k \in DOMAIN mbox' : j < k /\ mbox'[k].kind = "data" =>
        mbox'[j].kind = "data" /\ mbox'[j].p.from + mbox'[j].p.tot <= mbox'[k].p.from
  <2>1. \A j, k \in DOMAIN mbox' : j < k /\ mbox'[k].kind = "data" => j \in DOMAIN mbox /\ k \in DOMAIN mbox
    BY <1>1, <1>2
  <2> QED
    BY <1>1, <2>1 DEF Mail
<1>6. \A i \in 1 .. sent' : i > Rear' =>
        \E k \in DOMAIN mbox' : mbox'[k].kind = "data" /\ i \in Positions(mbox'[k].p)
  <2>1. SUFFICES ASSUME NEW i \in 1 .. sent, i > Rear
                 PROVE  \E k \in DOMAIN mbox' : mbox'[k].kind = "data" /\ i \in Positions(mbox'[k].p)
    OBVIOUS
  <2>2. PICK k \in DOMAIN mbox : mbox[k].kind = "data" /\ i \in Positions(mbox[k].p)
    BY <2>1 DEF Mail
  <2> QED
    BY <1>1, <1>3, <2>2
<1> QED
  BY <1>4, <1>5, <1>6 DEF Mail, Positions, Real

\* recv_tcp puts a segment behind all that arrived before.
LEMMA ArriveStep == ASSUME IInv, Arrive PROVE IInv'
<1>0. ConnTypes /\ CallInv /\ Shutdown /\ Ended /\ Credit /\ (pc # "closed" => Stream)
  BY DEF IInv, Stream
<1>1. pc # "closed" /\ peer = "open" /\ Len(mbox) < MboxSize
  BY <1>0 DEF Arrive, Room, Shutdown
<1>2. PICK s \in Shapes :
        LET p == [from |-> sent + 1, len |-> s[1], tot |-> s[1] + s[2]] IN
        /\ sent + p.tot <= Least(MaxBytes, credit + Window)
        /\ sent' = sent + p.tot
        /\ mbox' = Append(mbox, Data(p))
        /\ live' = live \cup Positions(p)
  BY DEF Arrive
<1> DEFINE p == [from |-> sent + 1, len |-> s[1], tot |-> s[1] + s[2]]
           n == Len(mbox) + 1
<1>3. /\ sent \in Nat /\ credit \in Nat /\ sent <= MaxBytes /\ MaxBytes \in Nat /\ Window \in Nat
      /\ mbox \in Seq(Message) /\ read \in Nat /\ recvd \in Nat
  BY <1>0, SizesAssumption DEF ConnTypes, CallInv, CallTypes
<1>4. s[1] \in Nat \ {0} /\ s[2] \in Nat
  BY ShapesAssumption
<1>5. p \in Pbufs /\ p.from = sent + 1 /\ 0 < p.len /\ p.len <= p.tot /\ p.tot \in Nat /\ p.len \in Nat
  BY <1>3, <1>4 DEF Pbufs
<1>6. /\ sent' = sent + p.tot /\ sent' <= MaxBytes /\ mbox' = Append(mbox, Data(p))
      /\ live' = live \cup Positions(p)
  BY <1>2, <1>3, <1>5 DEF Least
<1>7. UNCHANGED <<credit, peer, resetDue, mboxOpen, mboxClosed, pendingErr, finPending,
                 lastdata, pc, flagVars, dataVars, seenVars>>
  BY DEF Arrive
<1> HIDE DEF p
<1>8. sent' \in 0 .. MaxBytes /\ sent <= sent'
  BY <1>3, <1>5, <1>6
<1>9. CallInv' /\ LastInv' /\ Used' /\ Rear' = Rear
  BY <1>1, <1>7, <1>8, CallStays
<1>10. Data(p) \in Message /\ Data(p).kind = "data" /\ Data(p).p = p
  BY <1>5 DEF Data, Message
<1>11. /\ DOMAIN mbox' = 1 .. n /\ mbox'[n] = Data(p)
       /\ \A k \in DOMAIN mbox : k \in 1 .. n - 1 /\ mbox'[k] = mbox[k]
       /\ DOMAIN mbox = 1 .. n - 1 /\ n \in Nat /\ Len(mbox') = n /\ mbox' \in Seq(Message)
  BY <1>3, <1>6, <1>10
<1>12. \A k \in DOMAIN mbox' : k = n \/ k \in DOMAIN mbox
  BY <1>11
<1>13. ConnTypes'
  BY <1>0, <1>1, <1>3, <1>7, <1>8, <1>11, SizesAssumption DEF ConnTypes, seenVars
<1>14. Rear \in Int /\ Rear <= sent /\ read + Freed \in Nat /\ read + Freed <= sent
  <2>1. lastdata \in Pbufs /\ Rear <= sent /\ read + recvd <= Rear
    BY <1>0, <1>1 DEF CallInv, CallTypes, Stream, Used
  <2>2. Rear \in Int
    BY <1>3, <2>1 DEF Rear, Pbufs
  <2>3. Freed \in Nat /\ Freed <= recvd
    <3>1. CASE pending # <<>>
      <4>1. 1 \in DOMAIN pending /\ pending[1] \in Record
        BY <1>0, <3>1 DEF CallInv, CallTypes
      <4>2. pending[1].at + pending[1].n <= recvd
        BY <1>0, <4>1 DEF CallInv, Order
      <4> QED
        BY <1>3, <3>1, <4>1, <4>2 DEF Freed, Record
    <3>2. CASE pending = <<>>
      BY <1>3, <3>2 DEF Freed
    <3> QED
      BY <3>1, <3>2
  <2> QED
    BY <1>3, <2>1, <2>2, <2>3
<1>15. Mail'
  <2>1. Mail
    BY <1>0, <1>1 DEF Stream
  <2>2. \A k \in DOMAIN mbox : mbox[k].kind = "data" /\ Real(mbox[k].p) /\ mbox[k].p.from > Rear
                               /\ mbox[k].p \in Pbufs
    <3>1. \A k \in DOMAIN mbox : mbox[k] \in Message
      BY <1>3
    <3>2. \A k \in DOMAIN mbox : mbox[k].p \in Pbufs
      BY <3>1 DEF Message
    <3> QED
      BY <1>1, <2>1, <3>2 DEF Mail
  <2>3. \A k \in DOMAIN mbox' : mbox'[k].kind = "data" /\ Within(mbox'[k].p, sent') /\ mbox'[k].p.from > Rear'
    <3>1. ASSUME NEW k \in DOMAIN mbox PROVE mbox'[k].kind = "data" /\ Within(mbox'[k].p, sent') /\ mbox'[k].p.from > Rear'
      <4>1. mbox'[k] = mbox[k] /\ mbox[k].kind = "data" /\ Within(mbox[k].p, sent) /\ mbox[k].p.from > Rear'
        BY <1>9, <1>11, <2>2 DEF Real
      <4>2. mbox[k].p.from + mbox[k].p.tot \in Nat
        BY <2>2 DEF Pbufs
      <4>3. mbox[k].p.from + mbox[k].p.tot <= sent + 1 => mbox[k].p.from + mbox[k].p.tot <= sent' + 1
        BY <1>3, <1>8, <4>2
      <4> QED
        BY <4>1, <4>3 DEF Within
    <3>2. mbox'[n].kind = "data" /\ Within(mbox'[n].p, sent') /\ mbox'[n].p.from > Rear'
      <4>1. mbox'[n].p = p /\ mbox'[n].kind = "data"
        BY <1>10, <1>11
      <4>2. sent \in Nat /\ p.tot \in Nat /\ p.from = sent + 1 /\ sent' = sent + p.tot
            /\ Rear' = Rear /\ Rear \in Int /\ Rear <= sent
        BY <1>3, <1>5, <1>6, <1>9, <1>14
      <4>3. p.from > Rear' /\ 1 <= p.from /\ p.from + p.tot <= sent' + 1
        BY <4>2
      <4> QED
        BY <1>5, <4>1, <4>3 DEF Within
    <3> QED
      BY <1>12, <3>1, <3>2
  <2>4. \A j, k \in DOMAIN mbox' : j < k => mbox'[j].p.from + mbox'[j].p.tot <= mbox'[k].p.from
    <3>1. SUFFICES ASSUME NEW j \in DOMAIN mbox', NEW k \in DOMAIN mbox', j < k
                   PROVE  mbox'[j].p.from + mbox'[j].p.tot <= mbox'[k].p.from
      OBVIOUS
    <3>2. j \in DOMAIN mbox /\ mbox'[j] = mbox[j]
      BY <1>11, <1>12, <3>1
    <3>3. CASE k \in DOMAIN mbox
      BY <1>11, <2>1, <2>2, <3>1, <3>2, <3>3 DEF Mail
    <3>4. CASE k = n
      BY <1>5, <1>10, <1>11, <2>2, <3>2, <3>4 DEF Real, Within
    <3> QED
      BY <1>12, <3>3, <3>4
  <2>5. \A i \in 1 .. sent' : i > Rear' =>
          \E k \in DOMAIN mbox' : mbox'[k].kind = "data" /\ i \in Positions(mbox'[k].p)
    <3>1. SUFFICES ASSUME NEW i \in 1 .. sent', i > Rear
                   PROVE  \E k \in DOMAIN mbox' : mbox'[k].kind = "data" /\ i \in Positions(mbox'[k].p)
      BY <1>9
    <3>2. CASE i <= sent
      <4>1. PICK k \in DOMAIN mbox : mbox[k].kind = "data" /\ i \in Positions(mbox[k].p)
        BY <1>3, <2>1, <3>1, <3>2 DEF Mail
      <4> QED
        BY <1>11, <4>1
    <3>3. CASE i > sent
      <4>1. i \in Positions(p)
        BY <1>3, <1>5, <1>6, <3>1, <3>3 DEF Positions
      <4>2. n \in DOMAIN mbox'
        BY <1>11
      <4> QED
        BY <1>10, <1>11, <4>1, <4>2
    <3> QED
      BY <1>3, <3>1, <3>2, <3>3
  <2> QED
    BY <2>3, <2>4, <2>5 DEF Mail, Positions, Real
<1>16. Held'
  <2>1. live = read + Freed + 1 .. sent /\ Freed' = Freed /\ read' = read
    BY <1>0, <1>1, <1>7 DEF Stream, Held, Freed, flagVars, dataVars, seenVars
  <2>2. p.from + p.tot - 1 = sent'
    <3>1. p.from = sent + 1 /\ p.tot \in Nat /\ sent \in Nat /\ sent' = sent + p.tot
      BY <1>3, <1>5, <1>6
    <3> QED
      BY <3>1
  <2>4. Positions(p) = sent + 1 .. sent'
    BY <1>5, <2>2 DEF Positions
  <2>3. (read + Freed + 1 .. sent) \cup (sent + 1 .. sent') = read + Freed + 1 .. sent'
    BY <1>3, <1>8, <1>14
  <2> QED
    BY <1>6, <2>1, <2>4, <2>3 DEF Held
<1>17. Shutdown' /\ Ended' /\ Credit'
  BY <1>0, <1>1, <1>7, <1>9 DEF Shutdown, Ended, Credit, seenVars
<1> QED
  BY <1>9, <1>13, <1>15, <1>16, <1>17 DEF IInv, Stream

\* recv_tcp puts the FIN behind all data; err_tcp first marks the connection
\* and then posts its message, if there is room.
LEMMA EndSteps == ASSUME IInv, Finish \/ Reset \/ PostReset PROVE IInv'
<1> USE DEF IInv
<1>1. pc # "closed"
  BY DEF Finish, Reset, PostReset, Room, Shutdown
<1>2. /\ UNCHANGED <<sent, credit, mboxOpen, finPending, live, lastdata, pc, flagVars, dataVars, seenVars>>
      /\ peer' # "open"
  BY DEF Finish, Reset, PostReset, Credit
<1>3. sent \in 0 .. MaxBytes /\ mbox \in Seq(Message)
  BY DEF ConnTypes
<1>4. CallInv' /\ LastInv' /\ Used' /\ Rear' = Rear
  BY <1>1, <1>2, <1>3, CallStays
<1>5. Closed \in Message /\ Closed.kind # "data" /\ Closed.p = NoPbuf
  BY Pbuf DEF Closed, Message
<1>6. Aborted \in Message /\ Aborted.kind # "data" /\ Aborted.p = NoPbuf
  BY Pbuf DEF Aborted, Message
<1>7. \/ mbox' = mbox
      \/ Len(mbox) < MboxSize /\ \E m \in {Closed, Aborted} : mbox' = Append(mbox, m)
  BY DEF Finish, Reset, PostReset, Room
<1>8. Mail' /\ mbox' \in Seq(Message) /\ Len(mbox') <= MboxSize
      /\ ((\A k \in DOMAIN mbox : mbox[k].kind # "data") => \A k \in DOMAIN mbox' : mbox'[k].kind # "data")
  <2>1. Mail /\ Len(mbox) <= MboxSize /\ MboxSize \in Nat
    BY <1>1, SizesAssumption DEF Stream, ConnTypes
  <2>2. CASE mbox' = mbox
    BY <1>2, <1>3, <1>4, <2>1, <2>2, MailKept
  <2>3. CASE Len(mbox) < MboxSize /\ \E m \in {Closed, Aborted} : mbox' = Append(mbox, m)
    <3>1. PICK m \in Message : m.kind # "data" /\ m.p = NoPbuf /\ mbox' = Append(mbox, m)
      BY <1>5, <1>6, <2>3
    <3>2. Mail'
      BY <1>2, <1>3, <1>4, <2>1, <3>1, EndAppended
    <3>3. mbox' \in Seq(Message) /\ Len(mbox') = Len(mbox) + 1
      BY <1>3, <3>1
    <3>4. \A k \in DOMAIN mbox' : mbox'[k] = m \/ (k \in DOMAIN mbox /\ mbox'[k] = mbox[k])
      BY <1>3, <3>1
    <3> QED
      BY <1>3, <2>1, <2>3, <3>1, <3>2, <3>3, <3>4
  <2> QED
    BY <1>7, <2>2, <2>3
<1>9. ConnTypes'
  <2>1. peer' \in {"open", "finished", "reset"} /\ resetDue' \in BOOLEAN /\ mboxClosed' \in BOOLEAN /\ pendingErr' \in BOOLEAN
    BY DEF Finish, Reset, PostReset, ConnTypes
  <2> QED
    BY <1>2, <1>8, <2>1 DEF ConnTypes, seenVars
<1>10. Held'
  BY <1>1, <1>2 DEF Stream, Held, Freed, flagVars, dataVars, seenVars
<1>11. Shutdown' /\ Ended'
  BY <1>1, <1>2, <1>8 DEF Shutdown, Ended, flagVars, dataVars, seenVars
<1>12. Credit'
  BY <1>2 DEF Credit, Finish, Reset, PostReset, seenVars
<1> QED
  BY <1>4, <1>8, <1>9, <1>10, <1>11, <1>12 DEF Stream

---------------------------------------------------------------------------
\* A step of the call that takes nothing from the mailbox and returns nothing.
LEMMA MailStays ==
  ASSUME IInv, pc # "closed", pc' # "closed", UNCHANGED <<connVars, mbox, read>>,
         mboxOpen' \in BOOLEAN, mboxClosed' \in BOOLEAN, pendingErr' \in BOOLEAN,
         finPending' \in BOOLEAN, eof' \in BOOLEAN,
         CallInv', LastInv', Used', Held', Rear' = Rear, Ended'
  PROVE  IInv'
<1>1. ConnTypes'
  BY DEF IInv, ConnTypes, connVars
<1>2. Mail'
  BY MailKept DEF IInv, Stream, connVars
<1>3. Shutdown' /\ Credit'
  BY DEF IInv, Shutdown, Credit, connVars
<1> QED
  BY <1>1, <1>2, <1>3 DEF IInv, Stream

\* A call starts on what the last one left.
LEMMA CallStep ==
  ASSUME IInv, NEW n \in Lengths, NEW isPeek \in BOOLEAN, NEW dontWait \in BOOLEAN,
         Call(n, isPeek, dontWait)
  PROVE  IInv'
<1>1. /\ pc = "idle" /\ pc' = "top" /\ recvd' = 0 /\ left' = n /\ pending' = <<>>
      /\ peek' = isPeek /\ noblock' = dontWait /\ nofin' = FALSE
      /\ buf' = [i \in 1 .. n |-> 0]
      /\ UNCHANGED <<connVars, mboxVars, live, lastdata, seenVars>>
  BY DEF Call
<1>2. ConnTypes /\ CallTypes /\ LastInv /\ Used /\ Held /\ Ended
  BY <1>1 DEF IInv, CallInv, Stream
<1>3. n \in Nat /\ MaxBytes \in Nat /\ PendingMax \in Nat \ {0}
  BY LengthsAssumption, SizesAssumption
<1>4. recvd = 0 /\ pending = <<>> /\ peek = FALSE
  BY <1>1 DEF IInv, CallInv, Locals, CallTypes
<1>5. read \in Nat /\ sent \in Nat /\ lastdata \in Pbufs
  BY <1>2 DEF ConnTypes, CallTypes
<1>6. CallTypes'
  <2>1. pending' \in Seq(Record) /\ Len(pending') <= PendingMax
    BY <1>1, <1>3
  <2>2. DOMAIN buf' = 1 .. recvd' + left' /\ \A i \in DOMAIN buf' : buf'[i] \in 0 .. MaxBytes
    BY <1>1, <1>3
  <2>3. pc' \in PCs /\ lastdata' \in Pbufs
    BY <1>1, <1>5 DEF PCs
  <2>4. recvd' \in Nat /\ left' \in Nat /\ peek' \in BOOLEAN /\ noblock' \in BOOLEAN /\ nofin' \in BOOLEAN
    BY <1>1, <1>3
  <2> QED
    BY <2>1, <2>2, <2>3, <2>4 DEF CallTypes
<1>7. Locals'
  BY <1>1, <1>3 DEF Locals, Tails, Loop, Mid
<1>8. Order' /\ Cover' /\ Bytes'
  BY <1>1 DEF Order, Cover, Bytes
<1>9. /\ LastAt' = 0 /\ LastAt = 0 /\ Freed' = 0 /\ Freed = 0
      /\ read' = read /\ sent' = sent /\ live' = live /\ lastdata' = lastdata
  BY <1>1, <1>4 DEF LastAt, Freed, connVars, seenVars
<1>10. LastInv' /\ Held'
  BY <1>2, <1>9 DEF LastInv, Held, Real, Within
<1>11. Rear' = Rear
  BY <1>1, <1>4, <1>9 DEF Rear
<1>12. Used'
  BY <1>1, <1>2, <1>4, <1>9, <1>11 DEF Used
<1>13. Ended'
  BY <1>1, <1>2 DEF Ended, connVars, mboxVars, seenVars
<1> QED
  BY <1>1, <1>2, <1>6, <1>7, <1>8, <1>10, <1>11, <1>12, <1>13, MailStays
     DEF CallInv, ConnTypes, mboxVars, seenVars

\* The call looks for data where there is some left, or asks the network.
LEMMA TopStep == ASSUME IInv, Top PROVE IInv'
<1>1. pc = "top" /\ UNCHANGED <<connVars, mbox, mboxOpen, mboxClosed, pendingErr, live, lastdata>>
  BY DEF Top
<1>2. ConnTypes /\ CallTypes /\ Locals /\ Ended
  BY <1>1 DEF IInv, CallInv
<1>3. pc \in Loop
  BY <1>1 DEF Loop
<1>4. CASE lastdata # NoPbuf /\ pc' = "got" /\ UNCHANGED <<finPending, flagVars, dataVars, seenVars>>
  <2>1. Locals'
    BY <1>1, <1>2, <1>3, <1>4 DEF Locals, Tails, Loop, Mid, flagVars, dataVars
  <2>2. CallInv' /\ LastInv' /\ Used' /\ Held' /\ Rear' = Rear
    BY <1>1, <1>3, <1>4, <2>1, CallMoves DEF PCs, connVars, seenVars
  <2>3. Ended'
    BY <1>1, <1>2, <1>4 DEF Ended, connVars, seenVars, dataVars
  <2> QED
    BY <1>1, <1>2, <1>4, <2>2, <2>3, MailStays DEF ConnTypes, seenVars
<1>5. CASE lastdata = NoPbuf /\ ~mboxOpen /\ NoData(FALSE) /\ UNCHANGED finPending
  <2>1. /\ CallInv' /\ LastInv' /\ Used' /\ Held' /\ Rear' = Rear /\ read' = read
        /\ pc' \in {"idle", "done"} /\ eof' = eof
    BY <1>1, <1>2, <1>5, NothingReceived DEF connVars, ConnTypes
  <2>2. Ended'
    BY <1>1, <1>2, <1>5, <2>1 DEF Ended, connVars
  <2> QED
    BY <1>1, <1>2, <1>5, <2>1, <2>2, MailStays DEF ConnTypes
<1>6. CASE /\ lastdata = NoPbuf /\ mboxOpen /\ finPending' = FALSE
           /\ pc' = IF finPending THEN "fin"
                    ELSE IF noblock \/ mboxClosed \/ pendingErr THEN "try" ELSE "wait"
           /\ UNCHANGED <<flagVars, dataVars, seenVars>>
  <2>1. pc' \in {"fin", "try", "wait"} /\ (pc' = "fin" => finPending)
    BY <1>6
  <2>2. Locals'
    BY <1>1, <1>2, <1>3, <1>6, <2>1 DEF Locals, Tails, Loop, Mid, flagVars, dataVars, Ended
  <2>3. CallInv' /\ LastInv' /\ Used' /\ Held' /\ Rear' = Rear
    BY <1>1, <1>3, <1>6, <2>1, <2>2, CallMoves DEF PCs, connVars, seenVars
  <2>4. Ended'
    BY <1>1, <1>2, <1>6, <2>1 DEF Ended, connVars, seenVars
  <2> QED
    BY <1>1, <1>2, <1>6, <2>1, <2>3, <2>4, MailStays DEF ConnTypes, seenVars
<1> QED
  BY <1>4, <1>5, <1>6 DEF Top

\* The steps that find no message.
LEMMA EmptySteps ==
  ASSUME IInv, TryEmpty \/ PendingError \/ NothingThere \/ WaitTimeout \/ HandleFin
  PROVE  IInv'
<1>1. /\ pc \in {"try", "wait", "empty", "flag", "fin"}
      /\ UNCHANGED <<connVars, mbox, mboxOpen, mboxClosed, finPending, live, lastdata>>
      /\ pendingErr' \in {pendingErr, FALSE}
  BY DEF TryEmpty, PendingError, NothingThere, WaitTimeout, HandleFin, mboxVars
<1>2. ConnTypes /\ CallTypes /\ Locals /\ Ended
  BY <1>1 DEF IInv, CallInv
<1>3. pc \in Loop /\ lastdata = NoPbuf
  BY <1>1, <1>2 DEF Loop, Locals
<1>4. \/ NoData(FALSE)
      \/ /\ UNCHANGED <<flagVars, dataVars, seenVars>>
         /\ pc' \in {"empty", "flag", "shut"} /\ (pc' = "shut" => pc = "fin")
  BY DEF TryEmpty, PendingError, NothingThere, WaitTimeout, HandleFin
<1>5. CASE NoData(FALSE)
  <2>1. /\ CallInv' /\ LastInv' /\ Used' /\ Held' /\ Rear' = Rear /\ read' = read
        /\ pc' \in {"idle", "done"} /\ eof' = eof
    BY <1>1, <1>2, <1>3, <1>5, NothingReceived DEF connVars, ConnTypes
  <2>2. Ended'
    BY <1>1, <1>2, <2>1 DEF Ended, connVars
  <2> QED
    BY <1>1, <1>2, <2>1, <2>2, MailStays DEF ConnTypes
<1>6. CASE /\ UNCHANGED <<flagVars, dataVars, seenVars>>
           /\ pc' \in {"empty", "flag", "shut"} /\ (pc' = "shut" => pc = "fin")
  <2>1. Locals'
    BY <1>1, <1>2, <1>3, <1>6 DEF Locals, Tails, Loop, Mid, flagVars, dataVars
  <2>2. CallInv' /\ LastInv' /\ Used' /\ Held' /\ Rear' = Rear
    BY <1>1, <1>3, <1>6, <2>1, CallMoves DEF PCs, connVars, seenVars
  <2>3. Ended'
    BY <1>1, <1>2, <1>6 DEF Ended, connVars, seenVars
  <2> QED
    BY <1>1, <1>2, <1>6, <2>2, <2>3, MailStays DEF ConnTypes, seenVars
<1> QED
  BY <1>4, <1>5, <1>6

\* What cannot be put off is copied at once, after what was gathered.
LEMMA ScalarStep == ASSUME IInv, Scalar PROVE IInv'
<1>1. /\ pc = "got" /\ UNCHANGED <<connVars, mboxVars, live, lastdata, flagVars, dataVars, seenVars>>
      /\ pc' = IF pending # <<>> THEN "flush" ELSE "copy"
  BY DEF Scalar
<1>2. ConnTypes /\ CallTypes /\ Locals /\ Ended
  BY DEF IInv, CallInv
<1>3. Locals'
  BY <1>1, <1>2 DEF Locals, Tails, Loop, Mid, flagVars, dataVars
<1>4. CallInv' /\ LastInv' /\ Used' /\ Held' /\ Rear' = Rear
  BY <1>1, <1>3, CallMoves DEF PCs, Loop, connVars, seenVars
<1>5. Ended'
  BY <1>1, <1>2 DEF Ended, connVars, mboxVars, seenVars
<1> QED
  BY <1>1, <1>2, <1>4, <1>5, MailStays DEF ConnTypes, mboxVars, seenVars

\* lwip_recv_tcp_done: what is still gathered is flushed first.
LEMMA DoneStep == ASSUME IInv, Done PROVE IInv'
<1>1. pc = "done" /\ UNCHANGED <<connVars, mboxVars, live, lastdata, seenVars>>
  BY DEF Done
<1>2. ConnTypes /\ CallTypes /\ Locals /\ Ended
  BY DEF IInv, CallInv
<1>3. CallInv' /\ LastInv' /\ Used' /\ Held' /\ Rear' = Rear /\ pc' \in {"lastFlush", "ack", "idle"}
  <2>1. CASE /\ UNCHANGED <<flagVars, dataVars>>
             /\ \/ pending # <<>> /\ pc' = "lastFlush"
                \/ pending = <<>> /\ recvd > 0 /\ ~peek /\ pc' = "ack"
    <3>1. Locals'
      BY <1>1, <1>2, <2>1 DEF Locals, Tails, Loop, Mid, flagVars, dataVars
    <3> QED
      BY <1>1, <2>1, <3>1, CallMoves DEF PCs, connVars, seenVars
  <2>2. CASE pending = <<>> /\ (recvd = 0 \/ peek) /\ Return
    <3>1. read' = read + (IF peek THEN 0 ELSE recvd)
      BY <1>1, <1>2, <2>2 DEF seenVars, ConnTypes
    <3> QED
      BY <1>1, <2>2, <3>1, CallEnds DEF connVars
  <2> QED
    BY <2>1, <2>2 DEF Done
<1>4. Ended'
  BY <1>1, <1>2, <1>3 DEF Ended, connVars, mboxVars, seenVars
<1> QED
  BY <1>1, <1>2, <1>3, <1>4, MailStays DEF ConnTypes, mboxVars, seenVars

\* The bytes of the call are given back to the window and returned.
LEMMA AckStep == ASSUME IInv, Ack PROVE IInv'
<1>1. /\ pc = "ack" /\ UNCHANGED <<sent, peer, resetDue, mboxVars, live, lastdata, eof>>
      /\ credit' = (IF peer = "reset" THEN credit ELSE credit + recvd)
      /\ read' = read + recvd /\ Return
  BY DEF Ack, CreditGiven
<1>2. ConnTypes /\ CallTypes /\ Locals /\ Ended /\ Stream /\ Credit /\ Mail
  BY <1>1 DEF IInv, CallInv, Stream
<1>3. recvd \in Nat /\ read \in Nat /\ credit \in Nat
  BY <1>2 DEF ConnTypes, CallTypes
<1>4. CallInv' /\ LastInv' /\ Used' /\ Held' /\ Rear' = Rear /\ pc' = "idle" /\ read' \in Nat
  <2>1. pending = <<>> /\ ~peek
    BY <1>1, <1>2 DEF Locals
  <2> QED
    BY <1>1, <2>1, CallEnds
<1>5. Mail'
  BY <1>1, <1>2, <1>4, MailKept DEF mboxVars
<1>6. ConnTypes'
  BY <1>1, <1>2, <1>3, <1>4 DEF ConnTypes, mboxVars
<1>7. Credit'
  BY <1>1, <1>2, <1>3 DEF Credit
<1>8. Shutdown' /\ Ended'
  BY <1>1, <1>2, <1>4 DEF Shutdown, Ended, mboxVars
<1> QED
  BY <1>4, <1>5, <1>6, <1>7, <1>8 DEF IInv, Stream

---------------------------------------------------------------------------
\* The mailbox without its first message.
LEMMA TailIs ==
  ASSUME mbox \in Seq(Message), mbox # <<>>, mbox' = Tail(mbox)
  PROVE  /\ mbox' \in Seq(Message) /\ Len(mbox') = Len(mbox) - 1 /\ Head(mbox) = mbox[1]
         /\ mbox[1] \in Message /\ 1 \in DOMAIN mbox
         /\ \A k \in DOMAIN mbox' : k \in Nat \ {0} /\ k + 1 \in DOMAIN mbox /\ mbox'[k] = mbox[k + 1]
         /\ \A k \in DOMAIN mbox : k = 1 \/ (k - 1 \in DOMAIN mbox' /\ mbox'[k - 1] = mbox[k])
OBVIOUS

\* The end of the stream is taken from the mailbox: no data is behind it.
LEMMA EndTaken ==
  ASSUME Mail, mbox \in Seq(Message), mbox # <<>>, mbox' = Tail(mbox), mbox[1].kind # "data",
         Rear' = Rear, UNCHANGED <<sent, peer>>
  PROVE  Mail' /\ peer # "open" /\ \A k \in DOMAIN mbox' : mbox'[k].kind # "data"
<1>1. /\ 1 \in DOMAIN mbox
      /\ \A k \in DOMAIN mbox' : k \in Nat \ {0} /\ k + 1 \in DOMAIN mbox /\ mbox'[k] = mbox[k + 1]
  BY TailIs
<1>2. \A k \in DOMAIN mbox : mbox[k].kind # "data"
  <2>1. SUFFICES ASSUME NEW k \in DOMAIN mbox, mbox[k].kind = "data" PROVE FALSE
    OBVIOUS
  <2>2. k # 1 /\ k \in Nat /\ 1 <= k
    BY <2>1
  <2> QED
    BY <1>1, <2>1, <2>2 DEF Mail
<1>3. \A i \in 1 .. sent : ~(i > Rear)
  BY <1>2 DEF Mail
<1>4. \A k \in DOMAIN mbox' : mbox'[k].kind # "data" /\ mbox'[k].p = NoPbuf /\ peer # "open"
  BY <1>1, <1>2 DEF Mail
<1> QED
  BY <1>1, <1>2, <1>3, <1>4 DEF Mail

\* A pbuf taken from the mailbox continues the stream where the call stands.
LEMMA DataTaken ==
  ASSUME IInv, pc \in {"try", "wait"}, mbox # <<>>, mbox' = Tail(mbox), mbox[1].kind = "data",
         lastdata' = mbox[1].p, pc' = "got",
         UNCHANGED <<sent, peer, live, read, flagVars, dataVars>>
  PROVE  CallInv' /\ LastInv' /\ Used' /\ Held' /\ Mail'
<1>1. /\ mbox' \in Seq(Message) /\ mbox[1] \in Message /\ 1 \in DOMAIN mbox
      /\ \A k \in DOMAIN mbox' : k \in Nat \ {0} /\ k + 1 \in DOMAIN mbox /\ mbox'[k] = mbox[k + 1]
      /\ \A k \in DOMAIN mbox : k = 1 \/ (k - 1 \in DOMAIN mbox' /\ mbox'[k - 1] = mbox[k])
  BY TailIs DEF IInv, ConnTypes
<1>2. CallTypes /\ Locals /\ Order /\ Cover /\ Bytes /\ LastInv /\ Used /\ Mail /\ Held
  BY DEF IInv, CallInv, Stream
<1>3. lastdata = NoPbuf /\ pc \in Loop
  BY <1>2 DEF Locals, Loop
<1>4. read \in Nat /\ recvd \in Nat /\ sent \in Nat /\ read' = read /\ sent' = sent /\ live' = live
      /\ UNCHANGED <<peek, noblock, nofin, recvd, left, pending, buf>>
  BY <1>2 DEF IInv, ConnTypes, CallTypes, flagVars, dataVars
<1> DEFINE p == mbox[1].p
<1>5. p \in Pbufs /\ Real(p) /\ p.from > Rear /\ p # NoPbuf
  BY <1>1, <1>2, Pbuf DEF Mail, Message
<1>6. p.from \in Nat /\ p.len \in Nat /\ p.tot \in Nat /\ p.tot > 0 /\ p.from + p.tot <= sent + 1
  BY <1>4, <1>5 DEF Pbufs, Real, Within
<1> HIDE DEF p
<1>7. /\ Rear = read + (IF peek THEN 0 ELSE recvd) /\ Rear \in Nat
      /\ LastAt = (IF peek THEN 0 ELSE recvd) /\ LastAt' = LastAt
  <2>1. \A k \in DOMAIN pending : ~Partial(pending[k])
    BY <1>2, <1>3 DEF Order, Loop
  <2>2. pending # <<>> => Len(pending) \in DOMAIN pending
    BY <1>2 DEF CallTypes
  <2> QED
    BY <1>3, <1>4, <2>1, <2>2 DEF Rear, LastAt, Partial
<1>8. \A k \in DOMAIN mbox : k # 1 /\ mbox[k].kind = "data" =>
        p.from + p.tot <= mbox[k].p.from /\ Real(mbox[k].p) /\ mbox[k].p \in Pbufs
  <2>1. SUFFICES ASSUME NEW k \in DOMAIN mbox, k # 1, mbox[k].kind = "data"
                 PROVE  p.from + p.tot <= mbox[k].p.from /\ Real(mbox[k].p) /\ mbox[k].p \in Pbufs
    OBVIOUS
  <2>2. 1 < k /\ mbox[k] \in Message
    BY <2>1 DEF IInv, ConnTypes
  <2> QED
    BY <1>1, <1>2, <2>1, <2>2 DEF Mail, Message, p
<1>9. p.from = Rear + 1
  <2>1. Rear + 1 \in 1 .. sent
    BY <1>4, <1>5, <1>6, <1>7
  <2>2. PICK k \in DOMAIN mbox : mbox[k].kind = "data" /\ Rear + 1 \in Positions(mbox[k].p)
    BY <1>2, <1>7, <2>1 DEF Mail
  <2>3. CASE k = 1
    BY <1>5, <1>6, <1>7, <2>2, <2>3 DEF Positions, p
  <2>4. CASE k # 1
    <3>1. p.from + p.tot <= mbox[k].p.from /\ mbox[k].p.from \in Nat /\ mbox[k].p.from <= Rear + 1
      BY <1>7, <1>8, <2>2, <2>4 DEF Positions, Pbufs
    <3> QED
      BY <1>5, <1>6, <1>7, <3>1
  <2> QED
    BY <2>3, <2>4
<1>10. Rear' = Rear + p.tot /\ Rear' \in Nat
  <2>1. lastdata' = p /\ p # NoPbuf
    BY <1>5 DEF p
  <2>2. Rear' = p.from + p.tot - 1
    BY <2>1 DEF Rear
  <2>3. Rear \in Nat /\ p.tot \in Nat /\ p.from \in Nat /\ p.from = Rear + 1
    BY <1>6, <1>7, <1>9
  <2>4. p.from + p.tot - 1 = Rear + p.tot
    BY <2>3
  <2> QED
    BY <2>2, <2>3, <2>4
<1>11. CallTypes'
  BY <1>2, <1>4, <1>5 DEF CallTypes, PCs, p
<1>12. Locals'
  BY <1>2, <1>3, <1>4, <1>5 DEF Locals, Tails, Loop, Mid, p
<1>13. Order' /\ Cover' /\ Bytes'
  <2>1. \A k \in DOMAIN pending : ~Partial(pending[k])
    BY <1>2, <1>3 DEF Order, Loop
  <2> QED
    BY <1>2, <1>3, <1>4, <2>1 DEF Order, Cover, Bytes, Real, Partial, Loop
<1>14. LastInv'
  <2>1. lastdata' = p
    BY DEF p
  <2>2. p.from = read' + LastAt' + 1
    BY <1>4, <1>7, <1>9
  <2> QED
    BY <1>4, <1>5, <2>1, <2>2 DEF LastInv, Real
<1>15. Used' /\ Held'
  <2>1. read' + recvd' <= Rear'
    BY <1>2, <1>4, <1>6, <1>7, <1>10 DEF Used
  <2>2. Rear' <= sent'
    BY <1>4, <1>6, <1>7, <1>9, <1>10
  <2>3. Freed' = Freed
    BY <1>4 DEF Freed
  <2> QED
    BY <1>2, <1>4, <2>1, <2>2, <2>3 DEF Used, Held
<1>16. Mail'
  <2>1. \A k \in DOMAIN mbox' :
          /\ mbox'[k].kind = "data" => Within(mbox'[k].p, sent') /\ mbox'[k].p.from > Rear'
          /\ mbox'[k].kind # "data" => mbox'[k].p = NoPbuf /\ peer' # "open"
    <3>1. SUFFICES ASSUME NEW k \in DOMAIN mbox'
                   PROVE  /\ mbox'[k].kind = "data" => Within(mbox'[k].p, sent') /\ mbox'[k].p.from > Rear'
                          /\ mbox'[k].kind # "data" => mbox'[k].p = NoPbuf /\ peer' # "open"
      OBVIOUS
    <3>2. k + 1 \in DOMAIN mbox /\ k + 1 # 1 /\ mbox'[k] = mbox[k + 1]
      BY <1>1
    <3>3. mbox[k + 1].kind = "data" => Within(mbox[k + 1].p, sent) /\ mbox[k + 1].p.from > Rear'
      <4>1. ASSUME mbox[k + 1].kind = "data" PROVE Within(mbox[k + 1].p, sent) /\ mbox[k + 1].p.from > Rear'
        <5>1. p.from + p.tot <= mbox[k + 1].p.from /\ Within(mbox[k + 1].p, sent) /\ mbox[k + 1].p \in Pbufs
          BY <1>8, <3>2, <4>1 DEF Real
        <5>2. mbox[k + 1].p.from \in Nat
          BY <5>1 DEF Pbufs
        <5>3. p.from + p.tot = Rear' + 1
          <6>1. Rear \in Int /\ p.tot \in Int /\ p.from = Rear + 1 /\ Rear' = Rear + p.tot
            BY <1>6, <1>7, <1>9, <1>10
          <6>2. (Rear + 1) + p.tot = (Rear + p.tot) + 1
            BY <6>1, Shift
          <6> QED
            BY <6>1, <6>2
        <5> QED
          BY <1>10, <5>1, <5>2, <5>3
      <4> QED
        BY <4>1
    <3> QED
      BY <1>2, <1>4, <3>2, <3>3 DEF Mail
  <2>2. \A j, k \in DOMAIN mbox' : j < k /\ mbox'[k].kind = "data" =>
          mbox'[j].kind = "data" /\ mbox'[j].p.from + mbox'[j].p.tot <= mbox'[k].p.from
    <3>1. SUFFICES ASSUME NEW j \in DOMAIN mbox', NEW k \in DOMAIN mbox', j < k, mbox'[k].kind = "data"
                   PROVE  mbox'[j].kind = "data" /\ mbox'[j].p.from + mbox'[j].p.tot <= mbox'[k].p.from
      OBVIOUS
    <3>2. /\ k + 1 \in DOMAIN mbox /\ mbox'[k] = mbox[k + 1]
          /\ j + 1 \in DOMAIN mbox /\ mbox'[j] = mbox[j + 1] /\ j + 1 < k + 1
      BY <1>1, <3>1
    <3> QED
      BY <1>2, <3>1, <3>2 DEF Mail
  <2>3. \A i \in 1 .. sent' : i > Rear' =>
          \E k \in DOMAIN mbox' : mbox'[k].kind = "data" /\ i \in Positions(mbox'[k].p)
    <3>1. SUFFICES ASSUME NEW i \in 1 .. sent, i > Rear'
                   PROVE  \E k \in DOMAIN mbox' : mbox'[k].kind = "data" /\ i \in Positions(mbox'[k].p)
      BY <1>4
    <3>2. i > Rear
      BY <1>6, <1>7, <1>10, <3>1
    <3>3. PICK k \in DOMAIN mbox : mbox[k].kind = "data" /\ i \in Positions(mbox[k].p)
      BY <1>2, <3>1, <3>2 DEF Mail
    <3>4. k # 1
      <4>1. SUFFICES ASSUME k = 1 PROVE FALSE
        OBVIOUS
      <4>2. i \in p.from .. p.from + p.tot - 1
        BY <3>3, <4>1 DEF Positions, p
      <4> QED
        BY <1>6, <1>7, <1>9, <1>10, <3>1, <4>2
    <3>5. k - 1 \in DOMAIN mbox' /\ mbox'[k - 1] = mbox[k]
      BY <1>1, <3>4
    <3> QED
      BY <3>3, <3>5
  <2> QED
    BY <2>1, <2>2, <2>3 DEF Mail, Real, Positions
<1> QED
  BY <1>11, <1>12, <1>13, <1>14, <1>15, <1>16 DEF CallInv

\* A message is taken: a pbuf, the FIN, or the message of err_tcp.
LEMMA FetchStep == ASSUME IInv, Fetch PROVE IInv'
<1>1. /\ pc \in {"try", "wait"} /\ mbox # <<>> /\ mbox' = Tail(mbox)
      /\ UNCHANGED <<connVars, mboxOpen, mboxClosed, pendingErr, live>>
  BY DEF Fetch
<1>2. ConnTypes /\ CallTypes /\ Locals /\ Ended /\ Stream /\ Credit /\ Mail
  BY <1>1 DEF IInv, CallInv, Stream
<1>3. pc \in Loop /\ lastdata = NoPbuf /\ ~finPending
  BY <1>1, <1>2 DEF Loop, Locals, Ended
<1>4. mbox \in Seq(Message) /\ Len(mbox') <= MboxSize /\ mbox' \in Seq(Message) /\ Head(mbox) = mbox[1]
  BY <1>1, <1>2, TailIs, SizesAssumption DEF ConnTypes
<1>5. UNCHANGED <<sent, credit, peer, resetDue>>
  BY <1>1 DEF connVars
<1>6. CASE /\ mbox[1].kind = "data" /\ lastdata' = mbox[1].p /\ pc' = "got"
           /\ UNCHANGED <<finPending, flagVars, dataVars, seenVars>>
  <2>1. CallInv' /\ LastInv' /\ Used' /\ Held' /\ Mail'
    BY <1>1, <1>5, <1>6, DataTaken DEF seenVars
  <2>2. ConnTypes' /\ Shutdown' /\ Ended' /\ Credit'
    BY <1>1, <1>2, <1>3, <1>4, <1>5, <1>6 DEF ConnTypes, Shutdown, Ended, Credit, seenVars
  <2> QED
    BY <2>1, <2>2 DEF IInv, Stream
<1>7. CASE mbox[1].kind # "data" /\ lastdata' = lastdata
  <2>1. /\ finPending' \in BOOLEAN
        /\ \/ NoData(FALSE)
           \/ ~nofin /\ pc' = "fin" /\ UNCHANGED <<finPending, flagVars, dataVars, seenVars>>
    BY <1>2, <1>4, <1>7 DEF Fetch, ConnTypes
  <2>2. /\ CallInv' /\ LastInv' /\ Used' /\ Held' /\ Rear' = Rear /\ read' = read
        /\ pc' \in {"idle", "done", "fin"} /\ eof' = eof /\ (pc' = "fin" => ~finPending')
    <3>1. CASE NoData(FALSE)
      BY <1>1, <1>2, <1>3, <1>5, <1>7, <3>1, NothingReceived DEF ConnTypes
    <3>2. CASE ~nofin /\ pc' = "fin" /\ UNCHANGED <<finPending, flagVars, dataVars, seenVars>>
      <4>1. Locals'
        BY <1>1, <1>2, <1>3, <1>7, <3>2 DEF Locals, Tails, Loop, Mid, flagVars, dataVars, CallTypes
      <4> QED
        BY <1>1, <1>3, <1>5, <1>7, <3>2, <4>1, CallMoves DEF PCs, seenVars
    <3> QED
      BY <2>1, <3>1, <3>2
  <2>3. Mail' /\ peer # "open" /\ \A k \in DOMAIN mbox' : mbox'[k].kind # "data"
    BY <1>1, <1>2, <1>4, <1>5, <1>7, <2>2, EndTaken
  <2>4. ConnTypes'
    BY <1>1, <1>2, <1>4, <1>5, <2>1, <2>2 DEF ConnTypes
  <2>5. Shutdown' /\ Ended' /\ Credit'
    BY <1>1, <1>2, <1>3, <1>5, <1>7, <2>2, <2>3 DEF Shutdown, Ended, Credit
  <2> QED
    BY <2>2, <2>3, <2>4, <2>5 DEF IInv, Stream
<1>8. (mbox[1].kind = "data" /\ lastdata' = mbox[1].p /\ pc' = "got"
        /\ UNCHANGED <<finPending, flagVars, dataVars, seenVars>>)
      \/ (mbox[1].kind # "data" /\ lastdata' = lastdata)
  BY <1>4 DEF Fetch
<1> QED
  BY <1>6, <1>7, <1>8

\* The mailbox is deleted only when no data is left in it.
LEMMA ShutStep == ASSUME IInv, Shut PROVE IInv'
<1>1. /\ pc = "shut" /\ NoData(TRUE) /\ UNCHANGED <<connVars, mboxClosed, pendingErr, finPending, live, lastdata>>
      /\ \/ UNCHANGED <<mbox, mboxOpen>>
         \/ mbox' = <<>> /\ mboxOpen' = FALSE
  BY DEF Shut
<1>2. ConnTypes /\ CallTypes /\ Locals /\ Ended /\ Stream /\ Credit /\ Mail
  BY <1>1 DEF IInv, CallInv, Stream
<1>3. pc \in Loop /\ lastdata = NoPbuf /\ recvd = 0
  BY <1>1, <1>2 DEF Loop, Locals
<1>4. UNCHANGED <<sent, credit, peer, resetDue>>
  BY <1>1 DEF connVars
<1>5. /\ CallInv' /\ LastInv' /\ Used' /\ Held' /\ Rear' = Rear /\ read' = read
      /\ pc' = "idle" /\ eof' = TRUE
  BY <1>1, <1>2, <1>3, <1>4, NothingReceived DEF ConnTypes
<1>6. Mail' /\ mbox' \in Seq(Message) /\ Len(mbox') <= MboxSize
      /\ (\A k \in DOMAIN mbox : mbox[k].kind # "data") /\ (\A k \in DOMAIN mbox' : mbox'[k].kind # "data")
  <2>1. \A k \in DOMAIN mbox : mbox[k].kind # "data"
    BY <1>1, <1>2 DEF Ended
  <2>2. CASE mbox' = mbox
    BY <1>2, <1>4, <1>5, <2>1, <2>2, MailKept DEF ConnTypes
  <2>3. CASE mbox' = <<>>
    BY <1>2, <1>4, <1>5, <2>1, <2>3, SizesAssumption DEF Mail, ConnTypes
  <2> QED
    BY <1>1, <2>2, <2>3
<1>7. ConnTypes'
  BY <1>1, <1>2, <1>4, <1>5, <1>6 DEF ConnTypes
<1>8. Shutdown' /\ Ended' /\ Credit'
  BY <1>1, <1>2, <1>3, <1>4, <1>5, <1>6 DEF Shutdown, Ended, Credit
<1> QED
  BY <1>5, <1>6, <1>7, <1>8 DEF IInv, Stream

\* lwip_close frees every pbuf that is left.
LEMMA CloseStep == ASSUME IInv, Close PROVE IInv'
<1>1. /\ pc = "idle" /\ pc' = "closed" /\ mbox' = <<>> /\ mboxOpen' = FALSE /\ lastdata' = NoPbuf
      /\ peer' = "reset" /\ resetDue' = FALSE
      /\ live' = live \ ((UNION {Positions(mbox[k].p) : k \in DOMAIN mbox}) \cup Positions(lastdata))
      /\ UNCHANGED <<sent, credit, mboxClosed, pendingErr, finPending, flagVars, dataVars, seenVars>>
  BY DEF Close, IInv, ConnTypes
<1>2. ConnTypes /\ CallTypes /\ Locals /\ Ended /\ LastInv /\ Used /\ Mail /\ Held /\ Credit
  BY <1>1 DEF IInv, CallInv, Stream
<1>3. recvd = 0 /\ left = 0 /\ pending = <<>> /\ ~peek
  BY <1>1, <1>2 DEF Locals
<1>4. read \in Nat /\ sent \in Nat /\ lastdata \in Pbufs
  BY <1>2 DEF ConnTypes, CallTypes
<1>5. live' = {}
  <2>1. SUFFICES ASSUME NEW i \in live
                 PROVE  i \in (UNION {Positions(mbox[k].p) : k \in DOMAIN mbox}) \cup Positions(lastdata)
    BY <1>1
  <2>2. i \in read + 1 .. sent /\ i \in 1 .. sent
    BY <1>2, <1>3, <1>4 DEF Held, Freed
  <2>3. CASE i > Rear
    BY <1>2, <2>2, <2>3 DEF Mail
  <2>4. CASE ~(i > Rear)
    <3>1. lastdata # NoPbuf
      BY <1>3, <1>4, <2>2, <2>4 DEF Rear
    <3>2. lastdata.from = read + 1 /\ Rear = lastdata.from + lastdata.tot - 1 /\ lastdata.tot \in Nat
      BY <1>2, <1>3, <1>4, <3>1 DEF LastInv, LastAt, Rear, Pbufs
    <3>3. i \in Positions(lastdata)
      BY <1>4, <2>2, <2>4, <3>2 DEF Positions
    <3> QED
      BY <3>3
  <2> QED
    BY <2>3, <2>4
<1>6. read <= sent
  <2>1. Rear \in Int /\ read <= Rear /\ Rear <= sent
    BY <1>2, <1>3, <1>4 DEF Used, Rear, Pbufs
  <2> QED
    BY <1>4, <2>1
<1>7. CallInv'
  <2>1. CallTypes'
    BY <1>1, <1>2, Pbuf DEF CallTypes, PCs, flagVars, dataVars
  <2>2. Locals'
    BY <1>1, <1>3 DEF Locals, Tails, Loop, Mid, flagVars, dataVars
  <2>3. Order' /\ Cover' /\ Bytes'
    BY <1>1, <1>3 DEF Order, Cover, Bytes, dataVars
  <2> QED
    BY <2>1, <2>2, <2>3 DEF CallInv
<1>8. ConnTypes'
  <2>1. mbox' \in Seq(Message) /\ Len(mbox') <= MboxSize
    BY <1>1, SizesAssumption
  <2> QED
    BY <1>1, <1>2, <2>1 DEF ConnTypes, seenVars
<1>9. Shutdown' /\ Credit'
  BY <1>1, <1>2, <1>5, <1>6 DEF Shutdown, Credit, seenVars
<1>10. Ended'
  BY <1>1 DEF Ended
<1> QED
  BY <1>1, <1>7, <1>8, <1>9, <1>10 DEF IInv, Stream

---------------------------------------------------------------------------
\* pbuf_free_header leaves the rest of the pbuf.
LEMMA HeaderFreed ==
  ASSUME NEW p \in Pbufs, NEW n \in Nat, sent \in Nat, Real(p), n < p.tot
  PROVE  /\ FreeHeader(p, n) \in Pbufs /\ Real(FreeHeader(p, n)) /\ FreeHeader(p, n) # NoPbuf
         /\ FreeHeader(p, n).from = p.from + n /\ FreeHeader(p, n).tot = p.tot - n
<1>1. p.from \in Nat /\ p.len \in Nat /\ p.tot \in Nat
  BY DEF Pbufs
<1> DEFINE m == IF n < p.len THEN p.len - n ELSE p.tot - n
<1>2. m \in Nat /\ 0 < m /\ m <= p.tot - n /\ p.tot - n \in Nat /\ p.from + n \in Nat /\ 1 <= p.from + n
      /\ (p.from + n) + (p.tot - n) <= sent + 1
  BY <1>1 DEF Real, Within
<1> HIDE DEF m
<1>3. FreeHeader(p, n) = [from |-> p.from + n, len |-> m, tot |-> p.tot - n]
  BY DEF FreeHeader, m
<1>4. FreeHeader(p, n) \in Pbufs /\ Real(FreeHeader(p, n))
  BY <1>2, <1>3 DEF Pbufs, Real, Within
<1> QED
  BY <1>3, <1>4, Pbuf

\* The pbuf in hand continues the stream where the call stands.
LEMMA InHand ==
  ASSUME IInv, pc \in {"got", "copy"}
  PROVE  /\ lastdata \in Pbufs /\ Real(lastdata) /\ lastdata # NoPbuf
         /\ lastdata.from \in Nat /\ lastdata.len \in Nat /\ lastdata.tot \in Nat
         /\ 0 < lastdata.tot /\ lastdata.len <= lastdata.tot
         /\ read \in Nat /\ sent \in Nat /\ recvd \in Nat /\ left \in Nat /\ pending \in Seq(Record)
         /\ lastdata.from = read + (IF peek THEN 0 ELSE recvd) + 1
         /\ Rear = read + (IF peek THEN 0 ELSE recvd) + lastdata.tot /\ Rear <= sent
         /\ CopyLen \in Nat /\ CopyLen <= left /\ CopyLen <= lastdata.tot
         /\ CopyLen = left \/ CopyLen = lastdata.tot
         /\ ~finPending
         /\ \A k \in DOMAIN pending : ~Partial(pending[k])
<1>1. CallTypes /\ ConnTypes /\ Locals /\ Order /\ LastInv /\ Used /\ Ended
  BY DEF IInv, CallInv, Stream
<1>2. lastdata # NoPbuf /\ lastdata \in Pbufs /\ pc \in Loop
  BY <1>1 DEF Locals, CallTypes, Loop
<1>3. read \in Nat /\ sent \in Nat /\ recvd \in Nat /\ left \in Nat /\ pending \in Seq(Record) /\ peek \in BOOLEAN
  BY <1>1 DEF ConnTypes, CallTypes
<1>4. lastdata.from \in Nat /\ lastdata.len \in Nat /\ lastdata.tot \in Nat
  BY <1>2 DEF Pbufs
<1>5. Real(lastdata) /\ 0 < lastdata.tot /\ lastdata.len <= lastdata.tot
  BY <1>1, <1>2, <1>4 DEF LastInv, Real, Within
<1>6. \A k \in DOMAIN pending : ~Partial(pending[k])
  BY <1>1, <1>2 DEF Order, Loop
<1>7. LastAt = IF peek THEN 0 ELSE recvd
  <2>1. pending # <<>> => Len(pending) \in DOMAIN pending
    BY <1>3
  <2> QED
    BY <1>6, <2>1 DEF LastAt
<1>8. lastdata.from = read + (IF peek THEN 0 ELSE recvd) + 1
  BY <1>1, <1>2, <1>7 DEF LastInv
<1>9. Rear = read + (IF peek THEN 0 ELSE recvd) + lastdata.tot /\ Rear <= sent
  <2>1. Rear = lastdata.from + lastdata.tot - 1
    BY <1>2 DEF Rear
  <2>2. Rear = read + (IF peek THEN 0 ELSE recvd) + lastdata.tot
    <3> DEFINE o == IF peek THEN 0 ELSE recvd
    <3>1. read \in Int /\ o \in Int /\ lastdata.tot \in Int
      BY <1>3, <1>4
    <3>2. Rear = (read + o + 1) + lastdata.tot - 1
      BY <1>8, <2>1
    <3> HIDE DEF o
    <3>3. (read + o + 1) + lastdata.tot - 1 = read + o + lastdata.tot
      BY ONLY <3>1, Shift
    <3> QED
      BY <3>2, <3>3 DEF o
  <2> QED
    BY <1>1, <2>2 DEF Used
<1>10. /\ CopyLen \in Nat /\ CopyLen <= left /\ CopyLen <= lastdata.tot
       /\ CopyLen = left \/ CopyLen = lastdata.tot
  BY <1>3, <1>4 DEF CopyLen, Least
<1>11. ~finPending
  BY <1>1, <1>2 DEF Ended
<1> QED
  BY <1>2, <1>3, <1>4, <1>5, <1>6, <1>8, <1>9, <1>10, <1>11

\* A sequence with one more element.
LEMMA Appended ==
  ASSUME NEW S, NEW s \in Seq(S), NEW e \in S, NEW t, t = Append(s, e), NEW n, n = Len(s) + 1
  PROVE  /\ DOMAIN t = 1 .. n /\ t[n] = e /\ n \in Nat /\ 1 <= n
         /\ \A k \in DOMAIN s : k \in 1 .. n - 1 /\ k \in DOMAIN t /\ t[k] = s[k]
         /\ DOMAIN s = 1 .. n - 1 /\ Len(t) = n /\ t \in Seq(S)
         /\ t # <<>> /\ n \in DOMAIN t
<1>1. n \in Nat /\ 1 <= n /\ DOMAIN s = 1 .. n - 1
  OBVIOUS
<1>2. t \in Seq(S) /\ Len(t) = n /\ DOMAIN t = 1 .. n
  OBVIOUS
<1>3. t[n] = e /\ \A k \in DOMAIN s : t[k] = s[k]
  OBVIOUS
<1> QED
  BY <1>1, <1>2, <1>3

\* A record is gathered: its bytes follow those of the records before it.
LEMMA GatherStep == ASSUME IInv, Gather PROVE IInv'
<1> DEFINE c == CopyLen
           n == Len(pending) + 1
<1>1. /\ pc = "got" /\ ~peek /\ c <= lastdata.len /\ pending' = Append(pending, Entry)
      /\ lastdata' = LastAfterGather /\ recvd' = recvd + c /\ left' = left - c
      /\ noblock' = TRUE /\ nofin' = TRUE
      /\ pc' = (IF FlushDue(pending', left') THEN "flush" ELSE "top")
      /\ UNCHANGED <<connVars, mboxVars, live, peek, buf, seenVars>>
  BY DEF Gather, NoMoreWaiting
<1>2. ConnTypes /\ CallTypes /\ Locals /\ Order /\ Cover /\ Bytes /\ Used /\ Held /\ Ended
  BY <1>1 DEF IInv, CallInv, Stream
<1>3. /\ lastdata \in Pbufs /\ Real(lastdata) /\ lastdata # NoPbuf
      /\ lastdata.from \in Nat /\ lastdata.tot \in Nat /\ lastdata.len \in Nat /\ 0 < lastdata.tot
      /\ read \in Nat /\ sent \in Nat /\ recvd \in Nat /\ left \in Nat /\ pending \in Seq(Record)
      /\ lastdata.from = read + recvd + 1
      /\ Rear = read + recvd + lastdata.tot /\ Rear <= sent
      /\ c \in Nat /\ c <= left /\ c <= lastdata.tot /\ (c = left \/ c = lastdata.tot)
      /\ ~finPending
      /\ \A k \in DOMAIN pending : ~Partial(pending[k])
  BY <1>1, InHand
<1> HIDE DEF c
<1>4. Entry = [p |-> lastdata, at |-> recvd, n |-> c] /\ Entry \in Record
  BY <1>3 DEF Entry, Record, c
<1>5. /\ DOMAIN pending' = 1 .. n /\ pending'[n] = Entry /\ n \in Nat /\ 1 <= n
      /\ \A k \in DOMAIN pending : k \in 1 .. n - 1 /\ k \in DOMAIN pending' /\ pending'[k] = pending[k]
      /\ DOMAIN pending = 1 .. n - 1 /\ Len(pending') = n /\ pending' \in Seq(Record)
      /\ pending' # <<>> /\ n \in DOMAIN pending'
  <2>1. pending \in Seq(Record) /\ Entry \in Record /\ pending' = Append(pending, Entry) /\ n = Len(pending) + 1
    BY <1>1, <1>3, <1>4
  <2> HIDE DEF n
  <2> QED
    BY <2>1, Appended
<1>6. \A k \in DOMAIN pending' : k = n \/ k \in DOMAIN pending
  BY <1>5
<1>7. Len(pending) < PendingMax /\ PendingMax \in Nat
  BY <1>1, <1>2, SizesAssumption DEF Locals, Loop
<1>8. \A k \in DOMAIN pending : /\ pending[k].at \in Nat /\ pending[k].n \in Nat /\ pending[k].p \in Pbufs
                                /\ pending[k].at + pending[k].n <= recvd
  <2>1. \A k \in DOMAIN pending : pending[k] \in Record
    BY <1>3
  <2> QED
    BY <1>2, <2>1 DEF Order, Record
<1>9. recvd' \in Nat /\ left' \in Nat /\ recvd' + left' = recvd + left /\ recvd <= recvd'
  BY <1>1, <1>3
<1>10. Partial(Entry) <=> lastdata.tot > c
  BY <1>4 DEF Partial
<1>11. lastdata' = IF lastdata.tot > c THEN lastdata ELSE NoPbuf
  BY <1>1, <1>3 DEF LastAfterGather, c
<1>12. pc' \in {"flush", "top"} /\ (pc' = "top" => n < PendingMax /\ left' > 0) /\ (left' = 0 => pc' = "flush")
  BY <1>1, <1>5, <1>7, <1>9 DEF FlushDue
<1>13. CallTypes'
  <2>1. lastdata' \in Pbufs
    BY <1>3, <1>11, Pbuf
  <2>2. Len(pending') <= PendingMax
    BY <1>5, <1>7
  <2> QED
    BY <1>1, <1>2, <1>5, <1>9, <1>12, <2>1, <2>2 DEF CallTypes, PCs
<1>14. Locals'
  BY <1>1, <1>5, <1>12 DEF Locals, Tails, Loop, Mid
<1>15. Order'
  <2>1. \A k \in DOMAIN pending' :
          /\ Within(pending'[k].p, sent')
          /\ pending'[k].p.from = read' + pending'[k].at + 1
          /\ pending'[k].n <= pending'[k].p.len
          /\ pending'[k].at + pending'[k].n <= recvd'
          /\ Partial(pending'[k]) => k = n /\ pending'[k].p = lastdata' /\ left' = 0 /\ pc' = "flush"
    <3>1. SUFFICES ASSUME NEW k \in DOMAIN pending'
                   PROVE  /\ Within(pending'[k].p, sent')
                          /\ pending'[k].p.from = read' + pending'[k].at + 1
                          /\ pending'[k].n <= pending'[k].p.len
                          /\ pending'[k].at + pending'[k].n <= recvd'
                          /\ Partial(pending'[k]) => k = n /\ pending'[k].p = lastdata' /\ left' = 0 /\ pc' = "flush"
      OBVIOUS
    <3>2. CASE k \in DOMAIN pending
      <4>1. pending'[k] = pending[k] /\ ~Partial(pending[k])
        BY <1>3, <1>5, <3>2
      <4>2. /\ Within(pending[k].p, sent)
            /\ pending[k].p.from = read + pending[k].at + 1
            /\ pending[k].n <= pending[k].p.len
        BY <1>2, <3>2 DEF Order, Real
      <4>3. pending[k].at + pending[k].n <= recvd'
        <5>1. pending[k].at + pending[k].n \in Nat /\ pending[k].at + pending[k].n <= recvd
          BY <1>8, <3>2
        <5> QED
          BY <1>3, <1>9, <5>1
      <4> QED
        BY <1>1, <4>1, <4>2, <4>3 DEF connVars, seenVars
    <3>3. CASE k = n
      <4>1. pending'[k].p = lastdata /\ pending'[k].at = recvd /\ pending'[k].n = c /\ pending'[k] = Entry
        BY <1>4, <1>5, <3>3
      <4>2. Partial(Entry) => left' = 0 /\ lastdata' = lastdata
        BY <1>1, <1>3, <1>10, <1>11
      <4> QED
        BY <1>1, <1>3, <1>12, <3>3, <4>1, <4>2 DEF connVars, seenVars, Real
    <3> QED
      BY <1>6, <3>2, <3>3
  <2>2. \A j, k \in DOMAIN pending' : j < k => pending'[j].at + pending'[j].n <= pending'[k].at
    <3>1. SUFFICES ASSUME NEW j \in DOMAIN pending', NEW k \in DOMAIN pending', j < k
                   PROVE  pending'[j].at + pending'[j].n <= pending'[k].at
      OBVIOUS
    <3>2. j \in DOMAIN pending /\ pending'[j] = pending[j]
      BY <1>5, <1>6, <3>1
    <3>3. CASE k \in DOMAIN pending
      BY <1>2, <1>5, <3>1, <3>2, <3>3 DEF Order
    <3>4. CASE k = n
      BY <1>4, <1>5, <1>8, <3>2, <3>4
    <3> QED
      BY <1>6, <3>3, <3>4
  <2> QED
    BY <1>5, <2>1, <2>2 DEF Order, Real, Partial
<1>16. pending'[1].at = IF pending = <<>> THEN recvd ELSE pending[1].at
  <2>1. CASE pending = <<>>
    BY <1>4, <1>5, <2>1
  <2>2. CASE pending # <<>>
    <3>1. 1 \in DOMAIN pending
      BY <1>3, <2>2
    <3> QED
      BY <1>5, <2>2, <3>1
  <2> QED
    BY <2>1, <2>2
<1>17. Cover'
  <2>1. SUFFICES ASSUME NEW i \in 1 .. recvd', i > pending'[1].at
                 PROVE  \E k \in DOMAIN pending' : i \in pending'[k].at + 1 .. pending'[k].at + pending'[k].n
    BY DEF Cover
  <2>2. CASE i > recvd
    <3>1. pending'[n].at = recvd /\ pending'[n].n = c
      BY <1>4, <1>5
    <3>2. i \in recvd + 1 .. recvd + c
      BY <1>1, <1>3, <2>1, <2>2
    <3> QED
      BY <1>5, <3>1, <3>2
  <2>3. CASE i <= recvd
    <3>1. i \in 1 .. recvd
      BY <1>3, <2>1, <2>3
    <3>2. pending # <<>>
      BY <1>3, <1>16, <2>1, <2>3
    <3>3. PICK k \in DOMAIN pending : i \in pending[k].at + 1 .. pending[k].at + pending[k].n
      BY <1>2, <1>16, <2>1, <3>1, <3>2 DEF Cover
    <3> QED
      BY <1>5, <3>3
  <2> QED
    BY <1>3, <2>1, <2>2, <2>3
<1>18. Bytes'
  <2>1. SUFFICES ASSUME NEW i \in 1 .. recvd', i <= pending'[1].at PROVE buf'[i] = read' + i
    BY <1>5, <1>12 DEF Bytes
  <2>2. i \in 1 .. recvd
    <3>1. pending # <<>> => 1 \in DOMAIN pending
      BY <1>3
    <3>2. pending'[1].at \in Nat /\ pending'[1].at <= recvd
      <4>1. CASE pending = <<>>
        BY <1>3, <1>16, <4>1
      <4>2. CASE pending # <<>>
        <5>1. pending[1].at \in Nat /\ pending[1].n \in Nat /\ pending[1].at + pending[1].n <= recvd
          BY <1>8, <3>1, <4>2
        <5>2. pending'[1].at = pending[1].at
          BY <1>16, <4>2
        <5>3. pending[1].at <= recvd
          BY <1>3, <5>1, Below
        <5> QED
          BY <5>1, <5>2, <5>3
      <4> QED
        BY <4>1, <4>2
    <3>3. i \in Nat /\ 1 <= i
      BY <1>9, <2>1
    <3> QED
      BY <1>3, <2>1, <3>2, <3>3
  <2>3. buf[i] = read + i
    BY <1>2, <1>16, <2>1, <2>2 DEF Bytes
  <2> QED
    BY <1>1, <2>3 DEF seenVars
<1>19. LastInv' /\ Rear' = Rear
  <2>1. CASE lastdata.tot > c
    <3>1. lastdata' = lastdata /\ LastAt' = recvd
      BY <1>1, <1>4, <1>5, <1>10, <1>11, <2>1 DEF LastAt, Partial
    <3> QED
      BY <1>1, <1>3, <3>1 DEF LastInv, Rear, Real, Within, connVars, seenVars
  <2>2. CASE ~(lastdata.tot > c)
    <3>1. lastdata' = NoPbuf /\ lastdata.tot = c
      BY <1>3, <1>11, <2>2
    <3>2. Rear' = read + recvd'
      BY <1>1, <3>1 DEF Rear, seenVars
    <3>3. Rear' = Rear
      BY <1>1, <1>3, <3>1, <3>2
    <3> QED
      BY <3>1, <3>3 DEF LastInv
  <2> QED
    BY <2>1, <2>2
<1>20. Used'
  BY <1>1, <1>3, <1>19 DEF Used, connVars, seenVars
<1>21. Held'
  <2>1. Freed' = Freed
    BY <1>1, <1>5, <1>16 DEF Freed
  <2> QED
    BY <1>1, <1>2, <2>1 DEF Held, connVars, seenVars
<1>22. Ended'
  BY <1>1, <1>2, <1>3, <1>12 DEF Ended, connVars, mboxVars, seenVars
<1> QED
  BY <1>1, <1>2, <1>12, <1>13, <1>14, <1>15, <1>17, <1>18, <1>19, <1>20, <1>21, <1>22, MailStays
     DEF CallInv, ConnTypes, mboxVars, seenVars

\* lwip_recv_gdma_flush copies every gathered byte to its place.
LEMMA FlushStep == ASSUME IInv, Flush PROVE IInv'
<1> DEFINE Of(i) == {k \in DOMAIN pending : i \in pending[k].at + 1 .. pending[k].at + pending[k].n}
<1>1. /\ pc \in {"flush", "lastFlush"}
      /\ buf' = [i \in DOMAIN buf |->
           IF Of(i) = {} THEN buf[i]
           ELSE Byte(pending[CHOOSE k \in Of(i) : TRUE].p.from + i - pending[CHOOSE k \in Of(i) : TRUE].at - 1)]
      /\ pc' = IF pc = "flush" THEN "consume" ELSE "lastConsume"
      /\ UNCHANGED <<connVars, mboxVars, live, lastdata, flagVars, recvd, left, pending, seenVars>>
  BY DEF Flush
<1>2. ConnTypes /\ CallTypes /\ Locals /\ Order /\ Cover /\ Bytes /\ LastInv /\ Used /\ Held /\ Ended
  BY <1>1 DEF IInv, CallInv, Stream
<1>3. /\ read \in Nat /\ sent \in Nat /\ recvd \in Nat /\ left \in Nat /\ pending \in Seq(Record)
      /\ sent <= MaxBytes /\ MaxBytes \in Nat /\ lastdata \in Pbufs /\ DOMAIN buf = 1 .. recvd + left
      /\ \A i \in DOMAIN buf : buf[i] \in 0 .. MaxBytes
  BY <1>2, SizesAssumption DEF ConnTypes, CallTypes
<1>4. pending # <<>> /\ 1 \in DOMAIN pending /\ Freed = pending[1].at
  BY <1>1, <1>2, <1>3 DEF Locals, Tails, Freed
<1>5. \A k \in DOMAIN pending : /\ pending[k].at \in Nat /\ pending[k].n \in Nat
                                /\ pending[k].at + pending[k].n <= recvd
                                /\ pending[k].p.from = read + pending[k].at + 1
                                /\ pending[1].at <= pending[k].at
  <2>1. \A k \in DOMAIN pending : pending[k] \in Record /\ k \in Nat /\ 1 <= k
    BY <1>3
  <2>2. \A k \in DOMAIN pending : pending[k].at \in Nat /\ pending[k].n \in Nat
    BY <2>1 DEF Record
  <2>3. SUFFICES ASSUME NEW k \in DOMAIN pending PROVE pending[1].at <= pending[k].at
    BY <1>2, <2>2 DEF Order
  <2>4. CASE k = 1
    BY <2>2, <2>4
  <2>5. CASE k # 1
    <3>1. pending[1].at + pending[1].n <= pending[k].at
      BY <1>2, <1>4, <2>1, <2>5 DEF Order
    <3> QED
      BY <1>4, <2>2, <3>1
  <2> QED
    BY <2>4, <2>5
<1>6. read + recvd <= sent
  <2>1. Rear \in Int
    BY <1>3 DEF Rear, Pbufs
  <2> QED
    BY <1>2, <1>3, <2>1 DEF Used
<1>7. \A i \in 1 .. recvd : i > pending[1].at => Byte(read + i) = read + i
  <2>1. SUFFICES ASSUME NEW i \in 1 .. recvd, i > pending[1].at PROVE read + i \in live
    BY DEF Byte
  <2> QED
    BY <1>2, <1>3, <1>4, <1>5, <1>6, <2>1 DEF Held
<1>8. \A i \in 1 .. recvd : buf'[i] = read + i
  <2>1. SUFFICES ASSUME NEW i \in 1 .. recvd PROVE buf'[i] = read + i
    OBVIOUS
  <2>2. i \in DOMAIN buf /\ i \in Nat
    BY <1>3
  <2>3. CASE Of(i) = {}
    <3>1. buf'[i] = buf[i]
      BY <1>1, <2>2, <2>3
    <3>2. ~(i > pending[1].at)
      BY <1>2, <1>4, <2>3 DEF Cover
    <3>3. i <= pending[1].at
      BY <1>4, <1>5, <2>2, <3>2
    <3>4. buf[i] = read + i
      BY <1>2, <3>3 DEF Bytes
    <3> QED
      BY <3>1, <3>4
  <2>4. CASE Of(i) # {}
    <3> DEFINE k == CHOOSE k \in Of(i) : TRUE
    <3>1. k \in Of(i)
      BY <2>4
    <3>2. buf'[i] = Byte(pending[k].p.from + i - pending[k].at - 1)
      BY <1>1, <2>2, <2>4
    <3>3. k \in DOMAIN pending /\ i \in pending[k].at + 1 .. pending[k].at + pending[k].n
      BY <3>1
    <3> HIDE DEF k
    <3>4. pending[k].at \in Nat /\ pending[k].n \in Nat /\ pending[k].p.from = read + pending[k].at + 1
          /\ pending[1].at <= pending[k].at /\ pending[1].at \in Nat
      BY <1>4, <1>5, <3>3
    <3>5. i > pending[1].at
      <4>1. pending[k].at + 1 <= i
        BY <2>2, <3>3, <3>4
      <4> QED
        BY <2>2, <3>4, <4>1
    <3>6. pending[k].p.from + i - pending[k].at - 1 = (read + pending[k].at + 1) + i - pending[k].at - 1
      BY <3>4
    <3>7. (read + pending[k].at + 1) + i - pending[k].at - 1 = read + i
      <4>1. read \in Int /\ pending[k].at \in Int /\ i \in Int
        BY <1>3, <2>2, <3>4
      <4> QED
        BY ONLY <4>1, Offset
    <3> QED
      BY <1>7, <3>2, <3>5, <3>6, <3>7
  <2> QED
    BY <2>3, <2>4
<1>9. CallTypes'
  <2>1. \A x : Byte(x) \in 0 .. MaxBytes
    <3>1. live \subseteq 0 .. MaxBytes
      BY <1>2, <1>3, <1>4, <1>5 DEF Held
    <3>2. SUFFICES ASSUME NEW x PROVE Byte(x) \in 0 .. MaxBytes
      OBVIOUS
    <3>3. CASE x \in live
      BY <3>1, <3>3 DEF Byte
    <3>4. CASE x \notin live
      BY <1>3, <3>4 DEF Byte
    <3> QED
      BY <3>3, <3>4
  <2>2. DOMAIN buf' = DOMAIN buf
    BY <1>1
  <2>3. ASSUME NEW i \in DOMAIN buf PROVE buf'[i] \in 0 .. MaxBytes
    <3>1. buf'[i] = buf[i] \/ \E x : buf'[i] = Byte(x)
      BY <1>1
    <3> QED
      BY <1>3, <2>1, <3>1
  <2> QED
    BY <1>1, <1>2, <2>2, <2>3 DEF CallTypes, PCs, flagVars
<1>10. Locals'
  BY <1>1, <1>2 DEF Locals, Tails, Loop, Mid, flagVars
<1>11. Order' /\ Cover'
  BY <1>1, <1>2 DEF Order, Cover, Real, Partial, connVars, seenVars
<1>12. Bytes'
  BY <1>1, <1>8 DEF Bytes, seenVars
<1>13. LastInv' /\ Used' /\ Held' /\ Rear' = Rear
  BY <1>1, <1>2 DEF LastInv, Used, Held, Rear, Freed, LastAt, Real, Partial, connVars, seenVars, flagVars
<1>14. Ended'
  BY <1>1, <1>2 DEF Ended, connVars, mboxVars, seenVars
<1> QED
  BY <1>1, <1>2, <1>9, <1>10, <1>11, <1>12, <1>13, <1>14, MailStays
     DEF CallInv, ConnTypes, mboxVars, seenVars

\* lwip_recv_gdma_consume frees what was copied and keeps the rest.
LEMMA ConsumeStep == ASSUME IInv, Consume PROVE IInv'
<1> DEFINE n == Len(pending)
<1>1. /\ pc \in {"consume", "lastConsume"}
      /\ lastdata' = (IF pending # <<>> /\ Partial(pending[n]) THEN FreeHeader(pending[n].p, pending[n].n)
                      ELSE IF \E k \in DOMAIN pending : pending[k].p = lastdata THEN NoPbuf ELSE lastdata)
      /\ live' = live \ UNION {Front(pending[k].p, pending[k].n) : k \in DOMAIN pending}
      /\ pending' = <<>>
      /\ pc' = (IF pc = "consume" /\ left > 0 THEN "top" ELSE "done")
      /\ UNCHANGED <<connVars, mboxVars, flagVars, recvd, left, buf, seenVars>>
  BY DEF Consume
<1>2. ConnTypes /\ CallTypes /\ Locals /\ Order /\ Cover /\ Bytes /\ LastInv /\ Used /\ Held /\ Ended
  BY <1>1 DEF IInv, CallInv, Stream
<1>3. /\ read \in Nat /\ sent \in Nat /\ recvd \in Nat /\ left \in Nat /\ pending \in Seq(Record)
      /\ lastdata \in Pbufs
  BY <1>2 DEF ConnTypes, CallTypes
<1>4. /\ pending # <<>> /\ ~peek /\ 1 \in DOMAIN pending /\ n \in DOMAIN pending
      /\ \A k \in DOMAIN pending : k \in Nat /\ 1 <= k /\ k <= n
  BY <1>1, <1>2, <1>3 DEF Locals, Tails
<1> HIDE DEF n
<1>5. \A k \in DOMAIN pending : /\ pending[k].at \in Nat /\ pending[k].n \in Nat
                                /\ pending[k].p \in Pbufs
                                /\ pending[k].at + pending[k].n <= recvd
                                /\ pending[k].p.from = read + pending[k].at + 1
                                /\ Real(pending[k].p)
  <2>1. \A k \in DOMAIN pending : pending[k] \in Record
    BY <1>3
  <2> QED
    BY <1>2, <2>1 DEF Order, Record
<1>6. \A k \in DOMAIN pending : pending[1].at <= pending[k].at /\ pending[k].at + pending[k].n <= pending[n].at + pending[n].n
  <2>1. SUFFICES ASSUME NEW k \in DOMAIN pending
                 PROVE  pending[1].at <= pending[k].at /\ pending[k].at + pending[k].n <= pending[n].at + pending[n].n
    OBVIOUS
  <2>2. k = 1 \/ pending[1].at + pending[1].n <= pending[k].at
    BY <1>2, <1>4 DEF Order
  <2>3. k = n \/ pending[k].at + pending[k].n <= pending[n].at
    <3>1. k = n \/ k < n
      BY <1>3, <1>4 DEF n
    <3> QED
      BY <1>2, <1>4, <3>1 DEF Order
  <2>4. /\ pending[1].at \in Nat /\ pending[1].n \in Nat /\ pending[k].at \in Nat /\ pending[k].n \in Nat
        /\ pending[n].at \in Nat /\ pending[n].n \in Nat
    BY <1>4, <1>5
  <2>5. pending[1].at <= pending[k].at
    BY <2>2, <2>4
  <2>6. pending[k].at + pending[k].n <= pending[n].at + pending[n].n
    BY <2>3, <2>4
  <2> QED
    BY <2>5, <2>6
<1>7. pending[n].at + pending[n].n = recvd
  <2>1. pending[n].at \in Nat /\ pending[n].n \in Nat /\ pending[n].at + pending[n].n <= recvd
        /\ pending[1].at <= pending[n].at /\ pending[1].at \in Nat
    BY <1>4, <1>5, <1>6
  <2>2. CASE recvd > pending[1].at
    <3>1. recvd \in 1 .. recvd
      BY <1>3, <2>1, <2>2
    <3>2. PICK k \in DOMAIN pending : recvd \in pending[k].at + 1 .. pending[k].at + pending[k].n
      BY <1>2, <1>4, <2>2, <3>1 DEF Cover
    <3>3. pending[k].at \in Nat /\ pending[k].n \in Nat /\ pending[k].at + pending[k].n <= pending[n].at + pending[n].n
      BY <1>5, <1>6
    <3>4. recvd <= pending[k].at + pending[k].n
      BY <1>3, <3>2, <3>3
    <3>5. pending[k].at + pending[k].n \in Nat /\ pending[n].at + pending[n].n \in Nat
      BY <2>1, <3>3
    <3> QED
      BY <1>3, <2>1, <3>3, <3>4, <3>5
  <2>3. CASE ~(recvd > pending[1].at)
    BY <1>3, <2>1, <2>3
  <2> QED
    BY <2>2, <2>3
<1>8. live' = read + recvd + 1 .. sent
  <2>1. live = read + pending[1].at + 1 .. sent
    BY <1>2, <1>4 DEF Held, Freed
  <2>2. pending[1].at \in Nat /\ pending[1].at <= recvd
    <3>1. pending[1].at \in Nat /\ pending[1].n \in Nat /\ pending[1].at + pending[1].n <= recvd
      BY <1>4, <1>5
    <3> QED
      BY <1>3, <3>1
  <2>3. \A k \in DOMAIN pending : \A x \in Int :
          x \in Front(pending[k].p, pending[k].n)
            <=> read + pending[k].at + 1 <= x /\ x <= read + pending[k].at + pending[k].n
    <3>1. SUFFICES ASSUME NEW k \in DOMAIN pending, NEW x \in Int
                   PROVE  x \in Front(pending[k].p, pending[k].n)
                            <=> read + pending[k].at + 1 <= x /\ x <= read + pending[k].at + pending[k].n
      OBVIOUS
    <3>2. pending[k].at \in Nat /\ pending[k].n \in Nat /\ pending[k].p.from = read + pending[k].at + 1
      BY <1>5
    <3>3. pending[k].p.from + pending[k].n - 1 = read + pending[k].at + pending[k].n
      <4>1. pending[k].p.from + pending[k].n - 1 = (read + pending[k].at + 1) + pending[k].n - 1
        BY <3>2
      <4>2. (read + pending[k].at + 1) + pending[k].n - 1 = read + pending[k].at + pending[k].n
        <5>1. read \in Int /\ pending[k].at \in Int /\ pending[k].n \in Int
          BY <1>3, <3>2
        <5> QED
          BY ONLY <5>1, Shift
      <4> QED
        BY <4>1, <4>2
    <3>4. Front(pending[k].p, pending[k].n) = read + pending[k].at + 1 .. read + pending[k].at + pending[k].n
      BY <3>2, <3>3 DEF Front
    <3> QED
      BY <1>3, <3>2, <3>4
  <2>4. ASSUME NEW x \in live, x > read + recvd PROVE x \in live'
    <3>1. SUFFICES ASSUME NEW k \in DOMAIN pending, x \in Front(pending[k].p, pending[k].n) PROVE FALSE
      BY <1>1
    <3>2. x \in Int
      BY <1>3, <2>1, <2>2
    <3>3. x <= read + pending[k].at + pending[k].n
      BY <2>3, <3>1, <3>2
    <3>4. pending[k].at \in Nat /\ pending[k].n \in Nat /\ pending[k].at + pending[k].n <= recvd
      BY <1>5
    <3> QED
      BY <1>3, <2>4, <3>2, <3>3, <3>4
  <2>5. ASSUME NEW x \in live, ~(x > read + recvd) PROVE x \notin live'
    <3>1. x \in Int /\ read + pending[1].at + 1 <= x /\ x <= read + recvd
      BY <1>3, <2>1, <2>2, <2>5
    <3>2. x - read \in 1 .. recvd /\ x - read > pending[1].at
      BY <1>3, <2>2, <3>1
    <3>3. PICK k \in DOMAIN pending : x - read \in pending[k].at + 1 .. pending[k].at + pending[k].n
      BY <1>2, <1>4, <3>2 DEF Cover
    <3>4. pending[k].at \in Nat /\ pending[k].n \in Nat
      BY <1>5
    <3>5. read + pending[k].at + 1 <= x /\ x <= read + pending[k].at + pending[k].n
      BY <1>3, <3>1, <3>3, <3>4
    <3>6. x \in Front(pending[k].p, pending[k].n)
      BY <2>3, <3>1, <3>5
    <3> QED
      BY <1>1, <3>6
  <2>6. live' \subseteq live
    BY <1>1
  <2>7. \A x : x \in live' <=> x \in live /\ x > read + recvd
    BY <2>4, <2>5, <2>6
  <2>8. \A x \in live : x \in Int /\ x <= sent
    BY <1>3, <2>1, <2>2
  <2>9. ASSUME NEW x \in live' PROVE x \in read + recvd + 1 .. sent
    <3>1. x \in live /\ x > read + recvd /\ x \in Int /\ x <= sent
      BY <2>6, <2>7, <2>8
    <3> QED
      BY <1>3, <3>1
  <2>10. ASSUME NEW x \in read + recvd + 1 .. sent PROVE x \in live'
    <3>1. x \in live /\ x > read + recvd
      BY <1>3, <2>1, <2>2
    <3> QED
      BY <2>7, <3>1
  <2> QED
    BY <2>9, <2>10
<1>9. Held' /\ Freed' = recvd'
  <2>1. Freed' = recvd'
    BY <1>1, <1>4 DEF Freed, flagVars
  <2> QED
    BY <1>1, <1>8, <2>1 DEF Held, connVars, seenVars
<1>10. LastAt' = recvd
  BY <1>1, <1>4 DEF LastAt, flagVars
<1>11. lastdata' \in Pbufs /\ LastInv' /\ Rear' = Rear /\ (lastdata = NoPbuf => lastdata' = NoPbuf)
  <2>1. CASE Partial(pending[n])
    <3> DEFINE e == pending[n]
    <3>1. lastdata = e.p /\ lastdata' = FreeHeader(e.p, e.n)
      BY <1>1, <1>2, <1>4, <2>1 DEF Order
    <3>2. /\ e.p \in Pbufs /\ e.n \in Nat /\ Real(e.p) /\ e.n < e.p.tot /\ e.p.tot \in Nat /\ e.p.from \in Nat
          /\ e.at \in Nat /\ e.p.from = read + e.at + 1 /\ e.at + e.n = recvd
      <4>1. e.p \in Pbufs /\ e.n \in Nat /\ Real(e.p) /\ e.at \in Nat /\ e.p.from = read + e.at + 1
        BY <1>4, <1>5
      <4>2. e.p.tot \in Nat /\ e.p.from \in Nat
        BY <4>1 DEF Pbufs
      <4> QED
        BY <1>7, <2>1, <4>1, <4>2 DEF Partial
    <3> HIDE DEF e
    <3>3. /\ lastdata' \in Pbufs /\ Real(lastdata') /\ lastdata' # NoPbuf
          /\ lastdata'.from = e.p.from + e.n /\ lastdata'.tot = e.p.tot - e.n
      BY <1>3, <3>1, <3>2, HeaderFreed
    <3>4. lastdata'.from = read' + LastAt' + 1
      <4>1. e.p.from + e.n = read + recvd + 1
        <5>1. e.p.from + e.n = (read + e.at + 1) + e.n
          BY <3>2
        <5>2. (read + e.at + 1) + e.n = read + (e.at + e.n) + 1
          <6>1. read \in Int /\ e.at \in Int /\ e.n \in Int
            BY <1>3, <3>2
          <6> QED
            BY ONLY <6>1, Shift
        <5> QED
          BY <3>2, <5>1, <5>2
      <4> QED
        BY <1>1, <1>10, <3>3, <4>1 DEF seenVars
    <3>5. Rear' = lastdata'.from + lastdata'.tot - 1 /\ Rear = e.p.from + e.p.tot - 1
      BY <3>1, <3>2, <3>3, Pbuf DEF Rear
    <3>6. Rear' = Rear
      BY <3>2, <3>3, <3>5
    <3>7. lastdata # NoPbuf
      BY <3>1, <3>2, Pbuf
    <3> QED
      BY <1>1, <3>3, <3>4, <3>6, <3>7 DEF LastInv, Real, connVars
  <2>2. CASE ~Partial(pending[n])
    <3>1. LastAt = recvd
      BY <1>4, <2>2 DEF LastAt, n
    <3>2. ASSUME NEW k \in DOMAIN pending, pending[k].p = lastdata PROVE FALSE
      <4>1. lastdata # NoPbuf
        BY <1>5, <3>2, Pbuf
      <4>2. lastdata.from = read + recvd + 1
        BY <1>2, <3>1, <4>1 DEF LastInv
      <4>3. pending[k].at \in Nat /\ pending[k].n \in Nat /\ pending[k].at + pending[k].n <= recvd
            /\ lastdata.from = read + pending[k].at + 1
        BY <1>5, <3>2
      <4>4. pending[k].n = 0
        BY <1>3, <4>2, <4>3
      <4>5. pending[k].p.tot \in Nat /\ 0 < pending[k].p.tot
        BY <1>5 DEF Real, Within, Pbufs
      <4>6. k = n
        BY <1>2, <4>4, <4>5 DEF Order, Partial, n
      <4> QED
        BY <2>2, <4>4, <4>5, <4>6 DEF Partial
    <3>3. lastdata' = lastdata
      BY <1>1, <2>2, <3>2
    <3> QED
      BY <1>1, <1>2, <1>3, <1>10, <3>1, <3>3 DEF LastInv, Rear, Real, connVars, seenVars, flagVars
  <2> QED
    BY <2>1, <2>2
<1>12. CallTypes'
  <2>1. pending' \in Seq(Record) /\ Len(pending') <= PendingMax
    BY <1>1, SizesAssumption
  <2> QED
    BY <1>1, <1>2, <1>11, <2>1 DEF CallTypes, PCs, flagVars
<1>13. Locals'
  <2>1. Len(pending') < PendingMax
    BY <1>1, SizesAssumption
  <2> QED
    BY <1>1, <1>2, <1>4, <2>1 DEF Locals, Tails, Loop, Mid, flagVars
<1>14. Order' /\ Cover'
  BY <1>1 DEF Order, Cover
<1>15. Bytes'
  BY <1>1, <1>2 DEF Bytes, seenVars
<1>16. Used'
  BY <1>1, <1>2, <1>11 DEF Used, connVars, seenVars
<1>17. Ended'
  BY <1>1, <1>2, <1>11 DEF Ended, connVars, mboxVars, seenVars
<1> QED
  BY <1>1, <1>2, <1>9, <1>11, <1>12, <1>13, <1>14, <1>15, <1>16, <1>17, MailStays
     DEF CallInv, ConnTypes, mboxVars, seenVars

\* A chain or a peek is copied at once; a peek leaves everything else alone.
LEMMA CopyStep == ASSUME IInv, Copy PROVE IInv'
<1> DEFINE c == CopyLen
<1>1. /\ pc = "copy" /\ buf' = Copied(buf, recvd, lastdata.from, c)
      /\ recvd' = recvd + c /\ left' = left - c /\ noblock' = TRUE /\ nofin' = TRUE
      /\ pc' = (IF left' > 0 /\ ~peek THEN "top" ELSE "done")
      /\ UNCHANGED <<connVars, mboxVars, peek, pending, seenVars>>
      /\ peek => UNCHANGED <<lastdata, live>>
      /\ ~peek => /\ lastdata' = (IF lastdata.tot > c THEN FreeHeader(lastdata, c) ELSE NoPbuf)
                  /\ live' = live \ Front(lastdata, c)
  BY DEF Copy, NoMoreWaiting
<1>2. ConnTypes /\ CallTypes /\ Locals /\ Bytes /\ LastInv /\ Used /\ Held /\ Ended
  BY <1>1 DEF IInv, CallInv, Stream
<1>3. /\ lastdata \in Pbufs /\ Real(lastdata) /\ lastdata # NoPbuf
      /\ lastdata.from \in Nat /\ lastdata.tot \in Nat
      /\ read \in Nat /\ sent \in Nat /\ recvd \in Nat /\ left \in Nat
      /\ lastdata.from = read + (IF peek THEN 0 ELSE recvd) + 1
      /\ Rear = read + (IF peek THEN 0 ELSE recvd) + lastdata.tot /\ Rear <= sent
      /\ c \in Nat /\ c <= left /\ c <= lastdata.tot
      /\ ~finPending
  BY <1>1, InHand
<1>4. pending = <<>> /\ (peek => recvd = 0) /\ peek \in BOOLEAN
  BY <1>1, <1>2, <1>3 DEF Locals, CallTypes
<1> HIDE DEF c
<1>5. lastdata.from = read + recvd + 1 /\ Rear = read + recvd + lastdata.tot
  BY <1>3, <1>4
<1>6. /\ recvd' \in Nat /\ left' \in Nat /\ recvd' + left' = recvd + left /\ read' = read /\ sent' = sent
      /\ read + recvd' <= Rear
  BY <1>1, <1>3, <1>5 DEF connVars, seenVars
<1>7. live = read + recvd + 1 .. sent
  BY <1>2, <1>3, <1>4 DEF Held, Freed
<1>8. DOMAIN buf = 1 .. recvd + left /\ sent <= MaxBytes /\ MaxBytes \in Nat
      /\ \A i \in DOMAIN buf : buf[i] \in 0 .. MaxBytes
  BY <1>2, SizesAssumption DEF CallTypes, ConnTypes
<1>9. DOMAIN buf' = DOMAIN buf
      /\ \A i \in DOMAIN buf : buf'[i] = IF i \in recvd + 1 .. recvd + c THEN Byte(lastdata.from + i - recvd - 1) ELSE buf[i]
  BY <1>1 DEF Copied
<1>10. \A i \in recvd + 1 .. recvd + c : buf'[i] = read + i /\ read + i \in 0 .. MaxBytes
  <2>1. SUFFICES ASSUME NEW i \in recvd + 1 .. recvd + c
                 PROVE  buf'[i] = read + i /\ read + i \in 0 .. MaxBytes
    OBVIOUS
  <2>2. i \in Nat /\ recvd + 1 <= i /\ i <= recvd + c /\ i \in DOMAIN buf
    BY <1>3, <1>8
  <2>3. lastdata.from + i - recvd - 1 = read + i
    BY <1>3, <1>5, <2>2
  <2>4. read + i <= sent /\ read + recvd + 1 <= read + i
    BY <1>3, <1>5, <2>2
  <2>5. read + i \in live
    BY <1>3, <1>7, <2>2, <2>4
  <2>6. buf'[i] = Byte(read + i)
    BY <1>9, <2>1, <2>2, <2>3
  <2>7. read + i \in 0 .. MaxBytes
    BY <1>3, <1>8, <2>2, <2>4
  <2> QED
    BY <2>5, <2>6, <2>7 DEF Byte
<1>11. lastdata' \in Pbufs /\ LastInv' /\ Rear' = Rear
  <2>1. LastAt' = IF peek THEN 0 ELSE recvd'
    BY <1>1, <1>4 DEF LastAt
  <2>2. CASE peek
    <3>1. lastdata' = lastdata /\ LastAt' = 0 /\ LastAt = 0
      BY <1>1, <2>1, <2>2 DEF LastAt
    <3> QED
      BY <1>1, <1>2, <1>3, <1>6, <2>2, <3>1 DEF LastInv, Rear, Real
  <2>3. CASE ~peek /\ lastdata.tot > c
    <3>1. lastdata' = FreeHeader(lastdata, c)
      BY <1>1, <2>3
    <3>2. /\ lastdata' \in Pbufs /\ Real(lastdata') /\ lastdata' # NoPbuf
          /\ lastdata'.from = lastdata.from + c /\ lastdata'.tot = lastdata.tot - c
      BY <1>3, <2>3, <3>1, HeaderFreed
    <3>3. lastdata.from + c = read + recvd' + 1 /\ LastAt' = recvd'
      BY <1>1, <1>3, <1>5, <2>1, <2>3
    <3>4. Rear' = lastdata'.from + lastdata'.tot - 1
      BY <3>2 DEF Rear
    <3>5. Rear' = Rear
      BY <1>3, <1>5, <3>2, <3>4
    <3> QED
      BY <1>6, <3>2, <3>3, <3>5 DEF LastInv, Real
  <2>4. CASE ~peek /\ ~(lastdata.tot > c)
    <3>1. lastdata' = NoPbuf /\ lastdata.tot = c
      BY <1>1, <1>3, <2>4
    <3>2. Rear' = read + recvd'
      BY <1>1, <1>6, <2>4, <3>1 DEF Rear
    <3>3. Rear' = Rear
      BY <1>1, <1>3, <1>5, <3>1, <3>2
    <3> QED
      BY <3>1, <3>3, Pbuf DEF LastInv
  <2> QED
    BY <2>2, <2>3, <2>4
<1>12. CallTypes'
  <2>1. \A i \in DOMAIN buf' : buf'[i] \in 0 .. MaxBytes
    <3>1. SUFFICES ASSUME NEW i \in DOMAIN buf PROVE buf'[i] \in 0 .. MaxBytes
      BY <1>9
    <3>2. CASE i \in recvd + 1 .. recvd + c
      BY <1>10, <3>2
    <3>3. CASE i \notin recvd + 1 .. recvd + c
      BY <1>8, <1>9, <3>3
    <3> QED
      BY <3>2, <3>3
  <2>2. pc' \in PCs /\ DOMAIN buf' = 1 .. recvd' + left'
    BY <1>1, <1>6, <1>8, <1>9 DEF PCs
  <2> QED
    BY <1>1, <1>2, <1>6, <1>11, <2>1, <2>2 DEF CallTypes
<1>13. Locals'
  <2>1. Len(pending') < PendingMax
    BY <1>1, <1>4, SizesAssumption
  <2> QED
    BY <1>1, <1>4, <2>1 DEF Locals, Tails, Loop, Mid
<1>14. Order' /\ Cover'
  BY <1>1, <1>4 DEF Order, Cover
<1>15. Bytes'
  <2>1. SUFFICES ASSUME NEW i \in 1 .. recvd' PROVE buf'[i] = read' + i
    BY DEF Bytes
  <2>2. CASE i \in recvd + 1 .. recvd + c
    BY <1>6, <1>10, <2>2
  <2>3. CASE i \notin recvd + 1 .. recvd + c
    <3>1. i \in 1 .. recvd /\ i \in DOMAIN buf
      BY <1>1, <1>3, <1>8, <2>1, <2>3
    <3> QED
      BY <1>2, <1>4, <1>6, <1>9, <2>3, <3>1 DEF Bytes
  <2> QED
    BY <2>2, <2>3
<1>16. Used'
  BY <1>3, <1>6, <1>11 DEF Used
<1>17. Held'
  <2>1. CASE peek
    BY <1>1, <1>3, <1>4, <1>6, <1>7, <2>1 DEF Held, Freed
  <2>2. CASE ~peek
    <3>1. Freed' = recvd'
      BY <1>1, <1>4, <2>2 DEF Freed
    <3>2. lastdata.from + c - 1 = read + recvd'
      BY <1>1, <1>3, <1>5
    <3>3. Front(lastdata, c) = read + recvd + 1 .. read + recvd'
      BY <1>5, <3>2 DEF Front
    <3>4. recvd <= recvd'
      BY <1>1, <1>3
    <3>5. (read + recvd + 1 .. sent) \ (read + recvd + 1 .. read + recvd') = read + recvd' + 1 .. sent
      BY <1>3, <1>6, <3>4
    <3> QED
      BY <1>1, <1>6, <1>7, <2>2, <3>1, <3>3, <3>5 DEF Held
  <2> QED
    BY <2>1, <2>2
<1>18. Ended'
  BY <1>1, <1>2, <1>3 DEF Ended, connVars, mboxVars, seenVars
<1> QED
  BY <1>1, <1>2, <1>11, <1>12, <1>13, <1>14, <1>15, <1>16, <1>17, <1>18, MailStays
     DEF CallInv, ConnTypes, mboxVars, seenVars

---------------------------------------------------------------------------
\* The connection is open and empty, and no call is made.
LEMMA InitIInv == Init => IInv
<1> SUFFICES ASSUME Init PROVE IInv
  OBVIOUS
<1> USE DEF Init
<1>1. MaxBytes \in Nat /\ MboxSize \in Nat /\ PendingMax \in Nat
  BY SizesAssumption
<1>2. ConnTypes
  <2>1. mbox \in Seq(Message) /\ Len(mbox) <= MboxSize
    BY <1>1
  <2>2. sent \in 0 .. MaxBytes /\ credit \in Nat /\ read \in Nat
    BY <1>1
  <2>3. peer \in {"open", "finished", "reset"}
    OBVIOUS
  <2>4. /\ resetDue \in BOOLEAN /\ mboxOpen \in BOOLEAN /\ mboxClosed \in BOOLEAN
        /\ pendingErr \in BOOLEAN /\ finPending \in BOOLEAN /\ eof \in BOOLEAN
    OBVIOUS
  <2> QED
    BY <2>1, <2>2, <2>3, <2>4 DEF ConnTypes
<1>3. CallTypes
  <2>1. DOMAIN buf = 1 .. 0
    OBVIOUS
  <2>2. \A i \in DOMAIN buf : buf[i] \in 0 .. MaxBytes
    BY <2>1
  <2>3. pending \in Seq(Record) /\ Len(pending) <= PendingMax
    BY <1>1
  <2>4. pc \in PCs /\ lastdata \in Pbufs /\ recvd + left = 0 /\ recvd \in Nat /\ left \in Nat
    BY Pbuf DEF PCs
  <2>5. peek \in BOOLEAN /\ noblock \in BOOLEAN /\ nofin \in BOOLEAN
    OBVIOUS
  <2> QED
    BY <2>1, <2>2, <2>3, <2>4, <2>5 DEF CallTypes
<1>4. Locals /\ Order /\ Cover /\ Bytes
  BY DEF Locals, Tails, Loop, Mid, Order, Cover, Bytes
<1>5. Rear = 0 /\ Freed = 0
  BY DEF Rear, Freed
<1>6. LastInv /\ Used /\ Mail /\ Held
  BY <1>5 DEF LastInv, Used, Mail, Held
<1>7. Shutdown /\ Ended /\ Credit
  BY DEF Shutdown, Ended, Credit
<1> QED
  BY <1>2, <1>3, <1>4, <1>6, <1>7 DEF IInv, CallInv, Stream

\* Every step of the TCP/IP thread, the reading task and the caller keeps it.
LEMMA IInvStep == IInv /\ [Next]_vars => IInv'
<1> SUFFICES ASSUME IInv, [Next]_vars PROVE IInv'
  OBVIOUS
<1>1. CASE Arrive
  BY <1>1, ArriveStep
<1>2. CASE Finish \/ Reset \/ PostReset
  BY <1>2, EndSteps
<1>3. CASE \E n \in Lengths, isPeek, dontWait \in BOOLEAN : Call(n, isPeek, dontWait)
  BY <1>3, CallStep
<1>4. CASE Top
  BY <1>4, TopStep
<1>5. CASE Fetch
  BY <1>5, FetchStep
<1>6. CASE TryEmpty \/ PendingError \/ NothingThere \/ WaitTimeout \/ HandleFin
  BY <1>6, EmptySteps
<1>7. CASE Shut
  BY <1>7, ShutStep
<1>8. CASE Gather
  BY <1>8, GatherStep
<1>9. CASE Scalar
  BY <1>9, ScalarStep
<1>10. CASE Flush
  BY <1>10, FlushStep
<1>11. CASE Consume
  BY <1>11, ConsumeStep
<1>12. CASE Copy
  BY <1>12, CopyStep
<1>13. CASE Done
  BY <1>13, DoneStep
<1>14. CASE Ack
  BY <1>14, AckStep
<1>15. CASE Close
  BY <1>15, CloseStep
<1>16. CASE UNCHANGED vars
  BY <1>16 DEF vars, connVars, mboxVars, flagVars, dataVars, seenVars, IInv, ConnTypes, CallInv, CallTypes,
     Locals, Order, Cover, Bytes, Stream, LastInv, Used, Mail, Held, Rear, LastAt, Freed, Shutdown, Ended,
     Credit, Real, Partial
<1> QED
  BY <1>1, <1>2, <1>3, <1>4, <1>5, <1>6, <1>7, <1>8, <1>9, <1>10, <1>11, <1>12, <1>13, <1>14, <1>15, <1>16
     DEF Next, Recv

\* The inductive invariant: the pbufs of the call, of the socket and of the
\* mailbox follow each other in the stream without a gap, from the last byte
\* freed to the last byte that arrived, whatever the TCP/IP thread does
\* between two steps of lwip_recv_tcp.
THEOREM Invariant == Spec => []IInv
<1>1. Init => IInv
  BY InitIInv
<1>2. IInv /\ [Next]_vars => IInv'
  BY IInvStep
<1> QED
  BY <1>1, <1>2, PTL DEF Spec

---------------------------------------------------------------------------
\* The properties.

\* What is known of the positions while the socket is open.
LEMMA Placed ==
  ASSUME IInv
  PROVE  /\ sent \in Nat /\ read \in Nat /\ recvd \in Nat /\ sent <= MaxBytes /\ MaxBytes \in Nat
         /\ lastdata \in Pbufs /\ pending \in Seq(Record) /\ mbox \in Seq(Message)
         /\ read + recvd <= sent
         /\ lastdata # NoPbuf => Real(lastdata)
         /\ \A k \in DOMAIN mbox : mbox[k] \in Message /\ (mbox[k].p = NoPbuf \/ Real(mbox[k].p))
         /\ \A k \in DOMAIN pending :
              /\ pending[k] \in Record /\ k \in Nat /\ 1 <= k /\ k <= Len(pending)
              /\ pending[k].p \in Pbufs /\ pending[k].at \in Nat /\ pending[k].n \in Nat
              /\ pending[k].p.from \in Nat /\ pending[k].p.len \in Nat /\ pending[k].p.tot \in Nat
              /\ Real(pending[k].p) /\ pending[k].at + pending[k].n <= recvd
<1>1. ConnTypes /\ CallTypes /\ Order /\ Locals /\ MaxBytes \in Nat
  BY SizesAssumption DEF IInv, CallInv
<1>2. /\ sent \in Nat /\ read \in Nat /\ recvd \in Nat /\ sent <= MaxBytes
      /\ lastdata \in Pbufs /\ pending \in Seq(Record) /\ mbox \in Seq(Message)
  BY <1>1 DEF ConnTypes, CallTypes
<1>3. read + recvd <= sent
  <2>1. CASE pc = "closed"
    BY <1>1, <1>2, <2>1 DEF IInv, Shutdown, Locals
  <2>2. CASE pc # "closed"
    <3>1. read + recvd <= Rear /\ Rear <= sent
      BY <2>2 DEF IInv, Stream, Used
    <3>2. Rear \in Int
      BY <1>2 DEF Rear, Pbufs
    <3> QED
      BY <1>2, <3>1, <3>2
  <2> QED
    BY <2>1, <2>2
<1>4. lastdata # NoPbuf => Real(lastdata)
  BY DEF IInv, Stream, Shutdown, LastInv
<1>5. \A k \in DOMAIN mbox : mbox[k] \in Message /\ (mbox[k].p = NoPbuf \/ Real(mbox[k].p))
  <2>1. \A k \in DOMAIN mbox : mbox[k] \in Message
    BY <1>2
  <2>2. pc = "closed" => DOMAIN mbox = {}
    BY DEF IInv, Shutdown
  <2> QED
    BY <2>1, <2>2 DEF IInv, Stream, Mail
<1>6. \A k \in DOMAIN pending :
        /\ pending[k] \in Record /\ k \in Nat /\ 1 <= k /\ k <= Len(pending)
        /\ Real(pending[k].p) /\ pending[k].at + pending[k].n <= recvd
  BY <1>1, <1>2 DEF Order
<1>7. \A k \in DOMAIN pending :
        /\ pending[k].p \in Pbufs /\ pending[k].at \in Nat /\ pending[k].n \in Nat
        /\ pending[k].p.from \in Nat /\ pending[k].p.len \in Nat /\ pending[k].p.tot \in Nat
  BY <1>6 DEF Record, Pbufs
<1> QED
  BY <1>1, <1>2, <1>3, <1>4, <1>5, <1>6, <1>7

\* The types follow: a position never passes what arrived.
LEMMA IInvTypes == IInv => TypeOK
<1> SUFFICES ASSUME IInv PROVE TypeOK
  OBVIOUS
<1>1. ConnTypes /\ CallTypes /\ MaxBytes \in Nat
  BY SizesAssumption DEF IInv, CallInv
<1>2. \A p \in Pbufs : p = NoPbuf \/ Real(p) => p \in PbufType
  <2>1. SUFFICES ASSUME NEW p \in Pbufs, p = NoPbuf \/ Real(p) PROVE p \in PbufType
    OBVIOUS
  <2>2. p = [from |-> p.from, len |-> p.len, tot |-> p.tot] /\ p.from \in Nat /\ p.len \in Nat /\ p.tot \in Nat
    BY DEF Pbufs
  <2>3. p.from <= MaxBytes + 1 /\ p.len <= MaxBytes /\ p.tot <= MaxBytes
    <3>1. CASE p = NoPbuf
      BY <1>1, <3>1, Pbuf
    <3>2. CASE Real(p)
      BY <2>2, <3>2, Placed DEF Real, Within
    <3> QED
      BY <2>1, <3>1, <3>2
  <2>4. p.from \in 0 .. MaxBytes + 1 /\ p.len \in 0 .. MaxBytes /\ p.tot \in 0 .. MaxBytes
    BY <1>1, <2>2, <2>3
  <2> QED
    BY <2>2, <2>4 DEF PbufType
<1>3. {sent, credit, read, recvd} \subseteq 0 .. MaxBytes
  <2>1. credit <= read /\ credit \in Nat
    BY <1>1 DEF IInv, Credit, ConnTypes
  <2> QED
    BY <2>1, Placed
<1>4. \A k \in DOMAIN mbox : mbox[k] \in [kind : {"data", "closed", "reset"}, p : PbufType]
  <2>1. SUFFICES ASSUME NEW k \in DOMAIN mbox PROVE mbox[k] \in [kind : {"data", "closed", "reset"}, p : PbufType]
    OBVIOUS
  <2>2. mbox[k] \in Message /\ (mbox[k].p = NoPbuf \/ Real(mbox[k].p))
    BY Placed
  <2>3. mbox[k].p \in PbufType
    BY <1>2, <2>2 DEF Message
  <2> QED
    BY <2>2, <2>3 DEF Message
<1>5. live \subseteq 1 .. MaxBytes
  <2>1. CASE pc = "closed"
    BY <2>1 DEF IInv, Shutdown
  <2>2. CASE pc # "closed"
    <3>1. live = read + Freed + 1 .. sent
      BY <2>2 DEF IInv, Stream, Held
    <3>2. Freed \in Nat
      <4>1. pending # <<>> => 1 \in DOMAIN pending
        BY Placed
      <4> QED
        BY <4>1, Placed DEF Freed
    <3> QED
      BY <3>1, <3>2, Placed
  <2> QED
    BY <2>1, <2>2
<1>6. lastdata \in PbufType
  BY <1>2, Placed
<1>7. \A k \in DOMAIN pending : pending[k] \in [p : PbufType, at : 0 .. MaxBytes, n : 0 .. MaxBytes]
  <2>1. SUFFICES ASSUME NEW k \in DOMAIN pending
                 PROVE  pending[k] \in [p : PbufType, at : 0 .. MaxBytes, n : 0 .. MaxBytes]
    OBVIOUS
  <2>2. pending[k] \in Record /\ pending[k].p \in PbufType
    BY <1>2, Placed
  <2>3. pending[k].at \in 0 .. MaxBytes /\ pending[k].n \in 0 .. MaxBytes
    <3>1. pending[k].at \in Nat /\ pending[k].n \in Nat /\ pending[k].at + pending[k].n <= recvd
          /\ recvd \in Nat /\ recvd <= MaxBytes
      BY <1>3, Placed
    <3> QED
      BY <1>1, <3>1
  <2> QED
    BY <2>2, <2>3 DEF Record
<1>8. {resetDue, mboxOpen, mboxClosed, pendingErr, finPending, peek, noblock, nofin, eof} \subseteq BOOLEAN
  BY <1>1 DEF ConnTypes, CallTypes
<1> QED
  BY <1>1, <1>3, <1>4, <1>5, <1>6, <1>7, <1>8 DEF TypeOK, ConnTypes, CallTypes

\* Whatever arrives and is asked for, the counts stay within the stream, the
\* mailbox within its size and the gathered records within the array on the
\* stack of lwip_recv_tcp.
THEOREM TypeCorrect == Spec => []TypeOK
BY Invariant, IInvTypes, PTL

\* What lwip_recv_tcp returns, gathered, copied at once or peeked, is the next
\* part of the stream.
THEOREM StreamRead == Spec => []BytesInOrder
<1>1. IInv => BytesInOrder
  BY DEF IInv, CallInv, Locals, Bytes, BytesInOrder
<1> QED
  BY <1>1, Invariant, PTL

---------------------------------------------------------------------------
\* Where the parts of the stream lie: gathered, in hand, in the mailbox.
LEMMA Parts ==
  ASSUME IInv, pc # "closed"
  PROVE  /\ Freed \in Nat /\ LastAt \in Nat /\ Freed <= LastAt /\ LastAt <= recvd
         /\ live = read + Freed + 1 .. sent
         /\ Rear \in Nat /\ Rear <= sent /\ read + recvd <= Rear
         /\ lastdata = NoPbuf => Rear = read + LastAt
         /\ lastdata # NoPbuf => lastdata.from = read + LastAt + 1 /\ Rear = lastdata.from + lastdata.tot - 1
         /\ \A k \in Gathered : /\ Freed <= pending[k].at /\ pending[k].at + pending[k].n <= LastAt
                                /\ pending[k].p.tot = pending[k].n
                                /\ pending[k].p.from = read + pending[k].at + 1
<1>1. CallTypes /\ Order /\ Locals /\ LastInv /\ Used /\ Held
  BY DEF IInv, CallInv, Stream
<1>2. /\ sent \in Nat /\ read \in Nat /\ recvd \in Nat /\ lastdata \in Pbufs
      /\ lastdata.from \in Nat /\ lastdata.tot \in Nat
  BY Placed DEF Pbufs
<1> DEFINE m == Len(pending)
<1>3. /\ pending # <<>> => 1 \in DOMAIN pending /\ m \in DOMAIN pending /\ ~peek
      /\ \A k \in DOMAIN pending : k \in Nat /\ 1 <= k /\ k <= m
      /\ m \in Nat
  BY <1>1, Placed DEF Locals
<1> HIDE DEF m
<1>4. \A j, k \in DOMAIN pending : j <= k => pending[j].at <= pending[k].at
  <2>1. SUFFICES ASSUME NEW j \in DOMAIN pending, NEW k \in DOMAIN pending, j <= k
                 PROVE  pending[j].at <= pending[k].at
    OBVIOUS
  <2>2. pending[j].at \in Nat /\ pending[j].n \in Nat /\ pending[k].at \in Nat
    BY Placed
  <2>3. j = k \/ pending[j].at + pending[j].n <= pending[k].at
    BY <1>1, <1>3, <2>1 DEF Order
  <2> QED
    BY <2>2, <2>3
<1>5. \A k \in DOMAIN pending : pending[k].at \in Nat /\ pending[k].n \in Nat /\ pending[k].at <= recvd
  <2>1. \A k \in DOMAIN pending : pending[k].at \in Nat /\ pending[k].n \in Nat /\ pending[k].at + pending[k].n <= recvd
    BY Placed
  <2> QED
    BY <1>2, <2>1
<1>6. LastAt = IF peek THEN 0 ELSE IF pending # <<>> /\ Partial(pending[m]) THEN pending[m].at ELSE recvd
  BY DEF LastAt, m
<1>7. Freed = IF pending # <<>> THEN pending[1].at ELSE IF peek THEN 0 ELSE recvd
  BY DEF Freed
<1>8. Freed \in Nat /\ LastAt \in Nat /\ Freed <= LastAt /\ LastAt <= recvd
  <2>1. CASE pending = <<>>
    BY <1>2, <1>6, <1>7, <2>1
  <2>2. CASE pending # <<>>
    <3>1. /\ pending[1].at \in Nat /\ pending[m].at \in Nat
          /\ pending[1].at <= pending[m].at /\ pending[m].at <= recvd /\ pending[1].at <= recvd
      BY <1>3, <1>4, <1>5, <2>2
    <3> QED
      BY <1>2, <1>3, <1>6, <1>7, <2>2, <3>1
  <2> QED
    BY <2>1, <2>2
<1>9. Rear \in Nat /\ Rear <= sent /\ read + recvd <= Rear
  <2>1. Rear \in Int
    BY <1>2 DEF Rear
  <2> QED
    BY <1>1, <1>2, <2>1 DEF Used
<1>10. ASSUME NEW k \in DOMAIN pending, Partial(pending[k])
       PROVE  k = m /\ lastdata = pending[k].p /\ lastdata # NoPbuf
  <2>1. k = Len(pending) /\ pending[k].p = lastdata /\ Real(pending[k].p)
    BY <1>1, <1>10 DEF Order
  <2>2. pending[k].p # NoPbuf
    BY <2>1, Pbuf
  <2> QED
    BY <2>1, <2>2 DEF m
<1>11. lastdata = NoPbuf => Rear = read + LastAt
  <2>1. lastdata = NoPbuf => LastAt = IF peek THEN 0 ELSE recvd
    BY <1>3, <1>6, <1>10
  <2> QED
    BY <2>1 DEF Rear
<1>12. lastdata # NoPbuf => lastdata.from = read + LastAt + 1 /\ Rear = lastdata.from + lastdata.tot - 1
  BY <1>1 DEF LastInv, Rear
<1>13. ASSUME NEW k \in Gathered
       PROVE  /\ Freed <= pending[k].at /\ pending[k].at + pending[k].n <= LastAt
              /\ pending[k].p.tot = pending[k].n
              /\ pending[k].p.from = read + pending[k].at + 1
  <2>1. k \in DOMAIN pending /\ ~Partial(pending[k]) /\ pending # <<>> /\ ~peek
    BY <1>3 DEF Gathered
  <2>2. pending[k].p.from = read + pending[k].at + 1 /\ pending[k].n <= pending[k].p.len
    BY <1>1, <2>1 DEF Order
  <2>3. /\ pending[k].p.tot \in Nat /\ pending[k].p.len \in Nat /\ pending[k].n \in Nat
        /\ pending[k].p.len <= pending[k].p.tot /\ pending[k].at + pending[k].n <= recvd
    BY <2>1, Placed DEF Real, Within
  <2>4. pending[k].p.tot = pending[k].n
    BY <2>1, <2>2, <2>3 DEF Partial
  <2>5. Freed <= pending[k].at
    BY <1>3, <1>4, <1>7, <2>1
  <2>6. pending[k].at + pending[k].n <= LastAt
    <3>1. CASE Partial(pending[m])
      <4>1. k # m /\ k \in Nat /\ k <= m
        BY <1>3, <2>1, <3>1
      <4> QED
        BY <1>1, <1>3, <1>6, <2>1, <3>1, <4>1 DEF Order
    <3>2. CASE ~Partial(pending[m])
      BY <1>6, <2>1, <2>3, <3>2
    <3> QED
      BY <3>1, <3>2
  <2> QED
    BY <2>2, <2>4, <2>5, <2>6
<1> QED
  BY <1>1, <1>8, <1>9, <1>11, <1>12, <1>13 DEF Held

\* Every live position can be reached.
LEMMA LiveReachable == ASSUME IInv, pc # "closed", NEW i \in live PROVE i \in Reachable
<1>1. sent \in Nat /\ read \in Nat /\ recvd \in Nat
  BY Placed
<1>2. /\ Freed \in Nat /\ LastAt \in Nat /\ Freed <= LastAt /\ LastAt <= recvd
      /\ i \in read + Freed + 1 .. sent /\ Rear \in Nat
      /\ lastdata = NoPbuf => Rear = read + LastAt
      /\ lastdata # NoPbuf => lastdata.from = read + LastAt + 1 /\ Rear = lastdata.from + lastdata.tot - 1
  BY Parts
<1>3. i \in Nat /\ read + Freed < i /\ i <= sent /\ i \in 1 .. sent
  BY <1>1, <1>2
<1>4. CASE i > Rear
  <2>1. Mail
    BY DEF IInv, Stream
  <2>2. PICK k \in DOMAIN mbox : i \in Positions(mbox[k].p)
    BY <1>3, <1>4, <2>1 DEF Mail
  <2> QED
    BY <2>2 DEF Reachable
<1>5. CASE i <= Rear /\ i > read + LastAt
  <2>1. lastdata # NoPbuf
    BY <1>1, <1>2, <1>3, <1>5
  <2>2. i \in Positions(lastdata)
    BY <1>1, <1>2, <1>3, <1>5, <2>1 DEF Positions
  <2> QED
    BY <2>2 DEF Reachable
<1>6. CASE i <= read + LastAt
  <2>1. i - read \in 1 .. recvd /\ i - read > Freed /\ i - read <= LastAt
    BY <1>1, <1>2, <1>3, <1>6
  <2>2. pending # <<>> /\ Freed = pending[1].at
    <3>1. pending = <<>> => Freed = LastAt
      BY DEF Freed, LastAt
    <3> QED
      BY <1>2, <2>1, <3>1 DEF Freed
  <2>3. PICK k \in DOMAIN pending : i - read \in pending[k].at + 1 .. pending[k].at + pending[k].n
    BY <2>1, <2>2 DEF IInv, CallInv, Cover
  <2>4. pending[k].at \in Nat /\ pending[k].n \in Nat
    BY Placed
  <2>5. k \in Gathered
    <3>1. SUFFICES ASSUME Partial(pending[k]) PROVE FALSE
      BY DEF Gathered
    <3>2. k = Len(pending) /\ ~peek
      BY <2>2, <3>1 DEF IInv, CallInv, Order, Locals
    <3>3. LastAt = pending[k].at
      BY <2>2, <3>1, <3>2 DEF LastAt
    <3> QED
      BY <1>1, <1>3, <2>1, <2>3, <2>4, <3>3
  <2>6. pending[k].p.tot = pending[k].n /\ pending[k].p.from = read + pending[k].at + 1
    BY <2>5, Parts
  <2>7. i \in Positions(pending[k].p)
    <3>1. read + pending[k].at + 1 <= i /\ i <= read + pending[k].at + pending[k].n
      BY <1>1, <1>3, <2>3, <2>4
    <3>2. pending[k].p.from + pending[k].p.tot - 1 = read + pending[k].at + pending[k].n
      BY <1>1, <2>4, <2>6
    <3> QED
      BY <1>3, <2>6, <3>1, <3>2, <1>1, <2>4 DEF Positions
  <2> QED
    BY <2>5, <2>7 DEF Reachable
<1> QED
  BY <1>1, <1>2, <1>3, <1>4, <1>5, <1>6

\* What can be reached is live.
LEMMA ReachableLive == ASSUME IInv, pc # "closed", NEW i \in Reachable PROVE i \in live
<1>1. sent \in Nat /\ read \in Nat /\ recvd \in Nat
  BY Placed
<1>2. /\ Freed \in Nat /\ LastAt \in Nat /\ Freed <= LastAt /\ LastAt <= recvd
      /\ live = read + Freed + 1 .. sent /\ Rear \in Nat /\ read + recvd <= Rear
  BY Parts
<1>3. SUFFICES i \in Int /\ i > read + Freed /\ i <= sent
  BY <1>1, <1>2
<1>4. ASSUME NEW p \in Pbufs, Real(p), i \in Positions(p), p.from > read + Freed
      PROVE  i \in Int /\ i > read + Freed /\ i <= sent
  <2>1. p.from \in Nat /\ p.tot \in Nat
    BY DEF Pbufs
  <2>2. i \in Int /\ p.from <= i /\ i <= p.from + p.tot - 1 /\ p.from + p.tot <= sent + 1
    BY <1>4, <2>1 DEF Positions, Real, Within
  <2> QED
    BY <1>1, <1>2, <1>4, <2>1, <2>2
<1>5. Positions(NoPbuf) = {}
  BY Pbuf DEF Positions
<1>6. CASE i \in UNION {Positions(mbox[k].p) : k \in DOMAIN mbox}
  <2>1. PICK k \in DOMAIN mbox : i \in Positions(mbox[k].p)
    BY <1>6
  <2>2. mbox[k] \in Message /\ mbox[k].p # NoPbuf
    BY <1>5, <2>1, Placed
  <2>3. Real(mbox[k].p) /\ mbox[k].p.from > Rear /\ mbox[k].p \in Pbufs
    BY <2>2 DEF IInv, Stream, Mail, Message
  <2>4. mbox[k].p.from \in Nat
    BY <2>3 DEF Pbufs
  <2>5. mbox[k].p.from > read + Freed
    BY <1>1, <1>2, <2>3, <2>4
  <2> QED
    BY <1>4, <2>1, <2>3, <2>5
<1>7. CASE i \in Positions(lastdata)
  <2>1. lastdata # NoPbuf /\ lastdata \in Pbufs /\ Real(lastdata) /\ lastdata.from = read + LastAt + 1
    BY <1>5, <1>7, Placed, Parts
  <2>2. lastdata.from > read + Freed
    BY <1>1, <1>2, <2>1
  <2> QED
    BY <1>4, <1>7, <2>1, <2>2
<1>8. CASE i \in UNION {Positions(pending[k].p) : k \in Gathered}
  <2>1. PICK k \in Gathered : i \in Positions(pending[k].p)
    BY <1>8
  <2>2. k \in DOMAIN pending
    BY DEF Gathered
  <2>3. pending[k].p \in Pbufs /\ Real(pending[k].p) /\ pending[k].at \in Nat
    BY <2>2, Placed
  <2>4. Freed <= pending[k].at /\ pending[k].p.from = read + pending[k].at + 1
    BY Parts
  <2>5. pending[k].p.from > read + Freed
    BY <1>1, <1>2, <2>3, <2>4
  <2> QED
    BY <1>4, <2>1, <2>3, <2>5
<1> QED
  BY <1>6, <1>7, <1>8 DEF Reachable

\* The records of the array and the pending data of the socket are disjoint.
LEMMA OwnedOnce ==
  ASSUME IInv
  PROVE  /\ \A j, k \in Gathered : j # k => Positions(pending[j].p) \cap Positions(pending[k].p) = {}
         /\ \A k \in Gathered : Positions(pending[k].p) \cap Positions(lastdata) = {}
<1>1. CASE pc = "closed"
  <2>1. Gathered = {}
    BY <1>1 DEF Gathered, IInv, CallInv, Locals
  <2> QED
    BY <2>1
<1>2. CASE pc # "closed"
  <2>1. read \in Nat /\ LastAt \in Nat
    BY <1>2, Placed, Parts
  <2>2. ASSUME NEW k \in Gathered
        PROVE  /\ k \in DOMAIN pending /\ k \in Nat /\ pending[k].at \in Nat /\ pending[k].n \in Nat
               /\ pending[k].at + pending[k].n <= LastAt
               /\ Positions(pending[k].p) = read + pending[k].at + 1 .. read + pending[k].at + pending[k].n
    <3>1. k \in DOMAIN pending
      BY DEF Gathered
    <3>2. k \in Nat /\ pending[k].at \in Nat /\ pending[k].n \in Nat
      BY <3>1, Placed
    <3>3. /\ pending[k].at + pending[k].n <= LastAt /\ pending[k].p.tot = pending[k].n
          /\ pending[k].p.from = read + pending[k].at + 1
      BY <1>2, Parts
    <3>4. pending[k].p.from + pending[k].p.tot - 1 = read + pending[k].at + pending[k].n
      BY <2>1, <3>2, <3>3
    <3> QED
      BY <3>1, <3>2, <3>3, <3>4 DEF Positions
  <2>3. ASSUME NEW j \in Gathered, NEW k \in Gathered, j < k
        PROVE  Positions(pending[j].p) \cap Positions(pending[k].p) = {}
    <3>1. pending[j].at + pending[j].n <= pending[k].at
      BY <2>2, <2>3 DEF IInv, CallInv, Order
    <3>2. /\ pending[j].at \in Nat /\ pending[j].n \in Nat /\ pending[k].at \in Nat /\ pending[k].n \in Nat
          /\ Positions(pending[j].p) = read + pending[j].at + 1 .. read + pending[j].at + pending[j].n
          /\ Positions(pending[k].p) = read + pending[k].at + 1 .. read + pending[k].at + pending[k].n
      BY <2>2
    <3> QED
      BY <2>1, <3>1, <3>2, Apart
  <2>4. \A j, k \in Gathered : j # k => Positions(pending[j].p) \cap Positions(pending[k].p) = {}
    <3>1. SUFFICES ASSUME NEW j \in Gathered, NEW k \in Gathered, j # k
                   PROVE  Positions(pending[j].p) \cap Positions(pending[k].p) = {}
      OBVIOUS
    <3>2. j < k \/ k < j
      BY <2>2, <3>1
    <3> QED
      BY <2>3, <3>2
  <2>5. ASSUME NEW k \in Gathered PROVE Positions(pending[k].p) \cap Positions(lastdata) = {}
    <3>1. CASE lastdata = NoPbuf
      BY <3>1, Pbuf DEF Positions
    <3>2. CASE lastdata # NoPbuf
      <4>1. lastdata.from = read + LastAt + 1 /\ lastdata.tot \in Nat /\ lastdata.from \in Nat
        BY <1>2, <3>2, Parts, Placed DEF Pbufs
      <4>2. \A x \in Positions(lastdata) : x \in Int /\ x > read + LastAt
        BY <2>1, <4>1 DEF Positions
      <4>3. \A x \in Positions(pending[k].p) : x <= read + LastAt
        <5>1. pending[k].at \in Nat /\ pending[k].n \in Nat /\ pending[k].at + pending[k].n <= LastAt
              /\ Positions(pending[k].p) = read + pending[k].at + 1 .. read + pending[k].at + pending[k].n
          BY <2>2
        <5> QED
          BY <2>1, <5>1
      <4> QED
        BY <2>1, <4>2, <4>3
    <3> QED
      BY <3>1, <3>2
  <2> QED
    BY <2>4, <2>5
<1> QED
  BY <1>1, <1>2

\* No byte that arrived is leaked or owned twice between recv_tcp and pbuf_free:
\* each lies in the mailbox, in the pending data of the socket or in one record
\* of the array, and only the last record may be shared with the socket.
THEOREM PbufsOwnedOnce == Spec => []PbufsOwned
<1>1. IInv => PbufsOwned
  <2> SUFFICES ASSUME IInv PROVE PbufsOwned
    OBVIOUS
  <2>1. live = Reachable
    <3>1. CASE pc = "closed"
      <4>1. live = {} /\ DOMAIN mbox = {} /\ lastdata = NoPbuf /\ pending = <<>>
        BY <3>1 DEF IInv, CallInv, Shutdown, Locals
      <4>2. Positions(lastdata) = {} /\ Gathered = {}
        BY <4>1, Pbuf DEF Positions, Gathered
      <4> QED
        BY <4>1, <4>2 DEF Reachable
    <3>2. CASE pc # "closed"
      BY <3>2, LiveReachable, ReachableLive
    <3> QED
      BY <3>1, <3>2
  <2>2. \A k \in DOMAIN pending : Partial(pending[k]) => k = Len(pending) /\ pending[k].p = lastdata
    BY DEF IInv, CallInv, Order
  <2> QED
    BY <2>1, <2>2, OwnedOnce DEF PbufsOwned
<1> QED
  BY <1>1, Invariant, PTL

\* Between calls what netconn_tcp_recvd has given back and what is still held
\* are together all that arrived, however the calls divided it.
THEOREM WindowGivenBack == Spec => []WindowExact
<1>1. IInv => WindowExact
  <2> SUFFICES ASSUME IInv, pc = "idle", peer # "reset" PROVE credit + Cardinality(live) = sent
    BY DEF WindowExact
  <2>1. credit = read /\ recvd = 0 /\ pending = <<>> /\ ~peek
    BY DEF IInv, CallInv, Credit, Locals
  <2>2. live = read + 1 .. sent /\ read \in Nat /\ sent \in Nat /\ read <= sent
    BY <2>1, Placed, Parts DEF Freed
  <2>3. Cardinality(live) = IF read + 1 > sent THEN 0 ELSE sent - (read + 1) + 1
    BY <2>2, FS_Interval
  <2> QED
    BY <2>1, <2>2, <2>3
<1> QED
  BY <1>1, Invariant, PTL

\* handle_fin shuts the receiving side down only when every byte has been taken
\* out, and a mailbox deleted for it means a call has returned 0.
THEOREM EofKept == Spec => []EofNotLost
<1>1. IInv => EofNotLost
  <2> SUFFICES ASSUME IInv PROVE EofNotLost
    OBVIOUS
  <2>1. ASSUME pc = "shut", NEW i \in live PROVE FALSE
    <3>1. lastdata = NoPbuf /\ recvd = 0 /\ \A k \in DOMAIN mbox : mbox[k].kind # "data"
      BY <2>1 DEF IInv, CallInv, Locals, Ended
    <3>2. /\ read \in Nat /\ sent \in Nat /\ Freed \in Nat /\ LastAt \in Nat /\ LastAt <= recvd
          /\ live = read + Freed + 1 .. sent /\ Rear = read + LastAt
      BY <2>1, <3>1, Placed, Parts
    <3>3. i \in 1 .. sent /\ i > Rear
      BY <2>1, <3>1, <3>2
    <3> QED
      BY <2>1, <3>1, <3>3 DEF IInv, Stream, Mail
  <2>2. pc = "idle" /\ ~mboxOpen => eof
    BY DEF IInv, Ended
  <2> QED
    BY <2>1, <2>2 DEF EofNotLost
<1> QED
  BY <1>1, Invariant, PTL
=============================================================================
