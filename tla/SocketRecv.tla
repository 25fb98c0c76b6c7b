----------------------------- MODULE SocketRecv -----------------------------
(***************************************************************************)
(* Receiving from a TCP socket: lwip_recv_tcp of api/sockets.c with the    *)
(* gathered copy (CONFIG_SOCKET_RECV_GDMA), netconn_recv_data_tcp of       *)
(* api/api_lib.c under it, and the callbacks recv_tcp and err_tcp of       *)
(* api/api_msg.c by which the TCP/IP thread fills the receive mailbox.     *)
(*                                                                         *)
(* One task reads the socket, as lwIP demands; the TCP/IP thread           *)
(* interleaves with its steps.  The bytes of the stream are numbered from  *)
(* 1, so that a pbuf is known by the stream positions it holds.  The copy  *)
(* itself is one step: GdmaCopy shows that the scatter copy with its CPU   *)
(* fallback implements that.                                               *)
(***************************************************************************)
EXTENDS Integers, Sequences, FiniteSets

CONSTANTS
  MaxBytes,    \* bytes the peer sends at most (bounds the exploration)
  MboxSize,    \* DEFAULT_TCP_RECVMBOX_SIZE
  PendingMax,  \* LWIP_RECV_GDMA_PENDING_MAX
  Window,      \* receive window of the connection
  Shapes,      \* pbuf chains that arrive: <<bytes of the first, of the rest>>
  Lengths      \* lengths the caller asks for

ASSUME SizesAssumption ==
  /\ MaxBytes \in Nat /\ Window \in Nat
  /\ MboxSize \in Nat \ {0} /\ PendingMax \in Nat \ {0}
ASSUME ShapesAssumption == Shapes \subseteq (Nat \ {0}) \X Nat
ASSUME LengthsAssumption == Lengths \subseteq Nat

VARIABLES
  \* The connection, as the TCP/IP thread keeps it.
  sent,        \* bytes handed to recv_tcp so far
  credit,      \* bytes given back to the window by tcp_recved
  peer,        \* conn->pcb.tcp: open | finished (FIN taken) | reset (no pcb)
  resetDue,    \* err_tcp has not posted its message yet
  mbox,        \* conn->recvmbox
  mboxOpen,    \* sys_mbox_valid(&conn->recvmbox)
  mboxClosed,  \* NETCONN_FLAG_MBOXCLOSED
  pendingErr,  \* conn->pending_err is set
  finPending,  \* NETCONN_FIN_RX_PENDING
  live,        \* stream positions in pbufs that are not freed
  \* The socket and the call.
  lastdata,    \* sock->lastdata.pbuf
  pc,          \* where the call is
  peek,        \* MSG_PEEK
  noblock,     \* NETCONN_DONTBLOCK in apiflags
  nofin,       \* NETCONN_NOFIN in apiflags
  recvd,       \* bytes of this call so far
  left,        \* recv_left
  pending,     \* recv_pending, each with the offset its bytes go to
  buf,         \* the caller's buffer, 0 where nothing was written
  \* What the caller has seen.
  read,        \* bytes returned (not peeked) so far
  eof          \* a call has returned 0 for the end of the stream

connVars == <<sent, credit, peer, resetDue>>
mboxVars == <<mbox, mboxOpen, mboxClosed, pendingErr, finPending>>
flagVars == <<peek, noblock, nofin>>
dataVars == <<recvd, left, pending, buf>>
seenVars == <<read, eof>>
vars == <<connVars, mboxVars, live, lastdata, pc, flagVars, dataVars, seenVars>>

PCs == {"idle", "top", "try", "wait", "empty", "flag", "fin", "shut", "got",
        "flush", "consume", "copy", "done", "lastFlush", "lastConsume", "ack",
        "closed"}

---------------------------------------------------------------------------
\* pbufs: the first stream position, the bytes of the first pbuf of the chain
\* (p->len) and those of the whole chain (p->tot_len).
NoPbuf == [from |-> 0, len |-> 0, tot |-> 0]
Positions(p) == p.from .. p.from + p.tot - 1
Front(p, n) == p.from .. p.from + n - 1

\* pbuf_free_header: the first n bytes are freed or hidden.
FreeHeader(p, n) ==
  [from |-> p.from + n, len |-> IF n < p.len THEN p.len - n ELSE p.tot - n,
   tot |-> p.tot - n]

Data(p) == [kind |-> "data", p |-> p]
Closed == [kind |-> "closed", p |-> NoPbuf]
Aborted == [kind |-> "reset", p |-> NoPbuf]

\* What lies at a position: its byte, or nothing once the pbuf is freed.
Byte(i) == IF i \in live THEN i ELSE 0

\* The buffer after n bytes from position "from" on are copied to offset "at".
Copied(b, at, from, n) ==
  [i \in DOMAIN b |-> IF i \in at + 1 .. at + n THEN Byte(from + i - at - 1) ELSE b[i]]

Least(a, b) == IF a < b THEN a ELSE b

Init ==
  /\ sent = 0 /\ credit = 0 /\ peer = "open" /\ resetDue = FALSE
  /\ mbox = <<>> /\ mboxOpen = TRUE /\ mboxClosed = FALSE
  /\ pendingErr = FALSE /\ finPending = FALSE
  /\ live = {} /\ lastdata = NoPbuf
  /\ pc = "idle"
  /\ peek = FALSE /\ noblock = FALSE /\ nofin = FALSE
  /\ recvd = 0 /\ left = 0 /\ pending = <<>> /\ buf = <<>>
  /\ read = 0 /\ eof = FALSE

---------------------------------------------------------------------------
\* The TCP/IP thread.

Room == mboxOpen /\ Len(mbox) < MboxSize

\* recv_tcp posts a segment within the window.  Without room TCP keeps the
\* segment and offers it again.
Arrive ==
  /\ peer = "open" /\ Room
  /\ \E s \in Shapes :
       LET p == [from |-> sent + 1, len |-> s[1], tot |-> s[1] + s[2]] IN
       /\ sent + p.tot <= Least(MaxBytes, credit + Window)
       /\ sent' = sent + p.tot
       /\ mbox' = Append(mbox, Data(p))
       /\ live' = live \cup Positions(p)
  /\ UNCHANGED <<credit, peer, resetDue, mboxOpen, mboxClosed, pendingErr, finPending,
                 lastdata, pc, flagVars, dataVars, seenVars>>

\* recv_tcp without a pbuf: the peer has sent its FIN.
Finish ==
  /\ peer = "open" /\ Room
  /\ peer' = "finished"
  /\ mbox' = Append(mbox, Closed)
  /\ UNCHANGED <<sent, credit, resetDue, mboxOpen, mboxClosed, pendingErr, finPending,
                 live, lastdata, pc, flagVars, dataVars, seenVars>>

\* err_tcp, its protected section: the connection is gone ...
Reset ==
  /\ peer # "reset" /\ pc # "closed"
  /\ peer' = "reset"
  /\ pendingErr' = TRUE
  /\ mboxClosed' = TRUE
  /\ resetDue' = TRUE
  /\ UNCHANGED <<sent, credit, mbox, mboxOpen, finPending, live, lastdata, pc, flagVars,
                 dataVars, seenVars>>

\* ... and its message, if there is room for it.
PostReset ==
  /\ resetDue
  /\ resetDue' = FALSE
  /\ mbox' = IF Room THEN Append(mbox, Aborted) ELSE mbox
  /\ UNCHANGED <<sent, credit, peer, mboxOpen, mboxClosed, pendingErr, finPending, live,
                 lastdata, pc, flagVars, dataVars, seenVars>>

---------------------------------------------------------------------------
\* The call.

\* lwip_recv_tcp is called by recv, recvfrom and, for each vector, recvmsg.
Call(n, isPeek, dontWait) ==
  /\ pc = "idle"
  /\ pc' = "top"
  /\ peek' = isPeek /\ noblock' = dontWait /\ nofin' = FALSE
  /\ recvd' = 0 /\ left' = n /\ pending' = <<>>
  /\ buf' = [i \in 1 .. n |-> 0]
  /\ UNCHANGED <<connVars, mboxVars, live, lastdata, seenVars>>

\* The call returns: the locals are gone.
Return ==
  /\ pc' = "idle"
  /\ peek' = FALSE /\ noblock' = FALSE /\ nofin' = FALSE
  /\ recvd' = 0 /\ left' = 0 /\ pending' = <<>> /\ buf' = <<>>

\* netconn_recv_tcp_pbuf_flags found nothing: a call that has data returns it,
\* another one the error, which for the end of the stream is 0.
NoData(isEnd) ==
  IF recvd > 0
  THEN pc' = "done" /\ UNCHANGED <<flagVars, dataVars, seenVars>>
  ELSE Return /\ eof' = (eof \/ isEnd) /\ UNCHANGED read

\* The top of the loop: data left from the last call, or the network, where the
\* mailbox may be deleted, a FIN remembered or waiting forbidden.
Top ==
  /\ pc = "top"
  /\ \/ /\ lastdata # NoPbuf
        /\ pc' = "got"
        /\ UNCHANGED <<finPending, flagVars, dataVars, seenVars>>
     \/ /\ lastdata = NoPbuf
        /\ ~mboxOpen
        /\ NoData(FALSE)
        /\ UNCHANGED finPending
     \/ /\ lastdata = NoPbuf
        /\ mboxOpen
        /\ finPending' = FALSE
        /\ pc' = IF finPending THEN "fin"
                 ELSE IF noblock \/ mboxClosed \/ pendingErr THEN "try" ELSE "wait"
        /\ UNCHANGED <<flagVars, dataVars, seenVars>>
  /\ UNCHANGED <<connVars, mbox, mboxOpen, mboxClosed, pendingErr, live, lastdata>>

\* A message is taken: a pbuf, the FIN (put off when the call cannot handle it
\* now) or the message of err_tcp.
Fetch ==
  /\ pc \in {"try", "wait"}
  /\ mbox # <<>>
  /\ mbox' = Tail(mbox)
  /\ LET m == Head(mbox) IN
       \/ /\ m.kind = "data"
          /\ lastdata' = m.p
          /\ pc' = "got"
          /\ UNCHANGED <<finPending, flagVars, dataVars, seenVars>>
       \/ /\ m.kind = "closed" /\ nofin
          /\ finPending' = TRUE
          /\ NoData(FALSE)
          /\ UNCHANGED lastdata
       \/ /\ m.kind = "closed" /\ ~nofin
          /\ pc' = "fin"
          /\ UNCHANGED <<finPending, lastdata, flagVars, dataVars, seenVars>>
       \/ /\ m.kind = "reset"
          /\ NoData(FALSE)
          /\ UNCHANGED <<finPending, lastdata>>
  /\ UNCHANGED <<connVars, mboxOpen, mboxClosed, pendingErr, live>>

\* sys_arch_mbox_tryfetch finds nothing.
TryEmpty ==
  /\ pc = "try"
  /\ mbox = <<>>
  /\ pc' = "empty"
  /\ UNCHANGED <<connVars, mboxVars, live, lastdata, flagVars, dataVars, seenVars>>

\* netconn_err: a pending error is reported once.
PendingError ==
  /\ pc = "empty"
  /\ pendingErr' = FALSE
  /\ IF pendingErr THEN NoData(FALSE)
     ELSE pc' = "flag" /\ UNCHANGED <<flagVars, dataVars, seenVars>>
  /\ UNCHANGED <<connVars, mbox, mboxOpen, mboxClosed, finPending, live, lastdata>>

\* ERR_CONN for a closed mailbox, else ERR_WOULDBLOCK.
NothingThere ==
  /\ pc = "flag"
  /\ NoData(FALSE)
  /\ UNCHANGED <<connVars, mboxVars, live, lastdata>>

\* SO_RCVTIMEO ends the wait.
WaitTimeout ==
  /\ pc = "wait"
  /\ mbox = <<>>
  /\ NoData(FALSE)
  /\ UNCHANGED <<connVars, mboxVars, live, lastdata>>

\* handle_fin: a reset in between is an error, else the receiving side is shut
\* down by the TCP/IP thread.
HandleFin ==
  /\ pc = "fin"
  /\ IF peer = "reset"
     THEN pendingErr' = FALSE /\ NoData(FALSE)
     ELSE pc' = "shut" /\ UNCHANGED <<pendingErr, flagVars, dataVars, seenVars>>
  /\ UNCHANGED <<connVars, mbox, mboxOpen, mboxClosed, finPending, live, lastdata>>

\* netconn_close_shutdown(SHUT_RD) deletes the mailbox, unless the connection
\* is gone by then.
Shut ==
  /\ pc = "shut"
  /\ ~resetDue
  /\ IF peer = "reset" THEN UNCHANGED <<mbox, mboxOpen>>
     ELSE mbox' = <<>> /\ mboxOpen' = FALSE
  /\ NoData(TRUE)
  /\ UNCHANGED <<connVars, mboxClosed, pendingErr, finPending, live, lastdata>>

---------------------------------------------------------------------------
\* Taking the data.

CopyLen == Least(left, lastdata.tot)

\* Mutant: the gathered records are submitted only when the request is filled.
FlushWhenFilled(queue, rest) == rest = 0

\* The gathered records are submitted when there are as many as the array holds
\* or the request is filled.
FlushDue(queue, rest) == Len(queue) = PendingMax \/ rest = 0

\* Mutant: the offset is taken after the count was advanced.
EntryAfter == [p |-> lastdata, at |-> recvd + CopyLen, n |-> CopyLen]

Entry == [p |-> lastdata, at |-> recvd, n |-> CopyLen]

\* Mutant: the pbuf stays the socket's pending data.
LastKept == lastdata

\* A record that is used up is the array's alone from now on.
LastAfterGather == IF lastdata.tot = CopyLen THEN NoPbuf ELSE lastdata

\* Mutant: a FIN may be consumed although there is data to return.
NonBlockingOnly == noblock' = TRUE /\ UNCHANGED nofin

\* Mutant: the call waits for more although it has data.
NofinOnly == nofin' = TRUE /\ UNCHANGED noblock

\* With some data to return, only what needs no waiting is added.
NoMoreWaiting == noblock' = TRUE /\ nofin' = TRUE

\* The bytes needed lie in one pbuf: the copy is put off.
Gather ==
  /\ pc = "got"
  /\ ~peek /\ CopyLen <= lastdata.len
  /\ pending' = Append(pending, Entry)
  /\ lastdata' = LastAfterGather
  /\ recvd' = recvd + CopyLen
  /\ left' = left - CopyLen
  /\ NoMoreWaiting
  /\ pc' = IF FlushDue(pending', left') THEN "flush" ELSE "top"
  /\ UNCHANGED <<connVars, mboxVars, live, peek, buf, seenVars>>

\* A chain, or a peek: what was gathered goes first.
Scalar ==
  /\ pc = "got"
  /\ peek \/ CopyLen > lastdata.len
  /\ pc' = IF pending # <<>> THEN "flush" ELSE "copy"
  /\ UNCHANGED <<connVars, mboxVars, live, lastdata, flagVars, dataVars, seenVars>>

\* lwip_recv_gdma_flush copies every gathered record.
Flush ==
  /\ pc \in {"flush", "lastFlush"}
  /\ buf' = [i \in DOMAIN buf |->
       LET Of == {k \in DOMAIN pending : i \in pending[k].at + 1 .. pending[k].at + pending[k].n} IN
       IF Of = {} THEN buf[i]
       ELSE LET e == pending[CHOOSE k \in Of : TRUE] IN Byte(e.p.from + i - e.at - 1)]
  /\ pc' = IF pc = "flush" THEN "consume" ELSE "lastConsume"
  /\ UNCHANGED <<connVars, mboxVars, live, lastdata, flagVars, recvd, left, pending, seenVars>>

Partial(e) == e.p.tot > e.n

\* lwip_recv_gdma_consume frees every record used up; a partial one becomes the
\* socket's pending data without its front.
Consume ==
  /\ pc \in {"consume", "lastConsume"}
  /\ lastdata' =
       IF pending # <<>> /\ Partial(pending[Len(pending)])
         THEN LET e == pending[Len(pending)] IN FreeHeader(e.p, e.n)
       ELSE IF \E k \in DOMAIN pending : pending[k].p = lastdata THEN NoPbuf
       ELSE lastdata
  /\ live' = live \ UNION {Front(pending[k].p, pending[k].n) : k \in DOMAIN pending}
  /\ pending' = <<>>
  /\ pc' = IF pc = "consume" /\ left > 0 THEN "top" ELSE "done"
  /\ UNCHANGED <<connVars, mboxVars, flagVars, recvd, left, buf, seenVars>>

\* The synchronous copy.  A peek leaves the pbuf as it is.
Copy ==
  /\ pc = "copy"
  /\ buf' = Copied(buf, recvd, lastdata.from, CopyLen)
  /\ recvd' = recvd + CopyLen
  /\ left' = left - CopyLen
  /\ IF peek THEN UNCHANGED <<lastdata, live>>
     ELSE /\ lastdata' = IF lastdata.tot > CopyLen THEN FreeHeader(lastdata, CopyLen) ELSE NoPbuf
          /\ live' = live \ Front(lastdata, CopyLen)
  /\ NoMoreWaiting
  /\ pc' = IF left' > 0 /\ ~peek THEN "top" ELSE "done"
  /\ UNCHANGED <<connVars, mboxVars, peek, pending, seenVars>>

\* lwip_recv_tcp_done.
Done ==
  /\ pc = "done"
  /\ \/ pending # <<>> /\ pc' = "lastFlush" /\ UNCHANGED <<flagVars, dataVars>>
     \/ pending = <<>> /\ recvd > 0 /\ ~peek /\ pc' = "ack" /\ UNCHANGED <<flagVars, dataVars>>
     \/ pending = <<>> /\ (recvd = 0 \/ peek) /\ Return
  /\ UNCHANGED <<connVars, mboxVars, live, lastdata, seenVars>>

\* Mutant: the window grows by what was asked for.
CreditAsked == recvd + left

CreditGiven == recvd

\* netconn_tcp_recvd: the TCP/IP thread updates the window, once for all the
\* bytes of the call, and the call returns them.
Ack ==
  /\ pc = "ack"
  /\ ~resetDue
  /\ credit' = IF peer = "reset" THEN credit ELSE credit + CreditGiven
  /\ read' = read + recvd
  /\ Return
  /\ UNCHANGED <<sent, peer, resetDue, mboxVars, live, lastdata, eof>>

---------------------------------------------------------------------------
\* lwip_close: the mailbox is drained and deleted, the pending data freed.
Close ==
  /\ pc = "idle"
  /\ ~resetDue
  /\ pc' = "closed"
  /\ mbox' = <<>> /\ mboxOpen' = FALSE
  /\ live' = live \ ((UNION {Positions(mbox[k].p) : k \in DOMAIN mbox}) \cup Positions(lastdata))
  /\ lastdata' = NoPbuf
  /\ peer' = "reset"
  /\ UNCHANGED <<sent, credit, resetDue, mboxClosed, pendingErr, finPending, flagVars,
                 dataVars, seenVars>>

Recv ==
  \/ Top \/ Fetch \/ TryEmpty \/ PendingError \/ NothingThere \/ HandleFin \/ Shut
  \/ Gather \/ Scalar \/ Flush \/ Consume \/ Copy \/ Done \/ Ack

Next ==
  \/ Arrive \/ Finish \/ Reset \/ PostReset
  \/ \E n \in Lengths, isPeek, dontWait \in BOOLEAN : Call(n, isPeek, dontWait)
  \/ Recv \/ WaitTimeout \/ Close

\* The reading task and the TCP/IP thread are scheduled; no timeout is assumed,
\* and nothing of the peer or of the caller.
Fairness == WF_vars(Recv) /\ WF_vars(PostReset)

Spec == Init /\ [][Next]_vars
FairSpec == Spec /\ Fairness

---------------------------------------------------------------------------
PbufType == [from : 0 .. MaxBytes + 1, len : 0 .. MaxBytes, tot : 0 .. MaxBytes]

\* Types; the gathered records never exceed the array on the caller's stack.
TypeOK ==
  /\ {sent, credit, read, recvd} \subseteq 0 .. MaxBytes
  /\ left \in Nat
  /\ peer \in {"open", "finished", "reset"}
  /\ {resetDue, mboxOpen, mboxClosed, pendingErr, finPending, peek, noblock, nofin, eof}
       \subseteq BOOLEAN
  /\ Len(mbox) <= MboxSize
  /\ \A k \in DOMAIN mbox :
       mbox[k] \in [kind : {"data", "closed", "reset"}, p : PbufType]
  /\ live \subseteq 1 .. MaxBytes
  /\ lastdata \in PbufType
  /\ pc \in PCs
  /\ Len(pending) <= PendingMax
  /\ \A k \in DOMAIN pending :
       pending[k] \in [p : PbufType, at : 0 .. MaxBytes, n : 0 .. MaxBytes]
  /\ \A i \in DOMAIN buf : buf[i] \in 0 .. MaxBytes

\* When a call returns, its buffer holds the next bytes of the stream, each once
\* and in order, whatever was gathered, copied at once, left over or peeked: no
\* pbuf is read after it was freed and none is left out of a flush.
BytesInOrder ==
  pc = "ack" \/ (pc = "done" /\ pending = <<>>) =>
    \A i \in 1 .. recvd : buf[i] = read + i

\* The pbufs the socket can still reach: in the mailbox, as pending data, and
\* gathered by the call.
Gathered == {k \in DOMAIN pending : ~Partial(pending[k])}
Reachable ==
  (UNION {Positions(mbox[k].p) : k \in DOMAIN mbox}) \cup Positions(lastdata)
    \cup UNION {Positions(pending[k].p) : k \in Gathered}

\* Every pbuf that arrived and was not freed has one owner: no byte is leaked,
\* none owned twice (and then freed twice).  A record used in part is the last
\* one gathered (the assertion at sockets.c:1720-1722) and still the socket's.
PbufsOwned ==
  /\ live = Reachable
  /\ \A j, k \in Gathered : j # k => Positions(pending[j].p) \cap Positions(pending[k].p) = {}
  /\ \A k \in Gathered : Positions(pending[k].p) \cap Positions(lastdata) = {}
  /\ \A k \in DOMAIN pending : Partial(pending[k]) => k = Len(pending) /\ pending[k].p = lastdata

\* Between calls every byte of a living connection is either held in a pbuf or
\* given back to the window: the window neither leaks nor grows.
WindowExact ==
  pc = "idle" /\ peer # "reset" => credit + Cardinality(live) = sent

\* The end of the stream is taken only when nothing is left to read, and once it
\* is taken some call has returned 0 for it: "received a FIN but the caller
\* cannot handle it right now" (api_lib.c:754).
EofNotLost ==
  /\ pc = "shut" => live = {}
  /\ pc = "idle" /\ ~mboxOpen => eof

\* A call that has data returns, without waiting for more, and so does one whose
\* connection has ended or been reset.
CallsReturn ==
  pc \notin {"idle", "closed"} /\ (recvd > 0 \/ peer # "open") ~> pc \in {"idle", "closed"}
===========================================================================
