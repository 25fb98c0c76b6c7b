------------------------------ MODULE GdmaCopy ------------------------------
(***************************************************************************)
(* The linked-GDMA copy service of carbox/large_memcpy_gdma.c: tasks that  *)
(* call carbox_large_memcpy_gdma_try ("try", through __wrap_memcpy) or     *)
(* carbox_linked_gdma_copyv_*_try ("copyv", from lwIP recv and the NCM     *)
(* builder), the two shared channel contexts, the completion interrupt,    *)
(* the DMA hardware and the data cache.                                    *)
(*                                                                         *)
(* A destination is Segments body lines, each standing for the aligned     *)
(* range of one hardware transaction, followed by one tail line that the   *)
(* copy shares with a neighbouring object.  The priority boost a task gets *)
(* once it holds a context is left out: only scheduling depends on it.     *)
(***************************************************************************)
EXTENDS Integers, FiniteSets, CacheLine

CONSTANTS
  Tasks,        \* tasks that may copy
  NoTask,       \* no task: the channel copies nothing
  NumContexts,  \* LARGE_MEMCPY_GDMA_CONTEXT_COUNT
  Segments,     \* transactions one copy needs at most
  DCache,       \* the adaptor's dcache_*_by_addr callbacks are installed
  ErrorHalts    \* a bus error clears CH_EN, not only sets raw_err

ASSUME ContextsAssumption == NumContexts \in Nat \ {0}
ASSUME NoTaskAssumption == NoTask \notin Tasks
ASSUME SegmentsAssumption == Segments \in Nat \ {0}
ASSUME HardwareAssumption ==
  /\ DCache \in BOOLEAN
  /\ ErrorHalts \in BOOLEAN

Contexts == 0..(NumContexts - 1)
Body  == 1..Segments
Tail  == Segments + 1
Lines == 1..Tail
None  == -1

VARIABLES
  available,  \* [c] context has a channel and has never failed
  busy,       \* [c] context is claimed
  inFlight,   \* [c] a completion interrupt is expected
  irqError,   \* [c] error seen for the current transaction
  done,       \* [c] binary semaphore given by the interrupt

  chan,       \* [c] CH_EN and progress: off | moving | written | halted
  rawErr,     \* [c] raw_err bit of the channel
  pending,    \* [c] transfer interrupt latched
  isrOn,      \* [c] transfer interrupt enabled
  job,        \* [c] what the channel is copying

  pc,         \* [t] where the task is in the copy call
  mode,       \* [t] which entry point it called
  ctx,        \* [t] context it claimed
  seg,        \* [t] transaction it is working on
  copied,     \* [t] the local result of the call

  dst,        \* [t][l] destination lines
  src,        \* [t][s] source bytes: dirty in cache | clean in RAM | gone
  nbLast,     \* [t] what the neighbour last stored in the shared tail line

  overshoot   \* the ROM's invalidate also drops the line at the exclusive end

ctxVars  == <<available, busy, inFlight, irqError, done>>
hwVars   == <<chan, rawErr, pending, isrOn, job>>
taskVars == <<pc, mode, ctx, seg, copied>>
memVars  == <<dst, src, nbLast>>
vars     == <<ctxVars, hwVars, taskVars, memVars, overshoot>>

PCs == {"idle", "claim", "drain", "clean", "arm", "submit", "wait", "poll",
        "check", "invalidate", "final", "edges", "fail", "abort", "out",
        "recopy", "returned"}

\* The task holds context ctx[t].
HoldingPCs == {"drain", "clean", "arm", "submit", "wait", "poll", "check",
               "invalidate", "final", "edges", "fail", "abort", "out"}

\* A transaction of the task may be running in hardware.
RunningPCs == {"wait", "poll", "check", "fail", "abort"}

NoJob == [task |-> NoTask, seg |-> 1]
Running(c) == chan[c] # "off"
Owner(t, c) == pc[t] \in HoldingPCs /\ ctx[t] = c

CtxTypeOK ==
  /\ available \in [Contexts -> BOOLEAN]
  /\ busy      \in [Contexts -> BOOLEAN]
  /\ inFlight  \in [Contexts -> BOOLEAN]
  /\ irqError  \in [Contexts -> BOOLEAN]
  /\ done      \in [Contexts -> BOOLEAN]

HwTypeOK ==
  /\ chan      \in [Contexts -> {"off", "moving", "written", "halted"}]
  /\ rawErr    \in [Contexts -> BOOLEAN]
  /\ pending   \in [Contexts -> BOOLEAN]
  /\ isrOn     \in [Contexts -> BOOLEAN]
  /\ job       \in [Contexts -> [task : Tasks \cup {NoTask}, seg : Body]]

TaskTypeOK ==
  /\ pc        \in [Tasks -> PCs]
  /\ mode      \in [Tasks -> {"try", "copyv"}]
  /\ ctx       \in [Tasks -> Contexts \cup {None}]
  /\ seg       \in [Tasks -> Body]
  /\ copied    \in [Tasks -> BOOLEAN]

MemTypeOK ==
  /\ dst       \in [Tasks -> [Lines -> Line]]
  /\ src       \in [Tasks -> [Body -> {"dirty", "clean", "gone"}]]
  /\ nbLast    \in [Tasks -> 0..1]

TypeOK ==
  CtxTypeOK /\ HwTypeOK /\ TaskTypeOK /\ MemTypeOK /\ overshoot \in BOOLEAN

-----------------------------------------------------------------------------
(* Buffers a caller may hand in. *)

OldLine(nb) == [copy |-> "old", nb |-> nb]
NewLine(nb) == [copy |-> "new", nb |-> nb]

\* A destination freshly allocated by the caller: zero-filled lines may still
\* sit dirty or clean in the cache.
FreshLines ==
  {[ram |-> OldLine(0), st |-> s, val |-> OldLine(0)] :
     s \in IF DCache THEN {"absent", "clean", "dirty"} ELSE {"absent"}}

FreshSources == IF DCache THEN {"dirty", "clean"} ELSE {"clean"}

\* The destination as the core reads it.
Whole(t) == \A l \in Lines : dst[t][l].val.copy = "new"

-----------------------------------------------------------------------------
(* carbox_large_memcpy_gdma_init: each context either gets a semaphore and *)
(* a linked channel or stays unavailable for good.                         *)

Init ==
  /\ available \in [Contexts -> BOOLEAN]
  /\ busy      = [c \in Contexts |-> FALSE]
  /\ inFlight  = [c \in Contexts |-> FALSE]
  /\ irqError  = [c \in Contexts |-> FALSE]
  /\ done      = [c \in Contexts |-> FALSE]
  /\ chan      = [c \in Contexts |-> "off"]
  /\ rawErr    = [c \in Contexts |-> FALSE]
  /\ pending   = [c \in Contexts |-> FALSE]
  /\ isrOn     = available
  /\ job       = [c \in Contexts |-> NoJob]
  /\ pc        = [t \in Tasks |-> "idle"]
  /\ mode      = [t \in Tasks |-> "try"]
  /\ ctx       = [t \in Tasks |-> None]
  /\ seg       = [t \in Tasks |-> 1]
  /\ copied    = [t \in Tasks |-> FALSE]
  /\ dst       = [t \in Tasks |-> [l \in Lines |-> Uncached(OldLine(0))]]
  /\ src       = [t \in Tasks |-> [s \in Body |-> "clean"]]
  /\ nbLast    = [t \in Tasks |-> 0]
  /\ overshoot \in {FALSE, DCache}

-----------------------------------------------------------------------------
(* Entry.  A request the guards refuse (short, in an interrupt, scheduler  *)
(* stopped, misaligned, not bus visible) goes straight to the CPU copy.    *)

Goto(t, label) == pc' = [pc EXCEPT ![t] = label]

Call(t) ==
  /\ pc[t] \in {"idle", "returned"}
  /\ \E body \in FreshLines, tail \in FreshLines, s \in FreshSources :
       /\ dst' = [dst EXCEPT ![t] = [l \in Lines |-> IF l = Tail THEN tail ELSE body]]
       /\ src' = [src EXCEPT ![t] = [i \in Body |-> s]]
  /\ nbLast' = [nbLast EXCEPT ![t] = 0]
  /\ \E m \in {"try", "copyv"} : mode' = [mode EXCEPT ![t] = m]
  /\ \E label \in {"claim", "recopy"} : Goto(t, label)
  /\ copied' = [copied EXCEPT ![t] = FALSE]
  /\ seg' = [seg EXCEPT ![t] = 1]
  /\ UNCHANGED <<ctx, ctxVars, hwVars>>

\* Mutation: the claim loop forgets to test busy.
UsableIgnoringBusy == {c \in Contexts : available[c]}

Usable == {c \in Contexts : available[c] /\ ~busy[c]}

\* The claim loop in its critical section: the first usable context, or none.
Claim(t) ==
  /\ pc[t] = "claim"
  /\ \/ /\ Usable = {}
        /\ Goto(t, "recopy")
        /\ UNCHANGED <<busy, ctx>>
     \/ \E c \in Usable :
          /\ \A d \in Usable : c <= d
          /\ busy' = [busy EXCEPT ![c] = TRUE]
          /\ ctx' = [ctx EXCEPT ![t] = c]
          /\ Goto(t, "drain")
  /\ UNCHANGED <<available, inFlight, irqError, done, hwVars, mode, seg,
                 copied, memVars>>

-----------------------------------------------------------------------------
(* One transaction: prepare the context, hand the lines to the hardware,   *)
(* submit.                                                                 *)

\* Empty the semaphore, clear latched interrupts and the error of the past.
Drain(t) ==
  LET c == ctx[t] IN
  /\ pc[t] = "drain"
  /\ done'     = [done EXCEPT ![c] = FALSE]
  /\ pending'  = [pending EXCEPT ![c] = FALSE]
  /\ rawErr'   = [rawErr EXCEPT ![c] = FALSE]
  /\ irqError' = [irqError EXCEPT ![c] = FALSE]
  /\ Goto(t, "clean")
  /\ UNCHANGED <<available, busy, inFlight, chan, isrOn, job, mode, ctx, seg,
                 copied, memVars>>

\* Mutation: only the source range is cleaned, as the stock HAL helper does.
CleanSourceOnly(t) ==
  /\ pc[t] = "clean"
  /\ src' = [src EXCEPT ![t][seg[t]] = "clean"]
  /\ Goto(t, "arm")
  /\ UNCHANGED <<ctxVars, hwVars, mode, ctx, seg, copied, dst, nbLast>>

\* Mutation: the source range is not cleaned.
CleanDestinationOnly(t) ==
  /\ pc[t] = "clean"
  /\ dst' = [dst EXCEPT ![t][seg[t]] = CleanLine(@)]
  /\ Goto(t, "arm")
  /\ UNCHANGED <<ctxVars, hwVars, mode, ctx, seg, copied, src, nbLast>>

\* Write dirty source and destination lines of this transaction back.
Clean(t) ==
  /\ pc[t] = "clean"
  /\ src' = [src EXCEPT ![t][seg[t]] = "clean"]
  /\ dst' = [dst EXCEPT ![t][seg[t]] = IF DCache THEN CleanLine(@) ELSE @]
  /\ Goto(t, "arm")
  /\ UNCHANGED <<ctxVars, hwVars, mode, ctx, seg, copied, nbLast>>

Arm(t) ==
  /\ pc[t] = "arm"
  /\ inFlight' = [inFlight EXCEPT ![ctx[t]] = TRUE]
  /\ Goto(t, "submit")
  /\ UNCHANGED <<available, busy, irqError, done, hwVars, mode, ctx, seg,
                 copied, memVars>>

\* Interrupts on, channel enabled.
Submit(t) ==
  LET c == ctx[t] IN
  /\ pc[t] = "submit"
  /\ chan'  = [chan EXCEPT ![c] = "moving"]
  /\ isrOn' = [isrOn EXCEPT ![c] = TRUE]
  /\ job'   = [job EXCEPT ![c] = [task |-> t, seg |-> seg[t]]]
  /\ Goto(t, "wait")
  /\ UNCHANGED <<ctxVars, rawErr, pending, mode, ctx, seg, copied, memVars>>

\* The channel is shut down for good: interrupt masked, transfer aborted,
\* channel freed, context unavailable.  drained: the semaphore is emptied too.
ShutDown(c, drained) ==
  /\ isrOn'     = [isrOn EXCEPT ![c] = FALSE]
  /\ inFlight'  = [inFlight EXCEPT ![c] = FALSE]
  /\ chan'      = [chan EXCEPT ![c] = "off"]
  /\ job'       = [job EXCEPT ![c] = NoJob]
  /\ pending'   = [pending EXCEPT ![c] = FALSE]
  /\ rawErr'    = [rawErr EXCEPT ![c] = FALSE]
  /\ available' = [available EXCEPT ![c] = FALSE]
  /\ done'      = IF drained THEN [done EXCEPT ![c] = FALSE] ELSE done

\* hal_gdma_memcpy or the channel setup refuses; copyv also gives up before
\* arming, when the descriptors cannot be built or do not validate.
Reject(t) ==
  /\ \/ pc[t] = "submit"
     \/ pc[t] = "arm" /\ mode[t] = "copyv"
  /\ ShutDown(ctx[t], mode[t] = "copyv")
  /\ Goto(t, "out")
  /\ UNCHANGED <<busy, irqError, mode, ctx, seg, copied, memVars>>

-----------------------------------------------------------------------------
(* large_memcpy_gdma_wait                                                  *)

\* The semaphore arrives.
WaitTaken(t) ==
  LET c == ctx[t] IN
  /\ pc[t] = "wait"
  /\ done[c]
  /\ done' = [done EXCEPT ![c] = FALSE]
  /\ Goto(t, IF irqError[c] THEN "fail" ELSE "poll")
  /\ UNCHANGED <<available, busy, inFlight, irqError, hwVars, mode, ctx, seg,
                 copied, memVars>>

\* Mutation: the wait has no time limit.
NoTimeout(t) == FALSE /\ pc[t] = "wait" /\ UNCHANGED vars

\* LARGE_MEMCPY_GDMA_TIMEOUT_MS passes without it.
WaitTimeout(t) ==
  /\ pc[t] = "wait"
  /\ ~done[ctx[t]]
  /\ Goto(t, "fail")
  /\ UNCHANGED <<ctxVars, hwVars, mode, ctx, seg, copied, memVars>>

\* The polling loop ends: the channel is idle, an error shows, or time is up.
\* (Another turn of the loop only yields.)
PollEnd(t) ==
  LET c == ctx[t] IN
  /\ pc[t] = "poll"
  /\ irqError' = [irqError EXCEPT ![c] = @ \/ (Running(c) /\ rawErr[c])]
  /\ Goto(t, "check")
  /\ UNCHANGED <<available, busy, inFlight, done, hwVars, mode, ctx, seg,
                 copied, memVars>>

\* Mutation: the interrupt alone is taken as the end of the transfer.
TrustInterrupt(t) ==
  /\ pc[t] = "check"
  /\ Goto(t, IF irqError[ctx[t]] THEN "fail" ELSE "invalidate")
  /\ UNCHANGED <<ctxVars, hwVars, mode, ctx, seg, copied, memVars>>

\* CH_EN is read once more: only an idle channel without error is a success.
Check(t) ==
  LET c == ctx[t] IN
  /\ pc[t] = "check"
  /\ Goto(t, IF ~Running(c) /\ ~irqError[c] THEN "invalidate" ELSE "fail")
  /\ UNCHANGED <<ctxVars, hwVars, mode, ctx, seg, copied, memVars>>

\* The interrupt is masked first, so it cannot give the semaphore any more.
Fail(t) ==
  LET c == ctx[t] IN
  /\ pc[t] = "fail"
  /\ isrOn'    = [isrOn EXCEPT ![c] = FALSE]
  /\ inFlight' = [inFlight EXCEPT ![c] = FALSE]
  /\ Goto(t, "abort")
  /\ UNCHANGED <<available, busy, irqError, done, chan, rawErr, pending, job,
                 mode, ctx, seg, copied, memVars>>

\* Mutation: the failed channel is not aborted.
NoAbort(t) ==
  LET c == ctx[t] IN
  /\ pc[t] = "abort"
  /\ pending'   = [pending EXCEPT ![c] = FALSE]
  /\ available' = [available EXCEPT ![c] = FALSE]
  /\ done'      = [done EXCEPT ![c] = FALSE]
  /\ Goto(t, "out")
  /\ UNCHANGED <<busy, inFlight, irqError, chan, rawErr, isrOn, job, mode, ctx,
                 seg, copied, memVars>>

\* Then the channel is quiesced and the context disabled.
Abort(t) ==
  /\ pc[t] = "abort"
  /\ ShutDown(ctx[t], TRUE)
  /\ Goto(t, "out")
  /\ UNCHANGED <<busy, irqError, mode, ctx, seg, copied, memVars>>

-----------------------------------------------------------------------------
(* After a transaction.                                                    *)

\* Mutation: the range is rounded up to the next line.
RoundedUpInvalidated(t, ls) ==
  [dst EXCEPT ![t] = [l \in Lines |->
     IF DCache /\ (l \in ls \/ l - 1 \in ls)
       THEN InvalidateLine(dst[t][l]) ELSE dst[t][l]]]

\* Invalidating lines ls of task t; the ROM may also hit the line after.
Invalidated(t, ls) ==
  LET hit == IF overshoot THEN ls \cup {l + 1 : l \in ls} ELSE ls IN
  [dst EXCEPT ![t] = [l \in Lines |->
     IF DCache /\ l \in hit THEN InvalidateLine(dst[t][l]) ELSE dst[t][l]]]

Invalidate(t) ==
  /\ pc[t] = "invalidate"
  /\ dst' = Invalidated(t, {seg[t]})
  /\ IF seg[t] < Segments
       THEN /\ seg' = [seg EXCEPT ![t] = @ + 1]
            /\ Goto(t, "drain")
       ELSE /\ Goto(t, IF mode[t] = "copyv" THEN "final" ELSE "edges")
            /\ UNCHANGED seg
  /\ UNCHANGED <<ctxVars, hwVars, mode, ctx, copied, src, nbLast>>

\* The core writes the bytes outside the aligned body.
StoredTail(t) ==
  [dst EXCEPT ![t][Tail] = StoreLine(@, NewLine(@.val.nb), DCache)]

\* Mutation: copyv writes the edges before the final invalidation.
FinalAfterEdges(t) ==
  /\ pc[t] = "final"
  /\ dst' = [dst EXCEPT ![t] = [l \in Lines |->
       IF l = Tail
         THEN IF overshoot
                THEN InvalidateLine(StoredTail(t)[t][l])
                ELSE StoredTail(t)[t][l]
         ELSE InvalidateLine(dst[t][l])]]
  /\ copied' = [copied EXCEPT ![t] = TRUE]
  /\ Goto(t, "out")
  /\ UNCHANGED <<ctxVars, hwVars, mode, ctx, seg, src, nbLast>>

\* copyv invalidates every body once more after its last batch.
FinalInvalidate(t) ==
  /\ pc[t] = "final"
  /\ dst' = Invalidated(t, Body)
  /\ Goto(t, "edges")
  /\ UNCHANGED <<ctxVars, hwVars, mode, ctx, seg, copied, src, nbLast>>

Edges(t) ==
  /\ pc[t] = "edges"
  /\ dst' = StoredTail(t)
  /\ copied' = [copied EXCEPT ![t] = TRUE]
  /\ Goto(t, "out")
  /\ UNCHANGED <<ctxVars, hwVars, mode, ctx, seg, src, nbLast>>

\* Release the context and return 1 or 0.
Out(t) ==
  /\ pc[t] = "out"
  /\ busy' = [busy EXCEPT ![ctx[t]] = FALSE]
  /\ Goto(t, IF copied[t] THEN "returned" ELSE "recopy")
  /\ UNCHANGED <<available, inFlight, irqError, done, hwVars, mode, ctx, seg,
                 copied, memVars>>

-----------------------------------------------------------------------------
(* The caller.                                                             *)

\* On 0 every caller copies the complete range with the core.
Recopy(t) ==
  /\ pc[t] = "recopy"
  /\ dst' = [dst EXCEPT ![t] = [l \in Lines |->
       StoreLine(dst[t][l], NewLine(dst[t][l].val.nb), DCache)]]
  /\ Goto(t, "returned")
  /\ UNCHANGED <<ctxVars, hwVars, mode, ctx, seg, copied, src, nbLast>>

\* Once the call is back the caller may free or overwrite the source (recv
\* frees the pbufs, the NCM owner reuses the frame).
ReuseSource(t) ==
  /\ pc[t] = "returned"
  /\ src' = [src EXCEPT ![t] = [s \in Body |-> "gone"]]
  /\ UNCHANGED <<ctxVars, hwVars, taskVars, dst, nbLast>>

\* The neighbour of the tail line is written by whoever owns it.
NeighbourStore(t) ==
  /\ DCache
  /\ nbLast' = [nbLast EXCEPT ![t] = 1 - @]
  /\ dst' = [dst EXCEPT ![t][Tail] =
               StoreLine(@, [@.val EXCEPT !.nb = 1 - nbLast[t]], TRUE)]
  /\ UNCHANGED <<ctxVars, hwVars, taskVars, src>>

-----------------------------------------------------------------------------
(* Cache replacement, at any time.                                         *)

CacheMoves(t) ==
  /\ DCache
  /\ \/ \E l \in Lines : /\ dst[t][l].st # "absent"
                         /\ dst' = [dst EXCEPT ![t][l] = EvictLine(@)]
                         /\ UNCHANGED src
     \/ \E l \in Lines : /\ dst[t][l].st = "absent"
                         /\ dst' = [dst EXCEPT ![t][l] = FillLine(@)]
                         /\ UNCHANGED src
     \/ \E s \in Body : /\ src[t][s] = "dirty"
                        /\ src' = [src EXCEPT ![t][s] = "clean"]
                        /\ UNCHANGED dst
  /\ UNCHANGED <<ctxVars, hwVars, taskVars, nbLast>>

-----------------------------------------------------------------------------
(* The DMA channel and its interrupt.                                      *)

\* The last destination write of the transaction.
DmaWrite(c) ==
  LET t == job[c].task
      s == job[c].seg
      data == IF src[t][s] = "clean" THEN NewLine(0) ELSE OldLine(0) IN
  /\ chan[c] = "moving"
  /\ dst' = [dst EXCEPT ![t][s] = DmaStoreLine(@, data)]
  /\ chan' = [chan EXCEPT ![c] = "written"]
  /\ UNCHANGED <<ctxVars, rawErr, pending, isrOn, job, taskVars, src, nbLast>>

\* CH_EN clears itself after that write and the interrupt is raised.
DmaDone(c) ==
  /\ chan[c] = "written"
  /\ chan' = [chan EXCEPT ![c] = "off"]
  /\ job' = [job EXCEPT ![c] = NoJob]
  /\ pending' = [pending EXCEPT ![c] = TRUE]
  /\ UNCHANGED <<ctxVars, rawErr, isrOn, taskVars, memVars>>

\* A linked list can raise the interrupt before its last descriptor is done.
EarlyInterrupt(c) ==
  /\ chan[c] \in {"moving", "written"}
  /\ pending' = [pending EXCEPT ![c] = TRUE]
  /\ UNCHANGED <<ctxVars, chan, rawErr, isrOn, job, taskVars, memVars>>

\* A bus error stops the transfer; only transfer interrupts are unmasked.
DmaError(c) ==
  /\ chan[c] = "moving"
  /\ rawErr' = [rawErr EXCEPT ![c] = TRUE]
  /\ chan' = [chan EXCEPT ![c] = IF ErrorHalts THEN "off" ELSE "halted"]
  /\ job' = IF ErrorHalts THEN [job EXCEPT ![c] = NoJob] ELSE job
  /\ UNCHANGED <<ctxVars, pending, isrOn, taskVars, memVars>>

\* The ROM handler clears the interrupt and calls done_common.
Isr(c) ==
  /\ pending[c] /\ isrOn[c]
  /\ pending' = [pending EXCEPT ![c] = FALSE]
  /\ IF inFlight[c]
       THEN /\ irqError' = [irqError EXCEPT ![c] = @ \/ rawErr[c]]
            /\ inFlight' = [inFlight EXCEPT ![c] = FALSE]
            /\ done' = [done EXCEPT ![c] = TRUE]
       ELSE UNCHANGED <<irqError, inFlight, done>>
  /\ UNCHANGED <<available, busy, chan, rawErr, isrOn, job, taskVars, memVars>>

-----------------------------------------------------------------------------
CallStep(t) ==
  \/ Claim(t) \/ Drain(t) \/ Clean(t) \/ Arm(t) \/ Submit(t) \/ Reject(t)
  \/ WaitTaken(t) \/ WaitTimeout(t) \/ PollEnd(t) \/ Check(t)
  \/ Fail(t) \/ Abort(t) \/ Invalidate(t) \/ FinalInvalidate(t)
  \/ Edges(t) \/ Out(t) \/ Recopy(t)

EnvStep(t) == Call(t) \/ ReuseSource(t) \/ NeighbourStore(t) \/ CacheMoves(t)

Hardware(c) ==
  DmaWrite(c) \/ DmaDone(c) \/ EarlyInterrupt(c) \/ DmaError(c) \/ Isr(c)

\* Which ROM the device has does not change.
Next ==
  /\ \/ \E t \in Tasks : CallStep(t) \/ EnvStep(t)
     \/ \E c \in Contexts : Hardware(c)
  /\ UNCHANGED overshoot

\* A task inside a call is scheduled and its 20 ms limits expire.  Nothing is
\* assumed of the hardware or of callers.
Fairness ==
  \A t \in Tasks : WF_vars(CallStep(t) /\ UNCHANGED overshoot)

Spec == Init /\ [][Next]_vars
FairSpec == Spec /\ Fairness

-----------------------------------------------------------------------------
(* Properties.                                                             *)

\* A claimed context belongs to exactly one task inside a copy call, and a
\* context no call holds is not marked busy (large_memcpy_gdma[i].busy).
OneOwner ==
  \A c \in Contexts :
    /\ \A t, u \in Tasks : Owner(t, c) /\ Owner(u, c) => t = u
    /\ busy[c] <=> \E t \in Tasks : Owner(t, c)

\* A channel moves data only for a task that waits for it in the same call,
\* and only while its context is available: after any return, M33 fallback
\* included, no DMA write can follow.
DmaOnlyInsideCall ==
  \A c \in Contexts : Running(c) =>
    /\ available[c]
    /\ Owner(job[c].task, c)
    /\ pc[job[c].task] \in RunningPCs
    /\ seg[job[c].task] = job[c].seg

\* A holder has a context, and one that works until the call shuts it down.
HolderUsable ==
  \A t \in Tasks : pc[t] \in HoldingPCs =>
    /\ ctx[t] \in Contexts
    /\ pc[t] # "out" => available[ctx[t]]

\* An enabled channel copies for some task.
JobHasTask == \A c \in Contexts : Running(c) => job[c].task \in Tasks

\* OneOwner and DmaOnlyInsideCall are inductive together with these facts.
OwnershipInv ==
  TypeOK /\ OneOwner /\ HolderUsable /\ JobHasTask /\ DmaOnlyInsideCall

\* An absent line reads as RAM does, and without a cache every line is absent.
Coherent(l) ==
  /\ l.st = "absent" => l.val = l.ram
  /\ ~DCache => l.st = "absent"

\* Evicting the line changes nothing for the core.
Synced(l) == l.st # "dirty" => l.val = l.ram

\* The bytes are in RAM and no eviction or fill can change what is read.
Delivered(l) == l.ram.copy = "new" /\ l.st # "dirty" /\ l.val = l.ram

\* The core reads the copied bytes for as long as nobody stores to the line.
Settled(l) == l.val.copy = "new" /\ Synced(l)

\* A transaction is accepted as complete only after its last destination
\* write, although the interrupt may come early (large_memcpy_gdma_wait).
AcceptedIsWritten ==
  \A t \in Tasks :
    pc[t] = "invalidate" => dst[t][seg[t]].ram.copy = "new"

\* The copy never loses what a neighbour stored in the line it shares with the
\* tail (the claim "unrelated caller data cannot be discarded"), as long as an
\* invalidate stays inside its range.
NeighbourKept ==
  ~overshoot => \A t \in Tasks : dst[t][Tail].val.nb = nbLast[t]

\* NeighbourKept is inductive with these facts about the memory of task t.
MemFacts(t) ==
  /\ \A l \in Lines : Coherent(dst[t][l])
  /\ ~overshoot => Synced(dst[t][Tail]) /\ dst[t][Tail].val.nb = nbLast[t]

WaitingPCs  == {"wait", "poll", "check"}
PreparedPCs == {"arm", "submit", "invalidate"} \cup WaitingPCs

\* From Clean on, the source is in RAM and no dirty line can land on the data.
Prepared(t) == pc[t] \in PreparedPCs =>
  src[t][seg[t]] = "clean" /\ dst[t][seg[t]].st # "dirty"

\* A channel the task waits for has written the range before CH_EN clears.
Landed(t) ==
  pc[t] = "invalidate" \/ (pc[t] \in WaitingPCs /\ chan[ctx[t]] \in {"off", "written"})
    => dst[t][seg[t]].ram.copy = "new"

\* Transactions already accepted stay delivered while later ones run.
BodyDelivered(t) ==
  /\ pc[t] = "claim" => seg[t] = 1
  /\ pc[t] \in PreparedPCs \cup {"drain", "clean"} =>
       \A s \in Body : s < seg[t] => Delivered(dst[t][s])
  /\ pc[t] \in {"final", "edges"} => \A s \in Body : Delivered(dst[t][s])

\* Only a call that stored its edges reports 1.
CopiedLate(t) == copied[t] => pc[t] \in {"out", "returned"}

\* From a successful end of the copy on, the destination is whole for good.
CopySettled(t) == pc[t] = "returned" \/ (pc[t] = "out" /\ copied[t]) =>
  \A l \in Lines : Settled(dst[t][l])

\* Before its first call a destination holds nothing of a copy.
IdleOld(t) == pc[t] = "idle" =>
  \A l \in Lines : dst[t][l].ram.copy = "old" /\ dst[t][l].val.copy = "old"

\* What makes AcceptedIsWritten and the refinement below inductive, for a
\* channel whose CH_EN clears only after the last write.
CopyFacts(t) ==
  /\ Prepared(t) /\ Landed(t) /\ BodyDelivered(t)
  /\ CopiedLate(t) /\ CopySettled(t) /\ IdleOld(t)

MemInv  == OwnershipInv /\ \A t \in Tasks : MemFacts(t)
CopyInv == MemInv /\ \A t \in Tasks : CopyFacts(t)

\* Every copy call returns, whatever the hardware does.
CallsReturn == \A t \in Tasks : pc[t] # "idle" ~> pc[t] = "returned"

-----------------------------------------------------------------------------
(* The service the callers see.                                            *)

PhaseOf(label) ==
  IF label = "idle" THEN "idle"
  ELSE IF label = "returned" THEN "complete" ELSE "running"

Service == INSTANCE CopyService WITH
  phase <- [t \in Tasks |-> PhaseOf(pc[t])],
  whole <- [t \in Tasks |-> Whole(t)]

\* The copy paths, the DMA and the cache together implement a plain copy that
\* always completes, and whose bytes stay what they were once it has: no dirty
\* line evicted late, no stale line, no late DMA write, whatever the caller does
\* with its source afterwards (__wrap_memcpy over carbox_large_memcpy_gdma_try, and the
\* copyv callers with their CPU fallback).
ImplementsService == Service!FairSpec
=============================================================================
