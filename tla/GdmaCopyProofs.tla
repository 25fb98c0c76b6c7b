--------------------------- MODULE GdmaCopyProofs ---------------------------
(***************************************************************************)
(* Theorems about GdmaCopy for any number of tasks, contexts and           *)
(* transactions, with or without a data cache: types, ownership of the     *)
(* contexts, the neighbour of a destination, and the refinement of the     *)
(* plain copy its callers see.                                             *)
(***************************************************************************)
EXTENDS GdmaCopy, TLAPS

\* What every cache or bus operation of the model does to a line is a line
\* again (the dcache_*_by_addr callbacks and stores of large_memcpy_gdma.c).
LEMMA LineClosed ==
  ASSUME NEW l \in Line, NEW c \in Content, NEW b \in BOOLEAN
  PROVE  /\ Uncached(c) \in Line
         /\ CleanLine(l) \in Line
         /\ InvalidateLine(l) \in Line
         /\ EvictLine(l) \in Line
         /\ FillLine(l) \in Line
         /\ StoreLine(l, c, b) \in Line
         /\ DmaStoreLine(l, c) \in Line
<1>1. \A d \in Content : Uncached(d) \in Line
  BY DEF Uncached, Line
<1>2. CleanLine(l) \in Line
  BY DEF CleanLine, Line
<1>3. InvalidateLine(l) \in Line
  BY <1>1 DEF InvalidateLine, Line
<1>4. EvictLine(l) \in Line
  BY <1>1, <1>2 DEF EvictLine, Line
<1>5. FillLine(l) \in Line
  BY DEF FillLine, Line
<1>6. StoreLine(l, c, b) \in Line
  BY <1>1 DEF StoreLine, Line
<1>7. DmaStoreLine(l, c) \in Line
  BY <1>1 DEF DmaStoreLine, Line
<1> QED
  BY <1>1, <1>2, <1>3, <1>4, <1>5, <1>6, <1>7

\* Lines are the body lines of the transactions and one tail line.
LEMMA BodyFacts ==
  /\ 1 \in Body
  /\ Body \subseteq Lines
  /\ Tail \in Lines
  /\ Tail \notin Body
  /\ \A s \in Body : s < Segments => s + 1 \in Body
  BY SegmentsAssumption DEF Body, Lines, Tail

\* An idle channel's job is typed.
LEMMA NoJobTyped == NoJob \in [task : Tasks \cup {NoTask}, seg : Body]
  BY BodyFacts DEF NoJob

\* Replacing all lines of one destination keeps the memory typed.
LEMMA DstUpdate ==
  ASSUME MemTypeOK, NEW t \in Tasks, NEW f \in [Lines -> Line]
  PROVE  [dst EXCEPT ![t] = f] \in [Tasks -> [Lines -> Line]]
  BY DEF MemTypeOK

\* Replacing one line of one destination keeps the memory typed.
LEMMA LineUpdate ==
  ASSUME MemTypeOK, NEW t \in Tasks, NEW l \in Lines, NEW v \in Line
  PROVE  [dst EXCEPT ![t][l] = v] \in [Tasks -> [Lines -> Line]]
  BY DEF MemTypeOK

\* What is read from a destination line is typed.
LEMMA LineRead ==
  ASSUME MemTypeOK, NEW t \in Tasks, NEW l \in Lines
  PROVE  /\ dst[t][l] \in Line
         /\ dst[t][l].val \in Content
         /\ dst[t][l].val.nb \in 0..1
  BY DEF MemTypeOK, Line, Content

-----------------------------------------------------------------------------
(* Types. *)

\* Every step keeps the contexts typed (large_memcpy_gdma_context_t).
LEMMA CtxTypeOKStep ==
  ASSUME CtxTypeOK, TaskTypeOK, [Next]_vars
  PROVE  CtxTypeOK'
<1> USE NoJobTyped, BodyFacts
    DEF CtxTypeOK, TaskTypeOK, Goto, ctxVars, hwVars, taskVars, memVars, PCs
<1>1. ASSUME NEW t \in Tasks, Claim(t) PROVE CtxTypeOK'
  BY <1>1 DEF Claim, Usable
<1>2. ASSUME NEW t \in Tasks, Drain(t) PROVE CtxTypeOK'
  BY <1>2 DEF Drain
<1>3. ASSUME NEW t \in Tasks, Clean(t) PROVE CtxTypeOK'
  BY <1>3 DEF Clean
<1>4. ASSUME NEW t \in Tasks, Arm(t) PROVE CtxTypeOK'
  BY <1>4 DEF Arm
<1>5. ASSUME NEW t \in Tasks, Submit(t) PROVE CtxTypeOK'
  BY <1>5 DEF Submit
<1>6. ASSUME NEW t \in Tasks, Reject(t) PROVE CtxTypeOK'
  BY <1>6 DEF Reject, ShutDown
<1>7. ASSUME NEW t \in Tasks, WaitTaken(t) PROVE CtxTypeOK'
  BY <1>7 DEF WaitTaken
<1>8. ASSUME NEW t \in Tasks, WaitTimeout(t) PROVE CtxTypeOK'
  BY <1>8 DEF WaitTimeout
<1>9. ASSUME NEW t \in Tasks, PollEnd(t) PROVE CtxTypeOK'
  BY <1>9 DEF PollEnd
<1>10. ASSUME NEW t \in Tasks, Check(t) PROVE CtxTypeOK'
  BY <1>10 DEF Check
<1>11. ASSUME NEW t \in Tasks, Fail(t) PROVE CtxTypeOK'
  BY <1>11 DEF Fail
<1>12. ASSUME NEW t \in Tasks, Abort(t) PROVE CtxTypeOK'
  BY <1>12 DEF Abort, ShutDown
<1>13. ASSUME NEW t \in Tasks, Invalidate(t) PROVE CtxTypeOK'
  BY <1>13 DEF Invalidate
<1>14. ASSUME NEW t \in Tasks, FinalInvalidate(t) PROVE CtxTypeOK'
  BY <1>14 DEF FinalInvalidate
<1>15. ASSUME NEW t \in Tasks, Edges(t) PROVE CtxTypeOK'
  BY <1>15 DEF Edges
<1>16. ASSUME NEW t \in Tasks, Out(t) PROVE CtxTypeOK'
  BY <1>16 DEF Out
<1>17. ASSUME NEW t \in Tasks, Recopy(t) PROVE CtxTypeOK'
  BY <1>17 DEF Recopy
<1>18. ASSUME NEW t \in Tasks, Call(t) PROVE CtxTypeOK'
  BY <1>18 DEF Call
<1>19. ASSUME NEW t \in Tasks, ReuseSource(t) PROVE CtxTypeOK'
  BY <1>19 DEF ReuseSource
<1>20. ASSUME NEW t \in Tasks, NeighbourStore(t) PROVE CtxTypeOK'
  BY <1>20 DEF NeighbourStore
<1>21. ASSUME NEW t \in Tasks, CacheMoves(t) PROVE CtxTypeOK'
  BY <1>21 DEF CacheMoves
<1>22. ASSUME NEW c \in Contexts, DmaWrite(c) PROVE CtxTypeOK'
  BY <1>22 DEF DmaWrite
<1>23. ASSUME NEW c \in Contexts, DmaDone(c) PROVE CtxTypeOK'
  BY <1>23 DEF DmaDone
<1>24. ASSUME NEW c \in Contexts, EarlyInterrupt(c) PROVE CtxTypeOK'
  BY <1>24 DEF EarlyInterrupt
<1>25. ASSUME NEW c \in Contexts, DmaError(c) PROVE CtxTypeOK'
  BY <1>25 DEF DmaError
<1>26. ASSUME NEW c \in Contexts, Isr(c) PROVE CtxTypeOK'
  <2> DEFINE e == irqError[c] \/ rawErr[c]
  <2>2. e \in BOOLEAN
    BY Zenon
  <2>3. irqError' \in {irqError, [irqError EXCEPT ![c] = e]}
    BY <1>26, Zenon DEF Isr
  <2>4. irqError' \in [Contexts -> BOOLEAN]
    <3> HIDE DEF e
    <3> QED
      BY <2>2, <2>3
  <2>5. available' = available /\ busy' = busy
    BY <1>26, Zenon DEF Isr
  <2>6. inFlight' \in {inFlight, [inFlight EXCEPT ![c] = FALSE]} /\ done' \in {done, [done EXCEPT ![c] = TRUE]}
    BY <1>26, Zenon DEF Isr
  <2>7. inFlight' \in [Contexts -> BOOLEAN] /\ done' \in [Contexts -> BOOLEAN]
    BY <2>6
  <2> QED
    BY <2>4, <2>5, <2>7
<1>27. CASE UNCHANGED vars
  BY <1>27 DEF vars
<1> QED
  BY <1>1, <1>2, <1>3, <1>4, <1>5, <1>6, <1>7, <1>8, <1>9, <1>10, <1>11,
     <1>12, <1>13, <1>14, <1>15, <1>16, <1>17, <1>18, <1>19, <1>20, <1>21,
     <1>22, <1>23, <1>24, <1>25, <1>26, <1>27
  DEF Next, CallStep, EnvStep, Hardware

\* Every step keeps the channel state typed; a free channel holds NoJob.
LEMMA HwTypeOKStep ==
  ASSUME HwTypeOK, TaskTypeOK, [Next]_vars
  PROVE  HwTypeOK'
<1> USE NoJobTyped, BodyFacts
    DEF HwTypeOK, TaskTypeOK, Goto, ctxVars, hwVars, taskVars, memVars, PCs
<1>1. ASSUME NEW t \in Tasks, Claim(t) PROVE HwTypeOK'
  BY <1>1 DEF Claim, Usable
<1>2. ASSUME NEW t \in Tasks, Drain(t) PROVE HwTypeOK'
  BY <1>2 DEF Drain
<1>3. ASSUME NEW t \in Tasks, Clean(t) PROVE HwTypeOK'
  BY <1>3 DEF Clean
<1>4. ASSUME NEW t \in Tasks, Arm(t) PROVE HwTypeOK'
  BY <1>4 DEF Arm
<1>5. ASSUME NEW t \in Tasks, Submit(t) PROVE HwTypeOK'
  BY <1>5 DEF Submit
<1>6. ASSUME NEW t \in Tasks, Reject(t) PROVE HwTypeOK'
  BY <1>6 DEF Reject, ShutDown
<1>7. ASSUME NEW t \in Tasks, WaitTaken(t) PROVE HwTypeOK'
  BY <1>7 DEF WaitTaken
<1>8. ASSUME NEW t \in Tasks, WaitTimeout(t) PROVE HwTypeOK'
  BY <1>8 DEF WaitTimeout
<1>9. ASSUME NEW t \in Tasks, PollEnd(t) PROVE HwTypeOK'
  BY <1>9 DEF PollEnd
<1>10. ASSUME NEW t \in Tasks, Check(t) PROVE HwTypeOK'
  BY <1>10 DEF Check
<1>11. ASSUME NEW t \in Tasks, Fail(t) PROVE HwTypeOK'
  BY <1>11 DEF Fail
<1>12. ASSUME NEW t \in Tasks, Abort(t) PROVE HwTypeOK'
  BY <1>12 DEF Abort, ShutDown
<1>13. ASSUME NEW t \in Tasks, Invalidate(t) PROVE HwTypeOK'
  BY <1>13 DEF Invalidate
<1>14. ASSUME NEW t \in Tasks, FinalInvalidate(t) PROVE HwTypeOK'
  BY <1>14 DEF FinalInvalidate
<1>15. ASSUME NEW t \in Tasks, Edges(t) PROVE HwTypeOK'
  BY <1>15 DEF Edges
<1>16. ASSUME NEW t \in Tasks, Out(t) PROVE HwTypeOK'
  BY <1>16 DEF Out
<1>17. ASSUME NEW t \in Tasks, Recopy(t) PROVE HwTypeOK'
  BY <1>17 DEF Recopy
<1>18. ASSUME NEW t \in Tasks, Call(t) PROVE HwTypeOK'
  BY <1>18 DEF Call
<1>19. ASSUME NEW t \in Tasks, ReuseSource(t) PROVE HwTypeOK'
  BY <1>19 DEF ReuseSource
<1>20. ASSUME NEW t \in Tasks, NeighbourStore(t) PROVE HwTypeOK'
  BY <1>20 DEF NeighbourStore
<1>21. ASSUME NEW t \in Tasks, CacheMoves(t) PROVE HwTypeOK'
  BY <1>21 DEF CacheMoves
<1>22. ASSUME NEW c \in Contexts, DmaWrite(c) PROVE HwTypeOK'
  BY <1>22 DEF DmaWrite
<1>23. ASSUME NEW c \in Contexts, DmaDone(c) PROVE HwTypeOK'
  BY <1>23 DEF DmaDone
<1>24. ASSUME NEW c \in Contexts, EarlyInterrupt(c) PROVE HwTypeOK'
  BY <1>24 DEF EarlyInterrupt
<1>25. ASSUME NEW c \in Contexts, DmaError(c) PROVE HwTypeOK'
  BY <1>25 DEF DmaError
<1>26. ASSUME NEW c \in Contexts, Isr(c) PROVE HwTypeOK'
  BY <1>26 DEF Isr
<1>27. CASE UNCHANGED vars
  BY <1>27 DEF vars
<1> QED
  BY <1>1, <1>2, <1>3, <1>4, <1>5, <1>6, <1>7, <1>8, <1>9, <1>10, <1>11,
     <1>12, <1>13, <1>14, <1>15, <1>16, <1>17, <1>18, <1>19, <1>20, <1>21,
     <1>22, <1>23, <1>24, <1>25, <1>26, <1>27
  DEF Next, CallStep, EnvStep, Hardware

\* Every step keeps the locals of the copy calls typed (context, progress,
\* result).
LEMMA TaskTypeOKStep ==
  ASSUME TaskTypeOK, [Next]_vars
  PROVE  TaskTypeOK'
<1> USE NoJobTyped, BodyFacts
    DEF TaskTypeOK, Goto, ctxVars, hwVars, taskVars, memVars, PCs
<1>1. ASSUME NEW t \in Tasks, Claim(t) PROVE TaskTypeOK'
  BY <1>1 DEF Claim, Usable
<1>2. ASSUME NEW t \in Tasks, Drain(t) PROVE TaskTypeOK'
  BY <1>2 DEF Drain
<1>3. ASSUME NEW t \in Tasks, Clean(t) PROVE TaskTypeOK'
  BY <1>3 DEF Clean
<1>4. ASSUME NEW t \in Tasks, Arm(t) PROVE TaskTypeOK'
  BY <1>4 DEF Arm
<1>5. ASSUME NEW t \in Tasks, Submit(t) PROVE TaskTypeOK'
  BY <1>5 DEF Submit
<1>6. ASSUME NEW t \in Tasks, Reject(t) PROVE TaskTypeOK'
  BY <1>6 DEF Reject, ShutDown
<1>7. ASSUME NEW t \in Tasks, WaitTaken(t) PROVE TaskTypeOK'
  BY <1>7 DEF WaitTaken
<1>8. ASSUME NEW t \in Tasks, WaitTimeout(t) PROVE TaskTypeOK'
  BY <1>8 DEF WaitTimeout
<1>9. ASSUME NEW t \in Tasks, PollEnd(t) PROVE TaskTypeOK'
  BY <1>9 DEF PollEnd
<1>10. ASSUME NEW t \in Tasks, Check(t) PROVE TaskTypeOK'
  BY <1>10 DEF Check
<1>11. ASSUME NEW t \in Tasks, Fail(t) PROVE TaskTypeOK'
  BY <1>11 DEF Fail
<1>12. ASSUME NEW t \in Tasks, Abort(t) PROVE TaskTypeOK'
  BY <1>12 DEF Abort, ShutDown
<1>13. ASSUME NEW t \in Tasks, Invalidate(t) PROVE TaskTypeOK'
  BY <1>13 DEF Invalidate
<1>14. ASSUME NEW t \in Tasks, FinalInvalidate(t) PROVE TaskTypeOK'
  BY <1>14 DEF FinalInvalidate
<1>15. ASSUME NEW t \in Tasks, Edges(t) PROVE TaskTypeOK'
  BY <1>15 DEF Edges
<1>16. ASSUME NEW t \in Tasks, Out(t) PROVE TaskTypeOK'
  BY <1>16 DEF Out
<1>17. ASSUME NEW t \in Tasks, Recopy(t) PROVE TaskTypeOK'
  BY <1>17 DEF Recopy
<1>18. ASSUME NEW t \in Tasks, Call(t) PROVE TaskTypeOK'
  BY <1>18 DEF Call
<1>19. ASSUME NEW t \in Tasks, ReuseSource(t) PROVE TaskTypeOK'
  BY <1>19 DEF ReuseSource
<1>20. ASSUME NEW t \in Tasks, NeighbourStore(t) PROVE TaskTypeOK'
  BY <1>20 DEF NeighbourStore
<1>21. ASSUME NEW t \in Tasks, CacheMoves(t) PROVE TaskTypeOK'
  BY <1>21 DEF CacheMoves
<1>22. ASSUME NEW c \in Contexts, DmaWrite(c) PROVE TaskTypeOK'
  BY <1>22 DEF DmaWrite
<1>23. ASSUME NEW c \in Contexts, DmaDone(c) PROVE TaskTypeOK'
  BY <1>23 DEF DmaDone
<1>24. ASSUME NEW c \in Contexts, EarlyInterrupt(c) PROVE TaskTypeOK'
  BY <1>24 DEF EarlyInterrupt
<1>25. ASSUME NEW c \in Contexts, DmaError(c) PROVE TaskTypeOK'
  BY <1>25 DEF DmaError
<1>26. ASSUME NEW c \in Contexts, Isr(c) PROVE TaskTypeOK'
  BY <1>26 DEF Isr
<1>27. CASE UNCHANGED vars
  BY <1>27 DEF vars
<1> QED
  BY <1>1, <1>2, <1>3, <1>4, <1>5, <1>6, <1>7, <1>8, <1>9, <1>10, <1>11,
     <1>12, <1>13, <1>14, <1>15, <1>16, <1>17, <1>18, <1>19, <1>20, <1>21,
     <1>22, <1>23, <1>24, <1>25, <1>26, <1>27
  DEF Next, CallStep, EnvStep, Hardware

\* The contents the copy deals in are typed.
LEMMA NewOldTyped == \A n \in 0..1 : NewLine(n) \in Content /\ OldLine(n) \in
     Content
  BY DEF NewLine, OldLine, Content

\* Every step, of the core, the cache or the DMA, keeps the memory typed.
LEMMA MemTypeOKStep ==
  ASSUME HwTypeOK, MemTypeOK, TaskTypeOK, [Next]_vars
  PROVE  MemTypeOK'
<1> USE DEF Goto, ctxVars, hwVars, taskVars, memVars
<1>0. \A t \in Tasks : seg[t] \in Body /\ seg[t] \in Lines
  BY BodyFacts DEF TaskTypeOK
<1>1. ASSUME NEW t \in Tasks, Claim(t) PROVE MemTypeOK'
  BY <1>1 DEF Claim, MemTypeOK, Usable
<1>2. ASSUME NEW t \in Tasks, Drain(t) PROVE MemTypeOK'
  BY <1>2 DEF Drain, MemTypeOK
<1>3. ASSUME NEW t \in Tasks, Clean(t) PROVE MemTypeOK'
  BY <1>0, <1>3, BodyFacts, DstUpdate, LineUpdate, LineRead, LineClosed,
     NewOldTyped, HardwareAssumption DEF Clean, MemTypeOK
<1>4. ASSUME NEW t \in Tasks, Arm(t) PROVE MemTypeOK'
  BY <1>4 DEF Arm, MemTypeOK
<1>5. ASSUME NEW t \in Tasks, Submit(t) PROVE MemTypeOK'
  BY <1>5 DEF Submit, MemTypeOK
<1>6. ASSUME NEW t \in Tasks, Reject(t) PROVE MemTypeOK'
  BY <1>6 DEF Reject, MemTypeOK, ShutDown
<1>7. ASSUME NEW t \in Tasks, WaitTaken(t) PROVE MemTypeOK'
  BY <1>7 DEF WaitTaken, MemTypeOK
<1>8. ASSUME NEW t \in Tasks, WaitTimeout(t) PROVE MemTypeOK'
  BY <1>8 DEF WaitTimeout, MemTypeOK
<1>9. ASSUME NEW t \in Tasks, PollEnd(t) PROVE MemTypeOK'
  BY <1>9 DEF PollEnd, MemTypeOK
<1>10. ASSUME NEW t \in Tasks, Check(t) PROVE MemTypeOK'
  BY <1>10 DEF Check, MemTypeOK
<1>11. ASSUME NEW t \in Tasks, Fail(t) PROVE MemTypeOK'
  BY <1>11 DEF Fail, MemTypeOK
<1>12. ASSUME NEW t \in Tasks, Abort(t) PROVE MemTypeOK'
  BY <1>12 DEF Abort, MemTypeOK, ShutDown
<1>13. ASSUME NEW t \in Tasks, Invalidate(t) PROVE MemTypeOK'
  BY <1>0, <1>13, BodyFacts, DstUpdate, LineUpdate, LineRead, LineClosed,
     NewOldTyped, HardwareAssumption DEF Invalidate, MemTypeOK, Invalidated
<1>14. ASSUME NEW t \in Tasks, FinalInvalidate(t) PROVE MemTypeOK'
  BY <1>0, <1>14, BodyFacts, DstUpdate, LineUpdate, LineRead, LineClosed,
     NewOldTyped, HardwareAssumption DEF FinalInvalidate, MemTypeOK,
     Invalidated
<1>15. ASSUME NEW t \in Tasks, Edges(t) PROVE MemTypeOK'
  BY <1>0, <1>15, BodyFacts, DstUpdate, LineUpdate, LineRead, LineClosed,
     NewOldTyped, HardwareAssumption DEF Edges, MemTypeOK, StoredTail
<1>16. ASSUME NEW t \in Tasks, Out(t) PROVE MemTypeOK'
  BY <1>16 DEF Out, MemTypeOK
<1>17. ASSUME NEW t \in Tasks, Recopy(t) PROVE MemTypeOK'
  BY <1>0, <1>17, BodyFacts, DstUpdate, LineUpdate, LineRead, LineClosed,
     NewOldTyped, HardwareAssumption DEF Recopy, MemTypeOK
<1>18. ASSUME NEW t \in Tasks, Call(t) PROVE MemTypeOK'
  BY <1>0, <1>18, BodyFacts, DstUpdate, LineUpdate, LineRead, LineClosed,
     NewOldTyped, HardwareAssumption DEF Call, MemTypeOK, FreshLines,
     FreshSources, Content, OldLine, Line
<1>19. ASSUME NEW t \in Tasks, ReuseSource(t) PROVE MemTypeOK'
  BY <1>0, <1>19, BodyFacts, DstUpdate, LineUpdate, LineRead, LineClosed,
     NewOldTyped, HardwareAssumption DEF ReuseSource, MemTypeOK
<1>20. ASSUME NEW t \in Tasks, NeighbourStore(t) PROVE MemTypeOK'
  <2>1. Tail \in Lines /\ dst[t][Tail] \in Line /\ nbLast[t] \in 0..1
    BY BodyFacts, LineRead DEF MemTypeOK
  <2> DEFINE c == [dst[t][Tail].val EXCEPT !.nb = 1 - nbLast[t]]
             v == StoreLine(dst[t][Tail], c, TRUE)
  <2>2. c \in Content
    BY <2>1 DEF Content, Line
  <2>3. v \in Line
    BY <2>1, <2>2, LineClosed
  <2>4. dst' = [dst EXCEPT ![t][Tail] = v]
    BY <1>20 DEF NeighbourStore
  <2>5. dst' \in [Tasks -> [Lines -> Line]]
    BY <2>1, <2>3, <2>4, LineUpdate
  <2>6. nbLast' \in [Tasks -> 0..1] /\ src' = src
    BY <2>1, <1>20 DEF NeighbourStore, MemTypeOK
  <2> QED
    BY <2>5, <2>6 DEF MemTypeOK
<1>21. ASSUME NEW t \in Tasks, CacheMoves(t) PROVE MemTypeOK'
  <2>1. \A l \in Lines : EvictLine(dst[t][l]) \in Line /\ FillLine(dst[t][l])
       \in Line
    <3> TAKE l \in Lines
    <3>1. dst[t][l] \in Line /\ dst[t][l].val \in Content
      BY LineRead
    <3> QED
      BY <3>1, LineClosed
  <2>2. CASE \E l \in Lines : dst' = [dst EXCEPT ![t][l] = EvictLine(@)] /\
       UNCHANGED src
    BY <2>1, <2>2, <1>21, LineUpdate DEF CacheMoves, MemTypeOK
  <2>3. CASE \E l \in Lines : dst' = [dst EXCEPT ![t][l] = FillLine(@)] /\
       UNCHANGED src
    BY <2>1, <2>3, <1>21, LineUpdate DEF CacheMoves, MemTypeOK
  <2>4. CASE \E s \in Body : src' = [src EXCEPT ![t][s] = "clean"] /\
       UNCHANGED dst
    BY <2>4, <1>21 DEF CacheMoves, MemTypeOK
  <2> QED
    BY <2>2, <2>3, <2>4, <1>21 DEF CacheMoves
<1>22. ASSUME NEW c \in Contexts, DmaWrite(c) PROVE MemTypeOK'
  <2> DEFINE t == job[c].task
             s == job[c].seg
             data == IF src[t][s] = "clean" THEN NewLine(0) ELSE OldLine(0)
             v == DmaStoreLine(dst[t][s], data)
  <2>1. dst' = [dst EXCEPT ![t][s] = v] /\ src' = src /\ nbLast' = nbLast
    BY <1>22 DEF DmaWrite
  <2>2. s \in Lines /\ data \in Content
    BY BodyFacts, NewOldTyped DEF HwTypeOK
  <2>3. CASE t \in Tasks
    <3>1. dst[t][s] \in Line
      BY <2>2, <2>3, LineRead
    <3>2. v \in Line
      BY <2>2, <3>1, LineClosed
    <3>3. dst' \in [Tasks -> [Lines -> Line]]
      BY <2>1, <2>2, <2>3, <3>2, LineUpdate
    <3> QED
      BY <2>1, <3>3 DEF MemTypeOK
  <2>4. CASE t \notin Tasks
    BY <2>1, <2>4 DEF MemTypeOK
  <2> QED
    BY <2>3, <2>4
<1>23. ASSUME NEW c \in Contexts, DmaDone(c) PROVE MemTypeOK'
  BY <1>23 DEF DmaDone, MemTypeOK
<1>24. ASSUME NEW c \in Contexts, EarlyInterrupt(c) PROVE MemTypeOK'
  BY <1>24 DEF EarlyInterrupt, MemTypeOK
<1>25. ASSUME NEW c \in Contexts, DmaError(c) PROVE MemTypeOK'
  BY <1>25 DEF DmaError, MemTypeOK
<1>26. ASSUME NEW c \in Contexts, Isr(c) PROVE MemTypeOK'
  BY <1>26 DEF Isr, MemTypeOK
<1>27. CASE UNCHANGED vars
  BY <1>27 DEF vars, MemTypeOK
<1> QED
  BY <1>1, <1>2, <1>3, <1>4, <1>5, <1>6, <1>7, <1>8, <1>9, <1>10, <1>11,
     <1>12, <1>13, <1>14, <1>15, <1>16, <1>17, <1>18, <1>19, <1>20, <1>21,
     <1>22, <1>23, <1>24, <1>25, <1>26, <1>27 DEF Next, CallStep, EnvStep,
     Hardware

\* The initial state of the service is typed (carbox_large_memcpy_gdma_init).
LEMMA TypeInit == Init => TypeOK
<1> SUFFICES ASSUME Init PROVE TypeOK
  OBVIOUS
<1>1. CtxTypeOK /\ TaskTypeOK
  BY BodyFacts DEF Init, CtxTypeOK, TaskTypeOK, PCs
<1>2. HwTypeOK
  BY NoJobTyped DEF Init, HwTypeOK
<1>3. MemTypeOK
  BY NewOldTyped, LineClosed DEF Init, MemTypeOK, Uncached, Line
<1>4. overshoot \in BOOLEAN
  BY HardwareAssumption DEF Init
<1> QED
  BY <1>1, <1>2, <1>3, <1>4 DEF TypeOK

\* Every step keeps the whole state typed.
LEMMA TypeStep == TypeOK /\ [Next]_vars => TypeOK'
<1> SUFFICES ASSUME TypeOK, [Next]_vars PROVE TypeOK'
  OBVIOUS
<1>1. (overshoot \in BOOLEAN)'
  BY DEF TypeOK, Next, vars
<1> QED
  BY <1>1, CtxTypeOKStep, HwTypeOKStep, TaskTypeOKStep, MemTypeOKStep DEF TypeOK

\* The state of the copy service always has its type.
THEOREM TypeCorrect == Spec => []TypeOK
  BY TypeInit, TypeStep, PTL DEF Spec

-----------------------------------------------------------------------------
(* Ownership of the contexts. *)

\* A context is claimed only when free and freed only by its holder.
LEMMA OneOwnerStep ==
  ASSUME OwnershipInv, [Next]_vars
  PROVE  OneOwner'
<1> USE DEF OwnershipInv, TypeOK, CtxTypeOK, HwTypeOK, TaskTypeOK, OneOwner,
     HolderUsable, JobHasTask, DmaOnlyInsideCall,
  Goto, ctxVars, hwVars, taskVars, memVars, PCs, HoldingPCs, RunningPCs,
       Running, Owner
<1>1. ASSUME NEW t \in Tasks, Claim(t) PROVE OneOwner'
  <2>1. CASE Usable = {} /\ Goto(t, "recopy") /\ UNCHANGED <<busy, ctx>>
    <3>1. /\ busy' = busy /\ ctx' = ctx
          /\ \A u \in Tasks : (pc'[u] \in HoldingPCs) <=> (pc[u] \in HoldingPCs)
      BY <2>1, <1>1 DEF Claim
    <3>2. \A u \in Tasks, d \in Contexts : Owner(u, d)' <=> Owner(u, d)
      BY <3>1
    <3> QED
      BY <3>1, <3>2
  <2>2. ASSUME NEW c \in Usable,
               busy' = [busy EXCEPT ![c] = TRUE],
               ctx' = [ctx EXCEPT ![t] = c],
               Goto(t, "drain")
        PROVE  OneOwner'
    <3>1. c \in Contexts /\ ~busy[c] /\ \A u \in Tasks : ~Owner(u, c)
      BY <2>2 DEF Usable
    <3>2. \A d \in Contexts : ~Owner(t, d)
      BY <1>1 DEF Claim
    <3>3. \A u \in Tasks, d \in Contexts :
            Owner(u, d)' <=> (Owner(u, d) \/ (u = t /\ d = c))
      BY <2>2, <3>1, <3>2
    <3>4. \A d \in Contexts : busy'[d] <=> (busy[d] \/ d = c)
      BY <2>2, <3>1
    <3> HIDE DEF Owner
    <3> QED
      BY <3>1, <3>2, <3>3, <3>4
  <2> QED
    BY <2>1, <2>2, <1>1 DEF Claim
<1>2. ASSUME NEW t \in Tasks, Drain(t) PROVE OneOwner'
  BY <1>2 DEF Drain
<1>3. ASSUME NEW t \in Tasks, Clean(t) PROVE OneOwner'
  BY <1>3 DEF Clean
<1>4. ASSUME NEW t \in Tasks, Arm(t) PROVE OneOwner'
  BY <1>4 DEF Arm
<1>5. ASSUME NEW t \in Tasks, Submit(t) PROVE OneOwner'
  BY <1>5 DEF Submit
<1>6. ASSUME NEW t \in Tasks, Reject(t) PROVE OneOwner'
  BY <1>6 DEF Reject, ShutDown
<1>7. ASSUME NEW t \in Tasks, WaitTaken(t) PROVE OneOwner'
  BY <1>7 DEF WaitTaken
<1>8. ASSUME NEW t \in Tasks, WaitTimeout(t) PROVE OneOwner'
  BY <1>8 DEF WaitTimeout
<1>9. ASSUME NEW t \in Tasks, PollEnd(t) PROVE OneOwner'
  BY <1>9 DEF PollEnd
<1>10. ASSUME NEW t \in Tasks, Check(t) PROVE OneOwner'
  BY <1>10 DEF Check
<1>11. ASSUME NEW t \in Tasks, Fail(t) PROVE OneOwner'
  BY <1>11 DEF Fail
<1>12. ASSUME NEW t \in Tasks, Abort(t) PROVE OneOwner'
  BY <1>12 DEF Abort, ShutDown
<1>13. ASSUME NEW t \in Tasks, Invalidate(t) PROVE OneOwner'
  <2>1. /\ busy' = busy /\ ctx' = ctx
        /\ \A u \in Tasks : (pc'[u] \in HoldingPCs) <=> (pc[u] \in HoldingPCs)
    BY <1>13 DEF Invalidate
  <2>2. \A u \in Tasks, d \in Contexts : Owner(u, d)' <=> Owner(u, d)
    BY <2>1
  <2> QED
    BY <2>1, <2>2
<1>14. ASSUME NEW t \in Tasks, FinalInvalidate(t) PROVE OneOwner'
  BY <1>14 DEF FinalInvalidate
<1>15. ASSUME NEW t \in Tasks, Edges(t) PROVE OneOwner'
  BY <1>15 DEF Edges
<1>16. ASSUME NEW t \in Tasks, Out(t) PROVE OneOwner'
  BY <1>16 DEF Out
<1>17. ASSUME NEW t \in Tasks, Recopy(t) PROVE OneOwner'
  <2>1. /\ busy' = busy /\ ctx' = ctx
        /\ \A u \in Tasks : (pc'[u] \in HoldingPCs) <=> (pc[u] \in HoldingPCs)
    BY <1>17 DEF Recopy
  <2>2. \A u \in Tasks, d \in Contexts : Owner(u, d)' <=> Owner(u, d)
    BY <2>1
  <2> QED
    BY <2>1, <2>2
<1>18. ASSUME NEW t \in Tasks, Call(t) PROVE OneOwner'
  <2>1. /\ busy' = busy /\ ctx' = ctx
        /\ \A u \in Tasks : (pc'[u] \in HoldingPCs) <=> (pc[u] \in HoldingPCs)
    BY <1>18 DEF Call
  <2>2. \A u \in Tasks, d \in Contexts : Owner(u, d)' <=> Owner(u, d)
    BY <2>1
  <2> QED
    BY <2>1, <2>2
<1>19. ASSUME NEW t \in Tasks, ReuseSource(t) PROVE OneOwner'
  BY <1>19 DEF ReuseSource
<1>20. ASSUME NEW t \in Tasks, NeighbourStore(t) PROVE OneOwner'
  BY <1>20 DEF NeighbourStore
<1>21. ASSUME NEW t \in Tasks, CacheMoves(t) PROVE OneOwner'
  BY <1>21 DEF CacheMoves
<1>22. ASSUME NEW c \in Contexts, DmaWrite(c) PROVE OneOwner'
  BY <1>22 DEF DmaWrite
<1>23. ASSUME NEW c \in Contexts, DmaDone(c) PROVE OneOwner'
  BY <1>23 DEF DmaDone
<1>24. ASSUME NEW c \in Contexts, EarlyInterrupt(c) PROVE OneOwner'
  BY <1>24 DEF EarlyInterrupt
<1>25. ASSUME NEW c \in Contexts, DmaError(c) PROVE OneOwner'
  BY <1>25 DEF DmaError
<1>26. ASSUME NEW c \in Contexts, Isr(c) PROVE OneOwner'
  BY <1>26 DEF Isr
<1>27. CASE UNCHANGED vars
  BY <1>27 DEF vars
<1> QED
  BY <1>1, <1>2, <1>3, <1>4, <1>5, <1>6, <1>7, <1>8, <1>9, <1>10, <1>11,
     <1>12, <1>13, <1>14, <1>15, <1>16, <1>17, <1>18, <1>19, <1>20, <1>21,
     <1>22, <1>23, <1>24, <1>25, <1>26, <1>27 DEF Next, CallStep, EnvStep,
     Hardware

\* Only the holder shuts its context down, and then goes straight to out.
LEMMA HolderUsableStep ==
  ASSUME OwnershipInv, [Next]_vars
  PROVE  HolderUsable'
<1> USE DEF OwnershipInv, TypeOK, CtxTypeOK, HwTypeOK, TaskTypeOK, OneOwner,
     HolderUsable, JobHasTask, DmaOnlyInsideCall,
  Goto, ctxVars, hwVars, taskVars, memVars, PCs, HoldingPCs, RunningPCs,
       Running, Owner
<1>1. ASSUME NEW t \in Tasks, Claim(t) PROVE HolderUsable'
  BY <1>1 DEF Claim, Usable
<1>2. ASSUME NEW t \in Tasks, Drain(t) PROVE HolderUsable'
  BY <1>2 DEF Drain
<1>3. ASSUME NEW t \in Tasks, Clean(t) PROVE HolderUsable'
  BY <1>3 DEF Clean
<1>4. ASSUME NEW t \in Tasks, Arm(t) PROVE HolderUsable'
  BY <1>4 DEF Arm
<1>5. ASSUME NEW t \in Tasks, Submit(t) PROVE HolderUsable'
  BY <1>5 DEF Submit
<1>6. ASSUME NEW t \in Tasks, Reject(t) PROVE HolderUsable'
  BY <1>6 DEF Reject, ShutDown
<1>7. ASSUME NEW t \in Tasks, WaitTaken(t) PROVE HolderUsable'
  BY <1>7 DEF WaitTaken
<1>8. ASSUME NEW t \in Tasks, WaitTimeout(t) PROVE HolderUsable'
  BY <1>8 DEF WaitTimeout
<1>9. ASSUME NEW t \in Tasks, PollEnd(t) PROVE HolderUsable'
  BY <1>9 DEF PollEnd
<1>10. ASSUME NEW t \in Tasks, Check(t) PROVE HolderUsable'
  BY <1>10 DEF Check
<1>11. ASSUME NEW t \in Tasks, Fail(t) PROVE HolderUsable'
  BY <1>11 DEF Fail
<1>12. ASSUME NEW t \in Tasks, Abort(t) PROVE HolderUsable'
  BY <1>12 DEF Abort, ShutDown
<1>13. ASSUME NEW t \in Tasks, Invalidate(t) PROVE HolderUsable'
  BY <1>13 DEF Invalidate
<1>14. ASSUME NEW t \in Tasks, FinalInvalidate(t) PROVE HolderUsable'
  BY <1>14 DEF FinalInvalidate
<1>15. ASSUME NEW t \in Tasks, Edges(t) PROVE HolderUsable'
  BY <1>15 DEF Edges
<1>16. ASSUME NEW t \in Tasks, Out(t) PROVE HolderUsable'
  BY <1>16 DEF Out
<1>17. ASSUME NEW t \in Tasks, Recopy(t) PROVE HolderUsable'
  BY <1>17 DEF Recopy
<1>18. ASSUME NEW t \in Tasks, Call(t) PROVE HolderUsable'
  BY <1>18 DEF Call
<1>19. ASSUME NEW t \in Tasks, ReuseSource(t) PROVE HolderUsable'
  BY <1>19 DEF ReuseSource
<1>20. ASSUME NEW t \in Tasks, NeighbourStore(t) PROVE HolderUsable'
  BY <1>20 DEF NeighbourStore
<1>21. ASSUME NEW t \in Tasks, CacheMoves(t) PROVE HolderUsable'
  BY <1>21 DEF CacheMoves
<1>22. ASSUME NEW c \in Contexts, DmaWrite(c) PROVE HolderUsable'
  BY <1>22 DEF DmaWrite
<1>23. ASSUME NEW c \in Contexts, DmaDone(c) PROVE HolderUsable'
  BY <1>23 DEF DmaDone
<1>24. ASSUME NEW c \in Contexts, EarlyInterrupt(c) PROVE HolderUsable'
  BY <1>24 DEF EarlyInterrupt
<1>25. ASSUME NEW c \in Contexts, DmaError(c) PROVE HolderUsable'
  BY <1>25 DEF DmaError
<1>26. ASSUME NEW c \in Contexts, Isr(c) PROVE HolderUsable'
  BY <1>26 DEF Isr
<1>27. CASE UNCHANGED vars
  BY <1>27 DEF vars
<1> QED
  BY <1>1, <1>2, <1>3, <1>4, <1>5, <1>6, <1>7, <1>8, <1>9, <1>10, <1>11,
     <1>12, <1>13, <1>14, <1>15, <1>16, <1>17, <1>18, <1>19, <1>20, <1>21,
     <1>22, <1>23, <1>24, <1>25, <1>26, <1>27 DEF Next, CallStep, EnvStep,
     Hardware

\* Only Submit enables a channel, on behalf of the submitting task.
LEMMA JobHasTaskStep ==
  ASSUME OwnershipInv, [Next]_vars
  PROVE  JobHasTask'
<1> USE DEF OwnershipInv, TypeOK, CtxTypeOK, HwTypeOK, TaskTypeOK, OneOwner,
     HolderUsable, JobHasTask, DmaOnlyInsideCall,
  Goto, ctxVars, hwVars, taskVars, memVars, PCs, HoldingPCs, RunningPCs,
       Running, Owner
<1>1. ASSUME NEW t \in Tasks, Claim(t) PROVE JobHasTask'
  BY <1>1 DEF Claim, Usable
<1>2. ASSUME NEW t \in Tasks, Drain(t) PROVE JobHasTask'
  BY <1>2 DEF Drain
<1>3. ASSUME NEW t \in Tasks, Clean(t) PROVE JobHasTask'
  BY <1>3 DEF Clean
<1>4. ASSUME NEW t \in Tasks, Arm(t) PROVE JobHasTask'
  BY <1>4 DEF Arm
<1>5. ASSUME NEW t \in Tasks, Submit(t) PROVE JobHasTask'
  BY <1>5 DEF Submit
<1>6. ASSUME NEW t \in Tasks, Reject(t) PROVE JobHasTask'
  BY <1>6 DEF Reject, ShutDown
<1>7. ASSUME NEW t \in Tasks, WaitTaken(t) PROVE JobHasTask'
  BY <1>7 DEF WaitTaken
<1>8. ASSUME NEW t \in Tasks, WaitTimeout(t) PROVE JobHasTask'
  BY <1>8 DEF WaitTimeout
<1>9. ASSUME NEW t \in Tasks, PollEnd(t) PROVE JobHasTask'
  BY <1>9 DEF PollEnd
<1>10. ASSUME NEW t \in Tasks, Check(t) PROVE JobHasTask'
  BY <1>10 DEF Check
<1>11. ASSUME NEW t \in Tasks, Fail(t) PROVE JobHasTask'
  BY <1>11 DEF Fail
<1>12. ASSUME NEW t \in Tasks, Abort(t) PROVE JobHasTask'
  BY <1>12 DEF Abort, ShutDown
<1>13. ASSUME NEW t \in Tasks, Invalidate(t) PROVE JobHasTask'
  BY <1>13 DEF Invalidate
<1>14. ASSUME NEW t \in Tasks, FinalInvalidate(t) PROVE JobHasTask'
  BY <1>14 DEF FinalInvalidate
<1>15. ASSUME NEW t \in Tasks, Edges(t) PROVE JobHasTask'
  BY <1>15 DEF Edges
<1>16. ASSUME NEW t \in Tasks, Out(t) PROVE JobHasTask'
  BY <1>16 DEF Out
<1>17. ASSUME NEW t \in Tasks, Recopy(t) PROVE JobHasTask'
  BY <1>17 DEF Recopy
<1>18. ASSUME NEW t \in Tasks, Call(t) PROVE JobHasTask'
  BY <1>18 DEF Call
<1>19. ASSUME NEW t \in Tasks, ReuseSource(t) PROVE JobHasTask'
  BY <1>19 DEF ReuseSource
<1>20. ASSUME NEW t \in Tasks, NeighbourStore(t) PROVE JobHasTask'
  BY <1>20 DEF NeighbourStore
<1>21. ASSUME NEW t \in Tasks, CacheMoves(t) PROVE JobHasTask'
  BY <1>21 DEF CacheMoves
<1>22. ASSUME NEW c \in Contexts, DmaWrite(c) PROVE JobHasTask'
  BY <1>22 DEF DmaWrite
<1>23. ASSUME NEW c \in Contexts, DmaDone(c) PROVE JobHasTask'
  BY <1>23 DEF DmaDone
<1>24. ASSUME NEW c \in Contexts, EarlyInterrupt(c) PROVE JobHasTask'
  BY <1>24 DEF EarlyInterrupt
<1>25. ASSUME NEW c \in Contexts, DmaError(c) PROVE JobHasTask'
  BY <1>25 DEF DmaError
<1>26. ASSUME NEW c \in Contexts, Isr(c) PROVE JobHasTask'
  BY <1>26 DEF Isr
<1>27. CASE UNCHANGED vars
  <2>1. job' = job /\ chan' = chan
    BY <1>27, Zenon DEF vars
  <2> QED
    BY <2>1
<1> QED
  BY <1>1, <1>2, <1>3, <1>4, <1>5, <1>6, <1>7, <1>8, <1>9, <1>10, <1>11,
     <1>12, <1>13, <1>14, <1>15, <1>16, <1>17, <1>18, <1>19, <1>20, <1>21,
     <1>22, <1>23, <1>24, <1>25, <1>26, <1>27 DEF Next, CallStep, EnvStep,
     Hardware

\* A call leaves the waiting steps only with its channel idle or shut down.
LEMMA DmaOnlyInsideCallStep ==
  ASSUME OwnershipInv, [Next]_vars
  PROVE  DmaOnlyInsideCall'
<1> USE DEF OwnershipInv, TypeOK, CtxTypeOK, HwTypeOK, TaskTypeOK, OneOwner,
     HolderUsable, JobHasTask, DmaOnlyInsideCall,
  Goto, ctxVars, hwVars, taskVars, memVars, PCs, HoldingPCs, RunningPCs,
       Running, Owner
<1>1. ASSUME NEW t \in Tasks, Claim(t) PROVE DmaOnlyInsideCall'
  <2>1. /\ chan' = chan /\ job' = job /\ available' = available /\ seg' = seg
        /\ \A u \in Tasks : u # t => pc'[u] = pc[u] /\ ctx'[u] = ctx[u]
    BY <1>1 DEF Claim, Usable
  <2>2. pc[t] = "claim"
    BY <1>1 DEF Claim
  <2>3. \A d \in Contexts : Running(d) => job[d].task # t
    BY <2>2
  <2> QED
    BY <2>1, <2>3
<1>2. ASSUME NEW t \in Tasks, Drain(t) PROVE DmaOnlyInsideCall'
  BY <1>2 DEF Drain
<1>3. ASSUME NEW t \in Tasks, Clean(t) PROVE DmaOnlyInsideCall'
  BY <1>3 DEF Clean
<1>4. ASSUME NEW t \in Tasks, Arm(t) PROVE DmaOnlyInsideCall'
  BY <1>4 DEF Arm
<1>5. ASSUME NEW t \in Tasks, Submit(t) PROVE DmaOnlyInsideCall'
  BY <1>5 DEF Submit
<1>6. ASSUME NEW t \in Tasks, Reject(t) PROVE DmaOnlyInsideCall'
  BY <1>6 DEF Reject, ShutDown
<1>7. ASSUME NEW t \in Tasks, WaitTaken(t) PROVE DmaOnlyInsideCall'
  BY <1>7 DEF WaitTaken
<1>8. ASSUME NEW t \in Tasks, WaitTimeout(t) PROVE DmaOnlyInsideCall'
  BY <1>8 DEF WaitTimeout
<1>9. ASSUME NEW t \in Tasks, PollEnd(t) PROVE DmaOnlyInsideCall'
  BY <1>9 DEF PollEnd
<1>10. ASSUME NEW t \in Tasks, Check(t) PROVE DmaOnlyInsideCall'
  BY <1>10 DEF Check
<1>11. ASSUME NEW t \in Tasks, Fail(t) PROVE DmaOnlyInsideCall'
  BY <1>11 DEF Fail
<1>12. ASSUME NEW t \in Tasks, Abort(t) PROVE DmaOnlyInsideCall'
  BY <1>12 DEF Abort, ShutDown
<1>13. ASSUME NEW t \in Tasks, Invalidate(t) PROVE DmaOnlyInsideCall'
  <2>1. /\ chan' = chan /\ job' = job /\ available' = available /\ ctx' = ctx
        /\ \A u \in Tasks : u # t => pc'[u] = pc[u] /\ seg'[u] = seg[u]
    BY <1>13 DEF Invalidate
  <2>2. pc[t] = "invalidate"
    BY <1>13 DEF Invalidate
  <2>3. \A d \in Contexts : Running(d) => job[d].task # t
    BY <2>2
  <2>4. SUFFICES ASSUME NEW d \in Contexts, Running(d)'
        PROVE  (/\ available[d]
                /\ Owner(job[d].task, d)
                /\ pc[job[d].task] \in RunningPCs
                /\ seg[job[d].task] = job[d].seg)'
    OBVIOUS
  <2>5. Running(d) /\ job'[d] = job[d] /\ job[d].task \in Tasks \ {t}
    BY <2>1, <2>3, <2>4
  <2> QED
    BY <2>1, <2>5
<1>14. ASSUME NEW t \in Tasks, FinalInvalidate(t) PROVE DmaOnlyInsideCall'
  BY <1>14 DEF FinalInvalidate
<1>15. ASSUME NEW t \in Tasks, Edges(t) PROVE DmaOnlyInsideCall'
  BY <1>15 DEF Edges
<1>16. ASSUME NEW t \in Tasks, Out(t) PROVE DmaOnlyInsideCall'
  <2>1. /\ chan' = chan /\ job' = job /\ available' = available
        /\ ctx' = ctx /\ seg' = seg
        /\ \A u \in Tasks : u # t => pc'[u] = pc[u]
    BY <1>16 DEF Out
  <2>2. pc[t] = "out"
    BY <1>16 DEF Out
  <2>3. \A d \in Contexts : Running(d) => job[d].task # t
    BY <2>2
  <2> QED
    BY <2>1, <2>3
<1>17. ASSUME NEW t \in Tasks, Recopy(t) PROVE DmaOnlyInsideCall'
  <2>1. /\ chan' = chan /\ job' = job /\ available' = available
        /\ ctx' = ctx /\ seg' = seg
        /\ \A u \in Tasks : u # t => pc'[u] = pc[u]
    BY <1>17 DEF Recopy
  <2>2. pc[t] = "recopy"
    BY <1>17 DEF Recopy
  <2>3. \A d \in Contexts : Running(d) => job[d].task # t
    BY <2>2
  <2> QED
    BY <2>1, <2>3
<1>18. ASSUME NEW t \in Tasks, Call(t) PROVE DmaOnlyInsideCall'
  BY <1>18 DEF Call
<1>19. ASSUME NEW t \in Tasks, ReuseSource(t) PROVE DmaOnlyInsideCall'
  BY <1>19 DEF ReuseSource
<1>20. ASSUME NEW t \in Tasks, NeighbourStore(t) PROVE DmaOnlyInsideCall'
  BY <1>20 DEF NeighbourStore
<1>21. ASSUME NEW t \in Tasks, CacheMoves(t) PROVE DmaOnlyInsideCall'
  BY <1>21 DEF CacheMoves
<1>22. ASSUME NEW c \in Contexts, DmaWrite(c) PROVE DmaOnlyInsideCall'
  BY <1>22 DEF DmaWrite
<1>23. ASSUME NEW c \in Contexts, DmaDone(c) PROVE DmaOnlyInsideCall'
  BY <1>23 DEF DmaDone
<1>24. ASSUME NEW c \in Contexts, EarlyInterrupt(c) PROVE DmaOnlyInsideCall'
  BY <1>24 DEF EarlyInterrupt
<1>25. ASSUME NEW c \in Contexts, DmaError(c) PROVE DmaOnlyInsideCall'
  BY <1>25 DEF DmaError
<1>26. ASSUME NEW c \in Contexts, Isr(c) PROVE DmaOnlyInsideCall'
  BY <1>26 DEF Isr
<1>27. CASE UNCHANGED vars
  BY <1>27 DEF vars
<1> QED
  BY <1>1, <1>2, <1>3, <1>4, <1>5, <1>6, <1>7, <1>8, <1>9, <1>10, <1>11,
     <1>12, <1>13, <1>14, <1>15, <1>16, <1>17, <1>18, <1>19, <1>20, <1>21,
     <1>22, <1>23, <1>24, <1>25, <1>26, <1>27 DEF Next, CallStep, EnvStep,
     Hardware

\* No context is claimed and no channel runs at boot.
LEMMA OwnershipInit == Init => OwnershipInv
<1> SUFFICES ASSUME Init PROVE OwnershipInv
  OBVIOUS
<1>1. OneOwner /\ HolderUsable
  BY DEF Init, OneOwner, HolderUsable, Owner, HoldingPCs
<1>2. JobHasTask /\ DmaOnlyInsideCall
  BY DEF Init, JobHasTask, DmaOnlyInsideCall, Running
<1> QED
  BY <1>1, <1>2, TypeInit DEF OwnershipInv

\* The ownership facts are inductive together.
LEMMA OwnershipStep == OwnershipInv /\ [Next]_vars => OwnershipInv'
  BY TypeStep, OneOwnerStep, HolderUsableStep, JobHasTaskStep,
     DmaOnlyInsideCallStep DEF OwnershipInv

\* The inductive invariant holds throughout.
THEOREM OwnershipInvariant == Spec => []OwnershipInv
  BY OwnershipInit, OwnershipStep, PTL DEF Spec

\* A claimed context always has exactly one owner, for any number of tasks and
\* contexts (the busy flag claimed in the critical section of the copy calls).
THEOREM ContextsOwned == Spec => []OneOwner
<1>1. OwnershipInv => OneOwner
  BY DEF OwnershipInv
<1> QED
  BY <1>1, OwnershipInvariant, PTL

\* No DMA write can reach a destination outside the call that asked for it, so
\* none can follow the M33 recopy of a failed call (large_memcpy_gdma_wait).
THEOREM DmaConfined == Spec => []DmaOnlyInsideCall
<1>1. OwnershipInv => DmaOnlyInsideCall
  BY DEF OwnershipInv
<1> QED
  BY <1>1, OwnershipInvariant, PTL

-----------------------------------------------------------------------------
(* What the operations do to one line of a destination. *)

\* A line handed in by Call is old, coherent and reads as RAM does.
LEMMA FreshFacts ==
  ASSUME NEW l \in FreshLines
  PROVE  /\ l \in Line /\ Coherent(l) /\ Synced(l)
         /\ l.ram.copy = "old" /\ l.val.copy = "old" /\ l.val.nb = 0
  BY HardwareAssumption
  DEF FreshLines, Line, Content, OldLine, Coherent, Synced

\* Cleaning never changes what is read and leaves no dirty line behind.
LEMMA CleanFacts ==
  ASSUME NEW l \in Line, Coherent(l), NEW m,
         m = IF DCache THEN CleanLine(l) ELSE l
  PROVE  /\ m \in Line /\ Coherent(m) /\ m.st # "dirty" /\ m.val = l.val
         /\ Synced(l) => Synced(m)
<1>1. CASE DCache /\ l.st = "dirty"
  BY <1>1 DEF CleanLine, Line, Coherent, Synced
<1>2. CASE ~(DCache /\ l.st = "dirty")
  <2>1. m = l
    BY <1>2 DEF CleanLine
  <2> QED
    BY <1>2, <2>1 DEF Coherent
<1> QED
  BY <1>1, <1>2

\* An invalidated range reads what the DMA left in RAM; other lines stay.
LEMMA InvalidateFacts ==
  ASSUME NEW l \in Line, Coherent(l), NEW hit \in BOOLEAN, NEW m,
         m = IF DCache /\ hit THEN InvalidateLine(l) ELSE l
  PROVE  /\ m \in Line /\ Coherent(m) /\ m.ram = l.ram
         /\ l.st # "dirty" => m.st # "dirty"
         /\ Delivered(l) => Delivered(m)
         /\ hit /\ l.ram.copy = "new" => Delivered(m)
         /\ ~hit => m = l
<1>1. CASE DCache /\ hit
  BY <1>1 DEF InvalidateLine, Uncached, Line, Coherent, Delivered
<1>2. CASE ~(DCache /\ hit)
  BY <1>2 DEF Coherent, Delivered
<1> QED
  BY <1>1, <1>2

\* A store is what is read next, before and after any eviction.
LEMMA StoreFacts ==
  ASSUME NEW l \in Line, Coherent(l), NEW c \in Content
  PROVE  /\ StoreLine(l, c, DCache) \in Line
         /\ Coherent(StoreLine(l, c, DCache))
         /\ Synced(StoreLine(l, c, DCache))
         /\ StoreLine(l, c, DCache).val = c
<1>1. CASE DCache
  BY <1>1 DEF StoreLine, Line, Coherent, Synced
<1>2. CASE ~DCache
  BY <1>2 DEF StoreLine, Uncached, Line, Coherent, Synced
<1> QED
  BY <1>1, <1>2

\* The cache on its own never changes RAM under a line that is not dirty, nor
\* what is read of a line that agrees with RAM or is dirty.
LEMMA MoveFacts ==
  ASSUME DCache, NEW l \in Line, Coherent(l), NEW m,
         \/ l.st # "absent" /\ m = EvictLine(l)
         \/ l.st = "absent" /\ m = FillLine(l)
  PROVE  /\ m \in Line /\ Coherent(m)
         /\ l.st # "dirty" => m.st # "dirty" /\ m.ram = l.ram
         /\ Synced(l) => Synced(m) /\ m.val = l.val
         /\ l.ram.copy = "old" /\ l.val.copy = "old" =>
              m.ram.copy = "old" /\ m.val.copy = "old"
<1>1. CASE l.st = "dirty"
  BY <1>1 DEF EvictLine, CleanLine, Uncached, Line, Coherent, Synced
<1>2. CASE l.st = "clean"
  BY <1>2 DEF EvictLine, CleanLine, Uncached, Line, Coherent, Synced
<1>3. CASE l.st = "absent"
  BY <1>3 DEF FillLine, Line, Coherent, Synced
<1> QED
  BY <1>1, <1>2, <1>3 DEF Line

\* The DMA engine writes RAM and does not load the cache.
LEMMA DmaFacts ==
  ASSUME NEW l \in Line, Coherent(l), NEW c \in Content
  PROVE  /\ DmaStoreLine(l, c) \in Line /\ Coherent(DmaStoreLine(l, c))
         /\ DmaStoreLine(l, c).ram = c /\ DmaStoreLine(l, c).st = l.st
<1>1. CASE l.st = "absent"
  BY <1>1 DEF DmaStoreLine, Uncached, Line, Coherent
<1>2. CASE l.st # "absent"
  BY <1>2 DEF DmaStoreLine, Line, Coherent
<1> QED
  BY <1>1, <1>2

\* A delivered line moved by the cache is still delivered, a settled one settled.
LEMMA MoveKeeps ==
  ASSUME DCache, NEW l \in Line, Coherent(l), NEW m,
         \/ l.st # "absent" /\ m = EvictLine(l)
         \/ l.st = "absent" /\ m = FillLine(l)
  PROVE  /\ Delivered(l) => Delivered(m)
         /\ Settled(l) => Settled(m)
<1>1. /\ l.st # "dirty" => m.st # "dirty" /\ m.ram = l.ram
      /\ Synced(l) => Synced(m) /\ m.val = l.val
  BY MoveFacts, Zenon
<1> QED
  BY <1>1 DEF Delivered, Settled, Synced

-----------------------------------------------------------------------------
(* The cache, the neighbour and the ranges of the copy. *)

\* The segment a task works on is one of its body lines.
LEMMA SegFacts ==
  ASSUME TypeOK, NEW t \in Tasks
  PROVE  /\ seg[t] \in Body /\ seg[t] \in Lines /\ seg[t] # Tail
         /\ dst[t] \in [Lines -> Line]
         /\ \A l \in Lines : dst[t][l] \in Line
  BY BodyFacts DEF TypeOK, TaskTypeOK, MemTypeOK

\* The content of every line is a content, also once one of its fields is new.
LEMMA ContentFacts ==
  ASSUME TypeOK, NEW t \in Tasks, NEW l \in Lines
  PROVE  /\ NewLine(dst[t][l].val.nb) \in Content
         /\ NewLine(dst[t][l].val.nb).copy = "new"
         /\ NewLine(dst[t][l].val.nb).nb = dst[t][l].val.nb
         /\ [dst[t][l].val EXCEPT !.nb = 1 - nbLast[t]] \in Content
         /\ [dst[t][l].val EXCEPT !.nb = 1 - nbLast[t]].nb = 1 - nbLast[t]
         /\ [dst[t][l].val EXCEPT !.nb = 1 - nbLast[t]].copy
              = dst[t][l].val.copy
<1>1. dst[t][l].val \in Content /\ nbLast[t] \in 0..1
  BY LineRead DEF TypeOK, MemTypeOK
<1> QED
  BY <1>1 DEF NewLine, Content

\* Invalidating a range of task t touches that range, the line after it when
\* the ROM overshoots, and no other destination.
LEMMA InvalidatedLines ==
  ASSUME TypeOK, NEW t \in Tasks, NEW ls \in SUBSET Body, \A l \in Lines : Coherent(dst[t][l]),
         dst' = Invalidated(t, ls)
  PROVE  /\ \A u \in Tasks : u # t => dst'[u] = dst[u]
         /\ \A l \in Lines :
              /\ Coherent(dst'[t][l]) /\ dst'[t][l].ram = dst[t][l].ram
              /\ dst[t][l].st # "dirty" => dst'[t][l].st # "dirty"
              /\ Delivered(dst[t][l]) => Delivered(dst'[t][l])
              /\ l \in ls /\ dst[t][l].ram.copy = "new" => Delivered(dst'[t][l])
         /\ ~overshoot => dst'[t][Tail] = dst[t][Tail]
<1> DEFINE hit == IF overshoot THEN ls \cup {l + 1 : l \in ls} ELSE ls
           f == [l \in Lines |-> IF DCache /\ l \in hit
                                   THEN InvalidateLine(dst[t][l]) ELSE dst[t][l]]
<1>1. dst' = [dst EXCEPT ![t] = f]
  BY DEF Invalidated
<1>2. dst'[t] = f /\ \A u \in Tasks : u # t => dst'[u] = dst[u]
  <2> HIDE DEF f
  <2> QED
    BY <1>1 DEF TypeOK, MemTypeOK
<1>3. ASSUME NEW l \in Lines
      PROVE  /\ Coherent(f[l]) /\ f[l].ram = dst[t][l].ram
             /\ dst[t][l].st # "dirty" => f[l].st # "dirty"
             /\ Delivered(dst[t][l]) => Delivered(f[l])
             /\ l \in ls /\ dst[t][l].ram.copy = "new" => Delivered(f[l])
             /\ l \notin hit => f[l] = dst[t][l]
  <2>1. /\ dst[t][l] \in Line /\ Coherent(dst[t][l])
        /\ (l \in hit) \in BOOLEAN
        /\ f[l] = IF DCache /\ l \in hit THEN InvalidateLine(dst[t][l]) ELSE dst[t][l]
        /\ l \in ls => l \in hit
    BY SegFacts
  <2> HIDE DEF f, hit
  <2>2. /\ Coherent(f[l]) /\ f[l].ram = dst[t][l].ram
        /\ dst[t][l].st # "dirty" => f[l].st # "dirty"
        /\ Delivered(dst[t][l]) => Delivered(f[l])
        /\ l \in hit /\ dst[t][l].ram.copy = "new" => Delivered(f[l])
        /\ l \notin hit => f[l] = dst[t][l]
    BY <2>1, InvalidateFacts, Zenon
  <2> QED
    BY <2>1, <2>2
<1>4. ~overshoot => Tail \notin hit
  BY BodyFacts
<1> HIDE DEF f, hit
<1>5. ~overshoot => dst'[t][Tail] = dst[t][Tail]
  BY <1>2, <1>3, <1>4, BodyFacts
<1>6. \A l \in Lines :
        /\ Coherent(dst'[t][l]) /\ dst'[t][l].ram = dst[t][l].ram
        /\ dst[t][l].st # "dirty" => dst'[t][l].st # "dirty"
        /\ Delivered(dst[t][l]) => Delivered(dst'[t][l])
        /\ l \in ls /\ dst[t][l].ram.copy = "new" => Delivered(dst'[t][l])
  BY <1>2, <1>3
<1> QED
  BY <1>2, <1>5, <1>6

\* Storing the edges leaves the body alone and settles the tail line.
LEMMA StoredTailLines ==
  ASSUME TypeOK, NEW t \in Tasks, \A l \in Lines : Coherent(dst[t][l]),
         dst' = StoredTail(t)
  PROVE  /\ \A u \in Tasks : u # t => dst'[u] = dst[u]
         /\ \A l \in Lines : Coherent(dst'[t][l])
         /\ \A s \in Body : dst'[t][s] = dst[t][s]
         /\ Settled(dst'[t][Tail])
         /\ dst'[t][Tail].val.nb = dst[t][Tail].val.nb
<1> DEFINE v == StoreLine(dst[t][Tail], NewLine(dst[t][Tail].val.nb), DCache)
<1>1. Coherent(v) /\ Synced(v) /\ v.val = NewLine(dst[t][Tail].val.nb)
  <2>1. dst[t][Tail] \in Line /\ NewLine(dst[t][Tail].val.nb) \in Content
    BY BodyFacts, SegFacts, ContentFacts
  <2> QED
    BY <2>1, BodyFacts, StoreFacts
<1>3. dst' = [dst EXCEPT ![t][Tail] = v]
  BY DEF StoredTail
<1> HIDE DEF v
<1>2. v.val.copy = "new" /\ v.val.nb = dst[t][Tail].val.nb
  <2>1. /\ NewLine(dst[t][Tail].val.nb).copy = "new"
        /\ NewLine(dst[t][Tail].val.nb).nb = dst[t][Tail].val.nb
    BY BodyFacts, ContentFacts
  <2> QED
    BY <1>1, <2>1
<1>4. /\ \A u \in Tasks : u # t => dst'[u] = dst[u]
      /\ \A l \in Lines : l # Tail => dst'[t][l] = dst[t][l]
      /\ dst'[t][Tail] = v
  BY <1>3, BodyFacts DEF TypeOK, MemTypeOK
<1> QED
  BY <1>1, <1>2, <1>4, BodyFacts DEF Settled

\* The recopy settles every line.
LEMMA RecopyLines ==
  ASSUME TypeOK, NEW t \in Tasks, \A l \in Lines : Coherent(dst[t][l]),
         Recopy(t)
  PROVE  /\ \A u \in Tasks : u # t => dst'[u] = dst[u]
         /\ \A l \in Lines : /\ Coherent(dst'[t][l]) /\ Settled(dst'[t][l])
                             /\ dst'[t][l].val.nb = dst[t][l].val.nb
<1> DEFINE f == [l \in Lines |->
       StoreLine(dst[t][l], NewLine(dst[t][l].val.nb), DCache)]
<1>1. ASSUME NEW l \in Lines
      PROVE  /\ Coherent(f[l]) /\ Synced(f[l])
             /\ f[l].val = NewLine(dst[t][l].val.nb)
  <2>1. dst[t][l] \in Line /\ NewLine(dst[t][l].val.nb) \in Content
    BY SegFacts, ContentFacts
  <2> QED
    BY <2>1, StoreFacts
<1>3. dst' = [dst EXCEPT ![t] = f]
  BY DEF Recopy
<1> HIDE DEF f
<1>2. ASSUME NEW l \in Lines
      PROVE  f[l].val.copy = "new" /\ f[l].val.nb = dst[t][l].val.nb
  <2>1. /\ NewLine(dst[t][l].val.nb).copy = "new"
        /\ NewLine(dst[t][l].val.nb).nb = dst[t][l].val.nb
    BY ContentFacts
  <2> QED
    BY <1>1, <2>1
<1> QED
  BY <1>1, <1>2, <1>3 DEF Settled, TypeOK, MemTypeOK

\* A call starts with old, coherent lines and a quiet neighbour.
LEMMA CallLines ==
  ASSUME TypeOK, NEW t \in Tasks, Call(t)
  PROVE  /\ \A u \in Tasks : u # t => dst'[u] = dst[u] /\ nbLast'[u] = nbLast[u]
         /\ \A l \in Lines : /\ Coherent(dst'[t][l]) /\ Synced(dst'[t][l])
                             /\ dst'[t][l].val.copy = "old"
                             /\ dst'[t][l].val.nb = 0
         /\ nbLast'[t] = 0
<1>1. PICK body \in FreshLines, tail \in FreshLines :
        dst' = [dst EXCEPT ![t] = [l \in Lines |-> IF l = Tail THEN tail ELSE body]]
  BY DEF Call
<1>2. /\ \A u \in Tasks : u # t => dst'[u] = dst[u]
      /\ \A l \in Lines : dst'[t][l] \in FreshLines
  BY <1>1 DEF TypeOK, MemTypeOK
<1>3. /\ \A u \in Tasks : u # t => nbLast'[u] = nbLast[u]
      /\ nbLast'[t] = 0
  BY DEF Call, TypeOK, MemTypeOK
<1> QED
  BY <1>2, <1>3, FreshFacts

\* Cleaning touches one body line of task t and leaves it free of dirty bytes.
LEMMA CleanLines ==
  ASSUME TypeOK, NEW t \in Tasks, \A l \in Lines : Coherent(dst[t][l]),
         Clean(t)
  PROVE  /\ \A u \in Tasks : u # t => dst'[u] = dst[u]
         /\ \A l \in Lines : /\ Coherent(dst'[t][l])
                             /\ l # seg[t] => dst'[t][l] = dst[t][l]
         /\ dst'[t][seg[t]].st # "dirty"
<1> DEFINE v == IF DCache THEN CleanLine(dst[t][seg[t]]) ELSE dst[t][seg[t]]
<1>1. Coherent(v) /\ v.st # "dirty"
  BY SegFacts, CleanFacts
<1>2. dst' = [dst EXCEPT ![t][seg[t]] = v]
  BY DEF Clean
<1> HIDE DEF v
<1> QED
  BY <1>1, <1>2, SegFacts DEF TypeOK, MemTypeOK

\* The neighbour's store reaches the tail line only.
LEMMA NeighbourLines ==
  ASSUME TypeOK, NEW t \in Tasks, \A l \in Lines : Coherent(dst[t][l]),
         NeighbourStore(t)
  PROVE  /\ \A u \in Tasks : u # t => dst'[u] = dst[u] /\ nbLast'[u] = nbLast[u]
         /\ \A l \in Lines : Coherent(dst'[t][l])
         /\ \A s \in Body : dst'[t][s] = dst[t][s]
         /\ Synced(dst'[t][Tail])
         /\ dst'[t][Tail].val.nb = nbLast'[t]
         /\ dst'[t][Tail].val.copy = dst[t][Tail].val.copy
         /\ dst'[t][Tail].ram = dst[t][Tail].ram
<1> DEFINE c == [dst[t][Tail].val EXCEPT !.nb = 1 - nbLast[t]]
           v == StoreLine(dst[t][Tail], c, TRUE)
<1>1. /\ c \in Content /\ c.nb = 1 - nbLast[t]
      /\ c.copy = dst[t][Tail].val.copy
  BY BodyFacts, ContentFacts
<1>2. DCache = TRUE
  BY HardwareAssumption DEF NeighbourStore
<1>3. dst' = [dst EXCEPT ![t][Tail] = v]
  BY DEF NeighbourStore
<1>4. nbLast'[t] = 1 - nbLast[t] /\ \A u \in Tasks : u # t => nbLast'[u] = nbLast[u]
  BY DEF NeighbourStore, TypeOK, MemTypeOK
<1>5. dst[t][Tail] \in Line /\ Coherent(dst[t][Tail])
  BY BodyFacts, SegFacts
<1> HIDE DEF c
<1>6. Coherent(v) /\ Synced(v) /\ v.val = c
  BY <1>1, <1>2, <1>5, StoreFacts
<1>7. v.ram = dst[t][Tail].ram
  BY <1>5 DEF StoreLine, Line
<1> HIDE DEF v
<1>8. /\ \A u \in Tasks : u # t => dst'[u] = dst[u]
      /\ \A l \in Lines : l # Tail => dst'[t][l] = dst[t][l]
      /\ dst'[t][Tail] = v
  BY <1>3, BodyFacts DEF TypeOK, MemTypeOK
<1> QED
  BY <1>1, <1>4, <1>6, <1>7, <1>8, BodyFacts

\* What the cache does on its own to the lines of task t.
LEMMA MovedLines ==
  ASSUME TypeOK, NEW t \in Tasks, \A l \in Lines : Coherent(dst[t][l]),
         CacheMoves(t)
  PROVE  /\ \A u \in Tasks : u # t => dst'[u] = dst[u] /\ src'[u] = src[u]
         /\ \A s \in Body : src[t][s] = "clean" => src'[t][s] = "clean"
         /\ \A l \in Lines :
              LET m == dst'[t][l] IN
              /\ Coherent(m)
              /\ dst[t][l].st # "dirty" => m.st # "dirty" /\ m.ram = dst[t][l].ram
              /\ Synced(dst[t][l]) => Synced(m) /\ m.val = dst[t][l].val
              /\ dst[t][l].ram.copy = "old" /\ dst[t][l].val.copy = "old" =>
                   m.ram.copy = "old" /\ m.val.copy = "old"
              /\ Delivered(dst[t][l]) => Delivered(m)
              /\ Settled(dst[t][l]) => Settled(m)
<1>1. /\ \A u \in Tasks : u # t => src'[u] = src[u]
      /\ \A s \in Body : src[t][s] = "clean" => src'[t][s] = "clean"
  BY DEF CacheMoves, TypeOK, MemTypeOK
<1>2. CASE dst' = dst
  BY <1>1, <1>2
<1>3. ASSUME NEW k \in Lines, NEW v, dst' = [dst EXCEPT ![t][k] = v],
             \/ dst[t][k].st # "absent" /\ v = EvictLine(dst[t][k])
             \/ dst[t][k].st = "absent" /\ v = FillLine(dst[t][k])
      PROVE  /\ \A u \in Tasks : u # t => dst'[u] = dst[u]
             /\ \A l \in Lines : l # k => dst'[t][l] = dst[t][l]
             /\ dst'[t][k] = v
             /\ Coherent(v)
             /\ dst[t][k].st # "dirty" => v.st # "dirty" /\ v.ram = dst[t][k].ram
             /\ Synced(dst[t][k]) => Synced(v) /\ v.val = dst[t][k].val
             /\ dst[t][k].ram.copy = "old" /\ dst[t][k].val.copy = "old" =>
                  v.ram.copy = "old" /\ v.val.copy = "old"
             /\ Delivered(dst[t][k]) => Delivered(v)
             /\ Settled(dst[t][k]) => Settled(v)
  <2>1. /\ \A u \in Tasks : u # t => dst'[u] = dst[u]
        /\ \A l \in Lines : l # k => dst'[t][l] = dst[t][l]
        /\ dst'[t][k] = v
    BY <1>3 DEF TypeOK, MemTypeOK
  <2>2. DCache /\ dst[t][k] \in Line /\ Coherent(dst[t][k])
    BY SegFacts DEF CacheMoves
  <2>3. /\ Coherent(v)
        /\ dst[t][k].st # "dirty" => v.st # "dirty" /\ v.ram = dst[t][k].ram
        /\ Synced(dst[t][k]) => Synced(v) /\ v.val = dst[t][k].val
        /\ dst[t][k].ram.copy = "old" /\ dst[t][k].val.copy = "old" =>
             v.ram.copy = "old" /\ v.val.copy = "old"
    BY <1>3, <2>2, MoveFacts, Zenon
  <2>4. (Delivered(dst[t][k]) => Delivered(v)) /\ (Settled(dst[t][k]) => Settled(v))
    BY <1>3, <2>2, MoveKeeps, Zenon
  <2> QED
    BY <2>1, <2>3, <2>4
<1>4. CASE dst' # dst
  <2>1. PICK k \in Lines :
          \/ dst[t][k].st # "absent" /\ dst' = [dst EXCEPT ![t][k] = EvictLine(@)]
          \/ dst[t][k].st = "absent" /\ dst' = [dst EXCEPT ![t][k] = FillLine(@)]
    BY <1>4 DEF CacheMoves
  <2>2. PICK v : /\ dst' = [dst EXCEPT ![t][k] = v]
                 /\ \/ dst[t][k].st # "absent" /\ v = EvictLine(dst[t][k])
                    \/ dst[t][k].st = "absent" /\ v = FillLine(dst[t][k])
    BY <2>1
  <2>3. /\ \A u \in Tasks : u # t => dst'[u] = dst[u]
        /\ \A l \in Lines : l # k => dst'[t][l] = dst[t][l]
        /\ dst'[t][k] = v
        /\ Coherent(v)
        /\ dst[t][k].st # "dirty" => v.st # "dirty" /\ v.ram = dst[t][k].ram
        /\ Synced(dst[t][k]) => Synced(v) /\ v.val = dst[t][k].val
        /\ dst[t][k].ram.copy = "old" /\ dst[t][k].val.copy = "old" =>
             v.ram.copy = "old" /\ v.val.copy = "old"
        /\ Delivered(dst[t][k]) => Delivered(v)
        /\ Settled(dst[t][k]) => Settled(v)
    BY <1>3, <2>2
  <2> QED
    BY <1>1, <2>3
<1> QED
  BY <1>2, <1>4

\* A DMA write lands in one body line of the task its channel copies for.
LEMMA DmaLines ==
  ASSUME OwnershipInv, NEW c \in Contexts, DmaWrite(c),
         \A u \in Tasks, l \in Lines : Coherent(dst[u][l])
  PROVE  LET t == job[c].task IN
         /\ t \in Tasks /\ seg[t] = job[c].seg
         /\ \A u \in Tasks : u # t => dst'[u] = dst[u]
         /\ \A l \in Lines : /\ Coherent(dst'[t][l])
                             /\ l # seg[t] => dst'[t][l] = dst[t][l]
         /\ dst'[t][seg[t]].st = dst[t][seg[t]].st
         /\ src[t][seg[t]] = "clean" => dst'[t][seg[t]].ram.copy = "new"
<1> DEFINE t == job[c].task
           s == seg[t]
           data == IF src[t][s] = "clean" THEN NewLine(0) ELSE OldLine(0)
           v == DmaStoreLine(dst[t][s], data)
<1>1. Running(c)
  BY DEF DmaWrite, Running
<1>2. t \in Tasks /\ s = job[c].seg
  BY <1>1 DEF OwnershipInv, JobHasTask, DmaOnlyInsideCall
<1>3. dst' = [dst EXCEPT ![t][s] = v]
  BY <1>2 DEF DmaWrite
<1>4. data \in Content /\ (src[t][s] = "clean" => data.copy = "new")
  BY DEF NewLine, OldLine, Content
<1>5. TypeOK
  BY DEF OwnershipInv
<1>6. s \in Lines /\ dst[t][s] \in Line /\ Coherent(dst[t][s])
  BY <1>2, <1>5, SegFacts
<1> HIDE DEF data
<1>7. Coherent(v) /\ v.ram = data /\ v.st = dst[t][s].st
  BY <1>4, <1>6, DmaFacts
<1> HIDE DEF v, t, s
<1>8. /\ \A u \in Tasks : u # t => dst'[u] = dst[u]
      /\ \A l \in Lines : l # s => dst'[t][l] = dst[t][l]
      /\ dst'[t][s] = v
  BY <1>2, <1>3, <1>5, <1>6 DEF TypeOK, MemTypeOK
<1>9. \A l \in Lines : Coherent(dst'[t][l])
  BY <1>2, <1>7, <1>8
<1> QED
  BY <1>2, <1>4, <1>7, <1>8, <1>9 DEF t, s

\* No step breaks the agreement of cache, RAM and neighbour.
LEMMA MemFactsStep ==
  ASSUME MemInv, [Next]_vars, NEW u \in Tasks
  PROVE  MemFacts(u)'
<1>1. /\ TypeOK /\ OwnershipInv /\ MemFacts(u)
      /\ \A t \in Tasks, l \in Lines : Coherent(dst[t][l])
  BY DEF MemInv, OwnershipInv, MemFacts
<1>2. overshoot' = overshoot
  BY DEF Next, vars
<1>3. ASSUME dst'[u] = dst[u], nbLast'[u] = nbLast[u] PROVE MemFacts(u)'
  BY <1>1, <1>2, <1>3 DEF MemFacts
<1>4. ASSUME \A l \in Lines : Coherent(dst'[u][l]),
             ~overshoot => /\ Synced(dst'[u][Tail])
                           /\ dst'[u][Tail].val.nb = nbLast'[u]
      PROVE  MemFacts(u)'
  BY <1>2, <1>4 DEF MemFacts, Coherent, Synced
<1>5. CASE UNCHANGED vars
  BY <1>3, <1>5 DEF vars, memVars
<1>6. ASSUME UNCHANGED memVars PROVE MemFacts(u)'
  BY <1>3, <1>6 DEF memVars
<1>7. ASSUME NEW t \in Tasks, CallStep(t) PROVE MemFacts(u)'
  <2>1. CASE Clean(t)
    <3>1. CASE u = t
      <4>1. seg[t] # Tail /\ Tail \in Lines
        BY <1>1, SegFacts, BodyFacts
      <4>2. /\ \A l \in Lines : Coherent(dst'[u][l])
            /\ dst'[u][Tail] = dst[u][Tail]
        BY <1>1, <2>1, <3>1, <4>1, CleanLines
      <4>3. nbLast' = nbLast
        BY <2>1 DEF Clean
      <4> QED
        BY <1>1, <1>4, <4>2, <4>3 DEF MemFacts
    <3>2. CASE u # t
      BY <1>1, <1>3, <2>1, <3>2, CleanLines DEF Clean
    <3> QED
      BY <3>1, <3>2
  <2>2. ASSUME NEW ls \in SUBSET Body, dst' = Invalidated(t, ls), nbLast' = nbLast
        PROVE  MemFacts(u)'
    <3>1. CASE u = t
      BY <1>1, <1>4, <2>2, <3>1, InvalidatedLines DEF MemFacts
    <3>2. CASE u # t
      BY <1>1, <1>3, <2>2, <3>2, InvalidatedLines
    <3> QED
      BY <3>1, <3>2
  <2>3. CASE Invalidate(t)
    BY <1>1, <2>2, <2>3, SegFacts DEF Invalidate
  <2>4. CASE FinalInvalidate(t)
    BY <2>2, <2>4 DEF FinalInvalidate
  <2>5. CASE Edges(t)
    <3>1. CASE u = t
      BY <1>1, <1>4, <2>5, <3>1, StoredTailLines DEF MemFacts, Edges, Settled
    <3>2. CASE u # t
      BY <1>1, <1>3, <2>5, <3>2, StoredTailLines DEF Edges
    <3> QED
      BY <3>1, <3>2
  <2>6. CASE Recopy(t)
    <3>1. CASE u = t
      <4>1. \A l \in Lines : /\ Coherent(dst'[u][l]) /\ Settled(dst'[u][l])
                             /\ dst'[u][l].val.nb = dst[u][l].val.nb
        BY <1>1, <2>6, <3>1, RecopyLines
      <4>2. nbLast' = nbLast
        BY <2>6 DEF Recopy
      <4> QED
        BY <1>1, <1>4, <4>1, <4>2, BodyFacts DEF MemFacts, Settled
    <3>2. CASE u # t
      BY <1>1, <1>3, <2>6, <3>2, RecopyLines DEF Recopy
    <3> QED
      BY <3>1, <3>2
  <2>7. CASE Claim(t) \/ Drain(t) \/ Arm(t) \/ Submit(t) \/ Reject(t)
             \/ WaitTaken(t) \/ WaitTimeout(t) \/ PollEnd(t) \/ Check(t)
             \/ Fail(t) \/ Abort(t) \/ Out(t)
    <3>1. UNCHANGED memVars
      BY <2>7 DEF Claim, Drain, Arm, Submit, Reject, WaitTaken, WaitTimeout,
                  PollEnd, Check, Fail, Abort, Out, memVars
    <3> QED
      BY <1>6, <3>1
  <2> QED
    BY <1>7, <2>1, <2>3, <2>4, <2>5, <2>6, <2>7 DEF CallStep
<1>8. ASSUME NEW t \in Tasks, EnvStep(t) PROVE MemFacts(u)'
  <2>1. CASE Call(t)
    <3>1. CASE u = t
      BY <1>1, <1>4, <2>1, <3>1, CallLines, BodyFacts
    <3>2. CASE u # t
      BY <1>1, <1>3, <2>1, <3>2, CallLines
    <3> QED
      BY <3>1, <3>2
  <2>2. CASE ReuseSource(t)
    BY <1>3, <2>2 DEF ReuseSource
  <2>3. CASE NeighbourStore(t)
    <3>1. CASE u = t
      BY <1>1, <1>4, <2>3, <3>1, NeighbourLines
    <3>2. CASE u # t
      BY <1>1, <1>3, <2>3, <3>2, NeighbourLines
    <3> QED
      BY <3>1, <3>2
  <2>4. CASE CacheMoves(t)
    <3>1. CASE u = t
      BY <1>1, <1>4, <2>4, <3>1, MovedLines, BodyFacts DEF MemFacts, CacheMoves
    <3>2. CASE u # t
      BY <1>1, <1>3, <2>4, <3>2, MovedLines DEF CacheMoves
    <3> QED
      BY <3>1, <3>2
  <2> QED
    BY <1>8, <2>1, <2>2, <2>3, <2>4 DEF EnvStep
<1>9. ASSUME NEW c \in Contexts, Hardware(c) PROVE MemFacts(u)'
  <2>1. CASE DmaWrite(c)
    <3>1. nbLast' = nbLast
      BY <2>1 DEF DmaWrite
    <3>2. CASE u = job[c].task
      <4>1. /\ \A l \in Lines : Coherent(dst'[u][l])
            /\ dst'[u][Tail] = dst[u][Tail]
        BY <1>1, <2>1, <3>2, DmaLines, SegFacts, BodyFacts
      <4> QED
        BY <1>1, <1>4, <3>1, <4>1 DEF MemFacts
    <3>3. CASE u # job[c].task
      <4>1. dst'[u] = dst[u]
        BY <1>1, <2>1, <3>3, DmaLines
      <4> QED
        BY <1>3, <3>1, <4>1
    <3> QED
      BY <3>2, <3>3
  <2>2. CASE DmaDone(c) \/ EarlyInterrupt(c) \/ DmaError(c) \/ Isr(c)
    <3>1. UNCHANGED memVars
      BY <2>2 DEF DmaDone, EarlyInterrupt, DmaError, Isr, memVars
    <3> QED
      BY <1>6, <3>1
  <2> QED
    BY <1>9, <2>1, <2>2 DEF Hardware
<1> QED
  BY <1>5, <1>7, <1>8, <1>9 DEF Next

-----------------------------------------------------------------------------
(* The progress of a copy. *)

\* What CopyFacts(u) reads: nothing in it moved.
SameCopy(u) ==
  /\ pc'[u] = pc[u] /\ ctx'[u] = ctx[u] /\ seg'[u] = seg[u]
  /\ copied'[u] = copied[u] /\ dst'[u] = dst[u] /\ src'[u] = src[u]
  /\ pc[u] \in WaitingPCs => chan'[ctx[u]] = chan[ctx[u]]

\* A step that touches nothing of a copy keeps its facts.
LEMMA SameCopyFacts ==
  ASSUME NEW u \in Tasks, CopyFacts(u), SameCopy(u)
  PROVE  CopyFacts(u)'
<1> USE DEF CopyFacts, SameCopy
<1>1. Prepared(u)'
  BY DEF Prepared
<1>2. Landed(u)'
  BY DEF Landed, WaitingPCs
<1>3. BodyDelivered(u)'
  BY DEF BodyDelivered
<1>4. CopiedLate(u)'
  BY DEF CopiedLate
<1>5. CopySettled(u)'
  BY DEF CopySettled
<1>6. IdleOld(u)'
  BY DEF IdleOld
<1> QED
  BY <1>1, <1>2, <1>3, <1>4, <1>5, <1>6

\* A task's own step leaves every other copy, and its channel, alone.
LEMMA OthersSame ==
  ASSUME MemInv, NEW t \in Tasks, CallStep(t) \/ EnvStep(t),
         NEW u \in Tasks, u # t
  PROVE  SameCopy(u)
<1>1. /\ TypeOK /\ OneOwner /\ HolderUsable
      /\ \A l \in Lines : Coherent(dst[t][l])
  BY DEF MemInv, OwnershipInv, MemFacts
<1>2. /\ pc \in [Tasks -> PCs] /\ seg \in [Tasks -> Body]
      /\ ctx \in [Tasks -> Contexts \cup {None}] /\ copied \in [Tasks -> BOOLEAN]
      /\ chan \in [Contexts -> {"off", "moving", "written", "halted"}]
  BY <1>1 DEF TypeOK, TaskTypeOK, HwTypeOK
<1>3. ASSUME pc[t] \in HoldingPCs, pc[u] \in WaitingPCs PROVE ctx[u] # ctx[t]
  BY <1>1, <1>3 DEF OneOwner, HolderUsable, Owner, WaitingPCs, HoldingPCs
<1>4. ASSUME dst'[u] = dst[u], src'[u] = src[u], chan' = chan,
             pc'[u] = pc[u], ctx'[u] = ctx[u], seg'[u] = seg[u], copied'[u] = copied[u]
      PROVE  SameCopy(u)
  BY <1>4 DEF SameCopy
<1> USE DEF Goto, ctxVars, hwVars, taskVars, memVars
<1>5. CASE Claim(t)
  BY <1>2, <1>4, <1>5 DEF Claim, Usable
<1>6. CASE Drain(t)
  BY <1>2, <1>4, <1>6 DEF Drain
<1>7. CASE Clean(t)
  <2>1. dst'[u] = dst[u]
    BY <1>1, <1>7, CleanLines
  <2>2. src'[u] = src[u]
    BY <1>1, <1>7 DEF Clean, TypeOK, MemTypeOK
  <2> QED
    BY <1>2, <1>4, <1>7, <2>1, <2>2 DEF Clean
<1>8. CASE Arm(t)
  BY <1>2, <1>4, <1>8 DEF Arm
<1>9. CASE Submit(t)
  <2>1. pc[t] \in HoldingPCs
    BY <1>9 DEF Submit, HoldingPCs
  <2>2. \A c \in Contexts : c # ctx[t] => chan'[c] = chan[c]
    BY <1>2, <1>9 DEF Submit
  <2>3. pc[u] \in WaitingPCs => ctx[u] \in Contexts /\ ctx[u] # ctx[t]
    BY <1>1, <1>3, <2>1 DEF HolderUsable, WaitingPCs, HoldingPCs
  <2>4. /\ dst' = dst /\ src' = src /\ pc'[u] = pc[u]
        /\ ctx' = ctx /\ seg' = seg /\ copied' = copied
    BY <1>2, <1>9 DEF Submit
  <2> QED
    BY <2>2, <2>3, <2>4 DEF SameCopy
<1>10. CASE Reject(t)
  <2>1. pc[t] \in HoldingPCs
    BY <1>10 DEF Reject, HoldingPCs
  <2>2. \A c \in Contexts : c # ctx[t] => chan'[c] = chan[c]
    BY <1>2, <1>10 DEF Reject, ShutDown
  <2>3. pc[u] \in WaitingPCs => ctx[u] \in Contexts /\ ctx[u] # ctx[t]
    BY <1>1, <1>3, <2>1 DEF HolderUsable, WaitingPCs, HoldingPCs
  <2>4. /\ dst' = dst /\ src' = src /\ pc'[u] = pc[u]
        /\ ctx' = ctx /\ seg' = seg /\ copied' = copied
    BY <1>2, <1>10 DEF Reject
  <2> QED
    BY <2>2, <2>3, <2>4 DEF SameCopy
<1>11. CASE WaitTaken(t)
  BY <1>2, <1>4, <1>11 DEF WaitTaken
<1>12. CASE WaitTimeout(t)
  BY <1>2, <1>4, <1>12 DEF WaitTimeout
<1>13. CASE PollEnd(t)
  BY <1>2, <1>4, <1>13 DEF PollEnd
<1>14. CASE Check(t)
  BY <1>2, <1>4, <1>14 DEF Check
<1>15. CASE Fail(t)
  BY <1>2, <1>4, <1>15 DEF Fail
<1>16. CASE Abort(t)
  <2>1. pc[t] \in HoldingPCs
    BY <1>16 DEF Abort, HoldingPCs
  <2>2. \A c \in Contexts : c # ctx[t] => chan'[c] = chan[c]
    BY <1>2, <1>16 DEF Abort, ShutDown
  <2>3. pc[u] \in WaitingPCs => ctx[u] \in Contexts /\ ctx[u] # ctx[t]
    BY <1>1, <1>3, <2>1 DEF HolderUsable, WaitingPCs, HoldingPCs
  <2>4. /\ dst' = dst /\ src' = src /\ pc'[u] = pc[u]
        /\ ctx' = ctx /\ seg' = seg /\ copied' = copied
    BY <1>2, <1>16 DEF Abort
  <2> QED
    BY <2>2, <2>3, <2>4 DEF SameCopy
<1>17. CASE Invalidate(t)
  <2>1. dst'[u] = dst[u]
    <3>1. {seg[t]} \in SUBSET Body /\ dst' = Invalidated(t, {seg[t]})
      BY <1>1, <1>17, SegFacts DEF Invalidate
    <3> QED
      BY <1>1, <3>1, InvalidatedLines
  <2> QED
    BY <1>2, <1>4, <1>17, <2>1 DEF Invalidate
<1>18. CASE FinalInvalidate(t)
  <2>1. dst'[u] = dst[u]
    BY <1>1, <1>18, InvalidatedLines DEF FinalInvalidate
  <2> QED
    BY <1>2, <1>4, <1>18, <2>1 DEF FinalInvalidate
<1>19. CASE Edges(t)
  <2>1. dst'[u] = dst[u]
    BY <1>1, <1>19, StoredTailLines DEF Edges
  <2> QED
    BY <1>2, <1>4, <1>19, <2>1 DEF Edges
<1>20. CASE Out(t)
  BY <1>2, <1>4, <1>20 DEF Out
<1>21. CASE Recopy(t)
  <2>1. dst'[u] = dst[u]
    BY <1>1, <1>21, RecopyLines
  <2> QED
    BY <1>2, <1>4, <1>21, <2>1 DEF Recopy
<1>22. CASE Call(t)
  <2>1. dst'[u] = dst[u]
    BY <1>1, <1>22, CallLines
  <2>2. src'[u] = src[u]
    BY <1>1, <1>22 DEF Call, TypeOK, MemTypeOK
  <2> QED
    BY <1>2, <1>4, <1>22, <2>1, <2>2 DEF Call
<1>23. CASE ReuseSource(t)
  <2>2. src'[u] = src[u]
    BY <1>1, <1>23 DEF ReuseSource, TypeOK, MemTypeOK
  <2> QED
    BY <1>2, <1>4, <1>23, <2>2 DEF ReuseSource
<1>24. CASE NeighbourStore(t)
  <2>1. dst'[u] = dst[u]
    BY <1>1, <1>24, NeighbourLines
  <2> QED
    BY <1>2, <1>4, <1>24, <2>1 DEF NeighbourStore
<1>25. CASE CacheMoves(t)
  <2>1. dst'[u] = dst[u] /\ src'[u] = src[u]
    BY <1>1, <1>25, MovedLines
  <2> QED
    BY <1>2, <1>4, <1>25, <2>1 DEF CacheMoves
<1> QED
  BY <1>5, <1>6, <1>7, <1>8, <1>9, <1>10, <1>11, <1>12, <1>13, <1>14, <1>15, <1>16, <1>17, <1>18, <1>19, <1>20, <1>21, <1>22, <1>23, <1>24, <1>25
  DEF CallStep, EnvStep

\* What the parts of CopyFacts say of task u in the next state, spelled out.
LEMMA CopyFactsNext ==
  ASSUME NEW u \in Tasks, NEW l, NEW k, NEW x,
         l = pc'[u], k = seg'[u], x = chan'[ctx'[u]],
         l \in PreparedPCs => src'[u][k] = "clean" /\ dst'[u][k].st # "dirty",
         l = "invalidate" \/ (l \in WaitingPCs /\ x \in {"off", "written"})
           => dst'[u][k].ram.copy = "new",
         l = "claim" => k = 1,
         l \in PreparedPCs \cup {"drain", "clean"} =>
           \A s \in Body : s < k => Delivered(dst'[u][s]),
         l \in {"final", "edges"} => \A s \in Body : Delivered(dst'[u][s]),
         copied'[u] => l \in {"out", "returned"},
         l = "returned" \/ (l = "out" /\ copied'[u]) =>
           \A i \in Lines : Settled(dst'[u][i]),
         l = "idle" => \A i \in Lines :
           dst'[u][i].ram.copy = "old" /\ dst'[u][i].val.copy = "old"
  PROVE  CopyFacts(u)'
<1>1. Prepared(u)'
  BY DEF Prepared
<1>4. Landed(u)'
  BY DEF Landed
<1>2. BodyDelivered(u)' /\ CopiedLate(u)'
  BY DEF BodyDelivered, CopiedLate, PreparedPCs, WaitingPCs, Delivered
<1>3. CopySettled(u)' /\ IdleOld(u)'
  BY DEF CopySettled, IdleOld, Settled, Synced
<1> QED
  BY <1>1, <1>2, <1>3, <1>4 DEF CopyFacts

\* A step of the copy itself keeps its facts; steps that leave the memory alone.
LEMMA QuietStepCopy ==
  ASSUME MemInv, NEW t \in Tasks, CopyFacts(t),
         \/ Claim(t) \/ Drain(t) \/ Arm(t) \/ Submit(t) \/ Reject(t)
         \/ WaitTaken(t) \/ WaitTimeout(t) \/ PollEnd(t) \/ Check(t)
         \/ Fail(t) \/ Abort(t) \/ Out(t)
  PROVE  CopyFacts(t)'
<1>1. TypeOK /\ HolderUsable
  BY DEF MemInv, OwnershipInv
<1>2. /\ pc \in [Tasks -> PCs] /\ seg \in [Tasks -> Body]
      /\ ctx \in [Tasks -> Contexts \cup {None}] /\ copied \in [Tasks -> BOOLEAN]
      /\ chan \in [Contexts -> {"off", "moving", "written", "halted"}]
  BY <1>1 DEF TypeOK, TaskTypeOK, HwTypeOK
<1>3. pc[t] \in HoldingPCs => ctx[t] \in Contexts
  BY <1>1 DEF HolderUsable
<1>4. UNCHANGED memVars /\ seg' = seg /\ copied' = copied
  BY DEF Claim, Drain, Arm, Submit, Reject, WaitTaken, WaitTimeout, PollEnd,
         Check, Fail, Abort, Out, memVars
<1>5. dst' = dst /\ src' = src
  BY <1>4 DEF memVars
<1> USE DEF Goto, ctxVars, hwVars, taskVars, memVars
<1>6. CASE Claim(t)
  <2>1. pc[t] = "claim" /\ pc'[t] \in {"drain", "recopy"}
    BY <1>2, <1>3, <1>6 DEF Claim, Usable
  <2> QED
    BY <1>2, <1>4, <1>5, <2>1, CopyFactsNext DEF CopyFacts, Prepared, Landed, BodyDelivered,
       CopiedLate, CopySettled, IdleOld, PreparedPCs, WaitingPCs, Body
<1>7. CASE Drain(t)
  <2>1. pc[t] = "drain" /\ pc'[t] = "clean"
    BY <1>2, <1>3, <1>7 DEF Drain
  <2> QED
    BY <1>2, <1>4, <1>5, <2>1, CopyFactsNext DEF CopyFacts, Prepared, Landed, BodyDelivered,
       CopiedLate, CopySettled, IdleOld, PreparedPCs, WaitingPCs
<1>8. CASE Arm(t)
  <2>1. pc[t] = "arm" /\ pc'[t] = "submit"
    BY <1>2, <1>3, <1>8 DEF Arm
  <2> QED
    BY <1>2, <1>4, <1>5, <2>1, CopyFactsNext DEF CopyFacts, Prepared, Landed, BodyDelivered,
       CopiedLate, CopySettled, IdleOld, PreparedPCs, WaitingPCs
<1>9. CASE Submit(t)
  <2>1. pc[t] = "submit" /\ pc'[t] = "wait" /\ ctx'[t] = ctx[t] /\ chan'[ctx[t]] = "moving"
    BY <1>2, <1>3, <1>9 DEF Submit, HoldingPCs
  <2> QED
    BY <1>2, <1>4, <1>5, <2>1, CopyFactsNext DEF CopyFacts, Prepared, Landed, BodyDelivered,
       CopiedLate, CopySettled, IdleOld, PreparedPCs, WaitingPCs
<1>10. CASE Reject(t)
  <2>1. pc[t] \in {"arm", "submit"} /\ pc'[t] = "out"
    BY <1>2, <1>3, <1>10 DEF Reject
  <2> QED
    BY <1>2, <1>4, <1>5, <2>1, CopyFactsNext DEF CopyFacts, Prepared, Landed, BodyDelivered,
       CopiedLate, CopySettled, IdleOld, PreparedPCs, WaitingPCs
<1>11. CASE WaitTaken(t)
  <2>1. pc[t] = "wait" /\ pc'[t] \in {"poll", "fail"} /\ ctx'[t] = ctx[t] /\ chan' = chan
    BY <1>2, <1>3, <1>11 DEF WaitTaken
  <2> QED
    BY <1>2, <1>4, <1>5, <2>1, CopyFactsNext DEF CopyFacts, Prepared, Landed, BodyDelivered,
       CopiedLate, CopySettled, IdleOld, PreparedPCs, WaitingPCs
<1>12. CASE WaitTimeout(t)
  <2>1. pc[t] = "wait" /\ pc'[t] = "fail"
    BY <1>2, <1>3, <1>12 DEF WaitTimeout
  <2> QED
    BY <1>2, <1>4, <1>5, <2>1, CopyFactsNext DEF CopyFacts, Prepared, Landed, BodyDelivered,
       CopiedLate, CopySettled, IdleOld, PreparedPCs, WaitingPCs
<1>13. CASE PollEnd(t)
  <2>1. pc[t] = "poll" /\ pc'[t] = "check" /\ ctx'[t] = ctx[t] /\ chan' = chan
    BY <1>2, <1>3, <1>13 DEF PollEnd
  <2> QED
    BY <1>2, <1>4, <1>5, <2>1, CopyFactsNext DEF CopyFacts, Prepared, Landed, BodyDelivered,
       CopiedLate, CopySettled, IdleOld, PreparedPCs, WaitingPCs
<1>14. CASE Check(t)
  <2> DEFINE ok == ~Running(ctx[t]) /\ ~irqError[ctx[t]]
  <2>1. pc[t] = "check" /\ pc' = [pc EXCEPT ![t] = IF ok THEN "invalidate" ELSE "fail"]
    BY <1>14 DEF Check
  <2>2. ok => chan[ctx[t]] = "off"
    BY DEF Running
  <2>3. ok \in BOOLEAN
    OBVIOUS
  <2> HIDE DEF ok
  <2>4. pc'[t] = "fail" \/ (pc'[t] = "invalidate" /\ chan[ctx[t]] = "off")
    BY <1>2, <2>1, <2>2, <2>3
  <2>5. CASE pc'[t] = "fail"
    BY <1>2, <1>4, <1>5, <2>1, <2>5, CopyFactsNext DEF CopyFacts, Prepared, Landed, BodyDelivered,
       CopiedLate, CopySettled, IdleOld, PreparedPCs, WaitingPCs
  <2>6. CASE pc'[t] = "invalidate" /\ chan[ctx[t]] = "off"
    BY <1>2, <1>4, <1>5, <2>1, <2>6, CopyFactsNext DEF CopyFacts, Prepared, Landed, BodyDelivered,
       CopiedLate, CopySettled, IdleOld, PreparedPCs, WaitingPCs
  <2> QED
    BY <2>4, <2>5, <2>6
<1>15. CASE Fail(t)
  <2>1. pc[t] = "fail" /\ pc'[t] = "abort"
    BY <1>2, <1>3, <1>15 DEF Fail
  <2> QED
    BY <1>2, <1>4, <1>5, <2>1, CopyFactsNext DEF CopyFacts, Prepared, Landed, BodyDelivered,
       CopiedLate, CopySettled, IdleOld, PreparedPCs, WaitingPCs
<1>16. CASE Abort(t)
  <2>1. pc[t] = "abort" /\ pc'[t] = "out"
    BY <1>2, <1>3, <1>16 DEF Abort
  <2> QED
    BY <1>2, <1>4, <1>5, <2>1, CopyFactsNext DEF CopyFacts, Prepared, Landed, BodyDelivered,
       CopiedLate, CopySettled, IdleOld, PreparedPCs, WaitingPCs
<1>17. CASE Out(t)
  <2>1. pc[t] = "out" /\ pc'[t] = (IF copied[t] THEN "returned" ELSE "recopy")
    BY <1>2, <1>3, <1>17 DEF Out
  <2> QED
    BY <1>2, <1>4, <1>5, <2>1, CopyFactsNext DEF CopyFacts, Prepared, Landed, BodyDelivered,
       CopiedLate, CopySettled, IdleOld, PreparedPCs, WaitingPCs
<1> QED
  BY <1>6, <1>7, <1>8, <1>9, <1>10, <1>11, <1>12, <1>13, <1>14, <1>15, <1>16, <1>17

\* A delivered line is settled.
LEMMA DeliveredSettled ==
  ASSUME NEW l, Delivered(l)
  PROVE  Settled(l)
  BY DEF Delivered, Settled, Synced

\* The steps of the copy that work on the destination keep its facts.
LEMMA WorkStepCopy ==
  ASSUME MemInv, NEW t \in Tasks, CopyFacts(t),
         \/ Clean(t) \/ Invalidate(t) \/ FinalInvalidate(t) \/ Edges(t) \/ Recopy(t)
  PROVE  CopyFacts(t)'
<1>1. TypeOK /\ \A l \in Lines : Coherent(dst[t][l])
  BY DEF MemInv, OwnershipInv, MemFacts
<1>2. /\ pc \in [Tasks -> PCs] /\ seg \in [Tasks -> Body]
      /\ copied \in [Tasks -> BOOLEAN] /\ Segments \in Nat
      /\ src \in [Tasks -> [Body -> {"dirty", "clean", "gone"}]]
      /\ seg[t] \in Body /\ seg[t] \in Lines /\ seg[t] # Tail
  BY <1>1, SegFacts, SegmentsAssumption DEF TypeOK, TaskTypeOK, MemTypeOK
<1> USE DEF Goto, taskVars, memVars
<1>3. CASE Clean(t)
  <2>1. /\ \A l \in Lines : l # seg[t] => dst'[t][l] = dst[t][l]
        /\ dst'[t][seg[t]].st # "dirty"
    BY <1>1, <1>3, CleanLines
  <2>2. /\ pc[t] = "clean" /\ pc'[t] = "arm" /\ seg' = seg /\ copied' = copied
        /\ src'[t][seg[t]] = "clean"
    BY <1>2, <1>3 DEF Clean
  <2>3. ~copied[t]
    BY <2>2 DEF CopyFacts, CopiedLate
  <2>4. \A s \in Body : s < seg[t] => Delivered(dst'[t][s])
    <3>1. \A s \in Body : s < seg[t] => Delivered(dst[t][s])
      BY <2>2 DEF CopyFacts, BodyDelivered
    <3>2. \A s \in Body : s < seg[t] => s \in Lines /\ s # seg[t]
      BY <1>2, BodyFacts DEF Body
    <3> QED
      BY <2>1, <3>1, <3>2
  <2> QED
    BY <2>1, <2>2, <2>3, <2>4, CopyFactsNext DEF PreparedPCs, WaitingPCs
<1>4. CASE Invalidate(t)
  <2>1. {seg[t]} \in SUBSET Body /\ dst' = Invalidated(t, {seg[t]})
    BY <1>2, <1>4 DEF Invalidate
  <2>2. \A l \in Lines :
          /\ Delivered(dst[t][l]) => Delivered(dst'[t][l])
          /\ l = seg[t] /\ dst[t][l].ram.copy = "new" => Delivered(dst'[t][l])
    BY <1>1, <2>1, InvalidatedLines
  <2>3. pc[t] = "invalidate" /\ copied' = copied
    BY <1>4 DEF Invalidate
  <2>4. \A s \in Body : s < seg[t] => Delivered(dst[t][s])
    BY <2>3 DEF CopyFacts, BodyDelivered, PreparedPCs
  <2>5. dst[t][seg[t]].ram.copy = "new" /\ ~copied[t]
    BY <2>3 DEF CopyFacts, Landed, CopiedLate
  <2>6. \A s \in Body : s <= seg[t] => Delivered(dst'[t][s])
    <3> SUFFICES ASSUME NEW s \in Body, s <= seg[t] PROVE Delivered(dst'[t][s])
      OBVIOUS
    <3>1. s \in Lines
      BY BodyFacts
    <3>2. s = seg[t] \/ s < seg[t]
      BY <1>2 DEF Body
    <3> QED
      BY <2>2, <2>4, <2>5, <3>1, <3>2
  <2>7. CASE seg[t] < Segments
    <3>1. pc'[t] = "drain" /\ seg'[t] = seg[t] + 1
      BY <1>2, <1>4, <2>7 DEF Invalidate
    <3>2. \A s \in Body : s < seg'[t] => Delivered(dst'[t][s])
      BY <1>2, <2>6, <3>1 DEF Body
    <3> QED
      BY <2>3, <2>5, <3>1, <3>2, CopyFactsNext DEF PreparedPCs, WaitingPCs
  <2>8. CASE ~(seg[t] < Segments)
    <3>1. pc'[t] \in {"final", "edges"} /\ seg' = seg
      BY <1>2, <1>4, <2>8 DEF Invalidate
    <3>2. \A s \in Body : Delivered(dst'[t][s])
      BY <1>2, <2>6, <2>8 DEF Body
    <3> QED
      BY <2>3, <2>5, <3>1, <3>2, CopyFactsNext DEF PreparedPCs, WaitingPCs
  <2> QED
    BY <2>7, <2>8
<1>5. CASE FinalInvalidate(t)
  <2>1. \A l \in Lines : Delivered(dst[t][l]) => Delivered(dst'[t][l])
    BY <1>1, <1>5, InvalidatedLines DEF FinalInvalidate
  <2>2. /\ pc[t] = "final" /\ pc'[t] = "edges" /\ copied' = copied /\ seg' = seg
    BY <1>2, <1>5 DEF FinalInvalidate
  <2>3. \A s \in Body : Delivered(dst[t][s])
    BY <2>2 DEF CopyFacts, BodyDelivered
  <2>4. ~copied[t]
    BY <2>2 DEF CopyFacts, CopiedLate
  <2>5. \A s \in Body : Delivered(dst'[t][s])
    BY <2>1, <2>3, BodyFacts
  <2> QED
    BY <2>2, <2>4, <2>5, CopyFactsNext DEF PreparedPCs, WaitingPCs
<1>6. CASE Edges(t)
  <2>1. /\ \A s \in Body : dst'[t][s] = dst[t][s]
        /\ Settled(dst'[t][Tail])
    BY <1>1, <1>6, StoredTailLines DEF Edges
  <2>2. /\ pc[t] = "edges" /\ pc'[t] = "out"
    BY <1>2, <1>6 DEF Edges
  <2>3. \A s \in Body : Delivered(dst[t][s])
    BY <2>2 DEF CopyFacts, BodyDelivered
  <2>4. \A l \in Lines : Settled(dst'[t][l])
    <3> SUFFICES ASSUME NEW l \in Lines PROVE Settled(dst'[t][l])
      OBVIOUS
    <3>1. l \in Body \/ l = Tail
      BY <1>2 DEF Lines, Body, Tail
    <3> QED
      BY <2>1, <2>3, <3>1, DeliveredSettled
  <2> QED
    BY <2>2, <2>4, CopyFactsNext DEF PreparedPCs, WaitingPCs
<1>7. CASE Recopy(t)
  <2>1. \A l \in Lines : Settled(dst'[t][l])
    BY <1>1, <1>7, RecopyLines
  <2>2. pc'[t] = "returned"
    BY <1>2, <1>7 DEF Recopy
  <2> QED
    BY <2>1, <2>2, CopyFactsNext DEF PreparedPCs, WaitingPCs
<1> QED
  BY <1>3, <1>4, <1>5, <1>6, <1>7

\* The caller, the neighbour and the cache keep the facts of a copy.
LEMMA EnvStepCopy ==
  ASSUME MemInv, NEW t \in Tasks, CopyFacts(t), EnvStep(t)
  PROVE  CopyFacts(t)'
<1>1. TypeOK /\ \A l \in Lines : Coherent(dst[t][l])
  BY DEF MemInv, OwnershipInv, MemFacts
<1>2. /\ pc \in [Tasks -> PCs] /\ seg \in [Tasks -> Body]
      /\ copied \in [Tasks -> BOOLEAN]
      /\ src \in [Tasks -> [Body -> {"dirty", "clean", "gone"}]]
      /\ seg[t] \in Body /\ seg[t] \in Lines /\ seg[t] # Tail
  BY <1>1, SegFacts DEF TypeOK, TaskTypeOK, MemTypeOK
<1>3. Tail \in Lines /\ Body \subseteq Lines /\ \A l \in Lines : l \in Body \/ l = Tail
  BY BodyFacts, SegmentsAssumption DEF Lines, Body, Tail
<1> USE DEF Goto, ctxVars, hwVars, taskVars, memVars
<1>4. CASE Call(t)
  <2>1. /\ pc'[t] \in {"claim", "recopy"} /\ seg'[t] = 1 /\ ~copied'[t]
    BY <1>2, <1>4 DEF Call
  <2> QED
    BY <2>1, CopyFactsNext DEF PreparedPCs, WaitingPCs
<1>5. CASE ReuseSource(t)
  <2>1. /\ pc[t] = "returned" /\ pc' = pc /\ seg' = seg /\ copied' = copied
        /\ dst' = dst
    BY <1>5 DEF ReuseSource
  <2>2. \A l \in Lines : Settled(dst[t][l])
    BY <2>1 DEF CopyFacts, CopySettled
  <2> QED
    BY <2>1, <2>2, CopyFactsNext DEF PreparedPCs, WaitingPCs
<1>6. CASE NeighbourStore(t)
  <2>1. /\ \A s \in Body : dst'[t][s] = dst[t][s]
        /\ Synced(dst'[t][Tail])
        /\ dst'[t][Tail].val.copy = dst[t][Tail].val.copy
        /\ dst'[t][Tail].ram = dst[t][Tail].ram
    BY <1>1, <1>6, NeighbourLines
  <2>2. pc' = pc /\ seg' = seg /\ ctx' = ctx /\ copied' = copied /\ src' = src /\ chan' = chan
    BY <1>6 DEF NeighbourStore
  <2>3. dst'[t][seg[t]] = dst[t][seg[t]]
    BY <1>2, <2>1
  <2>4. ASSUME \A l \in Lines : Settled(dst[t][l])
        PROVE  \A l \in Lines : Settled(dst'[t][l])
    <3>1. Settled(dst'[t][Tail])
      BY <1>3, <2>1, <2>4 DEF Settled
    <3> QED
      BY <1>3, <2>1, <2>4, <3>1
  <2>5. Prepared(t)' /\ Landed(t)'
    BY <2>2, <2>3 DEF CopyFacts, Prepared, Landed
  <2>6. BodyDelivered(t)' /\ CopiedLate(t)'
    BY <2>1, <2>2 DEF CopyFacts, BodyDelivered, CopiedLate
  <2>7. CopySettled(t)'
    <3>1. CASE pc[t] = "returned" \/ (pc[t] = "out" /\ copied[t])
      <4>1. \A l \in Lines : Settled(dst'[t][l])
        BY <2>4, <3>1 DEF CopyFacts, CopySettled
      <4> QED
        BY <4>1 DEF CopySettled, Settled, Synced
    <3>2. CASE ~(pc[t] = "returned" \/ (pc[t] = "out" /\ copied[t]))
      BY <2>2, <3>2 DEF CopySettled
    <3> QED
      BY <3>1, <3>2
  <2>8. IdleOld(t)'
    BY <1>3, <2>1, <2>2 DEF CopyFacts, IdleOld
  <2> QED
    BY <2>5, <2>6, <2>7, <2>8 DEF CopyFacts
<1>7. CASE CacheMoves(t)
  <2> DEFINE m(l) == dst'[t][l]
  <2>1. /\ \A s \in Body : src[t][s] = "clean" => src'[t][s] = "clean"
        /\ \A l \in Lines :
              /\ dst[t][l].st # "dirty" => m(l).st # "dirty" /\ m(l).ram = dst[t][l].ram
              /\ dst[t][l].ram.copy = "old" /\ dst[t][l].val.copy = "old" =>
                   m(l).ram.copy = "old" /\ m(l).val.copy = "old"
              /\ Delivered(dst[t][l]) => Delivered(m(l))
              /\ Settled(dst[t][l]) => Settled(m(l))
    BY <1>1, <1>7, MovedLines, Zenon
  <2>2. pc' = pc /\ seg' = seg /\ ctx' = ctx /\ copied' = copied /\ chan' = chan
    BY <1>7 DEF CacheMoves
  <2>3. Prepared(t)'
    BY <1>2, <2>1, <2>2 DEF CopyFacts, Prepared
  <2>4. Landed(t)'
    <3>1. pc[t] = "invalidate" \/ pc[t] \in WaitingPCs => dst[t][seg[t]].st # "dirty"
      BY DEF CopyFacts, Prepared, PreparedPCs
    <3> QED
      BY <1>2, <2>1, <2>2, <3>1 DEF CopyFacts, Landed
  <2>5. BodyDelivered(t)'
    <3>1. \A s \in Body : Delivered(dst[t][s]) => Delivered(m(s))
      BY <1>3, <2>1
    <3> QED
      BY <2>2, <3>1 DEF CopyFacts, BodyDelivered
  <2>6. CopiedLate(t)'
    BY <2>2 DEF CopyFacts, CopiedLate
  <2>7. CopySettled(t)'
    BY <2>1, <2>2 DEF CopyFacts, CopySettled
  <2>8. IdleOld(t)'
    BY <2>1, <2>2 DEF CopyFacts, IdleOld
  <2> QED
    BY <2>3, <2>4, <2>5, <2>6, <2>7, <2>8 DEF CopyFacts
<1> QED
  BY <1>4, <1>5, <1>6, <1>7 DEF EnvStep

\* A channel touches only the copy it works for, and finishes with its last
\* destination write unless an error stops it.
LEMMA HardwareStepCopy ==
  ASSUME ~ErrorHalts, MemInv, NEW u \in Tasks, CopyFacts(u),
         NEW c \in Contexts, Hardware(c)
  PROVE  CopyFacts(u)'
<1>1. /\ TypeOK /\ OwnershipInv /\ OneOwner /\ HolderUsable
      /\ JobHasTask /\ DmaOnlyInsideCall
      /\ \A t \in Tasks, l \in Lines : Coherent(dst[t][l])
  BY DEF MemInv, OwnershipInv, MemFacts
<1>2. /\ pc \in [Tasks -> PCs] /\ seg \in [Tasks -> Body]
      /\ ctx \in [Tasks -> Contexts \cup {None}]
      /\ chan \in [Contexts -> {"off", "moving", "written", "halted"}]
      /\ seg[u] \in Body /\ seg[u] \in Lines
  BY <1>1, SegFacts DEF TypeOK, TaskTypeOK, HwTypeOK
<1>3. pc[u] \in WaitingPCs => ctx[u] \in Contexts
  BY <1>1 DEF HolderUsable, WaitingPCs, HoldingPCs
<1> USE DEF ctxVars, hwVars, taskVars, memVars
<1>4. CASE DmaWrite(c)
  <2> DEFINE t == job[c].task
  <2>1. /\ t \in Tasks /\ seg[t] = job[c].seg
        /\ \A v \in Tasks : v # t => dst'[v] = dst[v]
        /\ \A l \in Lines : l # seg[t] => dst'[t][l] = dst[t][l]
        /\ dst'[t][seg[t]].st = dst[t][seg[t]].st
        /\ src[t][seg[t]] = "clean" => dst'[t][seg[t]].ram.copy = "new"
    BY <1>1, <1>4, DmaLines
  <2>2. /\ pc' = pc /\ ctx' = ctx /\ seg' = seg /\ copied' = copied /\ src' = src
        /\ \A d \in Contexts : d # c => chan'[d] = chan[d]
    BY <1>2, <1>4 DEF DmaWrite
  <2>3. Owner(t, c) /\ pc[t] \in RunningPCs
    BY <1>1, <1>4 DEF DmaWrite, Running, DmaOnlyInsideCall
  <2> HIDE DEF t
  <2>4. CASE u # t
    <3>1. pc[u] \in WaitingPCs => ctx[u] # c
      BY <1>1, <2>1, <2>3, <2>4 DEF OneOwner, Owner, WaitingPCs, HoldingPCs
    <3>2. SameCopy(u)
      BY <1>3, <2>1, <2>2, <2>4, <3>1 DEF SameCopy
    <3> QED
      BY <3>2, SameCopyFacts
  <2>5. CASE u = t
    <3>1. pc[u] \in WaitingPCs \cup {"fail", "abort"}
      BY <2>3, <2>5 DEF RunningPCs, WaitingPCs
    <3>2. ~copied[u]
      BY <3>1 DEF CopyFacts, CopiedLate, WaitingPCs
    <3>3. CASE pc[u] \in WaitingPCs
      <4>1. src[u][seg[u]] = "clean" /\ dst[u][seg[u]].st # "dirty"
        BY <3>3 DEF CopyFacts, Prepared, PreparedPCs
      <4>2. dst'[u][seg[u]].ram.copy = "new" /\ dst'[u][seg[u]].st # "dirty"
        BY <2>1, <2>5, <4>1
      <4>3. \A s \in Body : s < seg[u] => Delivered(dst'[u][s])
        <5>1. \A s \in Body : s < seg[u] => Delivered(dst[u][s])
          BY <3>3 DEF CopyFacts, BodyDelivered, PreparedPCs
        <5>2. \A s \in Body : s < seg[u] => s \in Lines /\ s # seg[u]
          BY <1>2, BodyFacts DEF Body
        <5> QED
          BY <2>1, <2>5, <5>1, <5>2
      <4> QED
        BY <2>2, <3>2, <3>3, <4>1, <4>2, <4>3, CopyFactsNext DEF WaitingPCs
    <3>4. CASE pc[u] \in {"fail", "abort"}
      BY <2>2, <3>2, <3>4, CopyFactsNext DEF PreparedPCs, WaitingPCs
    <3> QED
      BY <3>1, <3>3, <3>4
  <2> QED
    BY <2>4, <2>5
<1>5. CASE DmaDone(c) \/ DmaError(c)
  <2>1. /\ pc' = pc /\ ctx' = ctx /\ seg' = seg /\ copied' = copied
        /\ dst' = dst /\ src' = src
    BY <1>5 DEF DmaDone, DmaError
  <2>2. \A d \in Contexts :
          chan'[d] \in {"off", "written"} => chan[d] \in {"off", "written"}
    <3>1. CASE DmaDone(c)
      BY <1>2, <3>1 DEF DmaDone
    <3>2. CASE DmaError(c)
      BY <1>2, <3>2 DEF DmaError
    <3> QED
      BY <1>5, <3>1, <3>2
  <2>3. Prepared(u)' /\ BodyDelivered(u)' /\ CopiedLate(u)' /\ CopySettled(u)' /\ IdleOld(u)'
    BY <2>1 DEF CopyFacts, Prepared, BodyDelivered, CopiedLate, CopySettled, IdleOld
  <2>4. Landed(u)'
    BY <1>3, <2>1, <2>2 DEF CopyFacts, Landed
  <2> QED
    BY <2>3, <2>4 DEF CopyFacts
<1>6. CASE EarlyInterrupt(c) \/ Isr(c)
  <2>1. /\ pc' = pc /\ ctx' = ctx /\ seg' = seg /\ copied' = copied
        /\ dst' = dst /\ src' = src /\ chan' = chan
    BY <1>6 DEF EarlyInterrupt, Isr
  <2> QED
    BY <2>1, SameCopyFacts DEF SameCopy
<1> QED
  BY <1>4, <1>5, <1>6 DEF Hardware

-----------------------------------------------------------------------------
(* The invariants. *)

\* Nothing is copied and nothing is cached at boot.
LEMMA CopyInit == Init => CopyInv
<1> SUFFICES ASSUME Init PROVE CopyInv
  OBVIOUS
<1>1. \A t \in Tasks, l \in Lines :
        /\ dst[t][l].ram = OldLine(0) /\ dst[t][l].val = OldLine(0)
        /\ dst[t][l].st = "absent"
  BY DEF Init, Uncached
<1>2. \A t \in Tasks : nbLast[t] = 0 /\ pc[t] = "idle" /\ ~copied[t]
  BY DEF Init
<1>3. \A t \in Tasks : MemFacts(t)
  BY <1>1, <1>2, BodyFacts DEF MemFacts, Coherent, Synced, OldLine
<1>4. \A t \in Tasks : CopyFacts(t)
  BY <1>1, <1>2 DEF CopyFacts, Prepared, Landed, BodyDelivered, CopiedLate,
     CopySettled, IdleOld, PreparedPCs, WaitingPCs, OldLine
<1> QED
  BY <1>3, <1>4, OwnershipInit DEF CopyInv, MemInv

\* MemInv is inductive, whatever the hardware does.
LEMMA MemInvStep == MemInv /\ [Next]_vars => MemInv'
  BY OwnershipStep, MemFactsStep DEF MemInv

\* CopyInv is inductive when CH_EN stays set after an error.
LEMMA CopyInvStep ==
  ASSUME ~ErrorHalts, CopyInv, [Next]_vars
  PROVE  CopyInv'
<1>1. MemInv /\ MemInv' /\ \A u \in Tasks : CopyFacts(u)
  BY MemInvStep DEF CopyInv
<1>2. ASSUME NEW u \in Tasks PROVE CopyFacts(u)'
  <2>1. ASSUME NEW t \in Tasks, CallStep(t) \/ EnvStep(t) PROVE CopyFacts(u)'
    <3>1. CASE u # t
      BY <1>1, <2>1, <3>1, OthersSame, SameCopyFacts
    <3>2. CASE u = t
      BY <1>1, <2>1, <3>2, QuietStepCopy, WorkStepCopy, EnvStepCopy DEF CallStep
    <3> QED
      BY <3>1, <3>2
  <2>2. ASSUME NEW c \in Contexts, Hardware(c) PROVE CopyFacts(u)'
    BY <1>1, <2>2, HardwareStepCopy
  <2>3. CASE UNCHANGED vars
    <3>1. SameCopy(u)
      BY <2>3 DEF SameCopy, vars, taskVars, memVars, hwVars
    <3> QED
      BY <1>1, <3>1, SameCopyFacts
  <2> QED
    BY <2>1, <2>2, <2>3 DEF Next
<1> QED
  BY <1>1, <1>2 DEF CopyInv

\* What a neighbour stored in the shared tail line is never lost to a copy, for
\* any number of tasks, contexts and transactions and whatever the hardware
\* does, as long as the ROM's invalidate stays inside its range (the claim of
\* large_memcpy_gdma.c that unrelated caller data cannot be discarded).
THEOREM NeighbourSafe == Spec => []NeighbourKept
<1>1. Init => MemInv
  BY CopyInit DEF CopyInv
<1>2. MemInv => NeighbourKept
  BY DEF MemInv, MemFacts, NeighbourKept
<1> QED
  BY <1>1, <1>2, MemInvStep, PTL DEF Spec

\* The inductive invariant of the copies holds throughout.
THEOREM CopyInvariant == ASSUME ~ErrorHalts PROVE Spec => []CopyInv
<1>1. CopyInv /\ [Next]_vars => CopyInv'
  BY CopyInvStep
<1> QED
  BY <1>1, CopyInit, PTL DEF Spec

\* A transaction is accepted only after its last destination write, although the
\* interrupt may come early, on a channel whose CH_EN stays set after a bus error
\* (the CH_EN test that ends large_memcpy_gdma_wait).
THEOREM AcceptedAfterLastWrite == ASSUME ~ErrorHalts PROVE Spec => []AcceptedIsWritten
<1>1. CopyInv => AcceptedIsWritten
  BY DEF CopyInv, CopyFacts, Landed, AcceptedIsWritten
<1> QED
  BY <1>1, CopyInvariant, PTL

-----------------------------------------------------------------------------
(* The service the callers see. *)

\* The phase of a task follows its pc, and its destination is whole or not.
LEMMA PhaseFacts ==
  /\ \A label \in PCs :
       /\ PhaseOf(label) = "idle" <=> label = "idle"
       /\ PhaseOf(label) = "complete" <=> label = "returned"
       /\ PhaseOf(label) = "running" <=> label \notin {"idle", "returned"}
  /\ \A t \in Tasks : Whole(t) \in BOOLEAN
  BY DEF PhaseOf, PCs, Whole

\* A task whose lines are settled has a whole destination.
LEMMA SettledWhole ==
  ASSUME NEW t \in Tasks, \A l \in Lines : Settled(dst[t][l])
  PROVE  Whole(t) = TRUE
  BY DEF Whole, Settled

\* A destination with an old line is not whole.
LEMMA OldNotWhole ==
  ASSUME NEW t \in Tasks, \A l \in Lines : dst[t][l].val.copy = "old"
  PROVE  Whole(t) = FALSE
  BY BodyFacts DEF Whole

\* At boot every caller is idle and no destination holds a copy.
LEMMA ServiceInit == Init => Service!Init
<1> SUFFICES ASSUME Init PROVE Service!Init
  OBVIOUS
<1>1. \A t \in Tasks, l \in Lines : dst[t][l].val.copy = "old"
  BY DEF Init, Uncached, OldLine
<1>2. \A t \in Tasks : Whole(t) = FALSE
  BY <1>1, OldNotWhole
<1>3. \A t \in Tasks : PhaseOf(pc[t]) = "idle"
  BY DEF Init, PhaseOf
<1> QED
  BY <1>2, <1>3 DEF Service!Init

\* Every step of the copy paths, the DMA and the cache is a step of the service
\* or invisible to its callers.
LEMMA ServiceStep ==
  ASSUME CopyInv, CopyInv', [Next]_vars
  PROVE  [Service!Next]_(Service!svcVars)
<1> DEFINE phase == [t \in Tasks |-> PhaseOf(pc[t])]
           whole == [t \in Tasks |-> Whole(t)]
<1>1. /\ TypeOK /\ OwnershipInv /\ \A t \in Tasks : CopyFacts(t) /\ CopyFacts(t)'
      /\ \A t \in Tasks, l \in Lines : Coherent(dst[t][l])
  BY DEF CopyInv, MemInv, OwnershipInv, MemFacts
<1>2. pc \in [Tasks -> PCs] /\ pc' \in [Tasks -> PCs]
  BY DEF CopyInv, MemInv, OwnershipInv, TypeOK, TaskTypeOK
<1>3. \A t \in Tasks : Whole(t) \in BOOLEAN /\ Whole(t)' \in BOOLEAN
  BY DEF Whole
<1>4. \A t \in Tasks : /\ pc[t] = "returned" => Whole(t) = TRUE
                       /\ pc[t] = "idle" => Whole(t) = FALSE
  BY <1>1, SettledWhole, OldNotWhole DEF CopyFacts, CopySettled, IdleOld
<1>5. \A t \in Tasks : /\ pc'[t] = "returned" => Whole(t)' = TRUE
                       /\ pc'[t] = "idle" => Whole(t)' = FALSE
  BY <1>1, BodyFacts DEF CopyFacts, CopySettled, IdleOld, Whole, Settled
<1>6. ASSUME NEW t \in Tasks,
             \A u \in Tasks : u # t => pc'[u] = pc[u] /\ dst'[u] = dst[u],
             pc[t] \notin {"idle", "returned"}, pc'[t] \notin {"idle", "returned"}
      PROVE  Service!Next
  <2>1. \A u \in Tasks : u # t => Whole(u)' = Whole(u)
    BY <1>6 DEF Whole
  <2>2. phase' = phase /\ phase[t] = "running"
    BY <1>2, <1>6, PhaseFacts
  <2>3. whole' = [whole EXCEPT ![t] = Whole(t)']
    BY <1>3, <2>1
  <2>4. Service!Work(t)
    BY <1>3, <2>2, <2>3 DEF Service!Work
  <2> QED
    BY <2>4 DEF Service!Next
<1>7. ASSUME NEW t \in Tasks,
             \A u \in Tasks : u # t => pc'[u] = pc[u] /\ dst'[u] = dst[u],
             pc[t] \notin {"idle", "returned"}, pc'[t] = "returned"
      PROVE  Service!Next
  <2>1. \A u \in Tasks : u # t => Whole(u)' = Whole(u)
    BY <1>7 DEF Whole
  <2>2. phase[t] = "running" /\ phase' = [phase EXCEPT ![t] = "complete"]
    <3>1. PhaseOf(pc[t]) = "running" /\ PhaseOf(pc'[t]) = "complete"
      BY <1>2, <1>7, PhaseFacts
    <3>2. \A u \in Tasks : u # t => PhaseOf(pc'[u]) = PhaseOf(pc[u])
      BY <1>7
    <3> QED
      BY <3>1, <3>2
  <2>3. whole' = [whole EXCEPT ![t] = TRUE]
    BY <1>3, <1>5, <1>7, <2>1
  <2>4. Service!Finish(t)
    BY <2>2, <2>3 DEF Service!Finish
  <2> QED
    BY <2>4 DEF Service!Next
<1>8. ASSUME NEW t \in Tasks,
             \A u \in Tasks : u # t => pc'[u] = pc[u] /\ dst'[u] = dst[u],
             pc[t] \in {"idle", "returned"}, pc'[t] \notin {"idle", "returned"},
             Whole(t)' = FALSE
      PROVE  Service!Next
  <2>1. \A u \in Tasks : u # t => Whole(u)' = Whole(u)
    BY <1>8 DEF Whole
  <2>2. phase[t] # "running" /\ phase' = [phase EXCEPT ![t] = "running"]
    <3>1. PhaseOf(pc[t]) # "running" /\ PhaseOf(pc'[t]) = "running"
      BY <1>2, <1>8, PhaseFacts
    <3>2. \A u \in Tasks : u # t => PhaseOf(pc'[u]) = PhaseOf(pc[u])
      BY <1>8
    <3> QED
      BY <3>1, <3>2
  <2>3. whole' = [whole EXCEPT ![t] = FALSE]
    BY <1>3, <1>8, <2>1
  <2>4. Service!Begin(t)
    BY <2>2, <2>3 DEF Service!Begin
  <2> QED
    BY <2>4 DEF Service!Next
<1>9. ASSUME NEW t \in Tasks, pc' = pc,
             \A u \in Tasks : u # t => dst'[u] = dst[u],
             pc[t] \in {"idle", "returned"}
      PROVE  UNCHANGED Service!svcVars
  <2>1. \A u \in Tasks : u # t => Whole(u)' = Whole(u)
    BY <1>9 DEF Whole
  <2>2. Whole(t)' = Whole(t)
    BY <1>4, <1>5, <1>9
  <2>3. phase' = phase /\ whole' = whole
    BY <1>9, <2>1, <2>2
  <2> QED
    BY <2>3 DEF Service!svcVars
<1>10. ASSUME pc' = pc, dst' = dst PROVE UNCHANGED Service!svcVars
  BY <1>10 DEF Service!svcVars, Whole
<1>11. ASSUME NEW t \in Tasks, CallStep(t) PROVE Service!Next
  <2>1. \A u \in Tasks : u # t => pc'[u] = pc[u] /\ dst'[u] = dst[u]
    <3>1. \A u \in Tasks : u # t => SameCopy(u)
      BY <1>11, OthersSame DEF CopyInv
    <3> QED
      BY <3>1 DEF SameCopy
  <2>2. pc[t] \notin {"idle", "returned"} /\ pc'[t] # "idle"
    BY <1>2, <1>11 DEF CallStep, Claim, Drain, Clean, Arm, Submit, Reject,
       WaitTaken, WaitTimeout, PollEnd, Check, Fail, Abort, Invalidate,
       FinalInvalidate, Edges, Out, Recopy, Goto
  <2> QED
    BY <1>6, <1>7, <2>1, <2>2
<1>12. ASSUME NEW t \in Tasks, EnvStep(t)
       PROVE  Service!Next \/ UNCHANGED Service!svcVars
  <2>1. \A u \in Tasks : u # t => pc'[u] = pc[u] /\ dst'[u] = dst[u]
    <3>1. \A u \in Tasks : u # t => SameCopy(u)
      BY <1>12, OthersSame DEF CopyInv
    <3> QED
      BY <3>1 DEF SameCopy
  <2>2. CASE Call(t)
    <3>1. pc[t] \in {"idle", "returned"} /\ pc'[t] \in {"claim", "recopy"}
      BY <1>2, <2>2 DEF Call, Goto
    <3>2. \A l \in Lines : dst'[t][l].val.copy = "old"
      BY <1>1, <2>2, CallLines
    <3>3. Whole(t)' = FALSE
      BY <3>2, BodyFacts DEF Whole
    <3> QED
      BY <1>8, <2>1, <3>1, <3>3
  <2>3. CASE ReuseSource(t) \/ NeighbourStore(t) \/ CacheMoves(t)
    <3>1. pc' = pc
      BY <2>3 DEF ReuseSource, NeighbourStore, CacheMoves, taskVars
    <3>2. CASE pc[t] \in {"idle", "returned"}
      BY <1>9, <2>1, <3>1, <3>2
    <3>3. CASE pc[t] \notin {"idle", "returned"}
      BY <1>6, <2>1, <3>1, <3>3
    <3> QED
      BY <3>2, <3>3
  <2> QED
    BY <1>12, <2>2, <2>3 DEF EnvStep
<1>13. ASSUME NEW c \in Contexts, Hardware(c)
       PROVE  Service!Next \/ UNCHANGED Service!svcVars
  <2>1. pc' = pc
    BY <1>13 DEF Hardware, DmaWrite, DmaDone, EarlyInterrupt, DmaError, Isr, taskVars
  <2>2. CASE DmaWrite(c)
    <3> DEFINE t == job[c].task
    <3>1. t \in Tasks /\ \A u \in Tasks : u # t => dst'[u] = dst[u]
      BY <1>1, <2>2, DmaLines
    <3>2. pc[t] \in RunningPCs
      BY <1>1, <2>2 DEF DmaWrite, Running, OwnershipInv, DmaOnlyInsideCall
    <3> HIDE DEF t
    <3> QED
      BY <1>6, <2>1, <3>1, <3>2 DEF RunningPCs
  <2>3. CASE DmaDone(c) \/ EarlyInterrupt(c) \/ DmaError(c) \/ Isr(c)
    <3>1. dst' = dst
      BY <2>3 DEF DmaDone, EarlyInterrupt, DmaError, Isr, memVars
    <3> QED
      BY <1>10, <2>1, <3>1
  <2> QED
    BY <1>13, <2>2, <2>3 DEF Hardware
<1>14. CASE UNCHANGED vars
  <2>1. pc' = pc /\ dst' = dst
    BY <1>14 DEF vars, taskVars, memVars
  <2> QED
    BY <1>10, <2>1
<1> QED
  BY <1>11, <1>12, <1>13, <1>14 DEF Next

\* Whatever interleaving of tasks, interrupts, DMA writes and cache moves occurs,
\* callers see a plain copy: it returns whole and stays whole until the next call
\* (__wrap_memcpy and the copyv callers with their CPU fallback).
THEOREM ServiceRefined ==
  ASSUME ~ErrorHalts
  PROVE  Spec => Service!Spec
<1>1. CopyInv /\ CopyInv' /\ [Next]_vars => [Service!Next]_(Service!svcVars)
  BY ServiceStep
<1> QED
  BY <1>1, CopyInvariant, ServiceInit, PTL DEF Spec, Service!Spec
=============================================================================
