--------------------------- MODULE ActionOtaProofs ---------------------------
(***************************************************************************)
(* Proofs about ActionOta: for any versions, frames, queue depth, number   *)
(* of attempts and report period, the types, the ownership of messages,    *)
(* the bound on cached answers, the reasons for a reset and the respect    *)
(* for CarPlay.                                                            *)
(***************************************************************************)
EXTENDS ActionOta, TLAPS

\* A message is held exactly between two steps that pass it on.
Handed == /\ pc \in {"taken", "parse"} <=> msg # 0
          /\ rx = "copied" <=> rxMsg # 0

\* The attempts that are left and those that failed make up all.
Counting == /\ pc \in {"connect", "dhcp"} => retries > 0 /\ retries + failures = MaxRetries
            /\ pc \notin {"connect", "dhcp", "reset"} => failures = 0
            /\ pc = "update" => told

\* No more answers came from the cache than frames were counted.
Cached == cachedRun <= idle


\* The types of the flags and of everything else.
Flags == /\ radio \in BOOLEAN /\ carplay \in BOOLEAN /\ hasQueue \in BOOLEAN
         /\ busy \in BOOLEAN /\ reported \in BOOLEAN /\ told \in BOOLEAN
         /\ idleSeen \in BOOLEAN
Data == /\ image \in [Slots -> Versions \cup {NoImage}] /\ running \in Slots \cup {0}
        /\ rx \in {"none", "allowed", "copied"} /\ pc \in PCs
        /\ rxMsg \in Messages \cup {0} /\ msg \in Messages \cup {0}
        /\ req \in Frames \cup {Free}
        /\ retries \in 0 .. MaxRetries /\ idle \in 0 .. Period - 1
        /\ failures \in Nat /\ cachedRun \in Nat
Memory == /\ queue \in Seq(Messages) /\ Len(queue) <= QueueSize
          /\ heap \in [Messages -> Frames \cup {Free}]

\* MessagesOwned, block by block.
Owned == /\ \A m \in Messages : heap[m] # Free =>
               m = rxMsg \/ m = msg \/ \E i \in 1 .. Len(queue) : queue[i] = m
         /\ rxMsg # 0 => heap[rxMsg] # Free /\ rxMsg # msg
         /\ msg # 0 => heap[msg] # Free
         /\ \A i \in 1 .. Len(queue) :
               heap[queue[i]] # Free /\ queue[i] # rxMsg /\ queue[i] # msg
         /\ \A i, j \in 1 .. Len(queue) : queue[i] = queue[j] => i = j

\* The parts of the type invariant, and the block-wise form of MessagesOwned.
LEMMA TypeParts == TypeOK <=> Flags /\ Data /\ Memory
BY DEF TypeOK, Flags, Data, Memory

LEMMA OwnedBlocks == TypeOK /\ Owned => MessagesOwned
PROOF
<1> SUFFICES ASSUME TypeOK, Owned PROVE MessagesOwned
  OBVIOUS
<1> DEFINE inQueue == {queue[i] : i \in 1 .. Len(queue)}
           held == {rxMsg, msg} \ {0}
<1>1. \A i \in 1 .. Len(queue) : queue[i] \in Messages
  BY TypeParts DEF Memory
<1> USE DEF TypeOK, Owned, Messages
<1>2. {m \in Messages : heap[m] # Free} \subseteq inQueue \cup held
  OBVIOUS
<1>3. inQueue \cup held \subseteq {m \in Messages : heap[m] # Free}
  BY <1>1
<1>4. inQueue \cap held = {}
  OBVIOUS
<1> QED BY <1>2, <1>3, <1>4 DEF MessagesOwned

\* The steps that leave the messages alone.
Quiet == \/ Boot \/ CarPlayTurns \/ RadioOn \/ RadioOff \/ RxFrame
         \/ MarkBusy \/ AnswerFromCache \/ Judge \/ Connected \/ ConnectFails
         \/ Assigned \/ DhcpFails \/ LookAtUrl \/ Report \/ UpdateInit
         \/ Erase \/ Commit \/ UpdateFails \/ Finish

\* They keep every block where it is.
LEMMA QuietKeeps == Quiet \/ UNCHANGED vars => UNCHANGED <<queue, heap, rxMsg, msg>>
BY DEF Quiet, vars, Boot, CarPlayTurns, RadioOn, RadioOff, RxFrame, MarkBusy,
       AnswerFromCache, Judge, Connected, ConnectFails, Assigned, DhcpFails, LookAtUrl,
       Report, UpdateInit, Erase, Commit, UpdateFails, Finish, WorkerKeeps, rxVars,
       memVars, workVars

\* Every step keeps the flags flags.
LEMMA FlagsStep ==
  Flags /\ [Next]_vars => Flags'
PROOF
<1> SUFFICES ASSUME Flags, [Next]_vars PROVE Flags'
  OBVIOUS
<1> USE DEF Flags, WorkerKeeps, Watched, WatchedAnew, slotVars, envVars, rxVars,
        memVars, reportVars, workVars
<1>1. ASSUME Boot PROVE Flags'
  BY <1>1, Zenon DEF Boot
<1>2. ASSUME Off PROVE Flags'
  BY <1>2, Zenon DEF Off, RamCleared
<1>3. ASSUME CarPlayTurns PROVE Flags'
  BY <1>3, Zenon DEF CarPlayTurns
<1>4. ASSUME RadioOn PROVE Flags'
  BY <1>4, Zenon DEF RadioOn
<1>5. ASSUME RadioOff PROVE Flags'
  BY <1>5, Zenon DEF RadioOff
<1>6. ASSUME RxFrame PROVE Flags'
  BY <1>6, Zenon DEF RxFrame
<1>7. ASSUME RxCopy PROVE Flags'
  BY <1>7, Zenon DEF RxCopy
<1>8. ASSUME RxSend PROVE Flags'
  BY <1>8, Zenon DEF RxSend
<1>9. ASSUME Receive PROVE Flags'
  BY <1>9, Zenon DEF Receive
<1>10. ASSUME MarkBusy PROVE Flags'
  BY <1>10, Zenon DEF MarkBusy
<1>11. ASSUME Parse PROVE Flags'
  BY <1>11, Zenon DEF Parse
<1>12. ASSUME AnswerFromCache PROVE Flags'
  BY <1>12, Zenon DEF AnswerFromCache, StillReported, Same, Build, Counted,
     OneMore
<1>13. ASSUME Judge PROVE Flags'
  BY <1>13, Zenon DEF Judge, StillReported, Same, Build, Counted, OneMore
<1>14. ASSUME Connected PROVE Flags'
  BY <1>14, Zenon DEF Connected
<1>15. ASSUME ConnectFails PROVE Flags'
  BY <1>15, Zenon DEF ConnectFails
<1>16. ASSUME Assigned PROVE Flags'
  BY <1>16, Zenon DEF Assigned
<1>17. ASSUME DhcpFails PROVE Flags'
  BY <1>17, Zenon DEF DhcpFails
<1>18. ASSUME LookAtUrl PROVE Flags'
  BY <1>18, Zenon DEF LookAtUrl, GoOn
<1>19. ASSUME Report PROVE Flags'
  BY <1>19, Zenon DEF Report, Same, Build
<1>20. ASSUME UpdateInit PROVE Flags'
  BY <1>20, Zenon DEF UpdateInit
<1>21. ASSUME Erase PROVE Flags'
  BY <1>21, Zenon DEF Erase, Other
<1>22. ASSUME Commit PROVE Flags'
  BY <1>22, Zenon DEF Commit, Other
<1>23. ASSUME UpdateFails PROVE Flags'
  BY <1>23, Zenon DEF UpdateFails
<1>24. ASSUME Reset PROVE Flags'
  BY <1>24, Zenon DEF Reset, Off, RamCleared
<1>25. ASSUME Finish PROVE Flags'
  BY <1>25, Zenon DEF Finish
<1>26. ASSUME UNCHANGED vars PROVE Flags'
  BY <1>26, Zenon DEF vars
<1> QED
  BY <1>1, <1>2, <1>3, <1>4, <1>5, <1>6, <1>7, <1>8, <1>9, <1>10, <1>11, <1>12,
     <1>13, <1>14, <1>15, <1>16, <1>17, <1>18, <1>19, <1>20, <1>21, <1>22, <1>23,
     <1>24, <1>25, <1>26
     DEF Next, Device, Callback, Worker, Join, Update

\* Every step keeps the types of positions, versions, blocks and counts.
LEMMA DataStep ==
  TypeOK /\ Handed /\ Counting /\ [Next]_vars => Data'
PROOF
<1> SUFFICES ASSUME TypeOK /\ Handed /\ Counting, [Next]_vars PROVE Data'
  OBVIOUS
<1> USE DEF TypeOK, Data, Handed, Counting, Slots, Messages, PCs, WorkerKeeps,
        Watched, WatchedAnew, slotVars, envVars, rxVars, memVars, reportVars,
        workVars
<1>1. ASSUME Boot PROVE Data'
  BY <1>1, FramesAssumption, SizesAssumption DEF Boot
<1>2. ASSUME Off PROVE Data'
  BY <1>2, FramesAssumption, SizesAssumption DEF Off, RamCleared
<1>3. ASSUME CarPlayTurns PROVE Data'
  BY <1>3, FramesAssumption, SizesAssumption DEF CarPlayTurns
<1>4. ASSUME RadioOn PROVE Data'
  BY <1>4, FramesAssumption, SizesAssumption DEF RadioOn
<1>5. ASSUME RadioOff PROVE Data'
  BY <1>5, FramesAssumption, SizesAssumption DEF RadioOff
<1>6. ASSUME RxFrame PROVE Data'
  BY <1>6, FramesAssumption, SizesAssumption DEF RxFrame
<1>7. ASSUME RxCopy PROVE Data'
  BY <1>7, FramesAssumption, SizesAssumption DEF RxCopy
<1>8. ASSUME RxSend PROVE Data'
  BY <1>8, FramesAssumption, SizesAssumption DEF RxSend
<1>9. ASSUME Receive PROVE Data'
  BY <1>9, FramesAssumption, SizesAssumption DEF Receive
<1>10. ASSUME MarkBusy PROVE Data'
  BY <1>10, FramesAssumption, SizesAssumption DEF MarkBusy
<1>11. ASSUME Parse PROVE Data'
  BY <1>11, FramesAssumption, SizesAssumption DEF Parse
<1>12. ASSUME AnswerFromCache PROVE Data'
  BY <1>12, FramesAssumption, SizesAssumption DEF AnswerFromCache, StillReported,
     Same, Build, Counted, OneMore
<1>13. ASSUME Judge PROVE Data'
  BY <1>13, FramesAssumption, SizesAssumption DEF Judge, StillReported, Same,
     Build, Counted, OneMore
<1>14. ASSUME Connected PROVE Data'
  BY <1>14, FramesAssumption, SizesAssumption DEF Connected
<1>15. ASSUME ConnectFails PROVE Data'
  BY <1>15, FramesAssumption, SizesAssumption DEF ConnectFails
<1>16. ASSUME Assigned PROVE Data'
  BY <1>16, FramesAssumption, SizesAssumption DEF Assigned
<1>17. ASSUME DhcpFails PROVE Data'
  BY <1>17, FramesAssumption, SizesAssumption DEF DhcpFails
<1>18. ASSUME LookAtUrl PROVE Data'
  BY <1>18, FramesAssumption, SizesAssumption DEF LookAtUrl, GoOn
<1>19. ASSUME Report PROVE Data'
  BY <1>19, FramesAssumption, SizesAssumption DEF Report, Same, Build
<1>20. ASSUME UpdateInit PROVE Data'
  BY <1>20, FramesAssumption, SizesAssumption DEF UpdateInit
<1>21. ASSUME Erase PROVE Data'
  <2>1. PICK v \in Versions \cup {NoImage} : image' = [image EXCEPT ![Other] = v]
    BY <1>21 DEF Erase
  <2>2. image' \in [Slots -> Versions \cup {NoImage}]
    BY <2>1
  <2> QED BY <1>21, <2>2, SizesAssumption DEF Erase
<1>22. ASSUME Commit PROVE Data'
  <2>1. PICK v \in Versions \cup {NoImage} : image' = [image EXCEPT ![Other] = v]
    BY <1>22 DEF Commit, Packages
  <2>2. image' \in [Slots -> Versions \cup {NoImage}]
    BY <2>1
  <2> QED BY <1>22, <2>2, SizesAssumption DEF Commit
<1>23. ASSUME UpdateFails PROVE Data'
  BY <1>23, FramesAssumption, SizesAssumption DEF UpdateFails
<1>24. ASSUME Reset PROVE Data'
  BY <1>24, FramesAssumption, SizesAssumption DEF Reset, Off, RamCleared
<1>25. ASSUME Finish PROVE Data'
  BY <1>25, FramesAssumption, SizesAssumption DEF Finish
<1>26. ASSUME UNCHANGED vars PROVE Data'
  BY <1>26, FramesAssumption, SizesAssumption DEF vars
<1> QED
  BY <1>1, <1>2, <1>3, <1>4, <1>5, <1>6, <1>7, <1>8, <1>9, <1>10, <1>11, <1>12,
     <1>13, <1>14, <1>15, <1>16, <1>17, <1>18, <1>19, <1>20, <1>21, <1>22, <1>23,
     <1>24, <1>25, <1>26
     DEF Next, Device, Callback, Worker, Join, Update

\* Every step keeps the types of queue and heap.
LEMMA MemoryStep == TypeOK /\ Handed /\ [Next]_vars => Memory'
PROOF
<1> SUFFICES ASSUME Memory, Handed, rxMsg \in Messages \cup {0}, msg \in Messages \cup {0},
                    [Next]_vars
             PROVE  Memory'
  BY TypeParts DEF Data
<1> USE DEF Memory
<1>1. ASSUME Quiet \/ UNCHANGED vars PROVE Memory'
  BY <1>1, QuietKeeps
<1>2. ASSUME Off PROVE Memory'
  <2>1. queue' = <<>> /\ heap' = [m \in Messages |-> Free]
    BY <1>2 DEF Off, RamCleared
  <2> QED BY <2>1, SizesAssumption
<1>3. ASSUME RxCopy PROVE Memory'
  <2>1. queue' = queue
    BY <1>3 DEF RxCopy
  <2>2. \/ heap' = heap
        \/ \E m \in Messages, f \in Frames : heap' = [heap EXCEPT ![m] = f]
    BY <1>3 DEF RxCopy
  <2> QED BY <2>1, <2>2
<1>4. ASSUME RxSend PROVE Memory'
  <2>1. rxMsg \in Messages
    BY <1>4 DEF RxSend, Handed
  <2>2. CASE Len(queue) < QueueSize
    <3>1. queue' = Append(queue, rxMsg) /\ heap' = heap
      BY <1>4, <2>2 DEF RxSend
    <3> QED BY <3>1, <2>1, <2>2, SizesAssumption
  <2>3. CASE ~(Len(queue) < QueueSize)
    <3>1. queue' = queue /\ heap' = [heap EXCEPT ![rxMsg] = Free]
      BY <1>4, <2>3 DEF RxSend
    <3> QED BY <3>1
  <2> QED BY <2>2, <2>3
<1>5. ASSUME Receive PROVE Memory'
  <2>1. queue # <<>> /\ queue' = Tail(queue) /\ heap' = heap
    BY <1>5 DEF Receive
  <2> QED BY <2>1, SizesAssumption
<1>6. ASSUME Parse PROVE Memory'
  <2>1. queue' = queue /\ heap' = [heap EXCEPT ![msg] = Free]
    BY <1>6 DEF Parse
  <2> QED BY <2>1
<1> QED
  BY <1>1, <1>2, <1>3, <1>4, <1>5, <1>6
     DEF Next, Device, Callback, Worker, Join, Update, Reset, Quiet

\* Messages are handed on.
LEMMA HandedStep ==
  TypeOK /\ Handed /\ [Next]_vars => Handed'
PROOF
<1> SUFFICES ASSUME TypeOK /\ Handed, [Next]_vars PROVE Handed'
  OBVIOUS
<1> USE DEF TypeOK, Handed, Messages, WorkerKeeps, Watched, WatchedAnew, slotVars,
        envVars, rxVars, memVars, reportVars, workVars
<1>1. ASSUME Boot PROVE Handed'
  BY <1>1 DEF Boot
<1>2. ASSUME Off PROVE Handed'
  BY <1>2 DEF Off, RamCleared
<1>3. ASSUME CarPlayTurns PROVE Handed'
  BY <1>3 DEF CarPlayTurns
<1>4. ASSUME RadioOn PROVE Handed'
  BY <1>4 DEF RadioOn
<1>5. ASSUME RadioOff PROVE Handed'
  BY <1>5 DEF RadioOff
<1>6. ASSUME RxFrame PROVE Handed'
  BY <1>6 DEF RxFrame
<1>7. ASSUME RxCopy PROVE Handed'
  BY <1>7 DEF RxCopy
<1>8. ASSUME RxSend PROVE Handed'
  BY <1>8 DEF RxSend
<1>9. ASSUME Receive PROVE Handed'
  BY <1>9, SMTT(30) DEF Receive
<1>10. ASSUME MarkBusy PROVE Handed'
  BY <1>10 DEF MarkBusy
<1>11. ASSUME Parse PROVE Handed'
  BY <1>11 DEF Parse
<1>12. ASSUME AnswerFromCache PROVE Handed'
  BY <1>12 DEF AnswerFromCache, StillReported, Same, Build, Counted, OneMore
<1>13. ASSUME Judge PROVE Handed'
  BY <1>13 DEF Judge, StillReported, Same, Build, Counted, OneMore
<1>14. ASSUME Connected PROVE Handed'
  BY <1>14 DEF Connected
<1>15. ASSUME ConnectFails PROVE Handed'
  BY <1>15 DEF ConnectFails
<1>16. ASSUME Assigned PROVE Handed'
  BY <1>16 DEF Assigned
<1>17. ASSUME DhcpFails PROVE Handed'
  BY <1>17 DEF DhcpFails
<1>18. ASSUME LookAtUrl PROVE Handed'
  BY <1>18 DEF LookAtUrl, GoOn
<1>19. ASSUME Report PROVE Handed'
  BY <1>19 DEF Report, Same, Build
<1>20. ASSUME UpdateInit PROVE Handed'
  BY <1>20 DEF UpdateInit
<1>21. ASSUME Erase PROVE Handed'
  BY <1>21 DEF Erase, Other
<1>22. ASSUME Commit PROVE Handed'
  BY <1>22 DEF Commit, Other
<1>23. ASSUME UpdateFails PROVE Handed'
  BY <1>23 DEF UpdateFails
<1>24. ASSUME Reset PROVE Handed'
  BY <1>24 DEF Reset, Off, RamCleared
<1>25. ASSUME Finish PROVE Handed'
  BY <1>25 DEF Finish
<1>26. ASSUME UNCHANGED vars PROVE Handed'
  BY <1>26 DEF vars
<1> QED
  BY <1>1, <1>2, <1>3, <1>4, <1>5, <1>6, <1>7, <1>8, <1>9, <1>10, <1>11, <1>12,
     <1>13, <1>14, <1>15, <1>16, <1>17, <1>18, <1>19, <1>20, <1>21, <1>22, <1>23,
     <1>24, <1>25, <1>26
     DEF Next, Device, Callback, Worker, Join, Update

\* Attempts are counted once.
LEMMA CountingStep ==
  TypeOK /\ Counting /\ [Next]_vars => Counting'
PROOF
<1> SUFFICES ASSUME TypeOK /\ Counting, [Next]_vars PROVE Counting'
  OBVIOUS
<1> USE DEF TypeOK, Counting, WorkerKeeps, Watched, WatchedAnew, slotVars, envVars,
        rxVars, memVars, reportVars, workVars
<1>1. ASSUME Boot PROVE Counting'
  BY <1>1, SizesAssumption DEF Boot
<1>2. ASSUME Off PROVE Counting'
  BY <1>2, SizesAssumption DEF Off, RamCleared
<1>3. ASSUME CarPlayTurns PROVE Counting'
  BY <1>3, SizesAssumption DEF CarPlayTurns
<1>4. ASSUME RadioOn PROVE Counting'
  BY <1>4, SizesAssumption DEF RadioOn
<1>5. ASSUME RadioOff PROVE Counting'
  BY <1>5, SizesAssumption DEF RadioOff
<1>6. ASSUME RxFrame PROVE Counting'
  BY <1>6, SizesAssumption DEF RxFrame
<1>7. ASSUME RxCopy PROVE Counting'
  BY <1>7, SizesAssumption DEF RxCopy
<1>8. ASSUME RxSend PROVE Counting'
  BY <1>8, SizesAssumption DEF RxSend
<1>9. ASSUME Receive PROVE Counting'
  BY <1>9, SizesAssumption DEF Receive
<1>10. ASSUME MarkBusy PROVE Counting'
  BY <1>10, SizesAssumption DEF MarkBusy
<1>11. ASSUME Parse PROVE Counting'
  BY <1>11, SizesAssumption DEF Parse
<1>12. ASSUME AnswerFromCache PROVE Counting'
  BY <1>12, SizesAssumption DEF AnswerFromCache, StillReported, Same, Build,
     Counted, OneMore
<1>13. ASSUME Judge PROVE Counting'
  BY <1>13, SizesAssumption DEF Judge, StillReported, Same, Build, Counted,
     OneMore
<1>14. ASSUME Connected PROVE Counting'
  BY <1>14, SizesAssumption DEF Connected
<1>15. ASSUME ConnectFails PROVE Counting'
  BY <1>15, SizesAssumption DEF ConnectFails
<1>16. ASSUME Assigned PROVE Counting'
  BY <1>16, SizesAssumption DEF Assigned
<1>17. ASSUME DhcpFails PROVE Counting'
  BY <1>17, SizesAssumption DEF DhcpFails
<1>18. ASSUME LookAtUrl PROVE Counting'
  BY <1>18, SizesAssumption DEF LookAtUrl, GoOn
<1>19. ASSUME Report PROVE Counting'
  BY <1>19, SizesAssumption DEF Report, Same, Build
<1>20. ASSUME UpdateInit PROVE Counting'
  BY <1>20, SizesAssumption DEF UpdateInit
<1>21. ASSUME Erase PROVE Counting'
  BY <1>21, SizesAssumption DEF Erase, Other
<1>22. ASSUME Commit PROVE Counting'
  BY <1>22, SizesAssumption DEF Commit, Other
<1>23. ASSUME UpdateFails PROVE Counting'
  BY <1>23, SizesAssumption DEF UpdateFails
<1>24. ASSUME Reset PROVE Counting'
  BY <1>24, SizesAssumption DEF Reset, Off, RamCleared
<1>25. ASSUME Finish PROVE Counting'
  BY <1>25, SizesAssumption DEF Finish
<1>26. ASSUME UNCHANGED vars PROVE Counting'
  BY <1>26, SizesAssumption DEF vars
<1> QED
  BY <1>1, <1>2, <1>3, <1>4, <1>5, <1>6, <1>7, <1>8, <1>9, <1>10, <1>11, <1>12,
     <1>13, <1>14, <1>15, <1>16, <1>17, <1>18, <1>19, <1>20, <1>21, <1>22, <1>23,
     <1>24, <1>25, <1>26
     DEF Next, Device, Callback, Worker, Join, Update

\* A cached answer is counted, and the tenth is not cached.
LEMMA CachedStep ==
  TypeOK /\ Cached /\ [Next]_vars => Cached'
PROOF
<1> SUFFICES ASSUME TypeOK /\ Cached, [Next]_vars PROVE Cached'
  OBVIOUS
<1> USE DEF TypeOK, Cached, WorkerKeeps, Watched, WatchedAnew, slotVars, envVars,
        rxVars, memVars, reportVars, workVars
<1>1. ASSUME Boot PROVE Cached'
  BY <1>1, SizesAssumption DEF Boot
<1>2. ASSUME Off PROVE Cached'
  BY <1>2, SizesAssumption DEF Off, RamCleared
<1>3. ASSUME CarPlayTurns PROVE Cached'
  BY <1>3, SizesAssumption DEF CarPlayTurns
<1>4. ASSUME RadioOn PROVE Cached'
  BY <1>4, SizesAssumption DEF RadioOn
<1>5. ASSUME RadioOff PROVE Cached'
  BY <1>5, SizesAssumption DEF RadioOff
<1>6. ASSUME RxFrame PROVE Cached'
  BY <1>6, SizesAssumption DEF RxFrame
<1>7. ASSUME RxCopy PROVE Cached'
  BY <1>7, SizesAssumption DEF RxCopy
<1>8. ASSUME RxSend PROVE Cached'
  BY <1>8, SizesAssumption DEF RxSend
<1>9. ASSUME Receive PROVE Cached'
  BY <1>9, SizesAssumption DEF Receive
<1>10. ASSUME MarkBusy PROVE Cached'
  BY <1>10, SizesAssumption DEF MarkBusy
<1>11. ASSUME Parse PROVE Cached'
  BY <1>11, SizesAssumption DEF Parse
<1>12. ASSUME AnswerFromCache PROVE Cached'
  BY <1>12, SizesAssumption DEF AnswerFromCache, StillReported, Same, Build,
     Counted, OneMore
<1>13. ASSUME Judge PROVE Cached'
  BY <1>13, SizesAssumption DEF Judge, StillReported, Same, Build, Counted,
     OneMore
<1>14. ASSUME Connected PROVE Cached'
  BY <1>14, SizesAssumption DEF Connected
<1>15. ASSUME ConnectFails PROVE Cached'
  BY <1>15, SizesAssumption DEF ConnectFails
<1>16. ASSUME Assigned PROVE Cached'
  BY <1>16, SizesAssumption DEF Assigned
<1>17. ASSUME DhcpFails PROVE Cached'
  BY <1>17, SizesAssumption DEF DhcpFails
<1>18. ASSUME LookAtUrl PROVE Cached'
  BY <1>18, SizesAssumption DEF LookAtUrl, GoOn
<1>19. ASSUME Report PROVE Cached'
  BY <1>19, SizesAssumption DEF Report, Same, Build
<1>20. ASSUME UpdateInit PROVE Cached'
  BY <1>20, SizesAssumption DEF UpdateInit
<1>21. ASSUME Erase PROVE Cached'
  BY <1>21, SizesAssumption DEF Erase, Other
<1>22. ASSUME Commit PROVE Cached'
  BY <1>22, SizesAssumption DEF Commit, Other
<1>23. ASSUME UpdateFails PROVE Cached'
  BY <1>23, SizesAssumption DEF UpdateFails
<1>24. ASSUME Reset PROVE Cached'
  BY <1>24, SizesAssumption DEF Reset, Off, RamCleared
<1>25. ASSUME Finish PROVE Cached'
  BY <1>25, SizesAssumption DEF Finish
<1>26. ASSUME UNCHANGED vars PROVE Cached'
  BY <1>26, SizesAssumption DEF vars
<1> QED
  BY <1>1, <1>2, <1>3, <1>4, <1>5, <1>6, <1>7, <1>8, <1>9, <1>10, <1>11, <1>12,
     <1>13, <1>14, <1>15, <1>16, <1>17, <1>18, <1>19, <1>20, <1>21, <1>22, <1>23,
     <1>24, <1>25, <1>26
     DEF Next, Device, Callback, Worker, Join, Update

\* The two ways to a reset.
LEMMA ResetEarnedStep ==
  TypeOK /\ Counting /\ ResetEarned /\ [Next]_vars => ResetEarned'
PROOF
<1> SUFFICES ASSUME TypeOK /\ Counting /\ ResetEarned, [Next]_vars PROVE ResetEarned'
  OBVIOUS
<1> USE DEF TypeOK, Counting, ResetEarned, WorkerKeeps, Watched, WatchedAnew,
        slotVars, envVars, rxVars, memVars, reportVars, workVars
<1>1. ASSUME Boot PROVE ResetEarned'
  BY <1>1, SizesAssumption DEF Boot
<1>2. ASSUME Off PROVE ResetEarned'
  BY <1>2, SizesAssumption DEF Off, RamCleared
<1>3. ASSUME CarPlayTurns PROVE ResetEarned'
  BY <1>3, SizesAssumption DEF CarPlayTurns
<1>4. ASSUME RadioOn PROVE ResetEarned'
  BY <1>4, SizesAssumption DEF RadioOn
<1>5. ASSUME RadioOff PROVE ResetEarned'
  BY <1>5, SizesAssumption DEF RadioOff
<1>6. ASSUME RxFrame PROVE ResetEarned'
  BY <1>6, SizesAssumption DEF RxFrame
<1>7. ASSUME RxCopy PROVE ResetEarned'
  BY <1>7, SizesAssumption DEF RxCopy
<1>8. ASSUME RxSend PROVE ResetEarned'
  BY <1>8, SizesAssumption DEF RxSend
<1>9. ASSUME Receive PROVE ResetEarned'
  BY <1>9, SizesAssumption DEF Receive
<1>10. ASSUME MarkBusy PROVE ResetEarned'
  BY <1>10, SizesAssumption DEF MarkBusy
<1>11. ASSUME Parse PROVE ResetEarned'
  BY <1>11, SizesAssumption DEF Parse
<1>12. ASSUME AnswerFromCache PROVE ResetEarned'
  BY <1>12, SizesAssumption DEF AnswerFromCache, StillReported, Same, Build,
     Counted, OneMore
<1>13. ASSUME Judge PROVE ResetEarned'
  BY <1>13, SizesAssumption DEF Judge, StillReported, Same, Build, Counted,
     OneMore
<1>14. ASSUME Connected PROVE ResetEarned'
  BY <1>14, SizesAssumption DEF Connected
<1>15. ASSUME ConnectFails PROVE ResetEarned'
  BY <1>15, SizesAssumption DEF ConnectFails
<1>16. ASSUME Assigned PROVE ResetEarned'
  BY <1>16, SizesAssumption DEF Assigned
<1>17. ASSUME DhcpFails PROVE ResetEarned'
  BY <1>17, SizesAssumption DEF DhcpFails
<1>18. ASSUME LookAtUrl PROVE ResetEarned'
  BY <1>18, SizesAssumption DEF LookAtUrl, GoOn
<1>19. ASSUME Report PROVE ResetEarned'
  BY <1>19, SizesAssumption DEF Report, Same, Build
<1>20. ASSUME UpdateInit PROVE ResetEarned'
  BY <1>20, SizesAssumption DEF UpdateInit
<1>21. ASSUME Erase PROVE ResetEarned'
  BY <1>21, SizesAssumption DEF Erase, Other
<1>22. ASSUME Commit PROVE ResetEarned'
  BY <1>22, SizesAssumption DEF Commit, Other
<1>23. ASSUME UpdateFails PROVE ResetEarned'
  BY <1>23, SizesAssumption DEF UpdateFails
<1>24. ASSUME Reset PROVE ResetEarned'
  BY <1>24, SizesAssumption DEF Reset, Off, RamCleared
<1>25. ASSUME Finish PROVE ResetEarned'
  BY <1>25, SizesAssumption DEF Finish
<1>26. ASSUME UNCHANGED vars PROVE ResetEarned'
  BY <1>26, SizesAssumption DEF vars
<1> QED
  BY <1>1, <1>2, <1>3, <1>4, <1>5, <1>6, <1>7, <1>8, <1>9, <1>10, <1>11, <1>12,
     <1>13, <1>14, <1>15, <1>16, <1>17, <1>18, <1>19, <1>20, <1>21, <1>22, <1>23,
     <1>24, <1>25, <1>26
     DEF Next, Device, Callback, Worker, Join, Update

\* Each of the two looks at CarPlay's state falls in the time it speaks for.
LEMMA InUseStep ==
  TypeOK /\ InUseUntouched /\ [Next]_vars => InUseUntouched'
PROOF
<1> SUFFICES ASSUME TypeOK /\ InUseUntouched, [Next]_vars PROVE InUseUntouched'
  OBVIOUS
<1> USE DEF TypeOK, InUseUntouched, WorkerKeeps, Watched, WatchedAnew, slotVars,
        envVars, rxVars, memVars, reportVars, workVars
<1>1. ASSUME Boot PROVE InUseUntouched'
  BY <1>1 DEF Boot
<1>2. ASSUME Off PROVE InUseUntouched'
  BY <1>2 DEF Off, RamCleared
<1>3. ASSUME CarPlayTurns PROVE InUseUntouched'
  BY <1>3 DEF CarPlayTurns
<1>4. ASSUME RadioOn PROVE InUseUntouched'
  BY <1>4 DEF RadioOn
<1>5. ASSUME RadioOff PROVE InUseUntouched'
  BY <1>5 DEF RadioOff
<1>6. ASSUME RxFrame PROVE InUseUntouched'
  BY <1>6 DEF RxFrame
<1>7. ASSUME RxCopy PROVE InUseUntouched'
  BY <1>7 DEF RxCopy
<1>8. ASSUME RxSend PROVE InUseUntouched'
  BY <1>8 DEF RxSend
<1>9. ASSUME Receive PROVE InUseUntouched'
  BY <1>9 DEF Receive
<1>10. ASSUME MarkBusy PROVE InUseUntouched'
  BY <1>10 DEF MarkBusy
<1>11. ASSUME Parse PROVE InUseUntouched'
  BY <1>11 DEF Parse
<1>12. ASSUME AnswerFromCache PROVE InUseUntouched'
  BY <1>12 DEF AnswerFromCache, StillReported, Same, Build, Counted, OneMore
<1>13. ASSUME Judge PROVE InUseUntouched'
  BY <1>13 DEF Judge, StillReported, Same, Build, Counted, OneMore
<1>14. ASSUME Connected PROVE InUseUntouched'
  BY <1>14 DEF Connected
<1>15. ASSUME ConnectFails PROVE InUseUntouched'
  BY <1>15 DEF ConnectFails
<1>16. ASSUME Assigned PROVE InUseUntouched'
  BY <1>16 DEF Assigned
<1>17. ASSUME DhcpFails PROVE InUseUntouched'
  BY <1>17 DEF DhcpFails
<1>18. ASSUME LookAtUrl PROVE InUseUntouched'
  BY <1>18 DEF LookAtUrl, GoOn
<1>19. ASSUME Report PROVE InUseUntouched'
  BY <1>19 DEF Report, Same, Build
<1>20. ASSUME UpdateInit PROVE InUseUntouched'
  BY <1>20 DEF UpdateInit
<1>21. ASSUME Erase PROVE InUseUntouched'
  BY <1>21 DEF Erase, Other
<1>22. ASSUME Commit PROVE InUseUntouched'
  BY <1>22 DEF Commit, Other
<1>23. ASSUME UpdateFails PROVE InUseUntouched'
  BY <1>23 DEF UpdateFails
<1>24. ASSUME Reset PROVE InUseUntouched'
  BY <1>24 DEF Reset, Off, RamCleared
<1>25. ASSUME Finish PROVE InUseUntouched'
  BY <1>25 DEF Finish
<1>26. ASSUME UNCHANGED vars PROVE InUseUntouched'
  BY <1>26 DEF vars
<1> QED
  BY <1>1, <1>2, <1>3, <1>4, <1>5, <1>6, <1>7, <1>8, <1>9, <1>10, <1>11, <1>12,
     <1>13, <1>14, <1>15, <1>16, <1>17, <1>18, <1>19, <1>20, <1>21, <1>22, <1>23,
     <1>24, <1>25, <1>26
     DEF Next, Device, Callback, Worker, Join, Update

\* Each handler passes its message on or frees it.
LEMMA OwnedStep == TypeOK /\ Handed /\ Owned /\ [Next]_vars => Owned'
PROOF
<1> SUFFICES ASSUME TypeOK, Memory, Handed, Owned, [Next]_vars PROVE Owned'
  BY TypeParts
<1> USE DEF Owned, Memory
<1>t. rxMsg \in Messages \cup {0} /\ msg \in Messages \cup {0}
  BY DEF TypeOK
<1>f. Free \notin Frames
  BY FramesAssumption
<1>m. 0 \notin Messages
  BY DEF Messages
<1>1. ASSUME Quiet \/ UNCHANGED vars PROVE Owned'
  BY <1>1, QuietKeeps
<1>2. ASSUME Off PROVE Owned'
  <2>1. queue' = <<>> /\ heap' = [m \in Messages |-> Free] /\ rxMsg' = 0 /\ msg' = 0
    BY <1>2 DEF Off, RamCleared
  <2> QED BY <2>1
<1>3. ASSUME RxCopy PROVE Owned'
  <2>1. queue' = queue /\ msg' = msg /\ rxMsg = 0
    BY <1>3 DEF RxCopy, Handed, memVars, workVars
  <2>2. CASE heap' = heap /\ rxMsg' = rxMsg
    BY <2>1, <2>2
  <2>3. ASSUME NEW m \in Messages, NEW f \in Frames, heap[m] = Free,
               heap' = [heap EXCEPT ![m] = f], rxMsg' = m
        PROVE  Owned'
    <3>1. \A n \in Messages : heap'[n] = IF n = m THEN f ELSE heap[n]
      BY <2>3
    <3>2. \A i \in 1 .. Len(queue) : queue[i] \in Messages /\ queue[i] # m
      BY <2>3
    <3>3. msg # m
      BY <2>3, <1>m
    <3> QED BY <2>1, <2>3, <3>1, <3>2, <3>3, <1>f, <1>t
  <2> QED BY <1>3, <2>2, <2>3 DEF RxCopy
<1>4. ASSUME RxSend PROVE Owned'
  <2>1. rxMsg \in Messages /\ rxMsg' = 0 /\ msg' = msg
    BY <1>4, <1>t DEF RxSend, Handed, workVars
  <2>2. CASE Len(queue) < QueueSize
    <3>1. queue' = Append(queue, rxMsg) /\ heap' = heap
      BY <1>4, <2>2 DEF RxSend
    <3>2. /\ Len(queue') = Len(queue) + 1
          /\ \A i \in 1 .. Len(queue) : queue'[i] = queue[i]
          /\ queue'[Len(queue) + 1] = rxMsg
      BY <3>1, <2>1
    <3>3. \A i \in 1 .. Len(queue') : i \in 1 .. Len(queue) \/ i = Len(queue) + 1
      BY <3>2
    <3>4. \A m \in Messages : heap[m] # Free =>
             m = msg \/ \E i \in 1 .. Len(queue') : queue'[i] = m
      BY <3>2
    <3>5. \A i \in 1 .. Len(queue') :
             heap[queue'[i]] # Free /\ queue'[i] # 0 /\ queue'[i] # msg
      BY <2>1, <3>2, <3>3, <1>m
    <3>6. \A i, j \in 1 .. Len(queue') : queue'[i] = queue'[j] => i = j
      BY <3>2, <3>3
    <3> QED BY <2>1, <3>1, <3>4, <3>5, <3>6
  <2>3. CASE ~(Len(queue) < QueueSize)
    <3>1. queue' = queue /\ heap' = [heap EXCEPT ![rxMsg] = Free]
      BY <1>4, <2>3 DEF RxSend
    <3>2. \A n \in Messages : heap'[n] = IF n = rxMsg THEN Free ELSE heap[n]
      BY <3>1
    <3>3. \A i \in 1 .. Len(queue) : queue[i] \in Messages
      OBVIOUS
    <3> QED BY <2>1, <3>1, <3>2, <3>3, <1>m, <1>t
  <2> QED BY <2>2, <2>3
<1>5. ASSUME Receive PROVE Owned'
  <2>1. queue # <<>> /\ msg = 0 /\ msg' = Head(queue) /\ queue' = Tail(queue)
    BY <1>5, <1>t DEF Receive, Handed
  <2>2. heap' = heap /\ rxMsg' = rxMsg
    BY <1>5 DEF Receive, WorkerKeeps, rxVars
  <2>3. Len(queue') = Len(queue) - 1 /\ \A i \in 1 .. Len(queue') : queue'[i] = queue[i + 1]
    BY <2>1
  <2>4. msg' = queue[1] /\ 1 \in 1 .. Len(queue)
    BY <2>1
  <2>5. \A i \in 1 .. Len(queue') : i + 1 \in 1 .. Len(queue) /\ i + 1 # 1
    BY <2>3
  <2>6. \A i \in 1 .. Len(queue) : i = 1 \/ (i - 1 \in 1 .. Len(queue') /\ queue'[i - 1] = queue[i])
    BY <2>3
  <2>7. \A m \in Messages : heap[m] # Free =>
           m = rxMsg \/ m = msg' \/ \E i \in 1 .. Len(queue') : queue'[i] = m
    <3> SUFFICES ASSUME NEW m \in Messages, heap[m] # Free, m # rxMsg, m # msg'
                 PROVE  \E i \in 1 .. Len(queue') : queue'[i] = m
      OBVIOUS
    <3>1. PICK i \in 1 .. Len(queue) : queue[i] = m
      BY <2>1, <1>m
    <3> QED BY <2>4, <2>6, <3>1
  <2>8. rxMsg # 0 => heap[rxMsg] # Free /\ rxMsg # msg'
    BY <2>4
  <2>9. \A i \in 1 .. Len(queue') :
           heap[queue'[i]] # Free /\ queue'[i] # rxMsg /\ queue'[i] # msg'
    BY <2>3, <2>4, <2>5
  <2>10. \A i, j \in 1 .. Len(queue') : queue'[i] = queue'[j] => i = j
    BY <2>3, <2>5
  <2> QED BY <2>2, <2>4, <2>7, <2>8, <2>9, <2>10
<1>6. ASSUME Parse PROVE Owned'
  <2>1. queue' = queue /\ heap' = [heap EXCEPT ![msg] = Free] /\ msg' = 0 /\ rxMsg' = rxMsg
    BY <1>6 DEF Parse, WorkerKeeps, rxVars
  <2>2. msg \in Messages
    BY <1>6, <1>t DEF Parse, Handed
  <2>3. \A n \in Messages : heap'[n] = IF n = msg THEN Free ELSE heap[n]
    BY <2>1
  <2>4. \A i \in 1 .. Len(queue) : queue[i] \in Messages
    OBVIOUS
  <2> QED BY <2>1, <2>2, <2>3, <2>4, <1>m, <1>t
<1> QED
  BY <1>1, <1>2, <1>3, <1>4, <1>5, <1>6
     DEF Next, Device, Callback, Worker, Join, Update, Reset, Quiet

IInv == /\ TypeOK /\ Handed /\ Counting /\ Cached
        /\ ResetEarned /\ InUseUntouched /\ Owned

\* The invariant holds at first ...
LEMMA IInvInit == Init => IInv
PROOF
<1> SUFFICES ASSUME Init PROVE IInv
  OBVIOUS
<1> USE DEF Init
<1>1. Flags
  BY Zenon DEF Flags
<1>2. Data
  BY SizesAssumption DEF Data, Messages, PCs
<1>3. Memory
  BY SizesAssumption DEF Memory
<1>4. Handed /\ Counting /\ Cached /\ ResetEarned
  BY DEF Handed, Counting, Cached, ResetEarned
<1>5. InUseUntouched /\ Owned
  BY DEF InUseUntouched, Owned
<1> QED BY <1>1, <1>2, <1>3, <1>4, <1>5, TypeParts DEF IInv

\* ... and after every step.
LEMMA IInvStep == IInv /\ [Next]_vars => IInv'
PROOF
<1> SUFFICES ASSUME IInv, [Next]_vars PROVE IInv'
  OBVIOUS
<1> USE DEF IInv
<1>1. Flags /\ Data /\ Memory
  BY TypeParts
<1>2. Flags' /\ Data' /\ Memory'
  BY <1>1, FlagsStep, DataStep, MemoryStep
<1>3. TypeOK'
  BY <1>2 DEF TypeOK, Flags, Data, Memory
<1> QED
  BY <1>3, HandedStep, CountingStep, CachedStep,
     ResetEarnedStep, InUseStep, OwnedStep

\* What the theorems below rest on.
THEOREM ActionInvariant == Spec => []IInv
BY IInvInit, IInvStep, PTL DEF Spec

\* Type correctness of the Action update.
THEOREM TypeCorrect == Spec => []TypeOK
<1>1. IInv => TypeOK
  BY DEF IInv
<1> QED BY <1>1, ActionInvariant, PTL

\* Every message block in use has one owner (action_rx, action_worker).
THEOREM MessagesKept == Spec => []MessagesOwned
<1>1. IInv => MessagesOwned
  BY OwnedBlocks DEF IInv
<1> QED BY <1>1, ActionInvariant, PTL

\* Reports, resets and the use of the network have their reasons (action_process).
THEOREM EffectsJustified == Spec => []FrameEffects
<1>1. IInv => HostHears
  BY SizesAssumption DEF IInv, TypeOK, Cached, HostHears
<1>2. IInv => ResetEarned /\ InUseUntouched
  BY DEF IInv
<1>3. IInv => FrameEffects
  BY <1>1, <1>2 DEF FrameEffects
<1> QED BY <1>3, ActionInvariant, PTL

=============================================================================
