---------------------------- MODULE CryptoLock ----------------------------
(***************************************************************************)
(* The transaction lock of the shared crypto engine                        *)
(* (carbox/crypto_priority_lock.c): RT_DEV_LOCK_CRYPTO with a boost of the *)
(* task that takes it, over FreeRTOS mutexes with priority inheritance and *)
(* a preemptive fixed-priority scheduler on one core.  AES calls take the  *)
(* private mutex of AESUtils.c around the engine lock; ChaCha calls take   *)
(* the engine lock alone; network tasks only use the processor.            *)
(***************************************************************************)
EXTENDS TaskPriority, Sequences, SequencesExt, FiniteSets

CONSTANTS
  AesTasks,     \* tasks that call AESUtils
  ChaChaTasks,  \* tasks that call the ChaCha20-Poly1305 backend
  NetTasks,     \* tasks that do neither: TCP/IP, WLAN
  NoTask,       \* a free mutex or slot
  BasePriority, \* the priority each task was created with
  Boost,        \* CARBOX_CRYPTO_OWNER_BOOST_PRIORITY, the highest one in use
  NumSlots      \* CARBOX_CRYPTO_PRIORITY_SLOTS

Tasks == AesTasks \cup ChaChaTasks \cup NetTasks
Mutexes == {"aes", "crypto"}
Slots == 1 .. NumSlots
Priority == 0 .. Boost

ASSUME TasksAssumption == NoTask \notin Tasks
ASSUME BoostAssumption == Boost \in Nat \ {0}
ASSUME BaseAssumption == BasePriority \in [Tasks -> 0 .. Boost - 1]
ASSUME SlotsAssumption == NumSlots \in Nat \ {0}

VARIABLES
  pc,         \* where each task is
  tcb,        \* the priority fields of its control block
  call,       \* "aes", "key", "chacha" or "net": the call it is in
  inherited,  \* xInheritanceOccurred, a local of xQueueSemaphoreTake
  prior,      \* local `priority' of enter, `original_priority' of leave
  owner,      \* xMutexHolder of each mutex
  queue,      \* xTasksWaitingToReceive of each mutex, first to wake first
  slots       \* crypto_priority_slots

locals == <<call, inherited, prior>>
mutexes == <<owner, queue>>
vars == <<pc, tcb, locals, mutexes, slots>>

\* Program counters.  A task is blocked in "idle" (on its own work), in a wait
\* for a mutex and in "dma" (on the completion semaphore).
Taking == [aes |-> "takeAes", crypto |-> "takeCrypto"]
Waiting == [aes |-> "waitAes", crypto |-> "waitCrypto"]
Expired == [aes |-> "expiredAes", crypto |-> "expiredCrypto"]
Blocked == {"idle", "waitAes", "waitCrypto", "dma"}
PCs == Blocked \cup {"takeAes", "takeCrypto", "expiredAes", "expiredCrypto", "net",
                     "sample", "slot", "boost", "engine", "give", "leave", "restore", "giveAes"}

FreeSlot == [task |-> NoTask, original |-> 0, depth |-> 0]

Init ==
  /\ pc = [t \in Tasks |-> "idle"]
  /\ tcb = [t \in Tasks |-> NewTcb(BasePriority[t])]
  /\ call = [t \in Tasks |-> "net"]
  /\ inherited = [t \in Tasks |-> FALSE]
  /\ prior = [t \in Tasks |-> 0]
  /\ owner = [m \in Mutexes |-> NoTask]
  /\ queue = [m \in Mutexes |-> <<>>]
  /\ slots = [i \in Slots |-> FreeSlot]

Goto(t, label) == pc' = [pc EXCEPT ![t] = label]

Ready(t) == pc[t] \notin Blocked
\* The scheduler runs a ready task of the highest priority; equals share time.
Runs(t) == Ready(t) /\ \A u \in Tasks : Ready(u) => tcb[u].prio <= tcb[t].prio

\* A task is woken by its own work and enters a call.  An AES call that finds
\* the hardware disabled, and the key registry, use the private mutex alone.
Call(t) ==
  /\ pc[t] = "idle"
  /\ \E c \in {"aes", "key", "chacha", "net"} :
       /\ c \in {"aes", "key"} => t \in AesTasks
       /\ c = "chacha" => t \in ChaChaTasks
       /\ c = "net" => t \in NetTasks
       /\ call' = [call EXCEPT ![t] = c]
       /\ Goto(t, CASE c = "net" -> "net" [] c = "chacha" -> "sample" [] OTHER -> "takeAes")
  /\ UNCHANGED <<tcb, inherited, prior, mutexes, slots>>

\* A network task has done its work and blocks.
Work(t) ==
  /\ Runs(t)
  /\ pc[t] = "net"
  /\ Goto(t, "idle")
  /\ UNCHANGED <<tcb, locals, mutexes, slots>>

\* xQueueSemaphoreTake on a free mutex.
Take(t, m) ==
  /\ Runs(t)
  /\ pc[t] = Taking[m]
  /\ owner[m] = NoTask
  /\ owner' = [owner EXCEPT ![m] = t]
  /\ tcb' = [tcb EXCEPT ![t].held = @ + 1]
  /\ Goto(t, IF m = "crypto" THEN "engine" ELSE IF call[t] = "aes" THEN "sample" ELSE "giveAes")
  /\ UNCHANGED <<locals, queue, slots>>

\* vListInsert: before the first waiter of a lower rank, else at the end.
IsPlace(q, n, t) ==
  /\ \A i \in 1 .. n - 1 : tcb[q[i]].rank >= tcb[t].rank
  /\ n <= Len(q) => tcb[q[n]].rank < tcb[t].rank

\* xQueueSemaphoreTake on a mutex in use: the holder inherits, the task blocks.
Wait(t, m) ==
  /\ Runs(t)
  /\ pc[t] = Taking[m]
  /\ owner[m] # NoTask
  /\ tcb' = [tcb EXCEPT ![owner[m]] = Inherit(@, tcb[t].prio)]
  /\ inherited' = [inherited EXCEPT ![t] = Inherited(tcb[owner[m]], tcb[t].prio)]
  /\ \E n \in 1 .. Len(queue[m]) + 1 :
       IsPlace(queue[m], n, t) /\ queue' = [queue EXCEPT ![m] = InsertAt(@, n, t)]
  /\ Goto(t, Waiting[m])
  /\ UNCHANGED <<call, prior, owner, slots>>

\* The tick that ends a wait of 10 s (device_mutex_lock) or 60 s (rtw_mutex_get).
Expire(t, m) ==
  /\ pc[t] = Waiting[m]
  /\ \E i \in DOMAIN queue[m] : queue[m][i] = t /\ queue' = [queue EXCEPT ![m] = RemoveAt(@, i)]
  /\ Goto(t, Expired[m])
  /\ UNCHANGED <<tcb, locals, owner, slots>>

\* Its caller runs again, takes back what the holder inherited from it, and
\* tries once more: both callers loop.
Retry(t, m) ==
  /\ Runs(t)
  /\ pc[t] = Expired[m]
  /\ LET next == IF queue[m] = <<>> THEN 0 ELSE tcb[Head(queue[m])].rank
     IN tcb' = IF owner[m] # NoTask /\ inherited[t]
               THEN [tcb EXCEPT ![owner[m]] = DisinheritAfterTimeout(@, next)]
               ELSE tcb
  /\ inherited' = [inherited EXCEPT ![t] = FALSE]
  /\ Goto(t, Taking[m])
  /\ UNCHANGED <<call, prior, mutexes, slots>>

\* Mutant: the first waiter is not woken.
GiveUnheard(t, m, label) ==
  /\ owner' = [owner EXCEPT ![m] = NoTask]
  /\ tcb' = [tcb EXCEPT ![t] = Disinherit(@)]
  /\ Goto(t, label)
  /\ UNCHANGED queue

\* xSemaphoreGive: disinherit, wake the first waiter; the mutex is free until
\* somebody, not necessarily the woken task, takes it.
Give(t, m, label) ==
  /\ owner' = [owner EXCEPT ![m] = NoTask]
  /\ tcb' = [tcb EXCEPT ![t] = Disinherit(@)]
  /\ IF queue[m] = <<>>
     THEN Goto(t, label) /\ UNCHANGED queue
     ELSE /\ pc' = [pc EXCEPT ![t] = label, ![Head(queue[m])] = Taking[m]]
          /\ queue' = [queue EXCEPT ![m] = Tail(@)]

\* crypto_priority_enter, outside the critical section: read the priority in use.
Sample(t) ==
  /\ Runs(t)
  /\ pc[t] = "sample"
  /\ prior' = [prior EXCEPT ![t] = tcb[t].prio]
  /\ Goto(t, "slot")
  /\ UNCHANGED <<tcb, call, inherited, mutexes, slots>>

\* Mutant: any slot in use counts as the task's own.
IsUsedSlot(i, t) == slots[i].task # NoTask

\* crypto_priority_find_slot: the task's own slot, else the first free one when
\* a slot is wanted.
IsSlot(i, t) == slots[i].task = t
IsFreeSlot(i) == slots[i].task = NoTask /\ \A j \in Slots : j < i => slots[j].task # NoTask
FoundSlots(t, allocate) ==
  LET own == {i \in Slots : IsSlot(i, t)}
  IN IF own # {} THEN own ELSE IF allocate THEN {i \in Slots : IsFreeSlot(i)} ELSE {}

\* Mutant: the task goes for the mutex at its own priority.
TakeSlotUnraised(t) ==
  /\ Runs(t)
  /\ pc[t] = "slot"
  /\ \E i \in FoundSlots(t, TRUE) :
       slots' = [slots EXCEPT ![i] = [task |-> t, original |-> prior[t], depth |-> @.depth + 1]]
  /\ Goto(t, "takeCrypto")
  /\ UNCHANGED <<tcb, locals, mutexes>>

\* The first critical section of enter.  With no slot the boost is skipped.
TakeSlot(t) ==
  /\ Runs(t)
  /\ pc[t] = "slot"
  /\ \/ \E i \in FoundSlots(t, TRUE) :
          /\ slots' = [slots EXCEPT ![i] =
               [task |-> t,
                original |-> IF @.depth = 0 THEN prior[t] ELSE @.original,
                depth |-> @.depth + 1]]
          /\ Goto(t, IF prior[t] < Boost THEN "boost" ELSE "takeCrypto")
     \/ /\ FoundSlots(t, TRUE) = {}
        /\ Goto(t, "takeCrypto")
        /\ UNCHANGED slots
  /\ UNCHANGED <<tcb, locals, mutexes>>

\* vTaskPrioritySet at the end of enter.
Raise(t) ==
  /\ Runs(t)
  /\ pc[t] = "boost"
  /\ tcb' = [tcb EXCEPT ![t] = PrioritySet(@, Boost)]
  /\ Goto(t, "takeCrypto")
  /\ UNCHANGED <<locals, mutexes, slots>>

\* The owner programs the engine and blocks for the completion interrupt.
Submit(t) ==
  /\ Runs(t)
  /\ pc[t] = "engine"
  /\ Goto(t, "dma")
  /\ UNCHANGED <<tcb, locals, mutexes, slots>>

\* Mutant: the wait for the completion has no limit.
CompleteNever(t) == pc[t] = "dma" /\ UNCHANGED vars

\* The interrupt, or the 3 ms timeout of the wait, makes it ready.
Complete(t) ==
  /\ pc[t] = "dma"
  /\ Goto(t, "give")
  /\ UNCHANGED <<tcb, locals, mutexes, slots>>

\* crypto_priority_device_unlock gives the mutex before it leaves the slot.
Unlock(t) ==
  /\ Runs(t)
  /\ pc[t] = "give"
  /\ Give(t, "crypto", "leave")
  /\ UNCHANGED <<locals, slots>>

AfterLeave(t) == IF call[t] = "aes" THEN "giveAes" ELSE "idle"

\* The critical section of crypto_priority_leave.
Leave(t) ==
  /\ Runs(t)
  /\ pc[t] = "leave"
  /\ \/ \E i \in FoundSlots(t, FALSE) :
          /\ slots[i].depth > 0
          /\ IF slots[i].depth = 1
             THEN /\ slots' = [slots EXCEPT ![i].task = NoTask, ![i].depth = 0]
                  /\ prior' = [prior EXCEPT ![t] = slots[i].original]
                  /\ Goto(t, "restore")
             ELSE /\ slots' = [slots EXCEPT ![i].depth = @ - 1]
                  /\ Goto(t, AfterLeave(t))
                  /\ UNCHANGED prior
     \/ /\ \A i \in FoundSlots(t, FALSE) : slots[i].depth = 0
        /\ Goto(t, AfterLeave(t))
        /\ UNCHANGED <<slots, prior>>
  /\ UNCHANGED <<tcb, call, inherited, mutexes>>

\* Mutant: a task above its original priority is left there.
RestoreUpwards(t) ==
  /\ Runs(t)
  /\ pc[t] = "restore"
  /\ tcb' = [tcb EXCEPT ![t] = IF @.prio < prior[t] THEN PrioritySet(@, prior[t]) ELSE @]
  /\ Goto(t, AfterLeave(t))
  /\ UNCHANGED <<locals, mutexes, slots>>

\* ... and what follows it.
Restore(t) ==
  /\ Runs(t)
  /\ pc[t] = "restore"
  /\ tcb' = [tcb EXCEPT ![t] = IF @.prio # prior[t] THEN PrioritySet(@, prior[t]) ELSE @]
  /\ Goto(t, AfterLeave(t))
  /\ UNCHANGED <<locals, mutexes, slots>>

\* _AES_RTL_End and the key registry give the private mutex back.
UnlockAes(t) ==
  /\ Runs(t)
  /\ pc[t] = "giveAes"
  /\ Give(t, "aes", "idle")
  /\ UNCHANGED <<locals, slots>>

\* What a task does when the scheduler runs it.
Step(t) ==
  \/ Work(t) \/ Sample(t) \/ TakeSlot(t) \/ Raise(t) \/ Submit(t) \/ Unlock(t)
  \/ Leave(t) \/ Restore(t) \/ UnlockAes(t)
  \/ \E m \in Mutexes : Take(t, m) \/ Wait(t, m) \/ Retry(t, m)

Next ==
  \E t \in Tasks : Step(t) \/ Call(t) \/ Complete(t) \/ \E m \in Mutexes : Expire(t, m)

Spec == Init /\ [][Next]_vars

\* A task that stays the one to run does run, and a wait for the engine ends
\* after 3 ms.  A task that a higher one keeps interrupting may starve.
FairSpec == Spec /\ \A t \in Tasks : WF_vars(Step(t)) /\ WF_vars(Complete(t))

---------------------------------------------------------------------------
\* uxMutexesHeld counts the mutexes a task holds, whatever the order in which
\* waiters time out, are woken and find the mutex taken again: the assertions of
\* xTaskPriorityDisinherit and of the timeout (tasks.c:4167-4168, 4241) hold.
HeldCount ==
  \A t \in Tasks : tcb[t].held = Cardinality({m \in Mutexes : owner[m] = t})

\* The values of each variable, the count of mutexes among them.
TypeOK ==
  /\ HeldCount
  /\ pc \in [Tasks -> PCs]
  /\ tcb \in [Tasks -> Tcb(Priority)]
  /\ call \in [Tasks -> {"aes", "key", "chacha", "net"}]
  /\ inherited \in [Tasks -> BOOLEAN]
  /\ prior \in [Tasks -> Priority]
  /\ owner \in [Mutexes -> Tasks \cup {NoTask}]
  /\ queue \in [Mutexes -> Seq(Tasks)]
  /\ slots \in [Slots -> [task : Tasks \cup {NoTask}, original : Priority, depth : Nat]]

\* Where a task is on its way to the engine, on it, or just off it.
InSection(t) == pc[t] \in {"takeCrypto", "waitCrypto", "expiredCrypto", "engine", "dma", "give",
                           "leave", "restore"}
OutOfCrypto(t) == pc[t] \notin {"slot", "boost"} /\ ~InSection(t)

\* A task that has left the crypto lock has its own base priority back, and one
\* that holds no mutex runs at it: "restore its exact original priority after
\* releasing it" (crypto_priority_lock.h:17-19, restored at 466-491).
BoostRestored ==
  \A t \in Tasks :
    OutOfCrypto(t) => /\ tcb[t].base = BasePriority[t]
                      /\ (\A m \in Mutexes : owner[m] # t) => tcb[t].prio = BasePriority[t]

HasSlot(t) == \E i \in Slots : slots[i].task = t

\* The owner of the engine runs at the boosted priority for as long as it owns
\* it, so no other task can keep it from releasing (crypto_priority_lock.h:15-19,
\* raised at 460-463), unless the slot table was full when it came.
OwnerBoosted ==
  \A t \in Tasks :
    owner["crypto"] = t /\ HasSlot(t) => tcb[t].prio = Boost

\* A slot belongs to one task that is in a crypto section, once: none leaks when
\* the table is full, and a task never has two (find_slot, 415-430).
SlotsOwned ==
  /\ \A i \in Slots :
       IF slots[i].task = NoTask THEN slots[i].depth = 0
       ELSE /\ slots[i].depth = 1
            /\ pc[slots[i].task] = "boost" \/ InSection(slots[i].task)
            /\ pc[slots[i].task] # "restore"
  /\ \A i, j \in Slots : slots[i].task = slots[j].task /\ i # j => slots[i].task = NoTask

\* Whoever waits for a mutex is in its queue, once, and a free mutex with a
\* queue has a task on its way to take it: no wake-up is lost between a timeout,
\* a give and a take by a third task.
NoLostWakeup ==
  \A m \in Mutexes :
    /\ \A t \in Tasks : (pc[t] = Waiting[m]) <=> (t \in ToSet(queue[m]))
    /\ IsInjective(queue[m])
    /\ owner[m] = NoTask /\ queue[m] # <<>> =>
         \E t \in Tasks : pc[t] \in {Taking[m], Expired[m]}

\* An owner that got a slot always releases the engine, although network tasks of
\* a higher base priority keep the processor busy: the reason for the boost
\* (crypto_priority_lock.h:15-17).
EngineReleased == \A t \in Tasks : (owner["crypto"] = t /\ HasSlot(t)) ~> (owner["crypto"] # t)
===========================================================================
