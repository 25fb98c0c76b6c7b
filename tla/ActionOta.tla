------------------------------ MODULE ActionOta ------------------------------
(***************************************************************************)
(* Firmware update announced by WiFi action frames, wifi_action_ota.c: the *)
(* driver's thread copies an announcement and queues it; a worker task of  *)
(* the lowest priority judges it, joins the announced network, reports the *)
(* version that runs and, when another one is offered, updates and resets. *)
(*                                                                         *)
(* The update itself is one session of carplay_ota_compat.c, which         *)
(* OtaUpdate models cell by cell; here it is its outcome.  A frame is      *)
(* known by what the worker looks at.  The network, the server and its     *)
(* package, the radio, CarPlay, the heap and the power are the             *)
(* environment's.                                                          *)
(***************************************************************************)
EXTENDS Integers, Sequences

CONSTANTS
  Versions,     \* firmware versions
  NoImage,      \* a slot without a bootable firmware
  Frames,       \* announcements the host sends
  Free,         \* no message, no frame
  QueueSize,    \* depth of action_queue
  MaxRetries,   \* connect failures allowed for one frame
  Period        \* same-version frames per renewed report

ASSUME FramesAssumption ==
  /\ Frames \subseteq [version : Versions, ap : BOOLEAN, url : {"none", "bad", "good"}]
  /\ Free \notin Frames
ASSUME SizesAssumption ==
  /\ QueueSize \in Nat \ {0} /\ MaxRetries \in Nat \ {0} /\ Period \in Nat \ {0}

VARIABLES
  image, running,  \* what each slot would boot, and the slot that runs (0: off)
  radio,      \* wifi_on has succeeded
  carplay,    \* get_aac_cp_aa_state() is not 0
  hasQueue,   \* action_queue, and with it the worker
  queue,      \* the messages in it
  heap,       \* what each message block holds, or Free
  rx,         \* where the frame callback is
  rxMsg,      \* the block it has filled (0: none)
  pc,         \* where the worker is
  msg,        \* the message it has taken (0: none)
  req,        \* the request it has parsed
  busy,       \* action_busy
  retries,    \* connect attempts left
  idle,       \* idle_report_count, modulo Period
  reported,   \* reported == 1
  told,       \* usb_ota_update_status has announced an update
  \* What has happened, for the properties.
  failures,   \* connects that failed for the frame in progress
  cachedRun,  \* same-version frames answered from the cache in a row
  idleSeen    \* CarPlay was idle at some point since the frame was parsed,
              \* or since the address was assigned; TRUE between frames

slotVars == <<image, running>>
envVars == <<radio, carplay>>
rxVars == <<rx, rxMsg>>
memVars == <<hasQueue, queue, heap>>
reportVars == <<idle, reported, told, cachedRun>>
workVars == <<pc, msg, req, busy, retries, failures>>
vars == <<slotVars, envVars, rxVars, memVars, reportVars, workVars, idleSeen>>

PCs == {"receive", "taken", "parse", "process", "connect", "dhcp", "url", "report",
        "init", "update", "reset", "end"}

Slots == {1, 2}
Messages == 1 .. QueueSize + 2
Build == image[running]
Other == 3 - running

\* CarPlay's state is seen by the properties after every step.
Watched == idleSeen' = (idleSeen \/ ~carplay')
WatchedAnew == idleSeen' = ~carplay'

RamCleared ==
  /\ radio' = FALSE
  /\ hasQueue' = FALSE /\ queue' = <<>> /\ heap' = [m \in Messages |-> Free]
  /\ rx' = "none" /\ rxMsg' = 0
  /\ pc' = "receive" /\ msg' = 0 /\ req' = Free /\ busy' = FALSE
  /\ retries' = 0 /\ failures' = 0
  /\ idle' = 0 /\ reported' = FALSE /\ told' = FALSE /\ cachedRun' = 0
  /\ idleSeen' = TRUE

Init ==
  /\ image \in [Slots -> Versions \cup {NoImage}]
  /\ \E slot \in Slots : image[slot] # NoImage
  /\ running = 0
  /\ radio = FALSE /\ carplay \in BOOLEAN
  /\ hasQueue = FALSE /\ queue = <<>> /\ heap = [m \in Messages |-> Free]
  /\ rx = "none" /\ rxMsg = 0
  /\ pc = "receive" /\ msg = 0 /\ req = Free /\ busy = FALSE
  /\ retries = 0 /\ failures = 0
  /\ idle = 0 /\ reported = FALSE /\ told = FALSE /\ cachedRun = 0
  /\ idleSeen = TRUE

-----------------------------------------------------------------------------
\* The device around the worker.

\* The boot loader starts a slot that holds a firmware.
Boot ==
  /\ running = 0
  /\ \E slot \in Slots : image[slot] # NoImage /\ running' = slot
  /\ UNCHANGED <<image, envVars, rxVars, memVars, reportVars, workVars>>
  /\ Watched

\* The power goes, or sys_reset is called: RAM is lost.
Off ==
  /\ running # 0
  /\ running' = 0
  /\ UNCHANGED <<image, carplay>>
  /\ RamCleared

CarPlayTurns ==
  /\ running # 0
  /\ carplay' = ~carplay
  /\ UNCHANGED <<slotVars, radio, rxVars, memVars, reportVars, workVars>>
  /\ Watched

\* The end of wifi_on, carbox_wifi_action_ota_init: the queue and the worker are
\* made once, and neither stays without the other.
RadioOn ==
  /\ running # 0 /\ ~radio
  /\ radio' = TRUE
  /\ hasQueue' \in {hasQueue, TRUE}
  /\ UNCHANGED <<slotVars, carplay, rxVars, queue, heap, reportVars, workVars>>
  /\ Watched

\* wifi_off stops the driver, whose thread has left the callback by then.
RadioOff ==
  /\ radio /\ rx = "none"
  /\ radio' = FALSE
  /\ UNCHANGED <<slotVars, carplay, rxVars, memVars, reportVars, workVars>>
  /\ Watched

-----------------------------------------------------------------------------
\* action_rx, in the driver's thread.

\* A frame with the marker; it is dropped without a queue or while busy.
RxFrame ==
  /\ radio /\ rx = "none"
  /\ hasQueue /\ ~busy
  /\ rx' = "allowed"
  /\ UNCHANGED <<slotVars, envVars, rxMsg, memVars, reportVars, workVars>>
  /\ Watched

\* The copy; without memory the frame is dropped.
RxCopy ==
  /\ rx = "allowed"
  /\ \/ \E m \in Messages :
          /\ heap[m] = Free /\ \A n \in 1 .. m - 1 : heap[n] # Free
          /\ \E f \in Frames : heap' = [heap EXCEPT ![m] = f]
          /\ rxMsg' = m /\ rx' = "copied"
     \/ /\ rx' = "none"
        /\ UNCHANGED <<heap, rxMsg>>
  /\ UNCHANGED <<slotVars, envVars, hasQueue, queue, reportVars, workVars>>
  /\ Watched

\* Mutant: the error path of a full queue forgets the copy.
RxSendLeaks ==
  /\ rx = "copied"
  /\ IF Len(queue) < QueueSize
     THEN queue' = Append(queue, rxMsg) /\ UNCHANGED heap
     ELSE UNCHANGED <<queue, heap>>
  /\ rx' = "none" /\ rxMsg' = 0
  /\ UNCHANGED <<slotVars, envVars, hasQueue, reportVars, workVars>>
  /\ Watched

\* xQueueSend without waiting; a copy that does not fit is freed.
RxSend ==
  /\ rx = "copied"
  /\ IF Len(queue) < QueueSize
     THEN queue' = Append(queue, rxMsg) /\ UNCHANGED heap
     ELSE heap' = [heap EXCEPT ![rxMsg] = Free] /\ UNCHANGED queue
  /\ rx' = "none" /\ rxMsg' = 0
  /\ UNCHANGED <<slotVars, envVars, hasQueue, reportVars, workVars>>
  /\ Watched

-----------------------------------------------------------------------------
\* action_worker and action_process.

WorkerKeeps == UNCHANGED <<image, running, envVars, rxVars, hasQueue>>

Receive ==
  /\ pc = "receive" /\ queue # <<>>
  /\ msg' = Head(queue) /\ queue' = Tail(queue)
  /\ pc' = "taken"
  /\ WorkerKeeps /\ UNCHANGED <<heap, req, busy, retries, failures, reportVars>>
  /\ Watched

MarkBusy ==
  /\ pc = "taken"
  /\ busy' = TRUE /\ pc' = "parse"
  /\ WorkerKeeps /\ UNCHANGED <<queue, heap, msg, req, retries, failures, reportVars>>
  /\ Watched

\* The frame may not parse, or the request find no memory; the message is freed in
\* any case.
Parse ==
  /\ pc = "parse"
  /\ \/ req' = heap[msg] /\ pc' = "process"
     \/ req' = Free /\ pc' = "end"
  /\ heap' = [heap EXCEPT ![msg] = Free] /\ msg' = 0
  /\ WorkerKeeps /\ UNCHANGED <<queue, busy, retries, failures, reportVars>>
  /\ WatchedAnew

Same == req.version = Build

\* Only the count's remainder is ever looked at.
OneMore == IF idle + 1 = Period THEN 0 ELSE idle + 1

Counted == IF Same THEN OneMore ELSE idle
StillReported == reported /\ ~(Same /\ Counted = 0)

\* The version that runs, and the host knows: nothing else is looked at.
AnswerFromCache ==
  /\ pc = "process" /\ Same /\ StillReported
  /\ idle' = Counted /\ reported' = StillReported
  /\ cachedRun' = cachedRun + 1
  /\ pc' = "end"
  /\ WorkerKeeps
  /\ UNCHANGED <<queue, heap, msg, req, busy, retries, failures, told>>
  /\ Watched

\* Otherwise the announced network is joined, unless there is none or CarPlay
\* is in use.
Judge ==
  /\ pc = "process" /\ ~(Same /\ StillReported)
  /\ idle' = Counted /\ reported' = StillReported
  /\ cachedRun' = IF Same THEN 0 ELSE cachedRun
  /\ IF req.ap /\ ~carplay
     THEN pc' = "connect" /\ retries' = MaxRetries
     ELSE pc' = "end" /\ UNCHANGED retries
  /\ WorkerKeeps
  /\ UNCHANGED <<queue, heap, msg, req, busy, failures, told>>
  /\ Watched

Connected ==
  /\ pc = "connect" /\ radio
  /\ pc' = "dhcp"
  /\ WorkerKeeps
  /\ UNCHANGED <<queue, heap, msg, req, busy, retries, failures, reportVars>>
  /\ Watched

\* Mutant: the attempts are given back to every round.
ConnectFailsAnew ==
  /\ pc = "connect"
  /\ retries' = MaxRetries /\ failures' = 0
  /\ pc' = "connect"
  /\ WorkerKeeps
  /\ UNCHANGED <<queue, heap, msg, req, busy, reportVars>>
  /\ Watched

\* The attempts count over all rounds of a frame, also those DHCP ended.
ConnectFails ==
  /\ pc = "connect"
  /\ retries' = retries - 1 /\ failures' = failures + 1
  /\ pc' = IF retries' = 0 THEN "reset" ELSE "connect"
  /\ WorkerKeeps
  /\ UNCHANGED <<queue, heap, msg, req, busy, reportVars>>
  /\ Watched

\* LwIP_DHCP gives an address; the loop ends, and with it the count of attempts.
Assigned ==
  /\ pc = "dhcp"
  /\ pc' = "url"
  /\ retries' = 0 /\ failures' = 0
  /\ WorkerKeeps
  /\ UNCHANGED <<queue, heap, msg, req, busy, reportVars>>
  /\ WatchedAnew

\* Mutant: a failure of DHCP costs an attempt too.
DhcpFailsCounted ==
  /\ pc = "dhcp"
  /\ retries' = retries - 1
  /\ pc' = IF retries' = 0 THEN "reset" ELSE "connect"
  /\ WorkerKeeps
  /\ UNCHANGED <<queue, heap, msg, req, busy, failures, reportVars>>
  /\ Watched

\* The network is left and joined again; this costs no attempt.
DhcpFails ==
  /\ pc = "dhcp"
  /\ pc' = "connect"
  /\ WorkerKeeps
  /\ UNCHANGED <<queue, heap, msg, req, busy, retries, failures, reportVars>>
  /\ Watched

\* Only a URL that parses is followed, and CarPlay is looked at again.
GoOn == req.url = "good" /\ ~carplay

LookAtUrl ==
  /\ pc = "url"
  /\ pc' = IF GoOn THEN "report" ELSE "end"
  /\ WorkerKeeps
  /\ UNCHANGED <<queue, heap, msg, req, busy, retries, failures, reportVars>>
  /\ Watched

\* action_version_report; whether it arrived only matters to the cache.
Report ==
  /\ pc = "report"
  /\ reported' \in BOOLEAN
  /\ pc' = IF Same THEN "end" ELSE "init"
  /\ WorkerKeeps
  /\ UNCHANGED <<queue, heap, msg, req, busy, retries, failures, idle, told, cachedRun>>
  /\ Watched

\* ota_update_init: without memory the frame is done with.
UpdateInit ==
  /\ pc = "init"
  /\ \/ pc' = "update" /\ told' = TRUE
     \/ pc' = "end" /\ UNCHANGED told
  /\ WorkerKeeps
  /\ UNCHANGED <<queue, heap, msg, req, busy, retries, failures, idle, reported, cachedRun>>
  /\ Watched

\* The server's package may hold any version: nobody compares it with the announced
\* one.  Only a signature equal to the running firmware's is refused, before anything
\* is erased.
Packages == Versions \ {Build}

\* ota_update_start erases the slot the device does not run from, once the package
\* has shown another signature ...
Erase ==
  /\ pc = "update" /\ image[Other] # NoImage /\ Packages # {}
  /\ image' = [image EXCEPT ![Other] = NoImage]
  /\ UNCHANGED <<running, envVars, rxVars, memVars, reportVars, workVars>>
  /\ Watched

\* ... and commits what the package holds ...
Commit ==
  /\ pc = "update" /\ image[Other] = NoImage
  /\ \E v \in Packages : image' = [image EXCEPT ![Other] = v]
  /\ pc' = "reset"
  /\ UNCHANGED <<running, envVars, rxVars, memVars, reportVars, msg, req, busy, retries,
                 failures>>
  /\ Watched

\* Mutant: a transfer that failed is not followed by a reset.
UpdateFailsStays ==
  /\ pc = "update"
  /\ pc' = "end"
  /\ WorkerKeeps
  /\ UNCHANGED <<queue, heap, msg, req, busy, retries, failures, reportVars>>
  /\ Watched

\* ... or fails, before or after the erase, is refused, or brings no firmware.
UpdateFails ==
  /\ pc = "update"
  /\ pc' = "reset"
  /\ WorkerKeeps
  /\ UNCHANGED <<queue, heap, msg, req, busy, retries, failures, reportVars>>
  /\ Watched

\* sys_reset, after its delay.
Reset == pc = "reset" /\ Off

\* The request is freed, the next frame may be queued.
Finish ==
  /\ pc = "end"
  /\ req' = Free /\ busy' = FALSE /\ retries' = 0 /\ failures' = 0
  /\ pc' = "receive"
  /\ WorkerKeeps
  /\ UNCHANGED <<queue, heap, msg, reportVars>>
  /\ idleSeen' = TRUE

-----------------------------------------------------------------------------
Device == Boot \/ Off \/ CarPlayTurns \/ RadioOn \/ RadioOff
Callback == RxFrame \/ RxCopy \/ RxSend
Join == Connected \/ ConnectFails \/ Assigned \/ DhcpFails
Update == UpdateInit \/ Erase \/ Commit \/ UpdateFails \/ Reset
Worker == \/ Receive \/ MarkBusy \/ Parse \/ AnswerFromCache \/ Judge \/ Join
          \/ LookAtUrl \/ Report \/ Update \/ Finish

Next == Device \/ Callback \/ Worker

\* The worker's calls return, with whatever result: its sockets time out after 15 s,
\* and the lowest priority is scheduled at last.  The driver's thread ends a callback
\* it has begun.
Fairness == WF_vars(Worker) /\ WF_vars(RxCopy \/ RxSend)

Spec == Init /\ [][Next]_vars /\ Fairness

-----------------------------------------------------------------------------
(* Properties.                                                             *)

TypeOK ==
  /\ image \in [Slots -> Versions \cup {NoImage}] /\ running \in Slots \cup {0}
  /\ radio \in BOOLEAN /\ carplay \in BOOLEAN
  /\ hasQueue \in BOOLEAN
  /\ queue \in Seq(Messages) /\ Len(queue) <= QueueSize
  /\ heap \in [Messages -> Frames \cup {Free}]
  /\ rx \in {"none", "allowed", "copied"}
  /\ rxMsg \in Messages \cup {0}
  /\ pc \in PCs /\ msg \in Messages \cup {0}
  /\ req \in Frames \cup {Free}
  /\ busy \in BOOLEAN
  /\ retries \in 0 .. MaxRetries
  /\ idle \in 0 .. Period - 1 /\ reported \in BOOLEAN
  /\ told \in BOOLEAN
  /\ failures \in Nat /\ cachedRun \in Nat /\ idleSeen \in BOOLEAN

\* Every message block in use has one owner: the callback that fills it, the queue
\* or the worker.  Nothing leaks on the error paths, and nothing is freed twice.
MessagesOwned ==
  LET inQueue == {queue[i] : i \in 1 .. Len(queue)}
      held == {rxMsg, msg} \ {0}
  IN /\ {m \in Messages : heap[m] # Free} = inQueue \cup held
     /\ inQueue \cap held = {}
     /\ \A i, j \in 1 .. Len(queue) : queue[i] = queue[j] => i = j
     /\ rxMsg # 0 => rxMsg # msg

\* The host goes on hearing of a device that is up to date: fewer than Period
\* same-version frames in a row are answered from the cache alone.
HostHears == cachedRun < Period

\* The device is only reset after MaxRetries connects of one frame have failed, or
\* after an update: trouble with DHCP alone never resets it.
ResetEarned == pc = "reset" => failures = MaxRetries \/ told

\* A frame taken while CarPlay is in use, and while it stays so, leaves the network
\* alone; and an address that comes while it is in use leads neither to a report nor
\* to an update.  Between two looks of the worker CarPlay may start.
InUseUntouched ==
  pc \in {"connect", "dhcp", "report", "init", "update"} => idleSeen

\* What a frame brings about is justified by what the device has seen of the
\* network, of CarPlay and of the frames before, through every retry.
FrameEffects == HostHears /\ ResetEarned /\ InUseUntouched

\* The network does not refuse an address for ever to a device that joins it again
\* and again.  Nothing in the code sees to this.
AddressGiven == []<>(pc = "dhcp") => []<>(pc = "url")

\* The worker comes back for the next frame, or the device is reset, whatever connect
\* and the update do, and however often DHCP fails, if it succeeds at last; the queue
\* is then served in turn.  On a network that is joined and never gives an address the
\* loop does not end, for DHCP failures cost no attempt (WIFI_ACTION_OTA.md:57-58).
FramesServed == AddressGiven => (pc # "receive" ~> pc = "receive")

\* Once the car has been told of an update it ends in a reset, whether it succeeded
\* or not (WIFI_ACTION_OTA.md:65).
UpgradeResets == told ~> running = 0
=============================================================================
