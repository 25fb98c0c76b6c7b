# Verification of the CarPlay box firmware's DMA, crypto and receive paths

The repository is a Realtek AmebaPro (RTL8715/8195B) SDK with a CarPlay box
application on top. Most of its 6691 files are the SDK: FreeRTOS v10.0.0, lwIP
2.1.2, mbedTLS, drivers, HAL, prebuilt archives. The program's own core logic is
small and concurrent: `project/realtek_amebapro_v0_example/src/carbox`, the
rebuilt crypto backends beside it (`tools/legacy_chacha`,
`GCC-RELEASE/carplay_app/aes_rtl8195b`) and the parts of lwIP that were changed
for it (`api/tcpip.c`, `api/sockets.c`, the port's `ethernetif.c`), together with the part of the WLAN driver
that was rebuilt from source to feed them (`drivers/wlan/realtek/wlan_rx_gdma`,
`src/osdep/lwip_intf.c`). This directory models that part. Paths below are relative to
`src/project/realtek_amebapro_v0_example/src/carbox` or, for lwIP, to
`src/component/common/network/lwip/lwip_v2.1.2`.

The models follow the shipped configuration (`GCC-RELEASE/application.is.mk`):
large memcpy GDMA on with a threshold of 4096 bytes, socket receive GDMA on,
crypto lock boost 11 of 12 priorities, crypto IRQ timeout 3 ms, receive batch
stages on (8 packets, 1000 us, 128 entries, a mailbox of 600), NCM receive
priority on. Code that configuration compiles out is not modelled.

## 1. Inventory

| component | state | operations | hard behaviour | what makes it correct |
|---|---|---|---|---|
| Linked-GDMA copy service, `large_memcpy_gdma.c`, entered from `__wrap_memcpy` (`libc_wrap.c`), `lwip_recv` and the NCM builder | two channel contexts (available, busy, in_flight, irq_error, semaphore), the channel, data cache | claim, drain, clean, submit, wait, poll, abort, invalidate, copy edges, release; CPU fallback | completion interrupt that comes early, late or not at all; 20 ms timeouts; bus errors; a cache that is not coherent with the DMA | every call that returns has delivered every byte; one task per context; no DMA write after the call; the neighbour of an edge line keeps its bytes; every call returns |
| Crypto engine lock, `crypto_priority_lock.c` first half | a table of boosted tasks, `RT_DEV_LOCK_CRYPTO`, the AES private mutex, FreeRTOS priorities | enter/leave around take/give | priority inheritance, timed takes, preemption, a full slot table | the owner is boosted; exact base priority afterwards; held counts right; no lost wake-up; the engine is released |
| Crypto completion controller, `crypto_priority_lock.c` second half, with the ChaCha and AES backends | semaphore, active flag, hooks in the HAL adapter, NVIC line, per-backend hardware state | pre_exec, wait_done, handler, enable, quiesce, engine_reset; prepare, operate, recover, disable | a late completion, an engine that hangs, recovery of an engine two clients share | a completion belongs to its operation; software only on quiet buffers; the engine is armed; a call ends |
| TCP/IP thread receive path, `api/tcpip.c` | mailbox, entry pool and free list, current batch, timer, NCM list and marker | `tcpip_inpkt`, timer ISR, thread, NCM enqueue and drain | timer interrupt against producers and thread, a full mailbox, an exhausted pool | every accepted packet is delivered once, in order, also with no new traffic; no entry is in two lists |
| Socket receive with deferred copy, `api/sockets.c` 1659-1968 | pending netconn data, an array of up to 16 gathered pbufs | gather, flush (scatter copy or CPU), consume, window update | errors after a partial gather; pbufs owned before they are copied | bytes in order, each pbuf freed once and after its copy, window equals bytes returned |
| WLAN receive zero-copy pbufs, `ethernetif.c` 114-492, 2598-2636; `wifi_conf.c` 1524-1560 | wrapper pool, outstanding count, self-test state, quiesced flag | try (gate, self-test, acquire), release, free, quiesce with rollback, resume | frees and reservations racing a quiesce; two interfaces at the self-test; a drain that times out | no pbuf and no reserved wrapper while the driver is stopped; a pbuf only after the self-test |
| WLAN receive DMA buffers, `wlan_rx_dma_mgr.c`, `rtl8195b_recv_recovered.c`, `freertos_skbuff_recovered.c`, `lwip_intf.c` 3018-3161 | ring slots, descriptors, skb references, pool and heap blocks | start, rotate, bind or copy, re-arm, deliver, acquire, free, deinit | allocation failing in the middle of the ring; a buffer replaced while the old one goes up; two reference schemes for two kinds of skb | the hardware never writes a buffer somebody reads; a block lives as long as it is referred to; the ring never stops |
| Firmware update, `ota/carplay_ota_compat.c` | header, target slot, flash, signature, failed/finalized | init, write, finalize, deinit | power loss at any erase or program; a transfer that fails in the middle | one bootable image at any time; no commit of an incomplete one |
| Update over WiFi action frames, `ota/wifi_action_ota.c` | queue, busy flag, worker's request, cached report | frame callback, worker: parse, judge, connect, DHCP, report, update, reset | callback against worker; a network, an address and a CarPlay session that come and go while it retries; power cuts | one owner per message; resets only for their reasons; the host keeps hearing of the device; the worker comes back for the next frame; an announced update ends in a reset |
| Car ACK cache, receive crypto buffers | small tables | look-up, prepare, release | look-up outside a critical section | a slot serves one owner |
| Compatibility hooks, profilers, retired optimisations, SDK | - | - | - | not modelled, see section 8 |

Interactions. `memcpy` callers, `lwip_recv` and the NCM builder share the two
GDMA contexts; they are unaware of each other and get 0 and copy with the CPU
when they lose. The AES and ChaCha backends share one engine under
`RT_DEV_LOCK_CRYPTO`, one interrupt line and one HAL adapter, and each keeps a
state of its own about it. The receive ring of the WLAN driver hands
its buffers up as zero-copy pbufs, which come back from whatever thread frees
them. The WLAN task, a reorder timer, the USB host task
and every API caller post to one mailbox that only the TCP/IP thread reads; the
thread's data then goes through a socket mailbox and `lwip_recv` into the copy service and through
the crypto engine. Base priorities (the TCP/IP thread has 10) are what the
boosts of the first two components have to beat. The Action worker is the one that
opens download sessions of the firmware update and that resets the device.

## 2. Plan

Order: by how much depends on a component and how little of it a test reaches.

Done, in this order:

1. `CacheLine`, `GdmaCopy`, `CopyService`: every bulk byte of the system goes
   through this code.
2. `TaskPriority`, `CryptoLock`, with its safety proved.
3. `CryptoIrq`, with its safety proved.
4. `TcpipRx`, with its safety proved.
5. `FirmwareSlots`, `OtaUpdate`, with the refinement proved.
6. `ActionOta`, with its safety proved.
7. `SocketRecv`, a byte stream over mailbox, pbufs and gathered copy, with its safety
   proved.
8. `WlanRx`, ring, zero-copy pbufs and the shutdown around them, with its safety proved.

Left: two update sessions side by side (section 7), and the pure parts: how a
scatter list is cut into transactions (`large_memcpy_gdma.c` 631-670, 972-1025),
the ACK cache, the crypto buffers, the bounds of the frame's TLV parser.

No invariant a run checks is left without its theorem. Of the other properties, what is
left to TLC is the liveness (section 6).

## 3. Modules

| module | models | proofs |
|---|---|---|
| `CacheLine` | one line of the data cache as the core, the DMA and replacement move it: store, fill, evict, clean, invalidate, DMA store to RAM | in `GdmaCopyProofs` |
| `GdmaCopy` | the copy service, section 4.1; composes `CacheLine` | `GdmaCopyProofs` |
| `CopyService` | what a caller is promised: begin, run, finish with a whole destination | refined by `GdmaCopy`: run `gdma_service`, `GdmaCopyProofs` |
| `TaskPriority` | the priority fields of a FreeRTOS control block and what `vTaskPrioritySet`, inheritance, disinheritance and its timeout form do to them | - |
| `CryptoLock` | the lock with its boost over mutexes and scheduler; composes `TaskPriority` | `CryptoLockProofs` |
| `CryptoIrq` | completion controller with its two clients | `CryptoIrqProofs` |
| `TcpipRx` | receive path into the lwIP thread | `TcpipRxProofs` |
| `OtaUpdate` | one update session over flash that tears, with the boot loader and power cuts | `OtaUpdateProofs` |
| `ActionOta` | the worker and the frame callback of the WiFi Action update | `ActionOtaProofs` |
| `SocketRecv` | `lwip_recv` on a TCP socket, with the callbacks that fill its mailbox | `SocketRecvProofs` |
| `WlanRx` | the WLAN receive ring, its buffers, and the pbufs that refer to them | `WlanRxProofs` |
| `FirmwareSlots` | the two slots as the boot loader sees them: whole or not bootable | - |
| `MC*` | values of constants for TLC | - |

The operators marked "Mutation" or "Mutant" in the modules are plausible slips
in the code they stand beside; no action uses them. Each property has one that
breaks it, which shows the property depends on that code.

## 4. How the models correspond to the code

### 4.1 GdmaCopy

A variable per field of `large_memcpy_gdma_context_t` (`available`, `busy`,
`inFlight`, `irqError`, `done`), the channel as software sees it (`chan` is
CH_EN with progress, `rawErr`, `pending`, `isrOn`), the call of each task (`pc`,
`mode`, `ctx`, `seg`, `copied`) and memory (`dst`, `src`, `nbLast`). One action
per step of the call between two points where another task, the interrupt or the
hardware may come in; `ShutDown` is the sequence isr_dis, abort, clean, deinit,
available = 0 that three failure paths share.

A destination is `Segments` body lines and a tail line. A body line stands for
the whole aligned range of one transaction, since every address of that range is
treated alike; the tail line stands for prefix and tail, which the core copies
and which share their line with a neighbouring object. `src` says whether the
source bytes are still dirty in the cache, in RAM, or freed. `mode` tells
`try` (one list per transaction) from `copyv` (batches, and a last invalidation
over everything). What `memcpy` and the other callers do after 0 is `Recopy`.

Constants describe what the code cannot know: whether the adaptor has cache
callbacks (`DCache`) and whether a bus error clears CH_EN (`ErrorHalts`). Whether
the ROM's invalidate also hits the line at the exclusive end, a suspicion the code
states at 1053-1055, differs from behaviour to behaviour (`overshoot`). The hardware may raise the interrupt
early (349-352), fail, or never finish. A channel that was disabled keeps moving
data until it is aborted.

### 4.2 CryptoLock

`TaskPriority` translates `tasks.c`, `CryptoLock` the mutex part of `queue.c`
and `crypto_priority_lock.c` 404-520. The scheduler is the guard `Runs`: only a
ready task of the highest priority executes, so an action of a lower one is
impossible, not merely unlikely. A task blocks in "idle" (its own work), in a
mutex queue and in "dma". Waiters are queued by the rank they had when they came
in (`IsPlace`), as `vListInsert` does. A timed take has two steps: the tick removes the task
from the queue (`Expire`) and the task, when it runs, withdraws what the holder
inherited and takes again (`Retry`), because `device_mutex_lock` and
`rtw_mutex_get` both loop. `Sample`, `TakeSlot`, `Raise` are the three parts of
`crypto_priority_enter`: the read of the priority in use, the critical section,
and the set after it.

### 4.3 CryptoIrq

One call at a time runs (that is what `CryptoLock` shows), so there is one `pc`;
the DMA, the interrupt and the timeout interleave with it. A completion is
known by the operation it belongs to: `"own"` of the operation submitted last,
`"old"` of an earlier one; `PreExec` ages everything. `tokens` is the semaphore,
`pending` the NVIC bit with the operations behind it, `dma` the transfers that
still run. `Enabled` mirrors `carbox_crypto_irq_controller_enable`: the line is
switched on only when the hooks have to be put back. The ChaCha recovery
(`ChaCha20Poly1305_rtl8195b.c` 177-195) and `_AES_RTL_DisableHW` (`AESUtils.c`)
are modelled step by step because they differ: one resets the engine through the
controller before deinit, the other trusts deinit.

About the ROM the model assumes that a successful `rtl_cryptoEngine_deinit`
clears the adapter with its hooks. A *setup* says which backends a build has,
whether deinit also stops a running DMA, and whether deinit and init may fail; a
behaviour has one of `Setups`. `Sound` says which setups the code is right for:
ChaCha alone needs nothing of the ROM, AES needs a deinit that stops the DMA and
succeeds, and AES beside ChaCha needs an init that succeeds.

### 4.4 TcpipRx

Critical sections are atomic, and they mask the timer's interrupt. `Posted` is
`tcpip_rx_batch_post_task_locked`, which the timer callback repeats: seal, post,
restore when the mailbox is full. `Inpkt`, `InpktAlone`, `InpktExhausted` and
`Envelope` are the paths of `tcpip_inpkt`; `falling` holds the packet of a
producer that has left the critical section for lwIP's own envelope. The thread
reads an entry before `input_fn` and frees it after, so those are two steps. The
free list is a sequence and the NCM list a sequence with a counter of free
entries; what `input_fn` does with a packet is left out. The producers of WLAN
packets are the receive task and the driver's reorder timer.

### 4.5 OtaUpdate

A variable per field of `carplay_pro1_ota_state_t` that decides something. A
cell is a piece of an image; cells 1 and 2 of a slot are the halves of the
32-byte signature, which `update_ota_signature` programs separately. A cell holds
the version it belongs to, `Erased`, or `Torn` for anything else, also what a
corrupted package carries. Programming only clears bits (`Programmed`), so
writing over what was not erased gives `Torn`. `flash_api.c` reports success
whatever happens: `Erase` may leave the sector as it was or torn, `Write` and the
signature writes may stop in any cell, and only `Verify` and `SigCheck`, which
read back, can tell. `PowerOff` may come between any two steps; together with a torn step
it is a power cut inside an operation.

`UpdateInit`, `Deinit` are the session's ends. A call of `download_fw_program`
brings `left` cells and loops through `input`: `SwitchImage`, `TakeSignature`,
`StartWrite`, `InputDone` are the branches of its loop, `Compare` is the test
for the running firmware, and the range written next (`From`, `Upto`, `Datum`)
is the erased placeholder first and then what the call brought of the
current image. The two length fields `received_len` and `image_received` advance
together in the code and are one variable. The additive checksum is taken to
notice corruption (`bad`); HTTP is chunks, an end and a failure. The headers'
bytes are not modelled: they are accepted or rejected as a whole.

Assumed: one session at a time, and callers that bring no more than the declared
length. For the download `carbox_ota_http_get` sees to the second (184, 196); for
the upload the prebuilt server must. Nothing in the code sees to the first.

### 4.6 ActionOta

The callback (`RxFrame`, `RxCopy`, `RxSend`) runs in the driver's thread and
the worker (`Receive` to `Finish`) in its own; the queue holds pointers, so a message is a
heap block that one of callback, queue and worker owns. A frame is what the parser
makes of it: a version, whether it names a network, and whether its URL is
good. That parsing may fail, for a bad frame or for want of memory, is an outcome of
`Parse`; both take the same path. The network, the radio, CarPlay and the power turn
at any time. Connect and DHCP are retried as in `action_process`: a failed connect
costs an attempt, a DHCP failure does not, and the count runs over the whole
request. `WIFI_ACTION_OTA.md` 56 says five failures *in a row*; a connect that
succeeds without getting an address in between does not start the count again.

`Erase`, `Commit` and `UpdateFails` are the outcomes of an update session for the slots,
and at `Boot` the boot loader is free to take any bootable slot. That the slots stay sound
through a session is the matter of `OtaUpdate`; here they only decide which version runs
when the next frame comes. The server's package need not hold the announced version:
nobody compares the two, and what keeps the running firmware from being installed again
is the comparison of signatures (`carplay_ota_compat.c` 543, `Packages`), not the test
of the version (`Same`). So a server that announces one version and holds the running one makes the
device reset after every frame it acts on, and the model has these behaviours. As in
`OtaUpdate`, equal versions have equal signatures.

DHCP failures cost no attempt (`WIFI_ACTION_OTA.md` 57-58), so on a network that can be
joined and never gives an address the loop of `action_process` (125-164) does not end, and the
worker, which stays busy, takes no other frame until the power goes. No scheduling of the
code excludes this: `FramesServed` names the assumption it needs, `AddressGiven`, and
TLC finds the loop when that is dropped.

Left out: which of several stored networks is joined; `wifi_set_mode`
(`wifi_conf.c` 1616-1745), which may switch autoreconnect on again while the worker
is connecting; that autoreconnect stays off until the next boot; the wrap of the idle
count at 2^32 (the remainder is modelled). CarPlay is not looked at again between
report and download, nor while connecting is retried: the model does what the code
does, and `InUseUntouched` promises no more.

### 4.7 SocketRecv

The bytes of the stream are numbered from 1, so a pbuf is known by the positions
it holds and a copy from a freed pbuf puts 0 into the buffer. The TCP/IP thread
posts data, the end of the stream or an error (`Arrive`, `Finish`, `Reset`,
`PostReset`); err_tcp first clears the pcb and posts later, so those are two
steps. The reader's actions are the steps of `lwip_recv_tcp` and of
`netconn_recv_data_tcp` between two points where the thread may come in: take a
message, notice the end, gather, flush when the array is full or a copy is not to
be deferred, consume, copy out what is pending, acknowledge. `pending` is `recv_pending` with the offset
each entry's bytes go to; `lastdata` is the rest of a pbuf the call did not use.
`credit` is what `tcp_recved` gave back, `live` the bytes in pbufs not yet freed.

One task reads, as lwIP demands. `recvmsg` is a series of calls with MSG_DONTWAIT
for all but the first; its later calls may take the end of the stream and lose the
return of 0, so the next read says ENOTCONN, which no property excludes. When a reset finds the
mailbox full, the reader gets ERR_CONN on the next call rather than the "same error" the
comment near `sockets.c` 1800 trusts in. Close is one step. Left out: the
deferral of window updates by the screen rate limit, UDP and raw sockets, sending.

### 4.8 WlanRx

A block is a receive buffer: one per ring slot at the start, the rest from the heap,
and the skb pool of the small ones. Each block has its state (`live`) and its
reference word; an skb is a block with the way it was allocated, since pool skbs
count references and heap skbs do not. The tasklet walks the ring: `Rotate`
publishes a replacement and hands the completed buffer up, or keeps it and
copies; `Bind`, `Deliver`, `Rearm` are the places where an allocation may fail. The
closed driver between `recv_entry` and the interface is external: it holds,
reorders, drops, and delivers on one of two interfaces. `ethernetif_recv` asks
`wlan_rx_zc_try`: reserve a wrapper under the gate, check or run the self-test, acquire a clone,
and give the pbuf to the stack, which frees it whenever it likes. One manager task
runs `wifi_off` (quiesce, poll or roll back, stop, deinit) and `wifi_on`, whose start may fail
(`StartFails`: the driver is stopped again without a quiesce, behind the gate the
last `wifi_off` closed).

The model begins after the first successful `wifi_on`. A first start that fails half way is not
in it: the gate is open from the beginning (`g_wlan_rx_zc_quiesced` is 0), `ethernetif_recv`
does not ask whether the interface is up, and `wifi_conf.c` 1451-1453 stops the
driver without a quiesce, so a frame of the interface that did start could leave a pbuf behind. Neither
`QuiescedIsDrained` nor `BlocksHeld` speaks of that path.

Assumed or left out: the payload, caches and counters; two managers at once (a second
`wifi_off` could open the gate the first one closed); `rotate`'s checks for a
ring out of step, which are unreachable; acceptance by `netif->input` is merged into the acquire
and `Try`'s first look at the self-test into the reservation; a shortage of wrapper
skbs is a nondeterministic failure. In the passing run the driver does not
duplicate a large multicast frame for the other interface (`LargeMulticast`);
when it does, `wlan_rx_heap` shows what happens.

## 5. Runs

| run | instance | shows |
|---|---|---|
| `gdma_owners` | 3 tasks (symmetric), 2 contexts, no cache | contexts are never shared or leaked; no DMA write outside its call |
| `gdma_service` | 1 task, 1 context, 2 transactions, cache, exact and overshooting invalidate, fairness | refinement of `CopyService` (a returned copy is whole and stays so); a transaction is accepted only when written; the neighbour keeps its bytes; every call returns |
| `lock_calls` | 2 AES tasks of one priority, 1 ChaCha, 1 network task, 1 slot | all of section 1's properties, with a full slot table |
| `lock_inherit` | 2 AES tasks of different priorities | **violation**: an inherited priority is restored as base priority |
| `irq_calls` | all 12 sound setups of backends and engine | quiet buffers, armed submissions, every call ends |
| `irq_aes_stale` | both backends, init may fail | **violation**: AES believes an engine up that the recovery left down |
| `tcpip_rx` | 2 producers, 3 entries, mailbox of 2, threshold 2, 4 WLAN and 2 NCM packets | ownership, no loss or duplication, order, delivery without new traffic |
| `ota_sessions` | 2 versions, firmware of 4 cells in sectors of 3, FATFS of 1, calls of at most 2 | refinement of `FirmwareSlots`, signature last, success real, downloads end |
| `wlan_rx` | ring of 2, 3 heap blocks and 1 pool block, 2 wrappers, 2 interfaces, 2 receive frames | exclusive DMA, blocks live as long as they are held, drained shutdown, self-test, a ring that keeps moving |
| `wlan_rx_heap` | the same with large multicast frames duplicated | **violation**: a pbuf refers to freed memory |
| `socket_recv` | 5 bytes in pbufs of 1, 2 and 1+1, mailbox of 3, window of 4, array of 2, reads of 0, 1 and 3 | order, ownership, exact window, the end is not lost, calls return |
| `action` | queue of 1, 2 attempts, report every 3rd frame, 2 versions, 3 forms of frame | messages, effects of a frame, a worker that comes back when there is an address at last, a reset after every announced update |

Each module's type invariant is proved, `WlanRx`'s for the passing run's kind of traffic;
the runs check most of them too.

Bounds. Two transactions are enough for "later transaction after an earlier
one", the last and a non-last; with one task and a cache every line state at
every step is reached, and a second task never touches the first one's lines.
Three tasks on two contexts give a holder each and one that finds none; the
cache plays no part there and is switched off. One slot for two boosted tasks
makes the table full; two AES tasks and a ChaCha task give the crypto mutex a
queue of two. Three operations per call (`MaxOps`) allow one that times out
followed by one that could take its token. Three entries against a threshold of
2 let a restored batch grow beyond it and the pool run dry; a mailbox of two is
full with an API message and a batch. A firmware of 4 cells has a sector
boundary inside its body, a signature that one call may bring in halves and a call of two
that spans two images; versions come back after one another, so a session meets
whatever earlier ones, faults and power cuts left in the slot. The traffic of `tcpip_rx` is bounded, so
the system stops there and the deadlock check is off; a socket that is closed or read to its end stops too (`socket_recv`); everything else runs
forever and is checked for deadlock. Symmetry is used only where no liveness is
checked.

A ring of two has a slot in use and one behind it; three heap blocks let both be
replaced while one more is up the stack, and then the heap is empty; two wrappers
are one for the self-test and one in use, or two pbufs. Five bytes fill the
array of two and the mailbox of three, leave a rest in `lastdata`, and exceed the window once. One
queued message, one with the worker and one with the callback are all the
places a message can be in; two attempts tell the last from the one before.

### Fairness

- `GdmaCopy`: each task's own call steps. A task in a call is scheduled (the
  holder is even boosted) and both its waits have a limit of 20 ms. Hardware,
  interrupt and callers owe nothing.
- `CryptoLock`: a step of a task that stays enabled, which includes being the one
  the scheduler runs, and the end of a 3 ms wait. A low task may starve; the
  liveness property is only about an owner with a slot.
- `CryptoIrq`: steps of the call, and a pending interrupt is served. The engine
  may hang.
- `TcpipRx`: the thread, and an armed timer fires. Producers owe nothing, and
  they stop: "recovery does not require new RX".
- `WlanRx`: the receive tasklet. Stack, driver, hardware and manager owe nothing:
  pbufs may never come back.
- `SocketRecv`: the steps of the call, and `err_tcp` goes on to post its message. The peer
  owes nothing, so `CallsReturn` is about a call that has data, or whose peer has
  finished or reset. Receive timeouts may happen but are not counted on.
- `ActionOta`: the worker, which has the lowest priority but is scheduled at last, and
  whose sockets time out after 15 s; and a driver thread that has begun a callback
  ends it. Network and server owe nothing; that there is an address at last is a
  premise of `FramesServed` and of no other property.
- `OtaUpdate`: a call in progress and the end of a session run on, and a download
  whose server is silent ends with the receive timeout of 15 s
  (`carplay_ota_http.c` 49, 61). An upload may stall for ever, and power owes
  nothing.

### What the violations say

`lock_inherit`. `crypto_priority_lock.h` 17-19 promises the exact original
priority. `crypto_priority_enter` reads `uxTaskPriorityGet`, the priority in use. A low
AES task that holds `gAESRTLLock` while a higher one waits for it has inherited,
and leave makes the inherited value its base priority for good. With AES users of
one priority (`lock_calls`) the promise holds.

`irq_aes_stale`. The comment at `ChaCha20Poly1305_rtl8195b.c` 173-175 says the
recovery avoids a stale "available" state in AES. When init fails it does not:
`gAESRTLHWState` stays 1 over an engine that is down.

`wlan_rx_heap`. A comment at `lwip_intf.c` 3073 says a clone raises the driver's
reference count, so that a pbuf can keep the payload. `kfree_skb` frees an skb
of the ordinary heap at once, whatever the count
(`freertos_skbuff_recovered.c` 280), and such an skb comes up when both interfaces
are on: a multicast frame is duplicated with twice its length
(`rtl8195b_recv_recovered.c` 238), which no pool block holds. The self-test uses a
64-byte skb, which is always from the pool.

Four more limits follow from changing one constant of a passing run.
`ErrorHalts = TRUE` in `gdma_service` breaks `AcceptedIsWritten`:
`large_memcpy_gdma_wait` takes CH_EN clear as the last write (186-187, 349-352) and reads the raw
error only while CH_EN is set (361-367), so a bus error that clears CH_EN after an early
interrupt goes unseen; whether this channel does that is not stated in the
repository. An overshooting invalidate loses a neighbour's dirty bytes (the
guard of `NeighbourKept`), so the code's comment at 1053-1055 protects the caller's own edges but not other
objects in the line. In `irq_calls`, AES with an engine whose deinit does not stop the DMA breaks
`BuffersQuiet`, since AES trusts deinit (`AESUtils.c` 185); one whose deinit fails breaks
`SubmittedArmed`, since quiesce has switched the line off and enable skips it
while the hooks are in place.

## 6. Proofs

`GdmaCopyProofs` proves for every set of tasks, every number of contexts and
transactions, and all settings of the hardware constants:

- `TypeCorrect`: `Spec => []TypeOK`.
- `OwnershipInvariant`: `Spec => []OwnershipInv`.
- `ContextsOwned`: `Spec => []OneOwner`.
- `DmaConfined`: `Spec => []DmaOnlyInsideCall`.

The assumptions are the ones `GdmaCopy` states of its constants: at least one
context and one transaction, "no task" is not a task, the hardware constants are
Boolean. `OneOwner` is inductive with the types. `DmaOnlyInsideCall` is not:
after `Submit` one has to know that the context is available, which is
`HolderUsable` (a holder's context works until the call shuts it down), and the
owner of a running job must exist, which is `JobHasTask`. `OwnershipInv` is the
conjunction. The argument for confinement is that a channel is enabled only in
`Submit` by the owner, and that the owner cannot leave the running part of the
call except by reading CH_EN clear (`Check`) or by aborting (`Abort`), and no other
task can reach the channel, by `OneOwner`. `LineClosed` proves that the cache operations stay within the set of lines, which
type correctness of memory rests on.

About the bytes themselves it proves:

- `NeighbourSafe`: `Spec => []NeighbourKept`, whatever the hardware does;
- `AcceptedAfterLastWrite`: `Spec => []AcceptedIsWritten`;
- `ServiceRefined`: `Spec => Service!Spec`, the step simulation of `CopyService`.

The last two assume `~ErrorHalts`: without it they are false (section 5).
`MemFacts` says that an absent line reads as RAM does and that the tail line holds
the neighbour's last store, in the cache or already in RAM. It needs nothing
of the copy: no DMA write and, unless the ROM overshoots, no invalidation reaches the
tail line. `CopyFacts` follows a transaction: from `Clean` on its source is in RAM and no dirty
line lies over its range (`Prepared`), so that what the channel writes last is the
copy and no eviction can cover it (`Landed`); the lines of the transactions accepted before stay delivered,
whatever the cache does (`BodyDelivered`); and what a finished call leaves behind
reads the same dirty, clean or evicted (`CopySettled`), which is why the destination
stays whole. A copy moves only by its own task and the one channel that works for
it, by `DmaOnlyInsideCall`, so each fact is proved for one task at a time (`SameCopy`).

The proofs are split by action: one lemma per conjunct, one step per action.

`OtaUpdateProofs` proves for every set of versions and every length of images,
sectors and calls:

- `SlotsImplemented`: `Spec => ImplementsSlots`, the refinement of `FirmwareSlots`;
- `SignatureLast`: `Spec => CommitLast`; `SuccessCorrect`: `Spec => []SuccessIsReal`;
- `AlwaysStartable`: there is a signed slot, and the running one is signed;
- `TypeCorrect`: `Spec => []TypeOK`.

The assumptions: a firmware is longer than its signature (the header parser
refuses others, 415), a sector holds a signature, `Erased` and `Torn` are no
versions. None of the properties is inductive. `IInv` adds where a failed or
finalized session can be (`FailedEnds`, `FinalizedEnds`); that everything below
the write offset stands as it was sent and that the next erase is beyond it
(`FwWritten`, `FsWritten`); that the target's signature stays erased from the
placeholder to `SigHead` (`Prepared`); that the comparison lies between signature
and placeholder (`Compared`); that a write belongs to an image not yet complete, so
that a complete image stays checked (`Writing`, `Completed`). The argument: only
`SigHead` makes an unsigned slot signed (`SignedBySigHead`), and before it
everything else is in place (`ReadyToSign`); all other writes leave the target
unsigned or as it was (`WritesQuiet`), and the running slot is never the target
(`TargetOther`). `StepMaps` turns this into `Discard`, `Install` or a stutter. All parts of
`IInv` were checked with TLC on the instance of `ota_sessions` first.

`CryptoIrqProofs` proves for any number of operations, and any set of setups that
are `Sound` (an assumption of each theorem):

- `BuffersReturnedQuiet`: `Spec => []BuffersQuiet`;
- `SubmissionArmed`: `Spec => []SubmittedArmed`;
- `AesInformed`: `Spec => []AesStateCurrent`, the property `irq_aes_stale` refutes for a setup
  that is not sound;
- `TypeCorrect`: `Spec => []TypeOK`.

None is inductive. The argument for the first: only one operation is in flight, and
whenever none is waited for or being recovered from, no transfer runs and no
completion is due (`EngineAtRest`, `InFlight`), so a token taken in a wait whose
semaphore was emptied (`SemaphoreEmpty`) is its own. For the second: hooks in the
adapter mean a line that is on (`LineOn`), but for recoveries that end with ChaCha
switched off.

`ActionOtaProofs` proves for any versions and frames, any depth of the queue, any number
of attempts and any period of reports (at least one each; `Free` is no frame):

- `MessagesKept`: `Spec => []MessagesOwned`;
- `EffectsJustified`: `Spec => []FrameEffects`;
- `TypeCorrect`: `Spec => []TypeOK`.

`IInv` adds who holds a message at which step (`Handed`, and `Owned`, which is
`MessagesOwned` block by block), that attempts left and failed make up all of them
(`Counting`), and that the answers from the cache are among the frames counted (`Cached`).

`CryptoLockProofs` proves for any tasks, any base priorities below the boost and any
number of slots:

- `TypeCorrect`: `Spec => []TypeOK`, which includes the kernel's count of held mutexes;
- `SlotsSafe`: `Spec => []SlotsOwned`;
- `WakeupsKept`: `Spec => []NoLostWakeup`;

and for AES tasks of one priority (`Peers`), whatever the others have:

- `OwnerRaised`: `Spec => []OwnerBoosted`;
- `PriorityRestored`: `Spec => []BoostRestored`.

`IInv` adds to these where the owner of a mutex is in its call (`Owners`, from which
`Counts` follows) and which call goes through which places (`CallAt`). A task is out of
`queue` only when it was woken or its wait expired; the lemmas on queues say what
`InsertAt`, `RemoveAt` and `Tail` leave of "queued once". The two theorems about priorities need
`Levels`, what the fields of the control block are at each place: the base is
the boost between `Raise` and `Restore` and the configured one elsewhere, the priority in use is
never below it, and both are equal where nothing is held and at `Sample`. That last part
is where `Peers` is used: an AES task at `Sample` holds the private mutex,
so it would have inherited from any waiter of a higher priority. `lock_inherit` has
such a waiter and reaches the state the theorem excludes.

`WlanRxProofs` proves for any ring, heap, pools, wrappers and interfaces, and whatever
allocation fails:

- `GateInvariant`: `Spec => []GInv`, the control part of the invariant;
- `QuiesceDrains`: `Spec => []QuiescedIsDrained`;

and where no large multicast copy in the heap reaches the zero-copy path (`~LargeMulticast`,
an assumption of each; `wlan_rx_heap` shows that they fail without it):

- `BlockInvariant`: `Spec => []BInv`, the part about the blocks;
- `HeldWhileLive`: `Spec => []BlocksHeld`; `DmaConfined`: `Spec => []DmaExclusive`;
- `SelfTestSound`: `Spec => []SelfTestGuards`; `TypeCorrect`: `Spec => []TypeOK`.

`GInv` says what descriptor, shadow and slot have to do with one another while the
interface is on, that `outstanding` counts the marked wrappers, and that behind a closed gate wrappers
only come back; the drain follows from it alone. `BInv` names the eight places a block
may be referred to from, says that a block has at most one original and one clone, each
in one place only, and that its reference word is the number of the two. From that
a block is freed by the last holder and by nobody else. A block of the heap must have
no clone, which is what a large multicast copy breaks.

`SocketRecvProofs` proves for any stream, any pbuf chains of at least one byte, any
lengths asked for and any sizes of mailbox, array and window:

- `StreamRead`: `Spec => []BytesInOrder`; `PbufsOwnedOnce`: `Spec => []PbufsOwned`;
- `WindowGivenBack`: `Spec => []WindowExact`; `EofKept`: `Spec => []EofNotLost`;
- `TypeCorrect`: `Spec => []TypeOK`, with the bound of the array on the stack.

None is inductive. `IInv` describes the whole stream: the gathered records continue the bytes
that were returned and copied (`Order`) without a gap (`Cover`), the pending data continues
the records (`LastInv`), the mailbox continues the pending data up to the last
byte that arrived (`Mail`), and what is alive is exactly this stretch (`Held`). A record that is used in
part is the last one and lives only between its gathering and the flush that follows, since it
means the request is filled. `Ended` says that a FIN is taken only when no data is left,
which is the order of the mailbox; `Credit` that the window lags behind the bytes
returned only after a reset.

`TcpipRxProofs` proves for any tasks, any pool, mailbox and NCM list of at
least one entry, any batch threshold up to the pool, and any numbers of packets:

- `PoolOwned`: `Spec => []EntriesOwned`; `PacketsInTurn`: `Spec => []PacketsKept`, with its
  parts `WlanOnce` (`WlanKept`) and `WlanInOrder` (`WlanFifo`);
- `TypeCorrect`: `Spec => []TypeOK`.

The links and the counts of the lists do not say that the lists are disjoint, so `PoolInv`
says that the entries of the whole pool stand in one row (`Layout`): what the
thread has in hand, the chain of each message, the open batch, the free list. An operation
moves a border of this row, or takes its first entry to the end. That the chains, which
are recursive functions, are those parts of the row is proved through a least counterexample
(`WFMin`), since the induction theorems cannot be used here. For the order, `OrderInv`
gives every packet a rank that grows from what was passed on along the row and the envelopes
between (`Order`). A packet that finds the pool exhausted is accepted outside the critical
section and gets a rank behind all others. That it does not overtake is `InTurn`: nothing accepted
before its call is still in the open batch, which was posted or was empty when the
call left the critical section; and what other calls add meanwhile was not
accepted before it. For `NcmKept`, the row of the NCM packets (`NcmRow`) grows only at
its end, and `NcmCount` says that a list without its marker is empty, so that a marker that
cannot be posted takes only its own packet with it.

Only model-checked: the liveness properties, which are out of the prover's reach
(`CallsReturn` of both modules, `EngineReleased`, `CallsEnd`, `AcceptedDelivered`,
`SessionsEnd`, `RingServed`, `FramesServed`, `UpgradeResets`), and of `ImplementsService`
the part that is fairness; its steps are `ServiceRefined`.

## 7. Hazards

`PROJECT.json` lists them at their lines, each with the properties that would
catch it, or with a note.
Three of lower risk are kept here: a prepared-next slot of
the ACK cache when the clock it was prepared for changes
(`car_ack_response_cache.c:167`), and the slot table of the receive crypto buffers,
searched without a critical section while another task claims or releases a slot
(`rx_crypto_buffers.c:34`); and the boost of a GDMA context's holder, which saves the
priority in use as the crypto lock does (`large_memcpy_gdma.c:482`).

Two are left open by the code itself. An upload through the web server and a download
by the Action worker may each open a session on the same slot: nothing keeps them
apart, and `OtaUpdate` states one session at a time as its assumption. And CarPlay may
start while the worker connects or after it reported: it is not asked again.

## 8. Not modelled

- How a request is cut into transactions, and the refusals at the entry of a copy:
  a nondeterministic choice in the model. The choice matters for no property there.
- The priority boost of a GDMA context holder (478-486). It has the pattern of the
  crypto lock and hence its flaw.
- Builds with copy verification, software verification of ciphers, the vendor's
  interrupt enable, or the profilers.
- The ciphers, lwIP's protocol processing, the USB and WLAN drivers, the
  prebuilt archives, but for what sections 4.7 and 4.8 name. `input_fn` refusing a packet is not told apart from delivery.
- The NCM transmit worker in `ethernetif.c` and the builder `ncm/ncm_tx.c`: left
  out of the image in favour of a vendor archive (`application.is.mk` 917-918).
- The car ACK response cache and the receive crypto tables: each is used by one
  task at a time and keeps nothing after a failed step. The audio hooks: compiled out
  by default and run on threads of closed archives.
- Compatibility hooks (HID bypass, time sync, screen timestamps, libusb, VFS), LED,
  clocks, codec selection, diagnostics: straight-line code or pure selection. Retired optimisations:
  the build refuses to enable them (`application.is.mk` 1558-1561).
