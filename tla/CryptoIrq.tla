----------------------------- MODULE CryptoIrq -----------------------------
(***************************************************************************)
(* The completion controller of the crypto engine (second half of          *)
(* carbox/crypto_priority_lock.c) with the two clients that run operations *)
(* under RT_DEV_LOCK_CRYPTO: the ChaCha20-Poly1305 backend                 *)
(* (ChaCha20Poly1305_rtl8195b.c) and AESUtils.c.  The lock serialises the  *)
(* clients (CryptoLock), so one call runs at a time; the DMA, the          *)
(* completion interrupt and the 3 ms timeout interleave with its steps.    *)
(***************************************************************************)
EXTENDS Integers, Sequences

CONSTANTS
  Setups,      \* the builds and engines considered, one for each behaviour
  MaxOps       \* operations of one call (bounds the exploration)

\* A setup: which backends run under the lock, whether rtl_cryptoEngine_deinit
\* stops a running DMA, whether it may fail and leave the engine as it is, and
\* whether rtl_cryptoEngine_init may fail.
Backends == {"aes", "chacha"}
SetupType == [clients : SUBSET Backends \ {{}}, deinitStops : BOOLEAN,
              deinitFails : BOOLEAN, initFails : BOOLEAN]

ASSUME SetupsAssumption == Setups \subseteq SetupType
ASSUME OpsAssumption == MaxOps \in Nat \ {0}

VARIABLES
  setup,        \* the setup of this behaviour; it does not change
  pc,           \* where the call is; "free" when nobody holds the lock
  client,       \* who holds it
  ops,          \* operations the call has left
  state,        \* g_chacha_hw_state and gAESRTLHWState: 1 up, 0 unknown, -1 off
  fallbackSafe, \* gAESRTLFallbackSafe
  initialised,  \* g_rtl_cryptoEngine_s.isInit
  bound,        \* the controller's hooks and interrupt mode are in the adapter
  ready,        \* crypto_irq_ready: the semaphore exists
  active,       \* crypto_irq_active
  lastTimeout,  \* crypto_irq_last_timeout
  deinitOk,     \* local deinit_result of the recovery
  tokens,       \* the completion semaphore, a token per completion given
  irqEnabled,   \* the NVIC line of the engine
  pending,      \* completions behind its pending bit
  dma           \* operations whose DMA is running

clientVars == <<client, ops, state, fallbackSafe>>
adapterVars == <<initialised, bound, ready>>
controllerVars == <<active, lastTimeout, tokens>>
hwVars == <<irqEnabled, pending, dma>>
vars == <<setup, pc, clientVars, adapterVars, controllerVars, deinitOk, hwVars>>

PCs == {"free", "prepare", "op", "preExec", "drain", "activate", "submit", "wait", "timedOut",
        "accepted", "failed", "deinit", "engineReset", "init", "disabled", "refused", "aesDeinit",
        "aesReset", "fallback", "fatal"}

\* An operation is known as "own" to the call that submitted it until the next
\* one begins, and as "old" from then on.
Ages == {"own", "old"}
Aged(S) == IF S = {} THEN {} ELSE {"old"}

Init ==
  /\ setup \in Setups
  /\ pc = "free" /\ client \in setup.clients /\ ops = 0
  /\ state = [c \in Backends |-> 0]
  /\ fallbackSafe = TRUE
  /\ initialised = FALSE /\ bound = FALSE /\ ready = FALSE
  /\ active = FALSE /\ lastTimeout = FALSE /\ tokens = <<>>
  /\ deinitOk = TRUE
  /\ irqEnabled = FALSE /\ pending = {} /\ dma = {}

SetState(c, v) == state' = [state EXCEPT ![c] = v]

---------------------------------------------------------------------------
\* The controller.

\* Mutant: the line is left as it is when the hooks are put back.
EnabledUnarmed ==
  /\ ready' = TRUE
  /\ bound' = TRUE
  /\ irqEnabled' = (irqEnabled \/ (~bound /\ ~ready))

\* carbox_crypto_irq_controller_enable: the semaphore is made once; hooks,
\* interrupt mode and interrupt line are set when the adapter has lost them.
Enabled ==
  /\ ready' = TRUE
  /\ bound' = TRUE
  /\ irqEnabled' = (irqEnabled \/ ~bound)

\* rtw_init_sema may find no memory, the first time.
EnableFails == ~ready /\ UNCHANGED <<ready, bound, irqEnabled>>

\* Mutant: tokens of earlier completions are kept.
Undrained == tokens

\* crypto_irq_pre_exec empties the semaphore, and so does the engine reset.
Drained == <<>>

\* crypto_irq_pre_exec.
PreExec ==
  /\ pc = "preExec"
  /\ active' = FALSE
  /\ tokens' = [i \in DOMAIN tokens |-> "old"]
  /\ dma' = Aged(dma) /\ pending' = Aged(pending)
  /\ pc' = "drain"
  /\ UNCHANGED <<clientVars, adapterVars, lastTimeout, deinitOk, irqEnabled>>

Drain ==
  /\ pc = "drain"
  /\ tokens' = Drained
  /\ pc' = "activate"
  /\ UNCHANGED <<clientVars, adapterVars, active, lastTimeout, deinitOk, hwVars>>

Activate ==
  /\ pc = "activate"
  /\ lastTimeout' = FALSE
  /\ active' = TRUE
  /\ pc' = "submit"
  /\ UNCHANGED <<clientVars, adapterVars, tokens, deinitOk, hwVars>>

\* The HAL starts the DMA of the operation.
Submit ==
  /\ pc = "submit"
  /\ dma' = dma \cup {"own"}
  /\ pc' = "wait"
  /\ UNCHANGED <<clientVars, adapterVars, controllerVars, deinitOk, irqEnabled, pending>>

\* crypto_irq_wait_done takes a token within 3 ms ...
TakeToken ==
  /\ pc = "wait"
  /\ tokens # <<>>
  /\ tokens' = Tail(tokens)
  /\ active' = FALSE
  /\ pc' = "accepted"
  /\ UNCHANGED <<clientVars, adapterVars, lastTimeout, deinitOk, hwVars>>

\* Mutant: the wait has no limit.
TimeoutNever == pc = "wait" /\ tokens = <<>> /\ UNCHANGED vars

\* ... or its wait ends; a completion may still come before the masked section.
Timeout ==
  /\ pc = "wait"
  /\ tokens = <<>>
  /\ pc' = "timedOut"
  /\ UNCHANGED <<clientVars, adapterVars, controllerVars, deinitOk, hwVars>>

TimedOut ==
  /\ pc = "timedOut"
  /\ active' = FALSE
  /\ lastTimeout' = TRUE
  /\ pc' = "failed"
  /\ UNCHANGED <<clientVars, adapterVars, tokens, deinitOk, hwVars>>

\* crypto_irq_handler, for whatever completion set the pending bit.
Handler ==
  /\ irqEnabled
  /\ pending # {}
  /\ pending' = {}
  /\ tokens' = IF active THEN Append(tokens, IF "own" \in pending THEN "own" ELSE "old") ELSE tokens
  /\ UNCHANGED <<pc, clientVars, adapterVars, active, lastTimeout, deinitOk, irqEnabled, dma>>

---------------------------------------------------------------------------
\* The engine, as the code sees it: a DMA ends and raises the interrupt, or hangs.
DmaDone ==
  /\ \E a \in dma :
       /\ dma' = dma \ {a}
       /\ pending' = pending \cup {a}
  /\ UNCHANGED <<pc, clientVars, adapterVars, controllerVars, deinitOk, irqEnabled>>

---------------------------------------------------------------------------
\* The clients.

\* A call takes RT_DEV_LOCK_CRYPTO.
Begin ==
  /\ pc = "free"
  /\ client' \in setup.clients
  /\ ops' = MaxOps
  /\ pc' = "prepare"
  /\ UNCHANGED <<state, fallbackSafe, adapterVars, controllerVars, deinitOk, hwVars>>

\* chacha_rtl_prepare_locked and _AES_RTL_Begin with the hardware switched off.
PrepareOff ==
  /\ pc = "prepare"
  /\ state[client] = -1
  /\ pc' = IF client = "chacha" \/ fallbackSafe THEN "fallback" ELSE "free"
  /\ UNCHANGED <<clientVars, adapterVars, controllerVars, deinitOk, hwVars>>

\* The engine is initialised when it is not (ChaCha) or the first time (AES).
NeedsInit == IF client = "chacha" THEN ~initialised ELSE state["aes"] = 0
Prepare ==
  /\ pc = "prepare"
  /\ state[client] # -1
  /\ initialised' = (initialised \/ NeedsInit)
  /\ Enabled
  /\ SetState(client, 1)
  /\ pc' = "op"
  /\ UNCHANGED <<client, ops, fallbackSafe, controllerVars, deinitOk, pending, dma>>

\* Initialisation or the semaphore fails: the backend is switched off.  After a
\* timeout AESUtils also resets the engine (_AES_RTL_DisableHW).
PrepareFails ==
  /\ pc = "prepare"
  /\ state[client] # -1
  /\ \/ setup.initFails /\ NeedsInit /\ UNCHANGED <<initialised, ready, bound, irqEnabled>>
     \/ initialised' = (initialised \/ NeedsInit) /\ EnableFails
  /\ IF client = "chacha"
     THEN SetState("chacha", -1) /\ pc' = "fallback"
     ELSE pc' = (IF lastTimeout THEN "aesDeinit" ELSE "disabled") /\ UNCHANGED state
  /\ UNCHANGED <<client, ops, fallbackSafe, controllerVars, deinitOk, pending, dma>>

\* The key is set and the operation handed to the HAL, or the HAL refuses it
\* before any DMA: ChaCha recovers, AESUtils switches itself off.
Operate ==
  /\ pc = "op"
  /\ \/ ops > 0 /\ pc' = "preExec" /\ ops' = ops - 1
     \/ ops < MaxOps /\ pc' = "free" /\ UNCHANGED ops
     \/ pc' = (IF client = "chacha" THEN "failed" ELSE IF lastTimeout THEN "aesDeinit" ELSE "disabled")
        /\ UNCHANGED ops
  /\ UNCHANGED <<client, state, fallbackSafe, adapterVars, controllerVars, deinitOk, hwVars>>

\* The operation returned 0; the HAL may also find an error after it.
Accepted ==
  /\ pc = "accepted"
  /\ pc' \in {"op", "failed"}
  /\ UNCHANGED <<clientVars, adapterVars, controllerVars, deinitOk, hwVars>>

\* chacha_rtl_recover_locked starts with carbox_crypto_irq_controller_quiesce:
\* the line is off, the engine and its DMA are reset; if it stays busy for 1 ms
\* the system stops for good (carbox_chacha_hw_fatal).
Quiesce ==
  /\ pc = "failed"
  /\ client = "chacha"
  /\ irqEnabled' = FALSE
  /\ active' = FALSE
  /\ \/ dma' = {} /\ pending' = {} /\ pc' = "deinit"
     \/ dma # {} /\ pc' = "fatal" /\ UNCHANGED <<dma, pending>>
  /\ UNCHANGED <<clientVars, adapterVars, lastTimeout, tokens, deinitOk>>

\* rtl_cryptoEngine_deinit, in both recoveries.  It gives the adapter back
\* without hooks and interrupt mode.
Deinitialised ==
  \/ /\ deinitOk' = TRUE
     /\ initialised' = FALSE /\ bound' = FALSE
     /\ dma' = IF setup.deinitStops THEN {} ELSE dma
     /\ pending' = IF setup.deinitStops THEN {} ELSE pending
  \/ /\ setup.deinitFails
     /\ deinitOk' = FALSE
     /\ UNCHANGED <<initialised, bound, dma, pending>>

Deinit ==
  /\ pc = "deinit"
  /\ Deinitialised
  /\ pc' = "engineReset"
  /\ UNCHANGED <<clientVars, ready, controllerVars, irqEnabled>>

\* carbox_crypto_irq_controller_engine_reset.
EngineReset ==
  /\ pc \in {"engineReset", "aesReset"}
  /\ active' = FALSE
  /\ lastTimeout' = FALSE
  /\ tokens' = IF ready THEN Drained ELSE tokens
  /\ pc' = IF pc = "engineReset" THEN "init" ELSE "refused"
  /\ UNCHANGED <<clientVars, adapterVars, deinitOk, hwVars>>

\* The rest of the ChaCha recovery: with the engine up again the backend stays
\* in use, else it is switched off; the caller falls back to software.  The
\* semaphore exists by then, so enable cannot fail.
Recovered ==
  /\ pc = "init"
  /\ \/ /\ deinitOk
        /\ initialised' = TRUE
        /\ Enabled
        /\ SetState("chacha", 0)
     \/ /\ ~deinitOk \/ setup.initFails
        /\ SetState("chacha", -1)
        /\ UNCHANGED <<initialised, ready, bound, irqEnabled>>
  /\ pc' = "fallback"
  /\ UNCHANGED <<client, ops, fallbackSafe, controllerVars, deinitOk, pending, dma>>

\* _AES_RTL_DisableHW after a failed operation: the engine is reset by deinit
\* alone.
AesFailed ==
  /\ pc = "failed"
  /\ client = "aes"
  /\ pc' = "aesDeinit"
  /\ UNCHANGED <<clientVars, adapterVars, controllerVars, deinitOk, hwVars>>

AesDeinit ==
  /\ pc = "aesDeinit"
  /\ Deinitialised
  /\ fallbackSafe' = (fallbackSafe /\ deinitOk')
  /\ pc' = "aesReset"
  /\ UNCHANGED <<client, ops, state, ready, controllerVars, irqEnabled>>

\* The end of _AES_RTL_DisableHW.  A call whose operation failed returns the
\* error ("refused"); one that did not start is done in software.
Disabled ==
  /\ pc \in {"disabled", "refused"}
  /\ SetState("aes", -1)
  /\ pc' = IF pc = "disabled" /\ fallbackSafe THEN "fallback" ELSE "free"
  /\ UNCHANGED <<client, ops, fallbackSafe, adapterVars, controllerVars, deinitOk, hwVars>>

\* The software cipher works on the caller's buffers and the call returns.
Fallback ==
  /\ pc = "fallback"
  /\ pc' = "free"
  /\ UNCHANGED <<clientVars, adapterVars, controllerVars, deinitOk, hwVars>>

\* carbox_chacha_hw_fatal never returns.
Fatal == pc = "fatal" /\ UNCHANGED vars

\* An enabled interrupt preempts every task at once.
InterruptDue == irqEnabled /\ pending # {}

CallStep ==
  /\ ~InterruptDue
  /\ \/ PrepareOff \/ Prepare \/ PrepareFails \/ Operate
     \/ PreExec \/ Drain \/ Activate \/ Submit \/ TakeToken \/ Timeout \/ TimedOut \/ Accepted
     \/ Quiesce \/ Deinit \/ EngineReset \/ Recovered
     \/ AesFailed \/ AesDeinit \/ Disabled \/ Fallback

Next == (Begin \/ CallStep \/ Handler \/ DmaDone \/ Fatal) /\ UNCHANGED setup

Spec == Init /\ [][Next]_vars

\* The call runs at the boosted priority (CryptoLock) and its wait ends after
\* 3 ms; a pending interrupt is taken.  Nothing is assumed of the engine.
FairSpec == Spec /\ WF_vars(CallStep /\ UNCHANGED setup) /\ WF_vars(Handler /\ UNCHANGED setup)

---------------------------------------------------------------------------
TypeOK ==
  /\ pc \in PCs
  /\ setup \in Setups /\ client \in setup.clients
  /\ ops \in 0 .. MaxOps
  /\ state \in [Backends -> {-1, 0, 1}]
  /\ {fallbackSafe, initialised, bound, ready, active, lastTimeout, deinitOk, irqEnabled} \subseteq BOOLEAN
  /\ tokens \in Seq(Ages)
  /\ pending \subseteq Ages /\ dma \subseteq Ages

\* An operation is taken for complete only when its own DMA has ended: "a late
\* IRQ" must not "satisfy the next transaction's semaphore"
\* (ChaCha20Poly1305_rtl8195b.c:180-181), whatever timed out before, and whenever
\* the late completion comes.
CompletedIsFinished == pc = "accepted" => "own" \notin dma

\* Software works on the caller's buffers only when no DMA can write to them:
\* "The backend must stop DMA before returning either operation error"
\* (ChaCha20Poly1305.c:1627-1628).
FallbackQuiet == pc = "fallback" => dma = {}

\* The buffers of an operation go back to the program, complete or for software,
\* only when the engine is done with them, whatever hung or came late.
BuffersQuiet == CompletedIsFinished /\ FallbackQuiet

\* An operation is submitted to an initialised engine with the hooks and the
\* interrupt line of the controller in place, also after a recovery switched
\* them off (crypto_priority_lock.c:321-339, 341-352, 251-285): otherwise every
\* later operation would end by timeout.
SubmittedArmed == pc \in {"submit", "wait"} => initialised /\ bound /\ irqEnabled

\* An engine the properties hold for.  AESUtils resets it by deinit alone, so with
\* AES in use deinit has to stop the DMA and to succeed; and AESUtils keeps its own
\* word for the engine being up, so a recovery of ChaCha beside it must succeed.
Sound(s) ==
  "aes" \in s.clients =>
    /\ s.deinitStops
    /\ ~s.deinitFails
    /\ "chacha" \in s.clients => ~s.initFails
SoundEngine == \A s \in Setups : Sound(s)

\* AESUtils never believes the engine available when the ChaCha recovery left it
\* down: "Reinitializing also avoids leaving AES with a stale `available' state
\* after a ChaCha-side reset" (ChaCha20Poly1305_rtl8195b.c:173-175).
AesStateCurrent == pc = "free" /\ state["aes"] = 1 => initialised

\* Every call ends, or the system stops on purpose, although the engine may hang
\* at any operation: the wait is bounded and so is every recovery.
CallsEnd == pc # "free" ~> pc \in {"free", "fatal"}
===========================================================================
