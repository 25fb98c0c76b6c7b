--------------------------- MODULE CryptoIrqProofs ---------------------------
(***************************************************************************)
(* Proofs about CryptoIrq: for any number of operations and any engine     *)
(* that is Sound, buffers are given back only when the engine has done     *)
(* with them, operations are submitted with the interrupt armed, and       *)
(* AESUtils knows the state of the engine.                                 *)
(***************************************************************************)
EXTENDS CryptoIrq, SequenceTheorems, TLAPS

\* Outside a wait and the recovery that follows it no transfer runs and no
\* completion is due.
EngineAtRest ==
  pc \notin {"wait", "timedOut", "failed", "aesDeinit", "fatal"} => dma = {} /\ pending = {}

\* From the drain on only the operation of the call can give the semaphore.
SemaphoreEmpty == pc \in {"activate", "submit"} => tokens = <<>>

\* The operation waited for runs, has its completion due, or is over.
InFlight ==
  pc \in {"wait", "timedOut"} =>
    \/ dma = {} /\ pending = {}
    \/ tokens = <<>> /\ dma = {"own"} /\ pending = {}
    \/ tokens = <<>> /\ dma = {} /\ pending = {"own"}

\* Whose recovery it is, and what a backend that is not built in believes.
ClientAt ==
  /\ pc \in {"deinit", "engineReset", "init"} => client = "chacha"
  /\ pc \in {"aesDeinit", "aesReset", "disabled", "refused"} => client = "aes"
  /\ "aes" \notin setup.clients => state["aes"] = 0

\* Between the end of prepare and the end of an operation the engine is armed.
Armed ==
  pc \in {"op", "preExec", "drain", "activate", "submit", "wait", "timedOut", "accepted"} =>
    initialised /\ bound /\ irqEnabled

\* Hooks in the adapter mean a line that is on, but for a recovery under way and
\* for a ChaCha backend that is switched off.
LineOn ==
  bound =>
    \/ irqEnabled
    \/ pc \in {"deinit", "fatal"}
    \/ pc \in {"engineReset", "init"} /\ ~deinitOk
    \/ state["chacha"] = -1 /\ setup.clients = {"chacha"}

\* With AES in use the recovery of ChaCha finds deinit successful.
DeinitTrusted == pc \in {"engineReset", "init"} /\ "aes" \in setup.clients => deinitOk

\* AESUtils believes the engine up only if it is, but for a recovery under way.
AesUp == state["aes"] = 1 => initialised \/ pc \in {"engineReset", "init", "aesReset", "refused"}

\* A backend that works on the engine has not switched itself off.
InUse ==
  client = "chacha" /\ pc \notin {"free", "prepare", "fallback", "fatal"} => state["chacha"] = 1

Flags ==
  /\ fallbackSafe \in BOOLEAN /\ initialised \in BOOLEAN /\ bound \in BOOLEAN
  /\ ready \in BOOLEAN /\ active \in BOOLEAN /\ lastTimeout \in BOOLEAN
  /\ deinitOk \in BOOLEAN /\ irqEnabled \in BOOLEAN
Data ==
  /\ pc \in PCs
  /\ setup \in Setups /\ client \in setup.clients
  /\ ops \in 0 .. MaxOps
  /\ state \in [Backends -> {-1, 0, 1}]
  /\ pending \subseteq Ages /\ dma \subseteq Ages
Tokens == tokens \in Seq(Ages)

Control == /\ EngineAtRest /\ SemaphoreEmpty /\ InFlight /\ ClientAt
           /\ Armed /\ LineOn /\ DeinitTrusted /\ AesUp /\ InUse

IInv == Flags /\ Data /\ Tokens /\ Control

LEMMA TypeParts == TypeOK <=> Flags /\ Data /\ Tokens
BY DEF TypeOK, Flags, Data, Tokens

\* What Sound says of the setup at hand.
LEMMA SetupSound ==
  ASSUME SoundEngine, Data
  PROVE /\ setup.clients \subseteq Backends /\ client \in Backends
        /\ "aes" \in setup.clients => setup.deinitStops /\ ~setup.deinitFails
        /\ "aes" \in setup.clients /\ "chacha" \in setup.clients => ~setup.initFails
BY SetupsAssumption DEF SoundEngine, Sound, Data, SetupType

\* The semaphore of an aged operation.
LEMMA AgedTokens == tokens \in Seq(Ages) => [i \in DOMAIN tokens |-> "old"] \in Seq(Ages)
<1> SUFFICES ASSUME tokens \in Seq(Ages) PROVE [i \in 1 .. Len(tokens) |-> "old"] \in Seq(Ages)
  BY LenProperties
<1>1. Len(tokens) \in Nat
  BY LenProperties
<1>2. [i \in 1 .. Len(tokens) |-> "old"] \in [1 .. Len(tokens) -> Ages]
  BY DEF Ages
<1> QED BY <1>1, <1>2, SeqDef

LEMMA TokensStep == Tokens /\ Next => Tokens'
<1> SUFFICES ASSUME Tokens, Next PROVE Tokens'
  OBVIOUS
<1> USE DEF Tokens, Drained, controllerVars, vars
<1>1. CASE PreExec
  BY <1>1, AgedTokens DEF PreExec
<1>2. CASE Drain \/ EngineReset
  <2>1. tokens' \in {<<>>, tokens}
    BY <1>2 DEF Drain, EngineReset
  <2>2. <<>> \in Seq(Ages)
    OBVIOUS
  <2> QED BY <2>1, <2>2
<1>3. CASE TakeToken
  <2>1. tokens # <<>> /\ tokens' = Tail(tokens)
    BY <1>3 DEF TakeToken
  <2> QED BY <2>1
<1>4. CASE Handler
  <2>1. tokens' \in {tokens, Append(tokens, "own"), Append(tokens, "old")}
    BY <1>4 DEF Handler
  <2> QED BY <2>1, AppendProperties DEF Ages
<1>5. CASE UNCHANGED tokens
  BY <1>5
<1> QED BY <1>1, <1>2, <1>3, <1>4, <1>5
  DEF Next, CallStep, Begin, DmaDone, Fatal, PrepareOff, Prepare, PrepareFails, Operate,
      Activate, Submit, Timeout, TimedOut, Accepted, Quiesce, Deinit, Recovered, AesFailed,
      AesDeinit, Disabled, Fallback

LEMMA DataStep ==
  ASSUME Data, Next
  PROVE Data'
<1> USE OpsAssumption DEF Data, PCs, Backends, Ages, clientVars, adapterVars, controllerVars, hwVars, vars
<1>0. setup' = setup
  BY DEF Next
<1>c. client \in Backends
  BY SetupsAssumption DEF SetupType
<1>1. CASE Begin
  BY <1>0, <1>c, <1>1 DEF Begin
<1>2. CASE PrepareOff
  BY <1>0, <1>c, <1>2 DEF PrepareOff
<1>3. CASE Prepare
  BY <1>0, <1>c, <1>3 DEF Prepare, NeedsInit, SetState, Enabled
<1>4. CASE PrepareFails
  BY <1>0, <1>c, <1>4 DEF PrepareFails, NeedsInit, SetState, EnableFails
<1>5. CASE Operate
  BY <1>0, <1>c, <1>5 DEF Operate
<1>6. CASE PreExec
  BY <1>0, <1>c, <1>6 DEF PreExec, Aged
<1>7. CASE Drain
  BY <1>0, <1>c, <1>7 DEF Drain, Drained
<1>8. CASE Activate
  BY <1>0, <1>c, <1>8 DEF Activate
<1>9. CASE Submit
  BY <1>0, <1>c, <1>9 DEF Submit
<1>10. CASE TakeToken
  BY <1>0, <1>c, <1>10 DEF TakeToken
<1>11. CASE Timeout
  BY <1>0, <1>c, <1>11 DEF Timeout
<1>12. CASE TimedOut
  BY <1>0, <1>c, <1>12 DEF TimedOut
<1>13. CASE Accepted
  BY <1>0, <1>c, <1>13 DEF Accepted
<1>14. CASE Handler
  BY <1>0, <1>c, <1>14 DEF Handler
<1>15. CASE DmaDone
  BY <1>0, <1>c, <1>15 DEF DmaDone
<1>16. CASE Quiesce
  BY <1>0, <1>c, <1>16 DEF Quiesce
<1>17. CASE Deinit
  BY <1>0, <1>c, <1>17 DEF Deinit, Deinitialised
<1>18. CASE EngineReset
  BY <1>0, <1>c, <1>18 DEF EngineReset, Drained
<1>19. CASE Recovered
  BY <1>0, <1>c, <1>19 DEF Recovered, SetState, Enabled
<1>20. CASE AesFailed
  BY <1>0, <1>c, <1>20 DEF AesFailed
<1>21. CASE AesDeinit
  BY <1>0, <1>c, <1>21 DEF AesDeinit, Deinitialised
<1>22. CASE Disabled
  BY <1>0, <1>c, <1>22 DEF Disabled, SetState
<1>23. CASE Fallback
  BY <1>0, <1>c, <1>23 DEF Fallback
<1>24. CASE Fatal
  BY <1>0, <1>c, <1>24 DEF Fatal
<1> QED
  BY <1>1, <1>2, <1>3, <1>4, <1>5, <1>6, <1>7, <1>8, <1>9, <1>10, <1>11, <1>12, <1>13, <1>14, <1>15, <1>16, <1>17, <1>18, <1>19, <1>20, <1>21, <1>22, <1>23, <1>24
  DEF Next, CallStep

LEMMA FlagsStep ==
  ASSUME Flags, Data, Next
  PROVE Flags'
<1> USE DEF Flags, clientVars, adapterVars, controllerVars, hwVars, vars
<1>1. CASE Begin
  BY <1>1 DEF Begin
<1>2. CASE PrepareOff
  BY <1>2 DEF PrepareOff
<1>3. CASE Prepare
  BY <1>3 DEF Prepare, NeedsInit, SetState, Enabled
<1>4. CASE PrepareFails
  BY <1>4 DEF PrepareFails, NeedsInit, SetState, EnableFails
<1>5. CASE Operate
  BY <1>5 DEF Operate
<1>6. CASE PreExec
  BY <1>6 DEF PreExec, Aged
<1>7. CASE Drain
  BY <1>7 DEF Drain, Drained
<1>8. CASE Activate
  BY <1>8 DEF Activate
<1>9. CASE Submit
  BY <1>9 DEF Submit
<1>10. CASE TakeToken
  BY <1>10 DEF TakeToken
<1>11. CASE Timeout
  BY <1>11 DEF Timeout
<1>12. CASE TimedOut
  BY <1>12 DEF TimedOut
<1>13. CASE Accepted
  BY <1>13 DEF Accepted
<1>14. CASE Handler
  BY <1>14 DEF Handler
<1>15. CASE DmaDone
  BY <1>15 DEF DmaDone
<1>16. CASE Quiesce
  BY <1>16 DEF Quiesce
<1>17. CASE Deinit
  BY <1>17 DEF Deinit, Deinitialised
<1>18. CASE EngineReset
  BY <1>18 DEF EngineReset, Drained
<1>19. CASE Recovered
  BY <1>19 DEF Recovered, SetState, Enabled
<1>20. CASE AesFailed
  BY <1>20 DEF AesFailed
<1>21. CASE AesDeinit
  BY <1>21 DEF AesDeinit, Deinitialised
<1>22. CASE Disabled
  BY <1>22 DEF Disabled, SetState
<1>23. CASE Fallback
  BY <1>23 DEF Fallback
<1>24. CASE Fatal
  BY <1>24 DEF Fatal
<1> QED
  BY <1>1, <1>2, <1>3, <1>4, <1>5, <1>6, <1>7, <1>8, <1>9, <1>10, <1>11, <1>12, <1>13, <1>14, <1>15, <1>16, <1>17, <1>18, <1>19, <1>20, <1>21, <1>22, <1>23, <1>24
  DEF Next, CallStep

LEMMA ControlStep ==
  ASSUME SoundEngine, Flags, Data, Control, Next
  PROVE Control'
<1> USE DEF Control, EngineAtRest, SemaphoreEmpty, InFlight, ClientAt, Armed, LineOn, DeinitTrusted, AesUp, InUse,
       clientVars, adapterVars, controllerVars, hwVars, vars, Backends, Flags, Data
<1>0. setup' = setup
  BY DEF Next
<1>s. /\ setup.clients \subseteq Backends /\ client \in Backends
      /\ "aes" \in setup.clients => setup.deinitStops /\ ~setup.deinitFails
      /\ "aes" \in setup.clients /\ "chacha" \in setup.clients => ~setup.initFails
  BY SetupSound
<1>1. CASE Begin
  BY <1>0, <1>s, <1>1 DEF Begin
<1>2. CASE PrepareOff
  BY <1>0, <1>s, <1>2 DEF PrepareOff
<1>3. CASE Prepare
  BY <1>0, <1>s, <1>3 DEF Prepare, NeedsInit, SetState, Enabled
<1>4. CASE PrepareFails
  BY <1>0, <1>s, <1>4 DEF PrepareFails, NeedsInit, SetState, EnableFails
<1>5. CASE Operate
  BY <1>0, <1>s, <1>5 DEF Operate
<1>6. CASE PreExec
  BY <1>0, <1>s, <1>6 DEF PreExec, Aged
<1>7. CASE Drain
  BY <1>0, <1>s, <1>7 DEF Drain, Drained
<1>8. CASE Activate
  BY <1>0, <1>s, <1>8 DEF Activate
<1>9. CASE Submit
  BY <1>0, <1>s, <1>9 DEF Submit
<1>10. CASE TakeToken
  BY <1>0, <1>s, <1>10 DEF TakeToken
<1>11. CASE Timeout
  BY <1>0, <1>s, <1>11 DEF Timeout
<1>12. CASE TimedOut
  BY <1>0, <1>s, <1>12 DEF TimedOut
<1>13. CASE Accepted
  BY <1>0, <1>s, <1>13 DEF Accepted
<1>14. CASE Handler
  BY <1>0, <1>s, <1>14 DEF Handler
<1>15. CASE DmaDone
  BY <1>0, <1>s, <1>15 DEF DmaDone
<1>16. CASE Quiesce
  BY <1>0, <1>s, <1>16 DEF Quiesce
<1>17. CASE Deinit
  BY <1>0, <1>s, <1>17 DEF Deinit, Deinitialised
<1>18. CASE EngineReset
  BY <1>0, <1>s, <1>18 DEF EngineReset, Drained
<1>19. CASE Recovered
  BY <1>0, <1>s, <1>19 DEF Recovered, SetState, Enabled
<1>20. CASE AesFailed
  BY <1>0, <1>s, <1>20 DEF AesFailed
<1>21. CASE AesDeinit
  BY <1>0, <1>s, <1>21 DEF AesDeinit, Deinitialised
<1>22. CASE Disabled
  BY <1>0, <1>s, <1>22 DEF Disabled, SetState
<1>23. CASE Fallback
  BY <1>0, <1>s, <1>23 DEF Fallback
<1>24. CASE Fatal
  BY <1>0, <1>s, <1>24 DEF Fatal
<1> QED
  BY <1>1, <1>2, <1>3, <1>4, <1>5, <1>6, <1>7, <1>8, <1>9, <1>10, <1>11, <1>12, <1>13, <1>14, <1>15, <1>16, <1>17, <1>18, <1>19, <1>20, <1>21, <1>22, <1>23, <1>24
  DEF Next, CallStep

\* The inductive invariant.
LEMMA IInvInit == SoundEngine /\ Init => IInv
<1> SUFFICES ASSUME SoundEngine, Init PROVE IInv
  OBVIOUS
<1>1. Data
  BY OpsAssumption DEF Init, Data, PCs, Backends, Ages
<1>2. Flags
  BY DEF Init, Flags
<1>4. Tokens
  BY DEF Init, Tokens
<1>3. Control
  BY DEF Init, Control, EngineAtRest, SemaphoreEmpty, InFlight, ClientAt, Armed, LineOn,
         DeinitTrusted, AesUp, InUse, Backends
<1> QED BY <1>1, <1>2, <1>3, <1>4 DEF IInv

LEMMA IInvStep == SoundEngine /\ IInv /\ [Next]_vars => IInv'
<1> SUFFICES ASSUME SoundEngine, IInv, [Next]_vars PROVE IInv'
  OBVIOUS
<1>1. CASE Next
  BY <1>1, TokensStep, DataStep, FlagsStep, ControlStep DEF IInv
<1>2. CASE UNCHANGED vars
  <2> USE <1>2 DEF IInv, vars, clientVars, adapterVars, controllerVars, hwVars
  <2>1. Data' /\ Tokens'
    BY DEF Data, Tokens
  <2>2. Flags'
    BY DEF Flags
  <2>3. Control'
    BY DEF Control, EngineAtRest, SemaphoreEmpty, InFlight, ClientAt, Armed, LineOn,
           DeinitTrusted, AesUp, InUse
  <2> QED BY <2>1, <2>2, <2>3
<1> QED BY <1>1, <1>2

THEOREM ControllerInvariant ==
  ASSUME SoundEngine PROVE Spec => []IInv
<1>1. Init => IInv
  BY IInvInit
<1>2. IInv /\ [Next]_vars => IInv'
  BY IInvStep
<1> QED BY <1>1, <1>2, PTL DEF Spec

\* Type correctness of the controller and its clients.
THEOREM TypeCorrect ==
  ASSUME SoundEngine PROVE Spec => []TypeOK
<1>1. IInv => TypeOK
  BY TypeParts DEF IInv
<1> QED BY <1>1, ControllerInvariant, PTL

\* Buffers go back to the program only when the engine is done with them
\* (crypto_irq_wait_done, chacha_rtl_recover_locked, _AES_RTL_DisableHW).
THEOREM BuffersReturnedQuiet ==
  ASSUME SoundEngine PROVE Spec => []BuffersQuiet
<1>1. IInv => BuffersQuiet
  BY DEF IInv, Control, EngineAtRest, BuffersQuiet, CompletedIsFinished, FallbackQuiet
<1> QED BY <1>1, ControllerInvariant, PTL

\* Every operation is submitted with the interrupt armed
\* (carbox_crypto_irq_controller_enable).
THEOREM SubmissionArmed ==
  ASSUME SoundEngine PROVE Spec => []SubmittedArmed
<1>1. IInv => SubmittedArmed
  BY DEF IInv, Control, Armed, SubmittedArmed
<1> QED BY <1>1, ControllerInvariant, PTL

\* AESUtils knows the state of the engine, whatever ChaCha did to it
\* (chacha_rtl_recover_locked).
THEOREM AesInformed ==
  ASSUME SoundEngine PROVE Spec => []AesStateCurrent
<1>1. IInv => AesStateCurrent
  BY DEF IInv, Control, AesUp, AesStateCurrent
<1> QED BY <1>1, ControllerInvariant, PTL
=============================================================================
