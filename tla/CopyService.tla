---------------------------- MODULE CopyService ----------------------------
(***************************************************************************)
(* What memcpy and the scatter copy promise a caller, with no DMA in it:   *)
(* a call runs for a while, during which the destination may hold anything *)
(* and then returns with the destination whole; it stays whole until the   *)
(* caller starts another call.                                             *)
(***************************************************************************)
CONSTANT Tasks

VARIABLES phase, whole

svcVars == <<phase, whole>>

Init ==
  /\ phase = [t \in Tasks |-> "idle"]
  /\ whole = [t \in Tasks |-> FALSE]

Begin(t) ==
  /\ phase[t] # "running"
  /\ phase' = [phase EXCEPT ![t] = "running"]
  /\ whole' = [whole EXCEPT ![t] = FALSE]

Work(t) ==
  /\ phase[t] = "running"
  /\ \E w \in BOOLEAN : whole' = [whole EXCEPT ![t] = w]
  /\ UNCHANGED phase

Finish(t) ==
  /\ phase[t] = "running"
  /\ phase' = [phase EXCEPT ![t] = "complete"]
  /\ whole' = [whole EXCEPT ![t] = TRUE]

Next == \E t \in Tasks : Begin(t) \/ Work(t) \/ Finish(t)

Spec == Init /\ [][Next]_svcVars

\* Every call returns.
FairSpec == Spec /\ \A t \in Tasks : WF_svcVars(Finish(t))
=============================================================================
