--------------------------- MODULE TaskPriority ---------------------------
(***************************************************************************)
(* The priority fields of a FreeRTOS v10.0.0 task control block and the    *)
(* four kernel routines that write them (tasks.c).  A block is a record:   *)
(*   prio  uxPriority, the priority the scheduler uses                     *)
(*   base  uxBasePriority, the one to fall back to                         *)
(*   held  uxMutexesHeld                                                   *)
(*   rank  the priority coded in xEventListItem, which orders the task in  *)
(*         the waiting list of a mutex when it blocks                      *)
(* The routines also keep the ready lists in step with prio; a task is     *)
(* ready or not by its program counter here.                               *)
(***************************************************************************)
EXTENDS Naturals

Tcb(Priority) == [prio : Priority, base : Priority, held : Nat, rank : Priority]

\* vTaskCreate: one priority for the three fields.
NewTcb(p) == [prio |-> p, base |-> p, held |-> 0, rank |-> p]

\* vTaskPrioritySet: nothing when the base is already new; an inherited
\* priority stays in use until the task gives its mutexes back.
PrioritySet(b, new) ==
  IF b.base = new THEN b
  ELSE [b EXCEPT !.prio = IF b.base = @ THEN new ELSE @,
                 !.base = new,
                 !.rank = new]

\* xTaskPriorityInherit: the holder b is raised to the priority of a task that
\* is about to wait for it.
Inherit(b, waiter) == IF b.prio < waiter THEN [b EXCEPT !.prio = waiter, !.rank = waiter] ELSE b

\* Its result, kept by the waiter until its wait is over.
Inherited(b, waiter) == b.prio < waiter \/ b.base < waiter

\* Mutant: the count is kept when the base comes back.
DisinheritUncounted(b) ==
  IF b.prio # b.base /\ b.held = 1
  THEN [b EXCEPT !.prio = b.base, !.rank = b.base]
  ELSE [b EXCEPT !.held = @ - 1]

\* xTaskPriorityDisinherit: b gives a mutex; the base comes back with the last.
Disinherit(b) ==
  IF b.prio # b.base /\ b.held = 1
  THEN [b EXCEPT !.held = 0, !.prio = b.base, !.rank = b.base]
  ELSE [b EXCEPT !.held = @ - 1]

\* vTaskPriorityDisinheritAfterTimeout: a waiter gave up; `next' is the rank of
\* the first one left, 0 when there is none.
DisinheritAfterTimeout(b, next) ==
  LET use == IF b.base < next THEN next ELSE b.base
  IN IF b.prio # use /\ b.held = 1 THEN [b EXCEPT !.prio = use, !.rank = use] ELSE b
===========================================================================
