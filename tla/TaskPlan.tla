------------------------------- MODULE TaskPlan -------------------------------
(***************************************************************************)
(* runtime/planner.py, parse_task_plan: which of the task graphs a model   *)
(* may return become the plan of a run.  A raw plan is a sequence of       *)
(* tasks, each a record of its id and of the ids it depends on; texts that *)
(* are no JSON object of the right shape, blank or too long goals, and     *)
(* lists that name a dependency twice are refused before any of this.      *)
(***************************************************************************)
EXTENDS Naturals, Sequences, SequencesExt, FiniteSets

CONSTANTS Id,        \* task ids a model may use
          MaxTasks   \* Planner._max_tasks

ASSUME TasksAssumption == MaxTasks \in Nat \ {0}

RawPlan == SeqOf([id : Id, dependencies : SUBSET Id], MaxTasks)

Ids(tasks) == {tasks[i].id : i \in DOMAIN tasks}

Ready(tasks, resolved) == {t \in ToSet(tasks) : t.dependencies \subseteq resolved}

\* The while loop of _validate_no_dependency_cycle resolves at least one task
\* more each time, or raises.
Resolved(tasks) ==
  LET resolved[n \in 0..Len(tasks)] ==
        IF n = 0 THEN {}
        ELSE {t.id : t \in Ready(tasks, resolved[n - 1])}
  IN  resolved[Len(tasks)]

Accepted(tasks) ==
  /\ tasks # <<>>
  /\ IsInjective([i \in DOMAIN tasks |-> tasks[i].id])
  /\ \A i \in DOMAIN tasks : tasks[i].dependencies \subseteq Ids(tasks) \ {tasks[i].id}
  /\ Resolved(tasks) = Ids(tasks)
-----------------------------------------------------------------------------
\* An order of execution: each task comes after all it depends on.
IsOrder(order, tasks) ==
  \A i \in DOMAIN tasks : \A d \in tasks[i].dependencies :
    \E j \in DOMAIN tasks : tasks[j].id = d /\ order[j] < order[i]

HasOrder(tasks) ==
  \E order \in [DOMAIN tasks -> DOMAIN tasks] :
    IsInjective(order) /\ IsOrder(order, tasks)

\* A plan is accepted exactly if its tasks are distinct and can be carried out in
\* some order.
AcceptsExecutable ==
  \A tasks \in RawPlan :
    Accepted(tasks) <=>
      /\ tasks # <<>> /\ HasOrder(tasks)
      /\ Cardinality(Ids(tasks)) = Len(tasks)
=============================================================================
