----------------------------- MODULE MCLeasedRun -----------------------------
(* LeasedRun on the instance of MCLeasedRun.cfg.  The answers to one client  *)
(* have up to two calls, whose fragments interleave, those to the other one  *)
(* call; only the latter's Runtime has a planner.  A batch has one permit,   *)
(* so that calls wait for it, and two threads serve both clients and the     *)
(* orphans they leave.                                                       *)
EXTENDS LeasedRun, TLC

CONSTANTS c1, c2, i1, i2, i3

ThePieces == (c1 :> <<2, 1>>) @@ (c2 :> <<1>>)

Task(id, dependencies) == [id |-> id, dependencies |-> dependencies]

\* Responses of the planner's model: a plan that lists a task before the one it
\* depends on; a cycle behind a task that can be resolved; one task twice; an
\* unknown dependency; and none that has the shape of a plan.
TheProposals ==
  {<<Task(i1, {i2}), Task(i2, {})>>,
   <<Task(i1, {}), Task(i2, {i1, i3}), Task(i3, {i2})>>,
   <<Task(i1, {}), Task(i1, {})>>,
   <<Task(i1, {i2})>>,
   <<>>}

\* TLC evaluates AcceptsExecutable for all raw plans of three tasks.
ASSUME PlansDecided == AcceptsExecutable
=============================================================================
