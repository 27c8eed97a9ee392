------------------------------ MODULE LeasedRun ------------------------------
(***************************************************************************)
(* What the runs of several sessions wait for, put together: a run holds   *)
(* the lease of its session (SessionLease, which SessionCoordinator        *)
(* implements), may ask the model for a plan, and then alternates between  *)
(* a streamed request (LlmClient) and a batch of tools in the threads that *)
(* all runs share (ToolThreads), until an answer, an error, its budget or  *)
(* a cancellation ends it.  AgentRun has what a run makes of the answers;  *)
(* here is whether they come, to whom, and what a run leaves behind.       *)
(***************************************************************************)
EXTENDS TaskPlan

CONSTANTS Client, Session, NoClient,      \* SessionLease
          MaxRetries, Pieces,             \* LlmClient
          Thread, MaxWorkers, Idle,       \* ToolThreads
          MaxRounds,                      \* rounds of tools LoopPolicy lets a run have
          Planning,                       \* the clients whose Runtime has a Planner
          Proposal,                       \* what the planner's model may answer with
          NoSession                       \* the session of a client without a run

ASSUME LeasedAssumption ==
  /\ {MaxRetries, MaxRounds} \subseteq Nat
  /\ MaxWorkers \in Nat \ {0}
  /\ Planning \subseteq Client /\ Proposal \subseteq RawPlan
  /\ Pieces \in [Client -> Seq(Nat)]
  /\ NoSession \notin Session /\ NoClient \notin Client

VARIABLES holder,       \* SessionLease
          request,      \* LlmClient
          batch, queue, thread,   \* ToolThreads
          stage,        \* what each run waits for; "out" without a run
          plan,         \* the plan in its messages to the executing model
          session,      \* the session of each run
          rounds        \* the batches it has had

Lease == INSTANCE SessionLease
Llm == INSTANCE LlmClient
Tools == INSTANCE ToolThreads

NoPlan == <<>>

toolVars == <<batch, queue, thread>>
runVars == <<stage, plan, session, rounds>>
vars == <<holder, request, toolVars, runVars>>

Init ==
  /\ Lease!Init
  /\ Llm!InitLlm
  /\ Tools!InitTools
  /\ stage = [c \in Client |-> "out"]
  /\ plan = [c \in Client |-> NoPlan]
  /\ session = [c \in Client |-> NoSession]
  /\ rounds = [c \in Client |-> 0]

Goes(c, to) == stage' = [stage EXCEPT ![c] = to]

\* The run's request is dropped with the frame that awaits it.
Forget(c) == request' = [request EXCEPT ![c] = Llm!NoRequest]

\* run_async with the lease, up to the planner's request or the first round's.
Enter(c, s) ==
  /\ stage[c] = "out"
  /\ Lease!Acquire(c, s)
  /\ session' = [session EXCEPT ![c] = s]
  /\ UNCHANGED <<plan, rounds>>
  /\ IF c \in Planning
     THEN Goes(c, "planning") /\ Llm!Send(c, FALSE)
     ELSE Goes(c, "asking") /\ Llm!Send(c, TRUE)
  /\ UNCHANGED toolVars

\* A plausible bug: the tasks of the response become the plan as they are.
PlannedUnchecked(c) ==
  /\ stage[c] = "planning"
  /\ Llm!At(c, "answered")
  /\ plan' \in {[plan EXCEPT ![c] = tasks] : tasks \in Proposal}
  /\ Goes(c, "asking") /\ Llm!Send(c, TRUE)
  /\ UNCHANGED <<holder, toolVars, session, rounds>>

\* Planner.plan has its response: parse_task_plan accepts the tasks, which join
\* the messages of every later round, or raises a PlannerError.
Planned(c) ==
  /\ stage[c] = "planning"
  /\ Llm!At(c, "answered")
  /\ \E tasks \in Proposal :
       IF Accepted(tasks)
       THEN /\ plan' = [plan EXCEPT ![c] = tasks]
            /\ Goes(c, "asking") /\ Llm!Send(c, TRUE)
       ELSE /\ UNCHANGED plan
            /\ Goes(c, "leaving") /\ Forget(c)
  /\ UNCHANGED <<holder, toolVars, session, rounds>>

\* wait_for gives up on the planner's request.
PlannerTimeout(c) ==
  /\ stage[c] = "planning"
  /\ ~Llm!At(c, "answered")
  /\ Goes(c, "leaving") /\ Forget(c)
  /\ UNCHANGED <<holder, toolVars, plan, session, rounds>>

\* The request raised, or returned nothing that has choices: the run fails.
RequestFailed(c) ==
  /\ request[c].at \in {"failed", "empty"}
  /\ Goes(c, "leaving") /\ Forget(c)
  /\ UNCHANGED <<holder, toolVars, plan, session, rounds>>

\* An answer without tool calls ends the run.
Answered(c) ==
  /\ stage[c] = "asking"
  /\ Llm!At(c, "answered") /\ request[c].slots = <<>>
  /\ Goes(c, "leaving") /\ Forget(c)
  /\ UNCHANGED <<holder, toolVars, plan, session, rounds>>

\* An answer with tool calls is executed.
Execute(c) ==
  /\ stage[c] = "asking"
  /\ Llm!At(c, "answered") /\ request[c].slots # <<>>
  /\ Goes(c, "tools") /\ Forget(c)
  /\ Tools!Begin(c, Len(request[c].slots))
  /\ rounds' = [rounds EXCEPT ![c] = @ + 1]
  /\ UNCHANGED <<holder, plan, session>>

\* The results are there: the next round, if the budget has one.
Executed(c) ==
  /\ stage[c] = "tools"
  /\ Tools!Gathered(c)
  /\ Tools!End(c)
  /\ IF rounds[c] < MaxRounds
     THEN Goes(c, "asking") /\ Llm!Send(c, TRUE)
     ELSE Goes(c, "leaving") /\ UNCHANGED request
  /\ UNCHANGED <<holder, plan, session, rounds>>

Cancel(c) ==
  /\ stage[c] \in {"planning", "asking", "tools"}
  /\ Goes(c, "leaving") /\ Forget(c)
  /\ Tools!Abandon(c)
  /\ UNCHANGED <<holder, plan, session, rounds>>

\* The terminal event is emitted and the lease given back.
Leave(c) ==
  /\ stage[c] = "leaving"
  /\ Goes(c, "out")
  /\ Lease!Release(c, session[c])
  /\ plan' = [plan EXCEPT ![c] = NoPlan]
  /\ session' = [session EXCEPT ![c] = NoSession]
  /\ rounds' = [rounds EXCEPT ![c] = 0]
  /\ UNCHANGED <<request, toolVars>>

Advance(c) ==
  \/ Planned(c) \/ RequestFailed(c) \/ Answered(c) \/ Execute(c) \/ Executed(c) \/ Leave(c)
  \/ Llm!Exchange(c) /\ UNCHANGED <<holder, toolVars, runVars>>
  \/ Tools!Submit(c) /\ UNCHANGED <<holder, request, runVars>>

Work(t) ==
  /\ Tools!Take(t, session) \/ Tools!Return(t)
  /\ UNCHANGED <<holder, request, runVars>>

Next ==
  \/ \E c \in Client :
       \/ \E s \in Session : Enter(c, s)
       \/ Advance(c)
       \/ Llm!Receive(c) /\ UNCHANGED <<holder, toolVars, runVars>>
       \/ PlannerTimeout(c) \/ Cancel(c)
  \/ \E t \in Thread : Work(t)

Spec == Init /\ [][Next]_vars

\* The provider answers or the connection fails, a stream ends, tools return, and
\* the event loop runs what is ready.
FairSpec ==
  /\ Spec
  /\ \A c \in Client : WF_vars(Advance(c))
  /\ \A t \in Thread : WF_vars(Work(t))
-----------------------------------------------------------------------------
\* A request ends with an answer or an exception, however its attempts end.
NeverEmptyHanded == Llm!NeverEmptyHanded

\* What a run was shown or is given comes from one stream, and is all of it.
AnswerWhole == Llm!AnswerWhole

\* Whatever the planner's model answers with, a run that has a planner asks its
\* executing model only with a plan, in every round, and the tasks of the plan are
\* distinct and can be carried out in some order.
PlansExecutable ==
  \A c \in Planning : stage[c] \in {"asking", "tools"} =>
    /\ plan[c] # NoPlan
    /\ Cardinality(Ids(plan[c])) = Len(plan[c]) /\ HasOrder(plan[c])

\* A tool that works for a session belongs to the run that holds its lease, or to
\* a run that was cancelled: a run that ends otherwise leaves no tool behind.
ToolsOfTheHolder ==
  \A t \in Thread : thread[t] # Idle /\ ~thread[t].orphan =>
    /\ holder[thread[t].session] = thread[t].client
    /\ thread[t].call \in DOMAIN batch[thread[t].client]

\* Cancelled or not, no tool of a run begins after the run has given up its lease.
NoLateStart ==
  [][\A t \in Thread :
       thread[t] = Idle /\ thread'[t] # Idle =>
         /\ holder[thread'[t].session] = thread'[t].client
         /\ stage[thread'[t].client] = "tools"]_vars

\* Every run ends and gives its lease back, also one whose tools wait for threads
\* that orphans of other runs occupy.
EveryRunLeaves == \A c \in Client : stage[c] # "out" ~> stage[c] = "out"
=============================================================================
