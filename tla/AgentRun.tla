------------------------------- MODULE AgentRun -------------------------------
(***************************************************************************)
(* runtime/runtime.py: the runs of one session.  SessionCoordinator lets   *)
(* them happen one after another; they share the session's BufferMemory.   *)
(*                                                                         *)
(* A step is what run_async does from one await to the next.  It awaits    *)
(* the planner, the router, the LLM, the tools and the critic; each can    *)
(* return anything its caller accepts, raise, or be where the run is       *)
(* cancelled.  A tool call is known by its signature; which signatures the *)
(* validator accepts in a round depends on the tools routed for it.        *)
(*                                                                         *)
(* Every message goes through add_message, which raises where it cannot    *)
(* count (BufferMemory).  That is no AgentError: the run ends there, with  *)
(* what it has put in memory so far, and without a terminal event.         *)
(***************************************************************************)
EXTENDS BufferMemory, Sublists, SequencesExt

CONSTANTS MaxTokens,         \* BufferMemory._max_tokens
          MaxSteps,          \* LoopPolicy
          MaxRepeats,
          ValidationRounds,
          ToolErrorRounds,
          RevisionRounds,
          Signature,         \* what tool_call_signature tells apart
          Size,              \* what count_message returns for a message, 0 if it raises
          PromptSize,        \* and for the system prompt
          MaxCalls,          \* bound of the model: tool calls in one message
          MaxRuns            \* bound of the model: runs of the session

ASSUME AgentAssumption ==
  /\ MaxTokens \in Nat
  /\ {MaxSteps, MaxRepeats} \subseteq Nat \ {0}
  /\ {ValidationRounds, ToolErrorRounds, RevisionRounds} \subseteq Nat
  /\ Size \subseteq Nat /\ PromptSize \in Nat
  /\ MaxCalls \in Nat /\ MaxRuns \in Nat

VARIABLES pattern,           \* which of planner and critic the profile wires in
          memory,            \* the session's BufferMemory, which has no system message
          run,               \* the number of runs started
          pc,                \* what the current run awaits, or "idle"
          status, steps, history,                    \* RuntimeState
          validationRounds, toolErrorRounds, revisions,
          routed,            \* signatures the validator accepts this round
          pending,           \* valid calls being executed
          candidate,         \* the draft under review
          revision,          \* the draft revision_context asks to improve
          ending,            \* how run_async ended
          events             \* terminal events emitted

counters == <<validationRounds, toolErrorRounds, revisions>>
locals == <<routed, pending, candidate, revision>>
vars == <<pattern, memory, run, pc, status, steps, history, counters, locals, ending, events>>

window == memory.messages

None == <<>>

\* Tool calls, results and answers are numbered within their run.
Ref == {None} \cup ((1..MaxRuns) \X Nat)

Await == {"planning", "routing", "llm", "tools", "critic"}

Message ==
  [role : {"system", "user", "assistant", "tool"}, run : 1..MaxRuns,
   calls : Seq(Ref), ref : Ref, size : Nat]

Text(role, r, ref, size) ==
  [role |-> role, run |-> r, calls |-> <<>>, ref |-> ref, size |-> size]

Init ==
  /\ pattern \in {"react", "plan_execute", "reflection"}
  /\ memory = NewBuffer(0)
  /\ run = 0 /\ pc = "idle"
  /\ status = "pending" /\ steps = 0 /\ history = <<>>
  /\ validationRounds = 0 /\ toolErrorRounds = 0 /\ revisions = 0
  /\ routed = {} /\ pending = <<>> /\ candidate = None /\ revision = None
  /\ ending = "none"
  /\ events = <<>>
-----------------------------------------------------------------------------
(* What the steps of a run are made of *)

\* A plausible bug: the event is made before the answer enters memory.
TerminalEventEarly(s) ==
  [run   |-> run,
   type  |-> IF s = "finished" THEN "RUN_FINISH" ELSE "RUN_ERROR",
   final |-> IF s = "finished" /\ Last(window).role = "assistant"
             THEN Last(window).ref ELSE None]

\* _emit_terminal_event: the answer is read back from memory.
TerminalEvent(s) ==
  [run   |-> run,
   type  |-> IF s = "finished" THEN "RUN_FINISH" ELSE "RUN_ERROR",
   final |-> IF s = "finished" /\ Last(window').role = "assistant"
             THEN Last(window').ref ELSE None]

\* _terminate, then the end of run_async, which drops the run's locals.
End(s, how) ==
  /\ status' = s
  /\ pc' = "idle"
  /\ ending' = how
  /\ events' = IF how = "raised" THEN events ELSE Append(events, TerminalEvent(s))
  /\ routed' = {} /\ pending' = <<>> /\ candidate' = None /\ revision' = None

\* A plausible bug: the step budget is checked for critiques only.
NextRoundUnchecked(kept) ==
  /\ status' = "running"
  /\ pc' = "routing"
  /\ routed' = {} /\ pending' = <<>> /\ candidate' = None /\ revision' = kept
  /\ UNCHANGED <<ending, events>>

\* A plausible bug: a round with tool calls forgets the critic's feedback.
NextRoundForgets(kept) ==
  IF steps' >= MaxSteps
  THEN End("max_steps", "returned")
  ELSE /\ status' = "running"
       /\ pc' = "routing"
       /\ routed' = {} /\ pending' = <<>> /\ candidate' = None
       /\ revision' = IF history' # history \/ pending # <<>> THEN None ELSE kept
       /\ UNCHANGED <<ending, events>>

\* _run_steps_async returned the revision context kept: the next round begins
\* with check_steps.
NextRound(kept) ==
  IF steps' >= MaxSteps
  THEN End("max_steps", "returned")
  ELSE /\ status' = "running"
       /\ pc' = "routing"
       /\ routed' = {} /\ pending' = <<>> /\ candidate' = None /\ revision' = kept
       /\ UNCHANGED <<ending, events>>

\* A plausible bug: a result names the call's signature instead of its id.
ResultsBySignature(calls, sizes) ==
  [i \in DOMAIN calls |-> Text("tool", run, calls[i].signature, sizes[i])]

\* The tool messages that answer calls.
Results(calls, sizes) ==
  [i \in DOMAIN calls |-> Text("tool", run, calls[i].id, sizes[i])]

\* The session's buffer after an add_message per message, or up to one that raises.
Adds(ms) == AddedAll(memory, ms, MaxTokens)

\* add_message raised: the exception passes run_async's handlers.
Escapes == memory'.raised /\ End(status, "raised")
-----------------------------------------------------------------------------
(* The start of a run: _init_state, the planner, the router *)

\* run_async with the session's lease.  If _init_state raises, no run begins.
Start(size) ==
  /\ pc = "idle" /\ run < MaxRuns
  /\ run' = run + 1
  /\ LET input  == Text("user", run', None, size)
         prompt == Text("system", run', None, PromptSize)
     IN  memory' = Adds(IF window = <<>> THEN <<prompt, input>> ELSE <<input>>)
  /\ steps' = 0 /\ history' = <<>>
  /\ validationRounds' = 0 /\ toolErrorRounds' = 0 /\ revisions' = 0
  /\ IF memory'.raised
     THEN pc' = "idle" /\ status' = "pending" /\ ending' = "raised"
     ELSE /\ pc' = IF pattern = "plan_execute" THEN "planning" ELSE "routing"
          /\ status' = "running" /\ ending' = "none"
  /\ UNCHANGED <<pattern, locals, events>>

Planned ==
  /\ pc = "planning"
  /\ pc' = "routing"
  /\ UNCHANGED <<pattern, memory, run, status, steps, history, counters, locals, ending, events>>

Routed ==
  /\ pc = "routing"
  /\ routed' \in SUBSET Signature
  /\ pc' = "llm"
  /\ UNCHANGED <<pattern, memory, run, status, steps, history, counters, pending, candidate,
                 revision, ending, events>>
-----------------------------------------------------------------------------
(* The LLM asks for tools *)

Batch == UNION {[1..n -> Signature] : n \in 1..MaxCalls}

\* The calls of an LLM message; a run numbers its calls.
Calls(batch) ==
  [i \in DOMAIN batch |-> [id |-> <<run, Len(history) + i>>, signature |-> batch[i]]]

Valid(calls) == {c \in ToSet(calls) : c.signature \in routed}

Accepted(calls) == Sublist(calls, Valid(calls))
Violations(calls) == Sublist(calls, ToSet(calls) \ Valid(calls))

\* _is_consecutive_repeat.
Repeats(h) ==
  /\ Len(h) >= MaxRepeats
  /\ \A i, j \in (Len(h) - MaxRepeats + 1)..Len(h) : h[i] = h[j]

\* The step of an LLM message with tool calls: what every outcome shares.
Asked(batch) ==
  /\ pc = "llm"
  /\ steps' = steps + 1
  /\ history' = history \o batch
  /\ UNCHANGED <<pattern, run, revisions>>

LoopDetected(batch) ==
  /\ Asked(batch)
  /\ Repeats(history')
  /\ UNCHANGED <<memory, validationRounds, toolErrorRounds>>
  /\ End("loop_detected", "returned")

Asking(calls, size) ==
  [Text("assistant", run, None, size) EXCEPT !.calls = [i \in DOMAIN calls |-> calls[i].id]]

\* A plausible bug: violations are not answered.
AddedCallsOnly(calls, size, sizes) == Adds(<<Asking(calls, size)>>)

\* The message enters memory, and an answer for each call that is not valid.
AddedCalls(calls, size, sizes) ==
  Adds(<<Asking(calls, size)>> \o Results(Violations(calls), sizes))

RememberCalls(calls, size, sizes) ==
  memory' = AddedCalls(calls, size, sizes) /\ ~memory'.raised

\* Before it is validated, or on the way through its violations.
CallsEscape(batch, size, sizes) ==
  LET calls == Calls(batch) IN
  /\ Asked(batch)
  /\ ~Repeats(history')
  /\ memory' = AddedCalls(calls, size, sizes) /\ memory'.raised
  /\ validationRounds' = IF Adds(<<Asking(calls, size)>>).raised
                         THEN validationRounds ELSE validationRounds + 1
  /\ UNCHANGED toolErrorRounds
  /\ End("awaiting_tool", "raised")

\* A plausible bug: a round with illegal calls may be fed back once too often.
ValidationBudgetOffByOne(rounds) == rounds > ValidationRounds + 1

\* check_validation_budget.
ValidationBudgetSpent(rounds) == rounds > ValidationRounds

ValidationFailed(batch, size, sizes) ==
  LET calls == Calls(batch) IN
  /\ Asked(batch)
  /\ ~Repeats(history')
  /\ Violations(calls) # <<>>
  /\ validationRounds' = validationRounds + 1
  /\ ValidationBudgetSpent(validationRounds')
  /\ RememberCalls(calls, size, sizes)
  /\ UNCHANGED toolErrorRounds
  /\ End("validation_failed", "returned")

\* No call is valid: the violations are the model's feedback for the next round.
FedBack(batch, size, sizes) ==
  LET calls == Calls(batch) IN
  /\ Asked(batch)
  /\ ~Repeats(history')
  /\ Accepted(calls) = <<>>
  /\ validationRounds' = validationRounds + 1
  /\ ~ValidationBudgetSpent(validationRounds')
  /\ RememberCalls(calls, size, sizes)
  /\ UNCHANGED toolErrorRounds
  /\ NextRound(revision)

\* The valid calls go to the executor.
Execute(batch, size, sizes) ==
  LET calls == Calls(batch) IN
  /\ Asked(batch)
  /\ ~Repeats(history')
  /\ Accepted(calls) # <<>>
  /\ validationRounds' = IF Violations(calls) = <<>> THEN 0 ELSE validationRounds + 1
  /\ ~ValidationBudgetSpent(validationRounds')
  /\ RememberCalls(calls, size, sizes)
  /\ pc' = "tools" /\ status' = "awaiting_tool"
  /\ pending' = Accepted(calls) /\ routed' = {}
  /\ UNCHANGED <<toolErrorRounds, candidate, revision, ending, events>>

\* check_tool_error_budget.
ToolErrorBudgetSpent(rounds) == rounds > ToolErrorRounds

\* _process_tool_results: failed says that every call failed.
Executed(failed, sizes) ==
  /\ pc = "tools"
  /\ memory' = Adds(Results(pending, sizes)) /\ ~memory'.raised
  /\ steps' = steps + Len(pending)
  /\ toolErrorRounds' = IF failed THEN toolErrorRounds + 1 ELSE 0
  /\ UNCHANGED <<pattern, run, history, validationRounds, revisions>>
  /\ IF failed /\ ToolErrorBudgetSpent(toolErrorRounds')
     THEN End("failed", "returned")
     ELSE NextRound(revision)

\* The k-th result is the first whose add_message raises.
ResultEscapes(sizes, k) ==
  LET results == Results(pending, sizes) IN
  /\ pc = "tools" /\ k \in DOMAIN pending
  /\ memory' = Adds(SubSeq(results, 1, k))
  /\ ~Adds(SubSeq(results, 1, k - 1)).raised
  /\ steps' = steps + k
  /\ UNCHANGED <<pattern, run, history, counters>>
  /\ Escapes
-----------------------------------------------------------------------------
(* The LLM answers *)

\* A blank answer is an LLMError.
BlankAnswer ==
  /\ pc = "llm"
  /\ steps' = steps + 1
  /\ UNCHANGED <<pattern, memory, run, history, counters>>
  /\ End("failed", "returned")

\* The answer ref is the run's last word, announced unless its add_message raises.
Conclude(ref, size) ==
  /\ memory' = Adds(<<Text("assistant", run, ref, size)>>)
  /\ Escapes \/ (~memory'.raised /\ End("finished", "returned"))

\* Without a critic the answer is final.
Answer(size) ==
  /\ pc = "llm" /\ pattern # "reflection"
  /\ steps' = steps + 1
  /\ Conclude(<<run, steps>>, size)
  /\ UNCHANGED <<pattern, run, history, counters>>

\* A plausible bug: the draft enters memory before its review.
DraftRemembered ==
  /\ pc = "llm" /\ pattern = "reflection"
  /\ steps' = steps + 1
  /\ \E size \in Size : memory' = Adds(<<Text("assistant", run, <<run, steps>>, size)>>)
  /\ UNCHANGED <<pattern, run, history, counters>>
  /\ IF steps' >= MaxSteps
     THEN End("max_steps", "returned")
     ELSE /\ pc' = "critic"
          /\ candidate' = <<run, steps>>
          /\ routed' = {}
          /\ UNCHANGED <<status, pending, revision, ending, events>>

\* With one it is a draft, reviewed if the step budget allows.
Draft ==
  /\ pc = "llm" /\ pattern = "reflection"
  /\ steps' = steps + 1
  /\ UNCHANGED <<pattern, memory, run, history, counters>>
  /\ IF steps' >= MaxSteps
     THEN End("max_steps", "returned")
     ELSE /\ pc' = "critic"
          /\ candidate' = <<run, steps>>
          /\ routed' = {}
          /\ UNCHANGED <<status, pending, revision, ending, events>>

\* The critique is a step of its own.
Accept(size) ==
  /\ pc = "critic"
  /\ steps' = steps + 1
  /\ Conclude(candidate, size)
  /\ UNCHANGED <<pattern, run, history, counters>>

RevisionLimit == revisions >= RevisionRounds

Revise ==
  /\ pc = "critic"
  /\ steps' = steps + 1
  /\ UNCHANGED <<pattern, memory, run, history, validationRounds, toolErrorRounds>>
  /\ IF RevisionLimit
     THEN End("reflection_limit", "returned") /\ UNCHANGED revisions
     ELSE revisions' = revisions + 1 /\ NextRound(candidate)
-----------------------------------------------------------------------------
(* Errors and cancellation *)

\* A failed or cancelled review is recorded as a step too.
Interrupted ==
  /\ steps' = IF pc = "critic" THEN steps + 1 ELSE steps
  /\ UNCHANGED <<pattern, memory, run, history, counters>>

\* An AgentError: run_async swallows it and returns the failed state.
Fails ==
  /\ pc \in Await
  /\ Interrupted
  /\ End("failed", "returned")

\* Any other exception: run_async lets it out.
Raises ==
  /\ pc \in {"llm", "tools", "critic"}
  /\ Interrupted
  /\ End("failed", "raised")

Cancel ==
  /\ pc \in Await
  /\ Interrupted
  /\ End("canceled", "cancelled")
-----------------------------------------------------------------------------
AskTools ==
  \E batch \in Batch :
    \/ LoopDetected(batch)
    \/ \E size \in Size, sizes \in [1..MaxCalls -> Size] :
         \/ ValidationFailed(batch, size, sizes)
         \/ FedBack(batch, size, sizes)
         \/ Execute(batch, size, sizes)
         \/ CallsEscape(batch, size, sizes)

Execution ==
  \E sizes \in [1..MaxCalls -> Size] :
    \/ \E failed \in BOOLEAN : Executed(failed, sizes)
    \/ \E k \in 1..MaxCalls : ResultEscapes(sizes, k)

Reply ==
  \/ BlankAnswer \/ Draft \/ Revise
  \/ \E size \in Size : Answer(size) \/ Accept(size)

Progress == Planned \/ Routed \/ AskTools \/ Execution \/ Reply

Next ==
  \/ \E size \in Size : Start(size)
  \/ Progress \/ Fails \/ Raises \/ Cancel

Spec == Init /\ [][Next]_vars
-----------------------------------------------------------------------------
\* Every variable keeps its type.
TypeOK ==
  /\ pattern \in {"react", "plan_execute", "reflection"}
  /\ window \in Seq(Message) /\ memory.raised \in BOOLEAN
  /\ run \in 0..MaxRuns
  /\ pc \in Await \cup {"idle"}
  /\ status \in {"pending", "running", "awaiting_tool", "finished", "failed", "canceled",
                 "max_steps", "loop_detected", "validation_failed", "reflection_limit"}
  /\ steps \in Nat /\ history \in Seq(Signature)
  /\ validationRounds \in Nat /\ toolErrorRounds \in Nat /\ revisions \in Nat
  /\ routed \subseteq Signature
  /\ pending \in Seq([id : Ref, signature : Signature])
  /\ candidate \in Ref /\ revision \in Ref
  /\ ending \in {"none", "returned", "cancelled", "raised"}
  /\ events \in Seq([run : 1..MaxRuns, type : {"RUN_FINISH", "RUN_ERROR"}, final : Ref])

\* The message at i is the one answer to call id of the message at j.
AnsweredAt(id, i, j) == InBlock(window, i, j) /\ window[i].ref = id

\* Whatever was trimmed, cancelled or cut short, in this run or an earlier one,
\* every tool message of the window follows the call it answers, in its block.
ResultsHaveCalls ==
  \A i \in DOMAIN window : window[i].role = "tool" =>
    \E j \in DOMAIN window :
      InBlock(window, i, j) /\ window[i].ref \in ToSet(window[j].calls)

\* When the LLM is asked, each tool call the current run has in memory has one
\* answer: violations and results together cover every batch once.
CallsAnsweredOnce ==
  pc \in {"routing", "llm", "critic"} =>
    \A j \in DOMAIN window : window[j].run = run =>
      \A id \in ToSet(window[j].calls) :
        \E i \in DOMAIN window :
          AnsweredAt(id, i, j) /\ \A k \in DOMAIN window : window[k].ref = id => k = i

\* An answer in memory was announced as final, or it is the last message of a run
\* that raised when it was added and ended without a word: no draft that was
\* rejected, not reviewed or cut off is ever part of the conversation.
AnswersAnnounced ==
  \A i \in DOMAIN window :
    window[i].role = "assistant" /\ window[i].calls = <<>> =>
      \/ \E e \in ToSet(events) :
           e.type = "RUN_FINISH" /\ e.run = window[i].run /\ e.final = window[i].ref
      \/ /\ window[i].run < run \/ ending = "raised"
         /\ \A e \in ToSet(events) : e.run # window[i].run
         /\ \A k \in DOMAIN window : k > i => window[k].run # window[i].run

\* A run that finished hands out the answer it has just put in memory, however
\* little of the window the budget leaves.
FinishedHasAnswer ==
  status = "finished" =>
    /\ Last(window).role = "assistant" /\ Last(window).run = run
    /\ Last(events).final = Last(window).ref /\ Last(window).ref # None

\* While a run goes on, none of its feedback budgets is overdrawn.
BudgetsRespected ==
  pc # "idle" =>
    /\ validationRounds <= ValidationRounds
    /\ toolErrorRounds <= ToolErrorRounds
    /\ revisions <= RevisionRounds

\* The critic's feedback accompanies every request until the next draft is
\* judged, also across rounds of tool calls.
FeedbackKept == pc # "idle" => (revision # None <=> revisions > 0)

\* What a run may still do: each answer it uses costs a step, at least, and a round
\* begins only within the budget, which the calls of the last batch may exceed.
Ahead ==
  IF pc = "idle" THEN 0
  ELSE 1 + 3 * (MaxSteps + MaxCalls - steps)
         + (CASE pc = "planning" -> 2 [] pc = "routing" -> 1 [] OTHER -> 0)

\* Every run ends, whatever the model, the tools and the critic return: no round
\* is for free.
RunsConverge == [][run' = run => 0 <= Ahead' /\ Ahead' < Ahead]_vars
-----------------------------------------------------------------------------
(* What the code's comments promise and the code does not keep *)

\* runtime.py:758: each tool call of an assistant message has its tool message
\* when the next request is made.
EveryCallAnswered ==
  pc = "llm" =>
    \A j \in DOMAIN window : \A id \in ToSet(window[j].calls) :
      \E i \in DOMAIN window : AnsweredAt(id, i, j)

\* short_term.py:4: the system prompt is never evicted.
SystemPromptKept == pc = "llm" => window[1].role = "system"

\* state.py:34: validation_failure_rounds counts consecutive rounds, so it is 0
\* after a round without an illegal call.
FailuresConsecutive ==
  [][revisions' = revisions + 1 => validationRounds' = 0]_vars

\* runtime.py:656: the terminal event is emitted at the end of every run.
EveryRunAnnounced ==
  pc = "idle" /\ run > 0 => events # <<>> /\ Last(events).run = run
=============================================================================
