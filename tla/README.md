# Specifications of the agent framework

TLA+ models of the agent framework in `src/`, checked with TLC, with theorems
checked by TLAPS. The program is an asyncio agent: one `Runtime` runs user
requests as loops of LLM calls, tool calls and reviews, keeps a conversation per
session, and routes tools with the help of an embedding model that lives in a
process of its own. Everything that happens at the same time as something else
happens between two awaits of an event loop, or between two processes; those are
the steps of the models.

Contents: [the system](#the-system), [the modules](#the-modules),
[the runs](#the-runs), [the proofs](#the-proofs),
[disagreements](#where-code-and-comments-disagree),
[what is left out](#what-is-left-out), [plan](#plan).

## The system

| component | state it keeps | operations | what makes it hard |
|---|---|---|---|
| `runtime/session_coordinator.py` | table of reference-counted entries, one asyncio lock each | `lease` (reserve, wait, body, release) | cancellation and timeout while queued; an entry must not be dropped under a waiter |
| `runtime/runtime.py`, `state.py` | `RuntimeState` of a run; the session's memory | `run_async` and its rounds | every await can fail or be cancelled with the memory half written |
| `runtime/loop_guard.py`, `policy.py` | none; reads the counters of the run | five budget checks | off-by-one, resets, what counts as consecutive |
| `runtime/reflection.py`, `planner.py` | none | one LLM request each, parsed and validated | failure with a draft in hand |
| `memory/short_term.py` | window of messages, cached token count | `add_message`, `clear` | trimming between the messages of a tool round; a text that cannot be counted |
| `memory/manager.py`, `session_store.py` | cache of memories, SQLite rows | get, save, load, delete | cache against store, restart under another budget |
| `tools/router.py` | LRU cache of tool vectors, a lock | `route` | the lock spans an await; eviction while filling |
| `rag/process_embeddings.py` | process, state, generation, lock, two close flags | `start`, `embed_batch`, `aclose` | a process that crashes, hangs, answers late or survives a kill; close against everything else |
| `rag/embedding_worker.py` | the loaded model | `serve` | the other end of the pipes |
| `tools/executor.py` | a semaphore per batch; asyncio's thread pool | `execute_calls_async` | threads that a cancellation does not stop, shared by all runs |
| `tools/registry.py`, `validator.py` | registered tools | schemas, verdict per call | data |
| `llm/client.py` | none | `chat`, `stream`, with retries | the number of attempts; fragments of a stream |
| `rag/pipeline.py`, `vector_store.py`, `hybrid.py` | two indexes and a ledger | `index_pdf`, `ask` | two stores and a ledger updated one after the other |
| `rag/chunking.py` | none | `chunk_text` | what the overlap guarantees |
| `rag/loader.py`, `vision.py`, `tools/builtin/` | none | sequential functions | I/O and data |
| `main.py`, `config/`, `prompts/`, `observability/`, `errors/` | settings | wiring | none |

How they interact. `Runtime.run_async` enters `SessionCoordinator.lease` and
runs the whole request inside it, so runs of one session are serialized and may
share its `BufferMemory` without a lock. Each round asks the router for the tools
of the round, the LLM for a message, the validator for a verdict on each call,
the executor for results, and in reflection mode the critic for a verdict on the
draft. Runs of different sessions share one `EmbeddingRouter`; it calls one
`ProcessEmbeddingClient`, which serializes requests to one worker process and is
closed by `main.py` at the end. They also share the threads of one pool: a tool
runs in a thread, and a run that is cancelled leaves the tools that have begun to
finish there, after it has given up its lease.

What makes each part correct, before any model:

- coordinator: leases of a session exclude each other and are handed on in order;
  nobody who waits is forgotten; the table counts exactly;
- run: what memory holds is a conversation an LLM accepts (calls paired with
  results) and contains no draft that was rejected or cut off; each run ends within
  its budgets, with feedback kept as long as it is needed;
- memory: the window never splits a turn, exceeds its budget by more than one turn only
  where an add raised, and its cached count is never less than the real one;
- router: a text is always compared by its own vector; the cache is bounded and
  least recently used; no failure keeps the lock;
- model requests: an answer comes from one accepted request, whole, or as an
  exception; no round is entered with a plan that cannot be executed;
- tools: no tool begins for a session that its run has left, and those that go on
  cannot stop other runs from ending;
- sessions on disk: what comes back is what was saved, trimmed to the new budget;
- documents: both indexes and the ledger agree after any failure, and nothing of an
  earlier version of a file can be cited;
- worker client: at most one worker, never a lost one, never a late answer handed
  to another request, and after a close nothing is left.

## The modules

| module | models | composed with |
|---|---|---|
| `SessionLease` | what a lease promises: one holder per session | refined by `SessionCoordinator` |
| `SessionCoordinator` | `session_coordinator.py` and the asyncio lock under it | `Abstract == INSTANCE SessionLease` |
| `SessionCoordinatorProofs` | proofs about it | extends it |
| `Sublists` | list comprehensions and loops over lists, as definitions | used by the modules that have them |
| `SublistProofs` | induction over numbers and lists; what it says of `Sublists` | extended by those proof modules below that need it |
| `TurnBlocks` | how a window is trimmed, as definitions | used by `BufferMemory` |
| `BufferMemory` | the loop and the cached count of `short_term.py`, as definitions | used by `SessionMemory` and `AgentRun` |
| `SessionMemory` | `manager.py` over `session_store.py`: buffers, rows, restarts | its properties compare the loop of `BufferMemory` with `TurnBlocks!Trim` |
| `SessionMemoryProofs` | proofs about it | extends it |
| `AgentRun` | `runtime.py` with its guard, policy, planner, critic, validator and executor seen from their results | uses `BufferMemory` for the memory |
| `AgentRunProofs` | proofs about it and about the loop of `BufferMemory` | extends it |
| `EmbeddingRouter` | the cache and lock of `router.py` | assumes of the embedder what `ProcessEmbeddingClient` is checked for |
| `EmbeddingRouterProofs` | proofs about it | extends it |
| `ProcessEmbeddingClient` | `process_embeddings.py` and the worker's `serve` | both ends of the pipes |
| `ProcessEmbeddingClientProofs` | proofs about it: one worker, the lock, closing, the pipes | extends it |
| `LlmClient` | `client.py`: attempts, streams | part of `LeasedRun` |
| `ToolThreads` | `executor.py` and asyncio's thread pool | part of `LeasedRun` |
| `TaskPlan` | `planner.py`: which plans are accepted | part of `LeasedRun` |
| `LeasedRun` | the runs of several sessions, with what they wait for | `SessionLease`, `LlmClient`, `ToolThreads` by INSTANCE, `TaskPlan` |
| `LeasedRunProofs` | proofs about its leases, tools, requests and plans | extends it |
| `Chunking` | `chunking.py` | used by `DocumentIndex` |
| `DocumentIndex` | `pipeline.py` with both indexes, and the fusion of `hybrid.py` | uses `Chunking` |
| `DocumentIndexProofs` | proofs about it and about `Chunking` | extends it |
| `MC...` | instances for TLC: symmetry and the comment on the bounds | |

Operators whose comment begins *A plausible bug* are variants of the definition
that follows them. No action uses them; putting one in place of the definition
breaks the property it belongs to (`mutants` in `PROJECT.json`), which shows that
the property depends on the code it is about.

### SessionCoordinator

A step is what the event loop runs between two suspensions of a call.
`_entries_lock` protects sections without an await: they are atomic, and
`_reserve` and `_release_reference` belong to the step that calls them. The
asyncio lock is modelled as CPython implements it, because the coordinator's
correctness depends on its details: a flag and a FIFO of futures; `release` sets
the first future but leaves the lock free until the woken task runs; a cancelled
task stays in the queue, its future done, until it runs and passes a lost wake-up
on. `asyncio.wait_for` is that of Python 3.12, which awaits in the same task:
a timeout is a cancellation that comes out as `TimeoutError`. `pyproject.toml` sets its
type checker to 3.12 but allows 3.10 and 3.11, whose `wait_for` runs `acquire` in a task
of its own and awaits that; where a timeout meets the hand-over of the lock, they take
other steps, and nothing is claimed of them.

| variable | code |
|---|---|
| `mode`, `timed` | `_conflict_mode`, `_acquire_timeout is not None` |
| `entries` | `_entries` |
| `heap` | the entry objects, each with its count and its lock (`locked`, `waiters`) |
| `pc`, `session`, `entry` | where a call of `lease` is suspended, its locals |
| `future`, `interrupted` | the future a call awaits; a cancellation or timeout that is due |

Actions: `Refuse` (SessionBusyError), `Lease` (up to the first suspension or the
body), `Resume` (woken with the lock), `Cancel`, `AcquireTimeout`, `Unwind` (the
interrupted call runs its finally block), `Finish` (the body ends, however).
Entry objects are values of `Entry`, taken when nothing refers to them, so that a
stale reference would be seen as one.

### TurnBlocks, BufferMemory, SessionMemory

A message is a record of its role, the ids of the calls it makes and its size.
`Trim(w, budget)` is the longest suffix of `w` that begins at a turn block and
fits, or the last block. `BufferMemory` has the code's loop (`_trim`,
`_count_turn_block_size`, the running total); the properties of `SessionMemory` compare
it with that definition on every buffer the manager can hold.

Counting can fail: `ENCODING.encode` raises a `ValueError` for a text that has a special
token of the encoding in it, such as the end-of-text mark. `add_message` appends before it
counts (`short_term.py:47-48`), and `_trim` shortens the window before it subtracts
(`82-83`). Such a message has size 0 in the models. When an add meets one, it leaves it in
the window, uncounted and untrimmed; when the loop evicts one, the block is gone and the
count still has it. In both cases `raised` says that the call raised. So the count is not
always that of the window, and the properties say how far it can be wrong: `CountKept`,
that it drifts only in a call that raises, and only upwards; `EvictsWholeBlocks`, that
even then no turn is split. A drifted count trims more than is needed and never recovers,
except by `clear` or a reload.

| variable of `SessionMemory` | code |
|---|---|
| `budget` | `MemoryManager._max_tokens` of the process |
| `cache` | `MemoryManager._cache`: per session no buffer, or its system message, window and count, and whether the last add raised |
| `stored` | the rows of the SQLite table |

`Restart` is the end of the process, at any time, and the start of another with any
budget. A save is one statement and its commit, so it happens or does not. `Load`
replays the row with `add_message`, and `ReloadIsTrim` shows that this is one trim of
the whole row: replaying never evicts more. A row with a message that cannot be counted
makes every `load` raise before the cache has the session, so it can be saved but not
loaded again.

### AgentRun

The runs of one session, one after another, on one window. (The lease is what
allows this; it is `SessionCoordinator`'s business.) A step runs from one await
to the next, so an action such as `Execute` is the whole of: count the step,
extend the history, pass the loop guard, put the message and the answers to
illegal calls into memory, count the validation rounds, pass that budget, set
`AWAITING_TOOL`. Messages enter `BufferMemory` one by one, each with the loop of `_trim`.

| variable | code |
|---|---|
| `pattern` | react, plan_execute or reflection: which of planner and critic exist |
| `memory`, `window` | the session's `BufferMemory`, its `_messages` |
| `pc` | the await `run_async` is suspended at |
| `status`, `steps`, `history`, `validationRounds`, `toolErrorRounds`, `revisions` | `RuntimeState` |
| `routed` | the signatures the validator accepts in this round |
| `pending`, `candidate`, `revision` | the calls being executed, the draft under review, the draft `revision_context` is about |
| `ending`, `events` | how `run_async` ended; the terminal events emitted |

The LLM may return any batch of calls, a blank or a real answer, or raise. Tools
may fail one by one; only whether a whole batch failed is told apart. `Fails` is an
`AgentError` (swallowed, run FAILED), `Raises` any other exception (status set,
then re-raised), `Cancel` a cancellation at any await. A call is known by its
signature and numbered within its run; message texts, plans and the content of
feedback are not distinguished.

An `add_message` that raises ends the run where it is: the `ValueError` passes every
handler of `run_async`, with the status and the messages it leaves behind. `Start` has
this for the first messages, `CallsEscape` for a message with tool calls and the answers to
violations, `ResultEscapes` for a result, and `Conclude` for the answer. The last one leaves
an answer in memory that no terminal event announces; `AnswersAnnounced` allows exactly
this exception.

### EmbeddingRouter

A schema is the text embedded for it; a vector is named by the text it was
computed from, so that a vector filed under a wrong key is visible. `Embed` is
the step that takes the lock and computes `missing_texts`, `Embedded` the step
that files the vectors, evicts, reads the request's vectors and moves them to the
end. Score and threshold are left to `AgentRun`, where `routed` is any set.

### ProcessEmbeddingClient

Both ends of the pipe in one module. A worker is named by its generation; its
`life` goes from loading over serving to dead (exited, not yet noticed) and
reaped (`returncode` set). A SIGKILL is recorded in `killed` and takes effect at
any later time or never within the timeout. Each call is a process with a `pc`
for every await of the code: the lock, the spawn, the first line, the exchange,
each way of waiting for a killed worker (restart, failure, cancellation, close),
the two waits of the drain (for the pipe to close, for the worker to exit) and the two
interrupting waits of `aclose`. Lines of the protocol are
reduced to what the client decides on: ready, result or failure and for whom, or
garbage (any other line, wrong generation and wrong id included).

### LeasedRun with LlmClient, ToolThreads and TaskPlan

`AgentRun` is about what a run makes of the answers it gets; `LeasedRun` is about
whether they come, to whom, and what a run leaves behind. A client enters with the
lease of a session, may first ask for a plan, and alternates between a streamed
request and a batch of tools. The await of the router (`EmbeddingRouter`) is part of
the step before the request, the critic's request is one like the planner's.

| variable | code |
|---|---|
| `holder` | the lease (`SessionLease`, which `SessionCoordinator` is shown to implement) |
| `request` | the request of a client: attempt, tokens shown, slots of `tool_frags`; `sent` is what the provider has sent |
| `batch` | where each call of the batch is: before the semaphore, in the pool, in a thread, done |
| `queue`, `thread` | work items of the default executor; what each thread works on, and for whom |
| `plan` | the plan in a run's messages to the executing model |
| `stage`, `session`, `rounds` | the await a run is suspended at, its session, its rounds so far |

A request is `sending`, `sleeping` after a retryable error, `streaming`, `answered`,
`failed`, or `empty` if its loop ran out, which `NeverEmptyHanded` excludes. Fragments of
different calls interleave in any way. A cancelled run drops its request and its
batch; items that no thread has taken are cancelled with their futures, and a tool
that has begun becomes an orphan. `MaxWorkers` is the semaphore's, `Thread` the pool's;
serial mode is a semaphore of one. `TaskPlan` has the planner's validation. A client of
`Planning` has a planner, whose model answers with any tasks of `Proposal`; `Planned` puts
them to `Accepted` and either enters the rounds with them as its `plan`, which it keeps
until it leaves, or fails. `PlansExecutable` says of every round that its plan can be
executed, by a definition of its own (`HasOrder`); `AcceptsExecutable`, that acceptance
and execution agree on every raw plan, is an assumption TLC evaluates for plans of up to
three tasks, and a theorem.

### Chunking, DocumentIndex

A file is a sequence of page lengths; blank pages are skipped and a file without
text raises before anything changes. `Chunking` has where the pieces of a page begin
and end. `index_pdf` has no await: `IndexPdf` is the whole of it, with the deletion of
the old account, the `add` that may raise (`Refused`), the keyword index and the new
account, in this order. `ids`, `rows` and `metadata` are the parallel lists of the
vector store, `keyword` the texts of the BM25 index, `ledger` is `_doc_chunks`. `indexed`
records what the last call for a file read, nothing if it raised; the program has no such
variable, `NothingStale` needs it to say that a call that returns leaves all of the file
in the indexes. `Dense` and
`Sparse` are all rankings the two searches can return, and `Fused` is `rrf_fuse` of two of
them, with scores in units that make them whole numbers.

## The runs

| run | instance | states | shows |
|---|---|---|---|
| `session_coordinator` | 3 calls, 2 sessions, 3 entries, both modes, with and without timeout | 6,880 | exclusion, exact counts, order, no lost wake-up, refinement of `SessionLease` |
| `embedding_client` | 3 calls, each once, any of start, embed, invalid embed, close | 404,874 | no lost worker, serialized operations, clean pipes, close is final |
| `embedding_client_live` | 2 calls | 23,766 | every call ends, an `aclose` stuck at the pipe excepted |
| `session_memory` | 1 session, messages of size 1 or uncountable, budgets 2 and 3, windows of up to 3 that grow, drift of up to 1 that grows | 475,252 | loop and cached count against `Trim`, reload as one trim |
| `agent_run` | 2 runs, 2 signatures, batches of up to 2, budgets of 1, 5 steps, messages of size 2 or uncountable, 6 tokens | 75,893 | pairing, announced answers, budgets, feedback, every run ends |
| `router` | 2 callers who call again and again, 3 texts, cache of 2 | 38,739 | own vectors, bound, LRU, freshness, every call ends |
| `leased_run` | 2 clients, 2 sessions, 1 retry, answers of up to 2 calls and 3 fragments, 2 threads, 1 permit, a planner for one, 5 proposals | 208,947 | answers whole, tools under their lease, plans executable, every run leaves |
| `document_index` | 2 files, 4 contents, 3 calls each | 442 | indexes and ledger agree, nothing stale, fusion respects both rankings |
| `dangling_calls`, `system_prompt`, `failure_rounds`, `silent_failure` | as `agent_run` | | the four disagreements below |

Why these bounds suffice for the cases that matter.

- Coordinator: with three calls one holds, one waits and one arrives, times out or
  is cancelled in between; a second session lets the table grow, shrink and be
  reused. The calls are re-entrant. What holds for any number is proved.
- Client: a worker lives through at most one call that loses it, one that restarts
  it and one that closes it; three calls play these parts in every order. Each is
  made once, which bounds the generations.
- Memory: with messages of one token, a system message or none and budgets of 2 and 3, one
  message more evicts a message, a block of several, or several blocks where the count has
  drifted; one block alone can exceed the budget, and a window saved under one
  budget is loaded under the other. Messages that cannot be counted are added to any of
  these and evicted from them. `MaxLength` and `MaxDrift` are bounds of the model: a window
  of three messages, or one whose count is more than one above, is not extended. Sessions
  share nothing, so one is enough.
- Run: budgets of one can be spent, exceeded and reset; `MaxRepeats` 2 is reached
  within and across batches; with three messages in its budget the window is trimmed in the
  first run and more so in the second, which inherits whatever the first left, messages
  that could not be counted included. `MaxCalls` and `MaxRuns` are bounds of the model only.
- Router: two of three texts fit, so every fill of the cache can evict. Longer
  requests than the cache are refused by the code before anything happens.
- Leased runs: two clients of one session compete for the lease, of two sessions for
  threads; with two threads one orphan slows the others down and two orphans stop
  them until a tool returns; with one permit the second call of a batch waits for
  the first; one retry can fail, succeed or be cancelled in its sleep; two calls of two
  and one fragments interleave. `MaxRounds` stands for the budgets of `LoopPolicy`. The
  proposals are a plan listed out of order and the ways to be refused: a cycle behind a
  task that can be resolved, a task twice, an unknown dependency, no task. One client has a
  planner, the other has none.
- Documents: the contents make a file lose a chunk, gain one, and keep the number of
  chunks while its pages change; three calls are an indexing, a failure and a recovery.
  With two chunks in each file, the rankings fused are those of up to four hits.

Symmetry is used for the safety runs over calls (client) and signatures
(`AgentRun`): no action or property names one of them. The liveness runs use none.
`CHECK_DEADLOCK FALSE` appears where the instance really stops: the client's
calls are made once, a session has `MaxRuns` runs, a file is indexed `MaxCalls` times.
The others are checked for deadlock.

Fairness, and why the code has it.

- `SessionCoordinator`: the event loop runs every task that is ready (`Resume`,
  `Unwind`), and the body of a lease ends. The last is an assumption about the
  run, and is what `EveryRunLeaves` shows for one whose awaits return.
- `ProcessEmbeddingClient`: timers fire; a call whose awaited process is gone, or whose
  pipe is flushed or broken, goes on. Nothing is assumed about the worker or about who gets
  the lock. Every wait for the worker has a timer but one: `aclose` awaits
  `stdin.wait_closed()` (`process_embeddings.py:617`) without. It returns at once unless a
  request is still unwritten, which takes an exchange that was cancelled or timed out and a
  kill that did not take effect within its timeout; if the worker neither dies nor reads,
  it never returns. `EveryCallEnds` excepts this state (`Stuck`) and no other; the lock it
  keeps delays no other call beyond its own lock timeout.
- `EmbeddingRouter`: the lock is handed on and the embedder answers or raises, which
  `EveryCallEnds` shows of the client's `embed_batch`.
- `LeasedRun`: the event loop runs what is ready; the provider accepts a request or the
  connection fails (`Exchange`), and a stream ends, which the HTTP client's timeouts
  enforce; threads work, and tools return (`Work`). The last is not guaranteed: a tool
  has no timeout, and one that never returns keeps its session leased or, cancelled,
  its thread. Nothing is assumed about what the answers are, about cancellations, or about
  which session a client asks for next.
- `AgentRun` needs none: `RunsConverge` gives a measure that every step of a run makes
  smaller, so that no run can go on for ever, whatever is answered.

Notes on single properties.

- `RunsConverge`: the step counter is checked before a round and before a review, but
  a batch of tool calls is counted after it has run, so a run can exceed `max_steps` by
  the calls of its last batch. The measure `Ahead` has this bound in it: it stays
  natural, so `steps` never exceeds `MaxSteps + MaxCalls`.
- `EvictsWholeBlocks` and `ReloadIsTrim` compare with `Trim`, whose result fits the
  budget or is one block, by its definition (`StopsAt`). The budget is what the count
  leaves to the window (`Room`), which a drift makes smaller.
- `AnswersAnnounced`: the answer of a run that raised when it was added is the run's last
  message, and no event of that run exists. It stays in the conversation, and the next
  run sends it.
- `NothingStale`: after a call that returned, every chunk it read is in the indexes, and
  nothing else of the file is. A call that the stores refuse has already deleted the old
  chunks, so the file cannot be found at all until it is indexed again. The ledger keeps the old
  ids, which are gone; deleting them again is harmless. A call whose file cannot be
  loaded or embedded changes nothing.
- `ToolsOfTheHolder`, `NoLateStart`: that orphans go on after their run has released its
  lease is what the code does (the comment at `executor.py:37` says why threads are
  used); the properties say that nothing else is left behind, and that nothing begins
  late.
- `ClosedForGood` speaks of an `aclose` that returned normally. One that is cancelled,
  or that times out twice, may leave a worker behind: another call that was
  inside `create_subprocess_exec` had no process to kill, completes and leaves
  the client READY. The model has these steps; `NoLostWorker` shows that the
  worker stays reachable for the next `aclose`. A cancelled `aclose` also leaves
  the state STOPPING.
- `KilledNotReused` makes an exception while a close is requested: `aclose` kills the
  worker of an operation it does not wait for, and that operation may write to it
  before it notices.
- `CorruptOnlyByEviction`: the "cache invariant violated" branch of `route` can be
  reached. Filing the missing texts can evict texts of the same request that were
  cached. It takes callers with different schema lists whose union exceeds the
  cache; a `Runtime` always passes the schemas of one registry, so they do not
  arise there. The property states the exact condition.

## The proofs

`SessionCoordinatorProofs` proves the safety properties of `SessionCoordinator` for
every finite set of calls and every set of sessions and entries. The assumptions
are those of `CoordinatorAssumption`: the calls are finitely many, and the
three "absent" values are distinct from real ones.

The properties are not inductive. That leases exclude each other depends on all
calls of a session using one entry object, which depends on an entry staying in
the table while it is used, which depends on the count being exact. The inductive
invariant `IInv` is the conjunction of

- `TypeOK`;
- `CallInv`: a call inside `lease` refers to the entry the table has for its session;
- `TableInv`: two sessions never share an entry, and an entry in the table is in use;
- `CountInv`: an entry's count is the number of calls that refer to it;
- `QueueInv`: an entry's queue holds exactly the calls that wait on it, once each;
- `LockInv`: a lock is taken exactly while one call is in the body;
- `WakeInv`: a future that is set belongs to the head of the queue of a free lock;
- `RejectNeverWaits`.

| theorem | statement |
|---|---|
| `Invariance` | `Spec => []IInv` |
| `TypeCorrect` | `Spec => []TypeOK`: in particular no count becomes negative |
| `Exclusion` | `Spec => []LeaseExclusive` |
| `TableExact` | `Spec => []ReferencesExact` |
| `RejectDecides` | `Spec => []RejectNeverWaits` |
| `ServedInOrder` | `Spec => NoBarging` |
| `LeaseRefinement` | `Spec => ImplementsLease`, the refinement of `SessionLease` |

There is one lemma per action (`LeaseStep`, `ResumeStep`, `InterruptStep`,
`UnwindStep`, `FinishStep`), each with one step per conjunct; lemmas on queues
(`RemovalLemma`, `AppendLemma`) and on the finally block (`ReleaseLemma`,
`WakeLemma`) that several of them use; `OrderStep` and `LeaseRefinementStep` for the
two action properties. The refinement maps the lease holders to `holder`:
`Lease` and `Resume` are `Acquire` or a stutter, `Finish` is `Release`, everything
else stutters.

`AgentRunProofs` begins with what an add does to every window, for messages of any kind
and size, every count and budget, and whether the call raises or not. By induction over the
rounds of the loop (`TrimmedRounds`), what it leaves begins at a turn block: the block
after an evicted one is a block of the whole window (`NextBlock`). `BlockKept` is the
heart: a block that starts before a kept block start cannot reach past it.

| theorem | statement |
|---|---|
| `TrimIsSuffix` | what the loop leaves is a suffix that begins at a block, and is not empty |
| `AddIsSuffix` | so is what an add leaves of the extended window |
| `AddKeepsResults` | if every tool result follows its call in its block, so it does after the add |
| `AddKeepsNewest` | the added message is the last of the window |

Then come two invariants of the counters, for every value of the constants that
`AgentAssumption` allows: `BudgetsHold` (`Spec => []BudgetsRespected`) and
`FeedbackHolds` (`Spec => []FeedbackKept`). The inductive invariant `IInv` adds that the
counters are natural numbers, that no feedback is left when a run starts, and that
a draft under review exists (`ReviewInv`): otherwise a revision could return nothing
as its feedback. `EndStep` and `NextRoundStep` treat the two ways every round ends,
so that each action's lemma only says which counter it moves.

The third part is about the window, with the inductive invariant `SessionInv`:

- `TypeOK`, and `FinishedHasAnswer`;
- `ControlInv`: what the await a run is suspended at says of its counters, of the calls
  being executed (at least one, no two with one id) and of the draft;
- `EventsInv`: an event is of a run that has ended;
- `WindowInv`: the window is `Sound`, and `Fresh` while a run goes on. Sound means that
  messages are of runs that have begun and results follow their calls (`Base`), and that
  every answer is the final one of a `RUN_FINISH` or the last message of a run that is over
  and without an event (`Announced`).

That each call has one answer is not inductive by itself. The calls being executed have
none yet, and when the results come, the block that asked for them must still be the
last one, whatever has been trimmed in between; and an id of the current run must be one
of the numbers it has given out. This is what `Fresh` says. `EvictFresh` and `AppendFresh`
show that the two things an add does to the window keep it. A step adds several messages,
each on what the loop has left of the ones before, until one raises: `AddResults` is the
induction over them, `ResultsRemembered` and `CallsRemembered` say it of a whole step. If
one raises, `SessionStops` needs `Sound` only, for the run is over.

| theorem | statement |
|---|---|
| `SessionHolds` | `Spec => []SessionInv` |
| `Typing` | `Spec => []TypeOK` |
| `ResultsFollowCalls` | `Spec => []ResultsHaveCalls` |
| `EachCallAnswered` | `Spec => []CallsAnsweredOnce` |
| `AnswersAreFinal` | `Spec => []AnswersAnnounced`: announced, or the last word of a run that raised |
| `FinishedAnswers` | `Spec => []FinishedHasAnswer` |
| `Converges` | `Spec => RunsConverge`: the measure is natural and falls with every step of a run |

`ProcessEmbeddingClientProofs` is about any finite set of calls, each of which may
embed, start or close, with every timeout, cancellation and worker failure of the
model. The inductive invariant `IInv` is the conjunction of

- `TypeInv`: the types, and that no more workers are created than there are calls that
  have begun, which keeps `generation` within the workers the model has;
- `OperationsSerialized`: a call in an operation on the worker owns the lock;
- `AliveInv`: `NoLostWorker`, and that the client refers to no worker while a call is
  inside `create_subprocess_exec`: the new worker replaces none;
- `ClosePhases`: a close that waits for the lock's holder or kills has set the flag its
  successors look at;
- `CloseInv`: once the state is CLOSED, or an `aclose` has returned normally, the
  worker is gone and no call can be about to create another (`Gone`).

| theorem | statement |
|---|---|
| `Invariance` | `Spec => []IInv` |
| `TypeCorrect` | `Spec => []TypeOK` |
| `Serialized` | `Spec => []OperationsSerialized` |
| `WorkerKept` | `Spec => []NoLostWorker` |
| `StaysClosed` | `Spec => []ClosedForGood` |

The second half of the module goes on from there to the two pipes (`PipesInvariance`).
`OwnPipesOnly` needs to know
what every holder of the lock finds in them (`ServingInv`: nothing before the first
line, then at most its own request or its answer), what it leaves to the next one
(`ReadyInv`: a READY worker has empty pipes; every other end of an operation kills),
and that new workers begin with empty ones (`WorkerInv`). `KilledNotReused` adds that
calls in the phases of a close have announced it (`ClosersInv`) and that only a close
kills a worker another operation still uses (`KilledInv`).

| theorem | statement |
|---|---|
| `PipesOwn` | `Spec => []OwnPipesOnly` |
| `KilledAbandoned` | `Spec => KilledNotReused` |

`EmbeddingRouterProofs` is about any calls, texts and sizes of the cache, with the
inductive invariant `RouterInv`:

- `TypeOK`, and `Good(cache)`: no text has two entries, each is filed with its own vector;
- `LockInv`: a call at the embedder holds the lock;
- `ServedInv`: a call that was served was given the vectors of its own texts;
- `MissingStillMissing`: what it found missing is missing until it files the vectors.

Filing, reading and moving are loops over the texts of a request. `PutLast` says what one
round does, whichever of the two cases it takes: the text ends up last, all others keep
their order. `FillFiles` and `ReadMoves` are the inductions over the rounds.
`EmbeddedFills` is what the step at the end of the await makes of the cache.

| theorem | statement |
|---|---|
| `RouterHolds` | `Spec => []RouterInv` |
| `RouterTyping` | `Spec => []TypeOK`: in particular the cache is bounded |
| `VectorsAreOwn` | `Spec => []OwnVectors` |
| `MissingStays` | `Spec => []MissingStillMissing` |
| `RecentlyUsedLast` | `Spec => LeastRecentlyUsedFirst` |
| `CorruptByEviction` | `Spec => CorruptOnlyByEviction` |

`LeasedRunProofs` is about any sets of clients, sessions and threads under
`LeasedAssumption`. For the tools: the pool's items and the threads name a call by client
and number, and a number is used again by the next batch. So the invariant `IInv` has to
say that a name stands for one thing: an item is a pooled call and is queued once
(`QueueInv`), a thread that is not an orphan runs a running call alone (`ThreadInv`),
batches exist only while their run is in its tools (`StageInv`), and a run holds the lease
until it leaves (`LeaseInv`). `AbandonQueue` is what a cancellation does to the queue: the
items of others, from places of their own.

For the plans: `PlanInv` says that a run with a planner is in a round only with an
accepted plan, which holds because only `Planned` leads there and nothing but `Leave`
changes a plan later (`PlanStep`). What acceptance means is a lemma about data: the
planner resolves dependencies in rounds. If the tasks can be put in an
order, the task at place n is resolved after n rounds, by induction over n
(`OrderedIsResolved`); if all are resolved, the round that resolves a task is its rank, and
whatever has ranks can be sorted (`Ranking`, `ResolvedHasOrder`).

For the requests: `RequestInv` says of every request that its slots are the fragments that
have come, grouped by index, that nothing has come before the provider accepted it, and
that it sleeps only before another attempt. `SlotsSort` and `HandedOver` conclude that an
answer that is handed over has each call whole and in the order of the indices.

| theorem | statement |
|---|---|
| `NoStrayTool` | `Spec => []ToolsOfTheHolder` |
| `NoToolStartsLate` | `Spec => NoLateStart` |
| `PlannerDecides` | a plan is accepted exactly if it can be executed (`AcceptsExecutable`) |
| `PlansAreExecutable` | `Spec => []PlansExecutable`, from `PlanInv` and `PlannerDecides` |
| `RequestsHold` | `Spec => []RequestsInv` |
| `NeverEmpty` | `Spec => []NeverEmptyHanded` |
| `AnswersWhole` | `Spec => []AnswerWhole` |

`SessionMemoryProofs` is about any sizes, budgets and lengths of windows, with messages that
cannot be counted among them. Its invariant `MemoryInv` says that every cached buffer is
`Kept`, its count being at least that of its system message and its messages, and every row
a window. `Follows` is what a call may do to a buffer: if it does not raise, what the count
has besides the window stays as it was, and if it does, it may grow. The work is in the
operators, which fold over finite
sets in an order that is not known. So the first part is recursion over the subsets of a
finite set, from which follows that a sum may take any element last (`AnyLast`) and then
that the count of a window is that of its beginning and that of its rest (`CountSplits`).
A round of the loop therefore evicts what it subtracts (`EvictFollows`), and goes on exactly
where `Trim` does not stop (`EvictsUntilStop`); with a round that raises it ends, behind
some block (`RoundLeft`, `LoopIsTrim`). `TrimTwice` is the argument for reloading: a block
that does not stop the loop now will not stop it with more messages behind it, so trimming
before each message and trimming after the last leave the same.

| theorem | statement |
|---|---|
| `MemoryHolds` | `Spec => []MemoryInv` |
| `CountIsKept` | `Spec => CountKept` |
| `BlocksAreEvicted` | `Spec => EvictsWholeBlocks` |
| `ReloadsByTrimming` | `Spec => ReloadIsTrim` |

`DocumentIndexProofs` begins with chunks and needs no state for them: for every text,
chunk size and overlap with `0 <= Overlap < ChunkSize`, `ShortSpansKept` says that a span
of up to `Overlap + 1` characters lies in one chunk, and `LongerSpansSplit` that in every
text longer than a chunk some span one character longer does not. The second names the
span: the one that begins at the last place before the second chunk.

For the stores, `IndexInv` is the types with `StoresAgree` and `NothingStale`, which hold
each other up: what a call keeps belongs to other documents only because the ledger has
all that is stored of its own (`KeptIsOfOthers`), and both hold again after the call
because the names of a document's chunks differ, also across its pages (`ChunkNames`), and
a deletion keeps the same places of all three lists of the vector store (`DeletionKeeps`).

For the fusion: the share of a ranking falls with the rank (`ShareFalls`), so a hit that
neither ranking puts below another has no lower a score (`ScoreRespects`), and what the
sort makes of the scores is a strict order of the hits (`InsertedOrder`,
`PrecedenceOrders`).

| theorem | statement |
|---|---|
| `ShortSpansKept`, `LongerSpansSplit` | which spans a chunk keeps |
| `IndexHolds` | `Spec => []IndexInv` |
| `StoresAlwaysAgree` | `Spec => []StoresAgree` |
| `NothingIsStale` | `Spec => []NothingStale` |
| `FusionIsMonotone` | `Spec => []FusionMonotone` |

Many of these proofs are inductions over data. The induction theorems of the library take
an operator as a parameter and cannot be instantiated here; `SublistProofs` derives what is
needed from the well-foundedness of the naturals, for sets in place of operators: a least
element (`LeastNatural`), induction up to a number (`Induction`) and what a function
defined by recursion over `0..n` satisfies (`Iteration`). `Sublist` and `Through` are
list comprehensions and loops written as such functions, because `SelectSeq` and `FoldLeft`
are opaque to the provers.

Every safety invariant and action property of the passing runs is the statement of a
theorem. Only model-checked are the liveness properties (`EveryWaiterServed`,
`EveryCallEnds`, `EveryRunLeaves`, `EveryRouteEnds`), which rest on fairness and are beyond
the prover. The properties of the other four runs are false, and their runs show how.

## Where code and comments disagree

1. **Calls without results** (`dangling_calls`). `runtime.py:758` gives as the
   constraint that each tool call has its tool message in the next request. The
   message with the calls enters memory before they are executed. A run that is
   cancelled or fails in between, or that runs out of validation budget in a round
   that also has valid calls, leaves them unanswered, and the next run of the
   session sends them. Within a run the pairing holds (`CallsAnsweredOnce`), and
   results without calls never occur (`ResultsHaveCalls`).
2. **The system prompt is evicted** (`system_prompt`). `short_term.py:4` says it never
   is, being a separate field; `Runtime` does not use the field but adds it as the
   first message of the window.
3. **Consecutive illegal rounds** (`failure_rounds`). `state.py:33` says that a
   successful round clears the count; a round in which the critic sends the draft
   back has no illegal call and does not.
4. **Runs that end without an event** (`silent_failure`). `runtime.py:656` says that
   `run_async` emits the terminal event at its end; an exception that is neither an
   `AgentError` nor a cancellation leaves without one. The `ValueError` of an
   `add_message` that cannot count its text is such an exception; `short_term.py:47` has
   then already kept the message.
5. **Sentences within a chunk** (`LongerSpansSplit`). `chunking.py:17` says that the
   overlap keeps every complete sentence within some chunk. It keeps the spans of up to
   `Overlap + 1` characters (`ShortSpansKept`), and none longer wherever it begins.
6. **A cache miss under the lock** (`CorruptOnlyByEviction`). `router.py:239` marks the
   branch that raises "tool embedding cache invariant violated" as guarded by the route
   lock. The lock keeps other routes out, but the route itself can evict a text it found
   cached, when it files those it missed: the property states when, TLC reaches the branch
   (outcome `corrupt` of `EmbeddingRouter`), and `CorruptByEviction` proves that there is no
   other way.
7. **The shutdown has no time limit** (`EveryCallEnds`). `README.md:79` says that the
   parent limits the times of waiting for the lock, starting, inference and closing. Of an
   `aclose`, the waits for the lock and for the worker's exit are limited,
   `stdin.wait_closed()` (`process_embeddings.py:617`) is not; the property has an exception
   for it (`Stuck`), without which TLC shows the `aclose` that never returns.
8. `pipeline.py:128` says that without a reranker `fetch` becomes `top_k`; `ask` then
   returns `fetch_k` hits. Seen while modelling the searches; no run is about it.

## What is left out

- *Parsing and schemas*: JSON, embedding protocol fields, tool schemas, the critic's
  answers are reduced to accepted or not; of a plan its ids and dependencies are
  modelled.
- *Models*: embeddings, scores and the reranker are any that the interfaces allow; so
  which tools a score selects is any choice (`routed` of `AgentRun`).
- *Counts below 1*: `count_message` takes one off for each tool call, so that a message of
  five or more calls without names and arguments would count 0 or less; sizes are at least 1.
- *Negative overlaps*: `chunk_text` refuses an overlap that is not below the chunk size, but
  not a negative one, whose chunks leave gaps. No caller passes one; `ChunkingAssumption`
  excludes it.
- *Python 3.10 and 3.11*: see `SessionCoordinator`.
- *`VectorStore.update`*: nothing in the program calls it. *`list_sessions`* only reads.
- *stderr of the worker*: a diagnostic text.
- *`ToolRegistry.disable` and `enable`*: only tests call them; the schemas are read once,
  when `Runtime` is made.
- *Loading of documents, vision, built-in tools, settings, prompts, logging*:
  sequential functions on data or pure I/O. *`main.py`*: one request at a time, on
  components that are modelled.

## Plan

Done: a module for each component that has concurrency or state worth checking, and
proofs of every safety property of the runs. What is left, in order:

1. The selection of tools by score and threshold in `EmbeddingRouter`, with `routed` of
   `AgentRun` taken from it.
2. Steps towards liveness that need no fairness: measures, as `RunsConverge` is one, for
   the calls of the embedding client and of the router.
