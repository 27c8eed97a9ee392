----------------------------- MODULE ToolThreads -----------------------------
(***************************************************************************)
(* tools/executor.py: the batches of tool calls of several runs, in the    *)
(* threads of the process.  Each call of a batch passes the semaphore of   *)
(* its batch and becomes a work item of asyncio's thread pool.  A cancelled*)
(* batch takes its items out of the pool, but not out of a thread: a tool  *)
(* that has begun goes on, an orphan of its run.                           *)
(***************************************************************************)
EXTENDS Naturals, Sequences, FiniteSets

CONSTANTS Client,      \* runs that may have a batch
          Thread,      \* threads of the pool
          MaxWorkers,  \* Executor._max_workers, or 1 in serial mode
          Idle         \* the work of a thread without work

VARIABLES batch,       \* the calls of each client's batch: how far each has come
          queue,       \* work items of the pool, oldest first
          thread       \* the item each thread works on

InitTools ==
  /\ batch = [c \in Client |-> <<>>]
  /\ queue = <<>>
  /\ thread = [t \in Thread |-> Idle]

\* execute_calls_async.
Begin(c, n) ==
  /\ batch' = [batch EXCEPT ![c] = [i \in 1..n |-> "waiting"]]
  /\ UNCHANGED <<queue, thread>>

\* A plausible bug: a call that is done keeps its permit.
InsideForGood(c) == {i \in DOMAIN batch[c] : batch[c][i] # "waiting"}

\* The holders of permits of the batch's semaphore.
Inside(c) == {i \in DOMAIN batch[c] : batch[c][i] \in {"pooled", "running"}}

\* asyncio.Semaphore is fair, and gather starts the calls in their order.
Submit(c) ==
  /\ Cardinality(Inside(c)) < MaxWorkers
  /\ \E i \in DOMAIN batch[c] :
       /\ batch[c][i] = "waiting"
       /\ \A j \in 1..(i - 1) : batch[c][j] # "waiting"
       /\ batch' = [batch EXCEPT ![c][i] = "pooled"]
       /\ queue' = Append(queue, [client |-> c, call |-> i])
  /\ UNCHANGED thread

\* A thread takes up the oldest item.
Take(t, session) ==
  /\ thread[t] = Idle
  /\ queue # <<>>
  /\ LET item == Head(queue) IN
       /\ thread' = [thread EXCEPT ![t] = [client |-> item.client, call |-> item.call,
                                           session |-> session[item.client], orphan |-> FALSE]]
       /\ batch' = [batch EXCEPT ![item.client] =
                      IF item.call \in DOMAIN @ THEN [@ EXCEPT ![item.call] = "running"] ELSE @]
  /\ queue' = Tail(queue)

\* _run_one returns: whatever the tool did, as a result of the call, if anybody
\* still waits for it.
Return(t) ==
  /\ thread[t] # Idle
  /\ batch' = IF thread[t].orphan THEN batch
              ELSE [batch EXCEPT ![thread[t].client][thread[t].call] = "done"]
  /\ thread' = [thread EXCEPT ![t] = Idle]
  /\ UNCHANGED queue

\* A plausible bug: the batch returns with the first result.
GatheredFirst(c) == batch[c] # <<>> /\ \E i \in DOMAIN batch[c] : batch[c][i] = "done"

\* gather has all results, in the order of the calls.
Gathered(c) == batch[c] # <<>> /\ \A i \in DOMAIN batch[c] : batch[c][i] = "done"

End(c) ==
  /\ batch' = [batch EXCEPT ![c] = <<>>]
  /\ UNCHANGED <<queue, thread>>

\* Nobody waits for the result of an orphan: which call it is does not matter.
Orphaned(c) ==
  [t \in Thread |-> IF thread[t] # Idle /\ thread[t].client = c
                    THEN [client |-> c, call |-> 0, session |-> thread[t].session, orphan |-> TRUE]
                    ELSE thread[t]]

\* A plausible bug: the cancellation does not reach the items of the pool.
AbandonLeavingItems(c) ==
  /\ batch' = [batch EXCEPT ![c] = <<>>]
  /\ thread' = Orphaned(c)
  /\ UNCHANGED queue

\* The items that do not belong to the client, by their place.
Others(c) == {i \in DOMAIN queue : queue[i].client # c}

\* The run is cancelled at its await of the batch: its items leave the pool, the
\* others keep their order.
Abandon(c) ==
  /\ batch' = [batch EXCEPT ![c] = <<>>]
  /\ \E n \in 0..Len(queue) : \E from \in [1..n -> Others(c)] :
       /\ Others(c) = {from[i] : i \in 1..n}
       /\ \A i, j \in 1..n : i < j => from[i] < from[j]
       /\ queue' = [i \in 1..n |-> queue[from[i]]]
  /\ thread' = Orphaned(c)
=============================================================================
