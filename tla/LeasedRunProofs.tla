---------------------------- MODULE LeasedRunProofs ----------------------------
(***************************************************************************)
(* What is proved of LeasedRun, for every number of clients, sessions,     *)
(* threads, retries, fragments and tasks, in four parts.                   *)
(*                                                                         *)
(* The tools: a tool that works for a session belongs to the run that      *)
(* holds its lease, unless that run was cancelled, and no tool of a run    *)
(* begins once the run has left its batch.  The pool's queue and its       *)
(* threads name calls of batches; the invariant says that each of these    *)
(* names is the only one of its call, so that the step of one thread       *)
(* cannot change what another item or thread stands for.                   *)
(*                                                                         *)
(* Orders: whatever has ranks can be sorted.  The plan and the answer both *)
(* need it.                                                                *)
(*                                                                         *)
(* The plan: the loop of rounds in which the planner resolves dependencies *)
(* gets through exactly if the tasks can be put in an order.  By induction *)
(* over the place in an order its task is resolved after as many rounds;   *)
(* and tasks that are resolved are put in order by the round that does it. *)
(*                                                                         *)
(* The requests: as long as a stream lasts, its slots are the fragments    *)
(* that have come, grouped by index, and no attempt sleeps unless another  *)
(* follows.                                                                *)
(***************************************************************************)
EXTENDS LeasedRun, SublistProofs, FiniteSetTheorems, TLAPS

\* How far a call of a batch has come.
Status == {"waiting", "pooled", "running", "done"}
\* A work item of the pool.
Item == [client : Client, call : Int]
\* What a thread that is not idle works on.
ToolWork == [client : Client, call : Int, session : Session \cup {NoSession}, orphan : BOOLEAN]

\* The calls of a batch, by number.
Calls(b) == DOMAIN b \subseteq Int /\ b \in [DOMAIN b -> Status]

\* The type of the variables that the argument reads.
TypeInv ==
  /\ holder \in [Session -> Client \cup {NoClient}]
  /\ stage \in [Client -> {"out", "planning", "asking", "tools", "leaving"}]
  /\ session \in [Client -> Session \cup {NoSession}]
  /\ request = [c \in Client |-> request[c]]
  /\ batch = [c \in Client |-> batch[c]]
  /\ \A c \in Client : Calls(batch[c])
  /\ queue \in Seq(Item)
  /\ thread \in [Thread -> {Idle} \cup ToolWork]

\* A run holds the lease of its session until it has left.
LeaseInv ==
  \A c \in Client : stage[c] # "out" => session[c] \in Session /\ holder[session[c]] = c

\* A request lives only while the run awaits it, a batch only while its tools run.
StageInv ==
  \A c \in Client :
    /\ stage[c] \notin {"planning", "asking"} => request[c].at = "none"
    /\ DOMAIN batch[c] # {} => stage[c] = "tools"

\* Call i of client c is in a batch, and has come as far as status.
Of(b, c, i, status) == i \in DOMAIN b[c] /\ b[c][i] = status

\* An item of the pool is a call that waits for a thread, and is there once.
QueueInv ==
  \A i \in DOMAIN queue :
    /\ Of(batch, queue[i].client, queue[i].call, "pooled")
    /\ \A j \in DOMAIN queue : queue[i] = queue[j] => i = j

\* The thread works for a run that waits for the result.
Busy(t) == thread[t] # Idle /\ ~thread[t].orphan

\* Such a thread runs a running call of its run, in the session of the run, alone.
ThreadInv ==
  \A t \in Thread : Busy(t) =>
    /\ Of(batch, thread[t].client, thread[t].call, "running")
    /\ thread[t].session = session[thread[t].client]
    /\ \A u \in Thread : Busy(u) /\ thread[u].client = thread[t].client
                         /\ thread[u].call = thread[t].call => u = t

\* The inductive invariant.
IInv == TypeInv /\ LeaseInv /\ StageInv /\ QueueInv /\ ThreadInv

\* The items of the queue, by their places.
LEMMA QueueItems ==
  ASSUME queue \in Seq(Item)
  PROVE  /\ DOMAIN queue = 1..Len(queue) /\ Len(queue) \in Nat
         /\ \A i \in DOMAIN queue : queue[i] \in Item /\ queue[i].client \in Client
<1>1. DOMAIN queue = 1..Len(queue) /\ Len(queue) \in Nat
  OBVIOUS
<1>2. \A i \in 1..Len(queue) : queue[i] \in Item
  OBVIOUS
<1>3. \A item \in Item : item.client \in Client
  BY DEF Item
<1> QED BY <1>1, <1>2, <1>3

\* A call that comes further leaves a batch a batch.
LEMMA CallsExcept ==
  ASSUME NEW b, Calls(b), NEW k \in DOMAIN b, NEW status \in Status
  PROVE  Calls([b EXCEPT ![k] = status])
BY DEF Calls

\* A batch may be empty.
LEMMA CallsEmpty == Calls(<<>>)
BY DEF Calls

\* What a cancelled batch leaves in the pool is items of other runs, each of them from
\* a place of its own.
LEMMA AbandonQueue ==
  ASSUME queue \in Seq(Item), NEW c, Tools!Abandon(c)
  PROVE  /\ queue' \in Seq(Item)
         /\ \E from :
              /\ \A i \in DOMAIN queue' :
                   /\ from[i] \in DOMAIN queue /\ queue'[i] = queue[from[i]]
                   /\ queue'[i].client # c
              /\ \A i, j \in DOMAIN queue' : from[i] = from[j] => i = j
<1>1. PICK n \in 0..Len(queue) : \E from \in [1..n -> Tools!Others(c)] :
        /\ \A i, j \in 1..n : i < j => from[i] < from[j]
        /\ queue' = [i \in 1..n |-> queue[from[i]]]
  BY DEF Tools!Abandon
<1>2. PICK from \in [1..n -> Tools!Others(c)] :
        /\ \A i, j \in 1..n : i < j => from[i] < from[j]
        /\ queue' = [i \in 1..n |-> queue[from[i]]]
  BY <1>1
<1>3. /\ DOMAIN queue = 1..Len(queue) /\ n \in Nat
      /\ \A i \in DOMAIN queue : queue[i] \in Item
  BY QueueItems
<1>4. \A i \in Tools!Others(c) : i \in Nat /\ i \in DOMAIN queue /\ queue[i].client # c
  BY <1>3 DEF Tools!Others
<1>5. \A i \in 1..n : from[i] \in Nat /\ from[i] \in DOMAIN queue /\ queue[from[i]].client # c
  BY <1>2, <1>4
<1>6. queue' \in Seq(Item)
  <2>1. \A i \in 1..n : queue[from[i]] \in Item
    BY <1>3, <1>5
  <2> QED BY <1>2, <1>3, <2>1
<1>7. ASSUME NEW i \in 1..n, NEW j \in 1..n, from[i] = from[j] PROVE i = j
  <2>1. ~(from[i] < from[j]) /\ ~(from[j] < from[i])
    BY <1>5, <1>7
  <2> QED BY <1>2, <1>3, <2>1
<1>8. DOMAIN queue' = 1..n /\ \A i \in 1..n : queue'[i] = queue[from[i]]
  BY <1>2
<1>9. \A i \in DOMAIN queue' :
        from[i] \in DOMAIN queue /\ queue'[i] = queue[from[i]] /\ queue'[i].client # c
  BY <1>5, <1>8
<1>10. \A i, j \in DOMAIN queue' : from[i] = from[j] => i = j
  BY <1>7, <1>8
<1> QED BY <1>6, <1>9, <1>10

\* A run enters with a session that nobody holds.
LEMMA EnterStep == ASSUME IInv, NEW c \in Client, NEW s \in Session, Enter(c, s) PROVE IInv'
<1> USE DEF IInv
<1>1. UNCHANGED toolVars /\ stage[c] = "out" /\ holder[s] = NoClient
      /\ holder' = [holder EXCEPT ![s] = c] /\ session' = [session EXCEPT ![c] = s]
  BY DEF Enter, Lease!Acquire
<1>2. /\ stage' \in {[stage EXCEPT ![c] = "planning"], [stage EXCEPT ![c] = "asking"]}
      /\ \E r : request' = [request EXCEPT ![c] = r]
  BY DEF Enter, Goes, Llm!Send
<1>3. TypeInv'
  BY <1>1, <1>2 DEF TypeInv, toolVars
<1>4. LeaseInv'
  BY <1>1, <1>2, LeasedAssumption DEF TypeInv, LeaseInv
<1>5. StageInv'
  BY <1>1, <1>2 DEF TypeInv, StageInv, toolVars
<1>6. QueueInv'
  BY <1>1 DEF QueueInv, Of, toolVars
<1>7. ThreadInv'
  BY <1>1 DEF TypeInv, ThreadInv, Busy, Of, StageInv, toolVars
<1> QED BY <1>3, <1>4, <1>5, <1>6, <1>7

\* A step that moves on from one request to the next, or to the end.
LEMMA RequestStep ==
  ASSUME IInv, NEW c \in Client, stage[c] \in {"planning", "asking"},
         NEW to \in {"asking", "leaving"}, stage' = [stage EXCEPT ![c] = to],
         NEW r, request' = [request EXCEPT ![c] = r], to = "leaving" => r.at = "none",
         UNCHANGED <<holder, session, toolVars>>
  PROVE  IInv'
<1> USE DEF IInv
<1>1. TypeInv'
  BY DEF TypeInv, toolVars
<1>2. LeaseInv'
  BY DEF TypeInv, LeaseInv
<1>3. StageInv'
  BY DEF TypeInv, StageInv, toolVars
<1>4. QueueInv'
  BY DEF QueueInv, Of, toolVars
<1>5. ThreadInv'
  BY DEF ThreadInv, Busy, Of, toolVars
<1> QED BY <1>1, <1>2, <1>3, <1>4, <1>5

\* The planner's response opens the first round or ends the run.
LEMMA PlannedStep == ASSUME IInv, NEW c \in Client, Planned(c) PROVE IInv'
<1>1. CASE Goes(c, "asking") /\ Llm!Send(c, TRUE)
  BY <1>1, RequestStep DEF Planned, Goes, Llm!Send, runVars
<1>2. CASE Goes(c, "leaving") /\ Forget(c)
  <2>1. Llm!NoRequest.at = "none"
    BY DEF Llm!NoRequest
  <2> QED BY <1>2, <2>1, RequestStep DEF Planned, Goes, Forget
<1> QED BY <1>1, <1>2 DEF Planned

\* A timeout, a failure or an answer without tools ends the run.
LEMMA RequestLost ==
  ASSUME IInv, NEW c \in Client,
         PlannerTimeout(c) \/ RequestFailed(c) \/ Answered(c)
  PROVE  IInv'
<1>1. Llm!NoRequest.at = "none"
  BY DEF Llm!NoRequest
<1>2. stage[c] \in {"planning", "asking"}
  BY DEF PlannerTimeout, RequestFailed, Answered, IInv, StageInv
<1> QED
  BY <1>1, <1>2, RequestStep DEF PlannerTimeout, RequestFailed, Answered, Goes, Forget

\* A request goes on, retries or fails while the run waits.
LEMMA ExchangeStep ==
  ASSUME IInv, NEW c \in Client, Llm!Exchange(c) \/ Llm!Receive(c),
         UNCHANGED <<holder, toolVars, runVars>>
  PROVE  IInv'
<1>1. /\ request[c].at # "none"
      /\ \E r : request' = [request EXCEPT ![c] = r]
  BY DEF Llm!Exchange, Llm!Receive, Llm!Accepted, Llm!Rejected, Llm!Slept, Llm!Finish,
         Llm!Broken, Llm!Token, Llm!Fragment, Llm!At, Llm!Becomes
<1>2. TypeInv'
  BY <1>1 DEF IInv, TypeInv, toolVars, runVars
<1>3. LeaseInv'
  BY DEF IInv, LeaseInv, runVars
<1>4. StageInv'
  BY <1>1 DEF IInv, TypeInv, StageInv, toolVars, runVars
<1>5. QueueInv' /\ ThreadInv'
  BY DEF IInv, QueueInv, ThreadInv, Busy, Of, toolVars, runVars
<1> QED BY <1>2, <1>3, <1>4, <1>5 DEF IInv

\* A new batch replaces none: no item and no thread names a call of it yet.
LEMMA ExecuteStep == ASSUME IInv, NEW c \in Client, Execute(c) PROVE IInv'
<1> USE DEF IInv
<1>1. PICK n : batch' = [batch EXCEPT ![c] = [i \in 1..n |-> "waiting"]]
  BY DEF Execute, Tools!Begin
<1>2. /\ stage[c] = "asking" /\ stage' = [stage EXCEPT ![c] = "tools"]
      /\ request' = [request EXCEPT ![c] = Llm!NoRequest]
      /\ UNCHANGED <<holder, session, queue, thread>>
  BY DEF Execute, Goes, Forget, Tools!Begin
<1>3. DOMAIN batch[c] = {} /\ Llm!NoRequest.at = "none"
  BY <1>2 DEF StageInv, Llm!NoRequest
<1>4. \A d, i, status : d \in Client /\ Of(batch, d, i, status) => Of(batch', d, i, status)
  BY <1>1, <1>3 DEF TypeInv, Of
<1>5. TypeInv'
  <2>1. Calls([i \in 1..n |-> "waiting"])
    BY DEF Calls, Status
  <2>2. \A d \in Client : batch'[d] = IF d = c THEN [i \in 1..n |-> "waiting"] ELSE batch[d]
    BY <1>1 DEF TypeInv
  <2>3. \A d \in Client :
          Calls(batch'[d])
    BY <2>1, <2>2 DEF TypeInv
  <2>4. batch' = [d \in Client |-> batch'[d]]
    BY <1>1 DEF TypeInv
  <2> QED BY <1>2, <2>3, <2>4 DEF TypeInv
<1>6. LeaseInv'
  BY <1>2 DEF TypeInv, LeaseInv
<1>7. StageInv'
  BY <1>1, <1>2, <1>3 DEF TypeInv, StageInv
<1>8. QueueInv'
  <2>1. \A i \in DOMAIN queue : queue[i].client \in Client
    BY QueueItems DEF TypeInv
  <2>2. \A i \in DOMAIN queue : Of(batch', queue[i].client, queue[i].call, "pooled")
    BY <1>2, <1>4, <2>1 DEF QueueInv
  <2> QED BY <1>2, <2>2 DEF QueueInv, Of
<1>9. ThreadInv'
  BY <1>2, <1>4 DEF TypeInv, ThreadInv, Busy, ToolWork
<1> QED BY <1>5, <1>6, <1>7, <1>8, <1>9

\* A batch that is gathered has all calls done: no item, no thread names one of them.
LEMMA ExecutedStep == ASSUME IInv, NEW c \in Client, Executed(c) PROVE IInv'
<1> USE DEF IInv
<1>1. /\ stage[c] = "tools" /\ Tools!Gathered(c)
      /\ batch' = [batch EXCEPT ![c] = <<>>]
      /\ UNCHANGED <<holder, session, queue, thread>>
  BY DEF Executed, Tools!End
<1>2. /\ stage' \in {[stage EXCEPT ![c] = "asking"], [stage EXCEPT ![c] = "leaving"]}
      /\ \/ request' = request
         \/ stage'[c] = "asking" /\ \E r : request' = [request EXCEPT ![c] = r]
  BY DEF Executed, Goes, Llm!Send, TypeInv
<1>3. \A i : ~Of(batch, c, i, "pooled") /\ ~Of(batch, c, i, "running")
  BY <1>1 DEF Tools!Gathered, Of
<1>4. \A d, i, status : d \in Client /\ d # c /\ Of(batch, d, i, status)
        => Of(batch', d, i, status)
  BY <1>1 DEF TypeInv, Of
<1>5. TypeInv'
  <2>1. \A d \in Client : batch'[d] = IF d = c THEN <<>> ELSE batch[d]
    BY <1>1 DEF TypeInv
  <2>2. \A d \in Client : Calls(batch'[d])
    BY <2>1, CallsEmpty DEF TypeInv
  <2> QED BY <1>1, <1>2, <2>2 DEF TypeInv
<1>6. LeaseInv'
  BY <1>1, <1>2 DEF TypeInv, LeaseInv
<1>7. StageInv'
  BY <1>1, <1>2 DEF TypeInv, StageInv
<1>8. QueueInv'
  <2>1. \A i \in DOMAIN queue : queue[i].client \in Client
    BY QueueItems DEF TypeInv
  <2>2. \A i \in DOMAIN queue : Of(batch', queue[i].client, queue[i].call, "pooled")
    BY <1>1, <1>3, <1>4, <2>1 DEF QueueInv
  <2> QED BY <1>1, <2>2 DEF QueueInv, Of
<1>9. ThreadInv'
  BY <1>1, <1>3, <1>4 DEF TypeInv, ThreadInv, Busy, ToolWork
<1> QED BY <1>5, <1>6, <1>7, <1>8, <1>9

\* A cancelled run takes its items out of the pool and disowns its threads.
LEMMA CancelStep == ASSUME IInv, NEW c \in Client, Cancel(c) PROVE IInv'
<1> USE DEF IInv
<1>1. /\ stage[c] \in {"planning", "asking", "tools"}
      /\ stage' = [stage EXCEPT ![c] = "leaving"]
      /\ request' = [request EXCEPT ![c] = Llm!NoRequest] /\ Llm!NoRequest.at = "none"
      /\ UNCHANGED <<holder, session>>
  BY DEF Cancel, Goes, Forget, Llm!NoRequest
<1>2. /\ batch' = [batch EXCEPT ![c] = <<>>]
      /\ thread' = Tools!Orphaned(c)
  BY DEF Cancel, Tools!Abandon
<1>3. Tools!Abandon(c) /\ queue \in Seq(Item)
  BY DEF Cancel, TypeInv
<1>4. /\ queue' \in Seq(Item)
      /\ \E from :
           /\ \A i \in DOMAIN queue' :
                /\ from[i] \in DOMAIN queue /\ queue'[i] = queue[from[i]]
                /\ queue'[i].client # c
           /\ \A i, j \in DOMAIN queue' : from[i] = from[j] => i = j
  BY <1>3, AbandonQueue, Zenon
<1>5. \A d, i, status : d \in Client /\ d # c /\ Of(batch, d, i, status)
        => Of(batch', d, i, status)
  BY <1>2 DEF TypeInv, Of
<1>6. \A t \in Thread : Busy(t)' => Busy(t) /\ thread'[t] = thread[t] /\ thread[t].client # c
  BY <1>2 DEF Tools!Orphaned, TypeInv, ToolWork, Busy
<1>7. thread' \in [Thread -> {Idle} \cup ToolWork]
  <2>1. \A t \in Thread : thread[t] # Idle => thread[t] \in ToolWork
    BY DEF TypeInv
  <2>2. \A w \in ToolWork :
          [client |-> c, call |-> 0, session |-> w.session, orphan |-> TRUE] \in ToolWork
    BY DEF ToolWork
  <2> QED BY <1>2, <2>1, <2>2 DEF Tools!Orphaned
<1>8. \A d \in Client : batch'[d] = IF d = c THEN <<>> ELSE batch[d]
  BY <1>2 DEF TypeInv
<1>9. TypeInv'
  <2>1. batch' = [d \in Client |-> batch'[d]]
    BY <1>2 DEF TypeInv
  <2>2. \A d \in Client :
          Calls(batch'[d])
    BY <1>8, CallsEmpty DEF TypeInv
  <2> QED BY <1>1, <1>4, <1>7, <2>1, <2>2 DEF TypeInv
<1>10. LeaseInv'
  BY <1>1 DEF TypeInv, LeaseInv
<1>11. StageInv'
  BY <1>1, <1>8 DEF TypeInv, StageInv
<1>12. QueueInv'
  <2>0. PICK from :
        /\ \A i \in DOMAIN queue' :
             /\ from[i] \in DOMAIN queue /\ queue'[i] = queue[from[i]]
             /\ queue'[i].client # c
        /\ \A i, j \in DOMAIN queue' : from[i] = from[j] => i = j
    BY <1>4, Zenon
  <2>1. ASSUME NEW i \in DOMAIN queue'
        PROVE  Of(batch', queue'[i].client, queue'[i].call, "pooled")
    <3>1. /\ from[i] \in DOMAIN queue /\ queue'[i] = queue[from[i]]
          /\ queue'[i].client # c
      BY <2>0
    <3>2. queue[from[i]].client \in Client /\ queue[from[i]].client # c
      BY <3>1, QueueItems DEF TypeInv
    <3>3. Of(batch, queue[from[i]].client, queue[from[i]].call, "pooled")
      BY <3>1 DEF QueueInv
    <3>4. batch'[queue'[i].client] = batch[queue[from[i]].client]
      BY <1>8, <3>1, <3>2
    <3> QED BY <3>1, <3>3, <3>4 DEF Of
  <2>2. \A i, j \in DOMAIN queue' : queue'[i] = queue'[j] => i = j
    BY <2>0 DEF QueueInv
  <2> QED BY <2>1, <2>2 DEF QueueInv, Of
<1>13. ThreadInv'
  BY <1>1, <1>5, <1>6 DEF TypeInv, ThreadInv, ToolWork, Busy
<1> QED BY <1>9, <1>10, <1>11, <1>12, <1>13

\* A run that leaves has no batch: no thread works for it.
LEMMA LeaveStep == ASSUME IInv, NEW c \in Client, Leave(c) PROVE IInv'
<1> USE DEF IInv
<1>1. /\ stage[c] = "leaving" /\ stage' = [stage EXCEPT ![c] = "out"]
      /\ holder' = [holder EXCEPT ![session[c]] = NoClient]
      /\ session' = [session EXCEPT ![c] = NoSession]
      /\ UNCHANGED <<request, toolVars>>
  BY DEF Leave, Goes, Lease!Release
<1>2. session[c] \in Session /\ holder[session[c]] = c
  BY <1>1 DEF LeaseInv
<1>3. TypeInv'
  BY <1>1, <1>2 DEF TypeInv, toolVars
<1>4. LeaseInv'
  BY <1>1, <1>2, LeasedAssumption DEF TypeInv, LeaseInv
<1>5. StageInv'
  BY <1>1 DEF TypeInv, StageInv, toolVars
<1>6. QueueInv'
  BY <1>1 DEF QueueInv, Of, toolVars
<1>7. ThreadInv'
  BY <1>1 DEF TypeInv, ThreadInv, Busy, Of, StageInv, ToolWork, toolVars
<1> QED BY <1>3, <1>4, <1>5, <1>6, <1>7

\* A call that waits for its permit becomes an item: the only one of its name.
LEMMA SubmitStep ==
  ASSUME IInv, NEW c \in Client, Tools!Submit(c), UNCHANGED <<holder, request, runVars>>
  PROVE  IInv'
<1> USE DEF IInv
<1>1. PICK k \in DOMAIN batch[c] :
        /\ batch[c][k] = "waiting"
        /\ batch' = [batch EXCEPT ![c][k] = "pooled"]
        /\ queue' = Append(queue, [client |-> c, call |-> k])
  BY DEF Tools!Submit
<1>2. UNCHANGED <<holder, request, stage, session, thread>>
  BY DEF Tools!Submit, runVars
<1> DEFINE item == [client |-> c, call |-> k]
<1>3. /\ DOMAIN queue = 1..Len(queue) /\ Len(queue) \in Nat
      /\ \A i \in DOMAIN queue : queue[i] \in Item /\ queue[i].client \in Client
  BY QueueItems DEF TypeInv
<1>4. item \in Item /\ item.client = c /\ item.call = k
  <2>1. k \in Int
    BY <1>1 DEF TypeInv, Calls
  <2> QED BY <2>1 DEF Item
<1>5. /\ batch' = [d \in Client |-> batch'[d]]
      /\ batch'[c] = [batch[c] EXCEPT ![k] = "pooled"]
      /\ \A d \in Client : d # c => batch'[d] = batch[d]
  BY <1>1 DEF TypeInv
<1>6. \A d \in Client : DOMAIN batch'[d] = DOMAIN batch[d]
  BY <1>5
<1>7. /\ Of(batch', c, k, "pooled")
      /\ \A d, i, status : d \in Client /\ status # "waiting" /\ Of(batch, d, i, status)
           => Of(batch', d, i, status)
  BY <1>1, <1>5, <1>6 DEF Of, TypeInv
<1>8. TypeInv'
  <2>1. \A d \in Client : Calls(batch'[d])
    BY <1>1, <1>5, CallsExcept DEF TypeInv, Status
  <2>2. queue' \in Seq(Item)
    BY <1>1, <1>4 DEF TypeInv
  <2> QED BY <1>2, <1>5, <2>1, <2>2 DEF TypeInv
<1>9. LeaseInv'
  BY <1>2 DEF LeaseInv
<1>10. StageInv'
  BY <1>2, <1>6 DEF StageInv
<1> HIDE DEF item
<1>11. QueueInv'
  <2>1. DOMAIN queue' = 1..(Len(queue) + 1) /\ queue'[Len(queue) + 1] = item
        /\ \A i \in DOMAIN queue : queue'[i] = queue[i]
    BY <1>1, <1>3 DEF item, TypeInv
  <2>2. \A i \in DOMAIN queue : queue[i] # item
    BY <1>1, <1>4 DEF QueueInv, Of
  <2>3. \A i \in DOMAIN queue' : Of(batch', queue'[i].client, queue'[i].call, "pooled")
    BY <1>3, <1>4, <1>7, <2>1 DEF QueueInv
  <2>4. \A i, j \in DOMAIN queue' : queue'[i] = queue'[j] => i = j
    BY <1>3, <2>1, <2>2 DEF QueueInv
  <2> QED BY <2>3, <2>4 DEF QueueInv, Of
<1>12. ThreadInv'
  BY <1>2, <1>7 DEF TypeInv, ThreadInv, Busy, ToolWork
<1> QED BY <1>8, <1>9, <1>10, <1>11, <1>12

\* A thread takes the oldest item: no other item and no thread has its name.
LEMMA TakeStep ==
  ASSUME IInv, NEW t \in Thread, Tools!Take(t, session), UNCHANGED <<holder, request, runVars>>
  PROVE  IInv'
<1> USE DEF IInv
<1> DEFINE item == Head(queue)
           c == item.client
           k == item.call
           work == [client |-> c, call |-> k, session |-> session[c], orphan |-> FALSE]
<1>1. /\ thread[t] = Idle /\ queue # <<>>
      /\ thread' = [thread EXCEPT ![t] = work]
      /\ batch' = [batch EXCEPT ![c] =
                IF k \in DOMAIN @ THEN [@ EXCEPT ![k] = "running"] ELSE @]
      /\ queue' = Tail(queue)
  BY DEF Tools!Take
<1>2. UNCHANGED <<holder, request, stage, session>>
  BY DEF runVars
<1>3. /\ DOMAIN queue = 1..Len(queue) /\ Len(queue) \in Nat
      /\ \A i \in DOMAIN queue : queue[i] \in Item /\ queue[i].client \in Client
  BY QueueItems DEF TypeInv
<1>4. item = queue[1] /\ 1 \in DOMAIN queue /\ queue' \in Seq(Item)
      /\ DOMAIN queue' = 1..(Len(queue) - 1)
      /\ \A i \in DOMAIN queue' : i + 1 \in DOMAIN queue /\ queue'[i] = queue[i + 1]
  BY <1>1, <1>3 DEF TypeInv
<1>5. item \in Item /\ c \in Client /\ k \in Int /\ Of(batch, c, k, "pooled")
  <2>1. item \in Item /\ c \in Client /\ Of(batch, c, k, "pooled")
    BY <1>3, <1>4 DEF QueueInv
  <2> QED BY <2>1 DEF Item
<1>6. /\ work \in ToolWork /\ work.client = c /\ work.call = k
      /\ work.session = session[c] /\ ~work.orphan
  BY <1>5 DEF TypeInv, ToolWork
<1> HIDE DEF item, c, k, work
<1>7. /\ batch' = [d \in Client |-> batch'[d]]
      /\ batch'[c] = [batch[c] EXCEPT ![k] = "running"]
      /\ \A d \in Client : d # c => batch'[d] = batch[d]
  BY <1>1, <1>5 DEF TypeInv, Of
<1>8. \A d \in Client : DOMAIN batch'[d] = DOMAIN batch[d]
  BY <1>5, <1>7
<1>9. /\ Of(batch', c, k, "running")
      /\ \A d, i, status :
           d \in Client /\ Of(batch, d, i, status) /\ ~(d = c /\ i = k)
             => Of(batch', d, i, status)
  BY <1>5, <1>7, <1>8 DEF Of, TypeInv
<1>10. TypeInv'
  <2>1. \A d \in Client : Calls(batch'[d])
    <3>1. Calls(batch[c]) /\ k \in DOMAIN batch[c] /\ "running" \in Status
      BY <1>5 DEF TypeInv, Status, Of
    <3>2. Calls([batch[c] EXCEPT ![k] = "running"])
      BY <3>1, CallsExcept
    <3>3. Calls(batch'[c])
      BY <1>7, <3>2
    <3> QED BY <1>7, <3>3 DEF TypeInv
  <2>2. thread' \in [Thread -> {Idle} \cup ToolWork]
    BY <1>1, <1>6 DEF TypeInv
  <2> QED BY <1>2, <1>4, <1>7, <2>1, <2>2 DEF TypeInv
<1>11. LeaseInv'
  BY <1>2 DEF LeaseInv
<1>12. StageInv'
  BY <1>2, <1>8 DEF StageInv
<1>13. QueueInv'
  <2>1. \A i \in DOMAIN queue' : queue'[i] # item
    BY <1>3, <1>4 DEF QueueInv
  <2>2. ASSUME NEW i \in DOMAIN queue'
        PROVE Of(batch', queue'[i].client, queue'[i].call, "pooled")
    <3>1. queue'[i] \in Item /\ queue'[i].client \in Client
          /\ Of(batch, queue'[i].client, queue'[i].call, "pooled")
      BY <1>3, <1>4 DEF QueueInv
    <3>2. ~(queue'[i].client = c /\ queue'[i].call = k)
      BY <1>5, <2>1, <3>1 DEF Item, c, k
    <3> QED BY <1>9, <3>1, <3>2
  <2>3. \A i, j \in DOMAIN queue' : queue'[i] = queue'[j] => i = j
    BY <1>3, <1>4 DEF QueueInv
  <2> QED BY <2>2, <2>3 DEF QueueInv, Of
<1>14. ThreadInv'
  <2>1. \A u \in Thread : u # t => thread'[u] = thread[u]
    BY <1>1 DEF TypeInv
  <2>2. thread'[t] = work
    BY <1>1 DEF TypeInv
  <2>3. \A u \in Thread : Busy(u)
          => u # t /\ thread[u] \in ToolWork /\ thread[u].client \in Client
          /\ Of(batch, thread[u].client, thread[u].call, "running")
    BY <1>1 DEF TypeInv, Busy, ThreadInv, ToolWork
  <2>4. \A u \in Thread : Busy(u) => ~(thread[u].client = c /\ thread[u].call = k)
    BY <1>5, <2>3 DEF Of
  <2> QED BY <1>2, <1>6, <1>9, <2>1, <2>2, <2>3, <2>4 DEF ThreadInv, Busy
<1> QED BY <1>4, <1>10, <1>11, <1>12, <1>13, <1>14

\* A tool returns: only its own call is done, and an orphan's is nobody's.
LEMMA ReturnStep ==
  ASSUME IInv, NEW t \in Thread, Tools!Return(t), UNCHANGED <<holder, request, runVars>>
  PROVE  IInv'
<1> USE DEF IInv
<1>1. thread[t] # Idle /\ thread' = [thread EXCEPT ![t] = Idle] /\ queue' = queue
      /\ UNCHANGED <<holder, request, stage, session>>
  BY DEF Tools!Return, runVars
<1>2. /\ thread'[t] = Idle
      /\ \A u \in Thread : Busy(u)' => u # t /\ thread'[u] = thread[u] /\ Busy(u)
      /\ thread' \in [Thread -> {Idle} \cup ToolWork]
  BY <1>1 DEF TypeInv, Busy
<1>3. CASE thread[t].orphan
  <2>1. batch' = batch
    BY <1>3 DEF Tools!Return
  <2>2. TypeInv' /\ LeaseInv' /\ StageInv'
    BY <1>1, <1>2, <2>1 DEF TypeInv, LeaseInv, StageInv
  <2>3. QueueInv'
    BY <1>1, <2>1 DEF QueueInv, Of
  <2>4. ThreadInv'
    BY <1>1, <1>2, <2>1 DEF ThreadInv, Of
  <2> QED BY <2>2, <2>3, <2>4
<1>4. CASE ~thread[t].orphan
  <2> DEFINE c == thread[t].client
             k == thread[t].call
  <2>1. Busy(t) /\ c \in Client /\ Of(batch, c, k, "running")
    BY <1>1, <1>4 DEF Busy, ThreadInv, TypeInv, ToolWork
  <2>2. batch' = [batch EXCEPT ![c][k] = "done"]
    BY <1>4 DEF Tools!Return
  <2>3. \A u \in Thread : Busy(u) /\ u # t => ~(thread[u].client = c /\ thread[u].call = k)
    BY <2>1 DEF ThreadInv
  <2>4. \A u \in Thread : Busy(u) => thread[u].client \in Client
    BY DEF Busy, TypeInv, ToolWork
  <2> HIDE DEF c, k
  <2>5. /\ batch' = [d \in Client |-> batch'[d]]
        /\ batch'[c] = [batch[c] EXCEPT ![k] = "done"]
        /\ \A d \in Client : d # c => batch'[d] = batch[d]
    BY <2>1, <2>2 DEF TypeInv
  <2>6. \A d \in Client : DOMAIN batch'[d] = DOMAIN batch[d]
    BY <2>1, <2>5
  <2>7. \A d, i, status :
          d \in Client /\ Of(batch, d, i, status) /\ ~(d = c /\ i = k)
            => Of(batch', d, i, status)
    BY <2>5, <2>6 DEF Of, TypeInv
  <2>8. TypeInv'
    <3>1. \A d \in Client : Calls(batch'[d])
      <4>1. Calls(batch[c]) /\ k \in DOMAIN batch[c] /\ "done" \in Status
        BY <2>1 DEF TypeInv, Status, Of
      <4>2. Calls([batch[c] EXCEPT ![k] = "done"])
        BY <4>1, CallsExcept
      <4>3. Calls(batch'[c])
        BY <2>5, <4>2
      <4> QED BY <2>5, <4>3 DEF TypeInv
    <3> QED BY <1>1, <1>2, <2>5, <3>1 DEF TypeInv
  <2>9. LeaseInv'
    BY <1>1 DEF LeaseInv
  <2>10. StageInv'
    BY <1>1, <2>6 DEF StageInv
  <2>11. QueueInv'
    <3>1. \A i \in DOMAIN queue :
            queue[i].client \in Client /\ Of(batch, queue[i].client, queue[i].call, "pooled")
      BY QueueItems DEF TypeInv, QueueInv
    <3>2. \A i \in DOMAIN queue : ~(queue[i].client = c /\ queue[i].call = k)
      BY <2>1, <3>1 DEF Of
    <3>3. \A i \in DOMAIN queue : Of(batch', queue[i].client, queue[i].call, "pooled")
      BY <2>7, <3>1, <3>2, <1>1
    <3> QED BY <1>1, <3>3 DEF QueueInv, Of
  <2>12. ThreadInv'
    BY <1>1, <1>2, <2>3, <2>4, <2>7 DEF ThreadInv
  <2> QED BY <2>8, <2>9, <2>10, <2>11, <2>12
<1> QED BY <1>3, <1>4

\* Nothing runs at first.
LEMMA InitInv == Init => IInv
<1> SUFFICES ASSUME Init PROVE IInv
  OBVIOUS
<1> USE DEF Init, Lease!Init, Llm!InitLlm, Tools!InitTools
<1>1. TypeInv
  <2>1. <<>> \in Seq(Item)
    OBVIOUS
  <2> QED BY <2>1, CallsEmpty DEF TypeInv
<1>2. LeaseInv /\ StageInv
  BY DEF LeaseInv, StageInv, Llm!NoRequest
<1>3. QueueInv /\ ThreadInv
  BY DEF QueueInv, ThreadInv, Busy
<1> QED BY <1>1, <1>2, <1>3 DEF IInv

\* Every step preserves the invariant.
LEMMA InductiveInv == ASSUME IInv, [Next]_vars PROVE IInv'
<1>1. ASSUME NEW c \in Client, NEW s \in Session, Enter(c, s) PROVE IInv'
  BY <1>1, EnterStep
<1>2. ASSUME NEW c \in Client, Advance(c) PROVE IInv'
  BY <1>2, PlannedStep, RequestLost, ExecuteStep, ExecutedStep, LeaveStep, ExchangeStep,
       SubmitStep
     DEF Advance
<1>3. ASSUME NEW c \in Client, Llm!Receive(c), UNCHANGED <<holder, toolVars, runVars>>
      PROVE IInv'
  BY <1>3, ExchangeStep
<1>4. ASSUME NEW c \in Client, PlannerTimeout(c) \/ Cancel(c) PROVE IInv'
  BY <1>4, RequestLost, CancelStep
<1>5. ASSUME NEW t \in Thread, Work(t) PROVE IInv'
  BY <1>5, TakeStep, ReturnStep DEF Work
<1>6. CASE UNCHANGED vars
  BY <1>6 DEF vars, toolVars, runVars, IInv, TypeInv, LeaseInv, StageInv, QueueInv,
       ThreadInv, Busy, Of
<1> QED BY <1>1, <1>2, <1>3, <1>4, <1>5, <1>6 DEF Next

\* IInv is an invariant of LeasedRun.
THEOREM Invariance == Spec => []IInv
BY InitInv, InductiveInv, PTL DEF Spec

\* A tool whose run was not cancelled works under the lease of its run: Executor's batch
\* is gathered before run_async can reach the lease's release.
THEOREM NoStrayTool == Spec => []ToolsOfTheHolder
<1>1. IInv => ToolsOfTheHolder
  <2> SUFFICES ASSUME IInv, NEW t \in Thread, thread[t] # Idle, ~thread[t].orphan
               PROVE  /\ holder[thread[t].session] = thread[t].client
                      /\ thread[t].call \in DOMAIN batch[thread[t].client]
    BY DEF ToolsOfTheHolder
  <2>1. thread[t].client \in Client
    BY DEF IInv, TypeInv, ToolWork
  <2>2. /\ Of(batch, thread[t].client, thread[t].call, "running")
        /\ thread[t].session = session[thread[t].client]
    BY DEF IInv, ThreadInv, Busy
  <2>3. stage[thread[t].client] = "tools"
    BY <2>1, <2>2 DEF IInv, StageInv, Of
  <2> QED BY <2>1, <2>2, <2>3 DEF IInv, LeaseInv, Of
<1> QED BY <1>1, Invariance, PTL

\* Only a thread that takes an item starts a tool, and its run is then in its batch.
LEMMA StartStep ==
  ASSUME IInv, IInv', [Next]_vars, NEW t \in Thread, thread[t] = Idle, thread'[t] # Idle
  PROVE  /\ holder[thread'[t].session] = thread'[t].client
         /\ stage[thread'[t].client] = "tools"
<1>1. ASSUME NEW c \in Client, NEW s \in Session, Enter(c, s) PROVE thread' = thread
  BY <1>1 DEF Enter, toolVars
<1>2. ASSUME NEW c \in Client, Advance(c) PROVE thread' = thread
  BY <1>2 DEF Advance, Planned, RequestFailed, Answered, Execute, Executed, Leave, toolVars,
              Tools!Begin, Tools!End, Tools!Submit
<1>3. ASSUME NEW c \in Client, PlannerTimeout(c) PROVE thread' = thread
  BY <1>3 DEF PlannerTimeout, toolVars
<1>4. ASSUME NEW c \in Client, Cancel(c) PROVE thread'[t] = thread[t]
  BY <1>4 DEF Cancel, Tools!Abandon, Tools!Orphaned
<1>5. ASSUME NEW u \in Thread, Tools!Return(u) PROVE thread'[t] = thread[t]
  BY <1>5 DEF Tools!Return, IInv, TypeInv
<1>6. PICK u \in Thread : Tools!Take(u, session)
  BY <1>1, <1>2, <1>3, <1>4, <1>5 DEF Next, Work, vars, toolVars
<1>7. u = t
  BY <1>6 DEF Tools!Take, IInv, TypeInv
<1>8. queue # <<>> /\ thread'[t].client = Head(queue).client
      /\ thread'[t].session = session[Head(queue).client]
  BY <1>6, <1>7 DEF Tools!Take, IInv, TypeInv
<1>9. /\ Head(queue).client \in Client
      /\ Of(batch, Head(queue).client, Head(queue).call, "pooled")
  <2>1. Head(queue) = queue[1] /\ 1 \in DOMAIN queue
    BY <1>8, QueueItems DEF IInv, TypeInv
  <2> QED BY <2>1, QueueItems DEF IInv, TypeInv, QueueInv
<1>10. stage[Head(queue).client] = "tools"
  BY <1>9 DEF IInv, StageInv, Of
<1> QED BY <1>8, <1>9, <1>10 DEF IInv, LeaseInv

\* No tool starts after its run has left its batch, cancelled or not: the cancellation
\* of the batch takes its items out of the pool.
THEOREM NoToolStartsLate == Spec => NoLateStart
<1> DEFINE OnTime == \A t \in Thread :
                       thread[t] = Idle /\ thread'[t] # Idle =>
                         /\ holder[thread'[t].session] = thread'[t].client
                         /\ stage[thread'[t].client] = "tools"
<1>1. IInv /\ IInv' /\ [Next]_vars => [OnTime]_vars
  BY StartStep
<1>2. Spec => [][OnTime]_vars
  BY <1>1, Invariance, PTL DEF Spec
<1> QED BY <1>2 DEF NoLateStart
-----------------------------------------------------------------------------
(* Orders *)

\* order puts the places 1..n in a row, those of a smaller rank first.
Ranks(order, rank, n) ==
  /\ order \in [1..n -> 1..n]
  /\ \A i, j \in 1..n : order[i] = order[j] => i = j
  /\ \A k \in 1..n : \E i \in 1..n : order[i] = k
  /\ \A i, j \in 1..n : rank[i] < rank[j] => order[i] < order[j]

\* Whatever has ranks can be put in a row.
LEMMA Ranking ==
  ASSUME NEW n \in Nat, NEW rank \in [1..n -> Nat]
  PROVE  \E order : Ranks(order, rank, n)
<1> DEFINE Precedes(i, j) == rank[i] < rank[j] \/ (rank[i] = rank[j] /\ i <= j)
           Before(j) == {i \in 1..n : Precedes(i, j)}
           order == [j \in 1..n |-> Cardinality(Before(j))]
<1>1. IsFiniteSet(1..n) /\ Cardinality(1..n) = n
  <2>1. 1 \in Int /\ n \in Int /\ (1 > n => n = 0) /\ n - 1 + 1 = n
    OBVIOUS
  <2>2. IsFiniteSet(1..n) /\ Cardinality(1..n) = IF 1 > n THEN 0 ELSE n - 1 + 1
    BY <2>1, FS_Interval
  <2> QED BY <2>1, <2>2
<1>2. ASSUME NEW j \in 1..n
      PROVE  IsFiniteSet(Before(j)) /\ Cardinality(Before(j)) \in 1..n
  <2>1. Before(j) \in SUBSET (1..n) /\ j \in Before(j)
    OBVIOUS
  <2>2. IsFiniteSet(Before(j)) /\ Cardinality(Before(j)) <= n
    BY <1>1, <2>1, FS_Subset
  <2>3. Cardinality(Before(j)) \in Nat /\ Cardinality(Before(j)) # 0
    BY <2>1, <2>2, FS_CardinalityType, FS_EmptySet
  <2> HIDE DEF Before
  <2> QED BY <2>2, <2>3
<1>3. ASSUME NEW i \in 1..n, NEW j \in 1..n, i # j, Precedes(i, j)
      PROVE  Cardinality(Before(i)) < Cardinality(Before(j))
  <2>0. \A k \in 1..n : rank[k] \in Nat
    OBVIOUS
  <2>1. \A k \in 1..n : Precedes(k, i) => Precedes(k, j)
    BY <1>3, <2>0
  <2>2. ~Precedes(j, i)
    BY <1>3, <2>0
  <2>3. Before(i) \in SUBSET Before(j) /\ j \in Before(j) /\ j \notin Before(i)
    BY <2>1, <2>2
  <2>4. Cardinality(Before(i)) <= Cardinality(Before(j)) /\ Before(i) # Before(j)
    BY <1>2, <2>3, FS_Subset
  <2>5. Cardinality(Before(i)) # Cardinality(Before(j))
    BY <1>2, <2>3, <2>4, FS_Subset
  <2> HIDE DEF Before
  <2>6. Cardinality(Before(i)) \in Nat /\ Cardinality(Before(j)) \in Nat
    BY <1>2
  <2> QED BY <2>4, <2>5, <2>6
<1>4. \A i, j \in 1..n : i # j => Precedes(i, j) \/ Precedes(j, i)
  OBVIOUS
<1> HIDE DEF Before
<1>5. order \in [1..n -> 1..n] /\ \A j \in 1..n : order[j] = Cardinality(Before(j))
  BY <1>2
<1> HIDE DEF order
<1>6. \A i, j \in 1..n : order[i] = order[j] => i = j
  <2>1. ASSUME NEW i \in 1..n, NEW j \in 1..n, i # j PROVE order[i] # order[j]
    <3>1. order[i] < order[j] \/ order[j] < order[i]
      BY <1>3, <1>4, <1>5, <2>1
    <3> QED BY <1>5, <3>1
  <2> QED BY <2>1
<1>7. \A i, j \in 1..n : rank[i] < rank[j] => order[i] < order[j]
  <2>1. ASSUME NEW i \in 1..n, NEW j \in 1..n, rank[i] < rank[j] PROVE order[i] < order[j]
    <3>1. Precedes(i, j) /\ i # j
      BY <2>1
    <3> QED BY <1>3, <1>5, <3>1
  <2> QED BY <2>1
<1>8. \A k \in 1..n : \E i \in 1..n : order[i] = k
  <2>1. order \in Injection(1..n, 1..n)
    BY <1>5, <1>6 DEF Injection, IsInjective
  <2>2. order \in Surjection(1..n, 1..n)
    BY <1>1, <2>1, FS_Injection
  <2> QED BY <2>2 DEF Surjection
<1>9. Ranks(order, rank, n)
  BY <1>5, <1>6, <1>7, <1>8 DEF Ranks
<1> QED BY <1>9
-----------------------------------------------------------------------------
(* Plans *)

\* The rounds of the loop that resolves the tasks.
Rounds(resolved, tasks) ==
  /\ Resolved(tasks) = resolved[Len(tasks)]
  /\ resolved[0] = {}
  /\ \A n \in 1..Len(tasks) : resolved[n] = {t.id : t \in Ready(tasks, resolved[n - 1])}

\* The recursive function of Resolved.
LEMMA ResolvedRounds ==
  ASSUME NEW tasks, Len(tasks) \in Nat
  PROVE  \E resolved : Rounds(resolved, tasks)
<1> DEFINE n == Len(tasks)
           S == SUBSET {t.id : t \in ToSet(tasks)}
           none == {}
           step == [i \in 1..n |-> [x \in S |-> {t.id : t \in Ready(tasks, x)}]]
           Rec(h) == h = [i \in 0..n |->
                            IF i = 0 THEN {} ELSE {t.id : t \in Ready(tasks, h[i - 1])}]
<1>1. n \in Nat /\ none \in S
  OBVIOUS
<1>2. \A x \in S : {t.id : t \in Ready(tasks, x)} \in S
  BY DEF Ready
<1>3. step \in [1..n -> [S -> S]]
  BY <1>2
<1> HIDE DEF S, none, step
<1>4. PICK f \in [0..n -> S] : f[0] = none /\ \A i \in 1..n : f[i] = step[i][f[i - 1]]
  <2> HIDE DEF n
  <2>1. Iterated(n, S, none, step)
    BY <1>1, <1>3, Iteration
  <2> QED BY <2>1, Zenon DEF Iterated
<1>5. ASSUME NEW i \in 1..n PROVE f[i] = {t.id : t \in Ready(tasks, f[i - 1])}
  <2>1. i - 1 \in 0..n
    BY <1>1
  <2>2. f[i - 1] \in S
    BY <2>1
  <2> QED BY <1>4, <2>2 DEF step
<1> HIDE DEF Rec
<1>6. Rec(f)
  <2>1. \A i \in 0..n : i # 0 => i \in 1..n
    BY <1>1
  <2>2. f[0] = {}
    BY <1>4 DEF none
  <2>3. \A i \in 0..n : f[i] = IF i = 0 THEN {} ELSE {t.id : t \in Ready(tasks, f[i - 1])}
    BY <1>5, <2>1, <2>2, Zenon
  <2>4. f = [i \in 0..n |-> f[i]]
    OBVIOUS
  <2> QED BY <2>3, <2>4, Zenon DEF Rec
<1>7. Resolved(tasks) = (CHOOSE h : Rec(h))[n]
  BY Zenon DEF Resolved, Rec
<1> DEFINE resolved == CHOOSE h : Rec(h)
<1>8. Rec(resolved) /\ Resolved(tasks) = resolved[n]
  BY <1>6, <1>7, Zenon
<1> HIDE DEF resolved
<1>9. \A i \in 0..n : resolved[i] =
        IF i = 0 THEN {} ELSE {t.id : t \in Ready(tasks, resolved[i - 1])}
  BY <1>8, Zenon DEF Rec
<1>10. /\ resolved[0] = {}
       /\ \A i \in 1..n : resolved[i] = {t.id : t \in Ready(tasks, resolved[i - 1])}
  <2>1. 0 \in 0..n /\ \A i \in 1..n : i \in 0..n /\ i # 0
    BY <1>1
  <2> QED BY <1>9, <2>1, Zenon
<1>11. Rounds(resolved, tasks)
  BY <1>8, <1>10, Zenon DEF Rounds
<1> QED BY <1>11

\* The ids of a plan by their places.
DistinctIds(tasks) == \A i, j \in DOMAIN tasks : tasks[i].id = tasks[j].id => i = j

Task == [id : Id, dependencies : SUBSET Id]

\* A plan's ids and the tasks that are ready.
LEMMA PlanFacts ==
  ASSUME NEW tasks \in Seq(Task)
  PROVE  /\ Len(tasks) \in Nat /\ DOMAIN tasks = 1..Len(tasks)
         /\ Ids(tasks) = {tasks[i].id : i \in 1..Len(tasks)}
         /\ \A X : {t.id : t \in Ready(tasks, X)} =
                    {tasks[i].id : i \in {j \in 1..Len(tasks) : tasks[j].dependencies \subseteq X}}
<1>1. Len(tasks) \in Nat /\ DOMAIN tasks = 1..Len(tasks)
  OBVIOUS
<1>2. ToSet(tasks) = {tasks[i] : i \in 1..Len(tasks)}
  BY <1>1 DEF ToSet
<1> QED BY <1>1, <1>2 DEF Ids, Ready

\* As many ids as tasks: no two tasks have the same.
LEMMA CountedIds ==
  ASSUME NEW tasks \in Seq(Task)
  PROVE  Cardinality(Ids(tasks)) = Len(tasks) <=> DistinctIds(tasks)
<1> DEFINE n == Len(tasks)
           f == [i \in 1..n |-> tasks[i].id]
<1>1. n \in Nat /\ DOMAIN tasks = 1..n /\ Ids(tasks) = {tasks[i].id : i \in 1..n}
  BY PlanFacts
<1> HIDE DEF n
<1>2. IsFiniteSet(1..n) /\ Cardinality(1..n) = n
  <2>1. 1 \in Int /\ n \in Int /\ (1 > n => n = 0) /\ n - 1 + 1 = n
    BY <1>1
  <2>2. IsFiniteSet(1..n) /\ Cardinality(1..n) = IF 1 > n THEN 0 ELSE n - 1 + 1
    BY <2>1, FS_Interval
  <2> QED BY <2>1, <2>2
<1>3. f \in Surjection(1..n, Ids(tasks))
  BY <1>1 DEF Surjection
<1>4. f \in Injection(1..n, Ids(tasks)) <=> DistinctIds(tasks)
  BY <1>1, <1>3 DEF Injection, Surjection, IsInjective, DistinctIds
<1>5. Cardinality(Ids(tasks)) = Cardinality(1..n) <=> f \in Injection(1..n, Ids(tasks))
  BY <1>2, <1>3, FS_Surjection, Zenon
<1> QED BY <1>2, <1>4, <1>5 DEF n

\* What can be carried out in some order is resolved: after n rounds the first n
\* tasks of the order are.
LEMMA OrderedIsResolved ==
  ASSUME NEW tasks \in Seq(Task), DistinctIds(tasks), HasOrder(tasks)
  PROVE  /\ \A i \in DOMAIN tasks : tasks[i].dependencies \subseteq Ids(tasks) \ {tasks[i].id}
         /\ Resolved(tasks) = Ids(tasks)
<1> DEFINE n == Len(tasks)
<1>1. /\ n \in Nat /\ DOMAIN tasks = 1..n /\ Ids(tasks) = {tasks[i].id : i \in 1..n}
      /\ \A X : {t.id : t \in Ready(tasks, X)} =
                 {tasks[i].id : i \in {j \in 1..n : tasks[j].dependencies \subseteq X}}
  BY PlanFacts
<1>2. PICK order \in [1..n -> 1..n] : IsInjective(order) /\ IsOrder(order, tasks)
  BY <1>1 DEF HasOrder
<1>3. ASSUME NEW i \in 1..n, NEW d \in tasks[i].dependencies
      PROVE  \E j \in 1..n : tasks[j].id = d /\ order[j] < order[i]
  BY <1>1, <1>2 DEF IsOrder
<1>4. ASSUME NEW i \in DOMAIN tasks
      PROVE  tasks[i].dependencies \subseteq Ids(tasks) \ {tasks[i].id}
  <2>1. ASSUME NEW d \in tasks[i].dependencies PROVE d \in Ids(tasks) /\ d # tasks[i].id
    <3>1. PICK j \in 1..n : tasks[j].id = d /\ order[j] < order[i]
      BY <1>1, <1>3
    <3>2. j # i
      BY <1>1, <1>2, <3>1
    <3> QED BY <1>1, <3>1, <3>2 DEF DistinctIds
  <2> QED BY <2>1
<1>5. PICK resolved : Rounds(resolved, tasks)
  BY <1>1, ResolvedRounds
<1>6. /\ Resolved(tasks) = resolved[n] /\ resolved[0] = {}
      /\ \A m \in 1..n : resolved[m] =
           {tasks[i].id : i \in {j \in 1..n : tasks[j].dependencies \subseteq resolved[m - 1]}}
  BY <1>1, <1>5 DEF Rounds
<1> HIDE DEF n
<1> DEFINE Done(m) == \A i \in 1..n : order[i] <= m => tasks[i].id \in resolved[m]
           T == {m \in 0..n : Done(m)}
<1>7. 0 \in T
  <2>1. \A i \in 1..n : ~(order[i] <= 0)
    BY <1>1, <1>2
  <2> QED BY <1>1, <2>1
<1>8. ASSUME NEW m \in 0..(n - 1), m \in T PROVE m + 1 \in T
  <2>1. m + 1 \in 1..n /\ (m + 1) - 1 = m /\ m + 1 \in 0..n
    BY <1>1
  <2>2. ASSUME NEW i \in 1..n, order[i] <= m + 1 PROVE tasks[i].id \in resolved[m + 1]
    <3>1. ASSUME NEW d \in tasks[i].dependencies PROVE d \in resolved[m]
      <4>1. PICK j \in 1..n : tasks[j].id = d /\ order[j] < order[i]
        BY <1>3
      <4>2. order[j] <= m
        BY <1>1, <1>2, <2>2, <4>1
      <4> QED BY <1>8, <4>1, <4>2
    <3>2. tasks[i].dependencies \subseteq resolved[(m + 1) - 1]
      BY <2>1, <3>1
    <3> QED BY <1>6, <2>1, <3>2
  <2> QED BY <2>1, <2>2
<1> HIDE DEF T
<1>9. \A m \in 0..n : m \in T
  BY <1>1, <1>7, <1>8, Induction
<1>10. Done(n)
  <2>1. n \in 0..n
    BY <1>1
  <2> QED BY <1>9, <2>1 DEF T
<1>11. \A i \in 1..n : tasks[i].id \in resolved[n]
  BY <1>1, <1>2, <1>10
<1>12. resolved[n] \subseteq Ids(tasks)
  <2>1. CASE n = 0
    BY <1>6, <2>1
  <2>2. CASE n # 0
    <3>1. n \in 1..n
      BY <1>1, <2>2
    <3> QED BY <1>1, <1>6, <3>1
  <2> QED BY <2>1, <2>2
<1>13. Resolved(tasks) = Ids(tasks)
  <2>1. Ids(tasks) \subseteq resolved[n]
    BY <1>1, <1>11
  <2> QED BY <1>6, <1>12, <2>1
<1> QED BY <1>4, <1>13, Zenon

\* What is resolved has an order: the tasks by the round that resolves them.
LEMMA ResolvedHasOrder ==
  ASSUME NEW tasks \in Seq(Task), DistinctIds(tasks), Resolved(tasks) = Ids(tasks)
  PROVE  HasOrder(tasks)
<1> DEFINE n == Len(tasks)
<1>1. /\ n \in Nat /\ DOMAIN tasks = 1..n /\ Ids(tasks) = {tasks[i].id : i \in 1..n}
      /\ \A X : {t.id : t \in Ready(tasks, X)} =
                 {tasks[i].id : i \in {j \in 1..n : tasks[j].dependencies \subseteq X}}
  BY PlanFacts
<1>2. PICK resolved : Rounds(resolved, tasks)
  BY <1>1, ResolvedRounds
<1>3. /\ Resolved(tasks) = resolved[n] /\ resolved[0] = {}
      /\ \A m \in 1..n : resolved[m] =
           {tasks[i].id : i \in {j \in 1..n : tasks[j].dependencies \subseteq resolved[m - 1]}}
  BY <1>1, <1>2 DEF Rounds
<1> HIDE DEF n
<1> DEFINE After(i) == {m \in Nat : m <= n /\ tasks[i].id \in resolved[m]}
           First(i, m) == m \in After(i) /\ \A k \in After(i) : m <= k
           rank == [i \in 1..n |-> CHOOSE m \in Nat : First(i, m)]
<1>4. ASSUME NEW i \in 1..n PROVE rank[i] \in Nat /\ First(i, rank[i])
  <2>1. n \in After(i) /\ After(i) \in SUBSET Nat
    BY <1>1, <1>3
  <2> HIDE DEF After
  <2>2. \E m \in Nat : First(i, m)
    BY <2>1, LeastNatural
  <2> HIDE DEF First
  <2> QED BY <2>2
<1> HIDE DEF rank
<1>5. rank \in [1..n -> Nat]
  BY <1>4 DEF rank
<1>6. PICK order : Ranks(order, rank, n)
  BY <1>1, <1>5, Ranking
<1>7. ASSUME NEW i \in 1..n, NEW d \in tasks[i].dependencies
      PROVE  \E j \in 1..n : tasks[j].id = d /\ rank[j] < rank[i]
  <2> DEFINE m == rank[i]
  <2>1. m \in Nat /\ m <= n /\ tasks[i].id \in resolved[m]
    BY <1>4
  <2> HIDE DEF m
  <2>2. m # 0
    BY <1>3, <2>1
  <2>3. m \in 1..n /\ m - 1 \in Nat /\ m - 1 <= n
    BY <1>1, <2>1, <2>2
  <2>4. PICK k \in 1..n : /\ tasks[k].id = tasks[i].id
                          /\ tasks[k].dependencies \subseteq resolved[m - 1]
    BY <1>3, <2>1, <2>3
  <2>5. d \in resolved[m - 1]
    BY <1>1, <2>4 DEF DistinctIds
  <2>6. m - 1 \in 1..n
    BY <1>3, <2>3, <2>5
  <2>7. PICK j \in 1..n : tasks[j].id = d
    BY <1>3, <2>5, <2>6
  <2>8. rank[j] <= m - 1
    <3>1. m - 1 \in After(j)
      BY <2>3, <2>5, <2>7
    <3> HIDE DEF After
    <3> QED BY <1>4, <3>1
  <2>9. rank[j] < rank[i]
    BY <1>4, <2>1, <2>8 DEF m
  <2> QED BY <2>7, <2>9
<1>8. IsOrder(order, tasks)
  BY <1>1, <1>6, <1>7 DEF IsOrder, Ranks
<1>9. order \in [DOMAIN tasks -> DOMAIN tasks] /\ IsInjective(order)
  BY <1>1, <1>6 DEF Ranks, IsInjective
<1> QED BY <1>8, <1>9 DEF HasOrder

\* The planner accepts exactly the plans that can be carried out, for every plan and
\* every bound on its tasks (planner.py).
THEOREM PlannerDecides == AcceptsExecutable
<1> SUFFICES ASSUME NEW tasks \in RawPlan
             PROVE  Accepted(tasks) <=> /\ tasks # <<>> /\ HasOrder(tasks)
                                        /\ Cardinality(Ids(tasks)) = Len(tasks)
  BY DEF AcceptsExecutable
<1>1. tasks \in Seq(Task)
  <2>1. PICK m \in 0..MaxTasks : tasks \in [1..m -> Task]
    BY DEF RawPlan, SeqOf, Task
  <2>2. m \in Nat
    BY TasksAssumption
  <2> QED BY <2>1, <2>2, SeqDef
<1>2. Cardinality(Ids(tasks)) = Len(tasks) <=> DistinctIds(tasks)
  BY <1>1, CountedIds
<1>3. IsInjective([i \in DOMAIN tasks |-> tasks[i].id]) <=> DistinctIds(tasks)
  BY DEF IsInjective, DistinctIds
<1>4. ASSUME Accepted(tasks) PROVE HasOrder(tasks) /\ DistinctIds(tasks) /\ tasks # <<>>
  BY <1>1, <1>3, <1>4, ResolvedHasOrder DEF Accepted
<1>5. ASSUME tasks # <<>>, HasOrder(tasks), DistinctIds(tasks) PROVE Accepted(tasks)
  BY <1>1, <1>3, <1>5, OrderedIsResolved DEF Accepted
<1> QED BY <1>2, <1>4, <1>5
-----------------------------------------------------------------------------
(* Requests *)

Slot == [index : Nat, pieces : Nat]

\* The fragments of the call of an index.
Fragments(sent, index) == {piece \in sent : piece[1] = index}

\* Each index that the stream has brought has one slot, with all its fragments.
Collects(slots, sent) ==
  /\ slots \in Seq(Slot)
  /\ \A piece \in sent : \E i \in DOMAIN slots : slots[i].index = piece[1]
  /\ \A i, j \in DOMAIN slots : slots[i].index = slots[j].index => i = j
  /\ \A i \in DOMAIN slots :
       /\ slots[i].pieces # 0
       /\ Fragments(sent, slots[i].index) =
            {<<slots[i].index, k>> : k \in 0..(slots[i].pieces - 1)}

InOrder(slots) == \A i, j \in DOMAIN slots : i < j => slots[i].index < slots[j].index

\* Before the request is accepted nothing has come; the last attempt is not slept over.
RequestInv(r) ==
  /\ DOMAIN r = {"at", "streamed", "attempt", "slots", "sent", "tokens"}
  /\ r.at \in {"none", "sending", "sleeping", "streaming", "answered", "failed"}
  /\ r.attempt \in 0..MaxRetries
  /\ r.at = "sleeping" => r.attempt < MaxRetries
  /\ r.tokens \subseteq {r.attempt}
  /\ Collects(r.slots, r.sent)
  /\ r.at \in {"none", "sending", "sleeping"} =>
       r.slots = <<>> /\ r.sent = {} /\ r.tokens = {}
  /\ r.at = "answered" => InOrder(r.slots)

RequestsInv ==
  /\ request = [c \in Client |-> request[c]]
  /\ \A c \in Client : RequestInv(request[c])

\* n numbers make n fragments.
LEMMA CountFragments ==
  ASSUME NEW x, NEW n \in Nat
  PROVE  /\ IsFiniteSet({<<x, k>> : k \in 0..(n - 1)})
         /\ Cardinality({<<x, k>> : k \in 0..(n - 1)}) = n
<1> DEFINE S == {<<x, k>> : k \in 0..(n - 1)}
           f == [k \in 1..n |-> <<x, k - 1>>]
<1>1. f \in [1..n -> S]
  OBVIOUS
<1>2. \A i, j \in 1..n : f[i] = f[j] => i = j
  OBVIOUS
<1>3. ASSUME NEW y \in S PROVE \E i \in 1..n : f[i] = y
  <2>1. PICK k \in 0..(n - 1) : y = <<x, k>>
    OBVIOUS
  <2>2. k + 1 \in 1..n /\ (k + 1) - 1 = k
    OBVIOUS
  <2> QED BY <2>1, <2>2
<1>4. ExistsBijection(1..n, S)
  <2> HIDE DEF f, S
  <2> QED BY <1>1, <1>2, <1>3
      DEF ExistsBijection, Bijection, Injection, Surjection, IsInjective
<1>5. IsFiniteSet(1..n)
  BY FS_Interval
<1> QED BY <1>4, <1>5, FS_CountingElements, FS_Bijection

\* The number of the next fragment is that of the fragments there are.
LEMMA Counted ==
  ASSUME NEW slots, NEW sent, Collects(slots, sent), NEW index
  PROVE  /\ \A i \in DOMAIN slots : slots[i].index = index =>
              Cardinality(Fragments(sent, index)) = slots[i].pieces
         /\ (\A i \in DOMAIN slots : slots[i].index # index) =>
              Fragments(sent, index) = {} /\ Cardinality(Fragments(sent, index)) = 0
<1>1. ASSUME NEW i \in DOMAIN slots, slots[i].index = index
      PROVE  Cardinality(Fragments(sent, index)) = slots[i].pieces
  <2>1. slots[i] \in Slot
    BY DEF Collects
  <2>2. slots[i].pieces \in Nat
    BY <2>1 DEF Slot
  <2> DEFINE m == slots[i].pieces
  <2>3. Fragments(sent, index) = {<<index, k>> : k \in 0..(m - 1)}
    BY <1>1 DEF Collects
  <2> HIDE DEF m
  <2>4. Cardinality({<<index, k>> : k \in 0..(m - 1)}) = m
    BY <2>2, CountFragments DEF m
  <2>5. Cardinality(Fragments(sent, index)) = m
    BY <2>3, <2>4
  <2> QED BY <2>5 DEF m
<1>2. ASSUME \A i \in DOMAIN slots : slots[i].index # index
      PROVE  Fragments(sent, index) = {} /\ Cardinality(Fragments(sent, index)) = 0
  <2>1. \A piece \in sent : piece[1] # index
    BY <1>2 DEF Collects
  <2>2. Fragments(sent, index) = {}
    BY <2>1 DEF Fragments
  <2> QED BY <2>2, FS_EmptySet
<1> QED BY <1>1, <1>2

\* Another fragment finds its slot, or opens it.
LEMMA CollectedCollects ==
  ASSUME NEW slots, NEW sent, Collects(slots, sent), NEW index \in Nat
  PROVE  Collects(Llm!Collected(slots, index),
                  sent \cup {<<index, Cardinality(Fragments(sent, index))>>})
<1> DEFINE n == Cardinality(Fragments(sent, index))
           more == sent \cup {<<index, n>>}
<1>1. /\ slots \in Seq(Slot) /\ Len(slots) \in Nat /\ DOMAIN slots = 1..Len(slots)
      /\ \A i \in DOMAIN slots : slots[i] \in Slot
  <2>1. slots \in Seq(Slot)
    BY DEF Collects
  <2> QED BY <2>1
<1>2. \A i \in DOMAIN slots : /\ slots[i].index \in Nat /\ slots[i].pieces \in Nat
                              /\ slots[i] = [index |-> slots[i].index, pieces |-> slots[i].pieces]
  BY <1>1 DEF Slot
<1>3. \A x : Fragments(more, x) =
               Fragments(sent, x) \cup (IF x = index THEN {<<index, n>>} ELSE {})
  BY DEF Fragments
<1>4. CASE \A i \in DOMAIN slots : slots[i].index # index
  <2> DEFINE slot == [index |-> index, pieces |-> 1]
             new == Append(slots, slot)
  <2>1. Llm!Collected(slots, index) = new
    BY <1>4 DEF Llm!Collected
  <2>2. slot \in Slot /\ slot.index = index /\ slot.pieces = 1
    BY DEF Slot
  <2> HIDE DEF slot
  <2>3. /\ new \in Seq(Slot) /\ DOMAIN new = 1..(Len(slots) + 1)
        /\ new[Len(slots) + 1] = slot /\ \A i \in 1..Len(slots) : new[i] = slots[i]
    <3>1. /\ new \in Seq(Slot) /\ Len(new) = Len(slots) + 1
          /\ new[Len(slots) + 1] = slot /\ \A i \in 1..Len(slots) : new[i] = slots[i]
      BY <1>1, <2>2, AppendProperties
    <3> HIDE DEF new
    <3> QED BY <3>1
  <2>4. n = 0 /\ Fragments(sent, index) = {}
    BY <1>4, Counted
  <2> HIDE DEF new, n, more
  <2>5. \A i \in 1..(Len(slots) + 1) : i # Len(slots) + 1 => i \in 1..Len(slots)
    BY <1>1
  <2>6. \A piece \in more : \E i \in DOMAIN new : new[i].index = piece[1]
    <3>1. ASSUME NEW piece \in sent PROVE \E i \in DOMAIN new : new[i].index = piece[1]
      <4>1. PICK i \in DOMAIN slots : slots[i].index = piece[1]
        BY DEF Collects
      <4>2. i \in DOMAIN new /\ new[i] = slots[i]
        BY <1>1, <2>3
      <4> QED BY <4>1, <4>2
    <3>2. Len(slots) + 1 \in DOMAIN new /\ new[Len(slots) + 1].index = <<index, n>>[1]
      BY <1>1, <2>2, <2>3
    <3> QED BY <3>1, <3>2 DEF more
  <2>7. \A i, j \in DOMAIN new : new[i].index = new[j].index => i = j
    BY <1>1, <1>4, <2>2, <2>3, <2>5 DEF Collects
  <2>8. ASSUME NEW i \in DOMAIN new
        PROVE  /\ new[i].pieces # 0
               /\ Fragments(more, new[i].index) =
                    {<<new[i].index, k>> : k \in 0..(new[i].pieces - 1)}
    <3>1. CASE i = Len(slots) + 1
      <4>1. new[i].index = index /\ new[i].pieces = 1
        BY <2>2, <2>3, <3>1
      <4>2. {<<index, k>> : k \in 0..(1 - 1)} = {<<index, 0>>}
        OBVIOUS
      <4> QED BY <1>3, <2>4, <4>1, <4>2
    <3>2. CASE i # Len(slots) + 1
      <4>1. i \in DOMAIN slots /\ new[i] = slots[i] /\ slots[i].index # index
        BY <1>1, <1>4, <2>3, <2>5, <3>2
      <4> QED BY <1>3, <4>1 DEF Collects
    <3> QED BY <3>1, <3>2
  <2>9. Collects(new, more)
    BY <2>3, <2>6, <2>7, <2>8 DEF Collects
  <2> QED BY <2>1, <2>9 DEF more, n
<1>5. CASE ~(\A i \in DOMAIN slots : slots[i].index # index)
  <2>1. PICK p \in DOMAIN slots : slots[p].index = index
    BY <1>5
  <2>2. n = slots[p].pieces
    BY <2>1, Counted
  <2> DEFINE new == [i \in DOMAIN slots |->
                       IF slots[i].index = index THEN [slots[i] EXCEPT !.pieces = @ + 1]
                       ELSE slots[i]]
  <2>3. Llm!Collected(slots, index) = new
    BY <1>5 DEF Llm!Collected
  <2>4. \A i \in DOMAIN slots : slots[i].index = index <=> i = p
    BY <2>1 DEF Collects
  <2>5. /\ DOMAIN new = DOMAIN slots
        /\ new[p] = [index |-> index, pieces |-> n + 1]
        /\ \A i \in DOMAIN slots : i # p => new[i] = slots[i]
    BY <1>2, <2>1, <2>2, <2>4
  <2> HIDE DEF new
  <2>6. \A i \in DOMAIN slots : new[i] \in Slot /\ new[i].index = slots[i].index
    <3>1. [index |-> index, pieces |-> n + 1] \in Slot
      BY <1>2, <2>1, <2>2 DEF Slot
    <3> QED BY <1>1, <2>1, <2>5, <3>1
  <2>7. new \in Seq(Slot)
    <3>1. new = [i \in 1..Len(slots) |-> new[i]]
      BY <1>1, <2>3, <1>5 DEF new
    <3> QED BY <1>1, <2>6, <3>1
  <2> HIDE DEF n, more
  <2>8. \A piece \in more : \E i \in DOMAIN new : new[i].index = piece[1]
    <3>1. ASSUME NEW piece \in sent PROVE \E i \in DOMAIN new : new[i].index = piece[1]
      <4>1. PICK i \in DOMAIN slots : slots[i].index = piece[1]
        BY DEF Collects
      <4> QED BY <2>5, <2>6, <4>1
    <3>2. new[p].index = <<index, n>>[1]
      BY <2>5
    <3> QED BY <2>1, <2>5, <3>1, <3>2 DEF more
  <2>9. \A i, j \in DOMAIN new : new[i].index = new[j].index => i = j
    BY <2>5, <2>6 DEF Collects
  <2>10. ASSUME NEW i \in DOMAIN new
         PROVE  /\ new[i].pieces # 0
                /\ Fragments(more, new[i].index) =
                     {<<new[i].index, k>> : k \in 0..(new[i].pieces - 1)}
    <3>1. CASE i = p
      <4>1. new[i].index = index /\ new[i].pieces = n + 1 /\ n \in Nat
        BY <1>2, <2>1, <2>2, <2>5, <3>1
      <4>2. Fragments(sent, index) = {<<index, k>> : k \in 0..(n - 1)}
        BY <2>1, <2>2 DEF Collects
      <4>3. {<<index, k>> : k \in 0..((n + 1) - 1)} =
              {<<index, k>> : k \in 0..(n - 1)} \cup {<<index, n>>}
        <5>1. \A k : k \in 0..((n + 1) - 1) <=> k \in 0..(n - 1) \/ k = n
          BY <4>1
        <5> QED BY <5>1
      <4> QED BY <1>3, <4>1, <4>2, <4>3
    <3>2. CASE i # p
      <4>1. new[i] = slots[i] /\ slots[i].index # index /\ i \in DOMAIN slots
        BY <2>4, <2>5, <3>2
      <4> QED BY <1>3, <4>1 DEF Collects
    <3> QED BY <3>1, <3>2
  <2>11. Collects(new, more)
    BY <2>7, <2>8, <2>9, <2>10 DEF Collects
  <2> QED BY <2>3, <2>11 DEF more, n
<1> QED BY <1>4, <1>5

\* sorted has the slots in the order of their indices.
Sorts(sorted, slots) ==
  /\ sorted \in [DOMAIN slots -> Llm!ToSet(slots)]
  /\ Llm!ToSet(sorted) = Llm!ToSet(slots)
  /\ InOrder(sorted)

\* Slots of different indices can be sorted.
LEMMA SlotsSort ==
  ASSUME NEW slots \in Seq(Slot),
         \A i, j \in DOMAIN slots : slots[i].index = slots[j].index => i = j
  PROVE  \E sorted : Sorts(sorted, slots)
<1> DEFINE n == Len(slots)
           rank == [i \in 1..n |-> slots[i].index]
<1>1. n \in Nat /\ DOMAIN slots = 1..n /\ \A i \in 1..n : slots[i] \in Slot
  OBVIOUS
<1>2. rank \in [1..n -> Nat] /\ \A i \in 1..n : rank[i] = slots[i].index
  BY <1>1 DEF Slot
<1> HIDE DEF n, rank
<1>3. PICK order : Ranks(order, rank, n)
  BY <1>1, <1>2, Ranking
<1> DEFINE place(k) == CHOOSE i \in 1..n : order[i] = k
           sorted == [k \in 1..n |-> slots[place(k)]]
<1>4. \A k \in 1..n : place(k) \in 1..n /\ order[place(k)] = k
  BY <1>3 DEF Ranks
<1>5. \A i \in 1..n : order[i] \in 1..n /\ place(order[i]) = i
  <2>1. ASSUME NEW i \in 1..n PROVE order[i] \in 1..n /\ place(order[i]) = i
    <3>1. order[i] \in 1..n
      BY <1>3 DEF Ranks
    <3>2. place(order[i]) \in 1..n /\ order[place(order[i])] = order[i]
      BY <1>4, <3>1
    <3> HIDE DEF place
    <3> QED BY <1>3, <3>1, <3>2 DEF Ranks
  <2> QED BY <2>1
<1> HIDE DEF place
<1>6. DOMAIN sorted = 1..n /\ \A k \in 1..n : sorted[k] = slots[place(k)]
  OBVIOUS
<1> HIDE DEF sorted
<1>7. Llm!ToSet(sorted) = Llm!ToSet(slots)
  <2>1. \A k \in DOMAIN sorted : \E i \in DOMAIN slots : sorted[k] = slots[i]
    BY <1>1, <1>4, <1>6
  <2>2. \A i \in DOMAIN slots : \E k \in DOMAIN sorted : sorted[k] = slots[i]
    BY <1>1, <1>5, <1>6
  <2> QED BY <2>1, <2>2 DEF Llm!ToSet
<1>8. sorted \in [DOMAIN slots -> Llm!ToSet(slots)]
  <2>1. \A k \in 1..n : sorted[k] \in Llm!ToSet(slots)
    BY <1>1, <1>4, <1>6 DEF Llm!ToSet
  <2>2. sorted = [k \in 1..n |-> sorted[k]]
    BY DEF sorted
  <2> QED BY <1>1, <2>1, <2>2
<1>9. ASSUME NEW i \in 1..n, NEW j \in 1..n, i < j
      PROVE  sorted[i].index < sorted[j].index
  <2>1. /\ place(i) \in 1..n /\ order[place(i)] = i
        /\ place(j) \in 1..n /\ order[place(j)] = j
    BY <1>4
  <2>2. /\ rank[place(i)] \in Nat /\ rank[place(j)] \in Nat
        /\ rank[place(i)] = sorted[i].index /\ rank[place(j)] = sorted[j].index
    BY <1>2, <1>6, <2>1
  <2>3. rank[place(i)] # rank[place(j)]
    BY <1>1, <1>2, <1>9, <2>1
  <2>4. ~(rank[place(j)] < rank[place(i)])
    <3>1. rank[place(j)] < rank[place(i)] => order[place(j)] < order[place(i)]
      BY <1>3, <2>1 DEF Ranks
    <3> QED BY <1>9, <2>1, <3>1
  <2>5. rank[place(i)] < rank[place(j)]
    BY <2>2, <2>3, <2>4
  <2> QED BY <2>2, <2>5
<1>10. InOrder(sorted)
  BY <1>6, <1>9 DEF InOrder
<1>11. Sorts(sorted, slots)
  BY <1>7, <1>8, <1>10 DEF Sorts
<1> QED BY <1>11

\* The slots that are handed over are those that were collected, by index.
LEMMA HandedOver ==
  ASSUME NEW slots, NEW sent, Collects(slots, sent)
  PROVE  Collects(Llm!ByIndex(slots), sent) /\ InOrder(Llm!ByIndex(slots))
<1> DEFINE handed == Llm!ByIndex(slots)
<1>1. slots \in Seq(Slot)
  BY DEF Collects
<1>2. /\ DOMAIN slots = 1..Len(slots) /\ Len(slots) \in Nat
      /\ \A i \in DOMAIN slots : slots[i] \in Slot
  BY <1>1
<1>3. PICK sorted : Sorts(sorted, slots)
  BY <1>1, SlotsSort DEF Collects
<1>4. Sorts(handed, slots)
  BY <1>3 DEF Sorts, InOrder, Llm!ByIndex
<1> HIDE DEF handed
<1>5. handed \in [DOMAIN slots -> Llm!ToSet(slots)] /\ DOMAIN handed = DOMAIN slots
  BY <1>4 DEF Sorts
<1>6. \A k \in DOMAIN handed : \E i \in DOMAIN slots : handed[k] = slots[i]
  BY <1>5 DEF Llm!ToSet
<1>7. \A i \in DOMAIN slots : \E k \in DOMAIN handed : handed[k] = slots[i]
  BY <1>4 DEF Sorts, Llm!ToSet
<1>8. handed \in Seq(Slot)
  <2>1. \A x \in Llm!ToSet(slots) : x \in Slot
    BY <1>2 DEF Llm!ToSet
  <2>2. handed \in [1..Len(slots) -> Slot]
    BY <1>2, <1>5, <2>1
  <2> QED BY <1>2, <2>2
<1>9. \A k \in DOMAIN handed : handed[k].index \in Nat
  BY <1>2, <1>6 DEF Slot
<1>10. ASSUME NEW i \in DOMAIN handed, NEW j \in DOMAIN handed, i # j
       PROVE  handed[i].index # handed[j].index
  <2>1. i < j \/ j < i
    BY <1>2, <1>5, <1>10
  <2>2. handed[i].index < handed[j].index \/ handed[j].index < handed[i].index
    BY <1>4, <2>1 DEF Sorts, InOrder
  <2> QED BY <1>9, <2>2
<1>11. \A piece \in sent : \E k \in DOMAIN handed : handed[k].index = piece[1]
  <2>1. ASSUME NEW piece \in sent PROVE \E k \in DOMAIN handed : handed[k].index = piece[1]
    <3>1. PICK i \in DOMAIN slots : slots[i].index = piece[1]
      BY DEF Collects
    <3>2. PICK k \in DOMAIN handed : handed[k] = slots[i]
      BY <1>7
    <3> QED BY <3>1, <3>2
  <2> QED BY <2>1
<1>12. ASSUME NEW k \in DOMAIN handed
       PROVE  /\ handed[k].pieces # 0
              /\ Fragments(sent, handed[k].index) =
                   {<<handed[k].index, m>> : m \in 0..(handed[k].pieces - 1)}
  <2>1. PICK i \in DOMAIN slots : handed[k] = slots[i]
    BY <1>6
  <2>2. /\ slots[i].pieces # 0
        /\ Fragments(sent, slots[i].index) =
             {<<slots[i].index, m>> : m \in 0..(slots[i].pieces - 1)}
    BY DEF Collects
  <2> QED BY <2>1, <2>2
<1>13. Collects(handed, sent)
  BY <1>8, <1>10, <1>11, <1>12 DEF Collects
<1>14. InOrder(handed)
  BY <1>4 DEF Sorts
<1> QED BY <1>13, <1>14 DEF handed

\* A request that is new, or that nobody awaits.
LEMMA NewRequest ==
  /\ RequestInv(Llm!NoRequest)
  /\ \A streamed : RequestInv([Llm!NoRequest EXCEPT !.at = "sending", !.streamed = streamed])
<1>1. Collects(<<>>, {}) /\ InOrder(<<>>)
  BY DEF Collects, InOrder, Fragments
<1>2. MaxRetries \in Nat
  BY LeasedAssumption
<1>3. Llm!NoRequest = [at |-> "none", streamed |-> FALSE, attempt |-> 0, slots |-> <<>>,
                       sent |-> {}, tokens |-> {}]
  BY DEF Llm!NoRequest
<1>4. ASSUME NEW r, DOMAIN r = DOMAIN Llm!NoRequest, r.at \in {"none", "sending"},
             r.attempt = 0, r.slots = <<>>, r.sent = {}, r.tokens = {}
      PROVE  RequestInv(r)
  BY <1>1, <1>2, <1>3, <1>4 DEF RequestInv
<1>5. RequestInv(Llm!NoRequest)
  BY <1>3, <1>4
<1>6. ASSUME NEW streamed
      PROVE  RequestInv([Llm!NoRequest EXCEPT !.at = "sending", !.streamed = streamed])
  <2> DEFINE r == [Llm!NoRequest EXCEPT !.at = "sending", !.streamed = streamed]
  <2>1. /\ DOMAIN r = DOMAIN Llm!NoRequest /\ r.at = "sending"
        /\ r.attempt = 0 /\ r.slots = <<>> /\ r.sent = {} /\ r.tokens = {}
    BY <1>3
  <2> HIDE DEF r
  <2>2. RequestInv(r)
    BY <1>4, <2>1
  <2> QED BY <2>2 DEF r
<1> QED BY <1>5, <1>6

\* A request comes further by itself.
LEMMA Moved ==
  ASSUME NEW r, RequestInv(r),
         NEW at \in {"sleeping", "streaming", "answered", "failed"},
         at = "sleeping" => r.at = "sending" /\ r.attempt < MaxRetries,
         at = "answered" => InOrder(r.slots)
  PROVE  RequestInv([r EXCEPT !.at = at])
<1> DEFINE moved == [r EXCEPT !.at = at]
<1>1. /\ DOMAIN moved = DOMAIN r /\ moved.at = at /\ moved.attempt = r.attempt
      /\ moved.slots = r.slots /\ moved.sent = r.sent /\ moved.tokens = r.tokens
  BY DEF RequestInv
<1> HIDE DEF moved
<1>2. RequestInv(moved)
  BY <1>1 DEF RequestInv
<1> QED BY <1>2 DEF moved

\* The step of a request leaves the others alone.
LEMMA OneRequest ==
  ASSUME RequestsInv, NEW c \in Client, NEW r, RequestInv(r),
         request' = [request EXCEPT ![c] = r]
  PROVE  RequestsInv'
<1>1. request' = [d \in Client |-> request'[d]]
  BY DEF RequestsInv
<1>2. \A d \in Client : RequestInv(request'[d])
  BY DEF RequestsInv
<1> QED BY <1>1, <1>2 DEF RequestsInv

\* What a request goes through without its caller.
LEMMA Exchanged ==
  ASSUME RequestsInv, NEW c \in Client, Llm!Exchange(c)
  PROVE  RequestsInv'
<1> DEFINE r == request[c]
<1>1. RequestInv(r) /\ request = [d \in Client |-> request[d]]
  BY DEF RequestsInv
<1>2. r.slots = <<>> => InOrder(r.slots)
  BY DEF InOrder
<1>3. CASE Llm!Accepted(c)
  <2> DEFINE to == IF r.streamed THEN "streaming" ELSE "answered"
  <2>1. r.at = "sending" /\ request' = [request EXCEPT ![c] = [r EXCEPT !.at = to]]
    BY <1>1, <1>3 DEF Llm!Accepted, Llm!At, Llm!Becomes
  <2>2. r.slots = <<>>
    BY <1>1, <2>1 DEF RequestInv
  <2>3. to \in {"streaming", "answered"}
    OBVIOUS
  <2> HIDE DEF to
  <2>4. RequestInv([r EXCEPT !.at = to])
    BY <1>1, <1>2, <2>2, <2>3, Moved
  <2> QED BY <2>1, <2>4, OneRequest
<1>4. ASSUME NEW error, Llm!Rejected(c, error) PROVE RequestsInv'
  <2> DEFINE to == IF Llm!Retries(error, r.attempt) THEN "sleeping" ELSE "failed"
  <2>1. r.at = "sending" /\ request' = [request EXCEPT ![c] = [r EXCEPT !.at = to]]
    BY <1>1, <1>4 DEF Llm!Rejected, Llm!At, Llm!Becomes
  <2>2. to \in {"sleeping", "failed"} /\ (to = "sleeping" => r.attempt < MaxRetries)
    BY DEF Llm!Retries
  <2> HIDE DEF to
  <2>3. RequestInv([r EXCEPT !.at = to])
    BY <1>1, <2>1, <2>2, Moved
  <2> QED BY <2>1, <2>3, OneRequest
<1>5. CASE Llm!Slept(c)
  <2>1. r.at = "sleeping" /\ r.attempt < MaxRetries
    BY <1>1, <1>5 DEF Llm!Slept, Llm!At, RequestInv
  <2> DEFINE again == [r EXCEPT !.at = "sending", !.attempt = @ + 1]
  <2>2. request' = [request EXCEPT ![c] = again]
    BY <1>1, <1>5, <2>1 DEF Llm!Slept
  <2>3. /\ DOMAIN again = DOMAIN r /\ again.at = "sending" /\ again.attempt = r.attempt + 1
        /\ again.slots = r.slots /\ again.sent = r.sent /\ again.tokens = r.tokens
    BY <1>1 DEF RequestInv
  <2>4. r.attempt + 1 \in 0..MaxRetries
    BY <1>1, <2>1, LeasedAssumption DEF RequestInv
  <2>5. r.tokens = {} /\ r.slots = <<>> /\ r.sent = {} /\ Collects(r.slots, r.sent)
    BY <1>1, <2>1 DEF RequestInv
  <2> HIDE DEF again
  <2>6. RequestInv(again)
    BY <1>1, <2>3, <2>4, <2>5 DEF RequestInv
  <2> QED BY <2>2, <2>6, OneRequest
<1>6. CASE Llm!Finish(c)
  <2> DEFINE whole == [r EXCEPT !.at = "answered", !.slots = Llm!ByIndex(@)]
  <2>1. r.at = "streaming" /\ request' = [request EXCEPT ![c] = whole]
    BY <1>1, <1>6 DEF Llm!Finish, Llm!At
  <2>2. /\ DOMAIN whole = DOMAIN r /\ whole.at = "answered" /\ whole.attempt = r.attempt
        /\ whole.slots = Llm!ByIndex(r.slots) /\ whole.sent = r.sent
        /\ whole.tokens = r.tokens
    BY <1>1 DEF RequestInv
  <2>3. Collects(Llm!ByIndex(r.slots), r.sent) /\ InOrder(Llm!ByIndex(r.slots))
    BY <1>1, HandedOver DEF RequestInv
  <2> HIDE DEF whole
  <2>4. RequestInv(whole)
    BY <1>1, <2>2, <2>3 DEF RequestInv
  <2> QED BY <2>1, <2>4, OneRequest
<1>7. CASE Llm!Broken(c)
  <2>1. request' = [request EXCEPT ![c] = [r EXCEPT !.at = "failed"]]
    BY <1>1, <1>7 DEF Llm!Broken, Llm!Becomes
  <2>2. RequestInv([r EXCEPT !.at = "failed"])
    BY <1>1, Moved
  <2> QED BY <2>1, <2>2, OneRequest
<1> QED BY <1>3, <1>4, <1>5, <1>6, <1>7 DEF Llm!Exchange

\* LlmClient counts as FiniteSets does.
LEMMA SameCount == \A S : Llm!Cardinality(S) = Cardinality(S)
BY DEF Llm!Cardinality, Cardinality

\* What the stream brings.
LEMMA Received ==
  ASSUME RequestsInv, NEW c \in Client, Llm!Receive(c)
  PROVE  RequestsInv'
<1> DEFINE r == request[c]
<1>1. RequestInv(r) /\ request = [d \in Client |-> request[d]]
  BY DEF RequestsInv
<1>2. CASE Llm!Token(c)
  <2> DEFINE more == [r EXCEPT !.tokens = @ \cup {r.attempt}]
  <2>1. r.at = "streaming" /\ request' = [request EXCEPT ![c] = more]
    BY <1>1, <1>2 DEF Llm!Token, Llm!At
  <2>2. /\ DOMAIN more = DOMAIN r /\ more.at = r.at /\ more.attempt = r.attempt
        /\ more.slots = r.slots /\ more.sent = r.sent
        /\ more.tokens = r.tokens \cup {r.attempt}
    BY <1>1 DEF RequestInv
  <2> HIDE DEF more
  <2>3. RequestInv(more)
    BY <1>1, <2>1, <2>2 DEF RequestInv
  <2> QED BY <2>1, <2>3, OneRequest
<1>3. ASSUME NEW index \in DOMAIN Pieces[c], Llm!Fragment(c, index) PROVE RequestsInv'
  <2> DEFINE sent == r.sent \cup {<<index, Cardinality(Fragments(r.sent, index))>>}
             slots == Llm!Collected(r.slots, index)
             more == [r EXCEPT !.slots = slots, !.sent = sent]
  <2>1. Llm!SentOf(c, index) = Fragments(r.sent, index)
    BY DEF Llm!SentOf, Fragments
  <2>2. /\ r.at = "streaming"
        /\ request' = [request EXCEPT
             ![c].slots = Llm!Collected(@, index),
             ![c].sent = @ \cup {<<index, Llm!Cardinality(Llm!SentOf(c, index))>>}]
    BY <1>3, Zenon DEF Llm!Fragment, Llm!At
  <2>3. request' = [request EXCEPT ![c] = more]
    BY <1>1, <2>1, <2>2, SameCount
  <2>4. index \in Nat
    <3>1. Pieces[c] \in Seq(Nat)
      BY LeasedAssumption
    <3>2. DOMAIN Pieces[c] = 1..Len(Pieces[c])
      BY <3>1
    <3> QED BY <1>3, <3>2
  <2>5. Collects(slots, sent)
    BY <1>1, <2>4, CollectedCollects DEF RequestInv
  <2> HIDE DEF slots, sent
  <2>6. /\ DOMAIN more = DOMAIN r /\ more.at = r.at /\ more.attempt = r.attempt
        /\ more.slots = slots /\ more.sent = sent /\ more.tokens = r.tokens
    BY <1>1 DEF RequestInv
  <2> HIDE DEF more
  <2>7. RequestInv(more)
    BY <1>1, <2>2, <2>5, <2>6 DEF RequestInv
  <2> QED BY <2>3, <2>7, OneRequest
<1> QED BY <1>2, <1>3 DEF Llm!Receive

\* Every step of a run keeps what is known of the requests.
LEMMA RequestsStep == RequestsInv /\ [Next]_vars => RequestsInv'
<1> SUFFICES ASSUME RequestsInv, [Next]_vars PROVE RequestsInv'
  OBVIOUS
<1>1. ASSUME UNCHANGED request PROVE RequestsInv'
  BY <1>1 DEF RequestsInv
<1>2. ASSUME NEW c \in Client, Forget(c) PROVE RequestsInv'
  BY <1>2, NewRequest, OneRequest DEF Forget
<1>3. ASSUME NEW c \in Client, NEW streamed, Llm!Send(c, streamed) PROVE RequestsInv'
  BY <1>3, NewRequest, OneRequest DEF Llm!Send
<1>4. ASSUME NEW c \in Client, NEW s \in Session, Enter(c, s) PROVE RequestsInv'
  BY <1>3, <1>4 DEF Enter
<1>5. ASSUME NEW c \in Client, Advance(c) PROVE RequestsInv'
  <2>1. CASE Planned(c)
    BY <1>2, <1>3, <2>1 DEF Planned
  <2>2. CASE RequestFailed(c) \/ Answered(c) \/ Execute(c)
    BY <1>2, <2>2 DEF RequestFailed, Answered, Execute
  <2>3. CASE Executed(c)
    BY <1>1, <1>3, <2>3 DEF Executed
  <2>4. CASE Leave(c) \/ (Tools!Submit(c) /\ UNCHANGED <<holder, request, runVars>>)
    BY <1>1, <2>4 DEF Leave
  <2>5. CASE Llm!Exchange(c)
    BY <2>5, Exchanged
  <2> QED BY <1>5, <2>1, <2>2, <2>3, <2>4, <2>5 DEF Advance
<1>6. ASSUME NEW c \in Client, PlannerTimeout(c) \/ Cancel(c) PROVE RequestsInv'
  BY <1>2, <1>6 DEF PlannerTimeout, Cancel
<1>7. ASSUME NEW c \in Client, Llm!Receive(c) PROVE RequestsInv'
  BY <1>7, Received
<1>8. ASSUME NEW t \in Thread, Work(t) PROVE RequestsInv'
  BY <1>1, <1>8 DEF Work
<1>9. CASE UNCHANGED vars
  BY <1>1, <1>9 DEF vars
<1> QED BY <1>4, <1>5, <1>6, <1>7, <1>8, <1>9 DEF Next

\* What is known of the requests holds throughout (llm/client.py).
THEOREM RequestsHold == Spec => []RequestsInv
<1>1. Init => RequestsInv
  <2>1. ASSUME Init PROVE RequestsInv
    <3>1. request = [c \in Client |-> Llm!NoRequest]
      BY <2>1 DEF Init, Llm!InitLlm
    <3> QED BY <3>1, NewRequest DEF RequestsInv
  <2> QED BY <2>1
<1> QED BY <1>1, RequestsStep, PTL DEF Spec

\* No request comes to its end with neither an answer nor an exception, whatever the
\* number of retries: the loop's last attempt never sleeps (llm/client.py).
THEOREM NeverEmpty == Spec => []NeverEmptyHanded
<1>1. RequestsInv => NeverEmptyHanded
  BY DEF RequestsInv, RequestInv, NeverEmptyHanded, Llm!NeverEmptyHanded, Llm!At
<1> QED BY <1>1, RequestsHold, PTL

\* The slots have the indices that were sent, with the number of their fragments.
LEMMA SlotsAreSent ==
  ASSUME NEW slots, NEW sent, Collects(slots, sent)
  PROVE  Llm!ToSet(slots) = {[index |-> piece[1],
                              pieces |-> Cardinality(Fragments(sent, piece[1]))] :
                             piece \in sent}
<1> DEFINE Whole(piece) == [index |-> piece[1],
                            pieces |-> Cardinality(Fragments(sent, piece[1]))]
<1>1. ASSUME NEW i \in DOMAIN slots
      PROVE  slots[i] = [index |-> slots[i].index,
                         pieces |-> Cardinality(Fragments(sent, slots[i].index))]
  <2>1. slots[i] \in Slot
    BY DEF Collects
  <2>2. slots[i] = [index |-> slots[i].index, pieces |-> slots[i].pieces]
    BY <2>1 DEF Slot
  <2>3. Cardinality(Fragments(sent, slots[i].index)) = slots[i].pieces
    BY Counted
  <2> QED BY <2>2, <2>3
<1>2. ASSUME NEW i \in DOMAIN slots PROVE \E piece \in sent : slots[i] = Whole(piece)
  <2>1. slots[i] \in Slot /\ slots[i].pieces # 0
    BY DEF Collects
  <2>2. 0 \in 0..(slots[i].pieces - 1)
    BY <2>1 DEF Slot
  <2> DEFINE piece == <<slots[i].index, 0>>
  <2>3. piece \in Fragments(sent, slots[i].index)
    BY <2>2 DEF Collects
  <2>4. piece \in sent /\ piece[1] = slots[i].index
    BY <2>3 DEF Fragments
  <2> QED BY <1>1, <2>4
<1>3. ASSUME NEW piece \in sent PROVE \E i \in DOMAIN slots : slots[i] = Whole(piece)
  <2>1. PICK i \in DOMAIN slots : slots[i].index = piece[1]
    BY DEF Collects
  <2> QED BY <1>1, <2>1
<1> QED BY <1>2, <1>3 DEF Llm!ToSet

\* Whatever a stream brings, in whatever order, and however many attempts it took: what
\* the caller has been shown and is given is that of the one accepted request, each call
\* with all its fragments, and the calls by their index (llm/client.py).
THEOREM AnswersWhole == Spec => []AnswerWhole
<1>1. ASSUME RequestsInv, NEW c \in Client
      PROVE  LET slots == request[c].slots IN
             /\ request[c].tokens \subseteq {request[c].attempt}
             /\ Llm!At(c, "answered") =>
                  /\ Llm!ToSet(slots) =
                       {[index |-> piece[1],
                         pieces |-> Llm!Cardinality(Llm!SentOf(c, piece[1]))] :
                        piece \in request[c].sent}
                  /\ \A i, j \in DOMAIN slots : i < j => slots[i].index < slots[j].index
  <2> DEFINE r == request[c]
  <2>1. RequestInv(r)
    BY <1>1 DEF RequestsInv
  <2>2. r.tokens \subseteq {r.attempt} /\ Collects(r.slots, r.sent)
        /\ (r.at = "answered" => InOrder(r.slots))
    BY <2>1 DEF RequestInv
  <2>3. \A index : Llm!SentOf(c, index) = Fragments(r.sent, index)
    BY DEF Llm!SentOf, Fragments
  <2>4. Llm!ToSet(r.slots) = {[index |-> piece[1],
                               pieces |-> Llm!Cardinality(Llm!SentOf(c, piece[1]))] :
                              piece \in r.sent}
    BY <2>2, <2>3, SlotsAreSent, SameCount
  <2> QED BY <2>2, <2>4 DEF Llm!At, InOrder
<1>2. RequestsInv => AnswerWhole
  BY <1>1 DEF AnswerWhole, Llm!AnswerWhole
<1> QED BY <1>2, RequestsHold, PTL

-----------------------------------------------------------------------------
(* What the executing model is given *)

\* A run with a planner leaves "planning" for the executing model with a plan that
\* was accepted, and keeps it.
PlanInv ==
  /\ plan \in [Client -> Proposal \cup {NoPlan}]
  /\ \A c \in Planning : stage[c] \in {"asking", "tools"} => Accepted(plan[c])

\* Only the planner's response changes the plan of a run on its way to the model.
LEMMA PlanStep == ASSUME TypeInv, PlanInv, [Next]_vars PROVE PlanInv'
<1> Planning \subseteq Client
  BY LeasedAssumption
<1> USE DEF TypeInv, PlanInv
<1>1. ASSUME NEW c \in Client, NEW s \in Session, Enter(c, s) PROVE PlanInv'
  BY <1>1 DEF Enter, Goes
<1>2. ASSUME NEW c \in Client, Planned(c) PROVE PlanInv'
  <2>1. PICK tasks \in Proposal :
          IF Accepted(tasks)
          THEN plan' = [plan EXCEPT ![c] = tasks] /\ stage' = [stage EXCEPT ![c] = "asking"]
          ELSE plan' = plan /\ stage' = [stage EXCEPT ![c] = "leaving"]
    BY <1>2 DEF Planned, Goes
  <2>2. CASE Accepted(tasks)
    BY <2>1, <2>2
  <2>3. CASE ~Accepted(tasks)
    BY <2>1, <2>3
  <2> QED BY <2>2, <2>3
<1>3. ASSUME NEW c \in Client,
             \/ PlannerTimeout(c) \/ RequestFailed(c) \/ Answered(c) \/ Cancel(c)
      PROVE  PlanInv'
  BY <1>3 DEF PlannerTimeout, RequestFailed, Answered, Cancel, Goes
<1>4. ASSUME NEW c \in Client, Execute(c) \/ Executed(c) PROVE PlanInv'
  BY <1>4 DEF Execute, Executed, Goes
<1>5. ASSUME NEW c \in Client, Leave(c) PROVE PlanInv'
  BY <1>5 DEF Leave, Goes
<1>6. CASE UNCHANGED runVars
  BY <1>6 DEF runVars
<1> QED
  BY <1>1, <1>2, <1>3, <1>4, <1>5, <1>6 DEF Next, Advance, Work, vars

\* No run with a planner asks its executing model without a plan, or with one that
\* cannot be carried out, for every set of responses its planner may get (planner.py,
\* runtime.py: the PlannerError of a refused plan ends the run first).
THEOREM PlansAreExecutable == Spec => []PlansExecutable
<1>1. Init => PlanInv
  BY LeasedAssumption DEF Init, PlanInv
<1>2. Spec => []PlanInv
  BY <1>1, PlanStep, Invariance, PTL DEF Spec, IInv
<1>3. PlanInv => PlansExecutable
  <2> SUFFICES ASSUME PlanInv, NEW c \in Planning, stage[c] \in {"asking", "tools"}
               PROVE  /\ plan[c] # NoPlan
                      /\ Cardinality(Ids(plan[c])) = Len(plan[c]) /\ HasOrder(plan[c])
    BY DEF PlansExecutable
  <2>1. Accepted(plan[c])
    BY DEF PlanInv
  <2>2. plan[c] # NoPlan
    BY <2>1 DEF Accepted, NoPlan
  <2>3. plan[c] \in RawPlan
    BY <2>2, LeasedAssumption DEF PlanInv
  <2> QED BY <2>1, <2>2, <2>3, PlannerDecides DEF AcceptsExecutable
<1> QED BY <1>2, <1>3, PTL
=============================================================================
