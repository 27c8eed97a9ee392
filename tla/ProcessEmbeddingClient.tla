------------------------ MODULE ProcessEmbeddingClient ------------------------
(***************************************************************************)
(* rag/process_embeddings.py and rag/embedding_worker.py: calls of start,  *)
(* embed_batch and aclose share one worker process under an operation      *)
(* lock.  A worker is named by the generation it was started with.         *)
(*                                                                         *)
(* A step of a call runs from one suspension to the next.  A call that     *)
(* waits for the lock, the worker or its death can time out or be          *)
(* cancelled; the worker can crash, hang or answer garbage at any time,    *)
(* and outlive a SIGKILL for longer than the shutdown timeout.             *)
(***************************************************************************)
EXTENDS Integers, Sequences, SequencesExt, FiniteSets

CONSTANTS Call,    \* calls of the client, each made once
          NoCall   \* nobody: the owner of a free lock, the addressee of garbage

ASSUME ClientAssumption == IsFiniteSet(Call) /\ NoCall \notin Call

Op == {"start", "embed", "invalid", "close"}  \* invalid: texts EmbeddingRequest rejects

Generation == 1..Cardinality(Call)            \* a call starts at most one worker

VARIABLES owner,           \* holder of _operation_lock
          state,           \* _state
          closed,          \* _closed
          closeRequested,  \* _close_requested
          generation,      \* _generation
          process,         \* _process: a generation, or 0 for None
          op, pc,          \* each call: what it does and where it is suspended
          target,          \* the process an interrupting aclose waits for
          outcome,         \* how the call ended
          life,            \* each worker: absent, loading, serving, dead, reaped
          killed,          \* workers sent SIGKILL
          eof,             \* workers whose stdin the client closed
          stdin, stdout    \* each worker's pipes

clientVars == <<owner, state, closed, closeRequested, generation, process>>
callVars == <<op, pc, target, outcome>>
workerVars == <<life, killed, eof, stdin, stdout>>
vars == <<clientVars, callVars, workerVars>>

Message == [kind : {"ready", "result", "failure", "garbage"}, to : Call \cup {NoCall}]

Working == {"spawn", "hello", "exchange"}
Killing == {"killRestart", "killFail", "killCancel", "killClose"}
Locking == {"lock", "close1", "close2"}
Locked == Working \cup Killing \cup {"flush", "drain"}

Init ==
  /\ owner = NoCall /\ state = "NEW" /\ closed = FALSE /\ closeRequested = FALSE
  /\ generation = 0 /\ process = 0
  /\ op = [c \in Call |-> "none"]
  /\ pc = [c \in Call |-> "new"]
  /\ target = [c \in Call |-> 0]
  /\ outcome = [c \in Call |-> "none"]
  /\ life = [g \in Generation |-> "absent"]
  /\ killed = {} /\ eof = {}
  /\ stdin = [g \in Generation |-> <<>>]
  /\ stdout = [g \in Generation |-> <<>>]
-----------------------------------------------------------------------------
(* What the steps of a call are made of *)

\* The process object's returncode is None.
Running(g) == g # 0 /\ life[g] # "reaped"

At(c, label) == pc' = [pc EXCEPT ![c] = label] /\ UNCHANGED <<op, outcome>>

Ended(c, result) ==
  /\ pc' = [pc EXCEPT ![c] = "done"]
  /\ outcome' = [outcome EXCEPT ![c] = result]
  /\ UNCHANGED op

\* The end of a call that holds the lock: its finally block releases it.
Return(c, result) == owner' = NoCall /\ Ended(c, result)

\* A plausible bug: a client that is closing still serves.
NeverRefuses == FALSE

\* _ensure_open raises.
Refused == closed \/ closeRequested

\* The lock is held and the worker READY: start is over, embed_batch sends.
Proceed(c) ==
  IF op[c] = "embed"
  THEN /\ state' = "BUSY"
       /\ stdin' = [stdin EXCEPT ![process] = IF life[process] = "serving" THEN Append(@, c) ELSE @]
       /\ owner' = c
       /\ At(c, "exchange")
  ELSE /\ state' = "READY"
       /\ Return(c, IF op[c] = "start" THEN "ok" ELSE "failed")
       /\ UNCHANGED stdin

\* A plausible bug: a restart counts the generation twice.
BeginSpawnTwice(c) ==
  /\ generation' = generation + 2
  /\ state' = "STARTING"
  /\ owner' = c
  /\ At(c, "spawn")

BeginSpawn(c) ==
  /\ generation' = generation + 1
  /\ state' = "STARTING"
  /\ owner' = c
  /\ At(c, "spawn")

\* A plausible bug: the failed exchange leaves its worker alone.
AbandonWorker(c, label) ==
  /\ state' = "READY"
  /\ Return(c, "failed")
  /\ UNCHANGED <<process, killed>>

\* _stop_process_locked(force=True) of a failed operation, and _state = NEW.
\* A worker already reaped is let go at once; one still running is killed and
\* awaited at label.
ForceStop(c, label) ==
  IF Running(process)
  THEN /\ killed' = killed \cup {process}
       /\ At(c, label)
       /\ UNCHANGED <<owner, state, process>>
  ELSE /\ process' = 0
       /\ state' = "NEW"
       /\ Return(c, "failed")
       /\ UNCHANGED killed
-----------------------------------------------------------------------------
(* start and embed_batch *)

Begin(c) ==
  /\ pc[c] = "new"
  /\ \E o \in Op \ {"close"} : op' = [op EXCEPT ![c] = o]
  /\ pc' = [pc EXCEPT ![c] = "lock"]
  /\ UNCHANGED <<clientVars, target, outcome, workerVars>>

\* The lock is acquired and _ensure_open passes or raises; then
\* _ensure_started_locked up to its first suspension.
EnterRefused(c) ==
  /\ pc[c] = "lock" /\ owner = NoCall
  /\ Refused
  /\ Ended(c, "failed")
  /\ UNCHANGED <<clientVars, target, workerVars>>

EnterReady(c) ==
  /\ pc[c] = "lock" /\ owner = NoCall
  /\ ~Refused
  /\ state = "READY" /\ Running(process)
  /\ UNCHANGED process
  /\ Proceed(c)
  /\ UNCHANGED <<closed, closeRequested, generation, target, life, killed, eof, stdout>>

EnterStale(c) ==
  /\ pc[c] = "lock" /\ owner = NoCall
  /\ ~Refused
  /\ state # "READY" /\ Running(process)
  /\ killed' = killed \cup {process}
  /\ owner' = c
  /\ At(c, "killRestart")
  /\ UNCHANGED <<state, closed, closeRequested, generation, process, target, life, eof, stdin, stdout>>

EnterCold(c) ==
  /\ pc[c] = "lock" /\ owner = NoCall
  /\ ~Refused
  /\ ~Running(process)
  /\ process' = 0
  /\ BeginSpawn(c)
  /\ UNCHANGED <<closed, closeRequested, target, workerVars>>

\* create_subprocess_exec returns the new worker, or raises.
Spawned(c) ==
  /\ pc[c] = "spawn"
  /\ process' = generation
  /\ life' = [life EXCEPT ![generation] = "loading"]
  /\ At(c, "hello")
  /\ UNCHANGED <<owner, state, closed, closeRequested, generation, target, killed, eof, stdin, stdout>>

SpawnFailed(c) ==
  /\ pc[c] = "spawn"
  /\ ForceStop(c, "killFail")
  /\ UNCHANGED <<closed, closeRequested, generation, target, life, eof, stdin, stdout>>

\* The first line of the worker: READY of this generation and model, or not.
Hello(c) ==
  /\ pc[c] = "hello" /\ stdout[process] # <<>>
  /\ stdout' = [stdout EXCEPT ![process] = Tail(@)]
  /\ IF Head(stdout[process]).kind = "ready"
     THEN Proceed(c) /\ UNCHANGED <<process, killed>>
     ELSE ForceStop(c, "killFail") /\ UNCHANGED stdin
  /\ UNCHANGED <<closed, closeRequested, generation, target, life, eof>>

\* The worker's answer: a result of this generation and request id, a
\* structured failure, or anything else (_fail_protocol_locked).
Answer(c) ==
  /\ pc[c] = "exchange" /\ stdout[process] # <<>>
  /\ stdout' = [stdout EXCEPT ![process] = Tail(@)]
  /\ LET message == Head(stdout[process]) IN
       IF message.kind = "failure" \/ (message.kind = "result" /\ message.to = c)
       THEN /\ state' = "READY"
            /\ Return(c, IF message.kind = "result" THEN "ok" ELSE "failed")
            /\ UNCHANGED <<process, killed>>
       ELSE ForceStop(c, "killFail")
  /\ UNCHANGED <<closed, closeRequested, generation, target, life, eof, stdin>>

\* readline meets the end of the pipe; process.wait reaps the worker.
WorkerGone(c) ==
  /\ pc[c] \in {"hello", "exchange"}
  /\ stdout[process] = <<>> /\ life[process] \in {"dead", "reaped"}
  /\ life' = [life EXCEPT ![process] = "reaped"]
  /\ process' = 0
  /\ state' = "NEW"
  /\ Return(c, "failed")
  /\ UNCHANGED <<closed, closeRequested, generation, target, killed, eof, stdin, stdout>>

\* wait_for around startup or inference expires.
OperationTimeout(c) ==
  /\ pc[c] \in Working
  /\ ForceStop(c, "killFail")
  /\ UNCHANGED <<closed, closeRequested, generation, target, life, eof, stdin, stdout>>

\* The call is cancelled there: the same stop, in a shielded task.
OperationCancel(c) ==
  /\ pc[c] \in Working
  /\ ForceStop(c, "killCancel")
  /\ UNCHANGED <<closed, closeRequested, generation, target, life, eof, stdin, stdout>>
-----------------------------------------------------------------------------
(* aclose *)

\* A plausible bug: aclose does not announce itself before it waits.
CloseBeginSilently(c) ==
  /\ pc[c] = "new"
  /\ op' = [op EXCEPT ![c] = "close"]
  /\ pc' = [pc EXCEPT ![c] = "close1"]
  /\ UNCHANGED <<clientVars, target, outcome, workerVars>>

CloseBegin(c) ==
  /\ pc[c] = "new"
  /\ op' = [op EXCEPT ![c] = "close"]
  /\ IF state = "CLOSED"
     THEN /\ pc' = [pc EXCEPT ![c] = "done"]
          /\ outcome' = [outcome EXCEPT ![c] = "ok"]
          /\ UNCHANGED closeRequested
     ELSE /\ pc' = [pc EXCEPT ![c] = "close1"]
          /\ closeRequested' = TRUE
          /\ UNCHANGED outcome
  /\ UNCHANGED <<owner, state, closed, generation, process, target, workerVars>>

\* The lock is acquired at the first or second try.
CloseEnter(c) ==
  /\ pc[c] \in {"close1", "close2"} /\ owner = NoCall
  /\ IF state = "CLOSED"
     THEN Ended(c, "ok") /\ UNCHANGED <<owner, state, closed, process, eof>>
     ELSE /\ closed' = TRUE
          /\ IF Running(process)
             THEN /\ state' = "STOPPING"
                  /\ eof' = eof \cup {process}
                  /\ owner' = c
                  /\ At(c, "flush")
                  /\ UNCHANGED process
             ELSE /\ process' = 0
                  /\ state' = "CLOSED"
                  /\ Ended(c, "ok")
                  /\ UNCHANGED <<owner, eof>>
  /\ UNCHANGED <<closeRequested, generation, target, life, killed, stdin, stdout>>

\* _interrupt_current_process_for_close, awaited at label; next follows when
\* there is no running process.
InterruptProcess(c, label, next) ==
  IF Running(process)
  THEN /\ killed' = killed \cup {process}
       /\ target' = [target EXCEPT ![c] = process]
       /\ At(c, label)
       /\ UNCHANGED owner
  ELSE next /\ UNCHANGED <<killed, target>>

\* The lock is not free in time: the worker of the current operation is killed.
CloseLockTimeout(c) ==
  /\ pc[c] = "close1"
  /\ InterruptProcess(c, "interrupt", At(c, "close2") /\ UNCHANGED owner)
  /\ UNCHANGED <<state, closed, closeRequested, generation, process, life, eof, stdin, stdout>>

InterruptDone(c) ==
  /\ pc[c] = "interrupt" /\ life[target[c]] = "reaped"
  /\ At(c, "close2")
  /\ UNCHANGED <<clientVars, target, workerVars>>

\* A plausible bug: the finally block releases a lock the call never acquired.
ReleaseAnyway(c) == owner' = NoCall

Release(c) == owner' = IF owner = c THEN NoCall ELSE owner

Withdraw(c) == Release(c) /\ Ended(c, "failed")

\* aclose is cancelled while it waits for the lock or for the worker; so is one
\* whose wait for the pipe an earlier, cancelled aclose has cancelled for good.
CloseCancel(c) ==
  /\ pc[c] \in {"close1", "close2", "flush", "drain", "killClose"}
  /\ state' = "STOPPING"
  /\ InterruptProcess(c, "interruptCancel", Withdraw(c))
  /\ UNCHANGED <<closed, closeRequested, generation, process, life, eof, stdin, stdout>>

CloseCancelled(c) ==
  /\ pc[c] = "interruptCancel" /\ life[target[c]] = "reaped"
  /\ Withdraw(c)
  /\ UNCHANGED <<state, closed, closeRequested, generation, process, target, workerVars>>

\* stdin.wait_closed returns: the pipe took what was left of a request, or broke.
\* No timer runs meanwhile.
Flushed(c) ==
  /\ pc[c] = "flush"
  /\ At(c, "drain")
  /\ UNCHANGED <<clientVars, target, workerVars>>

\* The worker exited at the end of its input.
Drained(c) ==
  /\ pc[c] = "drain" /\ ~Running(process)
  /\ process' = 0
  /\ state' = "CLOSED"
  /\ Return(c, "ok")
  /\ UNCHANGED <<closed, closeRequested, generation, target, workerVars>>

DrainTimeout(c) ==
  /\ pc[c] = "drain" /\ Running(process)
  /\ killed' = killed \cup {process}
  /\ At(c, "killClose")
  /\ UNCHANGED <<clientVars, target, life, eof, stdin, stdout>>
-----------------------------------------------------------------------------
(* Waiting for the lock and for a killed worker *)

Killed(c) ==
  /\ pc[c] \in Killing /\ ~Running(process)
  /\ process' = 0
  /\ CASE pc[c] = "killRestart" -> BeginSpawn(c)
       [] pc[c] = "killClose"   -> state' = "CLOSED" /\ Return(c, "ok") /\ UNCHANGED generation
       [] OTHER                 -> state' = "NEW" /\ Return(c, "failed") /\ UNCHANGED generation
  /\ UNCHANGED <<closed, closeRequested, target, workerVars>>

\* A plausible bug: a worker that does not die in time is forgotten.
KillTimeoutForgets(c) ==
  /\ pc[c] \in Killing /\ Running(process)
  /\ process' = 0
  /\ Return(c, "failed")
  /\ UNCHANGED <<state, closed, closeRequested, generation, target, workerVars>>

\* A plausible bug: the kill is awaited without wait_for.
NoKillTimeout(c) == FALSE

\* The worker outlives the kill: _stop_process_locked raises and keeps _process.
KillTimeout(c) ==
  /\ pc[c] \in Killing /\ Running(process)
  /\ Return(c, "failed")
  /\ UNCHANGED <<state, closed, closeRequested, generation, process, target, workerVars>>

\* Only the stops that are not shielded can be cancelled.
KillCancel(c) ==
  /\ pc[c] \in {"killRestart", "killFail"}
  /\ Return(c, "failed")
  /\ UNCHANGED <<state, closed, closeRequested, generation, process, target, workerVars>>

InterruptTimeout(c) ==
  /\ pc[c] \in {"interrupt", "interruptCancel"}
  /\ Withdraw(c)
  /\ UNCHANGED <<state, closed, closeRequested, generation, process, target, workerVars>>

\* No lock in time: an operation always gives up, aclose at its second try.
LockTimeout(c) ==
  /\ pc[c] \in {"lock", "close2"}
  /\ Ended(c, "failed")
  /\ UNCHANGED <<clientVars, target, workerVars>>

LockCancel(c) ==
  /\ pc[c] = "lock"
  /\ Ended(c, "failed")
  /\ UNCHANGED <<clientVars, target, workerVars>>
-----------------------------------------------------------------------------
(* The worker: serve *)

Emit(g, kind, to) == stdout' = [stdout EXCEPT ![g] = Append(@, [kind |-> kind, to |-> to])]

\* The model is loaded: READY, or a line of another protocol.
Load(g) ==
  /\ life[g] = "loading"
  /\ life' = [life EXCEPT ![g] = "serving"]
  /\ \E kind \in {"ready", "garbage"} : Emit(g, kind, NoCall)
  /\ UNCHANGED <<clientVars, callVars, killed, eof, stdin>>

\* The model loader raises: a startup failure is reported, then the exit.
LoadFails(g) ==
  /\ life[g] = "loading"
  /\ life' = [life EXCEPT ![g] = "dead"]
  /\ Emit(g, "failure", NoCall)
  /\ UNCHANGED <<clientVars, callVars, killed, eof, stdin>>

\* One request: a result, a structured failure, or an uncorrelated line.
Serve(g) ==
  /\ life[g] = "serving" /\ stdin[g] # <<>>
  /\ stdin' = [stdin EXCEPT ![g] = Tail(@)]
  /\ \/ \E kind \in {"result", "failure"} : Emit(g, kind, Head(stdin[g]))
     \/ Emit(g, "garbage", NoCall)
  /\ UNCHANGED <<clientVars, callVars, life, killed, eof>>

\* End of input, a crash, or a SIGKILL that takes effect.
Exit(g) ==
  /\ life[g] \in {"loading", "serving"}
  /\ life' = [life EXCEPT ![g] = "dead"]
  /\ UNCHANGED <<clientVars, callVars, killed, eof, stdin, stdout>>

\* The child watcher sets returncode.
Reap(g) ==
  /\ life[g] = "dead"
  /\ life' = [life EXCEPT ![g] = "reaped"]
  /\ UNCHANGED <<clientVars, callVars, killed, eof, stdin, stdout>>

Worker(g) == Load(g) \/ LoadFails(g) \/ Serve(g) \/ Exit(g) \/ Reap(g)
-----------------------------------------------------------------------------
Operation(c) ==
  \/ Begin(c)
  \/ EnterRefused(c) \/ EnterReady(c) \/ EnterStale(c) \/ EnterCold(c)
  \/ Spawned(c) \/ SpawnFailed(c) \/ Hello(c) \/ Answer(c) \/ WorkerGone(c)
  \/ Killed(c)

Close(c) ==
  \/ CloseBegin(c) \/ CloseEnter(c) \/ InterruptDone(c) \/ CloseCancelled(c)
  \/ Flushed(c) \/ Drained(c)

Cancellation(c) == OperationCancel(c) \/ CloseCancel(c) \/ KillCancel(c) \/ LockCancel(c)

Timer(c) ==
  \/ OperationTimeout(c) \/ KillTimeout(c) \/ LockTimeout(c)
  \/ CloseLockTimeout(c) \/ InterruptTimeout(c) \/ DrainTimeout(c)

Next ==
  \/ \E c \in Call : Operation(c) \/ Close(c) \/ Cancellation(c) \/ Timer(c)
  \/ \E g \in Generation : Worker(g)

Spec == Init /\ [][Next]_vars

\* Nothing is left to write to the worker, or nobody to read it.
Flushable(g) == stdin[g] = <<>> \/ life[g] \in {"dead", "reaped"}

\* Timers fire, and a call whose awaited process is gone, or whose pipe is
\* flushed, runs.  Nothing is assumed of the worker, nor of who gets the lock.
Fairness ==
  \A c \in Call :
    /\ WF_vars(Timer(c))
    /\ WF_vars(Killed(c) \/ Drained(c) \/ (Flushed(c) /\ Flushable(process)))

FairSpec == Spec /\ Fairness
-----------------------------------------------------------------------------
\* Every variable keeps its type.
TypeOK ==
  /\ owner \in Call \cup {NoCall}
  /\ state \in {"NEW", "STARTING", "READY", "BUSY", "STOPPING", "CLOSED"}
  /\ closed \in BOOLEAN /\ closeRequested \in BOOLEAN
  /\ generation \in 0..Cardinality(Call) /\ process \in 0..generation
  /\ op \in [Call -> Op \cup {"none"}]
  /\ pc \in [Call -> {"new", "interrupt", "interruptCancel", "done"} \cup Locking \cup Locked]
  /\ target \in [Call -> 0..generation]
  /\ outcome \in [Call -> {"none", "ok", "failed"}]
  /\ life \in [Generation -> {"absent", "loading", "serving", "dead", "reaped"}]
  /\ killed \subseteq Generation /\ eof \subseteq Generation
  /\ stdin \in [Generation -> Seq(Call)]
  /\ stdout \in [Generation -> Seq(Message)]

\* At most one worker process exists, and it is the one the client can still
\* stop: no timeout, cancellation or failed kill ever loses a process.
NoLostWorker ==
  \A g \in Generation :
    life[g] \in {"loading", "serving", "dead"} => process = g /\ generation = g

\* Every operation on the worker runs alone, whatever was cancelled or timed
\* out around it (_operation_lock and the acquired flags).
OperationsSerialized ==
  \A c \in Call : pc[c] \in Locked => owner = c

\* A worker handed to the next request has nothing of an earlier one in its
\* pipes, so no answer can reach a later call; what is there during an
\* exchange belongs to the call that exchanges.
OwnPipesOnly ==
  LET mine(c) == /\ Len(stdin[process]) + Len(stdout[process]) <= 1
                 /\ ToSet(stdin[process]) \subseteq {c}
                 /\ \A m \in ToSet(stdout[process]) : m.to \in {c, NoCall}
  IN  /\ \A c \in Call : pc[c] = "exchange" => mine(c)
      /\ state = "READY" /\ process # 0 => stdin[process] = <<>> /\ stdout[process] = <<>>

\* Once an aclose has returned normally there is no worker process, and none
\* is ever started again.
ClosedForGood ==
  (\E c \in Call : op[c] = "close" /\ outcome[c] = "ok")
    => /\ process = 0
       /\ \A g \in Generation : life[g] \in {"absent", "reaped"}
       /\ \A c \in Call : pc[c] \notin Locked

\* A worker that timed out, was cancelled or broke the protocol is never used
\* again: no request is written to a worker that was sent SIGKILL, except by
\* an operation an aclose interrupts.
KilledNotReused ==
  [][\A g \in Generation :
       Len(stdin'[g]) > Len(stdin[g]) /\ g \in killed => closeRequested]_vars

\* The one wait without a timer: an aclose waits for the rest of a request to be
\* written to a worker that was sent SIGKILL, and neither reads it nor dies.
Stuck(c) == pc[c] = "flush" /\ process \in killed /\ ~Flushable(process)

\* Every call ends, whatever the worker does and whoever holds the lock, except
\* an aclose that is stuck at stdin.wait_closed and stays so.
EveryCallEnds == \A c \in Call : pc[c] # "new" ~> (pc[c] = "done" \/ []Stuck(c))
=============================================================================
