--------------------- MODULE ProcessEmbeddingClientProofs ---------------------
(***************************************************************************)
(* The lock, the worker and the end of the embedding client, for any set   *)
(* of calls.  OperationsSerialized is inductive over well typed states; it *)
(* is what makes the others so, because only the holder of the lock        *)
(* replaces the process.  NoLostWorker needs that nothing is left running  *)
(* while a process is created (SpawnInv); ClosedForGood that the client is *)
(* marked closed before its worker is drained (ClosePhases).               *)
(*                                                                         *)
(* Then the pipes of the workers.  That a call reads only its own answer   *)
(* needs what each holder of the lock finds in them (ServingInv) and that  *)
(* a worker that is READY has empty ones (ReadyInv); that no killed worker *)
(* is used again, that only a close kills one that is in use (KilledInv).  *)
(***************************************************************************)
EXTENDS ProcessEmbeddingClient, FiniteSetTheorems, TLAPS

ClientTypes ==
  /\ owner \in Call \cup {NoCall}
  /\ state \in {"NEW", "STARTING", "READY", "BUSY", "STOPPING", "CLOSED"}
  /\ closed \in BOOLEAN /\ closeRequested \in BOOLEAN
  /\ generation \in Nat /\ process \in 0..generation

CallTypes ==
  /\ op \in [Call -> Op \cup {"none"}]
  /\ pc \in [Call -> {"new", "interrupt", "interruptCancel", "done"} \cup Locking \cup Locked]
  /\ target \in [Call -> 0..generation]
  /\ outcome \in [Call -> {"none", "ok", "failed"}]

WorkerTypes ==
  /\ life \in [Generation -> {"absent", "loading", "serving", "dead", "reaped"}]
  /\ killed \subseteq Generation /\ eof \subseteq Generation
  /\ stdin \in [Generation -> Seq(Call)]
  /\ stdout \in [Generation -> Seq(Message)]

\* The calls that have started a worker, or will never start one.
Started == {c \in Call : pc[c] \notin {"new", "lock", "killRestart"}}

TypeInv ==
  ClientTypes /\ CallTypes /\ WorkerTypes /\ generation <= Cardinality(Started)

\* While a process is created there is none.
SpawnInv == \A c \in Call : pc[c] = "spawn" => process = 0

AliveInv == SpawnInv /\ NoLostWorker

\* Where an aclose can be, and that it has closed the client by then.
ClosePhases ==
  \A c \in Call :
    /\ op[c] = "close" => pc[c] \in {"close1", "close2", "interrupt", "interruptCancel",
                                     "flush", "drain", "killClose", "done"}
    /\ pc[c] \in {"flush", "drain", "killClose"} => closed
    /\ pc[c] = "new" => outcome[c] = "none"

\* Closed, without a worker and without a call that could start one.
Gone ==
  /\ closed /\ process = 0
  /\ \A g \in Generation : life[g] \in {"absent", "reaped"}
  /\ \A c \in Call : pc[c] \notin Locked

CloseInv ==
  /\ state = "CLOSED" => Gone
  /\ \A c \in Call : op[c] = "close" /\ outcome[c] = "ok" => Gone

IInv ==
  TypeInv /\ OperationsSerialized /\ AliveInv /\ ClosePhases /\ CloseInv
-----------------------------------------------------------------------------
(* Types *)

\* A line the worker writes is a message in its pipe.
LEMMA EmitTypes ==
  ASSUME WorkerTypes, NEW g \in Generation, NEW to \in Call \cup {NoCall},
         NEW kind \in {"ready", "result", "failure", "garbage"}, Emit(g, kind, to)
  PROVE  stdout' \in [Generation -> Seq(Message)]
<1>1. [kind |-> kind, to |-> to] \in Message
  BY DEF Message
<1> QED BY <1>1 DEF Emit, WorkerTypes

\* Reading a line leaves the pipes well typed.
LEMMA TailTypes ==
  ASSUME NEW S, NEW pipes \in [Generation -> Seq(S)], NEW g, pipes[g] # <<>>
  PROVE  [pipes EXCEPT ![g] = Tail(@)] \in [Generation -> Seq(S)]
<1>1. ASSUME g \in Generation PROVE Tail(pipes[g]) \in Seq(S)
  BY <1>1
<1> QED BY <1>1

\* Writing a request leaves them so.
LEMMA ProceedTypes ==
  ASSUME WorkerTypes, NEW c \in Call, Proceed(c)
  PROVE  stdin' \in [Generation -> Seq(Call)]
<1>1. CASE op[c] = "embed"
  <2>1. stdin' = [stdin EXCEPT ![process] = IF life[process] = "serving" THEN Append(@, c) ELSE @]
    BY <1>1 DEF Proceed
  <2>2. ASSUME process \in Generation PROVE Append(stdin[process], c) \in Seq(Call)
    BY <2>2 DEF WorkerTypes
  <2> QED BY <2>1, <2>2 DEF WorkerTypes
<1>2. CASE op[c] # "embed"
  BY <1>2 DEF Proceed, WorkerTypes
<1> QED BY <1>1, <1>2

\* Every step keeps the types of the client's own fields.
LEMMA ClientStep == ASSUME ClientTypes, [Next]_vars PROVE ClientTypes'
<1> USE ClientAssumption DEF ClientTypes, Locked, Locking, Working, Killing, clientVars,
            callVars, workerVars
<1>1. ASSUME NEW c \in Call, Begin(c) PROVE ClientTypes'
  BY <1>1 DEF Begin
<1>2. ASSUME NEW c \in Call, EnterRefused(c) PROVE ClientTypes'
  BY <1>2 DEF EnterRefused, Refused, Ended
<1>3. ASSUME NEW c \in Call, EnterReady(c) PROVE ClientTypes'
  BY <1>3 DEF EnterReady, Proceed, Refused, Running, Return, Ended, At
<1>4. ASSUME NEW c \in Call, EnterStale(c) PROVE ClientTypes'
  BY <1>4 DEF EnterStale, Running, At, Refused
<1>5. ASSUME NEW c \in Call, EnterCold(c) PROVE ClientTypes'
  BY <1>5 DEF EnterCold, Refused, Running, BeginSpawn, At
<1>6. ASSUME NEW c \in Call, Spawned(c) PROVE ClientTypes'
  BY <1>6 DEF Spawned, At
<1>7. ASSUME NEW c \in Call, SpawnFailed(c) PROVE ClientTypes'
  BY <1>7 DEF SpawnFailed, ForceStop, Running, At, Return, Ended
<1>8. ASSUME NEW c \in Call, Hello(c) PROVE ClientTypes'
  BY <1>8 DEF Hello, Proceed, ForceStop, Running, At, Return, Ended
<1>9. ASSUME NEW c \in Call, Answer(c) PROVE ClientTypes'
  BY <1>9 DEF Answer, ForceStop, Running, At, Return, Ended
<1>10. ASSUME NEW c \in Call, WorkerGone(c) PROVE ClientTypes'
  BY <1>10 DEF WorkerGone, Return, Ended
<1>11. ASSUME NEW c \in Call, Killed(c) PROVE ClientTypes'
  BY <1>11 DEF Killed, Running, BeginSpawn, At, Return, Ended
<1>12. ASSUME NEW c \in Call, CloseBegin(c) PROVE ClientTypes'
  BY <1>12 DEF CloseBegin
<1>13. ASSUME NEW c \in Call, CloseEnter(c) PROVE ClientTypes'
  <2>1. CASE state = "CLOSED"
    BY <1>13, <2>1 DEF CloseEnter, Ended
  <2>2. CASE state # "CLOSED"
    BY <1>13, <2>2 DEF CloseEnter, Running, At, Ended
  <2> QED BY <2>1, <2>2
<1>14. ASSUME NEW c \in Call, InterruptDone(c) PROVE ClientTypes'
  BY <1>14 DEF InterruptDone, At
<1>15. ASSUME NEW c \in Call, CloseCancelled(c) PROVE ClientTypes'
  BY <1>15 DEF CloseCancelled, Withdraw, Release, Ended
<1>16. ASSUME NEW c \in Call, Drained(c) PROVE ClientTypes'
  BY <1>16 DEF Drained, Running, Return, Ended
<1>17. ASSUME NEW c \in Call, Flushed(c) PROVE ClientTypes'
  BY <1>17 DEF Flushed, At
<1>18. ASSUME NEW c \in Call, OperationCancel(c) PROVE ClientTypes'
  BY <1>18 DEF OperationCancel, ForceStop, Running, At, Return, Ended
<1>19. ASSUME NEW c \in Call, CloseCancel(c) PROVE ClientTypes'
  BY <1>19 DEF CloseCancel, InterruptProcess, Running, At, Withdraw, Release, Ended
<1>20. ASSUME NEW c \in Call, KillCancel(c) PROVE ClientTypes'
  BY <1>20 DEF KillCancel, Return, Ended
<1>21. ASSUME NEW c \in Call, LockCancel(c) PROVE ClientTypes'
  BY <1>21 DEF LockCancel, Ended
<1>22. ASSUME NEW c \in Call, OperationTimeout(c) PROVE ClientTypes'
  BY <1>22 DEF OperationTimeout, ForceStop, Running, At, Return, Ended
<1>23. ASSUME NEW c \in Call, KillTimeout(c) PROVE ClientTypes'
  BY <1>23 DEF KillTimeout, Running, Return, Ended
<1>24. ASSUME NEW c \in Call, LockTimeout(c) PROVE ClientTypes'
  BY <1>24 DEF LockTimeout, Ended
<1>25. ASSUME NEW c \in Call, CloseLockTimeout(c) PROVE ClientTypes'
  BY <1>25 DEF CloseLockTimeout, InterruptProcess, Running, At
<1>26. ASSUME NEW c \in Call, InterruptTimeout(c) PROVE ClientTypes'
  BY <1>26 DEF InterruptTimeout, Withdraw, Release, Ended
<1>27. ASSUME NEW c \in Call, DrainTimeout(c) PROVE ClientTypes'
  BY <1>27 DEF DrainTimeout, Running, At
<1>28. ASSUME NEW g \in Generation, Load(g) PROVE ClientTypes'
  BY <1>28 DEF Load, Emit
<1>29. ASSUME NEW g \in Generation, LoadFails(g) PROVE ClientTypes'
  BY <1>29 DEF LoadFails, Emit
<1>30. ASSUME NEW g \in Generation, Serve(g) PROVE ClientTypes'
  BY <1>30 DEF Serve, Emit
<1>31. ASSUME NEW g \in Generation, Exit(g) PROVE ClientTypes'
  BY <1>31 DEF Exit
<1>32. ASSUME NEW g \in Generation, Reap(g) PROVE ClientTypes'
  BY <1>32 DEF Reap
<1>33. CASE UNCHANGED vars
  BY <1>33 DEF vars
<1> QED
  BY <1>1, <1>2, <1>3, <1>4, <1>5, <1>6, <1>7, <1>8, <1>9, <1>10, <1>11, <1>12, <1>13, <1>14,
     <1>15, <1>16, <1>17, <1>18, <1>19, <1>20, <1>21, <1>22, <1>23, <1>24, <1>25, <1>26, <1>27,
     <1>28, <1>29, <1>30, <1>31, <1>32, <1>33
     DEF Next, Operation, Close, Cancellation, Timer, Worker

\* Every step keeps the types of the calls.
LEMMA CallStep == ASSUME ClientTypes, CallTypes, [Next]_vars PROVE CallTypes'
<1> USE ClientAssumption DEF ClientTypes, CallTypes, Op, Locked, Locking, Working, Killing,
            clientVars, callVars, workerVars
<1>1. ASSUME NEW c \in Call, Begin(c) PROVE CallTypes'
  BY <1>1 DEF Begin
<1>2. ASSUME NEW c \in Call, EnterRefused(c) PROVE CallTypes'
  BY <1>2 DEF EnterRefused, Refused, Ended
<1>3. ASSUME NEW c \in Call, EnterReady(c) PROVE CallTypes'
  BY <1>3 DEF EnterReady, Proceed, Refused, Running, Return, Ended, At
<1>4. ASSUME NEW c \in Call, EnterStale(c) PROVE CallTypes'
  BY <1>4 DEF EnterStale, Running, At, Refused
<1>5. ASSUME NEW c \in Call, EnterCold(c) PROVE CallTypes'
  BY <1>5 DEF EnterCold, Refused, Running, BeginSpawn, At
<1>6. ASSUME NEW c \in Call, Spawned(c) PROVE CallTypes'
  BY <1>6 DEF Spawned, At
<1>7. ASSUME NEW c \in Call, SpawnFailed(c) PROVE CallTypes'
  BY <1>7 DEF SpawnFailed, ForceStop, Running, At, Return, Ended
<1>8. ASSUME NEW c \in Call, Hello(c) PROVE CallTypes'
  BY <1>8 DEF Hello, Proceed, ForceStop, Running, At, Return, Ended
<1>9. ASSUME NEW c \in Call, Answer(c) PROVE CallTypes'
  BY <1>9 DEF Answer, ForceStop, Running, At, Return, Ended
<1>10. ASSUME NEW c \in Call, WorkerGone(c) PROVE CallTypes'
  BY <1>10 DEF WorkerGone, Return, Ended
<1>11. ASSUME NEW c \in Call, Killed(c) PROVE CallTypes'
  BY <1>11 DEF Killed, Running, BeginSpawn, At, Return, Ended
<1>12. ASSUME NEW c \in Call, CloseBegin(c) PROVE CallTypes'
  BY <1>12 DEF CloseBegin
<1>13. ASSUME NEW c \in Call, CloseEnter(c) PROVE CallTypes'
  BY <1>13 DEF CloseEnter, Running, At, Ended
<1>14. ASSUME NEW c \in Call, InterruptDone(c) PROVE CallTypes'
  BY <1>14 DEF InterruptDone, At
<1>15. ASSUME NEW c \in Call, CloseCancelled(c) PROVE CallTypes'
  BY <1>15 DEF CloseCancelled, Withdraw, Release, Ended
<1>16. ASSUME NEW c \in Call, Drained(c) PROVE CallTypes'
  BY <1>16 DEF Drained, Running, Return, Ended
<1>17. ASSUME NEW c \in Call, Flushed(c) PROVE CallTypes'
  BY <1>17 DEF Flushed, At
<1>18. ASSUME NEW c \in Call, OperationCancel(c) PROVE CallTypes'
  BY <1>18 DEF OperationCancel, ForceStop, Running, At, Return, Ended
<1>19. ASSUME NEW c \in Call, CloseCancel(c) PROVE CallTypes'
  BY <1>19 DEF CloseCancel, InterruptProcess, Running, At, Withdraw, Release, Ended
<1>20. ASSUME NEW c \in Call, KillCancel(c) PROVE CallTypes'
  BY <1>20 DEF KillCancel, Return, Ended
<1>21. ASSUME NEW c \in Call, LockCancel(c) PROVE CallTypes'
  BY <1>21 DEF LockCancel, Ended
<1>22. ASSUME NEW c \in Call, OperationTimeout(c) PROVE CallTypes'
  BY <1>22 DEF OperationTimeout, ForceStop, Running, At, Return, Ended
<1>23. ASSUME NEW c \in Call, KillTimeout(c) PROVE CallTypes'
  BY <1>23 DEF KillTimeout, Running, Return, Ended
<1>24. ASSUME NEW c \in Call, LockTimeout(c) PROVE CallTypes'
  BY <1>24 DEF LockTimeout, Ended
<1>25. ASSUME NEW c \in Call, CloseLockTimeout(c) PROVE CallTypes'
  BY <1>25 DEF CloseLockTimeout, InterruptProcess, Running, At
<1>26. ASSUME NEW c \in Call, InterruptTimeout(c) PROVE CallTypes'
  BY <1>26 DEF InterruptTimeout, Withdraw, Release, Ended
<1>27. ASSUME NEW c \in Call, DrainTimeout(c) PROVE CallTypes'
  BY <1>27 DEF DrainTimeout, Running, At
<1>28. ASSUME NEW g \in Generation, Load(g) PROVE CallTypes'
  BY <1>28 DEF Load, Emit
<1>29. ASSUME NEW g \in Generation, LoadFails(g) PROVE CallTypes'
  BY <1>29 DEF LoadFails, Emit
<1>30. ASSUME NEW g \in Generation, Serve(g) PROVE CallTypes'
  BY <1>30 DEF Serve, Emit
<1>31. ASSUME NEW g \in Generation, Exit(g) PROVE CallTypes'
  BY <1>31 DEF Exit
<1>32. ASSUME NEW g \in Generation, Reap(g) PROVE CallTypes'
  BY <1>32 DEF Reap
<1>33. CASE UNCHANGED vars
  BY <1>33 DEF vars
<1> QED
  BY <1>1, <1>2, <1>3, <1>4, <1>5, <1>6, <1>7, <1>8, <1>9, <1>10, <1>11, <1>12, <1>13, <1>14,
     <1>15, <1>16, <1>17, <1>18, <1>19, <1>20, <1>21, <1>22, <1>23, <1>24, <1>25, <1>26, <1>27,
     <1>28, <1>29, <1>30, <1>31, <1>32, <1>33
     DEF Next, Operation, Close, Cancellation, Timer, Worker

\* Every step keeps the types of the workers and their pipes.
LEMMA WorkerStep == ASSUME process # 0 => process \in Generation, WorkerTypes, [Next]_vars PROVE WorkerTypes'
<1> USE ClientAssumption DEF WorkerTypes, Locked, Locking, Working, Killing, clientVars,
            callVars, workerVars
<1>1. ASSUME NEW c \in Call, Begin(c) PROVE WorkerTypes'
  BY <1>1 DEF Begin
<1>2. ASSUME NEW c \in Call, EnterRefused(c) PROVE WorkerTypes'
  BY <1>2 DEF EnterRefused, Refused, Ended
<1>3. ASSUME NEW c \in Call, EnterReady(c) PROVE WorkerTypes'
  <2>1. stdin' \in [Generation -> Seq(Call)]
    BY <1>3, ProceedTypes DEF EnterReady
  <2> QED BY <1>3, <2>1 DEF EnterReady
<1>4. ASSUME NEW c \in Call, EnterStale(c) PROVE WorkerTypes'
  BY <1>4 DEF EnterStale, Running, At, Refused
<1>5. ASSUME NEW c \in Call, EnterCold(c) PROVE WorkerTypes'
  BY <1>5 DEF EnterCold, Refused, Running, BeginSpawn, At
<1>6. ASSUME NEW c \in Call, Spawned(c) PROVE WorkerTypes'
  BY <1>6 DEF Spawned, At
<1>7. ASSUME NEW c \in Call, SpawnFailed(c) PROVE WorkerTypes'
  BY <1>7 DEF SpawnFailed, ForceStop, Running, At, Return, Ended
<1>8. ASSUME NEW c \in Call, Hello(c) PROVE WorkerTypes'
  <2>1. stdout' \in [Generation -> Seq(Message)]
    BY <1>8, TailTypes DEF Hello
  <2>2. stdin' \in [Generation -> Seq(Call)]
    BY <1>8, ProceedTypes DEF Hello
  <2> QED BY <1>8, <2>1, <2>2 DEF Hello, ForceStop, Running
<1>9. ASSUME NEW c \in Call, Answer(c) PROVE WorkerTypes'
  <2>1. stdout' \in [Generation -> Seq(Message)]
    BY <1>9, TailTypes DEF Answer
  <2> QED BY <1>9, <2>1 DEF Answer, ForceStop, Running
<1>10. ASSUME NEW c \in Call, WorkerGone(c) PROVE WorkerTypes'
  BY <1>10 DEF WorkerGone, Return, Ended
<1>11. ASSUME NEW c \in Call, Killed(c) PROVE WorkerTypes'
  BY <1>11 DEF Killed, Running, BeginSpawn, At, Return, Ended
<1>12. ASSUME NEW c \in Call, CloseBegin(c) PROVE WorkerTypes'
  BY <1>12 DEF CloseBegin
<1>13. ASSUME NEW c \in Call, CloseEnter(c) PROVE WorkerTypes'
  BY <1>13 DEF CloseEnter, Running, At, Ended
<1>14. ASSUME NEW c \in Call, InterruptDone(c) PROVE WorkerTypes'
  BY <1>14 DEF InterruptDone, At
<1>15. ASSUME NEW c \in Call, CloseCancelled(c) PROVE WorkerTypes'
  BY <1>15 DEF CloseCancelled, Withdraw, Release, Ended
<1>16. ASSUME NEW c \in Call, Drained(c) PROVE WorkerTypes'
  BY <1>16 DEF Drained, Running, Return, Ended
<1>17. ASSUME NEW c \in Call, Flushed(c) PROVE WorkerTypes'
  BY <1>17 DEF Flushed, At
<1>18. ASSUME NEW c \in Call, OperationCancel(c) PROVE WorkerTypes'
  BY <1>18 DEF OperationCancel, ForceStop, Running, At, Return, Ended
<1>19. ASSUME NEW c \in Call, CloseCancel(c) PROVE WorkerTypes'
  BY <1>19 DEF CloseCancel, InterruptProcess, Running, At, Withdraw, Release, Ended
<1>20. ASSUME NEW c \in Call, KillCancel(c) PROVE WorkerTypes'
  BY <1>20 DEF KillCancel, Return, Ended
<1>21. ASSUME NEW c \in Call, LockCancel(c) PROVE WorkerTypes'
  BY <1>21 DEF LockCancel, Ended
<1>22. ASSUME NEW c \in Call, OperationTimeout(c) PROVE WorkerTypes'
  BY <1>22 DEF OperationTimeout, ForceStop, Running, At, Return, Ended
<1>23. ASSUME NEW c \in Call, KillTimeout(c) PROVE WorkerTypes'
  BY <1>23 DEF KillTimeout, Running, Return, Ended
<1>24. ASSUME NEW c \in Call, LockTimeout(c) PROVE WorkerTypes'
  BY <1>24 DEF LockTimeout, Ended
<1>25. ASSUME NEW c \in Call, CloseLockTimeout(c) PROVE WorkerTypes'
  BY <1>25 DEF CloseLockTimeout, InterruptProcess, Running, At
<1>26. ASSUME NEW c \in Call, InterruptTimeout(c) PROVE WorkerTypes'
  BY <1>26 DEF InterruptTimeout, Withdraw, Release, Ended
<1>27. ASSUME NEW c \in Call, DrainTimeout(c) PROVE WorkerTypes'
  BY <1>27 DEF DrainTimeout, Running, At
<1>28. ASSUME NEW g \in Generation, Load(g) PROVE WorkerTypes'
  <2>1. stdout' \in [Generation -> Seq(Message)]
    BY <1>28, EmitTypes DEF Load
  <2> QED BY <1>28, <2>1 DEF Load
<1>29. ASSUME NEW g \in Generation, LoadFails(g) PROVE WorkerTypes'
  <2>1. stdout' \in [Generation -> Seq(Message)]
    BY <1>29, EmitTypes DEF LoadFails
  <2> QED BY <1>29, <2>1 DEF LoadFails
<1>30. ASSUME NEW g \in Generation, Serve(g) PROVE WorkerTypes'
  <2>1. stdin' \in [Generation -> Seq(Call)]
    BY <1>30, TailTypes DEF Serve
  <2>2. Head(stdin[g]) \in Call
    BY <1>30 DEF Serve
  <2>3. stdout' \in [Generation -> Seq(Message)]
    BY <1>30, <2>2, EmitTypes DEF Serve
  <2> QED BY <1>30, <2>1, <2>3 DEF Serve
<1>31. ASSUME NEW g \in Generation, Exit(g) PROVE WorkerTypes'
  BY <1>31 DEF Exit
<1>32. ASSUME NEW g \in Generation, Reap(g) PROVE WorkerTypes'
  BY <1>32 DEF Reap
<1>33. CASE UNCHANGED vars
  BY <1>33 DEF vars
<1> QED
  BY <1>1, <1>2, <1>3, <1>4, <1>5, <1>6, <1>7, <1>8, <1>9, <1>10, <1>11, <1>12, <1>13, <1>14,
     <1>15, <1>16, <1>17, <1>18, <1>19, <1>20, <1>21, <1>22, <1>23, <1>24, <1>25, <1>26, <1>27,
     <1>28, <1>29, <1>30, <1>31, <1>32, <1>33
     DEF Next, Operation, Close, Cancellation, Timer, Worker

\* One more worker, and one more call that has started it.
LEMMA SpawnCounted ==
  ASSUME TypeInv, NEW c \in Call, pc[c] \in {"lock", "killRestart"}, BeginSpawn(c)
  PROVE  generation' <= Cardinality(Started')
<1>1. IsFiniteSet(Started)
  BY ClientAssumption, FS_Subset DEF Started
<1>2. c \notin Started /\ Started' = Started \cup {c}
  BY DEF Started, BeginSpawn, At, TypeInv, CallTypes
<1>3. Cardinality(Started') = Cardinality(Started) + 1 /\ Cardinality(Started) \in Nat
  BY <1>1, <1>2, FS_AddElement, FS_CardinalityType
<1> QED BY <1>3 DEF BeginSpawn, TypeInv, ClientTypes

\* A step that spawns nothing counts no worker.
LEMMA NotSpawned ==
  ASSUME TypeInv, generation' = generation, Started \subseteq Started'
  PROVE  generation' <= Cardinality(Started')
<1>1. IsFiniteSet(Started) /\ IsFiniteSet(Started')
  BY ClientAssumption, FS_Subset DEF Started
<1>2. Cardinality(Started) <= Cardinality(Started')
  BY <1>1, FS_Subset
<1> QED BY <1>1, <1>2, FS_CardinalityType DEF TypeInv, ClientTypes

\* There are never more workers than calls that have started one: a call that
\* spawns leaves the lock for good.
LEMMA GenerationStep == ASSUME TypeInv, [Next]_vars PROVE generation' <= Cardinality(Started')
<1> USE DEF Started, TypeInv, ClientTypes, CallTypes, Locked, Locking, Working, Killing,
            clientVars, callVars, workerVars
<1>1. ASSUME NEW c \in Call, Begin(c) PROVE generation' <= Cardinality(Started')
  BY <1>1, NotSpawned DEF Begin
<1>2. ASSUME NEW c \in Call, EnterRefused(c) PROVE generation' <= Cardinality(Started')
  BY <1>2, NotSpawned DEF EnterRefused, Refused, Ended
<1>3. ASSUME NEW c \in Call, EnterReady(c) PROVE generation' <= Cardinality(Started')
  BY <1>3, NotSpawned DEF EnterReady, Proceed, Refused, Running, Return, Ended, At
<1>4. ASSUME NEW c \in Call, EnterStale(c) PROVE generation' <= Cardinality(Started')
  BY <1>4, NotSpawned DEF EnterStale, Running, At, Refused
<1>5. ASSUME NEW c \in Call, EnterCold(c) PROVE generation' <= Cardinality(Started')
  BY <1>5, SpawnCounted DEF EnterCold
<1>6. ASSUME NEW c \in Call, Spawned(c) PROVE generation' <= Cardinality(Started')
  BY <1>6, NotSpawned DEF Spawned, At
<1>7. ASSUME NEW c \in Call, SpawnFailed(c) PROVE generation' <= Cardinality(Started')
  BY <1>7, NotSpawned DEF SpawnFailed, ForceStop, Running, At, Return, Ended
<1>8. ASSUME NEW c \in Call, Hello(c) PROVE generation' <= Cardinality(Started')
  BY <1>8, NotSpawned DEF Hello, Proceed, ForceStop, Running, At, Return, Ended
<1>9. ASSUME NEW c \in Call, Answer(c) PROVE generation' <= Cardinality(Started')
  BY <1>9, NotSpawned DEF Answer, ForceStop, Running, At, Return, Ended
<1>10. ASSUME NEW c \in Call, WorkerGone(c) PROVE generation' <= Cardinality(Started')
  BY <1>10, NotSpawned DEF WorkerGone, Return, Ended
<1>11. ASSUME NEW c \in Call, Killed(c) PROVE generation' <= Cardinality(Started')
  <2>1. CASE pc[c] = "killRestart"
    BY <1>11, <2>1, SpawnCounted DEF Killed
  <2>2. CASE pc[c] # "killRestart"
    <3>1. generation' = generation /\ Started \subseteq Started'
      BY <1>11, <2>2 DEF Killed, Return, Ended
    <3> QED BY <3>1, NotSpawned
  <2> QED BY <2>1, <2>2
<1>12. ASSUME NEW c \in Call, CloseBegin(c) PROVE generation' <= Cardinality(Started')
  BY <1>12, NotSpawned DEF CloseBegin
<1>13. ASSUME NEW c \in Call, CloseEnter(c) PROVE generation' <= Cardinality(Started')
  BY <1>13, NotSpawned DEF CloseEnter, Running, At, Ended
<1>14. ASSUME NEW c \in Call, InterruptDone(c) PROVE generation' <= Cardinality(Started')
  BY <1>14, NotSpawned DEF InterruptDone, At
<1>15. ASSUME NEW c \in Call, CloseCancelled(c) PROVE generation' <= Cardinality(Started')
  BY <1>15, NotSpawned DEF CloseCancelled, Withdraw, Release, Ended
<1>16. ASSUME NEW c \in Call, Drained(c) PROVE generation' <= Cardinality(Started')
  BY <1>16, NotSpawned DEF Drained, Running, Return, Ended
<1>17. ASSUME NEW c \in Call, Flushed(c) PROVE generation' <= Cardinality(Started')
  BY <1>17, NotSpawned DEF Flushed, At
<1>18. ASSUME NEW c \in Call, OperationCancel(c) PROVE generation' <= Cardinality(Started')
  BY <1>18, NotSpawned DEF OperationCancel, ForceStop, Running, At, Return, Ended
<1>19. ASSUME NEW c \in Call, CloseCancel(c) PROVE generation' <= Cardinality(Started')
  BY <1>19, NotSpawned DEF CloseCancel, InterruptProcess, Running, At, Withdraw, Release, Ended
<1>20. ASSUME NEW c \in Call, KillCancel(c) PROVE generation' <= Cardinality(Started')
  BY <1>20, NotSpawned DEF KillCancel, Return, Ended
<1>21. ASSUME NEW c \in Call, LockCancel(c) PROVE generation' <= Cardinality(Started')
  BY <1>21, NotSpawned DEF LockCancel, Ended
<1>22. ASSUME NEW c \in Call, OperationTimeout(c) PROVE generation' <= Cardinality(Started')
  BY <1>22, NotSpawned DEF OperationTimeout, ForceStop, Running, At, Return, Ended
<1>23. ASSUME NEW c \in Call, KillTimeout(c) PROVE generation' <= Cardinality(Started')
  BY <1>23, NotSpawned DEF KillTimeout, Running, Return, Ended
<1>24. ASSUME NEW c \in Call, LockTimeout(c) PROVE generation' <= Cardinality(Started')
  BY <1>24, NotSpawned DEF LockTimeout, Ended
<1>25. ASSUME NEW c \in Call, CloseLockTimeout(c) PROVE generation' <= Cardinality(Started')
  BY <1>25, NotSpawned DEF CloseLockTimeout, InterruptProcess, Running, At
<1>26. ASSUME NEW c \in Call, InterruptTimeout(c) PROVE generation' <= Cardinality(Started')
  BY <1>26, NotSpawned DEF InterruptTimeout, Withdraw, Release, Ended
<1>27. ASSUME NEW c \in Call, DrainTimeout(c) PROVE generation' <= Cardinality(Started')
  BY <1>27, NotSpawned DEF DrainTimeout, Running, At
<1>28. ASSUME NEW g \in Generation, Load(g) PROVE generation' <= Cardinality(Started')
  BY <1>28, NotSpawned DEF Load
<1>29. ASSUME NEW g \in Generation, LoadFails(g) PROVE generation' <= Cardinality(Started')
  BY <1>29, NotSpawned DEF LoadFails
<1>30. ASSUME NEW g \in Generation, Serve(g) PROVE generation' <= Cardinality(Started')
  BY <1>30, NotSpawned DEF Serve
<1>31. ASSUME NEW g \in Generation, Exit(g) PROVE generation' <= Cardinality(Started')
  BY <1>31, NotSpawned DEF Exit
<1>32. ASSUME NEW g \in Generation, Reap(g) PROVE generation' <= Cardinality(Started')
  BY <1>32, NotSpawned DEF Reap
<1>33. CASE UNCHANGED vars
  BY <1>33, NotSpawned DEF vars
<1> QED
  BY <1>1, <1>2, <1>3, <1>4, <1>5, <1>6, <1>7, <1>8, <1>9, <1>10, <1>11, <1>12, <1>13, <1>14,
     <1>15, <1>16, <1>17, <1>18, <1>19, <1>20, <1>21, <1>22, <1>23, <1>24, <1>25, <1>26, <1>27,
     <1>28, <1>29, <1>30, <1>31, <1>32, <1>33
     DEF Next, Operation, Close, Cancellation, Timer, Worker
-----------------------------------------------------------------------------
(* The lock, the worker and the end of the client *)

\* A process that is not running is no worker at all, and there is no other.
LEMMA NoneAlive ==
  ASSUME NoLostWorker, ~Running(process)
  PROVE  \A g \in Generation : life[g] \notin {"loading", "serving", "dead"}
<1>1. Cardinality(Call) \in Nat
  BY ClientAssumption, FS_CardinalityType
<1>2. 0 \notin Generation
  BY <1>1 DEF Generation
<1> QED BY <1>2 DEF NoLostWorker, Running

\* Every step leaves the lock with the one call that works on the worker.
LEMMA SerialStep == ASSUME TypeInv, OperationsSerialized, [Next]_vars PROVE OperationsSerialized'
<1> USE ClientAssumption DEF TypeInv, CallTypes, OperationsSerialized, Locked, Locking,
            Working, Killing, clientVars, callVars, workerVars
<1>1. ASSUME NEW c \in Call, Begin(c) PROVE OperationsSerialized'
  BY <1>1 DEF Begin
<1>2. ASSUME NEW c \in Call, EnterRefused(c) PROVE OperationsSerialized'
  BY <1>2 DEF EnterRefused, Refused, Ended
<1>3. ASSUME NEW c \in Call, EnterReady(c) PROVE OperationsSerialized'
  BY <1>3 DEF EnterReady, Proceed, Refused, Running, Return, Ended, At
<1>4. ASSUME NEW c \in Call, EnterStale(c) PROVE OperationsSerialized'
  BY <1>4 DEF EnterStale, Running, At, Refused
<1>5. ASSUME NEW c \in Call, EnterCold(c) PROVE OperationsSerialized'
  BY <1>5 DEF EnterCold, Refused, Running, BeginSpawn, At
<1>6. ASSUME NEW c \in Call, Spawned(c) PROVE OperationsSerialized'
  BY <1>6 DEF Spawned, At
<1>7. ASSUME NEW c \in Call, SpawnFailed(c) PROVE OperationsSerialized'
  BY <1>7 DEF SpawnFailed, ForceStop, Running, At, Return, Ended
<1>8. ASSUME NEW c \in Call, Hello(c) PROVE OperationsSerialized'
  <2>1. CASE Head(stdout[process]).kind = "ready"
    BY <1>8, <2>1 DEF Hello, Proceed, Return, Ended, At
  <2>2. CASE Head(stdout[process]).kind # "ready"
    BY <1>8, <2>2 DEF Hello, ForceStop, Running, Return, Ended, At
  <2> QED BY <2>1, <2>2
<1>9. ASSUME NEW c \in Call, Answer(c) PROVE OperationsSerialized'
  BY <1>9 DEF Answer, ForceStop, Running, At, Return, Ended
<1>10. ASSUME NEW c \in Call, WorkerGone(c) PROVE OperationsSerialized'
  BY <1>10 DEF WorkerGone, Return, Ended
<1>11. ASSUME NEW c \in Call, Killed(c) PROVE OperationsSerialized'
  BY <1>11 DEF Killed, Running, BeginSpawn, At, Return, Ended
<1>12. ASSUME NEW c \in Call, CloseBegin(c) PROVE OperationsSerialized'
  BY <1>12 DEF CloseBegin
<1>13. ASSUME NEW c \in Call, CloseEnter(c) PROVE OperationsSerialized'
  BY <1>13 DEF CloseEnter, Running, At, Ended
<1>14. ASSUME NEW c \in Call, InterruptDone(c) PROVE OperationsSerialized'
  BY <1>14 DEF InterruptDone, At
<1>15. ASSUME NEW c \in Call, CloseCancelled(c) PROVE OperationsSerialized'
  BY <1>15 DEF CloseCancelled, Withdraw, Release, Ended
<1>16. ASSUME NEW c \in Call, Drained(c) PROVE OperationsSerialized'
  BY <1>16 DEF Drained, Running, Return, Ended
<1>17. ASSUME NEW c \in Call, Flushed(c) PROVE OperationsSerialized'
  BY <1>17 DEF Flushed, At
<1>18. ASSUME NEW c \in Call, OperationCancel(c) PROVE OperationsSerialized'
  BY <1>18 DEF OperationCancel, ForceStop, Running, At, Return, Ended
<1>19. ASSUME NEW c \in Call, CloseCancel(c) PROVE OperationsSerialized'
  BY <1>19 DEF CloseCancel, InterruptProcess, Running, At, Withdraw, Release, Ended
<1>20. ASSUME NEW c \in Call, KillCancel(c) PROVE OperationsSerialized'
  BY <1>20 DEF KillCancel, Return, Ended
<1>21. ASSUME NEW c \in Call, LockCancel(c) PROVE OperationsSerialized'
  BY <1>21 DEF LockCancel, Ended
<1>22. ASSUME NEW c \in Call, OperationTimeout(c) PROVE OperationsSerialized'
  BY <1>22 DEF OperationTimeout, ForceStop, Running, At, Return, Ended
<1>23. ASSUME NEW c \in Call, KillTimeout(c) PROVE OperationsSerialized'
  BY <1>23 DEF KillTimeout, Running, Return, Ended
<1>24. ASSUME NEW c \in Call, LockTimeout(c) PROVE OperationsSerialized'
  BY <1>24 DEF LockTimeout, Ended
<1>25. ASSUME NEW c \in Call, CloseLockTimeout(c) PROVE OperationsSerialized'
  BY <1>25 DEF CloseLockTimeout, InterruptProcess, Running, At
<1>26. ASSUME NEW c \in Call, InterruptTimeout(c) PROVE OperationsSerialized'
  BY <1>26 DEF InterruptTimeout, Withdraw, Release, Ended
<1>27. ASSUME NEW c \in Call, DrainTimeout(c) PROVE OperationsSerialized'
  BY <1>27 DEF DrainTimeout, Running, At
<1>28. ASSUME NEW g \in Generation, Load(g) PROVE OperationsSerialized'
  BY <1>28 DEF Load, Emit
<1>29. ASSUME NEW g \in Generation, LoadFails(g) PROVE OperationsSerialized'
  BY <1>29 DEF LoadFails, Emit
<1>30. ASSUME NEW g \in Generation, Serve(g) PROVE OperationsSerialized'
  BY <1>30 DEF Serve, Emit
<1>31. ASSUME NEW g \in Generation, Exit(g) PROVE OperationsSerialized'
  BY <1>31 DEF Exit
<1>32. ASSUME NEW g \in Generation, Reap(g) PROVE OperationsSerialized'
  BY <1>32 DEF Reap
<1>33. CASE UNCHANGED vars
  BY <1>33 DEF vars
<1> QED
  BY <1>1, <1>2, <1>3, <1>4, <1>5, <1>6, <1>7, <1>8, <1>9, <1>10, <1>11, <1>12, <1>13, <1>14,
     <1>15, <1>16, <1>17, <1>18, <1>19, <1>20, <1>21, <1>22, <1>23, <1>24, <1>25, <1>26, <1>27,
     <1>28, <1>29, <1>30, <1>31, <1>32, <1>33
     DEF Next, Operation, Close, Cancellation, Timer, Worker

\* No step loses a worker that is not reaped.
LEMMA AliveStep == ASSUME TypeInv, OperationsSerialized, AliveInv, [Next]_vars PROVE AliveInv'
<1> USE ClientAssumption DEF TypeInv, ClientTypes, CallTypes, WorkerTypes,
            OperationsSerialized, AliveInv, SpawnInv, NoLostWorker, Locked, Locking,
            Working, Killing, clientVars, callVars, workerVars
<1>1. ASSUME NEW c \in Call, Begin(c) PROVE AliveInv'
  BY <1>1 DEF Begin
<1>2. ASSUME NEW c \in Call, EnterRefused(c) PROVE AliveInv'
  BY <1>2 DEF EnterRefused, Refused, Ended
<1>3. ASSUME NEW c \in Call, EnterReady(c) PROVE AliveInv'
  BY <1>3 DEF EnterReady, Proceed, Refused, Running, Return, Ended, At
<1>4. ASSUME NEW c \in Call, EnterStale(c) PROVE AliveInv'
  BY <1>4 DEF EnterStale, Running, At, Refused
<1>5. ASSUME NEW c \in Call, EnterCold(c) PROVE AliveInv'
  <2>1. \A h \in Generation : life[h] \notin {"loading", "serving", "dead"}
    BY <1>5, NoneAlive DEF EnterCold
  <2>2. SpawnInv'
    BY <1>5 DEF EnterCold, BeginSpawn, At
  <2> QED BY <1>5, <2>1, <2>2 DEF EnterCold
<1>6. ASSUME NEW c \in Call, Spawned(c) PROVE AliveInv'
  BY <1>6 DEF Spawned, At
<1>7. ASSUME NEW c \in Call, SpawnFailed(c) PROVE AliveInv'
  BY <1>7 DEF SpawnFailed, ForceStop, Running, At, Return, Ended
<1>8. ASSUME NEW c \in Call, Hello(c) PROVE AliveInv'
  BY <1>8 DEF Hello, Proceed, ForceStop, Running, At, Return, Ended
<1>9. ASSUME NEW c \in Call, Answer(c) PROVE AliveInv'
  BY <1>9 DEF Answer, ForceStop, Running, At, Return, Ended
<1>10. ASSUME NEW c \in Call, WorkerGone(c) PROVE AliveInv'
  BY <1>10 DEF WorkerGone, Return, Ended
<1>11. ASSUME NEW c \in Call, Killed(c) PROVE AliveInv'
  <2>1. \A h \in Generation : life[h] \notin {"loading", "serving", "dead"}
    BY <1>11, NoneAlive DEF Killed
  <2>2. SpawnInv'
    BY <1>11 DEF Killed, BeginSpawn, At, Return, Ended
  <2> QED BY <1>11, <2>1, <2>2 DEF Killed
<1>12. ASSUME NEW c \in Call, CloseBegin(c) PROVE AliveInv'
  BY <1>12 DEF CloseBegin
<1>13. ASSUME NEW c \in Call, CloseEnter(c) PROVE AliveInv'
  BY <1>13 DEF CloseEnter, Running, At, Ended
<1>14. ASSUME NEW c \in Call, InterruptDone(c) PROVE AliveInv'
  BY <1>14 DEF InterruptDone, At
<1>15. ASSUME NEW c \in Call, CloseCancelled(c) PROVE AliveInv'
  BY <1>15 DEF CloseCancelled, Withdraw, Release, Ended
<1>16. ASSUME NEW c \in Call, Drained(c) PROVE AliveInv'
  BY <1>16 DEF Drained, Running, Return, Ended
<1>17. ASSUME NEW c \in Call, Flushed(c) PROVE AliveInv'
  BY <1>17 DEF Flushed, At
<1>18. ASSUME NEW c \in Call, OperationCancel(c) PROVE AliveInv'
  BY <1>18 DEF OperationCancel, ForceStop, Running, At, Return, Ended
<1>19. ASSUME NEW c \in Call, CloseCancel(c) PROVE AliveInv'
  BY <1>19 DEF CloseCancel, InterruptProcess, Running, At, Withdraw, Release, Ended
<1>20. ASSUME NEW c \in Call, KillCancel(c) PROVE AliveInv'
  BY <1>20 DEF KillCancel, Return, Ended
<1>21. ASSUME NEW c \in Call, LockCancel(c) PROVE AliveInv'
  BY <1>21 DEF LockCancel, Ended
<1>22. ASSUME NEW c \in Call, OperationTimeout(c) PROVE AliveInv'
  BY <1>22 DEF OperationTimeout, ForceStop, Running, At, Return, Ended
<1>23. ASSUME NEW c \in Call, KillTimeout(c) PROVE AliveInv'
  BY <1>23 DEF KillTimeout, Running, Return, Ended
<1>24. ASSUME NEW c \in Call, LockTimeout(c) PROVE AliveInv'
  BY <1>24 DEF LockTimeout, Ended
<1>25. ASSUME NEW c \in Call, CloseLockTimeout(c) PROVE AliveInv'
  BY <1>25 DEF CloseLockTimeout, InterruptProcess, Running, At
<1>26. ASSUME NEW c \in Call, InterruptTimeout(c) PROVE AliveInv'
  BY <1>26 DEF InterruptTimeout, Withdraw, Release, Ended
<1>27. ASSUME NEW c \in Call, DrainTimeout(c) PROVE AliveInv'
  BY <1>27 DEF DrainTimeout, Running, At
<1>28. ASSUME NEW g \in Generation, Load(g) PROVE AliveInv'
  BY <1>28 DEF Load, Emit
<1>29. ASSUME NEW g \in Generation, LoadFails(g) PROVE AliveInv'
  BY <1>29 DEF LoadFails, Emit
<1>30. ASSUME NEW g \in Generation, Serve(g) PROVE AliveInv'
  BY <1>30 DEF Serve, Emit
<1>31. ASSUME NEW g \in Generation, Exit(g) PROVE AliveInv'
  BY <1>31 DEF Exit
<1>32. ASSUME NEW g \in Generation, Reap(g) PROVE AliveInv'
  BY <1>32 DEF Reap
<1>33. CASE UNCHANGED vars
  BY <1>33 DEF vars
<1> QED
  BY <1>1, <1>2, <1>3, <1>4, <1>5, <1>6, <1>7, <1>8, <1>9, <1>10, <1>11, <1>12, <1>13, <1>14,
     <1>15, <1>16, <1>17, <1>18, <1>19, <1>20, <1>21, <1>22, <1>23, <1>24, <1>25, <1>26, <1>27,
     <1>28, <1>29, <1>30, <1>31, <1>32, <1>33
     DEF Next, Operation, Close, Cancellation, Timer, Worker

\* Only an aclose drains the worker, and it marks the client closed first.
LEMMA PhasesStep == ASSUME TypeInv, ClosePhases, [Next]_vars PROVE ClosePhases'
<1> USE ClientAssumption DEF TypeInv, CallTypes, ClosePhases, Locked, Locking, Working,
            Killing, clientVars, callVars, workerVars
<1>1. ASSUME NEW c \in Call, Begin(c) PROVE ClosePhases'
  BY <1>1 DEF Begin
<1>2. ASSUME NEW c \in Call, EnterRefused(c) PROVE ClosePhases'
  BY <1>2 DEF EnterRefused, Refused, Ended
<1>3. ASSUME NEW c \in Call, EnterReady(c) PROVE ClosePhases'
  BY <1>3 DEF EnterReady, Proceed, Refused, Running, Return, Ended, At
<1>4. ASSUME NEW c \in Call, EnterStale(c) PROVE ClosePhases'
  BY <1>4 DEF EnterStale, Running, At, Refused
<1>5. ASSUME NEW c \in Call, EnterCold(c) PROVE ClosePhases'
  BY <1>5 DEF EnterCold, Refused, Running, BeginSpawn, At
<1>6. ASSUME NEW c \in Call, Spawned(c) PROVE ClosePhases'
  BY <1>6 DEF Spawned, At
<1>7. ASSUME NEW c \in Call, SpawnFailed(c) PROVE ClosePhases'
  BY <1>7 DEF SpawnFailed, ForceStop, Running, At, Return, Ended
<1>8. ASSUME NEW c \in Call, Hello(c) PROVE ClosePhases'
  BY <1>8 DEF Hello, Proceed, ForceStop, Running, At, Return, Ended
<1>9. ASSUME NEW c \in Call, Answer(c) PROVE ClosePhases'
  BY <1>9 DEF Answer, ForceStop, Running, At, Return, Ended
<1>10. ASSUME NEW c \in Call, WorkerGone(c) PROVE ClosePhases'
  BY <1>10 DEF WorkerGone, Return, Ended
<1>11. ASSUME NEW c \in Call, Killed(c) PROVE ClosePhases'
  BY <1>11 DEF Killed, Running, BeginSpawn, At, Return, Ended
<1>12. ASSUME NEW c \in Call, CloseBegin(c) PROVE ClosePhases'
  BY <1>12 DEF CloseBegin
<1>13. ASSUME NEW c \in Call, CloseEnter(c) PROVE ClosePhases'
  BY <1>13 DEF CloseEnter, Running, At, Ended
<1>14. ASSUME NEW c \in Call, InterruptDone(c) PROVE ClosePhases'
  BY <1>14 DEF InterruptDone, At
<1>15. ASSUME NEW c \in Call, CloseCancelled(c) PROVE ClosePhases'
  BY <1>15 DEF CloseCancelled, Withdraw, Release, Ended
<1>16. ASSUME NEW c \in Call, Drained(c) PROVE ClosePhases'
  BY <1>16 DEF Drained, Running, Return, Ended
<1>17. ASSUME NEW c \in Call, Flushed(c) PROVE ClosePhases'
  BY <1>17 DEF Flushed, At
<1>18. ASSUME NEW c \in Call, OperationCancel(c) PROVE ClosePhases'
  BY <1>18 DEF OperationCancel, ForceStop, Running, At, Return, Ended
<1>19. ASSUME NEW c \in Call, CloseCancel(c) PROVE ClosePhases'
  BY <1>19 DEF CloseCancel, InterruptProcess, Running, At, Withdraw, Release, Ended
<1>20. ASSUME NEW c \in Call, KillCancel(c) PROVE ClosePhases'
  BY <1>20 DEF KillCancel, Return, Ended
<1>21. ASSUME NEW c \in Call, LockCancel(c) PROVE ClosePhases'
  BY <1>21 DEF LockCancel, Ended
<1>22. ASSUME NEW c \in Call, OperationTimeout(c) PROVE ClosePhases'
  BY <1>22 DEF OperationTimeout, ForceStop, Running, At, Return, Ended
<1>23. ASSUME NEW c \in Call, KillTimeout(c) PROVE ClosePhases'
  BY <1>23 DEF KillTimeout, Running, Return, Ended
<1>24. ASSUME NEW c \in Call, LockTimeout(c) PROVE ClosePhases'
  BY <1>24 DEF LockTimeout, Ended
<1>25. ASSUME NEW c \in Call, CloseLockTimeout(c) PROVE ClosePhases'
  BY <1>25 DEF CloseLockTimeout, InterruptProcess, Running, At
<1>26. ASSUME NEW c \in Call, InterruptTimeout(c) PROVE ClosePhases'
  BY <1>26 DEF InterruptTimeout, Withdraw, Release, Ended
<1>27. ASSUME NEW c \in Call, DrainTimeout(c) PROVE ClosePhases'
  BY <1>27 DEF DrainTimeout, Running, At
<1>28. ASSUME NEW g \in Generation, Load(g) PROVE ClosePhases'
  BY <1>28 DEF Load, Emit
<1>29. ASSUME NEW g \in Generation, LoadFails(g) PROVE ClosePhases'
  BY <1>29 DEF LoadFails, Emit
<1>30. ASSUME NEW g \in Generation, Serve(g) PROVE ClosePhases'
  BY <1>30 DEF Serve, Emit
<1>31. ASSUME NEW g \in Generation, Exit(g) PROVE ClosePhases'
  BY <1>31 DEF Exit
<1>32. ASSUME NEW g \in Generation, Reap(g) PROVE ClosePhases'
  BY <1>32 DEF Reap
<1>33. CASE UNCHANGED vars
  BY <1>33 DEF vars
<1> QED
  BY <1>1, <1>2, <1>3, <1>4, <1>5, <1>6, <1>7, <1>8, <1>9, <1>10, <1>11, <1>12, <1>13, <1>14,
     <1>15, <1>16, <1>17, <1>18, <1>19, <1>20, <1>21, <1>22, <1>23, <1>24, <1>25, <1>26, <1>27,
     <1>28, <1>29, <1>30, <1>31, <1>32, <1>33
     DEF Next, Operation, Close, Cancellation, Timer, Worker

\* Once the worker is gone for good it stays so, whatever calls remain.
LEMMA CloseStep == ASSUME TypeInv, OperationsSerialized, AliveInv, ClosePhases, CloseInv, [Next]_vars PROVE CloseInv'
<1> USE ClientAssumption DEF TypeInv, ClientTypes, CallTypes, WorkerTypes,
            OperationsSerialized, AliveInv, NoLostWorker, CloseInv, ClosePhases, Gone,
            Locked, Locking, Working, Killing, clientVars, callVars, workerVars
<1>1. ASSUME NEW c \in Call, Begin(c) PROVE CloseInv'
  BY <1>1 DEF Begin
<1>2. ASSUME NEW c \in Call, EnterRefused(c) PROVE CloseInv'
  BY <1>2 DEF EnterRefused, Refused, Ended
<1>3. ASSUME NEW c \in Call, EnterReady(c) PROVE CloseInv'
  BY <1>3 DEF EnterReady, Proceed, Refused, Running, Return, Ended, At
<1>4. ASSUME NEW c \in Call, EnterStale(c) PROVE CloseInv'
  BY <1>4 DEF EnterStale, Running, At, Refused
<1>5. ASSUME NEW c \in Call, EnterCold(c) PROVE CloseInv'
  BY <1>5 DEF EnterCold, Refused, Running, BeginSpawn, At
<1>6. ASSUME NEW c \in Call, Spawned(c) PROVE CloseInv'
  BY <1>6 DEF Spawned, At
<1>7. ASSUME NEW c \in Call, SpawnFailed(c) PROVE CloseInv'
  BY <1>7 DEF SpawnFailed, ForceStop, Running, At, Return, Ended
<1>8. ASSUME NEW c \in Call, Hello(c) PROVE CloseInv'
  <2>1. ~Gone /\ pc[c] \in Locked
    BY <1>8 DEF Hello, Gone
  <2>2. state' # "CLOSED"
    BY <1>8, <2>1 DEF Hello, Proceed, ForceStop, Running, At, Return, Ended
  <2>3. \A k \in Call : op'[k] = "close" /\ outcome'[k] = "ok" => op[k] = "close" /\ outcome[k] = "ok"
    BY <1>8 DEF ClosePhases, Hello, Proceed, ForceStop, Running, At, Return, Ended
  <2> QED BY <2>1, <2>2, <2>3
<1>9. ASSUME NEW c \in Call, Answer(c) PROVE CloseInv'
  <2>1. ~Gone /\ pc[c] \in Locked
    BY <1>9 DEF Answer, Gone
  <2>2. state' # "CLOSED"
    BY <1>9, <2>1 DEF Answer, ForceStop, Running, At, Return, Ended
  <2>3. \A k \in Call : op'[k] = "close" /\ outcome'[k] = "ok" => op[k] = "close" /\ outcome[k] = "ok"
    <3>1. op' = op /\ op[c] # "close"
      BY <1>9 DEF Answer, ForceStop, At, Return, Ended
    <3>2. \A k \in Call \ {c} : outcome'[k] = outcome[k]
      BY <1>9 DEF Answer, ForceStop, At, Return, Ended
    <3> QED BY <3>1, <3>2
  <2> QED BY <2>1, <2>2, <2>3
<1>10. ASSUME NEW c \in Call, WorkerGone(c) PROVE CloseInv'
  BY <1>10 DEF WorkerGone, Return, Ended
<1>11. ASSUME NEW c \in Call, Killed(c) PROVE CloseInv'
  <2>1. \A h \in Generation : life[h] \notin {"loading", "serving", "dead"}
    BY <1>11, NoneAlive DEF Killed
  <2>2. CASE pc[c] = "killClose"
    <3>1. closed'
      BY <1>11, <2>2 DEF Killed
    <3>2. process' = 0 /\ life' = life
      BY <1>11 DEF Killed
    <3>3. pc' = [pc EXCEPT ![c] = "done"] /\ owner = c
      BY <1>11, <2>2 DEF Killed, Return, Ended
    <3>4. Gone'
      BY <2>1, <3>1, <3>2, <3>3
    <3> QED BY <3>4
  <2>3. CASE pc[c] # "killClose"
    BY <1>11, <2>3 DEF Killed, BeginSpawn, At, Return, Ended
  <2> QED BY <2>2, <2>3
<1>12. ASSUME NEW c \in Call, CloseBegin(c) PROVE CloseInv'
  BY <1>12 DEF CloseBegin
<1>13. ASSUME NEW c \in Call, CloseEnter(c) PROVE CloseInv'
  <2>1. CASE state = "CLOSED"
    BY <1>13, <2>1 DEF CloseEnter, Ended
  <2>2. CASE state # "CLOSED" /\ Running(process)
    BY <1>13, <2>2 DEF CloseEnter, Running, At
  <2>3. CASE state # "CLOSED" /\ ~Running(process)
    <3>1. \A h \in Generation : life[h] \notin {"loading", "serving", "dead"}
      BY <2>3, NoneAlive
    <3>2. closed'
      BY <1>13, <2>3 DEF CloseEnter
    <3>3. process' = 0 /\ life' = life
      BY <1>13, <2>3 DEF CloseEnter
    <3>4. pc' = [pc EXCEPT ![c] = "done"] /\ owner = NoCall
      BY <1>13, <2>3 DEF CloseEnter, Ended
    <3>5. Gone'
      BY <3>1, <3>2, <3>3, <3>4
    <3> QED BY <3>5
  <2> QED BY <2>1, <2>2, <2>3
<1>14. ASSUME NEW c \in Call, InterruptDone(c) PROVE CloseInv'
  BY <1>14 DEF InterruptDone, At
<1>15. ASSUME NEW c \in Call, CloseCancelled(c) PROVE CloseInv'
  BY <1>15 DEF CloseCancelled, Withdraw, Release, Ended
<1>16. ASSUME NEW c \in Call, Drained(c) PROVE CloseInv'
  <2>1. \A h \in Generation : life[h] \notin {"loading", "serving", "dead"}
    BY <1>16, NoneAlive DEF Drained
  <2>2. Gone'
    BY <1>16, <2>1 DEF Drained, Return, Ended
  <2> QED BY <2>2
<1>17. ASSUME NEW c \in Call, Flushed(c) PROVE CloseInv'
  BY <1>17 DEF Flushed, At
<1>18. ASSUME NEW c \in Call, OperationCancel(c) PROVE CloseInv'
  <2>1. ~Gone /\ pc[c] \in Locked
    BY <1>18 DEF OperationCancel, Gone
  <2>2. state' # "CLOSED"
    BY <1>18, <2>1 DEF OperationCancel, ForceStop, Running, At, Return, Ended
  <2>3. \A k \in Call : op'[k] = "close" /\ outcome'[k] = "ok" => op[k] = "close" /\ outcome[k] = "ok"
    BY <1>18 DEF ClosePhases, OperationCancel, ForceStop, Running, At, Return, Ended
  <2> QED BY <2>1, <2>2, <2>3
<1>19. ASSUME NEW c \in Call, CloseCancel(c) PROVE CloseInv'
  BY <1>19 DEF CloseCancel, InterruptProcess, Running, At, Withdraw, Release, Ended
<1>20. ASSUME NEW c \in Call, KillCancel(c) PROVE CloseInv'
  BY <1>20 DEF KillCancel, Return, Ended
<1>21. ASSUME NEW c \in Call, LockCancel(c) PROVE CloseInv'
  BY <1>21 DEF LockCancel, Ended
<1>22. ASSUME NEW c \in Call, OperationTimeout(c) PROVE CloseInv'
  <2>1. ~Gone /\ pc[c] \in Locked
    BY <1>22 DEF OperationTimeout, Gone
  <2>2. state' # "CLOSED"
    BY <1>22, <2>1 DEF OperationTimeout, ForceStop, Running, At, Return, Ended
  <2>3. \A k \in Call : op'[k] = "close" /\ outcome'[k] = "ok" => op[k] = "close" /\ outcome[k] = "ok"
    BY <1>22 DEF ClosePhases, OperationTimeout, ForceStop, Running, At, Return, Ended
  <2> QED BY <2>1, <2>2, <2>3
<1>23. ASSUME NEW c \in Call, KillTimeout(c) PROVE CloseInv'
  BY <1>23 DEF KillTimeout, Running, Return, Ended
<1>24. ASSUME NEW c \in Call, LockTimeout(c) PROVE CloseInv'
  BY <1>24 DEF LockTimeout, Ended
<1>25. ASSUME NEW c \in Call, CloseLockTimeout(c) PROVE CloseInv'
  BY <1>25 DEF CloseLockTimeout, InterruptProcess, Running, At
<1>26. ASSUME NEW c \in Call, InterruptTimeout(c) PROVE CloseInv'
  BY <1>26 DEF InterruptTimeout, Withdraw, Release, Ended
<1>27. ASSUME NEW c \in Call, DrainTimeout(c) PROVE CloseInv'
  BY <1>27 DEF DrainTimeout, Running, At
<1>28. ASSUME NEW g \in Generation, Load(g) PROVE CloseInv'
  BY <1>28 DEF Load, Emit
<1>29. ASSUME NEW g \in Generation, LoadFails(g) PROVE CloseInv'
  BY <1>29 DEF LoadFails, Emit
<1>30. ASSUME NEW g \in Generation, Serve(g) PROVE CloseInv'
  BY <1>30 DEF Serve, Emit
<1>31. ASSUME NEW g \in Generation, Exit(g) PROVE CloseInv'
  BY <1>31 DEF Exit
<1>32. ASSUME NEW g \in Generation, Reap(g) PROVE CloseInv'
  BY <1>32 DEF Reap
<1>33. CASE UNCHANGED vars
  BY <1>33 DEF vars
<1> QED
  BY <1>1, <1>2, <1>3, <1>4, <1>5, <1>6, <1>7, <1>8, <1>9, <1>10, <1>11, <1>12, <1>13, <1>14,
     <1>15, <1>16, <1>17, <1>18, <1>19, <1>20, <1>21, <1>22, <1>23, <1>24, <1>25, <1>26, <1>27,
     <1>28, <1>29, <1>30, <1>31, <1>32, <1>33
     DEF Next, Operation, Close, Cancellation, Timer, Worker
-----------------------------------------------------------------------------
\* The client starts in the invariant.
LEMMA InitInv == Init => IInv
<1> SUFFICES ASSUME Init PROVE IInv
  OBVIOUS
<1>1. Started = {} /\ Cardinality(Started) = 0
  BY FS_EmptySet DEF Init, Started
<1>2. ClientTypes
  <2>1. closed \in BOOLEAN /\ closeRequested \in BOOLEAN
    BY DEF Init
  <2>2. /\ owner = NoCall /\ state = "NEW"
        /\ generation = 0 /\ process = 0
    BY DEF Init
  <2> QED BY <2>1, <2>2 DEF ClientTypes
<1>3. CallTypes
  BY DEF Init, ClientTypes, CallTypes
<1>4. WorkerTypes
  BY DEF Init, WorkerTypes
<1>5. TypeInv
  BY <1>1, <1>2, <1>3, <1>4 DEF Init, TypeInv
<1>6. OperationsSerialized /\ SpawnInv /\ NoLostWorker
  BY DEF Init, OperationsSerialized, SpawnInv, NoLostWorker, Locked, Working, Killing
<1>7. ClosePhases /\ CloseInv
  BY DEF Init, ClosePhases, CloseInv
<1> QED BY <1>5, <1>6, <1>7 DEF IInv, AliveInv

\* The bound on the generation of TypeOK follows from the count of Started.
LEMMA TypeInvImplies == ASSUME TypeInv PROVE TypeOK /\ (process # 0 => process \in Generation)
<1>1. Cardinality(Started) <= Cardinality(Call) /\ IsFiniteSet(Started)
  BY ClientAssumption, FS_Subset DEF Started
<1>2. Cardinality(Started) \in Nat /\ Cardinality(Call) \in Nat
  BY <1>1, ClientAssumption, FS_CardinalityType
<1>3. generation \in 0..Cardinality(Call)
  BY <1>1, <1>2 DEF TypeInv, ClientTypes
<1>4. process # 0 => process \in Generation
  BY <1>2, <1>3 DEF TypeInv, ClientTypes, Generation
<1> QED BY <1>3, <1>4 DEF TypeInv, ClientTypes, CallTypes, WorkerTypes, TypeOK

\* The invariant is inductive.
LEMMA InductiveInv == ASSUME IInv, [Next]_vars PROVE IInv'
<1> USE DEF IInv
<1>1. TypeInv'
  <2>1. ClientTypes'
    BY ClientStep DEF TypeInv
  <2>2. CallTypes'
    BY CallStep DEF TypeInv
  <2>3. WorkerTypes'
    BY TypeInvImplies, WorkerStep DEF TypeInv
  <2>4. generation' <= Cardinality(Started')
    BY GenerationStep
  <2> QED BY <2>1, <2>2, <2>3, <2>4 DEF TypeInv
<1>2. OperationsSerialized' /\ AliveInv'
  BY SerialStep, AliveStep
<1>3. ClosePhases' /\ CloseInv'
  BY PhasesStep, CloseStep
<1> QED BY <1>1, <1>2, <1>3

\* The invariant holds of every behaviour of the client.
THEOREM Invariance == Spec => []IInv
BY InitInv, InductiveInv, PTL DEF Spec

\* Every variable of the client, its calls and its workers keeps its type; no
\* more workers are started than there are calls (_generation of
\* ProcessEmbeddings).
THEOREM TypeCorrect == Spec => []TypeOK
<1>1. IInv => TypeOK
  BY TypeInvImplies DEF IInv
<1> QED BY <1>1, Invariance, PTL

\* _operation_lock and the acquired flags: start, embed_batch and aclose work
\* on the worker one at a time, whatever was cancelled or timed out.
THEOREM Serialized == Spec => []OperationsSerialized
<1>1. IInv => OperationsSerialized
  BY DEF IInv
<1> QED BY <1>1, Invariance, PTL

\* _ensure_started_locked and _stop_process_locked: at most one worker is not
\* reaped, and _process still refers to it.
THEOREM WorkerKept == Spec => []NoLostWorker
<1>1. IInv => NoLostWorker
  BY DEF IInv, AliveInv
<1> QED BY <1>1, Invariance, PTL

\* aclose: once one has returned normally there is no worker, and no call can
\* start one any more.
THEOREM StaysClosed == Spec => []ClosedForGood
<1>1. IInv => ClosedForGood
  BY DEF IInv, CloseInv, Gone, ClosedForGood
<1> QED BY <1>1, Invariance, PTL
-----------------------------------------------------------------------------
(* The pipes.  No answer reaches a later call, and a killed worker is not used *)
(* again.  Both rest on one argument: the client is READY only between two     *)
(* operations, with nothing left in the pipes (ReadyInv), and every other end  *)
(* of an operation kills the worker (KilledInv).                               *)

\* Nothing is in the pipes of worker g.
Empty(g) == stdin[g] = <<>> /\ stdout[g] = <<>>

\* One line of worker g waits to be read.
Answered(g, to) ==
  stdin[g] = <<>> /\ \E m \in Message : m.to \in to /\ stdout[g] = <<m>>

\* At most the worker's first line is in its pipes.
Greeting(g) == Empty(g) \/ Answered(g, Call \cup {NoCall})

\* At most c's request or its answer.
Exchanging(g, c) ==
  Empty(g) \/ (stdin[g] = <<c>> /\ stdout[g] = <<>>) \/ Answered(g, {c, NoCall})

\* Workers that have not been created, or not answered, have empty pipes.
WorkerInv ==
  \A g \in Generation :
    /\ life[g] \in {"absent", "loading"} => Empty(g)
    /\ g > generation => life[g] = "absent"

\* What the holder of the lock may find in the pipes.
ServingInv ==
  \A c \in Call :
    /\ pc[c] \in Locked => state # "READY"
    /\ pc[c] = "spawn" => generation \in Generation /\ life[generation] = "absent"
    /\ pc[c] = "hello" => process \in Generation /\ life[process] # "absent" /\ Greeting(process)
    /\ pc[c] = "exchange" => /\ process \in Generation
                             /\ life[process] \notin {"absent", "loading"}
                             /\ Exchanging(process, c)

\* What the next holder finds.
ReadyInv ==
  state = "READY" /\ process # 0
    => /\ process \in Generation
       /\ life[process] \notin {"absent", "loading"}
       /\ Empty(process)

PipesInv == WorkerInv /\ ServingInv /\ ReadyInv

\* An aclose has announced itself before it waits.
ClosersInv ==
  \A c \in Call :
    pc[c] \in {"close1", "close2", "interrupt", "interruptCancel", "flush", "drain", "killClose"}
      => closeRequested

\* Only an aclose kills the worker of another operation.
KilledInv ==
  /\ \A g \in killed : g <= generation /\ \A c \in Call : pc[c] = "spawn" => g # generation
  /\ process \in killed /\ (state = "READY" \/ \E c \in Call : pc[c] \in {"hello", "exchange"})
       => closeRequested

ReuseInv == ClosersInv /\ KilledInv

\* A forced stop kills the worker of the operation that gives up.
LEMMA ForceStopKilled ==
  ASSUME TypeInv, OperationsSerialized, SpawnInv, ServingInv, KilledInv,
         NEW c \in Call, pc[c] \in Working, NEW l \in {"killFail", "killCancel"},
         ForceStop(c, l), UNCHANGED <<generation, closeRequested>>
  PROVE  KilledInv'
<1>1. \A k \in Call \ {c} : pc[k] \notin Working
  BY DEF OperationsSerialized, Locked
<1>2. state # "READY"
  BY DEF ServingInv, Locked
<1>3. \A k \in Call : pc'[k] \notin Working /\ pc'[k] # "spawn"
  BY <1>1 DEF ForceStop, At, Return, Ended, TypeInv, CallTypes, Working
<1>4. state' # "READY"
  BY <1>2 DEF ForceStop, Return
<1>5. killed' \subseteq killed \cup {process} /\ process <= generation /\ generation' = generation
  BY DEF ForceStop, TypeInv, ClientTypes
<1>6. \A g \in killed' : g <= generation'
  BY <1>5 DEF KilledInv
<1> QED BY <1>3, <1>4, <1>6 DEF KilledInv, Working
-----------------------------------------------------------------------------
(* What is in the pipes *)

\* Workers are numbered from 1, and a spawn takes the next number.
LEMMA Numbers == \A g \in Generation : g \in Nat \ {0}
<1>1. Cardinality(Call) \in Nat
  BY ClientAssumption, FS_CardinalityType
<1> QED BY <1>1 DEF Generation

\* The number of the worker that is being created is a generation.
LEMMA SpawnNumber ==
  ASSUME TypeInv, TypeInv', NEW c, BeginSpawn(c)
  PROVE  generation' \in Generation
<1>1. IsFiniteSet(Started') /\ Cardinality(Call) \in Nat
  BY ClientAssumption, FS_Subset, FS_CardinalityType DEF Started
<1>2. Cardinality(Started') <= Cardinality(Call)
  BY ClientAssumption, FS_Subset DEF Started
<1> QED
  BY <1>1, <1>2, FS_CardinalityType DEF BeginSpawn, TypeInv, ClientTypes, Generation

\* Reading the only line leaves the pipe empty.
LEMMA ReadOne ==
  ASSUME TypeInv, process \in Generation, NEW m, stdout[process] = <<m>>,
         stdout' = [stdout EXCEPT ![process] = Tail(@)]
  PROVE  stdout'[process] = <<>>
BY DEF TypeInv, WorkerTypes

\* Writing to an empty pipe leaves one line there.
LEMMA EmitOne ==
  ASSUME TypeInv, NEW g \in Generation, stdout[g] = <<>>, NEW to \in Call \cup {NoCall},
         NEW kind \in {"ready", "result", "failure", "garbage"}, Emit(g, kind, to)
  PROVE  \E m \in Message : m.to = to /\ stdout'[g] = <<m>>
<1> DEFINE m == [kind |-> kind, to |-> to]
<1>1. m \in Message /\ m.to = to
  BY DEF Message
<1>2. stdout'[g] = <<m>>
  BY DEF Emit, TypeInv, WorkerTypes
<1> QED BY <1>1, <1>2

\* A worker that has not answered yet has empty pipes, after any step.
LEMMA WorkerInvStep == ASSUME TypeInv, OperationsSerialized, PipesInv, [Next]_vars PROVE WorkerInv'
<1> USE ClientAssumption DEF TypeInv, ClientTypes, CallTypes, WorkerTypes, PipesInv,
            WorkerInv, ServingInv, ReadyInv, Empty, Locked, Locking, Working, Killing,
            clientVars, callVars, workerVars
<1>1. ASSUME NEW c \in Call, Begin(c) PROVE WorkerInv'
  BY <1>1 DEF Begin
<1>2. ASSUME NEW c \in Call, EnterRefused(c) PROVE WorkerInv'
  BY <1>2 DEF EnterRefused, Refused, Ended
<1>3. ASSUME NEW c \in Call, EnterReady(c) PROVE WorkerInv'
  BY <1>3 DEF EnterReady, Proceed, Refused, Running, Return, Ended, At
<1>4. ASSUME NEW c \in Call, EnterStale(c) PROVE WorkerInv'
  BY <1>4 DEF EnterStale, Running, At, Refused
<1>5. ASSUME NEW c \in Call, EnterCold(c) PROVE WorkerInv'
  BY <1>5, Numbers DEF EnterCold, BeginSpawn
<1>6. ASSUME NEW c \in Call, Spawned(c) PROVE WorkerInv'
  BY <1>6 DEF Spawned, At
<1>7. ASSUME NEW c \in Call, SpawnFailed(c) PROVE WorkerInv'
  BY <1>7 DEF SpawnFailed, ForceStop, Running, At, Return, Ended
<1>8. ASSUME NEW c \in Call, Hello(c) PROVE WorkerInv'
  BY <1>8 DEF Hello, Proceed, ForceStop, Running, At, Return, Ended
<1>9. ASSUME NEW c \in Call, Answer(c) PROVE WorkerInv'
  BY <1>9 DEF Answer, ForceStop, Running, At, Return, Ended
<1>10. ASSUME NEW c \in Call, WorkerGone(c) PROVE WorkerInv'
  BY <1>10 DEF WorkerGone, Return, Ended
<1>11. ASSUME NEW c \in Call, Killed(c) PROVE WorkerInv'
  BY <1>11, Numbers DEF Killed, BeginSpawn
<1>12. ASSUME NEW c \in Call, CloseBegin(c) PROVE WorkerInv'
  BY <1>12 DEF CloseBegin
<1>13. ASSUME NEW c \in Call, CloseEnter(c) PROVE WorkerInv'
  BY <1>13 DEF CloseEnter, Running, At, Ended
<1>14. ASSUME NEW c \in Call, InterruptDone(c) PROVE WorkerInv'
  BY <1>14 DEF InterruptDone, At
<1>15. ASSUME NEW c \in Call, CloseCancelled(c) PROVE WorkerInv'
  BY <1>15 DEF CloseCancelled, Withdraw, Release, Ended
<1>16. ASSUME NEW c \in Call, Drained(c) PROVE WorkerInv'
  BY <1>16 DEF Drained, Running, Return, Ended
<1>17. ASSUME NEW c \in Call, Flushed(c) PROVE WorkerInv'
  BY <1>17 DEF Flushed, At
<1>18. ASSUME NEW c \in Call, OperationCancel(c) PROVE WorkerInv'
  BY <1>18 DEF OperationCancel, ForceStop, Running, At, Return, Ended
<1>19. ASSUME NEW c \in Call, CloseCancel(c) PROVE WorkerInv'
  BY <1>19 DEF CloseCancel, InterruptProcess, Running, At, Withdraw, Release, Ended
<1>20. ASSUME NEW c \in Call, KillCancel(c) PROVE WorkerInv'
  BY <1>20 DEF KillCancel, Return, Ended
<1>21. ASSUME NEW c \in Call, LockCancel(c) PROVE WorkerInv'
  BY <1>21 DEF LockCancel, Ended
<1>22. ASSUME NEW c \in Call, OperationTimeout(c) PROVE WorkerInv'
  BY <1>22 DEF OperationTimeout, ForceStop, Running, At, Return, Ended
<1>23. ASSUME NEW c \in Call, KillTimeout(c) PROVE WorkerInv'
  BY <1>23 DEF KillTimeout, Running, Return, Ended
<1>24. ASSUME NEW c \in Call, LockTimeout(c) PROVE WorkerInv'
  BY <1>24 DEF LockTimeout, Ended
<1>25. ASSUME NEW c \in Call, CloseLockTimeout(c) PROVE WorkerInv'
  BY <1>25 DEF CloseLockTimeout, InterruptProcess, Running, At
<1>26. ASSUME NEW c \in Call, InterruptTimeout(c) PROVE WorkerInv'
  BY <1>26 DEF InterruptTimeout, Withdraw, Release, Ended
<1>27. ASSUME NEW c \in Call, DrainTimeout(c) PROVE WorkerInv'
  BY <1>27 DEF DrainTimeout, Running, At
<1>28. ASSUME NEW g \in Generation, Load(g) PROVE WorkerInv'
  BY <1>28 DEF Load, Emit
<1>29. ASSUME NEW g \in Generation, LoadFails(g) PROVE WorkerInv'
  BY <1>29 DEF LoadFails, Emit
<1>30. ASSUME NEW g \in Generation, Serve(g) PROVE WorkerInv'
  BY <1>30 DEF Serve, Emit
<1>31. ASSUME NEW g \in Generation, Exit(g) PROVE WorkerInv'
  BY <1>31 DEF Exit
<1>32. ASSUME NEW g \in Generation, Reap(g) PROVE WorkerInv'
  BY <1>32 DEF Reap
<1>33. CASE UNCHANGED vars
  BY <1>33 DEF vars
<1> QED
  BY <1>1, <1>2, <1>3, <1>4, <1>5, <1>6, <1>7, <1>8, <1>9, <1>10, <1>11, <1>12, <1>13, <1>14,
     <1>15, <1>16, <1>17, <1>18, <1>19, <1>20, <1>21, <1>22, <1>23, <1>24, <1>25, <1>26, <1>27,
     <1>28, <1>29, <1>30, <1>31, <1>32, <1>33
     DEF Next, Operation, Close, Cancellation, Timer, Worker

\* Every step leaves in the pipes of the worker what its call may find there.
LEMMA ServingStep == ASSUME TypeInv, TypeInv', OperationsSerialized, SpawnInv, PipesInv, [Next]_vars PROVE ServingInv'
<1> USE ClientAssumption DEF TypeInv, ClientTypes, CallTypes, WorkerTypes,
            OperationsSerialized, SpawnInv, PipesInv, WorkerInv, ServingInv, ReadyInv,
            Empty, Answered, Greeting, Exchanging, Locked, Locking, Working, Killing,
            clientVars, callVars, workerVars
<1>1. ASSUME NEW c \in Call, Begin(c) PROVE ServingInv'
  BY <1>1 DEF Begin
<1>2. ASSUME NEW c \in Call, EnterRefused(c) PROVE ServingInv'
  BY <1>2 DEF EnterRefused, Refused, Ended
<1>3. ASSUME NEW c \in Call, EnterReady(c) PROVE ServingInv'
  BY <1>3 DEF EnterReady, Proceed, Refused, Running, Return, Ended, At
<1>4. ASSUME NEW c \in Call, EnterStale(c) PROVE ServingInv'
  BY <1>4 DEF EnterStale, Running, At, Refused
<1>5. ASSUME NEW c \in Call, EnterCold(c) PROVE ServingInv'
  <2>1. generation' \in Generation /\ generation' > generation
    BY <1>5, SpawnNumber DEF EnterCold, BeginSpawn
  <2> QED BY <1>5, <2>1 DEF EnterCold, BeginSpawn, At
<1>6. ASSUME NEW c \in Call, Spawned(c) PROVE ServingInv'
  BY <1>6 DEF Spawned, At
<1>7. ASSUME NEW c \in Call, SpawnFailed(c) PROVE ServingInv'
  BY <1>7 DEF SpawnFailed, ForceStop, Running, At, Return, Ended
<1>8. ASSUME NEW c \in Call, Hello(c) PROVE ServingInv'
  <2>1. process \in Generation /\ life[process] \notin {"absent", "loading"}
    BY <1>8 DEF Hello
  <2>2. PICK m \in Message : stdin[process] = <<>> /\ stdout[process] = <<m>>
    BY <1>8 DEF Hello
  <2>3. stdout'[process] = <<>>
    BY <1>8, <2>1, <2>2, ReadOne DEF Hello
  <2>4. CASE m.kind = "ready" /\ op[c] = "embed"
    <3>1. stdin'[process] \in {<<>>, <<c>>}
      BY <1>8, <2>1, <2>2, <2>4 DEF Hello, Proceed
    <3> QED BY <1>8, <2>1, <2>2, <2>3, <2>4, <3>1 DEF Hello, Proceed, At
  <2>5. CASE m.kind = "ready" /\ op[c] # "embed"
    BY <1>8, <2>2, <2>5 DEF Hello, Proceed, Return, Ended
  <2>6. CASE m.kind # "ready"
    BY <1>8, <2>2, <2>6 DEF Hello, ForceStop, Running, At, Return, Ended
  <2> QED BY <2>4, <2>5, <2>6
<1>9. ASSUME NEW c \in Call, Answer(c) PROVE ServingInv'
  <2>1. \A k \in Call \ {c} : pc[k] \notin Locked
    BY <1>9 DEF Answer
  <2>2. \/ pc' = [pc EXCEPT ![c] = "done"]
        \/ pc' = [pc EXCEPT ![c] = "killFail"] /\ state' = state
    <3>1. CASE ForceStop(c, "killFail")
      BY <3>1 DEF ForceStop, At, Return, Ended
    <3>2. CASE ~ForceStop(c, "killFail")
      BY <1>9, <3>2 DEF Answer, Return, Ended
    <3> QED BY <3>1, <3>2
  <2>3. \A k \in Call \ {c} : pc'[k] \notin Locked
    <3>1. \A k \in Call \ {c} : pc'[k] = pc[k]
      BY <2>2
    <3> QED BY <2>1, <3>1
  <2>4. pc'[c] = "done" \/ (pc'[c] = "killFail" /\ state' # "READY")
    BY <1>9, <2>2 DEF Answer
  <2> QED BY <2>3, <2>4
<1>10. ASSUME NEW c \in Call, WorkerGone(c) PROVE ServingInv'
  BY <1>10 DEF WorkerGone, Return, Ended
<1>11. ASSUME NEW c \in Call, Killed(c) PROVE ServingInv'
  <2> HIDE DEF Empty, Answered, Greeting, Exchanging
  <2>3. \A k \in Call \ {c} : pc[k] \notin Locked
    BY <1>11 DEF Killed
  <2>1. CASE pc[c] = "killRestart"
    <3>1. BeginSpawn(c)
      BY <1>11, <2>1 DEF Killed
    <3>2. generation' \in Generation /\ generation' > generation
      BY <3>1, SpawnNumber DEF BeginSpawn
    <3> QED BY <1>11, <3>1, <3>2, <2>3 DEF Killed, BeginSpawn, At
  <2>2. CASE pc[c] # "killRestart"
    <3>1. pc' = [pc EXCEPT ![c] = "done"]
      BY <1>11, <2>2 DEF Killed, Return, Ended
    <3> QED BY <1>11, <2>3, <3>1
  <2> QED BY <2>1, <2>2
<1>12. ASSUME NEW c \in Call, CloseBegin(c) PROVE ServingInv'
  BY <1>12 DEF CloseBegin
<1>13. ASSUME NEW c \in Call, CloseEnter(c) PROVE ServingInv'
  BY <1>13 DEF CloseEnter, Running, At, Ended
<1>14. ASSUME NEW c \in Call, InterruptDone(c) PROVE ServingInv'
  BY <1>14 DEF InterruptDone, At
<1>15. ASSUME NEW c \in Call, CloseCancelled(c) PROVE ServingInv'
  BY <1>15 DEF CloseCancelled, Withdraw, Release, Ended
<1>16. ASSUME NEW c \in Call, Drained(c) PROVE ServingInv'
  BY <1>16 DEF Drained, Running, Return, Ended
<1>17. ASSUME NEW c \in Call, Flushed(c) PROVE ServingInv'
  BY <1>17 DEF Flushed, At
<1>18. ASSUME NEW c \in Call, OperationCancel(c) PROVE ServingInv'
  BY <1>18 DEF OperationCancel, ForceStop, Running, At, Return, Ended
<1>19. ASSUME NEW c \in Call, CloseCancel(c) PROVE ServingInv'
  BY <1>19 DEF CloseCancel, InterruptProcess, Running, At, Withdraw, Release, Ended
<1>20. ASSUME NEW c \in Call, KillCancel(c) PROVE ServingInv'
  BY <1>20 DEF KillCancel, Return, Ended
<1>21. ASSUME NEW c \in Call, LockCancel(c) PROVE ServingInv'
  BY <1>21 DEF LockCancel, Ended
<1>22. ASSUME NEW c \in Call, OperationTimeout(c) PROVE ServingInv'
  BY <1>22 DEF OperationTimeout, ForceStop, Running, At, Return, Ended
<1>23. ASSUME NEW c \in Call, KillTimeout(c) PROVE ServingInv'
  BY <1>23 DEF KillTimeout, Running, Return, Ended
<1>24. ASSUME NEW c \in Call, LockTimeout(c) PROVE ServingInv'
  BY <1>24 DEF LockTimeout, Ended
<1>25. ASSUME NEW c \in Call, CloseLockTimeout(c) PROVE ServingInv'
  BY <1>25 DEF CloseLockTimeout, InterruptProcess, Running, At
<1>26. ASSUME NEW c \in Call, InterruptTimeout(c) PROVE ServingInv'
  BY <1>26 DEF InterruptTimeout, Withdraw, Release, Ended
<1>27. ASSUME NEW c \in Call, DrainTimeout(c) PROVE ServingInv'
  BY <1>27 DEF DrainTimeout, Running, At
<1>28. ASSUME NEW g \in Generation, Load(g) PROVE ServingInv'
  <2>1. \E m \in Message : m.to = NoCall /\ stdout'[g] = <<m>>
    BY <1>28, EmitOne DEF Load
  <2>2. \A h \in Generation \ {g} : stdout'[h] = stdout[h]
    BY <1>28 DEF Load, Emit
  <2> QED BY <1>28, <2>1, <2>2 DEF Load
<1>29. ASSUME NEW g \in Generation, LoadFails(g) PROVE ServingInv'
  <2>1. \E m \in Message : m.to = NoCall /\ stdout'[g] = <<m>>
    BY <1>29, EmitOne DEF LoadFails
  <2>2. \A h \in Generation \ {g} : stdout'[h] = stdout[h]
    BY <1>29 DEF LoadFails, Emit
  <2> QED BY <1>29, <2>1, <2>2 DEF LoadFails
<1>30. ASSUME NEW g \in Generation, Serve(g) PROVE ServingInv'
  <2>1. \A h \in Generation \ {g} : stdin'[h] = stdin[h] /\ stdout'[h] = stdout[h]
    BY <1>30 DEF Serve, Emit
  <2>2. ASSUME NEW c \in Call, pc[c] = "exchange", process = g
        PROVE  Exchanging(process, c)'
    <3>1. stdin[g] = <<c>> /\ stdout[g] = <<>>
      BY <1>30, <2>2 DEF Serve
    <3>2. stdin'[g] = <<>>
      BY <1>30, <3>1 DEF Serve
    <3>3. \E m \in Message : m.to \in {c, NoCall} /\ stdout'[g] = <<m>>
      BY <1>30, <3>1, EmitOne DEF Serve
    <3>4. process' = g
      BY <1>30, <2>2 DEF Serve
    <3> QED BY <3>2, <3>3, <3>4
  <2>3. \A c \in Call : ~(pc[c] = "hello" /\ process = g)
    BY <1>30 DEF Serve
  <2>4. ASSUME NEW k \in Call, pc[k] = "hello" PROVE Greeting(process)'
    BY <1>30, <2>1, <2>3, <2>4 DEF Serve
  <2>5. ASSUME NEW k \in Call, pc[k] = "exchange" PROVE Exchanging(process, k)'
    <3>1. CASE process = g
      BY <2>2, <2>5, <3>1
    <3>2. CASE process # g
      <4>1. stdin'[process] = stdin[process] /\ stdout'[process] = stdout[process]
        BY <2>1, <2>5, <3>2
      <4>2. Exchanging(process, k) /\ process' = process
        BY <1>30, <2>5 DEF Serve
      <4> QED BY <4>1, <4>2
    <3> QED BY <3>1, <3>2
  <2> HIDE DEF Empty, Answered, Greeting, Exchanging
  <2> QED BY <1>30, <2>4, <2>5 DEF Serve
<1>31. ASSUME NEW g \in Generation, Exit(g) PROVE ServingInv'
  BY <1>31 DEF Exit
<1>32. ASSUME NEW g \in Generation, Reap(g) PROVE ServingInv'
  BY <1>32 DEF Reap
<1>33. CASE UNCHANGED vars
  BY <1>33 DEF vars
<1> QED
  BY <1>1, <1>2, <1>3, <1>4, <1>5, <1>6, <1>7, <1>8, <1>9, <1>10, <1>11, <1>12, <1>13, <1>14,
     <1>15, <1>16, <1>17, <1>18, <1>19, <1>20, <1>21, <1>22, <1>23, <1>24, <1>25, <1>26, <1>27,
     <1>28, <1>29, <1>30, <1>31, <1>32, <1>33
     DEF Next, Operation, Close, Cancellation, Timer, Worker

\* A client becomes READY only when its worker's pipes are empty.
LEMMA ReadyStep == ASSUME TypeInv, OperationsSerialized, SpawnInv, PipesInv, [Next]_vars PROVE ReadyInv'
<1> USE ClientAssumption DEF TypeInv, ClientTypes, CallTypes, WorkerTypes,
            OperationsSerialized, SpawnInv, PipesInv, ServingInv, ReadyInv, Empty,
            Answered, Greeting, Exchanging, Locked, Locking, Working, Killing, clientVars,
            callVars, workerVars
<1>1. ASSUME NEW c \in Call, Begin(c) PROVE ReadyInv'
  BY <1>1 DEF Begin
<1>2. ASSUME NEW c \in Call, EnterRefused(c) PROVE ReadyInv'
  BY <1>2 DEF EnterRefused, Refused, Ended
<1>3. ASSUME NEW c \in Call, EnterReady(c) PROVE ReadyInv'
  BY <1>3 DEF EnterReady, Proceed, Refused, Running, Return, Ended, At
<1>4. ASSUME NEW c \in Call, EnterStale(c) PROVE ReadyInv'
  BY <1>4 DEF EnterStale, Running, At, Refused
<1>5. ASSUME NEW c \in Call, EnterCold(c) PROVE ReadyInv'
  BY <1>5 DEF EnterCold, Refused, Running, BeginSpawn, At
<1>6. ASSUME NEW c \in Call, Spawned(c) PROVE ReadyInv'
  BY <1>6 DEF Spawned, At
<1>7. ASSUME NEW c \in Call, SpawnFailed(c) PROVE ReadyInv'
  BY <1>7 DEF SpawnFailed, ForceStop, Running, At, Return, Ended
<1>8. ASSUME NEW c \in Call, Hello(c) PROVE ReadyInv'
  <2>1. PICK m \in Message : stdin[process] = <<>> /\ stdout[process] = <<m>>
    BY <1>8 DEF Hello
  <2>2. process \in Generation /\ life[process] \notin {"absent", "loading"}
    BY <1>8 DEF Hello, WorkerInv
  <2>3. stdout'[process] = <<>>
    BY <1>8, <2>1, <2>2, ReadOne DEF Hello
  <2>4. CASE m.kind = "ready"
    BY <1>8, <2>1, <2>2, <2>3, <2>4 DEF Hello, Proceed, Return, Ended
  <2>5. CASE m.kind # "ready"
    BY <1>8, <2>1, <2>5 DEF Hello, ForceStop
  <2> QED BY <2>4, <2>5
<1>9. ASSUME NEW c \in Call, Answer(c) PROVE ReadyInv'
  <2>1. PICK m \in Message : stdin[process] = <<>> /\ stdout[process] = <<m>>
    BY <1>9 DEF Answer
  <2>2. process \in Generation /\ life[process] \notin {"absent", "loading"}
    BY <1>9 DEF Answer
  <2>3. stdout'[process] = <<>>
    BY <1>9, <2>1, <2>2, ReadOne DEF Answer
  <2>4. CASE state' = "READY"
    BY <1>9, <2>1, <2>2, <2>3, <2>4 DEF Answer, ForceStop
  <2> QED BY <2>4
<1>10. ASSUME NEW c \in Call, WorkerGone(c) PROVE ReadyInv'
  BY <1>10 DEF WorkerGone, Return, Ended
<1>11. ASSUME NEW c \in Call, Killed(c) PROVE ReadyInv'
  BY <1>11 DEF Killed, Running, BeginSpawn, At, Return, Ended
<1>12. ASSUME NEW c \in Call, CloseBegin(c) PROVE ReadyInv'
  BY <1>12 DEF CloseBegin
<1>13. ASSUME NEW c \in Call, CloseEnter(c) PROVE ReadyInv'
  BY <1>13 DEF CloseEnter, Running, At, Ended
<1>14. ASSUME NEW c \in Call, InterruptDone(c) PROVE ReadyInv'
  BY <1>14 DEF InterruptDone, At
<1>15. ASSUME NEW c \in Call, CloseCancelled(c) PROVE ReadyInv'
  BY <1>15 DEF CloseCancelled, Withdraw, Release, Ended
<1>16. ASSUME NEW c \in Call, Drained(c) PROVE ReadyInv'
  BY <1>16 DEF Drained, Running, Return, Ended
<1>17. ASSUME NEW c \in Call, Flushed(c) PROVE ReadyInv'
  BY <1>17 DEF Flushed, At
<1>18. ASSUME NEW c \in Call, OperationCancel(c) PROVE ReadyInv'
  BY <1>18 DEF OperationCancel, ForceStop, Running, At, Return, Ended
<1>19. ASSUME NEW c \in Call, CloseCancel(c) PROVE ReadyInv'
  BY <1>19 DEF CloseCancel, InterruptProcess, Running, At, Withdraw, Release, Ended
<1>20. ASSUME NEW c \in Call, KillCancel(c) PROVE ReadyInv'
  BY <1>20 DEF KillCancel, Return, Ended
<1>21. ASSUME NEW c \in Call, LockCancel(c) PROVE ReadyInv'
  BY <1>21 DEF LockCancel, Ended
<1>22. ASSUME NEW c \in Call, OperationTimeout(c) PROVE ReadyInv'
  BY <1>22 DEF OperationTimeout, ForceStop, Running, At, Return, Ended
<1>23. ASSUME NEW c \in Call, KillTimeout(c) PROVE ReadyInv'
  BY <1>23 DEF KillTimeout, Running, Return, Ended
<1>24. ASSUME NEW c \in Call, LockTimeout(c) PROVE ReadyInv'
  BY <1>24 DEF LockTimeout, Ended
<1>25. ASSUME NEW c \in Call, CloseLockTimeout(c) PROVE ReadyInv'
  BY <1>25 DEF CloseLockTimeout, InterruptProcess, Running, At
<1>26. ASSUME NEW c \in Call, InterruptTimeout(c) PROVE ReadyInv'
  BY <1>26 DEF InterruptTimeout, Withdraw, Release, Ended
<1>27. ASSUME NEW c \in Call, DrainTimeout(c) PROVE ReadyInv'
  BY <1>27 DEF DrainTimeout, Running, At
<1>28. ASSUME NEW g \in Generation, Load(g) PROVE ReadyInv'
  BY <1>28 DEF Load, Emit
<1>29. ASSUME NEW g \in Generation, LoadFails(g) PROVE ReadyInv'
  BY <1>29 DEF LoadFails, Emit
<1>30. ASSUME NEW g \in Generation, Serve(g) PROVE ReadyInv'
  BY <1>30 DEF Serve, Emit
<1>31. ASSUME NEW g \in Generation, Exit(g) PROVE ReadyInv'
  BY <1>31 DEF Exit
<1>32. ASSUME NEW g \in Generation, Reap(g) PROVE ReadyInv'
  BY <1>32 DEF Reap
<1>33. CASE UNCHANGED vars
  BY <1>33 DEF vars
<1> QED
  BY <1>1, <1>2, <1>3, <1>4, <1>5, <1>6, <1>7, <1>8, <1>9, <1>10, <1>11, <1>12, <1>13, <1>14,
     <1>15, <1>16, <1>17, <1>18, <1>19, <1>20, <1>21, <1>22, <1>23, <1>24, <1>25, <1>26, <1>27,
     <1>28, <1>29, <1>30, <1>31, <1>32, <1>33
     DEF Next, Operation, Close, Cancellation, Timer, Worker
-----------------------------------------------------------------------------
(* Killed workers *)

\* An aclose stays announced.
LEMMA ClosersStep == ASSUME TypeInv, ClosersInv, [Next]_vars PROVE ClosersInv'
<1> USE ClientAssumption DEF TypeInv, CallTypes, ClosersInv, Locked, Locking, Working,
            Killing, clientVars, callVars, workerVars
<1>1. ASSUME NEW c \in Call, Begin(c) PROVE ClosersInv'
  BY <1>1 DEF Begin
<1>2. ASSUME NEW c \in Call, EnterRefused(c) PROVE ClosersInv'
  BY <1>2 DEF EnterRefused, Refused, Ended
<1>3. ASSUME NEW c \in Call, EnterReady(c) PROVE ClosersInv'
  BY <1>3 DEF EnterReady, Proceed, Refused, Running, Return, Ended, At
<1>4. ASSUME NEW c \in Call, EnterStale(c) PROVE ClosersInv'
  BY <1>4 DEF EnterStale, Running, At, Refused
<1>5. ASSUME NEW c \in Call, EnterCold(c) PROVE ClosersInv'
  BY <1>5 DEF EnterCold, Refused, Running, BeginSpawn, At
<1>6. ASSUME NEW c \in Call, Spawned(c) PROVE ClosersInv'
  BY <1>6 DEF Spawned, At
<1>7. ASSUME NEW c \in Call, SpawnFailed(c) PROVE ClosersInv'
  BY <1>7 DEF SpawnFailed, ForceStop, Running, At, Return, Ended
<1>8. ASSUME NEW c \in Call, Hello(c) PROVE ClosersInv'
  BY <1>8 DEF Hello, Proceed, ForceStop, Running, At, Return, Ended
<1>9. ASSUME NEW c \in Call, Answer(c) PROVE ClosersInv'
  BY <1>9 DEF Answer, ForceStop, Running, At, Return, Ended
<1>10. ASSUME NEW c \in Call, WorkerGone(c) PROVE ClosersInv'
  BY <1>10 DEF WorkerGone, Return, Ended
<1>11. ASSUME NEW c \in Call, Killed(c) PROVE ClosersInv'
  BY <1>11 DEF Killed, Running, BeginSpawn, At, Return, Ended
<1>12. ASSUME NEW c \in Call, CloseBegin(c) PROVE ClosersInv'
  BY <1>12 DEF CloseBegin
<1>13. ASSUME NEW c \in Call, CloseEnter(c) PROVE ClosersInv'
  BY <1>13 DEF CloseEnter, Running, At, Ended
<1>14. ASSUME NEW c \in Call, InterruptDone(c) PROVE ClosersInv'
  BY <1>14 DEF InterruptDone, At
<1>15. ASSUME NEW c \in Call, CloseCancelled(c) PROVE ClosersInv'
  BY <1>15 DEF CloseCancelled, Withdraw, Release, Ended
<1>16. ASSUME NEW c \in Call, Drained(c) PROVE ClosersInv'
  BY <1>16 DEF Drained, Running, Return, Ended
<1>17. ASSUME NEW c \in Call, Flushed(c) PROVE ClosersInv'
  BY <1>17 DEF Flushed, At
<1>18. ASSUME NEW c \in Call, OperationCancel(c) PROVE ClosersInv'
  BY <1>18 DEF OperationCancel, ForceStop, Running, At, Return, Ended
<1>19. ASSUME NEW c \in Call, CloseCancel(c) PROVE ClosersInv'
  BY <1>19 DEF CloseCancel, InterruptProcess, Running, At, Withdraw, Release, Ended
<1>20. ASSUME NEW c \in Call, KillCancel(c) PROVE ClosersInv'
  BY <1>20 DEF KillCancel, Return, Ended
<1>21. ASSUME NEW c \in Call, LockCancel(c) PROVE ClosersInv'
  BY <1>21 DEF LockCancel, Ended
<1>22. ASSUME NEW c \in Call, OperationTimeout(c) PROVE ClosersInv'
  BY <1>22 DEF OperationTimeout, ForceStop, Running, At, Return, Ended
<1>23. ASSUME NEW c \in Call, KillTimeout(c) PROVE ClosersInv'
  BY <1>23 DEF KillTimeout, Running, Return, Ended
<1>24. ASSUME NEW c \in Call, LockTimeout(c) PROVE ClosersInv'
  BY <1>24 DEF LockTimeout, Ended
<1>25. ASSUME NEW c \in Call, CloseLockTimeout(c) PROVE ClosersInv'
  BY <1>25 DEF CloseLockTimeout, InterruptProcess, Running, At
<1>26. ASSUME NEW c \in Call, InterruptTimeout(c) PROVE ClosersInv'
  BY <1>26 DEF InterruptTimeout, Withdraw, Release, Ended
<1>27. ASSUME NEW c \in Call, DrainTimeout(c) PROVE ClosersInv'
  BY <1>27 DEF DrainTimeout, Running, At
<1>28. ASSUME NEW g \in Generation, Load(g) PROVE ClosersInv'
  BY <1>28 DEF Load, Emit
<1>29. ASSUME NEW g \in Generation, LoadFails(g) PROVE ClosersInv'
  BY <1>29 DEF LoadFails, Emit
<1>30. ASSUME NEW g \in Generation, Serve(g) PROVE ClosersInv'
  BY <1>30 DEF Serve, Emit
<1>31. ASSUME NEW g \in Generation, Exit(g) PROVE ClosersInv'
  BY <1>31 DEF Exit
<1>32. ASSUME NEW g \in Generation, Reap(g) PROVE ClosersInv'
  BY <1>32 DEF Reap
<1>33. CASE UNCHANGED vars
  BY <1>33 DEF vars
<1> QED
  BY <1>1, <1>2, <1>3, <1>4, <1>5, <1>6, <1>7, <1>8, <1>9, <1>10, <1>11, <1>12, <1>13, <1>14,
     <1>15, <1>16, <1>17, <1>18, <1>19, <1>20, <1>21, <1>22, <1>23, <1>24, <1>25, <1>26, <1>27,
     <1>28, <1>29, <1>30, <1>31, <1>32, <1>33
     DEF Next, Operation, Close, Cancellation, Timer, Worker

\* A worker sent SIGKILL serves on only when an aclose killed it.
LEMMA KilledStep == ASSUME TypeInv, OperationsSerialized, SpawnInv, PipesInv, ReuseInv, [Next]_vars PROVE KilledInv'
<1> USE ClientAssumption DEF TypeInv, ClientTypes, CallTypes, WorkerTypes,
            OperationsSerialized, SpawnInv, PipesInv, ServingInv, ReuseInv, ClosersInv,
            KilledInv, Locked, Locking, Working, Killing, clientVars, callVars, workerVars
<1>1. ASSUME NEW c \in Call, Begin(c) PROVE KilledInv'
  BY <1>1 DEF Begin
<1>2. ASSUME NEW c \in Call, EnterRefused(c) PROVE KilledInv'
  BY <1>2 DEF EnterRefused, Refused, Ended
<1>3. ASSUME NEW c \in Call, EnterReady(c) PROVE KilledInv'
  BY <1>3 DEF EnterReady, Proceed, Refused, Running, Return, Ended, At
<1>4. ASSUME NEW c \in Call, EnterStale(c) PROVE KilledInv'
  BY <1>4 DEF EnterStale, Running, At, Refused
<1>5. ASSUME NEW c \in Call, EnterCold(c) PROVE KilledInv'
  <2>1. process' = 0 /\ killed' = killed /\ generation' = generation + 1
    BY <1>5 DEF EnterCold, BeginSpawn
  <2> QED BY <2>1, Numbers
<1>6. ASSUME NEW c \in Call, Spawned(c) PROVE KilledInv'
  BY <1>6 DEF Spawned, At
<1>7. ASSUME NEW c \in Call, SpawnFailed(c) PROVE KilledInv'
  BY <1>7, ForceStopKilled DEF SpawnFailed
<1>8. ASSUME NEW c \in Call, Hello(c) PROVE KilledInv'
  <2>1. \A k \in Call \ {c} : pc[k] \notin Locked /\ pc'[k] = pc[k]
    BY <1>8 DEF Hello, Proceed, ForceStop, At, Return, Ended
  <2>2. CASE Proceed(c) /\ UNCHANGED <<process, killed>>
    BY <1>8, <2>1, <2>2 DEF Hello, Proceed, At, Return, Ended
  <2>3. CASE ForceStop(c, "killFail")
    BY <1>8, <2>3, ForceStopKilled DEF Hello
  <2> QED BY <1>8, <2>2, <2>3 DEF Hello
<1>9. ASSUME NEW c \in Call, Answer(c) PROVE KilledInv'
  <2>1. \A k \in Call \ {c} : pc[k] \notin Locked /\ pc'[k] = pc[k]
    BY <1>9 DEF Answer, ForceStop, At, Return, Ended
  <2>2. CASE ForceStop(c, "killFail")
    BY <1>9, <2>2, ForceStopKilled DEF Answer
  <2>3. CASE ~ForceStop(c, "killFail")
    BY <1>9, <2>1, <2>3 DEF Answer, Return, Ended
  <2> QED BY <2>2, <2>3
<1>10. ASSUME NEW c \in Call, WorkerGone(c) PROVE KilledInv'
  BY <1>10 DEF WorkerGone, Return, Ended
<1>11. ASSUME NEW c \in Call, Killed(c) PROVE KilledInv'
  <2>1. \A k \in Call \ {c} : pc[k] \notin Locked
    BY <1>11 DEF Killed
  <2>2. process' = 0 /\ killed' = killed /\ generation' \in {generation, generation + 1}
    BY <1>11 DEF Killed, BeginSpawn
  <2>3. pc'[c] = "spawn" => generation' = generation + 1
    BY <1>11 DEF Killed, BeginSpawn, At, Return, Ended
  <2>4. \A k \in Call \ {c} : pc'[k] = pc[k]
    BY <1>11 DEF Killed, BeginSpawn, At, Return, Ended
  <2> QED BY <2>1, <2>2, <2>3, <2>4, Numbers
<1>12. ASSUME NEW c \in Call, CloseBegin(c) PROVE KilledInv'
  BY <1>12 DEF CloseBegin
<1>13. ASSUME NEW c \in Call, CloseEnter(c) PROVE KilledInv'
  BY <1>13 DEF CloseEnter, Running, At, Ended
<1>14. ASSUME NEW c \in Call, InterruptDone(c) PROVE KilledInv'
  BY <1>14 DEF InterruptDone, At
<1>15. ASSUME NEW c \in Call, CloseCancelled(c) PROVE KilledInv'
  BY <1>15 DEF CloseCancelled, Withdraw, Release, Ended
<1>16. ASSUME NEW c \in Call, Drained(c) PROVE KilledInv'
  BY <1>16 DEF Drained, Running, Return, Ended
<1>17. ASSUME NEW c \in Call, Flushed(c) PROVE KilledInv'
  BY <1>17 DEF Flushed, At
<1>18. ASSUME NEW c \in Call, OperationCancel(c) PROVE KilledInv'
  BY <1>18, ForceStopKilled DEF OperationCancel
<1>19. ASSUME NEW c \in Call, CloseCancel(c) PROVE KilledInv'
  BY <1>19 DEF CloseCancel, InterruptProcess, Running, At, Withdraw, Release, Ended
<1>20. ASSUME NEW c \in Call, KillCancel(c) PROVE KilledInv'
  BY <1>20 DEF KillCancel, Return, Ended
<1>21. ASSUME NEW c \in Call, LockCancel(c) PROVE KilledInv'
  BY <1>21 DEF LockCancel, Ended
<1>22. ASSUME NEW c \in Call, OperationTimeout(c) PROVE KilledInv'
  BY <1>22, ForceStopKilled DEF OperationTimeout
<1>23. ASSUME NEW c \in Call, KillTimeout(c) PROVE KilledInv'
  BY <1>23 DEF KillTimeout, Running, Return, Ended
<1>24. ASSUME NEW c \in Call, LockTimeout(c) PROVE KilledInv'
  BY <1>24 DEF LockTimeout, Ended
<1>25. ASSUME NEW c \in Call, CloseLockTimeout(c) PROVE KilledInv'
  BY <1>25 DEF CloseLockTimeout, InterruptProcess, Running, At
<1>26. ASSUME NEW c \in Call, InterruptTimeout(c) PROVE KilledInv'
  BY <1>26 DEF InterruptTimeout, Withdraw, Release, Ended
<1>27. ASSUME NEW c \in Call, DrainTimeout(c) PROVE KilledInv'
  BY <1>27 DEF DrainTimeout, Running, At
<1>28. ASSUME NEW g \in Generation, Load(g) PROVE KilledInv'
  BY <1>28 DEF Load, Emit
<1>29. ASSUME NEW g \in Generation, LoadFails(g) PROVE KilledInv'
  BY <1>29 DEF LoadFails, Emit
<1>30. ASSUME NEW g \in Generation, Serve(g) PROVE KilledInv'
  BY <1>30 DEF Serve, Emit
<1>31. ASSUME NEW g \in Generation, Exit(g) PROVE KilledInv'
  BY <1>31 DEF Exit
<1>32. ASSUME NEW g \in Generation, Reap(g) PROVE KilledInv'
  BY <1>32 DEF Reap
<1>33. CASE UNCHANGED vars
  BY <1>33 DEF vars
<1> QED
  BY <1>1, <1>2, <1>3, <1>4, <1>5, <1>6, <1>7, <1>8, <1>9, <1>10, <1>11, <1>12, <1>13, <1>14,
     <1>15, <1>16, <1>17, <1>18, <1>19, <1>20, <1>21, <1>22, <1>23, <1>24, <1>25, <1>26, <1>27,
     <1>28, <1>29, <1>30, <1>31, <1>32, <1>33
     DEF Next, Operation, Close, Cancellation, Timer, Worker

\* What the invariant says of the pipes is what OwnPipesOnly asks.
LEMMA PipesOwned == ASSUME TypeInv, PipesInv PROVE OwnPipesOnly
<1>1. ASSUME NEW s, NEW x, s = <<x>> PROVE ToSet(s) = {x} /\ Len(s) = 1
  BY <1>1 DEF ToSet
<1>2. ToSet(<<>>) = {} /\ Len(<<>>) = 0
  BY DEF ToSet
<1>3. ASSUME NEW c \in Call, pc[c] = "exchange"
      PROVE  /\ Len(stdin[process]) + Len(stdout[process]) <= 1
             /\ ToSet(stdin[process]) \subseteq {c}
             /\ \A m \in ToSet(stdout[process]) : m.to \in {c, NoCall}
  <2>1. Exchanging(process, c)
    BY <1>3 DEF PipesInv, ServingInv
  <2>2. CASE Empty(process)
    BY <1>2, <2>2 DEF Empty
  <2>3. CASE stdin[process] = <<c>> /\ stdout[process] = <<>>
    BY <1>1, <1>2, <2>3
  <2>4. CASE Answered(process, {c, NoCall})
    <3>1. PICK m \in Message : m.to \in {c, NoCall} /\ stdout[process] = <<m>>
      BY <2>4 DEF Answered
    <3> QED BY <1>1, <1>2, <2>4, <3>1 DEF Answered
  <2> QED BY <2>1, <2>2, <2>3, <2>4 DEF Exchanging
<1> QED BY <1>3 DEF OwnPipesOnly, PipesInv, ReadyInv, Empty

\* Only EnterReady and Hello write a request, and never to a killed worker unless
\* an aclose killed it.
LEMMA RequestWritten ==
  ASSUME TypeInv, PipesInv, ReuseInv, [Next]_vars, NEW g \in Generation,
         Len(stdin'[g]) > Len(stdin[g]), g \in killed
  PROVE  closeRequested
<1>1. CASE stdin' = stdin
  BY <1>1 DEF TypeInv, WorkerTypes
<1>2. ASSUME NEW h \in Generation, Serve(h) PROVE FALSE
  BY <1>2 DEF Serve, TypeInv, WorkerTypes
<1>3. ASSUME NEW c \in Call, EnterReady(c) PROVE closeRequested
  <2>1. process = g
    BY <1>3 DEF EnterReady, Proceed, TypeInv, WorkerTypes
  <2> QED BY <1>3, <2>1 DEF EnterReady, ReuseInv, KilledInv
<1>4. ASSUME NEW c \in Call, Hello(c) PROVE closeRequested
  <2>1. process = g
    BY <1>4 DEF Hello, Proceed, TypeInv, WorkerTypes
  <2> QED BY <1>4, <2>1 DEF Hello, ReuseInv, KilledInv
<1>5. \/ stdin' = stdin
      \/ \E h \in Generation : Serve(h)
      \/ \E c \in Call : EnterReady(c) \/ Hello(c)
  BY DEF Next, vars, clientVars, callVars, workerVars, Operation, Close, Cancellation, Timer, Worker,
         Begin, EnterRefused, EnterStale, EnterCold, Spawned, SpawnFailed, Answer, WorkerGone, Killed,
         CloseBegin, CloseEnter, InterruptDone, CloseCancelled, Flushed, Drained, OperationCancel,
         CloseCancel, KillCancel, LockCancel, OperationTimeout, KillTimeout, LockTimeout, CloseLockTimeout,
         InterruptTimeout, DrainTimeout, Load, LoadFails, Exit, Reap
<1> QED BY <1>1, <1>2, <1>3, <1>4, <1>5
-----------------------------------------------------------------------------
\* The pipes are empty and nothing is killed at the start.
LEMMA PipesInit == Init => PipesInv /\ ReuseInv
BY DEF Init, PipesInv, WorkerInv, ServingInv, ReadyInv, Empty, ReuseInv, ClosersInv, KilledInv,
       Locked, Working, Killing

\* The invariants of the pipes are inductive with those of the client.
LEMMA PipesStep ==
  ASSUME IInv, IInv', PipesInv, ReuseInv, [Next]_vars
  PROVE  PipesInv' /\ ReuseInv'
<1> USE DEF IInv, AliveInv
<1>1. PipesInv'
  BY WorkerInvStep, ServingStep, ReadyStep DEF PipesInv
<1>2. ReuseInv'
  BY ClosersStep, KilledStep DEF ReuseInv
<1> QED BY <1>1, <1>2

\* They hold of every behaviour.
THEOREM PipesInvariance == Spec => [](IInv /\ PipesInv /\ ReuseInv)
<1>1. IInv /\ IInv' /\ PipesInv /\ ReuseInv /\ [Next]_vars => PipesInv' /\ ReuseInv'
  BY PipesStep
<1> QED BY <1>1, PipesInit, Invariance, PTL DEF Spec

\* embed_batch: what is in the worker's pipes during an exchange belongs to the
\* call that exchanges, and a READY worker has nothing there, so no answer is
\* ever read by a later call.
THEOREM PipesOwn == Spec => []OwnPipesOnly
<1>1. IInv /\ PipesInv => OwnPipesOnly
  BY PipesOwned DEF IInv
<1> QED BY <1>1, PipesInvariance, PTL

\* _stop_process_locked: a worker sent SIGKILL is given no further request,
\* except by an operation that an aclose interrupts.
THEOREM KilledAbandoned == Spec => KilledNotReused
<1> DEFINE NotReused == \A g \in Generation :
                          Len(stdin'[g]) > Len(stdin[g]) /\ g \in killed => closeRequested
<1>1. IInv /\ PipesInv /\ ReuseInv /\ [Next]_vars => [NotReused]_vars
  BY RequestWritten DEF IInv
<1>2. Spec => [][NotReused]_vars
  BY <1>1, PipesInvariance, PTL DEF Spec
<1> QED BY <1>2 DEF KilledNotReused
===============================================================================
