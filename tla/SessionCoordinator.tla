-------------------------- MODULE SessionCoordinator --------------------------
(***************************************************************************)
(* runtime/session_coordinator.py: run leases, one asyncio lock per        *)
(* session id, in a table of reference-counted entries.                    *)
(*                                                                         *)
(* A step is what the event loop runs between two suspensions.  No         *)
(* critical section of _entries_lock awaits, so _reserve and               *)
(* _release_reference never suspend and belong to the step that calls      *)
(* them.  asyncio.Lock is modelled as CPython implements it: a flag and a  *)
(* FIFO of futures, where cancelling a task cancels the future it awaits   *)
(* at once but the task leaves the queue only when it next runs.           *)
(***************************************************************************)
EXTENDS Integers, Sequences, SequencesExt, FiniteSets

CONSTANTS Client,    \* concurrent calls of lease
          Session,   \* session ids
          Entry,     \* _SessionEntry objects the heap can hold at once
          NoEntry,   \* a session id absent from the table
          NoSession, \* the session of a call that is not inside lease
          NoClient   \* the holder of a session nobody has leased

ASSUME CoordinatorAssumption ==
  /\ IsFiniteSet(Client)
  /\ NoClient \notin Client
  /\ NoEntry \notin Entry
  /\ NoSession \notin Session

VARIABLES mode,         \* _conflict_mode
          timed,        \* _acquire_timeout is not None
          entries,      \* _entries: session id -> entry
          heap,         \* the state of each _SessionEntry and of its lock
          pc,           \* where a call is: outside, queued on the lock, in the body
          session,      \* the call's session_id
          entry,        \* the call's local variable entry
          future,       \* the future a queued call awaits
          interrupted   \* CancelledError or TimeoutError is due in a queued call

vars == <<mode, timed, entries, heap, pc, session, entry, future, interrupted>>

NewEntry == [references |-> 0, locked |-> FALSE, waiters |-> <<>>]

Init ==
  /\ mode \in {"reject", "wait"}
  /\ timed \in BOOLEAN
  /\ entries = [s \in Session |-> NoEntry]
  /\ heap = [e \in Entry |-> NewEntry]
  /\ pc = [c \in Client |-> "idle"]
  /\ session = [c \in Client |-> NoSession]
  /\ entry = [c \in Client |-> NoEntry]
  /\ future = [c \in Client |-> "none"]
  /\ interrupted = [c \in Client |-> FALSE]
-----------------------------------------------------------------------------
(* asyncio.Lock *)

\* Lock.acquire returns at once only past futures that are all cancelled.
Uncontended(e) ==
  /\ ~e.locked
  /\ \A i \in DOMAIN e.waiters : future[e.waiters[i]] = "cancelled"

\* Lock._wake_up_first: only the head of the queue, only if it is not done.
WakeFirst(fut, queue) ==
  IF queue # <<>> /\ fut[Head(queue)] = "pending"
  THEN [fut EXCEPT ![Head(queue)] = "set"]
  ELSE fut

\* deque.remove of the call's own future.
Without(queue, c) ==
  LET i == CHOOSE i \in DOMAIN queue : queue[i] = c
  IN  RemoveAt(queue, i)
-----------------------------------------------------------------------------
(* _reserve and _release_reference *)

\* Objects no name of the program refers to: memory for a new entry.
Unreferenced ==
  {e \in Entry : (\A s \in Session : entries[s] # e) /\ (\A c \in Client : entry[c] # e)}

\* The object _reserve works on: the table's, or a new one.
EntryFor(s) == IF entries[s] = NoEntry THEN Unreferenced ELSE {entries[s]}

\* A plausible bug: the check lets a second caller pass.
BusyOffByOne(e) == mode = "reject" /\ e.references > 1

Busy(e) == mode = "reject" /\ e.references > 0

\* A plausible bug: the entry is dropped as soon as its lock is free.
DropUnlocked(s, e) == IF ~e.locked THEN [entries EXCEPT ![s] = NoEntry] ELSE entries

\* The table after a call that leaves entry e of session s.
DropUnused(s, e) ==
  IF e.references = 0 /\ ~e.locked THEN [entries EXCEPT ![s] = NoEntry] ELSE entries

\* A plausible bug: leaving counts the reference down twice.
ReleaseTwice(c, e) ==
  LET left == [e EXCEPT !.references = @ - 2]
  IN  /\ heap' = [heap EXCEPT ![entry[c]] = left]
      /\ entries' = DropUnused(session[c], left)

\* _release_reference on the entry whose lock the finally block left as e.
ReleaseReference(c, e) ==
  LET left == [e EXCEPT !.references = @ - 1]
  IN  /\ heap' = [heap EXCEPT ![entry[c]] = left]
      /\ entries' = DropUnused(session[c], left)
-----------------------------------------------------------------------------
(* lease *)

\* SessionBusyError out of _reserve: the entry keeps its count.
Refuse(c, s) ==
  /\ pc[c] = "idle"
  /\ entries[s] # NoEntry
  /\ Busy(heap[entries[s]])
  /\ UNCHANGED vars

\* lease up to its first suspension, or to its yield when the lock is free.
Lease(c, s) ==
  /\ pc[c] = "idle"
  /\ \E e \in EntryFor(s) :
       LET found == IF entries[s] = e THEN heap[e] ELSE NewEntry
           free  == Uncontended(found)
       IN  /\ ~Busy(found)
           /\ entries' = [entries EXCEPT ![s] = e]
           /\ entry' = [entry EXCEPT ![c] = e]
           /\ session' = [session EXCEPT ![c] = s]
           /\ heap' = [heap EXCEPT ![e] =
                [references |-> found.references + 1,
                 locked     |-> found.locked \/ free,
                 waiters    |-> IF free THEN found.waiters ELSE Append(found.waiters, c)]]
           /\ pc' = [pc EXCEPT ![c] = IF free THEN "holding" ELSE "waiting"]
           /\ future' = [future EXCEPT ![c] = IF free THEN "none" ELSE "pending"]
  /\ UNCHANGED <<mode, timed, interrupted>>

\* A woken call takes the lock and enters the body.
Resume(c) ==
  /\ pc[c] = "waiting"
  /\ future[c] = "set"
  /\ ~interrupted[c]
  /\ heap' = [heap EXCEPT ![entry[c]].locked = TRUE,
                          ![entry[c]].waiters = Without(@, c)]
  /\ pc' = [pc EXCEPT ![c] = "holding"]
  /\ future' = [future EXCEPT ![c] = "none"]
  /\ UNCHANGED <<mode, timed, entries, session, entry, interrupted>>

\* Task.cancel on a queued call: a future that is already set stays set.
Interrupt(c) ==
  /\ pc[c] = "waiting"
  /\ ~interrupted[c]
  /\ interrupted' = [interrupted EXCEPT ![c] = TRUE]
  /\ future' = [future EXCEPT ![c] = IF @ = "pending" THEN "cancelled" ELSE @]
  /\ UNCHANGED <<mode, timed, entries, heap, pc, session, entry>>

Cancel(c) == Interrupt(c)

\* asyncio.wait_for gives up on the lock.
AcquireTimeout(c) == mode = "wait" /\ timed /\ Interrupt(c)

\* The call is outside lease again: its locals are gone.
Left(c) ==
  /\ pc' = [pc EXCEPT ![c] = "idle"]
  /\ session' = [session EXCEPT ![c] = NoSession]
  /\ entry' = [entry EXCEPT ![c] = NoEntry]
  /\ UNCHANGED <<mode, timed>>

\* A plausible bug: the finally block runs its cleanup only after an acquisition.
UnwindWithoutCleanup(c) ==
  /\ pc[c] = "waiting"
  /\ interrupted[c]
  /\ LET e == heap[entry[c]] IN
       /\ heap' = [heap EXCEPT ![entry[c]].waiters = Without(@, c)]
       /\ future' = IF e.locked THEN [future EXCEPT ![c] = "none"]
                    ELSE [WakeFirst(future, Without(e.waiters, c)) EXCEPT ![c] = "none"]
  /\ UNCHANGED entries
  /\ interrupted' = [interrupted EXCEPT ![c] = FALSE]
  /\ Left(c)

\* The interrupted call runs: it leaves the queue, passes a wake-up on if the
\* lock is free, skips lock.release and gives its reference back.
Unwind(c) ==
  /\ pc[c] = "waiting"
  /\ interrupted[c]
  /\ LET e    == heap[entry[c]]
         rest == Without(e.waiters, c)
         woken == IF e.locked THEN future ELSE WakeFirst(future, rest)
     IN  /\ ReleaseReference(c, [e EXCEPT !.waiters = rest])
         /\ future' = [woken EXCEPT ![c] = "none"]
  /\ interrupted' = [interrupted EXCEPT ![c] = FALSE]
  /\ Left(c)

\* A plausible bug: the finally block forgets lock.release.
FinishStillLocked(c) ==
  /\ pc[c] = "holding"
  /\ ReleaseReference(c, heap[entry[c]])
  /\ Left(c)
  /\ UNCHANGED <<future, interrupted>>

\* The body ends, by return, exception or cancellation: the finally block.
Finish(c) ==
  /\ pc[c] = "holding"
  /\ LET e == heap[entry[c]] IN
       /\ ReleaseReference(c, [e EXCEPT !.locked = FALSE])
       /\ future' = WakeFirst(future, e.waiters)
  /\ Left(c)
  /\ UNCHANGED interrupted

Next ==
  \E c \in Client :
    \/ \E s \in Session : Refuse(c, s) \/ Lease(c, s)
    \/ Resume(c) \/ Cancel(c) \/ AcquireTimeout(c) \/ Unwind(c) \/ Finish(c)

\* The event loop runs every task that is ready, and a leased run ends.
Fairness == \A c \in Client : WF_vars(Resume(c)) /\ WF_vars(Unwind(c)) /\ WF_vars(Finish(c))

Spec == Init /\ [][Next]_vars

FairSpec == Spec /\ Fairness
-----------------------------------------------------------------------------
\* Every variable keeps its type and a reference count is never negative.
TypeOK ==
  /\ mode \in {"reject", "wait"}
  /\ timed \in BOOLEAN
  /\ entries \in [Session -> Entry \cup {NoEntry}]
  /\ heap \in [Entry -> [references : Nat, locked : BOOLEAN, waiters : Seq(Client)]]
  /\ pc \in [Client -> {"idle", "waiting", "holding"}]
  /\ session \in [Client -> Session \cup {NoSession}]
  /\ entry \in [Client -> Entry \cup {NoEntry}]
  /\ future \in [Client -> {"none", "pending", "set", "cancelled"}]
  /\ interrupted \in [Client -> BOOLEAN]

\* The runs of one session never overlap, whichever entry object each call
\* reserved and however waits were cancelled or timed out.
LeaseExclusive ==
  \A c, d \in Client :
    pc[c] = "holding" /\ pc[d] = "holding" /\ session[c] = session[d] => c = d

\* An entry is in the table exactly while calls use it, and counts them: the
\* table cannot leak entries, nor drop one that a queued call still waits on.
ReferencesExact ==
  \A s \in Session :
    LET users == {c \in Client : session[c] = s}
    IN  IF entries[s] = NoEntry THEN users = {}
        ELSE /\ users # {}
             /\ \A c \in users : entry[c] = entries[s]
             /\ heap[entries[s]].references = Cardinality(users)

\* In reject mode a caller that passes _reserve never queues on the lock: the
\* reference count read under _entries_lock decides alone.
RejectNeverWaits == mode = "reject" => \A c \in Client : pc[c] # "waiting"

\* A call gets the lease only if no uninterrupted call of its session was
\* queued before it.
Behind(d, c) ==
  LET queue == heap[entry[d]].waiters
  IN  /\ pc[c] = "waiting"
      /\ entry[c] = entry[d]
      /\ \E i, j \in DOMAIN queue : i < j /\ queue[i] = c /\ queue[j] = d

NoBarging ==
  [][\A c, d \in Client :
       /\ c # d
       /\ pc[c] # "holding" /\ pc'[c] = "holding"
       /\ pc[d] = "waiting" /\ ~interrupted[d] /\ session[d] = session'[c]
       => Behind(d, c)]_vars

\* Every queued call is served or leaves: no wake-up is lost.
EveryWaiterServed == \A c \in Client : pc[c] = "waiting" ~> pc[c] # "waiting"

\* The lease holders as the abstract specification sees them.
Holder == [s \in Session |->
  IF \E c \in Client : pc[c] = "holding" /\ session[c] = s
  THEN CHOOSE c \in Client : pc[c] = "holding" /\ session[c] = s
  ELSE NoClient]

Abstract == INSTANCE SessionLease WITH holder <- Holder

\* The coordinator implements the abstract lease.
ImplementsLease == Abstract!Spec
=============================================================================
