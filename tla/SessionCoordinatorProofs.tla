----------------------- MODULE SessionCoordinatorProofs -----------------------
(***************************************************************************)
(* The safety properties of SessionCoordinator for any number of calls and *)
(* sessions.  The induction needs to know who queues where (QueueInv), that *)
(* a lock is held by exactly the call in the body (LockInv), that a wake-up *)
(* goes to the head of the queue of a free lock (WakeInv), and that an      *)
(* entry counts the calls that refer to it (CountInv, TableInv).            *)
(***************************************************************************)
EXTENDS SessionCoordinator, FiniteSetTheorems, SequenceTheorems, TLAPS

Users(e) == {c \in Client : entry[c] = e}

Distinct(q) == \A i, j \in DOMAIN q : q[i] = q[j] => i = j

\* A call outside lease has no locals; one inside refers to the table's entry.
CallInv ==
  \A c \in Client :
    /\ pc[c] = "idle" => entry[c] = NoEntry /\ session[c] = NoSession
    /\ pc[c] # "idle" => /\ session[c] \in Session
                         /\ entry[c] \in Entry
                         /\ entries[session[c]] = entry[c]
    /\ pc[c] # "waiting" => future[c] = "none" /\ ~interrupted[c]
    /\ pc[c] = "waiting" => future[c] # "none"
    /\ future[c] = "cancelled" => interrupted[c]

TableInv ==
  /\ \A s, t \in Session : entries[s] = entries[t] /\ entries[s] # NoEntry => s = t
  /\ \A s \in Session : entries[s] # NoEntry => \E c \in Client : entry[c] = entries[s]

CountInv == \A e \in Entry : heap[e].references = Cardinality(Users(e))

QueueInv ==
  \A e \in Entry :
    /\ Distinct(heap[e].waiters)
    /\ \A c \in Client :
         c \in Range(heap[e].waiters) <=> pc[c] = "waiting" /\ entry[c] = e

LockInv ==
  /\ \A e \in Entry :
       heap[e].locked <=> \E c \in Client : pc[c] = "holding" /\ entry[c] = e
  /\ \A c, d \in Client :
       pc[c] = "holding" /\ pc[d] = "holding" /\ entry[c] = entry[d] => c = d

WakeInv ==
  \A c \in Client :
    future[c] = "set" => /\ ~heap[entry[c]].locked
                         /\ heap[entry[c]].waiters # <<>>
                         /\ Head(heap[entry[c]].waiters) = c

IInv == /\ TypeOK /\ CallInv /\ TableInv /\ CountInv /\ QueueInv /\ LockInv /\ WakeInv
        /\ RejectNeverWaits
-----------------------------------------------------------------------------
(* Removing a call from a queue keeps the others, in order. *)
LEMMA RemovalLemma ==
  ASSUME NEW q \in Seq(Client), Distinct(q), NEW c \in Range(q)
  PROVE  /\ Without(q, c) \in Seq(Client)
         /\ Distinct(Without(q, c))
         /\ \A d : d \in Range(Without(q, c)) <=> d \in Range(q) /\ d # c
         /\ Head(q) # c => Without(q, c) # <<>> /\ Head(Without(q, c)) = Head(q)
<1> DEFINE k == CHOOSE i \in DOMAIN q : q[i] = c
           r == Without(q, c)
<1>1. k \in 1..Len(q) /\ q[k] = c
  BY DEF Range
<1>2. r = SubSeq(q, 1, k - 1) \o SubSeq(q, k + 1, Len(q))
  BY DEF Without, RemoveAt
<1> HIDE DEF k, r
<1>3. /\ r \in Seq(Client)
      /\ Len(r) = Len(q) - 1
      /\ \A i \in 1..Len(r) : r[i] = IF i < k THEN q[i] ELSE q[i + 1]
  <2> DEFINE a == SubSeq(q, 1, k - 1)
             b == SubSeq(q, k + 1, Len(q))
  <2>1. /\ a \in Seq(Client) /\ Len(a) = k - 1
        /\ \A i \in 1..(k - 1) : a[i] = q[i]
    BY <1>1
  <2>2. /\ b \in Seq(Client) /\ Len(b) = Len(q) - k
        /\ \A i \in 1..(Len(q) - k) : b[i] = q[k + i]
    BY <1>1
  <2> HIDE DEF a, b
  <2>3. /\ a \o b \in Seq(Client)
        /\ Len(a \o b) = Len(a) + Len(b)
        /\ \A i \in 1..(Len(a) + Len(b)) :
             (a \o b)[i] = IF i <= Len(a) THEN a[i] ELSE b[i - Len(a)]
    BY <2>1, <2>2, ConcatProperties
  <2>4. r = a \o b
    BY <1>2 DEF a, b
  <2>5. ASSUME NEW i \in 1..Len(r) PROVE r[i] = IF i < k THEN q[i] ELSE q[i + 1]
    <3>1. CASE i < k
      BY <3>1, <1>1, <2>1, <2>2, <2>3, <2>4
    <3>2. CASE ~(i < k)
      <4>1. i - Len(a) \in 1..(Len(q) - k) /\ k + (i - Len(a)) = i + 1
        BY <3>2, <1>1, <2>1, <2>2, <2>3, <2>4
      <4>2. b[i - Len(a)] = q[i + 1]
        BY <4>1, <2>2
      <4> QED BY <3>2, <4>2, <1>1, <2>1, <2>2, <2>3, <2>4
    <3> QED BY <3>1, <3>2
  <2>6. r \in Seq(Client) /\ Len(r) = Len(a) + Len(b)
    BY <2>3, <2>4, Zenon
  <2>7. Len(r) = Len(q) - 1
    BY <1>1, <2>1, <2>2, <2>6
  <2> QED BY <2>5, <2>6, <2>7
<1>4. Distinct(r)
  <2>1. SUFFICES ASSUME NEW i \in 1..Len(r), NEW j \in 1..Len(r), r[i] = r[j] PROVE i = j
    BY <1>3 DEF Distinct
  <2> DEFINE at(n) == IF n < k THEN n ELSE n + 1
  <2>2. at(i) \in 1..Len(q) /\ at(j) \in 1..Len(q) /\ q[at(i)] = q[at(j)]
    BY <2>1, <1>1, <1>3
  <2>3. at(i) = at(j)
    BY <2>2 DEF Distinct
  <2> QED BY <2>3, <1>1
<1>5. ASSUME NEW d PROVE d \in Range(r) <=> d \in Range(q) /\ d # c
  <2>1. d \in Range(r) => d \in Range(q) /\ d # c
    <3>1. SUFFICES ASSUME NEW i \in 1..Len(r), r[i] = d PROVE d \in Range(q) /\ d # c
      BY <1>3 DEF Range
    <3>2. CASE i < k
      BY <3>1, <3>2, <1>1, <1>3 DEF Range, Distinct
    <3>3. CASE ~(i < k)
      BY <3>1, <3>3, <1>1, <1>3 DEF Range, Distinct
    <3> QED BY <3>2, <3>3
  <2>2. d \in Range(q) /\ d # c => d \in Range(r)
    <3>1. SUFFICES ASSUME NEW i \in 1..Len(q), q[i] = d, d # c PROVE d \in Range(r)
      BY DEF Range
    <3>2. CASE i < k
      <4>1. i \in 1..Len(r) /\ r[i] = d
        BY <3>1, <3>2, <1>1, <1>3
      <4> QED BY <4>1, <1>3 DEF Range
    <3>3. CASE ~(i < k)
      <4>1. i # k
        BY <3>1, <1>1
      <4>2. i - 1 \in 1..Len(r) /\ r[i - 1] = d
        BY <3>1, <3>3, <4>1, <1>1, <1>3
      <4> QED BY <4>2, <1>3 DEF Range
    <3> QED BY <3>2, <3>3
  <2> QED BY <2>1, <2>2
<1>6. Head(q) # c => r # <<>> /\ Head(r) = Head(q)
  BY <1>1, <1>3
<1> QED BY <1>3, <1>4, <1>5, <1>6 DEF r

(* An entry nobody refers to is as new. *)
LEMMA UnusedEntry ==
  ASSUME IInv, NEW e \in Entry, Users(e) = {}
  PROVE  heap[e] = NewEntry
<1>1. heap[e] \in [references : Nat, locked : BOOLEAN, waiters : Seq(Client)]
  BY DEF IInv, TypeOK
<1>2. heap[e].references = 0
  BY FS_EmptySet DEF IInv, CountInv
<1>3. heap[e].locked = FALSE
  BY <1>1 DEF IInv, LockInv, Users
<1>4. heap[e].waiters = <<>>
  <2>1. \A c \in Client : c \notin Range(heap[e].waiters)
    BY DEF IInv, QueueInv, Users
  <2> DEFINE q == heap[e].waiters
  <2>2. q \in Seq(Client)
    BY <1>1
  <2> HIDE DEF q
  <2>3. \A i \in 1..Len(q) : q[i] \in Client /\ q[i] \in Range(q)
    BY <2>2 DEF Range
  <2>4. Len(q) = 0
    BY <2>1, <2>2, <2>3 DEF q
  <2>5. q = <<>>
    BY <2>2, <2>4
  <2> QED BY <2>5 DEF q
<1> QED BY <1>1, <1>2, <1>3, <1>4 DEF NewEntry

(* The only users of an entry are finitely many calls. *)
LEMMA UsersFinite == ASSUME NEW e PROVE IsFiniteSet(Users(e)) /\ Users(e) \subseteq Client
  BY CoordinatorAssumption, FS_Subset DEF Users

(* Nobody uses a coordinator that was just made. *)
LEMMA InitInv == Init => IInv
<1> SUFFICES ASSUME Init PROVE IInv
  OBVIOUS
<1>1. TypeOK
  BY DEF Init, TypeOK, NewEntry
<1>2. CallInv /\ TableInv /\ LockInv /\ WakeInv /\ RejectNeverWaits
  BY CoordinatorAssumption DEF Init, CallInv, TableInv, LockInv, WakeInv, RejectNeverWaits, NewEntry
<1>3. \A e \in Entry : Users(e) = {}
  BY CoordinatorAssumption DEF Init, Users
<1>4. CountInv
  BY <1>3, FS_EmptySet DEF Init, CountInv, NewEntry
<1>5. QueueInv
  BY DEF Init, QueueInv, NewEntry, Distinct, Range
<1> QED BY <1>1, <1>2, <1>4, <1>5 DEF IInv

(* Appending a call that is not queued keeps a queue free of duplicates. *)
LEMMA AppendLemma ==
  ASSUME NEW q \in Seq(Client), Distinct(q), NEW c \in Client, c \notin Range(q)
  PROVE  /\ Append(q, c) \in Seq(Client)
         /\ Distinct(Append(q, c))
         /\ \A d : d \in Range(Append(q, c)) <=> d \in Range(q) \/ d = c
         /\ q # <<>> => Append(q, c) # <<>> /\ Head(Append(q, c)) = Head(q)
<1> DEFINE r == Append(q, c)
<1>1. /\ r \in Seq(Client) /\ Len(r) = Len(q) + 1 /\ r[Len(q) + 1] = c
      /\ \A i \in 1..Len(q) : r[i] = q[i]
  OBVIOUS
<1> HIDE DEF r
<1>2. Distinct(r)
  BY <1>1 DEF Distinct, Range
<1>3. ASSUME NEW d PROVE d \in Range(r) <=> d \in Range(q) \/ d = c
  <2>1. d \in Range(r) => d \in Range(q) \/ d = c
    BY <1>1 DEF Range
  <2>2. d \in Range(q) => d \in Range(r)
    <3>1. SUFFICES ASSUME NEW i \in 1..Len(q), q[i] = d PROVE d \in Range(r)
      BY DEF Range
    <3>2. i \in DOMAIN r /\ r[i] = d
      BY <1>1, <3>1
    <3> QED BY <3>2 DEF Range
  <2>3. c \in Range(r)
    <3>1. Len(q) + 1 \in DOMAIN r
      BY <1>1
    <3> QED BY <1>1, <3>1 DEF Range
  <2> QED BY <2>1, <2>2, <2>3
<1>4. q # <<>> => r # <<>> /\ Head(r) = Head(q)
  BY <1>1
<1> QED BY <1>1, <1>2, <1>3, <1>4 DEF r
-----------------------------------------------------------------------------
(* Each step preserves the inductive invariant. *)
LEMMA LeaseStep ==
  ASSUME IInv, NEW c \in Client, NEW s \in Session, Lease(c, s)
  PROVE  IInv'
<1> USE DEF IInv
<1>1. PICK e \in EntryFor(s) :
        LET found == IF entries[s] = e THEN heap[e] ELSE NewEntry
            free  == Uncontended(found)
        IN  /\ ~Busy(found)
            /\ entries' = [entries EXCEPT ![s] = e]
            /\ entry' = [entry EXCEPT ![c] = e]
            /\ session' = [session EXCEPT ![c] = s]
            /\ heap' = [heap EXCEPT ![e] =
                 [references |-> found.references + 1,
                  locked     |-> found.locked \/ free,
                  waiters    |-> IF free THEN found.waiters ELSE Append(found.waiters, c)]]
            /\ pc' = [pc EXCEPT ![c] = IF free THEN "holding" ELSE "waiting"]
            /\ future' = [future EXCEPT ![c] = IF free THEN "none" ELSE "pending"]
  BY DEF Lease
<1>2. /\ pc[c] = "idle" /\ entry[c] = NoEntry /\ future[c] = "none" /\ ~interrupted[c]
      /\ UNCHANGED <<mode, timed, interrupted>>
  BY DEF Lease, CallInv
<1>3. e \in Entry /\ e # NoEntry /\ (entries[s] = e \/ (entries[s] = NoEntry /\ e \in Unreferenced))
  BY CoordinatorAssumption DEF EntryFor, Unreferenced, TypeOK
<1>4. entries[s] # e => Users(e) = {}
  BY <1>3 DEF Unreferenced, Users
<1> DEFINE free == Uncontended(heap[e])
<1>5. entries[s] # e => heap[e] = NewEntry
  BY <1>3, <1>4, UnusedEntry
<1>6. /\ ~Busy(heap[e])
      /\ entries' = [entries EXCEPT ![s] = e]
      /\ entry' = [entry EXCEPT ![c] = e]
      /\ session' = [session EXCEPT ![c] = s]
      /\ heap' = [heap EXCEPT ![e] =
            [references |-> heap[e].references + 1,
             locked     |-> heap[e].locked \/ free,
             waiters    |-> IF free THEN heap[e].waiters ELSE Append(heap[e].waiters, c)]]
      /\ pc' = [pc EXCEPT ![c] = IF free THEN "holding" ELSE "waiting"]
      /\ future' = [future EXCEPT ![c] = IF free THEN "none" ELSE "pending"]
  BY <1>1, <1>5
<1>7. /\ heap[e] \in [references : Nat, locked : BOOLEAN, waiters : Seq(Client)]
      /\ Distinct(heap[e].waiters)
      /\ c \notin Range(heap[e].waiters)
  BY <1>2, <1>3 DEF TypeOK, QueueInv
<1>8. free => /\ heap[e].locked = FALSE
              /\ \A d \in Client : pc[d] = "waiting" /\ entry[d] = e => future[d] = "cancelled"
  <2>1. SUFFICES ASSUME free, NEW d \in Client, pc[d] = "waiting", entry[d] = e
                 PROVE future[d] = "cancelled"
    BY <1>7 DEF Uncontended
  <2>2. d \in Range(heap[e].waiters)
    BY <1>3, <2>1 DEF QueueInv
  <2> QED BY <2>1, <2>2 DEF Uncontended, Range
<1>9. free \/ mode # "reject"
  <2>1. SUFFICES ASSUME mode = "reject" PROVE free
    OBVIOUS
  <2>2. heap[e].references = 0
    BY <1>6, <1>7, <2>1 DEF Busy
  <2>3. Users(e) = {}
    BY <1>3, <2>2, UsersFinite, FS_EmptySet DEF CountInv
  <2> QED BY <1>3, <2>3, UnusedEntry DEF NewEntry, Uncontended
<1>10. free \in BOOLEAN
  BY DEF Uncontended
<1> HIDE DEF free
<1>11. TypeOK'
  <2>1. heap'[e] \in [references : Nat, locked : BOOLEAN, waiters : Seq(Client)]
    BY <1>3, <1>6, <1>7, <1>10 DEF TypeOK
  <2>2. heap' \in [Entry -> [references : Nat, locked : BOOLEAN, waiters : Seq(Client)]]
    BY <1>3, <1>6, <2>1 DEF TypeOK
  <2> QED BY <1>2, <1>3, <1>6, <2>2 DEF TypeOK
<1>12. CallInv'
  <2>1. TypeOK
    OBVIOUS
  <2> SUFFICES ASSUME NEW d \in Client
               PROVE  /\ pc'[d] = "idle" => entry'[d] = NoEntry /\ session'[d] = NoSession
                      /\ pc'[d] # "idle" => /\ session'[d] \in Session
                                            /\ entry'[d] \in Entry
                                            /\ entries'[session'[d]] = entry'[d]
                      /\ pc'[d] # "waiting" => future'[d] = "none" /\ ~interrupted'[d]
                      /\ pc'[d] = "waiting" => future'[d] # "none"
                      /\ future'[d] = "cancelled" => interrupted'[d]
    BY DEF CallInv
  <2>2. CASE d = c
    BY <1>2, <1>3, <1>6, <1>10, <2>1, <2>2 DEF TypeOK
  <2>3. CASE d # c
    BY <1>2, <1>3, <1>6, <2>1, <2>3, CoordinatorAssumption DEF TypeOK, CallInv
  <2> QED BY <2>2, <2>3
<1>13. Users(e)' = Users(e) \cup {c} /\ \A f : f # e /\ f # NoEntry => Users(f)' = Users(f)
  BY <1>2, <1>6 DEF Users, TypeOK
<1>14. TableInv'
  <2>1. ASSUME NEW r \in Session, NEW t \in Session, entries'[r] = entries'[t], entries'[r] # NoEntry
        PROVE  r = t
    BY <1>3, <1>6, <2>1 DEF TableInv, TypeOK, Unreferenced
  <2>2. ASSUME NEW t \in Session, entries'[t] # NoEntry
        PROVE  \E d \in Client : entry'[d] = entries'[t]
    <3>1. CASE entries'[t] = e
      BY <1>6, <3>1 DEF TypeOK
    <3>2. CASE entries'[t] # e
      BY <1>2, <1>6, <2>2, <3>2 DEF TypeOK, TableInv
    <3> QED BY <3>1, <3>2
  <2> QED BY <2>1, <2>2 DEF TableInv
<1>15. CountInv'
  <2>1. c \notin Users(e)
    BY <1>2, <1>3 DEF Users
  <2>2. Cardinality(Users(e)') = Cardinality(Users(e)) + 1
    BY <1>13, <2>1, UsersFinite, FS_AddElement
  <2> SUFFICES ASSUME NEW f \in Entry PROVE heap'[f].references = Cardinality(Users(f)')
    BY DEF CountInv, Users
  <2>3. CASE f = e
    BY <1>3, <1>6, <2>2, <2>3 DEF CountInv, TypeOK
  <2>4. CASE f # e
    BY <1>6, <1>13, <2>4, CoordinatorAssumption DEF CountInv, TypeOK
  <2> QED BY <2>3, <2>4
<1>16. QueueInv'
  <2> SUFFICES ASSUME NEW f \in Entry
               PROVE  /\ Distinct(heap'[f].waiters)
                      /\ \A d \in Client :
                           d \in Range(heap'[f].waiters) <=> pc'[d] = "waiting" /\ entry'[d] = f
    BY DEF QueueInv, Distinct, Range
  <2>1. CASE f # e
    BY <1>2, <1>6, <2>1 DEF QueueInv, TypeOK
  <2>2. CASE f = e /\ free
    <3>1. heap'[f].waiters = heap[f].waiters
      BY <1>6, <2>2 DEF TypeOK
    <3> QED BY <1>2, <1>6, <2>2, <3>1 DEF QueueInv, TypeOK
  <2>3. CASE f = e /\ ~free
    <3>1. heap'[f].waiters = Append(heap[f].waiters, c)
      BY <1>6, <2>3 DEF TypeOK
    <3> DEFINE q == heap[f].waiters
               r == Append(q, c)
    <3>2. Distinct(r) /\ \A d : d \in Range(r) <=> d \in Range(q) \/ d = c
      BY <1>7, <2>3, AppendLemma
    <3>3. \A d \in Client : d \in Range(q) <=> pc[d] = "waiting" /\ entry[d] = f
      BY DEF QueueInv
    <3> HIDE DEF q, r
    <3>4. \A d \in Client : d \in Range(r) <=> pc'[d] = "waiting" /\ entry'[d] = f
      BY <1>2, <1>6, <2>3, <3>2, <3>3 DEF TypeOK
    <3> QED BY <3>1, <3>2, <3>4 DEF r, q
  <2> QED BY <2>1, <2>2, <2>3
<1>17. LockInv'
  <2>1. \A d \in Client : free => ~(pc[d] = "holding" /\ entry[d] = e)
    BY <1>3, <1>8 DEF LockInv
  <2>2. ASSUME NEW f \in Entry
        PROVE  heap'[f].locked <=> \E d \in Client : pc'[d] = "holding" /\ entry'[d] = f
    <3>1. CASE f # e
      BY <1>2, <1>6, <3>1 DEF LockInv, TypeOK
    <3>2. CASE f = e /\ free
      BY <1>6, <3>2 DEF TypeOK
    <3>3. CASE f = e /\ ~free
      <4>1. heap'[f].locked <=> heap[f].locked
        BY <1>6, <3>3 DEF TypeOK
      <4> QED BY <1>2, <1>6, <3>3, <4>1 DEF LockInv, TypeOK
    <3> QED BY <3>1, <3>2, <3>3
  <2>3. ASSUME NEW d \in Client, NEW f \in Client,
               pc'[d] = "holding", pc'[f] = "holding", entry'[d] = entry'[f]
        PROVE  d = f
    <3>1. CASE free
      BY <1>2, <1>6, <2>1, <2>3, <3>1 DEF LockInv, TypeOK
    <3>2. CASE ~free
      BY <1>2, <1>6, <2>3, <3>2 DEF LockInv, TypeOK
    <3> QED BY <3>1, <3>2
  <2> QED BY <2>2, <2>3 DEF LockInv
<1>18. WakeInv'
  <2> SUFFICES ASSUME NEW d \in Client, future'[d] = "set"
               PROVE  /\ ~heap'[entry'[d]].locked
                      /\ heap'[entry'[d]].waiters # <<>>
                      /\ Head(heap'[entry'[d]].waiters) = d
    BY DEF WakeInv
  <2>1. d # c /\ future[d] = "set" /\ entry'[d] = entry[d]
    BY <1>6 DEF TypeOK
  <2>2. pc[d] = "waiting" /\ entry[d] \in Entry
    BY <2>1 DEF CallInv
  <2>3. /\ ~heap[entry[d]].locked
        /\ heap[entry[d]].waiters # <<>>
        /\ Head(heap[entry[d]].waiters) = d
    BY <2>1 DEF WakeInv
  <2>4. CASE entry[d] # e
    BY <1>6, <2>1, <2>2, <2>3, <2>4 DEF TypeOK
  <2>5. CASE entry[d] = e
    <3>1. ~free
      BY <1>8, <2>1, <2>2, <2>5
    <3>2. heap'[e].waiters = Append(heap[e].waiters, c) /\ (heap'[e].locked <=> heap[e].locked)
      BY <1>3, <1>6, <3>1 DEF TypeOK
    <3> QED BY <1>7, <2>1, <2>3, <2>5, <3>2, AppendLemma
  <2> QED BY <2>4, <2>5
<1>19. RejectNeverWaits'
  BY <1>2, <1>6, <1>9 DEF RejectNeverWaits, TypeOK
<1> QED BY <1>11, <1>12, <1>14, <1>15, <1>16, <1>17, <1>18, <1>19

(* The woken head of a queue takes its free lock. *)
LEMMA ResumeStep ==
  ASSUME IInv, NEW c \in Client, Resume(c)
  PROVE  IInv'
<1> USE DEF IInv
<1> DEFINE e == entry[c]
           q == heap[e].waiters
<1>1. /\ pc[c] = "waiting" /\ future[c] = "set" /\ ~interrupted[c]
      /\ heap' = [heap EXCEPT ![e].locked = TRUE, ![e].waiters = Without(@, c)]
      /\ pc' = [pc EXCEPT ![c] = "holding"]
      /\ future' = [future EXCEPT ![c] = "none"]
      /\ UNCHANGED <<mode, timed, entries, session, entry, interrupted>>
  BY DEF Resume
<1>2. e \in Entry /\ heap[e] \in [references : Nat, locked : BOOLEAN, waiters : Seq(Client)]
  BY <1>1 DEF CallInv, TypeOK
<1>3. c \in Range(q) /\ Distinct(q) /\ q \in Seq(Client)
  BY <1>1, <1>2 DEF QueueInv
<1>4. /\ Without(q, c) \in Seq(Client) /\ Distinct(Without(q, c))
      /\ \A d : d \in Range(Without(q, c)) <=> d \in Range(q) /\ d # c
  BY <1>3, RemovalLemma
<1>5. /\ heap'[e] = [heap[e] EXCEPT !.locked = TRUE, !.waiters = Without(q, c)]
      /\ \A f \in Entry : f # e => heap'[f] = heap[f]
      /\ heap' \in [Entry -> [references : Nat, locked : BOOLEAN, waiters : Seq(Client)]]
  BY <1>1, <1>2, <1>4 DEF TypeOK
<1>6. ~heap[e].locked /\ q # <<>> /\ Head(q) = c
  BY <1>1 DEF WakeInv
<1> HIDE DEF e, q
<1>7. TypeOK'
  BY <1>1, <1>5 DEF TypeOK
<1>8. CallInv'
  BY <1>1 DEF CallInv, TypeOK, e
<1>9. TableInv' /\ RejectNeverWaits'
  BY <1>1 DEF TableInv, RejectNeverWaits, TypeOK
<1>10. CountInv'
  BY <1>1, <1>2, <1>5 DEF CountInv, Users
<1>11. QueueInv'
  <2> SUFFICES ASSUME NEW f \in Entry
               PROVE  /\ Distinct(heap'[f].waiters)
                      /\ \A d \in Client :
                           d \in Range(heap'[f].waiters) <=> pc'[d] = "waiting" /\ entry'[d] = f
    BY DEF QueueInv, Distinct, Range
  <2>1. CASE f # e
    BY <1>1, <1>5, <2>1 DEF QueueInv, TypeOK, e
  <2>2. CASE f = e
    <3>1. heap'[f].waiters = Without(q, c)
      BY <1>2, <1>5, <2>2
    <3>2. \A d \in Client : d \in Range(q) <=> pc[d] = "waiting" /\ entry[d] = f
      BY <1>2, <2>2 DEF QueueInv, q
    <3> QED BY <1>1, <1>4, <2>2, <3>1, <3>2 DEF TypeOK
  <2> QED BY <2>1, <2>2
<1>12. LockInv'
  <2>1. \A d \in Client : ~(pc[d] = "holding" /\ entry[d] = e)
    BY <1>2, <1>6 DEF LockInv
  <2>2. ASSUME NEW f \in Entry
        PROVE  heap'[f].locked <=> \E d \in Client : pc'[d] = "holding" /\ entry'[d] = f
    <3>1. CASE f # e
      BY <1>1, <1>5, <3>1 DEF LockInv, TypeOK, e
    <3>2. CASE f = e
      BY <1>1, <1>2, <1>5, <3>2 DEF TypeOK, e
    <3> QED BY <3>1, <3>2
  <2>3. ASSUME NEW d \in Client, NEW f \in Client,
               pc'[d] = "holding", pc'[f] = "holding", entry'[d] = entry'[f]
        PROVE  d = f
    BY <1>1, <2>1, <2>3 DEF LockInv, TypeOK, e
  <2> QED BY <2>2, <2>3 DEF LockInv
<1>13. WakeInv'
  <2> SUFFICES ASSUME NEW d \in Client, future'[d] = "set"
               PROVE  /\ ~heap'[entry'[d]].locked
                      /\ heap'[entry'[d]].waiters # <<>>
                      /\ Head(heap'[entry'[d]].waiters) = d
    BY DEF WakeInv
  <2>1. d # c /\ future[d] = "set" /\ entry'[d] = entry[d]
    BY <1>1 DEF TypeOK
  <2>2. entry[d] # e
    BY <1>6, <2>1 DEF WakeInv, q
  <2>3. entry[d] \in Entry
    BY <2>1 DEF CallInv
  <2> QED BY <1>5, <2>1, <2>2, <2>3 DEF WakeInv
<1> QED BY <1>7, <1>8, <1>9, <1>10, <1>11, <1>12, <1>13

(* A cancellation or timeout touches only the call's future. *)
LEMMA InterruptStep ==
  ASSUME IInv, NEW c \in Client, Interrupt(c)
  PROVE  IInv'
<1> USE DEF IInv
<1>1. /\ pc[c] = "waiting" /\ ~interrupted[c]
      /\ interrupted' = [interrupted EXCEPT ![c] = TRUE]
      /\ future' = [future EXCEPT ![c] = IF @ = "pending" THEN "cancelled" ELSE @]
      /\ UNCHANGED <<mode, timed, entries, heap, pc, session, entry>>
  BY DEF Interrupt
<1>2. TypeOK'
  BY <1>1 DEF TypeOK
<1>3. CallInv'
  BY <1>1 DEF CallInv, TypeOK
<1>4. TableInv' /\ CountInv' /\ QueueInv' /\ LockInv' /\ RejectNeverWaits'
  BY <1>1 DEF TableInv, CountInv, QueueInv, LockInv, RejectNeverWaits, Users
<1>5. WakeInv'
  BY <1>1 DEF WakeInv, TypeOK
<1> QED BY <1>2, <1>3, <1>4, <1>5

(* A call that leaves drops the entry from the table exactly when it was   *)
(* the last to refer to it.                                                *)
LEMMA ReleaseLemma ==
  ASSUME IInv, NEW c \in Client, pc[c] # "idle",
         NEW x \in [references : Nat, locked : BOOLEAN, waiters : Seq(Client)],
         x.references = heap[entry[c]].references,
         x.locked => \E d \in Client : d # c /\ entry[d] = entry[c],
         ReleaseReference(c, x), Left(c)
  PROVE  /\ heap' \in [Entry -> [references : Nat, locked : BOOLEAN, waiters : Seq(Client)]]
         /\ heap'[entry[c]].locked = x.locked
         /\ heap'[entry[c]].waiters = x.waiters
         /\ \A f \in Entry : f # entry[c] => heap'[f] = heap[f]
         /\ entries' \in [Session -> Entry \cup {NoEntry}]
         /\ \A d \in Client : d # c /\ pc[d] # "idle" => entries'[session[d]] = entries[session[d]]
         /\ TableInv'
         /\ CountInv'
<1> USE DEF IInv
<1> DEFINE e == entry[c]
           u == Users(e)
<1>1. e \in Entry /\ session[c] \in Session /\ entries[session[c]] = e /\ e # NoEntry
  BY CoordinatorAssumption DEF CallInv
<1>2. c \in u /\ IsFiniteSet(u) /\ x.references = Cardinality(u)
  BY <1>1, UsersFinite DEF Users, CountInv
<1>3. Cardinality(u \ {c}) = x.references - 1 /\ IsFiniteSet(u \ {c})
  BY <1>2, FS_RemoveElement
<1>4. Cardinality(u \ {c}) \in Nat
  BY <1>3, FS_CardinalityType
<1>5. x.references - 1 \in Nat /\ (x.references - 1 = 0 <=> u \ {c} = {})
  BY <1>3, <1>4, FS_EmptySet
<1>6. x.references - 1 = 0 => ~x.locked
  BY <1>5 DEF Users
<1>7. /\ heap' = [heap EXCEPT ![e] = [x EXCEPT !.references = x.references - 1]]
      /\ entries' = IF x.references - 1 = 0 /\ ~x.locked
                    THEN [entries EXCEPT ![session[c]] = NoEntry] ELSE entries
      /\ entry' = [entry EXCEPT ![c] = NoEntry]
  BY DEF ReleaseReference, DropUnused, Left
<1>8. /\ heap' \in [Entry -> [references : Nat, locked : BOOLEAN, waiters : Seq(Client)]]
      /\ heap'[e].locked = x.locked
      /\ heap'[e].waiters = x.waiters
      /\ heap'[e].references = x.references - 1
      /\ \A f \in Entry : f # e => heap'[f] = heap[f]
  BY <1>1, <1>5, <1>7 DEF TypeOK
<1>9. entries' \in [Session -> Entry \cup {NoEntry}]
  BY <1>7 DEF TypeOK
<1> DEFINE usersAfter(f) == {d \in Client : entry'[d] = f}
<1>10. /\ usersAfter(e) = u \ {c}
       /\ \A f : f # e /\ f # NoEntry => usersAfter(f) = Users(f)
  BY <1>1, <1>7 DEF Users, TypeOK
<1>11. ASSUME NEW d \in Client, d # c, pc[d] # "idle"
       PROVE  entries'[session[d]] = entries[session[d]]
  <2>1. session[d] \in Session /\ entries[session[d]] = entry[d]
    BY <1>11 DEF CallInv
  <2>2. CASE session[d] # session[c]
    BY <1>7, <2>1, <2>2 DEF TypeOK
  <2>3. CASE session[d] = session[c]
    <3>1. d \in u \ {c}
      BY <1>1, <1>11, <2>1, <2>3 DEF Users
    <3> QED BY <1>5, <1>7, <3>1
  <2> QED BY <2>2, <2>3
<1>12. TableInv'
  <2>1. ASSUME NEW r \in Session, NEW t \in Session, entries'[r] = entries'[t], entries'[r] # NoEntry
        PROVE  r = t
    BY <1>7, <2>1 DEF TableInv, TypeOK
  <2>2. ASSUME NEW t \in Session, entries'[t] # NoEntry
        PROVE  \E d \in Client : entry'[d] = entries'[t]
    <3>1. entries'[t] = entries[t] /\ entries[t] # NoEntry
      BY <1>7, <2>2 DEF TypeOK
    <3>2. CASE entries[t] # e
      BY <1>7, <3>1, <3>2 DEF TableInv, TypeOK
    <3>3. CASE entries[t] = e
      <4>1. t = session[c]
        BY <1>1, <3>3 DEF TableInv
      <4>2. u \ {c} # {}
        BY <1>1, <1>5, <1>6, <1>7, <2>2, <4>1 DEF TypeOK
      <4>3. PICK d \in Client : d # c /\ entry[d] = e
        BY <4>2 DEF Users
      <4> QED BY <1>7, <3>1, <3>3, <4>3 DEF TypeOK
    <3> QED BY <3>2, <3>3
  <2> QED BY <2>1, <2>2 DEF TableInv
<1>13. CountInv'
  <2> SUFFICES ASSUME NEW f \in Entry PROVE heap'[f].references = Cardinality(usersAfter(f))
    BY DEF CountInv, Users
  <2>1. CASE f = e
    BY <1>3, <1>8, <1>10, <2>1
  <2>2. CASE f # e
    BY <1>8, <1>10, <2>2, CoordinatorAssumption DEF CountInv
  <2> QED BY <2>1, <2>2
<1> QED BY <1>8, <1>9, <1>11, <1>12, <1>13

(* Waking the head of a queue touches no other future. *)
LEMMA WakeLemma ==
  ASSUME TypeOK, NEW q \in Seq(Client)
  PROVE  /\ WakeFirst(future, q) \in [Client -> {"none", "pending", "set", "cancelled"}]
         /\ \A d \in Client :
              \/ WakeFirst(future, q)[d] = future[d]
              \/ /\ future[d] = "pending" /\ WakeFirst(future, q)[d] = "set"
                 /\ q # <<>> /\ Head(q) = d
<1>1. q # <<>> => Head(q) \in Client
  OBVIOUS
<1> QED BY <1>1 DEF WakeFirst, TypeOK

(* An interrupted call leaves its queue, wakes the next and gives its reference back. *)
LEMMA UnwindStep ==
  ASSUME IInv, NEW c \in Client, Unwind(c)
  PROVE  IInv'
<1> USE DEF IInv
<1> DEFINE e == entry[c]
           q == heap[e].waiters
           rest == Without(q, c)
           x == [heap[e] EXCEPT !.waiters = rest]
           woken == IF heap[e].locked THEN future ELSE WakeFirst(future, rest)
<1>1. /\ pc[c] = "waiting" /\ interrupted[c]
      /\ ReleaseReference(c, x)
      /\ future' = [woken EXCEPT ![c] = "none"]
      /\ interrupted' = [interrupted EXCEPT ![c] = FALSE]
      /\ Left(c)
  BY DEF Unwind
<1>2. /\ e \in Entry /\ e # NoEntry
      /\ heap[e] \in [references : Nat, locked : BOOLEAN, waiters : Seq(Client)]
  BY <1>1, CoordinatorAssumption DEF CallInv, TypeOK
<1>3. c \in Range(q) /\ Distinct(q) /\ q \in Seq(Client)
  BY <1>1, <1>2 DEF QueueInv
<1>4. /\ rest \in Seq(Client) /\ Distinct(rest)
      /\ \A d : d \in Range(rest) <=> d \in Range(q) /\ d # c
      /\ Head(q) # c => rest # <<>> /\ Head(rest) = Head(q)
  BY <1>3, RemovalLemma
<1>5. /\ x \in [references : Nat, locked : BOOLEAN, waiters : Seq(Client)]
      /\ x.references = heap[e].references /\ x.locked = heap[e].locked /\ x.waiters = rest
  BY <1>2, <1>4
<1>6. x.locked => \E d \in Client : d # c /\ pc[d] = "holding" /\ entry[d] = e
  BY <1>1, <1>2, <1>5 DEF LockInv
<1>7. /\ heap' \in [Entry -> [references : Nat, locked : BOOLEAN, waiters : Seq(Client)]]
      /\ heap'[e].locked = heap[e].locked
      /\ heap'[e].waiters = rest
      /\ \A f \in Entry : f # e => heap'[f] = heap[f]
      /\ entries' \in [Session -> Entry \cup {NoEntry}]
      /\ \A d \in Client : d # c /\ pc[d] # "idle" => entries'[session[d]] = entries[session[d]]
      /\ TableInv' /\ CountInv'
  <2> HIDE DEF x
  <2> QED BY <1>1, <1>5, <1>6, ReleaseLemma
<1>8. /\ pc' = [pc EXCEPT ![c] = "idle"]
      /\ session' = [session EXCEPT ![c] = NoSession]
      /\ entry' = [entry EXCEPT ![c] = NoEntry]
      /\ UNCHANGED <<mode, timed>>
  BY <1>1 DEF Left
<1>9. /\ woken \in [Client -> {"none", "pending", "set", "cancelled"}]
      /\ \A d \in Client :
           \/ woken[d] = future[d]
           \/ /\ future[d] = "pending" /\ woken[d] = "set"
              /\ ~heap[e].locked /\ rest # <<>> /\ Head(rest) = d
  BY <1>4, WakeLemma DEF TypeOK
<1> HIDE DEF e, q, rest, x, woken
<1>10. TypeOK'
  BY <1>1, <1>7, <1>8, <1>9 DEF TypeOK
<1>11. CallInv'
  <2> SUFFICES ASSUME NEW d \in Client
               PROVE  /\ pc'[d] = "idle" => entry'[d] = NoEntry /\ session'[d] = NoSession
                      /\ pc'[d] # "idle" => /\ session'[d] \in Session
                                            /\ entry'[d] \in Entry
                                            /\ entries'[session'[d]] = entry'[d]
                      /\ pc'[d] # "waiting" => future'[d] = "none" /\ ~interrupted'[d]
                      /\ pc'[d] = "waiting" => future'[d] # "none"
                      /\ future'[d] = "cancelled" => interrupted'[d]
    BY DEF CallInv
  <2>1. CASE d = c
    BY <1>1, <1>8, <1>9, <2>1 DEF TypeOK
  <2>2. CASE d # c
    <3>1. /\ pc'[d] = pc[d] /\ entry'[d] = entry[d] /\ session'[d] = session[d]
          /\ interrupted'[d] = interrupted[d] /\ future'[d] = woken[d]
      BY <1>1, <1>8, <1>9, <2>2 DEF TypeOK
    <3> QED BY <1>7, <1>9, <2>2, <3>1 DEF CallInv
  <2> QED BY <2>1, <2>2
<1>12. QueueInv'
  <2> SUFFICES ASSUME NEW f \in Entry
               PROVE  /\ Distinct(heap'[f].waiters)
                      /\ \A d \in Client :
                           d \in Range(heap'[f].waiters) <=> pc'[d] = "waiting" /\ entry'[d] = f
    BY DEF QueueInv, Distinct, Range
  <2>1. CASE f # e
    BY <1>7, <1>8, <2>1 DEF QueueInv, TypeOK, e
  <2>2. CASE f = e
    <3>1. \A d \in Client : d \in Range(q) <=> pc[d] = "waiting" /\ entry[d] = f
      BY <1>2, <2>2 DEF QueueInv, q
    <3> QED BY <1>4, <1>7, <1>8, <2>2, <3>1 DEF TypeOK
  <2> QED BY <2>1, <2>2
<1>13. LockInv'
  <2>1. \A f \in Entry : heap'[f].locked = heap[f].locked
    BY <1>7
  <2>2. \A d \in Client : pc'[d] = "holding" <=> pc[d] = "holding"
    BY <1>1, <1>8 DEF TypeOK
  <2>3. \A d \in Client : pc[d] = "holding" => entry'[d] = entry[d]
    BY <1>1, <1>8 DEF TypeOK
  <2> QED BY <2>1, <2>2, <2>3 DEF LockInv
<1>14. WakeInv'
  <2> SUFFICES ASSUME NEW d \in Client, future'[d] = "set"
               PROVE  /\ ~heap'[entry'[d]].locked
                      /\ heap'[entry'[d]].waiters # <<>>
                      /\ Head(heap'[entry'[d]].waiters) = d
    BY DEF WakeInv
  <2>1. d # c /\ woken[d] = "set" /\ entry'[d] = entry[d]
    BY <1>1, <1>8, <1>9 DEF TypeOK
  <2>2. CASE woken[d] # future[d]
    <3>1. ~heap[e].locked /\ rest # <<>> /\ Head(rest) = d
      BY <1>9, <2>2
    <3>2. d \in Range(rest)
      BY <1>4, <3>1 DEF Range
    <3>3. entry[d] = e
      BY <1>2, <1>4, <3>2 DEF QueueInv, q
    <3> QED BY <1>7, <2>1, <3>1, <3>3
  <2>3. CASE woken[d] = future[d]
    <3>1. ~heap[entry[d]].locked /\ heap[entry[d]].waiters # <<>> /\ Head(heap[entry[d]].waiters) = d
      BY <2>1, <2>3 DEF WakeInv
    <3>2. entry[d] \in Entry
      BY <2>1, <2>3 DEF CallInv
    <3>3. CASE entry[d] # e
      BY <1>7, <2>1, <3>1, <3>2, <3>3
    <3>4. CASE entry[d] = e
      BY <1>4, <1>7, <2>1, <3>1, <3>4 DEF q
    <3> QED BY <3>3, <3>4
  <2> QED BY <2>2, <2>3
<1>15. RejectNeverWaits'
  BY <1>8 DEF RejectNeverWaits, TypeOK
<1> QED BY <1>7, <1>10, <1>11, <1>12, <1>13, <1>14, <1>15

(* The end of the body frees the lock and wakes the head of its queue. *)
LEMMA FinishStep ==
  ASSUME IInv, NEW c \in Client, Finish(c)
  PROVE  IInv'
<1> USE DEF IInv
<1> DEFINE e == entry[c]
           q == heap[e].waiters
           x == [heap[e] EXCEPT !.locked = FALSE]
           woken == WakeFirst(future, q)
<1>1. /\ pc[c] = "holding"
      /\ ReleaseReference(c, x)
      /\ future' = woken
      /\ Left(c)
      /\ UNCHANGED interrupted
  BY DEF Finish
<1>2. /\ e \in Entry /\ e # NoEntry
      /\ heap[e] \in [references : Nat, locked : BOOLEAN, waiters : Seq(Client)]
      /\ future[c] = "none" /\ heap[e].locked
  BY <1>1, CoordinatorAssumption DEF CallInv, TypeOK, LockInv
<1>3. /\ x \in [references : Nat, locked : BOOLEAN, waiters : Seq(Client)]
      /\ x.references = heap[e].references /\ ~x.locked /\ x.waiters = q
  BY <1>2
<1>4. /\ heap' \in [Entry -> [references : Nat, locked : BOOLEAN, waiters : Seq(Client)]]
      /\ ~heap'[e].locked
      /\ heap'[e].waiters = q
      /\ \A f \in Entry : f # e => heap'[f] = heap[f]
      /\ entries' \in [Session -> Entry \cup {NoEntry}]
      /\ \A d \in Client : d # c /\ pc[d] # "idle" => entries'[session[d]] = entries[session[d]]
      /\ TableInv' /\ CountInv'
  <2> HIDE DEF x
  <2> QED BY <1>1, <1>3, ReleaseLemma
<1>5. /\ pc' = [pc EXCEPT ![c] = "idle"]
      /\ session' = [session EXCEPT ![c] = NoSession]
      /\ entry' = [entry EXCEPT ![c] = NoEntry]
      /\ UNCHANGED <<mode, timed>>
  BY <1>1 DEF Left
<1>6. /\ woken \in [Client -> {"none", "pending", "set", "cancelled"}]
      /\ \A d \in Client :
           \/ woken[d] = future[d]
           \/ /\ future[d] = "pending" /\ woken[d] = "set"
              /\ q # <<>> /\ Head(q) = d
  BY <1>2, WakeLemma
<1> HIDE DEF e, q, x, woken
<1>7. TypeOK'
  BY <1>1, <1>4, <1>5, <1>6 DEF TypeOK
<1>8. CallInv'
  <2> SUFFICES ASSUME NEW d \in Client
               PROVE  /\ pc'[d] = "idle" => entry'[d] = NoEntry /\ session'[d] = NoSession
                      /\ pc'[d] # "idle" => /\ session'[d] \in Session
                                            /\ entry'[d] \in Entry
                                            /\ entries'[session'[d]] = entry'[d]
                      /\ pc'[d] # "waiting" => future'[d] = "none" /\ ~interrupted'[d]
                      /\ pc'[d] = "waiting" => future'[d] # "none"
                      /\ future'[d] = "cancelled" => interrupted'[d]
    BY DEF CallInv
  <2>1. CASE d = c
    BY <1>1, <1>2, <1>5, <1>6, <2>1 DEF TypeOK, CallInv
  <2>2. CASE d # c
    <3>1. /\ pc'[d] = pc[d] /\ entry'[d] = entry[d] /\ session'[d] = session[d]
          /\ interrupted'[d] = interrupted[d] /\ future'[d] = woken[d]
      BY <1>1, <1>5, <2>2 DEF TypeOK
    <3> QED BY <1>4, <1>6, <2>2, <3>1 DEF CallInv
  <2> QED BY <2>1, <2>2
<1>9. QueueInv'
  <2>1. \A f \in Entry : heap'[f].waiters = heap[f].waiters
    BY <1>4 DEF q
  <2>2. \A d \in Client : pc'[d] = "waiting" <=> pc[d] = "waiting"
    BY <1>1, <1>5 DEF TypeOK
  <2>3. \A d \in Client : pc[d] = "waiting" => entry'[d] = entry[d]
    BY <1>1, <1>5 DEF TypeOK
  <2> QED BY <2>1, <2>2, <2>3 DEF QueueInv
<1>10. LockInv'
  <2>1. \A d \in Client : pc[d] = "holding" /\ entry[d] = e => d = c
    BY <1>1 DEF LockInv, e
  <2>2. \A d \in Client : pc'[d] = "holding" <=> pc[d] = "holding" /\ d # c
    BY <1>5 DEF TypeOK
  <2>3. \A d \in Client : d # c => entry'[d] = entry[d]
    BY <1>5 DEF TypeOK
  <2>4. ASSUME NEW f \in Entry
        PROVE  heap'[f].locked <=> \E d \in Client : pc'[d] = "holding" /\ entry'[d] = f
    <3>1. CASE f = e
      BY <1>4, <2>1, <2>2, <2>3, <3>1
    <3>2. CASE f # e
      <4>1. heap'[f].locked <=> \E d \in Client : pc[d] = "holding" /\ entry[d] = f
        BY <1>4, <3>2 DEF LockInv
      <4>2. \A d \in Client : pc[d] = "holding" /\ entry[d] = f <=> pc'[d] = "holding" /\ entry'[d] = f
        BY <1>1, <1>2, <1>5, <2>2, <2>3, <3>2, CoordinatorAssumption DEF e, TypeOK
      <4> QED BY <4>1, <4>2
    <3> QED BY <3>1, <3>2
  <2>5. ASSUME NEW d \in Client, NEW f \in Client,
               pc'[d] = "holding", pc'[f] = "holding", entry'[d] = entry'[f]
        PROVE  d = f
    BY <2>2, <2>3, <2>5 DEF LockInv
  <2> QED BY <2>4, <2>5 DEF LockInv
<1>11. WakeInv'
  <2> SUFFICES ASSUME NEW d \in Client, future'[d] = "set"
               PROVE  /\ ~heap'[entry'[d]].locked
                      /\ heap'[entry'[d]].waiters # <<>>
                      /\ Head(heap'[entry'[d]].waiters) = d
    BY DEF WakeInv
  <2>1. d # c /\ woken[d] = "set" /\ entry'[d] = entry[d]
    BY <1>1, <1>2, <1>5, <1>6 DEF TypeOK
  <2>2. CASE woken[d] # future[d]
    <3>1. q # <<>> /\ Head(q) = d
      BY <1>6, <2>2
    <3>2. d \in Range(q)
      BY <1>2, <3>1 DEF Range, q
    <3>3. entry[d] = e
      BY <1>2, <3>2 DEF QueueInv, q
    <3> QED BY <1>4, <2>1, <3>1, <3>3
  <2>3. CASE woken[d] = future[d]
    <3>1. ~heap[entry[d]].locked /\ heap[entry[d]].waiters # <<>> /\ Head(heap[entry[d]].waiters) = d
      BY <2>1, <2>3 DEF WakeInv
    <3>2. entry[d] \in Entry /\ entry[d] # e
      BY <1>2, <2>1, <2>3, <3>1 DEF CallInv
    <3> QED BY <1>4, <2>1, <3>1, <3>2
  <2> QED BY <2>2, <2>3
<1>12. RejectNeverWaits'
  BY <1>5 DEF RejectNeverWaits, TypeOK
<1> QED BY <1>4, <1>7, <1>8, <1>9, <1>10, <1>11, <1>12

(* Every step preserves the invariant. *)
LEMMA StepInv == IInv /\ [Next]_vars => IInv'
<1> SUFFICES ASSUME IInv, [Next]_vars PROVE IInv'
  OBVIOUS
<1>1. ASSUME NEW c \in Client, NEW s \in Session, Lease(c, s) PROVE IInv'
  BY <1>1, LeaseStep
<1>2. ASSUME NEW c \in Client, Resume(c) PROVE IInv'
  BY <1>2, ResumeStep
<1>3. ASSUME NEW c \in Client, Cancel(c) \/ AcquireTimeout(c) PROVE IInv'
  BY <1>3, InterruptStep DEF Cancel, AcquireTimeout
<1>4. ASSUME NEW c \in Client, Unwind(c) PROVE IInv'
  BY <1>4, UnwindStep
<1>5. ASSUME NEW c \in Client, Finish(c) PROVE IInv'
  BY <1>5, FinishStep
<1>6. CASE UNCHANGED vars
  BY <1>6 DEF vars, IInv, TypeOK, CallInv, TableInv, CountInv, QueueInv, LockInv, WakeInv,
              RejectNeverWaits, Users
<1>7. ASSUME NEW c \in Client, NEW s \in Session, Refuse(c, s) PROVE UNCHANGED vars
  BY <1>7 DEF Refuse
<1> QED BY <1>1, <1>2, <1>3, <1>4, <1>5, <1>6, <1>7 DEF Next

(* The inductive invariant holds in every reachable state. *)
THEOREM Invariance == Spec => []IInv
  BY InitInv, StepInv, PTL DEF Spec

(* For any calls and sessions: every variable keeps its type, so no entry's *)
(* count goes below zero (_release_reference).                              *)
THEOREM TypeCorrect == Spec => []TypeOK
<1>1. IInv => TypeOK
  BY DEF IInv
<1> QED BY Invariance, <1>1, PTL

(* For any calls and sessions: lease never admits two calls to one session. *)
THEOREM Exclusion == Spec => []LeaseExclusive
<1>1. IInv => LeaseExclusive
  <2> SUFFICES ASSUME IInv, NEW c \in Client, NEW d \in Client,
                      pc[c] = "holding", pc[d] = "holding", session[c] = session[d]
               PROVE  c = d
    BY DEF LeaseExclusive
  <2>1. entry[c] = entry[d]
    BY DEF IInv, CallInv
  <2> QED BY <2>1 DEF IInv, LockInv
<1> QED BY Invariance, <1>1, PTL

(* For any calls and sessions: _entries holds exactly the sessions in use,  *)
(* each with its exact count of holders and waiters.                        *)
THEOREM TableExact == Spec => []ReferencesExact
<1>1. IInv => ReferencesExact
  <2> SUFFICES ASSUME IInv, NEW s \in Session
               PROVE  LET users == {c \in Client : session[c] = s}
                      IN  IF entries[s] = NoEntry THEN users = {}
                          ELSE /\ users # {}
                               /\ \A c \in users : entry[c] = entries[s]
                               /\ heap[entries[s]].references = Cardinality(users)
    BY DEF ReferencesExact
  <2> DEFINE users == {c \in Client : session[c] = s}
  <2>1. \A c \in users : entry[c] = entries[s] /\ entry[c] \in Entry
    BY CoordinatorAssumption DEF IInv, CallInv, TypeOK
  <2>2. CASE entries[s] = NoEntry
    BY <2>1, <2>2, CoordinatorAssumption
  <2>3. CASE entries[s] # NoEntry
    <3>1. users = Users(entries[s])
      <4>1. ASSUME NEW c \in Client, entry[c] = entries[s] PROVE session[c] = s
        BY <2>3, <4>1 DEF IInv, CallInv, TableInv, TypeOK
      <4> QED BY <2>1, <4>1 DEF Users
    <3>2. users # {}
      BY <2>3, <3>1 DEF IInv, TableInv, Users
    <3>3. entries[s] \in Entry
      BY <2>3 DEF IInv, TypeOK
    <3> QED BY <2>1, <2>3, <3>1, <3>2, <3>3 DEF IInv, CountInv
  <2> QED BY <2>2, <2>3
<1> QED BY Invariance, <1>1, PTL

(* For any calls and sessions: the reference count _reserve reads decides   *)
(* alone in reject mode; nobody ever queues there.                          *)
THEOREM RejectDecides == Spec => []RejectNeverWaits
<1>1. IInv => RejectNeverWaits
  BY DEF IInv
<1> QED BY Invariance, <1>1, PTL

(* A woken call is the head of its queue; a call that finds the lock free   *)
(* finds no uninterrupted call queued.                                      *)
LEMMA OrderStep ==
  ASSUME IInv, [Next]_vars, NEW c \in Client, NEW d \in Client, c # d,
         pc[c] # "holding", pc'[c] = "holding",
         pc[d] = "waiting", ~interrupted[d], session[d] = session'[c]
  PROVE  Behind(d, c)
<1> USE DEF IInv
<1>1. (\E s \in Session : Lease(c, s)) \/ Resume(c)
  <2>1. ASSUME NEW b \in Client, Resume(b) PROVE b = c
    BY <2>1 DEF Resume, TypeOK
  <2>2. ASSUME NEW b \in Client, Interrupt(b) \/ Unwind(b) \/ Finish(b) PROVE FALSE
    BY <2>2 DEF Interrupt, Unwind, Finish, Left, TypeOK
  <2>3. ASSUME NEW b \in Client, NEW s \in Session, Lease(b, s) PROVE b = c
    BY <2>3 DEF Lease, TypeOK
  <2>4. ASSUME NEW b \in Client, NEW s \in Session, Refuse(b, s) PROVE FALSE
    BY <2>4 DEF Refuse, vars
  <2> QED BY <2>1, <2>2, <2>3, <2>4 DEF Next, vars, Cancel, AcquireTimeout
<1>2. /\ entry[d] \in Entry /\ entries[session[d]] = entry[d] /\ future[d] # "cancelled"
      /\ session[d] \in Session
  BY DEF CallInv
<1>3. d \in Range(heap[entry[d]].waiters)
  BY <1>2 DEF QueueInv
<1>4. ASSUME NEW s \in Session, Lease(c, s) PROVE FALSE
  <2>1. s = session[d]
    BY <1>4 DEF Lease, TypeOK
  <2>2. entries[s] = entry[d] /\ entries[s] # NoEntry
    BY <1>2, <2>1, CoordinatorAssumption
  <2>3. Uncontended(heap[entry[d]])
    BY <1>4, <2>2 DEF Lease, EntryFor, TypeOK
  <2> QED BY <1>2, <1>3, <2>3 DEF Uncontended, Range
<1>5. ASSUME Resume(c) PROVE Behind(d, c)
  <2>1. pc[c] = "waiting" /\ future[c] = "set" /\ session[c] = session[d]
    BY <1>5 DEF Resume
  <2>2. entry[c] = entry[d]
    BY <1>2, <2>1 DEF CallInv
  <2> DEFINE q == heap[entry[d]].waiters
  <2>3. q \in Seq(Client) /\ q # <<>> /\ q[1] = c
    BY <1>2, <2>1, <2>2 DEF WakeInv, TypeOK
  <2>4. PICK j \in DOMAIN q : q[j] = d
    BY <1>3 DEF Range
  <2>5. 1 \in DOMAIN q /\ 1 < j
    BY <2>3, <2>4
  <2> QED BY <2>1, <2>2, <2>3, <2>4, <2>5 DEF Behind
<1> QED BY <1>1, <1>4, <1>5

(* For any calls and sessions: lease serves the calls of a session in the   *)
(* order they queued, interrupted calls aside.                              *)
THEOREM ServedInOrder == Spec => NoBarging
<1>1. IInv /\ [Next]_vars => [\A c, d \in Client :
       /\ c # d
       /\ pc[c] # "holding" /\ pc'[c] = "holding"
       /\ pc[d] = "waiting" /\ ~interrupted[d] /\ session[d] = session'[c]
       => Behind(d, c)]_vars
  BY OrderStep
<1> QED BY Invariance, <1>1, PTL DEF Spec, NoBarging

(* A step of the coordinator is a step of the abstract lease or a stutter.  *)
LEMMA LeaseRefinementStep == IInv /\ IInv' /\ [Next]_vars => [Abstract!Next]_Holder
<1> SUFFICES ASSUME IInv, IInv', [Next]_vars PROVE [Abstract!Next]_Holder
  OBVIOUS
<1> DEFINE holds(c, s) == pc[c] = "holding" /\ session[c] = s
           holdsAfter(c, s) == pc'[c] = "holding" /\ session'[c] = s
<1>1. \A s \in Session : \A c, d \in Client : holds(c, s) /\ holds(d, s) => c = d
  BY DEF IInv, CallInv, LockInv
<1>2. \A s \in Session : \A c, d \in Client : holdsAfter(c, s) /\ holdsAfter(d, s) => c = d
  BY DEF IInv, CallInv, LockInv
<1>3. \A s \in Session :
        /\ \A c \in Client : holds(c, s) => Holder[s] = c
        /\ (\A c \in Client : ~holds(c, s)) => Holder[s] = NoClient
  BY <1>1 DEF Holder
<1>4. \A s \in Session :
        /\ \A c \in Client : holdsAfter(c, s) => Holder'[s] = c
        /\ (\A c \in Client : ~holdsAfter(c, s)) => Holder'[s] = NoClient
  BY <1>2 DEF Holder
<1>5. /\ Holder = [s \in Session |-> Holder[s]]
      /\ Holder' = [s \in Session |-> Holder'[s]]
  BY DEF Holder
<1>6. ASSUME \A c \in Client, s \in Session : holdsAfter(c, s) <=> holds(c, s)
      PROVE  Holder' = Holder
  BY <1>3, <1>4, <1>5, <1>6
<1>7. ASSUME NEW c \in Client, NEW s \in Session, holdsAfter(c, s), ~holds(c, s),
             \A d \in Client, t \in Session : <<d, t>> # <<c, s>> => (holdsAfter(d, t) <=> holds(d, t))
      PROVE  Abstract!Acquire(c, s)
  <2>1. \A d \in Client : ~holds(d, s)
    BY <1>2, <1>7
  <2>2. Holder[s] = NoClient /\ Holder'[s] = c
    BY <1>3, <1>4, <1>7, <2>1
  <2>3. \A t \in Session : t # s => Holder'[t] = Holder[t]
    BY <1>3, <1>4, <1>7
  <2>4. Holder' = [Holder EXCEPT ![s] = c]
    BY <1>5, <2>2, <2>3
  <2> QED BY <2>2, <2>4 DEF Abstract!Acquire
<1>8. ASSUME NEW c \in Client, NEW s \in Session, holds(c, s), ~holdsAfter(c, s),
             \A d \in Client, t \in Session : <<d, t>> # <<c, s>> => (holdsAfter(d, t) <=> holds(d, t))
      PROVE  Abstract!Release(c, s)
  <2>1. \A d \in Client : ~holdsAfter(d, s)
    BY <1>1, <1>8
  <2>2. Holder[s] = c /\ Holder'[s] = NoClient
    BY <1>3, <1>4, <1>8, <2>1
  <2>3. \A t \in Session : t # s => Holder'[t] = Holder[t]
    BY <1>3, <1>4, <1>8
  <2>4. Holder' = [Holder EXCEPT ![s] = NoClient]
    BY <1>5, <2>2, <2>3
  <2> QED BY <2>2, <2>4 DEF Abstract!Release
<1> USE DEF IInv
<1>9. ASSUME NEW c \in Client, NEW s \in Session, Lease(c, s) PROVE [Abstract!Next]_Holder
  <2>1. /\ pc[c] = "idle" /\ \A d \in Client : d # c => pc'[d] = pc[d] /\ session'[d] = session[d]
        /\ session'[c] = s /\ session[c] = NoSession
    BY <1>9 DEF Lease, TypeOK, CallInv
  <2>2. CASE pc'[c] = "holding"
    <3>1. \A d \in Client, t \in Session : <<d, t>> # <<c, s>> => (holdsAfter(d, t) <=> holds(d, t))
      BY <2>1
    <3> QED BY <1>7, <2>1, <2>2, <3>1 DEF Abstract!Next
  <2>3. CASE pc'[c] # "holding"
    BY <1>6, <2>1, <2>3
  <2> QED BY <2>2, <2>3
<1>10. ASSUME NEW c \in Client, Resume(c) PROVE [Abstract!Next]_Holder
  <2>1. /\ pc[c] = "waiting" /\ pc'[c] = "holding" /\ session' = session /\ session[c] \in Session
        /\ \A d \in Client : d # c => pc'[d] = pc[d]
    BY <1>10 DEF Resume, TypeOK, CallInv
  <2>2. \A d \in Client, t \in Session :
          <<d, t>> # <<c, session[c]>> => (holdsAfter(d, t) <=> holds(d, t))
    BY <2>1
  <2> QED BY <1>7, <2>1, <2>2 DEF Abstract!Next
<1>11. ASSUME NEW c \in Client, Interrupt(c) PROVE Holder' = Holder
  BY <1>6, <1>11 DEF Interrupt
<1>12. ASSUME NEW c \in Client, Unwind(c) PROVE Holder' = Holder
  <2>1. /\ pc[c] = "waiting" /\ pc'[c] = "idle"
        /\ \A d \in Client : d # c => pc'[d] = pc[d] /\ session'[d] = session[d]
    BY <1>12 DEF Unwind, Left, TypeOK
  <2> QED BY <1>6, <2>1
<1>13. ASSUME NEW c \in Client, Finish(c) PROVE [Abstract!Next]_Holder
  <2>1. /\ pc[c] = "holding" /\ pc'[c] = "idle" /\ session[c] \in Session
        /\ \A d \in Client : d # c => pc'[d] = pc[d] /\ session'[d] = session[d]
    BY <1>13 DEF Finish, Left, TypeOK, CallInv
  <2>2. \A d \in Client, t \in Session :
          <<d, t>> # <<c, session[c]>> => (holdsAfter(d, t) <=> holds(d, t))
    BY <2>1
  <2> QED BY <1>8, <2>1, <2>2 DEF Abstract!Next
<1>14. CASE UNCHANGED vars
  BY <1>6, <1>14 DEF vars
<1>15. ASSUME NEW c \in Client, NEW s \in Session, Refuse(c, s) PROVE UNCHANGED vars
  BY <1>15 DEF Refuse
<1> QED BY <1>9, <1>10, <1>11, <1>12, <1>13, <1>14, <1>15 DEF Next, Cancel, AcquireTimeout

(* For any calls and sessions: the table of counted entries and locks       *)
(* implements the abstract lease.                                           *)
THEOREM LeaseRefinement == Spec => ImplementsLease
<1>1. Init => Abstract!Init
  BY DEF Init, Abstract!Init, Holder
<1> QED BY Invariance, <1>1, LeaseRefinementStep, PTL DEF Spec, ImplementsLease, Abstract!Spec
=============================================================================
