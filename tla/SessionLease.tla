----------------------------- MODULE SessionLease -----------------------------
(***************************************************************************)
(* What SessionCoordinator promises its callers: complete runs that share  *)
(* a session id are serialized.  A session is leased to at most one call,  *)
(* only a free session is leased, and only its holder gives it back.       *)
(***************************************************************************)
CONSTANTS Client,   \* calls of SessionCoordinator.lease
          Session,  \* session ids
          NoClient  \* the holder of a free session

VARIABLE holder

Init == holder = [s \in Session |-> NoClient]

Acquire(c, s) ==
  /\ holder[s] = NoClient
  /\ holder' = [holder EXCEPT ![s] = c]

Release(c, s) ==
  /\ holder[s] = c
  /\ holder' = [holder EXCEPT ![s] = NoClient]

Next == \E c \in Client, s \in Session : Acquire(c, s) \/ Release(c, s)

Spec == Init /\ [][Next]_holder
=============================================================================
