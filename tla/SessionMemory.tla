---------------------------- MODULE SessionMemory ----------------------------
(***************************************************************************)
(* memory/manager.py and memory/session_store.py: the conversations of a   *)
(* process, cached as BufferMemory objects, over the SQLite table they are *)
(* saved in.  The table survives a restart, the cache does not, and the    *)
(* next process may have another token budget.  A save is one statement    *)
(* and its commit: a crash leaves the old row or the new one.  JSON gives  *)
(* back the messages it was given.                                         *)
(***************************************************************************)
EXTENDS BufferMemory

CONSTANTS Session,    \* session ids
          Budget,     \* the max_tokens processes are started with
          Size,       \* what count_message returns for a message, 0 if it raises
          MaxLength,  \* bound of the model: no longer window is extended
          MaxDrift,   \* bound of the model: nor one whose count has drifted further
          None        \* no buffer, no row

ASSUME MemoryAssumption ==
  /\ Budget \subseteq Nat
  /\ Size \subseteq Nat
  /\ MaxLength \in Nat /\ MaxDrift \in Nat

VARIABLES budget,     \* MemoryManager._max_tokens
          cache,      \* MemoryManager._cache
          stored      \* the rows of the sessions table

vars == <<budget, cache, stored>>

\* What trimming tells apart: messages with tool calls, tool results, others.
Message ==
  [role : {"user", "tool"}, calls : {<<>>}, size : Size]
    \cup [role : {"assistant"}, calls : {<<"call">>}, size : Size]

Init ==
  /\ budget \in Budget
  /\ cache = [s \in Session |-> None]
  /\ stored = [s \in Session |-> None]

\* What the cached count has in excess of the messages it stands for.
Surplus(b) == b.total - b.system - TotalTokens(b.messages)

GetOrCreate(s, system) ==
  /\ cache[s] = None
  /\ cache' = [cache EXCEPT ![s] = NewBuffer(system)]
  /\ UNCHANGED <<budget, stored>>

\* add_message and clear on the buffer get_or_create or load returned.
AddTo(s, m) ==
  /\ cache[s] # None
  /\ Len(cache[s].messages) < MaxLength /\ Surplus(cache[s]) <= MaxDrift
  /\ cache' = [cache EXCEPT ![s] = Added(@, m, budget)]
  /\ UNCHANGED <<budget, stored>>

Clear(s) ==
  /\ cache[s] # None
  /\ cache' = [cache EXCEPT ![s] = Cleared(@)]
  /\ UNCHANGED <<budget, stored>>

\* save; without a buffer it raises.
Save(s) ==
  /\ cache[s] # None
  /\ stored' = [stored EXCEPT ![s] = [system   |-> cache[s].system,
                                      messages |-> cache[s].messages]]
  /\ UNCHANGED <<budget, cache>>

\* A plausible bug: the system message is restored after the messages.
ReplayedBeside(row) ==
  [AddedAll(NewBuffer(0), row.messages, budget) EXCEPT !.system = row.system,
                                                      !.total = @ + row.system]

\* The saved messages are added one by one, each time trimming.
Replayed(row) == AddedAll(NewBuffer(row.system), row.messages, budget)

\* load, when the cache does not have the session and the table does.  If a
\* message raises, load does too, and changes nothing.
Load(s) ==
  /\ cache[s] = None
  /\ stored[s] # None
  /\ ~Replayed(stored[s]).raised
  /\ cache' = [cache EXCEPT ![s] = Replayed(stored[s])]
  /\ UNCHANGED <<budget, stored>>

Delete(s) ==
  /\ cache' = [cache EXCEPT ![s] = None]
  /\ stored' = [stored EXCEPT ![s] = None]
  /\ UNCHANGED budget

Restart ==
  /\ budget' \in Budget
  /\ cache' = [s \in Session |-> None]
  /\ UNCHANGED stored

Next ==
  \/ Restart
  \/ \E s \in Session :
       \/ \E system \in Size \cup {0} : GetOrCreate(s, system)
       \/ \E m \in Message : AddTo(s, m)
       \/ Clear(s) \/ Save(s) \/ Load(s) \/ Delete(s)

Spec == Init /\ [][Next]_vars
-----------------------------------------------------------------------------
\* The budget a buffer's count leaves to the window.
Room(b) == budget - (b.total - TotalTokens(b.messages))

\* Once the cached count is exact it drifts only in a call that raises, and then
\* upwards, so the window is never fuller than the count says; no other call makes
\* it worse, however many blocks are evicted and wherever the messages came from.
CountKept ==
  [][\A s \in Session :
       cache'[s] # None
         => \/ Surplus(cache'[s]) = 0
            \/ /\ cache[s] # None
               /\ \/ Surplus(cache'[s]) = Surplus(cache[s])
                  \/ cache'[s].raised /\ Surplus(cache'[s]) > Surplus(cache[s])]_vars

\* The loop computes Trim: a message that is added evicts whole blocks, oldest
\* first, so it stays itself and no tool result is kept without its call.  An add
\* that raises leaves whole blocks too, but perhaps more than fit.
EvictsWholeBlocks ==
  [][\A s \in Session :
       cache[s] # None /\ cache'[s] # None /\ cache'[s].messages # <<>>
         => \/ cache'[s] = cache[s]
            \/ \E m \in Message :
                 LET w == Append(cache[s].messages, m)
                 IN  /\ \E i \in BlockStarts(w) : cache'[s].messages = From(w, i)
                     /\ ~cache'[s].raised => cache'[s].messages = Trim(w, Room(cache[s]))]_vars

\* A session that comes back from the table has what one trim of the whole saved
\* window leaves: all of it, unless the budget has become smaller; replaying it
\* message by message evicts nothing more.  Each of its messages can be counted.
ReloadIsTrim ==
  [][\A s \in Session :
       cache[s] = None /\ cache'[s] # None /\ cache'[s].messages # <<>>
         => /\ cache'[s].system = stored[s].system
            /\ cache'[s].messages = Trim(stored[s].messages, budget - stored[s].system)
            /\ \A k \in DOMAIN stored[s].messages : Countable(stored[s].messages[k])]_vars
=============================================================================
