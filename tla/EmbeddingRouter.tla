--------------------------- MODULE EmbeddingRouter ---------------------------
(***************************************************************************)
(* tools/router.py, class EmbeddingRouter: concurrent calls of route share *)
(* an LRU cache of tool vectors, under a lock held across the await of the *)
(* embedder.                                                               *)
(*                                                                         *)
(* A schema is known by the text embedded for it.  The vector of a text is *)
(* modelled by the text it was computed from, so that a vector filed under *)
(* the wrong text shows.  Scores only decide which of the request's tools  *)
(* are selected; AgentRun lets that be any of them.                        *)
(***************************************************************************)
EXTENDS Integers, Sublists, SequencesExt, FiniteSets

CONSTANTS Call,        \* concurrent callers of route
          NoCall,      \* the holder of a free lock
          Text,        \* capability texts of tool schemas
          Query,       \* the text of a query
          CacheSize,   \* _cache_size
          MaxSchemas   \* bound of the model: schemas in one request

ASSUME RouterAssumption ==
  /\ IsFiniteSet(Call) /\ NoCall \notin Call
  /\ IsFiniteSet(Text) /\ Query \notin Text
  /\ CacheSize \in Nat \ {0} /\ MaxSchemas \in Nat

VARIABLES cache,      \* _tool_vectors, least recently used first
          owner,      \* holder of _route_lock
          queue,      \* calls waiting for it, first come first served
          pc,         \* where each call is
          request,    \* its schemas, in order
          missing,    \* its missing_texts
          result      \* the vectors it compared the query with

vars == <<cache, owner, queue, pc, request, missing, result>>

\* Duplicate names are refused, and the name is part of the text.
Request == {s \in BoundedSeq(Text, MaxSchemas) : IsInjective(s)}

Entry == [text : Text, vector : Text \cup {Query}]

Ended == {"ok", "refused", "failed", "corrupt", "cancelled"}

Init ==
  /\ cache = <<>>
  /\ owner = NoCall /\ queue = <<>>
  /\ pc = [c \in Call |-> "new"]
  /\ request = [c \in Call |-> <<>>]
  /\ missing = [c \in Call |-> <<>>]
  /\ result = [c \in Call |-> <<>>]
-----------------------------------------------------------------------------
(* The OrderedDict *)

Cached(entries) == {e.text : e \in ToSet(entries)}

Place(entries, text) == CHOOSE i \in DOMAIN entries : entries[i].text = text

VectorOf(entries, text) == entries[Place(entries, text)].vector

Without(entries, text) ==
  IF text \in Cached(entries) THEN RemoveAt(entries, Place(entries, text)) ELSE entries

\* move_to_end.
Touch(entries, text) ==
  Append(Without(entries, text), [text |-> text, vector |-> VectorOf(entries, text)])

\* A plausible bug: the cache may hold one entry too many.
EvictLate(entries) ==
  IF Len(entries) > CacheSize + 1 THEN Tail(entries) ELSE entries

\* A plausible bug: one entry is evicted while there is still room.
EvictEarly(entries) == IF Len(entries) >= CacheSize THEN Tail(entries) ELSE entries

\* popitem(last=False) while the cache is over its size: an insertion adds one.
Evict(entries) == IF Len(entries) > CacheSize THEN Tail(entries) ELSE entries

Insert(entries, entry) == Evict(Append(Without(entries, entry.text), entry))

\* The entries of a list of texts, one inserted after the other.
InsertAll(entries, texts, vectors) ==
  Through(entries, [n \in DOMAIN texts |->
    [es \in Seq(Entry) |-> Insert(es, [text |-> texts[n], vector |-> vectors[n]])]])

\* A plausible bug: the query's vector is taken for the first text's.
FillShifted(entries, texts) == InsertAll(entries, texts, <<Query>> \o texts)

\* The batch is the query followed by the missing texts.
Fill(entries, texts) == InsertAll(entries, texts, Tail(<<Query>> \o texts))

\* The texts read before the first one the cache does not hold.
Readable(entries, texts) ==
  LET read == {i \in DOMAIN texts : \A j \in 1..i : texts[j] \in Cached(entries)}
  IN  [i \in read |-> texts[i]]

\* A plausible bug: a hit is not moved to the end.
ReadUntouched(entries, texts) == entries

\* Each text read is moved to the end.
Read(entries, texts) ==
  LET readable == Readable(entries, texts)
  IN  Through(entries, [n \in DOMAIN readable |-> [es \in Seq(Entry) |-> Touch(es, texts[n])]])
-----------------------------------------------------------------------------
(* route *)

Outside(c) == pc[c] \in {"new"} \cup Ended

Finish(c, how) ==
  /\ pc' = [pc EXCEPT ![c] = how]
  /\ missing' = [missing EXCEPT ![c] = <<>>]

\* The checks before the lock: no schemas, a blank query, a query or a schema
\* set that is too large.
Refuse(c) ==
  /\ Outside(c)
  /\ \E r \in Request :
       /\ request' = [request EXCEPT ![c] = r]
       /\ result' = [result EXCEPT ![c] = <<>>]
       /\ \/ r = <<>> /\ Finish(c, "ok")
          \/ Finish(c, "refused")
  /\ UNCHANGED <<cache, owner, queue>>

Route(c) ==
  /\ Outside(c)
  /\ \E r \in Request \ {<<>>} :
       /\ Len(r) <= CacheSize
       /\ request' = [request EXCEPT ![c] = r]
  /\ result' = [result EXCEPT ![c] = <<>>]
  /\ queue' = Append(queue, c)
  /\ pc' = [pc EXCEPT ![c] = "waiting"]
  /\ UNCHANGED <<cache, owner, missing>>

\* A plausible bug: the lock does not span the await.
AcquireUnguarded(c) ==
  /\ queue # <<>> /\ Head(queue) = c
  /\ queue' = Tail(queue)
  /\ owner' = c

\* asyncio.Lock.
Acquire(c) ==
  /\ owner = NoCall
  /\ queue # <<>> /\ Head(queue) = c
  /\ queue' = Tail(queue)
  /\ owner' = c

\* A plausible bug: an error path keeps the lock.
KeepLock(c) == UNCHANGED owner

Release(c) == owner' = NoCall

\* The lock is acquired; the batch goes to the embedder.
Embed(c) ==
  /\ pc[c] = "waiting"
  /\ Acquire(c)
  /\ missing' = [missing EXCEPT ![c] =
       Sublist(request[c], ToSet(request[c]) \ Cached(cache))]
  /\ pc' = [pc EXCEPT ![c] = "embedding"]
  /\ UNCHANGED <<cache, request, result>>

\* The vectors arrive: fill, evict, read.  A vector of another dimension fails
\* the call after its lock is released.
Embedded(c) ==
  /\ pc[c] = "embedding"
  /\ LET filled == Fill(cache, missing[c]) IN
       /\ cache' = Read(filled, request[c])
       /\ IF ToSet(request[c]) \subseteq Cached(filled)
          THEN /\ Finish(c, "ok") \/ Finish(c, "failed")
               /\ result' = [result EXCEPT ![c] =
                    [i \in DOMAIN request[c] |-> VectorOf(filled, request[c][i])]]
          ELSE Finish(c, "corrupt") /\ UNCHANGED result
  /\ Release(c)
  /\ UNCHANGED <<queue, request>>

\* The embedder raises, or answers with a batch _embed_safely rejects.
EmbedFails(c) ==
  /\ pc[c] = "embedding"
  /\ Finish(c, "failed")
  /\ Release(c)
  /\ UNCHANGED <<cache, queue, request, result>>

CancelEmbed(c) ==
  /\ pc[c] = "embedding"
  /\ Finish(c, "cancelled")
  /\ Release(c)
  /\ UNCHANGED <<cache, queue, request, result>>

CancelWait(c) ==
  /\ pc[c] = "waiting"
  /\ Finish(c, "cancelled")
  /\ queue' = Sublist(queue, Call \ {c})
  /\ UNCHANGED <<cache, owner, request, result>>
-----------------------------------------------------------------------------
Step(c) == Embed(c) \/ Embedded(c) \/ EmbedFails(c)

Next ==
  \E c \in Call : Refuse(c) \/ Route(c) \/ Step(c) \/ CancelEmbed(c) \/ CancelWait(c)

Spec == Init /\ [][Next]_vars

\* The lock is handed on, and the embedder answers or raises (the client's
\* calls end whatever its worker does: ProcessEmbeddingClient!EveryCallEnds).
FairSpec == Spec /\ \A c \in Call : WF_vars(Step(c))
-----------------------------------------------------------------------------
\* Every variable keeps its type; the cache never outgrows its size, nor holds a
\* text twice, whichever calls filled it in turn.
TypeOK ==
  /\ cache \in Seq(Entry)
  /\ Len(cache) <= CacheSize /\ Cardinality(Cached(cache)) = Len(cache)
  /\ owner \in Call \cup {NoCall} /\ queue \in Seq(Call)
  /\ pc \in [Call -> {"new", "waiting", "embedding"} \cup Ended]
  /\ request \in [Call -> Request]
  /\ missing \in [Call -> Seq(Text)]
  /\ result \in [Call -> Seq(Text)]

\* Every tool is scored by the vector of its own text, whichever call embedded
\* it and at whatever place of whichever batch.
OwnVectors ==
  /\ \A e \in ToSet(cache) : e.vector = e.text
  /\ \A c \in Call : pc[c] = "ok" => result[c] = request[c]

\* What a call found missing before it awaited the embedder is what is missing
\* when the vectors come, and no other call embeds it meanwhile.
MissingStillMissing ==
  \A c \in Call : pc[c] = "embedding" =>
    /\ ToSet(missing[c]) = ToSet(request[c]) \ Cached(cache)
    /\ \A d \in Call : pc[d] = "embedding" => d = c

\* A served request leaves its texts as the last ones to be evicted.
LeastRecentlyUsedFirst ==
  [][\A c \in Call :
       pc[c] = "embedding" /\ pc'[c] = "ok" =>
         LET recent == SubSeq(cache', Len(cache') - Len(request[c]) + 1, Len(cache'))
         IN  [i \in DOMAIN recent |-> recent[i].text] = request[c]]_vars

\* Every call ends: no error or cancellation keeps the lock.
EveryRouteEnds == \A c \in Call : pc[c] = "waiting" ~> pc[c] \in Ended

\* A call misses a text it needs only when the cache cannot hold what it holds
\* together with what the call asks for; so never when all calls ask for the
\* same schemas, as those of a Runtime do.
CorruptOnlyByEviction ==
  [][\A c \in Call :
       pc[c] = "embedding" /\ pc'[c] = "corrupt" =>
         Cardinality(Cached(cache) \cup ToSet(request[c])) > CacheSize]_vars
=============================================================================
