------------------------------ MODULE LlmClient ------------------------------
(***************************************************************************)
(* llm/client.py: a request to the model provider, retried until it is     *)
(* accepted, and the assembly of a streamed answer from its chunks.  chat  *)
(* returns an answer as a whole, stream passes on tokens as they come and  *)
(* collects the fragments of tool calls by their index.                    *)
(***************************************************************************)
EXTENDS Naturals, Sequences, SequencesExt, FiniteSets

CONSTANTS Client,      \* who may have a request under way
          MaxRetries,  \* AsyncLLMClient.max_retries
          Pieces       \* bound of the model: for each client, a sequence of how many
                       \* fragments its answers have at most for each tool call

VARIABLE request       \* what each client's request has come to

\* sent has the fragments the stream has brought, as pairs of index and number.
NoRequest == [at |-> "none", streamed |-> FALSE, attempt |-> 0, slots |-> <<>>, sent |-> {},
              tokens |-> {}]

InitLlm == request = [c \in Client |-> NoRequest]

\* chat, or _create_stream_with_retry.
Send(c, streamed) ==
  request' = [request EXCEPT ![c] = [NoRequest EXCEPT !.at = "sending", !.streamed = streamed]]

At(c, stage) == request[c].at = stage

Becomes(c, stage) == request' = [request EXCEPT ![c].at = stage]

\* create returns: the whole answer, or a stream of it.
Accepted(c) ==
  /\ At(c, "sending")
  /\ Becomes(c, IF request[c].streamed THEN "streaming" ELSE "answered")

\* A plausible bug: the last attempt is followed by another retry.
RetriesOnceMore(error, attempt) == error = "retryable" /\ attempt <= MaxRetries

\* _decide_on_error.
Retries(error, attempt) == error = "retryable" /\ attempt < MaxRetries

Rejected(c, error) ==
  /\ At(c, "sending")
  /\ Becomes(c, IF Retries(error, request[c].attempt) THEN "sleeping" ELSE "failed")

\* After the sleep the for loop goes on, or is over and the request returns None.
Slept(c) ==
  /\ At(c, "sleeping")
  /\ IF request[c].attempt < MaxRetries
     THEN request' = [request EXCEPT ![c].at = "sending", ![c].attempt = @ + 1]
     ELSE Becomes(c, "empty")

\* A chunk with text: it is shown to the user at once.
Token(c) ==
  /\ At(c, "streaming")
  /\ request' = [request EXCEPT ![c].tokens = @ \cup {request[c].attempt}]

\* A plausible bug: a fragment always goes to the call that was opened last.
CollectedLast(slots, index) ==
  IF slots = <<>> \/ \A i \in DOMAIN slots : slots[i].index # index
  THEN Append(slots, [index |-> index, pieces |-> 1])
  ELSE [slots EXCEPT ![Len(slots)].pieces = @ + 1]

\* tool_frags, in the order of insertion.
Collected(slots, index) ==
  IF \A i \in DOMAIN slots : slots[i].index # index
  THEN Append(slots, [index |-> index, pieces |-> 1])
  ELSE [i \in DOMAIN slots |->
         IF slots[i].index = index THEN [slots[i] EXCEPT !.pieces = @ + 1] ELSE slots[i]]

SentOf(c, index) == {piece \in request[c].sent : piece[1] = index}

\* A chunk with a fragment of the call of that index.
Fragment(c, index) ==
  LET n == Cardinality(SentOf(c, index)) IN
  /\ At(c, "streaming")
  /\ n < Pieces[c][index]
  /\ request' = [request EXCEPT ![c].slots = Collected(@, index), ![c].sent = @ \cup {<<index, n>>}]

\* sorted(tool_frags): no two slots have one index.
ByIndex(slots) ==
  CHOOSE sorted \in [DOMAIN slots -> ToSet(slots)] :
    /\ ToSet(sorted) = ToSet(slots)
    /\ \A i, j \in DOMAIN sorted : i < j => sorted[i].index < sorted[j].index

\* The chunk with the finish reason: the calls are handed over by index.
Finish(c) ==
  /\ At(c, "streaming")
  /\ request' = [request EXCEPT ![c].at = "answered", ![c].slots = ByIndex(@)]

\* The stream raises, or ends without a finish reason: no retry, no partial answer.
Broken(c) == At(c, "streaming") /\ Becomes(c, "failed")

\* What the request goes through without its caller.
Exchange(c) ==
  \/ Accepted(c)
  \/ \E error \in {"auth", "retryable", "unexpected"} : Rejected(c, error)
  \/ Slept(c) \/ Finish(c) \/ Broken(c)

Receive(c) == Token(c) \/ \E index \in DOMAIN Pieces[c] : Fragment(c, index)
-----------------------------------------------------------------------------
\* The loop over the attempts ends with an answer or an exception, never by
\* running out: chat does not return None.
NeverEmptyHanded == \A c \in Client : ~At(c, "empty")

\* What a caller has been shown or given comes from one accepted request, and its
\* calls are those of that stream, in order, each with all its fragments.
AnswerWhole ==
  \A c \in Client :
    LET slots == request[c].slots IN
    /\ request[c].tokens \subseteq {request[c].attempt}
    /\ At(c, "answered") =>
         /\ ToSet(slots) = {[index |-> piece[1], pieces |-> Cardinality(SentOf(c, piece[1]))] :
                            piece \in request[c].sent}
         /\ \A i, j \in DOMAIN slots : i < j => slots[i].index < slots[j].index
=============================================================================
