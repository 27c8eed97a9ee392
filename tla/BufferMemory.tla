----------------------------- MODULE BufferMemory -----------------------------
(***************************************************************************)
(* memory/short_term.py, class BufferMemory: the loop of _trim and the     *)
(* cached token count.  A buffer is a record of its system message (its    *)
(* size, or 0 for None), its window of messages, its cached count and      *)
(* whether the last call on it raised; budget is _max_tokens.              *)
(*                                                                         *)
(* count_message raises for a text that holds a special token of the       *)
(* encoding.  Such a message has size 0 here: it has no count to add.      *)
(* What can be counted has at least 1: its role and an overhead, less one  *)
(* for each tool call, whose name counts again.  The calls below change    *)
(* the window before they count, and do not undo it.                       *)
(***************************************************************************)
EXTENDS TurnBlocks

Countable(m) == m.size > 0

NewBuffer(system) ==
  [system |-> system, messages |-> <<>>, total |-> system, raised |-> FALSE]

\* A plausible bug: a tool-calling message is evicted without its results.
BlockOfOne(w) == 1

\* _count_turn_block_size(0).
BlockSize(w) ==
  IF AsksTools(w[1])
  THEN Max({n \in DOMAIN w : \A k \in 2..n : w[k].role = "tool"})
  ELSE 1

MustEvict(b, budget) ==
  /\ ~b.raised
  /\ b.total > budget
  /\ Len(b.messages) > 1
  /\ BlockSize(b.messages) < Len(b.messages)

\* A plausible bug: the count is corrected for the first message of the block only.
EvictHeadMiscounted(b) ==
  [b EXCEPT !.messages = From(@, BlockSize(@) + 1), !.total = @ - b.messages[1].size]

\* The block leaves the window first, and the count, if it can be counted, after.
EvictHead(b) ==
  LET popped == SubSeq(b.messages, 1, BlockSize(b.messages))
      rest   == [b EXCEPT !.messages = From(@, BlockSize(@) + 1)]
  IN  IF \A k \in DOMAIN popped : Countable(popped[k])
      THEN [rest EXCEPT !.total = @ - TotalTokens(popped)]
      ELSE [rest EXCEPT !.raised = TRUE]

\* The while loop of _trim.
Trimmed(b, budget) ==
  LET loop[n \in 0..Len(b.messages)] ==
        IF n = 0 THEN b
        ELSE IF MustEvict(loop[n - 1], budget) THEN EvictHead(loop[n - 1]) ELSE loop[n - 1]
  IN  loop[Len(b.messages)]

\* add_message.
Added(b, m, budget) ==
  LET held == [b EXCEPT !.messages = Append(@, m)]
  IN  IF Countable(m)
      THEN Trimmed([held EXCEPT !.total = @ + m.size, !.raised = FALSE], budget)
      ELSE [held EXCEPT !.raised = TRUE]

\* One add_message after the other, up to the first that raises.
AddedAll(b, ms, budget) ==
  LET after[n \in 0..Len(ms)] ==
        IF n = 0 THEN [b EXCEPT !.raised = FALSE]
        ELSE IF after[n - 1].raised THEN after[n - 1] ELSE Added(after[n - 1], ms[n], budget)
  IN  after[Len(ms)]

\* clear.
Cleared(b) == NewBuffer(b.system)
=============================================================================
