------------------------------ MODULE TurnBlocks ------------------------------
(***************************************************************************)
(* memory/short_term.py: how a conversation window is trimmed.             *)
(*                                                                         *)
(* A window is a sequence of messages, oldest first.  A message is a       *)
(* record with at least its role, the ids of the tool calls it makes and   *)
(* its size, which is what count_message returns.  A turn block is an      *)
(* assistant message with tool calls and the tool messages that follow it; *)
(* any other message is a block of its own.                                *)
(***************************************************************************)
EXTENDS Integers, Sequences, FiniteSetsExt

TotalTokens(w) == MapThenSumSet(LAMBDA i : w[i].size, DOMAIN w)

AsksTools(m) == m.role = "assistant" /\ m.calls # <<>>

\* The message at i is a tool result in the block opened at j.
InBlock(w, i, j) ==
  /\ j < i
  /\ AsksTools(w[j])
  /\ \A k \in (j + 1)..i : w[k].role = "tool"

BlockStarts(w) == {i \in DOMAIN w : \A j \in 1..(i - 1) : ~InBlock(w, i, j)}

\* The suffix of w that starts at i.
From(w, i) == SubSeq(w, i, Len(w))

\* _trim stops at the block that starts at i: what is left fits the budget, or
\* is a single block.
StopsAt(w, i, budget) ==
  \/ TotalTokens(From(w, i)) <= budget
  \/ \A j \in BlockStarts(w) : j <= i

\* Whole blocks are evicted, oldest first.
Trim(w, budget) == From(w, Min({i \in BlockStarts(w) : StopsAt(w, i, budget)}))
=============================================================================
