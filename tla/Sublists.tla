------------------------------- MODULE Sublists -------------------------------
(***************************************************************************)
(* The list comprehensions of the code, [x for x in s if x in T], and its  *)
(* for loops over a list.  SelectSeq of Sequences and FoldLeft of          *)
(* SequencesExt are the same for a test and an operator instead of a set   *)
(* and functions; these are defined where the proofs can unfold them.      *)
(***************************************************************************)
LOCAL INSTANCE Naturals
LOCAL INSTANCE Sequences

\* The elements of s that are in T, in their order.
Sublist(s, T) ==
  LET kept[n \in 0..Len(s)] ==
        IF n = 0 THEN <<>>
        ELSE IF s[n] \in T THEN Append(kept[n - 1], s[n]) ELSE kept[n - 1]
  IN  kept[Len(s)]

\* What the functions of the list steps make of a, one after the other.
Through(a, steps) ==
  LET after[n \in 0..Len(steps)] == IF n = 0 THEN a ELSE steps[n][after[n - 1]]
  IN  after[Len(steps)]
=============================================================================
