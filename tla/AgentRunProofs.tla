---------------------------- MODULE AgentRunProofs ----------------------------
(***************************************************************************)
(* The runs of a session, for any model answers, tools, critic, window     *)
(* and budgets, in three parts.                                            *)
(*                                                                         *)
(* What adding a message does to a window, for every window and budget,    *)
(* whether it raises or not: it leaves a suffix that begins at a turn      *)
(* block.  So it keeps the newest message, and every tool result it keeps  *)
(* has its call.                                                           *)
(*                                                                         *)
(* Then the feedback budgets and the critic's feedback.  The budgets       *)
(* alone are not inductive for the feedback: a run must start without a    *)
(* revision, and a draft under review must be one (ReviewInv).             *)
(*                                                                         *)
(* Then the conversation window.  That each call has one answer is not     *)
(* inductive: the calls being executed have none yet, and their block must *)
(* still be the last one when the results come (Fresh).  Nor is it enough  *)
(* to know this of ids in general: those of the current run are its first  *)
(* Len(history) numbers, and no answer of it is in memory before it ends.  *)
(***************************************************************************)
EXTENDS AgentRun, SublistProofs

(* Trimming *)

\* Every tool message follows, in its block, the call it answers.
Paired(w) ==
  \A i \in DOMAIN w : w[i].role = "tool" =>
    \E j \in DOMAIN w : InBlock(w, i, j) /\ w[i].ref \in ToSet(w[j].calls)

\* A buffer of messages of S, whatever its count.
Held(b, S) ==
  b \in [system : {b.system}, messages : Seq(S), total : {b.total}, raised : BOOLEAN]

\* v is w from one of its turn blocks on.
FromBlock(v, w) == \E p \in BlockStarts(w) : v = From(w, p)
-----------------------------------------------------------------------------
\* A set of places has a greatest one, and Max returns it.
LEMMA Greatest ==
  ASSUME NEW n \in Nat, NEW T \in SUBSET (1..n), T # {}
  PROVE  Max(T) \in T /\ \A y \in T : Max(T) >= y
<1> DEFINE U == {k \in Nat : \E y \in T : k = n - y}
<1>1. PICK y \in T : TRUE
  OBVIOUS
<1>2. n - y \in U /\ U \in SUBSET Nat /\ U # {}
  <2>1. y \in 1..n /\ n - y \in Nat
    OBVIOUS
  <2> QED BY <2>1
<1>3. PICK k \in U : \A j \in U : k <= j
  BY <1>2, LeastNatural
<1>4. PICK x \in T : k = n - x
  BY <1>3
<1>5. \A z \in T : x >= z
  <2>1. ASSUME NEW z \in T PROVE x >= z
    <3>1. n - z \in U /\ z \in 1..n /\ x \in 1..n
      OBVIOUS
    <3>2. k <= n - z
      BY <1>3, <3>1
    <3> QED BY <1>4, <3>1, <3>2
  <2> QED BY <2>1
<1> QED BY <1>5 DEF Max

\* The suffix from s, message by message.
LEMMA FromProperties ==
  ASSUME NEW S, NEW w \in Seq(S), NEW s \in DOMAIN w
  PROVE  /\ From(w, s) \in Seq(S)
         /\ Len(From(w, s)) = Len(w) - s + 1
         /\ \A k \in 1..(Len(w) - s + 1) : From(w, s)[k] = w[k + s - 1]
<1>1. s \in 1..Len(w) /\ Len(w) \in Nat /\ \A i \in s..Len(w) : w[i] \in S
  OBVIOUS
<1>2. /\ SubSeq(w, s, Len(w)) \in Seq(S)
      /\ Len(SubSeq(w, s, Len(w))) = Len(w) - s + 1
      /\ \A k \in 1..(Len(w) - s + 1) : SubSeq(w, s, Len(w))[k] = w[s + k - 1]
  BY <1>1, SubSeqProperties
<1> QED BY <1>1, <1>2 DEF From

\* A window begins at a block.
LEMMA WholeWindow ==
  ASSUME NEW S, NEW w \in Seq(S), w # <<>>
  PROVE  FromBlock(w, w)
<1>1. 1 \in DOMAIN w /\ Len(w) \in Nat /\ 1..(1 - 1) = {}
  BY EmptySeq
<1>2. /\ From(w, 1) \in Seq(S) /\ Len(From(w, 1)) = Len(w) - 1 + 1
      /\ \A k \in 1..(Len(w) - 1 + 1) : From(w, 1)[k] = w[k + 1 - 1]
  BY <1>1, FromProperties
<1> DEFINE u == From(w, 1)
<1> HIDE DEF u
<1>3. u \in Seq(S) /\ Len(u) = Len(w) /\ \A k \in 1..Len(w) : u[k] = w[k]
  BY <1>1, <1>2 DEF u
<1>4. u = w
  BY <1>3, SeqEqual
<1>5. 1 \in BlockStarts(w)
  BY <1>1 DEF BlockStarts
<1> QED BY <1>4, <1>5 DEF FromBlock, u

\* The first block of a window that is not empty lies within it.
LEMMA BlockWithin ==
  ASSUME NEW S, NEW w \in Seq(S), w # <<>>
  PROVE  BlockSize(w) \in 1..Len(w)
<1> DEFINE T == {n \in DOMAIN w : \A k \in 2..n : w[k].role = "tool"}
<1>1. DOMAIN w = 1..Len(w) /\ Len(w) \in Nat /\ Len(w) # 0
  BY EmptySeq
<1>2. 1 \in T /\ T \in SUBSET (1..Len(w))
  BY <1>1
<1> HIDE DEF T
<1>3. Max(T) \in 1..Len(w)
  BY <1>1, <1>2, Greatest
<1> QED BY <1>1, <1>3 DEF BlockSize, T

\* What _count_turn_block_size counts is followed by a block (short_term.py:88-108).
LEMMA BlockFollows ==
  ASSUME NEW S, NEW w \in Seq(S), NEW p \in BlockStarts(w),
         BlockSize(From(w, p)) < Len(w) - p + 1
  PROVE  p + BlockSize(From(w, p)) \in BlockStarts(w)
<1> DEFINE u == From(w, p)
           k == BlockSize(u)
           q == p + k
           T == {i \in DOMAIN u : \A j \in 2..i : u[j].role = "tool"}
<1>1. p \in DOMAIN w /\ p \in 1..Len(w) /\ Len(w) \in Nat /\ DOMAIN w = 1..Len(w)
  BY DEF BlockStarts
<1>2. /\ u \in Seq(S) /\ Len(u) = Len(w) - p + 1 /\ DOMAIN u = 1..(Len(w) - p + 1)
      /\ \A i \in 1..(Len(w) - p + 1) : u[i] = w[i + p - 1]
  <2>1. /\ u \in Seq(S) /\ Len(u) = Len(w) - p + 1
        /\ \A i \in 1..(Len(w) - p + 1) : u[i] = w[i + p - 1]
    BY <1>1, FromProperties
  <2> QED BY <2>1
<1>3. u # <<>> /\ 1 \in DOMAIN u /\ u[1] = w[p]
  BY <1>1, <1>2
<1>4. k < Len(w) - p + 1
  OBVIOUS
<1> HIDE DEF u
<1>5. k \in 1..(Len(w) - p + 1)
  BY <1>2, <1>3, BlockWithin
<1>6. ASSUME NEW j \in 1..(q - 1), InBlock(w, q, j) PROVE FALSE
  <2>1. j \in Nat /\ AsksTools(w[j]) /\ \A i \in (j + 1)..q : w[i].role = "tool"
    BY <1>6 DEF InBlock
  <2>2. CASE j < p
    <3>1. InBlock(w, p, j)
      <4>1. \A i \in (j + 1)..p : i \in (j + 1)..q
        BY <1>1, <1>5
      <4> QED BY <1>1, <2>1, <2>2, <4>1 DEF InBlock
    <3>2. j \in 1..(p - 1)
      BY <1>1, <2>2
    <3> QED BY <3>1, <3>2 DEF BlockStarts
  <2>3. CASE j = p
    <3>1. k = Max(T)
      BY <1>3, <2>1, <2>3 DEF BlockSize
    <3>2. T \in SUBSET (1..(Len(w) - p + 1)) /\ 1 \in T /\ Len(w) - p + 1 \in Nat
      BY <1>1, <1>2, <1>3
    <3>3. k \in T /\ \A y \in T : k >= y
      BY <3>1, <3>2, Greatest
    <3> HIDE DEF k
    <3>4. k + 1 \in DOMAIN u /\ k + 1 \notin T
      BY <1>1, <1>2, <1>4, <1>5, <3>3
    <3>5. PICK i \in 2..(k + 1) : u[i].role # "tool"
      BY <3>4
    <3>6. i \in 1..(Len(w) - p + 1) /\ i + p - 1 \in (j + 1)..q
      BY <1>1, <1>4, <1>5, <2>3
    <3> QED BY <1>2, <2>1, <3>5, <3>6
  <2>4. CASE j > p
    <3> DEFINE i == j - p + 1
    <3>1. i \in 2..k /\ i \in DOMAIN u /\ i + p - 1 = j /\ i \in 1..(Len(w) - p + 1)
      BY <1>1, <1>2, <1>5, <1>6, <2>1, <2>4
    <3>2. u[i] = w[j]
      BY <1>2, <3>1
    <3>3. AsksTools(u[1])
      BY <1>5, <3>1 DEF BlockSize
    <3>4. k = Max(T)
      BY <3>3 DEF BlockSize
    <3>5. T \in SUBSET (1..(Len(w) - p + 1)) /\ 1 \in T /\ Len(w) - p + 1 \in Nat
      BY <1>1, <1>2, <1>3
    <3>6. k \in T
      BY <3>4, <3>5, Greatest
    <3> HIDE DEF k, i
    <3>7. u[i].role = "tool"
      BY <3>1, <3>6
    <3> QED BY <2>1, <3>2, <3>7 DEF AsksTools
  <2> QED BY <1>1, <2>1, <2>2, <2>3, <2>4
<1>7. q \in DOMAIN w
  BY <1>1, <1>4, <1>5
<1> QED BY <1>6, <1>7 DEF BlockStarts, k, q, u

\* The window after a block is evicted.
LEMMA NextBlock ==
  ASSUME NEW S, NEW w \in Seq(S), NEW v, FromBlock(v, w), BlockSize(v) < Len(v)
  PROVE  FromBlock(From(v, BlockSize(v) + 1), w)
<1>1. PICK p \in BlockStarts(w) : v = From(w, p)
  BY DEF FromBlock
<1> DEFINE k == BlockSize(v)
           q == p + k
           x == From(v, k + 1)
           y == From(w, q)
<1>2. p \in DOMAIN w /\ p \in 1..Len(w) /\ Len(w) \in Nat /\ DOMAIN w = 1..Len(w)
  BY DEF BlockStarts
<1>3. /\ v \in Seq(S) /\ Len(v) = Len(w) - p + 1
      /\ \A i \in 1..(Len(w) - p + 1) : v[i] = w[i + p - 1]
  BY <1>1, <1>2, FromProperties
<1>4. k \in 1..Len(v) /\ k < Len(v)
  BY <1>2, <1>3, EmptySeq, BlockWithin
<1>5. q \in BlockStarts(w)
  BY <1>1, <1>3, <1>4, BlockFollows
<1> HIDE DEF k
<1>6. k + 1 \in DOMAIN v /\ q \in DOMAIN w
  BY <1>3, <1>4, <1>5 DEF BlockStarts
<1>7. /\ x \in Seq(S) /\ Len(x) = Len(v) - (k + 1) + 1
      /\ \A i \in 1..(Len(v) - (k + 1) + 1) : x[i] = v[i + (k + 1) - 1]
  BY <1>3, <1>6, FromProperties
<1>8. /\ y \in Seq(S) /\ Len(y) = Len(w) - q + 1
      /\ \A i \in 1..(Len(w) - q + 1) : y[i] = w[i + q - 1]
  BY <1>6, FromProperties
<1> HIDE DEF x, y
<1>9. Len(x) = Len(y)
  BY <1>2, <1>3, <1>4, <1>7, <1>8
<1>10. ASSUME NEW i \in 1..Len(x) PROVE x[i] = y[i]
  <2>1. /\ i \in 1..(Len(v) - (k + 1) + 1) /\ i \in 1..(Len(w) - q + 1)
        /\ i + (k + 1) - 1 \in 1..(Len(w) - p + 1)
        /\ (i + (k + 1) - 1) + p - 1 = i + q - 1
    BY <1>2, <1>3, <1>4, <1>7, <1>8, <1>9
  <2> QED BY <1>3, <1>7, <1>8, <2>1
<1>11. x = y
  BY <1>7, <1>8, <1>9, <1>10, SeqEqual
<1> QED BY <1>5, <1>11 DEF FromBlock, x, y, k
-----------------------------------------------------------------------------
(* The loops *)

\* What one round of _trim's loop makes of a buffer.
Round(b, budget) == IF MustEvict(b, budget) THEN EvictHead(b) ELSE b

\* The buffers on the way through _trim's loop.
Rounds(loop, b, budget) ==
  /\ loop[0] = b
  /\ \A n \in 1..Len(b.messages) : loop[n] = Round(loop[n - 1], budget)
  /\ Trimmed(b, budget) = loop[Len(b.messages)]

\* The loop of _trim, whatever it counts.
LEMMA TrimmedRounds ==
  ASSUME NEW b, Len(b.messages) \in Nat, NEW budget
  PROVE  \E loop : Rounds(loop, b, budget)
<1> DEFINE n == Len(b.messages)
           Upto(m) == \E f : f = [i \in 0..m |-> IF i = 0 THEN b ELSE Round(f[i - 1], budget)]
           T == {m \in 0..n : Upto(m)}
           Body(h) == [i \in 0..Len(b.messages) |->
                         IF i = 0 THEN b
                         ELSE IF MustEvict(h[i - 1], budget) THEN EvictHead(h[i - 1])
                              ELSE h[i - 1]]
           Rec(h) == h = Body(h)
<1>1. n \in Nat
  OBVIOUS
<1> HIDE DEF n
<1>2. 0 \in T
  <2> DEFINE f == [i \in 0..0 |-> b]
  <2>1. \A i \in 0..0 : i = 0
    OBVIOUS
  <2>2. f = [i \in 0..0 |-> IF i = 0 THEN b ELSE Round(f[i - 1], budget)]
    BY <2>1
  <2> HIDE DEF f
  <2>3. Upto(0)
    BY <2>2
  <2> HIDE DEF Upto
  <2> QED BY <1>1, <2>3
<1>3. ASSUME NEW m \in 0..(n - 1), m \in T PROVE m + 1 \in T
  <2>1. PICK f : f = [i \in 0..m |-> IF i = 0 THEN b ELSE Round(f[i - 1], budget)]
    BY <1>3
  <2> DEFINE g == [i \in 0..(m + 1) |-> IF i = m + 1 THEN Round(f[m], budget) ELSE f[i]]
             g2 == [i \in 0..(m + 1) |-> IF i = 0 THEN b ELSE Round(g[i - 1], budget)]
  <2>2. ASSUME NEW i \in 0..(m + 1) PROVE g[i] = g2[i]
    <3>1. CASE i = m + 1
      <4>1. i - 1 = m /\ m \in 0..(m + 1) /\ m # m + 1 /\ i # 0
        BY <3>1
      <4>2. g[m] = f[m]
        BY <4>1
      <4> QED BY <3>1, <4>1, <4>2
    <3>2. CASE i = 0
      <4>1. 0 \in 0..m /\ 0 # m + 1
        OBVIOUS
      <4>2. f[0] = b
        BY <2>1, <4>1
      <4> QED BY <3>2, <4>1, <4>2
    <3>3. CASE i # m + 1 /\ i # 0
      <4>1. i \in 0..m /\ i - 1 \in 0..(m + 1) /\ i - 1 # m + 1
        BY <3>3
      <4>2. f[i] = Round(f[i - 1], budget)
        BY <2>1, <3>3, <4>1
      <4>3. g[i - 1] = f[i - 1] /\ g[i] = f[i]
        BY <3>3, <4>1
      <4> QED BY <3>3, <4>2, <4>3
    <3> QED BY <3>1, <3>2, <3>3
  <2>3. g = g2
    BY <2>2
  <2> HIDE DEF g
  <2>4. Upto(m + 1)
    BY <2>3
  <2> QED BY <1>1, <2>4
<1> HIDE DEF T
<1>4. n \in T
  <2>1. \A m \in 0..n : m \in T
    BY <1>1, <1>2, <1>3, Induction
  <2> QED BY <1>1, <2>1
<1>5. PICK f : f = [i \in 0..n |-> IF i = 0 THEN b ELSE Round(f[i - 1], budget)]
  BY <1>4 DEF T
<1>6. Rec(f)
  BY <1>5, Zenon DEF Round, n
<1>7. Trimmed(b, budget) = (CHOOSE h : Rec(h))[n]
  BY Zenon DEF Trimmed, n
<1>8. Rec(CHOOSE h : Rec(h))
  <2> HIDE DEF Rec
  <2> QED BY <1>6, Zenon
<1> DEFINE loop == CHOOSE h : Rec(h)
<1>9. Rec(loop) /\ Trimmed(b, budget) = loop[n]
  BY <1>7, <1>8, Zenon
<1> HIDE DEF loop
<1>10. loop = [i \in 0..n |-> IF i = 0 THEN b ELSE Round(loop[i - 1], budget)]
  BY <1>9, Zenon DEF Round, n
<1> HIDE DEF Rec
<1>11. loop[0] = b /\ \A i \in 1..n : loop[i] = Round(loop[i - 1], budget)
  <2>1. 0 \in 0..n /\ \A i \in 1..n : i \in 0..n /\ i # 0
    BY <1>1
  <2>2. \A i \in 0..n : loop[i] = IF i = 0 THEN b ELSE Round(loop[i - 1], budget)
    BY <1>10, Zenon
  <2> QED BY <2>1, <2>2
<1>12. Rounds(loop, b, budget)
  BY <1>9, <1>11, Zenon DEF Rounds, n
<1> QED BY <1>12

\* An add_message, unless an earlier one raised.
OneMore(b, m, budget) == IF b.raised THEN b ELSE Added(b, m, budget)

\* The buffers on the way through a loop of add_message.
Additions(h, b, ms, budget) ==
  /\ h[0] = [b EXCEPT !.raised = FALSE]
  /\ \A n \in 1..Len(ms) : h[n] = OneMore(h[n - 1], ms[n], budget)
  /\ AddedAll(b, ms, budget) = h[Len(ms)]

\* One message after the other, whatever they count.
LEMMA AdditionsExist ==
  ASSUME NEW b, NEW ms, Len(ms) \in Nat, NEW budget
  PROVE  \E h : Additions(h, b, ms, budget)
<1> DEFINE n == Len(ms)
           a == [b EXCEPT !.raised = FALSE]
           Upto(m) ==
             \E f : f = [i \in 0..m |-> IF i = 0 THEN a ELSE OneMore(f[i - 1], ms[i], budget)]
           T == {m \in 0..n : Upto(m)}
           Body(h) == [i \in 0..Len(ms) |->
                         IF i = 0 THEN [b EXCEPT !.raised = FALSE]
                         ELSE IF h[i - 1].raised THEN h[i - 1]
                              ELSE Added(h[i - 1], ms[i], budget)]
           Rec(h) == h = Body(h)
<1>1. n \in Nat
  OBVIOUS
<1> HIDE DEF n, a
<1>2. 0 \in T
  <2> DEFINE f == [i \in 0..0 |-> a]
  <2>1. \A i \in 0..0 : i = 0
    OBVIOUS
  <2>2. f = [i \in 0..0 |-> IF i = 0 THEN a ELSE OneMore(f[i - 1], ms[i], budget)]
    BY <2>1
  <2> HIDE DEF f
  <2>3. Upto(0)
    BY <2>2
  <2> HIDE DEF Upto
  <2> QED BY <1>1, <2>3
<1>3. ASSUME NEW m \in 0..(n - 1), m \in T PROVE m + 1 \in T
  <2>1. PICK f : f = [i \in 0..m |-> IF i = 0 THEN a ELSE OneMore(f[i - 1], ms[i], budget)]
    BY <1>3
  <2> DEFINE g == [i \in 0..(m + 1) |->
                     IF i = m + 1 THEN OneMore(f[m], ms[m + 1], budget) ELSE f[i]]
             g2 == [i \in 0..(m + 1) |-> IF i = 0 THEN a ELSE OneMore(g[i - 1], ms[i], budget)]
  <2>2. ASSUME NEW i \in 0..(m + 1) PROVE g[i] = g2[i]
    <3>1. CASE i = m + 1
      <4>1. i - 1 = m /\ m \in 0..(m + 1) /\ m # m + 1 /\ i # 0
        BY <3>1
      <4>2. g[m] = f[m]
        BY <4>1
      <4> QED BY <3>1, <4>1, <4>2
    <3>2. CASE i = 0
      <4>1. 0 \in 0..m /\ 0 # m + 1
        OBVIOUS
      <4>2. f[0] = a
        BY <2>1, <4>1
      <4> QED BY <3>2, <4>1, <4>2
    <3>3. CASE i # m + 1 /\ i # 0
      <4>1. i \in 0..m /\ i - 1 \in 0..(m + 1) /\ i - 1 # m + 1
        BY <3>3
      <4>2. f[i] = OneMore(f[i - 1], ms[i], budget)
        BY <2>1, <3>3, <4>1
      <4>3. g[i - 1] = f[i - 1] /\ g[i] = f[i]
        BY <3>3, <4>1
      <4> QED BY <3>3, <4>2, <4>3
    <3> QED BY <3>1, <3>2, <3>3
  <2>3. g = g2
    BY <2>2
  <2> HIDE DEF g
  <2>4. Upto(m + 1)
    BY <2>3
  <2> QED BY <1>1, <2>4
<1> HIDE DEF T
<1>4. n \in T
  <2>1. \A m \in 0..n : m \in T
    BY <1>1, <1>2, <1>3, Induction
  <2> QED BY <1>1, <2>1
<1>5. PICK f : f = [i \in 0..n |-> IF i = 0 THEN a ELSE OneMore(f[i - 1], ms[i], budget)]
  BY <1>4 DEF T
<1>6. Rec(f)
  BY <1>5, Zenon DEF OneMore, n, a
<1>7. AddedAll(b, ms, budget) = (CHOOSE h : Rec(h))[n]
  BY Zenon DEF AddedAll, n
<1>8. Rec(CHOOSE h : Rec(h))
  <2> HIDE DEF Rec
  <2> QED BY <1>6, Zenon
<1> DEFINE h == CHOOSE g : Rec(g)
<1>9. Rec(h) /\ AddedAll(b, ms, budget) = h[n]
  BY <1>7, <1>8, Zenon
<1> HIDE DEF h
<1>10. h = [i \in 0..n |-> IF i = 0 THEN a ELSE OneMore(h[i - 1], ms[i], budget)]
  BY <1>9, Zenon DEF OneMore, n, a
<1> HIDE DEF Rec
<1>11. h[0] = a /\ \A i \in 1..n : h[i] = OneMore(h[i - 1], ms[i], budget)
  <2>1. 0 \in 0..n /\ \A i \in 1..n : i \in 0..n /\ i # 0
    BY <1>1
  <2>2. \A i \in 0..n : h[i] = IF i = 0 THEN a ELSE OneMore(h[i - 1], ms[i], budget)
    BY <1>10, Zenon
  <2> QED BY <2>1, <2>2
<1>12. Additions(h, b, ms, budget)
  BY <1>9, <1>11, Zenon DEF Additions, n, a
<1> QED BY <1>12
-----------------------------------------------------------------------------
(* What adding a message leaves *)

\* A buffer with another window.
LEMMA OtherWindow ==
  ASSUME NEW S, NEW b, Held(b, S), NEW w \in Seq(S), NEW t, NEW r \in BOOLEAN
  PROVE  LET c == [b EXCEPT !.messages = w, !.total = t, !.raised = r]
         IN  Held(c, S) /\ c.messages = w /\ c.raised = r
<1> DEFINE c == [b EXCEPT !.messages = w, !.total = t, !.raised = r]
<1>1. b \in [system : {b.system}, messages : Seq(S), total : {b.total}, raised : BOOLEAN]
  BY DEF Held
<1>2. /\ c \in [system : {b.system}, messages : Seq(S), total : {t}, raised : BOOLEAN]
      /\ c.system = b.system /\ c.messages = w /\ c.total = t /\ c.raised = r
  BY <1>1
<1> HIDE DEF c
<1>3. Held(c, S)
  BY <1>2 DEF Held
<1> QED BY <1>2, <1>3 DEF c

\* An eviction takes the first block out of the window, whether it can be counted
\* or not (short_term.py:81-83).
LEMMA EvictLeaves ==
  ASSUME NEW S, NEW b, Held(b, S), From(b.messages, BlockSize(b.messages) + 1) \in Seq(S)
  PROVE  /\ Held(EvictHead(b), S)
         /\ EvictHead(b).messages = From(b.messages, BlockSize(b.messages) + 1)
<1> DEFINE w == b.messages
           rest == From(w, BlockSize(w) + 1)
           popped == SubSeq(w, 1, BlockSize(w))
           Counts == \A i \in DOMAIN popped : Countable(popped[i])
           t == b.total - TotalTokens(popped)
<1>1. /\ b \in [system : {b.system}, messages : Seq(S), total : {b.total}, raised : BOOLEAN]
      /\ b.raised \in BOOLEAN /\ rest \in Seq(S)
  BY DEF Held
<1>2. CASE Counts
  <2>1. EvictHead(b) = [[b EXCEPT !.messages = rest]
                          EXCEPT !.total = [b EXCEPT !.messages = rest].total - TotalTokens(popped)]
    BY <1>2 DEF EvictHead
  <2> HIDE DEF rest, popped, Counts
  <2>2. EvictHead(b) = [b EXCEPT !.messages = rest, !.total = t, !.raised = b.raised]
    BY <1>1, <2>1
  <2> HIDE DEF t
  <2>3. LET c == [b EXCEPT !.messages = rest, !.total = t, !.raised = b.raised]
        IN  Held(c, S) /\ c.messages = rest
    BY <1>1, OtherWindow, Zenon
  <2>4. Held(EvictHead(b), S) /\ EvictHead(b).messages = rest
    BY <2>2, <2>3, Zenon
  <2> QED BY <2>4 DEF rest
<1>3. CASE ~Counts
  <2>1. EvictHead(b) = [[b EXCEPT !.messages = rest] EXCEPT !.raised = TRUE]
    BY <1>3 DEF EvictHead
  <2> HIDE DEF rest, popped, Counts
  <2>2. EvictHead(b) = [b EXCEPT !.messages = rest, !.total = b.total, !.raised = TRUE]
    BY <1>1, <2>1
  <2>3. LET c == [b EXCEPT !.messages = rest, !.total = b.total, !.raised = TRUE]
        IN  Held(c, S) /\ c.messages = rest
    BY <1>1, OtherWindow, Zenon
  <2>4. Held(EvictHead(b), S) /\ EvictHead(b).messages = rest
    BY <2>2, <2>3, Zenon
  <2> QED BY <2>4 DEF rest
<1> QED BY <1>2, <1>3

\* What _trim leaves of a window that is not empty begins at a turn block, and
\* is not empty: the loop never evicts the last block (short_term.py:75-80).
THEOREM TrimIsSuffix ==
  ASSUME NEW S, NEW b, Held(b, S), b.messages # <<>>, NEW budget
  PROVE  /\ Held(Trimmed(b, budget), S)
         /\ FromBlock(Trimmed(b, budget).messages, b.messages)
<1> DEFINE w == b.messages
           n == Len(w)
<1>1. w \in Seq(S) /\ n \in Nat
  BY DEF Held
<1>2. PICK loop : Rounds(loop, b, budget)
  BY <1>1, TrimmedRounds
<1> DEFINE T == {i \in 0..n : Held(loop[i], S) /\ FromBlock(loop[i].messages, w)}
<1>3. 0 \in T
  BY <1>1, <1>2, WholeWindow DEF Rounds
<1>4. ASSUME NEW m \in 0..(n - 1), m \in T PROVE m + 1 \in T
  <2> DEFINE c == loop[m]
             v == c.messages
  <2>1. Held(c, S) /\ FromBlock(v, w) /\ v \in Seq(S)
    BY <1>4 DEF Held
  <2>2. loop[m + 1] = Round(c, budget)
    <3>1. m + 1 \in 1..n /\ (m + 1) - 1 = m
      BY <1>1
    <3> QED BY <1>2, <3>1 DEF Rounds
  <2> HIDE DEF c
  <2>3. CASE MustEvict(c, budget)
    <3>1. BlockSize(v) < Len(v)
      BY <2>3 DEF MustEvict
    <3>2. FromBlock(From(v, BlockSize(v) + 1), w)
      BY <1>1, <2>1, <3>1, NextBlock
    <3>3. From(v, BlockSize(v) + 1) \in Seq(S)
      <4>1. PICK p \in BlockStarts(w) : From(v, BlockSize(v) + 1) = From(w, p)
        BY <3>2 DEF FromBlock
      <4>2. p \in DOMAIN w
        BY DEF BlockStarts
      <4> QED BY <1>1, <4>1, <4>2, FromProperties
    <3>4. Held(EvictHead(c), S) /\ FromBlock(EvictHead(c).messages, w)
      BY <2>1, <3>2, <3>3, EvictLeaves
    <3> QED BY <1>1, <2>2, <2>3, <3>4 DEF Round
  <2>4. CASE ~MustEvict(c, budget)
    BY <1>1, <2>1, <2>2, <2>4 DEF Round
  <2> QED BY <2>3, <2>4
<1> HIDE DEF T
<1>5. n \in T
  <2> HIDE DEF n
  <2>1. \A m \in 0..n : m \in T
    BY <1>1, <1>3, <1>4, Induction
  <2> QED BY <1>1, <2>1
<1> QED BY <1>2, <1>5 DEF T, Rounds

\* add_message leaves a suffix of the longer window, whether it raises, and where,
\* or not (short_term.py:45-49).
THEOREM AddIsSuffix ==
  ASSUME NEW S, NEW b, Held(b, S), NEW m \in S, NEW budget
  PROVE  /\ Held(Added(b, m, budget), S)
         /\ FromBlock(Added(b, m, budget).messages, Append(b.messages, m))
<1> DEFINE w == Append(b.messages, m)
           held == [b EXCEPT !.messages = w]
<1>1. /\ b \in [system : {b.system}, messages : Seq(S), total : {b.total}, raised : BOOLEAN]
      /\ b.messages \in Seq(S)
  BY DEF Held
<1>2. w \in Seq(S) /\ w # <<>>
  BY <1>1, AppendProperties
<1> HIDE DEF w
<1>3. CASE Countable(m)
  <2> DEFINE t == b.total + m.size
             r == FALSE
             c == [b EXCEPT !.messages = w, !.total = t, !.raised = r]
  <2>1. Added(b, m, budget) =
          Trimmed([held EXCEPT !.total = held.total + m.size, !.raised = FALSE], budget)
    BY <1>3 DEF Added, w
  <2>2. [held EXCEPT !.total = held.total + m.size, !.raised = FALSE] = c
    BY <1>1
  <2>3. Added(b, m, budget) = Trimmed(c, budget)
    BY <2>1, <2>2, Zenon
  <2>4. r \in BOOLEAN
    OBVIOUS
  <2> HIDE DEF t, r
  <2>5. /\ c \in [system : {b.system}, messages : Seq(S), total : {t}, raised : BOOLEAN]
        /\ c.system = b.system /\ c.messages = w /\ c.total = t
    BY <1>1, <1>2, <2>4
  <2> HIDE DEF c
  <2>6. Held(c, S)
    BY <2>5 DEF Held
  <2> QED BY <1>2, <2>3, <2>5, <2>6, TrimIsSuffix DEF w
<1>4. CASE ~Countable(m)
  <2> DEFINE t == b.total
             r == TRUE
             c == [b EXCEPT !.messages = w, !.total = t, !.raised = r]
  <2>1. Added(b, m, budget) = [held EXCEPT !.raised = TRUE]
    BY <1>4 DEF Added, w
  <2>2. [held EXCEPT !.raised = TRUE] = c
    BY <1>1
  <2>3. Added(b, m, budget) = c
    BY <2>1, <2>2, Zenon
  <2>4. r \in BOOLEAN
    OBVIOUS
  <2> HIDE DEF t, r
  <2>5. /\ c \in [system : {b.system}, messages : Seq(S), total : {t}, raised : BOOLEAN]
        /\ c.system = b.system /\ c.messages = w /\ c.total = t
    BY <1>1, <1>2, <2>4
  <2> HIDE DEF c
  <2>6. Held(c, S)
    BY <2>5 DEF Held
  <2> QED BY <1>2, <2>3, <2>5, <2>6, WholeWindow DEF w
<1> QED BY <1>3, <1>4

\* A message of a kept block has its whole block kept.
LEMMA BlockKept ==
  ASSUME NEW S, NEW w \in Seq(S), NEW s \in BlockStarts(w),
         NEW i \in s..Len(w), NEW j \in DOMAIN w, InBlock(w, i, j)
  PROVE  /\ s <= j /\ j - s + 1 \in DOMAIN From(w, s)
         /\ InBlock(From(w, s), i - s + 1, j - s + 1)
<1>1. s \in 1..Len(w) /\ j \in 1..Len(w) /\ Len(w) \in Nat /\ j < i
  BY DEF BlockStarts, InBlock
<1>2. s <= j
  <2>1. SUFFICES ASSUME j < s PROVE FALSE
    BY <1>1
  <2>2. InBlock(w, s, j)
    BY <1>1, <2>1 DEF InBlock
  <2> QED BY <1>1, <2>1, <2>2 DEF BlockStarts
<1>3. /\ From(w, s) \in Seq(S)
      /\ Len(From(w, s)) = Len(w) - s + 1
      /\ \A k \in 1..(Len(w) - s + 1) : From(w, s)[k] = w[k + s - 1]
  BY FromProperties DEF BlockStarts
<1>4. j - s + 1 \in 1..(Len(w) - s + 1) /\ From(w, s)[j - s + 1] = w[j]
  <2>1. j - s + 1 \in 1..(Len(w) - s + 1) /\ (j - s + 1) + s - 1 = j
    BY <1>1, <1>2
  <2> QED BY <2>1, <1>3
<1>5. ASSUME NEW k \in (j - s + 2)..(i - s + 1) PROVE From(w, s)[k].role = "tool"
  <2>1. k \in 1..(Len(w) - s + 1) /\ k + s - 1 \in (j + 1)..i
    BY <1>1, <1>2
  <2> QED BY <2>1, <1>3 DEF InBlock
<1>6. (j - s + 1) + 1 = j - s + 2 /\ j - s + 1 < i - s + 1
  BY <1>1
<1>7. AsksTools(From(w, s)[j - s + 1])
  BY <1>4 DEF InBlock
<1>8. InBlock(From(w, s), i - s + 1, j - s + 1)
  BY <1>5, <1>6, <1>7 DEF InBlock
<1> QED BY <1>2, <1>3, <1>4, <1>8

\* A window from one of its blocks on has every result with its call.
LEMMA SuffixKeepsResults ==
  ASSUME NEW S, NEW w \in Seq(S), Paired(w), NEW v, FromBlock(v, w)
  PROVE  Paired(v)
<1>1. PICK s \in BlockStarts(w) : v = From(w, s)
  BY DEF FromBlock
<1>2. s \in 1..Len(w) /\ Len(w) \in Nat
  BY DEF BlockStarts
<1>3. /\ From(w, s) \in Seq(S)
      /\ Len(From(w, s)) = Len(w) - s + 1
      /\ \A k \in 1..(Len(w) - s + 1) : From(w, s)[k] = w[k + s - 1]
  BY FromProperties DEF BlockStarts
<1>4. SUFFICES ASSUME NEW k \in 1..(Len(w) - s + 1), From(w, s)[k].role = "tool"
               PROVE  \E j \in DOMAIN From(w, s) :
                        /\ InBlock(From(w, s), k, j)
                        /\ From(w, s)[k].ref \in ToSet(From(w, s)[j].calls)
  BY <1>1, <1>2, <1>3 DEF Paired
<1>5. k + s - 1 \in s..Len(w) /\ k + s - 1 \in DOMAIN w /\ From(w, s)[k] = w[k + s - 1]
  BY <1>2, <1>3
<1>6. PICK j \in DOMAIN w : InBlock(w, k + s - 1, j) /\ w[k + s - 1].ref \in ToSet(w[j].calls)
  BY <1>4, <1>5 DEF Paired
<1>7. /\ s <= j /\ j - s + 1 \in DOMAIN From(w, s)
      /\ InBlock(From(w, s), (k + s - 1) - s + 1, j - s + 1)
  BY <1>5, <1>6, BlockKept
<1>8. (k + s - 1) - s + 1 = k /\ j - s + 1 \in 1..(Len(w) - s + 1) /\ (j - s + 1) + s - 1 = j
  BY <1>2, <1>3, <1>7
<1>9. From(w, s)[j - s + 1] = w[j]
  BY <1>3, <1>8
<1> QED BY <1>5, <1>6, <1>7, <1>8, <1>9

\* What is evicted when a message is added never separates a tool result from its
\* call: what the provider would refuse in a request cannot come from an eviction
\* (short_term.py:81-83).
THEOREM AddKeepsResults ==
  ASSUME NEW S, NEW b, Held(b, S), NEW m \in S, NEW budget, Paired(Append(b.messages, m))
  PROVE  Paired(Added(b, m, budget).messages)
<1>1. FromBlock(Added(b, m, budget).messages, Append(b.messages, m))
  BY AddIsSuffix
<1>2. Append(b.messages, m) \in Seq(S)
  BY AppendProperties DEF Held
<1> QED BY <1>1, <1>2, SuffixKeepsResults

\* add_message never loses the message it was called with, whatever its size, and
\* even if it raises (short_term.py:45-49).
THEOREM AddKeepsNewest ==
  ASSUME NEW S, NEW b, Held(b, S), NEW m \in S, NEW budget
  PROVE  /\ Added(b, m, budget).messages # <<>>
         /\ Last(Added(b, m, budget).messages) = m
<1> DEFINE v == Append(b.messages, m)
           u == Added(b, m, budget).messages
<1>1. v \in Seq(S) /\ v # <<>> /\ Len(v) \in Nat \ {0} /\ v[Len(v)] = m
  BY AppendProperties DEF Held
<1>2. PICK s \in BlockStarts(v) : u = From(v, s)
  BY AddIsSuffix DEF FromBlock
<1> HIDE DEF v, u
<1>3. s \in 1..Len(v) /\ s \in DOMAIN v
  BY <1>1 DEF BlockStarts
<1>4. /\ From(v, s) \in Seq(S)
      /\ Len(From(v, s)) = Len(v) - s + 1
      /\ \A k \in 1..(Len(v) - s + 1) : From(v, s)[k] = v[k + s - 1]
  BY <1>1, <1>3, FromProperties
<1>5. /\ Len(v) - s + 1 \in 1..(Len(v) - s + 1)
      /\ (Len(v) - s + 1) + s - 1 = Len(v)
  BY <1>1, <1>3
<1>6. From(v, s) # <<>> /\ From(v, s)[Len(From(v, s))] = m
  BY <1>1, <1>4, <1>5
<1> QED BY <1>2, <1>6 DEF Last, u
-----------------------------------------------------------------------------
(* Budgets *)

CountersInv == validationRounds \in Nat /\ toolErrorRounds \in Nat /\ revisions \in Nat

ReviewInv ==
  /\ pc = "idle" => revision = None
  /\ pc = "critic" => candidate # None

IInv == CountersInv /\ ReviewInv /\ BudgetsRespected /\ FeedbackKept
-----------------------------------------------------------------------------
\* A session starts in the invariant.
LEMMA InitInv == Init => IInv
BY DEF Init, IInv, CountersInv, ReviewInv, BudgetsRespected, FeedbackKept

\* A step that ends the run.
LEMMA EndStep ==
  ASSUME IInv, CountersInv', NEW s, NEW how, End(s, how)
  PROVE  IInv'
BY DEF End, IInv, ReviewInv, BudgetsRespected, FeedbackKept

\* A step that ends the run or goes on with the next round.
LEMMA NextRoundStep ==
  ASSUME IInv, CountersInv', NEW kept, NextRound(kept),
         /\ validationRounds' <= ValidationRounds
         /\ toolErrorRounds' <= ToolErrorRounds
         /\ revisions' <= RevisionRounds,
         kept # None <=> revisions' > 0
  PROVE  IInv'
<1>1. CASE steps' >= MaxSteps
  <2>1. End("max_steps", "returned")
    BY <1>1 DEF NextRound
  <2> QED BY <2>1, EndStep
<1>2. CASE ~(steps' >= MaxSteps)
  <2>1. pc' = "routing" /\ revision' = kept
    BY <1>2 DEF NextRound
  <2> QED BY <2>1 DEF IInv, ReviewInv, BudgetsRespected, FeedbackKept
<1> QED BY <1>1, <1>2

\* A run starts without feedback and with its budgets unspent.
LEMMA StartStep == ASSUME IInv, NEW size, Start(size) PROVE IInv'
BY AgentAssumption
   DEF Start, locals, IInv, CountersInv, ReviewInv, BudgetsRespected, FeedbackKept

\* The planner changes neither counters nor drafts.
LEMMA PlannedStep == ASSUME IInv, Planned PROVE IInv'
BY DEF Planned, counters, locals, IInv, CountersInv, ReviewInv, BudgetsRespected, FeedbackKept

\* Nor does the router.
LEMMA RoutedStep == ASSUME IInv, Routed PROVE IInv'
BY DEF Routed, counters, IInv, CountersInv, ReviewInv, BudgetsRespected, FeedbackKept

\* A message with tool calls: only its violations count.
LEMMA AskToolsStep == ASSUME IInv, AskTools PROVE IInv'
<1>1. PICK batch \in Batch :
        \/ LoopDetected(batch)
        \/ \E size \in Size, sizes \in [1..MaxCalls -> Size] :
             \/ ValidationFailed(batch, size, sizes)
             \/ FedBack(batch, size, sizes)
             \/ Execute(batch, size, sizes)
             \/ CallsEscape(batch, size, sizes)
  BY DEF AskTools
<1>2. CASE LoopDetected(batch)
  <2>1. CountersInv'
    BY <1>2 DEF LoopDetected, Asked, IInv, CountersInv
  <2> QED BY <1>2, <2>1, EndStep DEF LoopDetected
<1>3. ASSUME NEW size \in Size, NEW sizes \in [1..MaxCalls -> Size],
             ValidationFailed(batch, size, sizes)
      PROVE  IInv'
  <2>1. CountersInv'
    BY <1>3 DEF ValidationFailed, Asked, IInv, CountersInv
  <2> QED BY <1>3, <2>1, EndStep DEF ValidationFailed
<1>4. ASSUME NEW size \in Size, NEW sizes \in [1..MaxCalls -> Size],
             FedBack(batch, size, sizes)
      PROVE  IInv'
  <2>1. /\ pc = "llm" /\ UNCHANGED <<toolErrorRounds, revisions>>
        /\ validationRounds' = validationRounds + 1 /\ ~ValidationBudgetSpent(validationRounds')
        /\ NextRound(revision)
    BY <1>4 DEF FedBack, Asked
  <2>2. CountersInv'
    BY <2>1 DEF IInv, CountersInv
  <2>3. /\ validationRounds' <= ValidationRounds
        /\ toolErrorRounds' <= ToolErrorRounds
        /\ revisions' <= RevisionRounds
    BY <2>1, <2>2, AgentAssumption
       DEF IInv, CountersInv, BudgetsRespected, ValidationBudgetSpent
  <2>4. revision # None <=> revisions' > 0
    BY <2>1 DEF IInv, FeedbackKept
  <2> QED BY <2>1, <2>2, <2>3, <2>4, NextRoundStep
<1>5. ASSUME NEW size \in Size, NEW sizes \in [1..MaxCalls -> Size],
             Execute(batch, size, sizes)
      PROVE  IInv'
  <2>1. /\ pc = "llm" /\ pc' = "tools" /\ UNCHANGED <<toolErrorRounds, revisions, revision>>
        /\ validationRounds' \in {0, validationRounds + 1}
        /\ ~ValidationBudgetSpent(validationRounds')
    BY <1>5 DEF Execute, Asked
  <2> QED BY <2>1, AgentAssumption
          DEF IInv, CountersInv, ReviewInv, BudgetsRespected, FeedbackKept, ValidationBudgetSpent
<1>6. ASSUME NEW size \in Size, NEW sizes \in [1..MaxCalls -> Size],
             CallsEscape(batch, size, sizes)
      PROVE  IInv'
  <2>1. CountersInv'
    BY <1>6 DEF CallsEscape, Asked, IInv, CountersInv
  <2> QED BY <1>6, <2>1, EndStep DEF CallsEscape
<1> QED BY <1>1, <1>2, <1>3, <1>4, <1>5, <1>6

\* A batch of results: it counts only when every call failed.
LEMMA ExecutionStep == ASSUME IInv, Execution PROVE IInv'
<1>1. ASSUME NEW failed \in BOOLEAN, NEW sizes \in [1..MaxCalls -> Size],
             Executed(failed, sizes)
      PROVE  IInv'
  <2>1. /\ pc = "tools" /\ UNCHANGED <<validationRounds, revisions>>
        /\ toolErrorRounds' = IF failed THEN toolErrorRounds + 1 ELSE 0
        /\ IF failed /\ ToolErrorBudgetSpent(toolErrorRounds')
           THEN End("failed", "returned")
           ELSE NextRound(revision)
    BY <1>1 DEF Executed
  <2>2. CountersInv'
    BY <2>1 DEF IInv, CountersInv
  <2>3. CASE failed /\ ToolErrorBudgetSpent(toolErrorRounds')
    BY <2>1, <2>2, <2>3, EndStep
  <2>4. CASE ~(failed /\ ToolErrorBudgetSpent(toolErrorRounds'))
    <3>1. /\ validationRounds' <= ValidationRounds
          /\ toolErrorRounds' <= ToolErrorRounds
          /\ revisions' <= RevisionRounds
      BY <2>1, <2>2, <2>4, AgentAssumption
         DEF IInv, CountersInv, BudgetsRespected, ToolErrorBudgetSpent
    <3>2. revision # None <=> revisions' > 0
      BY <2>1 DEF IInv, FeedbackKept
    <3> QED BY <2>1, <2>2, <2>4, <3>1, <3>2, NextRoundStep
  <2> QED BY <2>3, <2>4
<1>2. ASSUME NEW sizes \in [1..MaxCalls -> Size], NEW k \in 1..MaxCalls,
             ResultEscapes(sizes, k)
      PROVE  IInv'
  <2>1. CountersInv' /\ End(status, "raised")
    BY <1>2 DEF ResultEscapes, Escapes, counters, IInv, CountersInv
  <2> QED BY <2>1, EndStep
<1> QED BY <1>1, <1>2 DEF Execution

\* The last word of a run ends it, heard or not.
LEMMA ConcludeStep ==
  ASSUME IInv, CountersInv', NEW ref, NEW size, Conclude(ref, size)
  PROVE  IInv'
BY EndStep DEF Conclude, Escapes

\* An answer, a draft or a verdict: only a revision counts, and brings feedback.
LEMMA ReplyStep == ASSUME IInv, Reply PROVE IInv'
<1>1. CASE BlankAnswer
  <2>1. CountersInv'
    BY <1>1 DEF BlankAnswer, counters, IInv, CountersInv
  <2> QED BY <1>1, <2>1, EndStep DEF BlankAnswer
<1>2. ASSUME NEW size \in Size, Answer(size) PROVE IInv'
  <2>1. CountersInv'
    BY <1>2 DEF Answer, counters, IInv, CountersInv
  <2> QED BY <1>2, <2>1, ConcludeStep DEF Answer
<1>3. CASE Draft
  <2>1. CountersInv'
    BY <1>3 DEF Draft, counters, IInv, CountersInv
  <2>2. CASE steps' >= MaxSteps
    BY <1>3, <2>1, <2>2, EndStep DEF Draft
  <2>3. CASE ~(steps' >= MaxSteps)
    <3>1. /\ pc = "llm" /\ pc' = "critic" /\ candidate' = <<run, steps>>
          /\ UNCHANGED <<counters, revision>>
      BY <1>3, <2>3 DEF Draft
    <3>2. <<run, steps>> # None
      BY DEF None
    <3> QED BY <2>1, <3>1, <3>2
            DEF counters, IInv, ReviewInv, BudgetsRespected, FeedbackKept
  <2> QED BY <2>2, <2>3
<1>4. ASSUME NEW size \in Size, Accept(size) PROVE IInv'
  <2>1. CountersInv'
    BY <1>4 DEF Accept, counters, IInv, CountersInv
  <2> QED BY <1>4, <2>1, ConcludeStep DEF Accept
<1>5. CASE Revise
  <2>1. CountersInv'
    BY <1>5 DEF Revise, IInv, CountersInv
  <2>2. CASE RevisionLimit
    BY <1>5, <2>1, <2>2, EndStep DEF Revise
  <2>3. CASE ~RevisionLimit
    <3>1. /\ pc = "critic" /\ revisions' = revisions + 1 /\ NextRound(candidate)
          /\ UNCHANGED <<validationRounds, toolErrorRounds>>
      BY <1>5, <2>3 DEF Revise
    <3>2. /\ validationRounds' <= ValidationRounds
          /\ toolErrorRounds' <= ToolErrorRounds
          /\ revisions' <= RevisionRounds
      BY <2>3, <3>1, AgentAssumption DEF RevisionLimit, IInv, CountersInv, BudgetsRespected
    <3>3. candidate # None <=> revisions' > 0
      BY <3>1 DEF IInv, CountersInv, ReviewInv
    <3> QED BY <2>1, <3>1, <3>2, <3>3, NextRoundStep
  <2> QED BY <2>2, <2>3
<1> QED BY <1>1, <1>2, <1>3, <1>4, <1>5 DEF Reply

\* Whatever a run awaits may fail or be cancelled.
LEMMA ErrorStep == ASSUME IInv, Fails \/ Raises \/ Cancel PROVE IInv'
<1>1. CountersInv'
  BY DEF Fails, Raises, Cancel, Interrupted, counters, IInv, CountersInv
<1> QED BY <1>1, EndStep DEF Fails, Raises, Cancel

\* Every step keeps the invariant.
LEMMA StepInv == IInv /\ [Next]_vars => IInv'
<1>1. SUFFICES ASSUME IInv, [Next]_vars PROVE IInv'
  OBVIOUS
<1>2. CASE UNCHANGED vars
  BY <1>1, <1>2
     DEF vars, counters, locals, IInv, CountersInv, ReviewInv, BudgetsRespected, FeedbackKept
<1>3. CASE Next
  BY <1>1, <1>3, StartStep, PlannedStep, RoutedStep, AskToolsStep, ExecutionStep, ReplyStep,
     ErrorStep
     DEF Next, Progress
<1> QED BY <1>1, <1>2, <1>3
-----------------------------------------------------------------------------
\* No run goes on with an overdrawn feedback budget (loop_guard.py:110-128,
\* runtime.py:355), whatever the model, the tools and the critic return.
THEOREM BudgetsHold == Spec => []BudgetsRespected
<1>1. IInv => BudgetsRespected
  BY DEF IInv
<1> QED BY InitInv, StepInv, <1>1, PTL DEF Spec

\* The critic's feedback accompanies a run from the first revision to its end
\* (runtime.py:277, 304, 378), however many rounds of tools come between.
THEOREM FeedbackHolds == Spec => []FeedbackKept
<1>1. IInv => FeedbackKept
  BY DEF IInv
<1> QED BY InitInv, StepInv, <1>1, PTL DEF Spec
-----------------------------------------------------------------------------
(* What eviction leaves of a window *)

\* The block opened at j goes on to the end of the window.
OpenBlock(w, j) == AsksTools(w[j]) /\ \A k \in (j + 1)..Len(w) : w[k].role = "tool"

\* v is what is left of w from s on, where a block starts.
LeftOf(v, w, s) ==
  /\ s \in 1..Len(w) /\ Len(w) \in Nat
  /\ v \in Seq(Message) /\ Len(v) = Len(w) - s + 1
  /\ \A k \in 1..Len(v) : k + s - 1 \in s..Len(w) /\ v[k] = w[k + s - 1]
  /\ \A i \in s..Len(w), j \in DOMAIN w :
       InBlock(w, i, j) => s <= j /\ InBlock(v, i - s + 1, j - s + 1)
  /\ \A j \in DOMAIN w : OpenBlock(w, j) => s <= j /\ OpenBlock(v, j - s + 1)

\* What is left from the start of a block on.
LEMMA BlockLeaves ==
  ASSUME NEW w \in Seq(Message), NEW u, FromBlock(u, w)
  PROVE  \E s : LeftOf(u, w, s)
<1>1. PICK s \in BlockStarts(w) : u = From(w, s)
  BY DEF FromBlock
<1> DEFINE v == From(w, s)
<1>2. s \in 1..Len(w) /\ s \in DOMAIN w /\ Len(w) \in Nat /\ DOMAIN w = 1..Len(w)
  BY DEF BlockStarts
<1>3. /\ v \in Seq(Message) /\ Len(v) = Len(w) - s + 1
      /\ \A k \in 1..(Len(w) - s + 1) : v[k] = w[k + s - 1]
  BY <1>2, FromProperties
<1>4. \A i \in s..Len(w), j \in DOMAIN w :
        InBlock(w, i, j) => s <= j /\ InBlock(v, i - s + 1, j - s + 1)
  BY <1>2, BlockKept
<1> HIDE DEF v
<1>5. ASSUME NEW j \in DOMAIN w, OpenBlock(w, j) PROVE s <= j /\ OpenBlock(v, j - s + 1)
  <2>1. s <= j
    <3> SUFFICES ASSUME j < s PROVE FALSE
      BY <1>2
    <3>1. InBlock(w, s, j)
      <4>1. \A k \in (j + 1)..s : k \in (j + 1)..Len(w)
        BY <1>2
      <4> QED BY <1>5, <4>1 DEF InBlock, OpenBlock
    <3>2. j \in 1..(s - 1)
      BY <1>2
    <3> QED BY <3>1, <3>2 DEF BlockStarts
  <2>2. j - s + 1 \in 1..(Len(w) - s + 1) /\ (j - s + 1) + s - 1 = j
    BY <1>2, <2>1
  <2>3. AsksTools(v[j - s + 1])
    BY <1>3, <1>5, <2>2 DEF OpenBlock
  <2>4. ASSUME NEW k \in (j - s + 1 + 1)..Len(v) PROVE v[k].role = "tool"
    <3>1. k \in 1..(Len(w) - s + 1) /\ k + s - 1 \in (j + 1)..Len(w)
      BY <1>2, <1>3, <2>1, <2>2
    <3> QED BY <1>3, <1>5, <3>1 DEF OpenBlock
  <2> QED BY <2>1, <2>3, <2>4 DEF OpenBlock
<1>6. \A k \in 1..Len(v) : k + s - 1 \in s..Len(w) /\ v[k] = w[k + s - 1]
  BY <1>2, <1>3
<1>7. LeftOf(v, w, s)
  BY <1>2, <1>3, <1>4, <1>5, <1>6 DEF LeftOf
<1> QED BY <1>1, <1>7 DEF v
-----------------------------------------------------------------------------
(* What the window holds *)

\* What a message of a run up to r may refer to: the calls and answers of its own run.
MessageInv(m, r) ==
  /\ m.run <= r
  /\ m.role \in {"system", "user"} => m.ref = None /\ m.calls = <<>>
  /\ m.role = "tool" => m.ref \in {m.run} \X Nat /\ m.calls = <<>>
  /\ m.role = "assistant" =>
       IF m.calls = <<>> THEN m.ref \in {m.run} \X Nat ELSE m.ref = None
  /\ ToSet(m.calls) \subseteq {m.run} \X Nat

\* A window of runs up to r, at any time: every tool message has its call.
Base(w, r) ==
  /\ w \in Seq(Message)
  /\ \A i \in DOMAIN w : MessageInv(w[i], r)
  /\ Paired(w)

\* The window while run r goes on, which has made n calls: they are numbered 1..n,
\* each is answered once in its block, but for the open ones, which nothing answers
\* yet and whose block is the last.
Fresh(w, r, n, open) ==
  /\ \A i \in DOMAIN w : w[i].run = r =>
       /\ ToSet(w[i].calls) \subseteq {r} \X (1..n)
       /\ w[i].role = "tool" => w[i].ref \in {r} \X (1..n)
  /\ \A i, k \in DOMAIN w :
       w[i].role = "tool" /\ w[k].role = "tool" /\ w[i].run = r /\ w[i].ref = w[k].ref => i = k
  /\ \A i \in DOMAIN w : w[i].role = "tool" => w[i].ref \notin open
  /\ \A j \in DOMAIN w : w[j].run = r => \A id \in ToSet(w[j].calls) :
       \/ \E i \in DOMAIN w : InBlock(w, i, j) /\ w[i].ref = id
       \/ id \in open /\ OpenBlock(w, j)
  /\ \A id \in open : \E j \in DOMAIN w :
       OpenBlock(w, j) /\ w[j].run = r /\ id \in ToSet(w[j].calls)

\* Where the messages of a trimmed window come from.
LEMMA LeftPlaces ==
  ASSUME NEW w \in Seq(Message), NEW v, NEW s, LeftOf(v, w, s)
  PROVE  /\ DOMAIN v = 1..Len(v) /\ Len(v) \in Nat \ {0} /\ s \in 1..Len(w) /\ Len(w) \in Nat
         /\ \A k \in DOMAIN v : k + s - 1 \in DOMAIN w /\ v[k] = w[k + s - 1]
         /\ \A i \in s..Len(w) : i - s + 1 \in DOMAIN v /\ v[i - s + 1] = w[i]
<1>1. s \in 1..Len(w) /\ Len(w) \in Nat /\ DOMAIN w = 1..Len(w)
  BY DEF LeftOf
<1>2. /\ v \in Seq(Message) /\ Len(v) = Len(w) - s + 1
      /\ \A k \in 1..Len(v) : k + s - 1 \in s..Len(w) /\ v[k] = w[k + s - 1]
  BY DEF LeftOf
<1>3. DOMAIN v = 1..Len(v) /\ Len(v) \in Nat \ {0}
  BY <1>1, <1>2
<1>4. \A k \in DOMAIN v : k + s - 1 \in DOMAIN w /\ v[k] = w[k + s - 1]
  BY <1>1, <1>2, <1>3
<1>5. \A i \in s..Len(w) : i - s + 1 \in 1..Len(v) /\ (i - s + 1) + s - 1 = i
  BY <1>1, <1>2
<1>6. \A i \in s..Len(w) : v[i - s + 1] = w[i]
  BY <1>2, <1>5
<1> QED BY <1>1, <1>3, <1>4, <1>5, <1>6

\* Eviction keeps every result with its call,
LEMMA EvictBase ==
  ASSUME NEW w, NEW r, Base(w, r), NEW v, FromBlock(v, w)
  PROVE  Base(v, r) /\ v # <<>>
<1>1. PICK s : LeftOf(v, w, s)
  BY BlockLeaves DEF Base
<1>2. Paired(v)
  BY SuffixKeepsResults DEF Base
<1>3. /\ v \in Seq(Message) /\ DOMAIN v = 1..Len(v) /\ Len(v) >= 1
      /\ \A k \in DOMAIN v : k + s - 1 \in DOMAIN w /\ v[k] = w[k + s - 1]
  BY <1>1 DEF LeftOf, Base
<1> QED BY <1>2, <1>3 DEF Base

\* and every call of the current run with its answer, the open ones open.
LEMMA EvictFresh ==
  ASSUME NEW w, NEW r, Base(w, r), NEW v, FromBlock(v, w), NEW n, NEW open, Fresh(w, r, n, open)
  PROVE  Fresh(v, r, n, open)
<1>2. PICK s : LeftOf(v, w, s)
  BY BlockLeaves DEF Base
<1>3. /\ DOMAIN v = 1..Len(v) /\ Len(v) \in Nat /\ s \in 1..Len(w) /\ Len(w) \in Nat
      /\ \A k \in DOMAIN v : k + s - 1 \in DOMAIN w /\ v[k] = w[k + s - 1]
  BY <1>2, LeftPlaces DEF Base
<1>4. \A i \in s..Len(w) : i - s + 1 \in DOMAIN v /\ v[i - s + 1] = w[i]
  BY <1>2, LeftPlaces DEF Base
<1>5. DOMAIN w = 1..Len(w)
  BY DEF Base
<1>6. \A i \in DOMAIN v : v[i].run = r =>
       /\ ToSet(v[i].calls) \subseteq {r} \X (1..n)
       /\ v[i].role = "tool" => v[i].ref \in {r} \X (1..n)
  BY <1>3 DEF Fresh
<1>7. \A i, k \in DOMAIN v :
       v[i].role = "tool" /\ v[k].role = "tool" /\ v[i].run = r /\ v[i].ref = v[k].ref => i = k
  <2> SUFFICES ASSUME NEW i \in DOMAIN v, NEW k \in DOMAIN v, v[i].role = "tool",
                      v[k].role = "tool", v[i].run = r, v[i].ref = v[k].ref
               PROVE  i = k
    OBVIOUS
  <2>1. i + s - 1 = k + s - 1
    BY <1>3 DEF Fresh
  <2> QED BY <1>3, <2>1
<1>8. \A i \in DOMAIN v : v[i].role = "tool" => v[i].ref \notin open
  BY <1>3 DEF Fresh
<1>9. \A j \in DOMAIN v : v[j].run = r => \A id \in ToSet(v[j].calls) :
       \/ \E i \in DOMAIN v : InBlock(v, i, j) /\ v[i].ref = id
       \/ id \in open /\ OpenBlock(v, j)
  <2> SUFFICES ASSUME NEW j \in DOMAIN v, v[j].run = r, NEW id \in ToSet(v[j].calls)
               PROVE  \/ \E i \in DOMAIN v : InBlock(v, i, j) /\ v[i].ref = id
                      \/ id \in open /\ OpenBlock(v, j)
    OBVIOUS
  <2> DEFINE p == j + s - 1
  <2>1. p \in DOMAIN w /\ v[j] = w[p] /\ p - s + 1 = j /\ s <= p
    BY <1>3
  <2> HIDE DEF p
  <2>2. \/ \E i \in DOMAIN w : InBlock(w, i, p) /\ w[i].ref = id
        \/ id \in open /\ OpenBlock(w, p)
    BY <2>1 DEF Fresh
  <2>3. ASSUME NEW i \in DOMAIN w, InBlock(w, i, p), w[i].ref = id
        PROVE  \E k \in DOMAIN v : InBlock(v, k, j) /\ v[k].ref = id
    <3>1. i \in s..Len(w)
      BY <1>3, <1>5, <2>1, <2>3 DEF InBlock
    <3>2. InBlock(v, i - s + 1, j)
      BY <1>2, <2>1, <2>3, <3>1 DEF LeftOf
    <3> QED BY <1>4, <2>3, <3>1, <3>2
  <2>4. OpenBlock(w, p) => OpenBlock(v, j)
    BY <1>2, <2>1 DEF LeftOf
  <2> QED BY <2>2, <2>3, <2>4
<1>10. \A id \in open : \E j \in DOMAIN v :
       OpenBlock(v, j) /\ v[j].run = r /\ id \in ToSet(v[j].calls)
  <2> SUFFICES ASSUME NEW id \in open
               PROVE  \E j \in DOMAIN v :
                        OpenBlock(v, j) /\ v[j].run = r /\ id \in ToSet(v[j].calls)
    OBVIOUS
  <2>1. PICK j \in DOMAIN w : OpenBlock(w, j) /\ w[j].run = r /\ id \in ToSet(w[j].calls)
    BY DEF Fresh
  <2>2. s <= j /\ OpenBlock(v, j - s + 1)
    BY <1>2, <2>1 DEF LeftOf
  <2>3. j \in s..Len(w)
    BY <1>3, <1>5, <2>2
  <2> QED BY <1>4, <2>1, <2>2, <2>3
<1> QED BY <1>6, <1>7, <1>8, <1>9, <1>10 DEF Fresh

\* What follows a block does not change it.
LEMMA BlockPrefix ==
  ASSUME NEW w, NEW v, NEW i \in Int, NEW j \in Int, i <= Len(w), Len(w) \in Nat, 1 <= j,
         \A k \in 1..Len(w) : v[k] = w[k]
  PROVE  InBlock(v, i, j) <=> InBlock(w, i, j)
<1>1. CASE j < i
  <2>1. j \in 1..Len(w) /\ \A k \in (j + 1)..i : k \in 1..Len(w)
    BY <1>1
  <2> QED BY <2>1 DEF InBlock, AsksTools
<1>2. CASE ~(j < i)
  BY <1>2 DEF InBlock
<1> QED BY <1>1, <1>2

\* A message that is not a tool's is answered by nothing yet, and answers nothing.
LEMMA AppendBase ==
  ASSUME NEW w, NEW r, Base(w, r), NEW m \in Message, MessageInv(m, r), m.role # "tool"
  PROVE  Base(Append(w, m), r) /\ Append(w, m) # <<>>
<1> DEFINE v == Append(w, m)
<1>1. /\ v \in Seq(Message) /\ v # <<>> /\ Len(w) \in Nat /\ DOMAIN w = 1..Len(w)
      /\ DOMAIN v = 1..(Len(w) + 1) /\ v[Len(w) + 1] = m
      /\ \A k \in 1..Len(w) : v[k] = w[k]
  BY AppendProperties DEF Base
<1> HIDE DEF v
<1>2. \A i \in DOMAIN v : i \in DOMAIN w \/ i = Len(w) + 1
  BY <1>1
<1>3. \A i \in DOMAIN v : MessageInv(v[i], r)
  BY <1>1, <1>2 DEF Base
<1>4. Paired(v)
  <2> SUFFICES ASSUME NEW i \in DOMAIN v, v[i].role = "tool"
               PROVE  \E j \in DOMAIN v : InBlock(v, i, j) /\ v[i].ref \in ToSet(v[j].calls)
    BY DEF Paired
  <2>1. i \in DOMAIN w /\ v[i] = w[i]
    BY <1>1, <1>2
  <2>2. PICK j \in DOMAIN w : InBlock(w, i, j) /\ w[i].ref \in ToSet(w[j].calls)
    BY <2>1 DEF Base, Paired
  <2>3. j \in DOMAIN v /\ v[j] = w[j] /\ InBlock(v, i, j)
    BY <1>1, <2>1, <2>2, BlockPrefix
  <2> QED BY <2>1, <2>2, <2>3
<1>5. Base(v, r)
  BY <1>1, <1>3, <1>4 DEF Base
<1> QED BY <1>1, <1>5 DEF v

\* Such a message may open a block.
LEMMA AppendFresh ==
  ASSUME NEW w, NEW r, Base(w, r), NEW m \in Message, MessageInv(m, r), m.role # "tool",
         NEW n \in Nat, Fresh(w, r, n, {}), m.run = r,
         NEW n2 \in Nat, n <= n2, ToSet(m.calls) \subseteq {r} \X ((n + 1)..n2)
  PROVE  Fresh(Append(w, m), r, n2, ToSet(m.calls))
<1> DEFINE v == Append(w, m)
           open == ToSet(m.calls)
<1>1. /\ v \in Seq(Message) /\ v # <<>> /\ Len(w) \in Nat /\ DOMAIN w = 1..Len(w)
      /\ DOMAIN v = 1..(Len(w) + 1) /\ Len(v) = Len(w) + 1 /\ v[Len(w) + 1] = m
      /\ \A k \in 1..Len(w) : v[k] = w[k]
  BY AppendProperties DEF Base
<1> HIDE DEF v
<1>2. \A i \in DOMAIN v : i \in DOMAIN w \/ i = Len(w) + 1
  BY <1>1
<1>3. {r} \X (1..n) \subseteq {r} \X (1..n2) /\ {r} \X ((n + 1)..n2) \subseteq {r} \X (1..n2)
      /\ \A x \in {r} \X (1..n) : x \notin {r} \X ((n + 1)..n2)
  OBVIOUS
<1>4. open # {} => AsksTools(m)
  <2>1. open # {} => m.calls # <<>>
    BY DEF ToSet
  <2>2. m.calls # <<>> => m.role = "assistant"
    BY DEF MessageInv, Message
  <2> QED BY <2>1, <2>2 DEF AsksTools
<1>5. open \subseteq {r} \X ((n + 1)..n2)
  OBVIOUS
<1>6. \A i \in DOMAIN v : v[i].run = r =>
       /\ ToSet(v[i].calls) \subseteq {r} \X (1..n2)
       /\ v[i].role = "tool" => v[i].ref \in {r} \X (1..n2)
  BY <1>1, <1>2, <1>3 DEF Fresh
<1>7. \A i, k \in DOMAIN v :
       v[i].role = "tool" /\ v[k].role = "tool" /\ v[i].run = r /\ v[i].ref = v[k].ref => i = k
  BY <1>1, <1>2 DEF Fresh
<1>8. \A i \in DOMAIN v : v[i].role = "tool" => v[i].ref \notin open
  <2> SUFFICES ASSUME NEW i \in DOMAIN v, v[i].role = "tool", v[i].ref \in open PROVE FALSE
    OBVIOUS
  <2>1. i \in DOMAIN w /\ v[i] = w[i]
    BY <1>1, <1>2
  <2>2. w[i].ref \in {w[i].run} \X Nat /\ w[i].ref \in {r} \X Nat
    BY <1>5, <2>1 DEF Base, MessageInv
  <2>3. w[i].run = r
    BY <2>2
  <2>4. w[i].ref \in {r} \X (1..n)
    BY <2>1, <2>3 DEF Fresh
  <2> QED BY <1>3, <1>5, <2>1, <2>4
<1>9. \A j \in DOMAIN v : v[j].run = r => \A id \in ToSet(v[j].calls) :
       \/ \E i \in DOMAIN v : InBlock(v, i, j) /\ v[i].ref = id
       \/ id \in open /\ OpenBlock(v, j)
  <2> SUFFICES ASSUME NEW j \in DOMAIN v, v[j].run = r, NEW id \in ToSet(v[j].calls)
               PROVE  \/ \E i \in DOMAIN v : InBlock(v, i, j) /\ v[i].ref = id
                      \/ id \in open /\ OpenBlock(v, j)
    OBVIOUS
  <2>1. CASE j = Len(w) + 1
    <3>1. v[j] = m /\ id \in open /\ (j + 1)..Len(v) = {}
      BY <1>1, <2>1
    <3> QED BY <1>4, <3>1 DEF OpenBlock
  <2>2. CASE j \in DOMAIN w
    <3>1. v[j] = w[j]
      BY <1>1, <2>2
    <3>2. PICK i \in DOMAIN w : InBlock(w, i, j) /\ w[i].ref = id
      BY <2>2, <3>1 DEF Fresh
    <3>3. i \in DOMAIN v /\ v[i] = w[i] /\ InBlock(v, i, j)
      BY <1>1, <2>2, <3>2, BlockPrefix
    <3> QED BY <3>2, <3>3
  <2> QED BY <1>2, <2>1, <2>2
<1>10. \A id \in open : \E j \in DOMAIN v :
       OpenBlock(v, j) /\ v[j].run = r /\ id \in ToSet(v[j].calls)
  <2>1. Len(w) + 1 \in DOMAIN v /\ (Len(w) + 1 + 1)..Len(v) = {}
    BY <1>1
  <2> QED BY <1>1, <1>4, <2>1 DEF OpenBlock
<1>11. Fresh(v, r, n2, open)
  BY <1>6, <1>7, <1>8, <1>9, <1>10 DEF Fresh
<1> QED BY <1>11 DEF v


\* A result that answers an open call closes it, and no other.
LEMMA AppendResult ==
  ASSUME NEW w, NEW r, Base(w, r), NEW n \in Nat, NEW open, Fresh(w, r, n, open),
         NEW m \in Message, m.role = "tool", m.calls = <<>>, m.run = r, m.ref \in open
  PROVE  Base(Append(w, m), r) /\ Fresh(Append(w, m), r, n, open \ {m.ref})
<1> DEFINE v == Append(w, m)
           left == open \ {m.ref}
           last == Len(w) + 1
<1>1. /\ v \in Seq(Message) /\ Len(w) \in Nat /\ DOMAIN w = 1..Len(w)
      /\ Len(v) = last /\ DOMAIN v = 1..last /\ last \in DOMAIN v /\ last \in Int
      /\ v[last] = m /\ last \notin DOMAIN w
      /\ \A k \in DOMAIN w : v[k] = w[k] /\ k \in DOMAIN v
  BY AppendProperties DEF Base
<1> HIDE DEF v
<1>2. \A i \in DOMAIN v : i \in DOMAIN w \/ i = last
  BY <1>1
<1>3. m.ref \in {r} \X (1..n) /\ ToSet(m.calls) = {}
  <2>1. PICK j \in DOMAIN w : w[j].run = r /\ m.ref \in ToSet(w[j].calls)
    BY DEF Fresh
  <2> QED BY <2>1 DEF Fresh, ToSet
<1>4. \A i \in DOMAIN v : MessageInv(v[i], r)
  <2>1. MessageInv(m, r)
    <3>1. m.ref \in {r} \X Nat /\ m.run <= r
      BY <1>3 DEF Message
    <3> QED BY <1>3, <3>1 DEF MessageInv
  <2> QED BY <1>1, <1>2, <2>1 DEF Base
<1>5. \A j \in DOMAIN w : OpenBlock(w, j) => OpenBlock(v, j) /\ InBlock(v, last, j)
  <2> SUFFICES ASSUME NEW j \in DOMAIN w, OpenBlock(w, j)
               PROVE  OpenBlock(v, j) /\ InBlock(v, last, j)
    OBVIOUS
  <2>1. ASSUME NEW i \in (j + 1)..Len(v) PROVE v[i].role = "tool"
    <3>1. i \in DOMAIN v /\ (i \in DOMAIN w => i \in (j + 1)..Len(w))
      BY <1>1
    <3> QED BY <1>1, <1>2, <3>1 DEF OpenBlock
  <2>2. AsksTools(v[j]) /\ j < last
    BY <1>1 DEF OpenBlock
  <2> QED BY <1>1, <2>1, <2>2 DEF OpenBlock, InBlock
<1>6. \A i \in DOMAIN w, j \in DOMAIN w : InBlock(w, i, j) => InBlock(v, i, j)
  BY <1>1, BlockPrefix
<1>7. PICK opener \in DOMAIN w :
        OpenBlock(w, opener) /\ w[opener].run = r /\ m.ref \in ToSet(w[opener].calls)
  BY DEF Fresh
<1>8. Paired(v)
  <2> SUFFICES ASSUME NEW i \in DOMAIN v, v[i].role = "tool"
               PROVE  \E j \in DOMAIN v : InBlock(v, i, j) /\ v[i].ref \in ToSet(v[j].calls)
    BY DEF Paired
  <2>1. CASE i \in DOMAIN w
    <3>1. PICK j \in DOMAIN w : InBlock(w, i, j) /\ w[i].ref \in ToSet(w[j].calls)
      BY <1>1, <2>1 DEF Base, Paired
    <3> QED BY <1>1, <1>6, <2>1, <3>1
  <2>2. CASE i = last
    BY <1>1, <1>5, <1>7, <2>2
  <2> QED BY <1>2, <2>1, <2>2
<1>9. Base(v, r)
  BY <1>1, <1>4, <1>8 DEF Base
<1>10. \A i \in DOMAIN v : v[i].run = r =>
       /\ ToSet(v[i].calls) \subseteq {r} \X (1..n)
       /\ v[i].role = "tool" => v[i].ref \in {r} \X (1..n)
  BY <1>1, <1>2, <1>3 DEF Fresh
<1>11. \A i, k \in DOMAIN v :
       v[i].role = "tool" /\ v[k].role = "tool" /\ v[i].run = r /\ v[i].ref = v[k].ref => i = k
  BY <1>1, <1>2 DEF Fresh
<1>12. \A i \in DOMAIN v : v[i].role = "tool" => v[i].ref \notin left
  BY <1>1, <1>2 DEF Fresh
<1>13. \A j \in DOMAIN v : v[j].run = r => \A id \in ToSet(v[j].calls) :
       \/ \E i \in DOMAIN v : InBlock(v, i, j) /\ v[i].ref = id
       \/ id \in left /\ OpenBlock(v, j)
  <2> SUFFICES ASSUME NEW j \in DOMAIN v, v[j].run = r, NEW id \in ToSet(v[j].calls)
               PROVE  \/ \E i \in DOMAIN v : InBlock(v, i, j) /\ v[i].ref = id
                      \/ id \in left /\ OpenBlock(v, j)
    OBVIOUS
  <2>1. j \in DOMAIN w /\ v[j] = w[j]
    BY <1>1, <1>2, <1>3
  <2>2. CASE \E i \in DOMAIN w : InBlock(w, i, j) /\ w[i].ref = id
    BY <1>1, <1>6, <2>1, <2>2
  <2>3. CASE id \in open /\ OpenBlock(w, j)
    BY <1>1, <1>5, <2>1, <2>3
  <2> QED BY <2>1, <2>2, <2>3 DEF Fresh
<1>14. \A id \in left : \E j \in DOMAIN v :
       OpenBlock(v, j) /\ v[j].run = r /\ id \in ToSet(v[j].calls)
  <2> SUFFICES ASSUME NEW id \in open
               PROVE  \E j \in DOMAIN v :
                        OpenBlock(v, j) /\ v[j].run = r /\ id \in ToSet(v[j].calls)
    OBVIOUS
  <2>1. PICK j \in DOMAIN w : OpenBlock(w, j) /\ w[j].run = r /\ id \in ToSet(w[j].calls)
    BY DEF Fresh
  <2> QED BY <1>1, <1>5, <2>1
<1>15. Fresh(v, r, n, left)
  <2> HIDE DEF left
  <2> QED BY <1>10, <1>11, <1>12, <1>13, <1>14 DEF Fresh
<1> QED BY <1>9, <1>15 DEF v
-----------------------------------------------------------------------------
(* The answers a window holds *)

\* An answer to the user.
IsAnswer(m) == m.role = "assistant" /\ m.calls = <<>>

\* An event hands m out as the final answer of its run.
HandedOut(m, es) ==
  \E e \in ToSet(es) : e.type = "RUN_FINISH" /\ e.run = m.run /\ e.final = m.ref

\* No event is of m's run.
Silent(m, es) == \A e \in ToSet(es) : e.run # m.run

\* Each answer in w was handed out, or it is the last word of one of the runs that
\* are over, and that run ended without an event.
Announced(w, es, over) ==
  \A i \in DOMAIN w : IsAnswer(w[i]) =>
    \/ HandedOut(w[i], es)
    \/ /\ w[i].run \in over /\ Silent(w[i], es)
       /\ \A k \in DOMAIN w : k > i => w[k].run # w[i].run

\* Eviction announces nothing,
LEMMA LeftAnnounced ==
  ASSUME NEW w \in Seq(Message), NEW v, FromBlock(v, w), NEW es, NEW over, Announced(w, es, over)
  PROVE  Announced(v, es, over)
<1>1. PICK s : LeftOf(v, w, s)
  BY BlockLeaves
<1>2. /\ DOMAIN v = 1..Len(v) /\ s \in Int
      /\ \A k \in DOMAIN v : k + s - 1 \in DOMAIN w /\ v[k] = w[k + s - 1]
  BY <1>1, LeftPlaces
<1>3. SUFFICES ASSUME NEW i \in DOMAIN v, IsAnswer(v[i]), ~HandedOut(v[i], es)
               PROVE  /\ v[i].run \in over /\ Silent(v[i], es)
                      /\ \A k \in DOMAIN v : k > i => v[k].run # v[i].run
  BY DEF Announced
<1>4. /\ w[i + s - 1].run \in over /\ Silent(w[i + s - 1], es)
      /\ \A k \in DOMAIN w : k > i + s - 1 => w[k].run # w[i + s - 1].run
  BY <1>2, <1>3 DEF Announced
<1>5. \A k \in DOMAIN v : k > i => k + s - 1 > i + s - 1
  BY <1>2
<1> QED BY <1>2, <1>4, <1>5

\* and a further message needs an announcement if it is an answer, or the end of
\* its run.
LEMMA AppendAnnounced ==
  ASSUME NEW w \in Seq(Message), NEW m \in Message, NEW es, NEW over, Announced(w, es, over),
         m.run \notin over, NEW over2, over \subseteq over2,
         IsAnswer(m) => HandedOut(m, es) \/ (m.run \in over2 /\ Silent(m, es))
  PROVE  Announced(Append(w, m), es, over2)
<1> DEFINE v == Append(w, m)
<1>1. /\ DOMAIN w = 1..Len(w) /\ Len(w) \in Nat
      /\ DOMAIN v = 1..(Len(w) + 1) /\ v[Len(w) + 1] = m
      /\ \A k \in 1..Len(w) : v[k] = w[k]
  BY AppendProperties
<1> HIDE DEF v
<1>2. \A i \in DOMAIN v : i \in DOMAIN w \/ i = Len(w) + 1
  BY <1>1
<1>3. SUFFICES ASSUME NEW i \in DOMAIN v, IsAnswer(v[i]), ~HandedOut(v[i], es)
               PROVE  /\ v[i].run \in over2 /\ Silent(v[i], es)
                      /\ \A k \in DOMAIN v : k > i => v[k].run # v[i].run
  BY DEF Announced, v
<1>4. CASE i \in DOMAIN w
  <2>1. /\ w[i].run \in over /\ Silent(w[i], es) /\ v[i] = w[i]
        /\ \A k \in DOMAIN w : k > i => w[k].run # w[i].run
    BY <1>1, <1>3, <1>4 DEF Announced
  <2> QED BY <1>1, <1>2, <2>1
<1>5. CASE i = Len(w) + 1
  BY <1>1, <1>3, <1>5
<1> QED BY <1>2, <1>4, <1>5

\* Further events announce what was announced, and are of runs that go on.
LEMMA MoreAnnounced ==
  ASSUME NEW w, NEW S, NEW es \in Seq(S), NEW e, NEW over, Announced(w, es, over),
         e.run \notin over
  PROVE  Announced(w, Append(es, e), over)
<1>1. ToSet(es) \subseteq ToSet(Append(es, e)) /\ ToSet(Append(es, e)) \subseteq ToSet(es) \cup {e}
  BY DEF ToSet
<1> QED BY <1>1 DEF Announced, HandedOut, Silent

\* So it is when another run is over.
LEMMA MoreOver ==
  ASSUME NEW w, NEW es, NEW over, Announced(w, es, over), NEW over2, over \subseteq over2
  PROVE  Announced(w, es, over2)
BY DEF Announced
-----------------------------------------------------------------------------
(* What add_message keeps *)

\* A buffer of run r.
Sound(b, r, es, over) ==
  Held(b, Message) /\ Base(b.messages, r) /\ Announced(b.messages, es, over)

\* A message that is not a tool's,
LEMMA AddSound ==
  ASSUME NEW b, NEW r, NEW es, NEW over, Sound(b, r, es, over),
         NEW m \in Message, MessageInv(m, r), m.role # "tool",
         m.run \notin over, NEW over2, over \subseteq over2,
         IsAnswer(m) => HandedOut(m, es) \/ (m.run \in over2 /\ Silent(m, es))
  PROVE  LET c == Added(b, m, MaxTokens)
         IN  Sound(c, r, es, over2) /\ c.messages # <<>>
<1> DEFINE w == b.messages
           c == Added(b, m, MaxTokens)
<1>1. w \in Seq(Message) /\ Base(w, r) /\ Announced(w, es, over)
  BY DEF Sound, Base
<1>2. Base(Append(w, m), r) /\ Announced(Append(w, m), es, over2)
  BY <1>1, AppendBase, AppendAnnounced
<1>3. Held(c, Message) /\ FromBlock(c.messages, Append(w, m))
  BY AddIsSuffix DEF Sound
<1> HIDE DEF c
<1>4. Base(c.messages, r) /\ c.messages # <<>>
  BY <1>2, <1>3, EvictBase
<1>5. Announced(c.messages, es, over2)
  BY <1>2, <1>3, LeftAnnounced DEF Base
<1> QED BY <1>3, <1>4, <1>5 DEF Sound, c

\* whose calls are open,
LEMMA AddFresh ==
  ASSUME NEW b, NEW r, Held(b, Message), Base(b.messages, r),
         NEW m \in Message, MessageInv(m, r), m.role # "tool",
         NEW n \in Nat, Fresh(b.messages, r, n, {}), m.run = r,
         NEW n2 \in Nat, n <= n2, ToSet(m.calls) \subseteq {r} \X ((n + 1)..n2)
  PROVE  Fresh(Added(b, m, MaxTokens).messages, r, n2, ToSet(m.calls))
<1> DEFINE w == Append(b.messages, m)
<1>1. Base(w, r) /\ Fresh(w, r, n2, ToSet(m.calls))
  BY AppendBase, AppendFresh
<1>2. FromBlock(Added(b, m, MaxTokens).messages, w)
  BY AddIsSuffix
<1> HIDE DEF w
<1> QED BY <1>1, <1>2, EvictFresh

\* and a result, which closes its call.
LEMMA AddResult ==
  ASSUME NEW b, NEW r, NEW es, NEW over, Sound(b, r, es, over), r \notin over,
         NEW n \in Nat, NEW open, Fresh(b.messages, r, n, open),
         NEW m \in Message, m.role = "tool", m.calls = <<>>, m.run = r, m.ref \in open
  PROVE  LET c == Added(b, m, MaxTokens)
         IN  /\ Sound(c, r, es, over) /\ c.messages # <<>>
             /\ Fresh(c.messages, r, n, open \ {m.ref})
<1> DEFINE w == Append(b.messages, m)
           c == Added(b, m, MaxTokens)
<1>1. Base(w, r) /\ Fresh(w, r, n, open \ {m.ref})
  BY AppendResult DEF Sound
<1>2. Announced(w, es, over)
  <2>1. b.messages \in Seq(Message) /\ Announced(b.messages, es, over) /\ ~IsAnswer(m)
    BY DEF Sound, Base, IsAnswer
  <2> QED BY <2>1, AppendAnnounced
<1>3. Held(c, Message) /\ FromBlock(c.messages, w)
  BY AddIsSuffix DEF Sound
<1> HIDE DEF c, w
<1>4. Base(c.messages, r) /\ c.messages # <<>> /\ Fresh(c.messages, r, n, open \ {m.ref})
  BY <1>1, <1>3, EvictBase, EvictFresh
<1>5. Announced(c.messages, es, over)
  BY <1>1, <1>2, <1>3, LeftAnnounced DEF Base
<1> QED BY <1>3, <1>4, <1>5 DEF Sound, c

\* A loop of add_message begins by forgetting what an earlier one raised.
LEMMA Calm ==
  ASSUME NEW b, Held(b, Message)
  PROVE  LET c == [b EXCEPT !.raised = FALSE]
         IN  Held(c, Message) /\ c.messages = b.messages /\ ~c.raised
<1> DEFINE c == [b EXCEPT !.raised = FALSE]
<1>1. b \in [system : {b.system}, messages : Seq(Message), total : {b.total}, raised : BOOLEAN]
  BY DEF Held
<1>2. /\ c \in [system : {b.system}, messages : Seq(Message), total : {b.total}, raised : BOOLEAN]
      /\ c.system = b.system /\ c.messages = b.messages /\ c.total = b.total /\ c.raised = FALSE
  BY <1>1
<1> HIDE DEF c
<1> QED BY <1>2 DEF Held, c

\* From place d + 1 on, ms are results of run r for open calls, each for one of its own.
Answers(ms, d, r, open) ==
  /\ \A k \in (d + 1)..Len(ms) :
       ms[k].role = "tool" /\ ms[k].calls = <<>> /\ ms[k].run = r /\ ms[k].ref \in open
  /\ \A j, k \in (d + 1)..Len(ms) : ms[j].ref = ms[k].ref => j = k

\* The open calls they do not answer.
Unanswered(ms, d, open) == {id \in open : \A k \in (d + 1)..Len(ms) : ms[k].ref # id}

\* Those stay open, unless an add_message raises.
LEMMA AddResults ==
  ASSUME NEW b, NEW r, NEW es, NEW over, r \notin over, NEW n \in Nat, NEW open,
         NEW ms \in Seq(Message), NEW h, Additions(h, b, ms, MaxTokens), NEW d \in 0..Len(ms),
         Sound(h[d], r, es, over), h[d].messages # <<>>,
         ~h[d].raised => Fresh(h[d].messages, r, n, open),
         Answers(ms, d, r, open)
  PROVE  LET c == AddedAll(b, ms, MaxTokens)
         IN  /\ Sound(c, r, es, over) /\ c.messages # <<>>
             /\ ~c.raised => Fresh(c.messages, r, n, Unanswered(ms, d, open))
<1> DEFINE Left(i) == {id \in open : \A k \in (d + 1)..(d + i) : ms[k].ref # id}
           Done(i) == /\ Sound(h[d + i], r, es, over) /\ h[d + i].messages # <<>>
                      /\ ~h[d + i].raised => Fresh(h[d + i].messages, r, n, Left(i))
           N == Len(ms) - d
           T == {i \in 0..N : Done(i)}
<1>1. N \in Nat /\ Len(ms) \in Nat /\ d \in Nat /\ d + N = Len(ms)
  OBVIOUS
<1>2. 0 \in T
  <2>1. Left(0) = open /\ d + 0 = d
    <3>1. (d + 1)..(d + 0) = {} /\ d + 0 = d
      BY <1>1
    <3> QED BY <3>1
  <2> HIDE DEF Left
  <2> QED BY <1>1, <2>1
<1>3. ASSUME NEW i \in 0..(N - 1), i \in T PROVE i + 1 \in T
  <2> DEFINE k == d + i + 1
             a == h[d + i]
             m == ms[k]
  <2>1. /\ k \in 1..Len(ms) /\ k \in (d + 1)..Len(ms) /\ k - 1 = d + i /\ d + (i + 1) = k
        /\ i + 1 \in 0..N
    <3>1. i \in Int /\ 0 <= i /\ i <= N - 1 /\ N \in Int /\ d \in Int
      BY <1>1
    <3> HIDE DEF N
    <3> QED BY <1>1, <3>1
  <2>2. h[k] = OneMore(a, m, MaxTokens)
    BY <2>1 DEF Additions
  <2>3. m \in Message /\ m.role = "tool" /\ m.calls = <<>> /\ m.run = r /\ m.ref \in open
    BY <2>1 DEF Answers
  <2>4. m.ref \in Left(i)
    <3>1. \A j \in (d + 1)..(d + i) : j \in (d + 1)..Len(ms) /\ j # k
      <4>1. k \in Int /\ d + i = k - 1 /\ k <= Len(ms) /\ Len(ms) \in Int /\ d \in Int
        BY <1>1, <2>1
      <4> HIDE DEF k, N
      <4>2. ASSUME NEW j \in (d + 1)..(d + i) PROVE j \in (d + 1)..Len(ms) /\ j # k
        <5>1. j \in Int /\ d + 1 <= j /\ j <= k - 1
          BY <4>1
        <5> QED BY <4>1, <5>1
      <4> QED BY <4>2
    <3>2. \A j \in (d + 1)..Len(ms) : ms[j].ref = ms[k].ref => j = k
      BY <2>1 DEF Answers
    <3> HIDE DEF k
    <3>3. \A j \in (d + 1)..(d + i) : ms[j].ref # ms[k].ref
      BY <3>1, <3>2
    <3> QED BY <2>3, <3>3
  <2>5. Left(i + 1) = Left(i) \ {m.ref}
    <3>1. \A j : j \in (d + 1)..(d + (i + 1)) <=> j \in (d + 1)..(d + i) \/ j = k
      BY <1>1, <2>1
    <3> QED BY <3>1
  <2>6. Done(i)
    BY <1>3
  <2>7. Done(i + 1)
    <3> HIDE DEF Left, k, a, m
    <3>1. CASE a.raised
      <4>1. h[d + (i + 1)] = a
        BY <2>1, <2>2, <3>1 DEF OneMore
      <4> QED BY <2>6, <3>1, <4>1 DEF a
    <3>2. CASE ~a.raised
      <4>1. h[d + (i + 1)] = Added(a, m, MaxTokens)
        BY <2>1, <2>2, <3>2 DEF OneMore
      <4>2. Sound(a, r, es, over) /\ Fresh(a.messages, r, n, Left(i))
        BY <2>6, <3>2 DEF a
      <4> DEFINE c == Added(a, m, MaxTokens)
      <4>3. /\ Sound(c, r, es, over) /\ c.messages # <<>>
            /\ Fresh(c.messages, r, n, Left(i) \ {m.ref})
        BY <2>3, <2>4, <4>2, AddResult
      <4> HIDE DEF c
      <4> QED BY <2>5, <4>1, <4>3 DEF c
    <3> QED BY <3>1, <3>2
  <2> HIDE DEF Done
  <2> QED BY <2>1, <2>7
<1> HIDE DEF T, Done, N
<1>4. N \in T
  <2>1. N \in Nat /\ 0 \in T /\ \A i \in 0..(N - 1) : i \in T => i + 1 \in T
    BY <1>1, <1>2, <1>3
  <2>2. \A i \in 0..N : i \in T
    BY <2>1, Induction
  <2> QED BY <2>1, <2>2
<1>5. Done(N)
  BY <1>4 DEF T
<1>6. Left(N) = Unanswered(ms, d, open)
  BY <1>1 DEF Unanswered
<1> HIDE DEF Left
<1> QED BY <1>1, <1>5, <1>6 DEF Done, Additions
-----------------------------------------------------------------------------
(* The invariant of a session *)

USE DEF window

\* The calls being executed.
PendingIds == {pending[k].id : k \in DOMAIN pending}

\* The runs whose last message is in memory: the current one too if it raised.
Over == {r \in 1..run : r < run \/ ending = "raised"}

\* What the program counter says of the other variables.
ControlInv ==
  /\ run = 0 => pc = "idle"
  /\ run = 0 <=> window = <<>>
  /\ pc # "idle" => ending = "none"
  /\ status = "finished" => pc = "idle"
  /\ pc \in {"planning", "routing", "llm", "critic"} => steps < MaxSteps
  /\ pc = "tools" => steps <= MaxSteps /\ Len(pending) \in 1..MaxCalls
  /\ pc # "tools" => pending = <<>>
  /\ pc = "critic" => candidate \in {run} \X Nat
  /\ \A j, k \in DOMAIN pending : pending[j].id = pending[k].id => j = k

\* Each event is of a run that has ended.
EventsInv == \A e \in ToSet(events) : e.run <= run /\ (pc # "idle" => e.run # run)

\* The window between runs and while one goes on.
WindowInv ==
  /\ Sound(memory, run, events, Over)
  /\ pc # "idle" => Fresh(window, run, Len(history), PendingIds)

\* The inductive invariant of the session.
SessionInv == TypeOK /\ ControlInv /\ EventsInv /\ WindowInv /\ FinishedHasAnswer

\* A message without calls.
LEMMA TextMessage ==
  ASSUME NEW role \in {"system", "user", "assistant", "tool"}, NEW r \in 1..MaxRuns,
         NEW ref \in Ref, NEW size \in Nat
  PROVE  /\ Text(role, r, ref, size) \in Message
         /\ Text(role, r, ref, size).role = role /\ Text(role, r, ref, size).run = r
         /\ Text(role, r, ref, size).ref = ref /\ Text(role, r, ref, size).calls = <<>>
         /\ ToSet(Text(role, r, ref, size).calls) = {}
BY DEF Text, Message, ToSet
-----------------------------------------------------------------------------
(* The steps of a run *)

\* What the terminal event of a run says.
Event == [run : 1..MaxRuns, type : {"RUN_FINISH", "RUN_ERROR"}, final : Ref]

\* RunStatus.
Status == {"pending", "running", "awaiting_tool", "finished", "failed", "canceled", "max_steps",
           "loop_detected", "validation_failed", "reflection_limit"}

\* A step within a run: the counters stay numbers, the history grows.
Within ==
  /\ UNCHANGED <<pattern, run>>
  /\ steps' \in Nat /\ history' \in Seq(Signature)
  /\ validationRounds' \in Nat /\ toolErrorRounds' \in Nat /\ revisions' \in Nat
  /\ Held(memory', Message) /\ Base(window', run) /\ window' # <<>>

\* The elements of a sequence.
LEMMA ElementsOfSeq ==
  ASSUME NEW S, NEW list \in Seq(S)
  PROVE  ToSet(list) \subseteq S /\ (list # <<>> => Last(list) \in S)
BY DEF ToSet, Last

\* What the invariant says while a run goes on.
LEMMA WithinFacts ==
  ASSUME SessionInv, pc # "idle"
  PROVE  /\ run \in 1..MaxRuns /\ run \in Nat /\ run # 0 /\ MaxRuns \in Nat
         /\ Sound(memory, run, events, Over) /\ Held(memory, Message)
         /\ window \in Seq(Message) /\ window # <<>> /\ Base(window, run)
         /\ Fresh(window, run, Len(history), PendingIds) /\ Announced(window, events, Over)
         /\ Len(history) \in Nat /\ steps \in Nat
         /\ ToSet(events) \subseteq Event /\ events \in Seq(Event)
         /\ run \notin Over /\ Over = {r \in 1..run : r < run}
         /\ \A e \in ToSet(events) : e.run # run
<1>1. ToSet(events) \subseteq Event /\ events \in Seq(Event)
  BY ElementsOfSeq DEF Event, SessionInv, TypeOK
<1>2. Over = {r \in 1..run : r < run}
  BY DEF Over, SessionInv, ControlInv
<1> QED BY <1>1, <1>2, AgentAssumption
        DEF SessionInv, TypeOK, ControlInv, EventsInv, WindowInv, Sound

\* The end of a run announces what was announced.
LEMMA EndAnnounces ==
  ASSUME SessionInv, pc # "idle", UNCHANGED run, NEW s, NEW how, End(s, how),
         Announced(window', events, Over)
  PROVE  Announced(window', events', Over')
<1>1. /\ run \in 1..MaxRuns /\ events \in Seq(Event)
      /\ run \notin Over /\ Over = {r \in 1..run : r < run}
  BY WithinFacts
<1>2. Over \subseteq Over'
  BY <1>1 DEF Over
<1> DEFINE e == TerminalEvent(s)
<1>3. events' = IF how = "raised" THEN events ELSE Append(events, e)
  BY DEF End
<1>4. e.run = run
  BY DEF TerminalEvent
<1> HIDE DEF e
<1>5. Announced(window', Append(events, e), Over)
  BY <1>1, <1>4, MoreAnnounced
<1> QED BY <1>2, <1>3, <1>5, MoreOver

\* The step that ends a run.
LEMMA SessionEnds ==
  ASSUME SessionInv, pc # "idle", Within, NEW s \in Status,
         NEW how \in {"returned", "cancelled", "raised"}, End(s, how),
         Announced(window', events', Over'),
         s = "finished" =>
           /\ how # "raised"
           /\ Last(window').role = "assistant" /\ Last(window').run = run
           /\ Last(window').ref # None
  PROVE  SessionInv'
<1>1. /\ run \in 1..MaxRuns /\ run # 0 /\ run \in Nat
      /\ ToSet(events) \subseteq Event
      /\ events \in Seq(Event)
  BY WithinFacts
<1>2. Held(memory', Message) /\ window' \in Seq(Message) /\ window' # <<>> /\ Base(window', run)
  BY DEF Within, Base
<1>3. Last(window') \in Message /\ Last(window').ref \in Ref
  <2>1. Last(window') \in Message
    BY <1>2, ElementsOfSeq
  <2> QED BY <2>1 DEF Message
<1> DEFINE e == TerminalEvent(s)
<1>4. /\ e \in Event
      /\ e.run = run
      /\ s = "finished" /\ Last(window').role = "assistant" => e.final = Last(window').ref
  BY <1>1, <1>3 DEF Event, TerminalEvent, Ref
<1>5. events' = IF how = "raised" THEN events ELSE Append(events, e)
  BY DEF End
<1> HIDE DEF e
<1>6. /\ events' \in Seq(Event)
      /\ ToSet(events') \subseteq ToSet(events) \cup {e}
      /\ how # "raised" => Last(events') = e
  <2>1. CASE how = "raised"
    BY <1>1, <1>5, <2>1
  <2>2. CASE how # "raised"
    <3>1. events' = Append(events, e)
      BY <1>5, <2>2
    <3> QED BY <1>1, <1>4, <2>2, <3>1, AppendProperties DEF ToSet, Last
  <2> QED BY <2>1, <2>2
<1>7. /\ status' = s /\ pc' = "idle" /\ ending' = how
      /\ routed' = {} /\ pending' = <<>> /\ candidate' = None /\ revision' = None
  BY DEF End
<1>8. TypeOK'
  <2>1. candidate' \in Ref /\ revision' \in Ref /\ memory'.raised \in BOOLEAN
    BY <1>2, <1>7 DEF Ref, Held
  <2> QED BY <1>2, <1>6, <1>7, <2>1 DEF Event, Within, SessionInv, TypeOK, Status, Ref
<1>9. ControlInv'
  BY <1>1, <1>2, <1>7 DEF Within, SessionInv, ControlInv
<1>10. EventsInv'
  BY <1>1, <1>4, <1>6, <1>7 DEF Within, SessionInv, EventsInv
<1>11. WindowInv'
  BY <1>2, <1>7 DEF Within, WindowInv, Sound
<1>12. FinishedHasAnswer'
  BY <1>4, <1>6, <1>7 DEF Within, FinishedHasAnswer
<1> QED BY <1>8, <1>9, <1>10, <1>11, <1>12 DEF SessionInv

\* It ends without an answer, or it raises.
LEMMA SessionStops ==
  ASSUME SessionInv, pc # "idle", Within, NEW s \in Status \ {"finished"},
         NEW how \in {"returned", "cancelled", "raised"}, End(s, how),
         Announced(window', events, Over)
  PROVE  SessionInv'
<1>1. Announced(window', events', Over')
  BY EndAnnounces DEF Within
<1> QED BY <1>1, SessionEnds

\* The step that ends a round.
LEMMA SessionGoesOn ==
  ASSUME SessionInv, pc # "idle", Within, NEW kept \in Ref, NextRound(kept),
         Fresh(window', run, Len(history'), {}), Announced(window', events, Over)
  PROVE  SessionInv'
<1>1. CASE steps' >= MaxSteps
  <2>1. End("max_steps", "returned")
    BY <1>1 DEF NextRound
  <2>2. "max_steps" \in Status \ {"finished"}
    BY DEF Status
  <2> QED BY <2>1, <2>2, SessionStops
<1>2. CASE ~(steps' >= MaxSteps)
  <2>1. /\ status' = "running" /\ pc' = "routing" /\ UNCHANGED <<ending, events>>
        /\ routed' = {} /\ pending' = <<>> /\ candidate' = None /\ revision' = kept
        /\ steps' < MaxSteps
    BY <1>2, AgentAssumption DEF NextRound, Within
  <2>2. /\ run # 0 /\ window' \in Seq(Message) /\ UNCHANGED run
        /\ Held(memory', Message) /\ memory'.raised \in BOOLEAN
    BY WithinFacts DEF Within, Base, Held
  <2>3. TypeOK'
    <3>1. candidate' \in Ref /\ pending' \in Seq([id : Ref, signature : Signature])
      BY <2>1 DEF Ref
    <3> QED BY <2>1, <2>2, <3>1 DEF Within, SessionInv, TypeOK, Await
  <2>4. ControlInv'
    BY <2>1, <2>2 DEF Within, SessionInv, ControlInv
  <2>5. EventsInv'
    BY <2>1, <2>2 DEF SessionInv, EventsInv
  <2>6. WindowInv'
    <3>1. PendingIds' = {} /\ Over' = Over
      BY <2>1, <2>2 DEF PendingIds, Over
    <3> QED BY <2>1, <2>2, <3>1 DEF Within, WindowInv, Sound
  <2>7. FinishedHasAnswer'
    BY <2>1 DEF FinishedHasAnswer
  <2> QED BY <2>3, <2>4, <2>5, <2>6, <2>7 DEF SessionInv
<1> QED BY <1>1, <1>2

\* A session starts empty.
LEMMA SessionInit == Init => SessionInv
<1> SUFFICES ASSUME Init PROVE SessionInv
  OBVIOUS
<1>1. /\ memory = [system |-> 0, messages |-> <<>>, total |-> 0, raised |-> FALSE]
      /\ window = <<>> /\ events = <<>> /\ pending = <<>> /\ run = 0
      /\ pc = "idle" /\ status = "pending"
  BY DEF Init, NewBuffer
<1>2. DOMAIN <<>> = {} /\ \A S : <<>> \in Seq(S)
  OBVIOUS
<1>3. TypeOK
  <2>1. memory.messages \in Seq(Message) /\ memory.raised \in BOOLEAN
    BY <1>1, <1>2
  <2>2. /\ run \in 0..MaxRuns /\ history \in Seq(Signature)
        /\ pending \in Seq([id : Ref, signature : Signature])
        /\ events \in Seq([run : 1..MaxRuns, type : {"RUN_FINISH", "RUN_ERROR"}, final : Ref])
        /\ candidate \in Ref /\ revision \in Ref
    BY <1>1, <1>2, AgentAssumption DEF Init, Ref
  <2> QED BY <1>1, <2>1, <2>2 DEF Init, TypeOK
<1>4. ControlInv
  BY <1>1 DEF ControlInv
<1>5. EventsInv
  BY <1>1 DEF EventsInv, ToSet
<1>6. WindowInv
  <2>1. Held(memory, Message)
    BY <1>1, <1>2 DEF Held
  <2>2. Base(window, run) /\ Announced(window, events, Over)
    BY <1>1, <1>2 DEF Base, Paired, Announced
  <2> QED BY <1>1, <2>1, <2>2 DEF WindowInv, Sound
<1>7. FinishedHasAnswer
  BY <1>1 DEF FinishedHasAnswer
<1> QED BY <1>3, <1>4, <1>5, <1>6, <1>7 DEF SessionInv

\* No message belongs to the next run yet.
LEMMA NextRunFresh ==
  ASSUME NEW w, NEW r \in Nat, Base(w, r)
  PROVE  Base(w, r + 1) /\ Fresh(w, r + 1, 0, {})
<1>1. w \in Seq(Message) /\ \A i \in DOMAIN w : w[i] \in Message /\ MessageInv(w[i], r)
  BY DEF Base
<1>2. \A i \in DOMAIN w : w[i].run \in Int /\ w[i].run <= r
  BY <1>1, AgentAssumption DEF Message, MessageInv
<1>3. \A i \in DOMAIN w : w[i].run <= r + 1 /\ w[i].run # r + 1
  BY <1>2
<1>4. Base(w, r + 1)
  BY <1>3 DEF Base, MessageInv
<1> QED BY <1>3, <1>4 DEF Fresh

\* The messages a run begins with, as far as they are added.
LEMMA OpeningMessages ==
  ASSUME NEW b, NEW r \in 1..MaxRuns, NEW es, NEW over, r \notin over, Sound(b, r, es, over),
         Fresh(b.messages, r, 0, {}), NEW ms \in Seq(Message), ms # <<>>,
         \A k \in 1..Len(ms) : /\ ms[k].role \in {"system", "user"} /\ ms[k].run = r
                               /\ ms[k].ref = None /\ ms[k].calls = <<>>
  PROVE  LET c == AddedAll(b, ms, MaxTokens)
         IN  Sound(c, r, es, over) /\ c.messages # <<>> /\ Fresh(c.messages, r, 0, {})
<1>1. Len(ms) \in Nat \ {0}
  OBVIOUS
<1>2. PICK h : Additions(h, b, ms, MaxTokens)
  BY <1>1, AdditionsExist
<1> DEFINE Done(n) == /\ Sound(h[n], r, es, over) /\ Fresh(h[n].messages, r, 0, {})
                      /\ h[n].messages = <<>> => n = 0 /\ ~h[n].raised
           T == {n \in 0..Len(ms) : Done(n)}
<1>3. 0 \in T
  <2>1. /\ Held(h[0], Message) /\ h[0].messages = b.messages /\ ~h[0].raised
    BY <1>2, Calm DEF Additions, Sound
  <2> QED BY <1>1, <2>1 DEF Sound
<1>4. ASSUME NEW n \in 0..(Len(ms) - 1), n \in T PROVE n + 1 \in T
  <2> DEFINE a == h[n]
             m == ms[n + 1]
             c == Added(a, m, MaxTokens)
  <2>1. n + 1 \in 1..Len(ms) /\ n + 1 \in 0..Len(ms) /\ h[n + 1] = OneMore(a, m, MaxTokens)
    <3>1. n + 1 \in 1..Len(ms) /\ (n + 1) - 1 = n
      BY <1>1
    <3> QED BY <1>1, <1>2, <3>1 DEF Additions
  <2>2. /\ m \in Message /\ m.role \in {"system", "user"} /\ m.run = r /\ m.ref = None
        /\ m.calls = <<>> /\ ToSet(m.calls) = {}
    BY <2>1 DEF ToSet
  <2>3. Done(n)
    BY <1>4
  <2>4. CASE a.raised
    <3>1. h[n + 1] = a
      BY <2>1, <2>4 DEF OneMore
    <3> QED BY <2>1, <2>3, <2>4, <3>1
  <2>5. CASE ~a.raised
    <3> HIDE DEF a, m
    <3>1. h[n + 1] = c
      BY <2>1, <2>5 DEF OneMore
    <3>2. MessageInv(m, r) /\ m.role # "tool" /\ ~IsAnswer(m)
      <4>1. r <= r
        BY AgentAssumption
      <4> QED BY <2>2, <4>1 DEF MessageInv, IsAnswer
    <3>3. Sound(a, r, es, over) /\ Fresh(a.messages, r, 0, {})
      BY <2>3 DEF a
    <3>4. Sound(c, r, es, over) /\ c.messages # <<>>
      BY <2>2, <3>2, <3>3, AddSound
    <3>5. Fresh(c.messages, r, 0, {})
      <4> DEFINE z == 0
      <4>1. /\ z \in Nat /\ z <= z /\ Fresh(a.messages, r, z, {})
            /\ ToSet(m.calls) \subseteq {r} \X ((z + 1)..z)
            /\ Held(a, Message) /\ Base(a.messages, r)
        BY <2>2, <3>3 DEF Sound
      <4> HIDE DEF z, c
      <4>2. Fresh(Added(a, m, MaxTokens).messages, r, z, ToSet(m.calls))
        BY <2>2, <3>2, <4>1, AddFresh
      <4> QED BY <2>2, <4>2 DEF z, c
    <3> HIDE DEF c
    <3> QED BY <2>1, <3>1, <3>4, <3>5
  <2> QED BY <2>4, <2>5
<1> HIDE DEF T
<1>5. Len(ms) \in T
  <2>1. \A n \in 0..Len(ms) : n \in T
    BY <1>1, <1>3, <1>4, Induction
  <2> QED BY <1>1, <2>1
<1> QED BY <1>1, <1>2, <1>5 DEF T, Additions

\* A run starts with its user message, the first one with the system prompt.
LEMMA SessionStarts ==
  ASSUME SessionInv, NEW size \in Size, Start(size)
  PROVE  SessionInv'
<1>1. /\ pc = "idle" /\ run < MaxRuns /\ run' = run + 1
      /\ steps' = 0 /\ history' = <<>>
      /\ validationRounds' = 0 /\ toolErrorRounds' = 0 /\ revisions' = 0
      /\ UNCHANGED <<pattern, locals, events>>
  BY DEF Start
<1>2. \/ pc' = "idle" /\ status' = "pending" /\ ending' = "raised"
      \/ pc' \in {"planning", "routing"} /\ status' = "running" /\ ending' = "none"
  BY DEF Start
<1>3. /\ run \in Nat /\ run' \in 1..MaxRuns /\ run' # 0 /\ MaxRuns \in Nat
      /\ PromptSize \in Nat /\ size \in Nat /\ MaxSteps > 0
  BY <1>1, AgentAssumption DEF SessionInv, TypeOK
<1> DEFINE input  == Text("user", run', None, size)
           prompt == Text("system", run', None, PromptSize)
           ms     == IF window = <<>> THEN <<prompt, input>> ELSE <<input>>
<1>4. memory' = AddedAll(memory, ms, MaxTokens)
  BY DEF Start, Adds
<1>5. /\ prompt \in Message /\ prompt.role = "system" /\ prompt.run = run'
      /\ prompt.ref = None /\ prompt.calls = <<>>
      /\ input \in Message /\ input.role = "user" /\ input.run = run'
      /\ input.ref = None /\ input.calls = <<>>
  <2>1. None \in Ref
    BY DEF Ref
  <2> QED BY <1>3, <2>1, TextMessage
<1> HIDE DEF input, prompt
<1>6. /\ ms \in Seq(Message) /\ ms # <<>>
      /\ \A k \in 1..Len(ms) : /\ ms[k].role \in {"system", "user"} /\ ms[k].run = run'
                               /\ ms[k].ref = None /\ ms[k].calls = <<>>
  BY <1>5
<1> HIDE DEF ms
<1>7. run' \notin Over /\ Over \subseteq Over'
  BY <1>1, <1>3 DEF Over
<1>8. Sound(memory, run', events, Over) /\ Fresh(window, run', 0, {})
  <2>1. Sound(memory, run, events, Over)
    BY DEF SessionInv, WindowInv
  <2> QED BY <1>1, <1>3, <2>1, NextRunFresh DEF Sound
<1>9. /\ Sound(memory', run', events, Over) /\ window' # <<>> /\ Fresh(window', run', 0, {})
  BY <1>3, <1>4, <1>6, <1>7, <1>8, OpeningMessages
<1>10. pending' = <<>> /\ PendingIds' = {} /\ Len(history') = 0
  BY <1>1 DEF locals, PendingIds, SessionInv, ControlInv
<1>11. TypeOK'
  <2>1. window' \in Seq(Message) /\ memory'.raised \in BOOLEAN
    BY <1>9 DEF Sound, Held
  <2> QED BY <1>1, <1>2, <1>3, <2>1 DEF locals, SessionInv, TypeOK, Await
<1>12. ControlInv'
  BY <1>1, <1>2, <1>3, <1>9, <1>10 DEF SessionInv, ControlInv
<1>13. EventsInv'
  <2>1. \A e \in ToSet(events) : e.run \in Int
    <3>1. ToSet(events) \subseteq Event
      BY ElementsOfSeq DEF Event, SessionInv, TypeOK
    <3> QED BY <1>3, <3>1 DEF Event
  <2> QED BY <1>1, <1>3, <2>1 DEF SessionInv, EventsInv
<1>14. WindowInv'
  <2>1. Announced(window', events', Over')
    BY <1>1, <1>7, <1>9, MoreOver DEF Sound
  <2> QED BY <1>9, <1>10, <2>1 DEF WindowInv, Sound
<1>15. FinishedHasAnswer'
  BY <1>2 DEF FinishedHasAnswer
<1> QED BY <1>11, <1>12, <1>13, <1>14, <1>15 DEF SessionInv

\* The planner and the router touch neither window nor events.
LEMMA SessionPlanned == ASSUME SessionInv, Planned PROVE SessionInv'
<1>1. /\ pc = "planning" /\ pc' = "routing"
      /\ UNCHANGED <<pattern, memory, run, status, steps, history, counters, locals, ending,
                     events>>
  BY DEF Planned
<1>2. TypeOK'
  BY <1>1 DEF counters, locals, SessionInv, TypeOK, Await
<1>3. ControlInv'
  BY <1>1 DEF locals, SessionInv, ControlInv
<1>4. EventsInv' /\ WindowInv' /\ FinishedHasAnswer'
  BY <1>1 DEF locals, SessionInv, EventsInv, WindowInv, PendingIds, Over, FinishedHasAnswer
<1> QED BY <1>2, <1>3, <1>4 DEF SessionInv

\* Nor does the router.
LEMMA SessionRouted == ASSUME SessionInv, Routed PROVE SessionInv'
<1>1. /\ pc = "routing" /\ pc' = "llm" /\ routed' \in SUBSET Signature
      /\ UNCHANGED <<pattern, memory, run, status, steps, history, counters, pending, candidate,
                     revision, ending, events>>
  BY DEF Routed
<1>2. TypeOK'
  BY <1>1 DEF counters, SessionInv, TypeOK, Await
<1>3. ControlInv'
  BY <1>1 DEF SessionInv, ControlInv
<1>4. EventsInv' /\ WindowInv' /\ FinishedHasAnswer'
  BY <1>1 DEF SessionInv, EventsInv, WindowInv, PendingIds, Over, FinishedHasAnswer
<1> QED BY <1>2, <1>3, <1>4 DEF SessionInv

\* Errors and cancellations end the run where it is.
LEMMA SessionInterrupted == ASSUME SessionInv, Fails \/ Raises \/ Cancel PROVE SessionInv'
<1>1. pc # "idle" /\ Interrupted
  BY DEF Fails, Raises, Cancel, Await
<1>2. Within /\ Announced(window', events, Over)
  BY <1>1, WithinFacts DEF Interrupted, Within, counters, SessionInv, TypeOK
<1>3. End("failed", "returned") \/ End("failed", "raised") \/ End("canceled", "cancelled")
  BY DEF Fails, Raises, Cancel
<1>4. {"failed", "canceled"} \subseteq Status \ {"finished"}
  BY DEF Status
<1> QED BY <1>1, <1>2, <1>3, <1>4, SessionStops

\* The answer of a run enters memory. It is announced, or the run ends in silence.
LEMMA SessionConcludes ==
  ASSUME SessionInv, pc # "idle", NEW ref \in {run} \X Nat, NEW size \in Nat,
         Conclude(ref, size), steps' \in Nat, UNCHANGED <<pattern, run, history, counters>>
  PROVE  SessionInv'
<1> DEFINE m == Text("assistant", run, ref, size)
           b == [memory EXCEPT !.raised = FALSE]
<1>1. /\ run \in 1..MaxRuns /\ run \in Nat /\ Sound(memory, run, events, Over)
      /\ events \in Seq(Event) /\ run \notin Over /\ Over = {r \in 1..run : r < run}
      /\ \A e \in ToSet(events) : e.run # run
  BY WithinFacts
<1>2. ref \in Ref /\ ref # None
  <2>1. PICK k \in Nat : ref = <<run, k>>
    OBVIOUS
  <2>2. run \in 1..MaxRuns
    BY <1>1
  <2> QED BY <2>1, <2>2 DEF Ref, None
<1>3. /\ m \in Message /\ m.role = "assistant" /\ m.run = run /\ m.ref = ref /\ m.calls = <<>>
      /\ ToSet(m.calls) = {}
  BY <1>1, <1>2, TextMessage
<1> DEFINE ms == <<m>>
<1>4. memory' = AddedAll(memory, ms, MaxTokens)
  BY DEF Conclude, Adds
<1> HIDE DEF m
<1>5. MessageInv(m, run) /\ m.role # "tool"
  BY <1>1, <1>3 DEF MessageInv
<1>6. Sound(b, run, events, Over) /\ ~b.raised
  BY <1>1, Calm DEF Sound
<1>7. memory' = Added(b, m, MaxTokens)
  <2>1. Len(ms) = 1 /\ ms[1] = m
    OBVIOUS
  <2>2. PICK h : Additions(h, memory, ms, MaxTokens)
    BY <2>1, AdditionsExist
  <2> HIDE DEF b, ms
  <2>3. h[0] = b /\ h[1] = OneMore(h[0], m, MaxTokens) /\ AddedAll(memory, ms, MaxTokens) = h[1]
    <3>1. 1 \in 1..Len(ms) /\ 1 - 1 = 0
      BY <2>1
    <3> QED BY <2>1, <2>2, <3>1 DEF Additions, b
  <2> QED BY <1>4, <1>6, <2>3 DEF OneMore
<1> HIDE DEF b, ms
<1>8. window' # <<>> /\ Last(window') = m
  BY <1>3, <1>6, <1>7, AddKeepsNewest DEF Sound
<1>9. ASSUME NEW es, Announced(b.messages, es, Over), HandedOut(m, es) \/ Silent(m, es)
      PROVE  Sound(memory', run, es, IF HandedOut(m, es) THEN Over ELSE Over \cup {run})
  <2>1. Sound(b, run, es, Over)
    BY <1>6, <1>9 DEF Sound
  <2>2. CASE HandedOut(m, es)
    BY <1>1, <1>3, <1>5, <1>7, <2>1, <2>2, AddSound
  <2>3. CASE ~HandedOut(m, es)
    <3>1. Over \subseteq Over \cup {run} /\ m.run \in Over \cup {run} /\ m.run \notin Over
      BY <1>1, <1>3
    <3>2. Sound(memory', run, es, Over \cup {run})
      BY <1>3, <1>5, <1>7, <1>9, <2>1, <2>3, <3>1, AddSound
    <3> QED BY <2>3, <3>2
  <2> QED BY <2>2, <2>3
<1>10. Announced(b.messages, events, Over) /\ Silent(m, events)
  BY <1>1, <1>3, <1>6 DEF Sound, Silent
<1>11. Within
  <2>1. Held(memory', Message) /\ Base(window', run)
    BY <1>9, <1>10 DEF Sound
  <2> QED BY <1>8, <2>1 DEF Within, counters, SessionInv, TypeOK
<1>12. CASE End(status, "raised")
  <2>1. Announced(window', events, Over \cup {run})
    <3>1. ~HandedOut(m, events)
      BY <1>10 DEF HandedOut, Silent
    <3> QED BY <1>9, <1>10, <3>1 DEF Sound
  <2>2. events' = events /\ Over' = Over \cup {run}
    BY <1>1, <1>12 DEF End, Over
  <2>3. status \in Status /\ status # "finished"
    BY DEF SessionInv, TypeOK, ControlInv, Status
  <2> QED BY <1>11, <1>12, <2>1, <2>2, <2>3, SessionEnds
<1>13. CASE End("finished", "returned")
  <2> DEFINE e == TerminalEvent("finished")
  <2>1. e.run = run /\ e.type = "RUN_FINISH" /\ e.final = ref
    BY <1>3, <1>8 DEF TerminalEvent
  <2>2. events' = Append(events, e) /\ Over' = Over
    <3>1. ending' = "returned"
      BY <1>13 DEF End
    <3> QED BY <1>1, <1>13, <3>1 DEF End, Over
  <2> HIDE DEF e
  <2>3. Announced(b.messages, events', Over)
    BY <1>1, <1>10, <2>1, <2>2, MoreAnnounced
  <2>4. HandedOut(m, events')
    <3>1. Len(events') \in DOMAIN events' /\ events'[Len(events')] = e
      BY <1>1, <2>2
    <3> QED BY <1>3, <2>1, <3>1 DEF HandedOut, ToSet
  <2>5. Announced(window', events', Over')
    BY <1>9, <2>2, <2>3, <2>4 DEF Sound
  <2>6. "finished" \in Status
    BY DEF Status
  <2> QED BY <1>2, <1>3, <1>8, <1>11, <1>13, <2>5, <2>6, SessionEnds
<1> QED BY <1>12, <1>13 DEF Conclude, Escapes

\* A tool call.
Call == [id : Ref, signature : Signature]

\* No id occurs twice.
DistinctIds(calls) == \A j, k \in DOMAIN calls : calls[j].id = calls[k].id => j = k

\* The ids of a list of calls.
Ids(calls) == {calls[k].id : k \in DOMAIN calls}

\* The calls of a message continue the numbering of the run.
LEMMA CallsFacts ==
  ASSUME NEW batch \in Batch, run \in 1..MaxRuns, Len(history) \in Nat
  PROVE  /\ batch \in Seq(Signature) /\ Len(batch) \in 1..MaxCalls
         /\ Calls(batch) \in Seq(Call) /\ Len(Calls(batch)) = Len(batch)
         /\ DOMAIN Calls(batch) = 1..Len(batch)
         /\ DistinctIds(Calls(batch))
         /\ Ids(Calls(batch)) \subseteq {run} \X ((Len(history) + 1)..(Len(history) + Len(batch)))
<1>1. PICK n \in 1..MaxCalls : batch \in [1..n -> Signature]
  BY DEF Batch
<1>2. batch \in Seq(Signature) /\ Len(batch) = n /\ n \in Nat /\ DOMAIN batch = 1..n
  BY <1>1, AgentAssumption
<1> DEFINE c == Calls(batch)
           call(i) == [id |-> <<run, Len(history) + i>>, signature |-> batch[i]]
<1>3. c = [i \in 1..n |-> call(i)]
  BY <1>2 DEF Calls
<1>4. \A i \in 1..n : call(i) \in Call
  BY <1>1 DEF Call, Ref
<1>5. \A i \in 1..n : call(i).id = <<run, Len(history) + i>>
  OBVIOUS
<1> HIDE DEF c, call
<1>6. DOMAIN c = 1..n /\ \A i \in 1..n : c[i] = call(i)
  BY <1>3
<1>7. c \in Seq(Call) /\ Len(c) = n
  <2>1. c \in [1..n -> Call]
    BY <1>3, <1>4
  <2> QED BY <1>2, <2>1
<1>8. DistinctIds(c)
  BY <1>2, <1>5, <1>6 DEF DistinctIds
<1>9. Ids(c) \subseteq {run} \X ((Len(history) + 1)..(Len(history) + n))
  <2>1. ASSUME NEW i \in 1..n
        PROVE  c[i].id \in {run} \X ((Len(history) + 1)..(Len(history) + n))
    <3>1. Len(history) + i \in (Len(history) + 1)..(Len(history) + n)
      BY <1>2
    <3>2. c[i].id = <<run, Len(history) + i>>
      BY <1>5, <1>6
    <3> QED BY <3>1, <3>2
  <2> QED BY <1>6, <2>1 DEF Ids
<1> QED BY <1>2, <1>6, <1>7, <1>8, <1>9 DEF c

\* list holds the calls that are in T, each once.
Selects(list, calls, T) ==
  /\ list \in Seq(Call) /\ Len(list) \in 0..Len(calls) /\ DistinctIds(list)
  /\ \A k \in DOMAIN list : \E i \in DOMAIN calls : list[k] = calls[i] /\ calls[i] \in T
  /\ \A i \in DOMAIN calls : calls[i] \in T => \E k \in DOMAIN list : list[k] = calls[i]

\* What a list comprehension takes from a list of calls.
LEMMA SomeCalls ==
  ASSUME NEW calls \in Seq(Call), DistinctIds(calls), NEW T
  PROVE  Selects(Sublist(calls, T), calls, T)
<1> DEFINE list == Sublist(calls, T)
<1>1. list \in Seq(Call) /\ Picks(list, calls, T, Len(calls))
  BY SublistPicks
<1> HIDE DEF list
<1>2. /\ Len(list) \in 0..Len(calls) /\ DOMAIN list = 1..Len(list) /\ Len(list) \in Nat
      /\ DOMAIN calls = 1..Len(calls)
  BY <1>1 DEF Picks
<1>3. PICK from \in [1..Len(list) -> 1..Len(calls)] :
        /\ \A k \in 1..Len(list) : list[k] = calls[from[k]] /\ calls[from[k]] \in T
        /\ \A j, k \in 1..Len(list) : j < k => from[j] < from[k]
        /\ \A i \in 1..Len(calls) : calls[i] \in T => \E k \in 1..Len(list) : from[k] = i
  BY <1>1 DEF Picks
<1>4. \A k \in 1..Len(list) : from[k] \in 1..Len(calls)
  BY <1>3
<1>5. DistinctIds(list)
  <2> SUFFICES ASSUME NEW j \in 1..Len(list), NEW k \in 1..Len(list), list[j].id = list[k].id
               PROVE  j = k
    BY <1>2 DEF DistinctIds
  <2>1. from[j] = from[k]
    BY <1>2, <1>3, <1>4 DEF DistinctIds
  <2>2. ~(j < k) /\ ~(k < j)
    <3>1. from[j] \in Int /\ from[k] \in Int /\ ~(from[j] < from[k]) /\ ~(from[k] < from[j])
      BY <1>4, <2>1
    <3> QED BY <1>3, <3>1
  <2> QED BY <1>2, <2>2
<1>6. \A k \in 1..Len(list) : \E i \in 1..Len(calls) : list[k] = calls[i] /\ calls[i] \in T
  BY <1>3, <1>4
<1>7. \A i \in 1..Len(calls) : calls[i] \in T => \E k \in 1..Len(list) : list[k] = calls[i]
  BY <1>3
<1> QED BY <1>1, <1>2, <1>5, <1>6, <1>7 DEF Selects, list

\* The tool messages for a list of calls.
LEMMA ResultsFacts ==
  ASSUME NEW calls \in Seq(Call), Len(calls) \in 0..MaxCalls, NEW sizes \in [1..MaxCalls -> Size],
         run \in 1..MaxRuns
  PROVE  /\ Results(calls, sizes) \in Seq(Message) /\ DOMAIN Results(calls, sizes) = DOMAIN calls
         /\ \A k \in DOMAIN calls :
              /\ Results(calls, sizes)[k].role = "tool" /\ Results(calls, sizes)[k].calls = <<>>
              /\ Results(calls, sizes)[k].run = run /\ Results(calls, sizes)[k].ref = calls[k].id
<1>1. Len(calls) \in Nat /\ DOMAIN calls = 1..Len(calls) /\ MaxCalls \in Nat /\ Size \subseteq Nat
  BY AgentAssumption
<1>2. \A k \in DOMAIN calls : calls[k].id \in Ref /\ sizes[k] \in Nat
  <2>1. \A k \in DOMAIN calls : calls[k] \in Call /\ k \in 1..MaxCalls
    BY <1>1
  <2> QED BY <1>1, <2>1 DEF Call
<1> DEFINE m(k) == Text("tool", run, calls[k].id, sizes[k])
<1>3. \A k \in DOMAIN calls : /\ m(k) \in Message
                             /\ m(k).role = "tool" /\ m(k).calls = <<>>
                             /\ m(k).run = run /\ m(k).ref = calls[k].id
  BY <1>2, TextMessage
<1> DEFINE res == Results(calls, sizes)
<1>4. res = [k \in DOMAIN calls |-> m(k)]
  BY DEF Results
<1> HIDE DEF m, res
<1>5. DOMAIN res = DOMAIN calls /\ \A k \in DOMAIN calls : res[k] = m(k)
  BY <1>4
<1>6. res \in Seq(Message)
  <2>1. res \in [1..Len(calls) -> Message]
    BY <1>1, <1>3, <1>4
  <2> QED BY <1>1, <2>1
<1> QED BY <1>3, <1>5, <1>6 DEF res

\* Results that answer calls of a list, all open, leave the others open.
LEMMA ResultsRemembered ==
  ASSUME run \in 1..MaxRuns, run \notin Over, Sound(memory, run, events, Over), window # <<>>,
         NEW n \in Nat, NEW open, Fresh(window, run, n, open),
         NEW calls \in Seq(Call), Len(calls) \in 0..MaxCalls, NEW sizes \in [1..MaxCalls -> Size],
         DistinctIds(calls), Ids(calls) \subseteq open, NEW k \in 0..Len(calls)
  PROVE  LET c == Adds(SubSeq(Results(calls, sizes), 1, k)) IN
         /\ Sound(c, run, events, Over) /\ c.messages # <<>>
         /\ k = Len(calls) /\ ~c.raised => Fresh(c.messages, run, n, open \ Ids(calls))
<1> DEFINE res == Results(calls, sizes)
<1>1. /\ res \in Seq(Message) /\ DOMAIN res = DOMAIN calls
      /\ \A i \in DOMAIN calls : /\ res[i].role = "tool" /\ res[i].calls = <<>>
                               /\ res[i].run = run /\ res[i].ref = calls[i].id
  BY ResultsFacts
<1> HIDE DEF res
<1> DEFINE ms == SubSeq(res, 1, k)
<1>2. /\ ms \in Seq(Message) /\ Len(ms) = k /\ Len(ms) \in Nat /\ DOMAIN calls = 1..Len(calls)
      /\ \A i \in 1..k : i \in DOMAIN calls /\ ms[i] = res[i]
  <2>1. Len(res) = Len(calls) /\ Len(calls) \in Nat /\ k \in Nat
    BY <1>1
  <2> QED BY <1>1, <2>1
<1> HIDE DEF ms
<1>3. PICK h : Additions(h, memory, ms, MaxTokens)
  BY <1>2, AdditionsExist
<1>4. /\ Sound(h[0], run, events, Over) /\ h[0].messages # <<>>
      /\ Fresh(h[0].messages, run, n, open)
  <2>1. Held(h[0], Message) /\ h[0].messages = memory.messages
    BY <1>3, Calm DEF Additions, Sound
  <2> QED BY <2>1 DEF Sound
<1>5. \A i \in 1..Len(ms) : /\ ms[i].role = "tool" /\ ms[i].calls = <<>> /\ ms[i].run = run
                           /\ ms[i].ref \in open
  BY <1>1, <1>2 DEF Ids
<1>6. \A i, j \in 1..Len(ms) : ms[i].ref = ms[j].ref => i = j
  <2> SUFFICES ASSUME NEW i \in 1..Len(ms), NEW j \in 1..Len(ms), ms[i].ref = ms[j].ref
               PROVE  i = j
    OBVIOUS
  <2>1. i \in DOMAIN calls /\ j \in DOMAIN calls /\ ms[i] = res[i] /\ ms[j] = res[j]
    BY <1>2
  <2>2. calls[i].id = calls[j].id
    BY <1>1, <2>1
  <2> QED BY <2>1, <2>2 DEF DistinctIds
<1> DEFINE c == AddedAll(memory, ms, MaxTokens)
           left == Unanswered(ms, 0, open)
<1>7. /\ Sound(c, run, events, Over) /\ c.messages # <<>>
      /\ ~c.raised => Fresh(c.messages, run, n, left)
  <2>1. Answers(ms, 0, run, open)
    BY <1>5, <1>6 DEF Answers
  <2>2. 0 \in 0..Len(ms)
    BY <1>2
  <2> QED BY <1>2, <1>3, <1>4, <2>1, <2>2, AddResults
<1>8. k = Len(calls) => left = open \ Ids(calls)
  <2> SUFFICES ASSUME k = Len(calls) PROVE left = open \ Ids(calls)
    OBVIOUS
  <2>1. \A i \in DOMAIN calls : i \in 1..Len(ms) /\ ms[i].ref = calls[i].id
    BY <1>1, <1>2
  <2>2. \A i \in 1..Len(ms) : i \in DOMAIN calls
    BY <1>2
  <2> QED BY <2>1, <2>2 DEF Ids, Unanswered
<1> HIDE DEF c, left
<1> QED BY <1>7, <1>8 DEF c, ms, res, Adds

\* A message with calls opens them all; violations close some, the valid ones
\* stay open.
LEMMA CallsRemembered ==
  ASSUME SessionInv, pc = "llm", NEW batch \in Batch, NEW size \in Size,
         NEW sizes \in [1..MaxCalls -> Size], memory' = AddedCalls(Calls(batch), size, sizes)
  PROVE  /\ Sound(memory', run, events, Over) /\ window' # <<>>
         /\ ~memory'.raised =>
              Fresh(window', run, Len(history) + Len(batch), Ids(Accepted(Calls(batch))))
<1> DEFINE calls == Calls(batch)
           n == Len(history)
           n2 == Len(history) + Len(batch)
<1>1. /\ run \in 1..MaxRuns /\ run \in Nat /\ n \in Nat /\ size \in Nat /\ MaxCalls \in Nat
      /\ Sound(memory, run, events, Over) /\ run \notin Over
  BY WithinFacts, AgentAssumption
<1>2. Fresh(window, run, n, {})
  <2>1. PendingIds = {}
    BY DEF PendingIds, SessionInv, ControlInv
  <2> QED BY <2>1, WithinFacts
<1>3. /\ Len(batch) \in 1..MaxCalls /\ calls \in Seq(Call) /\ Len(calls) = Len(batch)
      /\ DOMAIN calls = 1..Len(batch) /\ DistinctIds(calls)
      /\ Ids(calls) \subseteq {run} \X ((n + 1)..n2)
  BY <1>1, CallsFacts
<1>4. n2 \in Nat /\ n <= n2 /\ Len(batch) \in Nat \ {0}
  BY <1>1, <1>3
<1> DEFINE asked == [i \in DOMAIN calls |-> calls[i].id]
           m == Asking(calls, size)
           bad == Violations(calls)
           good == Accepted(calls)
           res == Results(bad, sizes)
           ms == <<m>> \o res
<1>5. memory' = AddedAll(memory, ms, MaxTokens)
  BY DEF AddedCalls, Adds
<1> HIDE DEF calls, n, n2
<1>6. asked \in Seq(Ref) /\ asked # <<>> /\ ToSet(asked) = Ids(calls)
  <2>1. \A i \in DOMAIN calls : calls[i].id \in Ref
    <3>1. \A i \in DOMAIN calls : calls[i] \in Call
      BY <1>3
    <3> QED BY <3>1 DEF Call
  <2>2. asked \in [1..Len(batch) -> Ref] /\ 1 \in DOMAIN asked
    BY <1>3, <1>4, <2>1
  <2>3. ToSet(asked) = Ids(calls)
    BY DEF ToSet, Ids
  <2> HIDE DEF asked
  <2>4. asked \in Seq(Ref) /\ asked # <<>>
    BY <1>4, <2>2
  <2> QED BY <2>3, <2>4
<1>7. m = [Text("assistant", run, None, size) EXCEPT !.calls = asked]
  BY DEF Asking
<1> HIDE DEF asked, m
<1>8. /\ m \in Message /\ m.role = "assistant" /\ m.run = run /\ m.ref = None /\ m.calls = asked
      /\ ToSet(m.calls) = Ids(calls)
  <2>1. m = [role |-> "assistant", run |-> run, calls |-> asked, ref |-> None, size |-> size]
    BY <1>7 DEF Text
  <2>2. None \in Ref
    BY DEF Ref
  <2> QED BY <1>1, <1>6, <2>1, <2>2 DEF Message
<1>9. MessageInv(m, run) /\ m.role # "tool" /\ ~IsAnswer(m)
  <2>1. ToSet(m.calls) \subseteq {run} \X Nat
    <3>1. (n + 1)..n2 \subseteq Nat
      BY <1>1, <1>4
    <3> QED BY <1>3, <1>8, <3>1
  <2> QED BY <1>1, <1>6, <1>8, <2>1 DEF MessageInv, IsAnswer
<1>10. Selects(bad, calls, ToSet(calls) \ Valid(calls)) /\ Selects(good, calls, Valid(calls))
  BY <1>3, SomeCalls DEF Violations, Accepted
<1> HIDE DEF bad, good
<1>11. DistinctIds(bad) /\ bad \in Seq(Call) /\ Len(bad) \in 0..Len(calls)
  BY <1>10 DEF Selects
<1>12. Len(bad) \in 0..MaxCalls
  BY <1>1, <1>3, <1>11
<1>13. /\ res \in Seq(Message) /\ DOMAIN res = DOMAIN bad
       /\ \A i \in DOMAIN bad : /\ res[i].role = "tool" /\ res[i].calls = <<>>
                               /\ res[i].run = run /\ res[i].ref = bad[i].id
  BY <1>1, <1>11, <1>12, ResultsFacts
<1>14. Ids(bad) \subseteq Ids(calls)
  BY <1>10 DEF Selects, Ids
<1>15. Ids(calls) \ Ids(bad) = Ids(good)
  <2>1. ASSUME NEW i \in DOMAIN calls, calls[i].id \notin Ids(bad) PROVE calls[i].id \in Ids(good)
    <3>1. calls[i] \in ToSet(calls)
      BY DEF ToSet
    <3>2. calls[i] \in Valid(calls)
      BY <1>10, <2>1, <3>1 DEF Selects, Ids
    <3> QED BY <1>10, <3>2 DEF Selects, Ids
  <2>2. ASSUME NEW k \in DOMAIN good PROVE good[k].id \in Ids(calls) /\ good[k].id \notin Ids(bad)
    <3>1. PICK i \in DOMAIN calls : good[k] = calls[i] /\ calls[i] \in Valid(calls)
      BY <1>10 DEF Selects
    <3>2. ASSUME NEW b \in DOMAIN bad, bad[b].id = good[k].id PROVE FALSE
      <4>1. PICK j \in DOMAIN calls : bad[b] = calls[j] /\ calls[j] \notin Valid(calls)
        BY <1>10 DEF Selects
      <4> QED BY <1>3, <3>1, <3>2, <4>1 DEF DistinctIds
    <3> QED BY <3>1, <3>2 DEF Ids
  <2> QED BY <2>1, <2>2 DEF Ids
<1> HIDE DEF res
<1>16. /\ ms \in Seq(Message) /\ Len(ms) = 1 + Len(res) /\ Len(ms) \in Nat /\ 1 \in 1..Len(ms)
       /\ ms[1] = m /\ 1 \in 0..Len(ms)
       /\ \A k \in (1 + 1)..Len(ms) : k - 1 \in DOMAIN bad /\ ms[k] = res[k - 1]
       /\ \A i \in DOMAIN bad : i + 1 \in (1 + 1)..Len(ms) /\ ms[i + 1] = res[i]
  <2>1. <<m>> \in Seq(Message) /\ Len(<<m>>) = 1 /\ Len(res) \in Nat /\ DOMAIN bad = 1..Len(res)
    BY <1>8, <1>13
  <2> QED BY <1>13, <2>1
<1> HIDE DEF ms
<1>17. PICK h : Additions(h, memory, ms, MaxTokens)
  BY <1>16, AdditionsExist
<1>18. h[1] = Added(h[0], m, MaxTokens) /\ Sound(h[0], run, events, Over)
       /\ Fresh(h[0].messages, run, n, {})
  <2>1. Held(h[0], Message) /\ h[0].messages = memory.messages /\ ~h[0].raised
    BY <1>1, <1>17, Calm DEF Additions, Sound
  <2>2. h[1] = OneMore(h[0], m, MaxTokens)
    <3>1. 1 - 1 = 0
      OBVIOUS
    <3> QED BY <1>16, <1>17, <3>1 DEF Additions
  <2> QED BY <1>1, <1>2, <2>1, <2>2 DEF Sound, OneMore
<1>19. Sound(h[1], run, events, Over) /\ h[1].messages # <<>>
  BY <1>1, <1>8, <1>9, <1>18, AddSound
<1>20. Fresh(h[1].messages, run, n2, Ids(calls))
  <2>1. Fresh(h[1].messages, run, n2, ToSet(m.calls))
    BY <1>1, <1>3, <1>4, <1>8, <1>9, <1>18, AddFresh DEF Sound
  <2> QED BY <1>8, <2>1
<1>21. \A k \in (1 + 1)..Len(ms) : /\ ms[k].role = "tool" /\ ms[k].calls = <<>>
                                  /\ ms[k].run = run /\ ms[k].ref = bad[k - 1].id
  BY <1>13, <1>16
<1>22. Answers(ms, 1, run, Ids(calls))
  <2>1. ASSUME NEW k \in (1 + 1)..Len(ms) PROVE ms[k].ref \in Ids(calls)
    <3>1. k - 1 \in DOMAIN bad /\ ms[k].ref = bad[k - 1].id
      BY <1>16, <1>21
    <3> QED BY <1>14, <3>1 DEF Ids
  <2>2. ASSUME NEW j \in (1 + 1)..Len(ms), NEW k \in (1 + 1)..Len(ms), ms[j].ref = ms[k].ref
        PROVE  j = k
    <3>1. j - 1 = k - 1
      BY <1>11, <1>16, <1>21, <2>2 DEF DistinctIds
    <3> QED BY <3>1
  <2> QED BY <1>21, <2>1, <2>2 DEF Answers
<1>23. Unanswered(ms, 1, Ids(calls)) = Ids(good)
  <2>1. \A id : (\E k \in (1 + 1)..Len(ms) : ms[k].ref = id) <=> id \in Ids(bad)
    <3>1. ASSUME NEW k \in (1 + 1)..Len(ms) PROVE ms[k].ref \in Ids(bad)
      BY <1>16, <1>21 DEF Ids
    <3>2. ASSUME NEW i \in DOMAIN bad PROVE \E k \in (1 + 1)..Len(ms) : ms[k].ref = bad[i].id
      <4>1. i + 1 \in (1 + 1)..Len(ms) /\ ms[i + 1].ref = bad[i].id
        BY <1>13, <1>16
      <4> QED BY <4>1
    <3> QED BY <3>1, <3>2 DEF Ids
  <2> QED BY <1>15, <2>1 DEF Unanswered
<1> DEFINE c == AddedAll(memory, ms, MaxTokens)
<1>24. /\ Sound(c, run, events, Over) /\ c.messages # <<>>
       /\ ~c.raised => Fresh(c.messages, run, n2, Unanswered(ms, 1, Ids(calls)))
  BY <1>1, <1>4, <1>16, <1>17, <1>19, <1>20, <1>22, AddResults
<1> HIDE DEF c
<1>25. /\ Sound(c, run, events, Over) /\ c.messages # <<>>
       /\ ~c.raised => Fresh(c.messages, run, n2, Ids(good))
  BY <1>23, <1>24
<1> QED BY <1>5, <1>25 DEF c, good, n2, calls

\* The step of a message with tool calls.
LEMMA AskedWithin ==
  ASSUME SessionInv, NEW batch \in Batch, NEW size \in Size, NEW sizes \in [1..MaxCalls -> Size],
         Asked(batch), memory' = AddedCalls(Calls(batch), size, sizes),
         validationRounds' \in Nat, UNCHANGED toolErrorRounds
  PROVE  /\ Within /\ Announced(window', events, Over) /\ Len(history') = Len(history) + Len(batch)
         /\ ~memory'.raised => Fresh(window', run, Len(history'), Ids(Accepted(Calls(batch))))
<1>1. pc = "llm" /\ UNCHANGED <<pattern, run, revisions>> /\ steps' = steps + 1
      /\ history' = history \o batch
  BY DEF Asked
<1>2. run \in 1..MaxRuns /\ Len(history) \in Nat /\ history \in Seq(Signature)
  BY <1>1, WithinFacts DEF SessionInv, TypeOK
<1>3. batch \in Seq(Signature)
  BY <1>2, CallsFacts
<1>4. history' \in Seq(Signature) /\ Len(history') = Len(history) + Len(batch)
  BY <1>1, <1>2, <1>3
<1>5. /\ Sound(memory', run, events, Over) /\ window' # <<>>
      /\ ~memory'.raised =>
           Fresh(window', run, Len(history) + Len(batch), Ids(Accepted(Calls(batch))))
  BY <1>1, CallsRemembered
<1>6. Within
  BY <1>1, <1>4, <1>5 DEF Within, Sound, SessionInv, TypeOK
<1> QED BY <1>4, <1>5, <1>6 DEF Sound

\* The valid calls go to the executor and stay open.
LEMMA SessionExecutes ==
  ASSUME SessionInv, NEW batch \in Batch, NEW size \in Size, NEW sizes \in [1..MaxCalls -> Size],
         Execute(batch, size, sizes)
  PROVE  SessionInv'
<1> DEFINE calls == Calls(batch)
           good == Accepted(calls)
<1>1. /\ Asked(batch) /\ memory' = AddedCalls(calls, size, sizes) /\ ~memory'.raised
      /\ good # <<>> /\ validationRounds' \in {0, validationRounds + 1}
      /\ pc' = "tools" /\ status' = "awaiting_tool" /\ pending' = good /\ routed' = {}
      /\ UNCHANGED <<toolErrorRounds, candidate, revision, ending, events>>
  BY DEF Execute, RememberCalls
<1>2. pc = "llm" /\ steps' = steps + 1 /\ UNCHANGED run
  BY <1>1 DEF Asked
<1>3. /\ Within /\ Announced(window', events, Over)
      /\ Fresh(window', run, Len(history'), Ids(good))
  <2>1. validationRounds' \in Nat
    BY <1>1 DEF SessionInv, TypeOK
  <2> QED BY <1>1, <2>1, AskedWithin
<1>4. /\ run \in 1..MaxRuns /\ run # 0 /\ Len(history) \in Nat /\ MaxCalls \in Nat
      /\ steps \in Nat /\ steps < MaxSteps /\ MaxSteps \in Nat
  BY <1>2, WithinFacts, AgentAssumption DEF SessionInv, ControlInv
<1>5. /\ calls \in Seq(Call) /\ DistinctIds(calls)
      /\ Len(calls) = Len(batch) /\ Len(batch) \in 1..MaxCalls
  BY <1>4, CallsFacts
<1> HIDE DEF calls
<1>6. good \in Seq(Call) /\ Len(good) \in 0..Len(batch) /\ DistinctIds(good)
  BY <1>5, SomeCalls DEF Accepted, Selects
<1> HIDE DEF good
<1>7. Len(good) \in 1..MaxCalls
  BY <1>1, <1>4, <1>5, <1>6
<1>8. window' \in Seq(Message) /\ memory'.raised \in BOOLEAN
  BY <1>3 DEF Within, Base, Held
<1>9. TypeOK'
  BY <1>1, <1>2, <1>3, <1>6, <1>8 DEF Within, SessionInv, TypeOK, Await, Call
<1>10. ControlInv'
  BY <1>1, <1>2, <1>3, <1>4, <1>6, <1>7 DEF Within, SessionInv, ControlInv, DistinctIds
<1>11. EventsInv'
  BY <1>1, <1>2 DEF SessionInv, EventsInv
<1>12. WindowInv'
  <2>1. PendingIds' = Ids(good) /\ Over' = Over
    BY <1>1, <1>2 DEF PendingIds, Ids, Over
  <2> QED BY <1>1, <1>2, <1>3, <2>1 DEF Within, WindowInv, Sound
<1>13. FinishedHasAnswer'
  BY <1>1 DEF FinishedHasAnswer
<1> QED BY <1>9, <1>10, <1>11, <1>12, <1>13 DEF SessionInv

\* A message with tool calls.
LEMMA SessionAsks == ASSUME SessionInv, AskTools PROVE SessionInv'
<1>1. PICK batch \in Batch :
        \/ LoopDetected(batch)
        \/ \E size \in Size, sizes \in [1..MaxCalls -> Size] :
             \/ ValidationFailed(batch, size, sizes)
             \/ FedBack(batch, size, sizes)
             \/ Execute(batch, size, sizes)
             \/ CallsEscape(batch, size, sizes)
  BY DEF AskTools
<1>2. {"loop_detected", "validation_failed", "awaiting_tool"} \subseteq Status \ {"finished"}
  BY DEF Status
<1>3. CASE LoopDetected(batch)
  <2>1. /\ pc = "llm"
        /\ UNCHANGED <<pattern, run, revisions, memory, validationRounds, toolErrorRounds>>
        /\ steps' = steps + 1 /\ history' = history \o batch /\ End("loop_detected", "returned")
    BY <1>3 DEF LoopDetected, Asked
  <2>2. batch \in Seq(Signature)
    BY <2>1, WithinFacts, CallsFacts
  <2>3. history' \in Seq(Signature)
    BY <2>1, <2>2 DEF SessionInv, TypeOK
  <2>4. Within /\ Announced(window', events, Over)
    BY <2>1, <2>3, WithinFacts DEF Within, SessionInv, TypeOK
  <2> QED BY <1>2, <2>1, <2>4, SessionStops
<1>4. ASSUME NEW size \in Size, NEW sizes \in [1..MaxCalls -> Size],
             \/ ValidationFailed(batch, size, sizes)
             \/ CallsEscape(batch, size, sizes)
      PROVE  SessionInv'
  <2>1. /\ Asked(batch) /\ memory' = AddedCalls(Calls(batch), size, sizes)
        /\ validationRounds' \in {validationRounds, validationRounds + 1}
        /\ UNCHANGED toolErrorRounds
        /\ End("validation_failed", "returned") \/ End("awaiting_tool", "raised")
    BY <1>4 DEF ValidationFailed, CallsEscape, RememberCalls
  <2>2. Within /\ Announced(window', events, Over) /\ pc # "idle"
    <3>1. validationRounds' \in Nat /\ pc # "idle"
      BY <2>1 DEF Asked, SessionInv, TypeOK
    <3> QED BY <2>1, <3>1, AskedWithin
  <2> QED BY <1>2, <2>1, <2>2, SessionStops
<1>5. ASSUME NEW size \in Size, NEW sizes \in [1..MaxCalls -> Size],
             FedBack(batch, size, sizes)
      PROVE  SessionInv'
  <2>1. /\ Asked(batch) /\ memory' = AddedCalls(Calls(batch), size, sizes) /\ ~memory'.raised
        /\ Accepted(Calls(batch)) = <<>>
        /\ validationRounds' = validationRounds + 1 /\ UNCHANGED toolErrorRounds
        /\ NextRound(revision)
    BY <1>5 DEF FedBack, RememberCalls
  <2>2. Ids(Accepted(Calls(batch))) = {}
    BY <2>1 DEF Ids
  <2>3. /\ Within /\ Announced(window', events, Over) /\ pc # "idle" /\ revision \in Ref
        /\ Fresh(window', run, Len(history'), Ids(Accepted(Calls(batch))))
    <3>1. validationRounds' \in Nat /\ pc # "idle" /\ revision \in Ref
      BY <2>1 DEF Asked, SessionInv, TypeOK
    <3> QED BY <2>1, <3>1, AskedWithin
  <2> QED BY <2>1, <2>2, <2>3, SessionGoesOn
<1>6. ASSUME NEW size \in Size, NEW sizes \in [1..MaxCalls -> Size],
             Execute(batch, size, sizes)
      PROVE  SessionInv'
  BY <1>6, SessionExecutes
<1> QED BY <1>1, <1>3, <1>4, <1>5, <1>6

\* The results of a batch answer exactly the calls that are open, unless one raises.
LEMMA SessionExecution == ASSUME SessionInv, Execution PROVE SessionInv'
<1>1. pc = "tools"
  BY DEF Execution, Executed, ResultEscapes
<1>2. /\ run \in 1..MaxRuns /\ run \notin Over /\ Sound(memory, run, events, Over)
      /\ window # <<>> /\ Fresh(window, run, Len(history), PendingIds)
      /\ Len(history) \in Nat /\ steps \in Nat
  BY <1>1, WithinFacts
<1>3. /\ pending \in Seq(Call) /\ Len(pending) \in 1..MaxCalls /\ Len(pending) \in 0..MaxCalls
      /\ Len(pending) \in Nat /\ DOMAIN pending = 1..Len(pending)
      /\ DistinctIds(pending) /\ Ids(pending) \subseteq PendingIds /\ PendingIds = Ids(pending)
  <2>1. pending \in Seq(Call) /\ Len(pending) \in 1..MaxCalls
    BY <1>1 DEF SessionInv, TypeOK, ControlInv, Call
  <2>2. DistinctIds(pending) /\ Ids(pending) = PendingIds
    BY DEF SessionInv, ControlInv, DistinctIds, PendingIds, Ids
  <2> QED BY <2>1, <2>2, AgentAssumption
<1>4. ASSUME NEW sizes \in [1..MaxCalls -> Size], NEW k \in 0..Len(pending)
      PROVE  LET c == Adds(SubSeq(Results(pending, sizes), 1, k)) IN
             /\ Sound(c, run, events, Over) /\ c.messages # <<>>
             /\ k = Len(pending) /\ ~c.raised =>
                  Fresh(c.messages, run, Len(history), PendingIds \ Ids(pending))
  BY <1>2, <1>3, ResultsRemembered
<1>5. ASSUME NEW failed \in BOOLEAN, NEW sizes \in [1..MaxCalls -> Size],
             Executed(failed, sizes)
      PROVE  SessionInv'
  <2>1. /\ memory' = Adds(Results(pending, sizes)) /\ ~memory'.raised
        /\ steps' = steps + Len(pending)
        /\ toolErrorRounds' = IF failed THEN toolErrorRounds + 1 ELSE 0
        /\ UNCHANGED <<pattern, run, history, validationRounds, revisions>>
        /\ End("failed", "returned") \/ NextRound(revision)
    BY <1>5 DEF Executed
  <2> DEFINE res == Results(pending, sizes)
  <2>2. SubSeq(res, 1, Len(pending)) = res
    <3>1. res \in Seq(Message) /\ Len(res) = Len(pending)
      BY <1>2, <1>3, ResultsFacts
    <3> HIDE DEF res
    <3> QED BY <3>1
  <2>3. /\ Sound(memory', run, events, Over) /\ window' # <<>>
        /\ Fresh(window', run, Len(history), PendingIds \ Ids(pending))
    <3>1. Len(pending) \in 0..Len(pending)
      BY <1>3
    <3> QED BY <1>4, <2>1, <2>2, <3>1
  <2>4. Fresh(window', run, Len(history'), {})
    <3>1. PendingIds \ Ids(pending) = {} /\ history' = history
      BY <1>3, <2>1
    <3> QED BY <2>3, <3>1
  <2>5. Within /\ revision \in Ref /\ Announced(window', events, Over)
    BY <1>2, <1>3, <2>1, <2>3 DEF Within, Sound, SessionInv, TypeOK
  <2>6. "failed" \in Status \ {"finished"}
    BY DEF Status
  <2> QED BY <1>1, <2>1, <2>4, <2>5, <2>6, SessionStops, SessionGoesOn
<1>6. ASSUME NEW sizes \in [1..MaxCalls -> Size], NEW k \in 1..MaxCalls,
             ResultEscapes(sizes, k)
      PROVE  SessionInv'
  <2>1. /\ k \in DOMAIN pending /\ memory' = Adds(SubSeq(Results(pending, sizes), 1, k))
        /\ steps' = steps + k
        /\ UNCHANGED <<pattern, run, history, counters>> /\ End(status, "raised")
    BY <1>6 DEF ResultEscapes, Escapes
  <2>2. k \in 0..Len(pending) /\ k \in Nat
    BY <1>3, <2>1
  <2>3. Sound(memory', run, events, Over) /\ window' # <<>>
    BY <1>4, <2>1, <2>2
  <2>4. Within /\ Announced(window', events, Over)
    BY <1>2, <2>1, <2>2, <2>3 DEF Within, Sound, counters, SessionInv, TypeOK
  <2>5. status \in Status \ {"finished"}
    BY <1>1 DEF SessionInv, TypeOK, ControlInv, Status
  <2> QED BY <1>1, <2>1, <2>4, <2>5, SessionStops
<1> QED BY <1>5, <1>6 DEF Execution

\* Answers, drafts and verdicts.
LEMMA SessionReplies == ASSUME SessionInv, Reply PROVE SessionInv'
<1>1. ASSUME pc # "idle",
             UNCHANGED <<pattern, memory, run, history, validationRounds, toolErrorRounds>>,
             steps' = steps + 1, revisions' \in Nat
      PROVE  /\ Within /\ Announced(window', events, Over)
             /\ Fresh(window', run, Len(history'), PendingIds)
  BY <1>1, WithinFacts DEF Within, SessionInv, TypeOK
<1>2. {"failed", "max_steps", "reflection_limit"} \subseteq Status \ {"finished"}
  BY DEF Status
<1>3. revisions \in Nat
  BY DEF SessionInv, TypeOK
<1>4. CASE BlankAnswer
  BY <1>1, <1>2, <1>3, <1>4, SessionStops DEF BlankAnswer, counters
<1>5. ASSUME NEW size \in Size, Answer(size) PROVE SessionInv'
  <2>1. /\ steps \in Nat /\ size \in Nat /\ <<run, steps>> \in {run} \X Nat /\ pc # "idle"
        /\ steps' = steps + 1
    BY <1>5, AgentAssumption DEF Answer, SessionInv, TypeOK
  <2> QED BY <1>5, <2>1, SessionConcludes DEF Answer
<1>6. ASSUME NEW size \in Size, Accept(size) PROVE SessionInv'
  <2>1. /\ steps \in Nat /\ size \in Nat /\ candidate \in {run} \X Nat /\ pc # "idle"
        /\ steps' = steps + 1
    BY <1>6, AgentAssumption DEF Accept, SessionInv, TypeOK, ControlInv
  <2> QED BY <1>6, <2>1, SessionConcludes DEF Accept
<1>7. CASE Draft
  <2>1. /\ pc = "llm" /\ steps' = steps + 1
        /\ UNCHANGED <<pattern, memory, run, history, counters>>
    BY <1>7 DEF Draft
  <2>2. Within /\ Announced(window', events, Over)
    BY <1>1, <1>3, <2>1 DEF counters
  <2>3. CASE steps' >= MaxSteps
    BY <1>2, <1>7, <2>1, <2>2, <2>3, SessionStops DEF Draft
  <2>4. CASE ~(steps' >= MaxSteps)
    <3>1. /\ pc' = "critic" /\ candidate' = <<run, steps>> /\ routed' = {}
          /\ UNCHANGED <<status, pending, revision, ending, events>>
      BY <1>7, <2>4 DEF Draft
    <3>2. steps \in Nat /\ MaxSteps \in Nat /\ run \in 1..MaxRuns /\ run # 0
      BY <2>1, WithinFacts, AgentAssumption
    <3>3. steps' < MaxSteps /\ candidate' \in {run} \X Nat /\ candidate' \in Ref
      BY <2>1, <2>4, <3>1, <3>2 DEF Ref
    <3>4. TypeOK'
      BY <2>1, <3>1, <3>2, <3>3 DEF counters, SessionInv, TypeOK, Await
    <3>5. ControlInv'
      BY <2>1, <3>1, <3>2, <3>3 DEF SessionInv, ControlInv
    <3>6. EventsInv' /\ WindowInv' /\ FinishedHasAnswer'
      BY <2>1, <3>1
         DEF SessionInv, ControlInv, EventsInv, WindowInv, PendingIds, Over, FinishedHasAnswer
    <3> QED BY <3>4, <3>5, <3>6 DEF SessionInv
  <2> QED BY <2>3, <2>4
<1>8. CASE Revise
  <2>1. /\ pc = "critic" /\ steps' = steps + 1
        /\ UNCHANGED <<pattern, memory, run, history, validationRounds, toolErrorRounds>>
        /\ \/ End("reflection_limit", "returned") /\ UNCHANGED revisions
           \/ revisions' = revisions + 1 /\ NextRound(candidate)
    BY <1>8 DEF Revise
  <2>2. revisions' \in Nat
    BY <1>3, <2>1
  <2>3. PendingIds = {} /\ candidate \in Ref
    BY <2>1 DEF PendingIds, SessionInv, ControlInv, TypeOK
  <2>4. Within /\ Announced(window', events, Over) /\ Fresh(window', run, Len(history'), {})
    BY <1>1, <2>1, <2>2, <2>3
  <2> QED BY <1>2, <2>1, <2>3, <2>4, SessionStops, SessionGoesOn
<1> QED BY <1>4, <1>5, <1>6, <1>7, <1>8 DEF Reply

\* Every step keeps the invariant.
LEMMA SessionStep == SessionInv /\ [Next]_vars => SessionInv'
<1>1. SUFFICES ASSUME SessionInv, [Next]_vars PROVE SessionInv'
  OBVIOUS
<1>2. CASE UNCHANGED vars
  BY <1>1, <1>2
     DEF vars, counters, locals, SessionInv, TypeOK, ControlInv, EventsInv, WindowInv, PendingIds,
         Over, FinishedHasAnswer
<1>3. CASE Next
  BY <1>1, <1>3, SessionStarts, SessionPlanned, SessionRouted, SessionAsks, SessionExecution,
     SessionReplies, SessionInterrupted
     DEF Next, Progress
<1> QED BY <1>1, <1>2, <1>3
-----------------------------------------------------------------------------
(* What the invariant says *)

\* While the LLM is asked, each call of the run has exactly one answer.
LEMMA AnsweredOnce == SessionInv => CallsAnsweredOnce
<1> SUFFICES ASSUME SessionInv, pc \in {"routing", "llm", "critic"},
                    NEW j \in DOMAIN window, window[j].run = run,
                    NEW id \in ToSet(window[j].calls)
             PROVE  \E i \in DOMAIN window :
                      /\ AnsweredAt(id, i, j)
                      /\ \A k \in DOMAIN window : window[k].ref = id => k = i
  BY DEF CallsAnsweredOnce
<1>1. PendingIds = {}
  BY DEF PendingIds, SessionInv, ControlInv
<1>2. pc # "idle" /\ Base(window, run) /\ Fresh(window, run, Len(history), {})
  BY <1>1, WithinFacts
<1>3. PICK i \in DOMAIN window : InBlock(window, i, j) /\ window[i].ref = id
  BY <1>2 DEF Fresh
<1>4. id \in {run} \X Nat
  BY <1>2 DEF Base, MessageInv
<1>5. i \in Int /\ j \in Int
  BY <1>2 DEF Base
<1>6. window[i].role = "tool"
  BY <1>3, <1>5 DEF InBlock
<1>7. ASSUME NEW k \in DOMAIN window, window[k].ref = id PROVE k = i
  <2>1. window[k].ref # None /\ MessageInv(window[k], run) /\ window[k] \in Message
    <3>1. id # None
      <4>1. PICK n \in Nat : id = <<run, n>>
        BY <1>4
      <4>2. <<run, n>> # None
        BY DEF None
      <4> QED BY <4>1, <4>2
    <3>2. MessageInv(window[k], run) /\ window[k] \in Message
      BY <1>2 DEF Base
    <3> QED BY <1>7, <3>1, <3>2
  <2>2. window[k].role \in {"tool", "assistant"} /\ window[k].ref \in {window[k].run} \X Nat
    BY <2>1 DEF Message, MessageInv
  <2>3. window[k].run = run
    BY <1>4, <1>7, <2>2
  <2>4. CASE window[k].role = "tool"
    BY <1>2, <1>3, <1>6, <1>7, <2>3, <2>4 DEF Fresh
  <2>5. CASE window[k].role = "assistant"
    <3>1. IsAnswer(window[k])
      BY <2>1, <2>5 DEF MessageInv, IsAnswer
    <3>2. /\ Announced(window, events, Over) /\ run \notin Over
          /\ \A e \in ToSet(events) : e.run # run
      BY <1>2, WithinFacts
    <3> QED BY <2>3, <3>1, <3>2 DEF Announced, HandedOut
  <2> QED BY <2>2, <2>4, <2>5
<1> QED BY <1>3, <1>7 DEF AnsweredAt

\* The session invariant holds in every reachable state.
THEOREM SessionHolds == Spec => []SessionInv
BY SessionInit, SessionStep, PTL DEF Spec

\* Every variable keeps its type, for every window, model, tools and critic.
THEOREM Typing == Spec => []TypeOK
<1>1. SessionInv => TypeOK
  BY DEF SessionInv
<1> QED BY SessionHolds, <1>1, PTL

\* Every tool message of the window follows, in its block, the call it answers,
\* after any number of runs, cancellations, evictions and messages that cannot be
\* counted (short_term.py:45-93, runtime.py:254, 531, 766).
THEOREM ResultsFollowCalls == Spec => []ResultsHaveCalls
<1>1. SessionInv => ResultsHaveCalls
  BY DEF SessionInv, WindowInv, Sound, Base, Paired, ResultsHaveCalls
<1> QED BY SessionHolds, <1>1, PTL

\* Whenever the LLM is asked, each call of the current run that is still in memory
\* has one answer, a violation or a result, never both (runtime.py:254, 531, 766).
THEOREM EachCallAnswered == Spec => []CallsAnsweredOnce
BY SessionHolds, AnsweredOnce, PTL

\* An answer in memory was announced as final, or its add_message raised, and it is
\* the last word of a run that ended without an event (short_term.py:47,
\* runtime.py:323, 347, 613-640): no draft that was rejected or cut off is part of
\* the conversation.
THEOREM AnswersAreFinal == Spec => []AnswersAnnounced
<1>1. SessionInv => AnswersAnnounced
  <2> SUFFICES ASSUME SessionInv, NEW i \in DOMAIN window, IsAnswer(window[i])
               PROVE  \/ \E e \in ToSet(events) :
                           /\ e.type = "RUN_FINISH"
                           /\ e.run = window[i].run /\ e.final = window[i].ref
                      \/ /\ window[i].run < run \/ ending = "raised"
                         /\ \A e \in ToSet(events) : e.run # window[i].run
                         /\ \A k \in DOMAIN window : k > i => window[k].run # window[i].run
    BY DEF IsAnswer, AnswersAnnounced
  <2>1. Announced(window, events, Over)
    BY DEF SessionInv, WindowInv, Sound
  <2>2. window[i].run \in Over => window[i].run < run \/ ending = "raised"
    BY DEF Over
  <2> QED BY <2>1, <2>2 DEF Announced, HandedOut, Silent
<1> QED BY SessionHolds, <1>1, PTL

\* A finished run hands out the answer it has just put in memory, whatever the
\* window's budget (runtime.py:613-640).
THEOREM FinishedAnswers == Spec => []FinishedHasAnswer
<1>1. SessionInv => FinishedHasAnswer
  BY DEF SessionInv
<1> QED BY SessionHolds, <1>1, PTL
-----------------------------------------------------------------------------
(* Every run ends *)

\* Ahead by what the run awaits and the steps it has used.
AheadOf(p, s) ==
  IF p = "idle" THEN 0
  ELSE 1 + 3 * (MaxSteps + MaxCalls - s)
         + (CASE p = "planning" -> 2 [] p = "routing" -> 1 [] OTHER -> 0)

\* What a run may still do in a state within the budget.
LEMMA AheadBounds ==
  ASSUME NEW p \in Await, NEW s \in 0..MaxSteps
  PROVE  /\ AheadOf(p, s) \in Nat /\ AheadOf(p, s) > 3 * (MaxSteps + MaxCalls - s)
         /\ p = "planning" => AheadOf(p, s) = 3 * (MaxSteps + MaxCalls - s) + 3
         /\ p = "routing" => AheadOf(p, s) = 3 * (MaxSteps + MaxCalls - s) + 2
         /\ p \notin {"planning", "routing"} => AheadOf(p, s) = 3 * (MaxSteps + MaxCalls - s) + 1
<1>1. s \in Nat /\ s <= MaxSteps /\ MaxSteps \in Nat /\ MaxCalls \in Nat /\ p # "idle"
  BY AgentAssumption DEF Await
<1>2. CASE p = "planning"
  BY <1>1, <1>2 DEF AheadOf
<1>3. CASE p = "routing"
  BY <1>1, <1>3 DEF AheadOf
<1>4. CASE p \notin {"planning", "routing"}
  BY <1>1, <1>4 DEF AheadOf
<1> QED BY <1>2, <1>3, <1>4

\* A step within a run uses a step of the budget, or gets on with the round.
LEMMA StepUsesBudget ==
  ASSUME SessionInv, Next, run' = run, pc' # "idle"
  PROVE  \/ pc = "planning" /\ pc' = "routing" /\ steps' = steps
         \/ pc = "routing" /\ pc' = "llm" /\ steps' = steps
         \/ pc \in Await /\ pc' \in {"routing", "tools", "critic"} /\ steps' >= steps + 1
<1>1. ASSUME NEW how, NEW s, End(s, how) PROVE FALSE
  BY <1>1 DEF End
<1>2. ASSUME NEW kept, NextRound(kept) PROVE pc' = "routing"
  BY <1>1, <1>2 DEF NextRound
<1>3. steps \in Nat /\ run \in Nat
  BY DEF SessionInv, TypeOK
<1>4. ASSUME NEW size \in Size, Start(size) PROVE FALSE
  BY <1>3, <1>4 DEF Start
<1>5. CASE Planned
  BY <1>5 DEF Planned
<1>6. CASE Routed
  BY <1>6 DEF Routed
<1>7. CASE AskTools
  <2>1. PICK batch \in Batch :
          \/ LoopDetected(batch)
          \/ \E size \in Size, sizes \in [1..MaxCalls -> Size] :
               \/ ValidationFailed(batch, size, sizes)
               \/ FedBack(batch, size, sizes)
               \/ Execute(batch, size, sizes)
               \/ CallsEscape(batch, size, sizes)
    BY <1>7 DEF AskTools
  <2>2. ~LoopDetected(batch)
    BY <1>1 DEF LoopDetected
  <2>3. PICK size \in Size, sizes \in [1..MaxCalls -> Size] :
          FedBack(batch, size, sizes) \/ Execute(batch, size, sizes)
    BY <1>1, <2>1, <2>2 DEF ValidationFailed, CallsEscape
  <2>4. Asked(batch) /\ pc' \in {"routing", "tools"}
    BY <1>2, <2>3 DEF FedBack, Execute
  <2> QED BY <1>3, <2>4 DEF Asked, Await
<1>8. CASE Execution
  <2>1. ~(\E sizes \in [1..MaxCalls -> Size], k \in 1..MaxCalls : ResultEscapes(sizes, k))
    BY <1>1 DEF ResultEscapes, Escapes
  <2>2. PICK failed \in BOOLEAN, sizes \in [1..MaxCalls -> Size] : Executed(failed, sizes)
    BY <1>8, <2>1 DEF Execution
  <2>3. /\ pc = "tools" /\ steps' = steps + Len(pending)
        /\ End("failed", "returned") \/ NextRound(revision)
    BY <2>2 DEF Executed
  <2>4. Len(pending) >= 1 /\ Len(pending) \in Int
    BY <2>3, AgentAssumption DEF SessionInv, ControlInv
  <2> QED BY <1>1, <1>2, <1>3, <2>3, <2>4 DEF Await
<1>9. CASE Reply
  <2>1. ~BlankAnswer /\ (\A size \in Size : ~Answer(size) /\ ~Accept(size))
    BY <1>1 DEF BlankAnswer, Answer, Accept, Conclude, Escapes
  <2>2. CASE Draft
    BY <1>1, <1>3, <2>2 DEF Draft, Await
  <2>3. CASE Revise
    BY <1>1, <1>2, <1>3, <2>3 DEF Revise, Await
  <2> QED BY <1>9, <2>1, <2>2, <2>3 DEF Reply
<1>10. ~(Fails \/ Raises \/ Cancel)
  BY <1>1 DEF Fails, Raises, Cancel
<1> QED BY <1>4, <1>5, <1>6, <1>7, <1>8, <1>9, <1>10 DEF Next, Progress

\* So what it may still do becomes less.
LEMMA StepConverges ==
  SessionInv /\ SessionInv' /\ [Next]_vars => [run' = run => 0 <= Ahead' /\ Ahead' < Ahead]_vars
<1>1. SUFFICES ASSUME SessionInv, SessionInv', Next, run' = run
               PROVE  0 <= Ahead' /\ Ahead' < Ahead
  OBVIOUS
<1>2. Ahead = AheadOf(pc, steps) /\ Ahead' = AheadOf(pc', steps')
  BY DEF Ahead, AheadOf
<1>3. /\ steps \in Nat /\ steps' \in Nat /\ MaxSteps \in Nat /\ MaxCalls \in Nat
      /\ pc \in Await \cup {"idle"} /\ pc' \in Await \cup {"idle"}
  BY <1>1, AgentAssumption DEF SessionInv, TypeOK
<1>4. (pc \in Await => steps \in 0..MaxSteps) /\ (pc' \in Await => steps' \in 0..MaxSteps)
  BY <1>1, <1>3 DEF SessionInv, ControlInv, Await
<1>5. pc \in Await
  <2>1. ASSUME pc = "idle" PROVE \A size \in Size : ~Start(size)
    <3>1. run \in Nat
      BY <1>1 DEF SessionInv, TypeOK
    <3> QED BY <1>1, <3>1 DEF Start
  <2>2. ASSUME pc = "idle" PROVE FALSE
    BY <1>1, <2>1, <2>2
       DEF Next, Progress, Planned, Routed, AskTools, LoopDetected, ValidationFailed, FedBack,
           Execute, CallsEscape, Asked, Execution, Executed, ResultEscapes, Reply, BlankAnswer,
           Answer, Draft, Accept, Revise, Fails, Raises, Cancel, Await
  <2> QED BY <1>3, <2>2
<1>6. AheadOf(pc, steps) \in Nat /\ AheadOf(pc, steps) > 3 * (MaxSteps + MaxCalls - steps)
  BY <1>4, <1>5, AheadBounds
<1>7. CASE pc' = "idle"
  <2>1. AheadOf(pc', steps') = 0
    BY <1>7 DEF AheadOf
  <2> QED BY <1>2, <1>3, <1>4, <1>5, <1>6, <2>1
<1>8. CASE pc' # "idle"
  <2>1. pc' \in Await
    BY <1>3, <1>8
  <2>2. /\ AheadOf(pc', steps') \in Nat
        /\ pc' = "routing" => AheadOf(pc', steps') = 3 * (MaxSteps + MaxCalls - steps') + 2
        /\ pc' \notin {"planning", "routing"} =>
              AheadOf(pc', steps') = 3 * (MaxSteps + MaxCalls - steps') + 1
    BY <1>4, <2>1, AheadBounds
  <2>3. /\ pc = "planning" => AheadOf(pc, steps) = 3 * (MaxSteps + MaxCalls - steps) + 3
        /\ pc = "routing" => AheadOf(pc, steps) = 3 * (MaxSteps + MaxCalls - steps) + 2
    BY <1>4, <1>5, AheadBounds
  <2>4. \/ pc = "planning" /\ pc' = "routing" /\ steps' = steps
        \/ pc = "routing" /\ pc' = "llm" /\ steps' = steps
        \/ pc' \in {"routing", "tools", "critic"} /\ steps' >= steps + 1
    BY <1>1, <1>8, StepUsesBudget
  <2>5. AheadOf(pc', steps') < AheadOf(pc, steps)
    BY <1>3, <1>6, <2>2, <2>3, <2>4
  <2> QED BY <1>2, <2>2, <2>5
<1> QED BY <1>7, <1>8

\* Every step of a run leaves it less to do: no round is for free, whatever the
\* model, the tools and the critic return (loop_guard.py:86-94, runtime.py:129-240).
THEOREM Converges == Spec => RunsConverge
<1>1. SessionInv /\ SessionInv' /\ [Next]_vars =>
        [run' = run => 0 <= Ahead' /\ Ahead' < Ahead]_vars
  BY StepConverges
<1> QED BY SessionHolds, <1>1, PTL DEF Spec, RunsConverge
=============================================================================
