---------------------------- MODULE SublistProofs ----------------------------
(***************************************************************************)
(* Induction over lists, from the well-foundedness of the naturals, and    *)
(* what it says of Sublist.                                                *)
(***************************************************************************)
EXTENDS Sublists, Integers, Sequences, SequenceTheorems, WellFoundedInduction, TLAPS

\* A nonempty set of naturals has a least element.
LEMMA LeastNatural ==
  ASSUME NEW T \in SUBSET Nat, T # {}
  PROVE  \E x \in T : \A y \in T : x <= y
<1> DEFINE R == OpToRel(<, Nat)
<1>1. R = {ss \in Nat \X Nat : ss[1] < ss[2]}
  BY Zenon DEF OpToRel
<1>2. IsWellFoundedOn(R, Nat)
  BY NatLessThanWellFounded, Zenon
<1> HIDE DEF R
<1>3. PICK x \in T : \A y \in T : ~(<<y, x>> \in R)
  BY <1>2, WFMin, Zenon
<1>4. ASSUME NEW y \in T PROVE x <= y
  <2>1. <<y, x>> \in Nat \X Nat /\ <<y, x>>[1] = y /\ <<y, x>>[2] = x
    OBVIOUS
  <2>2. y < x => <<y, x>> \in R
    BY <1>1, <2>1, Zenon
  <2> QED BY <2>2, <1>3
<1> QED BY <1>4

\* Induction up to n, for a set of naturals.
LEMMA Induction ==
  ASSUME NEW n \in Nat, NEW T, 0 \in T, \A m \in 0..(n - 1) : m \in T => m + 1 \in T
  PROVE  \A m \in 0..n : m \in T
<1> SUFFICES ASSUME NEW k \in 0..n, k \notin T PROVE FALSE
  OBVIOUS
<1> DEFINE Bad == {m \in 0..n : m \notin T}
<1>1. Bad \in SUBSET Nat /\ Bad # {}
  OBVIOUS
<1>2. PICK m \in Bad : \A y \in Bad : m <= y
  BY <1>1, LeastNatural
<1>3. m # 0 /\ m - 1 \in 0..(n - 1) /\ m - 1 \notin Bad
  BY <1>2
<1> QED BY <1>2, <1>3

\* n steps from a lead somewhere.
Iterated(n, S, a, step) ==
  \E f \in [0..n -> S] : f[0] = a /\ \A i \in 1..n : f[i] = step[i][f[i - 1]]

\* A recursive function over the places of a list exists.
LEMMA Iteration ==
  ASSUME NEW n \in Nat, NEW S, NEW a \in S, NEW step \in [1..n -> [S -> S]]
  PROVE  Iterated(n, S, a, step)
<1> DEFINE Upto(m) == Iterated(m, S, a, step)
    T == {m \in 0..n : Upto(m)}
<1> USE DEF Iterated
<1>1. 0 \in T
  <2> DEFINE f == [i \in 0..0 |-> a]
  <2>1. f \in [0..0 -> S] /\ f[0] = a
    OBVIOUS
  <2>2. 1..0 = {} /\ 0 \in 0..n
    OBVIOUS
  <2> HIDE DEF f
  <2>3. Upto(0)
    BY <2>1, <2>2
  <2> HIDE DEF Upto
  <2> QED BY <2>2, <2>3
<1>2. ASSUME NEW m \in 0..(n - 1), m \in T PROVE m + 1 \in T
  <2>1. PICK f \in [0..m -> S] : f[0] = a /\ \A i \in 1..m : f[i] = step[i][f[i - 1]]
    BY <1>2
  <2> DEFINE g == [i \in 0..(m + 1) |-> IF i = m + 1 THEN step[m + 1][f[m]] ELSE f[i]]
  <2>2. step[m + 1][f[m]] \in S
    <3>1. f[m] \in S /\ m + 1 \in 1..n
      OBVIOUS
    <3> QED BY <3>1
  <2>3. \A i \in 0..(m + 1) : i # m + 1 => i \in 0..m
    OBVIOUS
  <2>4. g \in [0..(m + 1) -> S] /\ g[0] = a
    BY <2>1, <2>2, <2>3
  <2>5. ASSUME NEW i \in 1..(m + 1) PROVE g[i] = step[i][g[i - 1]]
    <3>1. CASE i = m + 1
      <4>1. i - 1 = m /\ m # m + 1 /\ m \in 0..(m + 1)
        BY <3>1
      <4> QED BY <3>1, <4>1
    <3>2. CASE i # m + 1
      <4>1. i \in 1..m /\ i - 1 # m + 1 /\ i - 1 \in 0..(m + 1)
        BY <3>2
      <4> QED BY <2>1, <3>2, <4>1
    <3> QED BY <3>1, <3>2
  <2>6. m + 1 \in 0..n
    OBVIOUS
  <2> HIDE DEF g
  <2> QED BY <2>4, <2>5, <2>6
<1> HIDE DEF T
<1>3. \A m \in 0..n : m \in T
  BY <1>1, <1>2, Induction
<1>4. n \in 0..n
  OBVIOUS
<1> QED BY <1>3, <1>4 DEF T

\* How a sublist of s grows.
Grows(s, T, S) ==
  \E kept \in [0..Len(s) -> Seq(S)] :
    /\ Sublist(s, T) = kept[Len(s)]
    /\ kept[0] = <<>>
    /\ \A n \in 1..Len(s) :
         kept[n] = IF s[n] \in T THEN Append(kept[n - 1], s[n]) ELSE kept[n - 1]

\* The recursive function of Sublist.
LEMMA SublistGrows ==
  ASSUME NEW S, NEW s \in Seq(S), NEW T
  PROVE  Grows(s, T, S)
<1> DEFINE Body(h) ==
      [n \in 0..Len(s) |->
         IF n = 0 THEN <<>>
         ELSE IF s[n] \in T THEN Append(h[n - 1], s[n]) ELSE h[n - 1]]
    Rec(h) == h = Body(h)
    step == [i \in 1..Len(s) |-> [x \in Seq(S) |-> IF s[i] \in T THEN Append(x, s[i]) ELSE x]]
<1>1. Len(s) \in Nat /\ <<>> \in Seq(S) /\ \A i \in 1..Len(s) : s[i] \in S
  OBVIOUS
<1>2. step \in [1..Len(s) -> [Seq(S) -> Seq(S)]]
  BY <1>1, AppendProperties
<1>3. PICK f \in [0..Len(s) -> Seq(S)] :
        f[0] = <<>> /\ \A i \in 1..Len(s) : f[i] = step[i][f[i - 1]]
  <2> DEFINE n == Len(s)
             Q == Seq(S)
             a == <<>>
  <2>1. n \in Nat /\ a \in Q /\ step \in [1..n -> [Q -> Q]]
    BY <1>1, <1>2
  <2> HIDE DEF step, n, Q, a
  <2>2. Iterated(n, Q, a, step)
    BY <2>1, Iteration
  <2> QED BY <2>2 DEF n, Q, a, Iterated
<1>4. ASSUME NEW i \in 1..Len(s)
      PROVE  f[i] = IF s[i] \in T THEN Append(f[i - 1], s[i]) ELSE f[i - 1]
  <2>1. i - 1 \in 0..Len(s)
    BY <1>1
  <2> QED BY <1>3, <2>1
<1> HIDE DEF step
<1>5. Rec(f)
  <2>1. \A n \in 0..Len(s) : n # 0 => n \in 1..Len(s)
    BY <1>1
  <2> QED BY <1>3, <1>4, <2>1
<1>6. Sublist(s, T) = (CHOOSE h : Rec(h))[Len(s)]
  BY Zenon DEF Sublist
<1> HIDE DEF Rec
<1>7. Rec(CHOOSE h : Rec(h))
  BY <1>5, Zenon
<1> DEFINE kept == CHOOSE h : Rec(h)
<1>8. Rec(kept) /\ Sublist(s, T) = kept[Len(s)]
  BY <1>6, <1>7
<1> HIDE DEF kept
<1>9. /\ kept = [n \in 0..Len(s) |-> kept[n]]
      /\ kept[0] = <<>>
      /\ \A n \in 1..Len(s) :
           kept[n] = IF s[n] \in T THEN Append(kept[n - 1], s[n]) ELSE kept[n - 1]
  <2>1. kept = Body(kept)
    BY <1>8, Zenon DEF Rec
  <2>2. kept = [n \in 0..Len(s) |-> kept[n]]
    BY <2>1
  <2>3. \A n \in 0..Len(s) : Body(kept)[n] =
          IF n = 0 THEN <<>>
          ELSE IF s[n] \in T THEN Append(kept[n - 1], s[n]) ELSE kept[n - 1]
    OBVIOUS
  <2>4. 0 \in 0..Len(s) /\ \A n \in 1..Len(s) : n \in 0..Len(s) /\ n # 0
    BY <1>1
  <2> HIDE DEF Body
  <2> QED BY <2>1, <2>2, <2>3, <2>4
<1>10. \A n \in 0..Len(s) : kept[n] \in Seq(S)
  <2> DEFINE N == {n \in 0..Len(s) : kept[n] \in Seq(S)}
  <2>1. 0 \in N
    <3>1. kept[0] \in Seq(S)
      BY <1>1, <1>9, Zenon
    <3> QED BY <1>1, <3>1
  <2>2. ASSUME NEW m \in 0..(Len(s) - 1), m \in N PROVE m + 1 \in N
    <3>1. m + 1 \in 1..Len(s) /\ (m + 1) - 1 = m /\ m + 1 \in 0..Len(s)
      BY <1>1
    <3>2. kept[m + 1] = IF s[m + 1] \in T THEN Append(kept[m], s[m + 1]) ELSE kept[m]
      BY <1>9, <3>1
    <3>3. s[m + 1] \in S /\ kept[m] \in Seq(S)
      BY <1>1, <2>2, <3>1
    <3>4. kept[m + 1] \in Seq(S)
      BY <3>2, <3>3, AppendProperties
    <3> QED BY <3>1, <3>4
  <2> HIDE DEF N
  <2>3. \A n \in 0..Len(s) : n \in N
    BY <1>1, <2>1, <2>2, Induction
  <2> QED BY <2>3 DEF N
<1> QED BY <1>8, <1>9, <1>10 DEF Grows

\* list consists of the elements of s up to place n that are in T, each taken from
\* its place, in order.
Picks(list, s, T, n) ==
  /\ Len(list) \in 0..n
  /\ \E from \in [1..Len(list) -> 1..n] :
       /\ \A k \in 1..Len(list) : list[k] = s[from[k]] /\ s[from[k]] \in T
       /\ \A j, k \in 1..Len(list) : j < k => from[j] < from[k]
       /\ \A i \in 1..n : s[i] \in T => \E k \in 1..Len(list) : from[k] = i

\* Another element.
LEMMA PickNext ==
  ASSUME NEW S, NEW s \in Seq(S), NEW T, NEW n \in Nat, n + 1 \in 1..Len(s),
         NEW list \in Seq(S), Picks(list, s, T, n)
  PROVE  Picks(IF s[n + 1] \in T THEN Append(list, s[n + 1]) ELSE list, s, T, n + 1)
<1> DEFINE m == Len(list)
<1>1. PICK from \in [1..m -> 1..n] :
        /\ \A k \in 1..m : list[k] = s[from[k]] /\ s[from[k]] \in T
        /\ \A j, k \in 1..m : j < k => from[j] < from[k]
        /\ \A i \in 1..n : s[i] \in T => \E k \in 1..m : from[k] = i
  BY DEF Picks
<1>2. m \in 0..n /\ \A k \in 1..m : from[k] \in 1..n
  BY <1>1 DEF Picks
<1>3. CASE s[n + 1] \notin T
  <2>1. from \in [1..m -> 1..(n + 1)] /\ m \in 0..(n + 1)
    BY <1>2
  <2>2. \A i \in 1..(n + 1) : s[i] \in T => \E k \in 1..m : from[k] = i
    <3>1. \A i \in 1..(n + 1) : i \in 1..n \/ i = n + 1
      OBVIOUS
    <3> QED BY <1>1, <1>3, <3>1
  <2>3. Picks(list, s, T, n + 1)
    BY <1>1, <2>1, <2>2 DEF Picks
  <2> QED BY <1>3, <2>3
<1>4. CASE s[n + 1] \in T
  <2> DEFINE new == Append(list, s[n + 1])
             to == [k \in 1..(m + 1) |-> IF k = m + 1 THEN n + 1 ELSE from[k]]
  <2>1. /\ Len(new) = m + 1 /\ new[m + 1] = s[n + 1]
        /\ \A k \in 1..m : new[k] = list[k]
    <3>1. s[n + 1] \in S
      OBVIOUS
    <3> QED BY <3>1, AppendProperties
  <2>2. \A k \in 1..(m + 1) : k # m + 1 => k \in 1..m
    BY <1>2
  <2>3. to \in [1..(m + 1) -> 1..(n + 1)] /\ to[m + 1] = n + 1
    BY <1>2, <2>2
  <2>4. \A k \in 1..m : to[k] = from[k] /\ to[k] \in 1..n
    BY <1>2
  <2> HIDE DEF new, to, m
  <2>5. \A k \in 1..(m + 1) : new[k] = s[to[k]] /\ s[to[k]] \in T
    BY <1>1, <1>4, <2>1, <2>2, <2>3, <2>4
  <2>6. \A j, k \in 1..(m + 1) : j < k => to[j] < to[k]
    <3> SUFFICES ASSUME NEW j \in 1..(m + 1), NEW k \in 1..(m + 1), j < k PROVE to[j] < to[k]
      OBVIOUS
    <3>1. j \in 1..m /\ to[j] = from[j] /\ from[j] \in 1..n
      BY <1>2, <2>4
    <3>2. CASE k = m + 1
      BY <2>3, <3>1, <3>2
    <3>3. CASE k # m + 1
      BY <1>1, <2>2, <2>4, <3>1, <3>3
    <3> QED BY <3>2, <3>3
  <2>7. \A i \in 1..(n + 1) : s[i] \in T => \E k \in 1..(m + 1) : to[k] = i
    <3> SUFFICES ASSUME NEW i \in 1..(n + 1), s[i] \in T PROVE \E k \in 1..(m + 1) : to[k] = i
      OBVIOUS
    <3>1. CASE i = n + 1
      BY <1>2, <2>3, <3>1
    <3>2. CASE i # n + 1
      <4>1. i \in 1..n
        BY <3>2
      <4>2. PICK k \in 1..m : from[k] = i
        BY <1>1, <4>1
      <4> QED BY <1>2, <2>4, <4>2
    <3> QED BY <3>1, <3>2
  <2>8. Len(new) \in 0..(n + 1)
    BY <1>2, <2>1
  <2>9. Picks(new, s, T, n + 1)
    <3> DEFINE l == m + 1
    <3>1. /\ to \in [1..l -> 1..(n + 1)]
          /\ \A k \in 1..l : new[k] = s[to[k]] /\ s[to[k]] \in T
          /\ \A j, k \in 1..l : j < k => to[j] < to[k]
          /\ \A i \in 1..(n + 1) : s[i] \in T => \E k \in 1..l : to[k] = i
      BY <2>3, <2>5, <2>6, <2>7
    <3>2. Len(new) = l
      BY <2>1
    <3> HIDE DEF l
    <3>3. /\ to \in [1..Len(new) -> 1..(n + 1)]
          /\ \A k \in 1..Len(new) : new[k] = s[to[k]] /\ s[to[k]] \in T
          /\ \A j, k \in 1..Len(new) : j < k => to[j] < to[k]
          /\ \A i \in 1..(n + 1) : s[i] \in T => \E k \in 1..Len(new) : to[k] = i
      BY <3>1, <3>2
    <3> QED BY <2>8, <3>3, Zenon DEF Picks
  <2> QED BY <1>4, <2>9 DEF new
<1> QED BY <1>3, <1>4

\* What a list comprehension returns.
LEMMA SublistPicks ==
  ASSUME NEW S, NEW s \in Seq(S), NEW T
  PROVE  Sublist(s, T) \in Seq(S) /\ Picks(Sublist(s, T), s, T, Len(s))
<1>1. PICK kept \in [0..Len(s) -> Seq(S)] :
        /\ Sublist(s, T) = kept[Len(s)]
        /\ kept[0] = <<>>
        /\ \A n \in 1..Len(s) :
             kept[n] = IF s[n] \in T THEN Append(kept[n - 1], s[n]) ELSE kept[n - 1]
  <2>1. Grows(s, T, S)
    BY SublistGrows
  <2> QED BY <2>1 DEF Grows
<1> DEFINE N == {n \in 0..Len(s) : Picks(kept[n], s, T, n)}
<1>2. Len(s) \in Nat
  OBVIOUS
<1>3. 0 \in N
  <2>1. Picks(<<>>, s, T, 0)
    <3>1. 1..0 = {} /\ Len(<<>>) = 0
      OBVIOUS
    <3>2. [k \in 1..0 |-> 0] \in [1..0 -> 1..0]
      BY <3>1
    <3> QED BY <3>1, <3>2 DEF Picks
  <2>2. Picks(kept[0], s, T, 0)
    BY <1>1, <2>1, Zenon
  <2> QED BY <1>2, <2>2
<1>4. ASSUME NEW m \in 0..(Len(s) - 1), m \in N PROVE m + 1 \in N
  <2>1. m + 1 \in 1..Len(s) /\ (m + 1) - 1 = m /\ m + 1 \in 0..Len(s) /\ m \in 0..Len(s)
    BY <1>2
  <2>2. kept[m + 1] = IF s[m + 1] \in T THEN Append(kept[m], s[m + 1]) ELSE kept[m]
    BY <1>1, <2>1
  <2>3. Picks(kept[m], s, T, m) /\ kept[m] \in Seq(S) /\ m \in Nat
    BY <1>1, <1>4, <2>1
  <2>4. Picks(kept[m + 1], s, T, m + 1)
    BY <2>1, <2>2, <2>3, PickNext
  <2> QED BY <2>1, <2>4
<1> HIDE DEF N
<1>5. \A n \in 0..Len(s) : n \in N
  BY <1>2, <1>3, <1>4, Induction
<1>6. Len(s) \in 0..Len(s)
  BY <1>2
<1>7. Picks(kept[Len(s)], s, T, Len(s))
  BY <1>5, <1>6 DEF N
<1> QED BY <1>1, <1>6, <1>7

\* Its elements are those of s that are in T.
LEMMA SublistElements ==
  ASSUME NEW S, NEW s \in Seq(S), NEW T
  PROVE  /\ Sublist(s, T) \in Seq(S)
         /\ {Sublist(s, T)[k] : k \in DOMAIN Sublist(s, T)} = {s[i] : i \in DOMAIN s} \cap T
<1> DEFINE list == Sublist(s, T)
<1>1. list \in Seq(S) /\ Picks(list, s, T, Len(s))
  BY SublistPicks
<1> HIDE DEF list
<1>2. PICK from \in [1..Len(list) -> 1..Len(s)] :
        /\ \A k \in 1..Len(list) : list[k] = s[from[k]] /\ s[from[k]] \in T
        /\ \A i \in 1..Len(s) : s[i] \in T => \E k \in 1..Len(list) : from[k] = i
  BY <1>1 DEF Picks
<1>3. DOMAIN list = 1..Len(list) /\ DOMAIN s = 1..Len(s)
  BY <1>1
<1>4. \A k \in 1..Len(list) : from[k] \in 1..Len(s)
  BY <1>2
<1>5. ASSUME NEW k \in DOMAIN list PROVE list[k] \in {s[i] : i \in DOMAIN s} \cap T
  BY <1>2, <1>3, <1>4
<1>6. ASSUME NEW i \in DOMAIN s, s[i] \in T PROVE \E k \in DOMAIN list : s[i] = list[k]
  BY <1>2, <1>3, <1>6
<1>7. {list[k] : k \in DOMAIN list} = {s[i] : i \in DOMAIN s} \cap T
  BY <1>5, <1>6
<1> QED BY <1>1, <1>7 DEF list

\* The values on the way through the steps.
Passes(after, a, steps, S) ==
  /\ after \in [0..Len(steps) -> S]
  /\ Through(a, steps) = after[Len(steps)]
  /\ after[0] = a
  /\ \A n \in 1..Len(steps) : after[n] = steps[n][after[n - 1]]

\* The recursive function of Through.
LEMMA ThroughPasses ==
  ASSUME NEW S, NEW a \in S, NEW n \in Nat, NEW X, NEW steps \in [1..n -> X],
         \A i \in 1..n : \A x \in S : steps[i][x] \in S
  PROVE  Len(steps) = n /\ \E after : Passes(after, a, steps, S)
<1> DEFINE Body(h) == [i \in 0..Len(steps) |-> IF i = 0 THEN a ELSE steps[i][h[i - 1]]]
           Rec(h) == h = Body(h)
<1>1. Len(steps) = n
  OBVIOUS
<1>2. PICK f \in [0..n -> S] : f[0] = a /\ \A i \in 1..n : f[i] = steps[i][f[i - 1]]
  <2> DEFINE within == [i \in 1..n |-> [x \in S |-> steps[i][x]]]
  <2>1. within \in [1..n -> [S -> S]]
    OBVIOUS
  <2>2. \A i \in 1..n : \A x \in S : within[i][x] = steps[i][x]
    OBVIOUS
  <2> HIDE DEF within
  <2>3. PICK f \in [0..n -> S] : f[0] = a /\ \A i \in 1..n : f[i] = within[i][f[i - 1]]
    <3>1. Iterated(n, S, a, within)
      BY <2>1, Iteration
    <3> QED BY <3>1, Zenon DEF Iterated
  <2>4. \A i \in 1..n : f[i] = steps[i][f[i - 1]]
    <3>1. \A i \in 1..n : f[i - 1] \in S
      OBVIOUS
    <3> QED BY <2>2, <2>3, <3>1
  <2> QED BY <2>3, <2>4
<1>3. Rec(f)
  <2>1. \A i \in 0..n : i # 0 => i \in 1..n
    OBVIOUS
  <2>2. f = [i \in 0..n |-> IF i = 0 THEN a ELSE steps[i][f[i - 1]]]
    BY <1>2, <2>1
  <2> QED BY <1>1, <2>2, Zenon
<1>4. Through(a, steps) = (CHOOSE h : Rec(h))[Len(steps)]
  BY Zenon DEF Through
<1> HIDE DEF Rec
<1>5. Rec(CHOOSE h : Rec(h))
  BY <1>3, Zenon
<1> DEFINE after == CHOOSE h : Rec(h)
<1>6. Rec(after) /\ Through(a, steps) = after[n]
  BY <1>1, <1>4, <1>5
<1> HIDE DEF after
<1>7. after = [i \in 0..n |-> IF i = 0 THEN a ELSE steps[i][after[i - 1]]]
  BY <1>1, <1>6, Zenon DEF Rec
<1>8. after[0] = a /\ \A i \in 1..n : after[i] = steps[i][after[i - 1]]
  <2>1. 0 \in 0..n /\ \A i \in 1..n : i \in 0..n /\ i # 0
    OBVIOUS
  <2>2. \A i \in 0..n : after[i] = IF i = 0 THEN a ELSE steps[i][after[i - 1]]
    BY <1>7, Zenon
  <2> QED BY <2>1, <2>2
<1>9. \A i \in 0..n : after[i] \in S
  <2> DEFINE T == {i \in 0..n : after[i] \in S}
  <2>1. 0 \in T
    BY <1>8
  <2>2. ASSUME NEW m \in 0..(n - 1), m \in T PROVE m + 1 \in T
    <3>1. m + 1 \in 1..n /\ (m + 1) - 1 = m /\ m + 1 \in 0..n
      OBVIOUS
    <3>2. after[m + 1] = steps[m + 1][after[m]]
      BY <1>8, <3>1
    <3>3. after[m] \in S
      BY <2>2
    <3> QED BY <3>1, <3>2, <3>3
  <2> HIDE DEF T
  <2>3. \A i \in 0..n : i \in T
    BY <2>1, <2>2, Induction
  <2> QED BY <2>3 DEF T
<1>10. Passes(after, a, steps, S)
  <2>1. after \in [0..n -> S]
    BY <1>7, <1>9
  <2> QED BY <1>1, <1>6, <1>8, <2>1 DEF Passes
<1> QED BY <1>1, <1>10
=============================================================================
