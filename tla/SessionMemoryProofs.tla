-------------------------- MODULE SessionMemoryProofs --------------------------
(***************************************************************************)
(* What is proved of the conversations of a process and their table, for   *)
(* every size of messages, every budget and every length of a window: the  *)
(* cached token count is never less than that of the messages and drifts   *)
(* only where counting raised, and the loop of _trim, alone or once for    *)
(* each message load adds, leaves what the definition of Trim says.        *)
(*                                                                         *)
(* TotalTokens is a fold over the places of a window in an order that is   *)
(* not known, so the argument begins with recursion over finite sets: a    *)
(* sum takes any of its elements last. From that follows that the count of *)
(* a window is that of its beginning and that of its rest, and from this   *)
(* that a round of the loop that does not raise leaves the same surplus of *)
(* the count over the window (Base, Follows).                              *)
(*                                                                         *)
(* With it the loop goes on exactly where Trim, given the budget less that *)
(* surplus, does not stop, and a round moves to the next turn block; so it *)
(* ends at the first block where Trim stops, or behind a block that cannot *)
(* be counted. Trimming before each message is added evicts only what      *)
(* trimming after the last would evict too, because a block that does not  *)
(* stop it now will not stop it with more messages behind it.              *)
(***************************************************************************)
EXTENDS SessionMemory, SublistProofs, FiniteSetTheorems

(* Finite sets *)

\* last takes an element of each set that has one.
Takes(last, D) == \A s \in SUBSET D : s # {} => last[s] \in s

\* Induction over the subsets of a finite set.
LEMMA SubsetInduction ==
  ASSUME NEW D, IsFiniteSet(D), NEW last, Takes(last, D), NEW T, {} \in T,
         \A s \in SUBSET D : s # {} /\ s \ {last[s]} \in T => s \in T
  PROVE  \A s \in SUBSET D : s \in T
<1> DEFINE N == {k \in 0..Cardinality(D) : \A s \in SUBSET D : Cardinality(s) = k => s \in T}
<1>1. Cardinality(D) \in Nat
  BY FS_CardinalityType
<1>2. \A s \in SUBSET D : IsFiniteSet(s) /\ Cardinality(s) \in 0..Cardinality(D)
  <2>1. ASSUME NEW s \in SUBSET D PROVE IsFiniteSet(s) /\ Cardinality(s) \in 0..Cardinality(D)
    <3>1. IsFiniteSet(s) /\ Cardinality(s) <= Cardinality(D)
      BY FS_Subset
    <3>2. Cardinality(s) \in Nat
      BY <3>1, FS_CardinalityType
    <3> QED BY <1>1, <3>1, <3>2
  <2> QED BY <2>1
<1>3. 0 \in N
  <2>1. \A s \in SUBSET D : Cardinality(s) = 0 => s = {}
    BY <1>2, FS_EmptySet
  <2> QED BY <1>1, <2>1
<1>4. ASSUME NEW k \in 0..(Cardinality(D) - 1), k \in N PROVE k + 1 \in N
  <2>1. ASSUME NEW s \in SUBSET D, Cardinality(s) = k + 1 PROVE s \in T
    <3>1. s # {}
      BY <1>2, <2>1, FS_EmptySet
    <3>2. last[s] \in s /\ s \ {last[s]} \in SUBSET D
      BY <3>1 DEF Takes
    <3>3. Cardinality(s \ {last[s]}) = k
      <4>1. Cardinality(s \ {last[s]}) = Cardinality(s) - 1
        BY <1>2, <3>2, FS_RemoveElement
      <4> QED BY <2>1, <4>1
    <3>4. s \ {last[s]} \in T
      BY <1>4, <3>2, <3>3
    <3> QED BY <3>1, <3>4
  <2> QED BY <1>1, <2>1
<1> HIDE DEF N
<1>5. \A k \in 0..Cardinality(D) : k \in N
  BY <1>1, <1>3, <1>4, Induction
<1> QED BY <1>2, <1>5 DEF N

\* k has its values in V.
Within(k, D, V) == \A s \in SUBSET D : k[s] \in V

\* Induction for what a function on the subsets returns.
LEMMA SubsetValues ==
  ASSUME NEW D, IsFiniteSet(D), NEW last, Takes(last, D), NEW V, NEW k, k[{}] \in V,
         \A s \in SUBSET D : s # {} /\ k[s \ {last[s]}] \in V => k[s] \in V
  PROVE  Within(k, D, V)
<1> DEFINE T == {s \in SUBSET D : k[s] \in V}
<1>1. {} \in T
  OBVIOUS
<1>2. ASSUME NEW s \in SUBSET D, s # {}, s \ {last[s]} \in T PROVE s \in T
  BY <1>2
<1> HIDE DEF T
<1>3. \A s \in SUBSET D : s \in T
  BY <1>1, <1>2, SubsetInduction
<1> QED BY <1>3 DEF T, Within

\* A function on the subsets that is defined by its value without the last element.
Recurs(h, D, V, base, last, step) ==
  /\ h \in [SUBSET D -> V]
  /\ h[{}] = base
  /\ \A s \in SUBSET D : s # {} => h[s] = step[s][h[s \ {last[s]}]]

\* Such a function exists.
LEMMA SubsetRecursion ==
  ASSUME NEW D, IsFiniteSet(D), NEW last, Takes(last, D), NEW V, NEW base \in V,
         NEW step \in [SUBSET D -> [V -> V]]
  PROVE  \E h : Recurs(h, D, V, base, last, step)
<1> DEFINE n == Cardinality(D)
           Small(k) == {s \in SUBSET D : Cardinality(s) <= k}
           Upto(h, k) == /\ h \in [Small(k) -> V] /\ h[{}] = base
                         /\ \A s \in Small(k) : s # {} => h[s] = step[s][h[s \ {last[s]}]]
           N == {k \in 0..n : \E h : Upto(h, k)}
<1>1. n \in Nat
  BY FS_CardinalityType
<1>2. \A s \in SUBSET D : IsFiniteSet(s) /\ Cardinality(s) \in Nat /\ Cardinality(s) <= n
  <2>1. ASSUME NEW s \in SUBSET D
        PROVE  IsFiniteSet(s) /\ Cardinality(s) \in Nat /\ Cardinality(s) <= n
    <3>1. IsFiniteSet(s) /\ Cardinality(s) <= Cardinality(D)
      BY FS_Subset
    <3>2. Cardinality(s) \in Nat
      BY <3>1, FS_CardinalityType
    <3> QED BY <1>1, <3>1, <3>2
  <2> QED BY <2>1
<1>3. \A s \in SUBSET D : s # {} =>
        /\ last[s] \in s /\ s \ {last[s]} \in SUBSET D
        /\ Cardinality(s \ {last[s]}) = Cardinality(s) - 1
  <2>1. ASSUME NEW s \in SUBSET D, s # {}
        PROVE  /\ last[s] \in s /\ s \ {last[s]} \in SUBSET D
               /\ Cardinality(s \ {last[s]}) = Cardinality(s) - 1
    <3>1. last[s] \in s
      BY <2>1 DEF Takes
    <3> QED BY <1>2, <3>1, FS_RemoveElement
  <2> QED BY <2>1
<1>4. \A s \in SUBSET D : Cardinality(s) = 0 <=> s = {}
  BY <1>2, FS_EmptySet
<1> HIDE DEF n
<1>5. 0 \in N
  <2> DEFINE h == [s \in Small(0) |-> base]
  <2>1. {} \in Small(0) /\ \A s \in Small(0) : s = {}
    BY <1>2, <1>4
  <2>2. h \in [Small(0) -> V] /\ h[{}] = base
    BY <2>1
  <2> HIDE DEF h
  <2>3. Upto(h, 0)
    BY <2>1, <2>2
  <2> HIDE DEF Upto
  <2> QED BY <1>1, <2>3
<1>6. ASSUME NEW k \in 0..(n - 1), k \in N PROVE k + 1 \in N
  <2>1. PICK h : Upto(h, k)
    BY <1>6
  <2> DEFINE g == [s \in Small(k + 1) |->
                     IF s \in Small(k) THEN h[s] ELSE step[s][h[s \ {last[s]}]]]
  <2>2. /\ k + 1 \in 0..n
        /\ {} \in Small(k) /\ {} \in Small(k + 1)
        /\ \A s \in Small(k) : s \in Small(k + 1)
        /\ \A s \in Small(k + 1) : s # {} => s \ {last[s]} \in Small(k)
    <3>1. k \in Nat /\ k + 1 \in 0..n
      BY <1>1
    <3>2. {} \in Small(k) /\ {} \in Small(k + 1)
      BY <1>4, <3>1
    <3>3. \A s \in Small(k) : s \in Small(k + 1)
      BY <1>2, <3>1
    <3>4. \A s \in Small(k + 1) : s # {} => s \ {last[s]} \in Small(k)
      BY <1>2, <1>3, <3>1
    <3> QED BY <3>1, <3>2, <3>3, <3>4
  <2>3. /\ h \in [Small(k) -> V] /\ h[{}] = base
        /\ \A s \in Small(k) : s # {} => h[s] = step[s][h[s \ {last[s]}]]
    BY <2>1
  <2>4. \A s \in Small(k + 1) : s # {} => step[s][h[s \ {last[s]}]] \in V
    <3>1. \A s \in Small(k + 1) : s \in SUBSET D
      OBVIOUS
    <3> HIDE DEF Small
    <3> QED BY <2>2, <2>3, <3>1
  <2> HIDE DEF Small
  <2>5. g \in [Small(k + 1) -> V] /\ \A s \in Small(k) : g[s] = h[s]
    BY <2>2, <2>3, <2>4
  <2>6. \A s \in Small(k + 1) : s # {} => g[s] = step[s][g[s \ {last[s]}]]
    <3>1. ASSUME NEW s \in Small(k + 1), s # {} PROVE g[s] = step[s][h[s \ {last[s]}]]
      BY <2>3, <3>1
    <3> QED BY <2>2, <2>5, <3>1
  <2> HIDE DEF g
  <2>7. Upto(g, k + 1)
    BY <2>2, <2>3, <2>5, <2>6
  <2> HIDE DEF Upto
  <2> QED BY <2>2, <2>7
<1>7. n \in N
  <2> HIDE DEF N
  <2>1. \A k \in 0..n : k \in N
    BY <1>1, <1>5, <1>6, Induction
  <2> QED BY <1>1, <2>1
<1>8. PICK h : Upto(h, n)
  BY <1>7
<1>9. Small(n) = SUBSET D
  BY <1>2
<1> HIDE DEF Small
<1>10. Recurs(h, D, V, base, last, step)
  BY <1>8, <1>9 DEF Recurs
<1> QED BY <1>10

(* Sums *)

\* The sums of f over the subsets of D, as the fold of the code's sum takes them.
Sums(h, D, f) ==
  /\ h \in [SUBSET D -> Nat]
  /\ h[{}] = 0
  /\ \A s \in SUBSET D : s # {} =>
       h[s] = f[CHOOSE x \in s : TRUE] + h[s \ {CHOOSE x \in s : TRUE}]

\* The last element a sum takes may be any.
Orderless(h, D, f) == \A s \in SUBSET D : \A x \in s : h[s] = f[x] + h[s \ {x}]

\* A sum does not depend on the order.
LEMMA AnyLast ==
  ASSUME NEW D, IsFiniteSet(D), NEW f \in [D -> Nat], NEW h, Sums(h, D, f)
  PROVE  Orderless(h, D, f)
<1> DEFINE AnyOf(t) == \A y \in t : h[t] = f[y] + h[t \ {y}]
           N == {k \in 0..Cardinality(D) : \A t \in SUBSET D : Cardinality(t) = k => AnyOf(t)}
<1>1. Cardinality(D) \in Nat
  BY FS_CardinalityType
<1>2. \A t \in SUBSET D : IsFiniteSet(t) /\ Cardinality(t) \in 0..Cardinality(D)
  <2>1. ASSUME NEW t \in SUBSET D PROVE IsFiniteSet(t) /\ Cardinality(t) \in 0..Cardinality(D)
    <3>1. IsFiniteSet(t) /\ Cardinality(t) <= Cardinality(D)
      BY FS_Subset
    <3>2. Cardinality(t) \in Nat
      BY <3>1, FS_CardinalityType
    <3> QED BY <1>1, <3>1, <3>2
  <2> QED BY <2>1
<1>3. 0 \in N
  <2>1. \A t \in SUBSET D : Cardinality(t) = 0 => t = {}
    BY <1>2, FS_EmptySet
  <2> QED BY <1>1, <2>1
<1>4. ASSUME NEW k \in 0..(Cardinality(D) - 1), k \in N PROVE k + 1 \in N
  <2>1. ASSUME NEW t \in SUBSET D, Cardinality(t) = k + 1, NEW y \in t
        PROVE  h[t] = f[y] + h[t \ {y}]
    <3> DEFINE c == CHOOSE z \in t : TRUE
    <3>1. c \in t /\ h[t] = f[c] + h[t \ {c}]
      BY DEF Sums
    <3> HIDE DEF c
    <3>2. CASE y = c
      BY <3>1, <3>2
    <3>3. CASE y # c
      <4>1. \A z \in t : t \ {z} \in SUBSET D /\ Cardinality(t \ {z}) = k
        <5>1. ASSUME NEW z \in t PROVE t \ {z} \in SUBSET D /\ Cardinality(t \ {z}) = k
          <6>1. Cardinality(t \ {z}) = Cardinality(t) - 1
            BY <1>2, FS_RemoveElement
          <6> QED BY <2>1, <6>1
        <5> QED BY <5>1
      <4>2. h[t \ {c}] = f[y] + h[(t \ {c}) \ {y}]
        BY <1>4, <3>1, <3>3, <4>1
      <4>3. h[t \ {y}] = f[c] + h[(t \ {y}) \ {c}]
        BY <1>4, <3>1, <3>3, <4>1
      <4>4. (t \ {c}) \ {y} = (t \ {y}) \ {c}
        OBVIOUS
      <4>5. f[y] \in Nat /\ f[c] \in Nat /\ h[(t \ {c}) \ {y}] \in Nat
        <5>1. h \in [SUBSET D -> Nat] /\ (t \ {c}) \ {y} \in SUBSET D
          BY DEF Sums
        <5>2. f[y] \in Nat /\ f[c] \in Nat
          BY <3>1
        <5> QED BY <5>1, <5>2
      <4> DEFINE rest == h[(t \ {c}) \ {y}]
      <4>6. h[t \ {c}] = f[y] + rest /\ h[t \ {y}] = f[c] + rest /\ rest \in Nat
        BY <4>2, <4>3, <4>4, <4>5, Zenon
      <4> HIDE DEF rest
      <4>7. h[t] = f[c] + (f[y] + rest)
        BY <3>1, <4>6
      <4>8. h[t] = f[y] + (f[c] + rest)
        BY <4>5, <4>6, <4>7
      <4> QED BY <4>6, <4>8
    <3> QED BY <3>2, <3>3
  <2> QED BY <1>1, <2>1
<1> HIDE DEF N
<1>5. \A k \in 0..Cardinality(D) : k \in N
  BY <1>1, <1>3, <1>4, Induction
<1> QED BY <1>2, <1>5 DEF N, Orderless

\* Both sum the subsets of D alike.
Agree(g, h, D) == \A s \in SUBSET D : g[s] = h[s]

\* Nor on the elements outside the set that is summed.
LEMMA SumsAgree ==
  ASSUME NEW D, IsFiniteSet(D), NEW E, D \subseteq E, NEW f, NEW e, NEW h, NEW g,
         \A x \in D : e[x] = f[x],
         Sums(h, D, f), Sums(g, E, e)
  PROVE  Agree(g, h, D)
<1> DEFINE last == [s \in SUBSET D |-> CHOOSE x \in s : TRUE]
           T == {s \in SUBSET D : g[s] = h[s]}
<1>1. Takes(last, D)
  BY DEF Takes
<1>2. {} \in T
  BY DEF Sums
<1>3. ASSUME NEW s \in SUBSET D, s # {}, s \ {last[s]} \in T PROVE s \in T
  <2> DEFINE c == CHOOSE x \in s : TRUE
  <2>1. c \in s /\ last[s] = c /\ h[s] = f[c] + h[s \ {c}] /\ g[s] = e[c] + g[s \ {c}]
    BY <1>3 DEF Sums
  <2> HIDE DEF c, last
  <2> QED BY <1>3, <2>1
<1> HIDE DEF T, last
<1>4. \A s \in SUBSET D : s \in T
  BY <1>1, <1>2, <1>3, SubsetInduction
<1> QED BY <1>4 DEF T, Agree

\* What a window counts is a sum over its places.
CountSums(w) ==
  \E h : Sums(h, DOMAIN w, [i \in DOMAIN w |-> w[i].size]) /\ TotalTokens(w) = h[DOMAIN w]

\* The recursive function of TotalTokens.
LEMMA TotalIsSum ==
  ASSUME NEW w, IsFiniteSet(DOMAIN w), \A i \in DOMAIN w : w[i].size \in Nat
  PROVE  CountSums(w)
<1> DEFINE D == DOMAIN w
           f == [i \in D |-> w[i].size]
           Body(h) == [s \in SUBSET D |->
                         IF s = {} THEN 0
                         ELSE w[CHOOSE x \in s : TRUE].size + h[s \ {CHOOSE x \in s : TRUE}]]
           Rec(h) == h = Body(h)
           last == [s \in SUBSET D |-> CHOOSE x \in s : TRUE]
           step == [s \in SUBSET D |->
                      [x \in Nat |-> IF s = {} THEN x ELSE f[CHOOSE y \in s : TRUE] + x]]
<1>1. /\ f \in [D -> Nat] /\ \A i \in D : f[i] = w[i].size
      /\ IsFiniteSet(D)
  OBVIOUS
<1> HIDE DEF f
<1>2. Takes(last, D)
  BY DEF Takes
<1>3. step \in [SUBSET D -> [Nat -> Nat]]
  <2>1. \A s \in SUBSET D : s # {} => (CHOOSE y \in s : TRUE) \in D
    OBVIOUS
  <2> QED BY <1>1, <2>1
<1>4. PICK h : Recurs(h, D, Nat, 0, last, step)
  <2> HIDE DEF D, last, step
  <2> QED BY <1>1, <1>2, <1>3, SubsetRecursion
<1>5. Sums(h, D, f)
  <2>1. h \in [SUBSET D -> Nat] /\ h[{}] = 0
    BY <1>4 DEF Recurs
  <2>2. ASSUME NEW s \in SUBSET D, s # {}
        PROVE  h[s] = f[CHOOSE x \in s : TRUE] + h[s \ {CHOOSE x \in s : TRUE}]
    <3>1. h[s] = step[s][h[s \ {last[s]}]]
      BY <1>4, <2>2 DEF Recurs
    <3>2. last[s] = CHOOSE x \in s : TRUE
      OBVIOUS
    <3>3. h[s \ {CHOOSE x \in s : TRUE}] \in Nat
      BY <2>1
    <3> QED BY <2>2, <3>1, <3>2, <3>3
  <2> QED BY <2>1, <2>2, Zenon DEF Sums
<1>6. Rec(h)
  <2>1. \A s \in SUBSET D : s # {} => (CHOOSE y \in s : TRUE) \in D
    OBVIOUS
  <2>2. h \in [SUBSET D -> Nat] /\ h[{}] = 0
    BY <1>5 DEF Sums
  <2>3. \A s \in SUBSET D : h[s] = IF s = {} THEN 0
          ELSE w[CHOOSE x \in s : TRUE].size + h[s \ {CHOOSE x \in s : TRUE}]
    BY <1>1, <1>5, <2>1 DEF Sums
  <2> QED BY <2>2, <2>3
<1>7. TotalTokens(w) = (CHOOSE g : Rec(g))[D]
  BY Zenon DEF TotalTokens, MapThenSumSet, MapThenFoldSet
<1>8. Rec(CHOOSE g : Rec(g))
  <2> HIDE DEF Rec
  <2> QED BY <1>6, Zenon
<1> DEFINE k == CHOOSE g : Rec(g)
<1>9. Rec(k) /\ TotalTokens(w) = k[D]
  BY <1>7, <1>8, Zenon
<1> HIDE DEF k
<1>10. k = Body(k)
  BY <1>9, Zenon
<1>11. /\ k[{}] = 0 /\ k = [s \in SUBSET D |-> k[s]]
       /\ \A s \in SUBSET D : s # {} =>
            k[s] = w[CHOOSE x \in s : TRUE].size + k[s \ {CHOOSE x \in s : TRUE}]
  <2>1. k = [s \in SUBSET D |-> k[s]]
    BY <1>10
  <2>2. \A s \in SUBSET D : Body(k)[s] = IF s = {} THEN 0
          ELSE w[CHOOSE x \in s : TRUE].size + k[s \ {CHOOSE x \in s : TRUE}]
    OBVIOUS
  <2>3. {} \in SUBSET D
    OBVIOUS
  <2> HIDE DEF Body
  <2> QED BY <1>10, <2>1, <2>2, <2>3
<1>12. \A s \in SUBSET D : k[s] \in Nat
  <2>1. k[{}] \in Nat
    BY <1>11
  <2>2. ASSUME NEW s \in SUBSET D, s # {}, k[s \ {last[s]}] \in Nat PROVE k[s] \in Nat
    <3> DEFINE c == CHOOSE x \in s : TRUE
    <3>1. c \in s /\ last[s] = c /\ k[s] = w[c].size + k[s \ {c}]
      BY <1>11, <2>2
    <3> HIDE DEF c, last
    <3>2. w[c].size \in Nat /\ k[s \ {c}] \in Nat
      BY <2>2, <3>1
    <3> QED BY <3>1, <3>2
  <2> HIDE DEF last, D
  <2>3. Within(k, D, Nat)
    BY <1>1, <1>2, <2>1, <2>2, SubsetValues
  <2> QED BY <2>3 DEF Within
<1>13. Sums(k, D, f)
  <2>1. \A s \in SUBSET D : s # {} => (CHOOSE y \in s : TRUE) \in D
    OBVIOUS
  <2>2. k \in [SUBSET D -> Nat]
    BY <1>11, <1>12
  <2>3. \A s \in SUBSET D : s # {} =>
          k[s] = f[CHOOSE x \in s : TRUE] + k[s \ {CHOOSE x \in s : TRUE}]
    BY <1>1, <1>11, <2>1
  <2> QED BY <1>11, <2>2, <2>3, Zenon DEF Sums
<1> QED BY <1>9, <1>13 DEF CountSums, f

(* Windows *)

\* A message has a size that counts.
LEMMA SizedMessages == \A m \in Message : m.size \in Nat
<1>1. \A m \in Message : m.size \in Size
  BY DEF Message
<1> QED BY <1>1, MemoryAssumption

\* The places of a window are finitely many and its messages have sizes.
LEMMA WindowSized ==
  ASSUME NEW w \in Seq(Message)
  PROVE  /\ DOMAIN w = 1..Len(w) /\ Len(w) \in Nat /\ IsFiniteSet(DOMAIN w)
         /\ \A i \in DOMAIN w : w[i] \in Message /\ w[i].size \in Nat
<1>1. DOMAIN w = 1..Len(w) /\ Len(w) \in Nat
  OBVIOUS
<1>2. IsFiniteSet(1..Len(w))
  BY <1>1, FS_Interval
<1> QED BY <1>1, <1>2, SizedMessages

\* The count of a window is a number, and an empty one counts nothing.
LEMMA CountTypes ==
  /\ TotalTokens(<<>>) = 0
  /\ \A w \in Seq(Message) : TotalTokens(w) \in Nat
<1>1. ASSUME NEW w \in Seq(Message) PROVE TotalTokens(w) \in Nat /\ (w = <<>> => TotalTokens(w) = 0)
  <2>1. CountSums(w)
    BY WindowSized, TotalIsSum
  <2>2. PICK h : Sums(h, DOMAIN w, [i \in DOMAIN w |-> w[i].size]) /\ TotalTokens(w) = h[DOMAIN w]
    BY <2>1 DEF CountSums
  <2>3. h \in [SUBSET DOMAIN w -> Nat] /\ h[{}] = 0
    BY <2>2 DEF Sums
  <2>4. w = <<>> => DOMAIN w = {}
    OBVIOUS
  <2> QED BY <2>2, <2>3, <2>4
<1>2. <<>> \in Seq(Message)
  OBVIOUS
<1> QED BY <1>1, <1>2

\* A message more counts its size more.
LEMMA CountAppend ==
  ASSUME NEW w \in Seq(Message), NEW m \in Message
  PROVE  TotalTokens(Append(w, m)) = TotalTokens(w) + m.size
<1> DEFINE v == Append(w, m)
           n == Len(w)
           f == [i \in DOMAIN w |-> w[i].size]
           e == [i \in DOMAIN v |-> v[i].size]
<1>1. /\ v \in Seq(Message) /\ Len(v) = n + 1 /\ v[n + 1] = m
      /\ \A i \in 1..n : v[i] = w[i]
  BY AppendProperties
<1>2. /\ DOMAIN w = 1..n /\ n \in Nat /\ IsFiniteSet(DOMAIN w)
      /\ \A i \in DOMAIN w : w[i].size \in Nat
  BY WindowSized
<1>3. /\ DOMAIN v = 1..(n + 1) /\ IsFiniteSet(DOMAIN v)
      /\ \A i \in DOMAIN v : v[i].size \in Nat
  BY <1>1, WindowSized
<1> HIDE DEF v, n
<1>4. PICK h : Sums(h, DOMAIN w, f) /\ TotalTokens(w) = h[DOMAIN w]
  BY <1>2, TotalIsSum DEF CountSums
<1>5. PICK g : Sums(g, DOMAIN v, e) /\ TotalTokens(v) = g[DOMAIN v]
  BY <1>3, TotalIsSum DEF CountSums
<1>6. /\ DOMAIN w \subseteq DOMAIN v /\ n + 1 \in DOMAIN v
      /\ DOMAIN v \ {n + 1} = DOMAIN w
      /\ e \in [DOMAIN v -> Nat] /\ e[n + 1] = m.size
      /\ \A i \in DOMAIN w : e[i] = f[i]
  BY <1>1, <1>2, <1>3
<1> HIDE DEF e, f
<1>7. g[DOMAIN v] = e[n + 1] + g[DOMAIN v \ {n + 1}]
  <2> DEFINE D == DOMAIN v
             x == n + 1
  <2>1. D \in SUBSET D /\ x \in D /\ IsFiniteSet(D) /\ e \in [D -> Nat] /\ Sums(g, D, e)
    BY <1>3, <1>5, <1>6
  <2> HIDE DEF D, x
  <2>2. Orderless(g, D, e)
    BY <2>1, AnyLast
  <2>3. g[D] = e[x] + g[D \ {x}]
    BY <2>1, <2>2 DEF Orderless
  <2> QED BY <2>3 DEF D, x
<1>8. g[DOMAIN w] = h[DOMAIN w]
  <2> DEFINE D == DOMAIN w
             E == DOMAIN v
  <2>1. /\ IsFiniteSet(D) /\ D \subseteq E /\ Sums(h, D, f) /\ Sums(g, E, e)
        /\ \A i \in D : e[i] = f[i]
    BY <1>2, <1>4, <1>5, <1>6
  <2> HIDE DEF D, E
  <2>2. Agree(g, h, D)
    BY <2>1, SumsAgree
  <2> QED BY <2>2 DEF Agree, D
<1>9. TotalTokens(w) \in Nat /\ m.size \in Nat
  BY CountTypes, SizedMessages
<1>10. TotalTokens(v) = m.size + TotalTokens(w)
  BY <1>4, <1>5, <1>6, <1>7, <1>8
<1> QED BY <1>9, <1>10 DEF v

\* The messages from place i to place j, one after the other.
LEMMA Piece ==
  ASSUME NEW w \in Seq(Message), NEW i \in 1..(Len(w) + 1), NEW j \in (i - 1)..Len(w)
  PROVE  /\ SubSeq(w, i, j) \in Seq(Message) /\ Len(SubSeq(w, i, j)) = j - i + 1
         /\ \A k \in 1..(j - i + 1) : SubSeq(w, i, j)[k] = w[i + k - 1]
<1>1. Len(w) \in Nat /\ \A k \in i..j : w[k] \in Message
  OBVIOUS
<1> QED BY <1>1, SubSeqProperties

\* The next message extends the piece.
LEMMA PieceNext ==
  ASSUME NEW w \in Seq(Message), NEW i \in 1..(Len(w) + 1), NEW j \in (i - 1)..(Len(w) - 1)
  PROVE  SubSeq(w, i, j + 1) = Append(SubSeq(w, i, j), w[j + 1])
<1> DEFINE p == SubSeq(w, i, j)
           q == SubSeq(w, i, j + 1)
           a == Append(p, w[j + 1])
<1>1. /\ Len(w) \in Nat /\ j \in (i - 1)..Len(w) /\ j + 1 \in (i - 1)..Len(w)
      /\ w[j + 1] \in Message
  OBVIOUS
<1>2. /\ p \in Seq(Message) /\ Len(p) = j - i + 1
      /\ \A k \in 1..(j - i + 1) : p[k] = w[i + k - 1]
  BY <1>1, Piece
<1>3. /\ q \in Seq(Message) /\ Len(q) = (j + 1) - i + 1
      /\ \A k \in 1..((j + 1) - i + 1) : q[k] = w[i + k - 1]
  BY <1>1, Piece
<1>4. /\ a \in Seq(Message) /\ Len(a) = j - i + 2 /\ a[j - i + 2] = w[j + 1]
      /\ \A k \in 1..(j - i + 1) : a[k] = p[k]
  <2> DEFINE x == w[j + 1]
  <2>0. a = Append(p, x) /\ x \in Message
    BY <1>1
  <2> HIDE DEF p, a, x
  <2>1. a \in Seq(Message) /\ Len(a) = Len(p) + 1 /\ a[Len(p) + 1] = x
        /\ \A k \in 1..Len(p) : a[k] = p[k]
    BY <1>2, <2>0, AppendProperties
  <2>2. Len(p) + 1 = j - i + 2
    BY <1>1, <1>2
  <2> QED BY <1>2, <2>1, <2>2 DEF x
<1> HIDE DEF p, q, a
<1>5. ASSUME NEW k \in 1..Len(q) PROVE q[k] = a[k]
  <2>1. CASE k = j - i + 2
    <3>1. i + k - 1 = j + 1
      BY <1>1, <2>1
    <3> QED BY <1>3, <1>4, <1>5, <2>1, <3>1
  <2>2. CASE k # j - i + 2
    <3>1. k \in 1..(j - i + 1) /\ k \in 1..((j + 1) - i + 1)
      BY <1>1, <1>3, <2>2
    <3> QED BY <1>2, <1>3, <1>4, <3>1
  <2> QED BY <2>1, <2>2
<1>6. Len(q) = Len(a)
  BY <1>1, <1>3, <1>4
<1>7. q = a
  BY <1>3, <1>4, <1>5, <1>6, SeqEqual
<1> QED BY <1>7 DEF p, q, a

\* A window counts what its beginning counts and what its rest counts.
LEMMA CountSplits ==
  ASSUME NEW w \in Seq(Message), NEW b \in 0..Len(w)
  PROVE  TotalTokens(w) = TotalTokens(SubSeq(w, 1, b)) + TotalTokens(SubSeq(w, b + 1, Len(w)))
<1> DEFINE head(k) == TotalTokens(SubSeq(w, 1, k))
           rest(k) == TotalTokens(SubSeq(w, b + 1, k))
           T == {k \in 0..(Len(w) - b) : head(b + k) = head(b) + rest(b + k)}
<1>1. Len(w) \in Nat /\ b + 1 \in 1..(Len(w) + 1) /\ 1 \in 1..(Len(w) + 1) /\ Len(w) - b \in Nat
  OBVIOUS
<1>2. \A k \in b..Len(w) : SubSeq(w, 1, k) \in Seq(Message) /\ SubSeq(w, b + 1, k) \in Seq(Message)
  <2>1. ASSUME NEW k \in b..Len(w)
        PROVE  SubSeq(w, 1, k) \in Seq(Message) /\ SubSeq(w, b + 1, k) \in Seq(Message)
    <3>1. k \in (1 - 1)..Len(w) /\ k \in ((b + 1) - 1)..Len(w)
      BY <1>1
    <3> QED BY <1>1, <3>1, Piece
  <2> QED BY <2>1
<1>3. \A k \in b..Len(w) : head(k) \in Nat /\ rest(k) \in Nat
  BY <1>2, CountTypes
<1>4. ASSUME NEW k \in b..(Len(w) - 1)
      PROVE  /\ head(k + 1) = head(k) + w[k + 1].size
             /\ rest(k + 1) = rest(k) + w[k + 1].size
             /\ w[k + 1].size \in Nat
  <2>1. /\ k \in (1 - 1)..(Len(w) - 1) /\ k \in ((b + 1) - 1)..(Len(w) - 1)
        /\ k \in b..Len(w) /\ k + 1 \in 1..Len(w)
    BY <1>1
  <2>2. w[k + 1] \in Message /\ w[k + 1].size \in Nat
    BY <2>1, SizedMessages
  <2>3. /\ SubSeq(w, 1, k + 1) = Append(SubSeq(w, 1, k), w[k + 1])
        /\ SubSeq(w, b + 1, k + 1) = Append(SubSeq(w, b + 1, k), w[k + 1])
    BY <1>1, <2>1, PieceNext
  <2> QED BY <1>2, <2>1, <2>2, <2>3, CountAppend
<1>5. rest(b) = 0
  <2>1. SubSeq(w, b + 1, b) = <<>>
    <3>1. b \in ((b + 1) - 1)..Len(w)
      BY <1>1
    <3>2. SubSeq(w, b + 1, b) \in Seq(Message) /\ Len(SubSeq(w, b + 1, b)) = b - (b + 1) + 1
      BY <1>1, <3>1, Piece
    <3>3. Len(SubSeq(w, b + 1, b)) = 0
      BY <1>1, <3>2
    <3> QED BY <3>2, <3>3, EmptySeq
  <2> QED BY <2>1, CountTypes
<1> HIDE DEF head, rest
<1>6. 0 \in T
  BY <1>1, <1>3, <1>5
<1>7. ASSUME NEW k \in 0..((Len(w) - b) - 1), k \in T PROVE k + 1 \in T
  <2>1. b + k \in b..(Len(w) - 1) /\ b + k \in b..Len(w) /\ b \in b..Len(w)
    BY <1>1
  <2>2. /\ head((b + k) + 1) = head(b + k) + w[(b + k) + 1].size
        /\ rest((b + k) + 1) = rest(b + k) + w[(b + k) + 1].size
        /\ w[(b + k) + 1].size \in Nat
    BY <1>4, <2>1
  <2>3. (b + k) + 1 = b + (k + 1) /\ k + 1 \in 0..(Len(w) - b)
    BY <1>1
  <2>4. head(b + k) = head(b) + rest(b + k) /\ rest(b + k) \in Nat /\ head(b) \in Nat
    BY <1>3, <1>7, <2>1
  <2> QED BY <2>2, <2>3, <2>4
<1> HIDE DEF T
<1>8. \A k \in 0..(Len(w) - b) : k \in T
  BY <1>1, <1>6, <1>7, Induction
<1>9. b + (Len(w) - b) = Len(w) /\ Len(w) - b \in 0..(Len(w) - b)
  BY <1>1
<1>10. head(Len(w)) = head(b) + rest(Len(w))
  BY <1>8, <1>9 DEF T
<1>11. SubSeq(w, 1, Len(w)) = w
  <2>1. Len(w) \in (1 - 1)..Len(w) /\ Len(w) - 1 + 1 = Len(w)
    BY <1>1
  <2>2. /\ SubSeq(w, 1, Len(w)) \in Seq(Message) /\ Len(SubSeq(w, 1, Len(w))) = Len(w)
        /\ \A k \in 1..Len(w) : SubSeq(w, 1, Len(w))[k] = w[1 + k - 1]
    BY <1>1, <2>1, Piece
  <2>3. \A k \in 1..Len(w) : 1 + k - 1 = k
    BY <1>1
  <2> QED BY <2>2, <2>3, SeqEqual
<1> QED BY <1>10, <1>11 DEF head, rest

(* Buffers *)

\* The part of a buffer's count that does not stand for a message of its window:
\* the system message and what was never subtracted.
Base(b) == b.total - TotalTokens(b.messages)

\* A buffer that counts its system message and its messages, if not more.
Kept ==
  {b \in [system : Nat, messages : Seq(Message), total : Nat, raised : BOOLEAN] :
     Base(b) >= b.system}

\* Its fields.
LEMMA KeptFields ==
  ASSUME NEW b \in Kept
  PROVE  /\ b \in [system : Nat, messages : Seq(Message), total : Nat, raised : BOOLEAN]
         /\ b.system \in Nat /\ b.messages \in Seq(Message) /\ b.total \in Nat
         /\ b.raised \in BOOLEAN
         /\ Base(b) >= b.system /\ Base(b) \in Nat
         /\ TotalTokens(b.messages) \in Nat /\ b.total = Base(b) + TotalTokens(b.messages)
<1>1. b \in [system : Nat, messages : Seq(Message), total : Nat, raised : BOOLEAN]
  BY DEF Kept
<1>2. b.system \in Nat /\ b.messages \in Seq(Message) /\ b.total \in Nat /\ b.raised \in BOOLEAN
  BY <1>1
<1>3. Base(b) >= b.system
  BY DEF Kept
<1>4. TotalTokens(b.messages) \in Nat
  BY <1>2, CountTypes
<1>5. Base(b) \in Nat /\ b.total = Base(b) + TotalTokens(b.messages)
  BY <1>2, <1>3, <1>4 DEF Base
<1> QED BY <1>1, <1>2, <1>3, <1>4, <1>5

Buffer == [system : Nat, messages : Seq(Message), total : Nat, raised : BOOLEAN]

\* A buffer is one of them if it counts something more than its window.
LEMMA KeptAgain ==
  ASSUME NEW c \in Buffer, NEW base \in Nat, base >= c.system,
         c.total = base + TotalTokens(c.messages)
  PROVE  c \in Kept /\ Base(c) = base
<1>1. c.messages \in Seq(Message) /\ c.total \in Nat
  BY DEF Buffer
<1>2. TotalTokens(c.messages) \in Nat
  BY <1>1, CountTypes
<1>3. Base(c) = base
  BY <1>1, <1>2 DEF Base
<1> QED BY <1>3 DEF Kept, Buffer

\* A new buffer counts its system message.
LEMMA NewKept ==
  \A n \in Nat : NewBuffer(n) \in Kept /\ Base(NewBuffer(n)) = n
<1>1. ASSUME NEW n \in Nat PROVE NewBuffer(n) \in Kept /\ Base(NewBuffer(n)) = n
  <2> DEFINE c == NewBuffer(n)
  <2>1. <<>> \in Seq(Message)
    OBVIOUS
  <2>2. /\ c \in [system : Nat, messages : Seq(Message), total : Nat, raised : BOOLEAN]
        /\ c.system = n /\ c.messages = <<>> /\ c.total = n
    BY <2>1 DEF NewBuffer
  <2> HIDE DEF c
  <2>3. Base(c) = n
    BY <2>2, CountTypes DEF Base
  <2>4. c \in Kept
    BY <2>2, <2>3 DEF Kept
  <2> QED BY <2>3, <2>4 DEF c
<1> QED BY <1>1

\* A set of places has a greatest one, and Max returns it.
LEMMA Greatest ==
  ASSUME NEW n \in Nat, NEW T \in SUBSET (1..n), T # {}
  PROVE  Max(T) \in T /\ \A y \in T : Max(T) >= y
<1> DEFINE U == {k \in Nat : \E y \in T : k = n - y}
<1>1. PICK y \in T : TRUE
  OBVIOUS
<1>2. n - y \in U /\ U \in SUBSET Nat /\ U # {}
  <2>1. y \in 1..n /\ n - y \in Nat
    OBVIOUS
  <2> QED BY <2>1
<1>3. PICK k \in U : \A j \in U : k <= j
  BY <1>2, LeastNatural
<1>4. PICK x \in T : k = n - x
  BY <1>3
<1>5. \A z \in T : x >= z
  <2>1. ASSUME NEW z \in T PROVE x >= z
    <3>1. n - z \in U /\ z \in 1..n /\ x \in 1..n
      OBVIOUS
    <3>2. k <= n - z
      BY <1>3, <3>1
    <3> QED BY <1>4, <3>1, <3>2
  <2> QED BY <2>1
<1> QED BY <1>5 DEF Max

\* The first block of a window that is not empty lies within it.
LEMMA BlockWithin ==
  ASSUME NEW w \in Seq(Message), w # <<>>
  PROVE  BlockSize(w) \in 1..Len(w)
<1> DEFINE T == {n \in DOMAIN w : \A k \in 2..n : w[k].role = "tool"}
<1>1. DOMAIN w = 1..Len(w) /\ Len(w) \in Nat /\ Len(w) # 0
  BY EmptySeq
<1>2. 1 \in T /\ T \in SUBSET (1..Len(w))
  BY <1>1
<1> HIDE DEF T
<1>3. Max(T) \in 1..Len(w)
  BY <1>1, <1>2, Greatest
<1> QED BY <1>1, <1>3 DEF BlockSize, T

\* b has become c, which stands for less of the same: the count of what is not in
\* the window is the same, unless a call raised, and then not smaller.
Follows(c, b) ==
  /\ c \in Kept /\ c.system = b.system
  /\ Base(c) >= Base(b)
  /\ ~c.raised => Base(c) = Base(b)

\* The rest of a window counts the less what is popped counts, and what cannot be
\* subtracted stays in the count (_trim, short_term.py:81-83).
LEMMA EvictFollows ==
  ASSUME NEW b \in Kept, b.messages # <<>>, ~b.raised
  PROVE  /\ Follows(EvictHead(b), b)
         /\ EvictHead(b).messages = From(b.messages, BlockSize(b.messages) + 1)
<1> DEFINE w == b.messages
           k == BlockSize(w)
           popped == SubSeq(w, 1, k)
           rest == SubSeq(w, k + 1, Len(w))
           Counts == \A i \in DOMAIN popped : Countable(popped[i])
           e == EvictHead(b)
<1>1. /\ w \in Seq(Message) /\ Len(w) \in Nat
      /\ b.total = Base(b) + TotalTokens(w) /\ b.system \in Nat /\ Base(b) \in Nat
      /\ Base(b) >= b.system
      /\ b \in [system : Nat, messages : Seq(Message), total : Nat, raised : BOOLEAN]
  BY KeptFields
<1>2. k \in 1..Len(w) /\ k \in 0..Len(w)
  BY <1>1, BlockWithin
<1>3. popped \in Seq(Message) /\ rest \in Seq(Message)
  <2>1. /\ 1 \in 1..(Len(w) + 1) /\ k \in (1 - 1)..Len(w)
        /\ k + 1 \in 1..(Len(w) + 1) /\ Len(w) \in ((k + 1) - 1)..Len(w)
    BY <1>1, <1>2
  <2> QED BY <1>1, <2>1, Piece
<1>4. TotalTokens(w) = TotalTokens(popped) + TotalTokens(rest)
  <2> HIDE DEF w, k
  <2> QED BY <1>1, <1>2, CountSplits
<1>5. TotalTokens(popped) \in Nat /\ TotalTokens(rest) \in Nat
  BY <1>3, CountTypes
<1>6. CASE Counts
  <2> DEFINE t == b.total - TotalTokens(popped)
  <2>1. e = [b EXCEPT !.messages = rest, !.total = b.total - TotalTokens(popped)]
    <3>1. e = [[b EXCEPT !.messages = rest]
                 EXCEPT !.total = [b EXCEPT !.messages = rest].total - TotalTokens(popped)]
      BY <1>6 DEF EvictHead, From
    <3>2. [b EXCEPT !.messages = rest].total = b.total
      BY <1>1
    <3> QED BY <3>1, <3>2, <1>1
  <2>2. e = [b EXCEPT !.messages = rest, !.total = t, !.raised = FALSE]
    BY <1>1, <2>1
  <2> HIDE DEF popped, rest, w, k, Counts, e
  <2>3. t = Base(b) + TotalTokens(rest)
    BY <1>1, <1>4, <1>5
  <2> HIDE DEF t
  <2>4. e \in Buffer /\ e.system = b.system /\ e.messages = rest /\ e.total = t
    <3>1. t \in Nat
      BY <1>1, <1>5, <2>3
    <3> QED BY <1>1, <1>3, <2>2, <3>1 DEF Buffer
  <2>5. e \in Kept /\ Base(e) = Base(b)
    BY <1>1, <2>3, <2>4, KeptAgain
  <2> QED BY <1>1, <2>4, <2>5 DEF Follows, e, rest, From, w, k
<1>7. CASE ~Counts
  <2> DEFINE t == b.total
             base == Base(b) + TotalTokens(popped)
  <2>1. e = [b EXCEPT !.messages = rest, !.total = t, !.raised = TRUE]
    <3>1. e = [[b EXCEPT !.messages = rest] EXCEPT !.raised = TRUE]
      BY <1>7 DEF EvictHead, From
    <3> QED BY <1>1, <3>1
  <2> HIDE DEF popped, rest, w, k, Counts, e
  <2>2. t = base + TotalTokens(rest) /\ base \in Nat /\ base >= b.system /\ base >= Base(b)
    BY <1>1, <1>4, <1>5
  <2> HIDE DEF t, base
  <2>3. /\ e \in Buffer /\ e.system = b.system /\ e.messages = rest /\ e.total = t
        /\ e.raised
    <3>1. t \in Nat
      BY <1>5, <2>2
    <3> QED BY <1>1, <1>3, <2>1, <3>1 DEF Buffer
  <2>4. e \in Kept /\ Base(e) = base
    BY <2>2, <2>3, KeptAgain
  <2> QED BY <2>2, <2>3, <2>4 DEF Follows, e, rest, From, w, k
<1> QED BY <1>6, <1>7

\* What one round of _trim's loop makes of a buffer.
Round(b, room) == IF MustEvict(b, room) THEN EvictHead(b) ELSE b

\* It keeps its count.
LEMMA RoundFollows ==
  ASSUME NEW b \in Kept, NEW room
  PROVE  Follows(Round(b, room), b)
<1>1. b.messages \in Seq(Message) /\ Base(b) \in Nat
  BY KeptFields
<1>2. MustEvict(b, room) => b.messages # <<>> /\ ~b.raised
  BY <1>1, EmptySeq DEF MustEvict
<1>3. Follows(b, b)
  BY <1>1 DEF Follows
<1> QED BY <1>2, <1>3, EvictFollows DEF Round

\* The buffers on the way through _trim's loop.
Rounds(loop, b, room) ==
  /\ loop \in [0..Len(b.messages) -> Kept]
  /\ loop[0] = b
  /\ \A n \in 1..Len(b.messages) : loop[n] = Round(loop[n - 1], room)
  /\ Trimmed(b, room) = loop[Len(b.messages)]

\* The loop of _trim.
LEMMA TrimmedRounds ==
  ASSUME NEW b \in Kept, NEW room
  PROVE  \E loop : Rounds(loop, b, room)
<1> DEFINE n == Len(b.messages)
           Body(h) == [i \in 0..Len(b.messages) |->
                         IF i = 0 THEN b
                         ELSE IF MustEvict(h[i - 1], room) THEN EvictHead(h[i - 1]) ELSE h[i - 1]]
           Rec(h) == h = Body(h)
           step == [i \in 1..n |-> [x \in Kept |-> Round(x, room)]]
<1>1. b.messages \in Seq(Message) /\ n \in Nat
  BY KeptFields
<1>2. step \in [1..n -> [Kept -> Kept]]
  BY RoundFollows DEF Follows
<1>3. PICK f \in [0..n -> Kept] : f[0] = b /\ \A i \in 1..n : f[i] = step[i][f[i - 1]]
  <2> HIDE DEF n, step
  <2>1. Iterated(n, Kept, b, step)
    BY <1>1, <1>2, Iteration
  <2> QED BY <2>1, Zenon DEF Iterated
<1>4. \A i \in 1..n : f[i] = Round(f[i - 1], room)
  <2>1. \A i \in 1..n : i - 1 \in 0..n
    BY <1>1
  <2> QED BY <1>3, <2>1
<1> HIDE DEF step
<1>5. Rec(f)
  <2>1. \A i \in 0..n : i # 0 => i \in 1..n
    BY <1>1
  <2>2. \A i \in 0..n : f[i] = IF i = 0 THEN b ELSE Round(f[i - 1], room)
    BY <1>3, <1>4, <2>1
  <2>3. f = [i \in 0..n |-> IF i = 0 THEN b ELSE Round(f[i - 1], room)]
    BY <1>3, <2>2
  <2> QED BY <2>3, Zenon DEF Round
<1>6. Trimmed(b, room) = (CHOOSE h : Rec(h))[n]
  BY Zenon DEF Trimmed
<1>7. Rec(CHOOSE h : Rec(h))
  <2> HIDE DEF Rec
  <2> QED BY <1>5, Zenon
<1> DEFINE loop == CHOOSE h : Rec(h)
<1>8. Rec(loop) /\ Trimmed(b, room) = loop[n]
  BY <1>6, <1>7, Zenon
<1> HIDE DEF loop
<1>9. loop = [i \in 0..n |-> IF i = 0 THEN b ELSE Round(loop[i - 1], room)]
  BY <1>8, Zenon DEF Round
<1> HIDE DEF Rec, n
<1>10. loop[0] = b /\ \A i \in 1..n : loop[i] = Round(loop[i - 1], room)
  <2>1. 0 \in 0..n /\ \A i \in 1..n : i \in 0..n /\ i # 0
    BY <1>1
  <2>2. \A i \in 0..n : loop[i] = IF i = 0 THEN b ELSE Round(loop[i - 1], room)
    BY <1>9, Zenon
  <2> QED BY <2>1, <2>2
<1>11. \A i \in 0..n : loop[i] \in Kept
  <2> DEFINE T == {i \in 0..n : loop[i] \in Kept}
  <2>1. 0 \in T
    BY <1>1, <1>10
  <2>2. ASSUME NEW m \in 0..(n - 1), m \in T PROVE m + 1 \in T
    <3>1. m + 1 \in 1..n /\ (m + 1) - 1 = m /\ m + 1 \in 0..n
      BY <1>1
    <3>2. loop[m + 1] = Round(loop[m], room)
      BY <1>10, <3>1
    <3>3. loop[m + 1] \in Kept
      BY <2>2, <3>2, RoundFollows DEF Follows
    <3> QED BY <3>1, <3>3
  <2> HIDE DEF T
  <2>3. \A i \in 0..n : i \in T
    BY <1>1, <2>1, <2>2, Induction
  <2> QED BY <2>3 DEF T
<1>12. loop \in [0..n -> Kept]
  BY <1>9, <1>11
<1>13. Rounds(loop, b, room)
  BY <1>8, <1>10, <1>12, Zenon DEF Rounds, n
<1> QED BY <1>13

\* The buffer with another message that can be counted, before it is trimmed.
Extended(b, m) == [b EXCEPT !.messages = Append(@, m), !.total = @ + m.size, !.raised = FALSE]

\* The buffer with another message that cannot.
Uncounted(b, m) == [b EXCEPT !.messages = Append(@, m), !.raised = TRUE]

\* Both keep their count; a message that cannot be counted counts nothing.
LEMMA ExtendedFollows ==
  ASSUME NEW b \in Kept, NEW m \in Message
  PROVE  /\ Follows(Extended(b, m), b)
         /\ Extended(b, m).messages = Append(b.messages, m) /\ ~Extended(b, m).raised
         /\ ~Countable(m) => /\ Follows(Uncounted(b, m), b)
                             /\ Uncounted(b, m).messages = Append(b.messages, m)
                             /\ Uncounted(b, m).raised
                             /\ Base(Uncounted(b, m)) = Base(b)
<1> DEFINE w == Append(b.messages, m)
           t == b.total + m.size
           o == b.total
<1>1. /\ b.messages \in Seq(Message) /\ b.total = Base(b) + TotalTokens(b.messages)
      /\ b.system \in Nat /\ TotalTokens(b.messages) \in Nat
      /\ Base(b) \in Nat /\ Base(b) >= b.system
      /\ b \in [system : Nat, messages : Seq(Message), total : Nat, raised : BOOLEAN]
  BY KeptFields
<1>2. w \in Seq(Message) /\ m.size \in Nat
  BY <1>1, SizedMessages, AppendProperties
<1>3. TotalTokens(w) = TotalTokens(b.messages) + m.size
  BY <1>1, CountAppend
<1>4. /\ Extended(b, m) = [b EXCEPT !.messages = w, !.total = t, !.raised = FALSE]
      /\ Uncounted(b, m) = [b EXCEPT !.messages = w, !.total = o, !.raised = TRUE]
  BY <1>1 DEF Extended, Uncounted
<1> HIDE DEF w
<1>5. t = Base(b) + TotalTokens(w) /\ (~Countable(m) => o = Base(b) + TotalTokens(w))
  BY <1>1, <1>2, <1>3 DEF Countable
<1> HIDE DEF t, o
<1> DEFINE c == Extended(b, m)
           d == Uncounted(b, m)
<1>6. c = [b EXCEPT !.messages = w, !.total = t, !.raised = FALSE]
      /\ d = [b EXCEPT !.messages = w, !.total = o, !.raised = TRUE]
  BY <1>4
<1> HIDE DEF c, d
<1>7. TotalTokens(w) \in Nat /\ t \in Nat
  BY <1>1, <1>2, <1>5, CountTypes
<1>8. /\ c \in Buffer /\ c.system = b.system /\ c.messages = w /\ c.total = t /\ ~c.raised
      /\ c \in Kept /\ Base(c) = Base(b)
  <2>1. c \in Buffer /\ c.system = b.system /\ c.messages = w /\ c.total = t /\ ~c.raised
    BY <1>1, <1>2, <1>6, <1>7 DEF Buffer
  <2>2. c \in Kept /\ Base(c) = Base(b)
    BY <1>1, <1>5, <2>1, KeptAgain
  <2> QED BY <2>1, <2>2
<1>9. ASSUME ~Countable(m)
      PROVE  /\ d.system = b.system /\ d.messages = w /\ d.raised
             /\ d \in Kept /\ Base(d) = Base(b)
  <2>1. o = Base(b) + TotalTokens(w) /\ o \in Nat
    BY <1>1, <1>5, <1>7, <1>9
  <2>2. d \in Buffer /\ d.system = b.system /\ d.messages = w /\ d.total = o /\ d.raised
    BY <1>1, <1>2, <1>6, <2>1 DEF Buffer
  <2>3. d \in Kept /\ Base(d) = Base(b)
    BY <1>1, <2>1, <2>2, KeptAgain
  <2> QED BY <2>2, <2>3
<1> QED BY <1>1, <1>8, <1>9 DEF w, c, d, Follows
-----------------------------------------------------------------------------
(* Trimming *)

\* A nonempty set of places has a least one, and Min returns it.
LEMMA Least ==
  ASSUME NEW T \in SUBSET Nat, T # {}
  PROVE  Min(T) \in T /\ \A y \in T : Min(T) <= y
BY LeastNatural DEF Min

\* The window from place i on.
LEMMA Suffix ==
  ASSUME NEW w \in Seq(Message), NEW i \in 1..(Len(w) + 1)
  PROVE  /\ From(w, i) \in Seq(Message) /\ Len(From(w, i)) = Len(w) - i + 1
         /\ \A k \in 1..(Len(w) - i + 1) : From(w, i)[k] = w[i + k - 1]
<1>1. Len(w) \in (i - 1)..Len(w)
  OBVIOUS
<1> QED BY <1>1, Piece DEF From

\* A suffix of a suffix.
LEMMA SuffixOfSuffix ==
  ASSUME NEW w \in Seq(Message), NEW p \in 1..Len(w), NEW i \in 1..(Len(w) - p + 2)
  PROVE  From(From(w, p), i) = From(w, p + i - 1)
<1> DEFINE u == From(w, p)
           n == Len(w)
           m == n - p + 1
           q == p + i - 1
<1>1. n \in Nat /\ m \in Nat /\ p \in 1..(n + 1) /\ q \in 1..(n + 1) /\ i \in 1..(m + 1)
  OBVIOUS
<1>2. u \in Seq(Message) /\ Len(u) = m /\ \A k \in 1..m : u[k] = w[p + k - 1]
  BY <1>1, Suffix
<1> HIDE DEF u
<1>3. /\ From(u, i) \in Seq(Message) /\ Len(From(u, i)) = m - i + 1
      /\ \A k \in 1..(m - i + 1) : From(u, i)[k] = u[i + k - 1]
  <2>1. i \in 1..(Len(u) + 1)
    BY <1>1, <1>2
  <2>2. /\ From(u, i) \in Seq(Message) /\ Len(From(u, i)) = Len(u) - i + 1
        /\ \A k \in 1..(Len(u) - i + 1) : From(u, i)[k] = u[i + k - 1]
    BY <1>2, <2>1, Suffix
  <2> HIDE DEF m
  <2> QED BY <1>2, <2>2
<1>4. /\ From(w, q) \in Seq(Message) /\ Len(From(w, q)) = n - q + 1
      /\ \A k \in 1..(n - q + 1) : From(w, q)[k] = w[q + k - 1]
  BY <1>1, Suffix
<1>5. m - i + 1 = n - q + 1
  BY <1>1
<1>6. ASSUME NEW k \in 1..(m - i + 1) PROVE From(u, i)[k] = From(w, q)[k]
  <2>1. i + k - 1 \in 1..m /\ p + (i + k - 1) - 1 = q + k - 1
    BY <1>1
  <2> QED BY <1>2, <1>3, <1>4, <1>5, <2>1
<1> HIDE DEF n, m, q
<1>7. From(u, i) = From(w, q)
  BY <1>3, <1>4, <1>5, <1>6, SeqEqual
<1> QED BY <1>7 DEF u, q

\* k messages from p on are a turn block of w.
BlockAt(w, p, k) ==
  /\ \A i \in (p + 1)..(p + k - 1) : i \notin BlockStarts(w)
  /\ p + k <= Len(w) => p + k \in BlockStarts(w)

\* _count_turn_block_size returns the size of the block a window begins with:
\* the next message is the first of the next block (short_term.py:88-108).
LEMMA BlockSizeIsBlock ==
  ASSUME NEW w \in Seq(Message), NEW p \in BlockStarts(w)
  PROVE  BlockSize(From(w, p)) \in 1..(Len(w) - p + 1) /\ BlockAt(w, p, BlockSize(From(w, p)))
<1> DEFINE u == From(w, p)
           n == Len(w)
           k == BlockSize(u)
           T == {i \in DOMAIN u : \A j \in 2..i : u[j].role = "tool"}
<1>1. p \in 1..n /\ n \in Nat /\ \A j \in 1..(p - 1) : ~InBlock(w, p, j)
  BY DEF BlockStarts
<1>2. /\ u \in Seq(Message) /\ Len(u) = n - p + 1 /\ DOMAIN u = 1..(n - p + 1)
      /\ \A i \in 1..(n - p + 1) : u[i] = w[p + i - 1]
  <2>1. p \in 1..(n + 1)
    BY <1>1
  <2> QED BY <2>1, Suffix
<1>3. u # <<>> /\ n - p + 1 \in Nat /\ 1 \in DOMAIN u /\ u[1] = w[p]
  BY <1>1, <1>2
<1> HIDE DEF u, n
<1>4. k \in 1..(n - p + 1)
  BY <1>2, <1>3, BlockWithin
<1>5. CASE AsksTools(w[p])
  <2>1. k = Max(T)
    BY <1>3, <1>5 DEF BlockSize
  <2>2. T \in SUBSET (1..(n - p + 1)) /\ 1 \in T
    BY <1>2, <1>3
  <2>3. k \in T /\ \A y \in T : k >= y
    BY <1>3, <2>1, <2>2, Greatest
  <2> HIDE DEF k
  <2>4. ASSUME NEW i \in (p + 1)..(p + k - 1) PROVE i \notin BlockStarts(w)
    <3>1. ASSUME NEW j \in (p + 1)..i PROVE w[j].role = "tool"
      <4>1. j - p + 1 \in 2..k /\ j - p + 1 \in 1..(n - p + 1) /\ p + (j - p + 1) - 1 = j
        BY <1>1, <1>4
      <4>2. u[j - p + 1].role = "tool"
        BY <2>3, <4>1
      <4> QED BY <1>2, <4>1, <4>2
    <3>2. InBlock(w, i, p) /\ p \in 1..(i - 1)
      BY <1>1, <1>4, <1>5, <3>1 DEF InBlock
    <3> QED BY <3>2 DEF BlockStarts
  <2>5. ASSUME p + k <= n PROVE p + k \in BlockStarts(w)
    <3>1. k + 1 \in 1..(n - p + 1) /\ k + 1 \notin T
      BY <1>1, <1>4, <2>3, <2>5
    <3>2. u[k + 1].role # "tool"
      <4>1. PICK j \in 2..(k + 1) : u[j].role # "tool"
        BY <1>2, <3>1
      <4>2. j \notin 2..k
        BY <2>3, <4>1
      <4>3. j = k + 1
        BY <1>4, <4>2
      <4> QED BY <4>1, <4>3
    <3>3. w[p + k].role # "tool"
      <4>1. p + (k + 1) - 1 = p + k
        BY <1>1, <1>4
      <4> QED BY <1>2, <3>1, <3>2, <4>1
    <3> DEFINE q == p + k
    <3>4. w[q].role # "tool" /\ q \in Nat /\ q \in DOMAIN w
      BY <1>1, <1>4, <2>5, <3>3 DEF n
    <3> HIDE DEF q
    <3>5. ASSUME NEW j \in 1..(q - 1), InBlock(w, q, j) PROVE FALSE
      <4>1. q \in (j + 1)..q
        BY <3>4
      <4> QED BY <3>4, <3>5, <4>1 DEF InBlock
    <3>6. q \in BlockStarts(w)
      BY <3>4, <3>5 DEF BlockStarts
    <3> QED BY <3>6 DEF q
  <2> QED BY <1>4, <2>4, <2>5 DEF BlockAt, k, u, n
<1>6. CASE ~AsksTools(w[p])
  <2>1. k = 1
    BY <1>3, <1>6 DEF BlockSize
  <2> HIDE DEF k
  <2>2. (p + 1)..(p + k - 1) = {}
    BY <1>1, <2>1
  <2>3. ASSUME p + 1 <= n PROVE p + 1 \in BlockStarts(w)
    <3>1. ASSUME NEW j \in 1..p, InBlock(w, p + 1, j) PROVE FALSE
      <4>1. j # p
        BY <1>6, <3>1 DEF InBlock
      <4>2. j \in 1..(p - 1) /\ j < p /\ AsksTools(w[j])
            /\ \A i \in (j + 1)..p : w[i].role = "tool"
        <5>1. \A i \in (j + 1)..p : i \in (j + 1)..(p + 1)
          BY <1>1
        <5> QED BY <1>1, <3>1, <4>1, <5>1 DEF InBlock
      <4>3. InBlock(w, p, j)
        BY <4>2 DEF InBlock
      <4> QED BY <1>1, <4>2, <4>3
    <3>2. (p + 1) - 1 = p /\ p + 1 \in DOMAIN w
      BY <1>1, <2>3 DEF n
    <3> QED BY <3>1, <3>2 DEF BlockStarts
  <2> QED BY <1>4, <2>1, <2>2, <2>3 DEF BlockAt, k, u, n
<1> QED BY <1>5, <1>6

\* The loop goes on exactly where Trim does not stop.
LEMMA EvictsUntilStop ==
  ASSUME NEW w \in Seq(Message), NEW p \in BlockStarts(w), NEW room \in Int,
         NEW c \in Kept, c.messages = From(w, p), ~c.raised
  PROVE  MustEvict(c, room) <=> ~StopsAt(w, p, room - Base(c))
<1> DEFINE k == BlockSize(From(w, p))
           n == Len(w)
           t == TotalTokens(From(w, p))
<1>1. p \in 1..n /\ n \in Nat /\ p \in 1..(n + 1)
  BY DEF BlockStarts
<1>2. Len(From(w, p)) = n - p + 1
  BY <1>1, Suffix
<1>3. k \in 1..(n - p + 1) /\ BlockAt(w, p, k)
  BY BlockSizeIsBlock
<1>4. c.total = Base(c) + t /\ Base(c) \in Nat /\ t \in Nat
  BY KeptFields
<1>5. MustEvict(c, room) <=> c.total > room /\ n - p + 1 > 1 /\ k < n - p + 1
  BY <1>2 DEF MustEvict
<1>6. StopsAt(w, p, room - Base(c)) <=> t <= room - Base(c) \/ \A j \in BlockStarts(w) : j <= p
  BY DEF StopsAt
<1> HIDE DEF t, k
<1>7. k < n - p + 1 <=> ~\A j \in BlockStarts(w) : j <= p
  <2>1. ASSUME k < n - p + 1 PROVE \E j \in BlockStarts(w) : ~(j <= p)
    <3>1. p + k <= n /\ ~(p + k <= p)
      BY <1>1, <1>3, <2>1
    <3> QED BY <1>3, <3>1 DEF BlockAt
  <2>2. ASSUME NEW j \in BlockStarts(w), ~(j <= p), ~(k < n - p + 1) PROVE FALSE
    <3>1. j \in 1..n
      BY DEF BlockStarts
    <3>2. j \in (p + 1)..(p + k - 1)
      BY <1>1, <1>3, <2>2, <3>1
    <3> QED BY <1>3, <3>2 DEF BlockAt
  <2> QED BY <2>1, <2>2
<1>8. c.total > room <=> ~(t <= room - Base(c))
  BY <1>4
<1>9. k < n - p + 1 => n - p + 1 > 1
  BY <1>1, <1>3
<1> QED BY <1>5, <1>6, <1>7, <1>8, <1>9

\* What the loop has left of b after n rounds: the window from a block on before
\* which Trim does not stop; either it evicts no more or it has evicted n messages.
Left(c, b, room, n) ==
  /\ Follows(c, b)
  /\ \E p \in BlockStarts(b.messages) :
       /\ c.messages = From(b.messages, p)
       /\ \A i \in BlockStarts(b.messages) :
            i < p => ~StopsAt(b.messages, i, room - Base(b))
       /\ MustEvict(c, room) => p > n

\* Once a call has raised the loop is left.
LEMMA FollowsOn ==
  ASSUME NEW b \in Kept, NEW c, Follows(c, b), ~c.raised, NEW d, Follows(d, c)
  PROVE  Follows(d, b)
BY DEF Follows

\* A round.
LEMMA RoundLeft ==
  ASSUME NEW b \in Kept, NEW room \in Int, NEW n \in Nat, NEW c, Left(c, b, room, n)
  PROVE  Left(Round(c, room), b, room, n + 1)
<1> DEFINE w == b.messages
           R == room - Base(b)
<1>0. c \in Kept /\ Follows(c, b) /\ w \in Seq(Message) /\ Base(b) \in Nat
  BY KeptFields DEF Left, Follows
<1>1. PICK p \in BlockStarts(w) :
        /\ c.messages = From(w, p)
        /\ \A i \in BlockStarts(w) : i < p => ~StopsAt(w, i, R)
        /\ MustEvict(c, room) => p > n
  BY DEF Left
<1>2. p \in 1..Len(w) /\ Len(w) \in Nat
  BY <1>0 DEF BlockStarts
<1>3. CASE ~MustEvict(c, room)
  <2>1. Round(c, room) = c
    BY <1>3 DEF Round
  <2> QED BY <1>0, <1>1, <1>3, <2>1 DEF Left
<1>4. CASE MustEvict(c, room)
  <2> DEFINE k == BlockSize(From(w, p))
             q == p + k
             d == EvictHead(c)
  <2>1. k \in 1..(Len(w) - p + 1) /\ BlockAt(w, p, k)
    BY <1>0, BlockSizeIsBlock
  <2>2. ~c.raised /\ Base(c) = Base(b)
    BY <1>0, <1>4 DEF MustEvict, Follows
  <2>3. ~StopsAt(w, p, R)
    BY <1>0, <1>1, <1>4, <2>2, EvictsUntilStop
  <2>4. Len(From(w, p)) = Len(w) - p + 1 /\ k < Len(From(w, p))
    <3>1. p \in 1..(Len(w) + 1)
      BY <1>2
    <3> QED BY <1>0, <1>1, <1>4, <3>1, Suffix DEF MustEvict
  <2>5. Follows(d, c) /\ d.messages = From(From(w, p), k + 1)
    <3>1. c.messages # <<>>
      BY <1>0, <1>4, KeptFields, EmptySeq DEF MustEvict
    <3> QED BY <1>0, <1>1, <2>2, <3>1, EvictFollows
  <2>6. Round(c, room) = d
    BY <1>4 DEF Round
  <2>7. Follows(d, b)
    BY <1>0, <2>2, <2>5, FollowsOn
  <2> HIDE DEF k, d, w, R
  <2>8. q \in 1..Len(w) /\ q \in BlockStarts(w) /\ k + 1 \in 1..(Len(w) - p + 2)
        /\ p + (k + 1) - 1 = q
    <3>1. q \in 1..Len(w) /\ q <= Len(w)
      BY <1>2, <2>1, <2>4
    <3>2. k + 1 \in 1..(Len(w) - p + 2) /\ p + (k + 1) - 1 = q
      BY <1>2, <2>1
    <3> QED BY <2>1, <3>1, <3>2 DEF BlockAt
  <2>9. d.messages = From(w, q)
    BY <1>0, <1>2, <2>5, <2>8, SuffixOfSuffix
  <2>10. ASSUME NEW i \in BlockStarts(w), i < q PROVE ~StopsAt(w, i, R)
    <3>1. i \in 1..Len(w)
      BY DEF BlockStarts
    <3>2. i < p \/ i = p \/ i \in (p + 1)..(p + k - 1)
      BY <1>2, <2>1, <2>10, <3>1
    <3> QED BY <1>1, <2>1, <2>3, <3>2 DEF BlockAt
  <2>11. q > n + 1
    BY <1>1, <1>2, <1>4, <2>1
  <2> HIDE DEF q
  <2> QED BY <2>6, <2>7, <2>8, <2>9, <2>10, <2>11 DEF Left, w, R
<1> QED BY <1>3, <1>4

\* What a call leaves of the window w: it begins at a turn block, and unless the
\* call raised it is what Trim leaves.
Leaves(c, w, room) ==
  /\ \E p \in BlockStarts(w) : c.messages = From(w, p)
  /\ ~c.raised => c.messages = Trim(w, room)

\* The whole window.
LEMMA FromFirst ==
  ASSUME NEW w \in Seq(Message), w # <<>>
  PROVE  1 \in BlockStarts(w) /\ From(w, 1) = w
<1>1. Len(w) \in Nat \ {0}
  BY EmptySeq
<1>2. 1 \in BlockStarts(w)
  BY <1>1 DEF BlockStarts
<1>3. 1 \in 1..(Len(w) + 1) /\ Len(w) - 1 + 1 = Len(w) /\ \A k \in 1..Len(w) : 1 + k - 1 = k
  BY <1>1
<1>4. /\ From(w, 1) \in Seq(Message) /\ Len(From(w, 1)) = Len(w) - 1 + 1
      /\ \A k \in 1..(Len(w) - 1 + 1) : From(w, 1)[k] = w[1 + k - 1]
  BY <1>3, Suffix
<1>5. Len(From(w, 1)) = Len(w) /\ \A k \in 1..Len(w) : From(w, 1)[k] = w[k]
  BY <1>3, <1>4
<1> QED BY <1>2, <1>4, <1>5, SeqEqual

\* The loop of _trim computes Trim: whole blocks are evicted, oldest first, until
\* the window fits or is a single block; if a block cannot be counted it stops
\* there, behind that block (short_term.py:66-83).
LEMMA LoopIsTrim ==
  ASSUME NEW b \in Kept, b.messages # <<>>, ~b.raised, NEW room \in Int
  PROVE  /\ Follows(Trimmed(b, room), b)
         /\ Leaves(Trimmed(b, room), b.messages, room - Base(b))
<1> DEFINE w == b.messages
           n == Len(w)
           R == room - Base(b)
           S == {i \in BlockStarts(w) : StopsAt(w, i, R)}
<1>1. w \in Seq(Message) /\ n \in Nat \ {0} /\ Base(b) \in Nat
  BY KeptFields, EmptySeq
<1>2. PICK loop : Rounds(loop, b, room)
  BY TrimmedRounds
<1>3. /\ loop \in [0..n -> Kept] /\ loop[0] = b /\ Trimmed(b, room) = loop[n]
      /\ \A i \in 1..n : loop[i] = Round(loop[i - 1], room)
  BY <1>2 DEF Rounds
<1> DEFINE T == {i \in 0..n : Left(loop[i], b, room, i)}
<1>4. 0 \in T
  <2>1. 1 \in BlockStarts(w) /\ From(w, 1) = w
    BY <1>1, FromFirst
  <2>2. \A i \in BlockStarts(w) : ~(i < 1)
    BY <1>1 DEF BlockStarts
  <2>3. Follows(b, b)
    BY <1>1 DEF Follows
  <2>4. Left(b, b, room, 0)
    BY <2>1, <2>2, <2>3 DEF Left
  <2> QED BY <1>1, <1>3, <2>4
<1>5. ASSUME NEW m \in 0..(n - 1), m \in T PROVE m + 1 \in T
  <2>1. m \in Nat /\ m \in 0..n /\ m + 1 \in 1..n /\ (m + 1) - 1 = m /\ m + 1 \in 0..n
    BY <1>1
  <2>2. loop[m + 1] = Round(loop[m], room)
    BY <1>3, <2>1
  <2>3. Left(loop[m], b, room, m)
    BY <1>5
  <2> HIDE DEF w
  <2>4. Left(loop[m + 1], b, room, m + 1)
    BY <2>1, <2>2, <2>3, RoundLeft
  <2> QED BY <2>1, <2>4
<1> HIDE DEF T, n
<1>6. \A m \in 0..n : m \in T
  BY <1>1, <1>4, <1>5, Induction
<1>7. n \in 0..n
  BY <1>1
<1>8. Left(loop[n], b, room, n) /\ loop[n] \in Kept
  BY <1>3, <1>6, <1>7 DEF T
<1> HIDE DEF w
<1>9. PICK p \in BlockStarts(w) :
        /\ loop[n].messages = From(w, p)
        /\ \A i \in BlockStarts(w) : i < p => ~StopsAt(w, i, R)
        /\ MustEvict(loop[n], room) => p > n
  BY <1>8 DEF Left, w
<1>10. Follows(loop[n], b)
  BY <1>8 DEF Left
<1>11. p \in 1..n
  BY <1>1 DEF BlockStarts, n
<1>12. ~MustEvict(loop[n], room)
  BY <1>1, <1>9, <1>11
<1>13. ASSUME ~loop[n].raised PROVE loop[n].messages = Trim(w, R)
  <2>1. Base(loop[n]) = Base(b)
    BY <1>10, <1>13 DEF Follows
  <2>2. StopsAt(w, p, R)
    <3>1. ~MustEvict(loop[n], room) => StopsAt(w, p, room - Base(loop[n]))
      BY <1>1, <1>8, <1>9, <1>13, EvictsUntilStop
    <3> QED BY <1>12, <2>1, <3>1
  <2>3. S \in SUBSET Nat /\ S # {} /\ p \in S
    <3>1. \A i \in BlockStarts(w) : i \in Nat
      BY <1>1 DEF BlockStarts
    <3> QED BY <2>2, <3>1
  <2>4. Min(S) \in S /\ \A y \in S : Min(S) <= y
    BY <2>3, Least
  <2>5. Min(S) = p
    <3>1. ~(Min(S) < p) /\ Min(S) <= p /\ Min(S) \in Nat /\ p \in Nat
      BY <1>9, <2>3, <2>4
    <3> QED BY <3>1
  <2> QED BY <1>9, <2>5 DEF Trim
<1> QED BY <1>3, <1>9, <1>10, <1>13 DEF w, Leaves

\* add_message trims the window it extended, or leaves it as it is if the message
\* cannot be counted (short_term.py:45-49).
LEMMA AddedLeaves ==
  ASSUME NEW b \in Kept, NEW m \in Message, NEW room \in Int
  PROVE  /\ Follows(Added(b, m, room), b)
         /\ Leaves(Added(b, m, room), Append(b.messages, m), room - Base(b))
         /\ ~Countable(m) => Added(b, m, room).raised
<1> DEFINE w == Append(b.messages, m)
<1>1. w \in Seq(Message) /\ w # <<>> /\ b \in Kept
  <2>1. b.messages \in Seq(Message)
    BY KeptFields
  <2> QED BY <2>1, AppendProperties
<1>2. CASE Countable(m)
  <2> DEFINE c == Extended(b, m)
  <2>1. Added(b, m, room) = Trimmed(c, room)
    <3>1. [b EXCEPT !.messages = Append(@, m)].total = b.total
      BY KeptFields
    <3>2. [[b EXCEPT !.messages = Append(@, m)] EXCEPT !.total = @ + m.size, !.raised = FALSE]
            = c
      BY KeptFields DEF Extended
    <3> QED BY <1>2, <3>2 DEF Added
  <2>2. Follows(c, b) /\ c.messages = w /\ ~c.raised
    BY ExtendedFollows
  <2> HIDE DEF c, w
  <2>3. c \in Kept /\ Base(c) = Base(b)
    BY <2>2 DEF Follows
  <2>4. /\ Follows(Trimmed(c, room), c)
        /\ Leaves(Trimmed(c, room), c.messages, room - Base(c))
    BY <1>1, <2>2, <2>3, LoopIsTrim
  <2>5. Follows(Trimmed(c, room), b)
    BY <2>2, <2>4, FollowsOn
  <2> QED BY <1>2, <2>1, <2>2, <2>3, <2>4, <2>5 DEF w
<1>3. CASE ~Countable(m)
  <2> DEFINE c == Uncounted(b, m)
  <2>1. Added(b, m, room) = c
    BY <1>3, KeptFields DEF Added, Uncounted
  <2>2. Follows(c, b) /\ c.messages = w /\ c.raised
    BY <1>3, ExtendedFollows
  <2> HIDE DEF c, w
  <2>3. Leaves(c, w, room - Base(b))
    BY <1>1, <2>2, FromFirst DEF Leaves
  <2> QED BY <2>1, <2>2, <2>3 DEF w
<1> QED BY <1>2, <1>3

\* add_message where Trim is the only thing that happens.
AddMessage(w, m, room) == Trim(Append(w, m), room)

\* v is w and a message more: the blocks of w begin where those of v do.
LEMMA StartsOfPrefix ==
  ASSUME NEW w \in Seq(Message), NEW m \in Message, NEW i \in 1..Len(w)
  PROVE  i \in BlockStarts(w) <=> i \in BlockStarts(Append(w, m))
<1> DEFINE v == Append(w, m)
<1>1. /\ v \in Seq(Message) /\ Len(v) = Len(w) + 1 /\ \A k \in 1..Len(w) : v[k] = w[k]
      /\ Len(w) \in Nat
  BY AppendProperties
<1> HIDE DEF v
<1>2. i \in DOMAIN w /\ i \in DOMAIN v
  BY <1>1
<1>3. ASSUME NEW j \in 1..(i - 1) PROVE InBlock(w, i, j) <=> InBlock(v, i, j)
  <2>1. j \in 1..Len(w) /\ \A k \in (j + 1)..i : k \in 1..Len(w)
    BY <1>1
  <2>2. v[j] = w[j] /\ \A k \in (j + 1)..i : v[k] = w[k]
    BY <1>1, <2>1
  <2> QED BY <2>2 DEF InBlock
<1>4. i \in BlockStarts(w) <=> i \in BlockStarts(v)
  BY <1>2, <1>3 DEF BlockStarts
<1> QED BY <1>4 DEF v

\* The blocks of a suffix that begins at a block are those of the window from
\* there on.
LEMMA StartsOfSuffix ==
  ASSUME NEW w \in Seq(Message), NEW p \in BlockStarts(w), NEW i \in p..Len(w)
  PROVE  i - p + 1 \in BlockStarts(From(w, p)) <=> i \in BlockStarts(w)
<1> DEFINE u == From(w, p)
           n == Len(w)
           o == i - p + 1
<1>1. p \in 1..n /\ n \in Nat /\ p \in 1..(n + 1) /\ \A j \in 1..(p - 1) : ~InBlock(w, p, j)
  BY DEF BlockStarts
<1>2. /\ u \in Seq(Message) /\ Len(u) = n - p + 1
      /\ \A k \in 1..(n - p + 1) : u[k] = w[p + k - 1]
  BY <1>1, Suffix
<1>3. o \in 1..(n - p + 1) /\ o \in DOMAIN u /\ i \in DOMAIN w
  BY <1>1, <1>2
<1> HIDE DEF u
<1>5. ASSUME NEW j \in p..(i - 1) PROVE InBlock(u, o, j - p + 1) <=> InBlock(w, i, j)
  <2> DEFINE l == j - p + 1
  <2>1. l \in 1..(n - p + 1) /\ p + l - 1 = j /\ l < o /\ j < i
    BY <1>1
  <2>2. u[l] = w[j]
    BY <1>2, <2>1
  <2>3. ASSUME NEW k \in (j + 1)..i PROVE k - p + 1 \in (l + 1)..o /\ u[k - p + 1] = w[k]
    <3>1. k - p + 1 \in 1..(n - p + 1) /\ p + (k - p + 1) - 1 = k /\ k - p + 1 \in (l + 1)..o
      BY <1>1
    <3>2. u[k - p + 1] = w[p + (k - p + 1) - 1]
      BY <1>2, <3>1
    <3> QED BY <3>1, <3>2
  <2>4. ASSUME NEW k \in (l + 1)..o PROVE p + k - 1 \in (j + 1)..i /\ u[k] = w[p + k - 1]
    <3>1. k \in 1..(n - p + 1) /\ p + k - 1 \in (j + 1)..i
      BY <1>1
    <3> QED BY <1>2, <3>1
  <2> HIDE DEF l, o
  <2>5. ASSUME InBlock(u, o, l) PROVE InBlock(w, i, j)
    BY <2>1, <2>2, <2>3, <2>5 DEF InBlock
  <2>6. ASSUME InBlock(w, i, j) PROVE InBlock(u, o, l)
    BY <2>1, <2>2, <2>4, <2>6 DEF InBlock
  <2> QED BY <2>5, <2>6 DEF l
<1>6. ASSUME NEW j \in 1..(p - 1) PROVE ~InBlock(w, i, j)
  <2>1. SUFFICES ASSUME InBlock(w, i, j) PROVE FALSE
    OBVIOUS
  <2>2. j < p /\ \A k \in (j + 1)..p : k \in (j + 1)..i
    BY <1>1
  <2>3. InBlock(w, p, j)
    BY <2>1, <2>2 DEF InBlock
  <2> QED BY <1>1, <2>3
<1>7. ASSUME o \in BlockStarts(u), NEW j \in 1..(i - 1) PROVE ~InBlock(w, i, j)
  <2>1. CASE j < p
    <3>1. j \in 1..(p - 1)
      BY <1>1, <2>1
    <3> QED BY <1>6, <3>1
  <2>2. CASE ~(j < p)
    <3>1. j \in p..(i - 1) /\ j - p + 1 \in 1..(o - 1)
      BY <1>1, <2>2
    <3> HIDE DEF o
    <3>2. ~InBlock(u, o, j - p + 1)
      BY <1>7, <3>1 DEF BlockStarts
    <3> QED BY <1>5, <3>1, <3>2
  <2> QED BY <2>1, <2>2
<1>8. ASSUME i \in BlockStarts(w), NEW l \in 1..(o - 1) PROVE ~InBlock(u, o, l)
  <2> DEFINE j == p + l - 1
  <2>1. j \in p..(i - 1) /\ j \in 1..(i - 1) /\ j - p + 1 = l
    BY <1>1
  <2> HIDE DEF j, o
  <2>2. ~InBlock(w, i, j)
    BY <1>8, <2>1 DEF BlockStarts
  <2>3. ~InBlock(u, o, j - p + 1)
    BY <1>5, <2>1, <2>2
  <2> QED BY <2>1, <2>3
<1> HIDE DEF o
<1>9. o \in BlockStarts(u) => i \in BlockStarts(w)
  BY <1>3, <1>7 DEF BlockStarts
<1>10. i \in BlockStarts(w) => o \in BlockStarts(u)
  BY <1>3, <1>8 DEF BlockStarts
<1> QED BY <1>9, <1>10 DEF o, u

\* Trim stops in such a suffix where it stops in the window.
LEMMA StopsInSuffix ==
  ASSUME NEW w \in Seq(Message), NEW p \in BlockStarts(w), NEW i \in p..Len(w), NEW room
  PROVE  StopsAt(From(w, p), i - p + 1, room) <=> StopsAt(w, i, room)
<1> DEFINE u == From(w, p)
           n == Len(w)
           o == i - p + 1
<1>1. p \in 1..n /\ n \in Nat /\ p \in 1..(n + 1) /\ DOMAIN w = 1..n
  BY DEF BlockStarts
<1>2. Len(u) = n - p + 1 /\ DOMAIN u = 1..(n - p + 1)
  BY <1>1, Suffix
<1>3. o \in 1..(n - p + 2) /\ p + o - 1 = i
  BY <1>1
<1>4. From(u, o) = From(w, i)
  <2> HIDE DEF o
  <2> QED BY <1>1, <1>3, SuffixOfSuffix
<1> HIDE DEF u
<1>5. ASSUME \A j \in BlockStarts(u) : j <= o, NEW j \in BlockStarts(w) PROVE j <= i
  <2>1. CASE j < p
    BY <1>1, <2>1 DEF BlockStarts
  <2>2. CASE ~(j < p)
    <3>1. j \in p..n
      BY <1>1, <2>2 DEF BlockStarts
    <3>2. j - p + 1 \in BlockStarts(u)
      BY <3>1, StartsOfSuffix DEF u
    <3>3. j - p + 1 <= o
      BY <1>5, <3>2
    <3> QED BY <1>1, <3>1, <3>3
  <2> QED BY <2>1, <2>2
<1>6. ASSUME \A j \in BlockStarts(w) : j <= i, NEW l \in BlockStarts(u) PROVE l <= o
  <2> DEFINE j == p + l - 1
  <2>1. l \in 1..(n - p + 1)
    BY <1>2 DEF BlockStarts
  <2>2. j \in p..n /\ j - p + 1 = l
    BY <1>1, <2>1
  <2> HIDE DEF j
  <2>3. j \in BlockStarts(w)
    <3>1. j - p + 1 \in BlockStarts(u)
      BY <2>2
    <3> QED BY <2>2, <3>1, StartsOfSuffix DEF u
  <2>4. j <= i
    BY <1>6, <2>3
  <2> QED BY <1>1, <2>2, <2>4
<1> HIDE DEF o
<1>7. StopsAt(u, o, room) <=> StopsAt(w, i, room)
  BY <1>4, <1>5, <1>6 DEF StopsAt
<1> QED BY <1>7 DEF o, u

\* A window that is not empty has a block at which Trim stops first.
StopsFirst(w, p, room) ==
  /\ p \in BlockStarts(w) /\ StopsAt(w, p, room) /\ Trim(w, room) = From(w, p)
  /\ \A i \in BlockStarts(w) : i < p => ~StopsAt(w, i, room)

\* It is the last one at the latest.
LEMMA FirstStop ==
  ASSUME NEW w \in Seq(Message), w # <<>>, NEW room
  PROVE  \E p : StopsFirst(w, p, room)
<1> DEFINE S == {i \in BlockStarts(w) : StopsAt(w, i, room)}
           B == BlockStarts(w)
<1>1. Len(w) \in Nat \ {0} /\ DOMAIN w = 1..Len(w)
  BY EmptySeq
<1>2. B \in SUBSET (1..Len(w)) /\ 1 \in B
  BY <1>1 DEF BlockStarts
<1>3. Max(B) \in B /\ \A y \in B : Max(B) >= y
  <2> HIDE DEF B
  <2> QED BY <1>1, <1>2, Greatest
<1>4. \A y \in B : y <= Max(B)
  BY <1>2, <1>3
<1>5. Max(B) \in S
  BY <1>3, <1>4 DEF StopsAt
<1>6. S \in SUBSET Nat /\ S # {}
  BY <1>2, <1>5
<1>7. Min(S) \in S /\ \A y \in S : Min(S) <= y
  BY <1>6, Least
<1>8. \A i \in B : i < Min(S) => ~StopsAt(w, i, room)
  <2>1. ASSUME NEW i \in B, i < Min(S), StopsAt(w, i, room) PROVE FALSE
    <3>1. i \in S /\ i \in Nat /\ Min(S) \in Nat
      BY <1>6, <1>7, <2>1
    <3>2. Min(S) <= i
      BY <1>7, <3>1
    <3> QED BY <2>1, <3>1, <3>2
  <2> QED BY <2>1
<1>9. StopsFirst(w, Min(S), room)
  BY <1>7, <1>8 DEF StopsFirst, Trim
<1> QED BY <1>9

\* That block is the only one of its kind.
LEMMA FirstStopIsTrim ==
  ASSUME NEW w \in Seq(Message), NEW p \in BlockStarts(w), NEW room, StopsAt(w, p, room),
         \A i \in BlockStarts(w) : i < p => ~StopsAt(w, i, room)
  PROVE  Trim(w, room) = From(w, p)
<1> DEFINE S == {i \in BlockStarts(w) : StopsAt(w, i, room)}
<1>1. S \in SUBSET Nat /\ S # {} /\ p \in S
  <2>1. \A i \in BlockStarts(w) : i \in Nat
    BY DEF BlockStarts
  <2> QED BY <2>1
<1>2. Min(S) \in S /\ \A y \in S : Min(S) <= y
  BY <1>1, Least
<1>3. Min(S) = p
  <2>1. ~(Min(S) < p) /\ Min(S) <= p /\ Min(S) \in Nat /\ p \in Nat
    BY <1>1, <1>2
  <2> QED BY <2>1
<1> QED BY <1>3 DEF Trim

\* Trimming a window and then, with another message, once more is trimming it
\* with that message: the first trimming evicts nothing the second would keep.
LEMMA TrimTwice ==
  ASSUME NEW w \in Seq(Message), w # <<>>, NEW m \in Message, NEW room \in Int
  PROVE  AddMessage(Trim(w, room), m, room) = AddMessage(w, m, room)
<1> DEFINE v == Append(w, m)
           n == Len(w)
<1>1. /\ v \in Seq(Message) /\ v # <<>> /\ Len(v) = n + 1 /\ v[n + 1] = m
      /\ \A k \in 1..n : v[k] = w[k]
      /\ n \in Nat
  BY AppendProperties
<1>2. PICK p : StopsFirst(w, p, room)
  BY FirstStop
<1>3. /\ p \in 1..n /\ p \in 1..(n + 1) /\ p \in BlockStarts(w)
      /\ Trim(w, room) = From(w, p)
      /\ \A i \in BlockStarts(w) : i < p => ~StopsAt(w, i, room)
  BY <1>1, <1>2 DEF StopsFirst, BlockStarts
<1>4. p \in BlockStarts(v)
  BY <1>3, StartsOfPrefix
<1>5. \A i \in 1..n : From(v, i) = Append(From(w, i), m)
  <2>1. ASSUME NEW i \in 1..n PROVE From(v, i) = Append(From(w, i), m)
    <3>1. /\ i \in 1..(Len(v) + 1) /\ n \in (i - 1)..(Len(v) - 1)
          /\ i \in 1..(n + 1) /\ n + 1 \in 1..(n + 1)
      BY <1>1
    <3> HIDE DEF v
    <3>2. SubSeq(v, i, n + 1) = Append(SubSeq(v, i, n), v[n + 1])
      BY <1>1, <3>1, PieceNext
    <3>3. SubSeq(v, i, n) = SubSeq(w, i, n)
      <4>1. n \in (i - 1)..Len(v) /\ n \in (i - 1)..n
        BY <1>1
      <4>2. /\ SubSeq(v, i, n) \in Seq(Message) /\ Len(SubSeq(v, i, n)) = n - i + 1
            /\ \A k \in 1..(n - i + 1) : SubSeq(v, i, n)[k] = v[i + k - 1]
        BY <1>1, <3>1, <4>1, Piece
      <4>3. /\ SubSeq(w, i, n) \in Seq(Message) /\ Len(SubSeq(w, i, n)) = n - i + 1
            /\ \A k \in 1..(n - i + 1) : SubSeq(w, i, n)[k] = w[i + k - 1]
        BY <3>1, <4>1, Piece
      <4>4. \A k \in 1..(n - i + 1) : i + k - 1 \in 1..n
        BY <1>1
      <4> QED BY <1>1, <4>2, <4>3, <4>4, SeqEqual
    <3> QED BY <1>1, <3>2, <3>3 DEF From
  <2> QED BY <2>1
<1>6. ASSUME NEW i \in BlockStarts(v), i < p PROVE ~StopsAt(v, i, room)
  <2>1. i \in 1..n /\ i \in 1..(n + 1)
    BY <1>1, <1>3, <1>6 DEF BlockStarts
  <2>2. i \in BlockStarts(w)
    BY <1>6, <2>1, StartsOfPrefix
  <2>3. ~StopsAt(w, i, room)
    BY <1>3, <1>6, <2>2
  <2>4. From(w, i) \in Seq(Message)
    BY <2>1, Suffix
  <2>5. TotalTokens(From(v, i)) = TotalTokens(From(w, i)) + m.size
    BY <1>5, <2>1, <2>4, CountAppend
  <2>6. TotalTokens(From(w, i)) \in Nat /\ m.size \in Nat
    BY <2>4, CountTypes, SizedMessages
  <2>7. ~(TotalTokens(From(w, i)) <= room)
    BY <2>3 DEF StopsAt
  <2>8. ~(TotalTokens(From(v, i)) <= room)
    BY <2>5, <2>6, <2>7
  <2>9. PICK j \in BlockStarts(w) : ~(j <= i)
    BY <2>3 DEF StopsAt
  <2>10. j \in BlockStarts(v)
    <3>1. j \in 1..n
      BY DEF BlockStarts
    <3> QED BY <2>9, <3>1, StartsOfPrefix
  <2> QED BY <2>8, <2>9, <2>10 DEF StopsAt
<1> DEFINE u == From(v, p)
<1>7. u = Append(From(w, p), m) /\ u \in Seq(Message) /\ u # <<>>
  <2>1. From(w, p) \in Seq(Message)
    BY <1>3, Suffix
  <2>2. Append(From(w, p), m) \in Seq(Message) /\ Append(From(w, p), m) # <<>>
    BY <2>1, AppendProperties
  <2>3. u = Append(From(w, p), m)
    BY <1>3, <1>5
  <2> QED BY <2>2, <2>3
<1> HIDE DEF v
<1>8. PICK q : StopsFirst(v, q, room)
  BY <1>1, FirstStop
<1>9. /\ q \in BlockStarts(v) /\ StopsAt(v, q, room) /\ Trim(v, room) = From(v, q)
      /\ \A i \in BlockStarts(v) : i < q => ~StopsAt(v, i, room)
      /\ q \in 1..Len(v)
  BY <1>1, <1>8 DEF StopsFirst, BlockStarts
<1>10. q \in p..Len(v)
  BY <1>1, <1>3, <1>6, <1>9
<1> DEFINE o == q - p + 1
<1>11. o \in BlockStarts(u) /\ StopsAt(u, o, room)
  BY <1>1, <1>4, <1>9, <1>10, StartsOfSuffix, StopsInSuffix
<1>12. Len(u) = Len(v) - p + 1 /\ DOMAIN u = 1..(Len(v) - p + 1)
  <2>1. p \in 1..(Len(v) + 1)
    BY <1>1, <1>3
  <2> QED BY <1>1, <2>1, Suffix
<1>13. ASSUME NEW l \in BlockStarts(u), l < o PROVE ~StopsAt(u, l, room)
  <2> DEFINE i == p + l - 1
  <2>1. l \in 1..(Len(v) - p + 1)
    BY <1>12 DEF BlockStarts
  <2>2. i \in p..Len(v) /\ i < q /\ i - p + 1 = l
    BY <1>1, <1>3, <1>10, <1>13, <2>1
  <2> HIDE DEF i
  <2>3. i \in BlockStarts(v)
    <3>1. i - p + 1 \in BlockStarts(u)
      BY <2>2
    <3> QED BY <1>1, <1>4, <2>2, <3>1, StartsOfSuffix
  <2>4. ~StopsAt(v, i, room)
    BY <1>9, <2>2, <2>3
  <2>5. ~StopsAt(u, i - p + 1, room)
    BY <1>1, <1>4, <2>2, <2>4, StopsInSuffix
  <2> QED BY <2>2, <2>5
<1>14. From(u, o) = From(v, q)
  <2>1. p \in 1..Len(v) /\ o \in 1..(Len(v) - p + 2) /\ p + o - 1 = q
    BY <1>1, <1>3, <1>10
  <2> HIDE DEF o
  <2> QED BY <1>1, <2>1, SuffixOfSuffix
<1> HIDE DEF u, o
<1>15. Trim(u, room) = From(u, o)
  BY <1>7, <1>11, <1>13, FirstStopIsTrim
<1> QED BY <1>3, <1>7, <1>9, <1>14, <1>15 DEF AddMessage, v

\* The buffers on the way through a list of additions.
Additions(h, b, ms, room) ==
  /\ h \in [0..Len(ms) -> Kept]
  /\ h[0] = [b EXCEPT !.raised = FALSE]
  /\ \A i \in 1..Len(ms) :
       h[i] = IF h[i - 1].raised THEN h[i - 1] ELSE Added(h[i - 1], ms[i], room)
  /\ AddedAll(b, ms, room) = h[Len(ms)]

\* A buffer whose last call is forgotten.
LEMMA Calmed ==
  ASSUME NEW b \in Kept
  PROVE  LET c == [b EXCEPT !.raised = FALSE]
         IN  /\ c \in Kept /\ c.system = b.system /\ c.messages = b.messages
             /\ ~c.raised /\ Base(c) = Base(b)
<1> DEFINE c == [b EXCEPT !.raised = FALSE]
<1>1. /\ b \in [system : Nat, messages : Seq(Message), total : Nat, raised : BOOLEAN]
      /\ Base(b) >= b.system
  BY KeptFields
<1>2. /\ c \in [system : Nat, messages : Seq(Message), total : Nat, raised : BOOLEAN]
      /\ c.system = b.system /\ c.messages = b.messages /\ c.total = b.total /\ ~c.raised
  BY <1>1
<1> HIDE DEF c
<1>3. Base(c) = Base(b)
  BY <1>2 DEF Base
<1>4. c \in Kept
  BY <1>1, <1>2, <1>3 DEF Kept
<1> QED BY <1>2, <1>3, <1>4 DEF c

\* The loop of load.
LEMMA AdditionsExist ==
  ASSUME NEW b \in Kept, NEW ms \in Seq(Message), NEW room \in Int
  PROVE  \E h : Additions(h, b, ms, room)
<1> DEFINE n == Len(ms)
           a == [b EXCEPT !.raised = FALSE]
           OneMore(x, i) == IF x.raised THEN x ELSE Added(x, ms[i], room)
           Body(h) == [i \in 0..Len(ms) |->
                         IF i = 0 THEN [b EXCEPT !.raised = FALSE]
                         ELSE IF h[i - 1].raised THEN h[i - 1]
                              ELSE Added(h[i - 1], ms[i], room)]
           Rec(h) == h = Body(h)
           step == [i \in 1..n |-> [x \in Kept |-> OneMore(x, i)]]
<1>1. n \in Nat /\ a \in Kept /\ \A i \in 1..n : ms[i] \in Message
  BY Calmed
<1>2. \A i \in 1..n : \A x \in Kept : OneMore(x, i) \in Kept
  BY <1>1, AddedLeaves DEF Follows
<1>3. step \in [1..n -> [Kept -> Kept]]
  BY <1>2
<1> HIDE DEF OneMore
<1>4. PICK f \in [0..n -> Kept] : f[0] = a /\ \A i \in 1..n : f[i] = step[i][f[i - 1]]
  <2> HIDE DEF n, step, a
  <2>1. Iterated(n, Kept, a, step)
    BY <1>1, <1>3, Iteration
  <2> QED BY <2>1, Zenon DEF Iterated
<1>5. \A i \in 1..n : f[i] = OneMore(f[i - 1], i)
  <2>1. \A i \in 1..n : i - 1 \in 0..n
    BY <1>1
  <2> QED BY <1>4, <2>1
<1> HIDE DEF step
<1>6. Rec(f)
  <2>1. \A i \in 0..n : i # 0 => i \in 1..n
    BY <1>1
  <2>2. \A i \in 0..n : f[i] = IF i = 0 THEN a ELSE OneMore(f[i - 1], i)
    BY <1>4, <1>5, <2>1
  <2>3. f = [i \in 0..n |-> IF i = 0 THEN a ELSE OneMore(f[i - 1], i)]
    BY <1>4, <2>2
  <2> QED BY <2>3, Zenon DEF OneMore
<1>7. AddedAll(b, ms, room) = (CHOOSE h : Rec(h))[n]
  BY Zenon DEF AddedAll
<1>8. Rec(CHOOSE h : Rec(h))
  <2> HIDE DEF Rec
  <2> QED BY <1>6, Zenon
<1> DEFINE h == CHOOSE g : Rec(g)
<1>9. Rec(h) /\ AddedAll(b, ms, room) = h[n]
  BY <1>7, <1>8, Zenon
<1> HIDE DEF h
<1>10. h = [i \in 0..n |-> IF i = 0 THEN a ELSE OneMore(h[i - 1], i)]
  BY <1>9, Zenon DEF OneMore
<1> HIDE DEF Rec, n, a
<1>11. h[0] = a /\ \A i \in 1..n : h[i] = OneMore(h[i - 1], i)
  <2>1. 0 \in 0..n /\ \A i \in 1..n : i \in 0..n /\ i # 0
    BY <1>1
  <2>2. \A i \in 0..n : h[i] = IF i = 0 THEN a ELSE OneMore(h[i - 1], i)
    BY <1>10, Zenon
  <2> QED BY <2>1, <2>2
<1>12. \A i \in 0..n : h[i] \in Kept
  <2> DEFINE T == {i \in 0..n : h[i] \in Kept}
  <2>1. 0 \in T
    BY <1>1, <1>11
  <2>2. ASSUME NEW m \in 0..(n - 1), m \in T PROVE m + 1 \in T
    <3>1. m + 1 \in 1..n /\ (m + 1) - 1 = m /\ m + 1 \in 0..n
      BY <1>1
    <3>2. h[m + 1] = OneMore(h[m], m + 1) /\ h[m] \in Kept
      BY <1>11, <2>2, <3>1
    <3> QED BY <1>2, <3>1, <3>2
  <2> HIDE DEF T
  <2>3. \A i \in 0..n : i \in T
    BY <1>1, <2>1, <2>2, Induction
  <2> QED BY <2>3 DEF T
<1>13. h \in [0..n -> Kept]
  BY <1>10, <1>12
<1>14. \A i \in 1..n : h[i] = IF h[i - 1].raised THEN h[i - 1] ELSE Added(h[i - 1], ms[i], room)
  BY <1>11 DEF OneMore
<1>15. Additions(h, b, ms, room)
  BY <1>9, <1>11, <1>13, <1>14, Zenon DEF Additions, n, a
<1> QED BY <1>15

\* Adding the messages of a window one by one, trimming each time, leaves what
\* trimming it once leaves, if none of them raises.
LEMMA ReplayedIsTrim ==
  ASSUME NEW row, row.system \in Nat, row.messages \in Seq(Message), row.messages # <<>>,
         budget \in Int, ~Replayed(row).raised
  PROVE  /\ Replayed(row) \in Kept
         /\ Replayed(row).system = row.system /\ Base(Replayed(row)) = row.system
         /\ Replayed(row).messages = Trim(row.messages, budget - row.system)
         /\ \A k \in DOMAIN row.messages : Countable(row.messages[k])
<1> DEFINE w == row.messages
           n == Len(row.messages)
           R == budget - row.system
           a == NewBuffer(row.system)
<1>1. /\ w \in Seq(Message) /\ n \in Nat \ {0} /\ w # <<>> /\ \A i \in 1..n : w[i] \in Message
      /\ DOMAIN w = 1..n
  BY EmptySeq
<1>2. a \in Kept /\ Base(a) = row.system /\ a.system = row.system /\ a.messages = <<>>
  BY NewKept DEF NewBuffer
<1>3. PICK h : Additions(h, a, w, budget)
  BY <1>1, <1>2, AdditionsExist
<1>4. /\ h \in [0..n -> Kept] /\ h[0] = [a EXCEPT !.raised = FALSE]
      /\ \A i \in 1..n :
           h[i] = IF h[i - 1].raised THEN h[i - 1] ELSE Added(h[i - 1], w[i], budget)
      /\ Replayed(row) = h[n]
  BY <1>3, Zenon DEF Additions, Replayed
<1>5. /\ h[0].system = row.system /\ h[0].messages = <<>>
      /\ ~h[0].raised /\ Base(h[0]) = row.system
  BY <1>2, <1>4, Calmed
<1> DEFINE Done(i) == /\ h[i].system = row.system /\ Base(h[i]) = row.system
                      /\ h[i].messages = Trim(SubSeq(w, 1, i), R)
                      /\ \A k \in 1..i : Countable(w[k])
           T == {i \in 0..(n - 1) : ~h[i + 1].raised => Done(i + 1)}
<1>6. \A i \in 0..(n - 1) : SubSeq(w, 1, i + 1) = Append(SubSeq(w, 1, i), w[i + 1])
  <2>1. ASSUME NEW i \in 0..(n - 1)
        PROVE  SubSeq(w, 1, i + 1) = Append(SubSeq(w, 1, i), w[i + 1])
    <3>1. 1 \in 1..(Len(w) + 1) /\ i \in (1 - 1)..(Len(w) - 1)
      BY <1>1
    <3> HIDE DEF w
    <3> QED BY <1>1, <3>1, PieceNext
  <2> QED BY <2>1
<1>7. \A i \in 0..n : SubSeq(w, 1, i) \in Seq(Message) /\ Len(SubSeq(w, 1, i)) = i
  <2>1. ASSUME NEW i \in 0..n PROVE SubSeq(w, 1, i) \in Seq(Message) /\ Len(SubSeq(w, 1, i)) = i
    <3>1. 1 \in 1..(Len(w) + 1) /\ i \in (1 - 1)..Len(w) /\ i - 1 + 1 = i
      BY <1>1
    <3> HIDE DEF w
    <3>2. SubSeq(w, 1, i) \in Seq(Message) /\ Len(SubSeq(w, 1, i)) = i - 1 + 1
      BY <1>1, <3>1, Piece
    <3> QED BY <3>1, <3>2
  <2> QED BY <2>1
<1>8. ASSUME NEW i \in 0..(n - 1), h[i].system = row.system, Base(h[i]) = row.system,
             ~h[i + 1].raised
      PROVE  /\ ~h[i].raised /\ Countable(w[i + 1])
             /\ h[i + 1].system = row.system /\ Base(h[i + 1]) = row.system
             /\ h[i + 1].messages = AddMessage(h[i].messages, w[i + 1], R)
  <2>1. i \in 0..n /\ i + 1 \in 1..n /\ (i + 1) - 1 = i
    BY <1>1
  <2>2. ~h[i].raised /\ h[i + 1] = Added(h[i], w[i + 1], budget)
    BY <1>4, <1>8, <2>1
  <2>3. h[i] \in Kept /\ w[i + 1] \in Message
    BY <1>1, <1>4, <2>1
  <2> DEFINE b == h[i]
             m == w[i + 1]
             c == h[i + 1]
  <2>4. /\ c = Added(b, m, budget) /\ b \in Kept /\ m \in Message /\ ~c.raised
        /\ b.system = row.system /\ Base(b) = row.system
    BY <1>8, <2>2, <2>3
  <2> HIDE DEF w, b, m, c
  <2>5. /\ Follows(c, b) /\ Leaves(c, Append(b.messages, m), budget - Base(b))
        /\ Countable(m)
    BY <2>4, AddedLeaves
  <2>6. /\ c.system = row.system /\ Base(c) = row.system
        /\ c.messages = AddMessage(b.messages, m, R)
    BY <2>4, <2>5 DEF Follows, Leaves, AddMessage
  <2> QED BY <2>2, <2>5, <2>6 DEF b, m, c
<1> HIDE DEF w, n
<1>9. 0 \in T
  <2>1. 0 \in 0..(n - 1) /\ 0 \in 0..n
    BY <1>1
  <2>2. SubSeq(w, 1, 0) = <<>>
    BY <1>7, <2>1, EmptySeq
  <2>3. SubSeq(w, 1, 0 + 1) = Append(<<>>, w[0 + 1])
    BY <1>6, <2>1, <2>2
  <2>4. ASSUME ~h[0 + 1].raised PROVE Done(0 + 1)
    <3>1. /\ Countable(w[0 + 1]) /\ h[0 + 1].system = row.system
          /\ Base(h[0 + 1]) = row.system
          /\ h[0 + 1].messages = AddMessage(<<>>, w[0 + 1], R)
      BY <1>5, <1>8, <2>1, <2>4
    <3>2. \A k \in 1..(0 + 1) : k = 0 + 1
      OBVIOUS
    <3> QED BY <2>3, <3>1, <3>2 DEF AddMessage
  <2> QED BY <2>1, <2>4
<1>10. ASSUME NEW i \in 0..((n - 1) - 1), i \in T PROVE i + 1 \in T
  <2> DEFINE k == i + 1
             p == SubSeq(w, 1, k)
  <2>1. k \in 0..(n - 1) /\ k \in 0..n /\ k # 0 /\ k \in 1..n /\ k + 1 \in 1..n /\ (k + 1) - 1 = k
    BY <1>1
  <2>2. p \in Seq(Message) /\ p # <<>> /\ w[k + 1] \in Message
    <3>1. w[k + 1] \in Message
      BY <1>1, <2>1
    <3>2. p \in Seq(Message) /\ Len(p) = k
      BY <1>7, <2>1
    <3> HIDE DEF p, k
    <3> QED BY <2>1, <3>1, <3>2, EmptySeq
  <2>3. SubSeq(w, 1, k + 1) = Append(p, w[k + 1])
    BY <1>6, <2>1
  <2>4. ASSUME ~h[k + 1].raised PROVE Done(k + 1)
    <3>1. ~h[k].raised
      <4>1. h[k + 1] = IF h[k].raised THEN h[k] ELSE Added(h[k], w[k + 1], budget)
        BY <1>4, <2>1
      <4> QED BY <2>4, <4>1
    <3>2. Done(k)
      BY <1>10, <3>1
    <3> HIDE DEF k, p
    <3>3. /\ Countable(w[k + 1]) /\ h[k + 1].system = row.system
          /\ Base(h[k + 1]) = row.system
          /\ h[k + 1].messages = AddMessage(h[k].messages, w[k + 1], R)
      BY <1>8, <2>1, <2>4, <3>2
    <3>4. h[k].messages = Trim(p, R)
      BY <3>2 DEF p
    <3>5. R \in Int
      OBVIOUS
    <3> HIDE DEF R
    <3>6. h[k + 1].messages = AddMessage(p, w[k + 1], R)
      BY <2>2, <3>3, <3>4, <3>5, TrimTwice
    <3>7. \A l \in 1..(k + 1) : l \in 1..k \/ l = k + 1
      BY <2>1
    <3>8. \A l \in 1..(k + 1) : Countable(w[l])
      BY <3>2, <3>3, <3>7
    <3> QED BY <2>3, <3>3, <3>6, <3>8 DEF AddMessage
  <2> HIDE DEF Done
  <2> QED BY <2>1, <2>4 DEF k
<1> HIDE DEF T
<1>11. \A i \in 0..(n - 1) : i \in T
  <2>1. n - 1 \in Nat
    BY <1>1
  <2> QED BY <1>9, <1>10, <2>1, Induction
<1>12. n - 1 \in 0..(n - 1) /\ (n - 1) + 1 = n /\ n \in 0..n
  BY <1>1
<1>13. Done(n)
  <2>1. n - 1 \in T
    BY <1>11, <1>12
  <2>2. ~h[(n - 1) + 1].raised => Done((n - 1) + 1)
    BY <2>1 DEF T
  <2> QED BY <1>4, <1>12, <2>2
<1>14. SubSeq(w, 1, n) = w
  <2>1. /\ 1 \in 1..(Len(w) + 1) /\ Len(w) \in (1 - 1)..Len(w)
        /\ Len(w) - 1 + 1 = Len(w) /\ n = Len(w)
        /\ \A k \in 1..Len(w) : 1 + k - 1 = k
    BY <1>1 DEF w, n
  <2>2. /\ SubSeq(w, 1, Len(w)) \in Seq(Message) /\ Len(SubSeq(w, 1, Len(w))) = Len(w) - 1 + 1
        /\ \A k \in 1..(Len(w) - 1 + 1) : SubSeq(w, 1, Len(w))[k] = w[1 + k - 1]
    BY <1>1, <2>1, Piece
  <2>3. Len(SubSeq(w, 1, n)) = Len(w) /\ \A k \in 1..Len(w) : SubSeq(w, 1, n)[k] = w[k]
    BY <2>1, <2>2
  <2> QED BY <1>1, <2>1, <2>2, <2>3, SeqEqual
<1>15. Replayed(row) \in Kept
  BY <1>4, <1>12
<1> QED BY <1>1, <1>4, <1>13, <1>14, <1>15 DEF w
-----------------------------------------------------------------------------
(* Sessions *)

Row == [system : Nat, messages : Seq(Message)]

MemoryInv ==
  /\ budget \in Budget
  /\ cache \in [Session -> Kept \cup {None}]
  /\ stored \in [Session -> Row \cup {None}]

\* The surplus of a buffer that follows another grows only in a call that raises.
LEMMA SurplusFollows ==
  ASSUME NEW b \in Kept, NEW c, Follows(c, b)
  PROVE  /\ Surplus(b) \in Nat /\ Surplus(c) \in Nat
         /\ Surplus(c) = Surplus(b) \/ (c.raised /\ Surplus(c) > Surplus(b))
<1>1. c \in Kept /\ c.system = b.system /\ Base(c) >= Base(b) /\ (~c.raised => Base(c) = Base(b))
  BY DEF Follows
<1>2. \A a \in Kept : Surplus(a) = Base(a) - a.system /\ Base(a) \in Nat /\ a.system \in Nat
                      /\ Base(a) >= a.system
  <2>1. ASSUME NEW a \in Kept
        PROVE  Surplus(a) = Base(a) - a.system /\ Base(a) \in Nat /\ a.system \in Nat
               /\ Base(a) >= a.system
    <3>1. /\ a.total \in Nat /\ a.system \in Nat /\ TotalTokens(a.messages) \in Nat
          /\ Base(a) \in Nat /\ Base(a) >= a.system
      BY KeptFields
    <3> QED BY <3>1 DEF Surplus, Base
  <2> QED BY <2>1
<1> QED BY <1>1, <1>2

\* A buffer made anew has none.
LEMMA SurplusNew ==
  ASSUME NEW b \in Kept, Base(b) = b.system
  PROVE  Surplus(b) = 0
<1>1. /\ b.total \in Nat /\ b.system \in Nat /\ TotalTokens(b.messages) \in Nat
  BY KeptFields
<1> QED BY <1>1 DEF Surplus, Base

\* load makes a buffer as if it were filled now; of an empty row, an empty one.
LEMMA ReplayedKept ==
  ASSUME NEW row \in Row, budget \in Int, ~Replayed(row).raised
  PROVE  Replayed(row) \in Kept /\ Base(Replayed(row)) = Replayed(row).system
<1>1. row.system \in Nat /\ row.messages \in Seq(Message)
  BY DEF Row
<1>2. CASE row.messages # <<>>
  BY <1>1, <1>2, ReplayedIsTrim
<1>3. CASE row.messages = <<>>
  <2> DEFINE a == NewBuffer(row.system)
  <2>1. a \in Kept /\ Base(a) = row.system /\ a.system = row.system
    BY <1>1, NewKept DEF NewBuffer
  <2>2. PICK h : Additions(h, a, row.messages, budget)
    BY <1>1, <2>1, AdditionsExist
  <2>3. Len(row.messages) = 0
    BY <1>3
  <2>4. Replayed(row) = [a EXCEPT !.raised = FALSE]
    BY <2>2, <2>3, Zenon DEF Additions, Replayed
  <2> HIDE DEF a
  <2> QED BY <2>1, <2>4, Calmed
<1> QED BY <1>2, <1>3

\* Every step keeps the cached buffers and the rows.
LEMMA MemoryStep == ASSUME MemoryInv, [Next]_vars PROVE MemoryInv'
<1>1. \A n \in Size \cup {0} : NewBuffer(n) \in Kept
  BY NewKept, MemoryAssumption
<1>0. budget \in Int
  BY MemoryAssumption DEF MemoryInv
<1>2. CASE Restart
  BY <1>2 DEF MemoryInv, Restart
<1>3. ASSUME NEW s \in Session, NEW system \in Size \cup {0}, GetOrCreate(s, system)
      PROVE  MemoryInv'
  <2>1. NewBuffer(system) \in Kept
    BY <1>1
  <2> QED BY <1>3, <2>1 DEF MemoryInv, GetOrCreate
<1>4. ASSUME NEW s \in Session, NEW m \in Message, AddTo(s, m) PROVE MemoryInv'
  <2>1. cache[s] \in Kept
    BY <1>4 DEF MemoryInv, AddTo
  <2>2. Added(cache[s], m, budget) \in Kept
    BY <1>0, <2>1, AddedLeaves DEF Follows
  <2> QED BY <1>4, <2>2 DEF MemoryInv, AddTo
<1>5. ASSUME NEW s \in Session, Clear(s) PROVE MemoryInv'
  <2>1. cache[s] \in Kept
    BY <1>5 DEF MemoryInv, Clear
  <2>2. Cleared(cache[s]) \in Kept
    BY <2>1, NewKept, KeptFields DEF Cleared
  <2> QED BY <1>5, <2>2 DEF MemoryInv, Clear
<1>6. ASSUME NEW s \in Session, Save(s) PROVE MemoryInv'
  <2>1. cache[s] \in Kept
    BY <1>6 DEF MemoryInv, Save
  <2>2. [system |-> cache[s].system, messages |-> cache[s].messages] \in Row
    BY <2>1, KeptFields DEF Row
  <2> QED BY <1>6, <2>2 DEF MemoryInv, Save
<1>7. ASSUME NEW s \in Session, Load(s) PROVE MemoryInv'
  <2>1. stored[s] \in Row
    BY <1>7 DEF MemoryInv, Load
  <2>2. Replayed(stored[s]) \in Kept
    BY <1>0, <1>7, <2>1, ReplayedKept DEF Load
  <2> QED BY <1>7, <2>2 DEF MemoryInv, Load
<1>8. ASSUME NEW s \in Session, Delete(s) PROVE MemoryInv'
  BY <1>8 DEF MemoryInv, Delete
<1>9. CASE UNCHANGED vars
  BY <1>9 DEF MemoryInv, vars
<1> QED BY <1>2, <1>3, <1>4, <1>5, <1>6, <1>7, <1>8, <1>9 DEF Next

\* Every buffer in the cache counts at least its system message and the messages of
\* its window, whatever raised, and every row is a window, in every reachable state
\* (manager.py:13-44, short_term.py:45-49, 75-83).
THEOREM MemoryHolds == Spec => []MemoryInv
<1>1. Init => MemoryInv
  BY DEF Init, MemoryInv
<1>2. MemoryInv /\ [Next]_vars => MemoryInv'
  BY MemoryStep
<1> QED BY <1>1, <1>2, PTL DEF Spec

\* The cached token count drifts from the messages only in a call that raises, and
\* then upwards (short_term.py:45-49, 75-83).
THEOREM CountIsKept == Spec => CountKept
<1> DEFINE Keeps(s) ==
      cache'[s] # None
         => \/ Surplus(cache'[s]) = 0
            \/ /\ cache[s] # None
               /\ \/ Surplus(cache'[s]) = Surplus(cache[s])
                  \/ cache'[s].raised /\ Surplus(cache'[s]) > Surplus(cache[s])
<1>1. ASSUME MemoryInv, [Next]_vars, NEW s \in Session PROVE Keeps(s)
  <2> SUFFICES ASSUME cache'[s] # None, cache'[s] # cache[s] PROVE Keeps(s)
    OBVIOUS
  <2>1. budget \in Int /\ cache \in [Session -> Kept \cup {None}]
    BY <1>1, MemoryAssumption DEF MemoryInv
  <2>2. ~Restart
    BY DEF Restart
  <2>3. PICK t \in Session :
          \/ \E system \in Size \cup {0} : GetOrCreate(t, system)
          \/ \E m \in Message : AddTo(t, m)
          \/ Clear(t) \/ Save(t) \/ Load(t) \/ Delete(t)
    BY <1>1, <2>2 DEF Next, vars
  <2>4. ASSUME NEW system \in Size \cup {0}, GetOrCreate(t, system) PROVE Keeps(s)
    <3>1. t = s /\ cache'[s] = NewBuffer(system)
      BY <2>1, <2>4 DEF GetOrCreate
    <3>2. system \in Nat
      BY MemoryAssumption
    <3>3. Surplus(cache'[s]) = 0
      BY <3>1, <3>2, NewKept, SurplusNew DEF NewBuffer
    <3> QED BY <3>3
  <2>5. ASSUME NEW m \in Message, AddTo(t, m) PROVE Keeps(s)
    <3>1. t = s /\ cache[s] # None /\ cache'[s] = Added(cache[s], m, budget)
      BY <2>1, <2>5 DEF AddTo
    <3>2. cache[s] \in Kept
      BY <2>1, <3>1
    <3>3. Follows(cache'[s], cache[s])
      BY <2>1, <3>1, <3>2, AddedLeaves
    <3> QED BY <3>1, <3>2, <3>3, SurplusFollows
  <2>6. ASSUME Clear(t) PROVE Keeps(s)
    <3>1. t = s /\ cache[s] # None /\ cache'[s] = NewBuffer(cache[s].system)
      BY <2>1, <2>6 DEF Clear, Cleared
    <3>2. cache[s].system \in Nat
      BY <2>1, <3>1, KeptFields
    <3>3. Surplus(cache'[s]) = 0
      BY <3>1, <3>2, NewKept, SurplusNew DEF NewBuffer
    <3> QED BY <3>3
  <2>7. ASSUME Load(t) PROVE Keeps(s)
    <3>1. t = s /\ cache'[s] = Replayed(stored[s]) /\ ~Replayed(stored[s]).raised
      BY <2>1, <2>7 DEF Load
    <3>2. stored[s] \in Row
      BY <1>1, <2>7, <3>1 DEF MemoryInv, Load
    <3>3. Surplus(cache'[s]) = 0
      BY <2>1, <3>1, <3>2, ReplayedKept, SurplusNew
    <3> QED BY <3>3
  <2>8. ~Save(t) /\ ~Delete(t)
    BY <2>1 DEF Save, Delete
  <2> HIDE DEF Keeps
  <2> QED BY <2>3, <2>4, <2>5, <2>6, <2>7, <2>8
<1>2. MemoryInv /\ [Next]_vars => [\A s \in Session : Keeps(s)]_vars
  BY <1>1
<1> QED BY <1>2, MemoryHolds, PTL DEF Spec, CountKept

\* A message that is added evicts whole blocks, oldest first, and in every step
\* that leaves a session in the cache its window stays, is emptied or is that of
\* add_message, which has raised or trimmed (short_term.py:45-49, 66-108).
THEOREM BlocksAreEvicted == Spec => EvictsWholeBlocks
<1> DEFINE Evicts(s, m) ==
      LET w == Append(cache[s].messages, m)
      IN  /\ \E i \in BlockStarts(w) : cache'[s].messages = From(w, i)
          /\ ~cache'[s].raised => cache'[s].messages = Trim(w, Room(cache[s]))
    Keeps(s) ==
      cache[s] # None /\ cache'[s] # None /\ cache'[s].messages # <<>>
        => \/ cache'[s] = cache[s]
           \/ \E m \in Message : Evicts(s, m)
<1>1. ASSUME MemoryInv, [Next]_vars, NEW s \in Session PROVE Keeps(s)
  <2> SUFFICES ASSUME cache[s] # None, cache'[s] # None, cache'[s].messages # <<>>,
                      cache'[s] # cache[s]
               PROVE  \E m \in Message : Evicts(s, m)
    OBVIOUS
  <2>1. cache[s] \in Kept /\ budget \in Int /\ cache \in [Session -> Kept \cup {None}]
    BY <1>1, MemoryAssumption DEF MemoryInv
  <2>2. ~Restart
    BY DEF Restart
  <2>3. PICK t \in Session :
          \/ \E system \in Size \cup {0} : GetOrCreate(t, system)
          \/ \E m \in Message : AddTo(t, m)
          \/ Clear(t) \/ Save(t) \/ Load(t) \/ Delete(t)
    BY <1>1, <2>2 DEF Next, vars
  <2>4. ~\E system \in Size \cup {0} : GetOrCreate(t, system)
    BY <2>1 DEF GetOrCreate
  <2>5. ~Clear(t)
    <3>1. ASSUME Clear(t) PROVE FALSE
      <4>1. t = s
        BY <2>1, <3>1 DEF Clear
      <4>2. cache'[s] = Cleared(cache[s])
        BY <2>1, <3>1, <4>1 DEF Clear
      <4> QED BY <4>2 DEF Cleared, NewBuffer
    <3> QED BY <3>1
  <2>6. ~Save(t) /\ ~Load(t) /\ ~Delete(t)
    BY <2>1 DEF Save, Load, Delete
  <2>7. PICK m \in Message : AddTo(t, m)
    BY <2>3, <2>4, <2>5, <2>6
  <2>8. t = s
    BY <2>1, <2>7 DEF AddTo
  <2>9. cache'[s] = Added(cache[s], m, budget)
    BY <2>1, <2>7, <2>8 DEF AddTo
  <2>10. Leaves(cache'[s], Append(cache[s].messages, m), budget - Base(cache[s]))
    BY <2>1, <2>9, AddedLeaves
  <2>11. Room(cache[s]) = budget - Base(cache[s])
    BY DEF Room, Base
  <2> QED BY <2>10, <2>11 DEF Leaves
<1>2. MemoryInv /\ [Next]_vars => [\A s \in Session : Keeps(s)]_vars
  BY <1>1
<1> QED BY <1>2, MemoryHolds, PTL DEF Spec, EvictsWholeBlocks

\* A session that comes back from the table has what one trimming of the saved
\* window leaves, though load adds its messages one by one, and each of them can be
\* counted (manager.py:26-39).
THEOREM ReloadsByTrimming == Spec => ReloadIsTrim
<1> DEFINE Comes(s) ==
      cache[s] = None /\ cache'[s] # None /\ cache'[s].messages # <<>>
        => /\ cache'[s].system = stored[s].system
           /\ cache'[s].messages = Trim(stored[s].messages, budget - stored[s].system)
           /\ \A k \in DOMAIN stored[s].messages : Countable(stored[s].messages[k])
<1>1. ASSUME MemoryInv, [Next]_vars, NEW s \in Session PROVE Comes(s)
  <2> SUFFICES ASSUME cache[s] = None, cache'[s] # None, cache'[s].messages # <<>>
               PROVE  Comes(s)
    OBVIOUS
  <2>1. budget \in Int /\ cache \in [Session -> Kept \cup {None}]
    BY <1>1, MemoryAssumption DEF MemoryInv
  <2>2. ~Restart
    BY DEF Restart
  <2>3. PICK t \in Session :
          \/ \E system \in Size \cup {0} : GetOrCreate(t, system)
          \/ \E m \in Message : AddTo(t, m)
          \/ Clear(t) \/ Save(t) \/ Load(t) \/ Delete(t)
    BY <1>1, <2>2 DEF Next, vars
  <2>4. ~\E system \in Size \cup {0} : GetOrCreate(t, system)
    <3>1. ASSUME NEW system \in Size \cup {0}, GetOrCreate(t, system) PROVE FALSE
      <4>1. t = s
        BY <2>1, <3>1 DEF GetOrCreate
      <4>2. cache'[s] = NewBuffer(system)
        BY <2>1, <3>1, <4>1 DEF GetOrCreate
      <4> QED BY <4>2 DEF NewBuffer
    <3> QED BY <3>1
  <2>5. ~(\E m \in Message : AddTo(t, m)) /\ ~Clear(t) /\ ~Save(t) /\ ~Delete(t)
    BY <2>1 DEF AddTo, Clear, Save, Delete
  <2>6. Load(t) /\ t = s
    BY <2>1, <2>3, <2>4, <2>5 DEF Load
  <2>7. /\ stored[s] \in Row /\ cache'[s] = Replayed(stored[s])
        /\ ~Replayed(stored[s]).raised
    BY <1>1, <2>1, <2>6 DEF Load, MemoryInv
  <2>8. stored[s].system \in Nat /\ stored[s].messages \in Seq(Message)
    BY <2>7 DEF Row
  <2>9. stored[s].messages # <<>>
    <3>1. ASSUME stored[s].messages = <<>> PROVE FALSE
      <4> DEFINE a == NewBuffer(stored[s].system)
      <4>1. a \in Kept /\ a.messages = <<>>
        BY <2>8, NewKept DEF NewBuffer
      <4>2. PICK h : Additions(h, a, stored[s].messages, budget)
        BY <2>1, <2>8, <4>1, AdditionsExist
      <4>3. Len(stored[s].messages) = 0
        BY <3>1
      <4>4. Replayed(stored[s]) = [a EXCEPT !.raised = FALSE]
        BY <4>2, <4>3, Zenon DEF Additions, Replayed
      <4> HIDE DEF a
      <4> QED BY <2>7, <4>1, <4>4, Calmed
    <3> QED BY <3>1
  <2> QED BY <2>1, <2>7, <2>8, <2>9, ReplayedIsTrim
<1>2. MemoryInv /\ [Next]_vars => [\A s \in Session : Comes(s)]_vars
  BY <1>1
<1> QED BY <1>2, MemoryHolds, PTL DEF Spec, ReloadIsTrim
=============================================================================
