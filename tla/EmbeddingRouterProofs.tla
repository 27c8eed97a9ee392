------------------------- MODULE EmbeddingRouterProofs -------------------------
(***************************************************************************)
(* The cache of the router holds each text once, with its own vector, and  *)
(* what a call found missing before it awaited the embedder is missing     *)
(* when the vectors come; for every number of calls, texts and entries.    *)
(***************************************************************************)
EXTENDS EmbeddingRouter, SublistProofs, FiniteSetTheorems

\* No text has two entries.
Distinct(es) == \A i, j \in DOMAIN es : es[i].text = es[j].text => i = j

\* Every text is filed with its own vector.
Own(es) == \A i \in DOMAIN es : es[i].vector = es[i].text

Good(es) == es \in Seq(Entry) /\ Distinct(es) /\ Own(es)

\* The first n texts are those of the last n entries.
Recent(es, texts, n) ==
  /\ n \in 0..Len(es)
  /\ \A k \in 1..n : es[Len(es) - n + k].text = texts[k]

\* new is es with an entry of text at its end, and nowhere else.
PutLast(new, es, text) ==
  /\ Good(new)
  /\ Cached(new) = Cached(es) \cup {text}
  /\ Len(new) = IF text \in Cached(es) THEN Len(es) ELSE Len(es) + 1
  /\ \A texts \in Seq(Text) : \A n \in Nat :
       /\ Recent(es, texts, n)
       /\ texts[n + 1] = text
       /\ \A k \in 1..n : texts[k] # text
       => Recent(new, texts, n + 1)
-----------------------------------------------------------------------------
(* The cache *)

\* An entry has a text and a vector.
LEMMA EntryType ==
  ASSUME NEW es \in Seq(Entry)
  PROVE  /\ Len(es) \in Nat /\ DOMAIN es = 1..Len(es)
         /\ Cached(es) = {es[i].text : i \in 1..Len(es)}
         /\ \A i \in 1..Len(es) : es[i] \in Entry /\ es[i].text \in Text
<1>1. Len(es) \in Nat /\ DOMAIN es = 1..Len(es) /\ \A i \in 1..Len(es) : es[i] \in Entry
  OBVIOUS
<1>2. Cached(es) = {es[i].text : i \in 1..Len(es)}
  BY <1>1 DEF Cached, ToSet
<1> QED BY <1>1, <1>2 DEF Entry

\* The dictionary finds the entry of a text it holds.
LEMMA Placed ==
  ASSUME NEW es \in Seq(Entry), NEW text \in Cached(es)
  PROVE  /\ Place(es, text) \in 1..Len(es) /\ es[Place(es, text)].text = text
         /\ Own(es) => VectorOf(es, text) = text
<1>1. \E i \in DOMAIN es : es[i].text = text
  BY EntryType
<1>2. Place(es, text) \in DOMAIN es /\ es[Place(es, text)].text = text
  BY <1>1 DEF Place
<1> QED BY <1>2, EntryType DEF VectorOf, Own

\* Its entries without one.
LEMMA Removed ==
  ASSUME NEW S, NEW s \in Seq(S), NEW i \in 1..Len(s)
  PROVE  /\ RemoveAt(s, i) \in Seq(S)
         /\ Len(RemoveAt(s, i)) = Len(s) - 1
         /\ \A k \in 1..(Len(s) - 1) :
              RemoveAt(s, i)[k] = IF k < i THEN s[k] ELSE s[k + 1]
<1> DEFINE a == SubSeq(s, 1, i - 1)
           b == SubSeq(s, i + 1, Len(s))
<1>1. Len(s) \in Nat /\ i \in Nat /\ \A k \in 1..Len(s) : s[k] \in S
  OBVIOUS
<1>2. a \in Seq(S) /\ Len(a) = i - 1 /\ \A k \in 1..(i - 1) : a[k] = s[k]
  <2>1. 1 \in Int /\ i - 1 \in Int /\ \A k \in 1..(i - 1) : s[k] \in S
    BY <1>1
  <2>2. /\ a \in Seq(S) /\ Len(a) = IF 1 <= i - 1 THEN (i - 1) - 1 + 1 ELSE 0
        /\ \A k \in 1..((i - 1) - 1 + 1) : a[k] = s[1 + k - 1]
    BY <2>1, SubSeqProperties
  <2> HIDE DEF a
  <2> QED BY <1>1, <2>2
<1>3. b \in Seq(S) /\ Len(b) = Len(s) - i /\ \A k \in 1..(Len(s) - i) : b[k] = s[k + i]
  <2>1. i + 1 \in Int /\ Len(s) \in Int /\ \A k \in (i + 1)..Len(s) : s[k] \in S
    BY <1>1
  <2>2. /\ b \in Seq(S) /\ Len(b) = IF i + 1 <= Len(s) THEN Len(s) - (i + 1) + 1 ELSE 0
        /\ \A k \in 1..(Len(s) - (i + 1) + 1) : b[k] = s[(i + 1) + k - 1]
    BY <2>1, SubSeqProperties
  <2> HIDE DEF b
  <2> QED BY <1>1, <2>2
<1> HIDE DEF a, b
<1>4. /\ a \o b \in Seq(S) /\ Len(a \o b) = Len(a) + Len(b)
      /\ \A k \in 1..(Len(a) + Len(b)) :
           (a \o b)[k] = IF k <= Len(a) THEN a[k] ELSE b[k - Len(a)]
  BY <1>2, <1>3, ConcatProperties
<1>5. RemoveAt(s, i) = a \o b
  BY DEF RemoveAt, a, b
<1>6. ASSUME NEW k \in 1..(Len(s) - 1)
      PROVE  (a \o b)[k] = IF k < i THEN s[k] ELSE s[k + 1]
  <2>1. k \in 1..(Len(a) + Len(b))
    BY <1>1, <1>2, <1>3
  <2>2. CASE k < i
    BY <1>1, <1>2, <1>3, <1>4, <2>1, <2>2
  <2>3. CASE ~(k < i)
    <3>1. k - (i - 1) \in 1..(Len(s) - i) /\ (k - (i - 1)) + i = k + 1
      BY <1>1, <2>3
    <3> QED BY <1>1, <1>2, <1>3, <1>4, <2>1, <2>3, <3>1
  <2> QED BY <2>2, <2>3
<1>7. Len(a \o b) = Len(s) - 1
  BY <1>1, <1>2, <1>3, <1>4
<1> DEFINE new == a \o b
<1>8. /\ new \in Seq(S) /\ Len(new) = Len(s) - 1 /\ RemoveAt(s, i) = new
      /\ \A k \in 1..(Len(s) - 1) : new[k] = IF k < i THEN s[k] ELSE s[k + 1]
  BY <1>4, <1>5, <1>6, <1>7
<1> HIDE DEF new
<1> QED BY <1>8

\* A text is taken out: the others stay, in their order.
LEMMA WithoutText ==
  ASSUME NEW es \in Seq(Entry), NEW text \in Text
  PROVE  Without(es, text) \in Seq(Entry)
<1>1. CASE text \in Cached(es)
  BY <1>1, Placed, Removed DEF Without
<1>2. CASE text \notin Cached(es)
  BY <1>2 DEF Without
<1> QED BY <1>1, <1>2

\* Where the k-th entry was before the one at p was taken out.
Shift(p, k) == IF k < p THEN k ELSE k + 1

\* An entry that is taken out was at its place; those behind it move up by one.
LEMMA WithoutShifts ==
  ASSUME NEW es \in Seq(Entry), Distinct(es), NEW text \in Cached(es)
  PROVE  /\ Place(es, text) \in 1..Len(es)
         /\ Len(Without(es, text)) = Len(es) - 1
         /\ \A k \in 1..(Len(es) - 1) :
              /\ Without(es, text)[k] = es[Shift(Place(es, text), k)]
              /\ Shift(Place(es, text), k) \in 1..Len(es)
              /\ es[Shift(Place(es, text), k)].text # text
         /\ Cached(Without(es, text)) = Cached(es) \ {text}
<1> DEFINE p == Place(es, text)
           new == Without(es, text)
<1>1. p \in 1..Len(es) /\ es[p].text = text /\ Len(es) \in Nat /\ DOMAIN es = 1..Len(es)
  BY Placed, EntryType
<1>2. /\ new \in Seq(Entry) /\ Len(new) = Len(es) - 1
      /\ \A k \in 1..(Len(es) - 1) : new[k] = IF k < p THEN es[k] ELSE es[k + 1]
  BY <1>1, Removed DEF Without
<1> HIDE DEF p, new
<1>3. ASSUME NEW k \in 1..(Len(es) - 1)
      PROVE  /\ new[k] = es[Shift(p, k)] /\ Shift(p, k) \in 1..Len(es)
             /\ es[Shift(p, k)].text # text
  <2>1. Shift(p, k) \in 1..Len(es) /\ Shift(p, k) # p
    BY <1>1 DEF Shift
  <2>2. new[k] = es[Shift(p, k)]
    BY <1>2 DEF Shift
  <2> QED BY <1>1, <2>1, <2>2 DEF Distinct
<1>4. Cached(new) = {new[k].text : k \in 1..(Len(es) - 1)}
      /\ Cached(es) = {es[k].text : k \in 1..Len(es)}
  BY <1>2, EntryType
<1>5. \A i \in 1..Len(es) : i # p => \E k \in 1..(Len(es) - 1) : Shift(p, k) = i
  <2> SUFFICES ASSUME NEW i \in 1..Len(es), i # p
               PROVE  \E k \in 1..(Len(es) - 1) : Shift(p, k) = i
    OBVIOUS
  <2>1. CASE i < p
    <3>1. i \in 1..(Len(es) - 1) /\ Shift(p, i) = i
      BY <1>1, <2>1 DEF Shift
    <3> QED BY <3>1
  <2>2. CASE ~(i < p)
    <3>1. i - 1 \in 1..(Len(es) - 1) /\ Shift(p, i - 1) = i
      BY <1>1, <2>2 DEF Shift
    <3> QED BY <3>1
  <2> QED BY <2>1, <2>2
<1>6. Cached(new) = Cached(es) \ {text}
  <2>1. \A x \in Cached(new) : x \in Cached(es) /\ x # text
    BY <1>3, <1>4
  <2>2. ASSUME NEW x \in Cached(es), x # text PROVE x \in Cached(new)
    <3>1. PICK i \in 1..Len(es) : x = es[i].text
      BY <1>4
    <3>2. i # p
      BY <1>1, <2>2, <3>1
    <3>3. PICK k \in 1..(Len(es) - 1) : Shift(p, k) = i
      BY <1>5, <3>2
    <3> QED BY <1>3, <1>4, <3>1, <3>3
  <2> QED BY <2>1, <2>2
<1> QED BY <1>1, <1>2, <1>3, <1>6 DEF p, new

\* What a dictionary entry does: the old one goes, the new one is the last.
LEMMA Put ==
  ASSUME NEW es, Good(es), NEW text \in Text
  PROVE  PutLast(Append(Without(es, text), [text |-> text, vector |-> text]), es, text)
<1> DEFINE rest == Without(es, text)
           entry == [text |-> text, vector |-> text]
           new == Append(rest, entry)
           at == IF text \in Cached(es)
                 THEN [k \in 1..Len(rest) |-> Shift(Place(es, text), k)]
                 ELSE [k \in 1..Len(rest) |-> k]
<1>1. es \in Seq(Entry) /\ Distinct(es) /\ Own(es) /\ rest \in Seq(Entry)
  BY WithoutText DEF Good
<1>2. Len(es) \in Nat /\ DOMAIN es = 1..Len(es) /\ Cached(es) = {es[i].text : i \in 1..Len(es)}
  BY <1>1, EntryType
\* Where each entry left was, and that none was of this text.
<1>3. /\ Len(rest) = IF text \in Cached(es) THEN Len(es) - 1 ELSE Len(es)
      /\ \A k \in 1..Len(rest) :
           rest[k] = es[at[k]] /\ at[k] \in 1..Len(es) /\ es[at[k]].text # text
      /\ Cached(rest) = Cached(es) \ {text}
  <2>1. CASE text \in Cached(es)
    <3> DEFINE p == Place(es, text)
    <3>1. /\ p \in 1..Len(es)
          /\ Len(rest) = Len(es) - 1
          /\ \A k \in 1..(Len(es) - 1) :
               /\ rest[k] = es[Shift(p, k)]
               /\ Shift(p, k) \in 1..Len(es)
               /\ es[Shift(p, k)].text # text
          /\ Cached(rest) = Cached(es) \ {text}
      BY <1>1, <2>1, WithoutShifts
    <3>2. \A k \in 1..Len(rest) : at[k] = Shift(p, k)
      BY <2>1
    <3> HIDE DEF p, rest, at
    <3> QED BY <2>1, <3>1, <3>2
  <2>2. CASE text \notin Cached(es)
    <3>1. rest = es
      BY <2>2 DEF Without
    <3>2. \A k \in 1..Len(rest) : at[k] = k
      BY <2>2
    <3> HIDE DEF rest, at
    <3> QED BY <1>2, <2>2, <3>1, <3>2
  <2> QED BY <2>1, <2>2
<1>4. /\ \A j, k \in 1..Len(rest) : at[j] = at[k] => j = k
      /\ \A k \in 1..Len(rest) :
           /\ text \in Cached(es) => at[k] = Shift(Place(es, text), k)
           /\ text \notin Cached(es) => at[k] = k
  <2>1. Len(rest) \in Nat
    BY <1>1, EntryType
  <2>2. text \in Cached(es) => Place(es, text) \in Nat
    BY <1>1, <1>2, Placed
  <2>3. \A k \in 1..Len(rest) :
          /\ text \in Cached(es) => at[k] = Shift(Place(es, text), k)
          /\ text \notin Cached(es) => at[k] = k
    OBVIOUS
  <2> HIDE DEF rest, at
  <2>4. \A j, k \in 1..Len(rest) : at[j] = at[k] => j = k
    <3>1. CASE text \in Cached(es)
      BY <2>1, <2>2, <2>3, <3>1 DEF Shift
    <3>2. CASE text \notin Cached(es)
      BY <2>3, <3>2
    <3> QED BY <3>1, <3>2
  <2> QED BY <2>3, <2>4
<1> HIDE DEF rest, at
<1>5. entry \in Entry /\ entry.text = text /\ entry.vector = text
  BY DEF Entry
<1> HIDE DEF entry
<1>6. /\ new \in Seq(Entry) /\ Len(new) = Len(rest) + 1 /\ new[Len(rest) + 1] = entry
      /\ \A k \in 1..Len(rest) : new[k] = rest[k]
      /\ Len(rest) \in Nat /\ DOMAIN new = 1..(Len(rest) + 1)
  <2>1. Len(rest) \in Nat
    BY <1>1, EntryType
  <2>2. /\ new \in Seq(Entry) /\ Len(new) = Len(rest) + 1 /\ new[Len(rest) + 1] = entry
        /\ \A k \in 1..Len(rest) : new[k] = rest[k]
    BY <1>1, <1>5, AppendProperties
  <2> QED BY <2>1, <2>2, EntryType
<1> HIDE DEF new
<1>7. \A k \in 1..(Len(rest) + 1) : k # Len(rest) + 1 => k \in 1..Len(rest)
  BY <1>6
<1>8. Distinct(new)
  <2>1. ASSUME NEW j \in 1..(Len(rest) + 1), NEW k \in 1..(Len(rest) + 1),
               new[j].text = new[k].text
        PROVE  j = k
    <3>1. CASE j # Len(rest) + 1 /\ k # Len(rest) + 1
      <4>1. es[at[j]].text = es[at[k]].text /\ at[j] \in 1..Len(es) /\ at[k] \in 1..Len(es)
        BY <1>3, <1>6, <1>7, <2>1, <3>1
      <4>2. at[j] = at[k]
        BY <1>1, <1>2, <4>1 DEF Distinct
      <4>3. j \in 1..Len(rest) /\ k \in 1..Len(rest)
        BY <1>7, <3>1
      <4> QED BY <1>4, <4>2, <4>3
    <3>2. CASE j = Len(rest) + 1 \/ k = Len(rest) + 1
      BY <1>3, <1>5, <1>6, <1>7, <2>1, <3>2
    <3> QED BY <3>1, <3>2
  <2> QED BY <1>6, <2>1 DEF Distinct
<1>9. Own(new)
  <2>1. ASSUME NEW k \in 1..(Len(rest) + 1) PROVE new[k].vector = new[k].text
    <3>1. CASE k = Len(rest) + 1
      BY <1>5, <1>6, <3>1
    <3>2. CASE k # Len(rest) + 1
      <4>1. k \in 1..Len(rest) /\ new[k] = es[at[k]] /\ at[k] \in 1..Len(es)
        BY <1>3, <1>6, <1>7, <3>2
      <4> QED BY <1>1, <1>2, <4>1 DEF Own
    <3> QED BY <3>1, <3>2
  <2> QED BY <1>6, <2>1 DEF Own
<1>10. Cached(new) = Cached(es) \cup {text}
  <2>1. /\ Cached(new) = {new[k].text : k \in 1..(Len(rest) + 1)}
        /\ Cached(rest) = {rest[k].text : k \in 1..Len(rest)}
    BY <1>1, <1>6, EntryType
  <2>2. \A x \in Cached(new) : x \in Cached(rest) \cup {text}
    BY <1>5, <1>6, <1>7, <2>1
  <2>3. \A x \in Cached(rest) \cup {text} : x \in Cached(new)
    <3>1. \A x \in Cached(rest) : x \in Cached(new)
      BY <1>6, <2>1
    <3>2. text \in Cached(new)
      BY <1>5, <1>6, <2>1
    <3> QED BY <3>1, <3>2
  <2> QED BY <1>3, <2>2, <2>3
<1>11. ASSUME NEW texts \in Seq(Text), NEW n \in Nat,
              Recent(es, texts, n), texts[n + 1] = text, \A k \in 1..n : texts[k] # text
       PROVE  Recent(new, texts, n + 1)
  <2>1. n \in 0..Len(es) /\ \A k \in 1..n : es[Len(es) - n + k].text = texts[k]
    BY <1>11 DEF Recent
  \* The entries of the first n texts are not this text's, so they move together.
  <2>2. ASSUME NEW k \in 1..n
        PROVE  /\ Len(rest) - n + k \in 1..Len(rest)
               /\ at[Len(rest) - n + k] = Len(es) - n + k
    <3>1. CASE text \in Cached(es)
      <4> DEFINE p == Place(es, text)
      <4>1. p \in 1..Len(es) /\ es[p].text = text
        BY <1>1, <3>1, Placed
      <4> HIDE DEF p
      <4>2. p <= Len(es) - n
        <5> SUFFICES ASSUME p > Len(es) - n PROVE FALSE
          BY <1>2, <2>1, <4>1
        <5>1. p - (Len(es) - n) \in 1..n /\ Len(es) - n + (p - (Len(es) - n)) = p
          BY <1>2, <2>1, <4>1
        <5> QED BY <1>11, <2>1, <4>1, <5>1
      <4>3. Len(rest) = Len(es) - 1
        BY <1>3, <3>1
      <4>4. Len(rest) - n + k \in 1..Len(rest)
        BY <1>2, <2>1, <4>1, <4>2, <4>3
      <4>5. Shift(p, Len(rest) - n + k) = Len(es) - n + k
        BY <1>2, <2>1, <4>1, <4>2, <4>3 DEF Shift
      <4> DEFINE q == Len(rest) - n + k
      <4>6. q \in 1..Len(rest) /\ Shift(p, q) = Len(es) - n + k
        BY <4>4, <4>5
      <4> HIDE DEF q
      <4>7. at[q] = Shift(p, q)
        BY <1>4, <3>1, <4>6 DEF p
      <4> QED BY <4>6, <4>7 DEF q
    <3>2. CASE text \notin Cached(es)
      <4>1. Len(rest) = Len(es)
        BY <1>3, <3>2
      <4>2. Len(rest) - n + k \in 1..Len(rest)
        BY <1>2, <2>1, <4>1
      <4> DEFINE q == Len(rest) - n + k
      <4>3. q \in 1..Len(rest) /\ q = Len(es) - n + k
        BY <4>1, <4>2
      <4> HIDE DEF q
      <4>4. at[q] = q
        BY <1>4, <3>2, <4>3
      <4> QED BY <4>3, <4>4 DEF q
    <3> QED BY <3>1, <3>2
  <2>3. n + 1 \in 0..Len(new)
    <3>1. n > 0 => Len(rest) - n + 1 \in 1..Len(rest)
      BY <2>2
    <3> QED BY <1>6, <3>1
  <2>4. ASSUME NEW k \in 1..(n + 1) PROVE new[Len(new) - (n + 1) + k].text = texts[k]
    <3>1. CASE k = n + 1
      <4>1. Len(new) - (n + 1) + k = Len(rest) + 1
        BY <1>6, <3>1
      <4> QED BY <1>5, <1>6, <1>11, <3>1, <4>1
    <3>2. CASE k # n + 1
      <4>1. k \in 1..n /\ Len(new) - (n + 1) + k = Len(rest) - n + k
        BY <1>6, <3>2
      <4>2. new[Len(rest) - n + k] = es[Len(es) - n + k]
        BY <1>3, <1>6, <2>2, <4>1
      <4> QED BY <2>1, <4>1, <4>2
    <3> QED BY <3>1, <3>2
  <2> QED BY <2>3, <2>4 DEF Recent
<1>12. Len(new) = IF text \in Cached(es) THEN Len(es) ELSE Len(es) + 1
  <2>1. text \in Cached(es) => Len(es) \in Nat /\ Len(rest) = Len(es) - 1
    BY <1>2, <1>3
  <2>2. Len(new) = Len(rest) + 1
    BY <1>6
  <2>3. text \notin Cached(es) => Len(rest) = Len(es)
    BY <1>3
  <2> QED BY <2>1, <2>2, <2>3
<1>13. PutLast(new, es, text)
  BY <1>6, <1>8, <1>9, <1>10, <1>11, <1>12 DEF PutLast, Good
<1> QED BY <1>13 DEF new, entry, rest

\* A cache holds as many texts as it has entries.
LEMMA GoodLength ==
  ASSUME NEW es, Good(es)
  PROVE  IsFiniteSet(Cached(es)) /\ Cardinality(Cached(es)) = Len(es) /\ Len(es) \in Nat
<1> DEFINE f == [i \in 1..Len(es) |-> es[i].text]
<1>1. Len(es) \in Nat /\ DOMAIN es = 1..Len(es) /\ Cached(es) = {es[i].text : i \in 1..Len(es)}
  BY EntryType DEF Good
<1>2. f \in Bijection(1..Len(es), Cached(es))
  <2>1. \A i, j \in 1..Len(es) : f[i] = f[j] => i = j
    BY <1>1 DEF Good, Distinct
  <2>2. f \in [1..Len(es) -> Cached(es)] /\ \A x \in Cached(es) : \E i \in 1..Len(es) : f[i] = x
    BY <1>1
  <2> QED BY <2>1, <2>2 DEF Bijection, Injection, Surjection, IsInjective
<1>3. ExistsBijection(1..Len(es), Cached(es))
  BY <1>2 DEF ExistsBijection
<1>4. IsFiniteSet(1..Len(es)) /\ Cardinality(1..Len(es)) = Len(es)
  <2>1. 1 \in Int /\ Len(es) \in Int /\ (1 > Len(es) => Len(es) = 0)
    BY <1>1
  <2>2. /\ IsFiniteSet(1..Len(es))
        /\ Cardinality(1..Len(es)) = IF 1 > Len(es) THEN 0 ELSE Len(es) - 1 + 1
    BY <2>1, FS_Interval
  <2> QED BY <1>1, <2>1, <2>2
<1> QED BY <1>1, <1>3, <1>4, FS_Bijection

\* What an eviction leaves.
LEMMA Evicted ==
  ASSUME NEW es, Good(es), Len(es) <= CacheSize + 1
  PROVE  /\ Good(Evict(es)) /\ Cached(Evict(es)) \subseteq Cached(es)
         /\ Len(Evict(es)) <= CacheSize
         /\ Len(es) <= CacheSize => Evict(es) = es
<1>1. /\ Len(es) \in Nat /\ DOMAIN es = 1..Len(es) /\ es \in Seq(Entry)
      /\ Cached(es) = {es[i].text : i \in 1..Len(es)} /\ CacheSize \in Nat \ {0}
  BY EntryType, RouterAssumption DEF Good
<1>2. CASE Len(es) <= CacheSize
  <2>1. ~(Len(es) > CacheSize)
    BY <1>1, <1>2
  <2>2. Evict(es) = es
    BY <2>1, Zenon DEF Evict
  <2> QED BY <1>2, <2>2
<1>3. CASE ~(Len(es) <= CacheSize)
  <2>1. Evict(es) = Tail(es) /\ es # <<>>
    <3>1. Len(es) > CacheSize /\ Len(es) # 0
      BY <1>1, <1>3
    <3>2. es # <<>>
      BY <3>1
    <3> QED BY <3>1, <3>2, Zenon DEF Evict
  <2> DEFINE new == Tail(es)
  <2>2. /\ new \in Seq(Entry) /\ Len(new) = Len(es) - 1
        /\ \A i \in 1..Len(new) : new[i] = es[i + 1]
    BY <1>1, <2>1, HeadTailProperties
  <2> HIDE DEF new
  <2>3. /\ DOMAIN new = 1..Len(new) /\ Cached(new) = {new[i].text : i \in 1..Len(new)}
        /\ Len(new) \in Nat
    BY <2>2, EntryType
  <2>4. \A i \in 1..Len(new) : i + 1 \in 1..Len(es)
    BY <1>1, <2>2
  <2>5. Cached(new) \subseteq Cached(es)
    BY <1>1, <2>2, <2>3, <2>4
  <2>6. Distinct(new)
    <3>1. ASSUME NEW i \in 1..Len(new), NEW j \in 1..Len(new), new[i].text = new[j].text
          PROVE  i = j
      <4>1. i + 1 \in DOMAIN es /\ j + 1 \in DOMAIN es /\ es[i + 1].text = es[j + 1].text
        BY <1>1, <2>2, <2>4, <3>1
      <4>2. i + 1 = j + 1
        BY <4>1, Zenon DEF Good, Distinct
      <4> QED BY <4>2
    <3> QED BY <2>3, <3>1 DEF Distinct
  <2>7. Own(new)
    BY <1>1, <2>2, <2>3, <2>4 DEF Good, Own
  <2>8. Len(new) <= CacheSize
    BY <1>1, <2>2
  <2> QED BY <1>3, <2>1, <2>2, <2>5, <2>6, <2>7, <2>8 DEF Good, new
<1> QED BY <1>2, <1>3

\* The vectors of the missing texts are the batch without the query's.
LEMMA BatchTail ==
  ASSUME NEW texts \in Seq(Text)
  PROVE  Tail(<<Query>> \o texts) = texts
<1> DEFINE S == Text \cup {Query}
           batch == <<Query>> \o texts
<1>1. /\ texts \in Seq(S) /\ <<Query>> \in Seq(S) /\ Len(<<Query>>) = 1 /\ Len(texts) \in Nat
  <2>1. Text \subseteq S
    OBVIOUS
  <2> QED BY <2>1, SeqMonotonic
<1> HIDE DEF S
<1>2. /\ batch \in Seq(S) /\ Len(batch) = Len(texts) + 1
      /\ \A i \in 1..(Len(texts) + 1) : i > 1 => batch[i] = texts[i - 1]
  <2>1. /\ batch \in Seq(S) /\ Len(batch) = Len(<<Query>>) + Len(texts)
        /\ \A i \in 1..(Len(<<Query>>) + Len(texts)) :
             batch[i] = IF i <= Len(<<Query>>) THEN <<Query>>[i] ELSE texts[i - Len(<<Query>>)]
    BY <1>1, ConcatProperties
  <2> HIDE DEF batch
  <2> QED BY <1>1, <2>1
<1> HIDE DEF batch
<1>3. batch # <<>>
  BY <1>1, <1>2
<1>4. /\ Tail(batch) \in Seq(S) /\ Len(Tail(batch)) = Len(texts)
      /\ \A i \in 1..Len(texts) : Tail(batch)[i] = batch[i + 1]
  <2>1. /\ Tail(batch) \in Seq(S) /\ Len(Tail(batch)) = Len(batch) - 1
        /\ \A i \in 1..Len(Tail(batch)) : Tail(batch)[i] = batch[i + 1]
    BY <1>2, <1>3, HeadTailProperties
  <2> QED BY <1>1, <1>2, <2>1
<1>5. \A i \in 1..Len(texts) : Tail(batch)[i] = texts[i]
  <2>1. \A i \in 1..Len(texts) : i + 1 \in 1..(Len(texts) + 1) /\ i + 1 > 1 /\ (i + 1) - 1 = i
    BY <1>1
  <2> QED BY <1>2, <1>4, <2>1
<1>6. Tail(batch) = texts
  BY <1>1, <1>4, <1>5, SeqEqual
<1> QED BY <1>6 DEF batch

\* One text is filed: the cache keeps its size, and grows while there is room.
Filed(new, es, text) ==
  /\ Good(new) /\ Len(new) <= CacheSize
  /\ Cached(new) \subseteq Cached(es) \cup {text}
  /\ Cardinality(Cached(es) \cup {text}) <= CacheSize => Cached(new) = Cached(es) \cup {text}

\* What the OrderedDict assignment and the eviction after it do to the cache.
LEMMA InsertFiles ==
  ASSUME NEW es, Good(es), Len(es) <= CacheSize, NEW text \in Text
  PROVE  Filed(Insert(es, [text |-> text, vector |-> text]), es, text)
<1> DEFINE new == Append(Without(es, text), [text |-> text, vector |-> text])
<1>1. PutLast(new, es, text)
  BY Put
<1>2. Insert(es, [text |-> text, vector |-> text]) = Evict(new)
  BY DEF Insert
<1> HIDE DEF new
<1>3. /\ Good(new) /\ Cached(new) = Cached(es) \cup {text}
      /\ Len(new) = IF text \in Cached(es) THEN Len(es) ELSE Len(es) + 1
  BY <1>1 DEF PutLast
<1>4. Len(es) \in Nat /\ CacheSize \in Nat /\ Cardinality(Cached(new)) = Len(new)
  BY <1>3, GoodLength, RouterAssumption
<1>5. Len(new) <= CacheSize + 1
  BY <1>3, <1>4
<1>6. /\ Good(Evict(new)) /\ Cached(Evict(new)) \subseteq Cached(new)
      /\ Len(Evict(new)) <= CacheSize
      /\ Len(new) <= CacheSize => Evict(new) = new
  BY <1>3, <1>5, Evicted
<1> QED BY <1>2, <1>3, <1>4, <1>6 DEF Filed

\* Every text is filed, when there is room for all.
FilledWith(new, es, texts) ==
  /\ Good(new) /\ Len(new) <= CacheSize
  /\ Cached(new) \subseteq Cached(es) \cup ToSet(texts)
  /\ Cardinality(Cached(es) \cup ToSet(texts)) <= CacheSize =>
       Cached(new) = Cached(es) \cup ToSet(texts)

\* The loop over the missing texts (router.py:227-234).
LEMMA FillFiles ==
  ASSUME NEW es, Good(es), Len(es) <= CacheSize, NEW texts \in Seq(Text)
  PROVE  FilledWith(Fill(es, texts), es, texts)
<1> DEFINE n == Len(texts)
           steps == [i \in DOMAIN texts |->
             [x \in Seq(Entry) |-> Insert(x, [text |-> texts[i], vector |-> texts[i]])]]
           S == {x \in Seq(Entry) : Good(x) /\ Len(x) <= CacheSize}
           X == {steps[i] : i \in 1..n}
           all == Cached(es) \cup ToSet(texts)
<1>1. /\ n \in Nat /\ DOMAIN texts = 1..n /\ (\A i \in 1..n : texts[i] \in Text)
      /\ ToSet(texts) = {texts[i] : i \in 1..n}
  <2>1. Len(texts) \in Nat /\ DOMAIN texts = 1..Len(texts)
        /\ \A i \in 1..Len(texts) : texts[i] \in Text
    OBVIOUS
  <2> QED BY <2>1 DEF ToSet
<1>2. Fill(es, texts) = Through(es, steps)
  BY BatchTail, Zenon DEF Fill, InsertAll
<1>3. /\ es \in S
      /\ \A x \in S : x \in Seq(Entry) /\ Good(x) /\ Len(x) <= CacheSize
  BY DEF Good
<1>4. steps \in [1..n -> X]
  BY <1>1
<1>5. ASSUME NEW i \in 1..n, NEW x \in S
      PROVE  steps[i][x] \in S /\ Filed(steps[i][x], x, texts[i])
  <2>1. steps[i][x] = Insert(x, [text |-> texts[i], vector |-> texts[i]])
    BY <1>1, <1>3
  <2>2. Filed(steps[i][x], x, texts[i])
    BY <1>1, <1>3, <2>1, InsertFiles
  <2> HIDE DEF steps
  <2> QED BY <2>2 DEF Filed, Good
<1>6. IsFiniteSet(all) /\ Cached(es) \subseteq all /\ Cached(es) \subseteq Text
  <2>1. Cached(es) \subseteq Text
    BY EntryType DEF Good
  <2>2. all \in SUBSET Text
    BY <1>1, <2>1
  <2> QED BY <2>1, <2>2, FS_Subset, RouterAssumption
<1>0. \A i \in 1..n : \A x \in S : steps[i][x] \in S
  BY <1>5, Zenon
<1> HIDE DEF steps, S, X
<1>7. PICK after : Passes(after, es, steps, S) /\ Len(steps) = n
  BY <1>0, <1>1, <1>3, <1>4, ThroughPasses
<1>8. /\ after \in [0..n -> S] /\ Fill(es, texts) = after[n] /\ after[0] = es
      /\ \A i \in 1..n : after[i] = steps[i][after[i - 1]]
  BY <1>2, <1>7 DEF Passes
<1> DEFINE room == Cardinality(all) <= CacheSize
           upto(m) == Cached(es) \cup {texts[k] : k \in 1..m}
           Fits(m) == Cached(after[m]) \subseteq all /\ (room => Cached(after[m]) = upto(m))
           T == {m \in 0..n : Fits(m)}
<1> HIDE DEF n
<1>9. 0 \in T
  <2>1. {texts[k] : k \in 1..0} = {}
    OBVIOUS
  <2>2. Cached(after[0]) = Cached(es) /\ upto(0) = Cached(es)
    BY <1>8, <2>1, Zenon
  <2> QED BY <1>1, <1>6, <2>2
<1>10. ASSUME NEW m \in 0..(n - 1), m \in T PROVE m + 1 \in T
  <2>1. m + 1 \in 1..n /\ (m + 1) - 1 = m /\ m + 1 \in 0..n /\ m \in 0..n
    BY <1>1
  <2>2. after[m] \in S /\ texts[m + 1] \in ToSet(texts) /\ texts[m + 1] \in Text
    BY <1>1, <1>8, <2>1
  <2>3. Filed(after[m + 1], after[m], texts[m + 1])
    BY <1>5, <1>8, <2>1, <2>2
  <2>4. Fits(m)
    BY <1>10
  <2> DEFINE more == Cached(after[m]) \cup {texts[m + 1]}
  <2>5. more \in SUBSET all
    BY <2>2, <2>4
  <2>6. IsFiniteSet(more) /\ Cardinality(more) <= Cardinality(all)
        /\ Cardinality(all) \in Nat /\ Cardinality(more) \in Nat
    BY <1>6, <2>5, FS_Subset, FS_CardinalityType
  <2>7. Cached(after[m + 1]) \subseteq all
    BY <2>3, <2>5 DEF Filed
  <2>8. room => Cached(after[m + 1]) = more
    BY <2>3, <2>6, RouterAssumption DEF Filed
  <2>9. upto(m + 1) = upto(m) \cup {texts[m + 1]}
    <3>1. \A k \in 1..(m + 1) : k \in 1..m \/ k = m + 1
      OBVIOUS
    <3>2. \A k \in 1..m : k \in 1..(m + 1)
      OBVIOUS
    <3>3. m + 1 \in 1..(m + 1)
      BY <2>1
    <3> QED BY <3>1, <3>2, <3>3
  <2>10. Fits(m + 1)
    BY <2>4, <2>7, <2>8, <2>9
  <2> HIDE DEF Fits
  <2> QED BY <2>1, <2>10
<1> HIDE DEF T, Fits
<1>11. \A m \in 0..n : m \in T
  BY <1>1, <1>9, <1>10, Induction
<1>12. n \in 0..n
  BY <1>1
<1>13. Fits(n) /\ after[n] \in S
  BY <1>8, <1>11, <1>12 DEF T
<1> QED BY <1>1, <1>3, <1>8, <1>13 DEF Fits, FilledWith
-----------------------------------------------------------------------------
(* The reads *)

\* The texts read are the first ones, up to one the cache does not hold.
LEMMA ReadableFirst ==
  ASSUME NEW es, NEW texts \in Seq(Text)
  PROVE  \E n \in 0..Len(texts) :
           /\ Readable(es, texts) = [i \in 1..n |-> texts[i]]
           /\ \A i \in 1..n : texts[i] \in Cached(es)
           /\ n < Len(texts) => texts[n + 1] \notin Cached(es)
<1> DEFINE L == Len(texts)
           D == {n \in Nat : n = L \/ (n < L /\ texts[n + 1] \notin Cached(es))}
           read == {i \in DOMAIN texts : \A j \in 1..i : texts[j] \in Cached(es)}
<1>1. L \in Nat /\ DOMAIN texts = 1..L
  BY LenProperties
<1>2. PICK n \in D : \A m \in D : n <= m
  <2>1. D \in SUBSET Nat /\ L \in D
    BY <1>1
  <2> HIDE DEF D, L
  <2> QED BY <2>1, LeastNatural
<1>3. n \in Nat /\ n \in 0..L /\ (n < L => texts[n + 1] \notin Cached(es))
  <2>1. n \in Nat /\ (n = L \/ (n < L /\ texts[n + 1] \notin Cached(es)))
    OBVIOUS
  <2> HIDE DEF L, D
  <2> QED BY <1>1, <2>1
<1> HIDE DEF L, D
<1>4. ASSUME NEW i \in 1..n PROVE texts[i] \in Cached(es)
  <2>1. i - 1 \in Nat /\ i - 1 < L /\ (i - 1) + 1 = i /\ i - 1 < n
    BY <1>1, <1>3
  <2>2. i - 1 \notin D
    BY <1>2, <1>3, <2>1
  <2> QED BY <2>1, <2>2 DEF D
<1>5. read = 1..n
  <2>1. ASSUME NEW i \in 1..n PROVE i \in read
    <3>1. i \in 1..L /\ \A j \in 1..i : j \in 1..n
      BY <1>1, <1>3
    <3> QED BY <1>1, <1>4, <3>1
  <2>2. ASSUME NEW i \in read PROVE i \in 1..n
    <3>1. i \in 1..L /\ \A j \in 1..i : texts[j] \in Cached(es)
      BY <1>1
    <3>2. ASSUME i > n PROVE FALSE
      <4>1. n < L /\ n + 1 \in 1..i
        BY <1>1, <1>3, <3>1, <3>2
      <4> QED BY <1>3, <3>1, <4>1
    <3> QED BY <1>1, <1>3, <3>1, <3>2
  <2> QED BY <2>1, <2>2
<1>6. Readable(es, texts) = [i \in read |-> texts[i]]
  BY Zenon DEF Readable
<1> HIDE DEF read
<1>7. Readable(es, texts) = [i \in 1..n |-> texts[i]]
  BY <1>5, <1>6
<1> QED BY <1>3, <1>4, <1>7 DEF L

\* A hit is moved to the end.
LEMMA TouchPuts ==
  ASSUME NEW es, Good(es), NEW text \in Cached(es)
  PROVE  PutLast(Touch(es, text), es, text)
<1>1. es \in Seq(Entry) /\ Own(es)
  BY DEF Good
<1>2. VectorOf(es, text) = text /\ text \in Text
  BY <1>1, Placed, EntryType
<1>3. Touch(es, text) = Append(Without(es, text), [text |-> text, vector |-> text])
  BY <1>2 DEF Touch
<1> QED BY <1>2, <1>3, Put

\* All that is read is moved, in order.
ReadFrom(new, es, texts) ==
  /\ Good(new) /\ Cached(new) = Cached(es) /\ Len(new) = Len(es)
  /\ ToSet(texts) \subseteq Cached(es) => Recent(new, texts, Len(texts))

\* The loop over the vectors of the request (router.py:236-240).
LEMMA ReadMoves ==
  ASSUME NEW es, Good(es), NEW texts \in Seq(Text), IsInjective(texts)
  PROVE  ReadFrom(Read(es, texts), es, texts)
<1>1. PICK n \in 0..Len(texts) :
        /\ Readable(es, texts) = [i \in 1..n |-> texts[i]]
        /\ \A i \in 1..n : texts[i] \in Cached(es)
        /\ n < Len(texts) => texts[n + 1] \notin Cached(es)
  BY ReadableFirst
<1> DEFINE steps == [i \in 1..n |-> [x \in Seq(Entry) |-> Touch(x, texts[i])]]
           S == {x \in Seq(Entry) : Good(x) /\ Cached(x) = Cached(es) /\ Len(x) = Len(es)}
           X == {steps[i] : i \in 1..n}
<1>2. n \in Nat /\ Len(texts) \in Nat /\ DOMAIN texts = 1..Len(texts)
  BY <1>1
<1>3. Read(es, texts) = Through(es, steps)
  <2>1. DOMAIN Readable(es, texts) = 1..n
    BY <1>1
  <2> QED BY <2>1, Zenon DEF Read
<1>4. /\ es \in S
      /\ \A x \in S : x \in Seq(Entry) /\ Good(x) /\ Cached(x) = Cached(es) /\ Len(x) = Len(es)
  BY DEF Good
<1>5. ASSUME NEW i \in 1..n, NEW x \in S
      PROVE  steps[i][x] \in S /\ PutLast(steps[i][x], x, texts[i])
  <2>1. steps[i][x] = Touch(x, texts[i]) /\ texts[i] \in Cached(x)
    BY <1>1, <1>4
  <2>2. PutLast(steps[i][x], x, texts[i])
    BY <1>4, <2>1, TouchPuts
  <2> HIDE DEF steps
  <2>3. /\ Good(steps[i][x]) /\ Cached(steps[i][x]) = Cached(x) \cup {texts[i]}
        /\ Len(steps[i][x]) = Len(x)
    BY <2>1, <2>2 DEF PutLast
  <2>4. Cached(steps[i][x]) = Cached(es)
    BY <1>4, <2>1, <2>3
  <2> QED BY <1>4, <2>2, <2>3, <2>4 DEF Good
<1>6. steps \in [1..n -> X]
  OBVIOUS
<1>0. \A i \in 1..n : \A x \in S : steps[i][x] \in S
  BY <1>5, Zenon
<1> HIDE DEF steps, S, X
<1>7. PICK after : Passes(after, es, steps, S) /\ Len(steps) = n
  BY <1>0, <1>2, <1>4, <1>6, ThroughPasses
<1>8. /\ after \in [0..n -> S] /\ Read(es, texts) = after[n] /\ after[0] = es
      /\ \A i \in 1..n : after[i] = steps[i][after[i - 1]]
  BY <1>3, <1>7 DEF Passes
<1> DEFINE T == {m \in 0..n : Recent(after[m], texts, m)}
<1>9. 0 \in T
  <2>1. Len(es) \in Nat
    BY EntryType DEF Good
  <2>2. Recent(es, texts, 0)
    BY <2>1 DEF Recent
  <2> QED BY <1>2, <1>8, <2>2
<1>10. ASSUME NEW m \in 0..(n - 1), m \in T PROVE m + 1 \in T
  <2>1. m + 1 \in 1..n /\ (m + 1) - 1 = m /\ m + 1 \in 0..n /\ m \in 0..n /\ m \in Nat
    BY <1>2
  <2>2. PutLast(after[m + 1], after[m], texts[m + 1])
    BY <1>5, <1>8, <2>1
  <2>3. \A k \in 1..m : texts[k] # texts[m + 1]
    <3>1. m + 1 \in DOMAIN texts /\ \A k \in 1..m : k \in DOMAIN texts /\ k # m + 1
      BY <1>1, <1>2
    <3> QED BY <3>1 DEF IsInjective
  <2>4. Recent(after[m], texts, m)
    BY <1>10
  <2>5. Recent(after[m + 1], texts, m + 1)
    BY <2>1, <2>2, <2>3, <2>4 DEF PutLast
  <2> QED BY <2>1, <2>5
<1> HIDE DEF T
<1>11. \A m \in 0..n : m \in T
  BY <1>2, <1>9, <1>10, Induction
<1>12. n \in 0..n
  BY <1>2
<1>13. Recent(after[n], texts, n) /\ after[n] \in S
  BY <1>8, <1>11, <1>12 DEF T
<1>14. ASSUME ToSet(texts) \subseteq Cached(es) PROVE n = Len(texts)
  <2>1. n < Len(texts) => n + 1 \in DOMAIN texts
    BY <1>2
  <2>2. ~(n < Len(texts))
    BY <1>1, <1>14, <2>1 DEF ToSet
  <2> DEFINE L == Len(texts)
  <2>3. L \in Nat /\ n \in 0..L /\ ~(n < L)
    BY <1>2, <2>2
  <2> HIDE DEF L
  <2>4. n = L
    BY <2>3
  <2> QED BY <2>4 DEF L
<1> QED BY <1>4, <1>8, <1>13, <1>14 DEF ReadFrom
-----------------------------------------------------------------------------
(* The calls *)

\* A call at the embedder holds the lock.
LockInv == \A c \in Call : pc[c] = "embedding" => owner = c

\* What a served call compared the query with.
ServedInv == \A c \in Call : pc[c] = "ok" => result[c] = request[c]

RouterInv ==
  /\ TypeOK /\ Good(cache)
  /\ LockInv /\ ServedInv /\ MissingStillMissing

\* A request is a list of texts, none twice.
LEMMA RequestFacts ==
  /\ <<>> \in Request
  /\ \A r \in Request : r \in Seq(Text) /\ IsInjective(r)
<1>1. ASSUME NEW r \in Request PROVE r \in Seq(Text) /\ IsInjective(r)
  <2>1. PICK m \in 0..MaxSchemas : r \in [1..m -> Text]
    BY DEF Request, BoundedSeq, SeqOf
  <2>2. m \in Nat
    BY RouterAssumption
  <2> QED BY <2>1, <2>2, SeqDef DEF Request
<1>2. <<>> \in Request
  <2> DEFINE none == <<>>
  <2>1. none \in [1..0 -> Text] /\ DOMAIN none = {}
    OBVIOUS
  <2>2. 0 \in 0..MaxSchemas
    BY RouterAssumption
  <2> HIDE DEF none
  <2>3. none \in Request
    BY <2>1, <2>2 DEF Request, BoundedSeq, SeqOf, IsInjective
  <2> QED BY <2>3 DEF none
<1> QED BY <1>1, <1>2

\* What Good says of the cache, and the cache's part of the type.
LEMMA GoodCache ==
  ASSUME NEW es, Good(es)
  PROVE  es \in Seq(Entry) /\ Cardinality(Cached(es)) = Len(es)
BY GoodLength DEF Good

\* A new router is in the invariant.
LEMMA RouterInit == Init => RouterInv
<1> SUFFICES ASSUME Init PROVE RouterInv
  OBVIOUS
<1>1. cache = <<>> /\ Len(cache) = 0 /\ DOMAIN cache = {} /\ cache \in Seq(Entry)
  BY DEF Init
<1>2. Good(cache)
  BY <1>1 DEF Good, Distinct, Own
<1>3. /\ <<>> \in Request /\ <<>> \in Seq(Text) /\ <<>> \in Seq(Call)
      /\ \A c \in Call : pc[c] = "new"
  BY RequestFacts DEF Init
<1>4. TypeOK
  <2>1. Cardinality(Cached(cache)) = Len(cache) /\ Len(cache) <= CacheSize
    BY <1>1, <1>2, GoodLength, RouterAssumption
  <2>2. /\ request \in [Call -> Request] /\ missing \in [Call -> Seq(Text)]
        /\ result \in [Call -> Seq(Text)] /\ queue \in Seq(Call)
    BY <1>3, Zenon DEF Init
  <2>3. /\ pc \in [Call -> {"new", "waiting", "embedding"} \cup Ended]
        /\ owner \in Call \cup {NoCall}
    BY DEF Init
  <2> QED BY <1>1, <2>1, <2>2, <2>3, Zenon DEF TypeOK
<1> QED BY <1>2, <1>3, <1>4 DEF RouterInv, LockInv, ServedInv, MissingStillMissing

\* A call that ends without a vector.
LEMMA GivesUp ==
  ASSUME RouterInv, NEW c \in Call, NEW how \in Ended \ {"ok"}, pc[c] = "embedding",
         Finish(c, how), Release(c), UNCHANGED <<cache, queue, request, result>>
  PROVE  RouterInv'
<1>1. <<>> \in Seq(Text)
  OBVIOUS
<1>2. /\ pc' = [pc EXCEPT ![c] = how] /\ missing' = [missing EXCEPT ![c] = <<>>]
      /\ owner' = NoCall
      /\ cache' = cache /\ queue' = queue /\ request' = request /\ result' = result
  BY DEF Finish, Release
<1>3. \A d \in Call : d # c => pc'[d] = pc[d] /\ missing'[d] = missing[d]
  BY <1>2 DEF RouterInv, TypeOK
<1>4. pc'[c] = how /\ how \notin {"ok", "embedding"}
  BY <1>2 DEF RouterInv, TypeOK, Ended
<1>5. TypeOK'
  <2>1. /\ pc' \in [Call -> {"new", "waiting", "embedding"} \cup Ended]
        /\ missing' \in [Call -> Seq(Text)]
    BY <1>1, <1>2 DEF RouterInv, TypeOK
  <2> QED BY <1>2, <2>1 DEF RouterInv, TypeOK
<1>6. \A d \in Call : pc'[d] # "embedding"
  BY <1>3, <1>4 DEF RouterInv, LockInv
<1>7. ServedInv'
  BY <1>2, <1>3, <1>4 DEF RouterInv, ServedInv
<1> QED BY <1>2, <1>5, <1>6, <1>7 DEF RouterInv, LockInv, MissingStillMissing

\* The checks before the lock, and the wait for it.
LEMMA OutsideStep ==
  ASSUME RouterInv, NEW c \in Call, Refuse(c) \/ Route(c)
  PROVE  RouterInv'
<1>1. <<>> \in Seq(Text)
  OBVIOUS
<1>2. PICK r \in Request, p \in {"ok", "refused", "waiting"} :
        /\ pc' = [pc EXCEPT ![c] = p]
        /\ request' = [request EXCEPT ![c] = r]
        /\ result' = [result EXCEPT ![c] = <<>>]
        /\ p = "ok" => r = <<>>
  <2>1. CASE Refuse(c)
    BY <2>1 DEF Refuse, Finish
  <2>2. CASE Route(c)
    BY <2>2 DEF Route
  <2> QED BY <2>1, <2>2
<1>3. /\ cache' = cache /\ owner' = owner
      /\ missing' \in [Call -> Seq(Text)]
      /\ \A d \in Call : d # c => missing'[d] = missing[d]
      /\ queue' \in Seq(Call)
  <2>1. CASE Refuse(c)
    BY <1>1, <2>1 DEF Refuse, Finish, RouterInv, TypeOK
  <2>2. CASE Route(c)
    <3>1. queue' = Append(queue, c) /\ queue \in Seq(Call)
      BY <2>2 DEF Route, RouterInv, TypeOK
    <3> QED BY <2>2, <3>1, AppendProperties DEF Route, RouterInv, TypeOK
  <2> QED BY <2>1, <2>2
<1>4. /\ \A d \in Call : d # c => pc'[d] = pc[d] /\ request'[d] = request[d]
                                                /\ result'[d] = result[d]
      /\ pc'[c] = p /\ request'[c] = r /\ result'[c] = <<>>
  BY <1>2 DEF RouterInv, TypeOK
<1>5. TypeOK'
  <2>1. /\ pc' \in [Call -> {"new", "waiting", "embedding"} \cup Ended]
        /\ request' \in [Call -> Request]
        /\ result' \in [Call -> Seq(Text)]
    BY <1>1, <1>2 DEF RouterInv, TypeOK, Ended
  <2> QED BY <1>3, <2>1 DEF RouterInv, TypeOK
<1>6. LockInv' /\ ServedInv'
  BY <1>2, <1>3, <1>4 DEF RouterInv, LockInv, ServedInv
<1>7. MissingStillMissing'
  <2>1. \A d \in Call : pc'[d] = "embedding" => d # c /\ pc[d] = "embedding"
    BY <1>2, <1>4
  <2> QED BY <1>3, <1>4, <2>1 DEF RouterInv, MissingStillMissing
<1> QED BY <1>3, <1>5, <1>6, <1>7 DEF RouterInv

\* The lock is taken: nothing else is at the embedder.
LEMMA EmbedStep ==
  ASSUME RouterInv, NEW c \in Call, Embed(c)
  PROVE  RouterInv'
<1> DEFINE absent == Sublist(request[c], ToSet(request[c]) \ Cached(cache))
<1>1. request[c] \in Seq(Text)
  BY RequestFacts DEF RouterInv, TypeOK
<1>2. absent \in Seq(Text) /\ ToSet(absent) = ToSet(request[c]) \ Cached(cache)
  <2>1. /\ absent \in Seq(Text)
        /\ {absent[k] : k \in DOMAIN absent} =
             {request[c][i] : i \in DOMAIN request[c]} \cap (ToSet(request[c]) \ Cached(cache))
    <3> DEFINE r == request[c]
               T == ToSet(request[c]) \ Cached(cache)
    <3>1. r \in Seq(Text)
      BY <1>1
    <3> HIDE DEF r, T
    <3>2. /\ Sublist(r, T) \in Seq(Text)
          /\ {Sublist(r, T)[k] : k \in DOMAIN Sublist(r, T)} = {r[i] : i \in DOMAIN r} \cap T
      BY <3>1, SublistElements
    <3> QED BY <3>2 DEF r, T
  <2> QED BY <2>1 DEF ToSet
<1> HIDE DEF absent
<1>3. /\ owner = NoCall /\ owner' = c /\ queue # <<>> /\ queue' = Tail(queue)
      /\ missing' = [missing EXCEPT ![c] = absent]
      /\ pc' = [pc EXCEPT ![c] = "embedding"]
      /\ cache' = cache /\ request' = request /\ result' = result
  BY DEF Embed, Acquire, absent
<1>4. \A d \in Call : pc[d] # "embedding"
  BY <1>3, RouterAssumption DEF RouterInv, LockInv
<1>5. /\ \A d \in Call : d # c => pc'[d] = pc[d]
      /\ pc'[c] = "embedding" /\ missing'[c] = absent
  BY <1>3 DEF RouterInv, TypeOK
<1>6. TypeOK'
  <2>1. /\ pc' \in [Call -> {"new", "waiting", "embedding"} \cup Ended]
        /\ missing' \in [Call -> Seq(Text)]
    BY <1>2, <1>3 DEF RouterInv, TypeOK
  <2>2. queue' \in Seq(Call)
    BY <1>3, HeadTailProperties DEF RouterInv, TypeOK
  <2> QED BY <1>3, <2>1, <2>2 DEF RouterInv, TypeOK
<1>7. LockInv' /\ ServedInv'
  BY <1>3, <1>4, <1>5 DEF RouterInv, LockInv, ServedInv
<1>8. MissingStillMissing'
  BY <1>2, <1>3, <1>4, <1>5 DEF MissingStillMissing
<1> QED BY <1>3, <1>6, <1>7, <1>8 DEF RouterInv

\* The vectors read are those of the request.
LEMMA VectorsRead ==
  ASSUME NEW es, Good(es), NEW texts \in Seq(Text), ToSet(texts) \subseteq Cached(es)
  PROVE  [i \in DOMAIN texts |-> VectorOf(es, texts[i])] = texts
<1>1. \A i \in DOMAIN texts : texts[i] \in Cached(es)
  BY DEF ToSet
<1>2. \A i \in DOMAIN texts : VectorOf(es, texts[i]) = texts[i]
  BY <1>1, Placed DEF Good
<1>3. texts = [i \in DOMAIN texts |-> texts[i]]
  OBVIOUS
<1> QED BY <1>2, <1>3

\* What the step of the vectors does: the lock was held since the call looked for
\* what was missing, so that is what it fills in.
Fills(c, filled) ==
  /\ FilledWith(filled, cache, missing[c])
  /\ Cached(cache) \cup ToSet(missing[c]) = Cached(cache) \cup ToSet(request[c])
  /\ ReadFrom(cache', filled, request[c])
  /\ IF ToSet(request[c]) \subseteq Cached(filled)
     THEN pc'[c] \in {"ok", "failed"} /\ result' = [result EXCEPT ![c] = request[c]]
     ELSE pc'[c] = "corrupt" /\ result' = result

\* Embedded is such a step.
LEMMA EmbeddedFills ==
  ASSUME RouterInv, NEW c \in Call, Embedded(c)
  PROVE  \E filled : Fills(c, filled)
<1> DEFINE filled == Fill(cache, missing[c])
<1>1. /\ pc[c] = "embedding" /\ request[c] \in Seq(Text) /\ IsInjective(request[c])
      /\ missing[c] \in Seq(Text) /\ Good(cache) /\ Len(cache) <= CacheSize
  BY RequestFacts DEF Embedded, RouterInv, TypeOK
<1>2. FilledWith(filled, cache, missing[c])
  BY <1>1, FillFiles
<1>3. /\ cache' = Read(filled, request[c])
      /\ IF ToSet(request[c]) \subseteq Cached(filled)
         THEN /\ Finish(c, "ok") \/ Finish(c, "failed")
              /\ result' = [result EXCEPT ![c] =
                   [i \in DOMAIN request[c] |-> VectorOf(filled, request[c][i])]]
         ELSE Finish(c, "corrupt") /\ UNCHANGED result
  BY DEF Embedded
<1> HIDE DEF filled
<1>4. ReadFrom(cache', filled, request[c])
  BY <1>1, <1>2, <1>3, ReadMoves DEF FilledWith
<1>5. Cached(cache) \cup ToSet(missing[c]) = Cached(cache) \cup ToSet(request[c])
  <2>1. ToSet(missing[c]) = ToSet(request[c]) \ Cached(cache)
    BY <1>1 DEF RouterInv, MissingStillMissing
  <2> QED BY <2>1
<1>6. \A how : Finish(c, how) => pc'[c] = how
  BY DEF Finish, RouterInv, TypeOK
<1>7. CASE ToSet(request[c]) \subseteq Cached(filled)
  <2>1. [i \in DOMAIN request[c] |-> VectorOf(filled, request[c][i])] = request[c]
    <3> DEFINE r == request[c]
    <3>1. r \in Seq(Text) /\ Good(filled) /\ ToSet(r) \subseteq Cached(filled)
      BY <1>1, <1>2, <1>7 DEF FilledWith
    <3> HIDE DEF r
    <3>2. [i \in DOMAIN r |-> VectorOf(filled, r[i])] = r
      BY <3>1, VectorsRead
    <3> QED BY <3>2 DEF r
  <2>2. pc'[c] \in {"ok", "failed"}
    BY <1>3, <1>6, <1>7
  <2>3. result' = [result EXCEPT ![c] = request[c]]
    BY <1>3, <1>7, <2>1, Zenon
  <2> QED BY <1>2, <1>4, <1>5, <1>7, <2>2, <2>3, Zenon DEF Fills
<1>8. CASE ~(ToSet(request[c]) \subseteq Cached(filled))
  <2>1. pc'[c] = "corrupt" /\ result' = result
    BY <1>3, <1>6, <1>8
  <2> QED BY <1>2, <1>4, <1>5, <1>8, <2>1, Zenon DEF Fills
<1> QED BY <1>7, <1>8

\* The vectors arrive.
LEMMA EmbeddedStep ==
  ASSUME RouterInv, NEW c \in Call, Embedded(c)
  PROVE  RouterInv'
<1>1. PICK filled : Fills(c, filled)
  BY EmbeddedFills
<1>2. <<>> \in Seq(Text) /\ request[c] \in Seq(Text)
  BY RequestFacts DEF RouterInv, TypeOK
<1>3. PICK how \in {"ok", "failed", "corrupt"} : Finish(c, how)
  BY DEF Embedded
<1>4. /\ pc' = [pc EXCEPT ![c] = how] /\ missing' = [missing EXCEPT ![c] = <<>>]
      /\ owner' = NoCall /\ queue' = queue /\ request' = request
      /\ pc[c] = "embedding"
  BY <1>3 DEF Embedded, Finish, Release
<1>5. (\A d \in Call : d # c => pc'[d] = pc[d]) /\ pc'[c] = how
  BY <1>4 DEF RouterInv, TypeOK
<1>6. Good(cache') /\ Len(cache') <= CacheSize
  BY <1>1 DEF Fills, FilledWith, ReadFrom
<1>7. /\ result' \in [Call -> Seq(Text)]
      /\ \A d \in Call : d # c => result'[d] = result[d]
      /\ how = "ok" => result'[c] = request[c]
  <2>1. CASE ToSet(request[c]) \subseteq Cached(filled)
    <3>1. result' = [result EXCEPT ![c] = request[c]]
      BY <1>1, <2>1 DEF Fills
    <3> QED BY <1>2, <3>1 DEF RouterInv, TypeOK
  <2>2. CASE ~(ToSet(request[c]) \subseteq Cached(filled))
    <3>1. result' = result /\ how = "corrupt"
      BY <1>1, <1>5, <2>2 DEF Fills
    <3> QED BY <3>1 DEF RouterInv, TypeOK
  <2> QED BY <2>1, <2>2
<1>8. TypeOK'
  <2>1. /\ pc' \in [Call -> {"new", "waiting", "embedding"} \cup Ended]
        /\ missing' \in [Call -> Seq(Text)]
    BY <1>2, <1>3, <1>4 DEF RouterInv, TypeOK, Ended
  <2>2. cache' \in Seq(Entry) /\ Cardinality(Cached(cache')) = Len(cache')
    BY <1>6, GoodCache
  <2>3. Cardinality(Cached(cache))' = Len(cache)'
    BY <2>2 DEF Cached, ToSet
  <2> QED BY <1>4, <1>6, <1>7, <2>1, <2>2, <2>3 DEF RouterInv, TypeOK
<1>9. \A d \in Call : pc'[d] # "embedding"
  BY <1>3, <1>4, <1>5 DEF RouterInv, LockInv
<1>10. ServedInv'
  BY <1>4, <1>5, <1>7 DEF RouterInv, ServedInv
<1>11. Good(cache)'
  BY <1>6 DEF Good, Distinct, Own
<1> QED BY <1>8, <1>9, <1>10, <1>11 DEF RouterInv, LockInv, MissingStillMissing

\* A cancelled wait.
LEMMA CancelWaitStep ==
  ASSUME RouterInv, NEW c \in Call, CancelWait(c)
  PROVE  RouterInv'
<1>1. <<>> \in Seq(Text)
  OBVIOUS
<1>2. /\ pc' = [pc EXCEPT ![c] = "cancelled"] /\ missing' = [missing EXCEPT ![c] = <<>>]
      /\ queue' = Sublist(queue, Call \ {c})
      /\ cache' = cache /\ owner' = owner /\ request' = request /\ result' = result
      /\ pc[c] = "waiting"
  BY DEF CancelWait, Finish
<1>3. (\A d \in Call : d # c => pc'[d] = pc[d] /\ missing'[d] = missing[d])
      /\ pc'[c] = "cancelled"
  BY <1>2 DEF RouterInv, TypeOK
<1>4. queue' \in Seq(Call)
  BY <1>2, SublistPicks DEF RouterInv, TypeOK
<1>5. TypeOK'
  <2>1. /\ pc' \in [Call -> {"new", "waiting", "embedding"} \cup Ended]
        /\ missing' \in [Call -> Seq(Text)]
    BY <1>1, <1>2 DEF RouterInv, TypeOK, Ended
  <2> QED BY <1>2, <1>4, <2>1 DEF RouterInv, TypeOK
<1>6. LockInv' /\ ServedInv'
  BY <1>2, <1>3 DEF RouterInv, LockInv, ServedInv
<1>7. MissingStillMissing'
  <2>1. \A d \in Call : pc'[d] = "embedding" => d # c /\ pc[d] = "embedding"
    BY <1>3
  <2> QED BY <1>2, <1>3, <2>1 DEF RouterInv, MissingStillMissing
<1> QED BY <1>2, <1>5, <1>6, <1>7 DEF RouterInv

\* Every step keeps the invariant.
LEMMA RouterStep == RouterInv /\ [Next]_vars => RouterInv'
<1>1. SUFFICES ASSUME RouterInv, [Next]_vars PROVE RouterInv'
  OBVIOUS
<1>2. CASE UNCHANGED vars
  BY <1>1, <1>2 DEF vars, RouterInv, TypeOK, LockInv, ServedInv, MissingStillMissing
<1>3. ASSUME NEW c \in Call,
             Refuse(c) \/ Route(c) \/ Step(c) \/ CancelEmbed(c) \/ CancelWait(c)
      PROVE  RouterInv'
  <2>1. CASE EmbedFails(c)
    BY <1>1, <2>1, GivesUp DEF EmbedFails, Ended
  <2>2. CASE CancelEmbed(c)
    BY <1>1, <2>2, GivesUp DEF CancelEmbed, Ended
  <2> QED BY <1>1, <1>3, <2>1, <2>2, OutsideStep, EmbedStep, EmbeddedStep, CancelWaitStep DEF Step
<1> QED BY <1>1, <1>2, <1>3 DEF Next
-----------------------------------------------------------------------------
(* The theorems *)

\* The invariant holds: every text of the cache is filed once, under itself, and
\* only the holder of the lock is at the embedder.
THEOREM RouterHolds == Spec => []RouterInv
BY RouterInit, RouterStep, PTL DEF Spec

\* Every variable keeps its type; the cache keeps its size and holds no text
\* twice, for every number of calls, texts and entries (router.py:216-240).
THEOREM RouterTyping == Spec => []TypeOK
<1>1. RouterInv => TypeOK
  BY DEF RouterInv
<1> QED BY RouterHolds, <1>1, PTL

\* Every tool is scored by the vector of its own text (router.py:225-240).
THEOREM VectorsAreOwn == Spec => []OwnVectors
<1>1. RouterInv => OwnVectors
  BY DEF RouterInv, ServedInv, Good, Own, OwnVectors, ToSet
<1> QED BY RouterHolds, <1>1, PTL

\* What a call found missing before the await is what is missing after it, since
\* the lock spans it (router.py:224-226).
THEOREM MissingStays == Spec => []MissingStillMissing
<1>1. RouterInv => MissingStillMissing
  BY DEF RouterInv
<1> QED BY RouterHolds, <1>1, PTL

\* Only the arrival of the vectors serves a call, or finds the cache too small.
LEMMA ServedByVectors ==
  ASSUME RouterInv, Next, NEW c \in Call, pc[c] = "embedding", pc'[c] \in {"ok", "corrupt"}
  PROVE  Embedded(c)
<1>1. PICK d \in Call : Refuse(d) \/ Route(d) \/ Step(d) \/ CancelEmbed(d) \/ CancelWait(d)
  BY DEF Next
<1>2. CASE d # c
  <2>1. \E how : pc' = [pc EXCEPT ![d] = how]
    BY <1>1 DEF Refuse, Route, Step, CancelEmbed, CancelWait, Embed, Embedded, EmbedFails, Finish
  <2> QED BY <1>2, <2>1 DEF RouterInv, TypeOK
<1>3. CASE d = c
  BY <1>1, <1>3 DEF Refuse, Route, Step, CancelEmbed, CancelWait, Embed, EmbedFails, Finish,
                    Outside, Ended, RouterInv, TypeOK
<1> QED BY <1>2, <1>3

\* A served request leaves its texts as the last ones to be evicted, in its order,
\* whatever the cache held (router.py:236-240).
THEOREM RecentlyUsedLast == Spec => LeastRecentlyUsedFirst
<1> DEFINE Recency(c) ==
      pc[c] = "embedding" /\ pc'[c] = "ok" =>
        LET recent == SubSeq(cache', Len(cache') - Len(request[c]) + 1, Len(cache'))
        IN  [i \in DOMAIN recent |-> recent[i].text] = request[c]
<1>1. ASSUME RouterInv, Next, NEW c \in Call, pc[c] = "embedding", pc'[c] = "ok"
      PROVE  Recency(c)
  <2> DEFINE recent == SubSeq(cache', Len(cache') - Len(request[c]) + 1, Len(cache'))
             r == request[c]
             n == Len(r)
             es == cache'
             L == Len(es)
  <2>1. PICK filled : Fills(c, filled)
    BY <1>1, ServedByVectors, EmbeddedFills
  <2>2. ToSet(r) \subseteq Cached(filled)
    BY <1>1, <2>1 DEF Fills
  <2>3. Good(es) /\ Recent(es, r, n)
    BY <2>1, <2>2 DEF Fills, ReadFrom
  <2>4. r \in Seq(Text) /\ n \in Nat /\ r = [i \in 1..n |-> r[i]]
    <3>1. request[c] \in Seq(Text)
      BY <1>1, RequestFacts DEF RouterInv, TypeOK
    <3> QED BY <3>1
  <2>5. L \in Nat /\ es \in Seq(Entry) /\ n \in 0..L
    BY <2>3, EntryType DEF Good, Recent
  <2> HIDE DEF r, n, es, L
  <2>6. /\ SubSeq(es, L - n + 1, L) \in Seq(Entry) /\ Len(SubSeq(es, L - n + 1, L)) = n
        /\ \A i \in 1..n : SubSeq(es, L - n + 1, L)[i] = es[L - n + i]
    <3>1. L - n + 1 \in Int /\ L \in Int /\ L - (L - n + 1) + 1 = n
      BY <2>4, <2>5
    <3>2. \A i \in (L - n + 1)..L : es[i] \in Entry
      BY <2>4, <2>5, EntryType DEF L
    <3>3. /\ SubSeq(es, L - n + 1, L) \in Seq(Entry)
          /\ Len(SubSeq(es, L - n + 1, L)) =
               IF L - n + 1 <= L THEN L - (L - n + 1) + 1 ELSE 0
          /\ \A i \in 1..(L - (L - n + 1) + 1) :
               SubSeq(es, L - n + 1, L)[i] = es[(L - n + 1) + i - 1]
      BY <3>1, <3>2, SubSeqProperties
    <3>4. \A i \in 1..n : (L - n + 1) + i - 1 = L - n + i
      BY <2>4, <2>5
    <3> QED BY <2>4, <2>5, <3>1, <3>3, <3>4
  <2>7. recent = SubSeq(es, L - n + 1, L)
    BY DEF r, n, es, L
  <2> HIDE DEF recent
  <2>8. DOMAIN recent = 1..n
    BY <2>6, <2>7
  <2>9. \A i \in 1..n : recent[i].text = r[i]
    BY <2>3, <2>6, <2>7 DEF Recent, L
  <2>10. [i \in DOMAIN recent |-> recent[i].text] = r
    BY <2>4, <2>8, <2>9
  <2> QED BY <2>10 DEF recent, r
<1>2. ASSUME RouterInv, UNCHANGED vars, NEW c \in Call PROVE Recency(c)
  BY <1>2 DEF vars
<1>3. RouterInv /\ [Next]_vars => [\A c \in Call : Recency(c)]_vars
  BY <1>1, <1>2
<1> QED BY RouterHolds, <1>3, PTL DEF Spec, LeastRecentlyUsedFirst

\* A call that misses a text it needs asked for more than the cache can hold with
\* what it holds (router.py:237-239).
THEOREM CorruptByEviction == Spec => CorruptOnlyByEviction
<1> DEFINE Bound(c) ==
      pc[c] = "embedding" /\ pc'[c] = "corrupt" =>
        Cardinality(Cached(cache) \cup ToSet(request[c])) > CacheSize
<1>1. ASSUME RouterInv, Next, NEW c \in Call, pc[c] = "embedding", pc'[c] = "corrupt"
      PROVE  Bound(c)
  <2> DEFINE all == Cached(cache) \cup ToSet(request[c])
  <2>1. PICK filled : Fills(c, filled)
    BY <1>1, ServedByVectors, EmbeddedFills
  <2>2. Cached(filled) # all
    BY <1>1, <2>1 DEF Fills
  <2>3. ~(Cardinality(all) <= CacheSize)
    BY <2>1, <2>2 DEF Fills, FilledWith
  <2>4. Cardinality(all) \in Nat
    <3>1. Cached(cache) \subseteq Text
      BY <1>1, EntryType DEF RouterInv, Good
    <3>2. request[c] \in Seq(Text)
      BY <1>1, RequestFacts DEF RouterInv, TypeOK
    <3>3. ToSet(request[c]) \subseteq Text
      BY <3>2 DEF ToSet
    <3>4. all \in SUBSET Text
      BY <3>1, <3>3
    <3> QED BY <3>4, FS_Subset, FS_CardinalityType, RouterAssumption
  <2> QED BY <2>3, <2>4, RouterAssumption
<1>2. ASSUME RouterInv, UNCHANGED vars, NEW c \in Call PROVE Bound(c)
  BY <1>2 DEF vars
<1>3. RouterInv /\ [Next]_vars => [\A c \in Call : Bound(c)]_vars
  BY <1>1, <1>2
<1> QED BY RouterHolds, <1>3, PTL DEF Spec, CorruptOnlyByEviction
=============================================================================
