-------------------------- MODULE DocumentIndexProofs --------------------------
(***************************************************************************)
(* What is proved of the RAG pipeline, for every set of files and of       *)
(* documents, in three parts.                                              *)
(*                                                                         *)
(* The chunks: the spans of a text that lie within a chunk wherever they   *)
(* begin are exactly those of up to Overlap + 1 characters.                *)
(*                                                                         *)
(* The stores: both indexes and the ledger agree after every call, whether *)
(* or not the vector store refuses what the call adds.  The argument needs *)
(* that the names of a document's chunks differ, also across its pages;    *)
(* that a deletion keeps the same places of the three lists of the vector  *)
(* store; and that the ledger has all that is stored of a document, so     *)
(* that what is kept is of other documents and cannot collide with it.     *)
(*                                                                         *)
(* The fusion: whatever the two rankings are, the hits are in a strict     *)
(* order, in which a hit that neither ranking puts below another precedes  *)
(* it.                                                                     *)
(***************************************************************************)
EXTENDS DocumentIndex, SublistProofs, FiniteSetTheorems

(* Chunks *)

\* Each chunk starts after the one before and repeats Overlap characters of it.
LEMMA StepPositive == Step \in Nat /\ Step > 0 /\ Step + Overlap = ChunkSize
BY ChunkingAssumption DEF Step

\* Every character has a last start before it.
LEMMA Division ==
  ASSUME NEW a \in Nat, NEW d \in Nat, d > 0
  PROVE  \E k \in Nat : k * d <= a /\ a < k * d + d /\ k <= a
<1>1. a \div d \in Nat /\ (a \div d) * d <= a /\ a < (a \div d) * d + d
  BY Z3
<1>2. a \div d <= a
  BY <1>1, Z3
<1> QED BY <1>1, <1>2

\* A span of at most Overlap + 1 characters lies within one chunk, wherever it is
\* in the text; so every character is in some chunk.  (chunk_text's docstring
\* promises this of every sentence.)
THEOREM ShortSpansKept ==
  ASSUME NEW length \in Nat, NEW from \in Nat, NEW to \in Nat,
         from < to, to <= length, to - from <= Overlap + 1
  PROVE  \E k \in Pieces(length) : Within(from, to, k, length)
<1>1. PICK k \in Nat : k * Step <= from /\ from < k * Step + Step /\ k <= from
  BY Division, StepPositive
<1>2. k \in 0..length /\ Start(k) < length
  BY <1>1, StepPositive DEF Start
<1>3. to <= Start(k) + ChunkSize
  BY <1>1, StepPositive, ChunkingAssumption DEF Start
<1>4. Within(from, to, k, length)
  BY <1>1, <1>3 DEF Within, End, Start
<1> QED BY <1>2, <1>4 DEF Pieces

\* No longer span is safe: in every text that has room for it, the span of
\* Overlap + 2 characters that begins just before the second chunk is in none.
THEOREM LongerSpansSplit ==
  ASSUME NEW length \in Nat, length >= ChunkSize + 1
  PROVE  \A k \in Pieces(length) : ~Within(Step - 1, ChunkSize + 1, k, length)
<1> SUFFICES ASSUME NEW k \in Pieces(length), Within(Step - 1, ChunkSize + 1, k, length)
             PROVE  FALSE
  OBVIOUS
<1>1. k \in Nat
  BY DEF Pieces
<1>2. CASE k = 0
  <2>1. Start(k) = 0
    BY <1>2, StepPositive DEF Start
  <2>2. End(k, length) = ChunkSize
    BY <2>1, ChunkingAssumption DEF End
  <2> QED BY <2>2, ChunkingAssumption DEF Within
<1>3. CASE k >= 1
  <2>1. k * Step >= Step
    <3>1. \E j \in Nat : k = j + 1
      <4>1. k - 1 \in Nat /\ k = (k - 1) + 1
        BY <1>1, <1>3
      <4> QED BY <4>1
    <3>2. PICK j \in Nat : k = j + 1
      BY <3>1
    <3> DEFINE d == Step
    <3>3. d \in Nat /\ k * d = j * d + d /\ j * d \in Nat
      <4>1. d \in Nat
        BY StepPositive
      <4> HIDE DEF d
      <4> QED BY <3>2, <4>1, Z3
    <3> QED BY <3>3, StepPositive
  <2>2. Start(k) <= Step - 1
    BY DEF Within
  <2> QED BY <1>1, <2>1, <2>2, StepPositive DEF Start
<1> QED BY <1>1, <1>2, <1>3
-----------------------------------------------------------------------------
(* The stores *)

\* The concatenations of the first lists of seqs.
Concats(f, seqs, S) ==
  /\ f \in [1..Len(seqs) -> Seq(S)]
  /\ FlattenSeq(seqs) = f[Len(seqs)]
  /\ f[1] = seqs[1]
  /\ \A i \in 2..Len(seqs) : f[i] = f[i - 1] \o seqs[i]

\* The recursive function of FlattenSeq.
LEMMA FlattenConcats ==
  ASSUME NEW S, NEW seqs \in Seq(Seq(S)), Len(seqs) # 0
  PROVE  \E f : Concats(f, seqs, S)
<1> DEFINE n == Len(seqs)
           Body(h) == [i \in 1..n |-> IF i = 1 THEN seqs[i] ELSE h[i - 1] \o seqs[i]]
           Rec(h) == h = Body(h)
<1>1. n \in Nat /\ n >= 1 /\ 1 \in 1..n /\ n \in 1..n
  OBVIOUS
<1>2. \A i \in 1..n : seqs[i] \in Seq(S)
  OBVIOUS
<1>3. FlattenSeq(seqs) = (CHOOSE h : Rec(h))[n]
  BY Zenon DEF FlattenSeq
<1>4. \E g \in [0..n -> Seq(S)] : g[0] = <<>> /\ \A i \in 1..n : g[i] = g[i - 1] \o seqs[i]
  <2> DEFINE step == [i \in 1..n |-> [x \in Seq(S) |-> x \o seqs[i]]]
  <2>1. \A i \in 1..n : \A x \in Seq(S) : x \o seqs[i] \in Seq(S)
    BY <1>2, ConcatProperties
  <2>2. step \in [1..n -> [Seq(S) -> Seq(S)]]
    BY <2>1
  <2>3. \A i \in 1..n : \A x \in Seq(S) : step[i][x] = x \o seqs[i]
    OBVIOUS
  <2>4. <<>> \in Seq(S)
    OBVIOUS
  <2> HIDE DEF step, n
  <2>5. Iterated(n, Seq(S), <<>>, step)
    BY <1>1, <2>2, <2>4, Iteration
  <2>6. PICK g \in [0..n -> Seq(S)] :
          g[0] = <<>> /\ \A i \in 1..n : g[i] = step[i][g[i - 1]]
    BY <2>5, Zenon DEF Iterated
  <2>7. \A i \in 1..n : g[i - 1] \in Seq(S)
    BY <1>1
  <2>8. \A i \in 1..n : g[i] = g[i - 1] \o seqs[i]
    BY <2>3, <2>6, <2>7
  <2> QED BY <2>6, <2>8, Zenon
<1>5. PICK g \in [0..n -> Seq(S)] :
        g[0] = <<>> /\ \A i \in 1..n : g[i] = g[i - 1] \o seqs[i]
  BY <1>4
<1> HIDE DEF n
<1> DEFINE f == [i \in 1..n |-> g[i]]
<1>6. g[1] = seqs[1]
  <2>1. 1 - 1 = 0
    OBVIOUS
  <2>2. g[1] = g[1 - 1] \o seqs[1]
    BY <1>1, <1>5, Zenon
  <2>3. seqs[1] \in Seq(S)
    BY <1>1, <1>2
  <2>4. <<>> \o seqs[1] = seqs[1]
    BY <2>3, ConcatEmptySeq
  <2> QED BY <1>5, <2>1, <2>2, <2>4, Zenon
<1>7. Rec(f)
  <2>1. \A i \in 1..n : i # 1 => i - 1 \in 1..n
    BY <1>1
  <2> QED BY <1>1, <1>5, <1>6, <2>1
<1> HIDE DEF Rec
<1>8. Rec(CHOOSE h : Rec(h))
  BY <1>7, Zenon
<1> DEFINE flat == CHOOSE h : Rec(h)
<1>9. Rec(flat) /\ FlattenSeq(seqs) = flat[n]
  BY <1>3, <1>8
<1> HIDE DEF flat
<1>10. flat = [i \in 1..n |-> IF i = 1 THEN seqs[i] ELSE flat[i - 1] \o seqs[i]]
  BY <1>9, Zenon DEF Rec
<1>11. /\ flat[1] = seqs[1]
       /\ \A i \in 2..n : i \in 1..n /\ flat[i] = flat[i - 1] \o seqs[i]
  <2>1. \A i \in 2..n : i \in 1..n /\ i # 1
    BY <1>1
  <2>2. \A i \in 1..n : flat[i] = IF i = 1 THEN seqs[i] ELSE flat[i - 1] \o seqs[i]
    BY <1>10, Zenon
  <2> QED BY <1>1, <2>1, <2>2
<1>12. \A i \in 1..n : flat[i] \in Seq(S)
  <2> DEFINE T == {i \in 0..n : i = 0 \/ flat[i] \in Seq(S)}
  <2>1. 0 \in T
    BY <1>1
  <2>2. ASSUME NEW m \in 0..(n - 1), m \in T PROVE m + 1 \in T
    <3>1. m + 1 \in 1..n /\ m + 1 \in 0..n /\ (m + 1) - 1 = m /\ (m # 0 => m + 1 \in 2..n)
      BY <1>1
    <3>2. CASE m = 0
      BY <1>2, <1>11, <3>1, <3>2
    <3>3. CASE m # 0
      <4>1. flat[m + 1] = flat[m] \o seqs[m + 1] /\ flat[m] \in Seq(S)
        BY <1>11, <2>2, <3>1, <3>3
      <4>2. flat[m] \o seqs[m + 1] \in Seq(S)
        BY <1>2, <3>1, <4>1, ConcatProperties
      <4> QED BY <3>1, <4>1, <4>2
    <3> QED BY <3>2, <3>3
  <2> HIDE DEF T
  <2>3. \A m \in 0..n : m \in T
    BY <1>1, <2>1, <2>2, Induction
  <2>4. \A i \in 1..n : i \in 0..n /\ i # 0
    BY <1>1
  <2> QED BY <2>3, <2>4 DEF T
<1>13. Concats(flat, seqs, S)
  <2>1. flat \in [1..n -> Seq(S)]
    BY <1>10, <1>12
  <2> QED BY <1>9, <1>11, <2>1 DEF Concats, n
<1> QED BY <1>13

\* Each element of list is in one of the first m lists of seqs, and there once.
Joins(list, seqs, m) ==
  /\ \A k \in DOMAIN list : \E i \in 1..m : \E j \in DOMAIN seqs[i] : list[k] = seqs[i][j]
  /\ IsInjective(list)

\* A list of lists without repetition is flattened to a list without repetition.
LEMMA FlattenJoins ==
  ASSUME NEW S, NEW seqs \in Seq(Seq(S)), Len(seqs) # 0,
         \A i \in DOMAIN seqs : IsInjective(seqs[i]),
         \A i, k \in DOMAIN seqs : \A j \in DOMAIN seqs[i] : \A l \in DOMAIN seqs[k] :
           seqs[i][j] = seqs[k][l] => i = k
  PROVE  FlattenSeq(seqs) \in Seq(S) /\ Joins(FlattenSeq(seqs), seqs, Len(seqs))
<1> DEFINE n == Len(seqs)
<1>1. n \in Nat /\ n >= 1 /\ DOMAIN seqs = 1..n /\ n \in 1..n /\ 1 \in 1..n
  OBVIOUS
<1>2. \A i \in 1..n : seqs[i] \in Seq(S)
  OBVIOUS
<1>3. PICK f : Concats(f, seqs, S)
  BY FlattenConcats
<1>4. /\ f \in [1..n -> Seq(S)] /\ FlattenSeq(seqs) = f[n] /\ f[1] = seqs[1]
      /\ \A i \in 2..n : f[i] = f[i - 1] \o seqs[i]
  BY <1>3 DEF Concats
<1> HIDE DEF n
<1> DEFINE T == {m \in 0..n : m = 0 \/ Joins(f[m], seqs, m)}
<1>5. 0 \in T
  BY <1>1
<1>6. ASSUME NEW m \in 0..(n - 1), m \in T PROVE m + 1 \in T
  <2>1. m + 1 \in 1..n /\ m + 1 \in 0..n /\ (m + 1) - 1 = m /\ (m # 0 => m + 1 \in 2..n)
    BY <1>1
  <2>2. CASE m = 0
    <3>1. Joins(seqs[1], seqs, 1)
      BY <1>1 DEF Joins
    <3> QED BY <1>4, <2>1, <2>2, <3>1
  <2>3. CASE m # 0
    <3> DEFINE list == f[m]
               more == seqs[m + 1]
               joined == list \o more
    <3>1. /\ f[m + 1] = joined /\ list \in Seq(S) /\ more \in Seq(S)
          /\ Joins(list, seqs, m)
      <4>1. m \in 1..n
        BY <1>1, <2>3
      <4>2. f[m] \in Seq(S) /\ seqs[m + 1] \in Seq(S) /\ Joins(f[m], seqs, m)
        BY <1>2, <1>4, <1>6, <2>1, <2>3, <4>1
      <4>3. f[m + 1] = f[m] \o seqs[m + 1]
        BY <1>4, <2>1, <2>3
      <4> QED BY <4>2, <4>3
    <3> HIDE DEF list
    <3>2. /\ Len(list) \in Nat /\ DOMAIN list = 1..Len(list)
          /\ Len(more) \in Nat /\ DOMAIN more = 1..Len(more)
      BY <3>1
    <3>3. /\ DOMAIN joined = 1..(Len(list) + Len(more))
          /\ \A k \in 1..(Len(list) + Len(more)) :
               joined[k] = IF k <= Len(list) THEN list[k] ELSE more[k - Len(list)]
      <4>1. /\ joined \in Seq(S) /\ Len(joined) = Len(list) + Len(more)
            /\ \A k \in 1..(Len(list) + Len(more)) :
                 joined[k] = IF k <= Len(list) THEN list[k] ELSE more[k - Len(list)]
        BY <3>1, ConcatProperties
      <4> HIDE DEF joined
      <4> QED BY <4>1
    <3> HIDE DEF joined
    <3>4. \A k \in DOMAIN joined :
            \/ k \in DOMAIN list /\ joined[k] = list[k]
            \/ k - Len(list) \in DOMAIN more /\ joined[k] = more[k - Len(list)]
      BY <3>2, <3>3
    <3>5. IsInjective(list) /\ IsInjective(more)
      BY <1>1, <2>1, <3>1 DEF Joins
    <3>6. \A j \in DOMAIN list : \A l \in DOMAIN more : list[j] # more[l]
      <4>1. ASSUME NEW j \in DOMAIN list, NEW l \in DOMAIN more PROVE list[j] # more[l]
        <5>1. PICK i \in 1..m : \E h \in DOMAIN seqs[i] : list[j] = seqs[i][h]
          BY <3>1 DEF Joins
        <5>2. i \in 1..n /\ i # m + 1
          BY <1>1, <2>1
        <5> QED BY <1>1, <2>1, <5>1, <5>2
      <4> QED BY <4>1
    <3>7. IsInjective(joined)
      <4>1. ASSUME NEW j \in DOMAIN joined, NEW k \in DOMAIN joined, joined[j] = joined[k]
            PROVE  j = k
        <5>1. CASE j \in DOMAIN list /\ k \in DOMAIN list
                   /\ joined[j] = list[j] /\ joined[k] = list[k]
          BY <3>5, <4>1, <5>1 DEF IsInjective
        <5>2. CASE j - Len(list) \in DOMAIN more /\ k - Len(list) \in DOMAIN more
                   /\ joined[j] = more[j - Len(list)] /\ joined[k] = more[k - Len(list)]
          <6>1. j - Len(list) = k - Len(list)
            BY <3>5, <4>1, <5>2 DEF IsInjective
          <6> QED BY <3>2, <3>3, <6>1
        <5> QED BY <3>4, <3>6, <4>1, <5>1, <5>2
      <4> QED BY <4>1 DEF IsInjective
    <3>8. Joins(joined, seqs, m + 1)
      <4>1. ASSUME NEW k \in DOMAIN joined
            PROVE  \E i \in 1..(m + 1) : \E j \in DOMAIN seqs[i] : joined[k] = seqs[i][j]
        <5>1. CASE k \in DOMAIN list /\ joined[k] = list[k]
          <6>1. PICK i \in 1..m : \E j \in DOMAIN seqs[i] : list[k] = seqs[i][j]
            BY <3>1, <5>1 DEF Joins
          <6>2. i \in 1..(m + 1)
            BY <2>1
          <6> QED BY <5>1, <6>1, <6>2
        <5>2. CASE k - Len(list) \in DOMAIN more /\ joined[k] = more[k - Len(list)]
          <6>1. m + 1 \in 1..(m + 1)
            BY <2>1
          <6> QED BY <5>2, <6>1
        <5> QED BY <3>4, <5>1, <5>2
      <4> QED BY <3>7, <4>1 DEF Joins
    <3> QED BY <2>1, <3>1, <3>8
  <2> QED BY <2>2, <2>3
<1> HIDE DEF T
<1>7. \A m \in 0..n : m \in T
  BY <1>1, <1>5, <1>6, Induction
<1>8. n \in 0..n /\ n # 0
  BY <1>1
<1>9. Joins(f[n], seqs, n)
  BY <1>7, <1>8 DEF T
<1> QED BY <1>1, <1>4, <1>9 DEF n

\* The name of a chunk, and a text of it.
Chunk == [path : Path, page : Nat, index : Nat]
Text == [of : Chunk, call : Nat]

\* The chunks of a document have different names, all of its path.
LEMMA ChunkNames ==
  ASSUME NEW p \in Path, NEW pages \in Seq(Nat), Len(pages) # 0
  PROVE  /\ Chunks(p, pages) \in Seq(Chunk) /\ IsInjective(Chunks(p, pages))
         /\ \A k \in DOMAIN Chunks(p, pages) : Chunks(p, pages)[k].path = p
<1> DEFINE n == Len(pages)
           count == [i \in 1..n |-> Cardinality(Pieces(pages[i]))]
           seqs == [i \in 1..n |->
                      [j \in 1..count[i] |-> [path |-> p, page |-> i, index |-> j - 1]]]
<1>1. n \in Nat /\ DOMAIN pages = 1..n /\ \A i \in 1..n : pages[i] \in Nat
  OBVIOUS
<1>2. ASSUME NEW i \in 1..n PROVE count[i] \in Nat
  <2>1. Pieces(pages[i]) \in SUBSET (0..pages[i])
    BY DEF Pieces
  <2>2. IsFiniteSet(0..pages[i])
    BY <1>1, FS_Interval
  <2>3. Cardinality(Pieces(pages[i])) \in Nat
    BY <2>1, <2>2, FS_Subset, FS_CardinalityType
  <2> QED BY <2>3
<1>3. Chunks(p, pages) = FlattenSeq(seqs)
  BY <1>1 DEF Chunks
<1> HIDE DEF count
<1>4. /\ DOMAIN seqs = 1..n
      /\ \A i \in 1..n : /\ DOMAIN seqs[i] = 1..count[i]
                         /\ \A j \in 1..count[i] :
                              seqs[i][j] = [path |-> p, page |-> i, index |-> j - 1]
  OBVIOUS
<1>5. \A i \in 1..n : seqs[i] \in Seq(Chunk)
  <2>1. ASSUME NEW i \in 1..n PROVE seqs[i] \in Seq(Chunk)
    <3>1. \A j \in 1..count[i] : [path |-> p, page |-> i, index |-> j - 1] \in Chunk
      BY <1>1, <1>2 DEF Chunk
    <3>2. seqs[i] \in [1..count[i] -> Chunk]
      BY <3>1
    <3> HIDE DEF seqs
    <3> QED BY <1>2, <3>2
  <2> QED BY <2>1
<1>6. seqs \in Seq(Seq(Chunk))
  <2>1. seqs \in [1..n -> Seq(Chunk)]
    <3>1. seqs = [i \in 1..n |-> seqs[i]]
      OBVIOUS
    <3> HIDE DEF seqs
    <3> QED BY <1>5, <3>1
  <2> HIDE DEF seqs
  <2> QED BY <1>1, <2>1
<1> HIDE DEF seqs
<1>7. ASSUME NEW i \in 1..n, NEW j \in DOMAIN seqs[i]
       PROVE  seqs[i][j].path = p /\ seqs[i][j].page = i /\ seqs[i][j].index = j - 1
  <2>1. seqs[i][j] = [path |-> p, page |-> i, index |-> j - 1]
    BY <1>4
  <2> QED BY <2>1
<1>8. \A i \in 1..n : IsInjective(seqs[i])
  <2>1. ASSUME NEW i \in 1..n, NEW j \in 1..count[i], NEW k \in 1..count[i],
               seqs[i][j] = seqs[i][k]
        PROVE  j = k
    <3>1. seqs[i][j].index = j - 1 /\ seqs[i][k].index = k - 1
      BY <1>4, <1>7
    <3> QED BY <1>2, <2>1, <3>1
  <2> QED BY <1>4, <2>1 DEF IsInjective
<1>9. ASSUME NEW i \in 1..n, NEW k \in 1..n, NEW j \in DOMAIN seqs[i],
             NEW l \in DOMAIN seqs[k], seqs[i][j] = seqs[k][l]
      PROVE  i = k
  <2>1. seqs[i][j].page = i /\ seqs[k][l].page = k
    BY <1>7
  <2> QED BY <1>9, <2>1
<1>10. Len(seqs) = n
  BY <1>1, <1>4, <1>6
<1>11. FlattenSeq(seqs) \in Seq(Chunk) /\ Joins(FlattenSeq(seqs), seqs, n)
  BY <1>4, <1>6, <1>8, <1>9, <1>10, FlattenJoins
<1>12. \A k \in DOMAIN FlattenSeq(seqs) : FlattenSeq(seqs)[k].path = p
  BY <1>11, <1>7 DEF Joins
<1> QED BY <1>3, <1>11, <1>12 DEF Joins

\* keep has the places of the m ids that are not deleted.
Keeps(keep, m, gone) ==
  /\ m \in Nat /\ keep \in [1..m -> DOMAIN ids]
  /\ \A j, k \in 1..m : keep[j] = keep[k] => j = k
  /\ \A k \in 1..m : ids[keep[k]] \notin gone
  /\ \A i \in DOMAIN ids : ids[i] \notin gone => \E k \in 1..m : keep[k] = i
  /\ \A list : Kept(list, gone) = [k \in 1..m |-> list[keep[k]]]

\* Deletion keeps the same places of every list.
LEMMA DeletionKeeps ==
  ASSUME ids \in Seq(Chunk), NEW gone
  PROVE  \E keep, m : Keeps(keep, m, gone)
<1> DEFINE n == Len(ids)
           all == [i \in DOMAIN ids |-> i]
           stay == {i \in DOMAIN ids : ids[i] \notin gone}
           keep == Sublist(all, stay)
           m == Len(keep)
<1>1. n \in Nat /\ DOMAIN ids = 1..n
  OBVIOUS
<1>2. all \in Seq(1..n) /\ Len(all) = n /\ \A i \in 1..n : all[i] = i
  <2>1. all \in [1..n -> 1..n] /\ \A i \in 1..n : all[i] = i
    BY <1>1
  <2> HIDE DEF all
  <2>2. all \in Seq(1..n)
    BY <1>1, <2>1
  <2> QED BY <1>1, <2>1, <2>2
<1>3. \A list : Kept(list, gone) = [k \in DOMAIN keep |-> list[keep[k]]]
  BY DEF Kept
<1> HIDE DEF all, stay
<1>4. keep \in Seq(1..n) /\ Picks(keep, all, stay, n)
  BY <1>2, SublistPicks
<1> HIDE DEF keep
<1>5. m \in Nat /\ DOMAIN keep = 1..m /\ keep \in [1..m -> 1..n]
  BY <1>4
<1> HIDE DEF m, n
<1>6. PICK from \in [1..m -> 1..n] :
        /\ \A k \in 1..m : keep[k] = all[from[k]] /\ all[from[k]] \in stay
        /\ \A j, k \in 1..m : j < k => from[j] < from[k]
        /\ \A i \in 1..n : all[i] \in stay => \E k \in 1..m : from[k] = i
  BY <1>4 DEF Picks, m
<1>7. \A k \in 1..m : from[k] \in 1..n /\ keep[k] = from[k] /\ from[k] \in stay
  BY <1>2, <1>6
<1>8. ASSUME NEW j \in 1..m, NEW k \in 1..m, keep[j] = keep[k] PROVE j = k
  <2>1. from[j] = from[k] /\ from[j] \in Nat
    BY <1>1, <1>7, <1>8
  <2>2. ~(from[j] < from[k]) /\ ~(from[k] < from[j])
    BY <2>1
  <2>3. ~(j < k) /\ ~(k < j)
    BY <1>6, <2>2
  <2> QED BY <1>5, <2>3
<1>9. \A k \in 1..m : ids[keep[k]] \notin gone
  BY <1>7 DEF stay
<1>10. ASSUME NEW i \in DOMAIN ids, ids[i] \notin gone PROVE \E k \in 1..m : keep[k] = i
  <2>1. i \in 1..n /\ all[i] \in stay
    BY <1>1, <1>2, <1>10 DEF stay
  <2> QED BY <1>6, <1>7, <2>1
<1>11. keep \in [1..m -> DOMAIN ids]
  BY <1>1, <1>5
<1>12. \A list : Kept(list, gone) = [k \in 1..m |-> list[keep[k]]]
  BY <1>3, <1>5
<1>13. Keeps(keep, m, gone)
  BY <1>5, <1>8, <1>9, <1>10, <1>11, <1>12 DEF Keeps
<1> QED BY <1>13

\* out has the elements of list at the m places of keep, and then those of new.
Renews(out, list, keep, m, new) ==
  /\ DOMAIN out = 1..(m + Len(new))
  /\ \A k \in 1..m : out[k] = list[keep[k]]
  /\ \A k \in 1..Len(new) : out[m + k] = new[k]
  /\ \A k \in DOMAIN out : k \in 1..m \/ \E l \in 1..Len(new) : k = m + l

\* The part of a list that is kept, with the new elements behind it.
LEMMA KeptThenNew ==
  ASSUME NEW S, NEW list \in Seq(S), NEW m \in Nat, NEW keep \in [1..m -> DOMAIN list],
         NEW new \in Seq(S)
  PROVE  LET out == [k \in 1..m |-> list[keep[k]]] \o new
         IN  out \in Seq(S) /\ Renews(out, list, keep, m, new)
<1> DEFINE left == [k \in 1..m |-> list[keep[k]]]
           out == left \o new
<1>1. left \in Seq(S) /\ Len(left) = m /\ \A k \in 1..m : left[k] = list[keep[k]]
  <2>1. \A i \in DOMAIN list : list[i] \in S
    OBVIOUS
  <2>2. left \in [1..m -> S] /\ \A k \in 1..m : left[k] = list[keep[k]]
    BY <2>1
  <2> HIDE DEF left
  <2>3. left \in Seq(S)
    BY <2>2
  <2> QED BY <2>2, <2>3
<1> HIDE DEF left
<1> DEFINE l == Len(new)
<1>2. l \in Nat
  OBVIOUS
<1>3. /\ out \in Seq(S) /\ Len(out) = m + l
      /\ \A k \in 1..(m + l) : out[k] = IF k <= m THEN left[k] ELSE new[k - m]
  BY <1>1, ConcatProperties
<1> HIDE DEF out, l
<1>4. DOMAIN out = 1..(m + l)
  BY <1>3
<1>5. \A k \in 1..m : k \in 1..(m + l) /\ k <= m
  BY <1>2
<1>6. \A k \in 1..l : m + k \in 1..(m + l) /\ ~(m + k <= m) /\ (m + k) - m = k
  BY <1>2
<1>7. \A k \in 1..(m + l) : k \in 1..m \/ (k - m \in 1..l /\ k = m + (k - m))
  BY <1>2
<1>8. Renews(out, list, keep, m, new)
  BY <1>1, <1>3, <1>4, <1>5, <1>6, <1>7 DEF Renews, l
<1> QED BY <1>3, <1>8 DEF out, left

\* No page, no chunk.
LEMMA NoChunks == \A p \in Path : <<>> \in Seq(Nat) /\ <<>> = Chunks(p, <<>>)
<1> SUFFICES ASSUME NEW p \in Path PROVE <<>> = Chunks(p, <<>>)
  OBVIOUS
<1> DEFINE parts == [i \in DOMAIN <<>> |->
                      [j \in 1..Cardinality(Pieces(<<>>[i])) |->
                         [path |-> p, page |-> i, index |-> j - 1]]]
<1>1. parts \in [1..0 -> Nat]
  BY DOMAIN <<>> = 1..0, 1..0 = {}
<1>2. parts \in Seq(Nat) /\ Len(parts) = 0
  BY <1>1
<1>3. parts = <<>>
  BY <1>2, EmptySeq
<1>4. Chunks(p, <<>>) = FlattenSeq(parts)
  BY DEF Chunks
<1> QED BY <1>2, <1>3, <1>4 DEF FlattenSeq

\* The type of the variables that the argument reads; what is accounted to a document
\* has its path.
TypeInv ==
  /\ calls \in [Path -> Nat]
  /\ ids \in Seq(Chunk) /\ rows \in Seq(Text) /\ metadata \in Seq(Text)
  /\ ledger \in [Path -> Seq(Chunk)] /\ indexed \in [Path -> Seq(Nat)]
  /\ \A p \in Path : \A i \in DOMAIN ledger[p] : ledger[p][i].path = p

\* The inductive invariant.
IndexInv == TypeInv /\ StoresAgree /\ NothingStale

\* What index_pdf keeps is of other documents.
LEMMA KeptIsOfOthers ==
  ASSUME NothingStale, NEW p \in Path, NEW keep, NEW m, Keeps(keep, m, ToSet(ledger[p]))
  PROVE  \A k \in 1..m : ids[keep[k]].path # p
<1> SUFFICES ASSUME NEW k \in 1..m, ids[keep[k]].path = p PROVE FALSE
  OBVIOUS
<1>1. keep[k] \in DOMAIN ids /\ ids[keep[k]] \notin ToSet(ledger[p])
  BY DEF Keeps
<1> DEFINE present == {i \in DOMAIN ids : ids[i].path = p}
<1>2. keep[k] \in present
  BY <1>1
<1>3. {ids[i] : i \in present} = ToSet(ledger[p])
  BY <1>2 DEF NothingStale
<1> QED BY <1>1, <1>2, <1>3

\* What is stored of a call, and where: the indexes are rebuilt from the same places,
\* and the new chunks and their texts are added behind them unless the store refuses.
Written(p, keep, m, new, texts, all) ==
  /\ calls' = [calls EXCEPT ![p] = @ + 1]
  /\ Keeps(keep, m, ToSet(ledger[p]))
  /\ ids' \in Seq(Chunk) /\ Renews(ids', ids, keep, m, new)
  /\ rows' \in Seq(Text) /\ Renews(rows', rows, keep, m, texts)
  /\ metadata' \in Seq(Text) /\ Renews(metadata', metadata, keep, m, texts)
  /\ keyword' = KeywordWith(ToSet(ledger[p]), new, all)
  /\ \/ new = <<>> /\ ledger' = ledger
     \/ ledger' = [ledger EXCEPT ![p] = new]
  /\ \E read \in Seq(Nat) : new = Chunks(p, read) /\ indexed' = [indexed EXCEPT ![p] = read]

\* The chunks that are added: they are of the document, each with its text.
Added(p, new, texts, all) ==
  /\ new \in Seq(Chunk) /\ IsInjective(new)
  /\ texts \in Seq(Text) /\ Len(texts) = Len(new)
  /\ \A k \in DOMAIN new : /\ new[k].path = p
                           /\ texts[k].of = new[k] /\ texts[k].call = calls[p] + 1
                           /\ (CHOOSE t \in ToSet(all) : t.of = new[k]) = texts[k]

\* A call of index_pdf, whether or not the store refuses what it adds.
LEMMA CallWrites ==
  ASSUME TypeInv, StoresAgree, NEW p \in Path, NEW pages \in Documents, NEW fits,
         IndexPdf(p, pages, fits)
  PROVE  \E keep, m, new, texts, all :
           Written(p, keep, m, new, texts, all) /\ Added(p, new, texts, all)
<1> DEFINE gone == ToSet(ledger[p])
           new == Chunks(p, pages)
           all == Texts(p, pages)
<1>1. pages \in Seq(Nat) /\ Len(pages) # 0
  <2>1. pages \in Seq(Nat)
    BY IndexAssumption
  <2>2. DOMAIN pages # {} /\ DOMAIN pages = 1..Len(pages)
    BY <2>1 DEF IndexPdf
  <2> QED BY <2>1, <2>2
<1>2. new \in Seq(Chunk) /\ IsInjective(new) /\ \A k \in DOMAIN new : new[k].path = p
  BY <1>1, ChunkNames
<1>3. all = [k \in DOMAIN new |-> [of |-> new[k], call |-> calls[p] + 1]]
  BY DEF Texts
<1>4. PICK keep, m : Keeps(keep, m, gone)
  BY DeletionKeeps DEF TypeInv
<1>5. IndexPdf(p, pages, fits) =>
        /\ calls' = [calls EXCEPT ![p] = @ + 1]
        /\ IF Refused(Kept(ids, gone), new, fits)
           THEN /\ ids' = Kept(ids, gone) /\ rows' = Kept(rows, gone)
                /\ metadata' = Kept(metadata, gone)
                /\ keyword' = KeywordWith(gone, <<>>, all)
                /\ ledger' = ledger /\ indexed' = [indexed EXCEPT ![p] = <<>>]
           ELSE /\ ids' = Kept(ids, gone) \o new /\ rows' = Kept(rows, gone) \o all
                /\ metadata' = Kept(metadata, gone) \o all
                /\ keyword' = KeywordWith(gone, new, all)
                /\ ledger' = [ledger EXCEPT ![p] = new]
                /\ indexed' = [indexed EXCEPT ![p] = pages]
  BY DEF IndexPdf, Gone
<1>6. \E read \in Seq(Nat) : new = Chunks(p, read) /\ pages = read
  BY <1>1
<1> HIDE DEF gone, new, all
<1>7. /\ all \in Seq(Text) /\ Len(all) = Len(new) /\ DOMAIN all = DOMAIN new
      /\ \A k \in DOMAIN new : all[k].of = new[k] /\ all[k].call = calls[p] + 1
  <2>1. calls[p] + 1 \in Nat
    BY DEF TypeInv
  <2>2. \A k \in DOMAIN new : /\ [of |-> new[k], call |-> calls[p] + 1] \in Text
                              /\ all[k] = [of |-> new[k], call |-> calls[p] + 1]
    BY <1>2, <1>3, <2>1 DEF Text
  <2>3. DOMAIN new = 1..Len(new) /\ Len(new) \in Nat
    BY <1>2
  <2> DEFINE l == Len(new)
  <2>4. all \in [1..l -> Text] /\ DOMAIN all = DOMAIN new
    BY <1>3, <2>2, <2>3
  <2>5. l \in Nat
    BY <2>3
  <2> HIDE DEF l
  <2>6. all \in Seq(Text) /\ Len(all) = l
    BY <2>4, <2>5
  <2>7. Len(all) = Len(new)
    BY <2>6 DEF l
  <2>8. ASSUME NEW k \in DOMAIN new
        PROVE  all[k].of = new[k] /\ all[k].call = calls[p] + 1
    <3>1. all[k] = [of |-> new[k], call |-> calls[p] + 1]
      BY <2>2
    <3> QED BY <3>1
  <2> QED BY <2>4, <2>6, <2>7, <2>8
<1>8. ASSUME NEW k \in DOMAIN new
      PROVE  (CHOOSE t \in ToSet(all) : t.of = new[k]) = all[k]
  <2>1. all[k] \in ToSet(all) /\ all[k].of = new[k]
    BY <1>7 DEF ToSet
  <2>2. \A t \in ToSet(all) : t.of = new[k] => t = all[k]
    BY <1>2, <1>7 DEF ToSet, IsInjective
  <2> QED BY <2>1, <2>2
<1>9. \A list : Kept(list, gone) = [k \in 1..m |-> list[keep[k]]]
  BY <1>4 DEF Keeps
<1>10. m \in Nat /\ keep \in [1..m -> DOMAIN ids] /\ DOMAIN rows = DOMAIN ids
      /\ DOMAIN metadata = DOMAIN ids
  <2>1. /\ DOMAIN ids = 1..Len(ids) /\ DOMAIN rows = 1..Len(rows)
        /\ DOMAIN metadata = 1..Len(metadata)
    BY DEF TypeInv
  <2> QED BY <1>4, <2>1 DEF Keeps, StoresAgree
<1>11. CASE Refused(Kept(ids, gone), new, fits)
  <2>1. ASSUME NEW S, NEW list \in Seq(S), DOMAIN list = DOMAIN ids
        PROVE  Kept(list, gone) \in Seq(S) /\ Renews(Kept(list, gone), list, keep, m, <<>>)
    <3>1. Kept(list, gone) = [k \in 1..m |-> list[keep[k]]]
      BY <1>9
    <3>2. [k \in 1..m |-> list[keep[k]]] \in Seq(S)
      <4>1. [k \in 1..m |-> list[keep[k]]] \in [1..m -> S]
        <5>1. \A i \in DOMAIN list : list[i] \in S
          OBVIOUS
        <5> QED BY <1>10, <2>1, <5>1
      <4> QED BY <1>10, <4>1
    <3>3. [k \in 1..m |-> list[keep[k]]] \o <<>> = [k \in 1..m |-> list[keep[k]]]
      BY <3>2, ConcatEmptySeq
    <3>4. LET out == [k \in 1..m |-> list[keep[k]]] \o <<>>
          IN  out \in Seq(S) /\ Renews(out, list, keep, m, <<>>)
      <4>1. <<>> \in Seq(S) /\ keep \in [1..m -> DOMAIN list]
        BY <1>10, <2>1
      <4> QED BY <1>10, <2>1, <4>1, KeptThenNew
    <3> QED BY <3>1, <3>3, <3>4
  <2>2. /\ calls' = [calls EXCEPT ![p] = @ + 1]
        /\ ids' = Kept(ids, gone) /\ rows' = Kept(rows, gone)
        /\ metadata' = Kept(metadata, gone) /\ keyword' = KeywordWith(gone, <<>>, all)
        /\ ledger' = ledger /\ indexed' = [indexed EXCEPT ![p] = <<>>]
    BY <1>5, <1>11
  <2>3. /\ ids' \in Seq(Chunk) /\ Renews(ids', ids, keep, m, <<>>)
        /\ rows' \in Seq(Text) /\ Renews(rows', rows, keep, m, <<>>)
        /\ metadata' \in Seq(Text) /\ Renews(metadata', metadata, keep, m, <<>>)
    BY <1>10, <2>1, <2>2 DEF TypeInv
  <2>4. Written(p, keep, m, <<>>, <<>>, all)
    BY <1>4, <2>2, <2>3, NoChunks DEF Written, gone
  <2>5. Added(p, <<>>, <<>>, all)
    BY DEF Added, IsInjective
  <2> QED BY <2>4, <2>5
<1>12. CASE ~Refused(Kept(ids, gone), new, fits)
  <2>1. ASSUME NEW S, NEW list \in Seq(S), DOMAIN list = DOMAIN ids, NEW more \in Seq(S)
        PROVE  /\ Kept(list, gone) \o more \in Seq(S)
               /\ Renews(Kept(list, gone) \o more, list, keep, m, more)
    <3>1. Kept(list, gone) = [k \in 1..m |-> list[keep[k]]]
      BY <1>9
    <3>2. LET out == [k \in 1..m |-> list[keep[k]]] \o more
          IN  out \in Seq(S) /\ Renews(out, list, keep, m, more)
      <4>1. keep \in [1..m -> DOMAIN list]
        BY <1>10, <2>1
      <4> QED BY <1>10, <2>1, <4>1, KeptThenNew
    <3> QED BY <3>1, <3>2
  <2>2. /\ calls' = [calls EXCEPT ![p] = @ + 1]
        /\ ids' = Kept(ids, gone) \o new /\ rows' = Kept(rows, gone) \o all
        /\ metadata' = Kept(metadata, gone) \o all
        /\ keyword' = KeywordWith(gone, new, all)
        /\ ledger' = [ledger EXCEPT ![p] = new] /\ indexed' = [indexed EXCEPT ![p] = pages]
    BY <1>5, <1>12
  <2>3. /\ ids' \in Seq(Chunk) /\ Renews(ids', ids, keep, m, new)
        /\ rows' \in Seq(Text) /\ Renews(rows', rows, keep, m, all)
        /\ metadata' \in Seq(Text) /\ Renews(metadata', metadata, keep, m, all)
    BY <1>2, <1>7, <1>10, <2>1, <2>2 DEF TypeInv
  <2>4. Written(p, keep, m, new, all, all)
    BY <1>4, <1>6, <2>2, <2>3 DEF Written, gone
  <2>5. Added(p, new, all, all)
    BY <1>2, <1>7, <1>8 DEF Added
  <2> QED BY <2>4, <2>5
<1> QED BY <1>11, <1>12

\* A call of index_pdf keeps the stores in agreement.
LEMMA WritesAgree ==
  ASSUME IndexInv, NEW p \in Path, NEW keep, NEW m, NEW new, NEW texts, NEW all,
         Written(p, keep, m, new, texts, all), Added(p, new, texts, all)
  PROVE  StoresAgree'
<1> DEFINE gone == ToSet(ledger[p])
<1>1. /\ m \in Nat /\ keep \in [1..m -> DOMAIN ids]
      /\ \A j, k \in 1..m : keep[j] = keep[k] => j = k
      /\ \A k \in 1..m : ids[keep[k]] \notin gone /\ ids[keep[k]].path # p
      /\ \A i \in DOMAIN ids : ids[i] \notin gone => \E k \in 1..m : keep[k] = i
  BY KeptIsOfOthers DEF Written, Keeps, IndexInv
<1>2. /\ new \in Seq(Chunk) /\ DOMAIN new = 1..Len(new) /\ Len(new) \in Nat
      /\ Len(texts) = Len(new) /\ IsInjective(new)
      /\ \A k \in 1..Len(new) : /\ new[k].path = p /\ texts[k].of = new[k]
                                /\ (CHOOSE t \in ToSet(all) : t.of = new[k]) = texts[k]
  BY DEF Added
<1>3. /\ Renews(ids', ids, keep, m, new) /\ Renews(rows', rows, keep, m, texts)
      /\ Renews(metadata', metadata, keep, m, texts)
      /\ keyword' = KeywordWith(gone, new, all)
  BY DEF Written
<1> HIDE DEF gone
<1> DEFINE n == m + Len(new)
<1>4. /\ DOMAIN ids' = 1..n /\ DOMAIN rows' = 1..n /\ DOMAIN metadata' = 1..n
      /\ \A k \in 1..m : /\ ids'[k] = ids[keep[k]] /\ rows'[k] = rows[keep[k]]
                         /\ metadata'[k] = metadata[keep[k]]
      /\ \A k \in 1..Len(new) : /\ ids'[m + k] = new[k] /\ rows'[m + k] = texts[k]
                                /\ metadata'[m + k] = texts[k]
      /\ \A k \in 1..n : k \in 1..m \/ \E l \in 1..Len(new) : k = m + l
  BY <1>2, <1>3 DEF Renews
<1>5. /\ Len(ids') = n /\ Len(rows') = n /\ Len(metadata') = n
  <2>1. n \in Nat /\ ids' \in Seq(Chunk) /\ rows' \in Seq(Text) /\ metadata' \in Seq(Text)
    BY <1>1, <1>2 DEF Written
  <2>2. /\ DOMAIN ids' = 1..Len(ids') /\ Len(ids') \in Nat
        /\ DOMAIN rows' = 1..Len(rows') /\ Len(rows') \in Nat
        /\ DOMAIN metadata' = 1..Len(metadata') /\ Len(metadata') \in Nat
    BY <2>1
  <2> HIDE DEF n
  <2> QED BY <1>4, <2>1, <2>2
<1>6. /\ Len(rows) = Len(ids) /\ Len(metadata) = Len(ids) /\ IsInjective(ids)
      /\ DOMAIN keyword = ToSet(ids)
      /\ \A i \in DOMAIN ids : /\ rows[i] = metadata[i] /\ metadata[i].of = ids[i]
                               /\ keyword[ids[i]] = metadata[i]
  BY DEF IndexInv, StoresAgree
<1>7. \A k \in 1..m : /\ k \in 1..n /\ keep[k] \in DOMAIN ids
                      /\ ids'[k] \in ToSet(ids) /\ ids'[k] \notin gone /\ ids'[k].path # p
  <2>1. ASSUME NEW k \in 1..m
        PROVE  /\ keep[k] \in DOMAIN ids /\ ids[keep[k]] \in ToSet(ids)
               /\ ids[keep[k]] \notin gone /\ ids[keep[k]].path # p
    BY <1>1 DEF ToSet
  <2>2. \A k \in 1..m : k \in 1..n
    BY <1>1, <1>2
  <2> HIDE DEF n
  <2> QED BY <1>4, <2>1, <2>2
<1>8. \A k \in 1..Len(new) : m + k \in 1..n /\ ids'[m + k] \in ToSet(new) /\ ids'[m + k].path = p
  <2>1. \A k \in 1..Len(new) : new[k] \in ToSet(new) /\ new[k].path = p
    BY <1>2 DEF ToSet
  <2>2. \A k \in 1..Len(new) : m + k \in 1..n
    BY <1>1, <1>2
  <2> HIDE DEF n
  <2> QED BY <1>4, <2>1, <2>2
<1> HIDE DEF n
<1>9. IsInjective(ids')
  <2>1. ASSUME NEW j \in 1..n, NEW k \in 1..n, ids'[j] = ids'[k] PROVE j = k
    <3>1. CASE j \in 1..m /\ k \in 1..m
      <4>1. ids[keep[j]] = ids[keep[k]]
        BY <1>4, <2>1, <3>1
      <4>2. keep[j] = keep[k]
        BY <1>6, <1>7, <3>1, <4>1 DEF IsInjective
      <4> QED BY <1>1, <3>1, <4>2
    <3>2. CASE j \notin 1..m /\ k \notin 1..m
      <4>1. PICK a \in 1..Len(new) : j = m + a
        BY <1>4, <3>2
      <4>2. PICK b \in 1..Len(new) : k = m + b
        BY <1>4, <3>2
      <4>3. new[a] = new[b]
        BY <1>4, <2>1, <4>1, <4>2
      <4>4. a = b
        BY <1>2, <4>3 DEF IsInjective
      <4> QED BY <4>1, <4>2, <4>4
    <3>3. ~(j \in 1..m /\ k \notin 1..m) /\ ~(j \notin 1..m /\ k \in 1..m)
      BY <1>4, <1>7, <1>8, <2>1
    <3> QED BY <3>1, <3>2, <3>3
  <2> QED BY <1>4, <2>1 DEF IsInjective
<1>10. DOMAIN keyword' = ToSet(ids')
  <2>1. DOMAIN keyword' = (ToSet(ids) \ gone) \cup ToSet(new)
    BY <1>3, <1>6 DEF KeywordWith
  <2>2. ASSUME NEW x \in ToSet(ids') PROVE x \in (ToSet(ids) \ gone) \cup ToSet(new)
    <3>1. PICK k \in 1..n : x = ids'[k]
      BY <1>4 DEF ToSet
    <3> QED BY <1>4, <1>7, <1>8, <3>1
  <2>3. ASSUME NEW x \in ToSet(ids), x \notin gone PROVE x \in ToSet(ids')
    <3>1. PICK i \in DOMAIN ids : x = ids[i]
      BY DEF ToSet
    <3>2. PICK k \in 1..m : keep[k] = i
      BY <1>1, <2>3, <3>1
    <3> QED BY <1>4, <1>7, <3>1, <3>2 DEF ToSet
  <2>4. ASSUME NEW x \in ToSet(new) PROVE x \in ToSet(ids')
    <3>1. PICK k \in 1..Len(new) : x = new[k]
      BY <1>2 DEF ToSet
    <3> QED BY <1>4, <1>8, <3>1 DEF ToSet
  <2> QED BY <2>1, <2>2, <2>3, <2>4
<1>11. \A id \in DOMAIN keyword' :
         keyword'[id] = IF id \in ToSet(new) THEN (CHOOSE t \in ToSet(all) : t.of = id)
                        ELSE keyword[id]
  BY <1>3 DEF KeywordWith
<1>12. ASSUME NEW i \in 1..n
       PROVE  /\ rows'[i] = metadata'[i] /\ metadata'[i].of = ids'[i]
              /\ keyword'[ids'[i]] = metadata'[i]
  <2>1. ids'[i] \in DOMAIN keyword'
    BY <1>4, <1>10 DEF ToSet
  <2>2. CASE i \in 1..m
    <3>1. ids'[i] \notin ToSet(new)
      BY <1>2, <1>7, <2>2 DEF ToSet
    <3>2. keyword'[ids'[i]] = keyword[ids[keep[i]]]
      BY <1>4, <1>11, <2>1, <2>2, <3>1
    <3> QED BY <1>4, <1>6, <1>7, <2>2, <3>2
  <2>3. CASE i \notin 1..m
    <3>1. PICK l \in 1..Len(new) : i = m + l
      BY <1>4, <2>3
    <3>2. ids'[i] = new[l] /\ rows'[i] = texts[l] /\ metadata'[i] = texts[l]
      BY <1>4, <3>1
    <3>3. ids'[i] \in ToSet(new)
      BY <1>8, <3>1
    <3>4. keyword'[ids'[i]] = (CHOOSE t \in ToSet(all) : t.of = new[l])
      BY <1>11, <2>1, <3>2, <3>3
    <3> QED BY <1>2, <3>2, <3>4
  <2> QED BY <2>2, <2>3
<1> QED BY <1>4, <1>5, <1>9, <1>10, <1>12 DEF StoresAgree

\* A call of index_pdf leaves nothing stale, and accounts for what it adds.
LEMMA NothingLeftStale ==
  ASSUME IndexInv, NEW p \in Path, NEW keep, NEW m, NEW new, NEW texts, NEW all,
         Written(p, keep, m, new, texts, all), Added(p, new, texts, all)
  PROVE  TypeInv' /\ NothingStale'
<1>1. /\ m \in Nat /\ keep \in [1..m -> DOMAIN ids]
      /\ \A k \in 1..m : ids[keep[k]] \notin ToSet(ledger[p]) /\ ids[keep[k]].path # p
      /\ \A i \in DOMAIN ids : ids[i] \notin ToSet(ledger[p]) => \E k \in 1..m : keep[k] = i
  BY KeptIsOfOthers DEF Written, Keeps, IndexInv
<1>2. /\ new \in Seq(Chunk) /\ DOMAIN new = 1..Len(new) /\ Len(new) \in Nat
      /\ Len(texts) = Len(new)
      /\ \A k \in 1..Len(new) : new[k].path = p /\ texts[k].call = calls[p] + 1
  BY DEF Added
<1>3. /\ Renews(ids', ids, keep, m, new) /\ Renews(metadata', metadata, keep, m, texts)
  BY DEF Written
<1> DEFINE n == m + Len(new)
<1>4. /\ DOMAIN ids' = 1..n
      /\ \A k \in 1..m : ids'[k] = ids[keep[k]] /\ metadata'[k] = metadata[keep[k]]
      /\ \A k \in 1..Len(new) : ids'[m + k] = new[k] /\ metadata'[m + k] = texts[k]
      /\ \A k \in 1..n : k \in 1..m \/ \E l \in 1..Len(new) : k = m + l
      /\ \A k \in 1..m : k \in 1..n
      /\ \A k \in 1..Len(new) : m + k \in 1..n
  BY <1>1, <1>2, <1>3 DEF Renews
<1> HIDE DEF n
<1>5. /\ indexed' \in [Path -> Seq(Nat)] /\ new = Chunks(p, indexed'[p])
      /\ \A q \in Path : q # p => indexed'[q] = indexed[q]
  BY DEF Written, IndexInv, TypeInv
<1>6. /\ calls \in [Path -> Nat] /\ calls' = [calls EXCEPT ![p] = @ + 1]
      /\ ledger \in [Path -> Seq(Chunk)]
      /\ \A q \in Path : \A i \in DOMAIN ledger[q] : ledger[q][i].path = q
      /\ (new = <<>> /\ ledger' = ledger) \/ ledger' = [ledger EXCEPT ![p] = new]
  BY DEF Written, IndexInv, TypeInv
<1>7. TypeInv'
  <2>1. calls' \in [Path -> Nat] /\ ledger' \in [Path -> Seq(Chunk)]
    <3>1. calls' \in [Path -> Nat]
      BY <1>6
    <3>2. [ledger EXCEPT ![p] = new] \in [Path -> Seq(Chunk)]
      BY <1>2, <1>6
    <3> QED BY <1>6, <3>1, <3>2
  <2>2. \A q \in Path : \A i \in DOMAIN ledger'[q] : ledger'[q][i].path = q
    BY <1>2, <1>6
  <2> QED BY <1>5, <2>1, <2>2 DEF TypeInv, Written
<1>8. ASSUME NEW q \in Path
      PROVE  LET present == {i \in DOMAIN ids' : ids'[i].path = q} IN
             /\ \A i \in present : metadata'[i].call = calls'[q]
             /\ {ids'[i] : i \in present} = ToSet(Chunks(q, indexed'[q]))
             /\ present # {} => {ids'[i] : i \in present} = ToSet(ledger'[q])
  <2> DEFINE present == {i \in DOMAIN ids' : ids'[i].path = q}
  <2>1. CASE q = p
    <3>1. \A i \in present : \E l \in 1..Len(new) : i = m + l
      BY <1>1, <1>4, <2>1
    <3>2. \A l \in 1..Len(new) : m + l \in present /\ ids'[m + l] = new[l]
      BY <1>2, <1>4, <2>1
    <3>3. calls'[q] = calls[p] + 1
      BY <1>6, <2>1
    <3>4. \A i \in present : metadata'[i].call = calls'[q]
      BY <1>2, <1>4, <3>1, <3>3
    <3>5. {ids'[i] : i \in present} = ToSet(new)
      <4>1. ToSet(new) = {new[l] : l \in 1..Len(new)}
        BY <1>2 DEF ToSet
      <4> HIDE DEF present
      <4> QED BY <1>4, <3>1, <3>2, <4>1
    <3>6. present # {} => ToSet(ledger'[q]) = ToSet(new)
      <4>1. present # {} => Len(new) # 0
        BY <1>2, <3>1
      <4>2. Len(new) # 0 => new # <<>>
        OBVIOUS
      <4>3. new # <<>> => ledger'[q] = new
        BY <1>6, <2>1
      <4> QED BY <4>1, <4>2, <4>3
    <3>7. new = Chunks(q, indexed'[q])
      BY <1>5, <2>1
    <3> QED BY <3>4, <3>5, <3>6, <3>7
  <2>2. CASE q # p
    <3> DEFINE before == {i \in DOMAIN ids : ids[i].path = q}
    <3>1. calls'[q] = calls[q] /\ ledger'[q] = ledger[q] /\ indexed'[q] = indexed[q]
      BY <1>6, <1>5, <2>2
    <3>2. /\ \A i \in before : metadata[i].call = calls[q]
          /\ {ids[i] : i \in before} = ToSet(Chunks(q, indexed[q]))
          /\ before # {} => {ids[i] : i \in before} = ToSet(ledger[q])
      BY DEF IndexInv, NothingStale
    <3>3. \A i \in present : /\ i \in 1..m /\ keep[i] \in before
                             /\ ids'[i] = ids[keep[i]] /\ metadata'[i] = metadata[keep[i]]
      BY <1>1, <1>2, <1>4, <2>2
    <3>4. \A i \in before : \E k \in present : ids'[k] = ids[i]
      <4>1. ASSUME NEW i \in before PROVE \E k \in present : ids'[k] = ids[i]
        <5>1. ids[i] \notin ToSet(ledger[p])
          BY <1>6, <2>2 DEF ToSet
        <5>2. PICK k \in 1..m : keep[k] = i
          BY <1>1, <5>1
        <5>3. k \in present /\ ids'[k] = ids[i]
          BY <1>4, <5>2
        <5> QED BY <5>3
      <4> QED BY <4>1
    <3> HIDE DEF present, before
    <3>5. {ids'[i] : i \in present} = {ids[i] : i \in before}
      BY <3>3, <3>4
    <3>6. present # {} => before # {}
      BY <3>3
    <3>7. \A i \in present : metadata'[i].call = calls'[q]
      BY <3>1, <3>2, <3>3
    <3>8. present # {} => {ids'[i] : i \in present} = ToSet(ledger'[q])
      BY <3>1, <3>2, <3>5, <3>6
    <3>9. {ids'[i] : i \in present} = ToSet(Chunks(q, indexed'[q]))
      BY <3>1, <3>2, <3>5
    <3> QED BY <3>7, <3>8, <3>9 DEF present
  <2> QED BY <2>1, <2>2
<1>9. NothingStale'
  BY <1>8 DEF NothingStale
<1> QED BY <1>7, <1>9

\* The indexes and the ledger stay as IndexInv says (rag/pipeline.py).
THEOREM IndexHolds == Spec => []IndexInv
<1>1. Init => IndexInv
  <2>1. ASSUME Init PROVE TypeInv
    BY <2>1 DEF Init, TypeInv
  <2>2. ASSUME Init PROVE StoresAgree /\ NothingStale
    BY <2>2, NoChunks DEF Init, StoresAgree, NothingStale, IsInjective, ToSet
  <2> QED BY <2>1, <2>2 DEF IndexInv
<1>2. IndexInv /\ [Next]_vars => IndexInv'
  <2> SUFFICES ASSUME IndexInv, [Next]_vars PROVE IndexInv'
    OBVIOUS
  <2>1. ASSUME NEW p \in Path, NEW pages \in Documents, NEW fits, IndexPdf(p, pages, fits)
        PROVE  IndexInv'
    <3>1. PICK keep, m, new, texts, all :
            Written(p, keep, m, new, texts, all) /\ Added(p, new, texts, all)
      BY <2>1, CallWrites DEF IndexInv
    <3>2. StoresAgree'
      BY <3>1, WritesAgree
    <3>3. TypeInv' /\ NothingStale'
      BY <3>1, NothingLeftStale
    <3> QED BY <3>2, <3>3 DEF IndexInv
  <2>2. CASE UNCHANGED vars
    <3>1. TypeInv'
      BY <2>2 DEF vars, IndexInv, TypeInv
    <3>2. StoresAgree'
      BY <2>2 DEF vars, IndexInv, StoresAgree
    <3>3. NothingStale'
      BY <2>2 DEF vars, IndexInv, NothingStale
    <3> QED BY <3>1, <3>2, <3>3 DEF IndexInv
  <2> QED BY <2>1, <2>2 DEF Next
<1> QED BY <1>1, <1>2, PTL DEF Spec

\* A hit is one thing wherever it comes from, whichever calls the store refused
\* (rag/pipeline.py, rag/vector_store.py, rag/hybrid.py).
THEOREM StoresAlwaysAgree == Spec => []StoresAgree
<1>1. IndexInv => StoresAgree
  BY DEF IndexInv
<1> QED BY <1>1, IndexHolds, PTL

\* What can be cited of a file is what was read of it last, all of it if the call
\* returned and nothing if it raised, and the
\* ledger accounts for it, so that the next call deletes it (rag/pipeline.py).
THEOREM NothingIsStale == Spec => []NothingStale
<1>1. IndexInv => NothingStale
  BY DEF IndexInv
<1> QED BY <1>1, IndexHolds, PTL
-----------------------------------------------------------------------------
(* Fusion *)

\* R is a strict order of A in which any two elements have an order.
Orders(R, A) ==
  /\ \A x, y \in A : x # y => <<x, y>> \in R \/ <<y, x>> \in R
  /\ \A x \in A : <<x, x>> \notin R
  /\ \A x, y, z \in A : <<x, y>> \in R /\ <<y, z>> \in R => <<x, z>> \in R

\* How many elements come before each.
Ranked(rank, R, A, n) ==
  /\ \A y \in A : rank[y] = Cardinality({x \in A : <<x, y>> \in R}) /\ rank[y] \in 0..(n - 1)
  /\ \A x, y \in A : <<x, y>> \in R => rank[x] < rank[y]
  /\ \A x, y \in A : rank[x] = rank[y] => x = y
  /\ \A k \in 0..(n - 1) : \E x \in A : rank[x] = k

\* In a finite set with such an order, each number below that of the elements is that of
\* the elements before just one.
LEMMA OrderRanks ==
  ASSUME NEW A, IsFiniteSet(A), NEW R, Orders(R, A)
  PROVE  Cardinality(A) \in Nat /\ \E rank : Ranked(rank, R, A, Cardinality(A))
<1> DEFINE n == Cardinality(A)
           Below(y) == {x \in A : <<x, y>> \in R}
           rank == [y \in A |-> Cardinality(Below(y))]
<1>1. n \in Nat
  BY FS_CardinalityType
<1>2. ASSUME NEW y \in A
      PROVE  IsFiniteSet(Below(y)) /\ Cardinality(Below(y)) \in 0..(n - 1)
  <2>1. Below(y) \in SUBSET A /\ y \notin Below(y)
    BY DEF Orders
  <2>2. IsFiniteSet(Below(y)) /\ Cardinality(Below(y)) <= n /\ Cardinality(Below(y)) # n
    BY <2>1, FS_Subset
  <2>3. Cardinality(Below(y)) \in Nat
    BY <2>2, FS_CardinalityType
  <2> HIDE DEF Below, n
  <2> QED BY <1>1, <2>2, <2>3
<1>3. ASSUME NEW x \in A, NEW y \in A, <<x, y>> \in R
      PROVE  Cardinality(Below(x)) < Cardinality(Below(y))
  <2>1. Below(x) \in SUBSET Below(y) /\ x \in Below(y) /\ x \notin Below(x)
    BY <1>3 DEF Orders
  <2>2. /\ Cardinality(Below(x)) <= Cardinality(Below(y))
        /\ Cardinality(Below(x)) # Cardinality(Below(y))
    BY <1>2, <2>1, FS_Subset
  <2> HIDE DEF Below, n
  <2> QED BY <1>1, <1>2, <2>2
<1> HIDE DEF Below
<1>4. \A y \in A : rank[y] = Cardinality(Below(y)) /\ rank[y] \in 0..(n - 1)
  BY <1>2
<1>5. rank \in [A -> 0..(n - 1)]
  BY <1>2
<1> HIDE DEF rank
<1>6. \A x, y \in A : <<x, y>> \in R => rank[x] < rank[y]
  BY <1>3, <1>4
<1>7. ASSUME NEW x \in A, NEW y \in A, rank[x] = rank[y] PROVE x = y
  <2>1. ~(rank[x] < rank[y]) /\ ~(rank[y] < rank[x])
    BY <1>1, <1>4, <1>7
  <2> QED BY <1>6, <2>1 DEF Orders
<1>8. \A k \in 0..(n - 1) : \E x \in A : rank[x] = k
  <2>1. rank \in Injection(A, 0..(n - 1))
    BY <1>5, <1>7 DEF Injection, IsInjective
  <2>2. IsFiniteSet(0..(n - 1)) /\ Cardinality(0..(n - 1)) = n
    <3> HIDE DEF n
    <3>1. 0 \in Int /\ n - 1 \in Int /\ (0 > n - 1 => n = 0) /\ (n - 1) - 0 + 1 = n
      BY <1>1
    <3>2. /\ IsFiniteSet(0..(n - 1))
          /\ Cardinality(0..(n - 1)) = IF 0 > n - 1 THEN 0 ELSE (n - 1) - 0 + 1
      BY <3>1, FS_Interval
    <3> QED BY <3>1, <3>2
  <2>3. rank \in Surjection(A, 0..(n - 1))
    BY <2>1, <2>2, FS_Injection
  <2> QED BY <2>3 DEF Surjection
<1>9. Ranked(rank, R, A, n)
  BY <1>4, <1>6, <1>7, <1>8 DEF Ranked, Below
<1> QED BY <1>1, <1>9

\* A ranking.
Ranking(s) == s \in Seq(Chunk) /\ IsInjective(s)

\* Positions in a ranking.
LEMMA Positions ==
  ASSUME NEW s, Ranking(s)
  PROVE  /\ \A i \in 1..Len(s) : Position(s, s[i]) = i
         /\ \A x : /\ Contains(s, x) <=> x \in ToSet(s)
                   /\ x \in ToSet(s) => Position(s, x) \in 1..Len(s) /\ s[Position(s, x)] = x
<1>1. DOMAIN s = 1..Len(s) /\ Len(s) \in Nat
  BY DEF Ranking
<1>2. ASSUME NEW i \in 1..Len(s) PROVE Position(s, s[i]) = i
  <2> DEFINE I == {j \in 1..Len(s) : s[j] = s[i]}
  <2>1. I = {i}
    BY <1>1 DEF Ranking, IsInjective
  <2>2. Position(s, s[i]) = IF I # {} THEN Min(I) ELSE 0
    BY DEF Position, SelectInSeq
  <2>3. Min({i}) = i
    BY <1>1 DEF Min
  <2> QED BY <2>1, <2>2, <2>3
<1>3. ASSUME NEW x PROVE Contains(s, x) <=> x \in ToSet(s)
  BY <1>1 DEF Contains, ToSet
<1>4. ASSUME NEW x \in ToSet(s) PROVE Position(s, x) \in 1..Len(s) /\ s[Position(s, x)] = x
  <2>1. PICK i \in 1..Len(s) : x = s[i]
    BY <1>1 DEF ToSet
  <2> QED BY <1>2, <2>1
<1> QED BY <1>2, <1>3, <1>4

\* Those of dense come first, as they are there, then the others of sparse, as there.
InsertedInOrder(all, dense, sparse) ==
  /\ Ranking(all) /\ ToSet(all) = ToSet(dense) \cup ToSet(sparse)
  /\ \A x \in ToSet(dense) : Position(all, x) = Position(dense, x)
  /\ \A x \in ToSet(dense), y \in ToSet(sparse) \ ToSet(dense) :
       Position(all, x) < Position(all, y)
  /\ \A x, y \in ToSet(sparse) \ ToSet(dense) :
       Position(sparse, x) < Position(sparse, y) => Position(all, x) < Position(all, y)

\* The keys of the dict of scores.
LEMMA InsertedOrder ==
  ASSUME NEW dense, NEW sparse, Ranking(dense), Ranking(sparse)
  PROVE  InsertedInOrder(Inserted(dense, sparse), dense, sparse)
<1> DEFINE rest == ToSet(sparse) \ ToSet(dense)
           more == Sublist(sparse, rest)
           all == dense \o more
           d == Len(dense)
           n == Len(more)
           l == Len(sparse)
<1>1. /\ dense \in Seq(Chunk) /\ sparse \in Seq(Chunk)
      /\ d \in Nat /\ l \in Nat /\ DOMAIN dense = 1..d /\ DOMAIN sparse = 1..l
  BY DEF Ranking
<1>2. more \in Seq(Chunk) /\ Picks(more, sparse, rest, l)
  BY <1>1, SublistPicks
<1> HIDE DEF more
<1>3. n \in Nat /\ DOMAIN more = 1..n
  BY <1>2
<1>4. /\ all \in Seq(Chunk) /\ Len(all) = d + n
      /\ \A i \in 1..(d + n) : all[i] = IF i <= d THEN dense[i] ELSE more[i - d]
  BY <1>1, <1>2, ConcatProperties
<1> HIDE DEF all, d, n, l
<1>5. PICK from \in [1..n -> 1..l] :
        /\ \A k \in 1..n : more[k] = sparse[from[k]] /\ sparse[from[k]] \in rest
        /\ \A j, k \in 1..n : j < k => from[j] < from[k]
        /\ \A i \in 1..l : sparse[i] \in rest => \E k \in 1..n : from[k] = i
  BY <1>2 DEF Picks, n
<1>6. /\ \A i \in 1..d : i \in 1..(d + n) /\ all[i] = dense[i] /\ dense[i] \in ToSet(dense)
      /\ \A k \in 1..n : /\ d + k \in 1..(d + n) /\ all[d + k] = more[k]
                         /\ more[k] \in rest
      /\ \A i \in 1..(d + n) : i \in 1..d \/ \E k \in 1..n : i = d + k
  <2>1. \A i \in 1..d : i \in 1..(d + n) /\ i <= d
    BY <1>1, <1>3
  <2>2. \A k \in 1..n : d + k \in 1..(d + n) /\ ~(d + k <= d) /\ (d + k) - d = k
    BY <1>1, <1>3
  <2>3. \A i \in 1..(d + n) : i \in 1..d \/ (i - d \in 1..n /\ i = d + (i - d))
    BY <1>1, <1>3
  <2>4. \A i \in 1..d : dense[i] \in ToSet(dense)
    BY <1>1 DEF ToSet
  <2>5. \A i \in 1..d : all[i] = dense[i]
    BY <1>4, <2>1
  <2>6. \A k \in 1..n : all[d + k] = more[k] /\ more[k] \in rest
    BY <1>4, <1>5, <2>2
  <2> QED BY <2>1, <2>2, <2>3, <2>4, <2>5, <2>6
<1>7. ASSUME NEW j \in 1..n, NEW k \in 1..n
      PROVE  /\ from[j] < from[k] => j < k
             /\ from[j] = from[k] => j = k
  <2>1. from[j] \in Nat /\ from[k] \in Nat
    BY <1>1
  <2>2. k < j => from[k] < from[j]
    BY <1>5
  <2>3. j < k => from[j] < from[k]
    BY <1>5
  <2> QED BY <1>3, <2>1, <2>2, <2>3
<1>8. IsInjective(all)
  <2>1. ASSUME NEW i \in 1..(d + n), NEW j \in 1..(d + n), all[i] = all[j] PROVE i = j
    <3>1. CASE i \in 1..d /\ j \in 1..d
      BY <1>1, <1>6, <2>1, <3>1 DEF Ranking, IsInjective
    <3>2. CASE i \notin 1..d /\ j \notin 1..d
      <4>1. PICK a \in 1..n : i = d + a
        BY <1>6, <3>2
      <4>2. PICK b \in 1..n : j = d + b
        BY <1>6, <3>2
      <4>3. sparse[from[a]] = sparse[from[b]]
        BY <1>5, <1>6, <2>1, <4>1, <4>2
      <4>4. from[a] = from[b]
        BY <1>1, <4>3 DEF Ranking, IsInjective
      <4> QED BY <1>7, <4>1, <4>2, <4>4
    <3>3. ~(i \in 1..d /\ j \notin 1..d) /\ ~(i \notin 1..d /\ j \in 1..d)
      BY <1>6, <2>1
    <3> QED BY <3>1, <3>2, <3>3
  <2>2. DOMAIN all = 1..(d + n)
    BY <1>4
  <2> QED BY <2>1, <2>2 DEF IsInjective
<1>9. Ranking(all)
  BY <1>4, <1>8 DEF Ranking
<1>10. \A i \in 1..(d + n) : Position(all, all[i]) = i
  BY <1>4, <1>9, Positions
<1>11. ASSUME NEW x \in ToSet(dense)
       PROVE  /\ Position(all, x) = Position(dense, x) /\ Position(dense, x) \in 1..d
              /\ x \in ToSet(all)
  <2>1. Position(dense, x) \in 1..d /\ dense[Position(dense, x)] = x
    BY Positions DEF d
  <2>2. all[Position(dense, x)] = x /\ Position(dense, x) \in 1..(d + n)
    BY <1>6, <2>1
  <2>3. x \in ToSet(all)
    BY <1>4, <2>2 DEF ToSet
  <2> QED BY <1>10, <2>1, <2>2, <2>3
<1>12. ASSUME NEW x \in rest
       PROVE  \E k \in 1..n : /\ from[k] = Position(sparse, x)
                              /\ Position(all, x) = d + k /\ x \in ToSet(all)
  <2>1. Position(sparse, x) \in 1..l /\ sparse[Position(sparse, x)] = x
    BY Positions DEF l
  <2>2. PICK k \in 1..n : from[k] = Position(sparse, x)
    BY <1>5, <2>1
  <2>3. all[d + k] = x /\ d + k \in 1..(d + n)
    BY <1>5, <1>6, <2>1, <2>2
  <2>4. x \in ToSet(all)
    BY <1>4, <2>3 DEF ToSet
  <2> QED BY <1>10, <2>2, <2>3, <2>4
<1>13. ToSet(all) = ToSet(dense) \cup ToSet(sparse)
  <2>1. ASSUME NEW x \in ToSet(all) PROVE x \in ToSet(dense) \cup ToSet(sparse)
    <3>1. PICK i \in 1..(d + n) : x = all[i]
      BY <1>4 DEF ToSet
    <3> QED BY <1>6, <3>1
  <2> QED BY <1>11, <1>12, <2>1
<1>14. ASSUME NEW x \in ToSet(dense), NEW y \in rest PROVE Position(all, x) < Position(all, y)
  <2>1. PICK k \in 1..n : Position(all, y) = d + k
    BY <1>12
  <2> QED BY <1>1, <1>3, <1>11, <2>1
<1>15. ASSUME NEW x \in rest, NEW y \in rest, Position(sparse, x) < Position(sparse, y)
       PROVE  Position(all, x) < Position(all, y)
  <2>1. PICK j \in 1..n : from[j] = Position(sparse, x) /\ Position(all, x) = d + j
    BY <1>12
  <2>2. PICK k \in 1..n : from[k] = Position(sparse, y) /\ Position(all, y) = d + k
    BY <1>12
  <2>3. j < k
    BY <1>7, <1>15, <2>1, <2>2
  <2> QED BY <1>1, <1>3, <2>1, <2>2, <2>3
<1>16. InsertedInOrder(all, dense, sparse)
  BY <1>9, <1>11, <1>13, <1>14, <1>15 DEF InsertedInOrder
<1> QED BY <1>16 DEF Inserted, all, more

\* A better rank has no smaller share.
LEMMA ShareFalls ==
  ASSUME NEW u \in Nat, NEW a \in Nat \ {0}, NEW b \in Nat \ {0}, a <= b
  PROVE  u \div a \in Nat /\ u \div b \in Nat /\ u \div b <= u \div a
<1> DEFINE p == u \div a
           q == u \div b
<1>1. p \in Nat /\ p * a <= u /\ u < p * a + a
  BY Z3
<1>2. q \in Nat /\ q * b <= u
  BY Z3
<1> HIDE DEF p, q
<1>3. q * a <= q * b
  BY <1>2, Z3
<1>4. ASSUME p < q PROVE FALSE
  <2>1. p * a + a <= q * a
    BY <1>1, <1>2, <1>4, Z3
  <2>2. p * a \in Nat /\ q * a \in Nat /\ q * b \in Nat
    BY <1>1, <1>2
  <2> QED BY <1>1, <1>2, <1>3, <2>1, <2>2
<1>5. q <= p
  BY <1>1, <1>2, <1>4
<1> QED BY <1>1, <1>2, <1>5 DEF p, q

\* A hit that is ranked no worse has no smaller share.
LEMMA ShareRespects ==
  ASSUME NEW s, Ranking(s), NEW x, NEW y, NoWorse(s, x, y)
  PROVE  Share(s, x) \in Nat /\ Share(s, y) \in Nat /\ Share(s, y) <= Share(s, x)
<1>1. K \in Nat /\ Unit \in Nat
  <2>1. K \in Nat
    BY IndexAssumption
  <2>2. K + 1 \in Nat /\ K + 2 \in Nat /\ K + 3 \in Nat
    BY <2>1
  <2>3. (K + 1) * (K + 2) \in Nat
    BY <2>2
  <2>4. (K + 1) * (K + 2) * (K + 3) \in Nat
    BY <2>2, <2>3
  <2> QED BY <2>1, <2>4 DEF Unit
<1>2. \A z : Contains(s, z) => K + Position(s, z) \in Nat \ {0} /\ Position(s, z) \in Nat
  <2>1. Len(s) \in Nat
    BY DEF Ranking
  <2>2. \A z : Contains(s, z) => Position(s, z) \in 1..Len(s)
    BY Positions
  <2> QED BY <1>1, <2>1, <2>2
<1>3. ASSUME NEW z PROVE Share(s, z) \in Nat
  <2>1. CASE Contains(s, z)
    <3>1. K + Position(s, z) \in Nat \ {0} /\ K + Position(s, z) <= K + Position(s, z)
      BY <1>2, <2>1
    <3> HIDE DEF Unit
    <3>2. Unit \div (K + Position(s, z)) \in Nat
      BY <1>1, <3>1, ShareFalls
    <3> QED BY <2>1, <3>2 DEF Share
  <2>2. CASE ~Contains(s, z)
    BY <2>2 DEF Share
  <2> QED BY <2>1, <2>2
<1>4. CASE Contains(s, y)
  <2>1. Contains(s, x) /\ Position(s, x) <= Position(s, y)
    BY <1>4 DEF NoWorse
  <2>2. K + Position(s, x) <= K + Position(s, y)
    BY <1>1, <1>2, <1>4, <2>1
  <2>3. Unit \div (K + Position(s, y)) <= Unit \div (K + Position(s, x))
    BY <1>1, <1>2, <1>4, <2>1, <2>2, ShareFalls
  <2> QED BY <1>3, <1>4, <2>1, <2>3 DEF Share
<1>5. CASE ~Contains(s, y)
  <2>1. Share(s, y) = 0
    BY <1>5 DEF Share
  <2> QED BY <1>3, <2>1
<1> QED BY <1>3, <1>4, <1>5

\* Scores are natural numbers; a hit ranked no worse by both has no smaller one.
LEMMA ScoreRespects ==
  ASSUME NEW dense, NEW sparse, Ranking(dense), Ranking(sparse)
  PROVE  /\ \A x : Score(dense, sparse, x) \in Nat
         /\ \A x, y : NoWorse(dense, x, y) /\ NoWorse(sparse, x, y) =>
                        Score(dense, sparse, y) <= Score(dense, sparse, x)
<1>1. ASSUME NEW s, Ranking(s), NEW x PROVE Share(s, x) \in Nat
  <2>1. Contains(s, x) => Position(s, x) \in Nat
    <3>1. Len(s) \in Nat
      BY <1>1 DEF Ranking
    <3> QED BY <1>1, <3>1, Positions
  <2>2. NoWorse(s, x, x)
    BY <2>1 DEF NoWorse
  <2> QED BY <1>1, <2>2, ShareRespects
<1>2. ASSUME NEW x, NEW y, NoWorse(dense, x, y), NoWorse(sparse, x, y)
      PROVE  Score(dense, sparse, y) <= Score(dense, sparse, x)
  <2>1. /\ Share(dense, x) \in Nat /\ Share(dense, y) \in Nat
        /\ Share(sparse, x) \in Nat /\ Share(sparse, y) \in Nat
    BY <1>1
  <2>2. Share(dense, y) <= Share(dense, x)
    BY <1>2, ShareRespects
  <2>3. Share(sparse, y) <= Share(sparse, x)
    BY <1>2, ShareRespects
  <2> QED BY <2>1, <2>2, <2>3 DEF Score
<1>3. ASSUME NEW x PROVE Score(dense, sparse, x) \in Nat
  BY <1>1 DEF Score
<1> QED BY <1>2, <1>3

\* The order of fusion, on the ids that either ranking has.
Hits(dense, sparse) == ToSet(dense) \cup ToSet(sparse)
Precedence(dense, sparse) ==
  {pair \in Hits(dense, sparse) \X Hits(dense, sparse) :
     Before(dense, sparse, pair[1], pair[2])}

\* No two hits are level.
LEMMA PrecedenceOrders ==
  ASSUME NEW dense, NEW sparse, Ranking(dense), Ranking(sparse)
  PROVE  Orders(Precedence(dense, sparse), Hits(dense, sparse))
<1> DEFINE A == Hits(dense, sparse)
           R == Precedence(dense, sparse)
           all == Inserted(dense, sparse)
           score == [x \in A |-> Score(dense, sparse, x)]
           place == [x \in A |-> Position(all, x)]
<1>1. Ranking(all) /\ ToSet(all) = A
  BY InsertedOrder DEF InsertedInOrder, Hits
<1>2. \A x \in A : score[x] = Score(dense, sparse, x) /\ score[x] \in Nat
  BY ScoreRespects
<1>3. \A x \in A : place[x] = Position(all, x) /\ place[x] \in Nat
  <2>1. Len(all) \in Nat
    BY <1>1 DEF Ranking
  <2>2. \A x \in A : Position(all, x) \in 1..Len(all)
    BY <1>1, Positions
  <2> QED BY <2>1, <2>2
<1>4. ASSUME NEW x \in A, NEW y \in A, place[x] = place[y] PROVE x = y
  BY <1>1, <1>3, <1>4, Positions
<1>5. ASSUME NEW x \in A, NEW y \in A
      PROVE  <<x, y>> \in R <=>
               score[x] > score[y] \/ (score[x] = score[y] /\ place[x] < place[y])
  <2>1. <<x, y>> \in R <=> Before(dense, sparse, x, y)
    BY DEF Precedence
  <2> QED BY <1>2, <1>3, <2>1 DEF Before
<1> HIDE DEF R, A, score, place
<1>6. \A x, y \in A : x # y => <<x, y>> \in R \/ <<y, x>> \in R
  BY <1>2, <1>3, <1>4, <1>5
<1>7. \A x \in A : <<x, x>> \notin R
  BY <1>2, <1>3, <1>5
<1>8. ASSUME NEW x \in A, NEW y \in A, NEW z \in A, <<x, y>> \in R, <<y, z>> \in R
      PROVE  <<x, z>> \in R
  BY <1>2, <1>3, <1>5, <1>8
<1>9. Orders(R, A)
  BY <1>6, <1>7, <1>8 DEF Orders
<1> QED BY <1>9 DEF R, A

\* A hit that neither ranking puts below another comes before it.
LEMMA BetterPrecedes ==
  ASSUME NEW dense, NEW sparse, Ranking(dense), Ranking(sparse),
         NEW x \in Hits(dense, sparse), NEW y \in Hits(dense, sparse), x # y,
         NoWorse(dense, x, y), NoWorse(sparse, x, y)
  PROVE  <<x, y>> \in Precedence(dense, sparse)
<1> DEFINE all == Inserted(dense, sparse)
<1>1. InsertedInOrder(all, dense, sparse)
  BY InsertedOrder
<1>2. /\ Score(dense, sparse, x) \in Nat /\ Score(dense, sparse, y) \in Nat
      /\ Score(dense, sparse, y) <= Score(dense, sparse, x)
  BY ScoreRespects
<1>3. ASSUME NEW s, Ranking(s), NoWorse(s, x, y), y \in ToSet(s)
      PROVE  x \in ToSet(s) /\ Position(s, x) < Position(s, y)
  <2>1. x \in ToSet(s) /\ Position(s, x) <= Position(s, y)
    BY <1>3, Positions DEF NoWorse
  <2>2. /\ Position(s, x) \in 1..Len(s) /\ s[Position(s, x)] = x
        /\ Position(s, y) \in 1..Len(s) /\ s[Position(s, y)] = y
    BY <1>3, <2>1, Positions
  <2>3. Position(s, x) # Position(s, y)
    BY <2>2
  <2>4. Len(s) \in Nat
    BY <1>3 DEF Ranking
  <2> QED BY <2>1, <2>2, <2>3, <2>4
<1>4. Position(all, x) < Position(all, y)
  <2>1. CASE y \in ToSet(dense)
    <3>1. x \in ToSet(dense) /\ Position(dense, x) < Position(dense, y)
      BY <1>3, <2>1
    <3> QED BY <1>1, <2>1, <3>1 DEF InsertedInOrder
  <2>2. CASE y \notin ToSet(dense)
    <3>1. y \in ToSet(sparse) \ ToSet(dense)
      BY <2>2 DEF Hits
    <3>2. x \in ToSet(sparse) /\ Position(sparse, x) < Position(sparse, y)
      BY <1>3, <3>1
    <3>3. CASE x \in ToSet(dense)
      BY <1>1, <3>1, <3>3 DEF InsertedInOrder
    <3>4. CASE x \notin ToSet(dense)
      BY <1>1, <3>1, <3>2, <3>4 DEF InsertedInOrder
    <3> QED BY <3>3, <3>4
  <2> QED BY <2>1, <2>2
<1>5. Before(dense, sparse, x, y)
  BY <1>2, <1>4 DEF Before
<1> QED BY <1>5 DEF Precedence

\* What fusion returns respects both rankings.
Respects(fused, dense, sparse) ==
  /\ IsInjective(fused)
  /\ \A y \in ToSet(fused), x \in Hits(dense, sparse) :
       x # y /\ NoWorse(dense, x, y) /\ NoWorse(sparse, x, y)
         => Contains(fused, x) /\ Position(fused, x) < Position(fused, y)

\* Any two rankings, and any number of hits that is asked for.
LEMMA FusedRespects ==
  ASSUME NEW dense, NEW sparse, Ranking(dense), Ranking(sparse), NEW topK \in Nat
  PROVE  Respects(Fused(dense, sparse, topK), dense, sparse)
<1> DEFINE A == Hits(dense, sparse)
           R == Precedence(dense, sparse)
           n == Cardinality(A)
           l == IF n < topK THEN n ELSE topK
           fused == Fused(dense, sparse, topK)
<1>1. IsFiniteSet(A) /\ A \subseteq Chunk
  <2>1. ASSUME NEW s, Ranking(s) PROVE IsFiniteSet(ToSet(s)) /\ ToSet(s) \subseteq Chunk
    <3>1. s \in Seq(Chunk) /\ DOMAIN s = 1..Len(s) /\ Len(s) \in Nat
      BY <2>1 DEF Ranking
    <3>2. ToSet(s) \subseteq Chunk
      BY <3>1 DEF ToSet
    <3>3. s \in Surjection(1..Len(s), ToSet(s))
      <4>1. s \in [1..Len(s) -> ToSet(s)]
        BY <3>1 DEF ToSet
      <4> QED BY <3>1, <4>1 DEF Surjection, ToSet
    <3>4. IsFiniteSet(1..Len(s))
      BY <3>1, FS_Interval
    <3> QED BY <3>2, <3>3, <3>4, FS_Surjection
  <2> QED BY <2>1, FS_Union DEF Hits
<1>2. Orders(R, A)
  BY PrecedenceOrders
<1>3. n \in Nat
  BY <1>1, FS_CardinalityType
<1>4. PICK rank : Ranked(rank, R, A, n)
  <2> HIDE DEF A, R
  <2> QED BY <1>1, <1>2, OrderRanks
<1>5. \A y \in A : Ahead(dense, sparse, y) = rank[y]
  <2>1. ASSUME NEW y \in A
        PROVE  {x \in A : Before(dense, sparse, x, y)} = {x \in A : <<x, y>> \in R}
    BY DEF Precedence
  <2> QED BY <1>4, <2>1 DEF Ranked, Ahead, Hits
<1>6. fused = [k \in 1..l |-> CHOOSE x \in A : Ahead(dense, sparse, x) = k - 1]
  BY DEF Fused, Hits
<1> HIDE DEF A, R, n
<1>7. l \in Nat /\ l <= n /\ \A k \in 1..l : k - 1 \in 0..(n - 1)
  BY <1>3
<1> HIDE DEF l, fused
<1>8. ASSUME NEW k \in 1..l PROVE fused[k] \in A /\ rank[fused[k]] = k - 1
  <2>1. \E x \in A : rank[x] = k - 1
    BY <1>4, <1>7 DEF Ranked
  <2>2. \E x \in A : Ahead(dense, sparse, x) = k - 1
    BY <1>5, <2>1
  <2>3. fused[k] = CHOOSE x \in A : Ahead(dense, sparse, x) = k - 1
    BY <1>6
  <2>4. fused[k] \in A /\ Ahead(dense, sparse, fused[k]) = k - 1
    BY <2>2, <2>3, Zenon
  <2> QED BY <1>5, <2>4
<1>9. DOMAIN fused = 1..l
  BY <1>6
<1>10. Ranking(fused)
  <2>1. \A j, k \in 1..l : fused[j] = fused[k] => j = k
    <3>1. ASSUME NEW j \in 1..l, NEW k \in 1..l, fused[j] = fused[k] PROVE j = k
      <4>1. j - 1 = k - 1
        BY <1>8, <3>1
      <4> QED BY <1>7, <4>1
    <3> QED BY <3>1
  <2>2. fused \in [1..l -> Chunk]
    <3>1. fused = [k \in 1..l |-> fused[k]]
      BY <1>6
    <3>2. \A k \in 1..l : fused[k] \in Chunk
      BY <1>1, <1>8
    <3> QED BY <3>1, <3>2
  <2>3. fused \in Seq(Chunk)
    BY <1>7, <2>2
  <2> QED BY <1>9, <2>1, <2>3 DEF Ranking, IsInjective
<1>11. Len(fused) = l
  BY <1>7, <1>9, <1>10 DEF Ranking
<1>12. ASSUME NEW y \in ToSet(fused), NEW x \in A, x # y,
              NoWorse(dense, x, y), NoWorse(sparse, x, y)
       PROVE  Contains(fused, x) /\ Position(fused, x) < Position(fused, y)
  <2>1. PICK k \in 1..l : y = fused[k]
    BY <1>9 DEF ToSet
  <2>2. y \in A /\ rank[y] = k - 1
    BY <1>8, <2>1
  <2>3. <<x, y>> \in R
    BY <1>12, <2>2, BetterPrecedes DEF A, R
  <2>4. rank[x] < rank[y] /\ rank[x] \in 0..(n - 1)
    BY <1>4, <2>2, <2>3 DEF Ranked
  <2> DEFINE j == rank[x] + 1
  <2>5. j \in 1..l /\ j < k /\ j - 1 = rank[x]
    BY <1>3, <1>7, <2>2, <2>4
  <2> HIDE DEF j
  <2>6. fused[j] = x
    <3>1. fused[j] \in A /\ rank[fused[j]] = rank[x]
      BY <1>8, <2>5
    <3> QED BY <1>4, <3>1 DEF Ranked
  <2>7. Position(fused, x) = j /\ Position(fused, y) = k
    BY <1>10, <1>11, <2>1, <2>5, <2>6, Positions
  <2>8. Contains(fused, x)
    BY <1>11, <2>5, <2>6 DEF Contains
  <2> QED BY <2>5, <2>7, <2>8
<1>13. Respects(fused, dense, sparse)
  BY <1>10, <1>12 DEF Respects, Ranking, A
<1> QED BY <1>13 DEF fused

\* Fusion respects the rankings of both stores, whatever they are (rag/hybrid.py).
THEOREM FusionIsMonotone == Spec => []FusionMonotone
<1>1. ASSUME IndexInv PROVE FusionMonotone
  <2>1. ids \in Seq(Chunk) /\ IsInjective(ids) /\ DOMAIN keyword = ToSet(ids)
    BY <1>1 DEF IndexInv, TypeInv, StoresAgree
  <2>2. DOMAIN ids = 1..Len(ids) /\ Len(ids) \in Nat
    BY <2>1
  <2>3. ASSUME NEW fetch \in 1..3, NEW dense \in Dense(fetch) PROVE Ranking(dense)
    <3> DEFINE n == IF Len(ids) < fetch THEN Len(ids) ELSE fetch
    <3>1. PICK r \in [1..n -> DOMAIN ids] :
            IsInjective(r) /\ dense = [i \in DOMAIN r |-> ids[r[i]]]
      BY <2>3 DEF Dense, Rankings
    <3>2. n \in Nat
      BY <2>2
    <3> HIDE DEF n
    <3>3. DOMAIN dense = 1..n /\ \A i \in 1..n : dense[i] = ids[r[i]] /\ r[i] \in DOMAIN ids
      BY <3>1
    <3>4. dense \in Seq(Chunk)
      <4>1. \A i \in DOMAIN ids : ids[i] \in Chunk
        BY <2>1
      <4>2. dense \in [1..n -> Chunk]
        BY <3>1, <3>3, <4>1
      <4> QED BY <3>2, <4>2
    <3>5. ASSUME NEW i \in 1..n, NEW j \in 1..n, dense[i] = dense[j] PROVE i = j
      <4>1. r[i] = r[j]
        BY <2>1, <3>3, <3>5 DEF IsInjective
      <4> QED BY <3>1, <4>1 DEF IsInjective
    <3> QED BY <3>3, <3>4, <3>5 DEF Ranking, IsInjective
  <2>4. ASSUME NEW fetch \in 1..3, NEW sparse \in Sparse(fetch) PROVE Ranking(sparse)
    <3>1. PICK n \in 0..fetch : \E r \in [1..n -> DOMAIN keyword] : IsInjective(r) /\ sparse = r
      BY <2>4 DEF Sparse, Rankings
    <3>2. sparse \in [1..n -> DOMAIN keyword] /\ IsInjective(sparse) /\ n \in Nat
      BY <3>1
    <3>3. DOMAIN keyword \subseteq Chunk
      BY <2>1 DEF ToSet
    <3>4. sparse \in Seq(Chunk)
      BY <3>2, <3>3
    <3> QED BY <3>2, <3>4 DEF Ranking
  <2>5. ASSUME NEW fetch \in 1..3, NEW dense \in Dense(fetch), NEW sparse \in Sparse(fetch)
        PROVE  Respects(Fused(dense, sparse, fetch), dense, sparse)
    BY <2>3, <2>4, FusedRespects
  <2> QED BY <2>5 DEF FusionMonotone, Respects, Hits
<1> QED BY <1>1, IndexHolds, PTL
=============================================================================
