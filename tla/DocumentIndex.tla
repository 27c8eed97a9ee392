---------------------------- MODULE DocumentIndex ----------------------------
(***************************************************************************)
(* rag/pipeline.py over rag/vector_store.py and rag/hybrid.py: documents   *)
(* are split into chunks that are kept in two indexes, one of vectors and  *)
(* one of words, and a ledger has the chunk ids of each document.          *)
(* index_pdf has no await, so that a call is one step; loading and         *)
(* embedding come first and change nothing when they raise.  What may      *)
(* raise between the writes is the vector store: when the embedder's       *)
(* vectors are not one per chunk, or when it has one of the ids.           *)
(*                                                                         *)
(* A document is the sequence of the lengths of its pages' texts.  A chunk *)
(* is named by its path, page and number, its text also by the call of     *)
(* index_pdf that read it.                                                 *)
(***************************************************************************)
EXTENDS Chunking, Integers, Sequences, Sublists, SequencesExt, FiniteSetsExt

CONSTANTS Path,       \* files
          Documents,  \* what they may contain, one version after the other
          MaxCalls,   \* bound of the model: calls of index_pdf for a file
          K           \* the constant of reciprocal rank fusion

ASSUME IndexAssumption ==
  /\ Documents \subseteq Seq(Nat)
  /\ {MaxCalls, K} \subseteq Nat

VARIABLES calls,      \* how often each document was indexed
          ids, rows, metadata,   \* FAISSVectorStore: _ids, the index, _metadata
          keyword,    \* BM25Index: the text of each id it has
          ledger,     \* _doc_chunks
          indexed     \* what the last call for a file has indexed; <<>> if it raised

vars == <<calls, ids, rows, metadata, keyword, ledger, indexed>>

Init ==
  /\ calls = [p \in Path |-> 0]
  /\ ids = <<>> /\ rows = <<>> /\ metadata = <<>>
  /\ keyword = <<>>
  /\ ledger = [p \in Path |-> <<>>]
  /\ indexed = [p \in Path |-> <<>>]

\* The chunks of the pages that have a text, in the order of the document.
Chunks(p, pages) ==
  FlattenSeq([i \in DOMAIN pages |->
    [j \in 1..Cardinality(Pieces(pages[i])) |-> [path |-> p, page |-> i, index |-> j - 1]]])

\* Their texts, as the current call reads them.
Texts(p, pages) ==
  LET chunks == Chunks(p, pages)
  IN  [i \in DOMAIN chunks |-> [of |-> chunks[i], call |-> calls[p] + 1]]

\* FAISSVectorStore.delete rebuilds its lists without the deleted ids.
Kept(list, gone) ==
  LET keep == Sublist([i \in DOMAIN ids |-> i], {i \in DOMAIN ids : ids[i] \notin gone})
  IN  [i \in DOMAIN keep |-> list[keep[i]]]

\* FAISSVectorStore.add raises; fits says that the embedder returned one vector per
\* chunk, of the index's dimension.
Refused(left, new, fits) == ~fits \/ ToSet(new) \cap ToSet(left) # {}

\* A plausible bug: the old chunks stay in the keyword index.
KeywordWithoutDelete(gone, new, texts) ==
  [id \in DOMAIN keyword \cup ToSet(new) |->
     IF id \in ToSet(new) THEN (CHOOSE t \in ToSet(texts) : t.of = id) ELSE keyword[id]]

\* BM25Index.delete, then add for each chunk.
KeywordWith(gone, new, texts) ==
  [id \in (DOMAIN keyword \ gone) \cup ToSet(new) |->
     IF id \in ToSet(new) THEN (CHOOSE t \in ToSet(texts) : t.of = id) ELSE keyword[id]]

\* A plausible bug: the ids of the new chunks are deleted, not those of the old ones.
GoneOfNew(p, pages) == ToSet(Chunks(p, pages))

\* What index_pdf deletes: the account of the document.
Gone(p, pages) == ToSet(ledger[p])

\* index_pdf of a file with some text.
IndexPdf(p, pages, fits) ==
  LET new == Chunks(p, pages)
      texts == Texts(p, pages)
      gone == Gone(p, pages)
      left == Kept(ids, gone)
  IN
  /\ calls[p] < MaxCalls
  /\ \E i \in DOMAIN pages : pages[i] > 0
  /\ calls' = [calls EXCEPT ![p] = @ + 1]
  /\ IF Refused(left, new, fits)
     THEN /\ ids' = left
          /\ rows' = Kept(rows, gone)
          /\ metadata' = Kept(metadata, gone)
          /\ keyword' = KeywordWith(gone, <<>>, texts)
          /\ ledger' = ledger
          /\ indexed' = [indexed EXCEPT ![p] = <<>>]
     ELSE /\ ids' = left \o new
          /\ rows' = Kept(rows, gone) \o texts
          /\ metadata' = Kept(metadata, gone) \o texts
          /\ keyword' = KeywordWith(gone, new, texts)
          /\ ledger' = [ledger EXCEPT ![p] = new]
          /\ indexed' = [indexed EXCEPT ![p] = pages]

Next == \E p \in Path, pages \in Documents, fits \in BOOLEAN : IndexPdf(p, pages, fits)

Spec == Init /\ [][Next]_vars
-----------------------------------------------------------------------------
(* The retrieval of ask.  A ranking is a sequence of different ids, best      *)
(* first.  FAISS ranks rows, as many as there are up to the number asked for; *)
(* BM25 ranks the ids that share a word with the question.                    *)

Rankings(known, lengths) ==
  UNION {{r \in [1..n -> known] : IsInjective(r)} : n \in lengths}

Dense(fetch) ==
  {[i \in DOMAIN r |-> ids[r[i]]] :
     r \in Rankings(DOMAIN ids, {IF Len(ids) < fetch THEN Len(ids) ELSE fetch})}

Sparse(fetch) == Rankings(DOMAIN keyword, 0..fetch)

Position(ranking, id) == SelectInSeq(ranking, LAMBDA e : e = id)

\* 1 / (k + rank + 1), in units that make it a whole number; 0 if not ranked.
Unit == (K + 1) * (K + 2) * (K + 3)

Share(ranking, id) ==
  IF Contains(ranking, id) THEN Unit \div (K + Position(ranking, id)) ELSE 0

\* A plausible bug: the second ranking's share replaces the first one's.
ScoreOfLast(dense, sparse, id) ==
  IF Contains(sparse, id) THEN Share(sparse, id) ELSE Share(dense, id)

Score(dense, sparse, id) == Share(dense, id) + Share(sparse, id)

\* scores, a dict: the ids of dense are inserted first.
Inserted(dense, sparse) == dense \o Sublist(sparse, ToSet(sparse) \ ToSet(dense))

\* x comes before y: sorted is stable.
Before(dense, sparse, x, y) ==
  \/ Score(dense, sparse, x) > Score(dense, sparse, y)
  \/ /\ Score(dense, sparse, x) = Score(dense, sparse, y)
     /\ Position(Inserted(dense, sparse), x) < Position(Inserted(dense, sparse), y)

\* How many ids come before y.
Ahead(dense, sparse, y) ==
  Cardinality({x \in ToSet(dense) \cup ToSet(sparse) : Before(dense, sparse, x, y)})

\* rrf_fuse: the ids that have less than topK ids before them.
Fused(dense, sparse, topK) ==
  LET all == ToSet(dense) \cup ToSet(sparse)
      length == IF Cardinality(all) < topK THEN Cardinality(all) ELSE topK
  IN  [n \in 1..length |-> CHOOSE x \in all : Ahead(dense, sparse, x) = n - 1]
-----------------------------------------------------------------------------
\* A hit is one thing wherever it comes from: row, id and text of the vector store
\* belong together at each position, and the keyword index has the same texts
\* under the same ids, whichever calls failed.
StoresAgree ==
  /\ Len(rows) = Len(ids) /\ Len(metadata) = Len(ids)
  /\ IsInjective(ids) /\ DOMAIN keyword = ToSet(ids)
  /\ \A i \in DOMAIN ids :
       /\ rows[i] = metadata[i] /\ metadata[i].of = ids[i]
       /\ keyword[ids[i]] = metadata[i]

\* What can be cited of a file is what the last call of index_pdf read: every chunk
\* of every page if it returned, nothing if the stores refused it.  The ledger
\* accounts for every chunk, so that the next call cannot meet an id it does not
\* delete.
NothingStale ==
  \A p \in Path :
    LET present == {i \in DOMAIN ids : ids[i].path = p} IN
    /\ \A i \in present : metadata[i].call = calls[p]
    /\ {ids[i] : i \in present} = ToSet(Chunks(p, indexed[p]))
    /\ present # {} => {ids[i] : i \in present} = ToSet(ledger[p])

\* x is ranked no worse than y.
NoWorse(ranking, x, y) ==
  Contains(ranking, y) => Contains(ranking, x) /\ Position(ranking, x) <= Position(ranking, y)

\* Fusion respects both rankings: a hit that neither ranks below another is not
\* put below it, nor cut off in its favour, and no hit is cited twice.
FusionMonotone ==
  \A fetch \in 1..3 : \A dense \in Dense(fetch), sparse \in Sparse(fetch) :
    LET fused == Fused(dense, sparse, fetch) IN
    /\ IsInjective(fused)
    /\ \A y \in ToSet(fused), x \in ToSet(dense) \cup ToSet(sparse) :
         x # y /\ NoWorse(dense, x, y) /\ NoWorse(sparse, x, y)
           => Contains(fused, x) /\ Position(fused, x) < Position(fused, y)
=============================================================================
