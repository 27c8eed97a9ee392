------------------------------- MODULE Chunking -------------------------------
(***************************************************************************)
(* rag/chunking.py: a text is cut into pieces of ChunkSize characters, each *)
(* of which repeats the last Overlap characters of the one before.         *)
(***************************************************************************)
EXTENDS Naturals, FiniteSets

CONSTANTS ChunkSize,   \* RAGPipeline.chunk_size
          Overlap      \* RAGPipeline.overlap

\* chunk_text raises if Overlap is not below ChunkSize.  It does not refuse a negative
\* overlap, with which the chunks would leave gaps; no caller passes one.
ASSUME ChunkingAssumption == ChunkSize \in Nat /\ Overlap \in Nat /\ Overlap < ChunkSize

Step == ChunkSize - Overlap

\* The first character of chunk k, from 0.
Start(k) == k * Step

\* The while loop cuts a chunk at each start within the text.
Pieces(length) == {k \in 0..length : Start(k) < length}

\* Slicing stops at the end of the text.
End(k, length) == IF Start(k) + ChunkSize < length THEN Start(k) + ChunkSize ELSE length

Within(from, to, k, length) == Start(k) <= from /\ to <= End(k, length)
=============================================================================
