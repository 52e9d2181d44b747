----------------------------- MODULE ChunkText -----------------------------
(***************************************************************************)
(* chunk_text of the RAG service (services/rag_service/server.py): the     *)
(* loop that cuts a document into overlapping chunks, one iteration a      *)
(* step. The text is seen by its length only, and a chunk is the range of  *)
(* characters from..to-1.                                                  *)
(*                                                                         *)
(* score_chunk looks for the query inside one chunk at a time, so what     *)
(* matters is which ranges of the text lie inside a single chunk.          *)
(*                                                                         *)
(* The names of the specification begin with Cut: a module may extend this *)
(* one together with KnowledgeRag, whose index the chunks go into.         *)
(***************************************************************************)
EXTENDS Integers, Sequences

CONSTANTS
    Size,      \* chunk_size (700)
    Overlap,   \* overlap (120)
    TextLength \* lengths of the documents, whitespace collapsed

ASSUME SizeAssumption == Size \in Nat /\ Overlap \in Nat /\ Overlap < Size
ASSUME LengthAssumption == TextLength \subseteq Nat

VARIABLES
    length,  \* len(text)
    start,
    end,     \* end of the last chunk; 0 before the first
    chunks,
    broke    \* the loop was left by its break

cutVars == <<length, start, end, chunks, broke>>

Chunk == [from : Nat, to : Nat]

CutTypeOK ==
    /\ length \in TextLength
    /\ start \in Nat /\ end \in Nat
    /\ chunks \in Seq(Chunk)
    /\ broke \in BOOLEAN

CutInit ==
    /\ length \in TextLength
    /\ start = 0 /\ end = 0 /\ chunks = <<>> /\ broke = FALSE

Done == broke \/ start >= length

ChunkEnd == IF start + Size < length THEN start + Size ELSE length

\* Mutants: chunks do not overlap; a chunk may reach past the text; the loop has no
\* break; the next chunk is placed from the start of this one.
IterateDisjoint ==
    /\ ~Done
    /\ end' = ChunkEnd
    /\ chunks' = Append(chunks, [from |-> start, to |-> ChunkEnd])
    /\ broke' = (ChunkEnd >= length)
    /\ start' = IF ChunkEnd >= length THEN start ELSE ChunkEnd
    /\ UNCHANGED length
IteratePastEnd ==
    /\ ~Done
    /\ end' = start + Size
    /\ chunks' = Append(chunks, [from |-> start, to |-> start + Size])
    /\ broke' = (start + Size >= length)
    /\ start' = IF start + Size >= length THEN start ELSE start + Size - Overlap
    /\ UNCHANGED length
IterateWithoutBreak ==
    /\ ~Done
    /\ end' = ChunkEnd
    /\ chunks' = Append(chunks, [from |-> start, to |-> ChunkEnd])
    /\ start' = IF ChunkEnd < Overlap THEN 0 ELSE ChunkEnd - Overlap
    /\ UNCHANGED <<length, broke>>
IterateFromStart ==
    /\ ~Done
    /\ end' = ChunkEnd
    /\ chunks' = Append(chunks, [from |-> start, to |-> ChunkEnd])
    /\ broke' = (ChunkEnd >= length)
    /\ start' = IF ChunkEnd >= length THEN start ELSE start - Overlap
    /\ UNCHANGED length

Iterate ==
    /\ ~Done
    /\ end' = ChunkEnd
    /\ chunks' = Append(chunks, [from |-> start, to |-> ChunkEnd])
    /\ broke' = (ChunkEnd >= length)
    /\ start' = IF ChunkEnd >= length THEN start
                ELSE IF ChunkEnd < Overlap THEN 0 ELSE ChunkEnd - Overlap
    /\ UNCHANGED length

CutNext == Iterate
CutSpec == CutInit /\ [][CutNext]_cutVars
\* A local loop of the thread that serves the request: nothing keeps it from running.
CutFairSpec == CutSpec /\ WF_cutVars(Iterate)

-----------------------------------------------------------------------------
(* Properties *)

InsideOne(a, b) == \E i \in DOMAIN chunks : chunks[i].from <= a /\ b <= chunks[i].to

\* A query of at most Overlap + 1 characters that occurs anywhere in a document lies
\* within one of its chunks, so score_chunk finds it there: no cut hides it.
PhrasesWhole ==
    Done => \A a, b \in 0..length : a < b /\ b - a <= Overlap + 1 => InsideOne(a, b)

\* Chunks are ranges of the text of at most Size characters, and each reaches further
\* than the one before: none repeats what an earlier one already holds.
ChunksAdvance ==
    /\ \A i \in DOMAIN chunks :
          /\ chunks[i].from < chunks[i].to /\ chunks[i].to <= length
          /\ chunks[i].to - chunks[i].from <= Size
    /\ \A i, j \in DOMAIN chunks :
          i < j => chunks[i].from < chunks[j].from /\ chunks[i].to < chunks[j].to

\* The loop ends for every text: start moves on until the break.
Terminates == <>Done
=============================================================================
