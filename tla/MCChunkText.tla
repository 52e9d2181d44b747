---------------------------- MODULE MCChunkText ----------------------------
(* Instance of ChunkText for TLC: every length up to a bound. *)
EXTENDS ChunkText

CONSTANT MaxChunks   \* bound: iterations, more than any of the lengths needs

Lengths == 0..30

MCNext == CutNext /\ Len(chunks) < MaxChunks
MCSpec == CutInit /\ [][MCNext]_cutVars /\ WF_cutVars(MCNext)
=============================================================================
