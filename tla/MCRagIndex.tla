----------------------------- MODULE MCRagIndex -----------------------------
(* An instance of RagIndex for TLC: two rebuilds at once. *)
EXTENDS RagIndex

Index(id, doc, force) == [id |-> id, path |-> "/index", doc |-> doc, force_rebuild |-> force]

ChunkCount == [d \in Doc |-> IF d = "d1" THEN 2 ELSE 1]

\* The Qt client requests both documents: it always asks for a rebuild.
ReqRebuild == {Index(3, "d1", TRUE), Index(4, "d2", TRUE)}
=============================================================================
