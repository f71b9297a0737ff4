------------------------- MODULE MCQdrantSnapshots -------------------------
(* Small instances of QdrantSnapshots for TLC. *)
EXTENDS QdrantSnapshots, TLC

CONSTANTS w1, w2, a1, b1, c1

\* Two workers next to an external writer.
WorkersAndWriter == (a1 :> w1) @@ (b1 :> w2) @@ (c1 :> Cli)

\* A worker next to an external writer.
WorkerAndWriter == (a1 :> w1) @@ (c1 :> Cli)
=============================================================================
