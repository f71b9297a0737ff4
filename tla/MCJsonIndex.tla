---------------------------- MODULE MCJsonIndex ----------------------------
(* Small instances of JsonIndex for TLC. *)
EXTENDS JsonIndex, TLC

CONSTANTS w1, w2, a1, a2, b1, c1

\* A worker with two request threads next to a command-line process.
WorkerAndCli == (a1 :> w1) @@ (a2 :> w1) @@ (c1 :> Cli)

\* Two workers with one thread each and a command-line process.
WorkersAndCli == (a1 :> w1) @@ (b1 :> w2) @@ (c1 :> Cli)

IndexSymmetry == Permutations(Inodes)
=============================================================================
