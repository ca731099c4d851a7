---------------------------- MODULE MCRpcClient -----------------------------
(* Small instances of RpcClient for TLC. *)
EXTENDS RpcClient, TLC

CONSTANTS a, b, c, d, x

CallerSymmetry == Permutations(Callers) \union Permutations(Closers)
=============================================================================
