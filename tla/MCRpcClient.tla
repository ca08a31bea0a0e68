---------------------------- MODULE MCRpcClient -----------------------------
(* RpcClient for TLC: a response of each interesting kind in the queue.     *)
EXTENDS RpcClient, TLC

Responses ==
    << [error |-> FALSE, result |-> "wrapped"], [error |-> TRUE, result |-> "wrapped"],
       [error |-> FALSE, result |-> "bare"] >>

Symmetry == Permutations(Thread)

=============================================================================
