------------------------ MODULE MCSubscriptionFlow -------------------------
(* Two delegations under one authority, told apart by their nonce.         *)
EXTENDS SubscriptionFlow, TLC

MCJobs == [user : User, mint : Mint, delegatee : Delegatee, nonce : Nonces]

Symmetry == Permutations(Plugin)

=============================================================================
