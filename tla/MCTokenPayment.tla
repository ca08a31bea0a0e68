--------------------------- MODULE MCTokenPayment ---------------------------
EXTENDS TokenPayment, TLC

(* Mints of both programs and of no token program, with none, one or two   *)
(* decimals, and data that is no mint, or one in its first 82 bytes only.  *)
MCMintAccounts ==
    { MintAccount(Token, "mint", 1, <<>>),
      MintAccount(Token2022, "mint", 1, <<"uninteresting", "delegate">>),
      MintAccount(Token2022, "mint", 2, <<"fee">>),
      MintAccount(Token2022, "mint", 0, <<"hook", "delegate">>),
      MintAccount(Token2022, "uninitialized", 0, <<>>),
      MintAccount(Token2022, "base", 1, <<>>),
      MintAccount("system", "mint", 1, <<>>) }

(* One of them with an extension that is newer than this crate's reader.   *)
MCNewerMintAccounts ==
    MCMintAccounts \cup {MintAccount(Token2022, "mint", 1, <<"newer", "delegate">>)}

Symmetry == Permutations(Payment)

=============================================================================
