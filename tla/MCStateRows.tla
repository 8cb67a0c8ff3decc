---------------------------- MODULE MCStateRows ----------------------------
EXTENDS StateRows, TLC

CONSTANTS a, b, c
SlugOf == (a :> "s") @@ (b :> "s") @@ (c :> "t")
Sym == Permutations(Uuid)
=============================================================================
