------------------------------ MODULE MCTokens ------------------------------
(* Tokens for TLC: pairs and requests are interchangeable.                 *)
EXTENDS Tokens, TLC

MCSymmetry == Permutations(Pairs) \cup Permutations(Reqs)
=============================================================================
