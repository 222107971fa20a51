------------------------------ MODULE MCWallet ------------------------------
(* The wallet for TLC: any two of its callers at a time; the names of      *)
(* proofs are interchangeable.                                             *)
EXTENDS Wallet, TLC

Busy == {t \in Tasks : ~At(t, "idle")}

MCNext == Next /\ Cardinality(Busy') <= 2

MCSpec == Init /\ [][MCNext]_vars

Symmetry == Permutations(Proofs)
=============================================================================
