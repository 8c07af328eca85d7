----------------------------- MODULE MCRdbPool -----------------------------
(* RdbPool for TLC: three keys, values of one and of two cells.             *)
EXTENDS RdbPool, TLC

MCData == {<<1>>, <<2>>, <<1, 2>>}
KeySymmetry == Permutations(Keys)
=============================================================================
