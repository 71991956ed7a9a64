------------------------------- MODULE MCCfs -------------------------------
(* Cfs with two nice values, weights 2 and 1, for TLC.                      *)
EXTENDS Cfs
MCNice == 0 .. 1
MCWeights == [n \in MCNice |-> 2 - n]
=============================================================================
