------------------------------- MODULE MCRing -------------------------------
EXTENDS Ring, TLC

(* Rings with two producers and a consumer, or a producer and two          *)
(* consumers.                                                              *)
ThreeUsers == {{"prod"}, {"cons"}}

Symmetry == Permutations(Producers) \cup Permutations(Consumers)
=============================================================================
