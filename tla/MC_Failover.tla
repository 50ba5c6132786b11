----------------------------- MODULE MC_Failover -----------------------------
(* Instances of Failover for TLC.                                          *)
EXTENDS Failover, TLC

CONSTANTS c1, c2

\* A primary with a fallback.
Fallback == {<<c1, c2>>}

\* Request slots are interchangeable; connections are not, the routes name them.
RequestSymmetry == Permutations(Requests)
=============================================================================
