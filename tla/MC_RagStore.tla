----------------------------- MODULE MC_RagStore -----------------------------
(* Instances of RagStore for TLC.                                          *)
EXTENDS RagStore, TLC

CONSTANTS c1, c2, c3

\* Two models of the same width and one of another.
Widths == [c \in Conns |-> IF c = c3 THEN 2 ELSE 1]

Sym == Permutations(Docs) \cup Permutations(Replicas) \cup Permutations(Conns \ {c3})
=============================================================================
