--------------------------- MODULE MC_IngestQueue ---------------------------
(* Instances of IngestQueue for TLC.                                        *)
EXTENDS IngestQueue, TLC

CONSTANTS d1, d2, p1, p2, w1, w2

\* Every process has one worker, the same slot in all of them, or one process
\* has all workers and the others are not there.
Teams ==
    {c \in [Procs -> SUBSET Workers] :
        \/ \E w \in Workers : \A p \in Procs : c[p] = {w}
        \/ \E p \in Procs : c[p] = Workers /\ \A q \in Procs \ {p} : c[q] = {}}

\* Processes and worker slots are interchangeable.
Sym == Permutations(Procs) \cup Permutations(Workers) \cup Permutations(Docs)
=============================================================================
