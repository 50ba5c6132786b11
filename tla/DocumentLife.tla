----------------------------- MODULE DocumentLife -----------------------------
(***************************************************************************)
(* What the ingestion queue promises for the documents of a store, with no *)
(* owner, lease, attempt, worker or process in it: a request queues a      *)
(* document, and a queued document has one outcome, chunks made with       *)
(* settings no older than the request, or a failure.  Nothing else touches *)
(* its chunks, a failed document stays failed until it is asked for again, *)
(* and a deleted one never comes back.  One exception: while a document is *)
(* redone, taken up once more where an earlier effort is still at work,    *)
(* that effort may be its outcome.  IngestQueue implements it.             *)
(***************************************************************************)
EXTENDS Integers

CONSTANTS Docs, MaxVersion

VARIABLES state,   \* absent, queued, ready, failed, deleted
          chunks,  \* settings version the stored chunks were made with; 0: none
          ver,     \* version of the store's settings
          want,    \* settings version at the last request for the document
          redone   \* documents an older effort is still at work on
lifeVars == <<state, chunks, ver, want, redone>>

LifeInit ==
    /\ state = [d \in Docs |-> "absent"] /\ chunks = [d \in Docs |-> 0]
    /\ ver = 1 /\ want = [d \in Docs |-> 0] /\ redone = {}

\* An older effort ends, if at all, with any other step.
Settling == redone' \subseteq redone

Present(d) == state[d] \in {"queued", "ready", "failed"}

\* A document is uploaded, or documents that are there are asked for again.
Ask(S) ==
    /\ (\A d \in S : Present(d)) \/ \E d \in Docs : S = {d} /\ state[d] = "absent"
    /\ state' = [d \in Docs |-> IF d \in S THEN "queued" ELSE state[d]]
    /\ want' = [d \in Docs |-> IF d \in S THEN ver ELSE want[d]]
    /\ Settling /\ UNCHANGED <<chunks, ver>>

\* A queued document is taken up again.
TakeUp(d) ==
    /\ state[d] = "queued" /\ redone' \subseteq redone \cup {d}
    /\ UNCHANGED <<state, chunks, ver, want>>

LetGo == Settling /\ UNCHANGED <<state, chunks, ver, want>>

Outcome(d, v) ==
    /\ state[d] = "queued" /\ v <= ver
    /\ want[d] <= v \/ d \in redone
    /\ state' = [state EXCEPT ![d] = "ready"] /\ chunks' = [chunks EXCEPT ![d] = v]
    /\ Settling /\ UNCHANGED <<ver, want>>

\* Also of a ready document: a job that was superseded reports its own failure.
Failure(d) ==
    /\ Present(d) /\ state' = [state EXCEPT ![d] = "failed"]
    /\ Settling /\ UNCHANGED <<chunks, ver, want>>

Removal(d) ==
    /\ Present(d) /\ state' = [state EXCEPT ![d] = "deleted"] /\ chunks' = [chunks EXCEPT ![d] = 0]
    /\ Settling /\ UNCHANGED <<ver, want>>

NewSettings == ver < MaxVersion /\ ver' = ver + 1 /\ Settling /\ UNCHANGED <<state, chunks, want>>

LifeNext ==
    \/ \E S \in SUBSET Docs : Ask(S)
    \/ \E d \in Docs : (\E v \in 0..MaxVersion : Outcome(d, v)) \/ Failure(d) \/ Removal(d) \/ TakeUp(d)
    \/ NewSettings \/ LetGo

LifeSpec == LifeInit /\ [][LifeNext]_lifeVars
=============================================================================
