------------------------------- MODULE MC_Live -------------------------------
(***************************************************************************)
(* What must eventually happen in the rebuild of a store (RagStore) and in *)
(* the ingest queue (IngestQueue).  They share no variable, so each is     *)
(* checked on its own: a behaviour picks one part, which moves while the   *)
(* other stays at rest in an initial state.                                *)
(***************************************************************************)
EXTENDS RagStore

VARIABLES part, row, work, proc, ver, enq, bulk, reqs, crew, want, passed, stray

queueVars == <<row, work, proc, ver, enq, bulk, reqs, want, crew, passed, stray>>

\* One model makes all vectors; the rebuild does not look at them.
OneWidth == [c \in Conns |-> 1]

\* Two processes with one worker each, one document.
Procs   == {"p1", "p2"}
Workers == {"w"}
Papers  == {"d"}
Alone   == {[p \in Procs |-> Workers]}

Queue == INSTANCE IngestQueue WITH
    Docs <- Papers, Crews <- Alone, MaxAttempts <- 2, MaxVersion <- 1, MaxRequests <- 2,
    BulkReprocess <- FALSE, DbFaults <- TRUE, NoOwner <- "nobody", job <- work

\* A store at rest needs no rebuild, a queue at rest has no process: nothing
\* that must happen can happen there.
LiveInit ==
    /\ part \in {"store", "queue"}
    /\ Init /\ (part # "store" => lang = "simple")
    /\ Queue!Init

LiveNext ==
    \/ part = "store" /\ Next /\ UNCHANGED <<part, queueVars>>
    \/ part = "queue" /\ Queue!Next /\ UNCHANGED <<part, vars>>

LiveSpec ==
    /\ LiveInit /\ [][LiveNext]_<<part, vars, queueVars>>
    /\ Fairness /\ Queue!Fairness

\* The properties of IngestQueue: no pending document is out of attempts, and
\* every queued document is settled while a process runs (documents.go).
PendingIsClaimable == Queue!PendingIsClaimable
Settles            == Queue!Settles
==============================================================================
