----------------------------- MODULE IngestQueue -----------------------------
(***************************************************************************)
(* The ingestion queue of ragmux: the rows of the documents table, the     *)
(* admin handlers that queue documents, and the ingesters (one per server  *)
(* process) that claim rows under a lease, embed them and store chunks.    *)
(*                                                                         *)
(* Time is abstracted to the validity of a lease.  The content of a        *)
(* document is abstracted to the version of the store settings its chunks  *)
(* were produced with; progress, page counts and error texts are display   *)
(* data and left out.  A restarted server is a new member of Procs,        *)
(* because newOwner gives every process a fresh identity.                  *)
(***************************************************************************)
EXTENDS Integers, FiniteSets

CONSTANTS
    Docs,           \* document ids
    Procs,          \* server processes, each one an owner in claimed_by
    Workers,        \* worker slots
    Crews,          \* the slots each process may be started with (INGEST_WORKERS)
    MaxAttempts,    \* INGEST_MAX_ATTEMPTS
    MaxVersion,     \* bound on the settings changes of the store
    MaxRequests,    \* bound on the upload and reprocess requests
    BulkReprocess,  \* whether "reprocess all" is used
    DbFaults,       \* whether a database write whose error is ignored may fail
    NoOwner,        \* claimed_by IS NULL
    NoDoc           \* a worker slot without a job

ASSUME SetsAssumption == NoOwner \notin Procs /\ NoDoc \notin Docs
ASSUME CrewsAssumption == Crews \subseteq [Procs -> SUBSET Workers]
ASSUME BoundsAssumption ==
    /\ MaxAttempts \in Nat \ {0}
    /\ MaxVersion \in Nat \ {0}
    /\ MaxRequests \in Nat
ASSUME SwitchAssumption == BulkReprocess \in BOOLEAN /\ DbFaults \in BOOLEAN

VARIABLES
    row,    \* the documents table
    job,    \* the job of every worker slot of every process
    proc,   \* the life of every process
    ver,    \* version of the store's chunking and embedding settings
    enq,    \* single-document handlers between the pending write and Enqueue
    bulk,   \* the documents a "reprocess all" handler still has to enqueue
    reqs,   \* requests made so far
    crew,   \* the slots of every process, chosen once
    want,   \* history: settings version at the last request for a document
    passed, \* history: jobs whose own process has claimed their document again
    stray   \* history: documents made ready by a job in passed

queue == <<row, job, proc, ver, enq, bulk, reqs, want>>
vars  == <<row, job, proc, ver, enq, bulk, reqs, want, crew, passed, stray>>
-----------------------------------------------------------------------------
Row == [status   : {"absent", "pending", "processing", "ready", "failed", "deleted"},
        by       : Procs \cup {NoOwner},
        lease    : {"null", "live", "expired"},
        attempts : 0..MaxAttempts,
        chunks   : 0..MaxVersion]

Job == [phase : {"idle", "claimed", "embedding", "written", "failing"},
        doc   : Docs \cup {NoDoc},
        ver   : 0..MaxVersion,
        lost  : BOOLEAN]

TypeOK ==
    /\ row \in [Docs -> Row]
    /\ job \in [Procs -> [Workers -> Job]]
    /\ proc \in [Procs -> {"new", "running", "stopping", "cancelled", "gone"}]
    /\ ver \in 1..MaxVersion
    /\ enq \in [Docs -> Nat]
    /\ bulk \in [left : SUBSET Docs, refused : BOOLEAN]
    /\ reqs \in 0..MaxRequests
    /\ want \in [Docs -> 0..MaxVersion]
    /\ crew \in Crews
    /\ passed \subseteq Procs \X Workers
    /\ stray \subseteq Docs

NoRow == [status |-> "absent", by |-> NoOwner, lease |-> "null", attempts |-> 0, chunks |-> 0]
Idle  == [phase |-> "idle", doc |-> NoDoc, ver |-> 0, lost |-> FALSE]

Init ==
    /\ row = [d \in Docs |-> NoRow]
    /\ job = [p \in Procs |-> [w \in Workers |-> Idle]]
    /\ crew \in Crews
    /\ proc = [p \in Procs |-> IF crew[p] = {} THEN "gone" ELSE "new"]
    /\ ver = 1
    /\ enq = [d \in Docs |-> 0]
    /\ bulk = [left |-> {}, refused |-> FALSE]
    /\ reqs = 0
    /\ want = [d \in Docs |-> 0]
    /\ passed = {} /\ stray = {}
-----------------------------------------------------------------------------
SetRow(d, r)    == row' = [row EXCEPT ![d] = r]
SetJob(p, w, j) == job' = [job EXCEPT ![p][w] = j]

Exists(d) == row[d].status \notin {"absent", "deleted"}

\* Mutant of Holds: the ownership checks look at the status alone.
Holds_AnyOwner(p, d) == row[d].status = "processing"

\* Mutant of Holds: the row still names this process, whatever its status is.
Holds_AnyStatus(p, d) == row[d].by = p

\* The row is claimed by p and still being processed: the WHERE clause of
\* ExtendDocumentLease and of the final update of ReplaceDocumentChunksFrom.
Holds(p, d) == row[d].status = "processing" /\ row[d].by = p

Expired(r) == r.lease \in {"null", "expired"}

\* claimWhere: waiting, or abandoned by an owner that stopped renewing.
Claimable(r) ==
    /\ r.status = "pending" \/ (r.status = "processing" /\ Expired(r))
    /\ r.attempts < MaxAttempts

\* SetDocumentStatus(..., "pending"): an explicit retry drops the claim.
ToPending(r) ==
    [status |-> "pending", by |-> NoOwner, lease |-> "null", attempts |-> 0, chunks |-> r.chunks]

\* SetDocumentStatus(..., "failed") has no owner check and keeps the claim;
\* it updates nothing when the row is gone.
ToFailed(r) == IF r.status \in {"absent", "deleted"} THEN r ELSE [r EXCEPT !.status = "failed"]

ClaimSet(r, p) ==
    [status |-> "processing", by |-> p, lease |-> "live",
     attempts |-> r.attempts + 1, chunks |-> r.chunks]

\* Mutant of Released: a clean shutdown does not give the attempt back.
Released_KeepsAttempt(r) ==
    [status |-> "pending", by |-> NoOwner, lease |-> "null", attempts |-> r.attempts, chunks |-> r.chunks]

Released(r) ==
    [status |-> "pending", by |-> NoOwner, lease |-> "null",
     attempts |-> IF r.attempts > 0 THEN r.attempts - 1 ELSE 0, chunks |-> r.chunks]

\* Mutant of Cleared: ClearDocumentClaim without its claimed_by condition.
Cleared_AnyOwner(r, p) ==
    [status |-> r.status, by |-> NoOwner, lease |-> "null", attempts |-> 0, chunks |-> r.chunks]

Cleared(r, p) ==
    IF r.by # p THEN r
    ELSE [status |-> r.status, by |-> NoOwner, lease |-> "null", attempts |-> 0, chunks |-> r.chunks]

\* The write of FailExhaustedDocuments.
GivenUp(r) ==
    [status |-> "failed", by |-> NoOwner, lease |-> "null",
     attempts |-> r.attempts, chunks |-> r.chunks]

\* ResetStoreDocuments writes the status only.
ResetRow(r) == IF r.status \in {"absent", "deleted"} THEN r ELSE [r EXCEPT !.status = "pending"]
-----------------------------------------------------------------------------
(* Admin handlers.                                                         *)

\* uploadDocument up to CreateDocument.
Upload(d) ==
    /\ row[d].status = "absent" /\ reqs < MaxRequests
    /\ SetRow(d, [row[d] EXCEPT !.status = "pending"])
    /\ want' = [want EXCEPT ![d] = ver]
    /\ enq' = [enq EXCEPT ![d] = @ + 1]
    /\ reqs' = reqs + 1
    /\ UNCHANGED <<job, proc, ver, bulk>>

\* reprocessDocument up to SetDocumentStatus(pending).
Reprocess(d) ==
    /\ Exists(d) /\ reqs < MaxRequests
    /\ SetRow(d, ToPending(row[d]))
    /\ want' = [want EXCEPT ![d] = ver]
    /\ enq' = [enq EXCEPT ![d] = @ + 1]
    /\ reqs' = reqs + 1
    /\ UNCHANGED <<job, proc, ver, bulk>>

\* Enqueue below MAX_PENDING_DOCUMENTS: only a kick, the row is queued already.
EnqueueAccepted(d) ==
    /\ enq[d] > 0
    /\ enq' = [enq EXCEPT ![d] = @ - 1]
    /\ UNCHANGED <<row, job, proc, ver, bulk, reqs, want>>

\* Enqueue returns ErrQueueFull and the handler marks the row.  The backlog
\* is a count over the cluster that may be a second old, so nothing ties the
\* refusal to what has happened to this row meanwhile.
EnqueueRefused(d) ==
    /\ enq[d] > 0
    /\ enq' = [enq EXCEPT ![d] = @ - 1]
    /\ SetRow(d, ToFailed(row[d]))
    /\ UNCHANGED <<job, proc, ver, bulk, reqs, want>>

\* reprocessStore up to ResetStoreDocuments, one statement for all rows.
ReprocessAll ==
    /\ BulkReprocess
    /\ bulk.left = {} /\ reqs < MaxRequests
    /\ bulk' = [left |-> {d \in Docs : Exists(d)}, refused |-> FALSE]
    /\ row' = [d \in Docs |-> ResetRow(row[d])]
    /\ want' = [d \in Docs |-> IF Exists(d) THEN ver ELSE want[d]]
    /\ reqs' = reqs + 1
    /\ UNCHANGED <<job, proc, ver, enq>>

\* The loop of reprocessStore: the first refusal marks the rest as failed.
BulkEnqueue(d) ==
    /\ d \in bulk.left /\ ~bulk.refused
    /\ \/ bulk' = [left |-> bulk.left \ {d}, refused |-> bulk.refused]
       \/ bulk' = [left |-> bulk.left, refused |-> TRUE]
    /\ UNCHANGED <<row, job, proc, ver, enq, reqs, want>>

BulkMarkFailed(d) ==
    /\ d \in bulk.left /\ bulk.refused
    /\ bulk' = [left |-> bulk.left \ {d}, refused |-> bulk.refused]
    /\ SetRow(d, ToFailed(row[d]))
    /\ UNCHANGED <<job, proc, ver, enq, reqs, want>>

\* DeleteDocument: the row and, by cascade, its chunks.
Delete(d) ==
    /\ Exists(d)
    /\ SetRow(d, [NoRow EXCEPT !.status = "deleted"])
    /\ UNCHANGED <<job, proc, ver, enq, bulk, reqs, want>>

\* UpdateRAGStore with other chunking settings.
UpdateSettings ==
    /\ ver < MaxVersion
    /\ ver' = ver + 1
    /\ UNCHANGED <<row, job, proc, enq, bulk, reqs, want>>
-----------------------------------------------------------------------------
(* The ingester of a process.                                              *)

NewIngester(p) ==
    /\ proc[p] = "new"
    /\ proc' = [proc EXCEPT ![p] = "running"]
    /\ UNCHANGED <<row, job, ver, enq, bulk, reqs, want>>

\* One pass of claimAll: a free worker slot takes a claimable row.  SKIP
\* LOCKED lets a poller pass over rows other transactions hold, so any
\* claimable row may be the one.  A dispatcher that has not looked at the
\* stop channel yet still claims.
Claim(p, w, d) ==
    /\ proc[p] \in {"running", "stopping"} /\ w \in crew[p]
    /\ job[p][w].phase = "idle"
    /\ Claimable(row[d])
    /\ SetRow(d, ClaimSet(row[d], p))
    /\ SetJob(p, w, [phase |-> "claimed", doc |-> d, ver |-> 0, lost |-> FALSE])
    /\ UNCHANGED <<proc, ver, enq, bulk, reqs, want>>

\* The claim commits and its answer is lost: claimAll logs an error, and the
\* row is owned by a process without a job for it until its lease runs out.
ClaimUnanswered(p, d) ==
    /\ DbFaults
    /\ proc[p] \in {"running", "stopping"}
    /\ \E w \in crew[p] : job[p][w].phase = "idle"
    /\ Claimable(row[d])
    /\ SetRow(d, ClaimSet(row[d], p))
    /\ UNCHANGED <<job, proc, ver, enq, bulk, reqs, want>>

\* claimAll gives up the hand-over because the process is stopping.
DropClaim(p, w) ==
    /\ proc[p] \in {"stopping", "cancelled"}
    /\ job[p][w].phase = "claimed"
    /\ SetJob(p, w, Idle)
    /\ UNCHANGED <<row, proc, ver, enq, bulk, reqs, want>>

\* A worker receives the document; pipeline reads the store's settings.
Begin(p, w) ==
    /\ proc[p] \in {"running", "stopping"}
    /\ job[p][w].phase = "claimed"
    /\ SetJob(p, w, [job[p][w] EXCEPT !.phase = "embedding", !.ver = ver])
    /\ UNCHANGED <<row, proc, ver, enq, bulk, reqs, want>>

\* Mutant of Heartbeat: the renewal also asks for a lease that has not run out.
Heartbeat_NeedsLiveLease(p, w) ==
    LET d == job[p][w].doc IN
    /\ proc[p] \in {"running", "stopping"}
    /\ job[p][w].phase \in {"embedding", "written"} /\ ~job[p][w].lost
    /\ IF Holds(p, d) /\ row[d].lease = "live"
       THEN UNCHANGED <<row, job>>
       ELSE SetJob(p, w, [job[p][w] EXCEPT !.lost = TRUE]) /\ UNCHANGED row
    /\ UNCHANGED <<proc, ver, enq, bulk, reqs, want>>

\* The heartbeat goroutine of process.  It also beats between the commit of
\* the chunks and the end of process, where the status is no longer
\* "processing" and the beat reports a lost lease.
Heartbeat(p, w) ==
    LET d == job[p][w].doc IN
    /\ proc[p] \in {"running", "stopping"}
    /\ job[p][w].phase \in {"embedding", "written"} /\ ~job[p][w].lost
    /\ IF Holds(p, d)
       THEN SetRow(d, [row[d] EXCEPT !.lease = "live"]) /\ UNCHANGED job
       ELSE SetJob(p, w, [job[p][w] EXCEPT !.lost = TRUE]) /\ UNCHANGED row
    /\ UNCHANGED <<proc, ver, enq, bulk, reqs, want>>

\* ReplaceDocumentChunksFrom commits: chunks and status in one transaction,
\* on condition that the row still carries this process's claim.  A commit
\* whose acknowledgement is lost is an error to the job.
StoreChunks(p, w) ==
    LET d == job[p][w].doc IN
    /\ proc[p] \in {"running", "stopping"}
    /\ job[p][w].phase = "embedding" /\ ~job[p][w].lost
    /\ Holds(p, d)
    /\ SetRow(d, [row[d] EXCEPT !.status = "ready", !.chunks = job[p][w].ver])
    /\ \/ SetJob(p, w, [job[p][w] EXCEPT !.phase = "written"])
       \/ DbFaults /\ SetJob(p, w, [job[p][w] EXCEPT !.phase = "failing"])
    /\ UNCHANGED <<proc, ver, enq, bulk, reqs, want>>

\* pipeline returns an error (parsing, embedding, timeout, or the ownership
\* check above), no heartbeat has noticed a loss, and the process is not
\* cancelled: runJob takes its default branch.
JobError(p, w) ==
    /\ proc[p] \in {"running", "stopping"}
    /\ job[p][w].phase = "embedding" /\ ~job[p][w].lost
    /\ SetJob(p, w, [job[p][w] EXCEPT !.phase = "failing"])
    /\ UNCHANGED <<row, proc, ver, enq, bulk, reqs, want>>

\* The default branch of runJob writes "failed"; its error is ignored.
FailWrite(p, w) ==
    LET d == job[p][w].doc IN
    /\ proc[p] \in {"running", "stopping", "cancelled"}
    /\ job[p][w].phase = "failing"
    /\ \/ SetRow(d, ToFailed(row[d]))
       \/ DbFaults /\ UNCHANGED row
    /\ SetJob(p, w, Idle)
    /\ UNCHANGED <<proc, ver, enq, bulk, reqs, want>>

\* ClearDocumentClaim after a successful pipeline; its error is only logged.
ClearClaim(p, w) ==
    LET d == job[p][w].doc IN
    /\ proc[p] \in {"running", "stopping"}
    /\ job[p][w].phase = "written" /\ ~job[p][w].lost
    /\ \/ SetRow(d, Cleared(row[d], p))
       \/ DbFaults /\ UNCHANGED row
    /\ SetJob(p, w, Idle)
    /\ UNCHANGED <<proc, ver, enq, bulk, reqs, want>>

\* The job ends without writing a status: errLeaseLost, or the worker context
\* is cancelled (which also defeats ClearDocumentClaim).
EndQuietly(p, w) ==
    /\ proc[p] \in {"running", "stopping", "cancelled"}
    /\ job[p][w].phase \in {"embedding", "written"}
    /\ job[p][w].lost \/ proc[p] = "cancelled"
    /\ SetJob(p, w, Idle)
    /\ UNCHANGED <<row, proc, ver, enq, bulk, reqs, want>>

\* stop: close(stopping), and after the grace period cancel the workers.
Stop(p) ==
    /\ proc[p] = "running"
    /\ proc' = [proc EXCEPT ![p] = "stopping"]
    /\ UNCHANGED <<row, job, ver, enq, bulk, reqs, want>>

Cancel(p) ==
    /\ proc[p] = "stopping"
    /\ proc' = [proc EXCEPT ![p] = "cancelled"]
    /\ UNCHANGED <<row, job, ver, enq, bulk, reqs, want>>

\* The end of stop: every goroutine has returned, ReleaseDocuments puts the
\* rows this process still holds back into the queue.
Release(p) ==
    /\ proc[p] = "cancelled"
    /\ \A w \in Workers : job[p][w].phase = "idle"
    /\ proc' = [proc EXCEPT ![p] = "gone"]
    /\ row' = [d \in Docs |-> IF Holds(p, d) THEN Released(row[d]) ELSE row[d]]
    /\ UNCHANGED <<job, ver, enq, bulk, reqs, want>>

Crash(p) ==
    /\ proc[p] \in {"running", "stopping", "cancelled"}
    /\ proc' = [proc EXCEPT ![p] = "gone"]
    /\ job' = [job EXCEPT ![p] = [w \in Workers |-> Idle]]
    /\ UNCHANGED <<row, ver, enq, bulk, reqs, want>>
-----------------------------------------------------------------------------
(* Time and the janitor.                                                   *)

\* A lease runs out, also under a live owner that is merely slow.
LeaseExpires(d) ==
    /\ row[d].lease = "live"
    /\ SetRow(d, [row[d] EXCEPT !.lease = "expired"])
    /\ UNCHANGED <<job, proc, ver, enq, bulk, reqs, want>>

\* Mutant of FailExhausted: off by one at the attempt cap.
FailExhausted_OffByOne(d) ==
    /\ row[d].status = "processing" /\ row[d].attempts > MaxAttempts /\ Expired(row[d])
    /\ SetRow(d, GivenUp(row[d]))
    /\ UNCHANGED <<job, proc, ver, enq, bulk, reqs, want>>

\* FailExhaustedDocuments, for one row: rows are independent of each other.
FailExhausted(d) ==
    /\ row[d].status = "processing" /\ row[d].attempts >= MaxAttempts /\ Expired(row[d])
    /\ SetRow(d, GivenUp(row[d]))
    /\ UNCHANGED <<job, proc, ver, enq, bulk, reqs, want>>
-----------------------------------------------------------------------------
Handler(d) ==
    \/ Upload(d) \/ Reprocess(d) \/ Delete(d)
    \/ EnqueueAccepted(d) \/ EnqueueRefused(d)
    \/ BulkEnqueue(d) \/ BulkMarkFailed(d)

WorkerStep(p, w) ==
    \/ DropClaim(p, w) \/ Begin(p, w) \/ Heartbeat(p, w) \/ StoreChunks(p, w)
    \/ JobError(p, w) \/ FailWrite(p, w) \/ ClearClaim(p, w) \/ EndQuietly(p, w)

ProcessStep(p) ==
    \/ NewIngester(p) \/ Stop(p) \/ Cancel(p) \/ Release(p) \/ Crash(p)

Step ==
    \/ \E d \in Docs : Handler(d)
    \/ ReprocessAll
    \/ UpdateSettings
    \/ \E p \in Procs, w \in Workers, d \in Docs : Claim(p, w, d)
    \/ \E p \in Procs, d \in Docs : ClaimUnanswered(p, d)
    \/ \E p \in Procs, w \in Workers : WorkerStep(p, w)
    \/ \E p \in Procs : ProcessStep(p)
    \/ \E d \in Docs : LeaseExpires(d) \/ FailExhausted(d)

\* What the history remembers of a step.  The owner checks compare processes,
\* not jobs: when a process claims a document that one of its workers is still
\* busy with, the row names that process again and the older job is let through.
Taken(p, d) == row'[d].by = p /\ row'[d].attempts = row[d].attempts + 1

Published(d) == row[d].status # "ready" /\ row'[d].status = "ready"

Overtaken(p, w) ==
    /\ job[p][w].doc \in Docs /\ job'[p][w].doc = job[p][w].doc
    /\ <<p, w>> \in passed \/ Taken(p, job[p][w].doc)

LateWork(d) ==
    \E p \in Procs, w \in Workers :
        <<p, w>> \in passed /\ job[p][w].doc = d /\ job'[p][w] # job[p][w]

Remember ==
    /\ passed' = {x \in Procs \X Workers : Overtaken(x[1], x[2])}
    /\ stray' = {d \in Docs : /\ row'[d].status = "ready"
                             /\ IF Published(d) THEN LateWork(d) ELSE d \in stray}

Next == Step /\ Remember /\ UNCHANGED crew

Spec == Init /\ [][Next]_vars

\* Fairness: the dispatcher polls on a ticker; a worker's job ends, because
\* process runs under processTimeout; a stopping process is cancelled after
\* its grace period and releases its rows; a lease nobody renews runs out;
\* the janitor ticks on some replica.  Heartbeats, requests, starts and
\* crashes are left to chance.
Progress(p, w) ==
    \/ DropClaim(p, w) \/ Begin(p, w) \/ StoreChunks(p, w) \/ JobError(p, w)
    \/ FailWrite(p, w) \/ ClearClaim(p, w) \/ EndQuietly(p, w)

Worked(d) == \E p \in Procs, w \in Workers : job[p][w].doc = d

Fairness ==
    /\ \A p \in Procs, w \in Workers :
          /\ WF_queue(proc[p] = "running" /\ \E d \in Docs : Claim(p, w, d))
          /\ WF_queue(Progress(p, w))
    /\ \A p \in Procs : WF_queue(Cancel(p)) /\ WF_queue(Release(p))
    /\ \A d \in Docs : WF_queue(~Worked(d) /\ LeaseExpires(d)) /\ WF_queue(FailExhausted(d))

FairSpec == Spec /\ Fairness
-----------------------------------------------------------------------------
(* Properties.                                                             *)

\* A pending document can be claimed: pending rows are outside the janitor's
\* FailExhaustedDocuments, so one with no attempts left would wait forever.
\* documents.go (SetDocumentStatus) and docs/scaling.md say an explicit retry
\* resets the counter.
PendingIsClaimable == \A d \in Docs : row[d].status = "pending" => Claimable(row[d])

\* A ready document holds chunks made with settings at least as recent as the
\* last request for it: a reprocess is never answered with the chunks of the
\* job it was meant to replace (ReplaceDocumentChunksFrom), unless that job's
\* own process had claimed the document again.
ReadyIsFresh ==
    \A d \in Docs : row[d].status = "ready" /\ d \notin stray => row[d].chunks >= want[d]

\* In a running process a claim is always backed by a job that has not been
\* told its lease is lost: nothing is claimed that is not being worked on
\* (the comment on Ingester.jobs).
NoOrphanClaim ==
    \A p \in Procs, d \in Docs :
        proc[p] = "running" /\ Holds(p, d)
            => \E w \in Workers : job[p][w].doc = d /\ ~job[p][w].lost

\* The same over rows of the right types, none claimed more than MaxAttempts
\* times without a reset (claimWhere).
ClaimsSound == TypeOK /\ NoOrphanClaim

\* Strengthenings that make the three invariants above inductive.
AbsentIsClean == \A d \in Docs : row[d].status = "absent" => row[d] = NoRow
WantIsPast == \A d \in Docs : want[d] <= ver
\* The job that may still commit was started with recent enough settings.
HolderIsFresh ==
    \A p \in Procs, w \in Workers, d \in Docs :
        job[p][w].phase = "embedding" /\ job[p][w].doc = d /\ Holds(p, d) /\ <<p, w>> \notin passed
            => job[p][w].ver >= want[d]

HeldByOther(p, d) ==
    row[d].status = "processing" /\ row[d].by # p /\ row[d].by # NoOwner

\* A step of a job that works on a document another process has taken over.
StaleStep(p, w, d) == job[p][w].doc = d /\ job'[p][w] # job[p][w] /\ HeldByOther(p, d)

\* A job whose document was taken over never replaces the chunks or the claim
\* of the new owner (the ownership checks of ReplaceDocumentChunksFrom and
\* ClearDocumentClaim).
StaleJobKeepsChunks ==
    [][\A p \in Procs, w \in Workers, d \in Docs : StaleStep(p, w, d) =>
          /\ row'[d].chunks = row[d].chunks
          /\ row'[d].by = row[d].by]_vars

\* ... and writes no status on it (docs/scaling.md, ExtendDocumentLease,
\* runJob: "The row belongs to whoever claimed it next").
StaleJobKeepsStatus ==
    [][\A p \in Procs, w \in Workers, d \in Docs : StaleStep(p, w, d) =>
          row'[d].status = row[d].status]_vars

\* The documents as their users see them: pending and processing are one state.
LifeState(r) == IF r.status \in {"pending", "processing"} THEN "queued" ELSE r.status

Life == INSTANCE DocumentLife WITH
    state  <- [d \in Docs |-> LifeState(row[d])],
    chunks <- [d \in Docs |-> row[d].chunks],
    redone <- {d \in Docs : \E p \in Procs, w \in Workers : <<p, w>> \in passed /\ job[p][w].doc = d}

\* The queue implements DocumentLife: claims, leases, retries, takeovers, crashes
\* and shutdowns are invisible, and every request has one outcome, fresh unless
\* the process at work on the document has taken it up a second time.
ImplementsLife == Life!LifeSpec

\* While some process keeps running, a queued document is eventually ready,
\* failed or deleted, whatever crashes and lease expiries happen on the way.
Settles ==
    \A d \in Docs :
        row[d].status = "pending" ~>
            \/ row[d].status \in {"ready", "failed", "deleted"}
            \/ \A p \in Procs : proc[p] # "running"
=============================================================================
