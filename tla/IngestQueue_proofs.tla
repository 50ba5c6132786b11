-------------------------- MODULE IngestQueue_proofs --------------------------
(***************************************************************************)
(* Machine-checked proofs about IngestQueue, for any number of documents,  *)
(* processes, workers and attempts.                                        *)
(***************************************************************************)
EXTENDS IngestQueue, TLAPS

USE SetsAssumption, BoundsAssumption, SwitchAssumption, CrewsAssumption

\* The writes on a row keep its type.
LEMMA RowEdits ==
    ASSUME NEW r \in Row
    PROVE  /\ ToPending(r) \in Row
           /\ ToFailed(r) \in Row
           /\ ResetRow(r) \in Row
           /\ Released(r) \in Row
           /\ GivenUp(r) \in Row
           /\ [r EXCEPT !.status = "pending"] \in Row
           /\ [r EXCEPT !.lease = "live"] \in Row
           /\ [r EXCEPT !.lease = "expired"] \in Row
<1>1. ToPending(r) \in Row
  BY DEF Row, ToPending
<1>2. ToFailed(r) \in Row
  BY DEF Row, ToFailed
<1>3. ResetRow(r) \in Row
  BY DEF Row, ResetRow
<1>4. Released(r) \in Row
  BY DEF Row, Released
<1>5. GivenUp(r) \in Row
  BY DEF Row, GivenUp
<1>6. /\ [r EXCEPT !.status = "pending"] \in Row
      /\ [r EXCEPT !.lease = "live"] \in Row
      /\ [r EXCEPT !.lease = "expired"] \in Row
  BY DEF Row
<1> QED
  BY <1>1, <1>2, <1>3, <1>4, <1>5, <1>6

\* The writes of an owner's claim keep a row a row.
LEMMA OwnerEdits ==
    ASSUME NEW r \in Row, NEW p \in Procs
    PROVE  /\ Cleared(r, p) \in Row
           /\ Claimable(r) => ClaimSet(r, p) \in Row
<1>1. Cleared(r, p) \in Row
  BY DEF Row, Cleared
<1>2. Claimable(r) => ClaimSet(r, p) \in Row
  BY DEF Row, ClaimSet, Claimable
<1> QED
  BY <1>1, <1>2

\* So does the commit of its chunks.
LEMMA ChunksEdit ==
    ASSUME NEW r \in Row, NEW v \in 0..MaxVersion
    PROVE  [r EXCEPT !.status = "ready", !.chunks = v] \in Row
BY DEF Row

\* The fixed records have their types.
LEMMA ConstantTypes ==
    /\ Idle \in Job
    /\ \A d \in Docs : [phase |-> "claimed", doc |-> d, ver |-> 0, lost |-> FALSE] \in Job
    /\ NoRow \in Row
    /\ [NoRow EXCEPT !.status = "deleted"] \in Row
BY DEF Job, Idle, Row, NoRow

\* A write on the table keeps it well typed; a write on a row that is not
\* there changes nothing.
LEMMA SetRowType ==
    ASSUME TypeOK, NEW d, NEW r, d \in Docs => r \in Row, SetRow(d, r)
    PROVE  row' \in [Docs -> Row]
BY DEF SetRow, TypeOK

\* Writing a well-typed job into a slot keeps the job table well typed.
LEMMA SetJobType ==
    ASSUME TypeOK, NEW p \in Procs, NEW w \in Workers, NEW j \in Job, SetJob(p, w, j)
    PROVE  job' \in [Procs -> [Workers -> Job]]
BY DEF SetJob, TypeOK

\* The records the worker steps write into their slot.
LEMMA JobEdits ==
    ASSUME TypeOK, NEW p \in Procs, NEW w \in Workers
    PROVE  /\ job[p][w] \in Job
           /\ [job[p][w] EXCEPT !.phase = "embedding", !.ver = ver] \in Job
           /\ [job[p][w] EXCEPT !.phase = "written"] \in Job
           /\ [job[p][w] EXCEPT !.phase = "failing"] \in Job
           /\ [job[p][w] EXCEPT !.lost = TRUE] \in Job
<1>1. job[p][w] \in Job /\ ver \in 0..MaxVersion
  BY DEF TypeOK
<1> QED
  BY <1>1 DEF Job

\* The types of what the program has, without the crews and the history.
QueueType ==
    /\ row \in [Docs -> Row]
    /\ job \in [Procs -> [Workers -> Job]]
    /\ proc \in [Procs -> {"new", "running", "stopping", "cancelled", "gone"}]
    /\ ver \in 1..MaxVersion
    /\ enq \in [Docs -> Nat]
    /\ bulk \in [left : SUBSET Docs, refused : BOOLEAN]
    /\ reqs \in 0..MaxRequests
    /\ want \in [Docs -> 0..MaxVersion]

\* Every action keeps them.
LEMMA QueueTypeStep == TypeOK /\ Step => QueueType'
<1> SUFFICES ASSUME TypeOK, Step PROVE QueueType'
  OBVIOUS
<1> USE DEF TypeOK, QueueType
<1>1. ASSUME NEW d \in Docs, Upload(d) PROVE QueueType'
  <2>1. row' \in [Docs -> Row]
    BY <1>1, RowEdits, SetRowType DEF Upload
  <2>2. enq' \in [Docs -> Nat] /\ want' \in [Docs -> 0..MaxVersion]
    BY <1>1 DEF Upload
  <2> QED
    BY <1>1, <2>1, <2>2 DEF Upload
<1>2. ASSUME NEW d \in Docs, Reprocess(d) PROVE QueueType'
  <2>1. row' \in [Docs -> Row]
    BY <1>2, RowEdits, SetRowType DEF Reprocess
  <2>2. enq' \in [Docs -> Nat] /\ want' \in [Docs -> 0..MaxVersion]
    BY <1>2 DEF Reprocess
  <2> QED
    BY <1>2, <2>1, <2>2 DEF Reprocess
<1>3. ASSUME NEW d \in Docs, EnqueueAccepted(d) PROVE QueueType'
  BY <1>3 DEF EnqueueAccepted
<1>4. ASSUME NEW d \in Docs, EnqueueRefused(d) PROVE QueueType'
  <2>1. row' \in [Docs -> Row]
    BY <1>4, RowEdits, SetRowType DEF EnqueueRefused
  <2>2. enq' \in [Docs -> Nat] /\ want' \in [Docs -> 0..MaxVersion]
    BY <1>4 DEF EnqueueRefused
  <2> QED
    BY <1>4, <2>1, <2>2 DEF EnqueueRefused
<1>5. ASSUME ReprocessAll PROVE QueueType'
  <2>1. row' \in [Docs -> Row]
    BY <1>5, RowEdits DEF ReprocessAll
  <2>2. enq' \in [Docs -> Nat] /\ want' \in [Docs -> 0..MaxVersion]
    BY <1>5 DEF ReprocessAll
  <2> QED
    BY <1>5, <2>1, <2>2 DEF ReprocessAll
<1>6. ASSUME NEW d \in Docs, BulkEnqueue(d) PROVE QueueType'
  <2>1. bulk.left \ {d} \in SUBSET Docs /\ bulk.left \in SUBSET Docs /\ bulk.refused \in BOOLEAN
    OBVIOUS
  <2>2. \/ bulk' = [left |-> bulk.left \ {d}, refused |-> bulk.refused]
        \/ bulk' = [left |-> bulk.left, refused |-> TRUE]
    BY <1>6 DEF BulkEnqueue
  <2>3. bulk' \in [left : SUBSET Docs, refused : BOOLEAN]
    <3>1. CASE bulk' = [left |-> bulk.left \ {d}, refused |-> bulk.refused]
      BY <2>1, <3>1
    <3>2. CASE bulk' = [left |-> bulk.left, refused |-> TRUE]
      BY <2>1, <3>2
    <3> QED
      BY <2>2, <3>1, <3>2
  <2> QED
    BY <1>6, <2>3 DEF BulkEnqueue
<1>7. ASSUME NEW d \in Docs, BulkMarkFailed(d) PROVE QueueType'
  BY <1>7, RowEdits, SetRowType DEF BulkMarkFailed
<1>8. ASSUME NEW d \in Docs, Delete(d) PROVE QueueType'
  BY <1>8, ConstantTypes, SetRowType DEF Delete
<1>9. ASSUME UpdateSettings PROVE QueueType'
  BY <1>9 DEF UpdateSettings
<1>10. ASSUME NEW p \in Procs, NEW w \in Workers, NEW d \in Docs, Claim(p, w, d) PROVE QueueType'
  BY <1>10, ConstantTypes, OwnerEdits, SetRowType, SetJobType DEF Claim
<1>11. ASSUME NEW p \in Procs, NEW w \in Workers, DropClaim(p, w) PROVE QueueType'
  BY <1>11, ConstantTypes, SetJobType DEF DropClaim
<1>12. ASSUME NEW p \in Procs, NEW w \in Workers, Begin(p, w) PROVE QueueType'
  BY <1>12, JobEdits, SetJobType DEF Begin
<1>13. ASSUME NEW p \in Procs, NEW w \in Workers, Heartbeat(p, w) PROVE QueueType'
  BY <1>13, JobEdits, SetJobType, RowEdits, SetRowType DEF Heartbeat
<1>14. ASSUME NEW p \in Procs, NEW w \in Workers, StoreChunks(p, w) PROVE QueueType'
  <2>1. job[p][w].ver \in 0..MaxVersion
    BY JobEdits DEF Job
  <2>2. row' \in [Docs -> Row]
    BY <1>14, <2>1, ChunksEdit, SetRowType DEF StoreChunks
  <2> QED
    BY <1>14, <2>2, JobEdits, SetJobType DEF StoreChunks
<1>15. ASSUME NEW p \in Procs, NEW w \in Workers, JobError(p, w) PROVE QueueType'
  BY <1>15, JobEdits, SetJobType DEF JobError
<1>16. ASSUME NEW p \in Procs, NEW w \in Workers, FailWrite(p, w) PROVE QueueType'
  BY <1>16, ConstantTypes, SetJobType, RowEdits, SetRowType DEF FailWrite
<1>17. ASSUME NEW p \in Procs, NEW w \in Workers, ClearClaim(p, w) PROVE QueueType'
  BY <1>17, ConstantTypes, SetJobType, OwnerEdits, SetRowType DEF ClearClaim
<1>18. ASSUME NEW p \in Procs, NEW w \in Workers, EndQuietly(p, w) PROVE QueueType'
  BY <1>18, ConstantTypes, SetJobType DEF EndQuietly
<1>19. ASSUME NEW p \in Procs, NewIngester(p) \/ Stop(p) \/ Cancel(p) PROVE QueueType'
  BY <1>19 DEF NewIngester, Stop, Cancel
<1>20. ASSUME NEW p \in Procs, Release(p) PROVE QueueType'
  BY <1>20, RowEdits DEF Release
<1>21. ASSUME NEW p \in Procs, Crash(p) PROVE QueueType'
  BY <1>21, ConstantTypes DEF Crash
<1>22. ASSUME NEW d \in Docs, LeaseExpires(d) PROVE QueueType'
  BY <1>22, RowEdits, SetRowType DEF LeaseExpires
<1>23. ASSUME NEW d \in Docs, FailExhausted(d) PROVE QueueType'
  BY <1>23, RowEdits, SetRowType DEF FailExhausted
<1>24. ASSUME NEW p \in Procs, NEW d \in Docs, ClaimUnanswered(p, d) PROVE QueueType'
  BY <1>24, OwnerEdits, SetRowType DEF ClaimUnanswered
<1> QED
  BY <1>1, <1>2, <1>3, <1>4, <1>5, <1>6, <1>7, <1>8, <1>9, <1>10, <1>11, <1>12, <1>13,
     <1>14, <1>15, <1>16, <1>17, <1>18, <1>19, <1>20, <1>21, <1>22, <1>23, <1>24
     DEF Step, Handler, WorkerStep, ProcessStep

\* And so do the history and the crews.
LEMMA TypeStep == TypeOK /\ [Next]_vars => TypeOK'
<1> SUFFICES ASSUME TypeOK, [Next]_vars PROVE TypeOK'
  OBVIOUS
<1>1. CASE Next
  <2>1. QueueType'
    BY <1>1, QueueTypeStep DEF Next
  <2>2. crew' \in Crews /\ passed' \subseteq Procs \X Workers /\ stray' \subseteq Docs
    BY <1>1 DEF Next, Remember, TypeOK
  <2> QED
    BY <2>1, <2>2 DEF QueueType, TypeOK
<1>2. CASE UNCHANGED vars
  BY <1>2 DEF vars, TypeOK
<1> QED
  BY <1>1, <1>2

\* The rows, jobs and counters always have their types; in particular no row
\* is ever claimed more than MaxAttempts times without a reset.
THEOREM TypeCorrect == Spec => []TypeOK
<1>1. Init => TypeOK
  BY ConstantTypes DEF Init, TypeOK
<1> QED
  BY <1>1, TypeStep, PTL DEF Spec
-----------------------------------------------------------------------------
(* What a step can do to one row.                                          *)

\* SetRow writes one row and leaves the others.
LEMMA SetRowAt ==
    ASSUME TypeOK, NEW d \in Docs, NEW r, SetRow(d, r)
    PROVE  row'[d] = r /\ \A e \in Docs : e # d => row'[e] = row[e]
BY DEF SetRow, TypeOK

\* For an id without a row it writes nothing.
LEMMA SetRowNone ==
    ASSUME TypeOK, NEW d, d \notin Docs, NEW r, SetRow(d, r)
    PROVE  \A e \in Docs : row'[e] = row[e]
BY DEF SetRow, TypeOK

\* SetJob writes one worker's job and leaves the others.
LEMMA SetJobAt ==
    ASSUME TypeOK, NEW p \in Procs, NEW w \in Workers, NEW j, SetJob(p, w, j)
    PROVE  /\ job'[p][w] = j
           /\ \A q \in Procs, v \in Workers : q # p \/ v # w => job'[q][v] = job[q][v]
BY DEF SetJob, TypeOK

\* One row before and after a step: one of the SQL statements hit it, or none.
RowStep(r, s) ==
    \/ s = r
    \/ r.status = "absent" /\ s = [r EXCEPT !.status = "pending"]
    \/ s = ToPending(r) \/ s = ToFailed(r) \/ s = GivenUp(r)
    \/ BulkReprocess /\ s = ResetRow(r)
    \/ s = [NoRow EXCEPT !.status = "deleted"]
    \/ s = Released(r)
    \/ r.status # "absent" /\ s = [r EXCEPT !.lease = "live"]
    \/ r.status # "absent" /\ s = [r EXCEPT !.lease = "expired"]
    \/ \E p \in Procs : Claimable(r) /\ s = ClaimSet(r, p)
    \/ \E p \in Procs : s = Cleared(r, p)
    \/ \E v \in 0..MaxVersion : s = [r EXCEPT !.status = "ready", !.chunks = v]

\* A SetRow with a row step takes a row step in every row.
LEMMA SetRowStep ==
    ASSUME TypeOK, NEW d, NEW r, SetRow(d, r), d \in Docs => RowStep(row[d], r), NEW e \in Docs
    PROVE  RowStep(row[e], row'[e])
<1>1. (row'[e] = r /\ e = d) \/ row'[e] = row[e]
  BY DEF SetRow, TypeOK
<1> QED
  BY <1>1 DEF RowStep

\* Every step of the system is a row step in every row.
LEMMA RowSteps ==
    ASSUME TypeOK, AbsentIsClean, [Next]_vars, NEW e \in Docs
    PROVE  RowStep(row[e], row'[e])
<1>1. ASSUME NEW d \in Docs, Handler(d) PROVE RowStep(row[e], row'[e])
  BY <1>1, SetRowAt
     DEF RowStep, Handler, Upload, Reprocess, Delete, EnqueueAccepted, EnqueueRefused,
         BulkEnqueue, BulkMarkFailed
<1>2. ASSUME ReprocessAll PROVE RowStep(row[e], row'[e])
  BY <1>2 DEF ReprocessAll, RowStep
<1>3. ASSUME NEW p \in Procs, NEW w \in Workers, NEW d \in Docs, Claim(p, w, d)
      PROVE RowStep(row[e], row'[e])
  <2>1. RowStep(row[d], ClaimSet(row[d], p))
    BY <1>3 DEF Claim, RowStep
  <2> QED
    BY <1>3, <2>1, SetRowStep DEF Claim
<1>4. ASSUME NEW p \in Procs, NEW w \in Workers, WorkerStep(p, w) PROVE RowStep(row[e], row'[e])
  <2> DEFINE d == job[p][w].doc
  <2>1. CASE row' = row
    BY <2>1 DEF RowStep
  <2>2. CASE DropClaim(p, w) \/ Begin(p, w) \/ JobError(p, w) \/ EndQuietly(p, w)
    BY <2>2, <2>1 DEF DropClaim, Begin, JobError, EndQuietly
  <2>3. CASE Heartbeat(p, w)
    <3>1. CASE Holds(p, d)
      <4>1. RowStep(row[d], [row[d] EXCEPT !.lease = "live"])
        BY <3>1 DEF Holds, RowStep
      <4> QED
        BY <2>3, <3>1, <4>1, SetRowStep DEF Heartbeat
    <3> QED
      BY <2>1, <2>3, <3>1 DEF Heartbeat
  <2>4. CASE StoreChunks(p, w)
    <3>1. job[p][w].ver \in 0..MaxVersion
      BY JobEdits DEF Job
    <3>2. RowStep(row[d], [row[d] EXCEPT !.status = "ready", !.chunks = job[p][w].ver])
      BY <3>1 DEF RowStep
    <3> QED
      BY <2>4, <3>2, SetRowStep DEF StoreChunks
  <2>5. CASE FailWrite(p, w)
    <3>1. RowStep(row[d], ToFailed(row[d]))
      BY DEF RowStep
    <3> QED
      BY <2>1, <2>5, <3>1, SetRowStep DEF FailWrite
  <2>6. CASE ClearClaim(p, w)
    <3>1. RowStep(row[d], Cleared(row[d], p))
      BY DEF RowStep
    <3> QED
      BY <2>1, <2>6, <3>1, SetRowStep DEF ClearClaim
  <2> QED
    BY <1>4, <2>2, <2>3, <2>4, <2>5, <2>6 DEF WorkerStep
<1>5. ASSUME NEW p \in Procs, ProcessStep(p) PROVE RowStep(row[e], row'[e])
  BY <1>5 DEF RowStep, ProcessStep, NewIngester, Stop, Cancel, Release, Crash, Holds
<1>6. ASSUME NEW d \in Docs, LeaseExpires(d) PROVE RowStep(row[e], row'[e])
  <2>1. row[d].status # "absent"
    BY <1>6 DEF LeaseExpires, AbsentIsClean, NoRow
  <2>2. RowStep(row[d], [row[d] EXCEPT !.lease = "expired"])
    BY <2>1 DEF RowStep
  <2> QED
    BY <1>6, <2>2, SetRowStep DEF LeaseExpires
<1>7. ASSUME NEW d \in Docs, FailExhausted(d) PROVE RowStep(row[e], row'[e])
  BY <1>7, SetRowAt DEF FailExhausted, RowStep
<1>8. ASSUME UpdateSettings \/ UNCHANGED vars PROVE RowStep(row[e], row'[e])
  BY <1>8 DEF UpdateSettings, vars, RowStep
<1>9. ASSUME NEW p \in Procs, NEW d \in Docs, ClaimUnanswered(p, d) PROVE RowStep(row[e], row'[e])
  <2>1. RowStep(row[d], ClaimSet(row[d], p))
    BY <1>9 DEF ClaimUnanswered, RowStep
  <2> QED
    BY <1>9, <2>1, SetRowStep DEF ClaimUnanswered
<1> QED
  BY <1>1, <1>2, <1>3, <1>4, <1>5, <1>6, <1>7, <1>8, <1>9 DEF Next, Step
\* A row after a step that claims nothing: no new owner, no new processing,
\* no attempt used.
NoNewClaim(r, s) ==
    /\ s.by \in {r.by, NoOwner}
    /\ s.status = "processing" => r.status = "processing"
    /\ s.attempts <= r.attempts

\* No write on a row but a claim makes a claim.
LEMMA OwnerAfter ==
    ASSUME NEW r \in Row
    PROVE  /\ NoNewClaim(r, r) /\ NoNewClaim(r, ToPending(r)) /\ NoNewClaim(r, GivenUp(r))
           /\ NoNewClaim(r, Released(r)) /\ NoNewClaim(r, ToFailed(r)) /\ NoNewClaim(r, ResetRow(r))
           /\ NoNewClaim(r, [r EXCEPT !.status = "pending"])
           /\ NoNewClaim(r, [r EXCEPT !.lease = "live"])
           /\ NoNewClaim(r, [r EXCEPT !.lease = "expired"])
           /\ NoNewClaim(r, [NoRow EXCEPT !.status = "deleted"])
           /\ \A p \in Procs : NoNewClaim(r, Cleared(r, p))
           /\ \A v \in 0..MaxVersion : NoNewClaim(r, [r EXCEPT !.status = "ready", !.chunks = v])
BY DEF Row, ToPending, GivenUp, Released, ToFailed, ResetRow, NoRow, Cleared, NoNewClaim

\* p claims d, with or without hearing of it.
ClaimedBy(p, d) == (\E w \in Workers : Claim(p, w, d)) \/ ClaimUnanswered(p, d)

\* No step but a claim gives a row an owner or starts its processing.
LEMMA OwnerStep ==
    ASSUME TypeOK, [Next]_vars, NEW e \in Docs
    PROVE  \/ NoNewClaim(row[e], row'[e])
           \/ \E p \in Procs : ClaimedBy(p, e) /\ row'[e].by = p
<1>0. \A d \in Docs : row[d] \in Row
  BY DEF TypeOK
<1> DEFINE Kept == NoNewClaim(row[e], row'[e])
<1>w. ASSUME NEW d, NEW r, SetRow(d, r), d \in Docs => NoNewClaim(row[d], r) PROVE Kept
  <2>1. CASE d \in Docs
    BY <1>0, <1>w, <2>1, SetRowAt, OwnerAfter
  <2>2. CASE d \notin Docs
    BY <1>0, <1>w, <2>2, SetRowNone, OwnerAfter
  <2> QED
    BY <2>1, <2>2
<1>1. ASSUME NEW d \in Docs, Handler(d) PROVE Kept
  <2>1. \/ row' = row
        \/ \E r : SetRow(d, r) /\ NoNewClaim(row[d], r)
    BY <1>0, <1>1, OwnerAfter DEF Handler, Upload, Reprocess, Delete, EnqueueAccepted,
           EnqueueRefused, BulkEnqueue, BulkMarkFailed
  <2> QED
    BY <1>0, <1>w, <2>1, OwnerAfter
<1>2. ASSUME ReprocessAll PROVE Kept
  BY <1>0, <1>2, OwnerAfter DEF ReprocessAll
<1>3. ASSUME NEW p \in Procs, NEW d \in Docs, ClaimedBy(p, d)
      PROVE  Kept \/ (d = e /\ row'[e].by = p)
  <2>1. row'[d] = ClaimSet(row[d], p) /\ \A f \in Docs : f # d => row'[f] = row[f]
    BY <1>3, SetRowAt DEF ClaimedBy, Claim, ClaimUnanswered
  <2>2. d = e => row'[e].by = p
    BY <2>1 DEF ClaimSet
  <2>3. d # e => Kept
    BY <1>0, <2>1, OwnerAfter
  <2> QED
    BY <2>2, <2>3
<1>4. ASSUME NEW p \in Procs, NEW w \in Workers, WorkerStep(p, w) PROVE Kept
  <2> DEFINE d == job[p][w].doc
             v == job[p][w].ver
  <2>0. v \in 0..MaxVersion
    BY JobEdits DEF Job
  <2>1. CASE row' = row
    BY <1>0, <2>1, OwnerAfter
  <2>2. CASE SetRow(d, [row[d] EXCEPT !.lease = "live"])
    BY <1>0, <1>w, <2>2, OwnerAfter
  <2>3. CASE SetRow(d, [row[d] EXCEPT !.status = "ready", !.chunks = v])
    BY <1>0, <1>w, <2>0, <2>3, OwnerAfter
  <2>4. CASE SetRow(d, ToFailed(row[d]))
    BY <1>0, <1>w, <2>4, OwnerAfter
  <2>5. CASE SetRow(d, Cleared(row[d], p))
    BY <1>0, <1>w, <2>5, OwnerAfter
  <2> QED
    BY <1>4, <2>1, <2>2, <2>3, <2>4, <2>5
       DEF WorkerStep, DropClaim, Begin, Heartbeat, StoreChunks, JobError, FailWrite, ClearClaim, EndQuietly
<1>5. ASSUME NEW p \in Procs, ProcessStep(p) PROVE Kept
  <2>1. row'[e] = row[e] \/ row'[e] = Released(row[e])
    BY <1>5 DEF ProcessStep, NewIngester, Stop, Cancel, Release, Crash
  <2> QED
    BY <1>0, <2>1, OwnerAfter
<1>6. ASSUME NEW d \in Docs, LeaseExpires(d) \/ FailExhausted(d) PROVE Kept
  <2>1. \E r : SetRow(d, r) /\ NoNewClaim(row[d], r)
    BY <1>0, <1>6, OwnerAfter DEF LeaseExpires, FailExhausted
  <2> QED
    BY <1>w, <2>1
<1>7. ASSUME UpdateSettings \/ UNCHANGED vars PROVE Kept
  BY <1>0, <1>7, OwnerAfter DEF UpdateSettings, vars
<1> QED
  BY <1>1, <1>2, <1>3, <1>4, <1>5, <1>6, <1>7 DEF Next, Step, ClaimedBy

-----------------------------------------------------------------------------
(* Pending documents can be claimed.                                       *)

Sound(r) ==
    /\ r.status = "absent" => r = NoRow
    /\ r.status = "pending" => r.attempts < MaxAttempts

\* A row step keeps a sound row sound, unless 'reprocess all' is in use.
LEMMA SoundStep ==
    ASSUME ~BulkReprocess, NEW r \in Row, Sound(r), NEW s, RowStep(r, s)
    PROVE  Sound(s)
<1> USE DEF Sound, Row, NoRow
<1>1. CASE s = r \/ s = ToPending(r) \/ s = GivenUp(r) \/ s = Released(r)
  BY <1>1 DEF ToPending, GivenUp, Released
<1>2. CASE s = ToFailed(r)
  BY <1>2 DEF ToFailed
<1>3. CASE r.status = "absent" /\ s = [r EXCEPT !.status = "pending"]
  <2>1. s.status = "pending" /\ s.attempts = 0
    BY <1>3
  <2> QED
    BY <2>1
<1>4. CASE s = [NoRow EXCEPT !.status = "deleted"]
  BY <1>4
<1>5. CASE r.status # "absent" /\ s = [r EXCEPT !.lease = "live"]
  BY <1>5
<1>6. CASE r.status # "absent" /\ s = [r EXCEPT !.lease = "expired"]
  BY <1>6
<1>7. ASSUME NEW p \in Procs, s = ClaimSet(r, p) PROVE Sound(s)
  BY <1>7 DEF ClaimSet
<1>8. ASSUME NEW p \in Procs, s = Cleared(r, p) PROVE Sound(s)
  BY <1>8 DEF Cleared
<1>9. ASSUME NEW v \in 0..MaxVersion, s = [r EXCEPT !.status = "ready", !.chunks = v] PROVE Sound(s)
  BY <1>9
<1> QED
  BY <1>1, <1>2, <1>3, <1>4, <1>5, <1>6, <1>7, <1>8, <1>9 DEF RowStep

PendingInv == TypeOK /\ \A d \in Docs : Sound(row[d])

\* So every row stays sound.
LEMMA PendingStep ==
    ASSUME ~BulkReprocess, PendingInv, [Next]_vars
    PROVE  PendingInv'
<1>1. TypeOK'
  BY TypeStep DEF PendingInv
<1>2. ASSUME NEW d \in Docs PROVE Sound(row'[d])
  <2>1. AbsentIsClean
    BY DEF PendingInv, Sound, AbsentIsClean
  <2>2. row[d] \in Row /\ Sound(row[d]) /\ RowStep(row[d], row'[d])
    BY <2>1, RowSteps DEF PendingInv, TypeOK
  <2> QED
    BY <2>2, SoundStep
<1> QED
  BY <1>1, <1>2 DEF PendingInv

\* Without "reprocess all", a pending document always has an attempt left, so
\* the dispatcher's claim query sees it: the resets of SetDocumentStatus and
\* ClearDocumentClaim and the attempt given back by ReleaseDocuments suffice.
THEOREM PendingAlwaysClaimable == ~BulkReprocess => (Spec => []PendingIsClaimable)
<1> SUFFICES ASSUME ~BulkReprocess PROVE Spec => []PendingIsClaimable
  OBVIOUS
<1>1. Init => PendingInv
  BY ConstantTypes DEF Init, PendingInv, TypeOK, Sound, NoRow
<1>2. PendingInv /\ [Next]_vars => PendingInv'
  BY PendingStep
<1>3. PendingInv => PendingIsClaimable
  BY DEF PendingInv, Sound, PendingIsClaimable, Claimable
<1> QED
  BY <1>1, <1>2, <1>3, PTL DEF Spec
-----------------------------------------------------------------------------
(* What the history remembers of a step.                                   *)

\* A job that keeps its document is as overtaken as before, unless its own
\* process claims the document again.
LEMMA PassedStep ==
    ASSUME TypeOK, [Next]_vars, NEW p \in Procs, NEW w \in Workers
    PROVE  /\ <<p, w>> \in passed' =>
                 /\ job'[p][w].doc = job[p][w].doc
                 /\ <<p, w>> \in passed \/ Taken(p, job[p][w].doc)
           /\ job'[p][w].doc = job[p][w].doc /\ job[p][w].doc \in Docs
                 /\ (<<p, w>> \in passed \/ Taken(p, job[p][w].doc))
              => <<p, w>> \in passed'
<1>1. CASE Remember
  <2>1. <<p, w>> \in passed' <=> Overtaken(p, w)
    BY <1>1 DEF Remember
  <2> QED
    BY <2>1 DEF Overtaken
<1>2. CASE UNCHANGED vars
  <2>1. \A d \in Docs : ~Taken(p, d)
    <3>1. \A d \in Docs : row[d].attempts \in Nat /\ row'[d] = row[d]
      BY <1>2 DEF vars, TypeOK, Row
    <3> QED
      BY <3>1 DEF Taken
  <2> QED
    BY <1>2, <2>1 DEF vars
<1> QED
  BY <1>1, <1>2 DEF Next

\* A row that a step leaves or makes ready and that is no stray after it was no
\* stray before, and no overtaken job published it.
LEMMA StrayStep ==
    ASSUME TypeOK, [Next]_vars, NEW d \in Docs, row'[d].status = "ready", d \notin stray'
    PROVE  /\ row[d].status = "ready" => d \notin stray
           /\ row[d].status # "ready" =>
                 \A p \in Procs, w \in Workers :
                     job[p][w].doc = d /\ job'[p][w] # job[p][w] => <<p, w>> \notin passed
<1>1. CASE Remember
  BY <1>1 DEF Remember, Published, LateWork
<1>2. CASE UNCHANGED vars
  BY <1>2 DEF vars
<1> QED
  BY <1>1, <1>2 DEF Next
-----------------------------------------------------------------------------
(* A ready document is not older than the last request for it.             *)

FreshInv == TypeOK /\ WantIsPast /\ HolderIsFresh /\ ReadyIsFresh

\* A step after which a row is neither ready nor processing, or is as ready
\* and as claimed as before.
CalmRow(e) ==
    \/ row'[e].status \notin {"ready", "processing"}
    \/ /\ row'[e].status = row[e].status
       /\ row'[e].by = row[e].by
       /\ row'[e].chunks = row[e].chunks
       /\ want'[e] = want[e]

CalmJob(p, w) ==
    \/ job'[p][w].phase # "embedding"
    \/ /\ job'[p][w].phase = job[p][w].phase
       /\ job'[p][w].doc = job[p][w].doc
       /\ job'[p][w].ver = job[p][w].ver

\* A step that starts no job, makes no claim and answers no request keeps the
\* jobs that may still commit fresh.
LEMMA HolderStep ==
    ASSUME FreshInv, [Next]_vars, want' = want,
           \A p \in Procs, w \in Workers : CalmJob(p, w),
           \A p \in Procs, d \in Docs : Holds(p, d)' => Holds(p, d)
    PROVE  HolderIsFresh'
<1>1. SUFFICES ASSUME NEW p \in Procs, NEW w \in Workers, NEW d \in Docs,
                      job'[p][w].phase = "embedding", job'[p][w].doc = d, Holds(p, d)',
                      <<p, w>> \notin passed'
               PROVE  job'[p][w].ver >= want'[d]
  BY DEF HolderIsFresh
<1>2. <<p, w>> \notin passed
  BY <1>1, PassedStep DEF CalmJob, FreshInv
<1> QED
  BY <1>1, <1>2 DEF FreshInv, HolderIsFresh, CalmJob

\* Steps that change no claim, phase or settings keep FreshInv.
LEMMA CalmStep ==
    ASSUME FreshInv, [Next]_vars, TypeOK', WantIsPast',
           \A e \in Docs : CalmRow(e),
           \A p \in Procs, w \in Workers : CalmJob(p, w)
    PROVE  FreshInv'
<1>0. TypeOK
  BY DEF FreshInv
<1>1. HolderIsFresh'
  <2>1. SUFFICES ASSUME NEW p \in Procs, NEW w \in Workers, NEW d \in Docs,
                        job'[p][w].phase = "embedding", job'[p][w].doc = d, Holds(p, d)',
                        <<p, w>> \notin passed'
                 PROVE  job'[p][w].ver >= want'[d]
    BY DEF HolderIsFresh
  <2>2. <<p, w>> \notin passed
    BY <1>0, <2>1, PassedStep DEF CalmJob
  <2> QED
    BY <2>1, <2>2 DEF FreshInv, HolderIsFresh, Holds, CalmRow, CalmJob
<1>2. ReadyIsFresh'
  BY <1>0, StrayStep DEF FreshInv, ReadyIsFresh, CalmRow
<1> QED
  BY <1>1, <1>2 DEF FreshInv

\* Requests record the settings version of their moment.
LEMMA WantStep == TypeOK /\ WantIsPast /\ [Next]_vars => WantIsPast'
<1> SUFFICES ASSUME TypeOK, WantIsPast, [Next]_vars, NEW e \in Docs PROVE want'[e] <= ver'
  BY DEF WantIsPast
<1>1. \/ want' = want /\ ver' = ver
      \/ want' = want /\ ver' = ver + 1
      \/ ver' = ver /\ \A d \in Docs : want'[d] \in {want[d], ver}
  <2>1. ASSUME NEW d \in Docs, Handler(d)
        PROVE  ver' = ver /\ \A f \in Docs : want'[f] \in {want[f], ver}
    BY <2>1 DEF Handler, Upload, Reprocess, Delete, EnqueueAccepted, EnqueueRefused,
                BulkEnqueue, BulkMarkFailed, TypeOK
  <2>2. ReprocessAll => ver' = ver /\ \A f \in Docs : want'[f] \in {want[f], ver}
    BY DEF ReprocessAll
  <2>3. ASSUME NEW p \in Procs, NEW w \in Workers, WorkerStep(p, w) PROVE want' = want /\ ver' = ver
    BY <2>3 DEF WorkerStep, DropClaim, Begin, Heartbeat, StoreChunks, JobError, FailWrite,
                ClearClaim, EndQuietly
  <2>4. ASSUME NEW p \in Procs, ProcessStep(p) PROVE want' = want /\ ver' = ver
    BY <2>4 DEF ProcessStep, NewIngester, Stop, Cancel, Release, Crash
  <2> QED
    BY <2>1, <2>2, <2>3, <2>4
       DEF Next, Step, vars, Claim, ClaimUnanswered, UpdateSettings, LeaseExpires, FailExhausted
<1> QED
  BY <1>1 DEF WantIsPast, TypeOK

\* Every step keeps FreshInv.
LEMMA FreshStep ==
    ASSUME FreshInv, [Next]_vars
    PROVE  FreshInv'
<1> USE DEF CalmRow, CalmJob
<1>0. TypeOK /\ TypeOK' /\ WantIsPast'
  BY TypeStep, WantStep DEF FreshInv
<1>1. ASSUME NEW d \in Docs, Handler(d) PROVE FreshInv'
  <2>1. \A p \in Procs, w \in Workers : CalmJob(p, w)
    BY <1>1 DEF Handler, Upload, Reprocess, Delete, EnqueueAccepted, EnqueueRefused,
                BulkEnqueue, BulkMarkFailed
  <2>2. ASSUME NEW e \in Docs PROVE CalmRow(e)
    <3>1. CASE Upload(d) \/ Reprocess(d)
      BY <1>0, <3>1, SetRowAt DEF Upload, Reprocess, ToPending, TypeOK, Row
    <3>2. CASE Delete(d)
      BY <1>0, <3>2, SetRowAt DEF Delete, NoRow
    <3>3. CASE EnqueueRefused(d) \/ BulkMarkFailed(d)
      BY <1>0, <3>3, SetRowAt DEF EnqueueRefused, BulkMarkFailed, ToFailed, TypeOK, Row
    <3> QED
      BY <1>1, <3>1, <3>2, <3>3 DEF Handler, EnqueueAccepted, BulkEnqueue
  <2> QED
    BY <1>0, <2>1, <2>2, CalmStep
<1>2. ASSUME ReprocessAll PROVE FreshInv'
  <2>1. ASSUME NEW e \in Docs PROVE CalmRow(e)
    BY <1>0, <1>2 DEF ReprocessAll, ResetRow, Exists, TypeOK, Row
  <2> QED
    BY <1>0, <1>2, <2>1, CalmStep DEF ReprocessAll
<1>3. ASSUME NEW p \in Procs, NEW d \in Docs, ClaimedBy(p, d) PROVE FreshInv'
  <2>1. /\ row'[d] = ClaimSet(row[d], p) /\ \A e \in Docs : e # d => row'[e] = row[e]
        /\ want' = want
    BY <1>0, <1>3, SetRowAt DEF ClaimedBy, Claim, ClaimUnanswered
  <2>2. \A q \in Procs, v \in Workers : job'[q][v] = job[q][v] \/ job'[q][v].phase = "claimed"
    <3>1. CASE job' = job
      BY <3>1
    <3>2. ASSUME NEW w \in Workers, Claim(p, w, d)
          PROVE  \A q \in Procs, v \in Workers : job'[q][v] = job[q][v] \/ job'[q][v].phase = "claimed"
      BY <1>0, <3>2, SetJobAt DEF Claim
    <3> QED
      BY <1>3, <3>1, <3>2 DEF ClaimedBy, ClaimUnanswered
  <2>3. Taken(p, d) /\ row'[d].status = "processing" /\ row'[d].by = p
    BY <2>1 DEF Taken, ClaimSet
  <2>4. ReadyIsFresh'
    BY <1>0, <2>1, <2>3, StrayStep DEF FreshInv, ReadyIsFresh
  <2>5. HolderIsFresh'
    <3>1. SUFFICES ASSUME NEW q \in Procs, NEW v \in Workers, NEW e \in Docs,
                          job'[q][v].phase = "embedding", job'[q][v].doc = e, Holds(q, e)',
                          <<q, v>> \notin passed'
                   PROVE  job'[q][v].ver >= want'[e]
      BY DEF HolderIsFresh
    <3>2. job'[q][v] = job[q][v]
      BY <2>2, <3>1
    <3>3. <<q, v>> \notin passed /\ ~Taken(q, e)
      BY <1>0, <3>1, <3>2, PassedStep
    <3>4. e # d
      BY <2>3, <3>1, <3>3 DEF Holds
    <3> QED
      BY <2>1, <3>1, <3>2, <3>3, <3>4 DEF FreshInv, HolderIsFresh, Holds
  <2> QED
    BY <1>0, <2>4, <2>5 DEF FreshInv
<1>4. ASSUME NEW p \in Procs, NEW w \in Workers, WorkerStep(p, w) PROVE FreshInv'
  <2> DEFINE d == job[p][w].doc
  <2>0. job[p][w] \in Job
    BY <1>0 DEF TypeOK
  <2>1. CASE DropClaim(p, w) \/ JobError(p, w) \/ EndQuietly(p, w)
    <3>1. \A q \in Procs, v \in Workers : CalmJob(q, v)
      BY <1>0, <2>0, <2>1, SetJobAt DEF DropClaim, JobError, EndQuietly, Idle, Job
    <3> QED
      BY <1>0, <2>1, <3>1, CalmStep DEF DropClaim, JobError, EndQuietly
  <2>2. CASE Begin(p, w)
    <3>1. /\ job'[p][w].ver = ver /\ row' = row /\ want' = want
          /\ \A q \in Procs, v \in Workers : q # p \/ v # w => job'[q][v] = job[q][v]
      <4>1. SetJob(p, w, [job[p][w] EXCEPT !.phase = "embedding", !.ver = ver])
        BY <2>2 DEF Begin
      <4>2. [job[p][w] EXCEPT !.phase = "embedding", !.ver = ver].ver = ver
        BY <2>0 DEF Job
      <4>3. /\ job'[p][w] = [job[p][w] EXCEPT !.phase = "embedding", !.ver = ver]
            /\ \A q \in Procs, v \in Workers : q # p \/ v # w => job'[q][v] = job[q][v]
        BY <1>0, <4>1, SetJobAt
      <4>4. job'[p][w].ver = ver
        BY <4>2, <4>3
      <4> QED
        BY <2>2, <4>3, <4>4 DEF Begin
    <3>2. HolderIsFresh'
      <4> SUFFICES ASSUME NEW q \in Procs, NEW v \in Workers, NEW e \in Docs,
                          job'[q][v].phase = "embedding", job'[q][v].doc = e, Holds(q, e)',
                          <<q, v>> \notin passed'
                   PROVE  job'[q][v].ver >= want[e]
        BY <3>1 DEF HolderIsFresh
      <4>1. CASE q = p /\ v = w
        BY <1>0, <3>1, <4>1 DEF FreshInv, WantIsPast, TypeOK
      <4>2. CASE q # p \/ v # w
        <5>1. job'[q][v] = job[q][v]
          BY <3>1, <4>2
        <5>2. <<q, v>> \notin passed
          BY <1>0, <5>1, PassedStep
        <5> QED
          BY <3>1, <5>1, <5>2 DEF FreshInv, HolderIsFresh, Holds
      <4> QED
        BY <4>1, <4>2
    <3>3. ReadyIsFresh'
      BY <1>0, <3>1, StrayStep DEF FreshInv, ReadyIsFresh
    <3> QED
      BY <1>0, <3>2, <3>3 DEF FreshInv
  <2>3. CASE Heartbeat(p, w)
    <3>1. \A q \in Procs, v \in Workers : CalmJob(q, v)
      BY <1>0, <2>0, <2>3, SetJobAt DEF Heartbeat, Job
    <3>2. ASSUME NEW e \in Docs PROVE CalmRow(e)
      <4>1. row'[e] = row[e] \/ row'[e] = [row[e] EXCEPT !.lease = "live"]
        BY <1>0, <2>3, SetRowAt, SetRowNone DEF Heartbeat
      <4>2. row[e] \in Row /\ want' = want
        BY <1>0, <2>3 DEF Heartbeat, TypeOK
      <4> QED
        BY <4>1, <4>2 DEF Row
    <3> QED
      BY <1>0, <3>1, <3>2, CalmStep
  <2>4. CASE StoreChunks(p, w)
    <3>1. \A q \in Procs, v \in Workers : CalmJob(q, v)
      BY <1>0, <2>0, <2>4, SetJobAt DEF StoreChunks, Job
    <3>2. want' = want
      BY <2>4 DEF StoreChunks
    <3>3. CASE d \notin Docs
      <4>1. \A e \in Docs : CalmRow(e)
        BY <1>0, <2>4, <3>2, <3>3, SetRowNone DEF StoreChunks
      <4> QED
        BY <1>0, <3>1, <4>1, CalmStep
    <3>4. CASE d \in Docs
      <4>1. /\ row'[d].status = "ready" /\ row'[d].chunks = job[p][w].ver
            /\ \A e \in Docs : e # d => row'[e] = row[e]
        <5>1. /\ row'[d] = [row[d] EXCEPT !.status = "ready", !.chunks = job[p][w].ver]
              /\ \A e \in Docs : e # d => row'[e] = row[e]
          BY <1>0, <2>4, <3>4, SetRowAt DEF StoreChunks
        <5>2. row[d] \in Row
          BY <1>0, <3>4 DEF TypeOK
        <5> QED
          BY <5>1, <5>2 DEF Row
      <4>2. <<p, w>> \in passed \/ job[p][w].ver >= want[d]
        BY <2>4, <3>4 DEF StoreChunks, FreshInv, HolderIsFresh
      <4>3. job'[p][w] # job[p][w]
        BY <1>0, <2>0, <2>4, SetJobAt DEF StoreChunks, Job
      <4>4. ASSUME NEW e \in Docs, row'[e].status = "ready", e \notin stray'
            PROVE  row'[e].chunks >= want'[e]
        <5>1. CASE e = d
          <6>1. row[d].status # "ready"
            BY <2>4 DEF StoreChunks, Holds
          <6>2. <<p, w>> \notin passed
            BY <1>0, <4>3, <4>4, <5>1, <6>1, StrayStep
          <6> QED
            BY <3>2, <4>1, <4>2, <5>1, <6>2
        <5>2. CASE e # d
          BY <1>0, <3>2, <4>1, <4>4, <5>2, StrayStep DEF FreshInv, ReadyIsFresh
        <5> QED
          BY <5>1, <5>2
      <4>5. ReadyIsFresh'
        BY <4>4 DEF ReadyIsFresh
      <4>6. HolderIsFresh'
        BY <1>0, <3>1, <3>2, <4>1, HolderStep DEF Holds
      <4> QED
        BY <1>0, <4>5, <4>6 DEF FreshInv
    <3> QED
      BY <3>3, <3>4
  <2>5. CASE FailWrite(p, w) \/ ClearClaim(p, w)
    <3>1. \A q \in Procs, v \in Workers : CalmJob(q, v)
      BY <1>0, <2>0, <2>5, SetJobAt DEF FailWrite, ClearClaim, Idle
    <3>2. want' = want
      BY <2>5 DEF FailWrite, ClearClaim
    <3>3. \/ \A e \in Docs : row'[e] = row[e]
          \/ SetRow(d, ToFailed(row[d]))
          \/ SetRow(d, Cleared(row[d], p))
      BY <2>5 DEF FailWrite, ClearClaim
    <3>4. ASSUME NEW e \in Docs
          PROVE  \/ row'[e].status \notin {"ready", "processing"}
                 \/ row'[e] = row[e]
                 \/ row'[e] = Cleared(row[e], p) /\ row[e].by = p
      BY <1>0, <3>3, SetRowAt, SetRowNone DEF ToFailed, Cleared, TypeOK, Row
    <3>5. ASSUME NEW e \in Docs
          PROVE  /\ row'[e].status = "ready" => row[e].status = "ready" /\ row'[e].chunks = row[e].chunks
                 /\ \A q \in Procs : Holds(q, e)' => Holds(q, e)
      <4>1. CASE row'[e].status \notin {"ready", "processing"} \/ row'[e] = row[e]
        BY <4>1 DEF Holds
      <4>2. CASE row'[e] = Cleared(row[e], p) /\ row[e].by = p
        <5>1. /\ row'[e].status = row[e].status
              /\ row'[e].chunks = row[e].chunks
              /\ row'[e].by = NoOwner
          BY <4>2 DEF Cleared
        <5> QED
          BY <5>1 DEF Holds
      <4> QED
        BY <3>4, <4>1, <4>2
    <3>6. ReadyIsFresh'
      BY <1>0, <3>2, <3>5, StrayStep DEF FreshInv, ReadyIsFresh
    <3>7. HolderIsFresh'
      BY <1>0, <3>1, <3>2, <3>5, HolderStep
    <3> QED
      BY <1>0, <3>6, <3>7 DEF FreshInv
  <2> QED
    BY <1>4, <2>1, <2>2, <2>3, <2>4, <2>5 DEF WorkerStep
<1>5. ASSUME NEW p \in Procs, ProcessStep(p) PROVE FreshInv'
  <2>1. ASSUME NEW e \in Docs PROVE CalmRow(e)
    BY <1>5 DEF ProcessStep, NewIngester, Stop, Cancel, Release, Crash, Released
  <2>2. \A q \in Procs, v \in Workers : CalmJob(q, v)
    BY <1>0, <1>5 DEF ProcessStep, NewIngester, Stop, Cancel, Release, Crash, Idle, TypeOK
  <2> QED
    BY <1>0, <2>1, <2>2, CalmStep
<1>6. ASSUME NEW d \in Docs, LeaseExpires(d) \/ FailExhausted(d) PROVE FreshInv'
  <2>1. ASSUME NEW e \in Docs PROVE CalmRow(e)
    BY <1>0, <1>6, SetRowAt DEF LeaseExpires, FailExhausted, GivenUp, TypeOK, Row
  <2> QED
    BY <1>0, <1>6, <2>1, CalmStep DEF LeaseExpires, FailExhausted
<1>7. ASSUME UpdateSettings \/ UNCHANGED vars PROVE FreshInv'
  BY <1>0, <1>7, CalmStep DEF UpdateSettings, vars
<1> QED
  BY <1>1, <1>2, <1>3, <1>4, <1>5, <1>6, <1>7 DEF Next, Step, ClaimedBy

\* The owner check of ReplaceDocumentChunksFrom fences out every job that
\* another process or a request superseded: for any number of documents and of
\* processes with any number of workers each, with "reprocess all", crashes,
\* lost writes and answers and expiring leases, a ready document holds chunks
\* older than the last request for it only where a job published them after its
\* own process had claimed the document once more.
THEOREM ReadyAlwaysFresh == Spec => []ReadyIsFresh
<1>1. Init => FreshInv
  <2>1. Init => TypeOK
    BY ConstantTypes DEF Init, TypeOK
  <2> QED
    BY <2>1 DEF Init, FreshInv, WantIsPast, HolderIsFresh, ReadyIsFresh, Idle, NoRow
<1>2. FreshInv /\ [Next]_vars => FreshInv'
  BY FreshStep
<1>3. FreshInv => ReadyIsFresh
  BY DEF FreshInv
<1> QED
  BY <1>1, <1>2, <1>3, PTL DEF Spec
-----------------------------------------------------------------------------
(* The queue implements DocumentLife.                                      *)

\* No job works with settings from the future.
JobsPast == \A p \in Procs, w \in Workers : job[p][w].ver <= ver

\* Settings versions only grow, so no job gets ahead of them.
LEMMA PastStep == TypeOK /\ JobsPast /\ [Next]_vars => JobsPast'
<1> SUFFICES ASSUME TypeOK, JobsPast, [Next]_vars PROVE JobsPast'
  OBVIOUS
<1>0. ver \in 1..MaxVersion /\ \A p \in Procs, w \in Workers : job[p][w] \in Job
  BY DEF TypeOK
<1>1. ASSUME NEW p \in Procs, NEW w \in Workers, NEW j \in Job, SetJob(p, w, j), j.ver <= ver, ver' = ver
      PROVE  JobsPast'
  <2> SUFFICES ASSUME NEW q \in Procs, NEW v \in Workers PROVE job'[q][v].ver <= ver'
    BY DEF JobsPast
  <2>1. CASE q = p /\ v = w
    BY <1>1, <2>1, SetJobAt
  <2>2. CASE q # p \/ v # w
    BY <1>1, <2>2, SetJobAt DEF JobsPast
  <2> QED
    BY <2>1, <2>2
<1>2. CASE job' = job /\ ver' >= ver /\ ver' \in 1..MaxVersion
  BY <1>0, <1>2 DEF JobsPast, Job
<1>3. ASSUME NEW p \in Procs, NEW w \in Workers, NEW d \in Docs, Claim(p, w, d) PROVE JobsPast'
  BY <1>0, <1>1, <1>3, ConstantTypes DEF Claim
<1>4. ASSUME NEW p \in Procs, NEW w \in Workers, WorkerStep(p, w) PROVE JobsPast'
  <2>0. ver' = ver /\ Idle \in Job /\ Idle.ver <= ver
    BY <1>0, <1>4, ConstantTypes
       DEF WorkerStep, DropClaim, Begin, Heartbeat, StoreChunks, JobError, FailWrite, ClearClaim, EndQuietly, Idle
  <2>1. CASE job' = job
    BY <1>0, <1>2, <2>0, <2>1
  <2>2. CASE SetJob(p, w, Idle)
    <3>1. PICK j \in Job : j = Idle
      BY <2>0
    <3>2. SetJob(p, w, j) /\ j.ver <= ver
      BY <2>0, <2>2, <3>1
    <3> QED
      BY <1>1, <2>0, <3>2
  <2>3. CASE Begin(p, w)
    <3>1. PICK j \in Job : j = [job[p][w] EXCEPT !.phase = "embedding", !.ver = ver]
      BY JobEdits
    <3>2. j.ver = ver
      BY <1>0, <3>1 DEF Job
    <3>3. SetJob(p, w, j)
      BY <2>3, <3>1 DEF Begin
    <3>4. j.ver <= ver
      BY <1>0, <3>2
    <3> QED
      BY <1>1, <2>0, <3>3, <3>4
  <2>4. ASSUME NEW j \in Job, j.ver = job[p][w].ver, SetJob(p, w, j) PROVE JobsPast'
    <3>1. j.ver <= ver
      BY <2>4 DEF JobsPast
    <3> QED
      BY <1>1, <2>0, <2>4, <3>1
  <2>5. CASE DropClaim(p, w) \/ FailWrite(p, w) \/ ClearClaim(p, w) \/ EndQuietly(p, w)
    BY <2>2, <2>5 DEF DropClaim, FailWrite, ClearClaim, EndQuietly
  <2>6. CASE Heartbeat(p, w) \/ StoreChunks(p, w) \/ JobError(p, w)
    <3>1. /\ [job[p][w] EXCEPT !.phase = "written"].ver = job[p][w].ver
          /\ [job[p][w] EXCEPT !.phase = "failing"].ver = job[p][w].ver
          /\ [job[p][w] EXCEPT !.lost = TRUE].ver = job[p][w].ver
      BY <1>0 DEF Job
    <3>2. CASE SetJob(p, w, [job[p][w] EXCEPT !.phase = "written"])
      BY <2>4, <3>1, <3>2, JobEdits
    <3>3. CASE SetJob(p, w, [job[p][w] EXCEPT !.phase = "failing"])
      BY <2>4, <3>1, <3>3, JobEdits
    <3>4. CASE SetJob(p, w, [job[p][w] EXCEPT !.lost = TRUE])
      BY <2>4, <3>1, <3>4, JobEdits
    <3> QED
      BY <2>1, <2>6, <3>2, <3>3, <3>4 DEF Heartbeat, StoreChunks, JobError
  <2> QED
    BY <1>4, <2>3, <2>5, <2>6 DEF WorkerStep
<1>5. ASSUME NEW p \in Procs, Crash(p) PROVE JobsPast'
  BY <1>0, <1>5 DEF Crash, JobsPast, TypeOK, Idle
<1>6. ASSUME NEW p \in Procs, NewIngester(p) \/ Stop(p) \/ Cancel(p) \/ Release(p) PROVE JobsPast'
  BY <1>0, <1>2, <1>6 DEF NewIngester, Stop, Cancel, Release
<1>7. ASSUME NEW d \in Docs, Handler(d) \/ LeaseExpires(d) \/ FailExhausted(d) \/ \E p \in Procs : ClaimUnanswered(p, d)
      PROVE  JobsPast'
  BY <1>0, <1>2, <1>7
     DEF ClaimUnanswered, Handler, Upload, Reprocess, Delete, EnqueueAccepted, EnqueueRefused, BulkEnqueue, BulkMarkFailed,
         LeaseExpires, FailExhausted
<1>8. CASE ReprocessAll \/ UpdateSettings \/ UNCHANGED vars
  BY <1>0, <1>2, <1>8 DEF ReprocessAll, UpdateSettings, vars
<1> QED
  BY <1>3, <1>4, <1>5, <1>6, <1>7, <1>8 DEF Next, Step, ProcessStep

\* The documents an overtaken job is still at work on.
Redone == {d \in Docs : \E p \in Procs, w \in Workers : <<p, w>> \in passed /\ job[p][w].doc = d}

\* A step that uses no attempt overtakes no job.
LEMMA RedoneStep ==
    ASSUME TypeOK, [Next]_vars, NEW S, \A p \in Procs, d \in Docs \ S : ~Taken(p, d)
    PROVE  Redone' \subseteq Redone \cup S
<1> SUFFICES ASSUME NEW d \in Docs \ S, NEW p \in Procs, NEW w \in Workers,
                    <<p, w>> \in passed', job'[p][w].doc = d
             PROVE  d \in Redone
  BY DEF Redone
<1>1. job'[p][w].doc = job[p][w].doc /\ (<<p, w>> \in passed \/ Taken(p, job[p][w].doc))
  BY PassedStep
<1> QED
  BY <1>1 DEF Redone

\* Without a claim there is nothing but settling.
LEMMA SettlingStep ==
    ASSUME TypeOK, [Next]_vars, \A p \in Procs, d \in Docs : ~ClaimedBy(p, d)
    PROVE  Life!Settling
<1>1. \A d \in Docs : NoNewClaim(row[d], row'[d])
  BY OwnerStep
<1>2. ASSUME NEW p \in Procs, NEW d \in Docs PROVE ~Taken(p, d)
  <2>1. row[d].attempts \in Nat
    BY DEF TypeOK, Row
  <2>2. row'[d].attempts \in Nat
    BY TypeStep DEF TypeOK, Row
  <2>3. row'[d].attempts <= row[d].attempts
    BY <1>1 DEF NoNewClaim
  <2> QED
    BY <2>1, <2>2, <2>3 DEF Taken
<1>3. Redone' \subseteq Redone \cup {}
  BY <1>2, RedoneStep
<1> QED
  BY <1>3 DEF Redone, Life!Settling

\* A step that keeps what users see of every row is no step of its life.
SameLife(e) == LifeState(row'[e]) = LifeState(row[e]) /\ row'[e].chunks = row[e].chunks

\* What nobody sees lets go of an older effort, at most.
LEMMA Unseen ==
    ASSUME \A e \in Docs : SameLife(e), want' = want, ver' = ver, Life!Settling
    PROVE  Life!LetGo
BY DEF SameLife, Life!LetGo

\* A row that goes to failed is a failure.
LEMMA Fails ==
    ASSUME TypeOK, NEW d \in Docs, want' = want, ver' = ver,
           \A e \in Docs : e # d => row'[e] = row[e],
           row'[d].chunks = row[d].chunks,
           row'[d].status = "failed", row[d].status \notin {"absent", "deleted"}, Life!Settling
    PROVE  Life!Failure(d)
<1>1. Life!Present(d)
  BY DEF Life!Present, LifeState, TypeOK, Row
<1>2. [e \in Docs |-> LifeState(row'[e])] = [[e \in Docs |-> LifeState(row[e])] EXCEPT ![d] = "failed"]
  BY DEF LifeState
<1>3. [e \in Docs |-> row'[e].chunks] = [e \in Docs |-> row[e].chunks]
  OBVIOUS
<1> QED
  BY <1>1, <1>2, <1>3 DEF Life!Failure

\* The write of failed is a failure wherever it hits.
LEMMA FailedRow ==
    ASSUME TypeOK, NEW d, d \in Docs \/ \A e \in Docs : e # d, SetRow(d, ToFailed(row[d])), want' = want, ver' = ver,
           Life!Settling
    PROVE  Life!LifeNext
<1>1. CASE d \notin Docs
  <2>1. \A e \in Docs : SameLife(e)
    BY <1>1, SetRowNone DEF SameLife
  <2> QED
    BY <2>1, Unseen DEF Life!LifeNext
<1>2. CASE d \in Docs
  <2>0. row[d] \in Row
    BY <1>2 DEF TypeOK
  <2>1. row'[d] = ToFailed(row[d]) /\ \A e \in Docs : e # d => row'[e] = row[e]
    BY <1>2, SetRowAt
  <2>2. CASE row[d].status \in {"absent", "deleted"}
    <3>1. \A e \in Docs : SameLife(e)
      BY <2>1, <2>2 DEF SameLife, ToFailed
    <3> QED
      BY <3>1, Unseen DEF Life!LifeNext
  <2>3. CASE row[d].status \notin {"absent", "deleted"}
    <3>1. row'[d].status = "failed" /\ row'[d].chunks = row[d].chunks
      BY <2>0, <2>1, <2>3 DEF ToFailed, Row
    <3>2. Life!Failure(d)
      BY <1>2, <2>1, <2>3, <3>1, Fails
    <3> QED
      BY <1>2, <3>2 DEF Life!LifeNext
  <2> QED
    BY <2>2, <2>3
<1> QED
  BY <1>1, <1>2

\* A step of the queue that claims nothing is a step of DocumentLife.
LEMMA LifeStep ==
    ASSUME FreshInv, JobsPast, [Next]_vars, Life!Settling,
           \A p \in Procs, d \in Docs : ~ClaimedBy(p, d)
    PROVE  Life!LifeNext
<1>0. TypeOK
  BY DEF FreshInv
<1>1. ASSUME NEW d \in Docs, Upload(d) \/ Reprocess(d) PROVE Life!LifeNext
  <2>0. row[d] \in Row
    BY <1>0 DEF TypeOK
  <2>1. /\ row'[d].status = "pending" /\ row'[d].chunks = row[d].chunks
        /\ \A e \in Docs : e # d => row'[e] = row[e]
    BY <1>0, <1>1, <2>0, SetRowAt DEF Upload, Reprocess, ToPending, Row
  <2>2. want' = [want EXCEPT ![d] = ver] /\ ver' = ver /\ want = [e \in Docs |-> want[e]]
    BY <1>0, <1>1 DEF Upload, Reprocess, TypeOK
  <2>3. (\A e \in {d} : Life!Present(e)) \/ \E e \in Docs : {d} = {e} /\ LifeState(row[e]) = "absent"
    BY <1>1, <2>0 DEF Upload, Reprocess, Exists, Life!Present, LifeState, Row
  <2>4. [e \in Docs |-> LifeState(row'[e])] =
        [e \in Docs |-> IF e \in {d} THEN "queued" ELSE LifeState(row[e])]
    BY <2>1 DEF LifeState
  <2>5. [e \in Docs |-> row'[e].chunks] = [e \in Docs |-> row[e].chunks]
    BY <2>1
  <2>6. want' = [e \in Docs |-> IF e \in {d} THEN ver ELSE want[e]]
    BY <2>2
  <2>7. Life!Ask({d})
    BY <2>2, <2>3, <2>4, <2>5, <2>6 DEF Life!Ask
  <2> QED
    BY <2>7 DEF Life!LifeNext
<1>2. ASSUME ReprocessAll PROVE Life!LifeNext
  <2> DEFINE S == {d \in Docs : Exists(d)}
  <2>1. \A d \in Docs : row[d] \in Row /\ row'[d] = ResetRow(row[d])
    BY <1>0, <1>2 DEF ReprocessAll, TypeOK
  <2>2. \A d \in S : Life!Present(d)
    BY <2>1 DEF Exists, Life!Present, LifeState, Row
  <2>3. ASSUME NEW d \in Docs
        PROVE  /\ LifeState(row'[d]) = (IF d \in S THEN "queued" ELSE LifeState(row[d]))
               /\ row'[d].chunks = row[d].chunks
    BY <2>1 DEF ResetRow, LifeState, Exists, Row
  <2>4. want' = [d \in Docs |-> IF d \in S THEN ver ELSE want[d]] /\ ver' = ver
    BY <1>2 DEF ReprocessAll
  <2>5. Life!Ask(S)
    BY <2>2, <2>3, <2>4 DEF Life!Ask
  <2> QED
    BY <2>5 DEF Life!LifeNext
<1>3. ASSUME NEW d \in Docs, Delete(d) PROVE Life!LifeNext
  <2>1. /\ row'[d].status = "deleted" /\ row'[d].chunks = 0
        /\ \A e \in Docs : e # d => row'[e] = row[e]
    BY <1>0, <1>3, SetRowAt DEF Delete, NoRow
  <2>2. row[d] \in Row /\ want' = want /\ ver' = ver
    BY <1>0, <1>3 DEF Delete, TypeOK
  <2>3. Life!Present(d)
    BY <1>3, <2>2 DEF Delete, Exists, Life!Present, LifeState, Row
  <2>4. /\ [e \in Docs |-> LifeState(row'[e])] = [[e \in Docs |-> LifeState(row[e])] EXCEPT ![d] = "deleted"]
        /\ [e \in Docs |-> row'[e].chunks] = [[e \in Docs |-> row[e].chunks] EXCEPT ![d] = 0]
    BY <2>1 DEF LifeState
  <2> QED
    BY <2>2, <2>3, <2>4 DEF Life!LifeNext, Life!Removal
<1>4. ASSUME NEW p \in Procs, NEW w \in Workers, StoreChunks(p, w)
      PROVE  Life!LifeNext
  <2> DEFINE d == job[p][w].doc
  <2>0. want' = want /\ ver' = ver /\ ver \in 1..MaxVersion /\ job[p][w] \in Job
    BY <1>0, <1>4 DEF StoreChunks, TypeOK
  <2>1. CASE d \notin Docs
    <3>1. \A e \in Docs : SameLife(e)
      BY <1>0, <1>4, <2>1, SetRowNone DEF StoreChunks, SameLife
    <3> QED
      BY <2>0, <3>1, Unseen DEF Life!LifeNext
  <2>2. CASE d \in Docs
    <3>1. PICK v \in 0..MaxVersion : v = job[p][w].ver
      BY <2>0 DEF Job
    <3>2. row[d] \in Row /\ row[d].status = "processing"
      BY <1>0, <1>4, <2>2 DEF StoreChunks, Holds, TypeOK
    <3>3. row'[d] = [row[d] EXCEPT !.status = "ready", !.chunks = v] /\ \A e \in Docs : e # d => row'[e] = row[e]
      BY <1>0, <1>4, <2>2, <3>1, SetRowAt DEF StoreChunks
    <3>4. row'[d].status = "ready" /\ row'[d].chunks = v
      BY <3>2, <3>3 DEF Row
    <3>5. (want[d] <= v \/ d \in Redone) /\ v <= ver
      <4>1. v >= want[d] \/ <<p, w>> \in passed
        BY <1>4, <2>2, <3>1 DEF StoreChunks, FreshInv, HolderIsFresh
      <4>2. want[d] \in 0..MaxVersion
        BY <1>0, <2>2 DEF TypeOK
      <4>3. <<p, w>> \in passed => d \in Redone
        BY <2>2 DEF Redone
      <4> QED
        BY <3>1, <4>1, <4>2, <4>3 DEF JobsPast
    <3>6. /\ [e \in Docs |-> LifeState(row'[e])] = [[e \in Docs |-> LifeState(row[e])] EXCEPT ![d] = "ready"]
          /\ [e \in Docs |-> row'[e].chunks] = [[e \in Docs |-> row[e].chunks] EXCEPT ![d] = v]
      <4>1. LifeState(row'[d]) = "ready"
        BY <3>4 DEF LifeState
      <4>2. \A e \in Docs : e # d => LifeState(row'[e]) = LifeState(row[e]) /\ row'[e].chunks = row[e].chunks
        BY <3>3
      <4> HIDE DEF d
      <4>3. [e \in Docs |-> LifeState(row'[e])] = [[e \in Docs |-> LifeState(row[e])] EXCEPT ![d] = "ready"]
        BY <4>1, <4>2
      <4>4. [e \in Docs |-> row'[e].chunks] = [[e \in Docs |-> row[e].chunks] EXCEPT ![d] = v]
        BY <3>4, <4>2
      <4> QED
        BY <4>3, <4>4
    <3>7. [e \in Docs |-> LifeState(row[e])][d] = "queued"
      BY <2>2, <3>2 DEF LifeState
    <3>8. Life!Outcome(d, v)
      BY <2>0, <3>5, <3>6, <3>7 DEF Life!Outcome, Redone
    <3> QED
      BY <2>2, <3>8 DEF Life!LifeNext
  <2> QED
    BY <2>1, <2>2
<1>5. ASSUME NEW d \in Docs, EnqueueRefused(d) \/ BulkMarkFailed(d)
      PROVE  Life!LifeNext
  <2>1. SetRow(d, ToFailed(row[d])) /\ want' = want /\ ver' = ver
    BY <1>5 DEF EnqueueRefused, BulkMarkFailed
  <2> QED
    BY <1>0, <2>1, FailedRow
<1>6. ASSUME NEW p \in Procs, NEW w \in Workers, FailWrite(p, w)
      PROVE  Life!LifeNext
  <2> DEFINE d == job[p][w].doc
  <2>1. want' = want /\ ver' = ver /\ (SetRow(d, ToFailed(row[d])) \/ row' = row)
    BY <1>6 DEF FailWrite
  <2>2. CASE SetRow(d, ToFailed(row[d]))
    <3>1. d \in Docs \/ \A e \in Docs : e # d
      OBVIOUS
    <3> QED
      BY <1>0, <2>1, <2>2, <3>1, FailedRow
  <2>3. CASE row' = row
    <3>1. \A e \in Docs : SameLife(e)
      BY <2>3 DEF SameLife
    <3> QED
      BY <2>1, <3>1, Unseen DEF Life!LifeNext
  <2> QED
    BY <2>1, <2>2, <2>3
<1>7. ASSUME NEW d \in Docs, FailExhausted(d) PROVE Life!LifeNext
  <2>1. /\ row'[d].status = "failed" /\ row'[d].chunks = row[d].chunks
        /\ \A e \in Docs : e # d => row'[e] = row[e]
    BY <1>0, <1>7, SetRowAt DEF FailExhausted, GivenUp
  <2>2. want' = want /\ ver' = ver /\ row[d].status \notin {"absent", "deleted"}
    BY <1>7 DEF FailExhausted
  <2>3. Life!Failure(d)
    BY <1>0, <2>1, <2>2, Fails
  <2> QED
    BY <2>3 DEF Life!LifeNext
<1>9. ASSUME NEW p \in Procs, NEW w \in Workers, Heartbeat(p, w) \/ ClearClaim(p, w)
      PROVE  Life!LetGo
  <2> DEFINE d == job[p][w].doc
  <2>1. \/ row' = row
        \/ SetRow(d, [row[d] EXCEPT !.lease = "live"])
        \/ SetRow(d, Cleared(row[d], p))
    BY <1>9 DEF Heartbeat, ClearClaim
  <2>2. ASSUME NEW e \in Docs PROVE SameLife(e)
    <3>0. row[e] \in Row
      BY <1>0 DEF TypeOK
    <3>1. \/ row'[e] = row[e]
          \/ row'[e] = [row[e] EXCEPT !.lease = "live"]
          \/ row'[e] = Cleared(row[e], p)
      BY <1>0, <2>1, SetRowAt, SetRowNone
    <3>2. row'[e].status = row[e].status /\ row'[e].chunks = row[e].chunks
      BY <3>0, <3>1 DEF Cleared, Row
    <3> QED
      BY <3>2 DEF SameLife, LifeState
  <2> QED
    BY <1>9, <2>2, Unseen DEF Heartbeat, ClearClaim
<1>10. ASSUME NEW p \in Procs, Release(p) PROVE Life!LetGo
  <2>1. \A e \in Docs : row'[e] = IF Holds(p, e) THEN Released(row[e]) ELSE row[e]
    BY <1>10 DEF Release
  <2>2. ASSUME NEW e \in Docs PROVE SameLife(e)
    <3>1. CASE Holds(p, e)
      <4>1. row'[e] = Released(row[e]) /\ row[e].status = "processing"
        BY <2>1, <3>1 DEF Holds
      <4>2. row'[e].status = "pending" /\ row'[e].chunks = row[e].chunks
        BY <4>1 DEF Released
      <4> QED
        BY <4>1, <4>2 DEF SameLife, LifeState
    <3>2. CASE ~Holds(p, e)
      BY <2>1, <3>2 DEF SameLife
    <3> QED
      BY <3>1, <3>2
  <2> QED
    BY <1>10, <2>2, Unseen DEF Release
<1>11. ASSUME NEW d \in Docs, LeaseExpires(d) PROVE Life!LetGo
  <2>1. /\ row[d] \in Row /\ row'[d] = [row[d] EXCEPT !.lease = "expired"]
        /\ \A e \in Docs : e # d => row'[e] = row[e]
    BY <1>0, <1>11, SetRowAt DEF LeaseExpires, TypeOK
  <2>2. row'[d].status = row[d].status /\ row'[d].chunks = row[d].chunks
    BY <2>1 DEF Row
  <2>3. \A e \in Docs : SameLife(e)
    BY <2>1, <2>2 DEF SameLife, LifeState
  <2> QED
    BY <1>11, <2>3, Unseen DEF LeaseExpires
<1>12. ASSUME row' = row, want' = want, ver' = ver PROVE Life!LetGo
  <2>1. \A e \in Docs : SameLife(e)
    BY <1>12 DEF SameLife
  <2> QED
    BY <1>12, <2>1, Unseen
<1>13. ASSUME NEW d \in Docs, EnqueueAccepted(d) \/ BulkEnqueue(d) PROVE Life!LetGo
  BY <1>12, <1>13 DEF EnqueueAccepted, BulkEnqueue
<1>14. ASSUME NEW p \in Procs, NEW w \in Workers,
              DropClaim(p, w) \/ Begin(p, w) \/ JobError(p, w) \/ EndQuietly(p, w)
       PROVE  Life!LetGo
  BY <1>12, <1>14 DEF DropClaim, Begin, JobError, EndQuietly
<1>15. ASSUME NEW p \in Procs, NewIngester(p) \/ Stop(p) \/ Cancel(p) \/ Crash(p) PROVE Life!LetGo
  BY <1>12, <1>15 DEF NewIngester, Stop, Cancel, Crash
<1>16. CASE UNCHANGED vars
  BY <1>12, <1>16 DEF vars, Life!LifeNext
<1>17. ASSUME UpdateSettings PROVE Life!LifeNext
  <2>1. row' = row /\ want' = want /\ ver < MaxVersion /\ ver' = ver + 1
    BY <1>17 DEF UpdateSettings
  <2>2. Life!NewSettings
    BY <2>1 DEF Life!NewSettings
  <2> QED
    BY <2>2 DEF Life!LifeNext
<1>18. ASSUME NEW d \in Docs, Handler(d) PROVE Life!LifeNext
  BY <1>1, <1>3, <1>5, <1>13, <1>18 DEF Handler, Life!LifeNext
<1>19. ASSUME NEW p \in Procs, NEW w \in Workers, WorkerStep(p, w)
       PROVE  Life!LifeNext
  BY <1>4, <1>6, <1>9, <1>14, <1>19 DEF WorkerStep, Life!LifeNext
<1>20. ASSUME NEW p \in Procs, ProcessStep(p) PROVE Life!LetGo
  BY <1>10, <1>15, <1>20 DEF ProcessStep
<1> QED
  BY <1>2, <1>7, <1>11, <1>16, <1>17, <1>18, <1>19, <1>20 DEF Next, Step, ClaimedBy, Life!LifeNext

\* A claim takes a document up again.
LEMMA TakeUpStep ==
    ASSUME TypeOK, [Next]_vars, NEW p \in Procs, NEW d \in Docs, ClaimedBy(p, d)
    PROVE  Life!TakeUp(d)
<1>1. /\ row'[d] = ClaimSet(row[d], p) /\ row[d].status \in {"pending", "processing"}
      /\ \A e \in Docs : e # d => row'[e] = row[e]
      /\ want' = want /\ ver' = ver
  BY SetRowAt DEF ClaimedBy, Claim, ClaimUnanswered, Claimable
<1>2. \A e \in Docs : SameLife(e)
  BY <1>1 DEF SameLife, ClaimSet, LifeState
<1>3. \A q \in Procs, e \in Docs \ {d} : ~Taken(q, e)
  <2>1. \A e \in Docs : row[e].attempts \in Nat
    BY DEF TypeOK, Row
  <2> QED
    BY <1>1, <2>1 DEF Taken
<1>4. Redone' \subseteq Redone \cup {d}
  BY <1>3, RedoneStep
<1>5. [e \in Docs |-> LifeState(row[e])][d] = "queued"
  BY <1>1 DEF LifeState
<1>6. /\ [e \in Docs |-> LifeState(row'[e])] = [e \in Docs |-> LifeState(row[e])]
      /\ [e \in Docs |-> row'[e].chunks] = [e \in Docs |-> row[e].chunks]
  BY <1>2 DEF SameLife
<1> QED
  BY <1>1, <1>4, <1>5, <1>6 DEF Life!TakeUp, Redone

\* The queue implements DocumentLife, for any number of documents, of processes
\* with any number of workers each and of attempts: what its users see of a
\* document is a request, one outcome made with settings no older than the
\* request, a failure or a removal, whatever claims, takeovers, crashes and
\* shutdowns happen.  Where a process claims a document one of its own workers is
\* still busy with, that worker's result may be the outcome.
THEOREM QueueImplementsLife == Spec => ImplementsLife
<1>1. Init => FreshInv /\ JobsPast /\ Life!LifeInit
  <2>1. Init => TypeOK
    BY ConstantTypes DEF Init, TypeOK
  <2>2. Init => FreshInv
    BY <2>1 DEF Init, FreshInv, WantIsPast, HolderIsFresh, ReadyIsFresh, Idle, NoRow
  <2>3. Init => JobsPast
    BY DEF Init, JobsPast, Idle
  <2>4. Init => Life!LifeInit
    BY DEF Init, Life!LifeInit, LifeState, NoRow
  <2> QED
    BY <2>2, <2>3, <2>4
<1>2. FreshInv /\ [Next]_vars => FreshInv'
  BY FreshStep
<1>3. FreshInv /\ JobsPast /\ [Next]_vars => JobsPast'
  BY PastStep DEF FreshInv
<1>4. FreshInv /\ JobsPast /\ [Next]_vars => [Life!LifeNext]_Life!lifeVars
  BY LifeStep, TakeUpStep, SettlingStep DEF FreshInv, Life!LifeNext
<1> QED
  BY <1>1, <1>2, <1>3, <1>4, PTL DEF Spec, ImplementsLife, Life!LifeSpec
-----------------------------------------------------------------------------
(* Claims are backed by jobs, and jobs leave the rows of others alone.     *)

\* An idle slot has no document, and a process that has not started no claim.
IdleIsFree == \A p \in Procs, w \in Workers : job[p][w].phase = "idle" => job[p][w].doc = NoDoc
NewHoldsNothing == \A p \in Procs, d \in Docs : proc[p] = "new" => row[d].by # p

ClaimInv == TypeOK /\ IdleIsFree /\ NewHoldsNothing

\* The ends of a job.
EndsJob(p, w) == DropClaim(p, w) \/ FailWrite(p, w) \/ ClearClaim(p, w) \/ EndQuietly(p, w) \/ Crash(p)

\* What a step does to the job of slot w of p.
LEMMA JobStep ==
    ASSUME TypeOK, [Next]_vars, NEW p \in Procs, NEW w \in Workers
    PROVE  \/ job'[p][w] = job[p][w]
           \/ job'[p][w] = Idle /\ EndsJob(p, w)
           \/ \E d \in Docs : Claim(p, w, d) /\ job'[p][w].phase = "claimed" /\ job'[p][w].doc = d /\ ~job'[p][w].lost
           \/ /\ job'[p][w].doc = job[p][w].doc
              /\ job[p][w].phase # "idle" /\ job'[p][w].phase # "idle"
              /\ \/ job'[p][w].lost = job[p][w].lost
                 \/ Heartbeat(p, w) /\ ~Holds(p, job[p][w].doc) /\ UNCHANGED <<row, proc>>
<1> DEFINE Fine(q, v) ==
           \/ job'[q][v] = job[q][v]
           \/ job'[q][v] = Idle /\ EndsJob(q, v)
           \/ \E d \in Docs : Claim(q, v, d) /\ job'[q][v].phase = "claimed" /\ job'[q][v].doc = d /\ ~job'[q][v].lost
           \/ /\ job'[q][v].doc = job[q][v].doc
              /\ job[q][v].phase # "idle" /\ job'[q][v].phase # "idle"
              /\ \/ job'[q][v].lost = job[q][v].lost
                 \/ Heartbeat(q, v) /\ ~Holds(q, job[q][v].doc) /\ UNCHANGED <<row, proc>>
<1>1. CASE job' = job
  BY <1>1
<1>2. ASSUME NEW q \in Procs, NEW v \in Workers, NEW d \in Docs, Claim(q, v, d)
      PROVE  Fine(p, w)
  <2>1. CASE q = p /\ v = w
    <3>1. job'[p][w] = [phase |-> "claimed", doc |-> d, ver |-> 0, lost |-> FALSE]
      BY <1>2, <2>1, SetJobAt DEF Claim
    <3>2. job'[p][w].phase = "claimed" /\ job'[p][w].doc = d /\ ~job'[p][w].lost
      BY <3>1
    <3> QED
      BY <1>2, <2>1, <3>2
  <2>2. CASE ~(q = p /\ v = w)
    <3>1. job'[p][w] = job[p][w]
      BY <1>2, <2>2, SetJobAt DEF Claim
    <3> QED
      BY <3>1
  <2> QED
    BY <2>1, <2>2
<1>3. ASSUME NEW q \in Procs, NEW v \in Workers, WorkerStep(q, v)
      PROVE  Fine(p, w)
  <2>0. job[q][v] \in Job
    BY JobEdits
  <2>1. PICK j \in Job : SetJob(q, v, j) /\
           (\/ j = Idle /\ EndsJob(q, v)
            \/ j = job[q][v]
            \/ /\ j.doc = job[q][v].doc /\ job[q][v].phase # "idle" /\ j.phase # "idle"
               /\ \/ j.lost = job[q][v].lost
                  \/ Heartbeat(q, v) /\ ~Holds(q, job[q][v].doc) /\ UNCHANGED <<row, proc>>)
    <3>1. CASE DropClaim(q, v) \/ FailWrite(q, v) \/ ClearClaim(q, v) \/ EndQuietly(q, v)
      BY <3>1, ConstantTypes DEF DropClaim, FailWrite, ClearClaim, EndQuietly, EndsJob
    <3>2. CASE Begin(q, v)
      <4> DEFINE j == [job[q][v] EXCEPT !.phase = "embedding", !.ver = ver]
      <4>1. j \in Job /\ j.doc = job[q][v].doc /\ j.phase = "embedding" /\ j.lost = job[q][v].lost
        BY <2>0, JobEdits DEF Job
      <4> QED
        BY <3>2, <4>1 DEF Begin
    <3>3. CASE JobError(q, v) \/ StoreChunks(q, v)
      <4> DEFINE j == [job[q][v] EXCEPT !.phase = "failing"]
                 k == [job[q][v] EXCEPT !.phase = "written"]
      <4>1. j \in Job /\ j.doc = job[q][v].doc /\ j.phase = "failing" /\ j.lost = job[q][v].lost
        BY <2>0, JobEdits DEF Job
      <4>2. k \in Job /\ k.doc = job[q][v].doc /\ k.phase = "written" /\ k.lost = job[q][v].lost
        BY <2>0, JobEdits DEF Job
      <4>3. (SetJob(q, v, j) \/ SetJob(q, v, k)) /\ job[q][v].phase # "idle"
        BY <3>3 DEF JobError, StoreChunks
      <4> QED
        BY <4>1, <4>2, <4>3
    <3>4. CASE Heartbeat(q, v)
      <4> DEFINE j == [job[q][v] EXCEPT !.lost = TRUE]
      <4>1. j \in Job /\ j.doc = job[q][v].doc /\ j.phase = job[q][v].phase
        BY <2>0, JobEdits DEF Job
      <4>2. job[q][v].phase # "idle"
        BY <3>4 DEF Heartbeat
      <4>3. CASE Holds(q, job[q][v].doc)
        <5>1. job' = job
          BY <3>4, <4>3 DEF Heartbeat
        <5>2. SetJob(q, v, job[q][v])
          BY <5>1 DEF SetJob, TypeOK
        <5> QED
          BY <2>0, <5>2
      <4>4. CASE ~Holds(q, job[q][v].doc)
        <5>1. SetJob(q, v, j) /\ UNCHANGED <<row, proc>>
          BY <3>4, <4>4 DEF Heartbeat
        <5> QED
          BY <3>4, <4>1, <4>2, <4>4, <5>1
      <4> QED
        BY <4>3, <4>4
    <3> QED
      BY <1>3, <3>1, <3>2, <3>3, <3>4 DEF WorkerStep
  <2>2. job'[q][v] = j /\ (~(q = p /\ v = w) => job'[p][w] = job[p][w])
    BY <2>1, SetJobAt
  <2> QED
    BY <2>1, <2>2
<1>4. ASSUME NEW q \in Procs, ProcessStep(q) PROVE Fine(p, w)
  BY <1>4 DEF ProcessStep, NewIngester, Stop, Cancel, Release, Crash, TypeOK, EndsJob
<1>5. CASE ReprocessAll \/ UpdateSettings \/ UNCHANGED vars
  BY <1>5 DEF ReprocessAll, UpdateSettings, vars
<1>6. ASSUME NEW d \in Docs,
             Handler(d) \/ LeaseExpires(d) \/ FailExhausted(d) \/ \E q \in Procs : ClaimUnanswered(q, d)
      PROVE  Fine(p, w)
  BY <1>6 DEF ClaimUnanswered, Handler, Upload, Reprocess, Delete, EnqueueAccepted, EnqueueRefused, BulkEnqueue,
              BulkMarkFailed, LeaseExpires, FailExhausted
<1> QED
  BY <1>1, <1>2, <1>3, <1>4, <1>5, <1>6 DEF Next, Step

\* A process starts once and is never new again.
LEMMA ProcStep ==
    ASSUME TypeOK, [Next]_vars, NEW p \in Procs
    PROVE  /\ proc'[p] = "new" => proc[p] = "new"
           /\ proc'[p] = "running" => proc[p] \in {"new", "running"}
<1>1. CASE proc' = proc
  BY <1>1
<1>2. ASSUME NEW q \in Procs, ProcessStep(q)
      PROVE  /\ proc'[p] = "new" => proc[p] = "new"
             /\ proc'[p] = "running" => proc[p] \in {"new", "running"}
  BY <1>2 DEF ProcessStep, NewIngester, Stop, Cancel, Release, Crash, TypeOK
<1>3. ASSUME NEW d \in Docs, Handler(d) \/ LeaseExpires(d) \/ FailExhausted(d) PROVE proc' = proc
  BY <1>3 DEF Handler, Upload, Reprocess, Delete, EnqueueAccepted, EnqueueRefused, BulkEnqueue,
       BulkMarkFailed, LeaseExpires, FailExhausted
<1>4. ASSUME NEW q \in Procs, NEW w \in Workers, WorkerStep(q, w) PROVE proc' = proc
  BY <1>4 DEF WorkerStep, DropClaim, Begin, Heartbeat, StoreChunks, JobError, FailWrite, ClearClaim, EndQuietly
<1>5. ASSUME \/ ReprocessAll \/ UpdateSettings \/ UNCHANGED vars
             \/ \E q \in Procs, d \in Docs : ClaimedBy(q, d)
      PROVE  proc' = proc
  BY <1>5 DEF ReprocessAll, UpdateSettings, vars, ClaimedBy, Claim, ClaimUnanswered
<1> QED
  BY <1>1, <1>2, <1>3, <1>4, <1>5 DEF Next, Step, ClaimedBy

\* A step that changes the job in a slot is that job's own, or its crash.
LEMMA OnlyOwnStep ==
    ASSUME TypeOK, [Next]_vars, NEW p \in Procs, NEW w \in Workers, job'[p][w] # job[p][w]
    PROVE  \/ row' = row
           \/ FailWrite(p, w) \/ ClearClaim(p, w) \/ StoreChunks(p, w)
           \/ \E e \in Docs : Claim(p, w, e)
<1>1. ASSUME NEW q \in Procs, NEW v \in Workers, WorkerStep(q, v)
      PROVE  row' = row \/ FailWrite(p, w) \/ ClearClaim(p, w) \/ StoreChunks(p, w)
  <2>1. CASE q = p /\ v = w
    BY <1>1, <2>1 DEF WorkerStep, DropClaim, Begin, JobError, EndQuietly, Heartbeat
  <2>2. CASE ~(q = p /\ v = w)
    <3>1. job'[p][w] = job[p][w]
      <4>1. job' = job \/ \E j : SetJob(q, v, j)
        BY <1>1 DEF WorkerStep, DropClaim, Begin, Heartbeat, StoreChunks, JobError, FailWrite,
                    ClearClaim, EndQuietly
      <4> QED
        BY <2>2, <4>1, SetJobAt
    <3> QED
      BY <3>1
  <2> QED
    BY <2>1, <2>2
<1>2. ASSUME NEW q \in Procs, NEW v \in Workers, NEW e \in Docs, Claim(q, v, e)
      PROVE  \E f \in Docs : Claim(p, w, f)
  <2>1. SetJob(q, v, [phase |-> "claimed", doc |-> e, ver |-> 0, lost |-> FALSE])
    BY <1>2 DEF Claim
  <2>2. q = p /\ v = w
    BY <2>1, SetJobAt
  <2> QED
    BY <1>2, <2>2
<1>3. ASSUME NEW q \in Procs, ProcessStep(q) PROVE row' = row
  BY <1>3 DEF ProcessStep, NewIngester, Stop, Cancel, Release, Crash
<1>4. ASSUME \/ \E d \in Docs : Handler(d) \/ LeaseExpires(d) \/ FailExhausted(d)
             \/ ReprocessAll \/ UpdateSettings \/ UNCHANGED vars
             \/ \E q \in Procs, d \in Docs : ClaimUnanswered(q, d)
      PROVE  job' = job
  BY <1>4 DEF ClaimUnanswered, Handler, Upload, Reprocess, Delete, EnqueueAccepted, EnqueueRefused, BulkEnqueue,
       BulkMarkFailed, ReprocessAll, UpdateSettings, LeaseExpires, FailExhausted, vars
<1> QED
  BY <1>1, <1>2, <1>3, <1>4 DEF Next, Step

\* Idle slots are free and processes that have not started hold nothing.
LEMMA ClaimStep ==
    ASSUME ClaimInv, [Next]_vars
    PROVE  ClaimInv'
<1>1. TypeOK'
  BY TypeStep DEF ClaimInv
<1>2. IdleIsFree'
  <2>1. ASSUME NEW p \in Procs, NEW w \in Workers, job'[p][w].phase = "idle"
        PROVE  job'[p][w].doc = NoDoc
    BY <2>1, JobStep DEF ClaimInv, IdleIsFree, Idle
  <2> QED
    BY <2>1 DEF IdleIsFree
<1>3. NewHoldsNothing'
  <2>1. ASSUME NEW p \in Procs, NEW d \in Docs, proc'[p] = "new"
        PROVE  row'[d].by # p
    <3>1. proc[p] = "new"
      BY <2>1, ProcStep DEF ClaimInv
    <3>2. row[d].by # p
      BY <3>1 DEF ClaimInv, NewHoldsNothing
    <3>3. \A q \in Procs : ClaimedBy(q, d) => q # p
      BY <3>1 DEF ClaimedBy, Claim, ClaimUnanswered
    <3> QED
      BY <3>2, <3>3, OwnerStep DEF ClaimInv, NoNewClaim
  <2> QED
    BY <2>1 DEF NewHoldsNothing
<1> QED
  BY <1>1, <1>2, <1>3 DEF ClaimInv

\* When no ignored error hides a failed write, every claim keeps its job.
LEMMA OrphanStep ==
    ASSUME ~DbFaults, ClaimInv, NoOrphanClaim, [Next]_vars
    PROVE  NoOrphanClaim'
<1> SUFFICES ASSUME NEW p \in Procs, NEW d \in Docs, proc'[p] = "running",
                    row'[d].status = "processing", row'[d].by = p
             PROVE  \E w \in Workers : job'[p][w].doc = d /\ ~job'[p][w].lost
  BY DEF NoOrphanClaim, Holds
<1>0. TypeOK
  BY DEF ClaimInv
<1>1. proc[p] \in {"new", "running"}
  BY <1>0, ProcStep
<1>2. CASE \E q \in Procs : ClaimedBy(q, d) /\ row'[d].by = q
  <2>1. PICK w \in Workers : Claim(p, w, d)
    BY <1>2 DEF ClaimedBy, ClaimUnanswered
  <2>2. SetJob(p, w, [phase |-> "claimed", doc |-> d, ver |-> 0, lost |-> FALSE])
    BY <2>1 DEF Claim
  <2>3. job'[p][w] = [phase |-> "claimed", doc |-> d, ver |-> 0, lost |-> FALSE]
    BY <1>0, <2>2, SetJobAt
  <2> QED
    BY <2>3
<1>3. CASE NoNewClaim(row[d], row'[d])
  <2>1. row[d].by = p /\ row[d].status = "processing"
    BY <1>3, SetsAssumption DEF NoNewClaim
  <2>2. proc[p] = "running"
    BY <1>1, <2>1 DEF ClaimInv, NewHoldsNothing
  <2>3. PICK w \in Workers : job[p][w].doc = d /\ ~job[p][w].lost
    BY <2>1, <2>2 DEF NoOrphanClaim, Holds
  <2>4. CASE job'[p][w] = job[p][w]
    BY <2>3, <2>4
  <2>5. CASE EndsJob(p, w)
    <3>1. FailWrite(p, w) \/ ClearClaim(p, w)
      BY <2>2, <2>3, <2>5 DEF EndsJob, DropClaim, EndQuietly, Crash, ClaimInv, TypeOK
    <3>2. SetRow(d, ToFailed(row[d])) \/ SetRow(d, Cleared(row[d], p))
      BY <2>3, <3>1 DEF FailWrite, ClearClaim
    <3>3. row'[d] = ToFailed(row[d]) \/ row'[d] = Cleared(row[d], p)
      BY <1>0, <3>2, SetRowAt
    <3>4. ToFailed(row[d]).status # "processing" /\ Cleared(row[d], p).by # p
      BY <1>0, <2>1 DEF ToFailed, Cleared, TypeOK, Row
    <3> QED
      BY <3>3, <3>4
  <2>6. CASE \E e \in Docs : Claim(p, w, e)
    BY <2>3, <2>6 DEF Claim, ClaimInv, IdleIsFree
  <2>7. CASE job'[p][w].doc = job[p][w].doc /\ job'[p][w].lost = job[p][w].lost
    BY <2>3, <2>7
  <2>8. CASE ~Holds(p, job[p][w].doc)
    BY <2>1, <2>3, <2>8 DEF Holds
  <2> QED
    BY <1>0, <2>4, <2>5, <2>6, <2>7, <2>8, JobStep
<1> QED
  BY <1>0, <1>2, <1>3, OwnerStep

LEMMA ClaimStarts == Init => ClaimInv /\ NoOrphanClaim
<1> SUFFICES ASSUME Init PROVE ClaimInv /\ NoOrphanClaim
  OBVIOUS
<1>1. TypeOK
  BY ConstantTypes DEF Init, TypeOK
<1>2. IdleIsFree /\ NewHoldsNothing
  BY DEF Init, IdleIsFree, NewHoldsNothing, Idle, NoRow
<1>3. NoOrphanClaim
  BY DEF Init, NoOrphanClaim
<1> QED
  BY <1>1, <1>2, <1>3 DEF ClaimInv

\* In a running process a claim is backed by a job that has not been told its
\* lease is lost (the comment on Ingester.jobs), with any number of workers
\* and processes and with "reprocess all", unless a write whose error runJob
\* ignores fails; and no row is claimed past MaxAttempts (claimWhere).
THEOREM ClaimsAlwaysWorked == ~DbFaults => (Spec => []ClaimsSound)
<1> SUFFICES ASSUME ~DbFaults PROVE Spec => []ClaimsSound
  OBVIOUS
<1>1. Init => ClaimInv /\ NoOrphanClaim
  BY ClaimStarts
<1>2. ClaimInv /\ NoOrphanClaim /\ [Next]_vars => ClaimInv' /\ NoOrphanClaim'
  BY ClaimStep, OrphanStep
<1>3. ClaimInv /\ NoOrphanClaim => ClaimsSound
  BY DEF ClaimInv, ClaimsSound
<1> QED
  BY <1>1, <1>2, <1>3, PTL DEF Spec

\* The job of a document that another process has taken over replaces neither
\* its chunks nor its claim (ReplaceDocumentChunksFrom, ClearDocumentClaim),
\* with failing writes as well.
THEOREM StaleJobsAlwaysHarmless == Spec => StaleJobKeepsChunks
<1> DEFINE Harmless == \A p \in Procs, w \in Workers, d \in Docs : StaleStep(p, w, d) =>
                          /\ row'[d].chunks = row[d].chunks
                          /\ row'[d].by = row[d].by
<1>1. ClaimInv /\ [Next]_vars => [Harmless]_vars
  <2> SUFFICES ASSUME ClaimInv, [Next]_vars, NEW p \in Procs, NEW w \in Workers, NEW d \in Docs,
                      StaleStep(p, w, d)
               PROVE  row'[d].chunks = row[d].chunks /\ row'[d].by = row[d].by
    OBVIOUS
  <2>0. TypeOK /\ row[d] \in Row
    BY DEF ClaimInv, TypeOK
  <2>1. job[p][w].doc = d /\ job'[p][w] # job[p][w] /\ row[d].by # p
    BY DEF StaleStep, HeldByOther
  <2>2. CASE row' = row
    BY <2>2
  <2>3. CASE FailWrite(p, w) /\ row' # row
    <3>1. SetRow(d, ToFailed(row[d]))
      BY <2>1, <2>3 DEF FailWrite
    <3> QED
      BY <2>0, <3>1, SetRowAt DEF ToFailed, Row
  <2>4. CASE ClearClaim(p, w) /\ row' # row
    <3>1. SetRow(d, Cleared(row[d], p))
      BY <2>1, <2>4 DEF ClearClaim
    <3> QED
      BY <2>0, <2>1, <3>1, SetRowAt DEF Cleared
  <2>5. CASE StoreChunks(p, w)
    BY <2>1, <2>5 DEF StoreChunks, Holds
  <2>6. CASE \E e \in Docs : Claim(p, w, e)
    BY <2>1, <2>6 DEF Claim, ClaimInv, IdleIsFree
  <2> QED
    BY <2>0, <2>1, <2>2, <2>3, <2>4, <2>5, <2>6, OnlyOwnStep
<1>2. Init => ClaimInv
  BY ClaimStarts
<1>3. ClaimInv /\ [Next]_vars => ClaimInv'
  BY ClaimStep
<1> QED
  BY <1>1, <1>2, <1>3, PTL DEF Spec, StaleJobKeepsChunks
=============================================================================
