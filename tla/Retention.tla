------------------------------ MODULE Retention ------------------------------
(***************************************************************************)
(* The retention pass (maintenance.Janitor, store.DeleteExpiredBatch) next *)
(* to the requests it must not touch: request logs, the session totals     *)
(* that summarise them and retired API keys, deleted in bounded batches.   *)
(* Behind a pooler two replicas can both lead.  A batch is one statement:  *)
(* it picks rows from its snapshot (DeletePicks) and locks and deletes     *)
(* them (DeleteApplies); a row updated in between has moved.               *)
(***************************************************************************)
EXTENDS Integers, FiniteSets

CONSTANTS Janitors,  \* replicas
          ApiKeys,   \* API keys
          Sessions,  \* session ids
          LogDays,   \* LOG_RETENTION_DAYS; 0 keeps request logs
          KeyDays,   \* APIKeyRetention
          BatchSize, \* rows of one batch
          Pooled,    \* session locks do not hold: every replica wins the election
          MaxDay,    \* bound on the clock
          MaxLogs    \* bound on the requests

NoLogKey == "null"
ASSUME RetentionBounds ==
    /\ LogDays \in Nat /\ KeyDays \in Nat \ {0} /\ BatchSize \in Nat \ {0} /\ Pooled \in BOOLEAN
    /\ MaxDay \in Nat /\ NoLogKey \notin ApiKeys

VARIABLES day,     \* the clock
          logs,    \* rows of request_logs: [id, day, key]
          totals,  \* session -> row of session_usage: [seen, requests, place] or NoTotal
          keys,    \* key -> day it was retired; Live; Purged
          made,    \* requests so far
          flight,  \* requests in flight: [id, key, session]
          leader,  \* replicas that hold LockJanitor
          pass     \* replica -> [table, cutoff, picked], table "" outside a pass
retVars == <<day, logs, totals, keys, made, flight, leader, pass>>

Live == MaxDay + 1
Purged == -1
NoTotal == [seen |-> -1, requests |-> 0, place |-> 0]
Resting == [table |-> "", today |-> 0, picked |-> {}]

RetentionInit ==
    /\ day = 0 /\ logs = {} /\ made = 0 /\ flight = {} /\ leader = {}
    /\ totals = [s \in Sessions |-> NoTotal]
    /\ keys = [k \in ApiKeys |-> Live]
    /\ pass = [j \in Janitors |-> Resting]
----------------------------------------------------------------------------
(* Requests. *)

Arrive(k, s) ==
    /\ keys[k] = Live /\ made < MaxLogs
    /\ made' = made + 1
    /\ flight' = flight \cup {[id |-> made', key |-> k, session |-> s]}
    /\ UNCHANGED <<day, logs, totals, keys, leader, pass>>

\* The row is inserted only for a key that is there (a foreign key); an upsert
\* writes a new version of the session's row.
Finish(f) ==
    /\ f \in flight /\ flight' = flight \ {f}
    /\ logs' = IF keys[f.key] = Purged THEN logs ELSE logs \cup {[id |-> f.id, day |-> day, key |-> f.key]}
    /\ totals' = [totals EXCEPT ![f.session] =
            [seen |-> day, requests |-> @.requests + 1, place |-> f.id]]
    /\ UNCHANGED <<made, day, keys, leader, pass>>

\* Revoked or expired.
Retire(k) ==
    /\ keys[k] = Live /\ keys' = [keys EXCEPT ![k] = day]
    /\ UNCHANGED <<made, day, logs, totals, flight, leader, pass>>

\* No request lasts a day (UPSTREAM_TIMEOUT, STREAM_MAX_DURATION), no statement either.
Tick ==
    /\ day < MaxDay /\ flight = {} /\ \A j \in Janitors : pass[j].picked = {}
    /\ day' = day + 1
    /\ UNCHANGED <<made, logs, totals, keys, flight, leader, pass>>
----------------------------------------------------------------------------
(* One pass: request logs, then session totals, then keys. *)

NextTable(table) ==
    CASE table = "request_logs" -> "session_usage" [] table = "session_usage" -> "api_keys" [] table = "api_keys" -> ""
FirstTable == IF LogDays = 0 THEN "api_keys" ELSE "request_logs"

\* TryAdvisoryLock.
Elected == leader = {} \/ Pooled

\* runLeader, RunOnce: the cutoffs of every table are fixed here.
Lead(j) ==
    /\ pass[j].table = "" /\ Elected
    /\ leader' = leader \cup {j}
    /\ pass' = [pass EXCEPT ![j] = [table |-> FirstTable, today |-> day, picked |-> {}]]
    /\ UNCHANGED <<made, day, logs, totals, keys, flight>>

\* retentionSpecs: the expiry predicate of a table.
ExpiredLogs(today) == {[row |-> l, place |-> 0] : l \in {x \in logs : x.day < today - LogDays}}
ExpiredTotals(today) ==
    {[row |-> s, place |-> totals[s].place] :
        s \in {x \in Sessions : totals[x] # NoTotal /\ totals[x].seen < today - LogDays}}

Attributed(k) == \E l \in logs : l.key = k
RetiredKeys(today) ==
    {[row |-> k, place |-> 0] : k \in {x \in ApiKeys : keys[x] \in 0..today - KeyDays - 1 /\ ~Attributed(x)}}

Expired(table, today) ==
    CASE table = "request_logs"  -> ExpiredLogs(today)
      [] table = "session_usage" -> ExpiredTotals(today)
      [] table = "api_keys"      -> RetiredKeys(today)

Batches(S) == {B \in SUBSET S : Cardinality(B) = IF Cardinality(S) < BatchSize THEN Cardinality(S) ELSE BatchSize}

\* DELETE ... WHERE ctid IN (SELECT ctid ... LIMIT n): the subquery.
DeletePicks(j) ==
    /\ pass[j].table # "" /\ pass[j].picked = {}
    /\ LET S == Expired(pass[j].table, pass[j].today) IN
       /\ S # {}
       /\ \E B \in Batches(S) : pass' = [pass EXCEPT ![j] = [@ EXCEPT !.picked = B]]
    /\ UNCHANGED <<made, day, logs, totals, keys, flight, leader>>

\* The next table, or the end of the pass: release.
LeaveTable(j) ==
    LET next == NextTable(pass[j].table) IN
    /\ pass' = [pass EXCEPT ![j] = IF next = "" THEN Resting ELSE [@ EXCEPT !.table = next, !.picked = {}]]
    /\ leader' = IF next = "" THEN leader \ {j} ELSE leader

\* An empty batch, or a statement that fails: the error is kept for the report
\* and the next table is tried.
TableLeft(j) ==
    /\ pass[j].table # "" /\ (pass[j].picked = {} => Expired(pass[j].table, pass[j].today) = {})
    /\ LeaveTable(j)
    /\ UNCHANGED <<made, day, logs, totals, keys, flight>>

\* Mutant: the rows are picked in one statement and deleted by their key in another.
Deletable_ByKey(table, p) ==
    CASE table = "request_logs" -> p.row \in logs
      [] table = "session_usage" -> totals[p.row] # NoTotal
      [] table = "api_keys" -> keys[p.row] # Purged

\* A version that is gone, because the row was updated or deleted, is passed over.
Deletable(table, p) ==
    CASE table = "request_logs" -> p.row \in logs
      [] table = "session_usage" -> totals[p.row] # NoTotal /\ totals[p.row].place = p.place
      [] table = "api_keys" -> keys[p.row] # Purged

\* A batch that comes back short ends the table.  ON DELETE SET NULL takes a key
\* out of the logs that name it.
DeleteApplies(j) ==
    /\ pass[j].picked # {}
    /\ LET table == pass[j].table
           gone == {p.row : p \in {x \in pass[j].picked : Deletable(table, x)}} IN
       /\ logs' = CASE table = "request_logs" -> logs \ gone
                    [] table = "api_keys" -> {[l EXCEPT !.key = IF @ \in gone THEN NoLogKey ELSE @] : l \in logs}
                    [] OTHER -> logs
       /\ totals' = [s \in Sessions |-> IF table = "session_usage" /\ s \in gone THEN NoTotal ELSE totals[s]]
       /\ keys' = [k \in ApiKeys |-> IF table = "api_keys" /\ k \in gone THEN Purged ELSE keys[k]]
       /\ IF Cardinality(gone) < BatchSize THEN LeaveTable(j)
          ELSE pass' = [pass EXCEPT ![j] = [@ EXCEPT !.picked = {}]] /\ UNCHANGED leader
    /\ UNCHANGED <<made, day, flight>>

\* stopBackground, a lost connection or a kill: the statement in progress is
\* rolled back, the rest waits for the next pass.
CutShort(j) ==
    /\ pass[j].table # ""
    /\ pass' = [pass EXCEPT ![j] = Resting] /\ leader' = leader \ {j}
    /\ UNCHANGED <<made, day, logs, totals, keys, flight>>

RetentionNext ==
    \/ \E k \in ApiKeys, s \in Sessions : Arrive(k, s)
    \/ \E f \in flight : Finish(f)
    \/ \E k \in ApiKeys : Retire(k)
    \/ Tick
    \/ \E j \in Janitors : Lead(j) \/ DeletePicks(j) \/ DeleteApplies(j) \/ TableLeft(j) \/ CutShort(j)

RetentionSpec == RetentionInit /\ [][RetentionNext]_retVars
----------------------------------------------------------------------------
\* Whatever passes run, overlap or are cut short: a request log keeps the key it
\* was written with for as long as it is there ("attribution is never erased"),
\* and a session total goes only when the session has been idle for the whole
\* window at that moment, not when it was when the batch was picked.
OnlyIdleRowsGo ==
    [][/\ \A l \in logs' : l.key # NoLogKey
       /\ \A s \in Sessions : (totals[s] # NoTotal /\ totals'[s] = NoTotal) => totals[s].seen < day - LogDays]_retVars
=============================================================================
