----------------------------- MODULE Migrations -----------------------------
(***************************************************************************)
(* Replicas of one release, or of two, that start together on one database *)
(* and bring its schema to their newest migration (store.Open, migrate).   *)
(* A migration runs in a transaction under lockMigrations; one that builds *)
(* an index CONCURRENTLY runs outside any, under lockNoTxMigrations, which *)
(* is polled for.  A start can be cut off at every step.                   *)
(***************************************************************************)
EXTENDS Integers, FiniteSets

CONSTANTS Nodes,     \* replicas that start
          Newest,    \* newest migration any of them carries
          Outside,   \* migrations with the no-transaction marker
          MaxStarts  \* bound: starts of one replica

VARIABLES applied,   \* versions recorded in schema_migrations
          built,     \* migration in Outside -> its index: none, invalid or valid
          holder,    \* [mig, notx]: who holds the two advisory locks
          node,      \* replica -> [pc, head, at, waits]
          starts     \* replica -> starts so far
migVars == <<applied, built, holder, node, starts>>

MigrationBounds == Newest \in Nat \ {0} /\ Outside \subseteq 1..Newest /\ MaxStarts \in Nat
ASSUME MigrationBounds

\* hasNoTxMarker.
Marked(v) == v \in Outside

NoNode == "nobody"
ASSUME NodesAssumption == NoNode \notin Nodes
Down == [pc |-> "down", head |-> Newest, at |-> 0, waits |-> {}]

\* A new database, or one an earlier release left at some version.
MigrationsInit ==
    /\ \E v \in 0..Newest :
        /\ applied = 1..v
        /\ built = [x \in Outside |-> IF x <= v THEN "valid" ELSE "none"]
    /\ holder = [mig |-> NoNode, notx |-> NoNode]
    /\ node \in [Nodes -> {[Down EXCEPT !.head = h] : h \in {Newest - 1, Newest}}]
    /\ starts = [n \in Nodes |-> 0]
----------------------------------------------------------------------------
At(n, pc) == node[n].pc = pc
Goes(n, pc) == node' = [node EXCEPT ![n] = [@ EXCEPT !.pc = pc]]

\* The replicas inside a transaction, blocked in it or not.
InTx == {n \in Nodes : node[n].pc \in {"begun", "locked"}}

\* A transaction that ends is not waited for any more.
EndsTx(n, pc, at) ==
    node' = [m \in Nodes |->
        IF m = n THEN [node[n] EXCEPT !.pc = pc, !.at = at, !.waits = {}]
        ELSE [node[m] EXCEPT !.waits = @ \ {n}]]

\* withLockedTx: BEGIN first, and only then the lock, waited for inside.  Step 0
\* is the setup transaction.
BeginTx(n) ==
    /\ At(n, "next") /\ node[n].at <= node[n].head /\ ~Marked(node[n].at)
    /\ Goes(n, "begun")
    /\ UNCHANGED <<applied, built, holder, starts>>

TakeLock(n) ==
    /\ At(n, "begun") /\ holder.mig = NoNode
    /\ holder' = [holder EXCEPT !.mig = n]
    /\ Goes(n, "locked")
    /\ UNCHANGED <<applied, built, starts>>

\* Body and record commit together; a version that is there is left alone.
Commit(n) ==
    /\ At(n, "locked")
    /\ applied' = applied \cup ({node[n].at} \ {0})
    /\ holder' = [holder EXCEPT !.mig = NoNode]
    /\ EndsTx(n, "next", node[n].at + 1)
    /\ UNCHANGED <<built, starts>>

\* Mutant: one lock for both kinds of migration.
LockOutsideTx_SameLock(n) ==
    /\ At(n, "next") /\ node[n].at <= node[n].head /\ Marked(node[n].at)
    /\ holder.mig = NoNode
    /\ holder' = [holder EXCEPT !.mig = n]
    /\ Goes(n, "alone")
    /\ UNCHANGED <<applied, built, starts>>

\* lockOutsideTx: a try between two sleeps, in no transaction.
LockOutsideTx(n) ==
    /\ At(n, "next") /\ node[n].at <= node[n].head /\ Marked(node[n].at)
    /\ holder.notx = NoNode
    /\ holder' = [holder EXCEPT !.notx = n]
    /\ Goes(n, "alone")
    /\ UNCHANGED <<applied, built, starts>>

Freed(n, h) == IF h = n THEN NoNode ELSE h
Unlocked(n) == [mig |-> Freed(n, holder.mig), notx |-> Freed(n, holder.notx)]

\* Another replica built it meanwhile; otherwise drop what an interrupted build left.
Recheck(n) ==
    /\ At(n, "alone")
    /\ LET v == node[n].at IN
       IF v \in applied
       THEN /\ node' = [node EXCEPT ![n] = [@ EXCEPT !.pc = "next", !.at = v + 1]]
            /\ holder' = Unlocked(n) /\ UNCHANGED built
       ELSE /\ built' = [built EXCEPT ![v] = IF @ = "invalid" THEN "none" ELSE @]
            /\ Goes(n, "dropped") /\ UNCHANGED holder
    /\ UNCHANGED <<applied, starts>>

\* CREATE INDEX CONCURRENTLY IF NOT EXISTS: an index of that name, whatever its
\* state, ends the statement; a new one is invalid while the transactions open
\* at this moment are waited for.
Build(n) ==
    /\ At(n, "dropped")
    /\ LET v == node[n].at IN
       /\ built' = [built EXCEPT ![v] = IF @ = "none" THEN "invalid" ELSE @]
       /\ node' = [node EXCEPT ![n] = [@ EXCEPT
            !.pc = IF built[v] = "none" THEN "building" ELSE "executed",
            !.waits = IF built[v] = "none" THEN InTx \ {n} ELSE {}]]
    /\ UNCHANGED <<applied, holder, starts>>

\* The second look of the build waits for whoever is in a transaction by then.
Validate(n) ==
    /\ At(n, "building") /\ node[n].waits = {}
    /\ node' = [node EXCEPT ![n] = [@ EXCEPT !.pc = "validating", !.waits = InTx \ {n}]]
    /\ UNCHANGED <<applied, built, holder, starts>>

Built(n) ==
    /\ At(n, "validating") /\ node[n].waits = {}
    /\ built' = [built EXCEPT ![node[n].at] = "valid"]
    /\ Goes(n, "executed")
    /\ UNCHANGED <<applied, holder, starts>>

\* The version is recorded only for an index that is valid now.
MayRecord(n) == built[node[n].at] = "valid"

RecordOutside(n) ==
    /\ At(n, "executed") /\ MayRecord(n)
    /\ applied' = applied \cup {node[n].at}
    /\ holder' = Unlocked(n)
    /\ node' = [node EXCEPT ![n] = [@ EXCEPT !.pc = "next", !.at = node[n].at + 1]]
    /\ UNCHANGED <<built, starts>>

\* migrate returned; verifySecretKey and the store audit follow, then it serves.
Ready(n) ==
    /\ At(n, "next") /\ node[n].at = node[n].head + 1
    /\ Goes(n, "ready")
    /\ UNCHANGED <<applied, built, holder, starts>>
----------------------------------------------------------------------------
Boot(n) ==
    /\ At(n, "down") /\ starts[n] < MaxStarts
    /\ starts' = [starts EXCEPT ![n] = @ + 1]
    /\ node' = [node EXCEPT ![n] = [@ EXCEPT !.pc = "next", !.at = 0]]
    /\ UNCHANGED <<applied, built, holder>>

\* A signal, a lost connection, an error or a kill: the transaction is rolled
\* back, both locks go with the session, a half-built index stays.
CutOff(n) ==
    /\ ~At(n, "down")
    /\ EndsTx(n, "down", 0)
    /\ holder' = Unlocked(n)
    /\ UNCHANGED <<applied, built, starts>>

MigrationsNext == \E n \in Nodes :
    \/ BeginTx(n) \/ TakeLock(n) \/ Commit(n)
    \/ LockOutsideTx(n) \/ Recheck(n) \/ Build(n) \/ Validate(n) \/ Built(n) \/ RecordOutside(n)
    \/ Ready(n) \/ Boot(n) \/ CutOff(n)

MigrationsSpec == MigrationsInit /\ [][MigrationsNext]_migVars
----------------------------------------------------------------------------
(* readyz *)
HeadMigration(n) == node[n].head
AppliedMigration == IF applied = {} THEN 0 ELSE CHOOSE v \in applied : \A w \in applied : w <= v
ReadyzSaysOk(n) == At(n, "ready") /\ AppliedMigration >= HeadMigration(n)
----------------------------------------------------------------------------
\* Who a replica waits for: the holder of the lock it blocks on, and the open
\* transactions its index build waits for.
WaitsFor(n) == IF At(n, "begun") THEN {holder.mig} \cap Nodes ELSE node[n].waits

\* The claim of applyOutsideTx's comment: holding the migration lock while
\* building "would make the two wait on each other".  However many replicas
\* start together, with builds, retries and cut-off starts in between, some
\* replica that others wait for is not waiting itself; and a replica that is
\* serving has every migration of its own release, each with a valid index.
StartsTogether ==
    /\ \A S \in SUBSET Nodes : (S # {}) => \E n \in S : WaitsFor(n) \cap S = {}
    /\ \A n \in Nodes : At(n, "ready") =>
          /\ 1..node[n].head \subseteq applied
          /\ \A v \in Outside \cap 1..node[n].head : built[v] = "valid"
          /\ ReadyzSaysOk(n)
=============================================================================
