----------------------------- MODULE VectorIndex -----------------------------
(***************************************************************************)
(* The embedding table of one wide width (2001..4000 dimensions) and its   *)
(* halfvec index: the first ingest of a store, which makes the table and   *)
(* binds the store to the width; the reindex action, which builds the      *)
(* index of a table that has none; stores being deleted; and replicas that *)
(* stop in the middle.  Nothing is stored about a build: it is read from   *)
(* the catalog, a progress row and an advisory lock every time.            *)
(***************************************************************************)
EXTENDS Integers, FiniteSets

CONSTANTS Replicas, Stores

NoHolder == "nobody"
ASSUME HoldersAssumption == NoHolder \notin Replicas \cup Stores /\ Replicas \cap Stores = {}

VARIABLES table,   \* chunk_embeddings_<dims> exists
          index,   \* none, invalid or valid, as pg_index says
          bound,   \* stores bound to the width (with their vectors)
          gone,    \* stores deleted
          locks,   \* [ddl, reindex]: holders of lockVecTables and lockVecReindex
          cached,  \* replica -> vecTables holds the width
          ingest,  \* store -> [pc, on, saw, stmts]: its first ingest
          reindex, \* replica -> pc of StartVectorReindex and of the build behind it
          exact,   \* stores that were bound to a table without a valid index
          cut      \* a reindex was cut short after it was asked for
vxVars == <<table, index, bound, gone, locks, cached, ingest, reindex, exact, cut>>

Idle == [pc |-> "idle", on |-> NoHolder, saw |-> "", stmts |-> FALSE]

\* A new installation, or one an earlier release left with a table that has no
\* index, with or without a store on it, or that had a build cut short.
VectorInit ==
    /\ table \in BOOLEAN /\ index \in {"none", "invalid"} /\ bound \in {{}} \cup {{s} : s \in Stores}
    /\ ~table => index = "none" /\ bound = {}
    /\ gone = {} /\ exact = {} /\ cut = FALSE
    /\ locks = [ddl |-> NoHolder, reindex |-> NoHolder]
    /\ cached = [r \in Replicas |-> FALSE]
    /\ ingest = [s \in Stores |-> Idle]
    /\ reindex = [r \in Replicas |-> "idle"]
----------------------------------------------------------------------------
(* readHalfvecCatalog, state *)

InProgress == \E r \in Replicas : reindex[r] = "creating"

CatalogState ==
    CASE ~table -> "no table" [] table /\ index = "valid" -> "valid"
      [] table /\ index # "valid" /\ (InProgress \/ locks.reindex # NoHolder) -> "building"
      [] table /\ index = "invalid" /\ ~InProgress /\ locks.reindex = NoHolder -> "broken" [] OTHER -> "absent"

Orphan == bound = {}

\* CheckBindable: born indexed, indexed, or about to be.
Bindable == CatalogState \in {"no table", "valid"} \/ (CatalogState = "absent" /\ Orphan)
----------------------------------------------------------------------------
(* The first ingest of a store: ReplaceDocumentChunksFrom, ensureVecTable. *)

Stepping(s, pc) == ingest[s].pc = pc
SetIngest(s, rec) == ingest' = [ingest EXCEPT ![s] = rec]

\* The unlocked look: a refused width leaves no table behind.
PreCheck(s, r) ==
    /\ Stepping(s, "idle") /\ s \notin bound \cup gone /\ Bindable
    /\ SetIngest(s, [pc |-> IF cached[r] THEN "ensured" ELSE "checked", on |-> r, saw |-> "", stmts |-> FALSE])
    /\ UNCHANGED <<table, index, bound, gone, locks, cached, reindex, exact, cut>>

\* Under lockVecTables: does the table exist, and with which index?
EnsureReads(s) ==
    /\ Stepping(s, "checked") /\ locks.ddl = NoHolder
    /\ locks' = [locks EXCEPT !.ddl = s]
    /\ SetIngest(s, [ingest[s] EXCEPT !.pc = "ensuring", !.saw = CatalogState, !.stmts = ~table])
    /\ UNCHANGED <<table, index, bound, gone, cached, reindex, exact, cut>>

\* Mutant of EnsureTries: the index of an orphan is made without the lock.
EnsureTries_NoLock(s) ==
    /\ Stepping(s, "ensuring") /\ ingest[s].saw = "absent"
    /\ SetIngest(s, [ingest[s] EXCEPT !.pc = "statements", !.stmts = Orphan])
    /\ UNCHANGED <<table, index, bound, gone, locks, cached, reindex, exact, cut>>

\* An orphan without an index: the reindex lock is tried, never waited for.
EnsureTries(s) ==
    /\ Stepping(s, "ensuring") /\ ingest[s].saw = "absent"
    /\ LET got == Orphan /\ locks.reindex = NoHolder IN
       /\ locks' = IF got THEN [locks EXCEPT !.reindex = s] ELSE locks
       /\ SetIngest(s, [ingest[s] EXCEPT !.pc = "statements", !.stmts = got])
    /\ UNCHANGED <<table, index, bound, gone, cached, reindex, exact, cut>>

Left(who, ended) == IF who \in ended THEN NoHolder ELSE who
ReleaseLocks(ended) == [ddl |-> Left(locks.ddl, ended), reindex |-> Left(locks.reindex, ended)]

\* The statements and the commit.  Making an index waits for one being built
\* concurrently on the same table.
EnsureCommits(s) ==
    /\ \/ Stepping(s, "statements")
       \/ Stepping(s, "ensuring") /\ ingest[s].saw # "absent"
    /\ ingest[s].stmts => ~InProgress
    /\ table' = TRUE
    /\ index' = IF ingest[s].stmts THEN "valid" ELSE index
    /\ cached' = [cached EXCEPT ![ingest[s].on] = @ \/ ingest[s].stmts \/ ingest[s].saw = "valid"]
    /\ locks' = ReleaseLocks({s})
    /\ SetIngest(s, [ingest[s] EXCEPT !.pc = "ensured"])
    /\ UNCHANGED <<bound, gone, reindex, exact, cut>>

\* The write: the check again, then the width, the chunks and their vectors.
Bind(s) ==
    /\ Stepping(s, "ensured") /\ s \notin gone /\ Bindable
    /\ bound' = bound \cup {s}
    /\ exact' = IF index = "valid" THEN exact ELSE exact \cup {s}
    /\ SetIngest(s, Idle)
    /\ UNCHANGED <<table, index, gone, locks, cached, reindex, cut>>

\* The store is gone, or the width is refused (ErrVectorIndexMissing); a retry
\* begins anew.
Refused(s) ==
    /\ Stepping(s, "ensured") /\ (s \in gone \/ ~Bindable)
    /\ SetIngest(s, Idle)
    /\ UNCHANGED <<table, index, bound, gone, locks, cached, reindex, exact, cut>>

\* The store goes with its vectors; an ingest of it goes on to its row lock.
DeleteStore(s) ==
    /\ s \notin gone
    /\ gone' = gone \cup {s} /\ bound' = bound \ {s} /\ exact' = exact \ {s}
    /\ UNCHANGED <<table, index, locks, cached, ingest, reindex, cut>>
----------------------------------------------------------------------------
(* StartVectorReindex and the build it leaves behind. *)

SetReindex(r, pc) == reindex' = [reindex EXCEPT ![r] = pc]

\* The action of a store with this width: a build is started only from a table
\* without a valid index that nobody is building.
StartReindex(r) ==
    /\ reindex[r] = "idle" /\ bound # {} /\ CatalogState \in {"absent", "broken"}
    /\ SetReindex(r, "asked")
    /\ UNCHANGED <<table, index, bound, gone, locks, cached, ingest, exact, cut>>

\* On a connection of its own; losing the lock means another one builds.
TryLock(r) ==
    /\ reindex[r] = "asked"
    /\ IF locks.reindex = NoHolder
       THEN locks' = [locks EXCEPT !.reindex = r] /\ SetReindex(r, "locked")
       ELSE UNCHANGED locks /\ SetReindex(r, "idle")
    /\ UNCHANGED <<table, index, bound, gone, cached, ingest, exact, cut>>

LocksFreed(r) == [locks EXCEPT !.reindex = IF @ = r THEN NoHolder ELSE @]

\* The catalog again: done by somebody else, or what a cut-short build left.
BuildReads(r) ==
    /\ reindex[r] = "locked"
    /\ IF index = "valid" THEN SetReindex(r, "idle") /\ locks' = LocksFreed(r) /\ UNCHANGED index
       ELSE index' = "none" /\ SetReindex(r, "dropped") /\ UNCHANGED locks
    /\ UNCHANGED <<table, bound, gone, cached, ingest, exact, cut>>

\* CREATE INDEX CONCURRENTLY: an invalid index until it is done.
BuildCreates(r) ==
    /\ reindex[r] = "dropped"
    /\ index' = "invalid" /\ SetReindex(r, "creating")
    /\ UNCHANGED <<table, bound, gone, locks, cached, ingest, exact, cut>>

\* It waits for every transaction older than itself.
BuildDone(r) ==
    /\ reindex[r] = "creating" /\ \A s \in Stores : ingest[s].pc \notin {"ensuring", "statements"}
    /\ index' = "valid" /\ SetReindex(r, "idle") /\ locks' = LocksFreed(r)
    /\ UNCHANGED <<table, bound, gone, cached, ingest, exact, cut>>

\* A replica ends, or its build is cancelled: its locks go with its
\* connections, its open transactions roll back, the index stays as it is.
Stops(r) ==
    LET lost == {s \in Stores : ingest[s].on = r} IN
    /\ SetReindex(r, "idle")
    /\ ingest' = [s \in Stores |-> IF s \in lost THEN Idle ELSE ingest[s]]
    /\ locks' = ReleaseLocks(lost \cup {r})
    /\ cached' = [cached EXCEPT ![r] = FALSE]
    /\ cut' = (cut \/ reindex[r] # "idle")
    /\ UNCHANGED <<table, index, bound, gone, exact>>

VectorNext ==
    \/ \E s \in Stores, r \in Replicas : PreCheck(s, r)
    \/ \E s \in Stores : EnsureReads(s) \/ EnsureTries(s) \/ EnsureCommits(s) \/ Bind(s) \/ Refused(s) \/ DeleteStore(s)
    \/ \E r \in Replicas : StartReindex(r) \/ TryLock(r) \/ BuildReads(r) \/ BuildCreates(r) \/ BuildDone(r) \/ Stops(r)

VectorSpec == VectorInit /\ [][VectorNext]_vxVars
----------------------------------------------------------------------------
\* "a new store must not land on an exact scan" (CheckBindable): as long as no
\* reindex is cut short, no store is bound, by its first ingest, to a table
\* that has no valid index, however builds, ingests and deletions interleave.
NewStoresAreIndexed == exact = {} \/ cut

\* One build at a time (lockVecReindex), and an ingest never waits for a build
\* that waits for it (ensureVecTable): that deadlock kills the build.
BuildsDoNotMeet ==
    /\ Cardinality({r \in Replicas : reindex[r] \in {"locked", "dropped", "creating"}}) <= 1
    /\ ~(InProgress /\ \E s \in Stores : ingest[s].pc \in {"ensuring", "statements"} /\ ingest[s].stmts)

\* Indexes are made one at a time and never behind a store's back.
IndexesSound == NewStoresAreIndexed /\ BuildsDoNotMeet
=============================================================================
