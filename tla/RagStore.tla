------------------------------- MODULE RagStore -------------------------------
(***************************************************************************)
(* One RAG store: its settings, the chunks its documents have, the ingest  *)
(* jobs that replace them, the background rebuild of chunks.fts after a    *)
(* language change, and searches.  All of it is in PostgreSQL; the jobs,   *)
(* the rebuilders (one per replica) and the searches are processes that    *)
(* interleave between transactions.                                        *)
(*                                                                         *)
(* UpdateRAGStore, ReplaceDocumentChunksFrom and RebuildFTSBatch lock the  *)
(* store row.  The first two are one step each; a rebuild batch is two,    *)
(* because DeleteDocument does not take that lock and may commit while the *)
(* batch's UPDATE runs.  A vector is abstracted to the connection whose    *)
(* model made it, a text to its language configuration.  Claims on         *)
(* documents are the subject of IngestQueue; here a job may fail at any    *)
(* time, and a deleted document takes its job with it.                     *)
(***************************************************************************)
EXTENDS Integers, FiniteSets

CONSTANTS
    Docs,        \* documents (their contents are identical: all can be donors)
    Conns,       \* embedding connections
    Width,       \* the embedding width of every connection
    Langs,       \* the languages, "simple" among them
    Pieces,      \* how many chunks a document may split into
    MaxChunk,    \* bound on chunk ids
    Limit,       \* DefaultFTSRebuildBatch
    Replicas,    \* replicas, each with its FTSRebuilder
    Searches,    \* searches in progress
    NoDoc,       \* owner of a chunk id without a row
    NoConn       \* no embedding connection

ASSUME WidthAssumption == Width \in [Conns -> Nat \ {0}]
ASSUME LangsAssumption == "simple" \in Langs /\ "none" \notin Langs
ASSUME SizesAssumption == Pieces \subseteq Nat \ {0} /\ MaxChunk \in Nat /\ Limit \in Nat \ {0}
ASSUME NamesAssumption == NoDoc \notin Docs /\ NoConn \notin Conns

VARIABLES
    alive,    \* the store row exists
    conn,     \* embedding_connection_id
    dims,     \* dimensions, 0 when the store is not bound yet
    lang,     \* language
    applied,  \* fts_language_applied, "none" for NULL
    cursor,   \* fts_rebuild_cursor
    owner,    \* the document of every chunk id
    fts,      \* the language chunks.fts was built with, "none" for NULL
    by,       \* the connection whose model made the chunk's vector
    last,     \* last chunk id of the sequence
    job,      \* the ingest job of every document
    rb,       \* the rebuilder of every replica
    search,   \* the searches
    missed,   \* history: chunks a rebuild left behind when it ended
    lent,     \* history: documents whose job copied vectors across a connection change
    foreign   \* history: chunks stored by such jobs

store == <<alive, conn, dims, lang, applied, cursor>>
rows  == <<owner, fts, by, last>>
vars  == <<alive, conn, dims, lang, applied, cursor, owner, fts, by, last, job, rb, search,
           missed, lent, foreign>>

Ids  == 1..MaxChunk
Live == {i \in Ids : owner[i] # NoDoc}
-----------------------------------------------------------------------------
Job == [pc   : {"idle", "embed", "store"},
        conn : Conns \cup {NoConn},
        dims : Nat,
        new  : BOOLEAN,
        vec  : Conns \cup {NoConn}]

Rebuilder == [pc : {"idle", "pass", "batch"}, ids : SUBSET Ids]

Search == [pc    : {"idle", "embed", "check", "run", "done"},
           vec   : Conns \cup {NoConn},
           plan  : Langs,
           hits  : SUBSET Ids]

TypeOK ==
    /\ alive \in BOOLEAN /\ conn \in Conns /\ dims \in Nat
    /\ lang \in Langs /\ applied \in Langs \cup {"none"} /\ cursor \in 0..MaxChunk
    /\ owner \in [Ids -> Docs \cup {NoDoc}]
    /\ fts \in [Ids -> Langs \cup {"none"}]
    /\ by \in [Ids -> Conns \cup {NoConn}]
    /\ last \in 0..MaxChunk
    /\ job \in [Docs -> Job]
    /\ rb \in [Replicas -> Rebuilder]
    /\ search \in [Searches -> Search]
    /\ missed \subseteq Ids /\ lent \subseteq Docs /\ foreign \subseteq Ids

NoJob   == [pc |-> "idle", conn |-> NoConn, dims |-> 0, new |-> FALSE, vec |-> NoConn]
Resting == [pc |-> "idle", ids |-> {}]

\* A search before its answer; vec made its query vector.
Searching(pc, vec, plan) == [pc |-> pc, vec |-> vec, plan |-> plan, hits |-> {}]
NoSearch == Searching("idle", NoConn, "simple")

\* CreateRAGStore: an empty store is complete for any language.
Init ==
    /\ alive = TRUE /\ conn \in Conns /\ dims = 0
    /\ lang \in Langs /\ applied = (IF lang = "simple" THEN "none" ELSE lang) /\ cursor = 0
    /\ owner = [i \in Ids |-> NoDoc]
    /\ fts = [i \in Ids |-> "none"]
    /\ by = [i \in Ids |-> NoConn]
    /\ last = 0
    /\ job = [d \in Docs |-> NoJob]
    /\ rb = [p \in Replicas |-> Resting]
    /\ search = [s \in Searches |-> NoSearch]
    /\ missed = {} /\ lent = {} /\ foreign = {}

\* The lock on the store row is free.
RowFree == \A p \in Replicas : rb[p].pc # "batch"

NeedsRebuild == lang # "simple" /\ applied # lang
-----------------------------------------------------------------------------
(* Settings.                                                               *)

\* What fts_language_applied becomes with another language.
NewApplied(l) == IF l # "simple" /\ Live = {} THEN l ELSE "none"

NewDims(c) == IF c # conn THEN 0 ELSE dims

\* Mutant of NewCursor: a language change goes on from the old cursor.
NewCursor_Kept(l) == cursor

NewCursor(l) == IF l # lang THEN 0 ELSE cursor

\* UpdateRAGStore.  A new connection is refused while the store has chunks.
Update(c, l) ==
    /\ alive /\ RowFree
    /\ c # conn => Live = {}
    /\ c # conn \/ l # lang
    /\ conn' = c
    /\ dims' = NewDims(c)
    /\ lang' = l
    /\ applied' = IF l # lang THEN NewApplied(l) ELSE applied
    /\ cursor' = NewCursor(l)
    /\ UNCHANGED <<alive, owner, fts, by, last, job, rb, search>>

\* The rows of the documents ds are gone, by cascade.
Without(ds) ==
    /\ owner' = [i \in Ids |-> IF owner[i] \in ds THEN NoDoc ELSE owner[i]]
    /\ fts' = [i \in Ids |-> IF owner[i] \in ds THEN "none" ELSE fts[i]]
    /\ by' = [i \in Ids |-> IF owner[i] \in ds THEN NoConn ELSE by[i]]

\* DeleteRAGStore waits for the row lock.
DeleteStore ==
    /\ alive /\ RowFree
    /\ alive' = FALSE
    /\ Without(Docs)
    /\ job' = [d \in Docs |-> NoJob]
    /\ UNCHANGED <<conn, dims, lang, applied, cursor, last, rb, search>>

\* DeleteDocument does not.  The document's name is free for the next upload.
DeleteDocument(d) ==
    /\ alive
    /\ Without({d})
    /\ job' = [job EXCEPT ![d] = NoJob]
    /\ UNCHANGED <<alive, conn, dims, lang, applied, cursor, last, rb, search>>
-----------------------------------------------------------------------------
(* Ingestion.                                                              *)

Has(d) == \E i \in Live : owner[i] = d

\* pipeline reads the store and its embedding connection.
StartIngest(d) ==
    /\ alive /\ job[d].pc = "idle"
    /\ job' = [job EXCEPT ![d] =
          [pc |-> "embed", conn |-> conn, dims |-> dims, new |-> ~Has(d), vec |-> NoConn]]
    /\ UNCHANGED <<store, rows, rb, search>>

Embedded(j, c) == [pc |-> "store", conn |-> j.conn, dims |-> j.dims, new |-> j.new, vec |-> c]

\* The chunks are embedded with the connection read at the start ...
Embed(d) ==
    /\ job[d].pc = "embed"
    /\ job' = [job EXCEPT ![d] = Embedded(job[d], job[d].conn)]
    /\ UNCHANGED <<store, rows, rb, search>>

\* reuseEmbeddings: chunk i belongs to a donor for the job of document d.
Donates(j, i, d) ==
    /\ j.new /\ j.dims > 0
    /\ i \in Live /\ owner[i] # d
    /\ Width[by[i]] = j.dims

\* ... or an identical document's vectors are copied.
Reuse(d) ==
    /\ job[d].pc = "embed"
    /\ \E i \in Ids :
          /\ Donates(job[d], i, d)
          /\ job' = [job EXCEPT ![d] = Embedded(job[d], by[i])]
    /\ UNCHANGED <<store, rows, rb, search>>

\* Mutant of Binds: only the width is compared.
Binds_WidthOnly(j) == dims = 0 \/ dims = Width[j.vec]

\* checkStoreBinding, under the row lock.
Binds(j) == conn = j.conn /\ (dims = 0 \/ dims = Width[j.vec])

\* The language chunks.fts is written with.
FtsOf == IF lang = "simple" THEN "none" ELSE lang

\* ReplaceDocumentChunksFrom: old rows out, n new rows in.
Store(d, n) ==
    LET new == (last + 1)..(last + n)
        old == {i \in Ids : owner[i] = d}
    IN  /\ alive /\ RowFree
        /\ job[d].pc = "store" /\ Binds(job[d])
        /\ last + n <= MaxChunk
        /\ dims' = Width[job[d].vec]
        /\ owner' = [i \in Ids |-> IF i \in new THEN d ELSE IF i \in old THEN NoDoc ELSE owner[i]]
        /\ fts' = [i \in Ids |-> IF i \in new THEN FtsOf ELSE IF i \in old THEN "none" ELSE fts[i]]
        /\ by' = [i \in Ids |-> IF i \in new THEN job[d].vec ELSE IF i \in old THEN NoConn ELSE by[i]]
        /\ last' = last + n
        /\ job' = [job EXCEPT ![d] = NoJob]
        /\ UNCHANGED <<alive, conn, lang, applied, cursor, rb, search>>

\* Any error ends the job: no embedder, an upstream error, a lost claim, or
\* the refusal of checkStoreBinding, before or under the lock.
IngestFails(d) ==
    /\ job[d].pc # "idle"
    /\ job' = [job EXCEPT ![d] = NoJob]
    /\ UNCHANGED <<store, rows, rb, search>>
-----------------------------------------------------------------------------
(* The rebuild of chunks.fts.                                              *)

SetRb(p, r) == rb' = [rb EXCEPT ![p] = r]

\* RunOnce finds the store among StoresNeedingFTSRebuild.
StartPass(p) ==
    /\ rb[p].pc = "idle" /\ alive /\ NeedsRebuild
    /\ SetRb(p, [pc |-> "pass", ids |-> {}])
    /\ UNCHANGED <<store, rows, job, search>>

\* S is what ORDER BY id LIMIT selects of P.
IsBatch(S, P) ==
    /\ S \subseteq P
    /\ \A i \in S, j \in P : j < i => j \in S
    /\ \/ S = P /\ Cardinality(S) <= Limit
       \/ Cardinality(S) = Limit

Pending == {i \in Live : i > cursor}

\* The batch has both locks, has read the store and selected its chunks.
BatchStart(p) ==
    /\ rb[p].pc = "pass" /\ RowFree
    /\ alive /\ NeedsRebuild
    /\ \E S \in SUBSET Ids : IsBatch(S, Pending) /\ SetRb(p, [pc |-> "batch", ids |-> S])
    /\ UNCHANGED <<store, rows, job, search>>

\* Mutant of MaxOf: the cursor does not move.
MaxOf_Zero(S) == 0

\* COALESCE(MAX(id), 0)
MaxOf(S) == IF S = {} THEN 0 ELSE CHOOSE i \in S : \A j \in S : j <= i

\* Mutant of IsLast: a full batch may be the last one as well.
IsLast_OffByOne(n) == n <= Limit

\* Fewer rows than the limit: nothing is left.
IsLast(n) == n < Limit

\* The UPDATE skips rows deleted meanwhile; then the cursor moves.
BatchEnd(p) ==
    LET upd == {i \in rb[p].ids : i \in Live}
        max == MaxOf(upd)
    IN  /\ rb[p].pc = "batch"
        /\ fts' = [i \in Ids |-> IF i \in upd THEN lang ELSE fts[i]]
        /\ IF IsLast(Cardinality(upd))
           THEN /\ applied' = lang
                /\ cursor' = IF max > cursor THEN max ELSE cursor
                /\ SetRb(p, Resting)
           ELSE /\ cursor' = max
                /\ SetRb(p, [pc |-> "pass", ids |-> {}])
                /\ UNCHANGED applied
        /\ UNCHANGED <<alive, conn, dims, lang, owner, by, last, job, search>>

\* The replica dies or the statement fails: the transaction is undone.
BatchAborts(p) ==
    /\ rb[p].pc = "batch"
    /\ SetRb(p, Resting)
    /\ UNCHANGED <<store, rows, job, search>>

\* The pass is over: another replica holds the lock, nothing is left to do,
\* the store is gone, or the replica stops.
EndPass(p) ==
    /\ rb[p].pc = "pass"
    /\ SetRb(p, Resting)
    /\ UNCHANGED <<store, rows, job, search>>
-----------------------------------------------------------------------------
(* Searches.                                                               *)

\* lexicalPlan: the language whose column and configuration are searched.
LexicalPlan(l, a) == IF l # "simple" /\ a = l THEN l ELSE "simple"

SetSearch(s, x) == search' = [search EXCEPT ![s] = x]

\* SearchWithFilter reads the store; a store without chunks is not searched.
StartSearch(s) ==
    /\ search[s].pc = "idle" /\ alive /\ Live # {}
    /\ SetSearch(s, Searching("embed", conn, "simple"))
    /\ UNCHANGED <<store, rows, job, rb>>

\* The query is embedded with the connection read before.
EmbedQuery(s) ==
    /\ search[s].pc = "embed"
    /\ SetSearch(s, Searching("check", search[s].vec, "simple"))
    /\ UNCHANGED <<store, rows, job, rb>>

\* SearchWithBackend reads the store again and compares the widths.
CheckSearch(s) ==
    /\ search[s].pc = "check"
    /\ alive /\ dims = Width[search[s].vec] /\ Live # {}
    /\ SetSearch(s, Searching("run", search[s].vec, LexicalPlan(lang, applied)))
    /\ UNCHANGED <<store, rows, job, rb>>

\* Mutant of PlanOf: the plan of the reading before the snapshot.
PlanOf_Stale(s) == search[s].plan

\* runSearch reads the language in the snapshot it searches.
PlanOf(s) == LexicalPlan(lang, applied)

\* Chunk i is in the table of v's width (vecTable).
InTable(i, v) == Width[by[i]] = Width[v]

\* One snapshot: the lexical leg reads every chunk's column, the vectors come
\* from the table of one width.
RunSearch(s) ==
    /\ search[s].pc = "run" /\ alive
    /\ SetSearch(s, [pc |-> "done", vec |-> search[s].vec, plan |-> PlanOf(s),
                     hits |-> {i \in Live : InTable(i, search[s].vec)}])
    /\ UNCHANGED <<store, rows, job, rb>>

\* The search is answered, empty or failed.
EndSearch(s) ==
    /\ search[s].pc # "idle"
    /\ SetSearch(s, NoSearch)
    /\ UNCHANGED <<store, rows, job, rb>>
-----------------------------------------------------------------------------
Step ==
    \/ \E c \in Conns, l \in Langs : Update(c, l)
    \/ DeleteStore
    \/ \E d \in Docs : DeleteDocument(d) \/ StartIngest(d) \/ Embed(d) \/ Reuse(d) \/ IngestFails(d)
    \/ \E d \in Docs, n \in Pieces : Store(d, n)
    \/ \E p \in Replicas : StartPass(p) \/ BatchStart(p) \/ BatchEnd(p) \/ BatchAborts(p) \/ EndPass(p)
    \/ \E s \in Searches : StartSearch(s) \/ EmbedQuery(s) \/ CheckSearch(s) \/ RunSearch(s) \/ EndSearch(s)

\* What the history remembers of a step.  A full batch that loses a row to a
\* deletion passes for the last one, and the chunks after it keep the language
\* they had until the language is changed again.
LeftBehind(p) ==
    IF rb[p].pc = "batch" /\ Cardinality(rb[p].ids) = Limit /\ ~(rb[p].ids \subseteq Live)
    THEN {i \in Live : i > MaxOf(rb[p].ids)} ELSE {}

\* Only widths tell a donor from a stranger.  A job that copies vectors while
\* the store is bound to a connection other than the one the job read, or from
\* chunks brought in that way, gets the vectors of another model of that width,
\* and stores them if its own connection is back by then.
Strange(d) ==
    /\ job'[d].vec # job[d].conn
    /\ conn # job[d].conn \/ \E i \in foreign : by[i] = job'[d].vec

Remember ==
    /\ missed' = IF lang' # lang THEN {}
                 ELSE IF applied' # applied THEN UNION {LeftBehind(p) : p \in Replicas}
                 ELSE missed
    /\ lent' = {d \in Docs : job'[d].pc = "store" /\ IF job[d].pc = "embed" THEN Strange(d) ELSE d \in lent}
    /\ foreign' = {i \in Ids : owner'[i] # NoDoc /\ IF owner[i] = NoDoc THEN owner'[i] \in lent ELSE i \in foreign}

Next == Step /\ Remember

Spec == Init /\ [][Next]_vars

\* Every replica polls for stores to rebuild, and batches do not fail forever.
Fairness ==
    \A p \in Replicas :
        WF_<<store, rows, rb>>(StartPass(p)) /\ SF_<<store, rows, rb>>(BatchStart(p)) /\ SF_<<store, rows, rb>>(BatchEnd(p))

FairSpec == Spec /\ Fairness
-----------------------------------------------------------------------------
(* Properties.                                                             *)

\* All vectors of a store were made by its connection: an ingest that raced a
\* connection change writes nothing (ErrEmbeddingConnectionChanged, "they would
\* be written next to vectors of another model"), but for copied vectors that
\* came from another model of the same width.
VectorsMatchBinding == \A i \in Live \ foreign : by[i] = conn

\* The width of every vector, copied ones included, is the connection's, and so
\* is the bound one: a connection change frees it, so that the next ingest is
\* not refused (UpdateRAGStore).
WidthsMatchConnection ==
    /\ \A i \in Live : Width[by[i]] = Width[conn]
    /\ dims # 0 => dims = Width[conn]

\* The same over rows of the right types: no chunk is stored without a vector.
StoreSound == TypeOK /\ VectorsMatchBinding /\ WidthsMatchConnection

\* A language that counts as applied is the language of every chunk's fts
\* column (lexicalPlan, "chunks.fts complete for the store's language").
AppliedIsComplete == lang # "simple" /\ applied = lang => \A i \in Live : fts[i] = lang

\* ... of every chunk but those after a full batch that a deletion made look
\* like the last one (RebuildFTSBatch, done := rows < limit).
AppliedExplained ==
    lang # "simple" /\ applied = lang => \A i \in Live \ missed : fts[i] = lang

\* The chunks up to the cursor are in the current language, whatever is
\* ingested, deleted or aborted while the rebuild runs (RebuildFTSBatch).
CursorCovers == lang # "simple" => \A i \in Live : i <= cursor => fts[i] = lang

\* A search is answered.
Answered(s) == search[s].pc = "run" /\ search'[s].pc = "done"

\* It queries the fts column with the configuration the column was built with,
\* although the language may have changed since the search read it first
\* (runSearch, "never queries a column with a configuration it was not built with").
PlanFits(s) ==
    search'[s].plan # "simple" => \A i \in Live \ missed : fts[i] = search'[s].plan

\* It compares the query with vectors of the query's own model only, unless the
\* store has moved to another connection of the same width since the query was
\* embedded (SearchWithBackend compares widths).
ModelFits(s) ==
    \A i \in search'[s].hits \ foreign :
        by[i] = search[s].vec \/ (conn # search[s].vec /\ Width[conn] = Width[search[s].vec])

\* Both hold of every answer, whatever happens between a search's three
\* readings of the store.
SearchSound ==
    [][\A s \in Searches : Answered(s) => PlanFits(s) /\ ModelFits(s)]_vars

\* A language that stays set is applied, across aborted batches and replicas
\* that find the store busy (docs/scaling.md, "another continues from the cursor").
RebuildFinishes ==
    \A l \in Langs : (alive /\ NeedsRebuild /\ lang = l) ~> (~alive \/ lang # l \/ applied = l)
=============================================================================
