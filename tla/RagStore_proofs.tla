--------------------------- MODULE RagStore_proofs ---------------------------
(***************************************************************************)
(* Machine-checked proofs about RagStore, for any number of documents,     *)
(* connections, languages, replicas and searches and any batch size.       *)
(***************************************************************************)
EXTENDS RagStore, WellFoundedInduction, TLAPS

USE WidthAssumption, LangsAssumption, SizesAssumption, NamesAssumption

\* A non-empty set of chunk ids has a largest element, and MaxOf is it.
LEMMA MaxOfMax ==
    ASSUME NEW S \in SUBSET Ids
    PROVE  /\ MaxOf(S) \in 0..MaxChunk
           /\ S # {} => MaxOf(S) \in S
           /\ \A i \in S : i <= MaxOf(S)
<1>1. CASE S = {}
  BY <1>1 DEF MaxOf
<1>2. CASE S # {}
  <2> DEFINE T == {MaxChunk - i : i \in S}
  <2>0. \A i \in S : i \in 1..MaxChunk
    BY DEF Ids
  <2>1. T \subseteq Nat /\ T # {}
    <3>1. PICK i \in S : TRUE
      BY <1>2
    <3>2. MaxChunk - i \in T
      OBVIOUS
    <3>3. \A j \in S : MaxChunk - j \in Nat
      BY <2>0
    <3> QED
      BY <3>2, <3>3
  <2>2. PICK x \in T : \A y \in T : ~(<<y, x>> \in OpToRel(<, Nat))
    <3> HIDE DEF T
    <3> QED
      BY <2>1, NatLessThanWellFounded, WFMin
  <2>3. \A y \in T : ~(y < x)
    BY <2>1, <2>2 DEF OpToRel
  <2>4. PICK i \in S : x = MaxChunk - i
    BY <2>2
  <2>5. \A j \in S : j <= i
    <3> TAKE j \in S
    <3>1. ~(MaxChunk - j < MaxChunk - i)
      BY <2>3, <2>4
    <3> QED
      BY <2>0, <3>1
  <2>6. MaxOf(S) \in S /\ \A j \in S : j <= MaxOf(S)
    <3>1. MaxOf(S) = CHOOSE k \in S : \A j \in S : j <= k
      BY <1>2 DEF MaxOf
    <3>2. \E k \in S : \A j \in S : j <= k
      BY <2>5
    <3> QED
      BY <3>1, <3>2, Zenon
  <2> QED
    BY <2>0, <2>6
<1> QED
  BY <1>1, <1>2
-----------------------------------------------------------------------------
(* Types.                                                                  *)

\* Records built by the actions have their types.
LEMMA RecordTypes ==
    /\ NoJob \in Job /\ Resting \in Rebuilder /\ NoSearch \in Search
    /\ \A c \in Conns, n \in Nat, b \in BOOLEAN :
          [pc |-> "embed", conn |-> c, dims |-> n, new |-> b, vec |-> NoConn] \in Job
    /\ \A j \in Job, c \in Conns \cup {NoConn} : Embedded(j, c) \in Job
    /\ \A S \in SUBSET Ids : /\ [pc |-> "batch", ids |-> S] \in Rebuilder
                             /\ [pc |-> "pass", ids |-> S] \in Rebuilder
    /\ \A pc \in {"embed", "check", "run"}, c \in Conns \cup {NoConn}, l \in Langs :
          Searching(pc, c, l) \in Search
BY DEF Job, Rebuilder, Search, NoJob, Resting, NoSearch, Searching, Embedded

\* Running jobs have their connection, embedded ones their vectors, and so
\* has every row: widths are only ever looked up for real connections.  Chunk
\* ids are not used twice.
JobsComplete ==
    \A d \in Docs : /\ job[d].pc = "embed" => job[d].conn \in Conns
                    /\ job[d].pc = "store" => job[d].vec \in Conns
RowsComplete == \A i \in Live : by[i] \in Conns /\ i <= last

TypeInv == TypeOK /\ JobsComplete /\ RowsComplete

\* The types of what the program has, without the history.
StoreType ==
    /\ alive \in BOOLEAN /\ conn \in Conns /\ dims \in Nat
    /\ lang \in Langs /\ applied \in Langs \cup {"none"} /\ cursor \in 0..MaxChunk
    /\ owner \in [Ids -> Docs \cup {NoDoc}]
    /\ fts \in [Ids -> Langs \cup {"none"}]
    /\ by \in [Ids -> Conns \cup {NoConn}]
    /\ last \in 0..MaxChunk
    /\ job \in [Docs -> Job]
    /\ rb \in [Replicas -> Rebuilder]
    /\ search \in [Searches -> Search]

\* Every step keeps them.
LEMMA StoreTypeStep == TypeInv /\ Step => StoreType'
<1> SUFFICES ASSUME StoreType, JobsComplete, Step PROVE StoreType'
  BY DEF TypeInv, TypeOK, StoreType
<1>1. ASSUME NEW c \in Conns, NEW l \in Langs, Update(c, l) PROVE StoreType'
  BY <1>1 DEF StoreType, Update, NewDims, NewApplied, NewCursor
<1>2. ASSUME DeleteStore PROVE StoreType'
  BY <1>2, RecordTypes DEF StoreType, DeleteStore, Without
<1>3. ASSUME NEW d \in Docs, DeleteDocument(d) PROVE StoreType'
  BY <1>3, RecordTypes DEF StoreType, DeleteDocument, Without
<1>4. ASSUME NEW d \in Docs, StartIngest(d) \/ Embed(d) \/ Reuse(d) \/ IngestFails(d) PROVE StoreType'
  <2>1. job[d] \in Job /\ job[d].conn \in Conns \cup {NoConn}
    BY DEF StoreType, Job
  <2>2. job' \in [Docs -> Job]
    <3>1. CASE StartIngest(d)
      <4>1. PICK b \in BOOLEAN : b = ~Has(d)
        BY DEF Has
      <4>2. [pc |-> "embed", conn |-> conn, dims |-> dims, new |-> ~Has(d), vec |-> NoConn] \in Job
        BY <4>1, RecordTypes DEF StoreType
      <4> QED
        BY <3>1, <4>2 DEF StartIngest, StoreType
    <3>2. CASE Embed(d)
      BY <2>1, <3>2, RecordTypes DEF Embed, StoreType
    <3>3. CASE Reuse(d)
      <4>1. PICK i \in Ids : job' = [job EXCEPT ![d] = Embedded(job[d], by[i])]
        BY <3>3 DEF Reuse
      <4>2. by[i] \in Conns \cup {NoConn}
        BY DEF StoreType
      <4> QED
        BY <2>1, <4>1, <4>2, RecordTypes DEF StoreType
    <3>4. CASE IngestFails(d)
      BY <3>4, RecordTypes DEF IngestFails, StoreType
    <3> QED
      BY <1>4, <3>1, <3>2, <3>3, <3>4
  <2> QED
    BY <1>4, <2>2 DEF StoreType, StartIngest, Embed, Reuse, IngestFails, store, rows
<1>5. ASSUME NEW d \in Docs, NEW n \in Pieces, Store(d, n) PROVE StoreType'
  <2>1. job[d] \in Job
    BY DEF StoreType
  <2>2. job[d].vec \in Conns \cup {NoConn}
    BY <2>1 DEF Job
  <2>3. dims' \in Nat /\ last' \in 0..MaxChunk
    <3>1. job[d].vec \in Conns
      BY <1>5 DEF Store, JobsComplete
    <3>2. n \in Nat
      OBVIOUS
    <3> QED
      BY <1>5, <3>1, <3>2 DEF Store, StoreType
  <2>4. FtsOf \in Langs \cup {"none"}
    BY DEF FtsOf, StoreType
  <2>5. /\ owner' \in [Ids -> Docs \cup {NoDoc}]
        /\ fts' \in [Ids -> Langs \cup {"none"}]
        /\ by' \in [Ids -> Conns \cup {NoConn}]
    BY <1>5, <2>2, <2>4 DEF Store, StoreType
  <2>6. job' \in [Docs -> Job]
    BY <1>5, RecordTypes DEF Store, StoreType
  <2> QED
    BY <1>5, <2>3, <2>5, <2>6 DEF Store, StoreType
<1>6. ASSUME NEW p \in Replicas, StartPass(p) \/ BatchStart(p) \/ BatchAborts(p) \/ EndPass(p) PROVE StoreType'
  <2>1. rb' \in [Replicas -> Rebuilder]
    <3>1. CASE BatchStart(p)
      <4>1. PICK S \in SUBSET Ids : rb' = [rb EXCEPT ![p] = [pc |-> "batch", ids |-> S]]
        BY <3>1 DEF BatchStart, SetRb
      <4> QED
        BY <4>1, RecordTypes DEF StoreType
    <3>2. CASE StartPass(p)
      <4>1. [pc |-> "pass", ids |-> {}] \in Rebuilder
        BY DEF Rebuilder
      <4> QED
        BY <3>2, <4>1 DEF StoreType, StartPass, SetRb
    <3>3. CASE BatchAborts(p) \/ EndPass(p)
      BY <3>3, RecordTypes DEF StoreType, BatchAborts, EndPass, SetRb
    <3> QED
      BY <1>6, <3>1, <3>2, <3>3
  <2> QED
    BY <1>6, <2>1 DEF StoreType, StartPass, BatchStart, BatchAborts, EndPass, store, rows
<1>7. ASSUME NEW p \in Replicas, BatchEnd(p) PROVE StoreType'
  <2> DEFINE upd == {i \in rb[p].ids : i \in Live}
  <2>1. upd \in SUBSET Ids
    BY DEF Live
  <2>2. MaxOf(upd) \in 0..MaxChunk
    BY <2>1, MaxOfMax
  <2> HIDE DEF upd
  <2>3. fts' = [i \in Ids |-> IF i \in upd THEN lang ELSE fts[i]]
    BY <1>7 DEF BatchEnd, upd
  <2>4. /\ applied' \in {applied, lang}
        /\ cursor' \in {MaxOf(upd), cursor}
        /\ rb' = [rb EXCEPT ![p] = Resting] \/ rb' = [rb EXCEPT ![p] = [pc |-> "pass", ids |-> {}]]
    BY <1>7 DEF BatchEnd, upd, SetRb
  <2>5. rb' \in [Replicas -> Rebuilder]
    <3>1. [pc |-> "pass", ids |-> {}] \in Rebuilder /\ Resting \in Rebuilder
      BY DEF Rebuilder, Resting
    <3> QED
      BY <2>4, <3>1 DEF StoreType
  <2> QED
    BY <1>7, <2>2, <2>3, <2>4, <2>5 DEF StoreType, BatchEnd
<1>8. ASSUME NEW s \in Searches,
             StartSearch(s) \/ EmbedQuery(s) \/ CheckSearch(s) \/ RunSearch(s) \/ EndSearch(s)
      PROVE  StoreType'
  <2>1. search[s] \in Search
    BY DEF StoreType
  <2>2. search[s].vec \in Conns \cup {NoConn}
    BY <2>1 DEF Search
  <2>3. LexicalPlan(lang, applied) \in Langs
    BY DEF LexicalPlan, StoreType
  <2>4. search' \in [Searches -> Search]
    <3>1. CASE StartSearch(s) \/ EmbedQuery(s) \/ CheckSearch(s) \/ EndSearch(s)
      <4>1. ASSUME NEW x \in Search, SetSearch(s, x) PROVE search' \in [Searches -> Search]
        BY <4>1 DEF StoreType, SetSearch
      <4>2. CASE StartSearch(s)
        <5>1. Searching("embed", conn, "simple") \in Search
          BY RecordTypes DEF StoreType
        <5> QED
          BY <4>1, <4>2, <5>1 DEF StartSearch
      <4>3. CASE EmbedQuery(s)
        <5>1. Searching("check", search[s].vec, "simple") \in Search
          BY <2>2, RecordTypes
        <5> QED
          BY <4>1, <4>3, <5>1 DEF EmbedQuery
      <4>4. CASE CheckSearch(s)
        <5>1. Searching("run", search[s].vec, LexicalPlan(lang, applied)) \in Search
          BY <2>2, <2>3, RecordTypes
        <5> QED
          BY <4>1, <4>4, <5>1 DEF CheckSearch
      <4>5. CASE EndSearch(s)
        BY <4>1, <4>5, RecordTypes DEF EndSearch
      <4> QED
        BY <3>1, <4>2, <4>3, <4>4, <4>5
    <3>2. CASE RunSearch(s)
      <4> DEFINE hits == {i \in Live : InTable(i, search[s].vec)}
                 x == [pc |-> "done", vec |-> search[s].vec, plan |-> PlanOf(s), hits |-> hits]
      <4>1. hits \subseteq Ids
        BY DEF Live
      <4>2. x \in Search
        BY <2>2, <2>3, <4>1 DEF Search, StoreType, PlanOf
      <4> QED
        BY <3>2, <4>2 DEF RunSearch, SetSearch, StoreType
    <3> QED
      BY <1>8, <3>1, <3>2
  <2> QED
    BY <1>8, <2>4 DEF StoreType, StartSearch, EmbedQuery, CheckSearch, RunSearch, EndSearch, store, rows
<1> QED
  BY <1>1, <1>2, <1>3, <1>4, <1>5, <1>6, <1>7, <1>8 DEF Step

\* And so does the history.
LEMMA TypeStep == TypeInv /\ [Next]_vars => TypeOK'
<1> SUFFICES ASSUME TypeInv, [Next]_vars PROVE TypeOK'
  OBVIOUS
<1>1. CASE Next
  <2>1. StoreType'
    BY <1>1, StoreTypeStep DEF Next, Step
  <2>2. \A p \in Replicas : LeftBehind(p) \subseteq Ids
    BY DEF LeftBehind, Live
  <2>3. missed' \subseteq Ids
    BY <1>1, <2>2 DEF Next, Remember, TypeInv, TypeOK
  <2>4. lent' \subseteq Docs /\ foreign' \subseteq Ids
    BY <1>1 DEF Next, Remember
  <2> QED
    BY <2>1, <2>3, <2>4 DEF StoreType, TypeOK
<1>2. CASE UNCHANGED vars
  BY <1>2 DEF vars, TypeInv, TypeOK
<1> QED
  BY <1>1, <1>2

\* A vector is computed before it is stored.
LEMMA CompleteStep == TypeInv /\ [Next]_vars => JobsComplete' /\ RowsComplete'
<1> SUFFICES ASSUME TypeOK, JobsComplete, RowsComplete, [Next]_vars
             PROVE  JobsComplete' /\ RowsComplete'
  BY DEF TypeInv
<1>0. \A i \in Live : i \in Ids /\ owner[i] # NoDoc
  BY DEF Live
<1>1. ASSUME NEW c \in Conns, NEW l \in Langs, Update(c, l) PROVE JobsComplete' /\ RowsComplete'
  BY <1>1 DEF Update, JobsComplete, RowsComplete, Live
<1>2. ASSUME NEW ds \in SUBSET Docs, Without(ds), last' = last PROVE RowsComplete'
  BY <1>2 DEF Without, RowsComplete, Live
<1>3. ASSUME DeleteStore PROVE JobsComplete' /\ RowsComplete'
  BY <1>2, <1>3 DEF DeleteStore, JobsComplete, NoJob
<1>4. ASSUME NEW d \in Docs, DeleteDocument(d) PROVE JobsComplete' /\ RowsComplete'
  <2>1. RowsComplete'
    BY <1>2, <1>4 DEF DeleteDocument
  <2>2. JobsComplete'
    BY <1>4 DEF DeleteDocument, JobsComplete, NoJob, TypeOK
  <2> QED
    BY <2>1, <2>2
<1>5. ASSUME NEW d \in Docs, StartIngest(d) \/ Embed(d) \/ Reuse(d) \/ IngestFails(d)
      PROVE  JobsComplete' /\ RowsComplete'
  <2>1. RowsComplete'
    BY <1>5 DEF StartIngest, Embed, Reuse, IngestFails, rows, RowsComplete, Live
  <2>2. \A e \in Docs : e # d => job'[e] = job[e]
    BY <1>5 DEF StartIngest, Embed, Reuse, IngestFails, TypeOK
  <2>3. /\ job'[d].pc = "embed" => job'[d].conn \in Conns
        /\ job'[d].pc = "store" => job'[d].vec \in Conns
    <3>1. CASE StartIngest(d)
      BY <3>1 DEF StartIngest, TypeOK
    <3>2. CASE Embed(d)
      BY <3>2 DEF Embed, Embedded, TypeOK, JobsComplete
    <3>3. CASE Reuse(d)
      <4>1. PICK i \in Ids : Donates(job[d], i, d) /\ job' = [job EXCEPT ![d] = Embedded(job[d], by[i])]
        BY <3>3 DEF Reuse
      <4>2. by[i] \in Conns
        BY <4>1 DEF Donates, RowsComplete
      <4> QED
        BY <4>1, <4>2 DEF Embedded, TypeOK
    <3>4. CASE IngestFails(d)
      BY <3>4 DEF IngestFails, NoJob, TypeOK
    <3> QED
      BY <1>5, <3>1, <3>2, <3>3, <3>4
  <2> QED
    BY <2>1, <2>2, <2>3 DEF JobsComplete
<1>6. ASSUME NEW d \in Docs, NEW n \in Pieces, Store(d, n) PROVE JobsComplete' /\ RowsComplete'
  <2>1. job[d].vec \in Conns
    BY <1>6 DEF Store, JobsComplete
  <2>2. RowsComplete'
    <3>1. n \in Nat /\ last \in 0..MaxChunk /\ last' = last + n
      BY <1>6 DEF Store, TypeOK
    <3>2. ASSUME NEW i \in Ids, owner'[i] # NoDoc PROVE by'[i] \in Conns /\ i <= last'
      <4>1. CASE i \in (last + 1)..(last + n)
        BY <1>6, <2>1, <3>1, <4>1 DEF Store
      <4>2. CASE i \notin (last + 1)..(last + n)
        <5>1. i \in Live /\ by'[i] = by[i]
          BY <1>6, <3>2, <4>2 DEF Store, Live
        <5> QED
          BY <3>1, <5>1 DEF RowsComplete, Ids
      <4> QED
        BY <4>1, <4>2
    <3> QED
      BY <3>2 DEF RowsComplete, Live
  <2>3. JobsComplete'
    BY <1>6 DEF Store, JobsComplete, NoJob, TypeOK
  <2> QED
    BY <2>2, <2>3
<1>7. ASSUME NEW p \in Replicas,
             StartPass(p) \/ BatchStart(p) \/ BatchEnd(p) \/ BatchAborts(p) \/ EndPass(p)
      PROVE  JobsComplete' /\ RowsComplete'
  <2>1. job' = job /\ owner' = owner /\ by' = by /\ last' = last
    BY <1>7 DEF StartPass, BatchStart, BatchEnd, BatchAborts, EndPass, store, rows
  <2> QED
    BY <2>1 DEF JobsComplete, RowsComplete, Live
<1>8. ASSUME NEW s \in Searches,
             StartSearch(s) \/ EmbedQuery(s) \/ CheckSearch(s) \/ RunSearch(s) \/ EndSearch(s)
      PROVE  JobsComplete' /\ RowsComplete'
  <2>1. job' = job /\ owner' = owner /\ by' = by /\ last' = last
    BY <1>8 DEF StartSearch, EmbedQuery, CheckSearch, RunSearch, EndSearch, store, rows
  <2> QED
    BY <2>1 DEF JobsComplete, RowsComplete, Live
<1>9. CASE UNCHANGED vars
  BY <1>9 DEF vars, JobsComplete, RowsComplete, Live
<1> QED
  BY <1>1, <1>3, <1>4, <1>5, <1>6, <1>7, <1>8, <1>9 DEF Next, Step

\* The types hold at first.
LEMMA TypeInit == Init => TypeInv
<1> SUFFICES ASSUME Init PROVE TypeInv
  OBVIOUS
<1>1. TypeOK
  BY RecordTypes DEF Init, TypeOK
<1>2. JobsComplete
  BY DEF Init, JobsComplete, NoJob
<1>3. RowsComplete
  BY DEF Init, RowsComplete, Live
<1> QED
  BY <1>1, <1>2, <1>3 DEF TypeInv

\* The types and the order of a job's steps hold throughout.
LEMMA TypeInvariant == Spec => []TypeInv
<1>1. TypeInv /\ [Next]_vars => TypeInv'
  BY TypeStep, CompleteStep DEF TypeInv
<1> QED
  BY TypeInit, <1>1, PTL DEF Spec

\* The store row, the chunk rows and the processes keep their types: the
\* width of a store is a real width and its cursor a chunk id, whatever the
\* jobs, the rebuilders and the searches do.
THEOREM TypeCorrect == Spec => []TypeOK
<1>1. TypeInv => TypeOK
  BY DEF TypeInv
<1> QED
  BY TypeInvariant, <1>1, PTL
-----------------------------------------------------------------------------
(* The embedding connection.                                               *)

\* A job that has its vectors is as lent after a step as before.
LEMMA LentStep ==
    ASSUME [Next]_vars, NEW d \in Docs, job'[d].pc = "store", d \notin lent'
    PROVE  /\ job[d].pc # "embed" => d \notin lent
           /\ job[d].pc = "embed" => ~Strange(d)
<1>1. CASE Remember
  BY <1>1 DEF Remember
<1>2. CASE UNCHANGED vars
  BY <1>2 DEF vars
<1> QED
  BY <1>1, <1>2 DEF Next

\* A chunk is foreign from the step that stores it.
LEMMA ForeignStep ==
    ASSUME [Next]_vars, NEW i \in Live', i \notin foreign'
    PROVE  /\ owner[i] # NoDoc => i \notin foreign
           /\ owner[i] = NoDoc => owner'[i] \notin lent
<1>1. CASE Remember
  BY <1>1 DEF Remember, Live
<1>2. CASE UNCHANGED vars
  BY <1>2 DEF vars, Live
<1> QED
  BY <1>1, <1>2 DEF Next

\* What a job knows is about the connection it read: the width, and the origin
\* of its vectors.  Copied ones have that width too, and are its own unless the
\* store's connection changed while the job ran.
JobsKnow ==
    \A d \in Docs :
        /\ job[d].pc = "embed" /\ job[d].dims # 0 => job[d].dims = Width[job[d].conn]
        /\ job[d].pc = "store" => /\ Width[job[d].vec] = Width[job[d].conn]
                                  /\ d \notin lent => job[d].vec = job[d].conn

BindingInv == TypeInv /\ VectorsMatchBinding /\ WidthsMatchConnection /\ JobsKnow

\* A step that changes neither the jobs nor the store's connection and adds no
\* rows.
LEMMA CalmBinding ==
    ASSUME BindingInv, [Next]_vars, conn' = conn, dims' = dims,
           \A d \in Docs : job'[d] = job[d] \/ job'[d].pc = "idle",
           \A i \in Live' : i \in Live /\ by'[i] = by[i]
    PROVE  VectorsMatchBinding' /\ WidthsMatchConnection' /\ JobsKnow'
<1>0. VectorsMatchBinding /\ WidthsMatchConnection /\ JobsKnow
  BY DEF BindingInv
<1>1. VectorsMatchBinding'
  <2>1. ASSUME NEW i \in Live', i \notin foreign' PROVE by'[i] = conn'
    <3>1. i \in Live /\ i \notin foreign
      BY <2>1, ForeignStep DEF Live
    <3> QED
      BY <1>0, <3>1 DEF VectorsMatchBinding
  <2> QED
    BY <2>1 DEF VectorsMatchBinding
<1>2. WidthsMatchConnection'
  BY <1>0 DEF WidthsMatchConnection
<1>3. JobsKnow'
  <2>1. ASSUME NEW d \in Docs, job'[d].pc = "store", d \notin lent' PROVE job'[d].vec = job'[d].conn
    <3>1. job'[d] = job[d] /\ d \notin lent
      BY <2>1, LentStep
    <3> QED
      BY <1>0, <2>1, <3>1 DEF JobsKnow
  <2> QED
    BY <1>0, <2>1 DEF JobsKnow
<1> QED
  BY <1>1, <1>2, <1>3

\* No step mixes the vectors of two widths, nor, copied ones aside, of two
\* connections.
LEMMA BindingStep ==
    ASSUME BindingInv, [Next]_vars
    PROVE  VectorsMatchBinding' /\ WidthsMatchConnection' /\ JobsKnow'
<1>0. TypeOK /\ JobsComplete /\ RowsComplete /\ VectorsMatchBinding /\ WidthsMatchConnection /\ JobsKnow
  BY DEF BindingInv, TypeInv
<1> DEFINE Goal == VectorsMatchBinding' /\ WidthsMatchConnection' /\ JobsKnow'
<1>1. ASSUME NEW c \in Conns, NEW l \in Langs, Update(c, l) PROVE Goal
  <2>1. job' = job /\ by' = by /\ Live' = Live /\ conn' = c
    BY <1>1 DEF Update, Live
  <2>2. CASE c = conn
    <3>1. dims' = dims
      BY <1>1, <2>2 DEF Update, NewDims
    <3> QED
      BY <2>1, <2>2, <3>1, CalmBinding
  <2>3. CASE c # conn
    <3>1. Live' = {} /\ dims' = 0
      BY <1>1, <2>1, <2>3 DEF Update, NewDims
    <3>2. ASSUME NEW d \in Docs, job'[d].pc = "store", d \notin lent' PROVE job'[d].vec = job'[d].conn
      <4>1. job'[d] = job[d] /\ d \notin lent
        BY <2>1, <3>2, LentStep
      <4> QED
        BY <1>0, <3>2, <4>1 DEF JobsKnow
    <3>3. JobsKnow'
      BY <1>0, <2>1, <3>2 DEF JobsKnow
    <3> QED
      BY <3>1, <3>3 DEF VectorsMatchBinding, WidthsMatchConnection
  <2> QED
    BY <2>2, <2>3
<1>2. ASSUME NEW ds \in SUBSET Docs, Without(ds), NEW i \in Live' PROVE i \in Live /\ by'[i] = by[i]
  BY <1>2 DEF Without, Live
<1>3. ASSUME DeleteStore PROVE Goal
  <2>1. Without(Docs) /\ conn' = conn /\ dims' = dims /\ job' = [d \in Docs |-> NoJob]
    BY <1>3 DEF DeleteStore
  <2>2. \A d \in Docs : job'[d].pc = "idle"
    BY <2>1 DEF NoJob
  <2> QED
    BY <1>2, <2>1, <2>2, CalmBinding
<1>4. ASSUME NEW d \in Docs, DeleteDocument(d) PROVE Goal
  <2>1. Without({d}) /\ conn' = conn /\ dims' = dims /\ job' = [job EXCEPT ![d] = NoJob]
    BY <1>4 DEF DeleteDocument
  <2>2. \A e \in Docs : job'[e] = job[e] \/ job'[e].pc = "idle"
    BY <1>0, <2>1 DEF NoJob, TypeOK
  <2> QED
    BY <1>2, <2>1, <2>2, CalmBinding
<1>5. ASSUME NEW d \in Docs, StartIngest(d) \/ Embed(d) \/ Reuse(d) \/ IngestFails(d) PROVE Goal
  <2>0. owner' = owner /\ by' = by /\ conn' = conn /\ dims' = dims
    BY <1>5 DEF StartIngest, Embed, Reuse, IngestFails, rows, store
  <2>1. VectorsMatchBinding' /\ WidthsMatchConnection'
    <3>1. Live' = Live
      BY <2>0 DEF Live
    <3>2. \A i \in Live' : i \notin foreign' => i \notin foreign
      BY <2>0, ForeignStep DEF Live
    <3> QED
      BY <1>0, <2>0, <3>1, <3>2 DEF VectorsMatchBinding, WidthsMatchConnection
  <2>2. \A e \in Docs : e # d => job'[e] = job[e]
    BY <1>0, <1>5 DEF StartIngest, Embed, Reuse, IngestFails, TypeOK
  <2>3. /\ job'[d].pc = "embed" /\ job'[d].dims # 0 => job'[d].dims = Width[job'[d].conn]
        /\ job'[d].pc = "store" => /\ Width[job'[d].vec] = Width[job'[d].conn]
                                   /\ d \notin lent' => job'[d].vec = job'[d].conn
    <3>1. CASE StartIngest(d)
      BY <1>0, <3>1 DEF StartIngest, TypeOK, WidthsMatchConnection
    <3>2. CASE Embed(d)
      BY <1>0, <3>2 DEF Embed, Embedded, TypeOK
    <3>3. CASE Reuse(d)
      <4>1. PICK i \in Ids : Donates(job[d], i, d) /\ job' = [job EXCEPT ![d] = Embedded(job[d], by[i])]
        BY <3>3 DEF Reuse
      <4>2. i \in Live /\ job[d].pc = "embed" /\ job[d].dims > 0 /\ Width[by[i]] = job[d].dims
        BY <1>0, <3>3, <4>1 DEF Donates, Reuse
      <4>3. job[d].dims = Width[job[d].conn]
        BY <1>0, <4>2 DEF JobsKnow
      <4>4. job'[d].vec = by[i] /\ job'[d].conn = job[d].conn /\ job'[d].pc = "store"
        BY <1>0, <4>1 DEF Embedded, TypeOK
      <4>5. ASSUME d \notin lent' PROVE job'[d].vec = job'[d].conn
        <5>1. ~Strange(d)
          BY <4>2, <4>4, <4>5, LentStep
        <5>2. ASSUME job'[d].vec # job[d].conn PROVE FALSE
          <6>1. conn = job[d].conn /\ i \notin foreign
            BY <4>4, <5>1, <5>2 DEF Strange
          <6>2. by[i] = conn
            BY <1>0, <4>2, <6>1 DEF VectorsMatchBinding
          <6> QED
            BY <4>4, <5>2, <6>1, <6>2
        <5> QED
          BY <4>4, <5>2
      <4> QED
        BY <4>2, <4>3, <4>4, <4>5
    <3>4. CASE IngestFails(d)
      BY <1>0, <3>4 DEF IngestFails, NoJob, TypeOK
    <3> QED
      BY <1>5, <3>1, <3>2, <3>3, <3>4
  <2>4. ASSUME NEW e \in Docs, e # d, job'[e].pc = "store", e \notin lent' PROVE e \notin lent
    BY <2>2, <2>4, LentStep
  <2> QED
    BY <1>0, <2>1, <2>2, <2>3, <2>4 DEF JobsKnow
<1>6. ASSUME NEW d \in Docs, NEW n \in Pieces, Store(d, n) PROVE Goal
  <2> DEFINE new == (last + 1)..(last + n)
  <2>1. conn = job[d].conn /\ conn' = conn /\ job[d].pc = "store"
    BY <1>6 DEF Store, Binds
  <2>2. Width[job[d].vec] = Width[conn] /\ (d \notin lent => job[d].vec = conn)
    BY <1>0, <2>1 DEF JobsKnow
  <2>3. /\ \A i \in new \cap Ids : owner'[i] = d /\ by'[i] = job[d].vec
        /\ \A i \in Live' \ new : i \in Live /\ by'[i] = by[i]
    BY <1>0, <1>6 DEF Store, Live
  <2>4. \A i \in new \cap Ids : owner[i] = NoDoc
    <3> SUFFICES ASSUME NEW i \in new \cap Ids, i \in Live PROVE FALSE
      BY DEF Live
    <3>1. last \in Nat /\ i \in Nat /\ i > last
      BY <1>0 DEF TypeOK, Ids
    <3> QED
      BY <1>0, <3>1 DEF RowsComplete
  <2>5. VectorsMatchBinding'
    <3> SUFFICES ASSUME NEW i \in Live', i \notin foreign' PROVE by'[i] = conn
      BY <2>1 DEF VectorsMatchBinding
    <3>0. i \in Ids
      BY DEF Live
    <3>1. CASE i \in new
      <4>1. d \notin lent
        BY <2>3, <2>4, <3>0, <3>1, ForeignStep
      <4> QED
        BY <2>2, <2>3, <3>0, <3>1, <4>1
    <3>2. CASE i \notin new
      <4>1. i \in Live /\ i \notin foreign /\ by'[i] = by[i]
        BY <2>3, <3>2, ForeignStep DEF Live
      <4> QED
        BY <1>0, <4>1 DEF VectorsMatchBinding
    <3> QED
      BY <3>1, <3>2
  <2>6. WidthsMatchConnection'
    <3>1. dims' = Width[job[d].vec]
      BY <1>6 DEF Store
    <3>2. ASSUME NEW i \in Live' PROVE Width[by'[i]] = Width[conn]
      <4>1. i \in Ids
        BY DEF Live
      <4> QED
        BY <1>0, <2>2, <2>3, <4>1 DEF WidthsMatchConnection
    <3> QED
      BY <2>1, <2>2, <3>1, <3>2 DEF WidthsMatchConnection
  <2>7. JobsKnow'
    <3>1. \A e \in Docs : job'[e] = job[e] \/ job'[e].pc = "idle"
      BY <1>0, <1>6 DEF Store, NoJob, TypeOK
    <3>2. ASSUME NEW e \in Docs, job'[e].pc = "store", e \notin lent' PROVE job'[e].vec = job'[e].conn
      <4>1. job'[e] = job[e] /\ e \notin lent
        BY <3>1, <3>2, LentStep
      <4> QED
        BY <1>0, <3>2, <4>1 DEF JobsKnow
    <3> QED
      BY <1>0, <3>1, <3>2 DEF JobsKnow
  <2> QED
    BY <2>5, <2>6, <2>7
<1>7. ASSUME job' = job, owner' = owner, by' = by, conn' = conn, dims' = dims PROVE Goal
  BY <1>7, CalmBinding DEF Live
<1>8. ASSUME NEW p \in Replicas,
             StartPass(p) \/ BatchStart(p) \/ BatchEnd(p) \/ BatchAborts(p) \/ EndPass(p)
      PROVE  Goal
  BY <1>7, <1>8 DEF StartPass, BatchStart, BatchEnd, BatchAborts, EndPass, store, rows
<1>9. ASSUME NEW s \in Searches,
             StartSearch(s) \/ EmbedQuery(s) \/ CheckSearch(s) \/ RunSearch(s) \/ EndSearch(s)
      PROVE  Goal
  BY <1>7, <1>9 DEF StartSearch, EmbedQuery, CheckSearch, RunSearch, EndSearch, store, rows
<1>10. CASE UNCHANGED vars
  BY <1>7, <1>10 DEF vars
<1> QED
  BY <1>1, <1>3, <1>4, <1>5, <1>6, <1>8, <1>9, <1>10 DEF Next, Step

\* The binding holds at first, and from then on.
LEMMA BindingInvariant == Spec => []BindingInv
<1>1. Init => BindingInv
  <2> SUFFICES ASSUME Init PROVE BindingInv
    OBVIOUS
  <2>1. VectorsMatchBinding /\ WidthsMatchConnection /\ JobsKnow
    BY DEF Init, VectorsMatchBinding, WidthsMatchConnection, JobsKnow, Live, NoJob
  <2> QED
    BY <2>1, TypeInit DEF BindingInv
<1>2. BindingInv /\ [Next]_vars => BindingInv'
  BY BindingStep, TypeStep, CompleteStep DEF BindingInv, TypeInv
<1> QED
  BY <1>1, <1>2, PTL DEF Spec

\* For any connections, of equal widths as well: all vectors of a store have the
\* width of its connection and so has the bound width, and all of them are of
\* its connection but those a job copied while the store was bound to another
\* connection of that width.  Connection changes, slow jobs and copied vectors
\* do not mix two models otherwise (checkStoreBinding, reuseEmbeddings).
THEOREM StoreAlwaysSound == Spec => []StoreSound
<1>1. BindingInv => StoreSound
  BY DEF BindingInv, TypeInv, StoreSound
<1> QED
  BY BindingInvariant, <1>1, PTL
-----------------------------------------------------------------------------
(* The full-text rebuild.                                                  *)

\* At most one batch runs: the row lock and the advisory lock.
OneBatch == \A p, q \in Replicas : rb[p].pc = "batch" /\ rb[q].pc = "batch" => p = q

\* A running batch has a language to write, and leaves no gap: a row after
\* the cursor and before one of the batch is in the batch.
BatchHasNoGap ==
    \A p \in Replicas : rb[p].pc = "batch" =>
        /\ lang # "simple"
        /\ \A i \in rb[p].ids, j \in Live : cursor < j /\ j < i => j \in rb[p].ids

RebuildInv == TypeInv /\ OneBatch /\ BatchHasNoGap /\ CursorCovers

\* Steps that touch neither the rebuild nor its rows.
LEMMA CalmRebuild ==
    ASSUME RebuildInv,
           lang' = lang, cursor' = cursor, rb' = rb,
           \A i \in Ids : i \in Live' => i \in Live /\ fts'[i] = fts[i]
    PROVE  OneBatch' /\ BatchHasNoGap' /\ CursorCovers'
<1>1. \A i \in Live' : i \in Ids
  BY DEF Live
<1>2. OneBatch'
  BY DEF RebuildInv, OneBatch
<1>3. BatchHasNoGap'
  BY <1>1 DEF RebuildInv, BatchHasNoGap
<1>4. CursorCovers'
  BY <1>1 DEF RebuildInv, CursorCovers
<1> QED
  BY <1>2, <1>3, <1>4

\* What the end of a batch does, by rows.
LEMMA BatchEndFacts ==
    ASSUME RebuildInv, NEW p \in Replicas, BatchEnd(p)
    PROVE  /\ lang' = lang /\ Live' = Live /\ lang # "simple"
           /\ \A i \in Ids : fts'[i] = IF i \in rb[p].ids /\ i \in Live THEN lang ELSE fts[i]
           /\ \A i \in Live : i <= cursor' => i <= cursor \/ i \in rb[p].ids
           /\ rb'[p].pc # "batch" /\ \A q \in Replicas : q # p => rb'[q] = rb[q]
           /\ applied' = lang =>
                 IsLast(Cardinality({i \in rb[p].ids : i \in Live})) \/ applied = lang
<1> DEFINE upd == {i \in rb[p].ids : i \in Live}
<1>0. TypeOK
  BY DEF RebuildInv, TypeInv
<1>1. upd \in SUBSET Ids
  BY DEF Live
<1>2. /\ MaxOf(upd) \in 0..MaxChunk
      /\ upd # {} => MaxOf(upd) \in upd
      /\ \A i \in upd : i <= MaxOf(upd)
  BY <1>1, MaxOfMax
<1>3. MaxOf(upd) # 0 => MaxOf(upd) \in rb[p].ids
  <2>1. upd = {} => MaxOf(upd) = 0
    BY DEF MaxOf
  <2> QED
    BY <1>2, <2>1
<1>4. /\ lang # "simple"
      /\ \A i \in rb[p].ids, j \in Live : cursor < j /\ j < i => j \in rb[p].ids
  BY DEF BatchEnd, RebuildInv, BatchHasNoGap
<1>5. \A i \in Live : i \in 1..MaxChunk
  BY DEF Live, Ids
<1>6. cursor \in 0..MaxChunk
  BY <1>0 DEF TypeOK
<1>7. ASSUME NEW i \in Live, i <= MaxOf(upd), ~(i <= cursor) PROVE i \in rb[p].ids
  <2>1. i \in 1..MaxChunk /\ MaxOf(upd) # 0
    BY <1>2, <1>5, <1>7
  <2>2. CASE i = MaxOf(upd)
    BY <1>3, <2>1, <2>2
  <2>3. CASE i # MaxOf(upd)
    <3>1. cursor < i /\ i < MaxOf(upd)
      BY <1>2, <1>6, <1>7, <2>1, <2>3
    <3> QED
      BY <1>3, <1>4, <2>1, <3>1
  <2> QED
    BY <2>2, <2>3
<1>8. cursor' = cursor \/ cursor' = MaxOf(upd)
  BY DEF BatchEnd
<1>9. \A i \in Live : i <= cursor' => i <= cursor \/ i \in rb[p].ids
  BY <1>7, <1>8
<1>10. lang' = lang /\ Live' = Live
  BY DEF BatchEnd, Live
<1>11. \A i \in Ids : fts'[i] = IF i \in rb[p].ids /\ i \in Live THEN lang ELSE fts[i]
  BY DEF BatchEnd
<1>12. rb'[p].pc # "batch" /\ \A q \in Replicas : q # p => rb'[q] = rb[q]
  BY <1>0 DEF BatchEnd, SetRb, Resting, TypeOK
<1>13. applied' = lang => IsLast(Cardinality(upd)) \/ applied = lang
  BY DEF BatchEnd
<1> QED
  BY <1>4, <1>9, <1>10, <1>11, <1>12, <1>13

\* Every step keeps the rebuild cursor behind what has been rebuilt.
LEMMA RebuildStep ==
    ASSUME RebuildInv, [Next]_vars
    PROVE  OneBatch' /\ BatchHasNoGap' /\ CursorCovers'
<1> DEFINE Goal == OneBatch' /\ BatchHasNoGap' /\ CursorCovers'
<1>0. TypeOK /\ OneBatch /\ BatchHasNoGap /\ CursorCovers
  BY DEF RebuildInv, TypeInv
<1>1. ASSUME NEW c \in Conns, NEW l \in Langs, Update(c, l) PROVE Goal
  <2>1. \A p \in Replicas : rb'[p].pc # "batch"
    BY <1>1 DEF Update, RowFree
  <2>2. CursorCovers'
    <3>1. CASE l = lang
      BY <1>0, <1>1, <3>1 DEF Update, NewCursor, CursorCovers, Live
    <3>2. CASE l # lang
      <4>1. cursor' = 0
        BY <1>1, <3>2 DEF Update, NewCursor
      <4>2. \A i \in Live' : ~(i <= 0)
        BY DEF Live, Ids
      <4> QED
        BY <4>1, <4>2 DEF CursorCovers
    <3> QED
      BY <3>1, <3>2
  <2> QED
    BY <2>1, <2>2 DEF OneBatch, BatchHasNoGap
<1>2. ASSUME NEW ds \in SUBSET Docs, Without(ds), lang' = lang, cursor' = cursor, rb' = rb PROVE Goal
  BY <1>2, CalmRebuild DEF Without, Live
<1>3. ASSUME DeleteStore PROVE Goal
  BY <1>2, <1>3 DEF DeleteStore
<1>4. ASSUME NEW d \in Docs, DeleteDocument(d) PROVE Goal
  BY <1>2, <1>4 DEF DeleteDocument
<1>5. ASSUME owner' = owner, fts' = fts, lang' = lang, cursor' = cursor, rb' = rb PROVE Goal
  BY <1>5, CalmRebuild DEF Live
<1>6. ASSUME NEW d \in Docs, StartIngest(d) \/ Embed(d) \/ Reuse(d) \/ IngestFails(d) PROVE Goal
  BY <1>5, <1>6 DEF StartIngest, Embed, Reuse, IngestFails, store, rows
<1>7. ASSUME NEW d \in Docs, NEW n \in Pieces, Store(d, n) PROVE Goal
  <2>1. \A p \in Replicas : rb'[p].pc # "batch"
    BY <1>7 DEF Store, RowFree
  <2>2. CursorCovers'
    BY <1>0, <1>7 DEF Store, CursorCovers, Live, FtsOf
  <2> QED
    BY <2>1, <2>2 DEF OneBatch, BatchHasNoGap
<1>8. ASSUME NEW p \in Replicas, BatchStart(p) PROVE Goal
  <2>1. PICK S \in SUBSET Ids : IsBatch(S, Pending) /\ rb' = [rb EXCEPT ![p] = [pc |-> "batch", ids |-> S]]
    BY <1>8 DEF BatchStart, SetRb
  <2>2. lang' = lang /\ cursor' = cursor /\ owner' = owner /\ fts' = fts /\ Live' = Live
    BY <1>8 DEF BatchStart, store, rows, Live
  <2>3. rb'[p] = [pc |-> "batch", ids |-> S] /\ \A q \in Replicas : q # p => rb'[q].pc # "batch"
    BY <1>0, <1>8, <2>1 DEF BatchStart, RowFree, TypeOK
  <2>4. OneBatch'
    BY <2>3 DEF OneBatch
  <2>5. \A i \in S, j \in Live : cursor < j /\ j < i => j \in S
    <3> SUFFICES ASSUME NEW i \in S, NEW j \in Live, cursor < j, j < i PROVE j \in S
      OBVIOUS
    <3>1. cursor \in Int /\ j \in Int
      BY <1>0 DEF TypeOK, Live, Ids
    <3>2. j \in Pending
      BY <3>1 DEF Pending
    <3> QED
      BY <2>1, <3>2 DEF IsBatch
  <2>6. lang # "simple"
    BY <1>8 DEF BatchStart, NeedsRebuild
  <2>7. BatchHasNoGap'
    BY <2>2, <2>3, <2>5, <2>6 DEF BatchHasNoGap
  <2>8. CursorCovers'
    BY <1>0, <2>2 DEF CursorCovers
  <2> QED
    BY <2>4, <2>7, <2>8
<1>9. ASSUME NEW p \in Replicas, BatchEnd(p) PROVE Goal
  <2>1. \A q \in Replicas : rb'[q].pc # "batch"
    BY <1>0, <1>9, BatchEndFacts DEF OneBatch, BatchEnd
  <2>2. CursorCovers'
    <3> SUFFICES ASSUME NEW i \in Live, i <= cursor' PROVE fts'[i] = lang
      BY <1>9, BatchEndFacts DEF CursorCovers
    <3>1. i \in Ids /\ fts'[i] = IF i \in rb[p].ids /\ i \in Live THEN lang ELSE fts[i]
      BY <1>9, BatchEndFacts DEF Live
    <3>2. lang # "simple" /\ (i <= cursor \/ i \in rb[p].ids)
      BY <1>9, BatchEndFacts
    <3> QED
      BY <1>0, <3>1, <3>2 DEF CursorCovers
  <2> QED
    BY <2>1, <2>2 DEF OneBatch, BatchHasNoGap
<1>10. ASSUME NEW p \in Replicas, StartPass(p) \/ BatchAborts(p) \/ EndPass(p) PROVE Goal
  <2>1. /\ rb'[p].pc # "batch"
        /\ \A q \in Replicas : q # p => rb'[q] = rb[q]
    BY <1>0, <1>10 DEF StartPass, BatchAborts, EndPass, SetRb, Resting, TypeOK
  <2>2. lang' = lang /\ cursor' = cursor /\ owner' = owner /\ fts' = fts /\ Live' = Live
    BY <1>10 DEF StartPass, BatchAborts, EndPass, store, rows, Live
  <2>3. OneBatch'
    BY <1>0, <2>1 DEF OneBatch
  <2>4. BatchHasNoGap'
    <3> SUFFICES ASSUME NEW q \in Replicas, rb'[q].pc = "batch"
                 PROVE  /\ lang # "simple"
                        /\ \A i \in rb'[q].ids, j \in Live : cursor < j /\ j < i => j \in rb'[q].ids
      BY <2>2 DEF BatchHasNoGap
    <3>1. q # p /\ rb'[q] = rb[q]
      BY <2>1
    <3> QED
      BY <1>0, <3>1 DEF BatchHasNoGap
  <2>5. CursorCovers'
    BY <1>0, <2>2 DEF CursorCovers
  <2> QED
    BY <2>3, <2>4, <2>5
<1>11. ASSUME NEW s \in Searches,
              StartSearch(s) \/ EmbedQuery(s) \/ CheckSearch(s) \/ RunSearch(s) \/ EndSearch(s)
       PROVE  Goal
  BY <1>5, <1>11 DEF StartSearch, EmbedQuery, CheckSearch, RunSearch, EndSearch, store, rows
<1>12. CASE UNCHANGED vars
  BY <1>5, <1>12 DEF vars
<1> QED
  BY <1>1, <1>3, <1>4, <1>6, <1>7, <1>8, <1>9, <1>10, <1>11, <1>12 DEF Next, Step

\* The cursor's invariant holds at first.
LEMMA RebuildInit == Init => RebuildInv
<1> SUFFICES ASSUME Init PROVE RebuildInv
  OBVIOUS
<1>1. OneBatch /\ BatchHasNoGap /\ CursorCovers
  BY DEF Init, OneBatch, BatchHasNoGap, CursorCovers, Live, Resting
<1> QED
  BY <1>1, TypeInit DEF RebuildInv

\* The chunks up to the cursor are always in the current language, with
\* documents deleted and ingested and batches aborted at any moment: a
\* replica may go on from the cursor another one left.
THEOREM CursorAlwaysCovers == Spec => []CursorCovers
<1>1. RebuildInv /\ [Next]_vars => RebuildInv'
  BY RebuildStep, TypeStep, CompleteStep DEF RebuildInv, TypeInv
<1>2. RebuildInv => CursorCovers
  BY DEF RebuildInv
<1> QED
  BY RebuildInit, <1>1, <1>2, PTL DEF Spec

\* A batch has a language to apply, and below the limit it selected every row
\* after the cursor.
BatchSelects ==
    \A p \in Replicas : rb[p].pc = "batch" =>
        /\ applied # lang
        /\ Cardinality(rb[p].ids) = Limit \/ \A j \in Live : j > cursor => j \in rb[p].ids

AppliedInv == RebuildInv /\ BatchSelects /\ AppliedExplained

\* What was left behind is remembered until the language changes.
LEMMA MissedStep ==
    ASSUME [Next]_vars, lang' = lang
    PROVE  IF applied' = applied THEN missed' = missed
           ELSE \A p \in Replicas : LeftBehind(p) \subseteq missed'
<1>1. CASE Remember
  BY <1>1 DEF Remember
<1>2. CASE UNCHANGED vars
  BY <1>2 DEF vars
<1> QED
  BY <1>1, <1>2 DEF Next

\* Steps that apply no language, select no batch and write no rows.
LEMMA CalmApplied ==
    ASSUME AppliedInv, [Next]_vars, lang' = lang, applied' = applied, cursor' = cursor,
           \A p \in Replicas : rb'[p] = rb[p] \/ rb'[p].pc # "batch",
           \A i \in Live' : i \in Live /\ fts'[i] = fts[i]
    PROVE  BatchSelects' /\ AppliedExplained'
<1>1. missed' = missed
  BY MissedStep
<1>2. BatchSelects'
  <2> SUFFICES ASSUME NEW p \in Replicas, rb'[p].pc = "batch"
               PROVE  /\ applied # lang
                      /\ Cardinality(rb'[p].ids) = Limit \/ \A j \in Live' : j > cursor => j \in rb'[p].ids
    BY DEF BatchSelects
  <2>1. rb'[p] = rb[p]
    OBVIOUS
  <2> QED
    BY <2>1 DEF AppliedInv, BatchSelects
<1>3. AppliedExplained'
  BY <1>1 DEF AppliedInv, AppliedExplained
<1> QED
  BY <1>2, <1>3

\* A batch that counts as the last one leaves behind what it could not select.
LEMMA LastBatch ==
    ASSUME AppliedInv, NEW p \in Replicas, BatchEnd(p), applied' = lang,
           NEW i \in Live, i \notin LeftBehind(p)
    PROVE  fts'[i] = lang
<1> DEFINE ids == rb[p].ids
           upd == {j \in ids : j \in Live}
<1>0. TypeOK /\ RebuildInv /\ BatchHasNoGap /\ CursorCovers /\ BatchSelects
  BY DEF AppliedInv, RebuildInv, TypeInv
<1>1. rb[p].pc = "batch" /\ applied # lang /\ lang # "simple" /\ ids \in SUBSET Ids
  BY <1>0 DEF BatchEnd, BatchSelects, BatchHasNoGap, TypeOK, Rebuilder
<1>2. IsLast(Cardinality(upd))
  BY <1>0, <1>1, BatchEndFacts
<1>3. i \in Ids /\ i \in Nat \ {0} /\ cursor \in Nat
  BY <1>0 DEF Live, Ids, TypeOK
<1>4. fts'[i] = IF i \in ids /\ i \in Live THEN lang ELSE fts[i]
  BY <1>0, <1>3, BatchEndFacts
<1>5. i <= cursor \/ i \in ids
  <2>1. CASE Cardinality(ids) = Limit
    <3>1. ~(ids \subseteq Live)
      <4>1. ids \subseteq Live => upd = ids
        OBVIOUS
      <4>2. ~IsLast(Limit)
        BY DEF IsLast
      <4> QED
        BY <1>2, <2>1, <4>1, <4>2
    <3>2. ~(i > MaxOf(ids))
      BY <1>1, <2>1, <3>1 DEF LeftBehind
    <3>3. MaxOf(ids) \in 0..MaxChunk /\ (ids # {} => MaxOf(ids) \in ids)
      BY <1>1, MaxOfMax
    <3>4. ids # {}
      BY <1>3, <3>2 DEF MaxOf
    <3>5. i = MaxOf(ids) \/ i < MaxOf(ids)
      BY <1>3, <3>2, <3>3
    <3>6. i <= cursor \/ cursor < i
      BY <1>3
    <3> QED
      BY <1>0, <1>1, <3>3, <3>4, <3>5, <3>6 DEF BatchHasNoGap
  <2>2. CASE \A j \in Live : j > cursor => j \in ids
    BY <1>3, <2>2
  <2> QED
    BY <1>0, <1>1, <2>1, <2>2 DEF BatchSelects
<1> QED
  BY <1>0, <1>1, <1>4, <1>5 DEF CursorCovers

\* An applied language is explained after every step.
LEMMA AppliedStep ==
    ASSUME AppliedInv, [Next]_vars
    PROVE  BatchSelects' /\ AppliedExplained'
<1> DEFINE Goal == BatchSelects' /\ AppliedExplained'
<1>0. TypeOK /\ RebuildInv /\ OneBatch /\ BatchSelects /\ AppliedExplained
  BY DEF AppliedInv, RebuildInv, TypeInv
<1>1. ASSUME NEW c \in Conns, NEW l \in Langs, Update(c, l) PROVE Goal
  <2>1. \A p \in Replicas : rb'[p].pc # "batch"
    BY <1>1 DEF Update, RowFree
  <2>2. BatchSelects'
    BY <2>1 DEF BatchSelects
  <2>3. AppliedExplained'
    <3>1. CASE l = lang
      <4>1. Live' = Live /\ fts' = fts /\ lang' = lang /\ applied' = applied
        BY <1>1, <3>1 DEF Update, Live
      <4> QED
        BY <1>0, <4>1, MissedStep DEF AppliedExplained
    <3>2. CASE l # lang
      BY <1>1, <3>2 DEF Update, NewApplied, AppliedExplained, Live
    <3> QED
      BY <3>1, <3>2
  <2> QED
    BY <2>2, <2>3
<1>2. ASSUME NEW ds \in SUBSET Docs, Without(ds), lang' = lang, applied' = applied, cursor' = cursor, rb' = rb
      PROVE  Goal
  <2>1. \A i \in Live' : i \in Live /\ fts'[i] = fts[i]
    BY <1>2 DEF Without, Live
  <2> QED
    BY <1>2, <2>1, CalmApplied
<1>3. ASSUME DeleteStore PROVE Goal
  BY <1>2, <1>3 DEF DeleteStore
<1>4. ASSUME NEW d \in Docs, DeleteDocument(d) PROVE Goal
  BY <1>2, <1>4 DEF DeleteDocument
<1>5. ASSUME store' = store, owner' = owner, fts' = fts, rb' = rb PROVE Goal
  <2>1. Live' = Live /\ lang' = lang /\ applied' = applied /\ cursor' = cursor
    BY <1>5 DEF Live, store
  <2> QED
    BY <1>5, <2>1, CalmApplied
<1>6. ASSUME NEW d \in Docs, StartIngest(d) \/ Embed(d) \/ Reuse(d) \/ IngestFails(d) PROVE Goal
  BY <1>5, <1>6 DEF StartIngest, Embed, Reuse, IngestFails, rows
<1>7. ASSUME NEW d \in Docs, NEW n \in Pieces, Store(d, n) PROVE Goal
  <2>1. BatchSelects'
    BY <1>7 DEF Store, RowFree, BatchSelects
  <2>2. missed' = missed /\ lang' = lang /\ applied' = applied
    BY <1>7, MissedStep DEF Store
  <2>3. AppliedExplained'
    BY <1>0, <1>7, <2>2 DEF Store, AppliedExplained, Live, FtsOf
  <2> QED
    BY <2>1, <2>3
<1>8. ASSUME NEW p \in Replicas, BatchStart(p) PROVE Goal
  <2>1. PICK S \in SUBSET Ids : IsBatch(S, Pending) /\ rb' = [rb EXCEPT ![p] = [pc |-> "batch", ids |-> S]]
    BY <1>8 DEF BatchStart, SetRb
  <2>2. /\ lang' = lang /\ applied' = applied /\ cursor' = cursor
        /\ owner' = owner /\ fts' = fts /\ Live' = Live
    BY <1>8 DEF BatchStart, store, rows, Live
  <2>3. rb'[p] = [pc |-> "batch", ids |-> S] /\ \A q \in Replicas : q # p => rb'[q].pc # "batch"
    BY <1>0, <1>8, <2>1 DEF BatchStart, RowFree, TypeOK
  <2>4. ASSUME Cardinality(S) # Limit, NEW j \in Live, j > cursor PROVE j \in S
    <3>1. S = Pending
      BY <2>1, <2>4 DEF IsBatch
    <3> QED
      BY <2>4, <3>1 DEF Pending
  <2>5. BatchSelects'
    BY <1>8, <2>2, <2>3, <2>4 DEF BatchSelects, BatchStart, NeedsRebuild
  <2>6. AppliedExplained'
    BY <1>0, <2>2, MissedStep DEF AppliedExplained
  <2> QED
    BY <2>5, <2>6
<1>9. ASSUME NEW p \in Replicas, BatchEnd(p) PROVE Goal
  <2>1. \A q \in Replicas : rb'[q].pc # "batch"
    <3>1. rb[p].pc = "batch"
      BY <1>9 DEF BatchEnd
    <3>2. \A q \in Replicas : q # p => rb[q].pc # "batch"
      BY <1>0, <3>1 DEF OneBatch
    <3>3. rb'[p].pc # "batch" /\ \A q \in Replicas : q # p => rb'[q] = rb[q]
      BY <1>0, <1>9, BatchEndFacts
    <3> QED
      BY <3>2, <3>3
  <2>2. lang' = lang /\ Live' = Live /\ applied # lang
    BY <1>0, <1>9, BatchEndFacts DEF BatchSelects, BatchEnd
  <2>3. AppliedExplained'
    <3> SUFFICES ASSUME applied' = lang, NEW i \in Live, i \notin missed' PROVE fts'[i] = lang
      BY <2>2 DEF AppliedExplained
    <3>1. i \notin LeftBehind(p)
      BY <2>2, MissedStep
    <3> QED
      BY <1>9, <3>1, LastBatch
  <2> QED
    BY <2>1, <2>3 DEF BatchSelects
<1>10. ASSUME NEW p \in Replicas, StartPass(p) \/ BatchAborts(p) \/ EndPass(p) PROVE Goal
  <2>1. /\ rb'[p].pc # "batch"
        /\ \A q \in Replicas : q # p => rb'[q] = rb[q]
    BY <1>0, <1>10 DEF StartPass, BatchAborts, EndPass, SetRb, Resting, TypeOK
  <2>2. /\ lang' = lang /\ applied' = applied /\ cursor' = cursor
        /\ fts' = fts /\ Live' = Live
    BY <1>10 DEF StartPass, BatchAborts, EndPass, store, rows, Live
  <2>3. \A q \in Replicas : rb'[q] = rb[q] \/ rb'[q].pc # "batch"
    BY <2>1
  <2> QED
    BY <2>2, <2>3, CalmApplied
<1>11. ASSUME NEW s \in Searches,
              StartSearch(s) \/ EmbedQuery(s) \/ CheckSearch(s) \/ RunSearch(s) \/ EndSearch(s)
       PROVE  Goal
  BY <1>5, <1>11 DEF StartSearch, EmbedQuery, CheckSearch, RunSearch, EndSearch, rows
<1>12. CASE UNCHANGED vars
  BY <1>5, <1>12 DEF vars, store
<1> QED
  BY <1>1, <1>3, <1>4, <1>6, <1>7, <1>8, <1>9, <1>10, <1>11, <1>12 DEF Next, Step

\* An applied language is explained throughout.
LEMMA AppliedInvariant == Spec => []AppliedInv
<1>1. Init => AppliedInv
  <2> SUFFICES ASSUME Init PROVE AppliedInv
    OBVIOUS
  <2>1. BatchSelects /\ AppliedExplained
    BY DEF Init, BatchSelects, AppliedExplained, Live, Resting
  <2> QED
    BY <2>1, RebuildInit DEF AppliedInv
<1>2. AppliedInv /\ [Next]_vars => AppliedInv'
  BY AppliedStep, RebuildStep, TypeStep, CompleteStep DEF AppliedInv, RebuildInv, TypeInv
<1> QED
  BY <1>1, <1>2, PTL DEF Spec

\* A language that counts as applied is the language of every chunk, whatever is
\* ingested between the batches or deleted inside them, however often the
\* language changes and whichever batches abort; but for the chunks after a full
\* batch that lost a row to a deletion and so passed for the last one.
THEOREM AppliedAlwaysExplained == Spec => []AppliedExplained
<1>1. AppliedInv => AppliedExplained
  BY DEF AppliedInv
<1> QED
  BY AppliedInvariant, <1>1, PTL

\* Only the step that runs a search answers it.
LEMMA AnswerStep ==
    ASSUME TypeOK, [Next]_vars, NEW s \in Searches, Answered(s)
    PROVE  RunSearch(s)
<1>1. search'[s] # search[s] /\ search'[s].pc = "done"
  BY DEF Answered
<1>2. ASSUME NEW t \in Searches,
             StartSearch(t) \/ EmbedQuery(t) \/ CheckSearch(t) \/ RunSearch(t) \/ EndSearch(t)
      PROVE  RunSearch(s)
  <2>1. t = s
    BY <1>1, <1>2 DEF StartSearch, EmbedQuery, CheckSearch, RunSearch, EndSearch, SetSearch, TypeOK
  <2>2. CASE StartSearch(s) \/ EmbedQuery(s) \/ CheckSearch(s) \/ EndSearch(s)
    BY <1>1, <2>2 DEF StartSearch, EmbedQuery, CheckSearch, EndSearch, SetSearch, Searching, NoSearch, TypeOK
  <2> QED
    BY <1>2, <2>1, <2>2
<1>3. ASSUME NEW c \in Conns, NEW l \in Langs, Update(c, l) PROVE search' = search
  BY <1>3 DEF Update
<1>4. ASSUME NEW d \in Docs,
             DeleteStore \/ DeleteDocument(d) \/ StartIngest(d) \/ Embed(d) \/ Reuse(d) \/ IngestFails(d)
      PROVE  search' = search
  BY <1>4 DEF DeleteStore, DeleteDocument, StartIngest, Embed, Reuse, IngestFails
<1>5. ASSUME NEW d \in Docs, NEW n \in Pieces, Store(d, n) PROVE search' = search
  BY <1>5 DEF Store
<1>6. ASSUME NEW p \in Replicas,
             StartPass(p) \/ BatchStart(p) \/ BatchEnd(p) \/ BatchAborts(p) \/ EndPass(p)
      PROVE  search' = search
  BY <1>6 DEF StartPass, BatchStart, BatchEnd, BatchAborts, EndPass
<1>7. DeleteStore \/ UNCHANGED vars => search' = search
  BY DEF DeleteStore, vars
<1> QED
  BY <1>1, <1>2, <1>3, <1>4, <1>5, <1>6, <1>7 DEF Next, Step

\* No search reads chunks.fts with a configuration it was not built with, the
\* chunks left behind aside, although language and applied language change
\* between the search's first reading of the store and its snapshot; and a query
\* meets vectors of another model only where the store has moved to a connection
\* of the same width since it was embedded, or where such vectors were copied.
THEOREM SearchAlwaysSound == Spec => SearchSound
<1> DEFINE Sound == \A s \in Searches : Answered(s) => PlanFits(s) /\ ModelFits(s)
<1>1. BindingInv /\ AppliedInv /\ [Next]_vars => [Sound]_vars
  <2> SUFFICES ASSUME BindingInv, AppliedInv, [Next]_vars, NEW s \in Searches, Answered(s)
               PROVE  PlanFits(s) /\ ModelFits(s)
    OBVIOUS
  <2>0. TypeOK /\ VectorsMatchBinding /\ AppliedExplained
    BY DEF BindingInv, TypeInv, AppliedInv
  <2>1. search'[s] = [pc |-> "done", vec |-> search[s].vec, plan |-> PlanOf(s),
                      hits |-> {i \in Live : InTable(i, search[s].vec)}]
    BY <2>0, AnswerStep DEF RunSearch, SetSearch, TypeOK
  <2>2. /\ search'[s].plan = LexicalPlan(lang, applied)
        /\ search'[s].hits = {i \in Live : InTable(i, search[s].vec)}
    BY <2>1 DEF PlanOf
  <2>3. PlanFits(s)
    BY <2>0, <2>2 DEF PlanFits, LexicalPlan, AppliedExplained
  <2>4. ASSUME NEW i \in search'[s].hits \ foreign
        PROVE  by[i] = search[s].vec \/ (conn # search[s].vec /\ Width[conn] = Width[search[s].vec])
    <3>1. i \in Live /\ Width[by[i]] = Width[search[s].vec]
      BY <2>2, <2>4 DEF InTable
    <3>2. by[i] = conn
      BY <2>0, <2>4, <3>1 DEF VectorsMatchBinding
    <3> QED
      BY <3>1, <3>2
  <2> QED
    BY <2>3, <2>4 DEF ModelFits
<1> QED
  BY <1>1, BindingInvariant, AppliedInvariant, PTL DEF Spec, SearchSound
=============================================================================
