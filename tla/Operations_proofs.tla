--------------------------- MODULE Operations_proofs ---------------------------
(***************************************************************************)
(* What holds of the modules of configuration and operation for every      *)
(* number of replicas, requests, stores, connections, keys and rows: the   *)
(* lists of a route and the quota of a store (Catalog), the indexes of a   *)
(* width (VectorIndex), retention (Retention) and start-up (Migrations).   *)
(* The modules share no variable; each section has the inductive invariant *)
(* of one of them, a lemma for each of its actions, and its theorems.      *)
(***************************************************************************)
EXTENDS Catalog, Migrations, VectorIndex, Retention, FiniteSetTheorems, TLAPS

-------------------------------------------------------------------------------
(* Catalog: requests that read, check and write in steps of their own. *)

\* A row written by a request that is over.
Active(h) == handler[h].op # "none"
OldRow(t) == t.by <= edits /\ \A g \in Handlers : Active(g) => handler[g].n # t.by

RowsSound ==
    /\ \A t \in lists["targets"] : OldRow(t)
    /\ \A h \in Handlers : handler[h].op = "conn" => \A t \in handler[h].seen : OldRow(t)
    /\ \A g, h \in Handlers : g # h /\ Active(g) /\ Active(h) => handler[g].n # handler[h].n

\* A route's targets are there.
TargetsHere == \A c \in Listed(lists["targets"]) : conns[c].here

\* A request to replace the targets holds the route's row and replaces the rows
\* that are there; a target a connection update has seen serves the route with
\* the new type.
HandlerSound(h) ==
    LET r == handler[h] IN
    /\ r.op = "none" <=> r.pc = "idle"
    /\ r.op \in {"conn", "project"} <=> r.pc = "save"
    /\ r.op = "upload" <=> r.pc = "file"
    /\ r.pc = "lock" => r.op \in RouteOps
    /\ r.op # "none" => r.n \in 1..edits
    /\ r.op \in {"conn", "project"} => r.conn \in Conns
    /\ r.op = "conn" /\ (\E t \in r.seen \cap lists["targets"] : t.member = r.conn) => Supports(r.type, route.kind)
    /\ r.op \in RouteOps => r.want \subseteq Conns
    /\ r.op = "members" => r.want \subseteq Editors
    /\ r.op = "upload" => r.files \in 1..MaxFiles
    /\ r.op \in RouteOps /\ r.pc \in {"snapshot", "delete", "insert"} => route.holder = h
    /\ r.op \in RouteOps /\ r.pc \in {"delete", "insert"} => r.seen = lists["targets"]

\* <<h, i>>: upload h may still store i documents.
Tokens == {t \in Handlers \X (1..MaxFiles) :
              /\ handler[t[1]].pc = "file" /\ t[2] <= handler[t[1]].files
              /\ handler[t[1]].counted + t[2] <= MaxDocuments}
Limit == MaxDocuments + (Cardinality(Handlers) - 1) * MaxFiles
QuotaSound == docs + Cardinality(Tokens) <= Limit

CatIInv == CatalogInv /\ RowsSound /\ TargetsHere /\ QuotaSound /\ \A h \in Handlers : HandlerSound(h)

RouteRows == [here : BOOLEAN, kind : Kinds, holder : Handlers \cup {None}]
ConnRows == [here : BOOLEAN, type : ProviderTypes]
ProjectRows == [here : BOOLEAN, model : Conns, turns : Turns, policy : Policies]
DocsBound == MaxDocuments + Cardinality(Handlers) * MaxFiles

LEMMA CatNumbers ==
    /\ MaxDocuments \in Nat /\ MaxFiles \in Nat /\ MaxEdits \in Nat /\ Cardinality(Handlers) \in Nat
    /\ DocsBound \in Nat /\ Limit \in Nat /\ Limit <= DocsBound /\ MaxDocuments <= Limit
    /\ Limit = MaxDocuments + (Cardinality(Handlers) - 1) * MaxFiles
<1>1. MaxDocuments \in Nat /\ MaxFiles \in Nat /\ MaxEdits \in Nat
  BY CatalogBounds DEF CatalogBounds
<1>2. Cardinality(Handlers) \in Nat \ {0}
  <2>1. PICK h \in Handlers : TRUE
    BY CatalogBounds DEF CatalogBounds
  <2>2. Cardinality({h}) = 1 /\ Cardinality({h}) <= Cardinality(Handlers) /\ Cardinality(Handlers) \in Nat
    BY CatalogBounds, FS_Singleton, FS_Subset, FS_CardinalityType DEF CatalogBounds
  <2> QED
    BY <2>2
<1>3. \A c \in Nat \ {0}, m \in Nat : c * m \in Nat /\ (c - 1) * m \in Nat /\ (c - 1) * m <= c * m
  <2>1. \A c \in Nat, m \in Nat : c * m \in Nat
    OBVIOUS
  <2>2. \A c \in Nat \ {0}, m \in Nat : (c - 1) * m + m = c * m /\ c - 1 \in Nat
    OBVIOUS
  <2> QED
    BY <2>1, <2>2
<1>4. Cardinality(Handlers) * MaxFiles \in Nat /\ (Cardinality(Handlers) - 1) * MaxFiles \in Nat
      /\ (Cardinality(Handlers) - 1) * MaxFiles <= Cardinality(Handlers) * MaxFiles
  BY <1>1, <1>2, <1>3
<1> DEFINE a == (Cardinality(Handlers) - 1) * MaxFiles
           b == Cardinality(Handlers) * MaxFiles
<1>5. Limit = MaxDocuments + a /\ DocsBound = MaxDocuments + b /\ a \in Nat /\ b \in Nat /\ a <= b
  BY <1>4 DEF Limit, DocsBound
<1> HIDE DEF a, b
<1>6. DocsBound \in Nat /\ Limit \in Nat /\ Limit <= DocsBound /\ MaxDocuments <= Limit
  BY <1>1, <1>5
<1> QED
  BY <1>1, <1>2, <1>6 DEF Limit

\* The values a request may hold.
LEMMA CatValues ==
    /\ 2 \in Turns /\ \A i \in 1..MaxFiles : i \in 0..MaxFiles
    /\ \A x \in Edits : x.counted \in Nat
<1>1. 2 \in Turns /\ \A i \in 1..MaxFiles : i \in 0..MaxFiles
  BY CatNumbers DEF Turns
<1>2. ASSUME NEW x \in Edits PROVE x.counted \in Nat
  <2>1. x.counted \in 0..DocsBound
    BY DEF Edits, DocsBound
  <2> QED
    BY <2>1, CatNumbers
<1> QED
  BY <1>1, <1>2

LEMMA CatListed == ASSUME NEW S, NEW n PROVE Listed({[member |-> e, by |-> n] : e \in S}) = S
<1> DEFINE rows == {[member |-> e, by |-> n] : e \in S}
<1>1. \A e \in S : [member |-> e, by |-> n] \in rows /\ [member |-> e, by |-> n].member = e
  OBVIOUS
<1>2. \A x \in rows : x.member \in S
  OBVIOUS
<1> HIDE DEF rows
<1>3. {x.member : x \in rows} = S
  BY <1>1, <1>2
<1> QED
  BY <1>3 DEF Listed, rows

LEMMA CatInterval == ASSUME NEW m \in Nat PROVE IsFiniteSet(1..m) /\ Cardinality(1..m) = m
<1>1. 1 \in Int /\ m \in Int
  OBVIOUS
<1> QED
  BY <1>1, FS_Interval

LEMMA CatFinite ==
    ASSUME NEW T \in SUBSET (Handlers \X (1..MaxFiles))
    PROVE  IsFiniteSet(T) /\ Cardinality(T) \in Nat
<1>1. IsFiniteSet(Handlers) /\ IsFiniteSet(1..MaxFiles)
  BY CatalogBounds, FS_Interval DEF CatalogBounds
<1>2. IsFiniteSet(Handlers \X (1..MaxFiles))
  BY <1>1, FS_Product
<1> QED
  BY <1>2, FS_Subset, FS_CardinalityType

\* Documents are deleted and uploads end.
LEMMA CatQuotaKept ==
    ASSUME QuotaSound, docs \in Nat, docs' \in Nat, docs' <= docs,
           \A g \in Handlers : handler'[g] = handler[g] \/ handler'[g].pc # "file"
    PROVE  QuotaSound'
<1>1. Tokens' \subseteq Tokens
  BY DEF Tokens
<1>2. Tokens \in SUBSET (Handlers \X (1..MaxFiles))
  BY DEF Tokens
<1>3. Cardinality(Tokens') <= Cardinality(Tokens) /\ Cardinality(Tokens) \in Nat /\ Cardinality(Tokens') \in Nat
  BY <1>1, <1>2, CatFinite, FS_Subset, FS_CardinalityType
<1> QED
  BY <1>3, CatNumbers DEF QuotaSound

LEMMA CatDocs ==
    ASSUME NEW T \in SUBSET (Handlers \X (1..MaxFiles)), NEW d \in Nat, d + Cardinality(T) <= Limit
    PROVE  d \in 0..DocsBound /\ d <= Limit
<1>1. Cardinality(T) \in Nat
  BY CatFinite
<1> QED
  BY <1>1, CatNumbers

\* An upload begins: it has counted the documents that are there.
LEMMA CatQuotaBegins ==
    ASSUME QuotaSound, docs \in Nat, docs' = docs, NEW h \in Handlers, handler[h].pc # "file",
           \A g \in Handlers \ {h} : handler'[g] = handler[g], handler'[h].counted = docs
    PROVE  QuotaSound'
<1> DEFINE Others == (Handlers \ {h}) \X (1..MaxFiles)
           Mine == {h} \X (1..(MaxDocuments - docs))
<1>1. Tokens \in SUBSET (Handlers \X (1..MaxFiles)) /\ Tokens' \in SUBSET (Handlers \X (1..MaxFiles))
  BY DEF Tokens
<1>2. /\ Cardinality(Tokens) \in Nat /\ IsFiniteSet(Tokens) /\ Cardinality(Tokens') \in Nat
      /\ Limit \in Nat /\ MaxDocuments \in Nat /\ MaxFiles \in Nat
  BY <1>1, CatFinite, CatNumbers
<1>3. CASE docs >= MaxDocuments
  <2>1. Tokens' \subseteq Tokens
    <3>1. SUFFICES ASSUME NEW t \in Tokens' PROVE t \in Tokens
      OBVIOUS
    <3>2. t[1] \in Handlers /\ t[2] \in 1..MaxFiles /\ handler'[t[1]].counted + t[2] <= MaxDocuments
      BY <3>1 DEF Tokens
    <3>3. t[1] # h
      BY <1>2, <1>3, <3>2
    <3> QED
      BY <3>1, <3>2, <3>3 DEF Tokens
  <2>2. Cardinality(Tokens') <= Cardinality(Tokens)
    BY <1>2, <2>1, FS_Subset
  <2> QED
    BY <1>2, <2>2 DEF QuotaSound
<1>4. CASE docs < MaxDocuments
  <2>1. Tokens' \subseteq Others \cup Mine
    <3>1. SUFFICES ASSUME NEW t \in Tokens' PROVE t \in Others \cup Mine
      OBVIOUS
    <3>2. t = <<t[1], t[2]>> /\ t[1] \in Handlers /\ t[2] \in 1..MaxFiles /\ handler'[t[1]].counted + t[2] <= MaxDocuments
      BY <3>1 DEF Tokens
    <3>3. CASE t[1] = h
      <4>1. t[2] \in 1..(MaxDocuments - docs)
        BY <1>2, <3>2, <3>3
      <4> QED
        BY <3>2, <3>3, <4>1
    <3>4. CASE t[1] # h
      BY <3>2, <3>4
    <3> QED
      BY <3>3, <3>4
  <2>2. IsFiniteSet(Others) /\ Cardinality(Others) = (Cardinality(Handlers) - 1) * MaxFiles
    <3>1. IsFiniteSet(Handlers \ {h}) /\ Cardinality(Handlers \ {h}) = Cardinality(Handlers) - 1
      BY CatalogBounds, FS_RemoveElement DEF CatalogBounds
    <3>2. IsFiniteSet(1..MaxFiles) /\ Cardinality(1..MaxFiles) = MaxFiles
      BY <1>2, CatInterval
    <3>3. IsFiniteSet((Handlers \ {h}) \X (1..MaxFiles))
          /\ Cardinality((Handlers \ {h}) \X (1..MaxFiles)) = Cardinality(Handlers \ {h}) * Cardinality(1..MaxFiles)
      BY <3>1, <3>2, FS_Product, Zenon
    <3> QED
      BY <3>1, <3>2, <3>3, Zenon
  <2>3. IsFiniteSet(Mine) /\ Cardinality(Mine) = MaxDocuments - docs
    <3>1. MaxDocuments - docs \in Nat
      BY <1>2, <1>4
    <3>2. IsFiniteSet(1..(MaxDocuments - docs)) /\ Cardinality(1..(MaxDocuments - docs)) = MaxDocuments - docs
      BY <3>1, CatInterval
    <3>3. IsFiniteSet({h}) /\ Cardinality({h}) = 1
      BY FS_Singleton
    <3>4. IsFiniteSet({h} \X (1..(MaxDocuments - docs)))
          /\ Cardinality({h} \X (1..(MaxDocuments - docs))) = Cardinality({h}) * Cardinality(1..(MaxDocuments - docs))
      BY <3>2, <3>3, FS_Product, Zenon
    <3>5. Cardinality(Mine) = 1 * (MaxDocuments - docs)
      BY <3>2, <3>3, <3>4, Zenon
    <3> QED
      BY <3>1, <3>4, <3>5
  <2>4. IsFiniteSet(Others \cup Mine) /\ Cardinality(Others \cup Mine) <= Cardinality(Others) + Cardinality(Mine)
    <3>0. IsFiniteSet(Others) /\ IsFiniteSet(Mine)
      BY <2>2, <2>3
    <3> HIDE DEF Others, Mine
    <3>1. Cardinality(Others \cap Mine) \in Nat /\ Cardinality(Others) \in Nat /\ Cardinality(Mine) \in Nat
      BY <3>0, FS_Subset, FS_CardinalityType
    <3>2. /\ IsFiniteSet(Others \cup Mine)
          /\ Cardinality(Others \cup Mine) = Cardinality(Others) + Cardinality(Mine) - Cardinality(Others \cap Mine)
      BY <3>0, FS_Union
    <3> QED
      BY <3>1, <3>2
  <2>5. Cardinality(Tokens') <= Cardinality(Others \cup Mine) /\ Cardinality(Others \cup Mine) \in Nat
    BY <2>1, <2>4, FS_Subset, FS_CardinalityType
  <2> DEFINE a == (Cardinality(Handlers) - 1) * MaxFiles
  <2>6. a \in Nat /\ Limit = MaxDocuments + a
    BY <2>2, <2>4, CatNumbers, FS_CardinalityType
  <2>7. Cardinality(Others) = a
    BY <2>2
  <2> HIDE DEF a, Others, Mine
  <2>8. docs + Cardinality(Tokens') <= MaxDocuments + a
    BY <1>2, <1>4, <2>3, <2>4, <2>5, <2>6, <2>7
  <2> QED
    BY <2>6, <2>8 DEF QuotaSound, Limit, a
<1> QED
  BY <1>2, <1>3, <1>4

\* A file is stored: the last of the upload, or it may store one less.
LEMMA CatQuotaStores ==
    ASSUME QuotaSound, docs \in Nat, docs' = docs + 1, NEW h \in Handlers, handler[h].pc = "file",
           handler[h].files \in 1..MaxFiles, handler[h].counted \in Nat, handler[h].counted + 1 <= MaxDocuments,
           \A g \in Handlers \ {h} : handler'[g] = handler[g],
           \/ handler'[h].pc # "file"
           \/ handler'[h].files = handler[h].files - 1 /\ handler'[h].counted = handler[h].counted + 1
    PROVE  QuotaSound'
<1> DEFINE f == handler[h].files
           c == handler[h].counted
<1>0. f \in 1..MaxFiles /\ c \in Nat /\ c + 1 <= MaxDocuments /\ MaxDocuments \in Nat /\ MaxFiles \in Nat
  BY CatNumbers
<1>1. PICK m \in 1..MaxFiles : m <= f /\ c + m <= MaxDocuments /\ (m = f \/ c + m = MaxDocuments)
  <2>1. CASE c + f <= MaxDocuments
    BY <1>0, <2>1
  <2>2. CASE ~(c + f <= MaxDocuments)
    <3> DEFINE d == MaxDocuments - c
    <3> HIDE DEF c, f
    <3>1. d \in 1..MaxFiles /\ d <= f /\ c + d = MaxDocuments
      BY <1>0, <2>2
    <3>2. c + d <= MaxDocuments
      BY <1>0, <3>1
    <3> HIDE DEF d
    <3> QED
      BY <3>1, <3>2
  <2> QED
    BY <2>1, <2>2
<1>2. <<h, m>> \in Tokens
  BY <1>1 DEF Tokens
<1>3. Tokens' \subseteq Tokens \ {<<h, m>>}
  <2>1. SUFFICES ASSUME NEW t \in Tokens' PROVE t \in Tokens \ {<<h, m>>}
    OBVIOUS
  <2>2. /\ t \in Handlers \X (1..MaxFiles) /\ t = <<t[1], t[2]>> /\ t[1] \in Handlers /\ t[2] \in 1..MaxFiles
        /\ handler'[t[1]].pc = "file" /\ t[2] <= handler'[t[1]].files
        /\ handler'[t[1]].counted + t[2] <= MaxDocuments
    BY <2>1 DEF Tokens
  <2>3. CASE t[1] # h
    BY <2>2, <2>3 DEF Tokens
  <2>4. CASE t[1] = h
    <3>1. t[2] <= f - 1 /\ c + 1 + t[2] <= MaxDocuments
      BY <2>2, <2>4
    <3> DEFINE i == t[2]
    <3>2. i \in 1..MaxFiles /\ i <= f - 1 /\ c + 1 + i <= MaxDocuments
      BY <2>2, <3>1
    <3> HIDE DEF i, f, c
    <3>3. i # m /\ i <= f /\ c + i <= MaxDocuments
      BY <1>0, <1>1, <3>2
    <3> QED
      BY <2>2, <2>4, <3>3 DEF Tokens, i, f, c
  <2> QED
    BY <2>3, <2>4
<1>4. Tokens \in SUBSET (Handlers \X (1..MaxFiles))
  BY DEF Tokens
<1>5. IsFiniteSet(Tokens \ {<<h, m>>}) /\ Cardinality(Tokens \ {<<h, m>>}) = Cardinality(Tokens) - 1 /\ Cardinality(Tokens) \in Nat
  BY <1>2, <1>4, CatFinite, FS_RemoveElement
<1>6. Cardinality(Tokens') <= Cardinality(Tokens) - 1 /\ Cardinality(Tokens') \in Nat
  BY <1>3, <1>5, FS_Subset, FS_CardinalityType
<1> QED
  BY <1>5, <1>6, CatNumbers DEF QuotaSound
----------------------------------------------------------------------------
(* The requests. *)

LEMMA CatRowFacts ==
    ASSUME CatIInv, NEW h \in Handlers
    PROVE  handler[h] \in Edits /\ HandlerSound(h) /\ h # None /\ edits \in Nat /\ docs \in Nat
  BY CatNumbers, CatalogBounds DEF CatalogBounds, CatIInv, CatalogInv, CatalogTypeOK

LEMMA CatFree ==
    /\ Free \in Edits /\ Free.op = "none" /\ Free.pc = "idle"
    /\ 0 \in 0..(MaxDocuments + Cardinality(Handlers) * MaxFiles)
<1>1. 0 \in 0..(MaxDocuments + Cardinality(Handlers) * MaxFiles) /\ 0 \in 0..MaxEdits /\ 0 \in 0..MaxFiles
  BY CatNumbers DEF DocsBound
<1> QED
  BY <1>1 DEF Free, Edits, ProviderTypes, Kinds, Turns

\* The requests other than those that end, begin or change keep their rows.
LEMMA CatRowsKept ==
    ASSUME CatIInv, edits' = edits, lists'["targets"] \subseteq lists["targets"],
           \A g \in Handlers : \/ handler'[g].op = "none"
                               \/ /\ handler'[g].op = handler[g].op /\ handler'[g].n = handler[g].n
                                  /\ handler[g].op = "conn" => handler'[g].seen = handler[g].seen
    PROVE  RowsSound'
<1>1. RowsSound
  BY DEF CatIInv
<1>2. \A t : OldRow(t) => OldRow(t)'
  BY DEF OldRow, Active
<1> QED
  BY <1>1, <1>2 DEF RowsSound, Active

LEMMA CatRowsBegin ==
    ASSUME CatIInv, NEW h \in Handlers, ~Active(h), edits' = edits + 1, lists' = lists,
           \A g \in Handlers \ {h} : handler'[g] = handler[g], handler'[h].n = edits + 1,
           handler'[h].op = "conn" => handler'[h].seen = lists["targets"]
    PROVE  RowsSound'
<1>1. RowsSound /\ \A g \in Handlers : HandlerSound(g)
  BY DEF CatIInv
<1>2. edits \in Nat
  BY CatNumbers DEF CatIInv, CatalogInv, CatalogTypeOK
<1>3. \A g \in Handlers : Active(g) => handler[g].n \in 1..edits
  BY <1>1 DEF HandlerSound, Active
<1>4. ASSUME NEW t, OldRow(t), t.by \in Nat PROVE OldRow(t)'
  BY <1>2, <1>4 DEF OldRow, Active
<1>5. ListRows \subseteq {t \in ListRows : t.by \in Nat}
  BY CatNumbers DEF ListRows
<1>6. lists["targets"] \subseteq ListRows /\ \A g \in Handlers : handler[g].seen \subseteq ListRows
  BY DEF CatIInv, CatalogInv, CatalogTypeOK, Lists, Edits
<1>7. \A t \in lists'["targets"] : OldRow(t)'
  BY <1>1, <1>4, <1>5, <1>6 DEF RowsSound
<1>8. ASSUME NEW g \in Handlers, handler'[g].op = "conn", NEW t \in handler'[g].seen PROVE OldRow(t)'
  <2>1. CASE g = h
    BY <1>7, <1>8, <2>1
  <2>2. CASE g # h
    BY <1>1, <1>4, <1>5, <1>6, <1>8, <2>2 DEF RowsSound
  <2> QED
    BY <2>1, <2>2
<1>9. \A f, g \in Handlers : f # g /\ Active(f)' /\ Active(g)' => handler'[f].n # handler'[g].n
  <2>1. \A g \in Handlers \ {h} : Active(g)' => handler'[g].n # handler'[h].n
    BY <1>2, <1>3 DEF Active
  <2> QED
    BY <1>1, <2>1 DEF RowsSound, Active
<1> QED
  BY <1>7, <1>8, <1>9 DEF RowsSound

\* The requests of H, of which none has the route's row when its targets are
\* replaced by rows of a request in progress.
LEMMA CatOthers ==
    ASSUME CatIInv, NEW H \in SUBSET Handlers, \A g \in H : handler'[g] = handler[g], edits <= edits', edits' \in Nat,
           \/ /\ lists'["targets"] = lists["targets"] /\ route'.kind = route.kind
              /\ \A g \in H : route.holder = g => route'.holder = g
           \/ /\ route.holder \notin H
              /\ \A t \in lists'["targets"] : \E g \in Handlers : Active(g) /\ t.by = handler[g].n
    PROVE  \A g \in H : HandlerSound(g)'
<1>1. SUFFICES ASSUME NEW g \in H PROVE HandlerSound(g)'
  OBVIOUS
<1>2. handler'[g] = handler[g] /\ HandlerSound(g) /\ handler[g] \in Edits /\ edits \in Nat /\ edits <= edits' /\ edits' \in Nat
  BY CatRowFacts
<1>3. handler[g].op # "none" => handler[g].n \in 1..edits'
  BY <1>2 DEF HandlerSound
<1>4. CASE lists'["targets"] = lists["targets"] /\ route'.kind = route.kind /\ (route.holder = g => route'.holder = g)
  BY <1>2, <1>3, <1>4 DEF HandlerSound
<1>5. CASE /\ route.holder # g
           /\ \A t \in lists'["targets"] : \E f \in Handlers : Active(f) /\ t.by = handler[f].n
  <2>1. ASSUME handler[g].op = "conn" PROVE handler[g].seen \cap lists'["targets"] = {}
    <3>1. \A t \in handler[g].seen : OldRow(t)
      BY <2>1 DEF CatIInv, RowsSound
    <3> QED
      BY <1>5, <3>1 DEF OldRow
  <2> QED
    BY <1>2, <1>3, <1>5, <2>1 DEF HandlerSound
<1> QED
  BY <1>4, <1>5

\* A step that changes one request, its hold of the route and the documents.
LEMMA CatStep ==
    ASSUME CatIInv, NEW h \in Handlers, NEW q \in Edits, handler' = [handler EXCEPT ![h] = q],
           UNCHANGED <<conns, project, lists, asked, crossed>>, docs' \in Nat, edits' \in 0..MaxEdits, edits <= edits',
           route' \in RouteRows, route'.kind = route.kind,
           \A g \in Handlers \ {h} : route.holder = g => route'.holder = g,
           HandlerSound(h)', RowsSound', QuotaSound'
    PROVE  CatIInv'
<1>1. handler'[h] = q /\ (\A g \in Handlers \ {h} : handler'[g] = handler[g]) /\ handler' \in [Handlers -> Edits]
  BY DEF CatIInv, CatalogInv, CatalogTypeOK
<1>2. edits' \in Nat
  BY CatNumbers
<1>3. \A g \in Handlers \ {h} : HandlerSound(g)'
  BY <1>1, <1>2, CatOthers
<1>4. docs' \in 0..DocsBound
  BY CatDocs DEF QuotaSound, Tokens
<1>5. CatalogTypeOK'
  BY <1>1, <1>4 DEF CatIInv, CatalogInv, CatalogTypeOK, RouteRows, DocsBound
<1>6. TargetsServeUnlessRaced' /\ TargetsAreOneRequests' /\ TargetsHere'
  BY DEF CatIInv, CatalogInv, TargetsServeUnlessRaced, TargetsAreOneRequests, TargetsHere, Listed
<1> QED
  BY <1>3, <1>5, <1>6 DEF CatIInv, CatalogInv

LEMMA CatBegins ==
    ASSUME CatIInv, NEW h \in Handlers, NEW r \in Edits, Begin(h, r),
           UNCHANGED <<conns, project, route, lists, asked, crossed, docs>>,
           r.op # "none", r.pc # "idle", r.pc \notin {"delete", "insert"},
           r.op \in {"conn", "project"} <=> r.pc = "save", r.op = "upload" <=> r.pc = "file",
           r.pc = "lock" => r.op \in RouteOps, r.pc = "snapshot" => r.op = "members",
           r.op \in {"conn", "project"} => r.conn \in Conns,
           r.op = "conn" => r.seen = lists["targets"] /\ ~RouteKindConflict(r.conn, r.type),
           r.op \in RouteOps => r.want \subseteq Conns, r.op = "members" => r.want \subseteq Editors,
           r.op = "upload" => r.files \in 1..MaxFiles /\ r.counted = docs
    PROVE  CatIInv'
<1>1. handler[h] = Free /\ edits < MaxEdits /\ edits' = edits + 1 /\ handler' = [handler EXCEPT ![h] = [r EXCEPT !.n = edits + 1]]
  BY DEF Begin
<1>2. edits \in Nat /\ docs \in Nat /\ MaxEdits \in Nat /\ edits' \in 0..MaxEdits /\ edits <= edits' /\ edits' \in 1..edits'
  BY <1>1, CatRowFacts, CatNumbers
<1>3. PICK q : q = [r EXCEPT !.n = edits + 1]
  OBVIOUS
<1>4. /\ q \in Edits /\ q.n = edits' /\ q.op = r.op /\ q.pc = r.pc /\ q.conn = r.conn /\ q.type = r.type /\ q.want = r.want
      /\ q.seen = r.seen /\ q.files = r.files /\ q.counted = r.counted
  BY <1>1, <1>2, <1>3 DEF Edits
<1>5. handler' = [handler EXCEPT ![h] = q] /\ handler'[h] = q /\ \A g \in Handlers \ {h} : handler'[g] = handler[g]
  BY <1>1, <1>3 DEF CatIInv, CatalogInv, CatalogTypeOK
<1>6. RowsSound'
  BY <1>1, <1>4, <1>5, CatFree, CatRowsBegin DEF Active
<1>7. QuotaSound'
  <2>1. CASE q.pc = "file"
    BY <1>1, <1>2, <1>4, <1>5, <2>1, CatFree, CatQuotaBegins DEF CatIInv
  <2>2. CASE q.pc # "file"
    BY <1>2, <1>5, <2>2, CatQuotaKept DEF CatIInv
  <2> QED
    BY <2>1, <2>2
<1>8. HandlerSound(h)'
  <2>1. ASSUME q.op = "conn", NEW t \in q.seen, t.member = q.conn PROVE Supports(q.type, route.kind)
    BY <1>4, <2>1 DEF RouteKindConflict, Listed
  <2> QED
    BY <1>2, <1>4, <1>5, <2>1 DEF HandlerSound, RouteOps
<1>9. route' \in RouteRows
  BY DEF CatIInv, CatalogInv, CatalogTypeOK, RouteRows
<1> QED
  BY <1>2, <1>4, <1>5, <1>6, <1>7, <1>8, <1>9, CatStep

LEMMA CatStarts ==
    ASSUME CatIInv, NEW h \in Handlers,
           \/ \E c \in Conns, type \in ProviderTypes : StartUpdateConnection(h, c, type)
           \/ \E op \in RouteOps, kind \in Kinds, want \in SUBSET Conns : StartRoute(h, op, kind, want)
           \/ \E want \in SUBSET Editors : StartSetMembers(h, want)
           \/ \E c \in Conns, turns \in {0, 2}, policy \in {"", "off"} : StartUpdateProject(h, c, turns, policy)
           \/ \E files \in 1..MaxFiles : StartUpload(h, files)
    PROVE  CatIInv'
<1>1. Free \in Edits /\ Free.op = "none" /\ Free.pc = "idle"
  BY CatFree
<1>2. CASE \E c \in Conns, type \in ProviderTypes : StartUpdateConnection(h, c, type)
  <2>1. PICK c \in Conns, type \in ProviderTypes : StartUpdateConnection(h, c, type)
    BY <1>2
  <2>2. PICK r : r = [Free EXCEPT !.op = "conn", !.pc = "save", !.conn = c, !.type = type, !.seen = lists["targets"]]
    OBVIOUS
  <2>3. lists["targets"] \in SUBSET ListRows
    BY DEF CatIInv, CatalogInv, CatalogTypeOK, Lists
  <2>4. r \in Edits /\ r.op = "conn" /\ r.pc = "save" /\ r.conn = c /\ r.type = type /\ r.seen = lists["targets"]
    BY <1>1, <2>2, <2>3 DEF Edits
  <2>5. Begin(h, r) /\ ~RouteKindConflict(c, type) /\ UNCHANGED <<conns, project, route, lists, asked, crossed, docs>>
    BY <2>1, <2>2 DEF StartUpdateConnection
  <2> QED
    BY <2>4, <2>5, CatBegins DEF RouteOps
<1>3. CASE \E op \in RouteOps, kind \in Kinds, want \in SUBSET Conns : StartRoute(h, op, kind, want)
  <2>1. PICK op \in RouteOps, kind \in Kinds, want \in SUBSET Conns : StartRoute(h, op, kind, want)
    BY <1>3
  <2>2. PICK r : r = [Free EXCEPT !.op = op, !.pc = "lock", !.kind = kind, !.want = want]
    OBVIOUS
  <2>3. r \in Edits /\ r.op = op /\ r.pc = "lock" /\ r.want = want
    BY <1>1, <2>1, <2>2 DEF Edits, RouteOps
  <2>4. Begin(h, r) /\ UNCHANGED <<conns, project, route, lists, asked, crossed, docs>>
    BY <2>1, <2>2 DEF StartRoute
  <2> QED
    BY <2>1, <2>3, <2>4, CatBegins DEF RouteOps
<1>4. CASE \E want \in SUBSET Editors : StartSetMembers(h, want)
  <2>1. PICK want \in SUBSET Editors : StartSetMembers(h, want)
    BY <1>4
  <2>2. PICK r : r = [Free EXCEPT !.op = "members", !.pc = "snapshot", !.want = want]
    OBVIOUS
  <2>3. r \in Edits /\ r.op = "members" /\ r.pc = "snapshot" /\ r.want = want
    BY <1>1, <2>1, <2>2 DEF Edits
  <2>4. Begin(h, r) /\ UNCHANGED <<conns, project, route, lists, asked, crossed, docs>>
    BY <2>1, <2>2 DEF StartSetMembers
  <2> QED
    BY <2>1, <2>3, <2>4, CatBegins DEF RouteOps
<1>5. CASE \E c \in Conns, turns \in {0, 2}, policy \in {"", "off"} : StartUpdateProject(h, c, turns, policy)
  <2>1. PICK c \in Conns, turns \in {0, 2}, policy \in {"", "off"} : StartUpdateProject(h, c, turns, policy)
    BY <1>5
  <2>2. PICK r : r = [Free EXCEPT !.op = "project", !.pc = "save", !.conn = c, !.turns = turns, !.policy = policy,
                                  !.base = project.turns]
    OBVIOUS
  <2>3. project.turns \in Turns /\ turns \in {0} \cup Turns /\ policy \in {""} \cup Policies
    <3>1. project \in ProjectRows
      BY DEF CatIInv, CatalogInv, CatalogTypeOK, ProjectRows
    <3>2. project.turns \in Turns
      BY <3>1 DEF ProjectRows
    <3>3. turns \in {0, 2} /\ policy \in {"", "off"}
      BY <2>1
    <3> QED
      BY <3>2, <3>3, CatValues DEF Policies
  <2>4. r \in Edits /\ r.op = "project" /\ r.pc = "save" /\ r.conn = c
    BY <1>1, <2>2, <2>3 DEF Edits
  <2>5. Begin(h, r) /\ UNCHANGED <<conns, project, route, lists, asked, crossed, docs>>
    BY <2>1, <2>2 DEF StartUpdateProject
  <2> QED
    BY <2>4, <2>5, CatBegins DEF RouteOps
<1>6. CASE \E files \in 1..MaxFiles : StartUpload(h, files)
  <2>1. PICK files \in 1..MaxFiles : StartUpload(h, files)
    BY <1>6
  <2>2. PICK r : r = [Free EXCEPT !.op = "upload", !.pc = "file", !.files = files, !.counted = docs]
    OBVIOUS
  <2>3. files \in 0..MaxFiles /\ docs \in 0..(MaxDocuments + Cardinality(Handlers) * MaxFiles)
    <3>1. files \in 0..MaxFiles
      BY <2>1, CatValues
    <3>2. docs \in 0..(MaxDocuments + Cardinality(Handlers) * MaxFiles)
      BY DEF CatIInv, CatalogInv, CatalogTypeOK
    <3> QED
      BY <3>1, <3>2
  <2>4. r \in Edits /\ r.op = "upload" /\ r.pc = "file" /\ r.files = files /\ r.counted = docs
    BY <1>1, <2>2, <2>3 DEF Edits
  <2>5. Begin(h, r) /\ UNCHANGED <<conns, project, route, lists, asked, crossed, docs>>
    BY <2>1, <2>2 DEF StartUpload
  <2> QED
    BY <2>4, <2>5, CatBegins DEF RouteOps
<1> QED
  BY <1>2, <1>3, <1>4, <1>5, <1>6

\* What remains when a request ends.
LEMMA CatAnswers ==
    ASSUME CatIInv, NEW h \in Handlers, Answer(h), docs' = docs, lists'["targets"] \subseteq lists["targets"]
    PROVE  /\ handler' = [handler EXCEPT ![h] = Free] /\ handler'[h] = Free /\ \A g \in Handlers \ {h} : handler'[g] = handler[g]
           /\ handler' \in [Handlers -> Edits] /\ edits' = edits /\ edits' \in 0..MaxEdits /\ edits <= edits' /\ edits' \in Nat
           /\ docs' \in 0..DocsBound /\ HandlerSound(h)' /\ RowsSound' /\ QuotaSound'
<1>1. /\ handler' = [handler EXCEPT ![h] = Free] /\ handler'[h] = Free /\ \A g \in Handlers \ {h} : handler'[g] = handler[g]
      /\ handler' \in [Handlers -> Edits] /\ edits' = edits
  BY CatFree DEF Answer, CatIInv, CatalogInv, CatalogTypeOK
<1>2. edits' \in 0..MaxEdits /\ edits <= edits' /\ edits' \in Nat /\ docs' \in 0..DocsBound /\ docs \in Nat /\ docs <= docs
  BY <1>1, CatNumbers DEF CatIInv, CatalogInv, CatalogTypeOK, DocsBound
<1>3. HandlerSound(h)'
  BY <1>1, CatFree DEF HandlerSound, RouteOps
<1>4. RowsSound'
  BY <1>1, CatFree, CatRowsKept
<1>5. QuotaSound'
  BY <1>1, <1>2, CatFree, CatQuotaKept DEF CatIInv
<1> QED
  BY <1>1, <1>2, <1>3, <1>4, <1>5

LEMMA CatFails ==
    ASSUME CatIInv, NEW h \in Handlers, Answer(h), Release(h) \/ route' = route,
           UNCHANGED <<conns, project, lists, asked, crossed, docs>>
    PROVE  CatIInv'
<1>1. route \in RouteRows /\ h # None
  BY CatRowFacts DEF CatIInv, CatalogInv, CatalogTypeOK, RouteRows
<1>2. route' \in RouteRows /\ route'.kind = route.kind /\ \A g \in Handlers \ {h} : route.holder = g => route'.holder = g
  BY <1>1 DEF Release, RouteRows
<1>3. Free \in Edits /\ docs' \in Nat
  BY CatFree, CatRowFacts
<1> QED
  BY <1>2, <1>3, CatAnswers, CatStep

LEMMA CatUpdateConnection ==
    ASSUME CatIInv, NEW h \in Handlers, UpdateConnection(h)
    PROVE  CatIInv'
<1> DEFINE c == handler[h].conn
           late == {x.member : x \in lists["targets"] \ handler[h].seen}
<1>1. /\ handler[h].op = "conn" /\ Answer(h) /\ UNCHANGED <<project, route, lists, asked, docs>>
      /\ IF conns[c].here THEN conns' = [conns EXCEPT ![c].type = handler[h].type] /\ crossed' = crossed \cup ({c} \cap late)
         ELSE UNCHANGED <<conns, crossed>>
  BY DEF UpdateConnection
<1>2. c \in Conns /\ handler[h].type \in ProviderTypes
  BY <1>1, CatRowFacts DEF HandlerSound, Edits
<1>3. /\ conns' \in [Conns -> ConnRows] /\ conns'[c].type \in {conns[c].type, handler[h].type}
      /\ conns'[c].type = conns[c].type \/ crossed' = crossed \cup ({c} \cap late)
      /\ \A x \in Conns \ {c} : conns'[x] = conns[x]
      /\ \A x \in Conns : conns'[x].here = conns[x].here
  BY <1>1, <1>2 DEF CatIInv, CatalogInv, CatalogTypeOK, ConnRows
<1>4. crossed \subseteq crossed' /\ crossed' \subseteq Conns
  BY <1>1, <1>2 DEF CatIInv, CatalogInv, CatalogTypeOK
<1>5. lists'["targets"] \subseteq lists["targets"] /\ Listed(lists["targets"]) \subseteq Conns
  BY <1>1 DEF CatIInv, CatalogInv, CatalogTypeOK, Lists, Elements
<1>6. \A g \in Handlers \ {h} : HandlerSound(g)'
  BY <1>1, <1>5, CatAnswers, CatOthers
<1>7. TargetsServeUnlessRaced'
  <2>1. SUFFICES ASSUME NEW t \in lists["targets"]
                 PROVE  Supports(conns'[t.member].type, route.kind) \/ t.member \in crossed'
    BY <1>1 DEF TargetsServeUnlessRaced, Listed
  <2>2. t.member \in Conns /\ (Supports(conns[t.member].type, route.kind) \/ t.member \in crossed)
    BY <1>5 DEF Listed, CatIInv, CatalogInv, TargetsServeUnlessRaced
  <2>3. CASE t.member # c \/ conns'[c].type = conns[c].type
    BY <1>3, <1>4, <2>2, <2>3
  <2>4. CASE t.member = c /\ conns'[c].type # conns[c].type
    <3>1. CASE t \in handler[h].seen
      BY <1>1, <1>3, <2>4, <3>1, CatRowFacts DEF HandlerSound
    <3>2. CASE t \notin handler[h].seen
      BY <1>3, <2>4, <3>2
    <3> QED
      BY <3>1, <3>2
  <2> QED
    BY <2>3, <2>4
<1>8. TargetsHere' /\ TargetsAreOneRequests'
  BY <1>1, <1>3, <1>5 DEF CatIInv, CatalogInv, TargetsHere, TargetsAreOneRequests, Listed
<1>9. CatalogTypeOK'
  BY <1>1, <1>3, <1>4, <1>5, CatAnswers DEF CatIInv, CatalogInv, CatalogTypeOK, ConnRows, DocsBound, Listed, Elements
<1> QED
  BY <1>1, <1>5, <1>6, <1>7, <1>8, <1>9, CatAnswers DEF CatIInv, CatalogInv

LEMMA CatUpdateProject ==
    ASSUME CatIInv, NEW h \in Handlers, UpdateProject(h)
    PROVE  CatIInv'
<1>1. handler[h].op = "project" /\ Answer(h) /\ UNCHANGED <<conns, route, lists, asked, crossed, docs>>
  BY DEF UpdateProject
<1>2. project' \in ProjectRows
  <2> DEFINE x == handler[h]
  <2>1. x \in Edits /\ x.conn \in Conns /\ project \in ProjectRows
    BY <1>1, CatRowFacts DEF HandlerSound, CatIInv, CatalogInv, CatalogTypeOK, ProjectRows
  <2>2. SavedTurns(x) \in Turns /\ SavedPolicy(x) \in Policies
    BY <2>1 DEF SavedTurns, SavedPolicy, Edits, ProjectRows
  <2>3. project' = IF project.here /\ conns[x.conn].here
                   THEN [project EXCEPT !.model = x.conn, !.turns = SavedTurns(x), !.policy = SavedPolicy(x)]
                   ELSE project
    BY DEF UpdateProject
  <2> HIDE DEF x
  <2> QED
    BY <2>1, <2>2, <2>3 DEF ProjectRows
<1>3. lists'["targets"] \subseteq lists["targets"]
  BY <1>1
<1>4. \A g \in Handlers \ {h} : HandlerSound(g)'
  BY <1>1, <1>3, CatAnswers, CatOthers
<1>5. TargetsServeUnlessRaced' /\ TargetsHere' /\ TargetsAreOneRequests'
  BY <1>1 DEF CatIInv, CatalogInv, TargetsServeUnlessRaced, TargetsHere, TargetsAreOneRequests, Listed
<1>6. CatalogTypeOK'
  BY <1>1, <1>2, <1>3, CatAnswers DEF CatIInv, CatalogInv, CatalogTypeOK, ProjectRows, DocsBound, Listed, Elements
<1> QED
  BY <1>1, <1>3, <1>4, <1>5, <1>6, CatAnswers DEF CatIInv, CatalogInv

\* What remains of a step that is none of the requests'.
LEMMA CatStill ==
    ASSUME CatIInv, UNCHANGED <<handler, edits>>, docs' \in Nat, docs' <= docs, lists'["targets"] \subseteq lists["targets"],
           \/ lists'["targets"] = lists["targets"] /\ route' = route
           \/ lists'["targets"] = {} /\ route.holder = None
    PROVE  /\ \A g \in Handlers : HandlerSound(g)'
           /\ RowsSound' /\ QuotaSound' /\ docs' \in 0..DocsBound
<1>1. docs \in Nat /\ edits \in Nat /\ edits <= edits /\ None \notin Handlers
  BY CatNumbers, CatalogBounds DEF CatalogBounds, CatIInv, CatalogInv, CatalogTypeOK
<1>2. RowsSound'
  BY CatRowsKept
<1>3. QuotaSound'
  BY <1>1, CatQuotaKept DEF CatIInv
<1>4. docs' \in 0..DocsBound
  BY <1>3, CatDocs DEF QuotaSound, Tokens
<1>5. \A g \in Handlers : HandlerSound(g)'
  BY <1>1, CatOthers
<1> QED
  BY <1>2, <1>3, <1>4, <1>5

LEMMA CatConnections ==
    ASSUME CatIInv, NEW c \in Conns,
           DeleteConnection(c) \/ \E type \in ProviderTypes : CreateConnection(c, type)
    PROVE  CatIInv'
<1>1. /\ UNCHANGED <<project, route, lists, asked, crossed, docs, handler, edits>> /\ conns' \in [Conns -> ConnRows]
      /\ \A x \in Conns \ {c} : conns'[x] = conns[x]
  <2>0. conns \in [Conns -> ConnRows]
    BY DEF CatIInv, CatalogInv, CatalogTypeOK, ConnRows
  <2>1. CASE DeleteConnection(c)
    BY <2>0, <2>1 DEF DeleteConnection, ConnRows
  <2>2. CASE \E type \in ProviderTypes : CreateConnection(c, type)
    <3>1. PICK type \in ProviderTypes : CreateConnection(c, type)
      BY <2>2
    <3>2. [here |-> TRUE, type |-> type] \in ConnRows
      BY <3>1 DEF ConnRows
    <3> QED
      BY <2>0, <3>1, <3>2 DEF CreateConnection
  <2> QED
    BY <2>1, <2>2
<1>2. c \notin Listed(lists["targets"])
  BY DEF DeleteConnection, CreateConnection, CatIInv, TargetsHere
<1>3. Listed(lists["targets"]) \subseteq Conns
  BY DEF CatIInv, CatalogInv, CatalogTypeOK, Lists, Elements
<1>4. TargetsServeUnlessRaced' /\ TargetsHere' /\ TargetsAreOneRequests'
  BY <1>1, <1>2, <1>3 DEF CatIInv, CatalogInv, TargetsServeUnlessRaced, TargetsHere, TargetsAreOneRequests, Listed
<1>5. docs' \in Nat /\ docs' <= docs
  BY <1>1, CatNumbers DEF CatIInv, CatalogInv, CatalogTypeOK
<1>6. (\A g \in Handlers : HandlerSound(g)') /\ RowsSound' /\ QuotaSound'
  BY <1>1, <1>5, CatStill
<1>7. CatalogTypeOK'
  BY <1>1 DEF CatIInv, CatalogInv, CatalogTypeOK, ConnRows, Listed, Elements
<1> QED
  BY <1>4, <1>6, <1>7 DEF CatIInv, CatalogInv

\* A list is replaced outside the requests, and with it the project's row.
LEMMA CatReplaced ==
    ASSUME CatIInv, UNCHANGED <<conns, crossed, docs, handler, edits>>, project' \in ProjectRows, route' \in RouteRows,
           DOMAIN lists' = Lists, DOMAIN asked' = Lists,
           lists'["members"] \subseteq ListRows, Listed(lists'["members"]) \subseteq Editors, asked'["members"] \subseteq Editors,
           \/ lists'["targets"] = lists["targets"] /\ asked'["targets"] = asked["targets"] /\ route' = route
           \/ lists'["targets"] = {} /\ asked'["targets"] = {} /\ route.holder = None
    PROVE  CatIInv'
<1>1. /\ docs' \in Nat /\ docs' <= docs /\ lists["targets"] \subseteq ListRows /\ Listed(lists["targets"]) \subseteq Conns
      /\ asked["targets"] \subseteq Conns
  BY CatNumbers DEF CatIInv, CatalogInv, CatalogTypeOK, Lists, Elements
<1>2. (\A g \in Handlers : HandlerSound(g)') /\ RowsSound' /\ QuotaSound'
  BY <1>1, CatStill
<1>3. TargetsServeUnlessRaced' /\ TargetsHere' /\ TargetsAreOneRequests'
  BY DEF CatIInv, CatalogInv, TargetsServeUnlessRaced, TargetsHere, TargetsAreOneRequests, Listed
<1>4. \A l \in Lists : /\ lists'[l] \subseteq ListRows /\ Listed(lists'[l]) \subseteq Elements(l)
                        /\ asked'[l] \subseteq Elements(l)
  BY <1>1 DEF Lists, Elements, Listed
<1>5. CatalogTypeOK'
  BY <1>4 DEF CatIInv, CatalogInv, CatalogTypeOK, ProjectRows, RouteRows, Listed, Elements
<1> QED
  BY <1>2, <1>3, <1>5 DEF CatIInv, CatalogInv

LEMMA CatProject ==
    ASSUME CatIInv,
           \/ DeleteRoute \/ DeleteProject
           \/ \E u \in Editors, c \in Conns, want \in SUBSET Editors : CreateProject(u, c, want)
    PROVE  CatIInv'
<1>1. /\ DOMAIN lists = Lists /\ DOMAIN asked = Lists /\ lists["members"] \subseteq ListRows
      /\ Listed(lists["members"]) \subseteq Editors /\ asked["members"] \subseteq Editors
      /\ project \in ProjectRows /\ route \in RouteRows /\ "members" \in Lists /\ "targets" \in Lists
  BY DEF CatIInv, CatalogInv, CatalogTypeOK, Lists, Elements, ProjectRows, RouteRows
<1>2. CASE DeleteRoute
  <2>1. /\ UNCHANGED <<conns, project, crossed, docs, handler, edits>> /\ route.holder = None
        /\ route' = [route EXCEPT !.here = FALSE] /\ lists' = [lists EXCEPT !["targets"] = {}]
        /\ asked' = [asked EXCEPT !["targets"] = {}]
    BY <1>2 DEF DeleteRoute
  <2>2. route' \in RouteRows
    BY <1>1, <2>1 DEF RouteRows
  <2>3. /\ DOMAIN lists' = Lists /\ DOMAIN asked' = Lists /\ lists'["targets"] = {} /\ asked'["targets"] = {}
        /\ lists'["members"] = lists["members"] /\ asked'["members"] = asked["members"]
    BY <1>1, <2>1
  <2> QED
    BY <1>1, <2>1, <2>2, <2>3, CatReplaced
<1>3. CASE DeleteProject
  <2>1. /\ UNCHANGED <<conns, crossed, docs, handler, edits>> /\ route.holder = None
        /\ project' = [project EXCEPT !.here = FALSE] /\ route' = [route EXCEPT !.here = FALSE]
        /\ lists' = [l \in Lists |-> {}] /\ asked' = [l \in Lists |-> {}]
    BY <1>3 DEF DeleteProject
  <2>2. route' \in RouteRows /\ project' \in ProjectRows
    BY <1>1, <2>1 DEF RouteRows, ProjectRows
  <2>3. /\ DOMAIN lists' = Lists /\ DOMAIN asked' = Lists /\ lists'["targets"] = {} /\ asked'["targets"] = {}
        /\ lists'["members"] = {} /\ asked'["members"] = {}
    BY <1>1, <2>1
  <2> QED
    BY <2>1, <2>2, <2>3, CatReplaced DEF Listed
<1>4. CASE \E u \in Editors, c \in Conns, want \in SUBSET Editors : CreateProject(u, c, want)
  <2>1. PICK u \in Editors, c \in Conns, want \in SUBSET Editors : CreateProject(u, c, want)
    BY <1>4
  <2>2. /\ UNCHANGED <<conns, route, crossed, docs, handler, edits>>
        /\ project' = [here |-> TRUE, model |-> c, turns |-> 1, policy |-> "always"]
        /\ lists' = [lists EXCEPT !["members"] = {[member |-> e, by |-> 0] : e \in want}]
        /\ asked' = [asked EXCEPT !["members"] = want]
    BY <2>1 DEF CreateProject
  <2>3. project' \in ProjectRows
    BY <2>2 DEF ProjectRows, Turns, Policies
  <2>4. /\ DOMAIN lists' = Lists /\ DOMAIN asked' = Lists
        /\ lists'["targets"] = lists["targets"] /\ asked'["targets"] = asked["targets"]
        /\ lists'["members"] = {[member |-> e, by |-> 0] : e \in want} /\ asked'["members"] = want
    BY <1>1, <2>2
  <2>5. 0 \in 0..MaxEdits
    BY CatNumbers
  <2>6. lists'["members"] \subseteq ListRows /\ Listed(lists'["members"]) \subseteq Editors
    BY <2>1, <2>4, <2>5 DEF ListRows, Listed
  <2> QED
    BY <1>1, <2>1, <2>2, <2>3, <2>4, <2>6, CatReplaced
<1> QED
  BY <1>2, <1>3, <1>4

LEMMA CatDeleteDocument ==
    ASSUME CatIInv, DeleteDocument
    PROVE  CatIInv'
<1>1. docs' = docs - 1 /\ docs > 0 /\ UNCHANGED <<conns, project, route, lists, asked, crossed, handler, edits>>
  BY DEF DeleteDocument
<1>2. docs' \in Nat /\ docs' <= docs
  BY <1>1, CatNumbers DEF CatIInv, CatalogInv, CatalogTypeOK
<1>3. (\A g \in Handlers : HandlerSound(g)') /\ RowsSound' /\ QuotaSound' /\ docs' \in 0..DocsBound
  BY <1>1, <1>2, CatStill
<1>4. TargetsServeUnlessRaced' /\ TargetsHere' /\ TargetsAreOneRequests'
  BY <1>1 DEF CatIInv, CatalogInv, TargetsServeUnlessRaced, TargetsHere, TargetsAreOneRequests, Listed
<1>5. CatalogTypeOK'
  BY <1>1, <1>3 DEF CatIInv, CatalogInv, CatalogTypeOK, DocsBound, Listed, Elements
<1> QED
  BY <1>3, <1>4, <1>5 DEF CatIInv, CatalogInv

\* A request that proceeds.
LEMMA CatProceeds ==
    ASSUME CatIInv, NEW h \in Handlers, NEW q \in Edits, handler' = [handler EXCEPT ![h] = q],
           UNCHANGED <<conns, project, lists, asked, crossed, docs, edits>>,
           q.pc \in {"snapshot", "delete", "insert"}, handler[h].pc \in {"lock", "snapshot", "delete"},
           q.op = handler[h].op, q.n = handler[h].n, q.want = handler[h].want,
           route' = route \/ (route.holder = None /\ route' = [route EXCEPT !.holder = h]),
           q.op \in RouteOps => route'.holder = h,
           q.op \in RouteOps /\ q.pc \in {"delete", "insert"} => q.seen = lists["targets"]
    PROVE  CatIInv'
<1>1. handler'[h] = q /\ (\A g \in Handlers \ {h} : handler'[g] = handler[g])
  BY DEF CatIInv, CatalogInv, CatalogTypeOK
<1>2. HandlerSound(h) /\ edits \in Nat /\ docs \in Nat /\ docs <= docs /\ edits <= edits /\ edits \in 0..MaxEdits
  BY CatRowFacts, CatNumbers DEF CatIInv, CatalogInv, CatalogTypeOK
<1>3. route' \in RouteRows /\ route'.kind = route.kind /\ \A g \in Handlers \ {h} : route.holder = g => route'.holder = g
  <2>1. route \in RouteRows /\ None \notin Handlers
    BY CatalogBounds DEF CatalogBounds, CatIInv, CatalogInv, CatalogTypeOK, RouteRows
  <2> QED
    BY <2>1 DEF RouteRows
<1>4. RowsSound'
  BY <1>1, <1>2, CatRowsKept DEF HandlerSound
<1>5. QuotaSound'
  BY <1>1, <1>2, CatQuotaKept DEF CatIInv
<1>6. HandlerSound(h)'
  BY <1>1, <1>2, <1>3 DEF HandlerSound, RouteOps
<1> QED
  BY <1>2, <1>3, <1>4, <1>5, <1>6, CatStep

LEMMA CatReplacing ==
    ASSUME CatIInv, NEW h \in Handlers, LockRoute(h) \/ SnapshotList(h) \/ DeleteListed(h)
    PROVE  CatIInv'
<1>1. handler[h] \in Edits /\ HandlerSound(h)
  BY CatRowFacts
<1>2. CASE LockRoute(h)
  <2>1. handler[h].pc = "lock" /\ route.holder = None /\ UNCHANGED <<conns, project, lists, asked, crossed, docs>>
    BY <1>2 DEF LockRoute
  <2>2. CASE project.here /\ (handler[h].op = "update") = route.here
    <3>1. PICK q : q = [handler[h] EXCEPT !.pc = "snapshot"]
      OBVIOUS
    <3>2. /\ route' = [route EXCEPT !.holder = h] /\ handler' = [handler EXCEPT ![h] = q] /\ edits' = edits
      BY <1>2, <2>2, <3>1 DEF LockRoute, Proceed
    <3>3. q \in Edits /\ q.pc = "snapshot" /\ q.op = handler[h].op /\ q.n = handler[h].n /\ q.want = handler[h].want
      BY <1>1, <3>1 DEF Edits
    <3>4. route'.holder = h
      BY <3>2 DEF CatIInv, CatalogInv, CatalogTypeOK
    <3> QED
      BY <2>1, <3>2, <3>3, <3>4, CatProceeds
  <2>3. CASE ~(project.here /\ (handler[h].op = "update") = route.here)
    BY <1>2, <2>1, <2>3, CatFails DEF LockRoute
  <2> QED
    BY <2>2, <2>3
<1>3. CASE SnapshotList(h)
  <2>1. PICK q : q = [handler[h] EXCEPT !.pc = "delete", !.seen = lists[ListOf(h)]]
    OBVIOUS
  <2>2. /\ handler[h].pc = "snapshot" /\ handler' = [handler EXCEPT ![h] = q]
        /\ UNCHANGED <<conns, project, route, lists, asked, crossed, docs, edits>>
    BY <1>3, <2>1 DEF SnapshotList
  <2>3. lists[ListOf(h)] \in SUBSET ListRows
    BY DEF ListOf, CatIInv, CatalogInv, CatalogTypeOK, Lists
  <2>4. /\ q \in Edits /\ q.pc = "delete" /\ q.op = handler[h].op /\ q.n = handler[h].n /\ q.want = handler[h].want
        /\ q.seen = lists[ListOf(h)]
    BY <1>1, <2>1, <2>3 DEF Edits
  <2> QED
    BY <1>1, <2>2, <2>4, CatProceeds DEF HandlerSound, ListOf
<1>4. CASE DeleteListed(h)
  <2>1. PICK q : q = [handler[h] EXCEPT !.pc = "insert"]
    OBVIOUS
  <2>2. /\ handler[h].pc = "delete" /\ handler' = [handler EXCEPT ![h] = q]
        /\ UNCHANGED <<conns, project, route, lists, asked, crossed, docs, edits>>
    BY <1>4, <2>1 DEF DeleteListed, Proceed
  <2>3. /\ q \in Edits /\ q.pc = "insert" /\ q.op = handler[h].op /\ q.n = handler[h].n /\ q.want = handler[h].want
        /\ q.seen = handler[h].seen
    BY <1>1, <2>1 DEF Edits
  <2> QED
    BY <1>1, <2>2, <2>3, CatProceeds DEF HandlerSound
<1> QED
  BY <1>2, <1>3, <1>4

LEMMA CatInsertTargets ==
    ASSUME CatIInv, NEW h \in Handlers, InsertListed(h), handler[h].op \in RouteOps,
           project.here, \A c \in handler[h].want \cap Conns : conns[c].here
    PROVE  CatIInv'
<1> DEFINE x == handler[h]
           rows == {[member |-> e, by |-> x.n] : e \in x.want}
<1>1. /\ x \in Edits /\ HandlerSound(h) /\ x.pc = "insert" /\ x.want \subseteq Conns /\ x.seen = lists["targets"]
      /\ x.n \in 1..edits /\ route.holder = h /\ ListOf(h) = "targets"
  <2>1. x.pc = "insert" /\ x \in Edits /\ HandlerSound(h)
    BY CatRowFacts DEF InsertListed
  <2> QED
    BY <2>1 DEF HandlerSound, ListOf, RouteOps
<1>2. /\ Answer(h) /\ UNCHANGED <<conns, project, docs>> /\ asked' = [asked EXCEPT !["targets"] = x.want]
      /\ route' = [here |-> TRUE, kind |-> x.kind, holder |-> None]
      /\ crossed' = crossed \cup {c \in x.want \cap Conns : ~Supports(conns[c].type, x.kind)}
      /\ lists' = [lists EXCEPT !["targets"] = rows]
  <2> DEFINE kept == lists["targets"] \ x.seen
  <2>1. lists' = [lists EXCEPT !["targets"] = kept \cup {[member |-> e, by |-> x.n] : e \in x.want \ Listed(kept)}]
    BY <1>1 DEF InsertListed
  <2>2. kept = {} /\ Listed(kept) = {}
    BY <1>1 DEF Listed
  <2>3. kept \cup {[member |-> e, by |-> x.n] : e \in x.want \ Listed(kept)} = rows
    BY <2>2
  <2> QED
    BY <1>1, <2>1, <2>3 DEF InsertListed
<1>3. /\ DOMAIN lists = Lists /\ DOMAIN asked = Lists /\ lists["members"] \subseteq ListRows /\ "targets" \in Lists
      /\ Listed(lists["members"]) \subseteq Editors /\ asked["members"] \subseteq Editors /\ edits \in 0..MaxEdits
  BY DEF CatIInv, CatalogInv, CatalogTypeOK, Lists, Elements
<1>4. x.n \in 0..MaxEdits /\ x.n <= edits /\ edits \in Nat /\ edits <= edits
  BY <1>1, <1>3, CatNumbers
<1>5. /\ handler' = [handler EXCEPT ![h] = Free] /\ handler'[h] = Free /\ \A g \in Handlers \ {h} : handler'[g] = handler[g]
      /\ handler' \in [Handlers -> Edits] /\ edits' = edits
  BY <1>2, CatFree DEF Answer, CatIInv, CatalogInv, CatalogTypeOK
<1>6. x.op # "none" /\ Active(h)
  BY DEF Active, RouteOps
<1> HIDE DEF x
<1>7. /\ rows \subseteq ListRows /\ Listed(rows) = x.want /\ \A t \in rows : t.by = x.n
      /\ lists'["targets"] = rows /\ lists'["members"] = lists["members"]
      /\ asked'["targets"] = x.want /\ asked'["members"] = asked["members"] /\ DOMAIN lists' = Lists /\ DOMAIN asked' = Lists
  <2>1. rows \subseteq ListRows
    BY <1>1, <1>4 DEF ListRows
  <2>2. Listed(rows) = x.want
    BY CatListed
  <2> HIDE DEF rows
  <2>3. /\ lists'["targets"] = rows /\ lists'["members"] = lists["members"]
        /\ asked'["targets"] = x.want /\ asked'["members"] = asked["members"] /\ DOMAIN lists' = Lists /\ DOMAIN asked' = Lists
    BY <1>2, <1>3
  <2>4. \A t \in rows : t.by = x.n
    BY DEF rows
  <2> QED
    BY <2>1, <2>2, <2>3, <2>4
<1> HIDE DEF rows
<1>8. \A g \in Handlers \ {h} : HandlerSound(g)'
  <2>1. route.holder \notin Handlers \ {h}
    BY <1>1
  <2>2. \A t \in lists'["targets"] : \E g \in Handlers : Active(g) /\ t.by = handler[g].n
    BY <1>6, <1>7 DEF x
  <2> QED
    BY <1>4, <1>5, <2>1, <2>2, CatOthers
<1>9. HandlerSound(h)'
  BY <1>5, CatFree DEF HandlerSound, RouteOps
<1>10. RowsSound'
  <2>1. \A g \in Handlers \ {h} : Active(g) => handler[g].n # x.n
    BY <1>6 DEF CatIInv, RowsSound, x
  <2>2. \A t \in lists'["targets"] : OldRow(t)'
    BY <1>4, <1>5, <1>7, <2>1, CatFree DEF OldRow, Active
  <2>3. \A t : OldRow(t) => OldRow(t)'
    BY <1>5, CatFree DEF OldRow, Active
  <2>4. \A g \in Handlers : handler'[g].op = "conn" => \A t \in handler'[g].seen : OldRow(t)'
    BY <1>5, <2>3, CatFree DEF CatIInv, RowsSound
  <2> QED
    BY <1>5, <2>2, <2>4, CatFree DEF CatIInv, RowsSound, Active
<1>11. QuotaSound'
  <2>1. docs' \in Nat /\ docs' <= docs /\ docs \in Nat
    BY <1>2, CatNumbers DEF CatIInv, CatalogInv, CatalogTypeOK
  <2> QED
    BY <1>5, <2>1, CatFree, CatQuotaKept DEF CatIInv
<1>12. TargetsServeUnlessRaced' /\ TargetsHere' /\ TargetsAreOneRequests'
  <2>1. Listed(lists["targets"])' = x.want /\ Listed(lists'["targets"]) = x.want
    BY <1>7 DEF Listed
  <2>2. route'.kind = x.kind
    BY <1>2
  <2>3. \A c \in x.want : conns'[c].here
    BY <1>1, <1>2 DEF x
  <2>4. \A c \in x.want : Supports(conns'[c].type, x.kind) \/ c \in crossed'
    BY <1>1, <1>2
  <2> QED
    BY <1>7, <2>1, <2>2, <2>3, <2>4 DEF TargetsServeUnlessRaced, TargetsHere, TargetsAreOneRequests
<1>13. CatalogTypeOK'
  <2>1. route' \in RouteRows
    BY <1>1, <1>2 DEF RouteRows, Edits
  <2>2. crossed' \subseteq Conns
    BY <1>2 DEF CatIInv, CatalogInv, CatalogTypeOK
  <2>3. \A l \in Lists : /\ lists'[l] \subseteq ListRows /\ Listed(lists'[l]) \subseteq Elements(l)
                          /\ asked'[l] \subseteq Elements(l)
    BY <1>1, <1>3, <1>7 DEF Lists, Elements
  <2> QED
    BY <1>2, <1>5, <1>7, <2>1, <2>2, <2>3 DEF CatIInv, CatalogInv, CatalogTypeOK, RouteRows, Listed, Elements
<1> QED
  BY <1>5, <1>8, <1>9, <1>10, <1>11, <1>12, <1>13 DEF CatIInv, CatalogInv

LEMMA CatInsertMembers ==
    ASSUME CatIInv, NEW h \in Handlers, InsertListed(h), handler[h].op \notin RouteOps,
           project.here, \A c \in handler[h].want \cap Conns : conns[c].here
    PROVE  CatIInv'
<1> DEFINE x == handler[h]
           kept == lists["members"] \ x.seen
           rows == kept \cup {[member |-> e, by |-> x.n] : e \in x.want \ Listed(kept)}
<1>1. x \in Edits /\ HandlerSound(h) /\ x.pc = "insert" /\ x.op = "members" /\ x.want \subseteq Editors /\ ListOf(h) = "members"
  <2>1. x.pc = "insert" /\ x \in Edits /\ HandlerSound(h)
    BY CatRowFacts DEF InsertListed
  <2>2. x.op = "members"
    BY <2>1 DEF HandlerSound, Edits, RouteOps
  <2> QED
    BY <2>1, <2>2 DEF HandlerSound, ListOf, RouteOps
<1>2. /\ Answer(h) /\ UNCHANGED <<conns, project, docs, route>> /\ asked' = [asked EXCEPT !["members"] = x.want]
      /\ crossed' = crossed \cup {c \in x.want \cap Conns : ~Supports(conns[c].type, x.kind)}
      /\ lists' = [lists EXCEPT !["members"] = rows]
  BY <1>1 DEF InsertListed
<1>3. /\ DOMAIN lists = Lists /\ DOMAIN asked = Lists /\ lists["members"] \subseteq ListRows /\ "members" \in Lists
      /\ Listed(lists["members"]) \subseteq Editors /\ lists["targets"] \subseteq ListRows
      /\ Listed(lists["targets"]) \subseteq Conns /\ asked["targets"] \subseteq Conns
  BY DEF CatIInv, CatalogInv, CatalogTypeOK, Lists, Elements
<1>4. x.n \in 0..MaxEdits
  BY <1>1 DEF Edits
<1> HIDE DEF x
<1>5. rows \subseteq ListRows /\ Listed(rows) \subseteq Editors
  BY <1>1, <1>3, <1>4 DEF ListRows, Listed
<1> HIDE DEF rows
<1>6. /\ lists'["targets"] = lists["targets"] /\ lists'["members"] = rows
      /\ asked'["targets"] = asked["targets"] /\ asked'["members"] = x.want /\ DOMAIN lists' = Lists /\ DOMAIN asked' = Lists
  BY <1>2, <1>3
<1>7. lists'["targets"] \subseteq lists["targets"]
  BY <1>6
<1>8. \A g \in Handlers \ {h} : HandlerSound(g)'
  BY <1>2, <1>6, <1>7, CatAnswers, CatOthers
<1>9. crossed \subseteq crossed' /\ crossed' \subseteq Conns
  BY <1>2 DEF CatIInv, CatalogInv, CatalogTypeOK
<1>10. TargetsServeUnlessRaced' /\ TargetsHere' /\ TargetsAreOneRequests'
  BY <1>2, <1>6, <1>9 DEF CatIInv, CatalogInv, TargetsServeUnlessRaced, TargetsHere, TargetsAreOneRequests, Listed
<1>11. CatalogTypeOK'
  <2>1. \A l \in Lists : /\ lists'[l] \subseteq ListRows /\ Listed(lists'[l]) \subseteq Elements(l)
                          /\ asked'[l] \subseteq Elements(l)
    BY <1>1, <1>3, <1>5, <1>6 DEF Lists, Elements
  <2> QED
    BY <1>2, <1>6, <1>7, <1>9, <2>1, CatAnswers DEF CatIInv, CatalogInv, CatalogTypeOK, Listed, Elements
<1> QED
  BY <1>2, <1>7, <1>8, <1>10, <1>11, CatAnswers DEF CatIInv, CatalogInv

LEMMA CatInsertListed ==
    ASSUME CatIInv, NEW h \in Handlers, InsertListed(h)
    PROVE  CatIInv'
<1>1. CASE project.here /\ \A c \in handler[h].want \cap Conns : conns[c].here
  BY <1>1, CatInsertTargets, CatInsertMembers
<1>2. CASE ~(project.here /\ \A c \in handler[h].want \cap Conns : conns[c].here)
  <2>1. Release(h) /\ Answer(h) /\ UNCHANGED <<conns, project, lists, asked, crossed, docs>>
    BY <1>2 DEF InsertListed
  <2> QED
    BY <2>1, CatFails
<1> QED
  BY <1>1, <1>2

LEMMA CatUploadFile ==
    ASSUME CatIInv, NEW h \in Handlers, UploadFile(h)
    PROVE  CatIInv'
<1> DEFINE x == handler[h]
<1>1. /\ x \in Edits /\ HandlerSound(h) /\ x.pc = "file" /\ x.op = "upload" /\ x.files \in 1..MaxFiles
      /\ edits \in Nat /\ docs \in Nat /\ x.n \in 1..edits
  <2>1. x.pc = "file" /\ x \in Edits /\ HandlerSound(h) /\ edits \in Nat /\ docs \in Nat
    BY CatRowFacts DEF UploadFile
  <2> QED
    BY <2>1 DEF HandlerSound
<1>2. CASE QuotaAdd(x) = {}
  BY <1>2, CatFails DEF UploadFile
<1>3. CASE QuotaAdd(x) # {}
  <2>1. /\ docs' = docs + 1 /\ edits' = edits /\ UNCHANGED <<conns, project, route, lists, asked, crossed>>
        /\ \/ handler' = [handler EXCEPT ![h] = Free]
           \/ x.files > 1 /\ handler' = [handler EXCEPT ![h].files = x.files - 1, ![h].counted = x.counted + 1]
    BY <1>3 DEF UploadFile, QuotaAdd, Answer
  <2>2. x.counted + 1 <= MaxDocuments /\ x.counted \in Nat
    <3>1. x.counted \in Nat
      BY <1>1, CatValues
    <3> QED
      BY <1>3, <3>1 DEF QuotaAdd
  <2>3. PICK q \in Edits : /\ handler' = [handler EXCEPT ![h] = q]
                           /\ \/ q = Free
                              \/ /\ q.op = "upload" /\ q.pc = "file" /\ q.n = x.n /\ q.files = x.files - 1
                                 /\ q.files \in 1..MaxFiles /\ q.counted = x.counted + 1
    <3>1. CASE handler' = [handler EXCEPT ![h] = Free]
      BY <3>1, CatFree
    <3>2. CASE x.files > 1 /\ handler' = [handler EXCEPT ![h].files = x.files - 1, ![h].counted = x.counted + 1]
      <4>1. PICK q : q = [handler[h] EXCEPT !.files = x.files - 1, !.counted = x.counted + 1]
        OBVIOUS
      <4>2. x.files - 1 \in 1..MaxFiles /\ x.files - 1 \in 0..MaxFiles
            /\ x.counted + 1 \in 0..(MaxDocuments + Cardinality(Handlers) * MaxFiles)
        BY <1>1, <2>2, <3>2, CatNumbers DEF DocsBound
      <4> DEFINE f == x.files - 1
                 c == x.counted + 1
      <4>3. q = [handler[h] EXCEPT !.files = f, !.counted = c] /\ f \in 1..MaxFiles /\ f \in 0..MaxFiles
            /\ c \in 0..(MaxDocuments + Cardinality(Handlers) * MaxFiles)
            /\ handler' = [handler EXCEPT ![h].files = f, ![h].counted = c]
        BY <3>2, <4>1, <4>2
      <4> HIDE DEF f, c
      <4>4. q \in Edits /\ q.op = "upload" /\ q.pc = "file" /\ q.n = x.n /\ q.files = f /\ q.counted = c
        BY <1>1, <4>3 DEF Edits
      <4>5. handler' = [handler EXCEPT ![h] = q]
        BY <4>3
      <4> QED
        BY <4>3, <4>4, <4>5 DEF f, c
    <3> QED
      BY <2>1, <3>1, <3>2
  <2>4. handler'[h] = q /\ \A g \in Handlers \ {h} : handler'[g] = handler[g]
    BY <2>3 DEF CatIInv, CatalogInv, CatalogTypeOK
  <2>5. QuotaSound'
    BY <1>1, <2>1, <2>2, <2>3, <2>4, CatFree, CatQuotaStores DEF CatIInv
  <2>6. RowsSound'
    BY <1>1, <2>1, <2>3, <2>4, CatFree, CatRowsKept
  <2>7. HandlerSound(h)'
    BY <1>1, <2>1, <2>3, <2>4, CatFree DEF HandlerSound, RouteOps
  <2>8. route' \in RouteRows /\ edits' \in 0..MaxEdits /\ edits <= edits' /\ docs' \in Nat
    BY <1>1, <2>1 DEF CatIInv, CatalogInv, CatalogTypeOK, RouteRows
  <2> QED
    BY <2>1, <2>3, <2>5, <2>6, <2>7, <2>8, CatStep
<1> QED
  BY <1>2, <1>3

LEMMA CatInitial == ASSUME CatalogInit PROVE CatIInv
<1>1. PICK type \in [Conns -> ProviderTypes], model \in Conns, first \in SUBSET Conns :
        /\ first \subseteq {model} /\ type[model] = "llm" /\ conns = [c \in Conns |-> [here |-> TRUE, type |-> type[c]]]
        /\ project = [here |-> TRUE, model |-> model, turns |-> 1, policy |-> "always"]
        /\ route = [here |-> first # {}, kind |-> "chat", holder |-> None]
        /\ asked = [l \in Lists |-> IF l = "members" THEN Editors ELSE first]
        /\ lists = [l \in Lists |-> {[member |-> e, by |-> 0] : e \in asked[l]}]
  <2>1. PICK type \in [Conns -> ProviderTypes], model \in Conns :
          /\ type[model] = "llm" /\ conns = [c \in Conns |-> [here |-> TRUE, type |-> type[c]]]
          /\ project = [here |-> TRUE, model |-> model, turns |-> 1, policy |-> "always"]
          /\ \E first \in {{}, {model}} :
               /\ route = [here |-> first # {}, kind |-> "chat", holder |-> None]
               /\ asked = [l \in Lists |-> IF l = "members" THEN Editors ELSE first]
               /\ lists = [l \in Lists |-> {[member |-> e, by |-> 0] : e \in asked[l]}]
    BY DEF CatalogInit
  <2>2. PICK first \in {{}, {model}} :
               /\ route = [here |-> first # {}, kind |-> "chat", holder |-> None]
               /\ asked = [l \in Lists |-> IF l = "members" THEN Editors ELSE first]
               /\ lists = [l \in Lists |-> {[member |-> e, by |-> 0] : e \in asked[l]}]
    BY <2>1
  <2>3. first \in SUBSET Conns /\ first \subseteq {model}
    BY <2>2
  <2> QED
    BY <2>1, <2>2, <2>3
<1>2. crossed = {} /\ docs = 0 /\ handler = [h \in Handlers |-> Free] /\ edits = 0
  BY DEF CatalogInit
<1>3. first \subseteq {model} /\ first \subseteq Conns
  BY <1>1
<1>4. /\ DOMAIN lists = Lists /\ DOMAIN asked = Lists /\ asked["members"] = Editors /\ asked["targets"] = first
      /\ lists["members"] = {[member |-> e, by |-> 0] : e \in Editors}
      /\ lists["targets"] = {[member |-> e, by |-> 0] : e \in first}
  BY <1>1 DEF Lists
<1>5. 0 \in 0..MaxEdits /\ 0 \in 0..DocsBound
  BY CatNumbers
<1>6. /\ lists["members"] \subseteq ListRows /\ lists["targets"] \subseteq ListRows
      /\ Listed(lists["members"]) = Editors /\ Listed(lists["targets"]) = first
  <2>1. lists["members"] \subseteq ListRows /\ lists["targets"] \subseteq ListRows
    BY <1>3, <1>4, <1>5 DEF ListRows
  <2>2. Listed({[member |-> e, by |-> 0] : e \in Editors}) = Editors
        /\ Listed({[member |-> e, by |-> 0] : e \in first}) = first
    BY CatListed, Zenon
  <2> QED
    BY <1>4, <2>1, <2>2, Zenon
<1>7. CatalogTypeOK
  <2>1. conns \in [Conns -> ConnRows]
    BY <1>1 DEF ConnRows
  <2>2. project \in ProjectRows /\ route \in RouteRows
    BY <1>1 DEF ProjectRows, RouteRows, Turns, Policies, Kinds
  <2>3. handler \in [Handlers -> Edits]
    BY <1>2, CatFree
  <2>4. \A l \in Lists : lists[l] \subseteq ListRows /\ Listed(lists[l]) \subseteq Elements(l) /\ asked[l] \subseteq Elements(l)
    BY <1>3, <1>4, <1>6 DEF Lists, Elements
  <2> QED
    BY <1>2, <1>4, <1>5, <2>1, <2>2, <2>3, <2>4 DEF CatalogTypeOK, ConnRows, ProjectRows, RouteRows, DocsBound
<1>8. TargetsServeUnlessRaced /\ TargetsAreOneRequests /\ TargetsHere
  BY <1>1, <1>3, <1>4, <1>6 DEF TargetsServeUnlessRaced, TargetsAreOneRequests, TargetsHere, Supports
<1>9. (\A h \in Handlers : HandlerSound(h)) /\ RowsSound
  <2>1. \A h \in Handlers : handler[h].op = "none" /\ handler[h].pc = "idle"
    BY <1>2, CatFree
  <2>2. \A t \in lists["targets"] : t.by = 0
    BY <1>4
  <2> QED
    BY <1>2, <2>1, <2>2 DEF HandlerSound, RowsSound, OldRow, Active, RouteOps
<1>10. QuotaSound
  <2>1. Tokens = {}
    BY <1>2, CatFree DEF Tokens
  <2>2. Cardinality(Tokens) = 0
    BY <2>1, FS_EmptySet
  <2> QED
    BY <1>2, <2>2, CatNumbers DEF QuotaSound
<1> QED
  BY <1>7, <1>8, <1>9, <1>10 DEF CatIInv, CatalogInv

LEMMA CatNext ==
    ASSUME CatIInv, [CatalogNext]_catVars
    PROVE  CatIInv'
<1>1. CASE UNCHANGED catVars
  <2>1. UNCHANGED <<conns, project, route, lists, asked, crossed, docs, handler, edits>>
    BY <1>1 DEF catVars
  <2>2. docs' \in Nat /\ docs' <= docs
    BY <2>1, CatNumbers DEF CatIInv, CatalogInv, CatalogTypeOK
  <2>3. (\A g \in Handlers : HandlerSound(g)') /\ RowsSound' /\ QuotaSound'
    BY <2>1, <2>2, CatStill
  <2>4. CatalogTypeOK' /\ TargetsServeUnlessRaced' /\ TargetsHere' /\ TargetsAreOneRequests'
    BY <2>1 DEF CatIInv, CatalogInv, CatalogTypeOK, TargetsServeUnlessRaced, TargetsHere, TargetsAreOneRequests, Listed, Elements
  <2> QED
    BY <2>3, <2>4 DEF CatIInv, CatalogInv
<1>2. ASSUME NEW h \in Handlers, Fail(h) PROVE CatIInv'
  BY <1>2, CatFails DEF Fail
<1> QED
  BY <1>1, <1>2, CatStarts, CatUpdateConnection, CatReplacing, CatInsertListed, CatUpdateProject, CatUploadFile,
     CatConnections, CatProject, CatDeleteDocument DEF CatalogNext

\* In every reachable state the request that replaces a route's targets holds
\* the route's row, and a list's rows are those of a request that is over
\* (UpdateRoute, insertRouteTargets).
THEOREM CatIInvAlways == CatalogSpec => []CatIInv
<1>1. CatalogInit => CatIInv
  BY CatInitial
<1>2. CatIInv /\ [CatalogNext]_catVars => CatIInv'
  BY CatNext
<1> QED
  BY <1>1, <1>2, PTL DEF CatalogSpec

\* However many requests overlap: the targets of a route are those of one save
\* of it, and each can serve it unless a connection's update crossed that save
\* (routeFromInput, routeKindConflict, UpdateRoute).
THEOREM RoutesStaySound == CatalogSpec => []CatalogInv
<1>1. CatIInv => CatalogInv
  BY DEF CatIInv
<1> QED
  BY <1>1, CatIInvAlways, PTL

\* Whatever the limit, the size of an upload and the number of uploads in
\* progress, the limit is passed by at most the files of all uploads but one
\* (storeQuota, uploadDocument).
THEOREM OvershootAlwaysBounded == CatalogSpec => []QuotaOvershootBounded
<1>1. ASSUME CatIInv PROVE QuotaOvershootBounded
  <2>1. docs \in Nat /\ QuotaSound
    BY <1>1, CatNumbers DEF CatIInv, CatalogInv, CatalogTypeOK
  <2>2. docs <= Limit
    BY <2>1, CatDocs DEF QuotaSound, Tokens
  <2> QED
    BY <2>2 DEF QuotaOvershootBounded, Limit
<1> QED
  BY <1>1, CatIInvAlways, PTL
-------------------------------------------------------------------------------
(* VectorIndex: two locks and what their holders know of the index. *)

CatalogStates == {"no table", "valid", "building", "broken", "absent"}
IngestRows == [pc : {"idle", "checked", "ensuring", "statements", "ensured"}, on : Replicas \cup {NoHolder},
               saw : {""} \cup CatalogStates, stmts : BOOLEAN]

VecTypeOK ==
    /\ table \in BOOLEAN /\ index \in {"none", "invalid", "valid"} /\ cut \in BOOLEAN
    /\ locks \in [ddl : Stores \cup {NoHolder}, reindex : Stores \cup Replicas \cup {NoHolder}]
    /\ cached \in [Replicas -> BOOLEAN]
    /\ ingest \in [Stores -> IngestRows]
    /\ reindex \in [Replicas -> {"idle", "asked", "locked", "dropped", "creating"}]

\* A builder holds the reindex lock and knows what the index is; nobody asks
\* for the index of a table that is not there.
BuilderSound(r) ==
    /\ reindex[r] \in {"locked", "dropped", "creating"} <=> locks.reindex = r
    /\ reindex[r] = "dropped" => index = "none"
    /\ reindex[r] = "creating" => index = "invalid"
    /\ reindex[r] # "idle" => table
    /\ cached[r] => table /\ index = "valid"

\* An ingest inside ensureVecTable holds the tables' lock, makes the table that
\* is not there, and the index of an orphan under the reindex lock.
IngestSound(s) ==
    LET i == ingest[s] IN
    /\ i.pc \in {"ensuring", "statements"} <=> locks.ddl = s
    /\ locks.reindex = s <=> i.pc = "statements" /\ i.stmts
    /\ i.pc = "ensuring" => (i.stmts <=> ~table) /\ (i.stmts <=> i.saw = "no table") /\ i.saw # ""
    /\ i.pc = "ensuring" /\ i.saw = "valid" => index = "valid"
    /\ i.pc \in {"statements", "ensured"} => table
    /\ i.pc = "statements" => i.saw = "absent"

TableSound ==
    /\ ~table => bound = {} /\ index = "none"
    /\ locks.ddl = NoHolder \/ locks.ddl \in Stores

Ingesting(s) == ingest[s].pc # "idle"
Building == locks.reindex \in Replicas

\* The ingest made no index itself and found none that is valid.
LeftUnindexed(s) ==
    LET i == ingest[s] IN
    \/ i.pc = "ensured"
    \/ i.pc = "ensuring" /\ i.saw \in {"building", "broken"}
    \/ i.pc = "statements" /\ ~i.stmts

\* As long as no build was cut short: next to an ingest a table without a valid
\* index is an orphan, an invalid index is being built, and an ingest that
\* makes no index leaves that to a build in progress.
UncutSound ==
    ~cut => /\ exact = {}
            /\ index = "valid" \/ \A s \in Stores : /\ Ingesting(s) => bound = {} /\ (index = "invalid" => Building)
                                                    /\ LeftUnindexed(s) => Building

VecIInv ==
    /\ VecTypeOK /\ TableSound /\ UncutSound
    /\ \A r \in Replicas : BuilderSound(r)
    /\ \A s \in Stores : IngestSound(s)

LEMMA VecInitial == ASSUME VectorInit PROVE VecIInv
<1>1. Idle \in IngestRows /\ Idle.pc = "idle"
  BY DEF Idle, IngestRows
<1>2. VecTypeOK
  BY <1>1 DEF VectorInit, VecTypeOK
<1> QED
  BY <1>1, <1>2, HoldersAssumption DEF VectorInit, VecIInv, TableSound, UncutSound, BuilderSound, IngestSound, Ingesting, LeftUnindexed

\* What the catalog shows.
LEMMA VecCatalog ==
    ASSUME VecIInv
    PROVE  /\ CatalogState \in CatalogStates
           /\ CatalogState = "no table" <=> ~table
           /\ CatalogState = "valid" <=> table /\ index = "valid"
           /\ CatalogState = "building" => locks.reindex # NoHolder
           /\ CatalogState \in {"absent", "broken"} => table /\ index # "valid" /\ locks.reindex = NoHolder
           /\ CatalogState = "absent" => index = "none"
           /\ CatalogState = "broken" => index = "invalid"
<1>1. InProgress => locks.reindex \in Replicas
  BY DEF InProgress, VecIInv, BuilderSound
<1>2. locks.reindex \in Replicas => locks.reindex # NoHolder
  BY HoldersAssumption
<1>3. table \in BOOLEAN /\ index \in {"none", "invalid", "valid"}
  BY DEF VecIInv, VecTypeOK
<1> HIDE DEF InProgress
<1> QED
  BY <1>1, <1>2, <1>3, Zenon DEF CatalogState, CatalogStates

LEMMA VecIngestFacts ==
    ASSUME VecIInv, NEW s \in Stores
    PROVE  ingest[s] \in IngestRows /\ IngestSound(s) /\ s # NoHolder /\ s \notin Replicas
  BY HoldersAssumption DEF VecIInv, VecTypeOK

LEMMA VecPreCheck ==
    ASSUME VecIInv, NEW s \in Stores, NEW r \in Replicas, PreCheck(s, r)
    PROVE  VecIInv'
<1> DEFINE q == [pc |-> IF cached[r] THEN "ensured" ELSE "checked", on |-> r, saw |-> "", stmts |-> FALSE]
<1>1. ingest[s].pc = "idle" /\ Bindable /\ ingest' = [ingest EXCEPT ![s] = q]
      /\ UNCHANGED <<table, index, bound, gone, locks, cached, reindex, exact, cut>>
  BY DEF PreCheck, SetIngest, Stepping
<1>2. q \in IngestRows /\ q.pc \in {"checked", "ensured"} /\ (q.pc = "ensured" => cached[r]) /\ ~q.stmts
  BY DEF IngestRows
<1> HIDE DEF q
<1>3. ingest'[s] = q /\ \A t \in Stores \ {s} : ingest'[t] = ingest[t]
  BY <1>1 DEF VecIInv, VecTypeOK
<1>4. VecTypeOK'
  BY <1>1, <1>2 DEF VecIInv, VecTypeOK
<1>5. cached[r] => table /\ index = "valid"
  BY DEF VecIInv, BuilderSound
<1>6. index = "valid" \/ (index = "none" /\ bound = {})
  BY <1>1, VecCatalog DEF Bindable, Orphan, VecIInv, TableSound
<1>7. UncutSound'
  BY <1>1, <1>2, <1>3, <1>5, <1>6 DEF VecIInv, UncutSound, Ingesting, LeftUnindexed, Building
<1>8. \A t \in Stores \ {s} : IngestSound(t)'
  <2>1. ASSUME NEW t \in Stores \ {s} PROVE IngestSound(t)'
    <3>1. IngestSound(t) /\ ingest'[t] = ingest[t]
      BY <1>3, VecIngestFacts
    <3> QED
      BY <1>1, <3>1 DEF IngestSound
  <2> QED
    BY <2>1
<1>9. IngestSound(s)'
  <2>1. locks.ddl # s /\ locks.reindex # s
    BY <1>1 DEF VecIInv, IngestSound
  <2>2. q.pc = "ensured" => table
    BY <1>2, <1>5
  <2> QED
    BY <1>1, <1>2, <1>3, <2>1, <2>2 DEF IngestSound
<1> QED
  BY <1>1, <1>4, <1>7, <1>8, <1>9 DEF VecIInv, TableSound, BuilderSound

LEMMA VecEnsureReads ==
    ASSUME VecIInv, NEW s \in Stores, EnsureReads(s)
    PROVE  VecIInv'
<1> DEFINE q == [ingest[s] EXCEPT !.pc = "ensuring", !.saw = CatalogState, !.stmts = ~table]
<1>1. /\ ingest[s].pc = "checked" /\ locks.ddl = NoHolder /\ ingest' = [ingest EXCEPT ![s] = q]
      /\ locks' = [locks EXCEPT !.ddl = s]
      /\ UNCHANGED <<table, index, bound, gone, cached, reindex, exact, cut>>
  BY DEF EnsureReads, SetIngest, Stepping
<1>2. q \in IngestRows /\ q.pc = "ensuring" /\ q.saw = CatalogState /\ q.stmts = ~table
  <2>1. CatalogState \in CatalogStates
    BY VecCatalog
  <2>2. (~table) \in BOOLEAN
    OBVIOUS
  <2> QED
    BY <2>1, <2>2, VecIngestFacts DEF IngestRows
<1> HIDE DEF q
<1>3. ingest'[s] = q /\ \A t \in Stores \ {s} : ingest'[t] = ingest[t]
  BY <1>1 DEF VecIInv, VecTypeOK
<1>4. locks' \in [ddl : Stores \cup {NoHolder}, reindex : Stores \cup Replicas \cup {NoHolder}]
      /\ locks'.ddl = s /\ locks'.reindex = locks.reindex
  BY <1>1 DEF VecIInv, VecTypeOK
<1>5. VecTypeOK'
  BY <1>1, <1>2, <1>4 DEF VecIInv, VecTypeOK
<1>6. ASSUME ~cut, index # "valid", CatalogState \in {"building", "broken"}
      PROVE  Building
  <2>1. index = "invalid" => Building
    BY <1>1, <1>6 DEF VecIInv, UncutSound, Ingesting
  <2>2. CatalogState = "broken" => index = "invalid"
    BY VecCatalog
  <2>3. CatalogState = "building" => locks.reindex # NoHolder
    BY VecCatalog
  <2>4. \A t \in Stores : locks.reindex # t
    BY <1>1, HoldersAssumption DEF VecIInv, IngestSound
  <2>5. locks.reindex \in Stores \cup Replicas \cup {NoHolder}
    BY DEF VecIInv, VecTypeOK
  <2> QED
    BY <1>6, <2>1, <2>2, <2>3, <2>4, <2>5 DEF Building
<1>7. UncutSound'
  BY <1>1, <1>2, <1>3, <1>4, <1>6 DEF VecIInv, UncutSound, Ingesting, LeftUnindexed, Building
<1>8. \A t \in Stores \ {s} : IngestSound(t)'
  <2>1. ASSUME NEW t \in Stores \ {s} PROVE IngestSound(t)'
    <3>1. IngestSound(t) /\ ingest'[t] = ingest[t] /\ locks.ddl # t /\ locks'.ddl # t
      BY <1>1, <1>3, <1>4, VecIngestFacts
    <3> QED
      BY <1>1, <1>4, <3>1 DEF IngestSound
  <2> QED
    BY <2>1
<1>9. IngestSound(s)'
  <2>1. q.saw = "valid" => index = "valid"
    BY <1>2, VecCatalog
  <2>2. q.stmts <=> q.saw = "no table"
    BY <1>2, VecCatalog
  <2>3. locks.reindex # s /\ q.saw # ""
    BY <1>1, <1>2, VecCatalog DEF VecIInv, IngestSound, CatalogStates
  <2> QED
    BY <1>1, <1>2, <1>3, <1>4, <2>1, <2>2, <2>3 DEF IngestSound
<1> QED
  BY <1>1, <1>4, <1>5, <1>7, <1>8, <1>9 DEF VecIInv, TableSound, BuilderSound

LEMMA VecEnsureTries ==
    ASSUME VecIInv, NEW s \in Stores, EnsureTries(s)
    PROVE  VecIInv'
<1> DEFINE got == Orphan /\ locks.reindex = NoHolder
           q == [ingest[s] EXCEPT !.pc = "statements", !.stmts = got]
<1>1. /\ ingest[s].pc = "ensuring" /\ ingest[s].saw = "absent" /\ ingest' = [ingest EXCEPT ![s] = q]
      /\ locks' = IF got THEN [locks EXCEPT !.reindex = s] ELSE locks
      /\ UNCHANGED <<table, index, bound, gone, cached, reindex, exact, cut>>
  BY DEF EnsureTries, SetIngest, Stepping
<1>2. q \in IngestRows /\ q.pc = "statements" /\ q.saw = "absent" /\ q.stmts = got
  <2>1. got \in BOOLEAN
    OBVIOUS
  <2> HIDE DEF got
  <2> QED
    BY <1>1, <2>1, VecIngestFacts DEF IngestRows
<1> HIDE DEF q
<1>3. ingest'[s] = q /\ \A t \in Stores \ {s} : ingest'[t] = ingest[t]
  BY <1>1 DEF VecIInv, VecTypeOK
<1>4. locks' \in [ddl : Stores \cup {NoHolder}, reindex : Stores \cup Replicas \cup {NoHolder}]
      /\ locks'.ddl = locks.ddl /\ locks'.reindex = IF got THEN s ELSE locks.reindex
  BY <1>1 DEF VecIInv, VecTypeOK
<1>5. VecTypeOK'
  BY <1>1, <1>2, <1>4 DEF VecIInv, VecTypeOK
<1>6. locks.ddl = s /\ table /\ \A t \in Stores : locks.reindex # t
  <2>1. locks.ddl = s /\ table
    BY <1>1, VecIngestFacts DEF IngestSound
  <2> QED
    BY <1>1, <2>1 DEF VecIInv, IngestSound
<1>7. ASSUME ~cut, index # "valid", ~got
      PROVE  Building
  <2>1. Orphan
    BY <1>1, <1>7 DEF VecIInv, UncutSound, Ingesting, Orphan
  <2>2. locks.reindex \in Stores \cup Replicas \cup {NoHolder}
    BY DEF VecIInv, VecTypeOK
  <2> QED
    BY <1>6, <1>7, <2>1, <2>2 DEF Building
<1>8. UncutSound'
  <2>1. SUFFICES ASSUME ~cut, index # "valid"
                 PROVE  \A t \in Stores : /\ Ingesting(t)' => bound = {} /\ (index = "invalid" => Building')
                                          /\ LeftUnindexed(t)' => Building'
    BY <1>1 DEF VecIInv, UncutSound
  <2>2. bound = {} /\ (index = "invalid" => Building)
    BY <1>1, <2>1 DEF VecIInv, UncutSound, Ingesting
  <2>3. Building => ~got
    BY HoldersAssumption DEF Building
  <2>4. Building => Building'
    BY <1>4, <2>3 DEF Building
  <2>5. \A t \in Stores \ {s} : LeftUnindexed(t)' => Building
    BY <1>3, <2>1 DEF VecIInv, UncutSound, LeftUnindexed
  <2>6. LeftUnindexed(s)' => Building
    BY <1>2, <1>3, <1>7, <2>1 DEF LeftUnindexed
  <2> QED
    BY <2>2, <2>4, <2>5, <2>6
<1>9. \A t \in Stores \ {s} : IngestSound(t)'
  <2>1. ASSUME NEW t \in Stores \ {s} PROVE IngestSound(t)'
    <3>1. IngestSound(t) /\ ingest'[t] = ingest[t] /\ locks.reindex # t /\ locks'.reindex # t
      BY <1>3, <1>4, <1>6, VecIngestFacts
    <3> QED
      BY <1>1, <1>4, <3>1 DEF IngestSound
  <2> QED
    BY <2>1
<1>10. IngestSound(s)'
  BY <1>1, <1>2, <1>3, <1>4, <1>6 DEF IngestSound
<1>11. \A r \in Replicas : BuilderSound(r)'
  <2>1. ASSUME NEW r \in Replicas PROVE BuilderSound(r)'
    <3>1. locks.reindex = r <=> locks'.reindex = r
      BY <1>4, HoldersAssumption
    <3> QED
      BY <1>1, <3>1 DEF VecIInv, BuilderSound
  <2> QED
    BY <2>1
<1> QED
  BY <1>1, <1>4, <1>5, <1>8, <1>9, <1>10, <1>11 DEF VecIInv, TableSound

LEMMA VecEnsureCommits ==
    ASSUME VecIInv, NEW s \in Stores, EnsureCommits(s)
    PROVE  VecIInv'
<1> DEFINE i == ingest[s]
           q == [ingest[s] EXCEPT !.pc = "ensured"]
<1>1. /\ i.pc = "statements" \/ (i.pc = "ensuring" /\ i.saw # "absent")
      /\ i.stmts => ~InProgress
      /\ table' = TRUE /\ index' = IF i.stmts THEN "valid" ELSE index
      /\ cached' = [cached EXCEPT ![i.on] = cached[i.on] \/ i.stmts \/ i.saw = "valid"]
      /\ locks' = ReleaseLocks({s}) /\ ingest' = [ingest EXCEPT ![s] = q]
      /\ UNCHANGED <<bound, gone, reindex, exact, cut>>
  BY DEF EnsureCommits, SetIngest, Stepping
<1>2. i \in IngestRows /\ IngestSound(s) /\ s # NoHolder /\ s \notin Replicas
  BY VecIngestFacts
<1>3. q \in IngestRows /\ q.pc = "ensured"
  BY <1>2 DEF IngestRows
<1> HIDE DEF q
<1>4. ingest'[s] = q /\ \A t \in Stores \ {s} : ingest'[t] = ingest[t]
  BY <1>1 DEF VecIInv, VecTypeOK
<1>5. /\ locks' \in [ddl : Stores \cup {NoHolder}, reindex : Stores \cup Replicas \cup {NoHolder}]
      /\ locks.ddl = s /\ locks'.ddl = NoHolder
      /\ locks'.reindex = IF locks.reindex = s THEN NoHolder ELSE locks.reindex
  <2>1. locks.ddl = s
    BY <1>1, <1>2 DEF IngestSound
  <2> QED
    BY <1>1, <2>1 DEF ReleaseLocks, Left, VecIInv, VecTypeOK
<1>6. index' \in {"none", "invalid", "valid"} /\ (index = "valid" => index' = "valid") /\ (~table => index' = "valid")
  BY <1>1, <1>2 DEF VecIInv, VecTypeOK, IngestSound
<1>7. i.saw = "valid" => index = "valid"
  BY <1>1, <1>2 DEF IngestSound
<1>8. cached' \in [Replicas -> BOOLEAN] /\ \A r \in Replicas : cached'[r] => cached[r] \/ index' = "valid"
  <2>1. \A r \in Replicas : cached'[r] = cached[r] \/ (cached'[r] = (cached[i.on] \/ i.stmts \/ i.saw = "valid") /\ r = i.on)
    BY <1>1 DEF VecIInv, VecTypeOK
  <2>2. i.stmts \/ i.saw = "valid" => index' = "valid"
    BY <1>1, <1>6, <1>7
  <2>3. cached' \in [Replicas -> BOOLEAN]
    BY <1>1 DEF VecIInv, VecTypeOK
  <2> QED
    BY <2>1, <2>2, <2>3
<1>9. \A r \in Replicas : locks'.reindex = r <=> locks.reindex = r
  BY <1>2, <1>5, HoldersAssumption
<1>10. \A r \in Replicas : BuilderSound(r)'
  <2>1. ASSUME NEW r \in Replicas PROVE BuilderSound(r)'
    <3>1. BuilderSound(r)
      BY DEF VecIInv
    <3>2. i.stmts => reindex[r] \notin {"dropped", "creating"}
      <4>1. CASE i.pc = "statements"
        BY <1>2, <3>1, <4>1 DEF IngestSound, BuilderSound
      <4>2. CASE i.pc = "ensuring"
        BY <1>2, <3>1, <4>2 DEF IngestSound, BuilderSound
      <4> QED
        BY <1>1, <4>1, <4>2
    <3> QED
      BY <1>1, <1>6, <1>8, <1>9, <3>1, <3>2 DEF BuilderSound
  <2> QED
    BY <2>1
<1>11. \A t \in Stores \ {s} : IngestSound(t)'
  <2>1. ASSUME NEW t \in Stores \ {s} PROVE IngestSound(t)'
    <3>1. IngestSound(t) /\ ingest'[t] = ingest[t] /\ locks.ddl # t /\ locks'.ddl # t /\ t # NoHolder
      BY <1>4, <1>5, VecIngestFacts
    <3>2. ingest[t].pc \notin {"ensuring", "statements"} /\ locks.reindex # t /\ locks'.reindex # t
      BY <1>5, <3>1 DEF IngestSound
    <3> QED
      BY <1>1, <1>6, <3>1, <3>2 DEF IngestSound
  <2> QED
    BY <2>1
<1>12. IngestSound(s)'
  BY <1>1, <1>2, <1>3, <1>4, <1>5 DEF IngestSound
<1>13. UncutSound'
  <2>1. SUFFICES ASSUME ~cut, index' # "valid"
                 PROVE  \A t \in Stores : /\ Ingesting(t)' => bound = {} /\ (index' = "invalid" => Building')
                                          /\ LeftUnindexed(t)' => Building'
    BY <1>1 DEF VecIInv, UncutSound
  <2>2. index' = index /\ index # "valid" /\ ~i.stmts
    BY <1>1, <2>1
  <2>3. bound = {} /\ (index = "invalid" => Building)
    BY <1>1, <2>1, <2>2 DEF VecIInv, UncutSound, Ingesting
  <2>4. Building'
    <3>1. LeftUnindexed(s)
      BY <1>1, <1>2, <1>7, <2>2 DEF LeftUnindexed, IngestSound, IngestRows, CatalogStates
    <3>2. Building
      BY <2>1, <2>2, <3>1 DEF VecIInv, UncutSound
    <3> QED
      BY <1>9, <3>2 DEF Building
  <2> QED
    BY <2>3, <2>4
<1> QED
  BY <1>1, <1>3, <1>5, <1>6, <1>8, <1>10, <1>11, <1>12, <1>13 DEF VecIInv, TableSound, VecTypeOK

\* A store is written to, refused or deleted.
LEMMA VecEnds ==
    ASSUME VecIInv, NEW s \in Stores, ingest[s].pc = "ensured", SetIngest(s, Idle),
           UNCHANGED <<table, index, locks, cached, reindex, cut>>,
           bound' = bound \/ (table /\ (index = "valid" \/ cut)), exact' = exact \/ cut
    PROVE  VecIInv'
<1>1. Idle \in IngestRows /\ Idle.pc = "idle"
  BY DEF Idle, IngestRows
<1>2. ingest'[s] = Idle /\ (\A t \in Stores \ {s} : ingest'[t] = ingest[t]) /\ ingest' \in [Stores -> IngestRows]
  BY <1>1 DEF SetIngest, VecIInv, VecTypeOK
<1>3. \A t \in Stores \ {s} : IngestSound(t)'
  <2>1. ASSUME NEW t \in Stores \ {s} PROVE IngestSound(t)'
    <3>1. IngestSound(t) /\ ingest'[t] = ingest[t]
      BY <1>2, VecIngestFacts
    <3> QED
      BY <3>1 DEF IngestSound
  <2> QED
    BY <2>1
<1>4. IngestSound(s)'
  BY <1>1, <1>2, VecIngestFacts DEF IngestSound
<1>5. UncutSound'
  BY <1>1, <1>2 DEF VecIInv, UncutSound, Ingesting, LeftUnindexed, Building
<1>6. TableSound'
  BY DEF VecIInv, TableSound
<1>7. VecTypeOK'
  BY <1>2 DEF VecIInv, VecTypeOK
<1> QED
  BY <1>3, <1>4, <1>5, <1>6, <1>7 DEF VecIInv, BuilderSound

LEMMA VecBind ==
    ASSUME VecIInv, NEW s \in Stores, Bind(s) \/ Refused(s)
    PROVE  VecIInv'
<1>1. ingest[s].pc = "ensured" /\ SetIngest(s, Idle) /\ UNCHANGED <<table, index, locks, cached, reindex, cut>>
  BY DEF Bind, Refused, Stepping
<1>2. CASE Refused(s)
  BY <1>1, <1>2, VecEnds DEF Refused
<1>3. CASE Bind(s)
  <2>1. table
    BY <1>1, VecIngestFacts DEF IngestSound
  <2>2. CatalogState \in {"valid", "absent"} /\ (CatalogState = "absent" => Orphan)
    BY <1>3, <2>1, VecCatalog DEF Bind, Bindable
  <2>3. index = "valid" \/ cut
    <3>1. SUFFICES ASSUME ~cut, index # "valid" PROVE FALSE
      OBVIOUS
    <3>2. Building
      BY <1>1, <3>1 DEF VecIInv, UncutSound, LeftUnindexed
    <3>3. CatalogState = "absent" /\ locks.reindex = NoHolder
      BY <2>2, <3>1, VecCatalog
    <3> QED
      BY <3>2, <3>3, HoldersAssumption DEF Building
  <2> QED
    BY <1>1, <1>3, <2>1, <2>3, VecEnds DEF Bind
<1> QED
  BY <1>2, <1>3

LEMMA VecDeleteStore ==
    ASSUME VecIInv, NEW s \in Stores, DeleteStore(s)
    PROVE  VecIInv'
<1>1. UNCHANGED <<table, index, locks, cached, ingest, reindex, cut>> /\ bound' \subseteq bound /\ exact' \subseteq exact
  BY DEF DeleteStore
<1>2. UncutSound' /\ TableSound'
  BY <1>1 DEF VecIInv, UncutSound, TableSound, Ingesting, LeftUnindexed, Building
<1>3. \A t \in Stores : IngestSound(t)'
  BY <1>1 DEF VecIInv, IngestSound
<1> QED
  BY <1>1, <1>2, <1>3 DEF VecIInv, VecTypeOK, BuilderSound
----------------------------------------------------------------------------
(* The builds. *)

\* A step of replica r that keeps the tables' lock, and the reindex lock in the
\* hands of the stores that hold it.
LEMMA VecBuild ==
    ASSUME VecIInv, NEW r \in Replicas, NEW pc \in {"idle", "asked", "locked", "dropped", "creating"}, SetReindex(r, pc),
           UNCHANGED <<table, bound, cached, ingest, exact, cut>>, pc # "idle" => table,
           index' \in {"none", "invalid", "valid"}, index = "valid" => index' = "valid",
           index' = index \/ locks.reindex = r,
           pc \in {"locked", "dropped", "creating"} <=> locks'.reindex = r,
           pc = "dropped" => index' = "none", pc = "creating" => index' = "invalid",
           \/ locks' = locks
           \/ locks.reindex = NoHolder /\ locks' = [locks EXCEPT !.reindex = r]
           \/ locks.reindex = r /\ index' = "valid" /\ locks' = [locks EXCEPT !.reindex = NoHolder]
    PROVE  VecIInv'
<1>1. reindex'[r] = pc /\ (\A x \in Replicas \ {r} : reindex'[x] = reindex[x])
      /\ reindex' \in [Replicas -> {"idle", "asked", "locked", "dropped", "creating"}]
  BY DEF SetReindex, VecIInv, VecTypeOK
<1>2. /\ locks' \in [ddl : Stores \cup {NoHolder}, reindex : Stores \cup Replicas \cup {NoHolder}]
      /\ locks'.ddl = locks.ddl
      /\ locks'.reindex = locks.reindex \/ {locks.reindex, locks'.reindex} = {r, NoHolder}
  BY DEF VecIInv, VecTypeOK
<1>3. table \/ index' = "none"
  BY DEF VecIInv, TableSound, BuilderSound
<1>4. VecTypeOK' /\ TableSound'
  BY <1>1, <1>2, <1>3 DEF VecIInv, VecTypeOK, TableSound
<1>5. \A x \in Replicas : BuilderSound(x)'
  <2>1. ASSUME NEW x \in Replicas \ {r} PROVE BuilderSound(x)'
    <3>1. BuilderSound(x) /\ (locks'.reindex = x <=> locks.reindex = x)
      BY <1>2, HoldersAssumption DEF VecIInv
    <3>2. reindex[x] \in {"dropped", "creating"} => index' = index
      BY <3>1 DEF BuilderSound
    <3> QED
      BY <1>1, <3>1, <3>2 DEF BuilderSound
  <2>2. BuilderSound(r)'
    <3>1. BuilderSound(r)
      BY DEF VecIInv
    <3> QED
      BY <1>1, <3>1 DEF BuilderSound
  <2> QED
    BY <2>1, <2>2
<1>6. \A s \in Stores : IngestSound(s)'
  <2>1. ASSUME NEW s \in Stores PROVE IngestSound(s)'
    <3>1. IngestSound(s) /\ (locks'.reindex = s <=> locks.reindex = s)
      BY <1>2, VecIngestFacts
    <3> QED
      BY <1>2, <3>1 DEF IngestSound
  <2> QED
    BY <2>1
<1>7. UncutSound'
  <2>1. SUFFICES ASSUME ~cut, index' # "valid"
                 PROVE  \A s \in Stores : /\ Ingesting(s) => bound = {} /\ (index' = "invalid" => Building')
                                          /\ LeftUnindexed(s) => Building'
    BY DEF VecIInv, UncutSound, Ingesting, LeftUnindexed
  <2>2. Building => Building'
    BY <1>2, <2>1, HoldersAssumption DEF Building
  <2>3. index' = index \/ Building
    BY DEF Building
  <2> QED
    BY <2>1, <2>2, <2>3 DEF VecIInv, UncutSound
<1> QED
  BY <1>4, <1>5, <1>6, <1>7 DEF VecIInv

LEMMA VecReindex ==
    ASSUME VecIInv, NEW r \in Replicas,
           StartReindex(r) \/ TryLock(r) \/ BuildReads(r) \/ BuildCreates(r) \/ BuildDone(r)
    PROVE  VecIInv'
<1>1. BuilderSound(r) /\ r # NoHolder /\ index \in {"none", "invalid", "valid"}
  BY HoldersAssumption DEF VecIInv, VecTypeOK
<1>2. CASE StartReindex(r)
  <2>1. table
    BY <1>2, VecCatalog DEF StartReindex
  <2> QED
    BY <1>1, <1>2, <2>1, VecBuild DEF StartReindex, BuilderSound
<1>3. CASE TryLock(r)
  <2>1. reindex[r] = "asked" /\ table /\ locks.reindex # r
        /\ UNCHANGED <<table, index, bound, cached, ingest, exact, cut>>
    BY <1>1, <1>3 DEF TryLock, BuilderSound
  <2>2. CASE locks.reindex = NoHolder
    <3>1. locks' = [locks EXCEPT !.reindex = r] /\ SetReindex(r, "locked")
      BY <1>3, <2>2 DEF TryLock
    <3>2. locks'.reindex = r
      BY <3>1 DEF VecIInv, VecTypeOK
    <3> QED
      BY <1>1, <2>1, <2>2, <3>1, <3>2, VecBuild
  <2>3. CASE locks.reindex # NoHolder
    <3>1. locks' = locks /\ SetReindex(r, "idle")
      BY <1>3, <2>3 DEF TryLock
    <3> QED
      BY <1>1, <2>1, <3>1, VecBuild
  <2> QED
    BY <2>2, <2>3
<1>4. ASSUME locks.reindex = r
      PROVE  LocksFreed(r) = [locks EXCEPT !.reindex = NoHolder] /\ LocksFreed(r).reindex = NoHolder
  BY <1>4 DEF LocksFreed, VecIInv, VecTypeOK
<1>5. CASE BuildReads(r)
  <2>1. locks.reindex = r /\ table
    BY <1>1, <1>5 DEF BuildReads, BuilderSound
  <2> QED
    BY <1>1, <1>4, <1>5, <2>1, VecBuild DEF BuildReads
<1>6. CASE BuildCreates(r)
  <2>1. locks.reindex = r /\ table /\ index = "none"
    BY <1>1, <1>6 DEF BuildCreates, BuilderSound
  <2> QED
    BY <1>1, <1>6, <2>1, VecBuild DEF BuildCreates
<1>7. CASE BuildDone(r)
  <2>1. locks.reindex = r /\ table
    BY <1>1, <1>7 DEF BuildDone, BuilderSound
  <2> QED
    BY <1>1, <1>4, <1>7, <2>1, VecBuild DEF BuildDone
<1> QED
  BY <1>2, <1>3, <1>5, <1>6, <1>7

LEMMA VecStops ==
    ASSUME VecIInv, NEW r \in Replicas, Stops(r)
    PROVE  VecIInv'
<1> DEFINE lost == {s \in Stores : ingest[s].on = r}
           ended == lost \cup {r}
<1>1. /\ SetReindex(r, "idle") /\ locks' = ReleaseLocks(ended) /\ cached' = [cached EXCEPT ![r] = FALSE]
      /\ ingest' = [s \in Stores |-> IF s \in lost THEN Idle ELSE ingest[s]]
      /\ cut' = (cut \/ reindex[r] # "idle") /\ UNCHANGED <<table, index, bound, gone, exact>>
  BY DEF Stops
<1>2. lost \subseteq Stores /\ r \notin Stores /\ r # NoHolder /\ NoHolder \notin Stores
  BY HoldersAssumption
<1> HIDE DEF lost
<1>3. Idle \in IngestRows /\ Idle.pc = "idle"
  BY DEF Idle, IngestRows
<1>4. reindex'[r] = "idle" /\ (\A x \in Replicas \ {r} : reindex'[x] = reindex[x] /\ cached'[x] = cached[x]) /\ ~cached'[r]
      /\ reindex' \in [Replicas -> {"idle", "asked", "locked", "dropped", "creating"}] /\ cached' \in [Replicas -> BOOLEAN]
  BY <1>1 DEF SetReindex, VecIInv, VecTypeOK
<1>5. /\ \A s \in Stores : IF s \in lost THEN ingest'[s] = Idle ELSE ingest'[s] = ingest[s]
      /\ ingest' \in [Stores -> IngestRows]
  BY <1>1, <1>3 DEF VecIInv, VecTypeOK
<1>6. /\ locks' \in [ddl : Stores \cup {NoHolder}, reindex : Stores \cup Replicas \cup {NoHolder}]
      /\ locks'.ddl = IF locks.ddl \in ended THEN NoHolder ELSE locks.ddl
      /\ locks'.reindex = IF locks.reindex \in ended THEN NoHolder ELSE locks.reindex
  BY <1>1 DEF ReleaseLocks, Left, VecIInv, VecTypeOK
<1>7. VecTypeOK' /\ TableSound'
  BY <1>1, <1>2, <1>4, <1>5, <1>6 DEF VecIInv, VecTypeOK, TableSound
<1>8. \A x \in Replicas : BuilderSound(x)'
  <2>1. ASSUME NEW x \in Replicas \ {r} PROVE BuilderSound(x)'
    <3>1. BuilderSound(x) /\ (locks'.reindex = x <=> locks.reindex = x)
      BY <1>2, <1>6, HoldersAssumption DEF VecIInv
    <3> QED
      BY <1>1, <1>4, <3>1 DEF BuilderSound
  <2>2. BuilderSound(r)'
    <3>1. locks'.reindex # r
      BY <1>2, <1>6
    <3> QED
      BY <1>4, <3>1 DEF BuilderSound
  <2> QED
    BY <2>1, <2>2
<1>9. \A s \in Stores : IngestSound(s)'
  <2>1. ASSUME NEW s \in Stores, s \notin lost PROVE IngestSound(s)'
    <3>1. IngestSound(s) /\ s # NoHolder /\ s # r
      BY <1>2, VecIngestFacts
    <3>2. (locks'.ddl = s <=> locks.ddl = s) /\ (locks'.reindex = s <=> locks.reindex = s) /\ ingest'[s] = ingest[s]
      BY <1>5, <1>6, <2>1, <3>1
    <3> QED
      BY <1>1, <3>1, <3>2 DEF IngestSound
  <2>2. ASSUME NEW s \in lost PROVE IngestSound(s)'
    <3>1. s \in Stores /\ locks'.ddl # s /\ locks'.reindex # s /\ ingest'[s] = Idle
      BY <1>2, <1>5, <1>6
    <3> QED
      BY <1>3, <3>1 DEF IngestSound
  <2> QED
    BY <2>1, <2>2
<1>10. UncutSound'
  <2>1. SUFFICES ASSUME ~cut, reindex[r] = "idle" PROVE UncutSound'
    BY <1>1 DEF UncutSound
  <2>2. Building => Building'
    <3>1. locks.reindex # r
      BY <2>1 DEF VecIInv, BuilderSound
    <3> QED
      BY <1>2, <1>6, <3>1, HoldersAssumption DEF Building
  <2>3. \A s \in Stores : (Ingesting(s)' => Ingesting(s)) /\ (LeftUnindexed(s)' => LeftUnindexed(s))
    BY <1>3, <1>5 DEF Ingesting, LeftUnindexed
  <2> QED
    BY <1>1, <2>1, <2>2, <2>3 DEF VecIInv, UncutSound
<1> QED
  BY <1>7, <1>8, <1>9, <1>10 DEF VecIInv

LEMMA VecNext ==
    ASSUME VecIInv, [VectorNext]_vxVars
    PROVE  VecIInv'
<1>1. CASE UNCHANGED vxVars
  BY <1>1 DEF vxVars, VecIInv, VecTypeOK, TableSound, UncutSound, BuilderSound, IngestSound, Ingesting, LeftUnindexed, Building
<1> QED
  BY <1>1, VecPreCheck, VecEnsureReads, VecEnsureTries, VecEnsureCommits, VecBind, VecDeleteStore, VecReindex, VecStops
     DEF VectorNext

\* In every reachable state the holders of the two advisory locks are the
\* builder and the ingest that took them, and what they know of the table and
\* its index is still so (ensureVecTable, runVectorReindex).
THEOREM VecIInvAlways == VectorSpec => []VecIInv
<1>1. VectorInit => VecIInv
  BY VecInitial
<1>2. VecIInv /\ [VectorNext]_vxVars => VecIInv'
  BY VecNext
<1> QED
  BY <1>1, <1>2, PTL DEF VectorSpec

\* Whatever the number of replicas and stores: as long as no build is cut short
\* a store's first ingest never binds it to a table without a valid index, one
\* build is in progress at a time, and none meets an ingest that is making an
\* index of its own (CheckBindable, ensureVecTable, lockVecReindex).
THEOREM IndexesAlwaysSound == VectorSpec => []IndexesSound
<1>1. ASSUME VecIInv PROVE IndexesSound
  <2>1. NewStoresAreIndexed
    BY <1>1 DEF VecIInv, UncutSound, NewStoresAreIndexed
  <2>2. Cardinality({r \in Replicas : reindex[r] \in {"locked", "dropped", "creating"}}) <= 1
    <3> DEFINE B == {r \in Replicas : reindex[r] \in {"locked", "dropped", "creating"}}
    <3>1. B \subseteq {locks.reindex}
      BY <1>1 DEF VecIInv, BuilderSound
    <3>2. IsFiniteSet({locks.reindex}) /\ Cardinality({locks.reindex}) = 1
      BY FS_Singleton
    <3>3. Cardinality(B) <= Cardinality({locks.reindex})
      BY <3>1, <3>2, FS_Subset
    <3> QED
      BY <3>2, <3>3
  <2>3. ASSUME NEW s \in Stores, ingest[s].pc \in {"ensuring", "statements"}, ingest[s].stmts, InProgress
        PROVE  FALSE
    <3>1. PICK r \in Replicas : reindex[r] = "creating"
      BY <2>3 DEF InProgress
    <3>2. BuilderSound(r) /\ IngestSound(s)
      BY <1>1 DEF VecIInv
    <3>3. locks.reindex = r /\ table /\ r # s
      BY <3>1, <3>2, HoldersAssumption DEF BuilderSound
    <3> QED
      BY <2>3, <3>2, <3>3 DEF IngestSound
  <2> QED
    BY <2>1, <2>2, <2>3 DEF IndexesSound, BuildsDoNotMeet
<1> QED
  BY <1>1, VecIInvAlways, PTL
-------------------------------------------------------------------------------
(* Retention: what was picked is updated, or still expired. *)

Tables == {"request_logs", "session_usage", "api_keys"}

LogRows == [id : Nat, day : Nat, key : ApiKeys]
PickRows == [row : LogRows \cup Sessions \cup ApiKeys, place : Nat]
PassRows == [table : Tables \cup {""}, today : Nat, picked : SUBSET PickRows]

RetTypeOK ==
    /\ day \in 0..MaxDay /\ made \in Nat
    /\ logs \subseteq LogRows
    /\ totals \in [Sessions -> [seen : Int, requests : Nat, place : 0..made]]
    /\ keys \in [ApiKeys -> Int]
    /\ flight \subseteq [id : 1..made, key : ApiKeys, session : Sessions]
    /\ pass \in [Janitors -> PassRows]

\* A request in flight has an id of its own, that no row has yet, and a key that
\* was live today.
FlightSound(f) ==
    /\ keys[f.key] \in {Live, day}
    /\ \A g \in flight : g.id = f.id => g = f
    /\ \A s \in Sessions : totals[s].place # f.id

\* What a batch picked has been updated, or is still expired; and no request can
\* still be logged for a key that was picked.
PickSound(j, p) ==
    /\ pass[j].table \in Tables
    /\ p.place \in 0..made /\ \A f \in flight : p.place # f.id
    /\ pass[j].table = "session_usage" =>
         /\ p.row \in Sessions
         /\ totals[p.row] # NoTotal /\ totals[p.row].place = p.place => totals[p.row].seen < pass[j].today - LogDays
    /\ pass[j].table = "api_keys" => p.row \in ApiKeys /\ keys[p.row] < day /\ ~Attributed(p.row)

RetIInv ==
    /\ RetTypeOK
    /\ \A f \in flight : FlightSound(f)
    /\ \A j \in Janitors : pass[j].today <= day /\ \A p \in pass[j].picked : PickSound(j, p)

\* The numbers.
LEMMA RetNumbers ==
    ASSUME RetIInv
    PROVE  day \in Nat /\ made \in Nat /\ day < Live /\ Live \in Nat /\ Purged < day /\ 0 <= day /\ day <= day
  BY RetentionBounds DEF RetentionBounds, RetIInv, RetTypeOK, Live, Purged

LEMMA RetInitial == ASSUME RetentionInit PROVE RetIInv
<1>1. NoTotal \in [seen : Int, requests : Nat, place : 0..0]
  BY DEF NoTotal
<1>2. /\ totals = [s \in Sessions |-> NoTotal] /\ keys = [k \in ApiKeys |-> Live] /\ pass = [j \in Janitors |-> Resting]
      /\ day = 0 /\ logs = {} /\ made = 0 /\ flight = {}
  BY DEF RetentionInit
<1>3. Resting \in PassRows /\ Resting.picked = {} /\ Resting.today = 0
  BY DEF PassRows, Resting, Tables
<1>4. \A j \in Janitors : pass[j] = Resting
  BY <1>2
<1>5. Live \in Int /\ day \in 0..MaxDay
  BY <1>2, RetentionBounds DEF RetentionBounds, Live
<1>6. RetTypeOK
  BY <1>1, <1>2, <1>3, <1>5 DEF RetTypeOK
<1> QED
  BY <1>2, <1>3, <1>4, <1>6 DEF RetIInv

LEMMA RetFlightFacts ==
    ASSUME RetIInv, NEW f \in flight
    PROVE  /\ f \in [id : 1..made, key : ApiKeys, session : Sessions] /\ f.id \in 1..made /\ f.key \in ApiKeys
           /\ f.session \in Sessions /\ FlightSound(f) /\ keys[f.key] # Purged
<1>1. f \in [id : 1..made, key : ApiKeys, session : Sessions] /\ FlightSound(f)
  BY DEF RetIInv, RetTypeOK
<1>2. keys[f.key] \in {Live, day} /\ Live # Purged /\ day # Purged
  BY <1>1, RetNumbers DEF FlightSound
<1> QED
  BY <1>1, <1>2

LEMMA RetArrive ==
    ASSUME RetIInv, NEW k \in ApiKeys, NEW s \in Sessions, Arrive(k, s)
    PROVE  RetIInv'
<1>0. PICK new : new = [id |-> made + 1, key |-> k, session |-> s]
  OBVIOUS
<1>1. /\ keys[k] = Live /\ made' = made + 1 /\ flight' = flight \cup {new}
      /\ UNCHANGED <<day, logs, totals, keys, leader, pass>>
  BY <1>0 DEF Arrive
<1>2. made \in Nat /\ made' \in Nat /\ 1..made \subseteq 1..made' /\ 0..made \subseteq 0..made' /\ made + 1 \in 1..made'
      /\ made + 1 \notin 0..made /\ made + 1 \notin 1..made
  BY <1>1, RetNumbers
<1>3. new \in [id : 1..made', key : ApiKeys, session : Sessions] /\ new.id = made + 1 /\ new.key = k
  BY <1>0, <1>2
<1>4. \A f \in flight : f \in [id : 1..made', key : ApiKeys, session : Sessions] /\ f.id \in 1..made
  BY <1>2, RetFlightFacts
<1>5. totals' \in [Sessions -> [seen : Int, requests : Nat, place : 0..made']]
  BY <1>1, <1>2 DEF RetIInv, RetTypeOK
<1>6. RetTypeOK'
  BY <1>1, <1>2, <1>3, <1>4, <1>5 DEF RetIInv, RetTypeOK
<1>7. \A f \in flight' : FlightSound(f)'
  <2>1. ASSUME NEW f \in flight PROVE FlightSound(f)'
    BY <1>1, <1>2, <1>3, <1>4, RetFlightFacts DEF FlightSound
  <2>2. FlightSound(new)'
    <3>1. \A x \in Sessions : totals[x].place \in 0..made
      BY DEF RetIInv, RetTypeOK
    <3>2. \A x \in Sessions : totals'[x].place # new.id
      BY <1>1, <1>2, <1>3, <3>1
    <3> QED
      BY <1>1, <1>2, <1>3, <1>4, <3>2 DEF FlightSound
  <2> QED
    BY <1>1, <2>1, <2>2
<1>8. \A j \in Janitors : \A p \in pass'[j].picked : PickSound(j, p)'
  BY <1>1, <1>2, <1>3 DEF RetIInv, PickSound, Attributed
<1> QED
  BY <1>1, <1>2, <1>6, <1>7, <1>8 DEF RetIInv

LEMMA RetFinish ==
    ASSUME RetIInv, NEW f \in flight, Finish(f)
    PROVE  RetIInv'
<1> DEFINE new == [seen |-> day, requests |-> totals[f.session].requests + 1, place |-> f.id]
           log == [id |-> f.id, day |-> day, key |-> f.key]
<1>1. /\ flight' = flight \ {f} /\ logs' = logs \cup {log} /\ totals' = [totals EXCEPT ![f.session] = new]
      /\ UNCHANGED <<made, day, keys, leader, pass>>
  BY RetFlightFacts DEF Finish
<1>2. f.id \in 1..made /\ f.session \in Sessions /\ f.key \in ApiKeys /\ FlightSound(f) /\ made \in Nat /\ day \in Nat
  BY RetFlightFacts, RetNumbers
<1>3. /\ new \in [seen : Int, requests : Nat, place : 0..made] /\ new.place = f.id
      /\ log \in LogRows /\ log.key = f.key
  <2>1. totals[f.session].requests + 1 \in Nat
    BY <1>2 DEF RetIInv, RetTypeOK
  <2>2. f.id \in Nat /\ f.id \in 0..made /\ day \in Int
    BY <1>2
  <2> QED
    BY <1>2, <2>1, <2>2 DEF LogRows
<1> HIDE DEF new, log
<1>4. RetTypeOK'
  BY <1>1, <1>3 DEF RetIInv, RetTypeOK
<1>5. totals'[f.session] = new /\ \A s \in Sessions \ {f.session} : totals'[s] = totals[s]
  BY <1>1, <1>2 DEF RetIInv, RetTypeOK
<1>6. \A g \in flight' : FlightSound(g)'
  <2>1. \A g \in flight' : g \in flight /\ g.id # f.id /\ FlightSound(g)
    BY <1>1, <1>2 DEF FlightSound, RetIInv
  <2> QED
    BY <1>1, <1>3, <1>5, <2>1 DEF FlightSound
<1>7. ASSUME NEW j \in Janitors, NEW p \in pass'[j].picked PROVE PickSound(j, p)'
  <2>1. PickSound(j, p) /\ p.place # f.id
    BY <1>1, <1>7 DEF RetIInv, PickSound
  <2>2. pass[j].table = "api_keys" => p.row # f.key
    <3>1. keys[f.key] \in {Live, day} /\ ~(Live < day) /\ ~(day < day)
      BY <1>2, RetNumbers DEF FlightSound
    <3> QED
      BY <1>2, <2>1, <3>1 DEF PickSound
  <2> QED
    BY <1>1, <1>3, <1>5, <2>1, <2>2 DEF PickSound, Attributed
<1> QED
  BY <1>1, <1>4, <1>6, <1>7 DEF RetIInv

LEMMA RetRetire ==
    ASSUME RetIInv, NEW k \in ApiKeys, Retire(k)
    PROVE  RetIInv'
<1>1. /\ keys[k] = Live /\ keys' = [keys EXCEPT ![k] = day] /\ UNCHANGED <<made, day, logs, totals, flight, leader, pass>>
  BY DEF Retire
<1>2. keys' \in [ApiKeys -> Int] /\ keys'[k] = day /\ \A x \in ApiKeys \ {k} : keys'[x] = keys[x]
  <2>1. day \in Int
    BY RetNumbers
  <2> QED
    BY <1>1, <2>1 DEF RetIInv, RetTypeOK
<1>3. ~(Live < day)
  BY RetNumbers
<1>4. \A f \in flight' : FlightSound(f)'
  BY <1>1, <1>2, RetFlightFacts DEF FlightSound, Live
<1>5. \A j \in Janitors : \A p \in pass'[j].picked : PickSound(j, p)'
  BY <1>1, <1>2, <1>3 DEF RetIInv, PickSound, Attributed
<1>6. RetTypeOK'
  BY <1>1, <1>2 DEF RetIInv, RetTypeOK
<1> QED
  BY <1>1, <1>4, <1>5, <1>6 DEF RetIInv

LEMMA RetTick ==
    ASSUME RetIInv, Tick
    PROVE  RetIInv'
<1>1. day' = day + 1 /\ day < MaxDay /\ flight' = {} /\ (\A j \in Janitors : pass'[j].picked = {})
      /\ UNCHANGED <<made, logs, totals, keys, flight, leader, pass>>
  BY DEF Tick
<1>2. day' \in 0..MaxDay /\ \A n \in Nat : n <= day => n <= day'
  BY <1>1, RetNumbers, RetentionBounds DEF RetentionBounds
<1>3. \A j \in Janitors : pass[j].today \in Nat
  BY DEF RetIInv, RetTypeOK, PassRows
<1> QED
  BY <1>1, <1>2, <1>3 DEF RetIInv, RetTypeOK

\* A step of a pass that deletes nothing.
LEMMA RetQuietPass ==
    ASSUME RetIInv, NEW j \in Janitors, NEW q \in PassRows, pass' = [pass EXCEPT ![j] = q], q.today <= day,
           \A p \in q.picked : PickSound(j, p)', UNCHANGED <<made, day, logs, totals, keys, flight>>
    PROVE  RetIInv'
<1>1. pass'[j] = q /\ (\A i \in Janitors \ {j} : pass'[i] = pass[i]) /\ pass' \in [Janitors -> PassRows]
  BY DEF RetIInv, RetTypeOK
<1>2. RetTypeOK'
  BY <1>1 DEF RetIInv, RetTypeOK
<1>3. \A f \in flight' : FlightSound(f)'
  BY DEF RetIInv, FlightSound
<1>4. ASSUME NEW i \in Janitors \ {j}, NEW p \in pass'[i].picked PROVE PickSound(i, p)'
  <2>1. PickSound(i, p) /\ pass'[i] = pass[i]
    BY <1>1, <1>4 DEF RetIInv
  <2> QED
    BY <2>1 DEF PickSound, Attributed
<1> QED
  BY <1>1, <1>2, <1>3, <1>4 DEF RetIInv

\* Where LeaveTable leaves a pass.
LEMMA RetLeave ==
    ASSUME RetIInv, NEW j \in Janitors, pass[j].table # "", LeaveTable(j)
    PROVE  \E q \in PassRows : pass' = [pass EXCEPT ![j] = q] /\ q.today <= day /\ q.picked = {}
<1> DEFINE next == NextTable(pass[j].table)
           q == IF next = "" THEN Resting ELSE [pass[j] EXCEPT !.table = next, !.picked = {}]
<1>1. pass[j] \in PassRows /\ pass[j].table \in Tables /\ pass[j].today <= day /\ day \in Nat /\ 0 <= day
  BY RetNumbers DEF RetIInv, RetTypeOK, PassRows
<1>2. next \in Tables \cup {""}
  BY <1>1 DEF NextTable, Tables
<1>3. pass' = [pass EXCEPT ![j] = q]
  BY DEF LeaveTable
<1> HIDE DEF next
<1>4. q \in PassRows /\ q.today <= day /\ q.picked = {}
  <2>1. CASE next = ""
    <3>1. q = Resting
      BY <2>1
    <3>2. Resting \in PassRows /\ Resting.picked = {} /\ Resting.today = 0
      BY DEF PassRows, Resting, Tables
    <3> QED
      BY <1>1, <3>1, <3>2
  <2>2. CASE next # ""
    BY <1>1, <1>2, <2>2 DEF PassRows
  <2> QED
    BY <2>1, <2>2
<1> HIDE DEF q
<1> QED
  BY <1>3, <1>4

LEMMA RetPasses ==
    ASSUME RetIInv, NEW j \in Janitors, Lead(j) \/ DeletePicks(j) \/ TableLeft(j) \/ CutShort(j)
    PROVE  RetIInv'
<1>1. pass[j] \in PassRows /\ pass[j].today <= day /\ pass[j].today \in Nat /\ day \in Nat /\ 0 <= day /\ day <= day
  BY RetNumbers DEF RetIInv, RetTypeOK, PassRows
<1>2. Resting \in PassRows /\ Resting.picked = {} /\ Resting.today = 0
  BY DEF PassRows, Resting, Tables
<1>3. CASE Lead(j)
  <2> DEFINE q == [table |-> FirstTable, today |-> day, picked |-> {}]
  <2>0. FirstTable \in Tables
    BY DEF FirstTable, Tables
  <2>1. q \in PassRows /\ q.today = day /\ q.picked = {}
    BY <1>1, <2>0 DEF PassRows
  <2>2. pass' = [pass EXCEPT ![j] = q] /\ UNCHANGED <<made, day, logs, totals, keys, flight>>
    BY <1>3 DEF Lead
  <2> HIDE DEF q
  <2> QED
    BY <1>1, <2>1, <2>2, RetQuietPass
<1>4. CASE CutShort(j)
  <2>1. pass' = [pass EXCEPT ![j] = Resting] /\ UNCHANGED <<made, day, logs, totals, keys, flight>>
    BY <1>4 DEF CutShort
  <2>2. PICK q \in PassRows : q = Resting /\ q.picked = {} /\ q.today <= day
    BY <1>1, <1>2
  <2> QED
    BY <2>1, <2>2, RetQuietPass
<1>5. CASE TableLeft(j)
  <2>1. pass[j].table # "" /\ LeaveTable(j) /\ UNCHANGED <<made, day, logs, totals, keys, flight>>
    BY <1>5 DEF TableLeft
  <2>2. PICK q \in PassRows : pass' = [pass EXCEPT ![j] = q] /\ q.today <= day /\ q.picked = {}
    BY <2>1, RetLeave
  <2> QED
    BY <2>1, <2>2, RetQuietPass
<1>6. CASE DeletePicks(j)
  <2> DEFINE S == Expired(pass[j].table, pass[j].today)
  <2>1. PICK B \in SUBSET S : pass' = [pass EXCEPT ![j] = [pass[j] EXCEPT !.picked = B]]
    BY <1>6 DEF DeletePicks, Batches
  <2>2. pass[j].table \in Tables /\ UNCHANGED <<made, day, logs, totals, keys, flight>>
    BY <1>1, <1>6 DEF DeletePicks, PassRows
  <2>3. ASSUME NEW p \in S
        PROVE  /\ p \in PickRows /\ p.place \in 0..made /\ \A f \in flight : p.place # f.id
               /\ pass[j].table = "session_usage" => p.row \in Sessions /\ totals[p.row].seen < pass[j].today - LogDays
               /\ pass[j].table = "api_keys" => p.row \in ApiKeys /\ keys[p.row] < day /\ ~Attributed(p.row)
    <3>0. 0 \in 0..made /\ \A f \in flight : f.id # 0
      BY RetFlightFacts, RetNumbers
    <3>1. CASE pass[j].table = "request_logs"
      <4>1. PICK l \in logs : p = [row |-> l, place |-> 0]
        BY <2>3, <3>1 DEF Expired, ExpiredLogs
      <4> QED
        BY <3>0, <3>1, <4>1 DEF PickRows, RetIInv, RetTypeOK
    <3>2. CASE pass[j].table = "session_usage"
      <4>1. PICK s \in Sessions : p = [row |-> s, place |-> totals[s].place] /\ totals[s].seen < pass[j].today - LogDays
        BY <2>3, <3>2 DEF Expired, ExpiredTotals
      <4>2. totals[s].place \in 0..made /\ \A f \in flight : totals[s].place # f.id
        BY DEF RetIInv, RetTypeOK, FlightSound
      <4>3. totals[s].place \in Nat
        BY <4>2
      <4> QED
        BY <3>2, <4>1, <4>2, <4>3 DEF PickRows
    <3>3. CASE pass[j].table = "api_keys"
      <4>1. PICK k \in ApiKeys : p = [row |-> k, place |-> 0] /\ keys[k] \in 0..pass[j].today - KeyDays - 1 /\ ~Attributed(k)
        BY <2>3, <3>3 DEF Expired, RetiredKeys
      <4>2. keys[k] < day
        BY <1>1, <4>1, RetentionBounds DEF RetentionBounds
      <4> QED
        BY <3>0, <3>3, <4>1, <4>2 DEF PickRows
    <3> QED
      BY <2>2, <3>1, <3>2, <3>3 DEF Tables
  <2> HIDE DEF S
  <2>4. B \subseteq PickRows
    BY <2>1, <2>3
  <2> DEFINE q == [pass[j] EXCEPT !.picked = B]
  <2>5. q \in PassRows /\ q.today = pass[j].today /\ q.picked = B /\ q.table = pass[j].table
    BY <1>1, <2>4 DEF PassRows
  <2>6. pass'[j] = q
    BY <2>1 DEF RetIInv, RetTypeOK
  <2> HIDE DEF q
  <2>7. ASSUME NEW p \in q.picked PROVE PickSound(j, p)'
    <3>1. p \in S
      BY <2>1, <2>5, <2>7
    <3>2. /\ p \in PickRows /\ p.place \in 0..made /\ \A f \in flight : p.place # f.id
          /\ pass[j].table = "session_usage" => p.row \in Sessions /\ totals[p.row].seen < pass[j].today - LogDays
          /\ pass[j].table = "api_keys" => p.row \in ApiKeys /\ keys[p.row] < day /\ ~Attributed(p.row)
      BY <2>3, <3>1
    <3> QED
      BY <2>2, <2>5, <2>6, <3>2 DEF PickSound, Attributed
  <2>8. pass' = [pass EXCEPT ![j] = q]
    BY <2>1 DEF q
  <2> QED
    BY <1>1, <2>2, <2>5, <2>7, <2>8, RetQuietPass
<1> QED
  BY <1>3, <1>4, <1>5, <1>6

LEMMA RetDeletes ==
    ASSUME RetIInv, NEW j \in Janitors, DeleteApplies(j)
    PROVE  /\ RetIInv'
           /\ \A s \in Sessions : totals[s] # NoTotal /\ totals'[s] = NoTotal => totals[s].seen < day - LogDays
<1> DEFINE tbl == pass[j].table
           removed == {p.row : p \in {x \in pass[j].picked : Deletable(tbl, x)}}
<1>1. /\ pass[j].picked # {}
      /\ logs' = CASE tbl = "request_logs" -> logs \ removed
                   [] tbl = "api_keys" -> {[l EXCEPT !.key = IF l.key \in removed THEN NoLogKey ELSE l.key] : l \in logs}
                   [] OTHER -> logs
      /\ totals' = [s \in Sessions |-> IF tbl = "session_usage" /\ s \in removed THEN NoTotal ELSE totals[s]]
      /\ keys' = [k \in ApiKeys |-> IF tbl = "api_keys" /\ k \in removed THEN Purged ELSE keys[k]]
      /\ UNCHANGED <<made, day, flight>>
  BY DEF DeleteApplies
<1>2. ASSUME NEW x \in removed
      PROVE  /\ tbl = "api_keys" => x \in ApiKeys /\ keys[x] < day /\ ~Attributed(x)
             /\ tbl = "session_usage" => totals[x].seen < pass[j].today - LogDays
  <2>1. PICK p \in pass[j].picked : x = p.row /\ Deletable(tbl, p)
    BY <1>2
  <2>2. PickSound(j, p)
    BY DEF RetIInv
  <2> QED
    BY <2>1, <2>2 DEF PickSound, Deletable
<1> HIDE DEF removed
<1>3. logs' \subseteq logs
  <2>1. CASE tbl = "api_keys"
    <3>1. \A l \in logs : l.key \notin removed /\ [l EXCEPT !.key = l.key] = l
      BY <1>2, <2>1 DEF Attributed, RetIInv, RetTypeOK, LogRows
    <3> QED
      BY <1>1, <2>1, <3>1
  <2>2. CASE tbl # "api_keys"
    BY <1>1, <2>2
  <2> QED
    BY <2>1, <2>2
<1>4. /\ \A s \in Sessions : totals'[s] = totals[s] \/ (totals'[s] = NoTotal /\ totals[s].seen < pass[j].today - LogDays)
      /\ NoTotal \in [seen : Int, requests : Nat, place : 0..made] /\ NoTotal.place = 0
      /\ totals' \in [Sessions -> [seen : Int, requests : Nat, place : 0..made]]
  <2>1. NoTotal \in [seen : Int, requests : Nat, place : 0..made] /\ NoTotal.place = 0
    BY RetNumbers DEF NoTotal
  <2> HIDE DEF tbl
  <2>2. totals' \in [Sessions -> [seen : Int, requests : Nat, place : 0..made]]
    BY <1>1, <2>1 DEF RetIInv, RetTypeOK
  <2> QED
    BY <1>1, <1>2, <2>1, <2>2
<1>5. /\ \A k \in ApiKeys : keys'[k] = keys[k] \/ (keys'[k] = Purged /\ keys[k] < day)
      /\ keys' \in [ApiKeys -> Int]
  <2>1. Purged \in Int
    BY DEF Purged
  <2>2. keys' \in [ApiKeys -> Int]
    BY <1>1, <2>1 DEF RetIInv, RetTypeOK
  <2> QED
    BY <1>1, <1>2, <2>2
<1>6. PICK q \in PassRows : pass' = [pass EXCEPT ![j] = q] /\ q.today <= day /\ q.picked = {}
  <2>1. tbl # "" /\ pass[j] \in PassRows /\ pass[j].today <= day
    BY <1>1 DEF RetIInv, RetTypeOK, PickSound, Tables
  <2>2. CASE Cardinality(removed) < BatchSize
    BY <2>1, <2>2, RetLeave DEF DeleteApplies, removed
  <2>3. CASE ~(Cardinality(removed) < BatchSize)
    <3>1. pass' = [pass EXCEPT ![j] = [pass[j] EXCEPT !.picked = {}]]
      BY <2>3 DEF DeleteApplies, removed
    <3>2. [pass[j] EXCEPT !.picked = {}] \in PassRows /\ [pass[j] EXCEPT !.picked = {}].today = pass[j].today
          /\ [pass[j] EXCEPT !.picked = {}].picked = {}
      BY <2>1 DEF PassRows
    <3> QED
      BY <2>1, <3>1, <3>2
  <2> QED
    BY <2>2, <2>3
<1>7. pass'[j] = q /\ (\A i \in Janitors \ {j} : pass'[i] = pass[i]) /\ pass' \in [Janitors -> PassRows]
  BY <1>6 DEF RetIInv, RetTypeOK
<1>8. RetTypeOK'
  BY <1>1, <1>3, <1>4, <1>5, <1>7 DEF RetIInv, RetTypeOK
<1>9. ASSUME NEW f \in flight' PROVE FlightSound(f)'
  <2>1. f \in flight /\ FlightSound(f) /\ f.id \in 1..made /\ f.key \in ApiKeys
    BY <1>1, RetFlightFacts
  <2>2. keys'[f.key] = keys[f.key]
    BY <1>5, <2>1, RetNumbers DEF FlightSound
  <2>3. \A s \in Sessions : totals'[s].place # f.id
    BY <1>4, <2>1 DEF FlightSound
  <2> QED
    BY <1>1, <2>1, <2>2, <2>3 DEF FlightSound
<1>10. ASSUME NEW i \in Janitors \ {j}, NEW p \in pass'[i].picked PROVE PickSound(i, p)'
  <2>1. PickSound(i, p) /\ pass'[i] = pass[i]
    BY <1>7, <1>10 DEF RetIInv
  <2>2. pass[i].table = "api_keys" => keys'[p.row] < day
    BY <1>5, <2>1, RetNumbers DEF PickSound
  <2> QED
    BY <1>1, <1>3, <1>4, <2>1, <2>2 DEF PickSound, Attributed
<1>11. RetIInv'
  BY <1>1, <1>6, <1>7, <1>8, <1>9, <1>10 DEF RetIInv
<1>12. ASSUME NEW s \in Sessions, totals[s].seen < pass[j].today - LogDays PROVE totals[s].seen < day - LogDays
  <2>1. pass[j].today <= day /\ pass[j].today \in Nat /\ day \in Nat /\ totals[s].seen \in Int /\ LogDays \in Nat
    BY RetNumbers, RetentionBounds DEF RetentionBounds, RetIInv, RetTypeOK, PassRows
  <2> QED
    BY <1>12, <2>1
<1> QED
  BY <1>4, <1>11, <1>12

LEMMA RetNext ==
    ASSUME RetIInv, [RetentionNext]_retVars
    PROVE  /\ RetIInv'
           /\ \A s \in Sessions : totals[s] # NoTotal /\ totals'[s] = NoTotal => totals[s].seen < day - LogDays
<1>1. CASE UNCHANGED retVars
  BY <1>1 DEF retVars, RetIInv, RetTypeOK, FlightSound, PickSound, Attributed
<1>2. CASE \E k \in ApiKeys, s \in Sessions : Arrive(k, s)
  BY <1>2, RetArrive DEF Arrive
<1>3. CASE \E f \in flight : Finish(f)
  <2>1. PICK f \in flight : Finish(f)
    BY <1>3
  <2>2. \A s \in Sessions : totals'[s] = totals[s] \/ totals'[s].seen = day
    BY <2>1 DEF Finish, RetIInv, RetTypeOK
  <2>3. NoTotal.seen # day
    BY RetNumbers DEF NoTotal
  <2> QED
    BY <2>1, <2>2, <2>3, RetFinish
<1>4. CASE \E k \in ApiKeys : Retire(k)
  BY <1>4, RetRetire DEF Retire
<1>5. CASE Tick
  BY <1>5, RetTick DEF Tick
<1>6. CASE \E j \in Janitors : Lead(j) \/ DeletePicks(j) \/ TableLeft(j) \/ CutShort(j)
  BY <1>6, RetPasses DEF Lead, DeletePicks, TableLeft, CutShort
<1>7. CASE \E j \in Janitors : DeleteApplies(j)
  BY <1>7, RetDeletes
<1> QED
  BY <1>1, <1>2, <1>3, <1>4, <1>5, <1>6, <1>7 DEF RetentionNext

\* In every reachable state a picked row has been updated or is still expired,
\* and no request can still be logged for a picked key (DeleteExpiredBatch).
THEOREM RetIInvAlways == RetentionSpec => []RetIInv
<1>1. RetentionInit => RetIInv
  BY RetInitial
<1>2. RetIInv /\ [RetentionNext]_retVars => RetIInv'
  BY RetNext
<1> QED
  BY <1>1, <1>2, PTL DEF RetentionSpec

\* However many replicas lead at once, whatever the batch size and the windows:
\* no request log loses the key it was written with, and a session total that
\* goes has been idle for the whole window when it goes (DeleteExpiredBatch).
THEOREM IdleRowsOnlyGo == RetentionSpec => OnlyIdleRowsGo
<1> DEFINE Kept == /\ \A l \in logs' : l.key # NoLogKey
                   /\ \A s \in Sessions : (totals[s] # NoTotal /\ totals'[s] = NoTotal) => totals[s].seen < day - LogDays
<1>1. ASSUME RetIInv, [RetentionNext]_retVars PROVE Kept
  <2>1. RetIInv'
    BY <1>1, RetNext
  <2>2. \A l \in logs' : l.key \in ApiKeys
    BY <2>1 DEF RetIInv, RetTypeOK, LogRows
  <2>3. NoLogKey \notin ApiKeys
    BY RetentionBounds DEF RetentionBounds
  <2> QED
    BY <1>1, <2>2, <2>3, RetNext
<1>2. RetIInv /\ [RetentionNext]_retVars => [Kept]_retVars
  BY <1>1
<1> HIDE DEF Kept
<1>3. RetentionSpec => [][Kept]_retVars
  BY <1>2, RetIInvAlways, PTL DEF RetentionSpec
<1> QED
  BY <1>3 DEF OnlyIdleRowsGo, Kept
-------------------------------------------------------------------------------
(* Migrations: versions recorded in order, under the lock or for a built index. *)

USE MigrationBounds, NodesAssumption DEF MigrationBounds

NodeRows == [pc : {"down", "next", "begun", "locked", "alone", "dropped", "building", "validating", "executed", "ready"},
             head : {Newest - 1, Newest}, at : Nat, waits : SUBSET Nodes]

\* A replica n that is starting has every migration before the one it is at;
\* the holder of the lock is the one inside its transaction; and only builds
\* wait, for transactions that are open.
NodeSound(n) ==
    LET r == node[n] IN
    /\ r.pc # "down" => r.at <= r.head + 1 /\ \A v \in 1..Newest : v < r.at => v \in applied
    /\ r.pc \in {"begun", "locked"} => r.at <= r.head /\ r.at \notin Outside
    /\ r.pc \in {"alone", "dropped", "building", "validating", "executed"} => r.at <= r.head /\ r.at \in Outside
    /\ r.pc = "ready" => r.at = r.head + 1
    /\ r.pc = "locked" <=> holder.mig = n
    /\ r.waits \subseteq InTx
    /\ r.waits # {} => r.pc \in {"building", "validating"}

\* Versions are recorded in order, and outside a transaction for a valid index.
AppliedInOrder == \E k \in 0..Newest : applied = 1..k
AppliedBuilt == \A v \in Outside : v \in applied => built[v] = "valid"

MigTypeOK ==
    /\ built \in [Outside -> {"none", "invalid", "valid"}]
    /\ holder \in [mig : Nodes \cup {NoNode}, notx : Nodes \cup {NoNode}]
    /\ node \in [Nodes -> NodeRows]

MigIInv == MigTypeOK /\ AppliedInOrder /\ AppliedBuilt /\ \A n \in Nodes : NodeSound(n)

LEMMA MigInit == ASSUME MigrationsInit PROVE MigIInv
<1>1. PICK v \in 0..Newest : applied = 1..v /\ built = [x \in Outside |-> IF x <= v THEN "valid" ELSE "none"]
  BY DEF MigrationsInit
<1>2. holder = [mig |-> NoNode, notx |-> NoNode]
  BY DEF MigrationsInit
<1>3. ASSUME NEW n \in Nodes
      PROVE  node[n] \in NodeRows /\ node[n].pc = "down" /\ node[n].waits = {}
  <2>1. PICK h \in {Newest - 1, Newest} : node[n] = [Down EXCEPT !.head = h]
    BY DEF MigrationsInit
  <2> QED
    BY <2>1 DEF Down, NodeRows
<1>4. node \in [Nodes -> NodeRows]
  BY <1>3 DEF MigrationsInit
<1>5. MigTypeOK
  BY <1>1, <1>2, <1>4 DEF MigTypeOK
<1>6. AppliedInOrder /\ AppliedBuilt
  BY <1>1 DEF AppliedInOrder, AppliedBuilt
<1>7. \A n \in Nodes : NodeSound(n)
  BY <1>2, <1>3 DEF NodeSound
<1> QED
  BY <1>5, <1>6, <1>7 DEF MigIInv

\* The replicas other than n after a step of n.
LEMMA MigOthers ==
    ASSUME MigIInv, NEW n \in Nodes,
           \A m \in Nodes \ {n} : /\ node'[m].pc = node[m].pc /\ node'[m].head = node[m].head /\ node'[m].at = node[m].at
                                  /\ node'[m].waits \subseteq node[m].waits
                                  /\ node[n].pc \in {"begun", "locked"} /\ node'[n].pc \notin {"begun", "locked"} =>
                                       n \notin node'[m].waits
                                  /\ holder'.mig = m <=> holder.mig = m,
           applied \subseteq applied'
    PROVE  \A m \in Nodes \ {n} : NodeSound(m)'
<1> SUFFICES ASSUME NEW m \in Nodes \ {n} PROVE NodeSound(m)'
  OBVIOUS
<1>1. NodeSound(m) /\ node[m] \in NodeRows
  BY DEF MigIInv, MigTypeOK
<1>2. node'[m].waits \subseteq InTx'
  BY <1>1 DEF NodeSound, InTx
<1> QED
  BY <1>1, <1>2 DEF NodeSound, NodeRows

\* Replica n takes a step to row, and keeps the lock it holds.
LEMMA MigMove ==
    ASSUME MigIInv, NEW n \in Nodes, NEW row \in NodeRows, node' = [node EXCEPT ![n] = row],
           applied' = applied, holder' \in [mig : Nodes \cup {NoNode}, notx : Nodes \cup {NoNode}], holder'.mig = holder.mig,
           built' \in [Outside -> {"none", "invalid", "valid"}], AppliedBuilt',
           row.head = node[n].head,
           row.pc # "down" /\ row.at <= row.head + 1 /\ \A v \in 1..Newest : v < row.at => v \in applied,
           row.pc \in {"begun", "locked"} => row.at <= row.head /\ row.at \notin Outside,
           row.pc \in {"alone", "dropped", "building", "validating", "executed"} => row.at <= row.head /\ row.at \in Outside,
           row.pc = "ready" => row.at = row.head + 1,
           row.pc = "locked" <=> node[n].pc = "locked",
           node[n].pc # "begun" \/ row.pc = "begun",
           row.waits \subseteq InTx \ {n}, row.waits # {} => row.pc \in {"building", "validating"}
    PROVE  MigIInv'
<1>1. MigTypeOK /\ NodeSound(n)
  BY DEF MigIInv
<1>2. node' \in [Nodes -> NodeRows] /\ node'[n] = row /\ \A m \in Nodes \ {n} : node'[m] = node[m]
  BY <1>1 DEF MigTypeOK
<1>3. \A m \in Nodes \ {n} : NodeSound(m)'
  BY <1>1, <1>2, MigOthers
<1>4. NodeSound(n)'
  <2>1. row.waits \subseteq InTx'
    BY <1>2 DEF InTx
  <2>2. row.pc = "locked" <=> holder'.mig = n
    BY <1>1 DEF NodeSound
  <2> QED
    BY <1>2, <2>1, <2>2 DEF NodeSound
<1>5. MigTypeOK'
  BY <1>2 DEF MigTypeOK
<1>6. AppliedInOrder'
  BY DEF MigIInv, AppliedInOrder
<1> QED
  BY <1>3, <1>4, <1>5, <1>6 DEF MigIInv

\* What is known of a replica.
LEMMA NodeRowFacts ==
    ASSUME MigIInv, NEW n \in Nodes
    PROVE  /\ node[n] \in NodeRows /\ NodeSound(n)
           /\ node[n].at \in Nat /\ node[n].head \in Nat /\ node[n].head <= Newest /\ node[n].waits \subseteq Nodes
BY DEF MigIInv, MigTypeOK, NodeRows

\* Steps that change no version and no index: BeginTx, LockOutsideTx, Ready, Boot.
LEMMA MigQuietSteps ==
    ASSUME MigIInv, NEW n \in Nodes, BeginTx(n) \/ LockOutsideTx(n) \/ Ready(n) \/ Boot(n) \/ Validate(n)
    PROVE  MigIInv'
<1>1. /\ node[n] \in NodeRows /\ NodeSound(n)
      /\ node[n].at \in Nat /\ node[n].head \in Nat /\ node[n].head <= Newest /\ node[n].waits \subseteq Nodes
  BY NodeRowFacts
<1>2. /\ applied' = applied /\ built' = built
      /\ holder' \in [mig : Nodes \cup {NoNode}, notx : Nodes \cup {NoNode}] /\ holder'.mig = holder.mig
  BY DEF MigIInv, MigTypeOK, BeginTx, LockOutsideTx, Ready, Boot, Validate
<1>3. AppliedBuilt' /\ built' \in [Outside -> {"none", "invalid", "valid"}]
  BY <1>2 DEF MigIInv, MigTypeOK, AppliedBuilt
<1>4. CASE BeginTx(n)
  <2> DEFINE q == [node[n] EXCEPT !.pc = "begun"]
  <2>1. node' = [node EXCEPT ![n] = q] /\ node[n].pc = "next" /\ node[n].at <= node[n].head /\ node[n].at \notin Outside
    BY <1>4 DEF BeginTx, Goes, At, Marked
  <2>2. q \in NodeRows /\ q.pc = "begun" /\ q.head = node[n].head /\ q.at = node[n].at /\ q.waits = node[n].waits
    BY <1>1 DEF NodeRows
  <2> HIDE DEF q
  <2>3. q.waits = {}
    BY <1>1, <2>1, <2>2 DEF NodeSound
  <2> QED
    BY <1>1, <1>2, <1>3, <2>1, <2>2, <2>3, MigMove DEF NodeSound
<1>5. CASE LockOutsideTx(n)
  <2> DEFINE q == [node[n] EXCEPT !.pc = "alone"]
  <2>1. node' = [node EXCEPT ![n] = q] /\ node[n].pc = "next" /\ node[n].at <= node[n].head /\ node[n].at \in Outside
    BY <1>5 DEF LockOutsideTx, Goes, At, Marked
  <2>2. q \in NodeRows /\ q.pc = "alone" /\ q.head = node[n].head /\ q.at = node[n].at /\ q.waits = node[n].waits
    BY <1>1 DEF NodeRows
  <2> HIDE DEF q
  <2>3. q.waits = {}
    BY <1>1, <2>1, <2>2 DEF NodeSound
  <2> QED
    BY <1>1, <1>2, <1>3, <2>1, <2>2, <2>3, MigMove DEF NodeSound
<1>6. CASE Ready(n)
  <2> DEFINE q == [node[n] EXCEPT !.pc = "ready"]
  <2>1. node' = [node EXCEPT ![n] = q] /\ node[n].pc = "next" /\ node[n].at = node[n].head + 1
    BY <1>6 DEF Ready, Goes, At
  <2>2. q \in NodeRows /\ q.pc = "ready" /\ q.head = node[n].head /\ q.at = node[n].at /\ q.waits = node[n].waits
    BY <1>1 DEF NodeRows
  <2> HIDE DEF q
  <2>3. q.waits = {}
    BY <1>1, <2>1, <2>2 DEF NodeSound
  <2> QED
    BY <1>1, <1>2, <1>3, <2>1, <2>2, <2>3, MigMove DEF NodeSound
<1>7. CASE Boot(n)
  <2> DEFINE q == [node[n] EXCEPT !.pc = "next", !.at = 0]
  <2>1. node' = [node EXCEPT ![n] = q] /\ node[n].pc = "down"
    BY <1>7 DEF Boot, At
  <2>2. q \in NodeRows /\ q.pc = "next" /\ q.head = node[n].head /\ q.at = 0 /\ q.waits = node[n].waits
    BY <1>1 DEF NodeRows
  <2> HIDE DEF q
  <2>3. q.waits = {}
    BY <1>1, <2>1, <2>2 DEF NodeSound
  <2>4. q.at <= q.head + 1 /\ \A v \in 1..Newest : v < q.at => v \in applied
    BY <1>1, <2>2
  <2> QED
    BY <1>1, <1>2, <1>3, <2>1, <2>2, <2>3, <2>4, MigMove
<1>8. CASE Validate(n)
  <2> DEFINE W == InTx \ {n}
             q == [node[n] EXCEPT !.pc = "validating", !.waits = W]
  <2>1. node' = [node EXCEPT ![n] = q] /\ node[n].pc = "building" /\ W \in SUBSET Nodes
    BY <1>8 DEF Validate, At, InTx
  <2>2. q \in NodeRows /\ q.pc = "validating" /\ q.head = node[n].head /\ q.at = node[n].at /\ q.waits = W
    BY <1>1, <2>1 DEF NodeRows
  <2> HIDE DEF q
  <2> QED
    BY <1>1, <1>2, <1>3, <2>1, <2>2, MigMove DEF NodeSound
<1> QED
  BY <1>4, <1>5, <1>6, <1>7, <1>8

\* Steps of a migration outside a transaction.
LEMMA MigOutsideSteps ==
    ASSUME MigIInv, NEW n \in Nodes, Build(n) \/ Built(n) \/ Recheck(n)
    PROVE  MigIInv'
<1>1. /\ node[n] \in NodeRows /\ NodeSound(n) /\ MigTypeOK /\ AppliedBuilt
      /\ node[n].at \in Nat /\ node[n].head \in Nat /\ node[n].head <= Newest /\ node[n].waits \subseteq Nodes
  BY NodeRowFacts DEF MigIInv
<1>2. /\ applied' = applied /\ node[n].pc \in {"alone", "dropped", "validating"}
      /\ node[n].at \in Outside /\ node[n].at <= node[n].head /\ holder.mig # n
  BY <1>1 DEF Build, Built, Recheck, At, NodeSound
<1>3. CASE Build(n)
  <2> DEFINE b == built[node[n].at]
             W == IF b = "none" THEN InTx \ {n} ELSE {}
             pc == IF b = "none" THEN "building" ELSE "executed"
             q == [node[n] EXCEPT !.pc = pc, !.waits = W]
  <2>1. node' = [node EXCEPT ![n] = q] /\ holder' = holder /\ W \in SUBSET (InTx \ {n}) /\ W \subseteq Nodes
        /\ built' = [built EXCEPT ![node[n].at] = IF b = "none" THEN "invalid" ELSE b]
    BY <1>3 DEF Build, InTx
  <2>2. AppliedBuilt' /\ built' \in [Outside -> {"none", "invalid", "valid"}]
    BY <1>1, <1>2, <2>1 DEF AppliedBuilt, MigTypeOK
  <2>3. pc \in {"building", "executed"} /\ (W # {} => pc = "building")
    OBVIOUS
  <2> HIDE DEF W, pc
  <2>4. q \in NodeRows /\ q.pc = pc /\ q.head = node[n].head /\ q.at = node[n].at /\ q.waits = W
    BY <1>1, <2>1, <2>3 DEF NodeRows
  <2> HIDE DEF q
  <2> QED
    BY <1>1, <1>2, <2>1, <2>2, <2>3, <2>4, MigMove DEF NodeSound, MigTypeOK
<1>4. CASE Built(n)
  <2> DEFINE q == [node[n] EXCEPT !.pc = "executed"]
  <2>1. node' = [node EXCEPT ![n] = q] /\ holder' = holder /\ node[n].waits = {}
        /\ built' = [built EXCEPT ![node[n].at] = "valid"]
    BY <1>4 DEF Built, Goes
  <2>2. AppliedBuilt' /\ built' \in [Outside -> {"none", "invalid", "valid"}]
    BY <1>1, <1>2, <2>1 DEF AppliedBuilt, MigTypeOK
  <2>3. q \in NodeRows /\ q.pc = "executed" /\ q.head = node[n].head /\ q.at = node[n].at /\ q.waits = {}
    BY <1>1, <2>1 DEF NodeRows
  <2> HIDE DEF q
  <2> QED
    BY <1>1, <1>2, <2>1, <2>2, <2>3, MigMove DEF NodeSound, MigTypeOK
<1>5. CASE Recheck(n)
  <2>0. node[n].pc = "alone" /\ node[n].waits = {}
    BY <1>1, <1>5 DEF Recheck, At, NodeSound
  <2>1. CASE node[n].at \in applied
    <3> DEFINE at == node[n].at + 1
               q == [node[n] EXCEPT !.pc = "next", !.at = at]
    <3>1. node' = [node EXCEPT ![n] = q] /\ holder' = Unlocked(n) /\ built' = built
      BY <1>5, <2>1 DEF Recheck
    <3>2. holder' \in [mig : Nodes \cup {NoNode}, notx : Nodes \cup {NoNode}] /\ holder'.mig = holder.mig
      BY <1>1, <1>2, <3>1 DEF Unlocked, Freed, MigTypeOK
    <3>3. AppliedBuilt' /\ built' \in [Outside -> {"none", "invalid", "valid"}]
      BY <1>1, <1>2, <3>1 DEF AppliedBuilt, MigTypeOK
    <3>4. q \in NodeRows /\ q.pc = "next" /\ q.head = node[n].head /\ q.at = at /\ q.waits = {}
      <4>1. at \in Nat
        BY <1>1
      <4> HIDE DEF at
      <4> QED
        BY <1>1, <2>0, <4>1 DEF NodeRows
    <3> HIDE DEF q
    <3>5. at <= node[n].head + 1 /\ \A v \in 1..Newest : v < at => v \in applied
      BY <1>1, <1>2, <2>0, <2>1 DEF NodeSound
    <3> HIDE DEF at
    <3> QED
      BY <1>1, <1>2, <2>0, <3>1, <3>2, <3>3, <3>4, <3>5, MigMove
  <2>2. CASE node[n].at \notin applied
    <3> DEFINE b == built[node[n].at]
               q == [node[n] EXCEPT !.pc = "dropped"]
    <3>1. node' = [node EXCEPT ![n] = q] /\ holder' = holder
          /\ built' = [built EXCEPT ![node[n].at] = IF b = "invalid" THEN "none" ELSE b]
      BY <1>5, <2>2 DEF Recheck, Goes
    <3>2. AppliedBuilt' /\ built' \in [Outside -> {"none", "invalid", "valid"}]
      BY <1>1, <1>2, <2>2, <3>1 DEF AppliedBuilt, MigTypeOK
    <3>3. q \in NodeRows /\ q.pc = "dropped" /\ q.head = node[n].head /\ q.at = node[n].at /\ q.waits = {}
      BY <1>1, <2>0 DEF NodeRows
    <3> HIDE DEF q
    <3> QED
      BY <1>1, <1>2, <2>0, <3>1, <3>2, <3>3, MigMove DEF NodeSound, MigTypeOK
  <2> QED
    BY <2>1, <2>2
<1> QED
  BY <1>3, <1>4, <1>5

LEMMA MigTakeLock ==
    ASSUME MigIInv, NEW n \in Nodes, TakeLock(n)
    PROVE  MigIInv'
<1> DEFINE q == [node[n] EXCEPT !.pc = "locked"]
<1>1. /\ node[n] \in NodeRows /\ NodeSound(n) /\ MigTypeOK
      /\ node[n].at \in Nat /\ node[n].head \in Nat /\ node[n].head <= Newest /\ node[n].waits \subseteq Nodes
  BY NodeRowFacts DEF MigIInv
<1>2. /\ node' = [node EXCEPT ![n] = q] /\ node[n].pc = "begun" /\ holder.mig = NoNode
      /\ holder' = [holder EXCEPT !.mig = n] /\ UNCHANGED <<applied, built>>
  BY DEF TakeLock, Goes, At
<1>3. q \in NodeRows /\ q.pc = "locked" /\ q.head = node[n].head /\ q.at = node[n].at /\ q.waits = {}
  BY <1>1, <1>2 DEF NodeRows, NodeSound
<1> HIDE DEF q
<1>4. holder' \in [mig : Nodes \cup {NoNode}, notx : Nodes \cup {NoNode}] /\ holder'.mig = n
  BY <1>1, <1>2 DEF MigTypeOK
<1>5. node' \in [Nodes -> NodeRows] /\ node'[n] = q /\ \A m \in Nodes \ {n} : node'[m] = node[m]
  BY <1>1, <1>2, <1>3 DEF MigTypeOK
<1>6. \A m \in Nodes \ {n} : NodeSound(m)'
  BY <1>2, <1>3, <1>4, <1>5, MigOthers
<1>7. NodeSound(n)'
  BY <1>1, <1>2, <1>3, <1>4, <1>5 DEF NodeSound
<1>8. MigTypeOK' /\ AppliedInOrder' /\ AppliedBuilt'
  BY <1>1, <1>2, <1>4, <1>5 DEF MigTypeOK, MigIInv, AppliedInOrder, AppliedBuilt
<1> QED
  BY <1>6, <1>7, <1>8 DEF MigIInv

\* A version is recorded after all the ones before it.
LEMMA RecordInOrder ==
    ASSUME AppliedInOrder, NEW v \in 0..Newest, \A x \in 1..Newest : x < v => x \in applied,
           applied' = applied \cup ({v} \ {0})
    PROVE  AppliedInOrder' /\ \A x \in 1..Newest : x < v + 1 => x \in applied'
<1>1. PICK k \in 0..Newest : applied = 1..k
  BY DEF AppliedInOrder
<1>2. CASE v <= k
  <2>1. applied' = 1..k
    BY <1>1, <1>2
  <2> QED
    BY <1>1, <1>2, <2>1 DEF AppliedInOrder
<1>3. CASE v > k
  <2>1. v = k + 1
    <3>1. SUFFICES ASSUME v # k + 1 PROVE FALSE
      OBVIOUS
    <3>2. k + 1 \in 1..Newest /\ k + 1 < v
      BY <1>3, <3>1
    <3> QED
      BY <1>1, <3>2
  <2>2. applied' = 1..v
    BY <1>1, <2>1
  <2> QED
    BY <2>2 DEF AppliedInOrder
<1> QED
  BY <1>2, <1>3

LEMMA MigCommit ==
    ASSUME MigIInv, NEW n \in Nodes, Commit(n)
    PROVE  MigIInv'
<1> DEFINE at == node[n].at + 1
           q == [node[n] EXCEPT !.pc = "next", !.at = at, !.waits = {}]
<1>1. /\ node[n] \in NodeRows /\ NodeSound(n) /\ MigTypeOK /\ AppliedInOrder /\ AppliedBuilt
      /\ node[n].at \in Nat /\ node[n].head \in Nat /\ node[n].head <= Newest /\ node[n].waits \subseteq Nodes
  BY NodeRowFacts DEF MigIInv
<1>2. /\ node[n].pc = "locked" /\ applied' = applied \cup ({node[n].at} \ {0}) /\ built' = built
      /\ holder' = [holder EXCEPT !.mig = NoNode]
  BY DEF Commit, At
<1>3. node[n].at <= node[n].head /\ node[n].at \notin Outside /\ holder.mig = n
      /\ \A v \in 1..Newest : v < node[n].at => v \in applied
  BY <1>1, <1>2 DEF NodeSound
<1>4. q \in NodeRows /\ q.pc = "next" /\ q.head = node[n].head /\ q.at = at /\ q.waits = {}
  <2>1. at \in Nat
    BY <1>1
  <2> HIDE DEF at
  <2> QED
    BY <1>1, <2>1 DEF NodeRows
<1>5. /\ node'[n] = q
      /\ \A m \in Nodes \ {n} : node'[m] = [node[m] EXCEPT !.waits = @ \ {n}]
      /\ DOMAIN node' = Nodes /\ node' = [m \in Nodes |-> node'[m]]
  BY DEF Commit, EndsTx
<1> HIDE DEF q
<1>6. \A m \in Nodes \ {n} : /\ node'[m] \in NodeRows /\ node'[m].pc = node[m].pc /\ node'[m].head = node[m].head
                             /\ node'[m].at = node[m].at /\ node'[m].waits = node[m].waits \ {n}
  BY <1>1, <1>5 DEF MigTypeOK, NodeRows
<1>7. holder' \in [mig : Nodes \cup {NoNode}, notx : Nodes \cup {NoNode}] /\ holder'.mig = NoNode
  BY <1>1, <1>2 DEF MigTypeOK
<1>8. \A m \in Nodes \ {n} : NodeSound(m)'
  BY <1>2, <1>3, <1>6, <1>7, MigOthers
<1>9. AppliedInOrder' /\ \A v \in 1..Newest : v < at => v \in applied'
  BY <1>1, <1>2, <1>3, RecordInOrder
<1>10. NodeSound(n)'
  BY <1>1, <1>3, <1>4, <1>5, <1>7, <1>9 DEF NodeSound
<1>11. MigTypeOK'
  BY <1>1, <1>2, <1>4, <1>5, <1>6, <1>7 DEF MigTypeOK
<1>12. AppliedBuilt'
  BY <1>1, <1>2, <1>3 DEF AppliedBuilt
<1> QED
  BY <1>8, <1>9, <1>10, <1>11, <1>12 DEF MigIInv

LEMMA MigRecordOutside ==
    ASSUME MigIInv, NEW n \in Nodes, RecordOutside(n)
    PROVE  MigIInv'
<1> DEFINE at == node[n].at + 1
           q == [node[n] EXCEPT !.pc = "next", !.at = at]
<1>1. /\ node[n] \in NodeRows /\ NodeSound(n) /\ MigTypeOK /\ AppliedInOrder /\ AppliedBuilt
      /\ node[n].at \in Nat /\ node[n].head \in Nat /\ node[n].head <= Newest /\ node[n].waits \subseteq Nodes
  BY NodeRowFacts DEF MigIInv
<1>2. /\ node[n].pc = "executed" /\ applied' = applied \cup {node[n].at} /\ built' = built
      /\ holder' = Unlocked(n) /\ built[node[n].at] = "valid" /\ node' = [node EXCEPT ![n] = q]
  BY DEF RecordOutside, At, MayRecord
<1>3. node[n].at <= node[n].head /\ node[n].at \in Outside /\ holder.mig # n /\ node[n].waits = {}
      /\ \A v \in 1..Newest : v < node[n].at => v \in applied
  BY <1>1, <1>2 DEF NodeSound
<1>4. q \in NodeRows /\ q.pc = "next" /\ q.head = node[n].head /\ q.at = at /\ q.waits = {}
  <2>1. at \in Nat
    BY <1>1
  <2> HIDE DEF at
  <2> QED
    BY <1>1, <1>3, <2>1 DEF NodeRows
<1> HIDE DEF q
<1>5. node' \in [Nodes -> NodeRows] /\ node'[n] = q /\ \A m \in Nodes \ {n} : node'[m] = node[m]
  BY <1>1, <1>2, <1>4 DEF MigTypeOK
<1>6. holder' \in [mig : Nodes \cup {NoNode}, notx : Nodes \cup {NoNode}] /\ holder'.mig = holder.mig
  BY <1>1, <1>2, <1>3 DEF Unlocked, Freed, MigTypeOK
<1>7. \A m \in Nodes \ {n} : NodeSound(m)'
  BY <1>2, <1>5, <1>6, MigOthers
<1>8. AppliedInOrder' /\ \A v \in 1..Newest : v < at => v \in applied'
  <2>1. node[n].at \in 1..Newest
    BY <1>3
  <2>2. applied' = applied \cup ({node[n].at} \ {0})
    BY <1>2, <2>1
  <2> QED
    BY <1>1, <1>3, <2>1, <2>2, RecordInOrder
<1>9. NodeSound(n)'
  BY <1>1, <1>3, <1>4, <1>5, <1>6, <1>8 DEF NodeSound
<1>10. MigTypeOK' /\ AppliedBuilt'
  BY <1>1, <1>2, <1>3, <1>5, <1>6 DEF MigTypeOK, AppliedBuilt
<1> QED
  BY <1>7, <1>8, <1>9, <1>10 DEF MigIInv

LEMMA MigCutOff ==
    ASSUME MigIInv, NEW n \in Nodes, CutOff(n)
    PROVE  MigIInv'
<1> DEFINE q == [node[n] EXCEPT !.pc = "down", !.at = 0, !.waits = {}]
<1>1. /\ node[n] \in NodeRows /\ NodeSound(n) /\ MigTypeOK /\ AppliedInOrder /\ AppliedBuilt
  BY NodeRowFacts DEF MigIInv
<1>2. holder' = Unlocked(n) /\ UNCHANGED <<applied, built>>
  BY DEF CutOff
<1>3. q \in NodeRows /\ q.pc = "down" /\ q.waits = {}
  BY <1>1 DEF NodeRows
<1>4. /\ node'[n] = q
      /\ \A m \in Nodes \ {n} : node'[m] = [node[m] EXCEPT !.waits = @ \ {n}]
      /\ DOMAIN node' = Nodes /\ node' = [m \in Nodes |-> node'[m]]
  BY DEF CutOff, EndsTx
<1> HIDE DEF q
<1>5. \A m \in Nodes \ {n} : /\ node'[m] \in NodeRows /\ node'[m].pc = node[m].pc /\ node'[m].head = node[m].head
                             /\ node'[m].at = node[m].at /\ node'[m].waits = node[m].waits \ {n}
  BY <1>1, <1>4 DEF MigTypeOK, NodeRows
<1>6. holder' \in [mig : Nodes \cup {NoNode}, notx : Nodes \cup {NoNode}]
      /\ holder'.mig = IF holder.mig = n THEN NoNode ELSE holder.mig
  BY <1>1, <1>2 DEF Unlocked, Freed, MigTypeOK
<1>7. \A m \in Nodes \ {n} : NodeSound(m)'
  <2>1. \A m \in Nodes \ {n} : holder'.mig = m <=> holder.mig = m
    BY <1>6
  <2> QED
    BY <1>2, <1>5, <2>1, MigOthers
<1>8. NodeSound(n)'
  <2>1. holder'.mig # n
    BY <1>6
  <2> QED
    BY <1>3, <1>4, <2>1 DEF NodeSound
<1>9. MigTypeOK'
  BY <1>1, <1>2, <1>3, <1>4, <1>5, <1>6 DEF MigTypeOK
<1>10. AppliedInOrder' /\ AppliedBuilt'
  BY <1>1, <1>2 DEF AppliedInOrder, AppliedBuilt
<1> QED
  BY <1>7, <1>8, <1>9, <1>10 DEF MigIInv

LEMMA MigNext ==
    ASSUME MigIInv, [MigrationsNext]_migVars
    PROVE  MigIInv'
<1>1. CASE UNCHANGED migVars
  BY <1>1 DEF migVars, MigIInv, MigTypeOK, AppliedInOrder, AppliedBuilt, NodeSound, InTx
<1> QED
  BY <1>1, MigQuietSteps, MigOutsideSteps, MigTakeLock, MigCommit, MigRecordOutside, MigCutOff DEF MigrationsNext

\* In every reachable state the migrations recorded are the first of the list,
\* and only the holder of the migration lock is inside its transaction, waiting
\* for nobody (migrate, withLockedTx, applyOutsideTx).
THEOREM MigIInvAlways == MigrationsSpec => []MigIInv
<1>1. MigrationsInit => MigIInv
  BY MigInit
<1>2. MigIInv /\ [MigrationsNext]_migVars => MigIInv'
  BY MigNext
<1> QED
  BY <1>1, <1>2, PTL DEF MigrationsSpec

\* However many replicas start together, of one release or of two, some of
\* those that others wait for is not waiting itself, and a serving replica has
\* every migration of its release with a valid index: the migration lock is
\* only held inside a transaction, and a build outside one waits for open
\* transactions only (applyOutsideTx).
THEOREM StartsAlwaysMeet == MigrationsSpec => []StartsTogether
<1>1. ASSUME MigIInv PROVE StartsTogether
  <2>1. ASSUME NEW S \in SUBSET Nodes, S # {} PROVE \E n \in S : WaitsFor(n) \cap S = {}
    <3>1. CASE \E n \in S : node[n].pc = "locked"
      <4>1. PICK n \in S : node[n].pc = "locked"
        BY <3>1
      <4>2. NodeSound(n)
        BY <1>1 DEF MigIInv
      <4>3. WaitsFor(n) = {}
        BY <4>1, <4>2 DEF WaitsFor, At, NodeSound
      <4> QED
        BY <4>3
    <3>2. CASE (\A n \in S : node[n].pc # "locked") /\ \E n \in S : node[n].pc = "begun"
      <4>1. PICK n \in S : node[n].pc = "begun"
        BY <3>2
      <4>2. \A m \in S : holder.mig # m
        BY <1>1, <3>2 DEF MigIInv, NodeSound
      <4>3. WaitsFor(n) \subseteq {holder.mig}
        BY <4>1 DEF WaitsFor, At
      <4> QED
        BY <4>2, <4>3
    <3>3. CASE \A n \in S : node[n].pc \notin {"begun", "locked"}
      <4>1. PICK n \in S : TRUE
        BY <2>1
      <4>2. WaitsFor(n) \subseteq InTx
        BY <1>1, <3>3 DEF MigIInv, NodeSound, WaitsFor, At
      <4> QED
        BY <3>3, <4>1, <4>2 DEF InTx
    <3> QED
      BY <3>1, <3>2, <3>3
  <2>2. ASSUME NEW n \in Nodes, At(n, "ready")
        PROVE  /\ 1..node[n].head \subseteq applied
               /\ \A v \in Outside \cap 1..node[n].head : built[v] = "valid"
               /\ ReadyzSaysOk(n)
    <3>1. /\ node[n] \in NodeRows /\ NodeSound(n) /\ node[n].at = node[n].head + 1
          /\ node[n].head \in Nat /\ node[n].head <= Newest
      BY <1>1, <2>2, NodeRowFacts DEF NodeSound, At
    <3>2. 1..node[n].head \subseteq applied
      BY <2>2, <3>1 DEF NodeSound, At
    <3>3. \A v \in Outside \cap 1..node[n].head : built[v] = "valid"
      BY <1>1, <3>2 DEF MigIInv, AppliedBuilt
    <3>4. AppliedMigration >= node[n].head
      <4>1. PICK k \in 0..Newest : applied = 1..k
        BY <1>1 DEF MigIInv, AppliedInOrder
      <4>2. CASE k = 0
        BY <3>1, <3>2, <4>1, <4>2 DEF AppliedMigration
      <4>3. CASE k # 0
        <5>1. k \in applied /\ \A w \in applied : w <= k
          BY <4>1, <4>3
        <5>2. AppliedMigration \in applied /\ \A w \in applied : w <= AppliedMigration
          BY <5>1 DEF AppliedMigration
        <5>3. node[n].head <= k
          BY <3>1, <3>2, <4>1
        <5> QED
          BY <3>1, <4>1, <5>1, <5>2, <5>3
      <4> QED
        BY <4>2, <4>3
    <3> QED
      BY <2>2, <3>2, <3>3, <3>4 DEF ReadyzSaysOk, HeadMigration
  <2> QED
    BY <2>1, <2>2 DEF StartsTogether
<1> QED
  BY <1>1, MigIInvAlways, PTL
================================================================================
