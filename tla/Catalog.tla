-------------------------------- MODULE Catalog --------------------------------
(***************************************************************************)
(* Connections, one project with its members, its settings and one route,  *)
(* and the documents uploaded to one store, as the admin handlers change   *)
(* them.  A handler reads, checks and writes in statements of their own;   *)
(* a list that belongs to a row (the members of a project, the targets of  *)
(* a route) is replaced by a DELETE and INSERTs in one transaction at READ *)
(* COMMITTED: the DELETE sees the rows committed when it starts, waits for *)
(* the ones another transaction is deleting and never sees rows committed  *)
(* while it waits.  A row is therefore a pair of its element and the       *)
(* request that wrote it.                                                  *)
(***************************************************************************)
EXTENDS Naturals, FiniteSets

CONSTANTS
    Editors,      \* accounts that are not admins
    Conns,        \* model connections
    Handlers,     \* requests in progress at the same time, over all replicas
    MaxDocuments, \* the store's document limit
    MaxFiles,     \* most files of one upload
    MaxEdits      \* bound on the requests

None == "none"
ASSUME CatalogBounds ==
    /\ MaxDocuments \in Nat \ {0} /\ MaxFiles \in Nat \ {0} /\ MaxEdits \in Nat
    /\ Handlers # {} /\ IsFiniteSet(Handlers) /\ None \notin Handlers

VARIABLES
    conns,    \* rows of model_connections
    project,  \* the row of projects
    route,    \* the row of project_routes and who holds its lock
    lists,    \* rows of project_members and route_targets
    asked,    \* history: the list the last committed replacement asked for
    crossed,  \* history: connections whose check and write another's write fell between
    docs,     \* documents of the store
    handler,  \* the requests
    edits     \* requests started

catVars == <<conns, project, route, lists, asked, crossed, docs, handler, edits>>
-----------------------------------------------------------------------------
Root == "root"   \* an admin

\* Endpoint families a provider type has an adapter for.
ProviderTypes == {"llm", "ranker"}
Kinds == {"chat", "rerank"}
Supports(type, kind) == IF kind = "chat" THEN type = "llm" ELSE type = "ranker"

Turns == 1..2
Policies == {"always", "off"}
Lists == {"members", "targets"}
Elements(l) == IF l = "members" THEN Editors ELSE Conns
ListRows == [member : Editors, by : 0..MaxEdits] \cup [member : Conns, by : 0..MaxEdits]
Listed(rows) == {r.member : r \in rows}

Edits == [op : {"none", "conn", "create", "update", "project", "members", "upload"},
          pc : {"idle", "save", "lock", "snapshot", "delete", "insert", "file"}, n : 0..MaxEdits,
          conn : Conns \cup {None}, type : ProviderTypes, kind : Kinds, want : SUBSET (Editors \cup Conns),
          seen : SUBSET ListRows, turns : {0} \cup Turns, policy : {""} \cup Policies,
          base : Turns, files : 0..MaxFiles, counted : 0..(MaxDocuments + Cardinality(Handlers) * MaxFiles)]

CatalogTypeOK ==
    /\ conns \in [Conns -> [here : BOOLEAN, type : ProviderTypes]]
    /\ project \in [here : BOOLEAN, model : Conns, turns : Turns, policy : Policies]
    /\ route \in [here : BOOLEAN, kind : Kinds, holder : Handlers \cup {None}]
    /\ DOMAIN lists = Lists /\ \A l \in Lists : lists[l] \subseteq ListRows /\ Listed(lists[l]) \subseteq Elements(l)
    /\ DOMAIN asked = Lists /\ \A l \in Lists : asked[l] \subseteq Elements(l)
    /\ crossed \subseteq Conns
    /\ docs \in 0..(MaxDocuments + Cardinality(Handlers) * MaxFiles)
    /\ handler \in [Handlers -> Edits]
    /\ edits \in 0..MaxEdits

Free == [op |-> "none", pc |-> "idle", n |-> 0, conn |-> None, type |-> "llm", kind |-> "chat", want |-> {},
         seen |-> {}, turns |-> 0, policy |-> "", base |-> 1, files |-> 0, counted |-> 0]

\* A project of every editor, on a chat connection, with a route to it or none.
CatalogInit ==
    /\ \E type \in [Conns -> ProviderTypes], model \in Conns :
         /\ type[model] = "llm"
         /\ conns = [c \in Conns |-> [here |-> TRUE, type |-> type[c]]]
         /\ project = [here |-> TRUE, model |-> model, turns |-> 1, policy |-> "always"]
         /\ \E first \in {{}, {model}} :
              /\ route = [here |-> first # {}, kind |-> "chat", holder |-> None]
              /\ asked = [l \in Lists |-> IF l = "members" THEN Editors ELSE first]
              /\ lists = [l \in Lists |-> {[member |-> e, by |-> 0] : e \in asked[l]}]
    /\ crossed = {}
    /\ docs = 0
    /\ handler = [h \in Handlers |-> Free]
    /\ edits = 0
-----------------------------------------------------------------------------
Begin(h, r) ==
    /\ handler[h] = Free /\ edits < MaxEdits
    /\ edits' = edits + 1
    /\ handler' = [handler EXCEPT ![h] = [r EXCEPT !.n = edits + 1]]
Proceed(h, pc) == handler' = [handler EXCEPT ![h].pc = pc] /\ UNCHANGED edits
Answer(h) == handler' = [handler EXCEPT ![h] = Free] /\ UNCHANGED edits
Release(h) == route' = IF route.holder = h THEN [route EXCEPT !.holder = None] ELSE route

\* Admins and members; anyone else is told there is no such project.
CanAccessProject(u) == project.here /\ (u = Root \/ u \in Listed(lists["members"]))
Someone == \E u \in Editors \cup {Root} : CanAccessProject(u)
ChatCapable(c) == conns[c].here /\ Supports(conns[c].type, "chat")
-----------------------------------------------------------------------------
(* Connections.                                                            *)

\* Changing the type would leave a route with a target that cannot serve it.
RouteKindConflict(c, type) == c \in Listed(lists["targets"]) /\ ~Supports(type, route.kind)

StartUpdateConnection(h, c, type) ==
    /\ conns[c].here /\ conns[c].type # type
    /\ ~RouteKindConflict(c, type)
    /\ Begin(h, [Free EXCEPT !.op = "conn", !.pc = "save", !.conn = c, !.type = type, !.seen = lists["targets"]])
    /\ UNCHANGED <<conns, project, route, lists, asked, crossed, docs>>

\* Routes written since the check are not looked at again, nor are projects.
UpdateConnection(h) ==
    /\ handler[h].op = "conn" /\ handler[h].pc = "save"
    /\ LET c == handler[h].conn
           late == {r.member : r \in lists["targets"] \ handler[h].seen} IN
       IF conns[c].here
       THEN /\ conns' = [conns EXCEPT ![c].type = handler[h].type]
            /\ crossed' = crossed \cup ({c} \cap late)
       ELSE UNCHANGED <<conns, crossed>>
    /\ Answer(h)
    /\ UNCHANGED <<project, route, lists, asked, docs>>

\* The foreign keys refuse while a project or a target names it.
DeleteConnection(c) ==
    /\ conns[c].here
    /\ ~(project.here /\ project.model = c) /\ c \notin Listed(lists["targets"])
    /\ conns' = [conns EXCEPT ![c].here = FALSE]
    /\ UNCHANGED <<project, route, lists, asked, crossed, docs, handler, edits>>
CreateConnection(c, type) ==
    /\ ~conns[c].here
    /\ conns' = [conns EXCEPT ![c] = [here |-> TRUE, type |-> type]]
    /\ UNCHANGED <<project, route, lists, asked, crossed, docs, handler, edits>>
-----------------------------------------------------------------------------
(* Replacing a list.                                                       *)

RouteOps == {"create", "update"}

\* Every target's connection is read and its provider must serve the kind.
StartRoute(h, op, kind, want) ==
    /\ Someone /\ (op = "update" => route.here)
    /\ want # {} /\ \A c \in want : conns[c].here /\ Supports(conns[c].type, kind)
    /\ Begin(h, [Free EXCEPT !.op = op, !.pc = "lock", !.kind = kind, !.want = want])
    /\ UNCHANGED <<conns, project, route, lists, asked, crossed, docs>>

\* Mutant of LockRoute: the targets are replaced before the row is updated.
LockRoute_Late(h) ==
    /\ handler[h].pc = "lock"
    /\ IF project.here /\ (handler[h].op = "update") = route.here
       THEN UNCHANGED route /\ Proceed(h, "snapshot")
       ELSE Answer(h) /\ UNCHANGED route
    /\ UNCHANGED <<conns, project, lists, asked, crossed, docs>>

\* The insert or the update of the route's row holds others off until the
\* commit.  A taken name is a conflict, a route that is gone is not found.
LockRoute(h) ==
    /\ handler[h].pc = "lock" /\ route.holder = None
    /\ IF project.here /\ (handler[h].op = "update") = route.here
       THEN route' = [route EXCEPT !.holder = h] /\ Proceed(h, "snapshot")
       ELSE Answer(h) /\ UNCHANGED route
    /\ UNCHANGED <<conns, project, lists, asked, crossed, docs>>

\* An editor keeps itself in the set.
StartSetMembers(h, want) ==
    /\ \E u \in Editors \cup {Root} : CanAccessProject(u) /\ (u = Root \/ u \in want)
    /\ Begin(h, [Free EXCEPT !.op = "members", !.pc = "snapshot", !.want = want])
    /\ UNCHANGED <<conns, project, route, lists, asked, crossed, docs>>

ListOf(h) == IF handler[h].op \in RouteOps THEN "targets" ELSE "members"

SnapshotList(h) ==
    /\ handler[h].pc = "snapshot"
    /\ handler' = [handler EXCEPT ![h].pc = "delete", ![h].seen = lists[ListOf(h)]]
    /\ UNCHANGED <<conns, project, route, lists, asked, crossed, docs, edits>>

\* A row another transaction is deleting is waited for.
DeleteListed(h) ==
    /\ handler[h].pc = "delete"
    /\ \A g \in Handlers \ {h} :
         handler[g].pc = "insert" /\ ListOf(g) = ListOf(h) => handler[g].seen \cap handler[h].seen \cap lists[ListOf(h)] = {}
    /\ Proceed(h, "insert")
    /\ UNCHANGED <<conns, project, route, lists, asked, crossed, docs>>

\* ON CONFLICT DO NOTHING keeps a row of the same element; a target whose
\* connection is gone, or a member list whose project is, rolls back.
InsertListed(h) ==
    /\ handler[h].pc = "insert"
    /\ LET r == handler[h]
           l == ListOf(h)
           kept == lists[l] \ r.seen IN
       IF project.here /\ \A c \in r.want \cap Conns : conns[c].here
       THEN /\ lists' = [lists EXCEPT ![l] = kept \cup {[member |-> e, by |-> r.n] : e \in r.want \ Listed(kept)}]
            /\ asked' = [asked EXCEPT ![l] = r.want]
            /\ route' = IF r.op \in RouteOps THEN [here |-> TRUE, kind |-> r.kind, holder |-> None] ELSE route
            /\ crossed' = crossed \cup {c \in r.want \cap Conns : ~Supports(conns[c].type, r.kind)}
       ELSE Release(h) /\ UNCHANGED <<lists, asked, crossed>>
    /\ Answer(h)
    /\ UNCHANGED <<conns, project, docs>>

DeleteRoute ==
    /\ Someone /\ route.here /\ route.holder = None
    /\ route' = [route EXCEPT !.here = FALSE]
    /\ lists' = [lists EXCEPT !["targets"] = {}]
    /\ asked' = [asked EXCEPT !["targets"] = {}]
    /\ UNCHANGED <<conns, project, crossed, docs, handler, edits>>
-----------------------------------------------------------------------------
(* The project.                                                            *)

\* A body leaves out the turns (0), the policy (""), both or none of them, and
\* changes what it names.
StartUpdateProject(h, c, turns, policy) ==
    /\ Someone /\ ChatCapable(c)
    /\ Begin(h, [Free EXCEPT !.op = "project", !.pc = "save", !.conn = c, !.turns = turns, !.policy = policy,
                             !.base = project.turns])
    /\ UNCHANGED <<conns, project, route, lists, asked, crossed, docs>>

\* A policy left out stays as it is in the row (COALESCE); turns left out are
\* copied from the row that was loaded.
SavedPolicy(r) == IF r.policy = "" THEN project.policy ELSE r.policy

SavedTurns(r) == IF r.turns = 0 THEN r.base ELSE r.turns

UpdateProject(h) ==
    /\ handler[h].op = "project" /\ handler[h].pc = "save"
    /\ LET r == handler[h] IN
       project' = IF project.here /\ conns[r.conn].here
                  THEN [project EXCEPT !.model = r.conn, !.turns = SavedTurns(r), !.policy = SavedPolicy(r)]
                  ELSE project
    /\ Answer(h)
    /\ UNCHANGED <<conns, route, lists, asked, crossed, docs>>

\* Its route, its members and their rows go with it.
DeleteProject ==
    /\ Someone /\ route.holder = None
    /\ \A h \in Handlers : handler[h].op = "members" => handler[h].pc # "insert"
    /\ project' = [project EXCEPT !.here = FALSE]
    /\ route' = [route EXCEPT !.here = FALSE]
    /\ lists' = [l \in Lists |-> {}]
    /\ asked' = [l \in Lists |-> {}]
    /\ UNCHANGED <<conns, crossed, docs, handler, edits>>

\* The project and its members are one transaction; the creator is a member.
CreateProject(u, c, want) ==
    /\ ~project.here /\ ChatCapable(c) /\ u \in Editors /\ u \in want
    /\ \A h \in Handlers : handler[h].op \notin {"project", "members"} \cup RouteOps
    /\ project' = [here |-> TRUE, model |-> c, turns |-> 1, policy |-> "always"]
    /\ lists' = [lists EXCEPT !["members"] = {[member |-> e, by |-> 0] : e \in want}]
    /\ asked' = [asked EXCEPT !["members"] = want]
    /\ UNCHANGED <<conns, route, crossed, docs, handler, edits>>
-----------------------------------------------------------------------------
(* Uploads.                                                                *)

\* The usage is read once, before the form is parsed.
StartUpload(h, files) ==
    /\ Begin(h, [Free EXCEPT !.op = "upload", !.pc = "file", !.files = files, !.counted = docs])
    /\ UNCHANGED <<conns, project, route, lists, asked, crossed, docs>>

\* Mutant of QuotaAdd: files accepted earlier in the request are not counted.
QuotaAdd_Fixed(r) == IF r.counted + 1 <= MaxDocuments THEN {r.counted} ELSE {}

\* The count after the file, none when the limit would be passed.
QuotaAdd(r) == {n \in {r.counted + 1} : n <= MaxDocuments}

\* A file beyond the quota ends the request; one the queue refuses does too,
\* with the document stored and marked failed.
UploadFile(h) ==
    /\ handler[h].pc = "file"
    /\ LET r == handler[h] IN
       IF QuotaAdd(r) = {} THEN Answer(h) /\ UNCHANGED docs
       ELSE /\ docs' = docs + 1
            /\ \/ Answer(h)
               \/ /\ r.files > 1
                  /\ \E n \in QuotaAdd(r) :
                       handler' = [handler EXCEPT ![h].files = @ - 1, ![h].counted = n]
                  /\ UNCHANGED edits
    /\ UNCHANGED <<conns, project, route, lists, asked, crossed>>

DeleteDocument ==
    /\ docs > 0
    /\ docs' = docs - 1
    /\ UNCHANGED <<conns, project, route, lists, asked, crossed, handler, edits>>
-----------------------------------------------------------------------------
\* A statement fails, or the replica dies: what is not committed is not there.
Fail(h) ==
    /\ handler[h].pc \in {"lock", "snapshot", "delete", "insert", "save", "file"}
    /\ Answer(h) /\ Release(h)
    /\ UNCHANGED <<conns, project, lists, asked, crossed, docs>>

CatalogNext ==
    \/ \E h \in Handlers :
         \/ \E c \in Conns, type \in ProviderTypes : StartUpdateConnection(h, c, type)
         \/ \E op \in RouteOps, kind \in Kinds, want \in SUBSET Conns : StartRoute(h, op, kind, want)
         \/ \E want \in SUBSET Editors : StartSetMembers(h, want)
         \/ \E c \in Conns, turns \in {0, 2}, policy \in {"", "off"} : StartUpdateProject(h, c, turns, policy)
         \/ \E files \in 1..MaxFiles : StartUpload(h, files)
         \/ UpdateConnection(h) \/ LockRoute(h) \/ SnapshotList(h) \/ DeleteListed(h) \/ InsertListed(h)
         \/ UpdateProject(h) \/ UploadFile(h) \/ Fail(h)
    \/ \E c \in Conns : DeleteConnection(c) \/ \E type \in ProviderTypes : CreateConnection(c, type)
    \/ \E u \in Editors, c \in Conns, want \in SUBSET Editors : CreateProject(u, c, want)
    \/ DeleteRoute \/ DeleteProject \/ DeleteDocument
-----------------------------------------------------------------------------
\* A target that cannot serve its route comes only from a route write and a
\* connection update that overlapped: neither check lets one through alone
\* (routeFromInput, routeKindConflict).
TargetsServeUnlessRaced ==
    \A c \in Listed(lists["targets"]) : Supports(conns[c].type, route.kind) \/ c \in crossed

\* Concurrent saves of a route leave the targets one of them asked for, never
\* a mixture: the update of the route's row orders them (UpdateRoute).
TargetsAreOneRequests == Listed(lists["targets"]) = asked["targets"]

\* Every row holds what its constraints allow, and a route's targets are those
\* of one request and serve it (routeFromInput, routeKindConflict, UpdateRoute).
CatalogInv == CatalogTypeOK /\ TargetsServeUnlessRaced /\ TargetsAreOneRequests

\* The same of SetProjectMembers, which "replaces the membership set".
MembersAreOneRequests == Listed(lists["members"]) = asked["members"]

\* A save that leaves the policy out never changes it, whatever was saved
\* since it loaded the project (UpdateProject).
LeftOutPolicyKept ==
    [][\A h \in Handlers : handler[h].op = "project" /\ handler[h].pc = "save" /\ handler[h].policy = ""
         /\ handler'[h] = Free => project'.policy = project.policy]_catVars

\* The same of the history turns, which "a field left out keeps".
LeftOutTurnsKept ==
    [][\A h \in Handlers : handler[h].op = "project" /\ handler[h].pc = "save" /\ handler[h].turns = 0
         /\ handler'[h] = Free => project'.turns = project.turns]_catVars

\* Uploads that read the usage together pass the limit, by no more than the
\* files of the others in progress (storeQuota, uploadDocument).
QuotaOvershootBounded == docs <= MaxDocuments + (Cardinality(Handlers) - 1) * MaxFiles

CatalogSpec == CatalogInit /\ [][CatalogNext]_catVars
===============================================================================
