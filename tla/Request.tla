------------------------------ MODULE Request ------------------------------
(***************************************************************************)
(* One request to the gateway, from its credential to its request log row: *)
(* the steps around the upstream walk, for chat completions, messages,     *)
(* embeddings, retrieve, rerank, the MCP search tool and the model list.   *)
(* Failover models the breakers of the walk and Limiter the counters; here *)
(* the walk only tries, repeats and moves on, and the subject is what the  *)
(* request may spend, what its tools mean upstream, and what its row says. *)
(*                                                                         *)
(* A call that was paid for is a record: its kind, the attempt it was made *)
(* in (0 before the walk), the connection that did the work, and whether   *)
(* the upstream reported its tokens or they are estimated.  The tokens of  *)
(* a row are a bag of such calls, so one counted twice or lost is seen.    *)
(***************************************************************************)
EXTENDS Integers, Sequences, FiniteSets, Bags

CONSTANTS ChatConns,     \* connections that can chat
          EmbedConns,    \* connections that can embed
          RerankConns,   \* connections of a dedicated rerank API
          MaxRetries,    \* Gateway.MaxRetries
          ToolNames      \* names of tools

VARIABLES pc,        \* the step the handler is at
          ep,        \* the endpoint
          gone,      \* the client's connection is closed
          admitted,  \* checkLimits let the request pass
          tools,     \* what applyToolPolicy was given and what it left
          targets,   \* c.targets, in the order of the walk
          at,        \* index in targets of c.conn
          built,     \* the first target's adapter could be built
          retries,   \* how often the target was tried again
          attempt,   \* upstream attempts made
          context,   \* retrieved context was put into the prompt
          billed,    \* every call some upstream was paid for
          charges,   \* c.sideCharges
          row,       \* c.rec
          priced,    \* pairs of a counted call and the connection that priced it
          answer,    \* status the client was sent
          rows       \* request log rows written for the request
reqVars == <<pc, ep, gone, admitted, tools, targets, at, built, retries, attempt, context,
          billed, charges, row, priced, answer, rows>>

Conns == ChatConns \union EmbedConns \union RerankConns
Chatting == {"chat", "messages"}
Searching == {"retrieve", "mcp"}
Endpoints == Chatting \union Searching \union {"embeddings", "rerank", "models"}

Call(kind, n, c, exact) == [kind |-> kind, n |-> n, conn |-> c, exact |-> exact]
Unanswered == 0
Twice == 1
NoRow == [status |-> 0, est |-> FALSE, tokens |-> EmptyBag]
NoTools == [asked |-> {}, choice |-> [kind |-> "auto"], permits |-> ToolNames, refused |-> FALSE,
            sent |-> {}, sentChoice |-> [kind |-> "auto"]]
conn == targets[at]

----------------------------------------------------------------------------
(* The tool policy of a project, applied to a request (governTools). *)

ToolChoices == [kind : {"auto", "none", "required"}]
             \union [kind : {"named"}, name : ToolNames]
             \union [kind : {"allowed"}, must : BOOLEAN, names : SUBSET ToolNames]

\* A policy that forgets to empty the choice lets the model use every other tool.
NarrowAllowed_Auto(choice, permits) ==
  LET left == choice.names \intersect permits IN
  IF left = {} THEN [kind |-> "auto"] ELSE [choice EXCEPT !.names = left]

\* allowed_tools without the entries the policy takes away (narrowAllowedTools);
\* a subset that is emptied becomes "none", so no other tool is gained.
NarrowAllowed(choice, permits) ==
  LET left == choice.names \intersect permits IN
  IF left = choice.names THEN choice
  ELSE IF left = {} THEN [kind |-> "none"]
  ELSE [choice EXCEPT !.names = left]

RequiresACall(choice) == choice.kind \in {"required", "named"} \/ (choice.kind = "allowed" /\ choice.must)

\* governTools: what is refused, and otherwise the tools and the choice that go upstream.
GovernTools(asked, choice, permits) ==
  LET narrowed == IF choice.kind = "allowed" THEN NarrowAllowed(choice, permits) ELSE choice
      kept == asked \intersect permits
      emptied == choice.kind = "allowed" /\ choice.must /\ narrowed.kind = "none"
      refused == \/ choice.kind = "named" /\ choice.name \notin permits
                 \/ emptied
                 \/ asked # {} /\ kept = {} /\ RequiresACall(choice)
      dropped == IF asked = {} THEN narrowed # choice /\ narrowed.kind = "none" ELSE kept = {}
  IN [asked |-> asked, choice |-> choice, permits |-> permits, refused |-> refused,
      sent |-> IF refused THEN asked ELSE kept,
      sentChoice |-> IF refused THEN choice ELSE IF dropped THEN [kind |-> "auto"] ELSE narrowed]

\* The tools the model may call, under a choice.
Callable(offered, choice) ==
  CASE choice.kind = "none" -> {}
    [] choice.kind = "named" -> offered \intersect {choice.name}
    [] choice.kind = "allowed" -> offered \intersect choice.names
    [] OTHER -> offered

----------------------------------------------------------------------------
(* Token accounting: fillUsage, side charges, record. *)

\* fillUsage: the upstream's report replaces what the row counted; an estimate marks it.
FillUsage(r, call) == [r EXCEPT !.tokens = SetToBag({call}), !.est = @ \/ ~call.exact]

\* rerankUsageProvider.addTo and the tokens of an API rerank: added to the row.
AddTo(r, call) == [r EXCEPT !.tokens = @ (+) SetToBag({call}), !.est = @ \/ ~call.exact]

SideCharge(call, inRow) == [call |-> call, inRow |-> inRow]
ChargedCalls == {ch.call : ch \in charges}
NotInRow == {ch \in charges : ~ch.inRow}

\* A record that adds every side charge, those the endpoint has counted too.
RecordedRow_AddsAll ==
  [row EXCEPT !.tokens = @ (+) SetToBag(ChargedCalls), !.est = @ \/ \E c \in ChargedCalls : ~c.exact]

\* record: the side calls that are not in the row yet join it, and every call is
\* priced: the side calls with their own connection, the rest with c.conn.
RecordedRow ==
  [row EXCEPT !.tokens = @ (+) SetToBag({ch.call : ch \in NotInRow}),
              !.est = @ \/ \E ch \in NotInRow : ~ch.call.exact]
PricedCalls ==
  {<<c, conn>> : c \in BagToSet(RecordedRow.tokens) \ ChargedCalls} \union {<<c, c.conn>> : c \in ChargedCalls}

----------------------------------------------------------------------------
RequestInit ==
  /\ ep \in Endpoints
  /\ pc = "identify" /\ gone = FALSE /\ admitted = FALSE /\ tools = NoTools
  /\ targets = <<>> /\ at = 1 /\ built = TRUE /\ retries = 0 /\ attempt = 0
  /\ context = FALSE /\ billed = {} /\ charges = {} /\ row = NoRow /\ priced = {}
  /\ answer = Unanswered /\ rows = 0

spending == <<billed, charges, row, priced, rows>>
walking == <<targets, at, built, retries, attempt, context>>

\* The status line goes out once; a second one would be seen as Twice.
Answer(status) == answer' = IF answer = Unanswered THEN status ELSE Twice
End(status) == Answer(status) /\ pc' = "done" /\ UNCHANGED <<ep, gone, admitted, spending, walking>>
Go(step) == pc' = step /\ UNCHANGED <<ep, gone, admitted, answer, spending, walking>>

CallerLeaves == ~gone /\ pc # "done" /\ gone' = TRUE
                /\ UNCHANGED <<pc, ep, admitted, tools, targets, at, built, retries, attempt, context,
                               billed, charges, row, priced, answer, rows>>

\* identify and explainMiss: no credential, two different ones, or one that does not
\* resolve (401); a lookup that failed (500).  A project's key names its project.
Identify ==
  /\ pc = "identify" /\ UNCHANGED tools
  /\ \/ \E status \in {401, 500} : End(status)
     \/ Go(IF ep = "models" THEN "list" ELSE "authenticate")
     \/ Go("select")

\* selectProject: the header's project if the key grants it (403 otherwise), else the
\* key's default, else its only grant; several grants and no name leave none.
SelectProject ==
  /\ pc = "select" /\ UNCHANGED tools
  /\ \/ End(403)
     \/ Go(IF ep = "models" THEN "list" ELSE "authenticate")

\* requireScope and visibleModels: the models of the selected project, or of every grant.
ListModels == pc = "list" /\ UNCHANGED tools /\ \E status \in {200, 403, 404, 500} : End(status)

\* authenticate: scope, then a project, then the session header.
Authenticate ==
  /\ pc = "authenticate" /\ UNCHANGED tools
  /\ \/ \E status \in {400, 403} : End(status)
     \/ Go("decode")

\* readBody: past its limit, or cut off, the body is refused as too large.
BodyRefused == \E status \in {400, 413} : End(status)

\* applyToolPolicy: a request that demands a tool it may not have ends here, before a
\* route is looked up or a slot is taken.
ApplyToolPolicy ==
  \E asked \in SUBSET ToolNames, choice \in ToolChoices, permits \in SUBSET ToolNames :
    LET verdict == GovernTools(asked, choice, permits) IN
    tools' = verdict /\ IF verdict.refused THEN End(400) ELSE Go("route")

\* decodeChat, then the tool policy.
DecodeChat ==
  /\ pc = "decode" /\ ep = "chat"
  /\ \/ UNCHANGED tools /\ BodyRefused
     \/ ApplyToolPolicy

\* readMessages: the policy sees the client's tools before the translation, which may
\* refuse the request itself, drops any.
DecodeMessages ==
  /\ pc = "decode" /\ ep = "messages"
  /\ \/ UNCHANGED tools /\ BodyRefused
     \/ ApplyToolPolicy

\* decodeEmbeddings and parseEmbeddingInput.
DecodeEmbeddings ==
  pc = "decode" /\ ep = "embeddings" /\ UNCHANGED tools /\ (BodyRefused \/ Go("route"))

\* decodeRetrieve and checkRetrieve; the MCP tool has its arguments checked the same way.
DecodeRetrieve ==
  pc = "decode" /\ ep \in Searching /\ UNCHANGED tools /\ (BodyRefused \/ Go("route"))

\* decodeRerank and parseRerankDocuments.
DecodeRerank ==
  pc = "decode" /\ ep = "rerank" /\ UNCHANGED tools /\ (BodyRefused \/ Go("route"))

\* Target lists over some connections: a route's, or one implicit connection.
TargetLists(conns) == {s \in UNION {[1..n -> conns] : n \in 0..2} : Len(s) = 2 => s[1] # s[2]}

\* acceptTargets: an empty list ends the request, so later steps have a c.conn.
AcceptTargets(ts, ok) ==
  IF Len(ts) = 0 THEN End(500)
  ELSE /\ targets' = ts /\ built' = ok /\ pc' = "limits"
       /\ UNCHANGED <<ep, gone, admitted, at, retries, attempt, context, spending, answer>>

\* resolveRoute and chatProvider: an adapter that cannot be built ends a walk of one
\* target only.
RouteChat ==
  /\ pc = "route" /\ ep \in Chatting /\ tools' = NoTools
  /\ \/ \E status \in {404, 500} : End(status)
     \/ \E ts \in TargetLists(ChatConns), ok \in BOOLEAN :
          IF Len(ts) = 1 /\ ~ok THEN End(500) ELSE AcceptTargets(ts, ok)

\* resolveKindRoute: a route of the kind, else the connection of the project's store;
\* never the project's chat connection.
RouteKind ==
  /\ pc = "route" /\ ep \in {"embeddings", "rerank"} /\ UNCHANGED tools
  /\ \/ \E status \in {404, 500} : End(status)
     \/ \E ts \in TargetLists(IF ep = "embeddings" THEN EmbedConns ELSE ChatConns \union RerankConns) :
          AcceptTargets(ts, TRUE)

\* retrieveTargets: the embedding connection of the project's store, and no other.
RouteRetrieve ==
  /\ pc = "route" /\ ep \in Searching /\ UNCHANGED tools
  /\ \/ \E status \in {400, 500} : End(status)
     \/ \E c \in EmbedConns : AcceptTargets(<<c>>, TRUE)

\* checkLimits: a denial is answered and has a row of its own, written with the
\* request's context.
CheckLimits ==
  /\ pc = "limits" /\ UNCHANGED <<ep, gone, tools, walking, billed, charges, row, priced>>
  /\ \/ Answer(500) /\ pc' = "done" /\ UNCHANGED <<admitted, rows>>
     \/ Answer(429) /\ pc' = "done" /\ rows' \in {rows, rows + 1} /\ UNCHANGED admitted
     \/ admitted' = TRUE /\ UNCHANGED <<answer, rows>>
        /\ pc' = IF ep \in Chatting THEN "prepare" ELSE "open"

\* prepareContext up to the search: retrieval is skipped or the store cannot be read,
\* or it goes on with the last user message, or with a condensed query.
PrepareContext ==
  /\ pc = "prepare" /\ pc' \in {"open", "condense", "search"}
  /\ UNCHANGED <<ep, gone, admitted, tools, walking, spending, answer>>

\* condenseQuery: a side call of one attempt on the project's query model, or on the
\* first target if its adapter could be built.  It is paid for when a reply came,
\* whether or not it was usable; otherwise the last user message is searched.
Condense ==
  /\ pc = "condense" /\ pc' = "search"
  /\ \/ UNCHANGED <<billed, charges>>
     \/ \E c \in ChatConns, exact \in BOOLEAN :
          /\ c = conn => built
          /\ LET call == Call("condense", 0, c, exact) IN
             billed' = billed \union {call} /\ charges' = charges \union {SideCharge(call, FALSE)}
  /\ UNCHANGED <<ep, gone, admitted, tools, walking, row, priced, answer, rows>>

\* The reranks of one search: none, by a chat model, by a rerank API.  A reply that
\* cannot be used is paid for all the same; a call that fails is not.
Reranks(n, chatConn, usable) ==
  {{}} \union {{Call("llm", n, chatConn, e)} : e \in IF usable THEN BOOLEAN ELSE {}}
       \union {{Call("api", n, c, e)} : c \in RerankConns, e \in BOOLEAN}

QueryEmbedding == Call("embed", 0, CHOOSE c \in EmbedConns : TRUE, TRUE)

\* The search of a chat request.  Its rerank is a side call on the first target's
\* adapter; the tokens of its query embedding are on no row.
Search ==
  /\ pc = "search" /\ pc' = "open"
  /\ \/ billed' \in {billed, billed \union {QueryEmbedding}} /\ UNCHANGED <<charges, context>>
     \/ \E calls \in Reranks(0, conn, built), found \in BOOLEAN :
          /\ billed' = billed \union calls \union {QueryEmbedding}
          /\ charges' = charges \union {SideCharge(c, FALSE) : c \in calls}
          /\ context' = found
  /\ UNCHANGED <<ep, gone, admitted, tools, targets, at, built, retries, attempt, row, priced, answer, rows>>

\* A context denial after which the walk goes on all the same.
OpenRecord_GoesOn ==
  /\ pc = "open" /\ UNCHANGED <<ep, gone, admitted, tools, walking, billed, charges, priced, rows>>
  /\ pc' = "invoke" /\ row' = NoRow
  /\ \/ UNCHANGED answer
     \/ context /\ Answer(429)

\* openRecord, then checkContextLimits: from here on record runs whatever happens.
OpenRecord ==
  /\ pc = "open" /\ UNCHANGED <<ep, gone, admitted, tools, walking, billed, charges, priced, rows>>
  /\ \/ pc' = "invoke" /\ row' = NoRow /\ UNCHANGED answer
     \/ /\ context
        /\ \E status \in {429, 500} : row' = [NoRow EXCEPT !.status = status] /\ Answer(status)
        /\ pc' = "record"

----------------------------------------------------------------------------
(* The walk.  An attempt settles the call or returns an error of a class. *)

Settle(status, r) == row' = [r EXCEPT !.status = status] /\ pc' = "record"

\* What invoke does with an error: again, the next target, or the end.
Fails(r) ==
  /\ row' = r
  /\ \/ retries < MaxRetries /\ ~gone /\ pc' = "invoke" /\ UNCHANGED at /\ retries' = retries + 1
     \/ at < Len(targets) /\ ~gone /\ pc' = "invoke" /\ at' = at + 1 /\ retries' = 0
     \/ pc' = "failed" /\ UNCHANGED <<at, retries>>

\* A target whose adapter cannot be built: no call was made, the next one is tried.
TargetConfigFails(r) ==
  /\ row' = r
  /\ IF at < Len(targets) /\ ~gone THEN pc' = "invoke" /\ at' = at + 1 /\ retries' = 0
     ELSE pc' = "failed" /\ UNCHANGED <<at, retries>>

next == attempt + 1
kept == <<ep, gone, admitted, tools, targets, built, context, priced, rows>>

\* The outcomes the chat endpoints share: an answer, a stream that broke off after its
\* first chunk (settled as 502), a client that left (499), an error, a target
\* whose adapter cannot be built.
ChatOutcome ==
  \/ /\ TargetConfigFails(row)
     /\ UNCHANGED <<attempt, billed, charges, answer>>
  \/ /\ at = 1 => built
     /\ attempt' = next /\ UNCHANGED charges
     /\ \/ \E exact \in BOOLEAN, status \in {200, 502} :
             LET call == Call("main", next, conn, exact) IN
             /\ billed' = billed \union {call} /\ Settle(status, FillUsage(row, call))
             /\ Answer(200) /\ UNCHANGED <<at, retries>>
        \/ \E exact \in BOOLEAN :
             LET call == Call("main", next, conn, exact) IN
             /\ gone /\ billed' = billed \union {call} /\ Settle(499, FillUsage(row, call))
             /\ UNCHANGED <<at, retries, answer>>
        \/ Fails(row) /\ UNCHANGED <<billed, answer>>

\* chatInvocation.attempt.
ChatAttempt == pc = "invoke" /\ ep = "chat" /\ ChatOutcome /\ UNCHANGED kept

\* messagesInvocation.attempt, relayed or translated: a request that cannot be prepared
\* for the native path fails, an answer that cannot be encoded is settled as 500.
MessagesAttempt ==
  /\ pc = "invoke" /\ ep = "messages"
  /\ \/ ChatOutcome
     \/ /\ at = 1 => built
        /\ attempt' = next /\ UNCHANGED charges
        /\ \E exact \in BOOLEAN :
             LET call == Call("main", next, conn, exact) IN
             /\ billed' = billed \union {call} /\ Settle(500, FillUsage(row, call))
             /\ Answer(500) /\ UNCHANGED <<at, retries>>
  /\ UNCHANGED kept

\* embeddingsInvocation.attempt: an answer with the wrong number of vectors fails.
EmbeddingsAttempt ==
  /\ pc = "invoke" /\ ep = "embeddings"
  /\ \/ TargetConfigFails(row) /\ UNCHANGED <<attempt, billed, charges, answer>>
     \/ /\ attempt' = next /\ UNCHANGED charges
        /\ \/ \E exact \in BOOLEAN :
                LET call == Call("main", next, conn, exact) IN
                /\ billed' = billed \union {call}
                /\ \/ Settle(200, FillUsage(row, call)) /\ Answer(200) /\ UNCHANGED <<at, retries>>
                   \/ Fails(row) /\ UNCHANGED answer
           \/ Fails(row) /\ UNCHANGED <<billed, answer>>
  /\ UNCHANGED kept

\* retrieveInvocation.attempt: the embedding call, or the search after it, may fail; the charges of an earlier attempt are dropped; the
\* row is filled before the hits' metadata is read, which may still fail.
RetrieveAttempt ==
  /\ pc = "invoke" /\ ep \in Searching
  /\ attempt' = next
  /\ \/ Fails(row) /\ UNCHANGED <<billed, charges, answer>>
     \/ /\ billed' = billed \union {Call("embed", next, conn, TRUE)}
        /\ pc' = "failed" /\ UNCHANGED <<charges, row, at, retries, answer>>
     \/ \E embeds \in {{}} \union {{Call("embed", next, conn, e)} : e \in BOOLEAN},
           chatConn \in ChatConns :
        \E calls \in IF embeds = {} THEN {{}} ELSE Reranks(next, chatConn, TRUE) :
          LET filled == IF embeds = {} THEN row ELSE FillUsage(row, CHOOSE c \in embeds : TRUE)
              counted == IF calls = {} THEN filled ELSE AddTo(filled, CHOOSE c \in calls : TRUE)
          IN /\ billed' = billed \union embeds \union calls
             /\ charges' = {SideCharge(c, TRUE) : c \in calls}
             /\ \/ Settle(200, counted) /\ Answer(200) /\ UNCHANGED <<at, retries>>
                \/ row' = [counted EXCEPT !.status = 200] /\ pc' = "failed" /\ UNCHANGED <<at, retries, answer>>
  /\ UNCHANGED kept

\* rerankInvocation.attempt through a rerank API (viaRerankAPI).
RerankAPIAttempt ==
  /\ pc = "invoke" /\ ep = "rerank" /\ conn \in RerankConns
  /\ \/ TargetConfigFails(row) /\ UNCHANGED <<attempt, billed, charges, answer>>
     \/ /\ attempt' = next /\ UNCHANGED charges
        /\ \/ \E exact \in BOOLEAN :
                LET call == Call("main", next, conn, exact) IN
                /\ billed' = billed \union {call} /\ Settle(200, FillUsage(row, call))
                /\ Answer(200) /\ UNCHANGED <<at, retries>>
           \/ Fails(row) /\ UNCHANGED <<billed, answer>>
  /\ UNCHANGED kept

\* rerankInvocation.attempt through a chat model (viaChatModel): the row restarts, and
\* keeps what an unreadable ranking cost; too many documents end the walk before that.
RerankChatAttempt ==
  /\ pc = "invoke" /\ ep = "rerank" /\ conn \in ChatConns
  /\ \/ TargetConfigFails(row) /\ UNCHANGED <<attempt, billed, charges, answer>>
     \/ /\ attempt' = next /\ UNCHANGED charges
        /\ \/ \E exact \in BOOLEAN :
                LET call == Call("llm", next, conn, exact)
                    restarted == AddTo([row EXCEPT !.tokens = EmptyBag, !.est = FALSE], call)
                IN /\ billed' = billed \union {call}
                   /\ \/ Settle(200, restarted) /\ Answer(200) /\ UNCHANGED <<at, retries>>
                      \/ Fails(restarted) /\ UNCHANGED answer
           \/ Fails([row EXCEPT !.tokens = EmptyBag, !.est = FALSE]) /\ UNCHANGED <<billed, answer>>
           \/ pc' = "failed" /\ UNCHANGED <<row, at, retries, billed, answer>>
  /\ UNCHANGED kept

\* failInvoke: a client that left is answered nothing, the row says 499.  The MCP tool
\* answers from what was captured, and so always.
FailInvoke ==
  /\ pc = "failed" /\ pc' = "record"
  /\ IF gone THEN /\ row' = [row EXCEPT !.status = 499]
                  /\ IF ep = "mcp" THEN Answer(500) ELSE UNCHANGED answer
     ELSE \E status \in {400, 500, 502} : row' = [row EXCEPT !.status = status] /\ Answer(status)
  /\ UNCHANGED <<ep, gone, admitted, tools, walking, billed, charges, priced, rows>>

\* record, deferred: the log row, the limiter and the key, with a context of its own.
Record ==
  /\ pc = "record" /\ pc' = "done"
  /\ row' = RecordedRow /\ priced' = PricedCalls
  /\ rows' \in {rows, rows + 1}
  /\ UNCHANGED <<ep, gone, admitted, tools, walking, billed, charges, answer>>

RequestNext ==
  \/ Identify \/ SelectProject \/ ListModels \/ Authenticate
  \/ DecodeChat \/ DecodeMessages \/ DecodeEmbeddings \/ DecodeRetrieve \/ DecodeRerank
  \/ RouteChat \/ RouteKind \/ RouteRetrieve \/ CheckLimits
  \/ PrepareContext \/ Condense \/ Search \/ OpenRecord
  \/ ChatAttempt \/ MessagesAttempt \/ EmbeddingsAttempt \/ RetrieveAttempt \/ RerankAPIAttempt \/ RerankChatAttempt
  \/ FailInvoke \/ Record \/ CallerLeaves

RequestSpec == RequestInit /\ [][RequestNext]_reqVars

----------------------------------------------------------------------------
(* Properties. *)

Settled == pc = "done" /\ row.status = 200

\* The calls a settled request has to pay for: those of the attempt that settled
\* it, and the side calls before the walk (a chat's query embedding is on no row).
OwedCalls == {c \in billed : c.n = attempt \/ (c.n = 0 /\ c # QueryEmbedding)}

\* A settled row counts each call that served the request once, none that an earlier
\* attempt made, and prices each with the connection that did the work (record,
\* fillUsage, addSideCharge; retrieve counts its charges itself, chat does not).
RowCountsEachCallOnce ==
  Settled => row.tokens = SetToBag(OwedCalls) /\ priced = {<<c, c.conn>> : c \in OwedCalls}

\* record takes the side charges out of the row before it prices the rest: they are
\* always in it, so no priced count is negative, whatever attempt failed where.
ChargesAreOnTheRow == pc = "done" => SetToBag(ChargedCalls) \sqsubseteq row.tokens

\* Nothing is bought for a request that the limits did not admit, and a request
\* is answered at most once and logged at most once: refusals before the limits
\* leave no row, and the row says what the client was told unless the client left
\* or the stream broke after its first chunk.
AnsweredAndLoggedOnce ==
  /\ billed # {} => admitted
  /\ answer # Twice /\ rows <= 1
  /\ rows = 1 => admitted \/ answer = 429
  /\ pc = "done" => \/ answer # Unanswered
                    \/ gone /\ row.status = 499
  /\ pc = "done" /\ admitted => row.status \in {answer, 499} \/ (row.status = 502 /\ answer = 200)

Accounting == RowCountsEachCallOnce /\ ChargesAreOnTheRow

\* The policy only takes tools away: the model may call exactly the tools the client
\* let it call and the project permits, it must call one exactly when the client said
\* so, and a request is refused only when it demands a call that cannot be made.
ToolMeaningKept ==
  LET asked == Callable(tools.asked, tools.choice) \intersect tools.permits IN
  IF tools.refused THEN RequiresACall(tools.choice) /\ asked = {}
  ELSE /\ Callable(tools.sent, tools.sentChoice) = asked
       /\ RequiresACall(tools.sentChoice) <=> RequiresACall(tools.choice)

\* A row marked as estimated holds an estimate (gateway.go: the flag "says those two
\* are guesses, which would be a lie about numbers the upstream reported exactly").
EstimatedMeansGuess == Settled /\ row.est => \E c \in BagToSet(row.tokens) : ~c.exact
=============================================================================
