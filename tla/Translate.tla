------------------------------ MODULE Translate ------------------------------
(***************************************************************************)
(* A conversation on its way to a provider that speaks another format: the *)
(* client's turns (Messages blocks, or the chat messages that say the      *)
(* same), read into the canonical chat form, given retrieved context, and  *)
(* written in the form of Anthropic, Gemini or Ollama; or, from /messages  *)
(* to Anthropic, relayed with a few edits.  What a provider refuses decides*)
(* what must hold: who speaks in turn, which call a result answers, and    *)
(* when thinking may be asked for.                                         *)
(*                                                                         *)
(* A block is a record whose n is its place in the conversation, so one    *)
(* that is lost, doubled or moved is seen.                                 *)
(***************************************************************************)
EXTENDS Integers, Sequences, FiniteSets, SequencesExt

CONSTANTS TurnBound,   \* provider -> turns a conversation may have
          Asks         \* the requests: a set like Requests, with any max_tokens

VARIABLES asked,    \* the request around the conversation
          turns,    \* the conversation so far, as [role, blocks]
          sent      \* what went upstream, or NotSent
trVars == <<asked, turns, sent>>

NotSent == [kind |-> "none"]
Efforts == {"none", "minimal", "low", "medium", "high", "xhigh", "max"}
Rank == [none |-> 0, minimal |-> 1, low |-> 2, medium |-> 3, high |-> 4, xhigh |-> 5, max |-> 6]
Lowest(levels) == CHOOSE l \in levels : \A k \in levels : Rank[l] <= Rank[k]
Highest(levels) == CHOOSE l \in levels : \A k \in levels : Rank[l] >= Rank[k]

\* One row of each kind of the model table.
Models == [
  claude3     |-> [kind |-> "anthropic", mode |-> "none", off |-> "disabled", levels |-> {}, forced |-> TRUE, native |-> FALSE, bound |-> FALSE],
  sonnet40    |-> [kind |-> "anthropic", mode |-> "budget", off |-> "disabled", levels |-> {}, forced |-> TRUE, native |-> FALSE, bound |-> FALSE],
  opus45      |-> [kind |-> "anthropic", mode |-> "budget", off |-> "disabled", levels |-> {"low", "medium", "high"}, forced |-> TRUE, native |-> TRUE, bound |-> FALSE],
  haiku55     |-> [kind |-> "anthropic", mode |-> "adaptive", off |-> "disabled", levels |-> Efforts \ {"none", "minimal"}, forced |-> TRUE, native |-> TRUE, bound |-> TRUE],
  sonnet55    |-> [kind |-> "anthropic", mode |-> "adaptive", off |-> "between_tools", levels |-> Efforts \ {"none", "minimal"}, forced |-> FALSE, native |-> TRUE, bound |-> TRUE],
  claudeNew   |-> [kind |-> "anthropic", mode |-> "adaptive", off |-> "unsupported", levels |-> {"low", "medium", "high"}, forced |-> FALSE, native |-> TRUE, bound |-> TRUE],
  gemini25pro |-> [kind |-> "gemini", mode |-> "budget", lo |-> 128, hi |-> 32768, canDisable |-> FALSE],
  gemini25lite |-> [kind |-> "gemini", mode |-> "budget", lo |-> 512, hi |-> 24576, canDisable |-> TRUE],
  gemini3pro  |-> [kind |-> "gemini", mode |-> "level", levels |-> {"low", "high"}],
  gemini3flash |-> [kind |-> "gemini", mode |-> "level", levels |-> {"minimal", "low", "medium", "high"}],
  llama       |-> [kind |-> "ollama", mode |-> "toggle", levels |-> {}],
  gptoss      |-> [kind |-> "ollama", mode |-> "level", levels |-> {"low", "medium", "high"}] ]
model == Models[asked.model]

\* Every request the client can wrap a conversation in.  A chat client sets an
\* effort, a Messages client a thinking type (with a budget of 5000).
Requests ==
    [front : {"chat"}, model : DOMAIN Models, effort : Efforts \cup {"unset"}, maxTokens : {0, 1024, 2049, 3000, 40000},
     choice : {"auto", "forced"}, format : {"none", "json"}, context : {"none", "system", "before_last"}]
    \cup
    [front : {"messages"}, model : DOMAIN Models, effort : {"unset", "enabled", "adaptive", "disabled"}, maxTokens : {6000},
     choice : {"auto", "forced"}, format : {"none"}, context : {"none", "system", "before_last"}]

ASSUME AsksAssumption ==
    Asks \subseteq [front : {"chat", "messages"}, model : DOMAIN Models,
                    effort : Efforts \cup {"unset", "enabled", "adaptive", "disabled"}, maxTokens : Nat,
                    choice : {"auto", "forced"}, format : {"none", "json"}, context : {"none", "system", "before_last"}]
----------------------------------------------------------------------------
(* The client's turns.  Well formed: results answer the calls just made.   *)

Text(n) == [t |-> "text", n |-> n]
Other(n) == [t |-> "other", n |-> n]                       \* a type the translation does not know
Thought(n, signed) == [t |-> "thinking", n |-> n, signed |-> signed]
CallBlock(n, id, name) == [t |-> "call", n |-> n, id |-> id, name |-> name]
Result(n, call) == [t |-> "result", n |-> n, id |-> call.id, answers |-> call.n, name |-> call.name]
Context == [t |-> "context", n |-> 0]
Blocks(bs, t) == SelectSeq(bs, LAMBDA b : b.t = t)
Count(ts) == FoldLeft(LAMBDA k, x : k + Len(x.blocks), 0, ts)
MadeCalls == IF turns = <<>> THEN <<>> ELSE Blocks(Last(turns).blocks, "call")

AssistantTurns(n) ==
    LET calls == {<<>>, <<CallBlock(n + 2, "c1", "f")>>, <<CallBlock(n + 2, "c1", "g")>>,
                  <<CallBlock(n + 2, "c1", "f"), CallBlock(n + 3, "c2", "g")>>}
        thoughts == {<<>>, <<Thought(n + 1, TRUE)>>, <<Thought(n + 1, FALSE)>>}
    IN {th \o cs : th \in thoughts, cs \in calls \ {<<>>}} \cup {th \o <<Text(n + 2)>> : th \in thoughts}
         \cup {<<Thought(n + 1, TRUE)>>} \cup {<<Other(n + 1)>> : x \in IF asked.front = "messages" THEN {1} ELSE {}}

UserTurns(n) ==
    LET rs == IF Len(MadeCalls) = 2
              THEN {<<Result(n + 1, MadeCalls[1]), Result(n + 2, MadeCalls[2])>>, <<Result(n + 1, MadeCalls[2]), Result(n + 2, MadeCalls[1])>>}
              ELSE {[i \in 1..Len(MadeCalls) |-> Result(n + i, MadeCalls[i])]}
    IN {r \o tail : r \in rs, tail \in {<<Text(n + 3)>>} \cup {<<>> : x \in IF MadeCalls # <<>> THEN {1} ELSE {}}}

\* One more turn; a conversation starts with the user.
Say ==
    /\ sent = NotSent /\ Len(turns) < TurnBound[model.kind]
    /\ \E bs \in IF Len(turns) % 2 = 0 THEN UserTurns(Count(turns) * 10) ELSE AssistantTurns(Count(turns) * 10) :
         turns' = Append(turns, [role |-> IF Len(turns) % 2 = 0 THEN "user" ELSE "assistant", blocks |-> bs])
    /\ UNCHANGED <<asked, sent>>
----------------------------------------------------------------------------
(* MessagesToChat: turns into chat messages. *)

Message(role, text, calls, thinking) == [role |-> role, text |-> text, calls |-> calls, thinking |-> thinking]

\* userTurn: one tool message for each result, then what the user added.
UserMessages(bs) ==
    LET said == Blocks(bs, "text") IN
    [i \in 1..Len(Blocks(bs, "result")) |-> Message("tool", <<Blocks(bs, "result")[i]>>, <<>>, <<>>)]
      \o (IF said = <<>> THEN <<>> ELSE <<Message("user", said, <<>>, <<>>)>>)

\* assistantTurn: nothing the canonical form can carry is no message.
AssistantMessages(bs) ==
    LET msg == Message("assistant", Blocks(bs, "text"), Blocks(bs, "call"), Blocks(bs, "thinking")) IN
    IF msg = Message("assistant", <<>>, <<>>, <<>>) THEN <<>> ELSE <<msg>>

Chat == FlattenSeq([i \in 1..Len(turns) |->
          IF turns[i].role = "user" THEN UserMessages(turns[i].blocks) ELSE AssistantMessages(turns[i].blocks)])

\* budgetEffort of 5000, adaptive without an effort, disabled.
Reasoning == CASE asked.effort = "enabled" -> "medium" [] asked.effort = "adaptive" -> "high"
               [] asked.effort = "disabled" -> "none" [] OTHER -> asked.effort

LastUser(ms) == {i \in 1..Len(ms) : ms[i].role = "user" /\ \A j \in i + 1..Len(ms) : ms[j].role # "user"}

\* A turn of tool results is never given context (SkipReason, ToolTurn).
ToolTurn == turns # <<>> /\ (IF asked.front = "chat" THEN Last(Chat).role = "tool"
                             ELSE Last(turns).role = "user" /\ Blocks(Last(turns).blocks, "result") # <<>>)
Injected == asked.context # "none" /\ ~ToolTurn

\* InjectBeforeLastUser, or a system message (InjectRetrievedContext).
Inject(ms) ==
    CASE Injected /\ asked.context = "before_last" /\ LastUser(ms) # {} ->
           [i \in 1..Len(ms) |-> IF i \in LastUser(ms) THEN [ms[i] EXCEPT !.text = <<Context>> \o @] ELSE ms[i]]
      [] Injected /\ ~(asked.context = "before_last" /\ LastUser(ms) # {}) -> <<Message("system", <<Context>>, <<>>, <<>>)>> \o ms
      [] OTHER -> ms
----------------------------------------------------------------------------
(* reasoning_effort into thinking settings. *)

ClampEffort(levels, want) ==
    LET w == IF want = "minimal" THEN "low" ELSE want
        below == {l \in levels : Rank[l] < Rank[w]} IN
    CASE w \in levels -> w [] w \notin levels /\ below # {} -> Highest(below) [] OTHER -> Lowest(levels)

Budgets == [minimal |-> 1024, low |-> 2048, medium |-> 8192, high |-> 16384, xhigh |-> 32768, max |-> 32768]
DefaultMaxTokens == 4096
Plan(thinking, budget, effort, max) == [thinking |-> thinking, budget |-> budget, effort |-> effort, max |-> max]
Unplanned == Plan("", 0, "", IF asked.maxTokens = 0 THEN DefaultMaxTokens ELSE asked.maxTokens)

\* Mutant of BudgetPlan: no room is left for the answer.
BudgetPlan_NoRoom(e) ==
    LET budget == IF asked.maxTokens # 0 /\ asked.maxTokens < Budgets[e] THEN asked.maxTokens ELSE Budgets[e]
        max == IF asked.maxTokens = 0 THEN Budgets[e] + DefaultMaxTokens ELSE asked.maxTokens
    IN IF e = "none" THEN Unplanned ELSE Plan("enabled", budget, "", max)

\* budgetPlan: budget_tokens stays under max_tokens, with room for the answer.
BudgetPlan(e) ==
    LET effort == IF model.levels = {} THEN "" ELSE ClampEffort(model.levels, e)
        budget == IF asked.maxTokens # 0 /\ asked.maxTokens <= Budgets[e] THEN asked.maxTokens - 1024 ELSE Budgets[e]
        max == IF asked.maxTokens = 0 THEN Budgets[e] + DefaultMaxTokens ELSE asked.maxTokens
    IN IF e = "none" THEN Unplanned
       ELSE IF budget < 1024 THEN Plan("", 0, effort, max) ELSE Plan("enabled", budget, effort, max)

AdaptivePlan(e) ==
    LET level == ClampEffort(model.levels, IF e = "none" THEN "low" ELSE e) IN
    IF e = "none" /\ model.off # "unsupported" THEN [Unplanned EXCEPT !.thinking = model.off]
    ELSE Plan("adaptive", 0, level,
              IF asked.maxTokens = 0 /\ Rank[level] >= Rank["high"] THEN 16000 ELSE Unplanned.max)

EffortPlan ==
    CASE Reasoning = "unset" \/ model.mode = "none" -> Unplanned
      [] Reasoning # "unset" /\ model.mode = "budget" -> BudgetPlan(Reasoning) [] OTHER -> AdaptivePlan(Reasoning)

DropThinking(plan) == Plan("", 0, plan.effort, Unplanned.max)

\* planAnthropicFormat of json_object: a forced tool, or a sentence.
ToolMode == asked.format = "json" /\ model.forced
Forced == asked.choice = "forced"

Signed(ths) == SelectSeq(ths, LAMBDA b : b.signed)

\* toolTurnWithoutThinking
UnthoughtToolTurn(ms) ==
    LET as == {i \in 1..Len(ms) : ms[i].role = "assistant"} IN
    /\ ms # <<>> /\ Last(ms).role = "tool" /\ as # {}
    /\ Signed(ms[CHOOSE i \in as : \A j \in as : j <= i].thinking) = <<>>

\* Mutant of AnthropicPlan: nobody looks whether the tool round was thought about.
AnthropicPlan_AnyRound(ms) ==
    LET formatted == IF ToolMode /\ EffortPlan.thinking \notin {"", "disabled"} THEN DropThinking(EffortPlan) ELSE EffortPlan IN
    IF formatted.thinking = "enabled" /\ Forced THEN DropThinking(formatted) ELSE formatted

\* setupAnthropicThinking
AnthropicPlan(ms) ==
    LET formatted == IF ToolMode /\ EffortPlan.thinking \notin {"", "disabled"} THEN DropThinking(EffortPlan) ELSE EffortPlan IN
    IF formatted.thinking = "enabled" /\ (Forced \/ UnthoughtToolTurn(ms)) THEN DropThinking(formatted) ELSE formatted

GeminiBudgets == [minimal |-> 512, low |-> 1024, medium |-> 8192, high |-> 24576]
PickLevel(levels, want) ==
    LET above == {l \in levels : Rank[l] > Rank[want]} IN
    CASE want \in levels -> want [] want \notin levels /\ above # {} -> Lowest(above) [] OTHER -> Highest(levels)

\* planGeminiThinking: a level or a budget, never both.
GeminiPlan ==
    LET e == Reasoning
        budget == IF e \in DOMAIN GeminiBudgets THEN GeminiBudgets[e] ELSE model.hi
        clipped == IF budget < model.lo THEN model.lo ELSE IF budget > model.hi THEN model.hi ELSE budget
    IN CASE e = "unset" -> Unplanned
         [] e # "unset" /\ model.mode = "level" ->
              Plan("level", 0, PickLevel(model.levels, CASE e \in {"xhigh", "max"} -> "high" [] e = "none" -> "minimal" [] OTHER -> e), Unplanned.max)
         [] OTHER -> Plan("budget", IF e = "none" THEN IF model.canDisable THEN 0 ELSE model.lo ELSE clipped, "", Unplanned.max)

\* planOllamaThink
OllamaPlan ==
    CASE Reasoning = "unset" -> Unplanned [] Reasoning = "none" -> Plan("false", 0, "", Unplanned.max)
      [] model.mode = "toggle" /\ Reasoning \notin {"unset", "none"} -> Plan("true", 0, "", Unplanned.max)
      [] OTHER -> Plan("level", 0, ClampEffort(model.levels, Reasoning), Unplanned.max)
----------------------------------------------------------------------------
(* The adapters. *)

\* appendAnthropic, appendGemini: consecutive messages of one role are one turn.
Merged(acc, x) ==
    IF acc # <<>> /\ Last(acc).role = x.role
    THEN [acc EXCEPT ![Len(acc)].blocks = @ \o x.blocks] ELSE Append(acc, x)
InTurns(xs) == FoldLeft(Merged, <<>>, xs)
Turn(role, bs) == IF bs = <<>> THEN <<>> ELSE <<[role |-> role, blocks |-> bs]>>
Upstream(kind, ts, plan, choice) == [kind |-> kind, turns |-> ts, plan |-> plan, choice |-> choice]

\* RAG and a model that binds thinking to its prefix: it is not sent back.
StripHistory == asked.context # "none" /\ model.bound

\* translateAnthropic: signed thinking first; nothing but thinking is no turn.
AnthropicTurns(ms) == InTurns(FlattenSeq([i \in 1..Len(ms) |->
    CASE ms[i].role = "assistant" /\ ms[i].text \o ms[i].calls # <<>> ->
           Turn("assistant", (IF StripHistory THEN <<>> ELSE Signed(ms[i].thinking)) \o ms[i].text \o ms[i].calls)
      [] ms[i].role \in {"user", "tool"} -> Turn("user", ms[i].text) [] OTHER -> <<>>]))

ToAnthropic(ms) == Upstream("anthropic", AnthropicTurns(ms), AnthropicPlan(ms),
    IF ToolMode \/ (Forced /\ model.forced) THEN "forced" ELSE "auto")

\* Mutant of ToolName: the oldest call with the id.
ToolName_First(ms, i, r) ==
    LET found == {j \in 1..i - 1 : \E c \in ToSet(ms[j].calls) : c.id = r.id} IN
    IF found = {} THEN "" ELSE (CHOOSE c \in ToSet(ms[CHOOSE j \in found : \A k \in found : j <= k].calls) : c.id = r.id).name

\* geminiToolName: the latest call with the id of the result.
ToolName(ms, i, r) ==
    LET found == {j \in 1..i - 1 : \E c \in ToSet(ms[j].calls) : c.id = r.id} IN
    IF found = {} THEN "" ELSE (CHOOSE c \in ToSet(ms[CHOOSE j \in found : \A k \in found : k <= j].calls) : c.id = r.id).name

\* translateGemini: no ids and no thinking; a result goes by its function's name.
ToGemini(ms) == Upstream("gemini", InTurns(FlattenSeq([i \in 1..Len(ms) |->
    CASE ms[i].role = "assistant" -> Turn("model", ms[i].text \o ms[i].calls)
      [] ms[i].role = "user" -> Turn("user", ms[i].text)
      [] ms[i].role = "tool" /\ ToolName(ms, i, ms[i].text[1]) # "" ->
           Turn("user", <<[ms[i].text[1] EXCEPT !.name = ToolName(ms, i, ms[i].text[1])]>>)
      [] OTHER -> <<>>])), GeminiPlan, asked.choice)

\* translateOllama: one message each; only unsigned thinking goes back.
ToOllama(ms) == Upstream("ollama", [i \in 1..Len(ms) |->
    [role |-> ms[i].role, blocks |-> SelectSeq(ms[i].thinking, LAMBDA b : ~b.signed) \o ms[i].text \o ms[i].calls]],
    OllamaPlan, "auto")
----------------------------------------------------------------------------
(* The native path: the client's own body, edited (PrepareMessages). *)

HasThinking(x) == Blocks(x.blocks, "thinking") # <<>>
DropThinkingTurns(ts) ==
    LET kept == [i \in 1..Len(ts) |-> [ts[i] EXCEPT !.blocks = SelectSeq(@, LAMBDA b : b.t # "thinking")]] IN
    SelectSeq(kept, LAMBDA x : x.blocks # <<>>)

\* leadLastUserTurn: behind the tool results, in front of the rest.
LeadLastUserTurn(ts) ==
    [i \in 1..Len(ts) |-> IF i \notin LastUser(ts) THEN ts[i]
       ELSE [ts[i] EXCEPT !.blocks = Blocks(@, "result") \o <<Context>> \o SelectSeq(@, LAMBDA b : b.t # "result")]]

\* endsInToolRoundWithoutThinking
UnthoughtToolRound(ts) ==
    LET as == {i \in 1..Len(ts) - 1 : ts[i].role = "assistant"} IN
    /\ ts # <<>> /\ Last(ts).role = "user" /\ Blocks(Last(ts).blocks, "result") # <<>> /\ as # {}
    /\ ~HasThinking(ts[CHOOSE i \in as : \A j \in as : j <= i])

\* applyMessagesThinkingRules
Native ==
    LET kept == IF StripHistory THEN DropThinkingTurns(turns) ELSE turns
        forced == Forced /\ model.forced
        off == asked.effort = "enabled" /\ model.mode = "budget" /\ (forced \/ UnthoughtToolRound(kept))
    IN Upstream("native", IF Injected /\ asked.context = "before_last" THEN LeadLastUserTurn(kept) ELSE kept,
                Plan(IF off \/ asked.effort = "unset" THEN "" ELSE asked.effort, 5000, "", asked.maxTokens),
                IF forced THEN "forced" ELSE "auto")

Send ==
    /\ sent = NotSent /\ turns # <<>>
    /\ sent' = CASE model.kind = "anthropic" /\ asked.front = "messages" -> Native
                 [] model.kind = "anthropic" /\ asked.front = "chat" -> ToAnthropic(Inject(Chat))
                 [] model.kind = "gemini" -> ToGemini(Inject(Chat))
                 [] OTHER -> ToOllama(Inject(Chat))
    /\ UNCHANGED <<asked, turns>>

TranslateInit == asked \in Asks /\ turns = <<>> /\ sent = NotSent
TranslateNext == Say \/ Send
TranslateSpec == TranslateInit /\ [][TranslateNext]_trVars
----------------------------------------------------------------------------
Flat(ts) == FlattenSeq([i \in 1..Len(ts) |-> ts[i].blocks])
Places(ts, kinds) == [i \in 1..Len(SelectSeq(Flat(ts), LAMBDA b : b.t \in kinds)) |->
                        SelectSeq(Flat(ts), LAMBDA b : b.t \in kinds)[i].n]
Told == {"text", "call", "result"}
InOrder(ns) == \A i, j \in 1..Len(ns) : i < j => ns[i] < ns[j]
Alternate(ts) == \A i \in 1..Len(ts) - 1 : ts[i].role # ts[i + 1].role

\* What the client said is what the provider is told: every text, call and
\* result once and in order, whatever the formats in between; no empty turn;
\* roles alternate where the API asks for it; results lead their turn, behind
\* the turn with their calls, and reach Gemini under the name of the function
\* they answer, also when a call id is used again.
NothingIsLost ==
    sent # NotSent =>
      LET ts == sent.turns IN
      /\ InOrder(Places(ts, Told))
      /\ ToSet(Places(ts, Told)) = ToSet(Places(turns, Told))
      /\ Cardinality({i \in 1..Len(Flat(ts)) : Flat(ts)[i].t = "context"}) <= 1
      /\ sent.kind \in {"anthropic", "gemini"} => Alternate(ts) /\ \A i \in 1..Len(ts) : ts[i].blocks # <<>>
      /\ \A i \in 1..Len(ts) : \A j, k \in 1..Len(ts[i].blocks) :
           ts[i].blocks[k].t = "result" /\ j < k => ts[i].blocks[j].t = "result"
      /\ sent.kind = "anthropic" => \A i \in 1..Len(ts) : \A r \in ToSet(Blocks(ts[i].blocks, "result")) :
           i > 1 /\ \E c \in ToSet(Blocks(ts[i - 1].blocks, "call")) : c.id = r.id /\ c.n = r.answers
      /\ sent.kind = "gemini" => \A r \in ToSet(Blocks(Flat(ts), "result")) :
           \E c \in ToSet(Blocks(Flat(ts), "call")) : c.n = r.answers /\ c.name = r.name

\* The thinking a provider is asked for is what it takes (ADR-031): a budget of
\* at least 1024 under max_tokens, a level the model has or a budget in its
\* range, no thinking to speak of next to a forced answer tool, and no budget
\* next to any forced tool.  The numbers of a native body are the client's own.
PlanIsAccepted ==
    sent # NotSent =>
      LET p == sent.plan IN
      /\ p.thinking = "enabled" /\ model.mode = "budget" =>
           /\ sent.choice # "forced"
           /\ sent.kind # "native" => p.budget >= 1024 /\ p.budget < p.max
      /\ sent.kind = "anthropic" /\ ToolMode => p.thinking \in {"", "disabled"}
      /\ sent.kind # "native" /\ p.effort # "" => p.effort \in model.levels
      /\ sent.kind = "gemini" /\ p.thinking = "budget" =>
           (p.budget = 0 /\ model.canDisable) \/ (p.budget >= model.lo /\ p.budget <= model.hi)

\* A tool round that thinks goes back with its thinking (ADR-031).  Blocks bound
\* to a prefix that retrieval changes stay behind, and all other signed ones
\* return whole, in front of what they led to.
ThinkingGoesBack ==
    sent # NotSent =>
      LET ts == sent.turns IN
      /\ sent.plan.thinking = "enabled" /\ model.mode = "budget" /\ (sent.kind = "native" \/ Last(Chat).role = "tool") =>
           ~UnthoughtToolRound(ts)
      /\ sent.kind = "anthropic" =>
           ToSet(Blocks(Flat(ts), "thinking")) =
             IF StripHistory THEN {}
             ELSE {b \in ToSet(Blocks(Flat(turns), "thinking")) : b.signed
                     /\ \E i \in 1..Len(turns) : b \in ToSet(turns[i].blocks) /\ Len(turns[i].blocks) > 1}
      /\ sent.kind = "native" /\ StripHistory => Blocks(Flat(ts), "thinking") = <<>>
=============================================================================
