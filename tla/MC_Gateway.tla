------------------------------ MODULE MC_Gateway ------------------------------
(***************************************************************************)
(* Instances of the modules on the way of a gateway request: Request,      *)
(* Limiter, Relay, Streams and Translate.  They share no variable, so each *)
(* is checked on its own: a behaviour picks one part, which moves while    *)
(* the others stay at rest in an initial state.                            *)
(***************************************************************************)
EXTENDS Request, Limiter, Relay, MC_Streams, Translate, TLC

VARIABLE part

CapsOf(p, k) == [t \in Counted |-> IF t = "project" THEN p ELSE k]

\* Request caps only: everything that can go wrong with a slot.  A release fails
\* for a departed client; it would leave the same counters for another reason.
SlotsOnly ==
    [subjects |-> {{"project"}, {"project", "key"}},
     rpm |-> CapsOf(2, 1), tpm |-> CapsOf(0, 0), budget |-> CapsOf(0, 0), sessionCap |-> 0,
     estimates |-> {0}, contexts |-> {0}, costs |-> {0}, faults |-> {"db", "leave"}]

\* A capped project, an uncapped key, token limits and budgets, a session.
TokensToo ==
    [subjects |-> {{"project", "key", "session"}},
     rpm |-> CapsOf(3, 0), tpm |-> CapsOf(5, 5), budget |-> CapsOf(2, 1), sessionCap |-> 2,
     estimates |-> {1}, contexts |-> {0, 1}, costs |-> {0, 1}, faults |-> {"db"}]

Deployments == {SlotsOnly, TokensToo}

SlotSymmetry == Permutations(Slots)

\* Two tool rounds for Gemini, whose results name the function they answer.
TurnsOf == [k \in {"anthropic", "gemini", "ollama"} |-> IF k = "gemini" THEN 5 ELSE 3]

\* Requests that differ where the provider of the model looks.
TypicalAsks ==
    {r \in Requests :
        LET kind == Models[r.model].kind IN
        /\ r.effort \notin {"low", "xhigh"}
        /\ kind # "anthropic" => r.maxTokens \in {0, 6000} /\ r.choice = "auto" /\ r.format = "none"
        /\ kind = "gemini" => /\ r.effort \in {"unset", "none", "minimal", "max", "enabled"}
                              /\ r.model = "gemini25pro" \/ r.context = "none"
        /\ (r.front = "chat" /\ kind = "anthropic") =>
              /\ r.choice = "auto" \/ r.format = "none"
              /\ r.maxTokens = 0 => r.context = "none"}

\* A part at rest keeps one initial state.
GatewayInit ==
    /\ part \in {"request", "limiter", "relay", "streams", "translate"}
    /\ (part # "request" => ep = "models") /\ RequestInit
    /\ (part # "limiter" => plan = SlotsOnly) /\ LimiterInit
    /\ (part # "relay" => path = "chat" /\ budget = "none") /\ RelayInit
    /\ (part # "streams" => route = [kind |-> "openai", sink |-> "chat", form |-> NoInput]) /\ StreamInit
    /\ (part # "translate" => asked = CHOOSE a \in Asks : TRUE) /\ TranslateInit

GatewayNext ==
    \/ part = "request" /\ RequestNext /\ UNCHANGED <<part, limVars, relayVars, stVars, trVars>>
    \/ part = "limiter" /\ LimiterNext /\ UNCHANGED <<part, reqVars, relayVars, stVars, trVars>>
    \/ part = "relay" /\ RelayNext /\ UNCHANGED <<part, reqVars, limVars, stVars, trVars>>
    \/ part = "streams" /\ StreamNext /\ UNCHANGED <<part, reqVars, limVars, relayVars, trVars>>
    \/ part = "translate" /\ TranslateNext /\ UNCHANGED <<part, reqVars, limVars, relayVars, stVars>>

GatewaySpec == GatewayInit /\ [][GatewayNext]_<<part, reqVars, limVars, relayVars, stVars, trVars>>
===============================================================================
