------------------------------- MODULE Failover -------------------------------
(***************************************************************************)
(* The upstream call of the gateway: invoke walks the targets of a request *)
(* with retries and fallback, and every connection has a circuit breaker   *)
(* in the memory of the replica.  One replica; its requests interleave at  *)
(* the breaker's mutex, at the upstream call and at the backoff sleep.     *)
(*                                                                         *)
(* A clock reading is abstracted to the time since it was taken, counted   *)
(* in ticks and capped at OpenFor: the code only ever compares it with     *)
(* OpenFor.  An attempt is abstracted to how it ends (Outcomes).  A probe  *)
(* token is a name no call in flight carries; the code counts nextID up    *)
(* and compares tokens for equality only.                                  *)
(***************************************************************************)
EXTENDS Integers, Sequences, FiniteSets

CONSTANTS
    Conns,       \* connections of the replica
    Requests,    \* request slots: a finished request leaves its slot to the next
    Routes,      \* target lists a request may resolve to
    Threshold,   \* BREAKER_FAILURE_THRESHOLD, breaking enabled
    OpenFor,     \* BREAKER_OPEN_DURATION in ticks
    MaxRetries,  \* UPSTREAM_MAX_RETRIES
    Tokens,      \* probe tokens
    NoToken,     \* the zero token: the call is not a probe
    Faults,      \* which of panics, departing clients and exhausted budgets occur
    Healing      \* connections whose upstream may become healthy for good

ASSUME RoutesAssumption == Routes \subseteq Seq(Conns) \ {<< >>}
ASSUME BreakerAssumption == Threshold \in Nat \ {0} /\ OpenFor \in Nat \ {0} /\ MaxRetries \in Nat
ASSUME TokenAssumption == NoToken \notin Tokens
ASSUME EnvironmentAssumption ==
    Faults \subseteq {"panic", "leave", "budget"} /\ Healing \subseteq Conns

VARIABLES
    br,     \* the breaker of every connection
    req,    \* the walk of every request slot
    gone,   \* the client of the request has left (the context is cancelled)
    spent,  \* the upstream budget of the request has run out
    up,     \* the upstream behind a connection is healthy
    sent    \* history: target positions whose call may have been processed

vars == <<br, req, gone, spent, up, sent>>
-----------------------------------------------------------------------------
(* How an attempt ends: err == nil and a complete answer; err == nil with  *)
(* a stream cut by its client or its upstream; a transient error (dial,    *)
(* 429, 503); a fault after the request left (reset, 5xx, timeout); the    *)
(* target's own configuration (401, 403, 404, no adapter); an error of the *)
(* request itself.                                                         *)
Outcomes == {"ok", "cut", "transient", "fault", "config", "terminal"}

Settled(o)   == o \in {"ok", "cut"}
CanRetry(o)  == o = "transient"
FallsBack(o) == o \in {"transient", "fault", "config"}

\* outcomeOf: what the breaker learns.  Nothing from a request whose client left.
Verdict(o, left) ==
    IF left \/ o \in {"cut", "config", "terminal"} THEN "neutral"
    ELSE IF o = "ok" THEN "success" ELSE "failure"

Breaker == [open     : BOOLEAN,
            failures : 0..Threshold,
            openAge  : 0..OpenFor,
            probing  : BOOLEAN,
            probeAge : 0..OpenFor,
            probeID  : Tokens \cup {NoToken}]

Walk == [pc     : {"idle", "pick", "call", "judge", "sleep", "answer"},
         route  : Routes \cup {<< >>},
         at     : Nat,
         forced : BOOLEAN,
         tries  : 0..MaxRetries,
         tok    : Tokens \cup {NoToken},
         err    : BOOLEAN,
         last   : Outcomes \cup {"none"}]

TypeOK ==
    /\ br \in [Conns -> Breaker]
    /\ req \in [Requests -> Walk]
    /\ gone \in [Requests -> BOOLEAN]
    /\ spent \in [Requests -> BOOLEAN]
    /\ up \in [Conns -> BOOLEAN]
    /\ sent \in [Requests -> SUBSET Nat]

NewBreaker ==
    [open |-> FALSE, failures |-> 0, openAge |-> OpenFor,
     probing |-> FALSE, probeAge |-> OpenFor, probeID |-> NoToken]

NoWalk == [pc |-> "idle", route |-> << >>, at |-> 0, forced |-> FALSE,
           tries |-> 0, tok |-> NoToken, err |-> FALSE, last |-> "none"]

Init ==
    /\ br = [c \in Conns |-> NewBreaker]
    /\ req = [r \in Requests |-> NoWalk]
    /\ gone = [r \in Requests |-> FALSE]
    /\ spent = [r \in Requests |-> FALSE]
    /\ up = [c \in Conns |-> FALSE]
    /\ sent = [r \in Requests |-> {}]

\* The connection a request is at.
Conn(r) == req[r].route[req[r].at]

Working(r) == req[r].pc \in {"call", "judge", "sleep"}
-----------------------------------------------------------------------------
(* The breaker of one connection.                                          *)

IsOpen(b)     == b.open /\ b.openAge < OpenFor
IsHalfOpen(b) == b.open /\ b.openAge >= OpenFor

\* Mutant of SlotFree: a probe that never reports keeps its slot for good.
SlotFree_NoTimeout(b) == ~b.probing

\* allow: the half-open breaker has no probe, or one that is overdue.
SlotFree(b) == ~b.probing \/ b.probeAge >= OpenFor

\* allow hands out the probe.
Probed(b, t) ==
    [open |-> b.open, failures |-> b.failures, openAge |-> b.openAge,
     probing |-> TRUE, probeAge |-> 0, probeID |-> t]

\* Mutant of Freed: the report of any probe frees the slot.
Freed_AnyProbe(b, t) ==
    [open |-> b.open, failures |-> b.failures, openAge |-> b.openAge,
     probing |-> IF t # NoToken THEN FALSE ELSE b.probing,
     probeAge |-> b.probeAge, probeID |-> b.probeID]

\* report: only the current probe's own report frees the slot.
Freed(b, t) ==
    [open |-> b.open, failures |-> b.failures, openAge |-> b.openAge,
     probing |-> IF t # NoToken /\ t = b.probeID THEN FALSE ELSE b.probing,
     probeAge |-> b.probeAge, probeID |-> b.probeID]

Succeeded(b) ==
    [open |-> FALSE, failures |-> 0, openAge |-> b.openAge,
     probing |-> b.probing, probeAge |-> b.probeAge, probeID |-> b.probeID]

\* A counted failure opens a closed breaker at the threshold, reopens a
\* half-open one, and leaves the window of an open one alone.
Failed(b) ==
    LET n == IF b.failures < Threshold THEN b.failures + 1 ELSE Threshold
        opens == ~b.open /\ n >= Threshold
    IN  [open     |-> b.open \/ opens,
         failures |-> n,
         openAge  |-> IF opens \/ IsHalfOpen(b) THEN 0 ELSE b.openAge,
         probing  |-> b.probing, probeAge |-> b.probeAge, probeID |-> b.probeID]

\* Mutant of Reported: a neutral end of a probe keeps the slot.
Reported_NeutralKeepsSlot(b, t, v) ==
    CASE v = "success" -> Succeeded(Freed(b, t))
      [] v = "failure" -> Failed(Freed(b, t))
      [] OTHER         -> b

Reported(b, t, v) ==
    CASE v = "success" -> Succeeded(Freed(b, t))
      [] v = "failure" -> Failed(Freed(b, t))
      [] OTHER         -> Freed(b, t)

\* The tokens no call in flight carries.
FreshTokens == Tokens \ {req[r].tok : r \in Requests}
NextToken   == CHOOSE t \in FreshTokens : TRUE

Older(age) == IF age < OpenFor THEN age + 1 ELSE OpenFor
Aged(b) ==
    [open |-> b.open, failures |-> b.failures, openAge |-> Older(b.openAge),
     probing |-> b.probing, probeAge |-> Older(b.probeAge), probeID |-> b.probeID]
-----------------------------------------------------------------------------
(* The walk of a request.                                                  *)

SetReq(r, w) == req' = [req EXCEPT ![r] = w]
SetBr(c, b)  == br' = [br EXCEPT ![c] = b]

\* The walk is about to look at target i, or past the last one.
Picking(w, i) ==
    [pc |-> "pick", route |-> w.route, at |-> i, forced |-> FALSE,
     tries |-> 0, tok |-> NoToken, err |-> w.err, last |-> "none"]

\* The call to target i begins; t is its probe token.
Calling(w, i, t, forced) ==
    [pc |-> "call", route |-> w.route, at |-> i, forced |-> forced,
     tries |-> 0, tok |-> t, err |-> w.err, last |-> "none"]

\* The walk is over.
Answering(w) ==
    [pc |-> "answer", route |-> w.route, at |-> w.at, forced |-> FALSE,
     tries |-> 0, tok |-> NoToken, err |-> w.err, last |-> "none"]

\* The request is over; its slot is as new.
End(r) ==
    /\ SetReq(r, NoWalk)
    /\ gone' = [gone EXCEPT ![r] = FALSE]
    /\ spent' = [spent EXCEPT ![r] = FALSE]
    /\ sent' = [sent EXCEPT ![r] = {}]

\* The request has resolved its targets and enters invoke.
Start(r, route) ==
    /\ req[r].pc = "idle"
    /\ SetReq(r, [pc |-> "pick", route |-> route, at |-> 1, forced |-> FALSE,
                  tries |-> 0, tok |-> NoToken, err |-> FALSE, last |-> "none"])
    /\ UNCHANGED <<br, gone, spent, up, sent>>

\* allow lets the call through: the breaker is closed.
PickClosed(r) ==
    /\ req[r].pc = "pick" /\ req[r].at <= Len(req[r].route)
    /\ ~br[Conn(r)].open
    /\ SetReq(r, Calling(req[r], req[r].at, NoToken, FALSE))
    /\ UNCHANGED <<br, gone, spent, up, sent>>

\* allow makes the call the half-open probe.
PickProbe(r) ==
    /\ req[r].pc = "pick" /\ req[r].at <= Len(req[r].route)
    /\ IsHalfOpen(br[Conn(r)]) /\ SlotFree(br[Conn(r)])
    /\ FreshTokens # {}
    /\ SetBr(Conn(r), Probed(br[Conn(r)], NextToken))
    /\ SetReq(r, Calling(req[r], req[r].at, NextToken, FALSE))
    /\ UNCHANGED <<gone, spent, up, sent>>

Refused(b) == IsOpen(b) \/ (IsHalfOpen(b) /\ ~SlotFree(b))

\* Mutant of LastResort: an earlier failure does not count as an answer.
LastResort_AfterFailure(w) == w.at = Len(w.route)

\* Every target was refused and none has been tried.
LastResort(w) == w.at = Len(w.route) /\ ~w.err

\* allow refuses the target: it is skipped ...
PickSkip(r) ==
    /\ req[r].pc = "pick" /\ req[r].at <= Len(req[r].route)
    /\ Refused(br[Conn(r)]) /\ ~LastResort(req[r])
    /\ SetReq(r, Picking(req[r], req[r].at + 1))
    /\ UNCHANGED <<br, gone, spent, up, sent>>

\* ... or the primary goes once, without a probe token.
PickForced(r) ==
    /\ req[r].pc = "pick" /\ req[r].at <= Len(req[r].route)
    /\ Refused(br[Conn(r)]) /\ LastResort(req[r])
    /\ SetReq(r, Calling(req[r], 1, NoToken, TRUE))
    /\ UNCHANGED <<br, gone, spent, up, sent>>

\* The loop over the targets ends: failInvoke answers with the last error.
PickNone(r) ==
    /\ req[r].pc = "pick" /\ req[r].at > Len(req[r].route)
    /\ SetReq(r, Answering(req[r]))
    /\ UNCHANGED <<br, gone, spent, up, sent>>

\* A healthy upstream does not fail; the client, the configuration and the
\* request itself still may.
Possible(r) ==
    IF up[Conn(r)] /\ ~spent[r] THEN Outcomes \ {"transient", "fault"} ELSE Outcomes

\* runAttempt returns and its outcome is reported.
Return(r, o) ==
    /\ req[r].pc = "call"
    /\ o \in Possible(r)
    /\ SetBr(Conn(r), Reported(br[Conn(r)], req[r].tok, Verdict(o, gone[r])))
    /\ IF Settled(o)
       THEN End(r)
       ELSE /\ SetReq(r, [pc |-> "judge", route |-> req[r].route, at |-> req[r].at,
                          forced |-> req[r].forced, tries |-> req[r].tries,
                          tok |-> req[r].tok, err |-> TRUE, last |-> o])
            /\ sent' = [sent EXCEPT ![r] = IF o = "fault" THEN @ \cup {req[r].at} ELSE @]
            /\ UNCHANGED <<gone, spent>>
    /\ UNCHANGED up

\* A panic in an attempt unwinds invoke; the server recovers, nothing is reported.
Panic(r) ==
    /\ "panic" \in Faults
    /\ req[r].pc = "call"
    /\ End(r)
    /\ UNCHANGED <<br, up>>

\* The condition of the retry loop.
MayRetry(r) ==
    /\ ~gone[r] /\ ~spent[r]
    /\ CanRetry(req[r].last)
    /\ req[r].tries < MaxRetries /\ ~req[r].forced
    /\ ~IsOpen(br[Conn(r)])

Backoff(r) ==
    /\ req[r].pc = "judge"
    /\ MayRetry(r)
    /\ SetReq(r, [pc |-> "sleep", route |-> req[r].route, at |-> req[r].at,
                  forced |-> req[r].forced, tries |-> req[r].tries + 1,
                  tok |-> req[r].tok, err |-> req[r].err, last |-> "none"])
    /\ UNCHANGED <<br, gone, spent, up, sent>>

\* Leaving a target: on to the next one, or to the answer.
MayMove(r) ==
    /\ req[r].at < Len(req[r].route)
    /\ FallsBack(req[r].last) /\ ~req[r].forced
    /\ ~gone[r] /\ ~spent[r]

\* Mutant of Leave: the fallback goes to the target that has just failed.
Leave_SameTarget(r) ==
    IF MayMove(r) THEN SetReq(r, Picking(req[r], req[r].at)) ELSE SetReq(r, Answering(req[r]))

Leave(r) ==
    IF MayMove(r)
    THEN SetReq(r, Picking(req[r], req[r].at + 1))
    ELSE SetReq(r, Answering(req[r]))

\* The retry loop breaks: its condition, or a wait longer than the budget left.
GiveUp(r) ==
    /\ req[r].pc = "judge"
    /\ Leave(r)
    /\ UNCHANGED <<br, gone, spent, up, sent>>

\* sleep ends: the timer fired ...
Wake(r) ==
    /\ req[r].pc = "sleep"
    /\ SetReq(r, [pc |-> "call", route |-> req[r].route, at |-> req[r].at,
                  forced |-> req[r].forced, tries |-> req[r].tries,
                  tok |-> req[r].tok, err |-> req[r].err, last |-> "none"])
    /\ UNCHANGED <<br, gone, spent, up, sent>>

\* ... or the client left.
WakeGone(r) ==
    /\ req[r].pc = "sleep" /\ gone[r]
    /\ SetReq(r, Answering(req[r]))
    /\ UNCHANGED <<br, gone, spent, up, sent>>

\* failInvoke: the client gets the last error, or is gone.
Answer(r) ==
    /\ req[r].pc = "answer"
    /\ End(r)
    /\ UNCHANGED <<br, up>>
-----------------------------------------------------------------------------
(* The environment.                                                        *)

\* Between the targets and after the walk nothing reads the context.
ClientLeaves(r) ==
    /\ "leave" \in Faults
    /\ Working(r) /\ ~gone[r]
    /\ gone' = [gone EXCEPT ![r] = TRUE]
    /\ UNCHANGED <<br, req, spent, up, sent>>

BudgetEnds(r) ==
    /\ "budget" \in Faults
    /\ Working(r) /\ ~spent[r]
    /\ spent' = [spent EXCEPT ![r] = TRUE]
    /\ UNCHANGED <<br, req, gone, up, sent>>

Heals(c) ==
    /\ c \in Healing /\ ~up[c]
    /\ up' = [up EXCEPT ![c] = TRUE]
    /\ UNCHANGED <<br, req, gone, spent, sent>>

Tick ==
    /\ \E c \in Conns : br[c].openAge < OpenFor \/ br[c].probeAge < OpenFor
    /\ br' = [c \in Conns |-> Aged(br[c])]
    /\ UNCHANGED <<req, gone, spent, up, sent>>

\* Snapshot drops the breaker of a connection idle for breakerIdleTTL.  A
\* call that lasts longer than that hour without any other call to the
\* connection is left out.
DropIdle(c) ==
    /\ \A r \in Requests : Working(r) => Conn(r) # c
    /\ br[c] # NewBreaker
    /\ SetBr(c, NewBreaker)
    /\ UNCHANGED <<req, gone, spent, up, sent>>

Pick(r) == PickClosed(r) \/ PickProbe(r) \/ PickSkip(r) \/ PickForced(r) \/ PickNone(r)
Judge(r) == Backoff(r) \/ GiveUp(r)

Next ==
    \/ \E r \in Requests :
          \/ Pick(r) \/ Panic(r) \/ Judge(r) \/ Wake(r) \/ WakeGone(r)
          \/ Answer(r) \/ ClientLeaves(r) \/ BudgetEnds(r)
    \/ \E r \in Requests, route \in Routes : Start(r, route)
    \/ \E r \in Requests, o \in Outcomes : Return(r, o)
    \/ \E c \in Conns : Heals(c) \/ DropIdle(c)
    \/ Tick

Spec == Init /\ [][Next]_vars

\* Fairness: a goroutine that can run does; a call returns (the upstream
\* budget and STREAM_MAX_DURATION bound it); time passes.  Recovery also
\* needs traffic: every route keeps being used, and not all clients of a
\* healthy upstream leave before its answer.
Fairness ==
    /\ \A r \in Requests :
          /\ WF_vars(Pick(r)) /\ WF_vars(Judge(r)) /\ WF_vars(Wake(r)) /\ WF_vars(Answer(r))
          /\ WF_vars(\E o \in Outcomes : Return(r, o))
    /\ WF_vars(Tick)

HealthyAnswer(r, c) ==
    req[r].pc = "call" /\ Conn(r) = c /\ up[c] /\ ~gone[r] /\ Return(r, "ok")

Traffic ==
    \A r \in Requests :
        /\ \A route \in Routes : SF_vars(Start(r, route))
        /\ \A c \in Conns : SF_vars(HealthyAnswer(r, c))

FairSpec    == Spec /\ Fairness
TrafficSpec == Spec /\ Fairness /\ Traffic
-----------------------------------------------------------------------------
(* Properties.                                                             *)

\* A breaker is open exactly when its count of consecutive failures is at
\* the threshold: late reports of calls sent before it opened, forced calls
\* and probes never leave one without the other (report).
OpenAtThreshold == \A c \in Conns : br[c].open <=> br[c].failures >= Threshold

\* The half-open breaker has at most one probe in flight at a time, unless
\* the older one is overdue by a full open duration: a probe is not handed
\* out while the holder of the current token is calling (probeToken: "would
\* free the newer probe's slot").
InFlightProbe(r, c) ==
    req[r].pc = "call" /\ Conn(r) = c /\ req[r].tok # NoToken /\ req[r].tok = br[c].probeID
ProbesDoNotOverlap ==
    [][\A c \in Conns : br'[c].probeID # br[c].probeID /\ br'[c].probing =>
          \A r \in Requests : InFlightProbe(r, c) => br[c].probeAge >= OpenFor]_vars

\* A taken probe slot belongs to a call in flight: every way an attempt can
\* end, the neutral ones included, gives it back (outcomeOf, report).  A
\* panic is the exception; allow's timeout is there for it.
ProbeSlotHeld ==
    \A c \in Conns : br[c].probing => \E r \in Requests : InFlightProbe(r, c)

\* failInvoke always has an attempt's error to answer with: when all targets
\* are refused the primary is tried instead of failing fast (docs/providers.md,
\* "there is no immediate 503").
NeverFailsFast == \A r \in Requests : req[r].pc = "answer" => req[r].err

\* A target whose call failed after it was sent is not called again by the
\* same request, neither as a retry nor as the forced primary: the provider
\* may have processed it (docs/providers.md, "could be billed twice").
NoDoubleSend ==
    \A r \in Requests : req[r].pc = "call" => req[r].at \notin sent[r]

\* What docs/providers.md says of the retry loop: "a target that opens in the
\* middle of a request is not retried any more".  invoke reads isOpen before
\* the backoff sleep and not after it.
OpenIsNotRetried ==
    [][\A r \in Requests :
          req[r].pc = "sleep" /\ req'[r].pc = "call" => ~IsOpen(br[Conn(r)])]_vars

\* A breaker is open exactly at its threshold, and its probe slot is held by
\* a call in flight (report, allow).
BreakerInv == TypeOK /\ OpenAtThreshold /\ ProbeSlotHeld

\* A walk ends with an attempt to answer for, and repeats none that was sent
\* (invoke).
WalkInv == NeverFailsFast /\ NoDoubleSend

\* Every request that enters invoke is answered.
RequestEnds == \A r \in Requests : req[r].pc = "pick" ~> req[r].pc = "idle"

\* The breaker of an upstream that is healthy again closes, although other
\* targets could take the traffic and probes may be lost to panics.
Recovers == \A c \in Conns : up[c] ~> ~br[c].open
=============================================================================
