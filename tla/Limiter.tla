------------------------------- MODULE Limiter -------------------------------
(***************************************************************************)
(* The limits of a project and of the api keys and sessions under it: the  *)
(* check before a request (CheckSubject), the second token check once the  *)
(* retrieved context is known (CheckTokens) and the record after it        *)
(* (RecordSubject).  Requests of several replicas interleave at every SQL  *)
(* statement; the counters live in PostgreSQL.                             *)
(*                                                                         *)
(* One project, one key, one session.  The daily and the monthly budget    *)
(* are the same check over a longer window; one budget window stands for   *)
(* both and contains all the minutes of the model.  Caps are read with the *)
(* request's principal and do not change under it.                         *)
(***************************************************************************)
EXTENDS Integers, FiniteSets

CONSTANTS
    Slots,       \* requests in progress at the same time
    Plans,       \* deployments: caps, requests and faults, see plan
    MaxMinute,   \* bound on the minutes of the model
    MaxRequests  \* bound on the requests

Counted == {"project", "key"}       \* tiers with request counters
Tiers   == Counted \cup {"session"}

\* The tier sets a request may be charged to, the caps (0 is unlimited), the
\* estimates of the prompt and of the retrieved context, the tokens a finished
\* request may have used, of which one is the largest (an answer has a longest
\* length), and the faults: a statement fails ("db"), a release fails too
\* ("undo"), a client goes away ("leave").
ASSUME PlansAssumption ==
    \A p \in Plans :
        /\ \A u \in p.subjects : "project" \in u /\ u \subseteq Tiers
        /\ p.rpm \in [Counted -> Nat] /\ p.tpm \in [Counted -> Nat] /\ p.budget \in [Counted -> Nat]
        /\ p.sessionCap \in Nat
        /\ p.estimates \subseteq Nat /\ p.contexts \subseteq Nat /\ p.costs \subseteq Nat
        /\ \E n \in p.costs : \A k \in p.costs : k <= n
        /\ p.faults \subseteq {"db", "undo", "leave"}
ASSUME SlotsAssumption == IsFiniteSet(Slots)
ASSUME BoundsAssumption == MaxMinute \in Nat /\ MaxRequests \in Nat

VARIABLES
    plan,   \* the deployment; chosen once
    now,    \* the current minute
    reqs,   \* request counters of the minute rows
    toks,   \* token counters of the minute rows
    spent,  \* token counters of the budget rows and of the session
    call,   \* the request in every slot
    away,   \* its client has left: statements under its context fail
    made,   \* requests made so far
    adm,    \* history: requests admitted, by tier and minute of the reserved slot
    rec,    \* history: requests recorded, by tier and minute of the record
    lost    \* history: slots counted for no request, by tier and minute

limVars == <<plan, now, reqs, toks, spent, call, away, made, adm, rec, lost>>

Subjects   == plan.subjects
Rpm        == plan.rpm
Tpm        == plan.tpm
Budget     == plan.budget
SessionCap == plan.sessionCap
Estimates  == plan.estimates
Contexts   == plan.contexts
Costs      == plan.costs
Faults     == plan.faults

Minutes == 0..MaxMinute
-----------------------------------------------------------------------------
Reading == [reqs : Nat, toks : Nat, spent : Nat]

CallType == [pc   : {"idle", "read", "decide", "reserve", "undo", "run", "recheck", "record"},
         tier : Tiers,
         who  : SUBSET Tiers,
         min  : Minutes,
         est  : Nat,
         seen : [Tiers -> Reading],
         held : SUBSET Counted]

LimiterTypeOK ==
    /\ plan \in Plans
    /\ now \in Minutes
    /\ reqs \in [Counted -> [Minutes -> Nat]]
    /\ toks \in [Counted -> [Minutes -> Nat]]
    /\ spent \in [Tiers -> Nat]
    /\ call \in [Slots -> CallType]
    /\ away \in [Slots -> BOOLEAN]
    /\ made \in 0..MaxRequests
    /\ adm \in [Counted -> [Minutes -> Nat]]
    /\ rec \in [Counted -> [Minutes -> Nat]]
    /\ lost \in [Counted -> [Minutes -> Nat]]

Nothing == [reqs |-> 0, toks |-> 0, spent |-> 0]
NoCall == [pc |-> "idle", tier |-> "project", who |-> {}, min |-> 0, est |-> 0,
           seen |-> [t \in Tiers |-> Nothing], held |-> {}]

LimiterInit ==
    /\ plan \in Plans
    /\ now = 0
    /\ reqs = [t \in Counted |-> [m \in Minutes |-> 0]]
    /\ toks = [t \in Counted |-> [m \in Minutes |-> 0]]
    /\ spent = [t \in Tiers |-> 0]
    /\ call = [s \in Slots |-> NoCall]
    /\ away = [s \in Slots |-> FALSE]
    /\ made = 0
    /\ adm = [t \in Counted |-> [m \in Minutes |-> 0]]
    /\ rec = [t \in Counted |-> [m \in Minutes |-> 0]]
    /\ lost = [t \in Counted |-> [m \in Minutes |-> 0]]
-----------------------------------------------------------------------------
\* The tiers are read, reserved and recorded in this order.
NextTier(t) == IF t = "project" THEN "key" ELSE "session"

Moved(c, pc, tier) == [c EXCEPT !.pc = pc, !.tier = tier]

\* CheckTokens and RecordSubject take the windows of their own time.
MovedNow(c, pc) == [c EXCEPT !.pc = pc, !.tier = "project", !.min = now]

\* A statement under the request's context may succeed, and may fail.
Alive(s) == ~away[s]
StatementFails(s) == away[s] \/ "db" \in Faults

Done(s) ==
    /\ call' = [call EXCEPT ![s] = NoCall]
    /\ away' = [away EXCEPT ![s] = FALSE]
Proceed(s, c) ==
    /\ call' = [call EXCEPT ![s] = c]
    /\ UNCHANGED away

Begin(s, who, est) ==
    /\ call[s].pc = "idle" /\ made < MaxRequests
    /\ made' = made + 1
    /\ Proceed(s, [NoCall EXCEPT !.pc = "read", !.who = who, !.min = now, !.est = est])
    /\ UNCHANGED <<plan, now, reqs, toks, spent, adm, rec, lost>>

\* Whether CheckSubject reads the row of tier t.
ReadsRow(c, t) == t \in c.who /\ (t = "session" => SessionCap > 0)

Read(s) ==
    LET c == call[s]
        t == c.tier
        row == IF ~ReadsRow(c, t) THEN Nothing
               ELSE IF t = "session" THEN [Nothing EXCEPT !.spent = spent[t]]
               ELSE [reqs |-> reqs[t][c.min], toks |-> toks[t][c.min], spent |-> spent[t]]
        d == [c EXCEPT !.seen[t] = row]
    IN  /\ c.pc = "read"
        /\ ReadsRow(c, t) => Alive(s)
        /\ Proceed(s, IF t = "session" THEN Moved(d, "decide", "project") ELSE Moved(d, "read", NextTier(t)))
        /\ UNCHANGED <<plan, now, reqs, toks, spent, made, adm, rec, lost>>

\* A failed read answers 500; nothing has been reserved.
ReadFails(s) ==
    /\ call[s].pc = "read" /\ ReadsRow(call[s], call[s].tier) /\ StatementFails(s)
    /\ Done(s)
    /\ UNCHANGED <<plan, now, reqs, toks, spent, made, adm, rec, lost>>

OverBudget(c, t) ==
    LET cap == IF t = "session" THEN SessionCap ELSE Budget[t]
    IN  t \in c.who /\ cap > 0 /\ c.seen[t].spent >= cap

OverTokens(c, t, used, est) == t \in c.who /\ Tpm[t] > 0 /\ used + est > Tpm[t]

\* The loop over the caps; which one is reported does not matter here.
Denied(c) ==
    \/ \E t \in Tiers : OverBudget(c, t)
    \/ \E t \in Counted : OverTokens(c, t, c.seen[t].toks, c.est)

Decide(s) ==
    /\ call[s].pc = "decide"
    /\ IF Denied(call[s]) THEN Done(s) ELSE Proceed(s, Moved(call[s], "reserve", "project"))
    /\ UNCHANGED <<plan, now, reqs, toks, spent, made, adm, rec, lost>>

Capped(c, t) == t \in c.who /\ Rpm[t] > 0

\* Mutant of Fits: the limit is compared with the count read before.
Fits_FromReading(c, t, n) == c.seen[t].reqs < Rpm[t]

\* The counter returned by the reservation itself decides.
Fits(c, t, n) == n <= Rpm[t]

\* Mutant of Undoes: the overflowing key gives back only its own slot.
Undoes_KeyOnly(c, t) == {t}

\* The slots to release when tier t overflows.
Undoes(c, t) == c.held \cup {t}

\* ReserveMinuteRequest or ReserveKeyMinuteRequest: one atomic increment.
Reserve(s) ==
    LET c == call[s]
        t == c.tier
        n == reqs[t][c.min] + 1
    IN  /\ c.pc = "reserve" /\ t \in Counted
        /\ Capped(c, t) /\ Alive(s)
        /\ reqs' = [reqs EXCEPT ![t][c.min] = n]
        /\ Proceed(s, IF Fits(c, t, n)
                 THEN [Moved(c, "reserve", NextTier(t)) EXCEPT !.held = @ \cup {t}]
                 ELSE [Moved(c, "undo", t) EXCEPT !.held = Undoes(c, t)])
        /\ UNCHANGED <<plan, now, toks, spent, made, adm, rec, lost>>

Unlimited(s) ==
    /\ call[s].pc = "reserve" /\ call[s].tier \in Counted
    /\ ~Capped(call[s], call[s].tier)
    /\ Proceed(s, Moved(call[s], "reserve", NextTier(call[s].tier)))
    /\ UNCHANGED <<plan, now, reqs, toks, spent, made, adm, rec, lost>>

\* A failed reservation gives back the slots taken before it.
GivesBack(s) ==
    LET c == call[s] IN IF c.held = {} THEN Done(s) ELSE Proceed(s, Moved(c, "undo", c.tier))

ReserveFails(s) ==
    /\ call[s].pc = "reserve" /\ call[s].tier \in Counted
    /\ Capped(call[s], call[s].tier) /\ StatementFails(s)
    /\ GivesBack(s)
    /\ UNCHANGED <<plan, now, reqs, toks, spent, made, adm, rec, lost>>

\* The increment is committed and its answer lost: to CheckSubject it failed,
\* and the slot stays counted until the minute is over.
ReserveUnanswered(s) ==
    LET c == call[s]
        t == c.tier
    IN  /\ c.pc = "reserve" /\ t \in Counted
        /\ Capped(c, t) /\ StatementFails(s)
        /\ reqs' = [reqs EXCEPT ![t][c.min] = @ + 1]
        /\ lost' = [lost EXCEPT ![t][c.min] = @ + 1]
        /\ GivesBack(s)
        /\ UNCHANGED <<plan, now, toks, spent, made, adm, rec>>

\* rollback releases the project's slot, then the key's.
FirstHeld(c) == IF "project" \in c.held THEN "project" ELSE "key"
Less(n) == IF n > 0 THEN n - 1 ELSE 0

Undo(s) ==
    LET c == call[s]
        t == FirstHeld(c)
    IN  /\ c.pc = "undo" /\ Alive(s)
        /\ reqs' = [reqs EXCEPT ![t][c.min] = Less(@)]
        /\ IF c.held = {t} THEN Done(s) ELSE Proceed(s, [c EXCEPT !.held = @ \ {t}])
        /\ UNCHANGED <<plan, now, toks, spent, made, adm, rec, lost>>

ReleaseFails(s) == away[s] \/ "undo" \in Faults

\* The slots H of request c stay counted although nobody holds them.
Lose(c, H) ==
    lost' = [t \in Counted |-> [m \in Minutes |->
               lost[t][m] + (IF t \in H /\ m = c.min THEN 1 ELSE 0)]]

\* The release runs under the request's context as well; its failure ends
\* the check and whatever was held stays counted until the minute is over.
UndoFails(s) ==
    /\ call[s].pc = "undo" /\ ReleaseFails(s)
    /\ Lose(call[s], call[s].held)
    /\ Done(s)
    /\ UNCHANGED <<plan, now, reqs, toks, spent, made, adm, rec>>

\* ... and so does an error after the release is committed, but for its slot.
UndoUnanswered(s) ==
    LET c == call[s]
        t == FirstHeld(c)
    IN  /\ c.pc = "undo" /\ ReleaseFails(s)
        /\ reqs' = [reqs EXCEPT ![t][c.min] = Less(@)]
        /\ Lose(c, c.held \ {t})
        /\ Done(s)
        /\ UNCHANGED <<plan, now, toks, spent, made, adm, rec>>

Admit(s) ==
    LET c == call[s] IN
    /\ c.pc = "reserve" /\ c.tier = "session"
    /\ adm' = [t \in Counted |-> [m \in Minutes |->
                 adm[t][m] + (IF t \in c.held /\ m = c.min THEN 1 ELSE 0)]]
    /\ Proceed(s, [Moved(c, "run", "project") EXCEPT !.seen = NoCall.seen])
    /\ UNCHANGED <<plan, now, reqs, toks, spent, made, rec, lost>>

\* Retrieval has run; with a context block, and a limit, tokens are checked again.
Retrieve(s, ctx) ==
    LET c == call[s]
        again == ctx > 0 /\ \E t \in Counted : t \in c.who /\ Tpm[t] > 0
    IN  /\ c.pc = "run"
        /\ Proceed(s, IF again THEN [MovedNow(c, "recheck") EXCEPT !.est = @ + ctx] ELSE MovedNow(c, "record"))
        /\ UNCHANGED <<plan, now, reqs, toks, spent, made, adm, rec, lost>>

\* CheckTokens.  A denial or an error here still reaches record: the request
\* keeps its slot and is counted once.
Recheck(s) ==
    LET c == call[s]
        t == c.tier
    IN  /\ c.pc = "recheck" /\ Alive(s)
        /\ Proceed(s, IF OverTokens(c, t, toks[t][c.min], c.est) \/ t = "key"
                 THEN MovedNow(c, "record") ELSE Moved(c, "recheck", "key"))
        /\ UNCHANGED <<plan, now, reqs, toks, spent, made, adm, rec, lost>>

RecheckFails(s) ==
    /\ call[s].pc = "recheck" /\ StatementFails(s)
    /\ Proceed(s, MovedNow(call[s], "record"))
    /\ UNCHANGED <<plan, now, reqs, toks, spent, made, adm, rec, lost>>

\* Whether the record still has to count the request in tier t.
CountsNow(c, t) == IF t = "project" THEN t \notin c.held ELSE Rpm[t] = 0

\* Nothing is recorded after the session, nor after an upsert whose answer is lost.
LastRecord(t) == t = "session" \/ "db" \in Faults

\* RecordUsage, RecordKeyUsage, RecordSessionUsage: one upsert per tier, under
\* a context of its own.
RecordSubject(s, n) ==
    LET c == call[s]
        t == c.tier
        add == IF t \in Counted /\ CountsNow(c, t) THEN 1 ELSE 0
    IN  /\ c.pc = "record" /\ t \in c.who
        /\ spent' = [spent EXCEPT ![t] = @ + n]
        /\ IF t = "session"
           THEN UNCHANGED <<reqs, toks, rec>>
           ELSE /\ rec' = [rec EXCEPT ![t][c.min] = @ + 1]
                /\ reqs' = [reqs EXCEPT ![t][c.min] = @ + add]
                /\ toks' = [toks EXCEPT ![t][c.min] = @ + n]
        /\ \/ t # "session" /\ Proceed(s, [Moved(c, "record", NextTier(t)) EXCEPT !.est = n])
           \/ LastRecord(t) /\ Done(s)
        /\ UNCHANGED <<plan, now, made, adm, lost>>

\* Mutant of Spending: the lower tiers are charged for a part of the request.
Spending_Part(c) == IF c.tier = "project" THEN Costs ELSE 0..c.est

\* The tokens are known when the record starts; later tiers add the same.
Spending(c) == IF c.tier = "project" THEN Costs ELSE {c.est}

SkipTier(s) ==
    LET c == call[s] IN
    /\ c.pc = "record" /\ c.tier \notin c.who
    /\ IF c.tier = "session" THEN Done(s) ELSE Proceed(s, Moved(c, "record", NextTier(c.tier)))
    /\ UNCHANGED <<plan, now, reqs, toks, spent, made, adm, rec, lost>>

\* A failed upsert is logged and the later tiers are not recorded.
RecordFails(s) ==
    /\ call[s].pc = "record" /\ call[s].tier \in call[s].who /\ "db" \in Faults
    /\ Done(s)
    /\ UNCHANGED <<plan, now, reqs, toks, spent, made, adm, rec, lost>>

\* The client leaves; only statements before the record notice.
Leave(s) ==
    /\ "leave" \in Faults
    /\ call[s].pc \in {"read", "reserve", "undo", "run", "recheck"} /\ ~away[s]
    /\ away' = [away EXCEPT ![s] = TRUE]
    /\ UNCHANGED <<plan, now, reqs, toks, spent, call, made, adm, rec, lost>>

Tick ==
    /\ now < MaxMinute
    /\ now' = now + 1
    /\ UNCHANGED <<plan, reqs, toks, spent, call, away, made, adm, rec, lost>>

LimiterNext ==
    \/ \E s \in Slots, who \in Subjects, est \in Estimates : Begin(s, who, est)
    \/ \E s \in Slots :
          \/ Read(s) \/ ReadFails(s) \/ Decide(s)
          \/ Reserve(s) \/ Unlimited(s) \/ ReserveFails(s) \/ ReserveUnanswered(s)
          \/ Undo(s) \/ UndoFails(s) \/ UndoUnanswered(s) \/ Admit(s)
          \/ Recheck(s) \/ RecheckFails(s) \/ SkipTier(s) \/ RecordFails(s) \/ Leave(s)
          \/ \E ctx \in Contexts : Retrieve(s, ctx)
          \/ \E n \in Spending(call[s]) : RecordSubject(s, n)
    \/ Tick

LimiterSpec == LimiterInit /\ [][LimiterNext]_limVars
-----------------------------------------------------------------------------
(* Properties.                                                             *)

\* No more requests than the cap are admitted in a minute, on either tier,
\* however the checks of concurrent requests interleave (docs/users-and-limits.md,
\* "concurrent requests cannot exceed the limit").
NoOverAdmission ==
    \A t \in Counted, m \in Minutes : Rpm[t] > 0 => adm[t][m] <= Rpm[t]

\* The requests of minute m that hold a slot of tier t and are not admitted yet.
Pending(t, m) ==
    {s \in Slots : call[s].pc \in {"reserve", "undo"} /\ t \in call[s].held /\ call[s].min = m}

\* A capped counter is what was admitted, what is being decided and what failed
\* releases and unanswered reservations have left behind: a rejected or failed
\* check leaves no other phantom request, on either tier (CheckSubject, rollback).
SlotsAccounted ==
    \A t \in Counted, m \in Minutes :
        Rpm[t] > 0 => reqs[t][m] = adm[t][m] + Cardinality(Pending(t, m)) + lost[t][m]

\* A tier without a request cap counts every recorded request once, whatever
\* the other tier reserves (RecordSubject: "the two slots are reserved
\* independently").
CountedOnce ==
    \A t \in Counted, m \in Minutes : Rpm[t] = 0 => reqs[t][m] = rec[t][m]

\* A budget or session cap is overshot by no more than the requests that were
\* in progress together when it was reached (docs/users-and-limits.md).
MaxCost == CHOOSE n \in Costs : \A k \in Costs : k <= n
OvershootBounded ==
    /\ \A t \in Counted : Budget[t] > 0 => spent[t] < Budget[t] + Cardinality(Slots) * MaxCost
    /\ SessionCap > 0 => spent["session"] < SessionCap + Cardinality(Slots) * MaxCost

\* A record that fails half way leaves the project charged and a lower tier
\* not, never the other way round (the order of RecordSubject).
ProjectCoversTiers == \A t \in Tiers : spent[t] <= spent["project"]

\* Every counter is what its requests explain, on both tiers, whatever
\* statement failed and whoever left (CheckSubject, RecordSubject, rollback).
CountersExplained == LimiterTypeOK /\ SlotsAccounted /\ CountedOnce /\ ProjectCoversTiers

\* Request caps hold strictly, spending caps up to the requests in progress.
CapsHold == NoOverAdmission /\ OvershootBounded

\* The request of a slot once it is admitted and until its last tier is paid.
PaidTiers(c) ==
    IF c.pc # "record" \/ c.tier = "project" THEN {}
    ELSE c.who \cap (IF c.tier = "key" THEN {"project"} ELSE Counted)
OpenRequest(c) ==
    IF c.pc \in {"run", "recheck", "record"} /\ PaidTiers(c) # c.who
    THEN [who |-> c.who, paid |-> PaidTiers(c), cost |-> IF PaidTiers(c) = {} THEN 0 ELSE c.est]
    ELSE [who |-> {}, paid |-> {}, cost |-> 0]

Metering == INSTANCE Meter WITH
    caps <- Rpm,
    used <- adm,
    open <- [s \in Slots |-> OpenRequest(call[s])]

\* The limiter implements Meter: two counters reserved one after the other,
\* with releases, failures and departing clients in between, admit as one
\* atomic step over both tiers would, and what is recorded is paid once, by
\* the project first (CheckSubject, RecordSubject).
ImplementsMeter == Metering!MeterSpec
=============================================================================
