----------------------------- MODULE LoginLimiter -----------------------------
(***************************************************************************)
(* The throttle of the login and of the first-run setup.  Attempts are     *)
(* rows of login_attempts, so all replicas count the same failures; the    *)
(* check counts them before the password is compared and the outcome is    *)
(* recorded after it, in statements of their own.  A failure is recent     *)
(* during its first minute and counts for the lockout until LockoutWindow  *)
(* is over; rows leave the minute and the window one at a time.            *)
(***************************************************************************)
EXTENDS Integers, FiniteSets

CONSTANTS
    Typists,          \* login and setup requests in progress, over all replicas
    Names, Addresses, \* usernames and client addresses
    PerIP, PerUser, LockoutFailures, \* caps, 0 is no limit
    MaxFailures       \* bound on the failures of the model

ASSUME LoginCapsAssumption == {PerIP, PerUser, LockoutFailures, MaxFailures} \subseteq Nat

ASSUME TypistsAssumption == IsFiniteSet(Typists) /\ Addresses # {}

VARIABLES
    attempts, \* login_attempts: the failures of the lockout window
    typist,   \* the requests
    failed    \* failures recorded so far

llVars == <<attempts, typist, failed>>

\* Setup has no account: its failures are recorded under the empty name.
SetupName == ""
ASSUME NamesAssumption == SetupName \notin Names

Pairs == (Names \cup {SetupName}) \X Addresses
Failures == [id : 1..MaxFailures, who : Pairs, recent : BOOLEAN]
Away == [pc |-> "away", who |-> CHOOSE p \in Pairs : p[1] = SetupName]

LoginTypeOK ==
    /\ attempts \subseteq Failures
    /\ typist \in [Typists -> [pc : {"away", "pair", "minute", "address", "compare"}, who : Pairs]]
    /\ failed \in 0..MaxFailures

LoginInit == attempts = {} /\ typist = [t \in Typists |-> Away] /\ failed = 0
-----------------------------------------------------------------------------
\* SELECT COUNT(*): the minute by name and by address, the window by the pair.
FailuresOf(name) == Cardinality({f \in attempts : f.recent /\ f.who[1] = name})
FailuresFrom(ip) == Cardinality({f \in attempts : f.recent /\ f.who[2] = ip})
FailuresInWindow(p) == Cardinality({f \in attempts : f.who = p})

\* Mutant of Reached: one failure too many passes.
Reached_OffByOne(n, cap) == cap > 0 /\ n > cap

Reached(n, cap) == cap > 0 /\ n >= cap

Step(t, pc) == typist' = [typist EXCEPT ![t].pc = pc] /\ UNCHANGED <<attempts, failed>>
Leave(t) == typist' = [typist EXCEPT ![t] = Away] /\ UNCHANGED <<attempts, failed>>
Pass(t, refused, pc) == IF refused THEN Leave(t) ELSE Step(t, pc)

Login(t, p) ==
    /\ typist[t] = Away /\ p[1] # SetupName /\ failed < MaxFailures
    /\ typist' = [typist EXCEPT ![t] = [pc |-> "pair", who |-> p]]
    /\ UNCHANGED <<attempts, failed>>
Setup(t, p) ==
    /\ typist[t] = Away /\ p[1] = SetupName /\ failed < MaxFailures
    /\ typist' = [typist EXCEPT ![t] = [pc |-> "address", who |-> p]]
    /\ UNCHANGED <<attempts, failed>>

\* The lockout counts the pair, the two budgets of the minute the name from
\* every address and the address under every name.
CheckPair(t) ==
    typist[t].pc = "pair" /\ Pass(t, Reached(FailuresInWindow(typist[t].who), LockoutFailures), "minute")
CheckMinute(t) ==
    /\ typist[t].pc = "minute"
    /\ Pass(t, Reached(FailuresOf(typist[t].who[1]), PerUser) \/ Reached(FailuresFrom(typist[t].who[2]), PerIP), "compare")
CheckAddress(t) ==
    typist[t].pc = "address" /\ Pass(t, Reached(FailuresFrom(typist[t].who[2]), PerIP), "compare")

\* The comparison and the record.  A success does not reset the counters; the
\* record of an attempt may fail, which is only logged.
Succeed(t) == typist[t].pc = "compare" /\ Leave(t)
RecordFailure(t) ==
    /\ typist[t].pc = "compare" /\ failed < MaxFailures
    /\ failed' = failed + 1
    /\ attempts' = attempts \cup {[id |-> failed + 1, who |-> typist[t].who, recent |-> TRUE]}
    /\ typist' = [typist EXCEPT ![t] = Away]

\* Rows leave the minute, and the window.
Age(f) ==
    /\ f.recent
    /\ attempts' = (attempts \ {f}) \cup {[f EXCEPT !.recent = FALSE]}
    /\ UNCHANGED <<typist, failed>>
Expire(f) == ~f.recent /\ attempts' = attempts \ {f} /\ UNCHANGED <<typist, failed>>

LoginNext ==
    \/ \E t \in Typists :
         \/ \E p \in Pairs : Login(t, p) \/ Setup(t, p)
         \/ CheckPair(t) \/ CheckMinute(t) \/ CheckAddress(t) \/ Succeed(t) \/ RecordFailure(t)
    \/ \E f \in attempts : Age(f) \/ Expire(f)
-----------------------------------------------------------------------------
\* The check and the record are two statements, so requests that pass the
\* check together overshoot a cap, but never by more than the others in
\* progress, for the name, the address and the locked-out pair alike (Check,
\* Record).  Setup is not counted against any name.
Slack(cap) == cap - 1 + Cardinality(Typists)
AttemptsWithinCaps ==
    /\ PerUser > 0 => \A n \in Names : FailuresOf(n) <= Slack(PerUser)
    /\ PerIP > 0 => \A a \in Addresses : FailuresFrom(a) <= Slack(PerIP)
    /\ LockoutFailures > 0 => \A p \in Pairs : p[1] # SetupName => FailuresInWindow(p) <= Slack(LockoutFailures)

\* Every row keeps its type, and the caps hold up to the attempts in progress.
LoginInv == LoginTypeOK /\ AttemptsWithinCaps

LoginSpec == LoginInit /\ [][LoginNext]_llVars
===============================================================================
