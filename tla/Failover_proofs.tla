--------------------------- MODULE Failover_proofs ---------------------------
(***************************************************************************)
(* The breakers and the walks of Failover, for any number of connections,  *)
(* requests, targets of a route, retries and probe tokens, and for any     *)
(* threshold and open duration.                                            *)
(***************************************************************************)
EXTENDS Failover, TLAPS

USE RoutesAssumption, BreakerAssumption, TokenAssumption

\* A walk w and the positions s it has sent to: where it may be on its route,
\* which steps have an error to answer with, and how far the calls that may
\* have been processed lie behind.
WalkOK(w, s) ==
    /\ w.pc = "idle" => s = {}
    /\ w.pc # "idle" => w.route \in Routes /\ w.at >= 1
    /\ w.pc = "pick" => w.at <= Len(w.route) + 1 /\ (w.at <= Len(w.route) \/ w.err)
    /\ w.pc \in {"call", "judge", "sleep"} => w.at <= Len(w.route)
    /\ w.pc \in {"idle", "pick", "answer"} => w.tok = NoToken
    /\ w.pc \in {"judge", "sleep", "answer"} => w.err
    /\ ~w.err => s = {}
    /\ w.pc \in {"pick", "call", "sleep"} => \A i \in s : i < w.at
    /\ w.pc = "judge" => \A i \in s : i <= w.at /\ (w.last # "fault" => i < w.at)

WalksSound == \A r \in Requests : WalkOK(req[r], sent[r])

\* No two requests carry the same probe token.
TokensApart ==
    \A q, r \in Requests : q # r /\ req[q].tok # NoToken => req[q].tok # req[r].tok

\* Inside its window a breaker opened after it last handed out a probe.
LateOpening == \A c \in Conns : IsOpen(br[c]) => br[c].openAge <= br[c].probeAge

\* A request whose attempt runs or may be repeated, with the current token of
\* a breaker whose slot is free: only a failure freed it, so the breaker opened
\* after the probe.
MayCallAgain(r) ==
    \/ req[r].pc \in {"call", "sleep"}
    \/ req[r].pc = "judge" /\ req[r].last = "transient" /\ ~gone[r]
HoldsToken(r, c) == Working(r) /\ Conn(r) = c /\ req[r].tok # NoToken /\ req[r].tok = br[c].probeID
FreedProbes ==
    \A r \in Requests, c \in Conns :
        HoldsToken(r, c) /\ MayCallAgain(r) /\ ~br[c].probing /\ br[c].open => br[c].openAge <= br[c].probeAge

FailoverInv ==
    TypeOK /\ WalksSound /\ TokensApart /\ OpenAtThreshold /\ LateOpening /\ FreedProbes
-----------------------------------------------------------------------------
(* The operators of the model.                                             *)

\* Positions of a route are connections.
LEMMA RouteFacts ==
    ASSUME NEW route \in Routes
    PROVE  /\ route \in Seq(Conns) /\ Len(route) \in Nat /\ Len(route) >= 1
           /\ \A i \in Nat : 1 <= i /\ i <= Len(route) => route[i] \in Conns
<1>1. route \in Seq(Conns) /\ route # << >>
  OBVIOUS
<1>2. Len(route) \in Nat /\ DOMAIN route = 1..Len(route) /\ route \in [1..Len(route) -> Conns]
  BY <1>1
<1>3. Len(route) # 0
  BY <1>1
<1> QED
  BY <1>1, <1>2, <1>3

\* The writes on a breaker give a breaker.
LEMMA BreakerEdits ==
    ASSUME NEW b \in Breaker, NEW t \in Tokens \cup {NoToken}, NEW v
    PROVE  /\ NewBreaker \in Breaker /\ Probed(b, t) \in Breaker /\ Freed(b, t) \in Breaker
           /\ Succeeded(b) \in Breaker /\ Failed(b) \in Breaker /\ Reported(b, t, v) \in Breaker
           /\ Aged(b) \in Breaker
<1>1. NewBreaker \in Breaker
  BY DEF NewBreaker, Breaker
<1>2. \A x \in Breaker : Probed(x, t) \in Breaker /\ Freed(x, t) \in Breaker /\ Succeeded(x) \in Breaker
  <2> TAKE x \in Breaker
  <2>1. Probed(x, t) \in Breaker /\ Succeeded(x) \in Breaker
    BY DEF Probed, Succeeded, Breaker
  <2>2. (IF t # NoToken /\ t = x.probeID THEN FALSE ELSE x.probing) \in BOOLEAN
    BY DEF Breaker
  <2>3. Freed(x, t) \in Breaker
    BY <2>2 DEF Freed, Breaker
  <2> QED
    BY <2>1, <2>3
<1>3. \A x \in Breaker : Failed(x) \in Breaker
  BY DEF Failed, Breaker
<1>4. Aged(b) \in Breaker
  BY DEF Aged, Older, Breaker
<1>5. Reported(b, t, v) \in Breaker
  BY <1>2, <1>3 DEF Reported
<1> QED
  BY <1>1, <1>2, <1>3, <1>4, <1>5

\* Open and at the threshold go together through every write on a breaker.
AtThreshold(b) == b.open <=> b.failures >= Threshold
LEMMA ThresholdEdits ==
    ASSUME NEW b \in Breaker, NEW t, NEW v, AtThreshold(b)
    PROVE  /\ AtThreshold(NewBreaker) /\ AtThreshold(Probed(b, t)) /\ AtThreshold(Reported(b, t, v))
           /\ AtThreshold(Aged(b))
<1>1. AtThreshold(NewBreaker) /\ AtThreshold(Probed(b, t)) /\ AtThreshold(Aged(b))
  BY DEF AtThreshold, NewBreaker, Probed, Aged
<1> DEFINE f == Freed(b, t)
<1>2. f.open = b.open /\ f.failures = b.failures /\ b.open \in BOOLEAN /\ b.failures \in 0..Threshold
  BY DEF Freed, Breaker
<1> HIDE DEF f
<1>3. AtThreshold(f) /\ AtThreshold(Succeeded(f))
  BY <1>2 DEF AtThreshold, Succeeded
<1>4. AtThreshold(Failed(f))
  <2> DEFINE n == IF f.failures < Threshold THEN f.failures + 1 ELSE Threshold
  <2>1. Failed(f).open = (f.open \/ (~f.open /\ n >= Threshold)) /\ Failed(f).failures = n
    BY DEF Failed
  <2>2. n \in 0..Threshold /\ (f.open => n >= Threshold)
    BY <1>2, <1>3 DEF AtThreshold
  <2> HIDE DEF n
  <2> QED
    BY <1>2, <2>1, <2>2 DEF AtThreshold
<1> QED
  BY <1>1, <1>3, <1>4 DEF Reported, f

\* What a report leaves: the probe's identity and age, the slot unless it is
\* the probe's own, and a window that is older, just begun or closed.
LEMMA ReportFacts ==
    ASSUME NEW b \in Breaker, NEW t, NEW v, NEW n, n = Reported(b, t, v)
    PROVE  /\ n.probeID = b.probeID /\ n.probeAge = b.probeAge
           /\ n.probing => b.probing
           /\ t = NoToken \/ t # b.probeID => n.probing = b.probing
           /\ t # NoToken /\ t = b.probeID => ~n.probing
           /\ n.open => \/ n.openAge = 0
                        \/ b.open /\ n.openAge = b.openAge /\ (v = "failure" => IsOpen(b))
<1> DEFINE f == Freed(b, t)
<1>1. /\ f.probeID = b.probeID /\ f.probeAge = b.probeAge /\ f.open = b.open /\ f.openAge = b.openAge
      /\ f.probing \in BOOLEAN /\ (f.probing => b.probing)
      /\ t = NoToken \/ t # b.probeID => f.probing = b.probing
      /\ t # NoToken /\ t = b.probeID => ~f.probing
      /\ f.openAge \in 0..OpenFor /\ f.open \in BOOLEAN
  BY DEF Freed, Breaker
<1> HIDE DEF f
<1>2. CASE v = "success"
  <2>1. n = Succeeded(f)
    BY <1>2 DEF Reported, f
  <2> QED
    BY <2>1, <1>1 DEF Succeeded
<1>3. CASE v = "failure"
  <2>1. n = Failed(f)
    BY <1>3 DEF Reported, f
  <2>2. n.probeID = f.probeID /\ n.probeAge = f.probeAge /\ n.probing = f.probing
    BY <2>1 DEF Failed
  <2>3. n.open => n.openAge = 0 \/ (b.open /\ n.openAge = b.openAge /\ IsOpen(b))
    <3>1. CASE f.open /\ f.openAge < OpenFor
      BY <2>1, <1>1, <3>1 DEF Failed, IsOpen, IsHalfOpen
    <3>2. CASE f.open /\ f.openAge >= OpenFor
      BY <2>1, <1>1, <3>2 DEF Failed, IsOpen, IsHalfOpen
    <3>3. CASE ~f.open
      BY <2>1, <1>1, <3>3 DEF Failed, IsOpen, IsHalfOpen
    <3> QED
      BY <1>1, <3>1, <3>2, <3>3
  <2> QED
    BY <2>2, <2>3, <1>1
<1>4. CASE v \notin {"success", "failure"}
  <2>1. n = f
    BY <1>4 DEF Reported, f
  <2> QED
    BY <2>1, <1>1, <1>4
<1> QED
  BY <1>2, <1>3, <1>4

\* A tick keeps the order of two clocks.
LEMMA OlderFacts ==
    ASSUME NEW a \in 0..OpenFor, NEW b \in 0..OpenFor
    PROVE  (a <= b => Older(a) <= Older(b)) /\ (Older(a) < OpenFor => a < OpenFor)
BY DEF Older

\* The token handed out is a token, and nobody carries it.
LEMMA NextTokenFacts ==
    ASSUME FreshTokens # {}
    PROVE  NextToken \in Tokens /\ NextToken # NoToken /\ \A r \in Requests : req[r].tok # NextToken
<1>1. NextToken \in FreshTokens
  BY DEF NextToken
<1> QED
  BY <1>1 DEF FreshTokens
-----------------------------------------------------------------------------
(* What a step of a request does to its walk.                              *)

\* The connection of a request that is at a target.
LEMMA ConnType ==
    ASSUME TypeOK, WalksSound, NEW r \in Requests,
           Working(r) \/ (req[r].pc = "pick" /\ req[r].at <= Len(req[r].route))
    PROVE  Conn(r) \in Conns
<1>1. req[r] \in Walk /\ WalkOK(req[r], sent[r])
  BY DEF TypeOK, WalksSound
<1>2. req[r].route \in Routes /\ req[r].at \in Nat /\ 1 <= req[r].at /\ req[r].at <= Len(req[r].route)
  BY <1>1 DEF WalkOK, Walk, Working
<1> QED
  BY <1>2, RouteFacts DEF Conn

\* Replacing the walk of one request leaves the others alone.
LEMMA SetReqFacts ==
    ASSUME TypeOK, NEW r \in Requests, NEW w \in Walk, SetReq(r, w)
    PROVE  req' \in [Requests -> Walk] /\ req'[r] = w /\ \A q \in Requests \ {r} : req'[q] = req[q]
BY DEF TypeOK, SetReq

Kept(q) == req'[q] = req[q] /\ sent'[q] = sent[q] /\ gone'[q] = gone[q]

\* Request r is where its walk may be; with a token, it is still in the same
\* call and its attempt is no more repeatable than before.
GoesOn(r) ==
    /\ WalkOK(req'[r], sent'[r])
    /\ req'[r].tok # NoToken =>
          /\ Working(r) /\ req'[r].route = req[r].route /\ req'[r].at = req[r].at /\ req'[r].tok = req[r].tok
          /\ MayCallAgain(r)' => MayCallAgain(r)

OnlyWalk(r) == /\ req' \in [Requests -> Walk] /\ gone' \in [Requests -> BOOLEAN] /\ spent' \in [Requests -> BOOLEAN]
               /\ sent' \in [Requests -> SUBSET Nat] /\ up' = up
               /\ GoesOn(r) /\ \A q \in Requests \ {r} : Kept(q)

\* The end of a request empties its slot.
LEMMA EndFacts ==
    ASSUME TypeOK, NEW r \in Requests, End(r), up' = up
    PROVE  OnlyWalk(r)
<1>1. NoWalk \in Walk /\ NoWalk.pc = "idle" /\ NoWalk.tok = NoToken /\ ~NoWalk.err
  BY DEF NoWalk, Walk
<1>2. req' \in [Requests -> Walk] /\ req'[r] = NoWalk /\ \A q \in Requests \ {r} : req'[q] = req[q]
  BY <1>1, SetReqFacts DEF End
<1>3. /\ gone' \in [Requests -> BOOLEAN] /\ spent' \in [Requests -> BOOLEAN] /\ sent' \in [Requests -> SUBSET Nat]
      /\ sent'[r] = {} /\ \A q \in Requests \ {r} : gone'[q] = gone[q] /\ sent'[q] = sent[q]
  BY DEF End, TypeOK
<1>4. GoesOn(r)
  BY <1>1, <1>2, <1>3 DEF GoesOn, WalkOK
<1> QED
  BY <1>2, <1>3, <1>4 DEF OnlyWalk, Kept

\* A step that only moves the walk.
LEMMA MoveFacts ==
    ASSUME TypeOK, NEW r \in Requests, NEW w \in Walk, SetReq(r, w), UNCHANGED <<gone, spent, up, sent>>,
           WalkOK(w, sent[r]),
           w.tok # NoToken => /\ Working(r) /\ w.route = req[r].route /\ w.at = req[r].at /\ w.tok = req[r].tok
                              /\ w.pc \in {"call", "sleep"} => MayCallAgain(r)
                              /\ w.pc # "judge"
    PROVE  OnlyWalk(r)
<1>1. req' \in [Requests -> Walk] /\ req'[r] = w /\ \A q \in Requests \ {r} : req'[q] = req[q]
  BY SetReqFacts
<1>2. GoesOn(r)
  BY <1>1 DEF GoesOn, MayCallAgain
<1> QED
  BY <1>1, <1>2 DEF OnlyWalk, Kept, TypeOK

\* The steps of a walk that touch no breaker.
LEMMA WalkSteps ==
    ASSUME TypeOK, WalksSound, NEW r \in Requests,
           \/ PickClosed(r) \/ PickSkip(r) \/ PickForced(r) \/ PickNone(r) \/ \E route \in Routes : Start(r, route)
           \/ Judge(r) \/ Wake(r) \/ WakeGone(r) \/ Answer(r) \/ Panic(r) \/ ClientLeaves(r) \/ BudgetEnds(r)
    PROVE  br' = br /\ OnlyWalk(r)
<1> DEFINE w == req[r]
<1>1. w \in Walk /\ WalkOK(w, sent[r]) /\ sent[r] \in SUBSET Nat
  BY DEF TypeOK, WalksSound
<1>2. /\ w.route \in Routes \cup {<< >>} /\ w.at \in Nat /\ w.err \in BOOLEAN /\ w.tries \in 0..MaxRetries
      /\ w.tok \in Tokens \cup {NoToken} /\ w.forced \in BOOLEAN
      /\ w.pc # "idle" => w.route \in Routes /\ w.at >= 1 /\ Len(w.route) \in Nat /\ Len(w.route) >= 1
  BY <1>1, RouteFacts DEF Walk, WalkOK
<1>3. CASE PickClosed(r)
  <2>1. Calling(w, w.at, NoToken, FALSE) \in Walk
    BY <1>2 DEF Calling, Walk
  <2>2. WalkOK(Calling(w, w.at, NoToken, FALSE), sent[r])
    BY <1>1, <1>3 DEF PickClosed, Calling, WalkOK
  <2> QED
    BY <1>3, <2>1, <2>2, MoveFacts DEF PickClosed, Calling
<1>4. CASE PickSkip(r)
  <2>1. Picking(w, w.at + 1) \in Walk
    BY <1>2 DEF Picking, Walk
  <2>2. WalkOK(Picking(w, w.at + 1), sent[r])
    <3>1. w.pc = "pick" /\ w.at <= Len(w.route) /\ (w.at # Len(w.route) \/ w.err)
      BY <1>4 DEF PickSkip, LastResort
    <3> QED
      BY <1>1, <1>2, <3>1 DEF Picking, WalkOK
  <2> QED
    BY <1>4, <2>1, <2>2, MoveFacts DEF PickSkip, Picking
<1>5. CASE PickForced(r)
  <2>1. Calling(w, 1, NoToken, TRUE) \in Walk
    BY <1>2 DEF Calling, Walk
  <2>2. WalkOK(Calling(w, 1, NoToken, TRUE), sent[r])
    <3>1. w.pc = "pick" /\ ~w.err
      BY <1>5 DEF PickForced, LastResort
    <3> QED
      BY <1>1, <1>2, <3>1 DEF Calling, WalkOK
  <2> QED
    BY <1>5, <2>1, <2>2, MoveFacts DEF PickForced, Calling
<1>6. ASSUME SetReq(r, Answering(w)), UNCHANGED <<br, gone, spent, up, sent>>,
             w.pc # "idle", w.err
      PROVE  br' = br /\ OnlyWalk(r)
  <2>1. Answering(w) \in Walk
    BY <1>2 DEF Answering, Walk
  <2>2. WalkOK(Answering(w), sent[r])
    BY <1>1, <1>2, <1>6 DEF Answering, WalkOK
  <2> QED
    BY <1>6, <2>1, <2>2, MoveFacts DEF Answering
<1>7. CASE PickNone(r)
  <2>1. w.pc = "pick" /\ w.err
    BY <1>1, <1>2, <1>7 DEF PickNone, WalkOK
  <2> QED
    BY <1>6, <1>7, <2>1 DEF PickNone
<1>8. ASSUME NEW route \in Routes, Start(r, route) PROVE br' = br /\ OnlyWalk(r)
  <2> DEFINE v == [pc |-> "pick", route |-> route, at |-> 1, forced |-> FALSE,
                   tries |-> 0, tok |-> NoToken, err |-> FALSE, last |-> "none"]
  <2>1. v \in Walk
    BY DEF Walk
  <2>2. Len(route) \in Nat /\ Len(route) >= 1 /\ sent[r] = {}
    BY <1>1, <1>8, RouteFacts DEF Start, WalkOK
  <2>3. WalkOK(v, sent[r])
    BY <2>2 DEF WalkOK
  <2> QED
    BY <1>8, <2>1, <2>3, MoveFacts DEF Start
<1>9. CASE Backoff(r)
  <2> DEFINE v == [pc |-> "sleep", route |-> w.route, at |-> w.at, forced |-> w.forced, tries |-> w.tries + 1,
                   tok |-> w.tok, err |-> w.err, last |-> "none"]
  <2>1. w.pc = "judge" /\ w.last = "transient" /\ ~gone[r] /\ w.tries < MaxRetries
    BY <1>9 DEF Backoff, MayRetry, CanRetry
  <2>2. v \in Walk
    BY <1>2, <2>1 DEF Walk
  <2>3. WalkOK(v, sent[r])
    BY <1>1, <1>2, <2>1 DEF WalkOK
  <2> QED
    BY <1>9, <2>1, <2>2, <2>3, MoveFacts DEF Backoff, Working, MayCallAgain
<1>10. CASE GiveUp(r)
  <2>1. w.pc = "judge" /\ w.err
    BY <1>1, <1>10 DEF GiveUp, WalkOK
  <2>2. CASE MayMove(r)
    <3>1. Picking(w, w.at + 1) \in Walk
      BY <1>2 DEF Picking, Walk
    <3>2. w.at < Len(w.route)
      BY <2>2 DEF MayMove
    <3>3. WalkOK(Picking(w, w.at + 1), sent[r])
      BY <1>1, <1>2, <2>1, <3>2 DEF Picking, WalkOK
    <3> QED
      BY <1>10, <2>2, <3>1, <3>3, MoveFacts DEF GiveUp, Leave, Picking
  <2>3. CASE ~MayMove(r)
    BY <1>6, <1>10, <2>1, <2>3 DEF GiveUp, Leave
  <2> QED
    BY <2>2, <2>3
<1>11. CASE Wake(r)
  <2> DEFINE v == [pc |-> "call", route |-> w.route, at |-> w.at, forced |-> w.forced, tries |-> w.tries,
                   tok |-> w.tok, err |-> w.err, last |-> "none"]
  <2>1. w.pc = "sleep"
    BY <1>11 DEF Wake
  <2>2. v \in Walk
    BY <1>2 DEF Walk
  <2>3. WalkOK(v, sent[r])
    BY <1>1, <1>2, <2>1 DEF WalkOK
  <2> QED
    BY <1>11, <2>1, <2>2, <2>3, MoveFacts DEF Wake, Working, MayCallAgain
<1>12. CASE WakeGone(r)
  <2>1. w.pc = "sleep" /\ w.err
    BY <1>1, <1>12 DEF WakeGone, WalkOK
  <2> QED
    BY <1>6, <1>12, <2>1 DEF WakeGone
<1>13. CASE Answer(r) \/ Panic(r)
  BY <1>13, EndFacts DEF Answer, Panic
<1>14. CASE ClientLeaves(r) \/ BudgetEnds(r)
  <2>1. br' = br /\ req' = req /\ sent' = sent /\ up' = up /\ Working(r)
    BY <1>14 DEF ClientLeaves, BudgetEnds
  <2>2. gone' \in [Requests -> BOOLEAN] /\ spent' \in [Requests -> BOOLEAN]
        /\ (gone[r] => gone'[r]) /\ \A q \in Requests \ {r} : gone'[q] = gone[q]
    BY <1>14 DEF ClientLeaves, BudgetEnds, TypeOK
  <2>3. GoesOn(r)
    BY <1>1, <2>1, <2>2 DEF GoesOn, MayCallAgain
  <2> QED
    BY <2>1, <2>2, <2>3 DEF OnlyWalk, Kept, TypeOK
<1> QED
  BY <1>3, <1>4, <1>5, <1>7, <1>8, <1>9, <1>10, <1>11, <1>12, <1>13, <1>14 DEF Judge

\* The return of an attempt, as far as the walk is concerned.
LEMMA ReturnWalk ==
    ASSUME TypeOK, WalksSound, NEW r \in Requests, NEW o \in Outcomes, Return(r, o)
    PROVE  /\ OnlyWalk(r) /\ req[r].pc = "call" /\ req'[r].pc # "call"
           /\ MayCallAgain(r)' => o = "transient" /\ ~gone[r]
<1> DEFINE w == req[r]
<1>1. w \in Walk /\ WalkOK(w, sent[r]) /\ sent[r] \in SUBSET Nat /\ w.pc = "call"
  BY DEF TypeOK, WalksSound, Return
<1>2. /\ w.route \in Routes /\ w.at \in Nat /\ w.at >= 1 /\ w.tries \in 0..MaxRetries
      /\ w.tok \in Tokens \cup {NoToken} /\ w.forced \in BOOLEAN /\ w.at <= Len(w.route)
      /\ \A i \in sent[r] : i < w.at
  BY <1>1 DEF Walk, WalkOK
<1>3. CASE Settled(o)
  <2>1. OnlyWalk(r) /\ req'[r] = NoWalk
    <3>1. End(r) /\ up' = up
      BY <1>3 DEF Return
    <3>2. req'[r] = NoWalk
      BY <3>1 DEF End, SetReq, TypeOK
    <3> QED
      BY <3>1, <3>2, EndFacts
  <2> QED
    BY <1>1, <2>1 DEF NoWalk, MayCallAgain
<1>4. CASE ~Settled(o)
  <2> DEFINE v == [pc |-> "judge", route |-> w.route, at |-> w.at, forced |-> w.forced, tries |-> w.tries,
                   tok |-> w.tok, err |-> TRUE, last |-> o]
  <2>1. v \in Walk
    BY <1>2 DEF Walk
  <2>2. /\ SetReq(r, v) /\ gone' = gone /\ spent' = spent /\ up' = up
        /\ sent' = [sent EXCEPT ![r] = IF o = "fault" THEN @ \cup {w.at} ELSE @]
    BY <1>4 DEF Return
  <2>3. req' \in [Requests -> Walk] /\ req'[r] = v /\ \A q \in Requests \ {r} : req'[q] = req[q]
    BY <2>1, <2>2, SetReqFacts
  <2>4. /\ sent' \in [Requests -> SUBSET Nat] /\ \A q \in Requests \ {r} : sent'[q] = sent[q]
        /\ sent'[r] = IF o = "fault" THEN sent[r] \cup {w.at} ELSE sent[r]
    BY <1>2, <2>2 DEF TypeOK
  <2>5. WalkOK(v, sent'[r])
    BY <1>1, <1>2, <2>4 DEF WalkOK
  <2>6. GoesOn(r)
    BY <1>1, <2>3, <2>5 DEF GoesOn, Working, MayCallAgain
  <2>7. OnlyWalk(r)
    BY <2>2, <2>3, <2>4, <2>6 DEF OnlyWalk, Kept, TypeOK
  <2> QED
    BY <1>1, <2>2, <2>3, <2>7 DEF MayCallAgain
<1> QED
  BY <1>3, <1>4

\* The half-open probe begins: its token is nobody else's.
LEMMA ProbeWalk ==
    ASSUME TypeOK, WalksSound, NEW r \in Requests, PickProbe(r)
    PROVE  /\ req' \in [Requests -> Walk] /\ req'[r].tok = NextToken /\ req'[r].pc = "call"
           /\ req'[r].route = req[r].route /\ req'[r].at = req[r].at
           /\ WalkOK(req'[r], sent'[r]) /\ \A q \in Requests \ {r} : Kept(q)
           /\ UNCHANGED <<gone, spent, up, sent>> /\ req[r].pc = "pick" /\ Conn(r) \in Conns
           /\ br' = [br EXCEPT ![Conn(r)] = Probed(br[Conn(r)], NextToken)]
           /\ IsHalfOpen(br[Conn(r)]) /\ SlotFree(br[Conn(r)])
           /\ NextToken \in Tokens /\ NextToken # NoToken /\ \A q \in Requests : req[q].tok # NextToken
<1> DEFINE w == req[r]
           v == Calling(w, w.at, NextToken, FALSE)
<1>1. w \in Walk /\ WalkOK(w, sent[r]) /\ w.pc = "pick" /\ w.at <= Len(w.route)
  BY DEF TypeOK, WalksSound, PickProbe
<1>2. NextToken \in Tokens /\ NextToken # NoToken /\ \A q \in Requests : req[q].tok # NextToken
  BY NextTokenFacts DEF PickProbe
<1>3. v \in Walk /\ WalkOK(v, sent[r])
  <2>1. v \in Walk
    BY <1>1, <1>2 DEF Calling, Walk
  <2>2. WalkOK(v, sent[r])
    BY <1>1 DEF Calling, WalkOK
  <2> QED
    BY <2>1, <2>2
<1>4. SetReq(r, v) /\ UNCHANGED <<gone, spent, up, sent>>
  BY DEF PickProbe
<1>5. req' \in [Requests -> Walk] /\ req'[r] = v /\ \A q \in Requests \ {r} : req'[q] = req[q]
  BY <1>3, <1>4, SetReqFacts
<1>6. Conn(r) \in Conns
  BY <1>1, ConnType
<1>7. \A q \in Requests \ {r} : Kept(q)
  BY <1>4, <1>5 DEF Kept
<1>8. v.tok = NextToken /\ v.pc = "call" /\ v.route = w.route /\ v.at = w.at
  BY DEF Calling
<1> QED
  BY <1>1, <1>2, <1>3, <1>4, <1>5, <1>6, <1>7, <1>8 DEF PickProbe, SetBr
-----------------------------------------------------------------------------
(* The invariant.                                                          *)

\* At rest.
LEMMA FailoverInit == Init => FailoverInv
<1> SUFFICES ASSUME Init PROVE FailoverInv
  OBVIOUS
<1>1. NewBreaker \in Breaker /\ ~NewBreaker.open /\ NewBreaker.failures = 0
  BY DEF NewBreaker, Breaker
<1>2. NoWalk \in Walk /\ NoWalk.tok = NoToken /\ NoWalk.pc = "idle"
  BY DEF NoWalk, Walk
<1>3. TypeOK
  BY <1>1, <1>2 DEF Init, TypeOK
<1>4. WalksSound
  <2> SUFFICES ASSUME NEW r \in Requests PROVE WalkOK(NoWalk, {})
    BY DEF Init, WalksSound
  <2> QED
    BY DEF NoWalk, WalkOK
<1>5. TokensApart /\ OpenAtThreshold /\ LateOpening /\ FreedProbes
  BY <1>1, <1>2 DEF Init, TokensApart, OpenAtThreshold, LateOpening, FreedProbes, HoldsToken, Working, IsOpen
<1> QED
  BY <1>3, <1>4, <1>5 DEF FailoverInv

\* A step that leaves the breakers alone.
LEMMA WalkKeeps ==
    ASSUME FailoverInv, NEW r \in Requests, br' = br, OnlyWalk(r)
    PROVE  FailoverInv'
<1> USE DEF FailoverInv
<1>1. TypeOK' /\ WalksSound'
  BY DEF TypeOK, WalksSound, OnlyWalk, GoesOn, Kept
<1>2. TokensApart'
  BY DEF TokensApart, OnlyWalk, GoesOn, Kept
<1>3. OpenAtThreshold' /\ LateOpening'
  BY DEF OpenAtThreshold, LateOpening
<1>4. FreedProbes'
  <2> SUFFICES ASSUME NEW q \in Requests, NEW c \in Conns, HoldsToken(q, c)', MayCallAgain(q)'
               PROVE  HoldsToken(q, c) /\ MayCallAgain(q)
    BY DEF FreedProbes
  <2>1. CASE q = r
    BY <2>1 DEF OnlyWalk, GoesOn, HoldsToken, Conn
  <2>2. CASE q # r
    BY <2>2 DEF OnlyWalk, Kept, HoldsToken, Conn, Working, MayCallAgain
  <2> QED
    BY <2>1, <2>2
<1> QED
  BY <1>1, <1>2, <1>3, <1>4

\* A probe begins.
LEMMA ProbeKeeps ==
    ASSUME FailoverInv, NEW r \in Requests, PickProbe(r)
    PROVE  FailoverInv'
<1> USE DEF FailoverInv
<1> DEFINE d == Conn(r)
           b == br[d]
<1>1. /\ req' \in [Requests -> Walk] /\ req'[r].tok = NextToken /\ req'[r].pc = "call"
      /\ req'[r].route = req[r].route /\ req'[r].at = req[r].at
      /\ WalkOK(req'[r], sent'[r]) /\ \A q \in Requests \ {r} : Kept(q)
      /\ UNCHANGED <<gone, spent, up, sent>> /\ d \in Conns
      /\ br' = [br EXCEPT ![d] = Probed(b, NextToken)]
      /\ IsHalfOpen(b) /\ NextToken \in Tokens /\ \A q \in Requests : req[q].tok # NextToken
  BY ProbeWalk
<1>2. b \in Breaker /\ Probed(b, NextToken) \in Breaker
  BY <1>1, BreakerEdits DEF TypeOK
<1>3. br'[d] = Probed(b, NextToken) /\ \A c \in Conns \ {d} : br'[c] = br[c]
  BY <1>1 DEF TypeOK
<1>4. TypeOK'
  BY <1>1, <1>2 DEF TypeOK
<1>5. WalksSound' /\ TokensApart'
  BY <1>1 DEF WalksSound, TokensApart, Kept
<1>6. OpenAtThreshold'
  BY <1>1, <1>3 DEF OpenAtThreshold, Probed
<1>7. LateOpening'
  BY <1>1, <1>2, <1>3 DEF LateOpening, Probed, IsOpen, IsHalfOpen, Breaker
<1>8. FreedProbes'
  <2> SUFFICES ASSUME NEW q \in Requests, NEW c \in Conns, HoldsToken(q, c)', MayCallAgain(q)',
                      ~br'[c].probing, br'[c].open
               PROVE  br'[c].openAge <= br'[c].probeAge
    BY DEF FreedProbes
  <2>1. c # d
    BY <1>3 DEF Probed
  <2>2. br'[c] = br[c]
    BY <1>3, <2>1
  <2>3. q # r
    BY <1>1, <2>1 DEF HoldsToken, Conn
  <2>4. HoldsToken(q, c) /\ MayCallAgain(q)
    BY <1>1, <2>2, <2>3 DEF Kept, HoldsToken, Conn, Working, MayCallAgain
  <2> QED
    BY <2>2, <2>4 DEF FreedProbes
<1> QED
  BY <1>4, <1>5, <1>6, <1>7, <1>8

\* An attempt is reported.
LEMMA ReturnKeeps ==
    ASSUME FailoverInv, NEW r \in Requests, NEW o \in Outcomes, Return(r, o)
    PROVE  FailoverInv'
<1> USE DEF FailoverInv
<1> DEFINE d == Conn(r)
           b == br[d]
           t == req[r].tok
           v == Verdict(o, gone[r])
           n == Reported(b, t, v)
<1>1. OnlyWalk(r) /\ req[r].pc = "call" /\ (MayCallAgain(r)' => o = "transient" /\ ~gone[r])
  BY ReturnWalk
<1>2. d \in Conns /\ b \in Breaker /\ t \in Tokens \cup {NoToken}
  BY <1>1, ConnType DEF Working, TypeOK, Walk
<1>3. n \in Breaker
  BY <1>2, BreakerEdits
<1>4. br' = [br EXCEPT ![d] = n]
  BY DEF Return, SetBr
<1>5. br'[d] = n /\ \A c \in Conns \ {d} : br'[c] = br[c]
  BY <1>2, <1>4 DEF TypeOK
<1>6. /\ n.probeID = b.probeID /\ n.probeAge = b.probeAge
      /\ (n.probing => b.probing)
      /\ (t = NoToken \/ t # b.probeID => n.probing = b.probing)
      /\ (t # NoToken /\ t = b.probeID => ~n.probing)
      /\ (n.open => \/ n.openAge = 0
                    \/ b.open /\ n.openAge = b.openAge /\ (v = "failure" => IsOpen(b)))
  BY <1>2, ReportFacts
<1>7. AtThreshold(b) /\ AtThreshold(n)
  <2>1. AtThreshold(b)
    BY <1>2 DEF AtThreshold, OpenAtThreshold
  <2> QED
    BY <1>2, <2>1, ThresholdEdits
<1> HIDE DEF n
<1>8. TypeOK' /\ WalksSound'
  BY <1>1, <1>3, <1>4 DEF TypeOK, WalksSound, OnlyWalk, GoesOn, Kept
<1>9. TokensApart'
  BY <1>1 DEF TokensApart, OnlyWalk, GoesOn, Kept
<1>10. OpenAtThreshold'
  BY <1>5, <1>7 DEF OpenAtThreshold, AtThreshold
<1>11. n.probeAge \in 0..OpenFor /\ n.openAge \in 0..OpenFor /\ b.openAge \in 0..OpenFor
  BY <1>2, <1>3 DEF Breaker
<1>12. LateOpening'
  <2> SUFFICES ASSUME NEW c \in Conns, IsOpen(br'[c]) PROVE br'[c].openAge <= br'[c].probeAge
    BY DEF LateOpening
  <2>1. CASE c # d
    BY <1>5, <2>1 DEF LateOpening
  <2>2. CASE c = d
    <3>1. n.openAge = 0 \/ (IsOpen(b) /\ n.openAge = b.openAge)
      BY <1>5, <1>6, <2>2 DEF IsOpen
    <3> QED
      BY <1>2, <1>5, <1>6, <1>11, <2>2, <3>1 DEF LateOpening
  <2> QED
    BY <2>1, <2>2
<1>13. FreedProbes'
  <2> SUFFICES ASSUME NEW q \in Requests, NEW c \in Conns, HoldsToken(q, c)', MayCallAgain(q)',
                      ~br'[c].probing, br'[c].open
               PROVE  br'[c].openAge <= br'[c].probeAge
    BY DEF FreedProbes
  <2>1. HoldsToken(q, c) /\ MayCallAgain(q)
    <3>1. br'[c].probeID = br[c].probeID
      BY <1>5, <1>6
    <3>2. CASE q = r
      BY <1>1, <3>1, <3>2 DEF OnlyWalk, GoesOn, HoldsToken, Conn
    <3>3. CASE q # r
      BY <1>1, <3>1, <3>3 DEF OnlyWalk, Kept, HoldsToken, Conn, Working, MayCallAgain
    <3> QED
      BY <3>2, <3>3
  <2>2. CASE c # d
    BY <1>5, <2>1, <2>2 DEF FreedProbes
  <2>3. CASE c = d /\ q = r
    <3>1. v = "failure"
      BY <1>1, <2>3 DEF Verdict
    <3>2. n.openAge = 0 \/ (IsOpen(b) /\ n.openAge = b.openAge)
      BY <1>5, <1>6, <2>3, <3>1
    <3> QED
      BY <1>2, <1>5, <1>6, <1>11, <2>3, <3>2 DEF LateOpening
  <2>4. CASE c = d /\ q # r
    <3>1. t = NoToken \/ t # b.probeID
      BY <2>1, <2>4 DEF HoldsToken, TokensApart
    <3>2. ~b.probing
      BY <1>5, <1>6, <2>4, <3>1
    <3>3. n.openAge = 0 \/ (b.open /\ n.openAge = b.openAge)
      BY <1>5, <1>6, <2>4
    <3> QED
      BY <1>2, <1>5, <1>6, <1>11, <2>1, <2>4, <3>2, <3>3 DEF FreedProbes
  <2> QED
    BY <2>2, <2>3, <2>4
<1> QED
  BY <1>8, <1>9, <1>10, <1>12, <1>13

\* Upstreams heal, time passes, idle breakers are dropped.
LEMMA WorldKeeps ==
    ASSUME FailoverInv, (\E c \in Conns : Heals(c) \/ DropIdle(c)) \/ Tick \/ UNCHANGED vars
    PROVE  FailoverInv'
<1> USE DEF FailoverInv
<1>1. req' = req /\ gone' = gone /\ spent' = spent /\ sent' = sent
  BY DEF Heals, DropIdle, Tick, vars
<1>2. WalksSound' /\ TokensApart'
  BY <1>1 DEF WalksSound, TokensApart
<1>3. CASE (\E c \in Conns : Heals(c)) \/ UNCHANGED vars
  <2>1. br' = br /\ up' \in [Conns -> BOOLEAN]
    BY <1>3 DEF Heals, vars, TypeOK
  <2>2. TypeOK'
    BY <1>1, <2>1 DEF TypeOK
  <2>3. OpenAtThreshold' /\ LateOpening'
    BY <2>1 DEF OpenAtThreshold, LateOpening
  <2>4. FreedProbes'
    BY <1>1, <2>1 DEF FreedProbes, HoldsToken, MayCallAgain, Working, Conn
  <2> QED
    BY <1>2, <2>2, <2>3, <2>4
<1>4. ASSUME NEW d \in Conns, DropIdle(d) PROVE FailoverInv'
  <2>1. NewBreaker \in Breaker /\ ~NewBreaker.open /\ NewBreaker.failures = 0 /\ NewBreaker.probeID = NoToken
    BY DEF NewBreaker, Breaker
  <2>2. br' = [br EXCEPT ![d] = NewBreaker] /\ up' = up
    BY <1>4 DEF DropIdle, SetBr
  <2>3. br'[d] = NewBreaker /\ \A c \in Conns \ {d} : br'[c] = br[c]
    BY <2>2 DEF TypeOK
  <2>4. TypeOK'
    BY <1>1, <2>1, <2>2 DEF TypeOK
  <2>5. OpenAtThreshold' /\ LateOpening'
    BY <2>1, <2>3 DEF OpenAtThreshold, LateOpening, IsOpen
  <2>6. FreedProbes'
    BY <1>1, <2>1, <2>3 DEF FreedProbes, HoldsToken, MayCallAgain, Working, Conn
  <2> QED
    BY <1>2, <2>4, <2>5, <2>6
<1>5. CASE Tick
  <2>1. br' = [c \in Conns |-> Aged(br[c])] /\ up' = up
    BY <1>5 DEF Tick
  <2>2. \A c \in Conns : /\ br[c] \in Breaker /\ br'[c] \in Breaker /\ br'[c].open = br[c].open
                         /\ br'[c].failures = br[c].failures /\ br'[c].probing = br[c].probing
                         /\ br'[c].probeID = br[c].probeID /\ br'[c].openAge = Older(br[c].openAge)
                         /\ br'[c].probeAge = Older(br[c].probeAge)
    <3> TAKE c \in Conns
    <3>1. br[c] \in Breaker /\ br'[c] = Aged(br[c])
      BY <2>1 DEF TypeOK
    <3>2. Aged(br[c]) \in Breaker
      BY <3>1, BreakerEdits
    <3> QED
      BY <3>1, <3>2 DEF Aged
  <2>3. TypeOK'
    BY <1>1, <2>1, <2>2 DEF TypeOK
  <2>4. OpenAtThreshold'
    BY <2>2 DEF OpenAtThreshold
  <2>5. \A c \in Conns : /\ br[c].openAge <= br[c].probeAge => br'[c].openAge <= br'[c].probeAge
                         /\ br'[c].openAge < OpenFor => br[c].openAge < OpenFor
    <3> TAKE c \in Conns
    <3>1. br[c].openAge \in 0..OpenFor /\ br[c].probeAge \in 0..OpenFor
      BY <2>2 DEF Breaker
    <3> QED
      BY <2>2, <3>1, OlderFacts
  <2>6. LateOpening'
    BY <2>2, <2>5 DEF LateOpening, IsOpen
  <2>7. FreedProbes'
    BY <1>1, <2>2, <2>5 DEF FreedProbes, HoldsToken, MayCallAgain, Working, Conn
  <2> QED
    BY <1>2, <2>3, <2>4, <2>6, <2>7
<1> QED
  BY <1>3, <1>4, <1>5

\* Every step keeps the invariant.
LEMMA FailoverStep == FailoverInv /\ [Next]_vars => FailoverInv'
<1> SUFFICES ASSUME FailoverInv, [Next]_vars PROVE FailoverInv'
  OBVIOUS
<1>1. ASSUME NEW r \in Requests,
             \/ Pick(r) \/ Panic(r) \/ Judge(r) \/ Wake(r) \/ WakeGone(r)
             \/ Answer(r) \/ ClientLeaves(r) \/ BudgetEnds(r) \/ \E route \in Routes : Start(r, route)
      PROVE  FailoverInv'
  <2>1. CASE PickProbe(r)
    BY <2>1, ProbeKeeps
  <2>2. CASE ~PickProbe(r)
    <3>1. br' = br /\ OnlyWalk(r)
      BY <1>1, <2>2, WalkSteps DEF Pick, FailoverInv
    <3> QED
      BY <3>1, WalkKeeps
  <2> QED
    BY <2>1, <2>2
<1>2. ASSUME NEW r \in Requests, NEW o \in Outcomes, Return(r, o) PROVE FailoverInv'
  BY <1>2, ReturnKeeps
<1> QED
  BY <1>1, <1>2, WorldKeeps DEF Next

\* FailoverInv holds in every reachable state.
LEMMA FailoverInvariant == Spec => []FailoverInv
BY FailoverInit, FailoverStep, PTL DEF Spec

\* A walk ends with an attempt to answer for and repeats no call that may have
\* been processed (invoke), whatever breakers, clients and budgets do.
THEOREM WalksAlwaysSound == Spec => []WalkInv
<1>1. FailoverInv => WalkInv
  <2> SUFFICES ASSUME FailoverInv, NEW r \in Requests
               PROVE  (req[r].pc = "answer" => req[r].err) /\ (req[r].pc = "call" => req[r].at \notin sent[r])
    BY DEF WalkInv, NeverFailsFast, NoDoubleSend
  <2>1. WalkOK(req[r], sent[r]) /\ req[r].at \in Nat
    BY DEF FailoverInv, WalksSound, TypeOK, Walk
  <2> QED
    BY <2>1 DEF WalkOK
<1> QED
  BY <1>1, FailoverInvariant, PTL

\* A half-open breaker hands out no second probe while the first one's call is
\* running, repeats of it included, unless that is overdue (allow, report).
THEOREM ProbesNeverOverlap == Spec => ProbesDoNotOverlap
<1> DEFINE Alone == \A c \in Conns : br'[c].probeID # br[c].probeID /\ br'[c].probing =>
                       \A r \in Requests : InFlightProbe(r, c) => br[c].probeAge >= OpenFor
<1>1. FailoverInv /\ [Next]_vars => [Alone]_vars
  <2> SUFFICES ASSUME FailoverInv, [Next]_vars, NEW c \in Conns,
                      br'[c].probeID # br[c].probeID, br'[c].probing, NEW q \in Requests, InFlightProbe(q, c)
               PROVE  br[c].probeAge >= OpenFor
    OBVIOUS
  <2>1. PICK r \in Requests : PickProbe(r) /\ Conn(r) = c
    <3>1. ASSUME NEW r \in Requests, br' = br PROVE FALSE
      BY <3>1
    <3>2. ASSUME NEW r \in Requests, NEW o \in Outcomes, Return(r, o) PROVE FALSE
      <4>1. Conn(r) \in Conns /\ br[Conn(r)] \in Breaker /\ req[r].tok \in Tokens \cup {NoToken}
        BY <3>2, ConnType DEF FailoverInv, Return, Working, TypeOK, Walk
      <4>2. br' = [br EXCEPT ![Conn(r)] = Reported(br[Conn(r)], req[r].tok, Verdict(o, gone[r]))]
        BY <3>2 DEF Return, SetBr
      <4>3. br'[c].probeID = br[c].probeID
        BY <4>1, <4>2, ReportFacts DEF FailoverInv, TypeOK
      <4> QED
        BY <4>3
    <3>3. ASSUME NEW d \in Conns, DropIdle(d) PROVE FALSE
      <4>1. ~NewBreaker.probing /\ br' = [br EXCEPT ![d] = NewBreaker]
        BY <3>3 DEF DropIdle, SetBr, NewBreaker
      <4>2. br'[c] = NewBreaker \/ br'[c] = br[c]
        BY <4>1 DEF FailoverInv, TypeOK
      <4> QED
        BY <4>1, <4>2
    <3>4. ~Tick
      BY DEF Tick, Aged, FailoverInv, TypeOK
    <3>5. ASSUME NEW r \in Requests, PickProbe(r), Conn(r) # c PROVE FALSE
      BY <3>5, ProbeWalk DEF FailoverInv, TypeOK
    <3>6. ASSUME NEW r \in Requests,
                 \/ PickClosed(r) \/ PickSkip(r) \/ PickForced(r) \/ PickNone(r) \/ \E route \in Routes : Start(r, route)
                 \/ Judge(r) \/ Wake(r) \/ WakeGone(r) \/ Answer(r) \/ Panic(r) \/ ClientLeaves(r) \/ BudgetEnds(r)
          PROVE  FALSE
      BY <3>1, <3>6, WalkSteps DEF FailoverInv
    <3> QED
      BY <3>1, <3>2, <3>3, <3>4, <3>5, <3>6 DEF Next, Pick, Heals, vars
  <2>2. IsHalfOpen(br[c]) /\ SlotFree(br[c]) /\ br[c] \in Breaker
    BY <2>1 DEF PickProbe, FailoverInv, TypeOK
  <2>3. CASE br[c].probing
    BY <2>2, <2>3 DEF SlotFree
  <2>4. CASE ~br[c].probing
    <3>1. HoldsToken(q, c) /\ MayCallAgain(q)
      BY DEF InFlightProbe, HoldsToken, MayCallAgain, Working
    <3>2. br[c].openAge <= br[c].probeAge
      BY <2>2, <2>4, <3>1 DEF FailoverInv, FreedProbes, IsHalfOpen
    <3> QED
      BY <2>2, <3>2 DEF IsHalfOpen, Breaker
  <2> QED
    BY <2>3, <2>4
<1> QED
  BY <1>1, FailoverInvariant, PTL DEF Spec, ProbesDoNotOverlap

\* Without panics a taken probe slot is given back by every end an attempt can
\* have, and a breaker is open exactly at its threshold (report, outcomeOf).
THEOREM BreakersAlwaysSound == "panic" \notin Faults => (Spec => []BreakerInv)
<1> SUFFICES ASSUME "panic" \notin Faults PROVE Spec => []BreakerInv
  OBVIOUS
<1>1. Init => ProbeSlotHeld
  BY DEF Init, ProbeSlotHeld, NewBreaker
<1>2. FailoverInv /\ ProbeSlotHeld /\ [Next]_vars => ProbeSlotHeld'
  <2> SUFFICES ASSUME FailoverInv, ProbeSlotHeld, [Next]_vars, NEW c \in Conns, br'[c].probing
               PROVE  \E q \in Requests : InFlightProbe(q, c)'
    BY DEF ProbeSlotHeld
  <2>1. ASSUME br'[c] = br[c], NEW r \in Requests, \A q \in Requests \ {r} : req'[q] = req[q],
               req[r].pc # "call" \/ (req'[r] = req[r])
        PROVE  \E q \in Requests : InFlightProbe(q, c)'
    <3>1. PICK q \in Requests : InFlightProbe(q, c)
      BY <2>1 DEF ProbeSlotHeld
    <3>2. req'[q] = req[q]
      BY <2>1, <3>1 DEF InFlightProbe
    <3> QED
      BY <2>1, <3>1, <3>2 DEF InFlightProbe, Conn
  <2>2. ASSUME br'[c].probing = br[c].probing, br'[c].probeID = br[c].probeID, req' = req
        PROVE  \E q \in Requests : InFlightProbe(q, c)'
    BY <2>2 DEF ProbeSlotHeld, InFlightProbe, Conn
  <2>3. ASSUME NEW r \in Requests, PickProbe(r) PROVE \E q \in Requests : InFlightProbe(q, c)'
    <3>1. CASE Conn(r) = c
      <4>1. br'[c] = Probed(br[c], NextToken)
        BY <2>3, <3>1, ProbeWalk DEF FailoverInv, TypeOK
      <4>2. InFlightProbe(r, c)'
        BY <2>3, <3>1, <4>1, ProbeWalk DEF FailoverInv, InFlightProbe, Conn, Probed
      <4> QED
        BY <4>2
    <3>2. CASE Conn(r) # c
      BY <2>1, <2>3, <3>2, ProbeWalk DEF FailoverInv, TypeOK, Kept
    <3> QED
      BY <3>1, <3>2
  <2>4. ASSUME NEW r \in Requests, NEW o \in Outcomes, Return(r, o) PROVE \E q \in Requests : InFlightProbe(q, c)'
    <3> DEFINE d == Conn(r)
               n == Reported(br[d], req[r].tok, Verdict(o, gone[r]))
    <3>1. d \in Conns /\ br[d] \in Breaker /\ req[r].tok \in Tokens \cup {NoToken}
      BY <2>4, ConnType DEF FailoverInv, Return, Working, TypeOK, Walk
    <3>2. br' = [br EXCEPT ![d] = n]
      BY <2>4 DEF Return, SetBr
    <3>3. OnlyWalk(r)
      BY <2>4, ReturnWalk DEF FailoverInv
    <3>4. br[c].probing /\ br'[c].probeID = br[c].probeID
      BY <3>1, <3>2, ReportFacts DEF FailoverInv, TypeOK
    <3>5. PICK q \in Requests : InFlightProbe(q, c)
      BY <3>4 DEF ProbeSlotHeld
    <3>6. q # r
      <4>1. SUFFICES ASSUME q = r PROVE FALSE
        OBVIOUS
      <4>2. d = c /\ req[r].tok # NoToken /\ req[r].tok = br[d].probeID
        BY <3>5, <4>1 DEF InFlightProbe
      <4>3. ~n.probing
        BY <3>1, <4>2, ReportFacts
      <4>4. br'[c] = n
        BY <3>2, <4>2 DEF FailoverInv, TypeOK
      <4> QED
        BY <4>3, <4>4
    <3> QED
      BY <3>3, <3>4, <3>5, <3>6 DEF OnlyWalk, Kept, InFlightProbe, Conn
  <2>5. ASSUME NEW r \in Requests,
               \/ PickClosed(r) \/ PickSkip(r) \/ PickForced(r) \/ PickNone(r) \/ \E route \in Routes : Start(r, route)
               \/ Judge(r) \/ Wake(r) \/ WakeGone(r) \/ Answer(r) \/ Panic(r) \/ ClientLeaves(r) \/ BudgetEnds(r)
        PROVE  \E q \in Requests : InFlightProbe(q, c)'
    <3>1. br' = br /\ OnlyWalk(r)
      BY <2>5, WalkSteps DEF FailoverInv
    <3>2. req[r].pc # "call" \/ req'[r] = req[r]
      BY <2>5 DEF PickClosed, PickSkip, PickForced, PickNone, Start, Judge, Backoff, GiveUp, Wake, WakeGone, Answer,
                  Panic, ClientLeaves, BudgetEnds
    <3> QED
      BY <2>1, <3>1, <3>2 DEF OnlyWalk, Kept
  <2>6. ASSUME NEW d \in Conns, DropIdle(d) PROVE \E q \in Requests : InFlightProbe(q, c)'
    <3>1. br' = [br EXCEPT ![d] = NewBreaker] /\ req' = req
      BY <2>6 DEF DropIdle, SetBr
    <3>2. br'[c] = br[c]
      BY <3>1 DEF NewBreaker, FailoverInv, TypeOK
    <3> QED
      BY <2>2, <3>1, <3>2
  <2>7. CASE Tick
    <3>1. req' = req /\ br'[c].probing = br[c].probing /\ br'[c].probeID = br[c].probeID
      BY <2>7 DEF Tick, Aged
    <3> QED
      BY <2>2, <3>1
  <2>8. CASE (\E d \in Conns : Heals(d)) \/ UNCHANGED vars
    BY <2>2, <2>8 DEF Heals, vars
  <2> QED
    BY <2>3, <2>4, <2>5, <2>6, <2>7, <2>8 DEF Next, Pick
<1>3. FailoverInv /\ ProbeSlotHeld => BreakerInv
  BY DEF FailoverInv, BreakerInv
<1> QED
  BY <1>1, <1>2, <1>3, FailoverInit, FailoverStep, PTL DEF Spec
=============================================================================
