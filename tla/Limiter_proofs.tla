---------------------------- MODULE Limiter_proofs ----------------------------
(***************************************************************************)
(* The counters and the caps of Limiter, for any number of concurrent      *)
(* requests, any caps, estimates, contexts and costs, and any faults; and  *)
(* that the limiter implements Meter.                                      *)
(***************************************************************************)
EXTENDS Limiter, FiniteSetTheorems, TLAPS

USE PlansAssumption, SlotsAssumption, BoundsAssumption

\* What a request c holds at every step of its check: a slot of every capped
\* tier it has passed, all of them once it is admitted.
CappedTiers(c) == {t \in Counted : Capped(c, t)}
CallOK(c) ==
    /\ c.pc # "idle" => c.who \in Subjects
    /\ c.held \subseteq CappedTiers(c)
    /\ c.pc \in {"idle", "read", "decide"} => c.held = {}
    /\ c.pc = "reserve" => /\ c.tier = "project" => c.held = {}
                           /\ c.tier = "key" => c.held = CappedTiers(c) \cap {"project"}
                           /\ c.tier = "session" => c.held = CappedTiers(c)
    /\ c.pc = "undo" => c.held # {}
    /\ c.pc \in {"run", "recheck", "record"} => c.held = CappedTiers(c)
    /\ c.pc = "recheck" => c.tier # "session"
    /\ c.pc = "record" /\ c.tier # "project" => c.est \in Costs

CallsSound == \A s \in Slots : CallOK(call[s])

\* A request counted by Pending, and one that fitted the cap of tier t.
Holds(c, t, m)  == c.pc \in {"reserve", "undo"} /\ t \in c.held /\ c.min = m
Fitted(c, t, m) == c.pc = "reserve" /\ t \in c.held /\ c.min = m
FittedSlots(t, m) == {s \in Slots : Fitted(call[s], t, m)}

\* The admitted requests and the ones that will be are within the cap.
NoOverGrant ==
    \A t \in Counted, m \in Minutes :
        Rpm[t] > 0 => adm[t][m] + Cardinality(FittedSlots(t, m)) <= Rpm[t]

\* The requests that saw room in the budget of tier t and have not paid yet.
Cap(t) == IF t = "session" THEN SessionCap ELSE Budget[t]
Owes(c, t) ==
    /\ t \in c.who
    /\ \/ c.pc = "read" /\ c.seen[t].spent < Cap(t)
             /\ c.tier # "project" /\ c.tier # t /\ t # "session"
       \/ c.pc = "decide" /\ c.seen[t].spent < Cap(t)
       \/ c.pc \in {"reserve", "undo", "run", "recheck"}
       \/ c.pc = "record" /\ (c.tier = "key" => t # "project") /\ (c.tier = "session" => t = "session")
Debtors(t) == {s \in Slots : Owes(call[s], t)}
SpendingBounded ==
    \A t \in Tiers : Cap(t) > 0 =>
        spent[t] + Cardinality(Debtors(t)) * MaxCost < Cap(t) + Cardinality(Slots) * MaxCost

\* What a record under way has charged to the project and will charge to t.
Debt(c, t) ==
    IF c.pc = "record" /\ t \in c.who /\ c.tier \in {"key", t} \ {"project"} THEN c.est ELSE 0

\* The weights w of the slots add up to n.
SumsTo(w, n) ==
    \E F \in [SUBSET Slots -> Nat] :
        /\ F[{}] = 0
        /\ \A S \in SUBSET Slots : \A s \in S : F[S] = F[S \ {s}] + w[s]
        /\ F[Slots] = n
DebtsCovered ==
    \A t \in {"key", "session"} : \E n \in Nat :
        SumsTo([s \in Slots |-> Debt(call[s], t)], n) /\ spent[t] + n <= spent["project"]

Counts == SlotsAccounted /\ CountedOnce /\ NoOverGrant /\ SpendingBounded /\ DebtsCovered
LimiterInv == LimiterTypeOK /\ CallsSound /\ Counts
-----------------------------------------------------------------------------
(* Counting and adding.                                                    *)

LEMMA OneSlot ==
    ASSUME NEW A \in SUBSET Slots, NEW B \in SUBSET Slots, NEW s \in Slots, A \ {s} = B \ {s}
    PROVE  /\ Cardinality(A) \in Nat /\ Cardinality(B) \in Nat
           /\ (s \in A <=> s \in B) => Cardinality(B) = Cardinality(A)
           /\ s \notin A /\ s \in B => Cardinality(B) = Cardinality(A) + 1
           /\ s \in A /\ s \notin B => Cardinality(A) = Cardinality(B) + 1
<1>0. IsFiniteSet(A) /\ IsFiniteSet(B)
  BY FS_Subset
<1>1. Cardinality(A) \in Nat /\ Cardinality(B) \in Nat
  BY <1>0, FS_CardinalityType
<1>2. ASSUME s \in A <=> s \in B PROVE A = B
  <2>1. ASSUME NEW q PROVE q \in A <=> q \in B
    <3>1. q # s => (q \in A <=> q \in A \ {s}) /\ (q \in B <=> q \in B \ {s})
      OBVIOUS
    <3> QED
      BY <3>1, <1>2
  <2> QED
    BY <2>1
<1>3. s \notin A /\ s \in B => B = A \cup {s}
  OBVIOUS
<1>4. s \in A /\ s \notin B => A = B \cup {s}
  OBVIOUS
<1>5. Cardinality(A \cup {s}) = IF s \in A THEN Cardinality(A) ELSE Cardinality(A) + 1
  BY <1>0, FS_AddElement
<1>6. Cardinality(B \cup {s}) = IF s \in B THEN Cardinality(B) ELSE Cardinality(B) + 1
  BY <1>0, FS_AddElement
<1> QED
  BY <1>1, <1>2, <1>3, <1>4, <1>5, <1>6

\* A sum follows the weight of one slot.
LEMMA SumMoves ==
    ASSUME NEW w \in [Slots -> Nat], NEW v \in [Slots -> Nat], NEW s \in Slots,
           \A q \in Slots \ {s} : v[q] = w[q], NEW n \in Nat, SumsTo(w, n)
    PROVE  n - w[s] \in Nat /\ SumsTo(v, n - w[s] + v[s])
<1>1. PICK F \in [SUBSET Slots -> Nat] :
          /\ F[{}] = 0
          /\ \A S \in SUBSET Slots : \A q \in S : F[S] = F[S \ {q}] + w[q]
          /\ F[Slots] = n
  BY DEF SumsTo
<1> DEFINE G == [S \in SUBSET Slots |-> IF s \in S THEN F[S] - w[s] + v[s] ELSE F[S]]
<1>2. ASSUME NEW S \in SUBSET Slots, s \in S
      PROVE  F[S] - w[s] \in Nat
  <2>1. F[S] = F[S \ {s}] + w[s] /\ F[S \ {s}] \in Nat /\ w[s] \in Nat
    BY <1>1, <1>2
  <2> QED
    BY <2>1
<1>3. G \in [SUBSET Slots -> Nat]
  <2>1. ASSUME NEW S \in SUBSET Slots
        PROVE  (IF s \in S THEN F[S] - w[s] + v[s] ELSE F[S]) \in Nat
    <3>1. F[S] \in Nat /\ w[s] \in Nat /\ v[s] \in Nat
      BY <1>1
    <3> QED
      BY <3>1, <1>2
  <2> QED
    BY <2>1
<1>4. ASSUME NEW S \in SUBSET Slots, NEW q \in S
      PROVE  G[S] = G[S \ {q}] + v[q]
  <2>0. S \ {q} \in SUBSET Slots /\ q \in Slots
    OBVIOUS
  <2>1. F[S] = F[S \ {q}] + w[q]
    BY <1>1
  <2>2. F[S] \in Nat /\ F[S \ {q}] \in Nat /\ w[q] \in Nat /\ v[q] \in Nat /\ w[s] \in Nat /\ v[s] \in Nat
    BY <2>0, <1>1
  <2>3. CASE q = s
    <3>1. G[S] = F[S] - w[s] + v[s] /\ G[S \ {q}] = F[S \ {q}]
      BY <2>0, <2>3
    <3> QED
      BY <3>1, <2>1, <2>2, <2>3
  <2>4. CASE q # s
    <3>1. v[q] = w[q] /\ (s \in S <=> s \in S \ {q})
      BY <2>0, <2>4
    <3>2. G[S] = IF s \in S THEN F[S] - w[s] + v[s] ELSE F[S]
      OBVIOUS
    <3>3. G[S \ {q}] = IF s \in S THEN F[S \ {q}] - w[s] + v[s] ELSE F[S \ {q}]
      BY <2>0, <3>1
    <3> QED
      BY <3>1, <3>2, <3>3, <2>1, <2>2
  <2> QED
    BY <2>3, <2>4
<1>5. G[{}] = 0 /\ G[Slots] = n - w[s] + v[s]
  BY <1>1
<1>6. SumsTo(v, n - w[s] + v[s])
  <2> HIDE DEF G
  <2> QED
    BY <1>3, <1>4, <1>5 DEF SumsTo
<1> QED
  BY <1>1, <1>2, <1>6

\* The zero weights add up to zero.
LEMMA SumOfZeros == SumsTo([s \in Slots |-> 0], 0)
<1> DEFINE Z == [S \in SUBSET Slots |-> 0]
<1>1. Z \in [SUBSET Slots -> Nat] /\ Z[{}] = 0 /\ Z[Slots] = 0
  OBVIOUS
<1>2. \A S \in SUBSET Slots : \A s \in S : Z[S] = Z[S \ {s}] + [q \in Slots |-> 0][s]
  OBVIOUS
<1> QED
  BY <1>1, <1>2 DEF SumsTo
-----------------------------------------------------------------------------
(* The calls after a step.                                                 *)

Pcs == {"idle", "read", "decide", "reserve", "undo", "run", "recheck", "record"}

LEMMA PlanFacts ==
    ASSUME LimiterTypeOK
    PROVE  /\ \A u \in Subjects : "project" \in u /\ u \subseteq Tiers
           /\ Rpm \in [Counted -> Nat] /\ Tpm \in [Counted -> Nat] /\ Budget \in [Counted -> Nat]
           /\ SessionCap \in Nat
           /\ Estimates \subseteq Nat /\ Contexts \subseteq Nat /\ Costs \subseteq Nat
           /\ MaxCost \in Costs /\ \A k \in Costs : k <= MaxCost
<1>1. plan \in Plans
  BY DEF LimiterTypeOK
<1>2. \E n \in Costs : \A k \in Costs : k <= n
  BY <1>1 DEF Costs
<1>3. MaxCost \in Costs /\ \A k \in Costs : k <= MaxCost
  BY <1>2 DEF MaxCost
<1> QED
  BY <1>1, <1>3 DEF Subjects, Rpm, Tpm, Budget, SessionCap, Estimates, Contexts, Costs

LEMMA MovedFacts ==
    ASSUME NEW c \in CallType, NEW pc \in Pcs, NEW t \in Tiers
    PROVE  /\ Moved(c, pc, t) \in CallType
           /\ Moved(c, pc, t).pc = pc /\ Moved(c, pc, t).tier = t
           /\ Moved(c, pc, t).who = c.who /\ Moved(c, pc, t).min = c.min
           /\ Moved(c, pc, t).est = c.est /\ Moved(c, pc, t).held = c.held
           /\ Moved(c, pc, t).seen = c.seen
BY DEF Moved, CallType, Pcs

LEMMA MovedNowFacts ==
    ASSUME NEW c \in CallType, NEW pc \in Pcs, now \in Minutes
    PROVE  /\ MovedNow(c, pc) \in CallType
           /\ MovedNow(c, pc).pc = pc /\ MovedNow(c, pc).tier = "project"
           /\ MovedNow(c, pc).who = c.who /\ MovedNow(c, pc).min = now
           /\ MovedNow(c, pc).est = c.est /\ MovedNow(c, pc).held = c.held
BY DEF MovedNow, CallType, Pcs, Tiers, Counted

LEMMA HeldFacts ==
    ASSUME NEW c \in CallType, NEW H \in SUBSET Counted
    PROVE  LET d == [c EXCEPT !.held = H] IN
           /\ d \in CallType /\ d.held = H
           /\ d.pc = c.pc /\ d.tier = c.tier /\ d.who = c.who
           /\ d.min = c.min /\ d.est = c.est /\ d.seen = c.seen
BY DEF CallType

LEMMA EstFacts ==
    ASSUME NEW c \in CallType, NEW n \in Nat
    PROVE  LET d == [c EXCEPT !.est = n] IN
           /\ d \in CallType /\ d.held = c.held
           /\ d.pc = c.pc /\ d.tier = c.tier /\ d.who = c.who
           /\ d.min = c.min /\ d.est = n /\ d.seen = c.seen
BY DEF CallType

LEMMA SeenFacts ==
    ASSUME NEW c \in CallType, NEW S \in [Tiers -> Reading]
    PROVE  LET d == [c EXCEPT !.seen = S] IN
           /\ d \in CallType /\ d.held = c.held
           /\ d.pc = c.pc /\ d.tier = c.tier /\ d.who = c.who
           /\ d.min = c.min /\ d.est = c.est /\ d.seen = S
BY DEF CallType

LEMMA ReadingFacts ==
    ASSUME NEW c \in CallType, NEW t \in Tiers, NEW row \in Reading
    PROVE  LET d == [c EXCEPT !.seen[t] = row] IN
           /\ d \in CallType /\ d.held = c.held
           /\ d.pc = c.pc /\ d.tier = c.tier /\ d.who = c.who
           /\ d.min = c.min /\ d.est = c.est
           /\ d.seen[t] = row /\ \A u \in Tiers \ {t} : d.seen[u] = c.seen[u]
BY DEF CallType

LEMMA NoCallFacts ==
    /\ Nothing \in Reading
    /\ NoCall \in CallType /\ NoCall.pc = "idle" /\ NoCall.held = {}
    /\ NoCall.tier = "project" /\ NoCall.seen \in [Tiers -> Reading]
<1>1. Nothing \in Reading
  BY DEF Nothing, Reading
<1>2. [t \in Tiers |-> Nothing] \in [Tiers -> Reading]
  BY <1>1
<1>3. 0 \in Minutes
  BY DEF Minutes
<1> HIDE DEF Nothing
<1> QED
  BY <1>1, <1>2, <1>3 DEF NoCall, CallType, Tiers, Counted

\* Only the request in slot s moves.
Only(s) == call' \in [Slots -> CallType] /\ \A q \in Slots \ {s} : call'[q] = call[q]

LEMMA ProceedFacts ==
    ASSUME LimiterTypeOK, NEW s \in Slots, NEW d \in CallType, Proceed(s, d)
    PROVE  Only(s) /\ call'[s] = d /\ away' \in [Slots -> BOOLEAN]
BY DEF LimiterTypeOK, Proceed, Only

LEMMA DoneFacts ==
    ASSUME LimiterTypeOK, NEW s \in Slots, Done(s)
    PROVE  /\ Only(s) /\ call'[s] = NoCall /\ away' \in [Slots -> BOOLEAN]
           /\ call'[s].pc = "idle" /\ call'[s].held = {}
BY NoCallFacts DEF LimiterTypeOK, Done, Only

LEMMA CallTypes ==
    ASSUME NEW c \in CallType
    PROVE  /\ c.pc \in Pcs /\ c.tier \in Tiers /\ c.who \subseteq Tiers /\ c.min \in Minutes
           /\ c.est \in Nat /\ c.held \subseteq Counted
           /\ c.seen \in [Tiers -> Reading]
           /\ \A t \in Tiers : c.seen[t] \in Reading /\ c.seen[t].spent \in Nat
BY DEF CallType, Pcs, Reading

\* A request that ended has nothing, owes nothing and is sound.
LEMMA IdleOwesNothing ==
    ASSUME NEW c \in CallType, c.pc = "idle"
    PROVE  /\ \A t, m : ~Holds(c, t, m) /\ ~Fitted(c, t, m)
           /\ \A t : ~Owes(c, t) /\ Debt(c, t) = 0
           /\ c.held = {} => CallOK(c)
BY DEF Holds, Fitted, Owes, Debt, CallOK

\* A step that moves one request and no counter.
Quiet(s) ==
    /\ Only(s) /\ CallOK(call'[s])
    /\ UNCHANGED <<plan, reqs, spent, adm, rec, lost>>
    /\ \A t \in Counted, m \in Minutes :
          /\ Holds(call'[s], t, m) <=> Holds(call[s], t, m)
          /\ Fitted(call'[s], t, m) => Fitted(call[s], t, m)
    /\ \A t \in Tiers : Cap(t) > 0 /\ Owes(call'[s], t) => Owes(call[s], t) \/ spent[t] < Cap(t)
    /\ \A t \in Tiers : Debt(call'[s], t) <= Debt(call[s], t)

\* The rest of the types.
Rest == plan' = plan /\ now' \in Minutes /\ toks' \in [Counted -> [Minutes -> Nat]]
        /\ away' \in [Slots -> BOOLEAN] /\ made' \in 0..MaxRequests

Core == LimiterTypeOK /\ CallsSound

LEMMA DebtType == \A c \in CallType, t \in Tiers : Debt(c, t) \in Nat
BY CallTypes DEF Debt

\* A check or a record that ends without a slot to give back is quiet.
LEMMA EndsQuietly ==
    ASSUME Core, NEW s \in Slots, Done(s), UNCHANGED <<plan, reqs, spent, adm, rec, lost>>,
           call[s].pc \notin {"reserve", "undo"} \/ call[s].held = {}
    PROVE  Quiet(s) /\ away' \in [Slots -> BOOLEAN]
<1>1. call[s] \in CallType /\ call'[s] \in CallType
  BY DoneFacts, NoCallFacts DEF Core, LimiterTypeOK
<1>2. \A t \in Tiers : 0 <= Debt(call[s], t)
  BY <1>1, DebtType
<1>3. /\ Only(s) /\ call'[s].pc = "idle" /\ call'[s].held = {} /\ away' \in [Slots -> BOOLEAN]
  BY DoneFacts DEF Core
<1>4. /\ \A t, m : ~Holds(call'[s], t, m) /\ ~Fitted(call'[s], t, m)
      /\ \A t : ~Owes(call'[s], t) /\ Debt(call'[s], t) = 0
      /\ CallOK(call'[s])
  BY <1>1, <1>3, IdleOwesNothing
<1>5. \A t, m : ~Holds(call[s], t, m)
  BY DEF Holds
<1> QED
  BY <1>2, <1>3, <1>4, <1>5 DEF Quiet

\* A request that goes on with the same slots, in a step that moves no counter.
LEMMA GoesOnQuietly ==
    ASSUME Core, NEW s \in Slots, NEW d \in CallType, Proceed(s, d),
           UNCHANGED <<plan, reqs, spent, adm, rec, lost>>,
           CallOK(d),
           d.held = call[s].held,
           call[s].pc \in {"reserve", "undo"} /\ d.held # {} =>
              d.pc \in {"reserve", "undo"} /\ d.min = call[s].min,
           d.pc \in {"reserve", "undo"} /\ d.held # {} =>
              call[s].pc \in {"reserve", "undo"} /\ d.min = call[s].min,
           d.pc = "reserve" /\ d.held # {} => call[s].pc = "reserve",
           \A t \in Tiers : Cap(t) > 0 /\ Owes(d, t) => Owes(call[s], t) \/ spent[t] < Cap(t),
           \A t \in Tiers : Debt(d, t) <= Debt(call[s], t)
    PROVE  Quiet(s) /\ away' \in [Slots -> BOOLEAN]
<1>1. Only(s) /\ call'[s] = d /\ away' \in [Slots -> BOOLEAN]
  BY ProceedFacts DEF Core
<1>2. \A t \in Counted, m \in Minutes : Holds(d, t, m) <=> Holds(call[s], t, m)
  BY DEF Holds
<1>3. \A t \in Counted, m \in Minutes : Fitted(d, t, m) => Fitted(call[s], t, m)
  BY DEF Fitted
<1> QED
  BY <1>1, <1>2, <1>3 DEF Quiet

LEMMA BeginStep ==
    ASSUME Core, NEW s \in Slots, NEW who \in Subjects, NEW est \in Estimates, Begin(s, who, est)
    PROVE  Quiet(s) /\ Rest
<1> DEFINE d == [NoCall EXCEPT !.pc = "read", !.who = who, !.min = now, !.est = est]
<1>1. call[s] \in CallType /\ now \in Minutes /\ made \in 0..MaxRequests
  BY DEF Core, LimiterTypeOK
<1>2. est \in Nat /\ who \subseteq Tiers
  BY PlanFacts DEF Core
<1>3. /\ d \in CallType /\ d.pc = "read" /\ d.who = who /\ d.held = {} /\ d.tier = "project"
  BY <1>1, <1>2, NoCallFacts DEF CallType
<1>4. call[s].pc = "idle" /\ call[s].held = {} /\ Proceed(s, d)
  BY DEF Begin, Core, CallsSound, CallOK
<1>5. away' \in [Slots -> BOOLEAN] => Rest
  BY <1>1, BoundsAssumption DEF Begin, Rest, Core, LimiterTypeOK
<1> HIDE DEF d
<1>6. CallOK(d) /\ d.held = call[s].held
  BY <1>3, <1>4 DEF CallOK
<1>7. \A t : ~Owes(d, t) /\ Debt(d, t) = 0
  BY <1>3 DEF Owes, Debt
<1>8. \A t \in Tiers : 0 <= Debt(call[s], t)
  BY <1>1, DebtType
<1>9. UNCHANGED <<plan, reqs, spent, adm, rec, lost>>
  BY DEF Begin
<1>10. Quiet(s) /\ away' \in [Slots -> BOOLEAN]
  BY ZenonT(60), <1>3, <1>4, <1>6, <1>7, <1>8, <1>9, GoesOnQuietly
<1> QED
  BY <1>5, <1>10

\* The counters a read sees are numbers.
LEMMA RowType ==
    ASSUME Core, NEW c \in CallType, NEW t \in Tiers
    PROVE  (IF ~ReadsRow(c, t) THEN Nothing
            ELSE IF t = "session" THEN [Nothing EXCEPT !.spent = spent[t]]
            ELSE [reqs |-> reqs[t][c.min], toks |-> toks[t][c.min], spent |-> spent[t]]) \in Reading
<1>1. c.min \in Minutes /\ spent[t] \in Nat
  BY CallTypes DEF Core, LimiterTypeOK
<1>2. Nothing \in Reading
  BY NoCallFacts
<1>3. [Nothing EXCEPT !.spent = spent[t]] \in Reading
  BY <1>1 DEF Nothing, Reading
<1>4. CASE t \in Counted
  <2>1. reqs[t][c.min] \in Nat /\ toks[t][c.min] \in Nat
    BY <1>1, <1>4 DEF Core, LimiterTypeOK
  <2> QED
    BY <2>1, <1>1, <1>2, <1>3 DEF Reading
<1>5. CASE t \notin Counted
  <2>1. t = "session"
    BY <1>5 DEF Tiers
  <2> QED
    BY <2>1, <1>2, <1>3
<1> QED
  BY <1>4, <1>5

LEMMA ReadStep ==
    ASSUME Core, NEW s \in Slots, Read(s)
    PROVE  Quiet(s) /\ Rest
<1> DEFINE c == call[s]
           t == c.tier
           row == IF ~ReadsRow(c, t) THEN Nothing
                  ELSE IF t = "session" THEN [Nothing EXCEPT !.spent = spent[t]]
                  ELSE [reqs |-> reqs[t][c.min], toks |-> toks[t][c.min], spent |-> spent[t]]
           d == [c EXCEPT !.seen[t] = row]
           e == IF t = "session" THEN Moved(d, "decide", "project") ELSE Moved(d, "read", NextTier(t))
<1>1. c \in CallType /\ t \in Tiers /\ row \in Reading
  BY CallTypes, RowType DEF Core, LimiterTypeOK
<1>2. c.pc = "read" /\ Proceed(s, e) /\ UNCHANGED <<plan, now, reqs, toks, spent, made, adm, rec, lost>>
  BY DEF Read
<1>3. t \in c.who /\ (t = "session" => SessionCap > 0) => row.spent = spent[t]
  BY <1>1 DEF ReadsRow, Reading, Nothing
<1> HIDE DEF row
<1>4. /\ d \in CallType /\ d.held = c.held
      /\ d.pc = c.pc /\ d.tier = c.tier /\ d.who = c.who
      /\ d.min = c.min /\ d.est = c.est
      /\ d.seen[t] = row /\ \A u \in Tiers \ {t} : d.seen[u] = c.seen[u]
  BY SMTT(30), <1>1, ReadingFacts
<1> HIDE DEF d
<1>5. NextTier(t) \in Tiers /\ "project" \in Tiers /\ {"read", "decide"} \subseteq Pcs
  BY DEF NextTier, Tiers, Counted, Pcs
<1>6. /\ e \in CallType /\ e.held = c.held /\ e.who = c.who
      /\ e.pc = (IF t = "session" THEN "decide" ELSE "read")
      /\ e.tier = (IF t = "session" THEN "project" ELSE NextTier(t))
      /\ e.seen = d.seen
  BY <1>4, <1>5, MovedFacts
<1> HIDE DEF e
<1>7. CallOK(c)
  BY DEF Core, CallsSound
<1>8. CallOK(e)
  BY <1>2, <1>6, <1>7 DEF CallOK, CappedTiers, Capped
<1>9. \A u \in Tiers : Debt(e, u) = 0 /\ Debt(c, u) = 0
  BY <1>2, <1>6 DEF Debt
<1>10. ASSUME NEW u \in Tiers, Cap(u) > 0, Owes(e, u)
       PROVE  Owes(c, u) \/ spent[u] < Cap(u)
  <2>1. e.seen[u].spent < Cap(u) /\ u \in c.who
    BY <1>6, <1>10 DEF Owes
  <2>2. CASE u = t
    <3>1. u = "session" => SessionCap > 0
      BY <1>10 DEF Cap
    <3> QED
      BY <2>1, <2>2, <3>1, <1>3, <1>4, <1>6
  <2>3. CASE u # t
    <3>1. c.seen[u].spent < Cap(u)
      BY <2>1, <2>3, <1>4, <1>6
    <3>2. t # "project" /\ u # "session"
      BY <2>3, <1>1, <1>6, <1>10 DEF Owes, NextTier, Tiers, Counted
    <3> QED
      BY <2>1, <2>3, <3>1, <3>2, <1>2 DEF Owes
  <2> QED
    BY <2>2, <2>3
<1>11. Quiet(s) /\ away' \in [Slots -> BOOLEAN]
  <2>1. e.pc \notin {"reserve", "undo"} /\ c.pc \notin {"reserve", "undo"}
    BY <1>2, <1>6
  <2> QED
    BY <2>1, <1>2, <1>6, <1>8, <1>9, <1>10, GoesOnQuietly
<1> QED
  BY <1>2, <1>11 DEF Rest, Core, LimiterTypeOK

LEMMA ReadFailsStep ==
    ASSUME Core, NEW s \in Slots, ReadFails(s)
    PROVE  Quiet(s) /\ Rest
<1>1. Done(s) /\ call[s].pc = "read" /\ UNCHANGED <<plan, now, reqs, toks, spent, made, adm, rec, lost>>
  BY DEF ReadFails
<1>2. Quiet(s) /\ away' \in [Slots -> BOOLEAN]
  BY <1>1, EndsQuietly
<1> QED
  BY <1>1, <1>2 DEF Rest, Core, LimiterTypeOK

LEMMA DecideStep ==
    ASSUME Core, NEW s \in Slots, Decide(s)
    PROVE  Quiet(s) /\ Rest
<1> DEFINE c == call[s]
           d == Moved(c, "reserve", "project")
<1>1. c.pc = "decide" /\ UNCHANGED <<plan, now, reqs, toks, spent, made, adm, rec, lost>>
  BY DEF Decide
<1>2. CASE Denied(c)
  <2>1. Done(s)
    BY <1>2 DEF Decide
  <2> QED
    BY <1>1, <2>1, EndsQuietly DEF Rest, Core, LimiterTypeOK
<1>3. CASE ~Denied(c)
  <2>1. Proceed(s, d)
    BY <1>3 DEF Decide
  <2>2. c \in CallType /\ "reserve" \in Pcs /\ "project" \in Tiers
    BY DEF Core, LimiterTypeOK, Pcs, Tiers, Counted
  <2>3. /\ d \in CallType /\ d.pc = "reserve" /\ d.tier = "project" /\ d.who = c.who
        /\ d.held = c.held
    BY <2>2, MovedFacts
  <2> HIDE DEF d
  <2>4. c.held = {} /\ CallOK(c)
    BY <1>1 DEF Core, CallsSound, CallOK
  <2>5. CallOK(d)
    BY <2>3, <2>4, <1>1 DEF CallOK
  <2>6. ASSUME NEW t \in Tiers, Cap(t) > 0, Owes(d, t) PROVE Owes(c, t)
    <3>1. t \in c.who
      BY <2>3, <2>6 DEF Owes
    <3>2. ~(c.seen[t].spent >= Cap(t))
      BY <1>3, <2>6, <3>1 DEF Denied, OverBudget, Cap
    <3>3. c.seen[t].spent \in Nat /\ Cap(t) \in Nat
      BY <2>2, CallTypes, PlanFacts DEF Cap, Core, Tiers
    <3> QED
      BY <1>1, <3>1, <3>2, <3>3 DEF Owes
  <2>7. \A t \in Tiers : Debt(d, t) = 0 /\ Debt(c, t) = 0
    BY <1>1, <2>3 DEF Debt
  <2>8. d.held = c.held /\ d.held = {} /\ c.pc # "reserve"
    BY <1>1, <2>3, <2>4
  <2>9. \A t \in Tiers : Debt(d, t) <= Debt(c, t)
    BY <2>7
  <2>10. Quiet(s) /\ away' \in [Slots -> BOOLEAN]
    BY <1>1, <2>1, <2>3, <2>8, <2>5, <2>6, <2>9, GoesOnQuietly
  <2> QED
    BY <1>1, <2>10 DEF Rest, Core, LimiterTypeOK
<1> QED
  BY <1>2, <1>3

LEMMA UnlimitedStep ==
    ASSUME Core, NEW s \in Slots, Unlimited(s)
    PROVE  Quiet(s) /\ Rest
<1> DEFINE c == call[s]
           d == Moved(c, "reserve", NextTier(c.tier))
<1>1. /\ c.pc = "reserve" /\ c.tier \in Counted /\ ~Capped(c, c.tier) /\ Proceed(s, d)
      /\ UNCHANGED <<plan, now, reqs, toks, spent, made, adm, rec, lost>>
  BY DEF Unlimited
<1>2. c \in CallType /\ "reserve" \in Pcs /\ NextTier(c.tier) \in Tiers
  BY DEF Core, LimiterTypeOK, Pcs, Tiers, Counted, NextTier
<1>3. /\ d \in CallType /\ d.pc = "reserve" /\ d.tier = NextTier(c.tier) /\ d.who = c.who
      /\ d.held = c.held /\ d.min = c.min
  BY <1>2, MovedFacts
<1> HIDE DEF d
<1>4. CallOK(c) /\ CappedTiers(d) = CappedTiers(c)
  BY <1>3 DEF Core, CallsSound, CappedTiers, Capped
<1>5. CappedTiers(c) = CappedTiers(c) \ {c.tier} /\ CappedTiers(c) \subseteq Counted
  BY <1>1 DEF CappedTiers
<1>6. CallOK(d)
  <2>1. CASE c.tier = "project"
    <3>1. c.held = {} /\ CappedTiers(c) \cap {"project"} = {} /\ d.tier = "key"
      BY <1>1, <1>3, <1>4, <1>5, <2>1 DEF CallOK, NextTier
    <3> QED
      BY <1>1, <1>3, <1>4, <3>1 DEF CallOK
  <2>2. CASE c.tier = "key"
    <3>1. c.held = CappedTiers(c) \cap {"project"} /\ CappedTiers(c) \subseteq {"project"} /\ d.tier = "session"
      BY <1>1, <1>3, <1>4, <1>5, <2>2 DEF CallOK, NextTier, Counted
    <3> QED
      BY <1>1, <1>3, <1>4, <3>1 DEF CallOK
  <2> QED
    BY <1>1, <2>1, <2>2 DEF Counted
<1>7. \A t \in Tiers : Debt(d, t) = 0 /\ Debt(c, t) = 0
  BY <1>1, <1>3 DEF Debt
<1>8. \A t \in Tiers : Owes(d, t) => Owes(c, t)
  BY <1>1, <1>3 DEF Owes
<1>9. Quiet(s) /\ away' \in [Slots -> BOOLEAN]
  BY <1>1, <1>3, <1>6, <1>7, <1>8, GoesOnQuietly
<1> QED
  BY <1>1, <1>9 DEF Rest, Core, LimiterTypeOK

LEMMA ReserveFailsStep ==
    ASSUME Core, NEW s \in Slots, ReserveFails(s)
    PROVE  Quiet(s) /\ Rest
<1> DEFINE c == call[s]
           d == Moved(c, "undo", c.tier)
<1>1. /\ c.pc = "reserve" /\ UNCHANGED <<plan, now, reqs, toks, spent, made, adm, rec, lost>>
      /\ c \in CallType /\ c.tier \in Tiers
  BY CallTypes DEF ReserveFails, Core, LimiterTypeOK
<1>2. CASE c.held = {}
  <2>1. Done(s)
    BY <1>2 DEF ReserveFails, GivesBack
  <2> QED
    BY <1>1, <1>2, <2>1, EndsQuietly DEF Rest, Core, LimiterTypeOK
<1>3. CASE c.held # {}
  <2>1. Proceed(s, d) /\ "undo" \in Pcs
    BY <1>3 DEF ReserveFails, GivesBack, Pcs
  <2>2. d \in CallType /\ d.pc = "undo" /\ d.who = c.who /\ d.held = c.held /\ d.min = c.min
    BY <1>1, <2>1, MovedFacts
  <2> HIDE DEF d
  <2>3. CallOK(c) /\ CappedTiers(d) = CappedTiers(c)
    BY <2>2 DEF Core, CallsSound, CappedTiers, Capped
  <2>4. CallOK(d)
    BY <1>1, <1>3, <2>2, <2>3 DEF CallOK
  <2>5. \A t \in Tiers : Debt(d, t) = 0 /\ Debt(c, t) = 0
    BY <1>1, <2>2 DEF Debt
  <2>6. \A t \in Tiers : Owes(d, t) => Owes(c, t)
    BY <1>1, <2>2 DEF Owes
  <2>7. Quiet(s) /\ away' \in [Slots -> BOOLEAN]
    BY <1>1, <2>1, <2>2, <2>4, <2>5, <2>6, GoesOnQuietly
  <2> QED
    BY <1>1, <2>7 DEF Rest, Core, LimiterTypeOK
<1> QED
  BY <1>2, <1>3

LEMMA RetrieveStep ==
    ASSUME Core, NEW s \in Slots, NEW ctx \in Contexts, Retrieve(s, ctx)
    PROVE  Quiet(s) /\ Rest
<1> DEFINE c == call[s]
           again == ctx > 0 /\ \E t \in Counted : t \in c.who /\ Tpm[t] > 0
           r == MovedNow(c, "recheck")
           d == IF again THEN [r EXCEPT !.est = @ + ctx] ELSE MovedNow(c, "record")
<1>1. /\ c.pc = "run" /\ UNCHANGED <<plan, now, reqs, toks, spent, made, adm, rec, lost>>
      /\ Proceed(s, d)
  BY DEF Retrieve
<1>2. /\ c \in CallType /\ now \in Minutes /\ ctx \in Nat /\ c.est \in Nat
      /\ {"recheck", "record"} \subseteq Pcs
  BY CallTypes, PlanFacts DEF Core, LimiterTypeOK, Pcs
<1>3. r \in CallType /\ r.pc = "recheck" /\ r.tier = "project" /\ r.who = c.who /\ r.held = c.held /\ r.est = c.est
  BY <1>2, MovedNowFacts
<1>4. /\ d \in CallType /\ d.pc \in {"recheck", "record"} /\ d.tier = "project"
      /\ d.who = c.who /\ d.held = c.held
  <2>1. CASE again
    <3> HIDE DEF r, again
    <3>1. r.est + ctx \in Nat
      BY <1>2, <1>3
    <3> QED
      BY <1>3, <2>1, <3>1, EstFacts
  <2>2. CASE ~again
    BY <1>2, <2>2, MovedNowFacts
  <2> QED
    BY <2>1, <2>2
<1> HIDE DEF d
<1>5. CallOK(c) /\ CappedTiers(d) = CappedTiers(c)
  BY <1>4 DEF Core, CallsSound, CappedTiers, Capped
<1>6. CallOK(d)
  BY <1>1, <1>4, <1>5 DEF CallOK
<1>7. \A t \in Tiers : Debt(d, t) = 0 /\ Debt(c, t) = 0
  BY <1>1, <1>4 DEF Debt
<1>8. \A t \in Tiers : Owes(d, t) => Owes(c, t)
  BY <1>1, <1>4 DEF Owes
<1>9. Quiet(s) /\ away' \in [Slots -> BOOLEAN]
  BY <1>1, <1>4, <1>6, <1>7, <1>8, GoesOnQuietly
<1> QED
  BY <1>1, <1>9 DEF Rest, Core, LimiterTypeOK

LEMMA RecheckStep ==
    ASSUME Core, NEW s \in Slots, Recheck(s) \/ RecheckFails(s)
    PROVE  Quiet(s) /\ Rest
<1> DEFINE c == call[s]
<1>1. /\ c.pc = "recheck" /\ UNCHANGED <<plan, now, reqs, toks, spent, made, adm, rec, lost>>
      /\ \/ Proceed(s, MovedNow(c, "record"))
         \/ Proceed(s, Moved(c, "recheck", "key"))
  BY DEF Recheck, RecheckFails
<1>2. c \in CallType /\ now \in Minutes /\ {"recheck", "record"} \subseteq Pcs /\ "key" \in Tiers
  BY DEF Core, LimiterTypeOK, Pcs, Tiers, Counted
<1>3. PICK d \in CallType :
          /\ Proceed(s, d) /\ d.who = c.who /\ d.held = c.held
          /\ \/ d.pc = "record" /\ d.tier = "project"
             \/ d.pc = "recheck" /\ d.tier = "key"
  <2>1. CASE Proceed(s, MovedNow(c, "record"))
    BY <1>2, <2>1, MovedNowFacts
  <2>2. CASE Proceed(s, Moved(c, "recheck", "key"))
    BY <1>2, <2>2, MovedFacts
  <2> QED
    BY <1>1, <2>1, <2>2
<1>4. CallOK(c) /\ CappedTiers(d) = CappedTiers(c)
  BY <1>3 DEF Core, CallsSound, CappedTiers, Capped
<1>5. CallOK(d)
  BY <1>1, <1>3, <1>4 DEF CallOK
<1>6. \A t \in Tiers : Debt(d, t) = 0 /\ Debt(c, t) = 0
  BY <1>1, <1>3 DEF Debt
<1>7. \A t \in Tiers : Owes(d, t) => Owes(c, t)
  BY <1>1, <1>3 DEF Owes
<1>8. Quiet(s) /\ away' \in [Slots -> BOOLEAN]
  BY <1>1, <1>3, <1>5, <1>6, <1>7, GoesOnQuietly
<1> QED
  BY <1>1, <1>8 DEF Rest, Core, LimiterTypeOK

LEMMA SkipTierStep ==
    ASSUME Core, NEW s \in Slots, SkipTier(s)
    PROVE  Quiet(s) /\ Rest
<1> DEFINE c == call[s]
           d == Moved(c, "record", NextTier(c.tier))
<1>1. /\ c.pc = "record" /\ c.tier \notin c.who
      /\ UNCHANGED <<plan, now, reqs, toks, spent, made, adm, rec, lost>>
      /\ c \in CallType /\ c.tier \in Tiers /\ c.est \in Nat
  BY CallTypes DEF SkipTier, Core, LimiterTypeOK
<1>2. CASE c.tier = "session"
  <2>1. Done(s)
    BY <1>2 DEF SkipTier
  <2> QED
    BY <1>1, <2>1, EndsQuietly DEF Rest, Core, LimiterTypeOK
<1>3. CASE c.tier # "session"
  <2>1. CallOK(c) /\ "project" \in c.who
    BY <1>1, PlanFacts DEF Core, CallsSound, CallOK
  <2>2. c.tier = "key" /\ NextTier(c.tier) = "session"
    BY <1>1, <1>3, <2>1 DEF Tiers, Counted, NextTier
  <2>3. Proceed(s, d) /\ "record" \in Pcs /\ "session" \in Tiers
    BY <1>3 DEF SkipTier, Pcs, Tiers
  <2>4. d \in CallType /\ d.pc = "record" /\ d.tier = "session" /\ d.who = c.who /\ d.held = c.held /\ d.est = c.est
    BY <1>1, <2>2, <2>3, MovedFacts
  <2> HIDE DEF d
  <2>5. CappedTiers(d) = CappedTiers(c)
    BY <2>4 DEF CappedTiers, Capped
  <2>6. CallOK(d)
    BY <1>1, <2>1, <2>2, <2>4, <2>5 DEF CallOK
  <2>7. \A t \in Tiers : Debt(d, t) <= Debt(c, t)
    BY <1>1, <2>2, <2>4 DEF Debt
  <2>8. \A t \in Tiers : Owes(d, t) => Owes(c, t)
    BY <1>1, <2>2, <2>4 DEF Owes
  <2>9. Quiet(s) /\ away' \in [Slots -> BOOLEAN]
    BY <1>1, <2>3, <2>4, <2>6, <2>7, <2>8, GoesOnQuietly
  <2> QED
    BY <1>1, <2>9 DEF Rest, Core, LimiterTypeOK
<1> QED
  BY <1>2, <1>3

LEMMA RecordFailsStep ==
    ASSUME Core, NEW s \in Slots, RecordFails(s)
    PROVE  Quiet(s) /\ Rest
<1>1. Done(s) /\ call[s].pc = "record" /\ UNCHANGED <<plan, now, reqs, toks, spent, made, adm, rec, lost>>
  BY DEF RecordFails
<1>2. Quiet(s) /\ away' \in [Slots -> BOOLEAN]
  BY <1>1, EndsQuietly
<1> QED
  BY <1>1, <1>2 DEF Rest, Core, LimiterTypeOK

\* No request moves and no counter does: a client leaves, time passes.
LEMMA LeaveStep ==
    ASSUME Core, NEW s \in Slots, Leave(s)
    PROVE  UNCHANGED <<plan, reqs, spent, call, adm, rec, lost>> /\ Rest
BY DEF Leave, Rest, Core, LimiterTypeOK

LEMMA TickStep ==
    ASSUME Core, Tick
    PROVE  UNCHANGED <<plan, reqs, spent, call, adm, rec, lost>> /\ Rest
<1>1. UNCHANGED <<plan, reqs, toks, spent, call, away, made, adm, rec, lost>>
  BY DEF Tick
<1>2. now' \in Minutes
  BY DEF Tick, Core, LimiterTypeOK, Minutes
<1> QED
  BY <1>1, <1>2 DEF Rest, Core, LimiterTypeOK
-----------------------------------------------------------------------------
(* What the move of one request does to the numbers counted.               *)

LEMMA PendingMoves ==
    ASSUME NEW s \in Slots, Only(s), NEW t \in Counted, NEW m \in Minutes
    PROVE  /\ Cardinality(Pending(t, m)) \in Nat /\ Cardinality(Pending(t, m)') \in Nat
           /\ (Holds(call[s], t, m) <=> Holds(call'[s], t, m)) =>
                 Cardinality(Pending(t, m)') = Cardinality(Pending(t, m))
           /\ ~Holds(call[s], t, m) /\ Holds(call'[s], t, m) =>
                 Cardinality(Pending(t, m)') = Cardinality(Pending(t, m)) + 1
           /\ Holds(call[s], t, m) /\ ~Holds(call'[s], t, m) =>
                 Cardinality(Pending(t, m)) = Cardinality(Pending(t, m)') + 1
<1> DEFINE A == {q \in Slots : Holds(call[q], t, m)}
           B == {q \in Slots : Holds(call'[q], t, m)}
<1>1. A \in SUBSET Slots /\ B \in SUBSET Slots /\ A \ {s} = B \ {s}
  BY DEF Only
<1>2. (s \in A <=> Holds(call[s], t, m)) /\ (s \in B <=> Holds(call'[s], t, m))
  OBVIOUS
<1>3. Pending(t, m) = A /\ Pending(t, m)' = B
  BY DEF Pending, Holds
<1> HIDE DEF A, B
<1> QED
  BY <1>1, <1>2, <1>3, OneSlot

LEMMA FittedMoves ==
    ASSUME NEW s \in Slots, Only(s), NEW t \in Counted, NEW m \in Minutes
    PROVE  /\ Cardinality(FittedSlots(t, m)) \in Nat /\ Cardinality(FittedSlots(t, m)') \in Nat
           /\ (Fitted(call'[s], t, m) => Fitted(call[s], t, m)) =>
                 Cardinality(FittedSlots(t, m)') <= Cardinality(FittedSlots(t, m))
           /\ Cardinality(FittedSlots(t, m)') <= Cardinality(FittedSlots(t, m)) + 1
           /\ Fitted(call[s], t, m) /\ ~Fitted(call'[s], t, m) =>
                 Cardinality(FittedSlots(t, m)) = Cardinality(FittedSlots(t, m)') + 1
           /\ Cardinality(FittedSlots(t, m)) <= Cardinality(Pending(t, m))
<1> DEFINE A == {q \in Slots : Fitted(call[q], t, m)}
           B == {q \in Slots : Fitted(call'[q], t, m)}
           C == {q \in Slots : Holds(call[q], t, m)}
<1>1. A \in SUBSET Slots /\ B \in SUBSET Slots /\ A \ {s} = B \ {s}
  BY DEF Only
<1>2. (s \in A <=> Fitted(call[s], t, m)) /\ (s \in B <=> Fitted(call'[s], t, m))
  OBVIOUS
<1>3. FittedSlots(t, m) = A /\ FittedSlots(t, m)' = B /\ Pending(t, m) = C
  BY DEF Pending, Holds, FittedSlots, Fitted
<1>4. A \subseteq C /\ C \subseteq Slots
  BY DEF Holds, Fitted
<1> HIDE DEF A, B, C
<1>5. Cardinality(A) <= Cardinality(C)
  BY <1>4, FS_Subset
<1>6. /\ Cardinality(A) \in Nat /\ Cardinality(B) \in Nat
      /\ (s \in A <=> s \in B) => Cardinality(B) = Cardinality(A)
      /\ s \notin A /\ s \in B => Cardinality(B) = Cardinality(A) + 1
      /\ s \in A /\ s \notin B => Cardinality(A) = Cardinality(B) + 1
  BY <1>1, OneSlot
<1> QED
  BY <1>2, <1>3, <1>5, <1>6

LEMMA DebtorsMove ==
    ASSUME NEW s \in Slots, Only(s), UNCHANGED plan, NEW t \in Tiers
    PROVE  /\ Cardinality(Debtors(t)) \in Nat /\ Cardinality(Debtors(t)') \in Nat
           /\ (Owes(call'[s], t) => Owes(call[s], t)) =>
                 Cardinality(Debtors(t)') <= Cardinality(Debtors(t))
           /\ Owes(call[s], t) /\ ~Owes(call'[s], t) =>
                 Cardinality(Debtors(t)) = Cardinality(Debtors(t)') + 1
           /\ Cardinality(Debtors(t)') <= Cardinality(Slots) /\ Cardinality(Slots) \in Nat
<1> DEFINE A == {q \in Slots : Owes(call[q], t)}
           B == {q \in Slots : Owes(call'[q], t)}
<1>1. A \in SUBSET Slots /\ B \in SUBSET Slots /\ A \ {s} = B \ {s}
  BY DEF Only
<1>2. (s \in A <=> Owes(call[s], t)) /\ (s \in B <=> Owes(call'[s], t))
  OBVIOUS
<1>3. Debtors(t) = A /\ Debtors(t)' = B
  BY DEF Debtors, Owes, Cap, SessionCap, Budget
<1> HIDE DEF A, B
<1>4. Cardinality(B) <= Cardinality(Slots) /\ Cardinality(Slots) \in Nat
  BY <1>1, FS_Subset, FS_CardinalityType
<1>5. /\ Cardinality(A) \in Nat /\ Cardinality(B) \in Nat
      /\ (s \in A <=> s \in B) => Cardinality(B) = Cardinality(A)
      /\ s \notin A /\ s \in B => Cardinality(B) = Cardinality(A) + 1
      /\ s \in A /\ s \notin B => Cardinality(A) = Cardinality(B) + 1
  BY <1>1, OneSlot
<1> QED
  BY <1>2, <1>3, <1>4, <1>5

LEMMA DebtsMove ==
    ASSUME LimiterTypeOK, NEW s \in Slots, Only(s), NEW t \in {"key", "session"}, NEW n \in Nat,
           SumsTo([q \in Slots |-> Debt(call[q], t)], n)
    PROVE  /\ n - Debt(call[s], t) \in Nat
           /\ n - Debt(call[s], t) + Debt(call'[s], t) \in Nat
           /\ Debt(call[s], t) \in Nat /\ Debt(call'[s], t) \in Nat
           /\ SumsTo([q \in Slots |-> Debt(call'[q], t)], n - Debt(call[s], t) + Debt(call'[s], t))
<1> DEFINE w == [q \in Slots |-> Debt(call[q], t)]
           v == [q \in Slots |-> Debt(call'[q], t)]
<1>1. t \in Tiers /\ \A q \in Slots : call[q] \in CallType /\ call'[q] \in CallType
  BY DEF LimiterTypeOK, Only, Tiers, Counted
<1>2. w \in [Slots -> Nat] /\ v \in [Slots -> Nat]
  BY <1>1, DebtType
<1>3. \A q \in Slots \ {s} : v[q] = w[q]
  BY DEF Only
<1>4. w[s] = Debt(call[s], t) /\ v[s] = Debt(call'[s], t) /\ w[s] \in Nat /\ v[s] \in Nat
  BY <1>2
<1>5. SumsTo(w, n)
  OBVIOUS
<1> HIDE DEF w, v
<1>6. n - w[s] \in Nat /\ SumsTo(v, n - w[s] + v[s])
  BY <1>2, <1>3, <1>5, SumMoves
<1>7. n - w[s] + v[s] \in Nat
  BY <1>4, <1>6
<1> QED
  BY <1>4, <1>6, <1>7 DEF v
-----------------------------------------------------------------------------
(* The numbers after a step.                                               *)

LEMMA Times ==
    ASSUME NEW a \in Nat, NEW b \in Nat, NEW n \in Nat
    PROVE  a * n \in Nat /\ (a <= b => a * n <= b * n) /\ (a = b + 1 => a * n = b * n + n)
<1>1. a <= b => a * n <= b * n
  <2>1. SUFFICES ASSUME a <= b PROVE a * n <= b * n
    OBVIOUS
  <2>2. b - a \in Nat /\ b = a + (b - a)
    BY <2>1
  <2>3. b * n = a * n + (b - a) * n
    BY <2>2
  <2>4. (b - a) * n \in Nat /\ a * n \in Nat
    BY <2>2
  <2> QED
    BY <2>3, <2>4
<1> QED
  BY <1>1

LEMMA Room ==
    ASSUME NEW p \in Nat, NEW p2 \in Nat, NEW cap \in Nat, NEW most \in Nat,
           NEW owed \in Nat, NEW owed2 \in Nat, NEW full \in Nat,
           p + owed < cap + full, owed2 <= full,
           \/ p2 = p /\ (owed2 <= owed \/ p < cap)
           \/ owed = owed2 + most /\ p2 <= p + most
    PROVE  p2 + owed2 < cap + full
OBVIOUS

\* A step moves one request: what it pays it owed before, and who owes more
\* saw room.
LEMMA SpendingStep ==
    ASSUME LimiterInv, NEW s \in Slots, Only(s), UNCHANGED plan, spent' \in [Tiers -> Nat],
           \A t \in Tiers : Cap(t) > 0 =>
              \/ spent'[t] = spent[t] /\ (Owes(call'[s], t) => Owes(call[s], t) \/ spent[t] < Cap(t))
              \/ Owes(call[s], t) /\ ~Owes(call'[s], t) /\ spent'[t] <= spent[t] + MaxCost
    PROVE  SpendingBounded'
<1> SUFFICES ASSUME NEW t \in Tiers, Cap(t) > 0
             PROVE  spent'[t] + Cardinality(Debtors(t)') * MaxCost < Cap(t) + Cardinality(Slots) * MaxCost
  BY DEF SpendingBounded, Cap, SessionCap, Budget, MaxCost, Costs
<1> DEFINE k == Cardinality(Debtors(t))
           l == Cardinality(Debtors(t)')
           n == Cardinality(Slots)
<1>1. /\ k \in Nat /\ l \in Nat /\ n \in Nat /\ l <= n
      /\ (Owes(call'[s], t) => Owes(call[s], t)) => l <= k
      /\ Owes(call[s], t) /\ ~Owes(call'[s], t) => k = l + 1
  BY DebtorsMove
<1>2. /\ spent[t] \in Nat /\ spent'[t] \in Nat /\ Cap(t) \in Nat /\ MaxCost \in Nat
  BY PlanFacts DEF LimiterInv, LimiterTypeOK, Cap, Tiers
<1>3. spent[t] + k * MaxCost < Cap(t) + n * MaxCost
  BY DEF LimiterInv, Counts, SpendingBounded
<1>4. /\ k * MaxCost \in Nat /\ l * MaxCost \in Nat /\ n * MaxCost \in Nat
      /\ l <= n => l * MaxCost <= n * MaxCost
      /\ l <= k => l * MaxCost <= k * MaxCost
      /\ k = l + 1 => k * MaxCost = l * MaxCost + MaxCost
  BY <1>1, <1>2, Times
<1>5. CASE spent'[t] = spent[t] /\ (Owes(call'[s], t) => Owes(call[s], t) \/ spent[t] < Cap(t))
  <2>1. l <= k \/ spent[t] < Cap(t)
    BY <1>1, <1>5
  <2>2. l * MaxCost <= k * MaxCost \/ spent[t] < Cap(t)
    BY <2>1, <1>4
  <2> HIDE DEF k, l, n
  <2>3. spent'[t] + l * MaxCost < Cap(t) + n * MaxCost
    BY <2>2, <1>1, <1>2, <1>3, <1>4, <1>5, Room
  <2> QED
    BY <2>3 DEF l, n
<1>6. CASE Owes(call[s], t) /\ ~Owes(call'[s], t) /\ spent'[t] <= spent[t] + MaxCost
  <2>1. k * MaxCost = l * MaxCost + MaxCost
    BY <1>1, <1>4, <1>6
  <2> HIDE DEF k, l, n
  <2>2. spent'[t] + l * MaxCost < Cap(t) + n * MaxCost
    BY <2>1, <1>1, <1>2, <1>3, <1>4, <1>6, Room
  <2> QED
    BY <2>2 DEF l, n
<1> QED
  BY <1>5, <1>6

\* What the project is charged first, its tiers follow.
LEMMA DebtStep ==
    ASSUME LimiterInv, NEW s \in Slots, Only(s), spent' \in [Tiers -> Nat],
           \A t \in {"key", "session"} :
              spent'[t] + Debt(call'[s], t) - spent'["project"]
                 <= spent[t] + Debt(call[s], t) - spent["project"]
    PROVE  DebtsCovered'
<1> SUFFICES ASSUME NEW t \in {"key", "session"}
             PROVE  \E n \in Nat : /\ SumsTo([q \in Slots |-> Debt(call'[q], t)], n)
                                   /\ spent'[t] + n <= spent'["project"]
  BY DEF DebtsCovered, Debt, SumsTo
<1>1. PICK n \in Nat : SumsTo([q \in Slots |-> Debt(call[q], t)], n) /\ spent[t] + n <= spent["project"]
  BY DEF LimiterInv, Counts, DebtsCovered
<1>2. /\ n - Debt(call[s], t) + Debt(call'[s], t) \in Nat
      /\ Debt(call[s], t) \in Nat /\ Debt(call'[s], t) \in Nat
      /\ SumsTo([q \in Slots |-> Debt(call'[q], t)], n - Debt(call[s], t) + Debt(call'[s], t))
  BY <1>1, DebtsMove DEF LimiterInv
<1>3. /\ spent[t] \in Nat /\ spent'[t] \in Nat /\ spent["project"] \in Nat /\ spent'["project"] \in Nat
  BY DEF LimiterInv, LimiterTypeOK, Tiers, Counted
<1>4. spent'[t] + Debt(call'[s], t) - spent'["project"] <= spent[t] + Debt(call[s], t) - spent["project"]
  OBVIOUS
<1>5. spent'[t] + (n - Debt(call[s], t) + Debt(call'[s], t)) <= spent'["project"]
  BY <1>1, <1>2, <1>3, <1>4
<1> QED
  BY <1>2, <1>5

LEMMA CallsStep ==
    ASSUME LimiterInv, NEW s \in Slots, Only(s), CallOK(call'[s]), UNCHANGED plan
    PROVE  CallsSound'
<1>1. \A q \in Slots : CallOK(call'[q])
  BY DEF LimiterInv, CallsSound, Only
<1> QED
  BY <1>1 DEF CallsSound, CallOK, CappedTiers, Capped, Rpm, Subjects, Costs

\* The counters of a quiet step.
LEMMA QuietStep ==
    ASSUME LimiterInv, NEW s \in Slots, Quiet(s), Rest
    PROVE  LimiterInv'
<1>1. LimiterTypeOK'
  BY DEF LimiterInv, LimiterTypeOK, Quiet, Rest, Only
<1>2. CallsSound'
  BY CallsStep DEF Quiet
<1>3. Only(s) /\ UNCHANGED <<plan, reqs, spent, adm, rec, lost>>
  BY DEF Quiet
<1>4. Rpm' = Rpm /\ Rpm \in [Counted -> Nat]
  BY <1>3, PlanFacts DEF Rpm, LimiterInv
<1>5. SlotsAccounted'
  <2>1. ASSUME NEW t \in Counted, NEW m \in Minutes
        PROVE  Cardinality(Pending(t, m)') = Cardinality(Pending(t, m))
    BY <1>3, PendingMoves DEF Quiet
  <2>2. ASSUME NEW t \in Counted, NEW m \in Minutes, Rpm'[t] > 0
        PROVE  reqs'[t][m] = adm'[t][m] + Cardinality(Pending(t, m)') + lost'[t][m]
    BY <2>1, <2>2, <1>3, <1>4 DEF LimiterInv, Counts, SlotsAccounted
  <2> QED
    BY <2>2 DEF SlotsAccounted
<1>6. CountedOnce'
  BY <1>3, <1>4 DEF LimiterInv, Counts, CountedOnce
<1>7. NoOverGrant'
  <2>1. ASSUME NEW t \in Counted, NEW m \in Minutes, Rpm[t] > 0
        PROVE  adm'[t][m] + Cardinality(FittedSlots(t, m)') <= Rpm[t]
    <3>1. /\ Cardinality(FittedSlots(t, m)) \in Nat /\ Cardinality(FittedSlots(t, m)') \in Nat
          /\ Cardinality(FittedSlots(t, m)') <= Cardinality(FittedSlots(t, m))
      BY <1>3, FittedMoves DEF Quiet
    <3>2. adm[t][m] \in Nat /\ adm'[t][m] = adm[t][m] /\ Rpm[t] \in Nat
      BY <1>3, <1>4 DEF LimiterInv, LimiterTypeOK
    <3>3. adm[t][m] + Cardinality(FittedSlots(t, m)) <= Rpm[t]
      BY <2>1 DEF LimiterInv, Counts, NoOverGrant
    <3> QED
      BY <3>1, <3>2, <3>3
  <2> QED
    BY <2>1, <1>4 DEF NoOverGrant
<1>8. SpendingBounded'
  BY <1>1, <1>3, SpendingStep DEF Quiet, LimiterTypeOK
<1>9. DebtsCovered'
  <2>1. ASSUME NEW t \in {"key", "session"}
        PROVE  spent'[t] + Debt(call'[s], t) - spent'["project"]
                  <= spent[t] + Debt(call[s], t) - spent["project"]
    <3>1. t \in Tiers /\ "project" \in Tiers /\ call[s] \in CallType /\ call'[s] \in CallType
      BY <1>1 DEF LimiterInv, LimiterTypeOK, Tiers, Counted
    <3>2. Debt(call[s], t) \in Nat /\ Debt(call'[s], t) \in Nat /\ Debt(call'[s], t) <= Debt(call[s], t)
      BY <3>1, DebtType DEF Quiet
    <3>3. spent[t] \in Nat /\ spent["project"] \in Nat /\ spent' = spent
      BY <3>1, <1>3 DEF LimiterInv, LimiterTypeOK
    <3> QED
      BY <3>2, <3>3
  <2> QED
    BY <1>1, <1>3, <2>1, DebtStep DEF LimiterTypeOK
<1> QED
  BY <1>1, <1>2, <1>5, <1>6, <1>7, <1>8, <1>9 DEF LimiterInv, Counts
-----------------------------------------------------------------------------
(* The steps that count.                                                   *)

\* Nothing is spent and nobody owes more.
LEMMA FreeStep ==
    ASSUME LimiterInv, NEW s \in Slots, Only(s), UNCHANGED <<plan, spent>>, CallOK(call'[s]),
           call[s].pc # "record", call'[s].pc # "record",
           \A t \in Tiers : Owes(call'[s], t) => Owes(call[s], t)
    PROVE  CallsSound' /\ SpendingBounded' /\ DebtsCovered'
<1>1. spent' \in [Tiers -> Nat]
  BY DEF LimiterInv, LimiterTypeOK
<1>2. \A t \in {"key", "session"} : Debt(call[s], t) = 0 /\ Debt(call'[s], t) = 0
  BY DEF Debt
<1>3. \A t \in {"key", "session"} :
         spent'[t] + Debt(call'[s], t) - spent'["project"]
            <= spent[t] + Debt(call[s], t) - spent["project"]
  BY <1>1, <1>2 DEF Tiers, Counted
<1> QED
  BY <1>1, <1>3, CallsStep, SpendingStep, DebtStep

LEMMA ReserveStep ==
    ASSUME LimiterInv, NEW s \in Slots, Reserve(s)
    PROVE  LimiterInv'
<1> DEFINE c == call[s]
           d == call'[s]
           t == c.tier
           n == reqs[t][c.min] + 1
           H == c.held \cup {t}
           up == Moved(c, "reserve", NextTier(t))
           dn == Moved(c, "undo", t)
<1>1. /\ c.pc = "reserve" /\ t \in Counted /\ Capped(c, t)
      /\ reqs' = [reqs EXCEPT ![t][c.min] = n]
      /\ UNCHANGED <<plan, now, toks, spent, made, adm, rec, lost>>
  BY DEF Reserve
<1>2. c \in CallType /\ c.min \in Minutes /\ t \in Tiers /\ NextTier(t) \in Tiers /\ {"reserve", "undo"} \subseteq Pcs
      /\ c.held \subseteq Counted
  BY CallTypes DEF LimiterInv, LimiterTypeOK, NextTier, Tiers, Counted, Pcs
<1>3. /\ up \in CallType /\ up.pc = "reserve" /\ up.tier = NextTier(t) /\ up.who = c.who
      /\ up.min = c.min /\ up.held = c.held
      /\ dn \in CallType /\ dn.pc = "undo" /\ dn.tier = t /\ dn.who = c.who
      /\ dn.min = c.min /\ dn.held = c.held
  BY <1>2, MovedFacts
<1>4. Proceed(s, IF Fits(c, t, n) THEN [up EXCEPT !.held = @ \cup {t}] ELSE [dn EXCEPT !.held = Undoes(c, t)])
  BY DEF Reserve
<1> HIDE DEF up, dn
<1>5. H \subseteq Counted
  BY <1>1, <1>2
<1>6. /\ Only(s) /\ d \in CallType /\ away' \in [Slots -> BOOLEAN]
      /\ d.who = c.who /\ d.min = c.min /\ d.held = H
      /\ \/ d.pc = "reserve" /\ d.tier = NextTier(t) /\ Fits(c, t, n)
         \/ d.pc = "undo" /\ ~Fits(c, t, n)
  <2>1. CASE Fits(c, t, n)
    <3>1. Proceed(s, [up EXCEPT !.held = H])
      BY <1>3, <1>4, <2>1
    <3>2. LET e == [up EXCEPT !.held = H] IN
          e \in CallType /\ e.held = H /\ e.pc = "reserve" /\ e.tier = NextTier(t) /\ e.who = c.who /\ e.min = c.min
      BY <1>3, <1>5, HeldFacts
    <3> QED
      BY <3>1, <3>2, <2>1, ProceedFacts DEF LimiterInv
  <2>2. CASE ~Fits(c, t, n)
    <3>1. Proceed(s, [dn EXCEPT !.held = H])
      BY <1>4, <2>2 DEF Undoes
    <3>2. LET e == [dn EXCEPT !.held = H] IN
          e \in CallType /\ e.held = H /\ e.pc = "undo" /\ e.who = c.who /\ e.min = c.min
      BY <1>3, <1>5, HeldFacts
    <3> QED
      BY <3>1, <3>2, <2>2, ProceedFacts DEF LimiterInv
  <2> QED
    BY <2>1, <2>2
<1>7. CallOK(c) /\ CappedTiers(d) = CappedTiers(c)
  BY <1>6 DEF LimiterInv, CallsSound, CappedTiers, Capped
<1>8. /\ t \notin c.held /\ H \subseteq CappedTiers(c)
      /\ t = "project" => H = CappedTiers(c) \cap {"project"}
      /\ t = "key" => H = CappedTiers(c)
  <2>1. CappedTiers(c) \subseteq Counted /\ t \in CappedTiers(c)
    BY <1>1 DEF CappedTiers
  <2>2. CASE t = "project"
    BY <1>1, <1>7, <2>1, <2>2 DEF CallOK
  <2>3. CASE t = "key"
    BY <1>1, <1>7, <2>1, <2>3 DEF CallOK, Counted
  <2> QED
    BY <1>1, <2>2, <2>3 DEF Counted
<1> HIDE DEF d
<1>9. CallOK(d)
  <2>1. t = "project" => NextTier(t) = "key"
    BY DEF NextTier
  <2>2. t = "key" => NextTier(t) = "session"
    BY DEF NextTier
  <2>3. t = "project" \/ t = "key"
    BY <1>1 DEF Counted
  <2> HIDE DEF H
  <2>4. H # {}
    BY DEF H
  <2> QED
    BY <1>1, <1>6, <1>7, <1>8, <2>1, <2>2, <2>3, <2>4 DEF CallOK
<1>10. \A u \in Tiers : Owes(d, u) => Owes(c, u)
  BY <1>1, <1>6 DEF Owes
<1>11. CallsSound' /\ SpendingBounded' /\ DebtsCovered'
  BY <1>1, <1>6, <1>9, <1>10, FreeStep DEF d
<1>12. reqs' \in [Counted -> [Minutes -> Nat]]
  BY <1>1, <1>2 DEF LimiterInv, LimiterTypeOK
<1>13. LimiterTypeOK'
  BY <1>1, <1>6, <1>12 DEF LimiterInv, LimiterTypeOK, Only
<1>14. /\ Rpm' = Rpm /\ Rpm \in [Counted -> Nat] /\ Rpm[t] > 0
  BY <1>1, PlanFacts DEF Rpm, LimiterInv, Capped
<1>15. ASSUME NEW u \in Counted, NEW m \in Minutes
       PROVE  reqs'[u][m] = IF u = t /\ m = c.min THEN reqs[u][m] + 1 ELSE reqs[u][m]
  BY <1>1, <1>2 DEF LimiterInv, LimiterTypeOK
<1>16. ASSUME NEW u \in Counted, NEW m \in Minutes
       PROVE  Cardinality(Pending(u, m)') = IF u = t /\ m = c.min THEN Cardinality(Pending(u, m)) + 1
                                            ELSE Cardinality(Pending(u, m))
  <2>1. ~Holds(c, t, c.min) /\ Holds(d, t, c.min)
    BY <1>6, <1>8 DEF Holds
  <2>2. ~(u = t /\ m = c.min) => (Holds(c, u, m) <=> Holds(d, u, m))
    BY <1>1, <1>6 DEF Holds
  <2> QED
    BY <1>6, <2>1, <2>2, PendingMoves DEF d
<1>17. SlotsAccounted'
  <2>1. ASSUME NEW u \in Counted, NEW m \in Minutes, Rpm[u] > 0
        PROVE  reqs'[u][m] = adm'[u][m] + Cardinality(Pending(u, m)') + lost'[u][m]
    <3>1. reqs[u][m] = adm[u][m] + Cardinality(Pending(u, m)) + lost[u][m]
      BY <2>1 DEF LimiterInv, Counts, SlotsAccounted
    <3>2. adm[u][m] \in Nat /\ lost[u][m] \in Nat /\ Cardinality(Pending(u, m)) \in Nat
      BY <1>6, PendingMoves DEF LimiterInv, LimiterTypeOK
    <3> QED
      BY <3>1, <3>2, <1>1, <1>15, <1>16
  <2> QED
    BY <2>1, <1>14 DEF SlotsAccounted
<1>18. CountedOnce'
  <2>1. ASSUME NEW u \in Counted, NEW m \in Minutes, Rpm[u] = 0
        PROVE  reqs'[u][m] = rec'[u][m]
    BY <2>1, <1>1, <1>14, <1>15 DEF LimiterInv, Counts, CountedOnce
  <2> QED
    BY <2>1, <1>14 DEF CountedOnce
<1>19. NoOverGrant'
  <2>1. ASSUME NEW u \in Counted, NEW m \in Minutes, Rpm[u] > 0
        PROVE  adm'[u][m] + Cardinality(FittedSlots(u, m)') <= Rpm[u]
    <3>1. adm[u][m] \in Nat /\ lost[u][m] \in Nat /\ Rpm[u] \in Nat
      BY <1>14 DEF LimiterInv, LimiterTypeOK
    <3>2. /\ Cardinality(FittedSlots(u, m)) \in Nat /\ Cardinality(FittedSlots(u, m)') \in Nat
          /\ (Fitted(d, u, m) => Fitted(c, u, m)) =>
                Cardinality(FittedSlots(u, m)') <= Cardinality(FittedSlots(u, m))
          /\ Cardinality(FittedSlots(u, m)') <= Cardinality(FittedSlots(u, m)) + 1
          /\ Cardinality(FittedSlots(u, m)) <= Cardinality(Pending(u, m))
          /\ Cardinality(Pending(u, m)) \in Nat
      BY <1>6, FittedMoves, PendingMoves DEF d
    <3>3. /\ adm[u][m] + Cardinality(FittedSlots(u, m)) <= Rpm[u] /\ adm' = adm
          /\ reqs[u][m] = adm[u][m] + Cardinality(Pending(u, m)) + lost[u][m]
      BY <2>1, <1>1 DEF LimiterInv, Counts, NoOverGrant, SlotsAccounted
    <3>4. CASE Fitted(d, u, m) => Fitted(c, u, m)
      BY <3>1, <3>2, <3>3, <3>4
    <3>5. CASE Fitted(d, u, m) /\ ~Fitted(c, u, m)
      <4>1. u = t /\ m = c.min /\ Fits(c, t, n)
        BY <3>5, <1>1, <1>6 DEF Fitted
      <4>2. reqs[u][m] + 1 <= Rpm[u]
        BY <4>1 DEF Fits
      <4> QED
        BY <3>1, <3>2, <3>3, <4>2
    <3> QED
      BY <3>4, <3>5
  <2> QED
    BY <2>1, <1>14 DEF NoOverGrant
<1> QED
  BY <1>11, <1>13, <1>17, <1>18, <1>19 DEF LimiterInv, Counts

LEMMA RowsType ==
    ASSUME NEW f \in [Counted -> [Minutes -> Nat]], NEW t \in Counted, NEW m \in Minutes, NEW n \in Nat
    PROVE  [f EXCEPT ![t][m] = n] \in [Counted -> [Minutes -> Nat]]
OBVIOUS

\* An increment whose answer is lost counts for a slot nobody holds.
LEMMA ReserveUnansweredStep ==
    ASSUME LimiterInv, NEW s \in Slots, ReserveUnanswered(s)
    PROVE  LimiterInv'
<1> DEFINE c == call[s]
           d == call'[s]
           t == c.tier
           e == Moved(c, "undo", t)
<1>1. /\ c.pc = "reserve" /\ t \in Counted /\ Rpm[t] > 0
      /\ reqs' = [reqs EXCEPT ![t][c.min] = @ + 1]
      /\ lost' = [lost EXCEPT ![t][c.min] = @ + 1]
      /\ UNCHANGED <<plan, now, toks, spent, made, adm, rec>>
  BY DEF ReserveUnanswered, Capped
<1>2. CallOK(c) /\ c \in CallType /\ c.min \in Minutes /\ c.held \subseteq Counted /\ t \in Tiers /\ "undo" \in Pcs
  BY CallTypes DEF LimiterInv, CallsSound, LimiterTypeOK, Pcs
<1>3. /\ Only(s) /\ d \in CallType /\ away' \in [Slots -> BOOLEAN] /\ d.held = c.held
      /\ \/ d.pc = "idle" /\ d.held = {}
         \/ d.pc = "undo" /\ d.held # {} /\ d.who = c.who /\ d.min = c.min
  <2>1. CASE c.held = {}
    <3>1. Done(s)
      BY <2>1 DEF ReserveUnanswered, GivesBack
    <3> QED
      BY <2>1, <3>1, DoneFacts DEF LimiterInv, Only
  <2>2. CASE c.held # {}
    <3>1. Proceed(s, e)
      BY <2>2 DEF ReserveUnanswered, GivesBack
    <3>2. e \in CallType /\ e.pc = "undo" /\ e.who = c.who /\ e.held = c.held /\ e.min = c.min
      BY <1>2, MovedFacts
    <3> HIDE DEF e
    <3> QED
      BY <2>2, <3>1, <3>2, ProceedFacts DEF LimiterInv
  <2> QED
    BY <2>1, <2>2
<1> HIDE DEF d
<1>4. CallOK(d)
  <2>1. d.pc = "undo" => CappedTiers(d) = CappedTiers(c)
    BY <1>3 DEF CappedTiers, Capped
  <2>2. CASE d.pc = "undo"
    BY <1>1, <1>2, <1>3, <2>1, <2>2 DEF CallOK
  <2>3. CASE d.pc = "idle"
    BY <1>3, <2>3 DEF CallOK
  <2> QED
    BY <1>3, <2>2, <2>3
<1>5. \A u \in Tiers : Owes(d, u) => Owes(c, u)
  BY <1>1, <1>3 DEF Owes
<1>6. CallsSound' /\ SpendingBounded' /\ DebtsCovered'
  BY <1>1, <1>3, <1>4, <1>5, FreeStep DEF d
<1>7. /\ Rpm' = Rpm /\ Rpm \in [Counted -> Nat]
  BY <1>1, PlanFacts DEF Rpm, LimiterInv
<1>8. ASSUME NEW u \in Counted, NEW m \in Minutes
      PROVE  /\ Cardinality(Pending(u, m)) \in Nat
             /\ Cardinality(Pending(u, m)') = Cardinality(Pending(u, m))
  <2>1. Holds(c, u, m) <=> Holds(d, u, m)
    BY <1>1, <1>3 DEF Holds
  <2> QED
    BY <1>3, <2>1, PendingMoves DEF d
<1>9. ASSUME NEW u \in Counted, NEW m \in Minutes
      PROVE  /\ reqs[u][m] \in Nat /\ adm[u][m] \in Nat /\ lost[u][m] \in Nat
             /\ \/ u = t /\ reqs'[u][m] = reqs[u][m] + 1 /\ lost'[u][m] = lost[u][m] + 1
                \/ reqs'[u][m] = reqs[u][m] /\ lost'[u][m] = lost[u][m]
  BY <1>1, <1>2 DEF LimiterInv, LimiterTypeOK
<1>10. LimiterTypeOK'
  <2>1. reqs[t][c.min] + 1 \in Nat /\ lost[t][c.min] + 1 \in Nat
    BY <1>1, <1>2, <1>9
  <2>2. reqs \in [Counted -> [Minutes -> Nat]] /\ lost \in [Counted -> [Minutes -> Nat]]
    BY DEF LimiterInv, LimiterTypeOK
  <2>3. /\ reqs' = [reqs EXCEPT ![t][c.min] = reqs[t][c.min] + 1]
        /\ lost' = [lost EXCEPT ![t][c.min] = lost[t][c.min] + 1]
    BY <1>1
  <2>4. reqs' \in [Counted -> [Minutes -> Nat]]
    BY <1>1, <1>2, <2>1, <2>2, <2>3, RowsType
  <2>5. lost' \in [Counted -> [Minutes -> Nat]]
    BY <1>1, <1>2, <2>1, <2>2, <2>3, RowsType
  <2> QED
    BY <1>1, <1>3, <2>4, <2>5 DEF LimiterInv, LimiterTypeOK, Only
<1>11. SlotsAccounted'
  <2>1. ASSUME NEW u \in Counted, NEW m \in Minutes, Rpm[u] > 0
        PROVE  reqs'[u][m] = adm'[u][m] + Cardinality(Pending(u, m)') + lost'[u][m]
    <3>1. reqs[u][m] = adm[u][m] + Cardinality(Pending(u, m)) + lost[u][m] /\ adm' = adm
      BY <2>1, <1>1 DEF LimiterInv, Counts, SlotsAccounted
    <3> QED
      BY <3>1, <1>8, <1>9
  <2> QED
    BY <2>1, <1>7 DEF SlotsAccounted
<1>12. CountedOnce'
  <2>1. ASSUME NEW u \in Counted, NEW m \in Minutes, Rpm[u] = 0
        PROVE  reqs'[u][m] = rec'[u][m]
    BY <2>1, <1>1, <1>9 DEF LimiterInv, Counts, CountedOnce
  <2> QED
    BY <2>1, <1>7 DEF CountedOnce
<1>13. NoOverGrant'
  <2>1. ASSUME NEW u \in Counted, NEW m \in Minutes, Rpm[u] > 0
        PROVE  adm'[u][m] + Cardinality(FittedSlots(u, m)') <= Rpm[u]
    <3>1. ~Fitted(d, u, m)
      BY <1>3 DEF Fitted
    <3>2. /\ Cardinality(FittedSlots(u, m)) \in Nat /\ Cardinality(FittedSlots(u, m)') \in Nat
          /\ Cardinality(FittedSlots(u, m)') <= Cardinality(FittedSlots(u, m))
      BY <1>3, <3>1, FittedMoves DEF d
    <3>3. adm[u][m] + Cardinality(FittedSlots(u, m)) <= Rpm[u] /\ adm' = adm
      BY <2>1, <1>1 DEF LimiterInv, Counts, NoOverGrant
    <3> QED
      BY <3>2, <3>3, <1>7, <1>9
  <2> QED
    BY <2>1, <1>7 DEF NoOverGrant
<1> QED
  BY <1>6, <1>10, <1>11, <1>12, <1>13 DEF LimiterInv, Counts

LEMMA UndoStep ==
    ASSUME LimiterInv, NEW s \in Slots, Undo(s)
    PROVE  LimiterInv'
<1> DEFINE c == call[s]
           d == call'[s]
           t == FirstHeld(c)
           H == c.held \ {t}
<1>1. /\ c.pc = "undo" /\ reqs' = [reqs EXCEPT ![t][c.min] = Less(@)]
      /\ IF c.held = {t} THEN Done(s) ELSE Proceed(s, [c EXCEPT !.held = @ \ {t}])
      /\ UNCHANGED <<plan, now, toks, spent, made, adm, rec, lost>>
  BY DEF Undo
<1>2. CallOK(c) /\ c \in CallType /\ c.min \in Minutes /\ c.held \subseteq Counted
  BY CallTypes DEF LimiterInv, CallsSound, LimiterTypeOK
<1>3. t \in c.held /\ t \in Counted /\ Rpm[t] > 0
  <2>1. c.held # {} /\ c.held \subseteq CappedTiers(c)
    BY <1>1, <1>2 DEF CallOK
  <2>2. t \in c.held
    BY <1>2, <2>1 DEF FirstHeld, Counted
  <2> QED
    BY <1>2, <2>1, <2>2 DEF CappedTiers, Capped
<1> HIDE DEF t
<1>4. /\ Only(s) /\ d \in CallType /\ away' \in [Slots -> BOOLEAN] /\ d.held = H
      /\ \/ d.pc = "idle" /\ H = {}
         \/ d.pc = "undo" /\ H # {} /\ d.who = c.who /\ d.min = c.min
  <2>1. CASE c.held = {t}
    BY <1>1, <2>1, DoneFacts DEF LimiterInv, Only
  <2>2. CASE c.held # {t}
    <3>1. Proceed(s, [c EXCEPT !.held = H]) /\ H # {} /\ H \subseteq Counted
      BY <1>1, <1>2, <1>3, <2>2
    <3>2. LET e == [c EXCEPT !.held = H] IN
          e \in CallType /\ e.held = H /\ e.pc = "undo" /\ e.who = c.who /\ e.min = c.min
      BY <1>1, <1>2, <3>1, HeldFacts
    <3> QED
      BY <3>1, <3>2, ProceedFacts DEF LimiterInv
  <2> QED
    BY <2>1, <2>2
<1> HIDE DEF d
<1>5. CallOK(d)
  <2>1. d.pc = "undo" => CappedTiers(d) = CappedTiers(c)
    BY <1>4 DEF CappedTiers, Capped
  <2>2. CASE d.pc = "undo"
    BY <1>1, <1>2, <1>4, <2>1, <2>2 DEF CallOK
  <2>3. CASE d.pc = "idle"
    BY <1>4, <2>3 DEF CallOK
  <2> QED
    BY <1>4, <2>2, <2>3
<1>6. \A u \in Tiers : Owes(d, u) => Owes(c, u)
  BY <1>1, <1>4 DEF Owes
<1>7. CallsSound' /\ SpendingBounded' /\ DebtsCovered'
  BY <1>1, <1>4, <1>5, <1>6, FreeStep DEF d
<1>8. /\ Rpm' = Rpm /\ Rpm \in [Counted -> Nat]
  BY <1>1, PlanFacts DEF Rpm, LimiterInv
<1>9. ASSUME NEW u \in Counted, NEW m \in Minutes
      PROVE  /\ Cardinality(Pending(u, m)) \in Nat /\ Cardinality(Pending(u, m)') \in Nat
             /\ u = t /\ m = c.min => Cardinality(Pending(u, m)) = Cardinality(Pending(u, m)') + 1
             /\ ~(u = t /\ m = c.min) => Cardinality(Pending(u, m)') = Cardinality(Pending(u, m))
  <2>1. Holds(c, t, c.min) /\ ~Holds(d, t, c.min)
    BY <1>1, <1>3, <1>4 DEF Holds
  <2>2. ~(u = t /\ m = c.min) => (Holds(c, u, m) <=> Holds(d, u, m))
    <3>1. u \in H <=> u \in c.held /\ u # t
      OBVIOUS
    <3> QED
      BY <1>1, <1>4, <3>1 DEF Holds
  <2> QED
    BY <1>4, <2>1, <2>2, PendingMoves DEF d
<1>10. ASSUME NEW u \in Counted, NEW m \in Minutes
       PROVE  /\ reqs[u][m] \in Nat /\ adm[u][m] \in Nat /\ lost[u][m] \in Nat
              /\ reqs'[u][m] = IF u = t /\ m = c.min THEN Less(reqs[u][m]) ELSE reqs[u][m]
  BY <1>1, <1>2, <1>3 DEF LimiterInv, LimiterTypeOK
<1>11. reqs' \in [Counted -> [Minutes -> Nat]]
  <2>1. Less(reqs[t][c.min]) \in Nat
    BY <1>2, <1>3, <1>10 DEF Less
  <2> QED
    BY <1>1, <1>2, <1>3, <2>1 DEF LimiterInv, LimiterTypeOK
<1>12. LimiterTypeOK'
  BY <1>1, <1>4, <1>11 DEF LimiterInv, LimiterTypeOK, Only
<1>13. SlotsAccounted'
  <2>1. ASSUME NEW u \in Counted, NEW m \in Minutes, Rpm[u] > 0
        PROVE  reqs'[u][m] = adm'[u][m] + Cardinality(Pending(u, m)') + lost'[u][m]
    <3>1. reqs[u][m] = adm[u][m] + Cardinality(Pending(u, m)) + lost[u][m]
      BY <2>1 DEF LimiterInv, Counts, SlotsAccounted
    <3>2. adm' = adm /\ lost' = lost
      BY <1>1
    <3>3. CASE u = t /\ m = c.min
      BY <3>1, <3>2, <3>3, <1>9, <1>10 DEF Less
    <3>4. CASE ~(u = t /\ m = c.min)
      BY <3>1, <3>2, <3>4, <1>9, <1>10
    <3> QED
      BY <3>3, <3>4
  <2> QED
    BY <2>1, <1>8 DEF SlotsAccounted
<1>14. CountedOnce'
  <2>1. ASSUME NEW u \in Counted, NEW m \in Minutes, Rpm[u] = 0
        PROVE  reqs'[u][m] = rec'[u][m]
    BY <2>1, <1>1, <1>3, <1>10 DEF LimiterInv, Counts, CountedOnce
  <2> QED
    BY <2>1, <1>8 DEF CountedOnce
<1>15. NoOverGrant'
  <2>1. ASSUME NEW u \in Counted, NEW m \in Minutes, Rpm[u] > 0
        PROVE  adm'[u][m] + Cardinality(FittedSlots(u, m)') <= Rpm[u]
    <3>1. ~Fitted(d, u, m)
      BY <1>4 DEF Fitted
    <3>2. /\ Cardinality(FittedSlots(u, m)) \in Nat /\ Cardinality(FittedSlots(u, m)') \in Nat
          /\ Cardinality(FittedSlots(u, m)') <= Cardinality(FittedSlots(u, m))
      BY <1>4, <3>1, FittedMoves DEF d
    <3>3. adm[u][m] + Cardinality(FittedSlots(u, m)) <= Rpm[u] /\ adm' = adm
      BY <2>1, <1>1 DEF LimiterInv, Counts, NoOverGrant
    <3> QED
      BY <3>2, <3>3, <1>8, <1>10
  <2> QED
    BY <2>1, <1>8 DEF NoOverGrant
<1> QED
  BY <1>7, <1>12, <1>13, <1>14, <1>15 DEF LimiterInv, Counts

\* A slot leaves the requests being decided for the admitted or the lost ones.
LEMMA SettleStep ==
    ASSUME LimiterInv, NEW s \in Slots, UndoFails(s) \/ Admit(s)
    PROVE  LimiterInv'
<1> DEFINE c == call[s]
           d == call'[s]
           One(u, m) == IF u \in c.held /\ m = c.min THEN 1 ELSE 0
           e == Moved(c, "run", "project")
<1>1. CallOK(c) /\ c \in CallType /\ c.min \in Minutes /\ c.held \subseteq Counted
  BY CallTypes DEF LimiterInv, CallsSound, LimiterTypeOK
<1>2. UNCHANGED <<plan, now, reqs, toks, spent, made, rec>> /\ c.pc \in {"reserve", "undo"}
  BY DEF UndoFails, Admit
<1>3. /\ Only(s) /\ d \in CallType /\ away' \in [Slots -> BOOLEAN]
      /\ d.pc \in {"idle", "run"} /\ CallOK(d)
      /\ \A u \in Tiers : Owes(d, u) => Owes(c, u)
  <2>1. CASE UndoFails(s)
    <3>1. Done(s)
      BY <2>1 DEF UndoFails
    <3>2. Only(s) /\ d \in CallType /\ d.pc = "idle" /\ d.held = {} /\ away' \in [Slots -> BOOLEAN]
      BY <3>1, DoneFacts DEF LimiterInv, Only
    <3> HIDE DEF d
    <3> QED
      BY <3>2, IdleOwesNothing
  <2>2. CASE Admit(s)
    <3>1. "run" \in Pcs /\ "project" \in Tiers
      BY DEF Pcs, Tiers, Counted
    <3>2. e \in CallType /\ e.pc = "run" /\ e.tier = "project" /\ e.who = c.who /\ e.held = c.held
      BY <1>1, <3>1, MovedFacts
    <3>3. Proceed(s, [e EXCEPT !.seen = NoCall.seen]) /\ c.pc = "reserve" /\ c.tier = "session"
      BY <2>2 DEF Admit
    <3> HIDE DEF e
    <3> DEFINE f == [e EXCEPT !.seen = NoCall.seen]
    <3>4. f \in CallType /\ f.pc = "run" /\ f.who = c.who /\ f.held = c.held
      BY <3>2, NoCallFacts, SeenFacts
    <3> HIDE DEF f
    <3>5. Only(s) /\ d = f /\ away' \in [Slots -> BOOLEAN]
      BY <3>3, <3>4, ProceedFacts DEF LimiterInv, f
    <3>6. CappedTiers(f) = CappedTiers(c)
      BY <3>4 DEF CappedTiers, Capped
    <3>7. CallOK(f)
      BY <1>1, <3>3, <3>4, <3>6 DEF CallOK
    <3>8. \A u \in Tiers : Owes(f, u) => Owes(c, u)
      BY <3>3, <3>4 DEF Owes
    <3> QED
      BY <3>4, <3>5, <3>7, <3>8
  <2> QED
    BY <2>1, <2>2
<1> HIDE DEF d
<1>4. CallsSound' /\ SpendingBounded' /\ DebtsCovered'
  BY <1>2, <1>3, FreeStep DEF d
<1>5. /\ Rpm' = Rpm /\ Rpm \in [Counted -> Nat]
  BY <1>2, PlanFacts DEF Rpm, LimiterInv
<1>6. ASSUME NEW u \in Counted, NEW m \in Minutes
      PROVE  /\ adm[u][m] \in Nat /\ lost[u][m] \in Nat /\ One(u, m) \in Nat
             /\ \/ Admit(s) /\ adm'[u][m] = adm[u][m] + One(u, m) /\ lost' = lost
                \/ UndoFails(s) /\ adm' = adm /\ lost'[u][m] = lost[u][m] + One(u, m)
  BY DEF UndoFails, Lose, Admit, LimiterInv, LimiterTypeOK
<1>7. adm' \in [Counted -> [Minutes -> Nat]] /\ lost' \in [Counted -> [Minutes -> Nat]]
  <2>1. adm \in [Counted -> [Minutes -> Nat]] /\ lost \in [Counted -> [Minutes -> Nat]]
    BY DEF LimiterInv, LimiterTypeOK
  <2>2. \A u \in Counted, m \in Minutes : adm[u][m] + One(u, m) \in Nat /\ lost[u][m] + One(u, m) \in Nat
    BY <1>6
  <2>3. CASE Admit(s)
    BY <2>1, <2>2, <2>3 DEF Admit
  <2>4. CASE UndoFails(s)
    BY <2>1, <2>2, <2>4 DEF UndoFails, Lose
  <2> QED
    BY <2>3, <2>4
<1>8. LimiterTypeOK'
  BY <1>2, <1>3, <1>7 DEF LimiterInv, LimiterTypeOK, Only
<1>9. ASSUME NEW u \in Counted, NEW m \in Minutes
      PROVE  /\ Cardinality(Pending(u, m)) \in Nat /\ Cardinality(Pending(u, m)') \in Nat
             /\ Cardinality(Pending(u, m)) = Cardinality(Pending(u, m)') + One(u, m)
  <2>1. ~Holds(d, u, m) /\ (Holds(c, u, m) <=> u \in c.held /\ m = c.min)
    BY <1>2, <1>3 DEF Holds
  <2> QED
    BY <1>3, <2>1, PendingMoves DEF d
<1> HIDE DEF One
<1>10. SlotsAccounted'
  <2>1. ASSUME NEW u \in Counted, NEW m \in Minutes, Rpm[u] > 0
        PROVE  reqs'[u][m] = adm'[u][m] + Cardinality(Pending(u, m)') + lost'[u][m]
    <3>1. reqs[u][m] = adm[u][m] + Cardinality(Pending(u, m)) + lost[u][m] /\ reqs' = reqs
      BY <2>1, <1>2 DEF LimiterInv, Counts, SlotsAccounted
    <3> QED
      BY <3>1, <1>6, <1>9
  <2> QED
    BY <2>1, <1>5 DEF SlotsAccounted
<1>11. CountedOnce'
  BY <1>2, <1>5 DEF LimiterInv, Counts, CountedOnce
<1>12. NoOverGrant'
  <2>1. ASSUME NEW u \in Counted, NEW m \in Minutes, Rpm[u] > 0
        PROVE  adm'[u][m] + Cardinality(FittedSlots(u, m)') <= Rpm[u]
    <3>1. ~Fitted(d, u, m)
      BY <1>3 DEF Fitted
    <3>2. /\ Cardinality(FittedSlots(u, m)) \in Nat /\ Cardinality(FittedSlots(u, m)') \in Nat
          /\ Cardinality(FittedSlots(u, m)') <= Cardinality(FittedSlots(u, m))
          /\ Fitted(c, u, m) => Cardinality(FittedSlots(u, m)) = Cardinality(FittedSlots(u, m)') + 1
      BY <1>3, <3>1, FittedMoves DEF d
    <3>3. adm[u][m] + Cardinality(FittedSlots(u, m)) <= Rpm[u]
      BY <2>1 DEF LimiterInv, Counts, NoOverGrant
    <3>4. CASE UndoFails(s)
      <4>1. adm' = adm
        BY <3>4 DEF UndoFails
      <4> QED
        BY <4>1, <3>2, <3>3, <1>5, <1>6
    <3>5. CASE Admit(s)
      <4>1. Fitted(c, u, m) <=> u \in c.held /\ m = c.min
        BY <3>5 DEF Admit, Fitted
      <4>2. adm'[u][m] = adm[u][m] + (IF Fitted(c, u, m) THEN 1 ELSE 0)
        BY <3>5, <4>1 DEF Admit
      <4> QED
        BY <4>2, <3>2, <3>3, <1>5, <1>6
    <3> QED
      BY <3>4, <3>5
  <2> QED
    BY <2>1, <1>5 DEF NoOverGrant
<1> QED
  BY <1>4, <1>8, <1>10, <1>11, <1>12 DEF LimiterInv, Counts

\* A release whose answer is lost has given back its own slot only.
LEMMA UndoUnansweredStep ==
    ASSUME LimiterInv, NEW s \in Slots, UndoUnanswered(s)
    PROVE  LimiterInv'
<1> DEFINE c == call[s]
           d == call'[s]
           t == FirstHeld(c)
           H == c.held \ {t}
           One(u, m) == IF u \in H /\ m = c.min THEN 1 ELSE 0
<1>1. /\ c.pc = "undo" /\ Done(s)
      /\ reqs' = [reqs EXCEPT ![t][c.min] = Less(@)]
      /\ lost' = [u \in Counted |-> [m \in Minutes |-> lost[u][m] + One(u, m)]]
      /\ UNCHANGED <<plan, now, toks, spent, made, adm, rec>>
  BY DEF UndoUnanswered, Lose
<1>2. CallOK(c) /\ c \in CallType /\ c.min \in Minutes /\ c.held \subseteq Counted
  BY CallTypes DEF LimiterInv, CallsSound, LimiterTypeOK
<1>3. t \in c.held /\ t \in Counted /\ Rpm[t] > 0
  <2>1. c.held # {} /\ c.held \subseteq CappedTiers(c)
    BY <1>1, <1>2 DEF CallOK
  <2>2. t \in c.held
    BY <1>2, <2>1 DEF FirstHeld, Counted
  <2> QED
    BY <1>2, <2>1, <2>2 DEF CappedTiers, Capped
<1> HIDE DEF t
<1>4. /\ Only(s) /\ d \in CallType /\ d.pc = "idle" /\ d.held = {} /\ away' \in [Slots -> BOOLEAN]
  BY <1>1, DoneFacts DEF LimiterInv, Only
<1> HIDE DEF d
<1>5. CallOK(d) /\ \A u \in Tiers : Owes(d, u) => Owes(c, u)
  BY <1>4, IdleOwesNothing
<1>6. CallsSound' /\ SpendingBounded' /\ DebtsCovered'
  BY <1>1, <1>4, <1>5, FreeStep DEF d
<1>7. /\ Rpm' = Rpm /\ Rpm \in [Counted -> Nat]
  BY <1>1, PlanFacts DEF Rpm, LimiterInv
<1>8. ASSUME NEW u \in Counted, NEW m \in Minutes
      PROVE  /\ reqs[u][m] \in Nat /\ adm[u][m] \in Nat /\ lost[u][m] \in Nat /\ One(u, m) \in Nat
             /\ reqs'[u][m] = IF u = t /\ m = c.min THEN Less(reqs[u][m]) ELSE reqs[u][m]
             /\ lost'[u][m] = lost[u][m] + One(u, m)
  BY <1>1, <1>2, <1>3 DEF LimiterInv, LimiterTypeOK
<1>9. ASSUME NEW u \in Counted, NEW m \in Minutes
      PROVE  /\ Cardinality(Pending(u, m)) \in Nat /\ Cardinality(Pending(u, m)') \in Nat
             /\ u = t /\ m = c.min =>
                   Cardinality(Pending(u, m)) = Cardinality(Pending(u, m)') + 1 /\ One(u, m) = 0
             /\ ~(u = t /\ m = c.min) =>
                   Cardinality(Pending(u, m)) = Cardinality(Pending(u, m)') + One(u, m)
  <2>1. ~Holds(d, u, m) /\ (Holds(c, u, m) <=> u \in c.held /\ m = c.min)
    BY <1>1, <1>4 DEF Holds
  <2>2. u = t /\ m = c.min => Holds(c, u, m) /\ One(u, m) = 0
    BY <2>1, <1>3
  <2>3. ~(u = t /\ m = c.min) => One(u, m) = IF Holds(c, u, m) THEN 1 ELSE 0
    BY <2>1
  <2> HIDE DEF One
  <2> QED
    BY <1>4, <2>1, <2>2, <2>3, PendingMoves DEF d
<1>10. lost' \in [Counted -> [Minutes -> Nat]]
  <2>1. \A u \in Counted, m \in Minutes : lost[u][m] + One(u, m) \in Nat
    BY <1>8
  <2> HIDE DEF One
  <2> QED
    BY <1>1, <2>1
<1>11. reqs' \in [Counted -> [Minutes -> Nat]]
  <2>1. Less(reqs[t][c.min]) \in Nat
    BY <1>2, <1>3, <1>8 DEF Less
  <2> QED
    BY <1>1, <1>2, <1>3, <2>1 DEF LimiterInv, LimiterTypeOK
<1>12. LimiterTypeOK'
  BY <1>1, <1>4, <1>10, <1>11 DEF LimiterInv, LimiterTypeOK, Only
<1> HIDE DEF One
<1>13. SlotsAccounted'
  <2>1. ASSUME NEW u \in Counted, NEW m \in Minutes, Rpm[u] > 0
        PROVE  reqs'[u][m] = adm'[u][m] + Cardinality(Pending(u, m)') + lost'[u][m]
    <3>1. reqs[u][m] = adm[u][m] + Cardinality(Pending(u, m)) + lost[u][m] /\ adm' = adm
      BY <2>1, <1>1 DEF LimiterInv, Counts, SlotsAccounted
    <3>2. CASE u = t /\ m = c.min
      <4>1. One(u, m) = 0 /\ Cardinality(Pending(u, m)) = Cardinality(Pending(u, m)') + 1
        BY <3>2, <1>9
      <4>2. reqs[u][m] > 0 /\ lost'[u][m] = lost[u][m]
        BY <3>1, <4>1, <1>8, <1>9
      <4>3. reqs'[u][m] = reqs[u][m] - 1
        BY <3>2, <4>2, <1>8 DEF Less
      <4> QED
        BY <3>1, <4>1, <4>2, <4>3, <1>8, <1>9
    <3>3. CASE ~(u = t /\ m = c.min)
      BY <3>1, <3>3, <1>8, <1>9
    <3> QED
      BY <3>2, <3>3
  <2> QED
    BY <2>1, <1>7 DEF SlotsAccounted
<1>14. CountedOnce'
  <2>1. ASSUME NEW u \in Counted, NEW m \in Minutes, Rpm[u] = 0
        PROVE  reqs'[u][m] = rec'[u][m]
    BY <2>1, <1>1, <1>3, <1>8 DEF LimiterInv, Counts, CountedOnce
  <2> QED
    BY <2>1, <1>7 DEF CountedOnce
<1>15. NoOverGrant'
  <2>1. ASSUME NEW u \in Counted, NEW m \in Minutes, Rpm[u] > 0
        PROVE  adm'[u][m] + Cardinality(FittedSlots(u, m)') <= Rpm[u]
    <3>1. ~Fitted(d, u, m)
      BY <1>4 DEF Fitted
    <3>2. /\ Cardinality(FittedSlots(u, m)) \in Nat /\ Cardinality(FittedSlots(u, m)') \in Nat
          /\ Cardinality(FittedSlots(u, m)') <= Cardinality(FittedSlots(u, m))
      BY <1>4, <3>1, FittedMoves DEF d
    <3>3. adm[u][m] + Cardinality(FittedSlots(u, m)) <= Rpm[u] /\ adm' = adm
      BY <2>1, <1>1 DEF LimiterInv, Counts, NoOverGrant
    <3> QED
      BY <3>2, <3>3, <1>7, <1>8
  <2> QED
    BY <2>1, <1>7 DEF NoOverGrant
<1> QED
  BY <1>6, <1>12, <1>13, <1>14, <1>15 DEF LimiterInv, Counts

LEMMA RecordStep ==
    ASSUME LimiterInv, NEW s \in Slots, NEW n \in Spending(call[s]), RecordSubject(s, n)
    PROVE  LimiterInv'
<1> DEFINE c == call[s]
           d == call'[s]
           t == c.tier
           add == IF t \in Counted /\ CountsNow(c, t) THEN 1 ELSE 0
           e == Moved(c, "record", NextTier(t))
<1>1. /\ c.pc = "record" /\ t \in c.who
      /\ spent' = [spent EXCEPT ![t] = @ + n]
      /\ UNCHANGED <<plan, now, made, adm, lost>>
  BY DEF RecordSubject
<1>2. CallOK(c) /\ c \in CallType /\ c.min \in Minutes /\ t \in Tiers /\ c.held = CappedTiers(c)
  BY <1>1, CallTypes DEF LimiterInv, CallsSound, LimiterTypeOK, CallOK
<1>3. n \in Costs /\ n \in Nat /\ n <= MaxCost /\ MaxCost \in Nat /\ (t # "project" => n = c.est)
  <2>1. n \in Costs /\ (t # "project" => n = c.est)
    BY <1>1, <1>2 DEF Spending, CallOK
  <2> QED
    BY <2>1, PlanFacts DEF LimiterInv
<1>4. /\ Only(s) /\ d \in CallType /\ away' \in [Slots -> BOOLEAN]
      /\ \/ d.pc = "idle" /\ d.held = {}
         \/ /\ t # "session" /\ d.pc = "record" /\ d.tier = NextTier(t) /\ d.who = c.who
            /\ d.held = c.held /\ d.est = n
  <2>1. CASE Done(s)
    BY <2>1, DoneFacts DEF LimiterInv, Only
  <2>2. CASE t # "session" /\ Proceed(s, [e EXCEPT !.est = n])
    <3>1. Proceed(s, [e EXCEPT !.est = n])
      BY <2>2
    <3>2. "record" \in Pcs /\ NextTier(t) \in Tiers
      BY DEF Pcs, Tiers, Counted, NextTier
    <3>3. e \in CallType /\ e.pc = "record" /\ e.tier = NextTier(t) /\ e.who = c.who /\ e.held = c.held
      BY <1>2, <3>2, MovedFacts
    <3> HIDE DEF e
    <3> DEFINE f == [e EXCEPT !.est = n]
    <3>4. f \in CallType /\ f.pc = "record" /\ f.tier = NextTier(t) /\ f.who = c.who /\ f.held = c.held /\ f.est = n
      BY <1>3, <3>3, EstFacts
    <3> HIDE DEF f
    <3>5. Only(s) /\ d = f /\ away' \in [Slots -> BOOLEAN]
      BY <3>1, <3>4, ProceedFacts DEF LimiterInv, f
    <3> QED
      BY <2>2, <3>4, <3>5
  <2> QED
    BY <2>1, <2>2 DEF RecordSubject
<1> HIDE DEF d
<1>5. CallOK(d)
  <2>1. d.pc = "record" => CappedTiers(d) = CappedTiers(c)
    BY <1>4 DEF CappedTiers, Capped
  <2>2. CASE d.pc = "idle"
    BY <1>4, <2>2 DEF CallOK
  <2>3. CASE d.pc = "record"
    BY <1>1, <1>2, <1>3, <1>4, <2>1, <2>3 DEF CallOK
  <2> QED
    BY <1>4, <2>2, <2>3
<1>6. CallsSound'
  BY <1>1, <1>4, <1>5, CallsStep DEF d
<1>7. spent' \in [Tiers -> Nat]
  BY <1>1, <1>2, <1>3 DEF LimiterInv, LimiterTypeOK
<1>8. \A u \in Tiers : spent[u] \in Nat /\ spent'[u] = IF u = t THEN spent[u] + n ELSE spent[u]
  BY <1>1, <1>2 DEF LimiterInv, LimiterTypeOK
<1>9. SpendingBounded'
  <2>1. ASSUME NEW u \in Tiers
        PROVE  \/ spent'[u] = spent[u] /\ (Owes(d, u) => Owes(c, u) \/ spent[u] < Cap(u))
               \/ Owes(c, u) /\ ~Owes(d, u) /\ spent'[u] <= spent[u] + MaxCost
    <3>1. CASE u = t
      <4>1. Owes(c, u)
        BY <1>1, <3>1 DEF Owes
      <4>2. ~Owes(d, u)
        BY <1>2, <1>4, <3>1 DEF Owes, NextTier, Tiers, Counted
      <4> QED
        BY <4>1, <4>2, <3>1, <1>3, <1>8
    <3>2. CASE u # t
      <4>1. Owes(d, u) => Owes(c, u)
        BY <1>1, <1>2, <1>4, <3>2 DEF Owes, NextTier, Tiers, Counted
      <4> QED
        BY <4>1, <3>2, <1>8
    <3> QED
      BY <3>1, <3>2
  <2> QED
    BY <1>1, <1>4, <1>7, <2>1, SpendingStep DEF d
<1>10. DebtsCovered'
  <2>1. ASSUME NEW u \in {"key", "session"}
        PROVE  spent'[u] + Debt(d, u) - spent'["project"] <= spent[u] + Debt(c, u) - spent["project"]
    <3>1. u \in Tiers /\ "project" \in Tiers /\ u # "project"
      BY DEF Tiers, Counted
    <3>2. CASE t = "project"
      <4>1. Debt(c, u) = 0 /\ (Debt(d, u) = 0 \/ Debt(d, u) = n)
        BY <3>2, <1>4 DEF Debt
      <4> QED
        BY <4>1, <3>1, <3>2, <1>3, <1>8
    <3>3. CASE t # "project" /\ u = t
      <4>1. Debt(c, u) = n /\ Debt(d, u) = 0
        BY <3>3, <1>1, <1>2, <1>3, <1>4 DEF Debt, NextTier, Tiers, Counted
      <4> QED
        BY <4>1, <3>1, <3>3, <1>3, <1>8
    <3>4. CASE t # "project" /\ u # t
      <4>1. Debt(d, u) <= Debt(c, u) /\ Debt(c, u) \in Nat /\ Debt(d, u) \in Nat
        <5>0. Debt(c, u) \in Nat /\ Debt(d, u) \in Nat
          BY <1>2, <1>4, DebtType, <3>1
        <5>1. CASE d.pc = "idle"
          <6>1. Debt(d, u) = 0
            BY <5>1 DEF Debt
          <6> QED
            BY <5>0, <6>1
        <5>2. CASE d.pc # "idle" /\ t = "key"
          <6>1. Debt(d, u) = Debt(c, u)
            BY <5>2, <3>4, <1>1, <1>2, <1>3, <1>4 DEF Debt, NextTier
          <6> QED
            BY <5>0, <6>1
        <5>3. CASE d.pc # "idle" /\ t = "session"
          BY <5>3, <1>4
        <5> QED
          BY <5>1, <5>2, <5>3, <3>4, <1>2 DEF Tiers, Counted
      <4> QED
        BY <4>1, <3>1, <3>4, <1>8
    <3> QED
      BY <3>2, <3>3, <3>4
  <2> QED
    BY <1>1, <1>4, <1>7, <2>1, DebtStep DEF d
<1>11. /\ Rpm' = Rpm /\ Rpm \in [Counted -> Nat]
  BY <1>1, PlanFacts DEF Rpm, LimiterInv
<1>12. \/ t = "session" /\ UNCHANGED <<reqs, toks, rec>>
       \/ /\ t \in Counted
          /\ rec' = [rec EXCEPT ![t][c.min] = @ + 1]
          /\ reqs' = [reqs EXCEPT ![t][c.min] = @ + add]
          /\ toks' = [toks EXCEPT ![t][c.min] = @ + n]
  BY <1>2 DEF RecordSubject, Tiers
<1>13. add \in {0, 1} /\ (t \in Counted => (add = 1 <=> Rpm[t] = 0))
  <2>1. t \in Counted => (t \in CappedTiers(c) <=> Rpm[t] > 0)
    BY <1>1 DEF CappedTiers, Capped
  <2>2. t \in Counted => Rpm[t] \in Nat
    BY <1>11
  <2> QED
    BY <1>2, <2>1, <2>2 DEF CountsNow
<1> HIDE DEF add
<1>14. LimiterTypeOK'
  <2>1. /\ reqs \in [Counted -> [Minutes -> Nat]] /\ rec \in [Counted -> [Minutes -> Nat]]
        /\ toks \in [Counted -> [Minutes -> Nat]]
    BY DEF LimiterInv, LimiterTypeOK
  <2>2. CASE t \in Counted
    <3>1. rec[t][c.min] + 1 \in Nat /\ reqs[t][c.min] + add \in Nat /\ toks[t][c.min] + n \in Nat
      BY <1>2, <1>3, <1>13, <2>1, <2>2
    <3>2. /\ rec' = [rec EXCEPT ![t][c.min] = rec[t][c.min] + 1]
          /\ reqs' = [reqs EXCEPT ![t][c.min] = reqs[t][c.min] + add]
          /\ toks' = [toks EXCEPT ![t][c.min] = toks[t][c.min] + n]
      BY <1>12, <2>2 DEF Counted
    <3>3. reqs' \in [Counted -> [Minutes -> Nat]]
      BY <1>2, <2>1, <2>2, <3>1, <3>2, RowsType
    <3>4. rec' \in [Counted -> [Minutes -> Nat]]
      BY <1>2, <2>1, <2>2, <3>1, <3>2, RowsType
    <3>5. toks' \in [Counted -> [Minutes -> Nat]]
      BY <1>2, <2>1, <2>2, <3>1, <3>2, RowsType
    <3> QED
      BY <3>3, <3>4, <3>5, <1>1, <1>4, <1>7 DEF LimiterInv, LimiterTypeOK, Only
  <2>3. CASE t \notin Counted
    <3>1. UNCHANGED <<reqs, toks, rec>>
      BY <2>3, <1>12
    <3> QED
      BY <3>1, <1>1, <1>4, <1>7 DEF LimiterInv, LimiterTypeOK, Only
  <2> QED
    BY <2>2, <2>3
<1>15. ASSUME NEW u \in Counted, NEW m \in Minutes
       PROVE  /\ reqs[u][m] \in Nat /\ rec[u][m] \in Nat /\ adm[u][m] \in Nat
              /\ \/ reqs'[u][m] = reqs[u][m] /\ rec'[u][m] = rec[u][m]
                 \/ u = t /\ reqs'[u][m] = reqs[u][m] + add /\ rec'[u][m] = rec[u][m] + 1
  BY <1>2, <1>12 DEF LimiterInv, LimiterTypeOK
<1>16. ASSUME NEW u \in Counted, NEW m \in Minutes
       PROVE  /\ Cardinality(Pending(u, m)') = Cardinality(Pending(u, m))
              /\ Cardinality(FittedSlots(u, m)') <= Cardinality(FittedSlots(u, m))
              /\ Cardinality(FittedSlots(u, m)) \in Nat /\ Cardinality(FittedSlots(u, m)') \in Nat
  <2>1. ~Holds(c, u, m) /\ ~Holds(d, u, m) /\ ~Fitted(d, u, m)
    BY <1>1, <1>4 DEF Holds, Fitted
  <2> QED
    BY <1>4, <2>1, PendingMoves, FittedMoves DEF d
<1>17. SlotsAccounted'
  <2>1. ASSUME NEW u \in Counted, NEW m \in Minutes, Rpm[u] > 0
        PROVE  reqs'[u][m] = adm'[u][m] + Cardinality(Pending(u, m)') + lost'[u][m]
    <3>1. reqs[u][m] = adm[u][m] + Cardinality(Pending(u, m)) + lost[u][m]
      BY <2>1 DEF LimiterInv, Counts, SlotsAccounted
    <3>2. reqs'[u][m] = reqs[u][m]
      BY <1>13, <1>15, <2>1
    <3> QED
      BY <3>1, <3>2, <1>1, <1>16
  <2> QED
    BY <2>1, <1>11 DEF SlotsAccounted
<1>18. CountedOnce'
  <2>1. ASSUME NEW u \in Counted, NEW m \in Minutes, Rpm[u] = 0
        PROVE  reqs'[u][m] = rec'[u][m]
    <3>1. reqs[u][m] = rec[u][m]
      BY <2>1 DEF LimiterInv, Counts, CountedOnce
    <3> QED
      BY <2>1, <3>1, <1>13, <1>15
  <2> QED
    BY <2>1, <1>11 DEF CountedOnce
<1>19. NoOverGrant'
  <2>1. ASSUME NEW u \in Counted, NEW m \in Minutes, Rpm[u] > 0
        PROVE  adm'[u][m] + Cardinality(FittedSlots(u, m)') <= Rpm[u]
    <3>1. adm[u][m] + Cardinality(FittedSlots(u, m)) <= Rpm[u] /\ adm' = adm
      BY <2>1, <1>1 DEF LimiterInv, Counts, NoOverGrant
    <3> QED
      BY <3>1, <1>11, <1>15, <1>16
  <2> QED
    BY <2>1, <1>11 DEF NoOverGrant
<1> QED
  BY <1>6, <1>9, <1>10, <1>14, <1>17, <1>18, <1>19 DEF LimiterInv, Counts
-----------------------------------------------------------------------------
(* The invariant and the properties.                                       *)

LEMMA LimiterStarts ==
    ASSUME LimiterInit
    PROVE  LimiterInv
<1>1. \A s \in Slots : call[s] = NoCall
  BY DEF LimiterInit
<1>2. LimiterTypeOK
  <2>1. NoCall \in CallType /\ 0 \in Minutes
    BY NoCallFacts DEF Minutes
  <2> HIDE DEF NoCall
  <2> QED
    BY <2>1 DEF LimiterInit, LimiterTypeOK, Minutes
<1>3. /\ \A t, m : ~Holds(NoCall, t, m) /\ ~Fitted(NoCall, t, m)
      /\ \A t : ~Owes(NoCall, t) /\ Debt(NoCall, t) = 0
      /\ CallOK(NoCall)
  BY NoCallFacts, IdleOwesNothing
<1> HIDE DEF NoCall
<1>4. CallsSound
  BY <1>1, <1>3 DEF CallsSound
<1>5. Cardinality({}) = 0 /\ Cardinality(Slots) \in Nat
  BY FS_EmptySet, FS_CardinalityType
<1>6. /\ \A t, m : Pending(t, m) = {} /\ FittedSlots(t, m) = {}
      /\ \A t : Debtors(t) = {}
  BY <1>1, <1>3 DEF Pending, Holds, FittedSlots, Debtors
<1>7. SlotsAccounted
  <2>1. ASSUME NEW t \in Counted, NEW m \in Minutes
        PROVE  reqs[t][m] = adm[t][m] + Cardinality(Pending(t, m)) + lost[t][m]
    <3>1. reqs[t][m] = 0 /\ adm[t][m] = 0 /\ lost[t][m] = 0
      BY DEF LimiterInit
    <3>2. Cardinality(Pending(t, m)) = 0
      BY <1>5, <1>6
    <3> QED
      BY <3>1, <3>2
  <2> QED
    BY <2>1 DEF SlotsAccounted
<1>8. CountedOnce
  BY DEF LimiterInit, CountedOnce
<1>9. NoOverGrant
  <2>1. ASSUME NEW t \in Counted, NEW m \in Minutes, Rpm[t] > 0
        PROVE  adm[t][m] + Cardinality(FittedSlots(t, m)) <= Rpm[t]
    <3>1. adm[t][m] = 0
      BY DEF LimiterInit
    <3>2. Cardinality(FittedSlots(t, m)) = 0
      BY <1>5, <1>6
    <3>3. Rpm[t] \in Nat
      BY <1>2, PlanFacts
    <3> QED
      BY <2>1, <3>1, <3>2, <3>3
  <2> QED
    BY <2>1 DEF NoOverGrant
<1>10. SpendingBounded
  <2>1. ASSUME NEW t \in Tiers, Cap(t) > 0
        PROVE  spent[t] + Cardinality(Debtors(t)) * MaxCost < Cap(t) + Cardinality(Slots) * MaxCost
    <3>1. spent[t] = 0 /\ Cardinality(Debtors(t)) = 0
      BY <1>5, <1>6 DEF LimiterInit
    <3>2. Cap(t) \in Nat /\ MaxCost \in Nat
      BY <1>2, PlanFacts DEF Cap, Tiers
    <3>3. Cardinality(Slots) * MaxCost \in Nat
      BY <1>5, <3>2, Times
    <3>4. Cardinality(Debtors(t)) * MaxCost = 0
      BY <3>1, <3>2
    <3> QED
      BY <2>1, <3>1, <3>2, <3>3, <3>4
  <2> QED
    BY <2>1 DEF SpendingBounded
<1>11. DebtsCovered
  <2>1. ASSUME NEW t \in {"key", "session"}
        PROVE  SumsTo([s \in Slots |-> Debt(call[s], t)], 0) /\ spent[t] + 0 <= spent["project"]
    <3>1. [s \in Slots |-> Debt(call[s], t)] = [s \in Slots |-> 0]
      BY <1>1, <1>3
    <3>2. spent[t] = 0 /\ spent["project"] = 0
      BY DEF LimiterInit, Tiers, Counted
    <3> QED
      BY <3>1, <3>2, SumOfZeros
  <2> QED
    BY <2>1 DEF DebtsCovered
<1> QED
  BY <1>2, <1>4, <1>7, <1>8, <1>9, <1>10, <1>11 DEF LimiterInv, Counts

LEMMA IdleStep ==
    ASSUME LimiterInv, UNCHANGED <<plan, reqs, spent, call, adm, rec, lost>>, Rest
    PROVE  LimiterInv'
<1>1. LimiterTypeOK'
  BY DEF LimiterInv, LimiterTypeOK, Rest
<1>2. CallsSound'
  BY DEF LimiterInv, CallsSound, CallOK, CappedTiers, Capped, Rpm, Subjects, Costs
<1>3. SlotsAccounted' /\ CountedOnce' /\ NoOverGrant'
  BY DEF LimiterInv, Counts, SlotsAccounted, CountedOnce, NoOverGrant, Pending, FittedSlots, Rpm
<1>4. SpendingBounded'
  BY DEF LimiterInv, Counts, SpendingBounded, Debtors, Owes, Cap, SessionCap, Budget, MaxCost, Costs
<1>5. DebtsCovered'
  <2>1. \A t \in {"key", "session"} : [s \in Slots |-> Debt(call'[s], t)] = [s \in Slots |-> Debt(call[s], t)]
    OBVIOUS
  <2>2. \A t \in {"key", "session"} : \E n \in Nat :
           SumsTo([s \in Slots |-> Debt(call'[s], t)], n) /\ spent'[t] + n <= spent'["project"]
    BY <2>1 DEF LimiterInv, Counts, DebtsCovered
  <2> QED
    BY <2>2 DEF DebtsCovered, Debt, SumsTo
<1> QED
  BY <1>1, <1>2, <1>3, <1>4, <1>5 DEF LimiterInv, Counts

LEMMA LimiterStep ==
    ASSUME LimiterInv, [LimiterNext]_limVars
    PROVE  LimiterInv'
<1> USE DEF Core
<1>0. Core
  BY DEF LimiterInv
<1>1. ASSUME NEW s \in Slots, NEW who \in Subjects, NEW est \in Estimates, Begin(s, who, est)
      PROVE  LimiterInv'
  BY <1>0, <1>1, BeginStep, QuietStep
<1>2. ASSUME NEW s \in Slots, Read(s) \/ ReadFails(s) \/ Decide(s) \/ Unlimited(s) \/ ReserveFails(s)
      PROVE  LimiterInv'
  BY <1>0, <1>2, ReadStep, ReadFailsStep, DecideStep, UnlimitedStep, ReserveFailsStep, QuietStep
<1>3. ASSUME NEW s \in Slots, Recheck(s) \/ RecheckFails(s) \/ SkipTier(s) \/ RecordFails(s)
      PROVE  LimiterInv'
  BY <1>0, <1>3, RecheckStep, SkipTierStep, RecordFailsStep, QuietStep
<1>4. ASSUME NEW s \in Slots, NEW ctx \in Contexts, Retrieve(s, ctx)
      PROVE  LimiterInv'
  BY <1>0, <1>4, RetrieveStep, QuietStep
<1>5. ASSUME NEW s \in Slots,
             \/ Reserve(s) \/ ReserveUnanswered(s)
             \/ Undo(s) \/ UndoFails(s) \/ UndoUnanswered(s) \/ Admit(s)
      PROVE  LimiterInv'
  BY <1>5, ReserveStep, ReserveUnansweredStep, UndoStep, UndoUnansweredStep, SettleStep
<1>6. ASSUME NEW s \in Slots, NEW n \in Spending(call[s]), RecordSubject(s, n)
      PROVE  LimiterInv'
  BY <1>6, RecordStep
<1>7. ASSUME NEW s \in Slots, Leave(s)
      PROVE  LimiterInv'
  BY <1>0, <1>7, LeaveStep, IdleStep
<1>8. CASE Tick
  BY <1>0, <1>8, TickStep, IdleStep
<1>9. CASE UNCHANGED limVars
  BY <1>9, IdleStep DEF limVars, Rest, LimiterInv, LimiterTypeOK
<1> QED
  BY <1>1, <1>2, <1>3, <1>4, <1>5, <1>6, <1>7, <1>8, <1>9 DEF LimiterNext

\* LimiterInv holds in every reachable state.
LEMMA LimiterInvariant == LimiterSpec => []LimiterInv
BY LimiterStarts, LimiterStep, PTL DEF LimiterSpec

\* A counter is what its requests explain on every tier: no phantom request, no
\* request counted twice or not at all, no tier charged before its project
\* (CheckSubject, RecordSubject, rollback).
THEOREM CountersAlwaysExplained == LimiterSpec => []CountersExplained
<1>1. LimiterInv => CountersExplained
  <2> SUFFICES ASSUME LimiterInv PROVE CountersExplained
    OBVIOUS
  <2>1. ASSUME NEW t \in Tiers PROVE spent[t] <= spent["project"]
    <3>1. spent[t] \in Nat /\ spent["project"] \in Nat
      BY DEF LimiterInv, LimiterTypeOK, Tiers, Counted
    <3>2. CASE t = "project"
      BY <3>1, <3>2
    <3>3. CASE t # "project"
      <4>1. PICK n \in Nat : spent[t] + n <= spent["project"]
        BY <3>3 DEF LimiterInv, Counts, DebtsCovered, Tiers, Counted
      <4> QED
        BY <3>1, <4>1
    <3> QED
      BY <3>2, <3>3
  <2> QED
    BY <2>1 DEF LimiterInv, Counts, CountersExplained, ProjectCoversTiers
<1> QED
  BY <1>1, LimiterInvariant, PTL

\* However the checks of concurrent requests interleave, no minute admits more
\* requests than its cap, and spending passes a budget by less than one longest
\* answer for each request in progress (CheckSubject, docs/users-and-limits.md).
THEOREM CapsAlwaysHold == LimiterSpec => []CapsHold
<1>1. LimiterInv => CapsHold
  <2> SUFFICES ASSUME LimiterInv PROVE CapsHold
    OBVIOUS
  <2>0. LimiterTypeOK
    BY DEF LimiterInv
  <2>1. NoOverAdmission
    <3>1. ASSUME NEW t \in Counted, NEW m \in Minutes, Rpm[t] > 0
          PROVE  adm[t][m] <= Rpm[t]
      <4>1. adm[t][m] + Cardinality(FittedSlots(t, m)) <= Rpm[t]
        BY <3>1 DEF LimiterInv, Counts, NoOverGrant
      <4>2. FittedSlots(t, m) \subseteq Slots
        BY DEF FittedSlots
      <4>3. Cardinality(FittedSlots(t, m)) \in Nat
        BY <4>2, FS_Subset, FS_CardinalityType
      <4>4. adm[t][m] \in Nat /\ Rpm[t] \in Nat
        BY <2>0, PlanFacts DEF LimiterTypeOK
      <4> QED
        BY <4>1, <4>3, <4>4
    <3> QED
      BY <3>1 DEF NoOverAdmission
  <2>2. ASSUME NEW t \in Tiers, Cap(t) > 0
        PROVE  spent[t] < Cap(t) + Cardinality(Slots) * MaxCost
    <3>1. spent[t] + Cardinality(Debtors(t)) * MaxCost < Cap(t) + Cardinality(Slots) * MaxCost
      BY <2>2 DEF LimiterInv, Counts, SpendingBounded
    <3>2. Debtors(t) \subseteq Slots
      BY DEF Debtors
    <3>3. Cardinality(Debtors(t)) \in Nat /\ Cardinality(Slots) \in Nat /\ MaxCost \in Nat
      BY <2>0, <3>2, FS_Subset, FS_CardinalityType, PlanFacts
    <3>4. Cardinality(Debtors(t)) * MaxCost \in Nat /\ Cardinality(Slots) * MaxCost \in Nat
      BY <3>3, Times
    <3>5. spent[t] \in Nat /\ Cap(t) \in Nat
      BY <2>0, PlanFacts DEF LimiterTypeOK, Cap, Tiers
    <3> QED
      BY <3>1, <3>4, <3>5
  <2>3. OvershootBounded
    <3>1. ASSUME NEW t \in Counted, Budget[t] > 0
          PROVE  spent[t] < Budget[t] + Cardinality(Slots) * MaxCost
      BY <2>2, <3>1 DEF Cap, Tiers, Counted
    <3>2. SessionCap > 0 => spent["session"] < SessionCap + Cardinality(Slots) * MaxCost
      BY <2>2 DEF Cap, Tiers
    <3> QED
      BY <3>1, <3>2 DEF OvershootBounded
  <2> QED
    BY <2>1, <2>3 DEF CapsHold
<1> QED
  BY <1>1, LimiterInvariant, PTL
-----------------------------------------------------------------------------
(* The limiter implements Meter.                                           *)

Opened == [s \in Slots |-> OpenRequest(call[s])]

\* No other request moves.
Alone(s) == \A q \in Slots \ {s} : call'[q] = call[q]

LEMMA Ends ==
    ASSUME LimiterInv, NEW s \in Slots, Done(s)
    PROVE  Alone(s) /\ call'[s] = NoCall
BY DEF Done, Alone, LimiterInv, LimiterTypeOK

LEMMA Proceeds ==
    ASSUME LimiterInv, NEW s \in Slots, NEW d, Proceed(s, d)
    PROVE  Alone(s) /\ call'[s] = d
BY DEF Proceed, Alone, LimiterInv, LimiterTypeOK

\* Only slot s changes what Meter sees of the requests.
LEMMA OpenedMoves ==
    ASSUME NEW s \in Slots, Alone(s)
    PROVE  Opened' = [Opened EXCEPT ![s] = OpenRequest(call'[s])]
BY DEF Alone, Opened

\* A step that Meter does not see.
LEMMA Unseen ==
    ASSUME NEW s \in Slots, Alone(s), OpenRequest(call'[s]) = OpenRequest(call[s]),
           UNCHANGED <<plan, adm, spent>>
    PROVE  UNCHANGED Metering!meterVars
<1>1. Opened' = Opened
  BY DEF Alone, Opened
<1> QED
  BY <1>1 DEF Metering!meterVars, Opened, Rpm

LEMMA NotOpen ==
    ASSUME NEW c, c.pc \notin {"run", "recheck", "record"}
    PROVE  OpenRequest(c) = Metering!Free
BY DEF OpenRequest, Metering!Free, Metering!Unpaid

\* Between admission and the record a request has paid nothing.
LEMMA NothingPaid ==
    ASSUME NEW c, c.pc \in {"run", "recheck"} \/ (c.pc = "record" /\ c.tier = "project"), "project" \in c.who
    PROVE  OpenRequest(c) = [who |-> c.who, paid |-> {}, cost |-> 0]
<1>1. PaidTiers(c) = {}
  BY DEF PaidTiers
<1> QED
  BY <1>1 DEF OpenRequest

\* A record under way: the tiers before the one it is at are paid.
LEMMA UnderRecord ==
    ASSUME NEW c \in CallType, c.pc = "record", "project" \in c.who
    PROVE  /\ c.tier = "key" => PaidTiers(c) = {"project"}
           /\ c.tier = "session" => PaidTiers(c) = c.who \ {"session"}
           /\ PaidTiers(c) = c.who => OpenRequest(c) = Metering!Free
           /\ PaidTiers(c) # c.who /\ c.tier # "project" =>
                OpenRequest(c) = [who |-> c.who, paid |-> PaidTiers(c), cost |-> c.est]
<1>1. c.who \subseteq Tiers
  BY CallTypes
<1>2. c.tier = "key" => PaidTiers(c) = {"project"}
  BY DEF PaidTiers
<1>3. c.tier = "session" => PaidTiers(c) = c.who \ {"session"}
  BY <1>1 DEF PaidTiers, Tiers, Counted
<1>4. c.tier \in Tiers
  BY CallTypes
<1>5. c.tier # "project" => PaidTiers(c) # {}
  BY <1>2, <1>3, <1>4 DEF Tiers, Counted
<1>6. PaidTiers(c) = c.who => OpenRequest(c) = Metering!Free
  BY DEF OpenRequest, Metering!Free, Metering!Unpaid
<1>7. PaidTiers(c) # c.who /\ c.tier # "project" =>
        OpenRequest(c) = [who |-> c.who, paid |-> PaidTiers(c), cost |-> c.est]
  BY <1>5 DEF OpenRequest
<1> QED
  BY <1>2, <1>3, <1>6, <1>7

\* Every request is charged to its project.
LEMMA ProjectPays ==
    ASSUME LimiterInv, NEW s \in Slots, call[s].pc # "idle"
    PROVE  "project" \in call[s].who
<1>1. call[s].who \in Subjects
  BY DEF LimiterInv, CallsSound, CallOK
<1> QED
  BY <1>1, PlanFacts DEF LimiterInv

LEMMA SlotTypes ==
    ASSUME LimiterInv, NEW s \in Slots
    PROVE  call[s] \in CallType /\ CallOK(call[s])
BY DEF LimiterInv, LimiterTypeOK, CallsSound

\* Before admission Meter sees nothing.
Shut(c) == c.pc \notin {"run", "recheck", "record"}

LEMMA MovedShut ==
    ASSUME NEW c, "pc" \in DOMAIN c, NEW pc \in {"idle", "read", "decide", "reserve", "undo"}, NEW t
    PROVE  Shut(Moved(c, pc, t))
BY DEF Moved, Shut

LEMMA EarlyStep ==
    ASSUME LimiterInv, NEW s \in Slots,
           \/ \E who \in Subjects, est \in Estimates : Begin(s, who, est)
           \/ Read(s) \/ ReadFails(s) \/ Decide(s) \/ Reserve(s) \/ Unlimited(s) \/ ReserveFails(s)
           \/ ReserveUnanswered(s) \/ Undo(s) \/ UndoFails(s) \/ UndoUnanswered(s)
    PROVE  UNCHANGED Metering!meterVars
<1> DEFINE c == call[s]
<1>1. UNCHANGED <<plan, adm, spent>> /\ Shut(c)
  BY DEF Begin, Read, ReadFails, Decide, Reserve, Unlimited, ReserveFails, ReserveUnanswered,
         Undo, UndoFails, UndoUnanswered, Shut
<1>2. Done(s) \/ \E d : Shut(d) /\ Proceed(s, d)
  <2>0. c \in CallType
    BY SlotTypes
  <2>1. ASSUME NEW who, NEW est, Begin(s, who, est) PROVE \E d : Shut(d) /\ Proceed(s, d)
    BY <2>1 DEF Begin, NoCall, Shut
  <2>2. CASE Read(s)
    <3>1. PICK d : "pc" \in DOMAIN d /\ (Proceed(s, Moved(d, "decide", "project")) \/ Proceed(s, Moved(d, "read", NextTier(c.tier))))
      BY <2>0, <2>2 DEF Read, CallType
    <3> QED
      BY <3>1, MovedShut
  <2>3. CASE ReadFails(s) \/ UndoFails(s) \/ UndoUnanswered(s)
    BY <2>3 DEF ReadFails, UndoFails, UndoUnanswered
  <2>4. CASE Decide(s) \/ Unlimited(s) \/ ReserveFails(s) \/ ReserveUnanswered(s)
    <3>1. "pc" \in DOMAIN c
      BY <2>0 DEF CallType
    <3> QED
      BY <2>4, <3>1, MovedShut DEF Decide, Unlimited, ReserveFails, ReserveUnanswered, GivesBack
  <2>5. CASE Reserve(s)
    BY <2>0, <2>5 DEF Reserve, Moved, Shut, CallType
  <2>6. CASE Undo(s)
    BY <2>0, <2>6 DEF Undo, Shut, CallType
  <2> QED
    BY <2>1, <2>2, <2>3, <2>4, <2>5, <2>6
<1>3. Alone(s) /\ Shut(call'[s])
  <2>1. Shut(NoCall)
    BY DEF NoCall, Shut
  <2> QED
    BY <1>2, <2>1, Ends, Proceeds
<1>4. OpenRequest(c) = Metering!Free /\ OpenRequest(call'[s]) = Metering!Free
  BY <1>1, <1>3, NotOpen DEF Shut
<1> HIDE DEF c
<1> QED
  BY <1>1, <1>3, <1>4, Unseen DEF c

\* Admission grants the request every capped tier it is charged to.
LEMMA AdmitGrants ==
    ASSUME LimiterInv, NEW s \in Slots, Admit(s)
    PROVE  Metering!MeterNext
<1> DEFINE c == call[s]
           capped == {t \in c.who \cap Metering!Counted : Rpm[t] > 0}
<1>1. c \in CallType /\ CallOK(c) /\ c.pc = "reserve" /\ c.tier = "session" /\ c.min \in Minutes /\ c.who \subseteq Tiers
  BY SlotTypes, CallTypes DEF Admit
<1>2. c.held = capped
  BY <1>1 DEF CallOK, CappedTiers, Capped, Metering!Counted, Counted
<1>3. Opened[s] = Metering!Free /\ "project" \in c.who
  BY <1>1, NotOpen, ProjectPays DEF Opened
<1>4. ASSUME NEW t \in capped PROVE adm[t][c.min] < Rpm[t]
  <2>1. t \in Counted /\ Rpm[t] > 0 /\ t \in c.held
    BY <1>2, <1>4 DEF Metering!Counted, Counted
  <2>2. s \in FittedSlots(t, c.min)
    BY <1>1, <2>1 DEF FittedSlots, Fitted
  <2>3. adm[t][c.min] + Cardinality(FittedSlots(t, c.min)) <= Rpm[t]
    BY <1>1, <2>1 DEF LimiterInv, Counts, NoOverGrant
  <2>4. IsFiniteSet(FittedSlots(t, c.min))
    BY FS_Subset DEF FittedSlots
  <2>5. Cardinality(FittedSlots(t, c.min)) \in Nat /\ Cardinality(FittedSlots(t, c.min)) # 0
    BY <2>2, <2>4, FS_CardinalityType, FS_EmptySet
  <2>6. adm[t][c.min] \in Nat /\ Rpm[t] \in Nat
    BY <1>1, <2>1, PlanFacts DEF LimiterInv, LimiterTypeOK
  <2> QED
    BY <2>3, <2>5, <2>6
<1>5. adm' = [t \in Metering!Counted |-> [n \in Minutes |->
                adm[t][n] + (IF t \in capped /\ n = c.min THEN 1 ELSE 0)]]
  BY <1>2 DEF Admit, Metering!Counted, Counted
<1>6. Opened' = [Opened EXCEPT ![s] = Metering!Unpaid(c.who)]
  <2> DEFINE d == [Moved(c, "run", "project") EXCEPT !.seen = NoCall.seen]
  <2>1. d.pc = "run" /\ d.who = c.who
    BY <1>1 DEF Moved, CallType
  <2>2. Proceed(s, d)
    BY DEF Admit
  <2> HIDE DEF d
  <2>3. Alone(s) /\ call'[s] = d
    BY <2>2, Proceeds
  <2>4. OpenRequest(d) = [who |-> c.who, paid |-> {}, cost |-> 0]
    BY <1>3, <2>1, NothingPaid
  <2> QED
    BY <2>3, <2>4, OpenedMoves DEF Metering!Unpaid
<1>7. Rpm' = Rpm /\ spent' = spent
  BY DEF Admit, Rpm
<1>8. c.who \subseteq Metering!Tiers
  BY <1>1 DEF Metering!Tiers, Metering!Counted, Tiers, Counted
<1>9. Metering!Grant(s, c.who, c.min)
  <2> HIDE DEF c, capped
  <2> QED
    BY <1>3, <1>4, <1>5, <1>6, <1>7, <1>8 DEF Metering!Grant, Opened, capped
<1>10. Opened'[s].who = c.who
  <2> HIDE DEF c
  <2> QED
    BY <1>6 DEF Opened, Metering!Unpaid
<1> QED
  <2> HIDE DEF c
  <2> QED
    BY <1>1, <1>9, <1>10 DEF Metering!MeterNext, Opened

\* The steps of an admitted request that pay nothing.
LEMMA RunningStep ==
    ASSUME LimiterInv, NEW s \in Slots,
           (\E ctx \in Contexts : Retrieve(s, ctx)) \/ Recheck(s) \/ RecheckFails(s)
    PROVE  UNCHANGED Metering!meterVars
<1> DEFINE c == call[s]
           Unpaid(d) == d.pc \in {"run", "recheck"} \/ (d.pc = "record" /\ d.tier = "project")
<1>1. c \in CallType /\ Unpaid(c) /\ UNCHANGED <<plan, adm, spent>>
  BY SlotTypes DEF Retrieve, Recheck, RecheckFails
<1>2. PICK d : Proceed(s, d) /\ Unpaid(d) /\ d.who = c.who
  <2>1. ASSUME NEW p PROVE MovedNow(c, p).who = c.who /\ MovedNow(c, p).pc = p /\ MovedNow(c, p).tier = "project"
    BY <1>1 DEF MovedNow, CallType
  <2>2. ASSUME NEW ctx, Retrieve(s, ctx) PROVE \E d : Proceed(s, d) /\ Unpaid(d) /\ d.who = c.who
    <3> DEFINE a == [MovedNow(c, "recheck") EXCEPT !.est = @ + ctx]
               b == MovedNow(c, "record")
    <3>1. Unpaid(a) /\ a.who = c.who
      BY <1>1 DEF MovedNow, CallType
    <3>2. Unpaid(b) /\ b.who = c.who
      BY <2>1
    <3>3. Proceed(s, a) \/ Proceed(s, b)
      BY <2>2 DEF Retrieve
    <3> QED
      BY <3>1, <3>2, <3>3
  <2>3. CASE Recheck(s)
    <3>1. Unpaid(Moved(c, "recheck", "key")) /\ Moved(c, "recheck", "key").who = c.who
      BY <1>1 DEF Moved, CallType
    <3>2. Proceed(s, MovedNow(c, "record")) \/ Proceed(s, Moved(c, "recheck", "key"))
      BY <2>3 DEF Recheck
    <3> QED
      BY <2>1, <3>1, <3>2
  <2>4. CASE RecheckFails(s)
    BY <2>1, <2>4 DEF RecheckFails
  <2> QED
    BY <2>2, <2>3, <2>4
<1>3. "project" \in c.who
  BY <1>1, ProjectPays
<1>4. Alone(s) /\ call'[s] = d
  BY <1>2, Proceeds
<1>5. OpenRequest(call'[s]) = OpenRequest(call[s])
  BY <1>1, <1>2, <1>3, <1>4, NothingPaid
<1> QED
  BY <1>1, <1>4, <1>5, Unseen

\* A record that fails before its last tier is given up.
LEMMA RecordGivesUp ==
    ASSUME LimiterInv, NEW s \in Slots, RecordFails(s)
    PROVE  Metering!MeterNext
<1> DEFINE c == call[s]
<1>1. c \in CallType /\ c.pc = "record" /\ c.tier \in c.who /\ Done(s) /\ UNCHANGED <<plan, adm, spent>>
  BY SlotTypes DEF RecordFails
<1>2. "project" \in c.who
  BY <1>1, ProjectPays
<1>3. OpenRequest(c).who = c.who /\ c.who # {}
  <2>1. c.tier \notin PaidTiers(c)
    BY <1>1, UnderRecord, <1>2, CallTypes DEF PaidTiers, Tiers, Counted
  <2> QED
    BY <1>1, <2>1 DEF OpenRequest
<1>4. Opened[s] # Metering!Free
  BY <1>3 DEF Opened, Metering!Free, Metering!Unpaid
<1>5. Opened' = [Opened EXCEPT ![s] = Metering!Free]
  <2>1. Alone(s) /\ call'[s] = NoCall
    BY <1>1, Ends
  <2>2. OpenRequest(NoCall) = Metering!Free
    BY NotOpen DEF NoCall
  <2> QED
    BY <2>1, <2>2, OpenedMoves
<1>6. Rpm' = Rpm /\ adm' = adm /\ spent' = spent
  BY <1>1 DEF Rpm
<1>7. Metering!GiveUp(s)
  BY <1>4, <1>5, <1>6 DEF Metering!GiveUp, Opened
<1> QED
  BY <1>7 DEF Metering!MeterNext

\* A tier the request is not charged to is passed over.
LEMMA SkipUnseen ==
    ASSUME LimiterInv, NEW s \in Slots, SkipTier(s)
    PROVE  UNCHANGED Metering!meterVars
<1> DEFINE c == call[s]
           t == c.tier
           d == Moved(c, "record", NextTier(t))
<1>1. c \in CallType /\ c.pc = "record" /\ t \notin c.who /\ UNCHANGED <<plan, adm, spent>>
  BY SlotTypes DEF SkipTier
<1>2. "project" \in c.who /\ t \in {"key", "session"} /\ c.who \subseteq Tiers
  BY <1>1, ProjectPays, CallTypes DEF Tiers, Counted
<1>3. CASE t = "session"
  <2>1. PaidTiers(c) = c.who
    <3>1. c.who \ {"session"} = c.who
      BY <1>1, <1>3
    <3> QED
      BY <1>1, <1>2, <1>3, <3>1, UnderRecord
  <2>2. OpenRequest(c) = Metering!Free
    BY <1>1, <1>2, <2>1, UnderRecord
  <2>3. Alone(s) /\ call'[s] = NoCall
    BY <1>3, Ends DEF SkipTier
  <2>4. OpenRequest(NoCall) = Metering!Free
    BY NotOpen DEF NoCall
  <2> QED
    BY <1>1, <2>2, <2>3, <2>4, Unseen
<1>4. CASE t = "key"
  <2>1. d \in CallType /\ d.pc = "record" /\ d.tier = "session" /\ d.who = c.who /\ d.est = c.est
    BY <1>1, <1>4, MovedFacts DEF Pcs, Tiers, NextTier
  <2>2. Proceed(s, d)
    BY <1>4 DEF SkipTier
  <2> HIDE DEF d
  <2>3. Alone(s) /\ call'[s] = d
    BY <2>2, Proceeds
  <2>4. PaidTiers(c) = {"project"} /\ PaidTiers(d) = {"project"}
    <3>1. c.who \ {"session"} = {"project"}
      BY <1>1, <1>2, <1>4 DEF Tiers, Counted
    <3> QED
      BY <1>1, <1>2, <1>4, <2>1, <3>1, UnderRecord
  <2>5. OpenRequest(d) = OpenRequest(c)
    BY <1>1, <2>1, <2>4 DEF OpenRequest
  <2> QED
    BY <1>1, <2>3, <2>5, Unseen
<1> QED
  BY <1>2, <1>3, <1>4

\* What a tier of the record leaves open is what paying it leaves open.
LEMMA PaidNext ==
    ASSUME NEW c \in CallType, NEW d \in CallType, NEW n \in Nat,
           c.pc = "record", c.tier \in c.who, c.tier # "session", "project" \in c.who,
           d.pc = "record", d.tier = NextTier(c.tier), d.who = c.who, d.est = n
    PROVE  OpenRequest(d) = Metering!AfterPaying(OpenRequest(c), c.tier, n)
<1>1. c.who \subseteq Tiers /\ c.tier \in {"project", "key"}
  BY CallTypes DEF Tiers, Counted
<1>2. PaidTiers(d) = PaidTiers(c) \cup {c.tier}
  <2>1. CASE c.tier = "project"
    <3>1. PaidTiers(c) = {} /\ d.tier = "key"
      BY <2>1 DEF PaidTiers, NextTier
    <3> QED
      BY <2>1, <3>1, UnderRecord
  <2>2. CASE c.tier = "key"
    <3>1. PaidTiers(c) = {"project"} /\ d.tier = "session"
      BY <2>2, UnderRecord DEF NextTier
    <3>2. c.who \ {"session"} = {"project", "key"}
      BY <1>1, <2>2 DEF Tiers, Counted
    <3> QED
      BY <2>2, <3>1, <3>2, UnderRecord
  <2> QED
    BY <1>1, <2>1, <2>2
<1>3. c.tier \notin PaidTiers(c)
  BY <1>1, UnderRecord DEF PaidTiers
<1>4. OpenRequest(c).who = c.who /\ OpenRequest(c).paid = PaidTiers(c)
  BY <1>3 DEF OpenRequest
<1>5. PaidTiers(d) # {} /\ d.tier # "project"
  BY <1>1, <1>2 DEF NextTier
<1>6. CASE PaidTiers(d) = d.who
  BY <1>2, <1>4, <1>6, UnderRecord DEF Metering!AfterPaying
<1>7. CASE PaidTiers(d) # d.who
  <2>1. OpenRequest(d) = [who |-> d.who, paid |-> PaidTiers(d), cost |-> n]
    BY <1>5, <1>7, UnderRecord
  <2> QED
    BY <1>2, <1>4, <1>7, <2>1 DEF Metering!AfterPaying
<1> QED
  BY <1>6, <1>7

\* A record of one tier pays that tier.
LEMMA RecordPays ==
    ASSUME LimiterInv, NEW s \in Slots, NEW n \in Spending(call[s]), RecordSubject(s, n)
    PROVE  Metering!MeterNext
<1> DEFINE c == call[s]
           t == c.tier
           e == Moved(c, "record", NextTier(t))
           f == [e EXCEPT !.est = n]
<1>1. /\ c \in CallType /\ c.pc = "record" /\ t \in c.who /\ t \in Tiers
      /\ spent' = [spent EXCEPT ![t] = @ + n] /\ UNCHANGED <<plan, adm>>
  BY SlotTypes, CallTypes DEF RecordSubject
<1>2. "project" \in c.who /\ c.who \subseteq Tiers
  BY <1>1, ProjectPays, CallTypes
<1>3. n \in Nat /\ (t # "project" => n = c.est)
  BY <1>1, SlotTypes, PlanFacts DEF Spending, CallOK, LimiterInv
<1>4. t \notin PaidTiers(c)
  BY <1>1, <1>2, UnderRecord DEF PaidTiers, Tiers, Counted
<1>5. /\ Opened[s].who = c.who /\ Opened[s].paid = PaidTiers(c)
      /\ t # "project" => Opened[s].cost = n
      /\ IF t = "project" THEN Opened[s].paid = {} ELSE "project" \in Opened[s].paid
  <2>1. t = "project" => PaidTiers(c) = {}
    BY DEF PaidTiers
  <2>2. t # "project" => "project" \in PaidTiers(c)
    BY <1>1, <1>2, UnderRecord DEF Tiers, Counted
  <2>3. OpenRequest(c) = [who |-> c.who, paid |-> PaidTiers(c), cost |-> IF PaidTiers(c) = {} THEN 0 ELSE c.est]
    BY <1>1, <1>4 DEF OpenRequest
  <2>4. Opened[s] = OpenRequest(c)
    BY DEF Opened
  <2> HIDE DEF c, t
  <2> QED
    BY <1>3, <2>1, <2>2, <2>3, <2>4
<1>6. \E next \in {Metering!AfterPaying(Opened[s], t, n), Metering!Free} :
         Opened' = [Opened EXCEPT ![s] = next]
  <2>1. CASE Done(s)
    <3>1. Alone(s) /\ call'[s] = NoCall
      BY <2>1, Ends
    <3>2. OpenRequest(NoCall) = Metering!Free
      BY NotOpen DEF NoCall
    <3> QED
      BY <3>1, <3>2, OpenedMoves
  <2>2. CASE t # "session" /\ Proceed(s, f)
    <3>1. "record" \in Pcs /\ NextTier(t) \in Tiers
      BY DEF Pcs, Tiers, Counted, NextTier
    <3>2. e \in CallType /\ e.pc = "record" /\ e.tier = NextTier(t) /\ e.who = c.who
      BY <1>1, <3>1, MovedFacts
    <3>3. Proceed(s, f)
      BY <2>2
    <3> HIDE DEF e
    <3>4. f \in CallType /\ f.pc = "record" /\ f.tier = NextTier(t) /\ f.who = c.who /\ f.est = n
      BY <1>3, <3>2, EstFacts
    <3> HIDE DEF f
    <3>5. Alone(s) /\ call'[s] = f
      BY <3>3, Proceeds
    <3>6. OpenRequest(f) = Metering!AfterPaying(OpenRequest(c), t, n)
      BY <1>1, <1>2, <1>3, <2>2, <3>4, PaidNext
    <3>7. Opened[s] = OpenRequest(c)
      BY DEF Opened
    <3> QED
      BY <3>5, <3>6, <3>7, OpenedMoves
  <2> QED
    BY <2>1, <2>2 DEF RecordSubject
<1>7. spent'[t] - spent[t] = n /\ spent[t] \in Nat
  BY <1>1, <1>3 DEF LimiterInv, LimiterTypeOK
<1>8. Rpm' = Rpm /\ adm' = adm
  BY <1>1 DEF Rpm
<1> HIDE DEF c, t
<1>9. Metering!Pay(s, t)
  <2>1. t \in Opened[s].who \ Opened[s].paid /\ n >= 0
    BY <1>1, <1>3, <1>4, <1>5
  <2>2. IF t = "project" THEN Opened[s].paid = {} ELSE "project" \in Opened[s].paid /\ n = Opened[s].cost
    BY <1>5
  <2> QED
    BY <1>1, <1>6, <1>7, <1>8, <2>1, <2>2 DEF Metering!Pay, Opened
<1>10. t \in Metering!Tiers
  BY <1>1 DEF Metering!Tiers, Metering!Counted, Tiers, Counted
<1> QED
  BY <1>9, <1>10 DEF Metering!MeterNext

LEMMA MeterStarts ==
    ASSUME LimiterInit, LimiterInv
    PROVE  Metering!MeterInit
<1>1. Rpm \in [Counted -> Nat]
  BY PlanFacts DEF LimiterInv
<1>2. ASSUME NEW s \in Slots PROVE OpenRequest(call[s]) = Metering!Free
  BY <1>2, NotOpen DEF LimiterInit, NoCall
<1>3. Opened = [s \in Slots |-> Metering!Free]
  BY <1>2 DEF Opened
<1>4. adm = [t \in Metering!Counted |-> [m \in Minutes |-> 0]] /\ spent = [t \in Metering!Tiers |-> 0]
  BY DEF LimiterInit, Metering!Counted, Metering!Tiers, Counted, Tiers
<1>5. Metering!Counted = Counted
  BY DEF Metering!Counted, Counted
<1> QED
  BY <1>1, <1>3, <1>4, <1>5 DEF Metering!MeterInit, Opened

LEMMA MeterStep == LimiterInv /\ [LimiterNext]_limVars => [Metering!MeterNext]_Metering!meterVars
<1> SUFFICES ASSUME LimiterInv, [LimiterNext]_limVars PROVE [Metering!MeterNext]_Metering!meterVars
  OBVIOUS
<1>1. ASSUME NEW s \in Slots, NEW who \in Subjects, NEW est \in Estimates, Begin(s, who, est)
      PROVE  UNCHANGED Metering!meterVars
  BY <1>1, EarlyStep
<1>2. ASSUME NEW s \in Slots,
             \/ Read(s) \/ ReadFails(s) \/ Decide(s) \/ Reserve(s) \/ Unlimited(s) \/ ReserveFails(s)
             \/ ReserveUnanswered(s) \/ Undo(s) \/ UndoFails(s) \/ UndoUnanswered(s)
      PROVE  UNCHANGED Metering!meterVars
  BY <1>2, EarlyStep
<1>3. ASSUME NEW s \in Slots, Admit(s) PROVE Metering!MeterNext
  BY <1>3, AdmitGrants
<1>4. ASSUME NEW s \in Slots, Recheck(s) \/ RecheckFails(s) \/ \E ctx \in Contexts : Retrieve(s, ctx)
      PROVE  UNCHANGED Metering!meterVars
  BY <1>4, RunningStep
<1>5. ASSUME NEW s \in Slots, SkipTier(s) PROVE UNCHANGED Metering!meterVars
  BY <1>5, SkipUnseen
<1>6. ASSUME NEW s \in Slots, RecordFails(s) PROVE Metering!MeterNext
  BY <1>6, RecordGivesUp
<1>7. ASSUME NEW s \in Slots, NEW n \in Spending(call[s]), RecordSubject(s, n) PROVE Metering!MeterNext
  BY <1>7, RecordPays
<1>8. ASSUME UNCHANGED <<plan, adm, spent, call>> PROVE UNCHANGED Metering!meterVars
  BY <1>8 DEF Metering!meterVars, Rpm
<1>9. (Tick \/ (\E s \in Slots : Leave(s)) \/ UNCHANGED limVars) => UNCHANGED <<plan, adm, spent, call>>
  BY DEF Tick, Leave, limVars
<1> QED
  BY <1>1, <1>2, <1>3, <1>4, <1>5, <1>6, <1>7, <1>8, <1>9 DEF LimiterNext

\* CheckSubject, CheckTokens and RecordSubject implement Meter for any number
\* of concurrent requests, any caps and any faults: the reservations on two
\* counters, with their releases, admit a request as one atomic step over both
\* tiers would, never above a cap, and RecordSubject pays every tier of it at
\* most once and the same, the project first.
THEOREM LimiterImplementsMeter == LimiterSpec => ImplementsMeter
<1>1. LimiterInit /\ LimiterInv => Metering!MeterInit
  BY MeterStarts
<1>2. LimiterInv /\ [LimiterNext]_limVars => [Metering!MeterNext]_Metering!meterVars
  BY MeterStep
<1> QED
  BY <1>1, <1>2, LimiterInvariant, PTL DEF LimiterSpec, ImplementsMeter, Metering!MeterSpec
=============================================================================
