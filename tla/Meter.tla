-------------------------------- MODULE Meter --------------------------------
(***************************************************************************)
(* What the limits promise for the requests of a project, with no SQL      *)
(* statement, reading, reservation or release in it: a request is admitted *)
(* in one step, on every tier it is charged to or on none, while each of   *)
(* them has room in the minute.  It then pays its tiers one by one, the    *)
(* project first and every tier the same, each at most once; a failure may *)
(* end it before the lower tiers are paid.  Limiter implements it.         *)
(***************************************************************************)
EXTENDS Integers

CONSTANTS Slots, Minutes

Counted == {"project", "key"}   \* tiers with a request cap
Tiers   == Counted \cup {"session"}

VARIABLES caps,   \* requests a minute a tier admits; 0 is unlimited
          used,   \* requests admitted by a capped tier in a minute
          spent,  \* tokens charged to a tier
          open    \* the admitted request of a slot: its tiers, those paid, the price
meterVars == <<caps, used, spent, open>>

Unpaid(who) == [who |-> who, paid |-> {}, cost |-> 0]
Free == Unpaid({})

MeterInit ==
    /\ caps \in [Counted -> Nat]
    /\ used = [t \in Counted |-> [m \in Minutes |-> 0]]
    /\ spent = [t \in Tiers |-> 0]
    /\ open = [s \in Slots |-> Free]

\* All the capped tiers of the request have room, and all count it.
Grant(s, who, m) ==
    LET capped == {t \in who \cap Counted : caps[t] > 0} IN
    /\ open[s] = Free /\ "project" \in who /\ who \subseteq Tiers
    /\ \A t \in capped : used[t][m] < caps[t]
    /\ used' = [t \in Counted |-> [n \in Minutes |->
                  used[t][n] + (IF t \in capped /\ n = m THEN 1 ELSE 0)]]
    /\ open' = [open EXCEPT ![s] = Unpaid(who)]
    /\ UNCHANGED <<caps, spent>>

\* The last tier paid ends the request; a failure may end it with any payment.
AfterPaying(o, t, n) ==
    IF o.who = o.paid \cup {t} THEN Free ELSE [who |-> o.who, paid |-> o.paid \cup {t}, cost |-> n]

Pay(s, t) ==
    LET o == open[s]
        n == spent'[t] - spent[t]
    IN  /\ t \in o.who \ o.paid /\ n >= 0
        /\ IF t = "project" THEN o.paid = {} ELSE "project" \in o.paid /\ n = o.cost
        /\ spent' = [spent EXCEPT ![t] = @ + n]
        /\ \E next \in {AfterPaying(o, t, n), Free} : open' = [open EXCEPT ![s] = next]
        /\ UNCHANGED <<caps, used>>

GiveUp(s) ==
    /\ open[s] # Free
    /\ open' = [open EXCEPT ![s] = Free]
    /\ UNCHANGED <<caps, used, spent>>

\* A grant opens the slot for the tiers of its request.
MeterNext ==
    \E s \in Slots :
        \/ \E m \in Minutes : Grant(s, open'[s].who, m)
        \/ \E t \in Tiers : Pay(s, t)
        \/ GiveUp(s)

MeterSpec == MeterInit /\ [][MeterNext]_meterVars
=============================================================================
