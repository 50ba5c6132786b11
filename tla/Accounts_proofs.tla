---------------------------- MODULE Accounts_proofs ----------------------------
(***************************************************************************)
(* The accounts, sessions and keys of Accounts, for any number of users,   *)
(* sessions, keys and concurrent requests, and the caps of LoginLimiter.   *)
(***************************************************************************)
EXTENDS Accounts, LoginLimiter, FiniteSetTheorems, TLAPS

USE RolesAssumption, UsersAssumption, IdsAssumption, WebBoundsAssumption, NobodyAssumption

\* The steps of every kind of request.
StepsOf(op) ==
    CASE op = "none" -> {"idle"}
      [] op = "setup" -> {"begin", "insert", "session"}
      [] op = "boot" -> {"begin", "insert"}
      [] op = "login" -> {"session"}
      [] op \in {"own", "reset", "cli"} -> {"password", "drop", "revoke"}
      [] op = "update" -> {"check", "begin", "apply", "commit", "drop"}
      [] op = "delete" -> {"check", "begin", "apply", "commit"}
      [] op = "mint" -> {"mint"}
      [] op = "edit" -> {"edit"}
      [] op = "call" -> {"log"}

\* What a request r carries at each of its steps.
ShapeOK(r) ==
    /\ r.pc \in StepsOf(r.op)
    /\ r.op \notin {"none", "edit", "call"} => r.to \in Users
    /\ r.op \in {"edit", "call"} => r.key \in KeyIds

\* A change of one's own password came with a session of that account.
OwnOK(r) ==
    r.op = "own" => r.token \in SessionIds /\ sessions[r.token].st # "unused" /\ sessions[r.token].user = r.to

\* The transactions of request w: they hold the lock, and what they read of
\* the accounts still holds.
TxOK(w) ==
    LET r == web[w] IN
    /\ r.pc \in {"insert", "apply", "commit"} => adminLock = w
    /\ r.pc = "insert" => \A v \in Users : ~users[v].here
    /\ r.pc \in {"apply", "commit"} => users[r.to].here /\ r.was = IsActiveAdmin(users[r.to])
    /\ r.pc = "commit" /\ r.was => ActiveAdmins(Applied(w)) # {}

RequestsSound == \A w \in Web : ShapeOK(web[w]) /\ OwnOK(web[w]) /\ TxOK(w)

\* The rows refer to each other as the foreign keys say.
RowsSound ==
    /\ \A u \in Users : users[u].active => users[u].here
    /\ \A s \in SessionIds : sessions[s].st # "unused" => sessions[s].user \in Users
    /\ \A k \in KeyIds : apikeys[k].st # "unused" => apikeys[k].user \in Users

\* Sessions older than the password, and sessions older than a deactivation,
\* with the requests that are about to end them.
OldPasswordsExplained ==
    \A s \in SessionIds :
        LET u == sessions[s].user IN
        sessions[s].st = "live" /\ sessions[s].pw < users[u].pw =>
            \/ sessions[s].raced \/ "sessions" \in excused[u]
            \/ \E w \in Web : web[w].pc = "drop" /\ web[w].to = u
DeactivationsExplained ==
    \A s \in SessionIds :
        LET u == sessions[s].user IN
        sessions[s].st = "live" /\ sessions[s].off < users[u].off =>
            \/ sessions[s].raced \/ "sessions" \in excused[u]
            \/ \E w \in Web : web[w].pc = "drop" /\ web[w].op # "own" /\ web[w].to = u
OldKeysExplained ==
    \A k \in KeyIds :
        LET u == apikeys[k].user IN
        apikeys[k].st = "live" /\ apikeys[k].kind = "management" /\ apikeys[k].pw < users[u].pw =>
            \/ apikeys[k].raced \/ "keys" \in excused[u]
            \/ \E w \in Web : web[w].pc \in {"drop", "revoke"} /\ web[w].op # "update" /\ web[w].to = u

Founding == founded <= 1 /\ (founded = 1 => \E u \in Users : users[u].here)

Explained == OldPasswordsExplained /\ DeactivationsExplained /\ OldKeysExplained
AccountsIInv ==
    AccountsTypeOK /\ RequestsSound /\ RowsSound /\ AdminRemains /\ Founding /\ Explained
-----------------------------------------------------------------------------
(* Requests and rows.                                                      *)

Ops == {"none", "setup", "boot", "login", "own", "reset", "cli", "update", "delete", "mint", "edit", "call"}

LEMMA RequestFields ==
    ASSUME NEW r \in Requests
    PROVE  /\ r.op \in Ops /\ r.pc \in Steps /\ r.to \in Users \cup {Nobody}
           /\ r.token \in SessionIds \cup {0} /\ r.role \in RolesUsed /\ r.active \in BOOLEAN
           /\ r.pw \in 0..MaxPw /\ r.off \in 0..MaxOff /\ r.was \in BOOLEAN
           /\ r.keep \subseteq {"sessions", "keys"} /\ r.kind \in {"gateway", "management"}
BY DEF Requests, Ops

LEMMA NoRequestType ==
    /\ NoRequest \in Requests /\ NoRequest.pc = "idle" /\ NoRequest.op = "none"
    /\ ShapeOK(NoRequest)
<1>1. NoRequest \in Requests
  BY DEF NoRequest, Requests, Steps
<1>2. NoRequest.pc = "idle" /\ NoRequest.op = "none"
  BY DEF NoRequest
<1>3. NoRequest.pc \in StepsOf(NoRequest.op)
  BY <1>2 DEF StepsOf
<1> HIDE DEF NoRequest
<1> QED
  BY <1>1, <1>2, <1>3 DEF ShapeOK

\* A request in its next step.
LEMMA StepFields ==
    ASSUME NEW r \in Requests, NEW pc \in Steps
    PROVE  LET q == [r EXCEPT !.pc = pc] IN
           /\ q \in Requests /\ q.pc = pc /\ q.op = r.op /\ q.to = r.to /\ q.token = r.token
           /\ q.role = r.role /\ q.active = r.active /\ q.was = r.was /\ q.key = r.key
BY DEF Requests

\* Only request w moves, and it becomes r.
Becomes(w, r) ==
    /\ r \in Requests
    /\ web' = [web EXCEPT ![w] = r]

LEMMA BecomesFacts ==
    ASSUME AccountsTypeOK, NEW w \in Web, NEW r, Becomes(w, r)
    PROVE  /\ web' \in [Web -> Requests] /\ web'[w] = r
           /\ \A v \in Web \ {w} : web'[v] = web[v]
BY DEF Becomes, AccountsTypeOK

LEMMA GoFacts ==
    ASSUME AccountsTypeOK, NEW w \in Web, NEW pc \in Steps, Go(w, pc)
    PROVE  LET r == [web[w] EXCEPT !.pc = pc] IN
           /\ Becomes(w, r) /\ served' = served
           /\ r.pc = pc /\ r.op = web[w].op /\ r.to = web[w].to /\ r.token = web[w].token
           /\ r.role = web[w].role /\ r.active = web[w].active /\ r.was = web[w].was /\ r.key = web[w].key
<1>1. web[w] \in Requests
  BY DEF AccountsTypeOK
<1>2. web' = [web EXCEPT ![w] = [web[w] EXCEPT !.pc = pc]]
  BY DEF Go
<1> QED
  BY <1>1, <1>2, StepFields DEF Go, Becomes

LEMMA EndFacts ==
    ASSUME NEW w \in Web, End(w)
    PROVE  Becomes(w, NoRequest) /\ served' = served
BY NoRequestType DEF End, Becomes

LEMMA StartFacts ==
    ASSUME AccountsTypeOK, NEW w \in Web, NEW r \in Requests, Start(w, r)
    PROVE  Becomes(w, r) /\ served' \in 0..MaxWeb /\ web[w].pc = "idle"
BY DEF Start, Becomes, AccountsTypeOK

\* The changes that a transaction in progress does not notice: accounts come,
\* and passwords change, but roles, active flags and accounts stay.
Grown ==
    \A u \in Users : users[u].here =>
        /\ users'[u].here /\ users'[u].role = users[u].role /\ users'[u].active = users[u].active

\* Sessions and keys keep their owners.
Owned ==
    \A s \in SessionIds : sessions[s].st # "unused" =>
        sessions'[s].st # "unused" /\ sessions'[s].user = sessions[s].user

\* The table T after the update or deletion r, and the row that it changes.
RewrittenRow(row, r) ==
    IF r.op = "delete" THEN [row EXCEPT !.here = FALSE, !.active = FALSE]
    ELSE [row EXCEPT !.role = r.role, !.active = r.active,
                     !.off = IF @ < MaxOff /\ ~r.active THEN @ + 1 ELSE @]
Rewritten(T, r) == [T EXCEPT ![r.to] = RewrittenRow(T[r.to], r)]

LEMMA AppliedIsRewritten ==
    ASSUME NEW w \in Web
    PROVE  Applied(w) = Rewritten(users, web[w]) /\ Applied(w)' = Rewritten(users', web'[w])
BY DEF Applied, Rewritten, RewrittenRow

LEMMA RewrittenRowFacts ==
    ASSUME NEW row \in Rows, NEW r \in Requests
    PROVE  LET q == RewrittenRow(row, r) IN
           /\ q \in Rows /\ q.pw = row.pw
           /\ r.op = "delete" => ~q.here /\ ~q.active /\ q.off = row.off
           /\ r.op # "delete" => /\ q.here = row.here /\ q.role = r.role /\ q.active = r.active
                                 /\ r.active => q.off = row.off
<1> DEFINE n == IF row.off < MaxOff /\ ~r.active THEN row.off + 1 ELSE row.off
<1>1. r.role \in RolesUsed /\ r.active \in BOOLEAN
  BY RequestFields
<1>2. n \in 0..MaxOff /\ (r.active => n = row.off)
  BY <1>1 DEF Rows
<1>3. CASE r.op = "delete"
  BY <1>3 DEF Rows, RewrittenRow
<1>4. CASE r.op # "delete"
  <2>1. RewrittenRow(row, r) = [row EXCEPT !.role = r.role, !.active = r.active, !.off = n]
    BY <1>4 DEF RewrittenRow
  <2> HIDE DEF n
  <2> QED
    BY <1>1, <1>2, <1>4, <2>1 DEF Rows
<1> QED
  BY <1>3, <1>4

LEMMA RewrittenFacts ==
    ASSUME NEW T \in [Users -> Rows], NEW r \in Requests, r.to \in Users
    PROVE  /\ Rewritten(T, r) \in [Users -> Rows]
           /\ \A u \in Users \ {r.to} : Rewritten(T, r)[u] = T[u]
           /\ Rewritten(T, r)[r.to] = RewrittenRow(T[r.to], r)
<1>1. RewrittenRow(T[r.to], r) \in Rows
  BY RewrittenRowFacts
<1> QED
  BY <1>1 DEF Rewritten

\* A transaction in progress survives the step of another request.
LEMMA OthersTx ==
    ASSUME AccountsTypeOK, users' \in [Users -> Rows], NEW v \in Web,
           web'[v] = web[v], ShapeOK(web[v]), TxOK(v), Grown,
           web[v].pc \in {"insert", "apply", "commit"} => adminLock' = v,
           web[v].pc = "insert" => \A u \in Users : ~users'[u].here
    PROVE  TxOK(v)'
<1> DEFINE r == web[v]
<1>1. r \in Requests /\ users \in [Users -> Rows]
  BY DEF AccountsTypeOK
<1>2. CASE r.pc \notin {"apply", "commit"}
  BY <1>2 DEF TxOK
<1>3. CASE r.pc \in {"apply", "commit"}
  <2>1. r.to \in Users
    BY <1>1, <1>3, RequestFields DEF ShapeOK, StepsOf, Ops
  <2>2. users[r.to].here /\ r.was = IsActiveAdmin(users[r.to])
    BY <1>3 DEF TxOK
  <2>3. users'[r.to].here /\ users'[r.to].role = users[r.to].role /\ users'[r.to].active = users[r.to].active
    BY <2>1, <2>2 DEF Grown
  <2>4. r.was = IsActiveAdmin(users'[r.to])
    BY <2>2, <2>3 DEF IsActiveAdmin
  <2>5. ASSUME r.pc = "commit", r.was PROVE ActiveAdmins(Applied(v))' # {}
    <3>1. PICK a \in Users : IsActiveAdmin(Rewritten(users, r)[a])
      BY <2>5, AppliedIsRewritten DEF TxOK, ActiveAdmins
    <3>2. IsActiveAdmin(Rewritten(users', r)[a])
      <4>1. CASE a = r.to
        <5>1. /\ Rewritten(users, r)[a] = RewrittenRow(users[r.to], r)
              /\ Rewritten(users', r)[a] = RewrittenRow(users'[r.to], r)
          BY <1>1, <2>1, <4>1, RewrittenFacts
        <5>2. users[r.to] \in Rows /\ users'[r.to] \in Rows
          BY <1>1, <2>1
        <5> QED
          <6> DEFINE p == RewrittenRow(users[r.to], r)
                     q == RewrittenRow(users'[r.to], r)
          <6>1. p.here /\ p.active /\ p.role = "admin"
            BY <3>1, <5>1 DEF IsActiveAdmin
          <6>2. r.op # "delete" /\ p.here = users[r.to].here /\ p.role = r.role /\ p.active = r.active
            BY <1>1, <5>2, <6>1, RewrittenRowFacts
          <6>3. q.here = users'[r.to].here /\ q.role = r.role /\ q.active = r.active
            BY <1>1, <5>2, <6>2, RewrittenRowFacts
          <6> HIDE DEF p, q
          <6>4. IsActiveAdmin(q)
            BY <2>3, <2>2, <6>1, <6>2, <6>3 DEF IsActiveAdmin
          <6> QED
            BY <5>1, <6>4 DEF q
      <4>2. CASE a # r.to
        <5>1. Rewritten(users, r)[a] = users[a] /\ Rewritten(users', r)[a] = users'[a]
          BY <1>1, <2>1, <4>2, RewrittenFacts
        <5> QED
          BY <3>1, <5>1 DEF IsActiveAdmin, Grown
      <4> QED
        BY <4>1, <4>2
    <3> QED
      BY <3>2, AppliedIsRewritten DEF ActiveAdmins
  <2> QED
    BY <1>3, <2>3, <2>4, <2>5 DEF TxOK
<1> QED
  BY <1>2, <1>3

\* The requests other than w are sound after a step of w, or of the one that
\* holds the lock.
LEMMA OthersSound ==
    ASSUME AccountsTypeOK, RequestsSound, users' \in [Users -> Rows], NEW w,
           Grown \/ adminLock = w, Owned,
           \A v \in Web \ {w} : web'[v] = web[v] /\ (adminLock = v => adminLock' = v),
           \A v \in Web \ {w} : web[v].pc = "insert" => \A u \in Users : ~users'[u].here
    PROVE  \A v \in Web \ {w} : ShapeOK(web'[v]) /\ OwnOK(web[v])' /\ TxOK(v)'
<1> SUFFICES ASSUME NEW v \in Web \ {w}
             PROVE  ShapeOK(web'[v]) /\ OwnOK(web[v])' /\ TxOK(v)'
  OBVIOUS
<1>1. web'[v] = web[v] /\ ShapeOK(web[v]) /\ OwnOK(web[v]) /\ TxOK(v)
  BY DEF RequestsSound
<1>2. OwnOK(web[v])'
  BY <1>1 DEF OwnOK, Owned
<1>3. TxOK(v)'
  <2>1. CASE web[v].pc \notin {"insert", "apply", "commit"}
    BY <1>1, <2>1 DEF TxOK
  <2>2. CASE web[v].pc \in {"insert", "apply", "commit"}
    <3>1. adminLock = v
      BY <1>1, <2>2 DEF TxOK
    <3> QED
      BY <1>1, <2>2, <3>1, OthersTx
  <2> QED
    BY <2>1, <2>2
<1> QED
  BY <1>1, <1>2, <1>3

\* Who is due to lose the sessions of an old password, those of a
\* deactivation, and the management keys of an old password.
PwDue(u) == "sessions" \in excused[u] \/ \E w \in Web : web[w].pc = "drop" /\ web[w].to = u
OffDue(u) ==
    "sessions" \in excused[u] \/ \E w \in Web : web[w].pc = "drop" /\ web[w].op # "own" /\ web[w].to = u
KeysDue(u) ==
    "keys" \in excused[u] \/ \E w \in Web : web[w].pc \in {"drop", "revoke"} /\ web[w].op # "update" /\ web[w].to = u

DuesKept ==
    \A u \in Users : (PwDue(u) => PwDue(u)') /\ (OffDue(u) => OffDue(u)') /\ (KeysDue(u) => KeysDue(u)')

\* Live sessions and keys were live before, and of the same age.
SessionsFade ==
    \A s \in SessionIds : sessions'[s].st = "live" =>
        /\ sessions[s].st = "live" /\ sessions'[s].user = sessions[s].user /\ sessions'[s].pw = sessions[s].pw
        /\ sessions'[s].off = sessions[s].off /\ sessions'[s].raced = sessions[s].raced
KeysFade ==
    \A k \in KeyIds : apikeys'[k].st = "live" =>
        /\ apikeys[k].st = "live" /\ apikeys'[k].user = apikeys[k].user /\ apikeys'[k].pw = apikeys[k].pw
        /\ apikeys'[k].kind = apikeys[k].kind /\ apikeys'[k].raced = apikeys[k].raced
AgesSame == \A u \in Users : users'[u].pw = users[u].pw /\ users'[u].off = users[u].off

LEMMA DuesKeptByOthers ==
    ASSUME \A u \in Users : excused[u] \subseteq excused'[u],
           \A v \in Web : web[v].pc \in {"drop", "revoke"} => web'[v] = web[v]
    PROVE  DuesKept
BY DEF DuesKept, PwDue, OffDue, KeysDue

LEMMA OldPasswordsStep ==
    ASSUME AccountsTypeOK, OldPasswordsExplained, RowsSound', AccountsTypeOK',
           \A u \in Users : users'[u].pw = users[u].pw \/ PwDue(u)',
           \A s \in SessionIds, u \in Users :
               sessions'[s].st = "live" /\ sessions'[s].user = u =>
                   \/ sessions'[s].raced \/ users'[u].pw <= sessions'[s].pw \/ PwDue(u)'
                   \/ /\ sessions[s].st = "live" /\ sessions[s].user = u
                      /\ sessions'[s].pw = sessions[s].pw /\ sessions'[s].raced = sessions[s].raced
                      /\ PwDue(u) => PwDue(u)'
    PROVE  OldPasswordsExplained'
<1> SUFFICES ASSUME NEW s \in SessionIds, NEW u \in Users, sessions'[s].st = "live",
                    sessions'[s].user = u, sessions'[s].pw < users'[u].pw
             PROVE  sessions'[s].raced \/ PwDue(u)'
  BY DEF OldPasswordsExplained, PwDue, RowsSound
<1>2. sessions'[s].pw \in Nat /\ users'[u].pw \in Nat /\ users[u].pw \in Nat
  BY DEF AccountsTypeOK, Rows, SessionRows
<1>3. CASE sessions'[s].raced \/ PwDue(u)'
  BY <1>3
<1>4. CASE ~PwDue(u)' /\ ~sessions'[s].raced
  <2>1. /\ sessions[s].st = "live" /\ sessions[s].user = u /\ sessions'[s].pw = sessions[s].pw
        /\ ~sessions[s].raced /\ ~PwDue(u)
    BY <1>2, <1>4
  <2>2. users'[u].pw = users[u].pw
    BY <1>4
  <2> QED
    BY <2>1, <2>2 DEF OldPasswordsExplained, PwDue
<1> QED
  BY <1>3, <1>4

LEMMA DeactivationsStep ==
    ASSUME AccountsTypeOK, DeactivationsExplained, RowsSound', AccountsTypeOK',
           \A u \in Users : users'[u].off = users[u].off \/ OffDue(u)',
           \A s \in SessionIds, u \in Users :
               sessions'[s].st = "live" /\ sessions'[s].user = u =>
                   \/ sessions'[s].raced \/ users'[u].off <= sessions'[s].off \/ OffDue(u)'
                   \/ /\ sessions[s].st = "live" /\ sessions[s].user = u
                      /\ sessions'[s].off = sessions[s].off /\ sessions'[s].raced = sessions[s].raced
                      /\ OffDue(u) => OffDue(u)'
    PROVE  DeactivationsExplained'
<1> SUFFICES ASSUME NEW s \in SessionIds, NEW u \in Users, sessions'[s].st = "live",
                    sessions'[s].user = u, sessions'[s].off < users'[u].off
             PROVE  sessions'[s].raced \/ OffDue(u)'
  BY DEF DeactivationsExplained, OffDue, RowsSound
<1>2. sessions'[s].off \in Nat /\ users'[u].off \in Nat /\ users[u].off \in Nat
  BY DEF AccountsTypeOK, Rows, SessionRows
<1>3. CASE sessions'[s].raced \/ OffDue(u)'
  BY <1>3
<1>4. CASE ~OffDue(u)' /\ ~sessions'[s].raced
  <2>1. /\ sessions[s].st = "live" /\ sessions[s].user = u /\ sessions'[s].off = sessions[s].off
        /\ ~sessions[s].raced /\ ~OffDue(u)
    BY <1>2, <1>4
  <2>2. users'[u].off = users[u].off
    BY <1>4
  <2>3. sessions[s].off < users[sessions[s].user].off
    BY <2>1, <2>2
  <2>4. sessions[s].raced \/ OffDue(sessions[s].user)
    BY <2>1, <2>3 DEF DeactivationsExplained, OffDue
  <2> QED
    BY <2>1, <2>4
<1> QED
  BY <1>3, <1>4

LEMMA OldKeysStep ==
    ASSUME AccountsTypeOK, OldKeysExplained, RowsSound', AccountsTypeOK',
           \A u \in Users : users'[u].pw = users[u].pw \/ KeysDue(u)',
           \A k \in KeyIds, u \in Users :
               apikeys'[k].st = "live" /\ apikeys'[k].kind = "management" /\ apikeys'[k].user = u =>
                   \/ apikeys'[k].raced \/ users'[u].pw <= apikeys'[k].pw \/ KeysDue(u)'
                   \/ /\ apikeys[k].st = "live" /\ apikeys[k].kind = "management" /\ apikeys[k].user = u
                      /\ apikeys'[k].pw = apikeys[k].pw /\ apikeys'[k].raced = apikeys[k].raced
                      /\ KeysDue(u) => KeysDue(u)'
    PROVE  OldKeysExplained'
<1> SUFFICES ASSUME NEW k \in KeyIds, NEW u \in Users, apikeys'[k].st = "live", apikeys'[k].kind = "management",
                    apikeys'[k].user = u, apikeys'[k].pw < users'[u].pw
             PROVE  apikeys'[k].raced \/ KeysDue(u)'
  BY DEF OldKeysExplained, KeysDue, RowsSound
<1>2. apikeys'[k].pw \in Nat /\ users'[u].pw \in Nat /\ users[u].pw \in Nat
  BY DEF AccountsTypeOK, Rows, KeyRows
<1>3. CASE apikeys'[k].raced \/ KeysDue(u)'
  BY <1>3
<1>4. CASE ~KeysDue(u)' /\ ~apikeys'[k].raced
  <2>1. /\ apikeys[k].st = "live" /\ apikeys[k].kind = "management" /\ apikeys[k].user = u
        /\ apikeys'[k].pw = apikeys[k].pw /\ ~apikeys[k].raced /\ ~KeysDue(u)
    BY <1>2, <1>4
  <2>2. users'[u].pw = users[u].pw
    BY <1>4
  <2> QED
    BY <2>1, <2>2 DEF OldKeysExplained, KeysDue
<1> QED
  BY <1>3, <1>4

\* A step that makes nothing older and gives up no revocation.
LEMMA ExplainedSame ==
    ASSUME AccountsTypeOK, Explained, RowsSound', AccountsTypeOK', AgesSame, SessionsFade, KeysFade, DuesKept
    PROVE  Explained'
<1>1. OldPasswordsExplained'
  BY OldPasswordsStep DEF Explained, AgesSame, SessionsFade, DuesKept
<1>2. DeactivationsExplained'
  BY DeactivationsStep DEF Explained, AgesSame, SessionsFade, DuesKept
<1>3. OldKeysExplained'
  BY OldKeysStep DEF Explained, AgesSame, KeysFade, DuesKept
<1> QED
  BY <1>1, <1>2, <1>3 DEF Explained
-----------------------------------------------------------------------------
(* Steps that change requests only.                                        *)

LEMMA MoveStep ==
    ASSUME AccountsIInv, NEW w \in Web, NEW r, Becomes(w, r), served' \in 0..MaxWeb,
           UNCHANGED <<users, acRest>>, adminLock' \in Web \cup {Nobody},
           \A v \in Web \ {w} : adminLock = v => adminLock' = v,
           web[w].pc \notin {"drop", "revoke"}, ShapeOK(r), OwnOK(r), TxOK(w)'
    PROVE  AccountsIInv'
<1>1. AccountsTypeOK /\ RequestsSound /\ RowsSound /\ AdminRemains /\ Founding /\ Explained
  BY DEF AccountsIInv
<1>2. /\ users' = users /\ sessions' = sessions /\ apikeys' = apikeys /\ logged' = logged
      /\ founded' = founded /\ excused' = excused
  BY DEF acRest
<1>3. web' \in [Web -> Requests] /\ web'[w] = r /\ \A v \in Web \ {w} : web'[v] = web[v]
  BY <1>1, BecomesFacts
<1>4. AccountsTypeOK'
  BY <1>1, <1>2, <1>3 DEF AccountsTypeOK
<1>5. RequestsSound'
  <2>1. Grown /\ Owned /\ users' \in [Users -> Rows]
    BY <1>1, <1>2 DEF Grown, Owned, AccountsTypeOK
  <2>2. \A v \in Web \ {w} : web[v].pc = "insert" => \A u \in Users : ~users'[u].here
    BY <1>1, <1>2 DEF RequestsSound, TxOK
  <2>3. \A v \in Web \ {w} : ShapeOK(web'[v]) /\ OwnOK(web[v])' /\ TxOK(v)'
    BY <1>1, <1>3, <2>1, <2>2, OthersSound
  <2>4. ShapeOK(web'[w]) /\ OwnOK(web[w])'
    BY <1>2, <1>3 DEF OwnOK
  <2> QED
    BY <2>3, <2>4 DEF RequestsSound, ShapeOK
<1>6. RowsSound' /\ AdminRemains' /\ Founding'
  BY <1>1, <1>2 DEF RowsSound, AdminRemains, ActiveAdmins, Founding
<1>7. Explained'
  <2>1. AgesSame /\ SessionsFade /\ KeysFade
    BY <1>2 DEF AgesSame, SessionsFade, KeysFade
  <2>2. DuesKept
    BY <1>2, <1>3, DuesKeptByOthers
  <2> QED
    BY <1>1, <1>4, <1>6, <2>1, <2>2, ExplainedSame
<1> QED
  BY <1>4, <1>5, <1>6, <1>7 DEF AccountsIInv

\* A request starts.
LEMMA StartStep ==
    ASSUME AccountsIInv, NEW w \in Web, NEW r \in Requests, Start(w, r), UNCHANGED <<users, adminLock, acRest>>,
           r.pc \notin {"insert", "apply", "commit"}, ShapeOK(r), OwnOK(r)
    PROVE  AccountsIInv'
<1>1. AccountsTypeOK
  BY DEF AccountsIInv
<1>2. Becomes(w, r) /\ served' \in 0..MaxWeb /\ web[w].pc = "idle"
  BY <1>1, StartFacts
<1>3. web'[w] = r
  BY <1>1, <1>2, BecomesFacts
<1>4. TxOK(w)'
  BY <1>3 DEF TxOK
<1>5. adminLock' = adminLock /\ adminLock' \in Web \cup {Nobody}
  BY <1>1 DEF AccountsTypeOK
<1> QED
  BY <1>2, <1>4, <1>5, MoveStep

\* The first steps of requests that name an account, and those of the others.
Opening(op) == CASE op \in {"setup", "boot"} -> "begin"
                 [] op = "login" -> "session"
                 [] op \in {"own", "reset", "cli"} -> "password"
                 [] op \in {"update", "delete"} -> "check"
                 [] op = "mint" -> "mint"
                 [] op = "edit" -> "edit"
                 [] op = "call" -> "log"

LEMMA OpeningStep ==
    ASSUME AccountsIInv, NEW w \in Web, NEW r \in Requests, Start(w, r), UNCHANGED <<users, adminLock, acRest>>,
           r.op \in Ops \ {"none", "own"}, r.pc = Opening(r.op),
           r.op \notin {"edit", "call"} => r.to \in Users,
           r.op \in {"edit", "call"} => r.key \in KeyIds
    PROVE  AccountsIInv'
<1>1. r.pc \notin {"insert", "apply", "commit"} /\ r.pc \in StepsOf(r.op)
  BY DEF Opening, StepsOf, Ops
<1>2. ShapeOK(r) /\ OwnOK(r)
  BY <1>1 DEF ShapeOK, OwnOK
<1> QED
  BY <1>1, <1>2, StartStep

LEMMA FirstAccountStep ==
    ASSUME AccountsIInv, NEW w \in Web, NEW u \in Users, StartSetup(w, u) \/ BootstrapAdmin(w, u)
    PROVE  AccountsIInv'
<1>1. PICK op \in {"setup", "boot"} : FirstAccount(w, u, op)
  BY DEF StartSetup, BootstrapAdmin
<1> DEFINE r == [NoRequest EXCEPT !.op = op, !.pc = "begin", !.to = u]
<1>2. r \in Requests /\ r.op = op /\ r.pc = "begin" /\ r.to = u
  BY NoRequestType DEF Requests, Steps
<1>3. Start(w, r) /\ UNCHANGED <<users, adminLock, acRest>>
  BY <1>1 DEF FirstAccount
<1> HIDE DEF r
<1> QED
  BY <1>2, <1>3, OpeningStep DEF Opening, Ops

LEMMA LoginReadStep ==
    ASSUME AccountsIInv, NEW w \in Web, NEW u \in Users, LoginRead(w, u)
    PROVE  AccountsIInv'
<1> DEFINE r == [NoRequest EXCEPT !.op = "login", !.pc = "session", !.to = u, !.pw = users[u].pw, !.off = users[u].off]
<1>1. users[u].pw \in 0..MaxPw /\ users[u].off \in 0..MaxOff
  BY DEF AccountsIInv, AccountsTypeOK, Rows
<1>2. r \in Requests /\ r.op = "login" /\ r.pc = "session" /\ r.to = u
  BY <1>1, NoRequestType DEF Requests, Steps
<1>3. Start(w, r) /\ UNCHANGED <<users, adminLock, acRest>>
  BY DEF LoginRead
<1> HIDE DEF r
<1> QED
  BY <1>2, <1>3, OpeningStep DEF Opening, Ops

\* What a principal is.
LEMMA PrincipalFacts ==
    ASSUME AccountsTypeOK, RowsSound, NEW min, NEW p \in Principals(min)
    PROVE  /\ p[1] \in Users /\ users[p[1]].here /\ users[p[1]].active
           /\ p[2] # 0 => p[2] \in SessionIds /\ sessions[p[2]].st = "live" /\ sessions[p[2]].user = p[1]
<1>1. CASE \E s \in SessionIds : UserBySession(s) # Nobody /\ p = <<UserBySession(s), s>>
  BY <1>1 DEF UserBySession, RowsSound
<1>2. CASE \E k \in KeyIds : ResolveManagementKey(k) # Nobody /\ p = <<ResolveManagementKey(k), 0>>
  BY <1>2 DEF ResolveManagementKey, RowsSound
<1> QED
  BY <1>1, <1>2 DEF Principals

LEMMA StartChangePasswordStep ==
    ASSUME AccountsIInv, NEW w \in Web, StartChangePassword(w)
    PROVE  AccountsIInv'
<1>1. AccountsTypeOK /\ RowsSound
  BY DEF AccountsIInv
<1>2. PICK p \in Principals("viewer") :
        /\ p[2] # 0
        /\ Start(w, [NoRequest EXCEPT !.op = "own", !.pc = "password", !.by = p[1], !.to = p[1], !.token = p[2]])
  BY DEF StartChangePassword
<1>3. PICK u \in Users, t \in SessionIds : p[1] = u /\ p[2] = t /\ sessions[t].st = "live" /\ sessions[t].user = u
  BY <1>1, <1>2, PrincipalFacts
<1> DEFINE r == [NoRequest EXCEPT !.op = "own", !.pc = "password", !.by = u, !.to = u, !.token = t]
<1>4. r \in Requests /\ r.op = "own" /\ r.pc = "password" /\ r.to = u /\ r.token = t
  BY NoRequestType DEF Requests, Steps
<1>5. Start(w, r) /\ UNCHANGED <<users, adminLock, acRest>>
  BY <1>2, <1>3 DEF StartChangePassword
<1> HIDE DEF r
<1>6. ShapeOK(r) /\ OwnOK(r)
  BY <1>3, <1>4 DEF ShapeOK, OwnOK, StepsOf
<1> QED
  BY <1>4, <1>5, <1>6, StartStep

LEMMA StartResetPasswordStep ==
    ASSUME AccountsIInv, NEW w \in Web, NEW u \in Users, StartResetPassword(w, u)
    PROVE  AccountsIInv'
<1>1. PICK p \in Principals("admin") :
        Start(w, [NoRequest EXCEPT !.op = "reset", !.pc = "password", !.by = p[1], !.to = u])
  BY DEF StartResetPassword
<1>2. PICK b \in Users : p[1] = b
  BY PrincipalFacts DEF AccountsIInv
<1> DEFINE r == [NoRequest EXCEPT !.op = "reset", !.pc = "password", !.by = b, !.to = u]
<1>3. r \in Requests /\ r.op = "reset" /\ r.pc = "password" /\ r.to = u
  BY NoRequestType DEF Requests, Steps
<1>4. Start(w, r) /\ UNCHANGED <<users, adminLock, acRest>>
  BY <1>1, <1>2 DEF StartResetPassword
<1> HIDE DEF r
<1> QED
  BY <1>3, <1>4, OpeningStep DEF Opening, Ops

LEMMA StartResetCommandStep ==
    ASSUME AccountsIInv, NEW w \in Web, NEW u \in Users, StartResetCommand(w, u)
    PROVE  AccountsIInv'
<1>1. PICK keep \in SUBSET {"sessions", "keys"} :
        Start(w, [NoRequest EXCEPT !.op = "cli", !.pc = "password", !.to = u, !.keep = keep])
  BY DEF StartResetCommand
<1> DEFINE r == [NoRequest EXCEPT !.op = "cli", !.pc = "password", !.to = u, !.keep = keep]
<1>2. r \in Requests /\ r.op = "cli" /\ r.pc = "password" /\ r.to = u
  BY NoRequestType DEF Requests, Steps
<1>3. Start(w, r) /\ UNCHANGED <<users, adminLock, acRest>>
  BY <1>1 DEF StartResetCommand
<1> HIDE DEF r
<1> QED
  BY <1>2, <1>3, OpeningStep DEF Opening, Ops

LEMMA StartUpdateUserStep ==
    ASSUME AccountsIInv, NEW w \in Web, NEW u \in Users, StartUpdateUser(w, u)
    PROVE  AccountsIInv'
<1>1. PICK p \in Principals("admin"), role \in RolesUsed, active \in BOOLEAN :
        Start(w, [NoRequest EXCEPT !.op = "update", !.pc = "check", !.by = p[1], !.to = u, !.role = role,
                                   !.active = active, !.was = IsActiveAdmin(users[u]) /\ (role # "admin" \/ ~active)])
  BY DEF StartUpdateUser
<1>2. PICK b \in Users : p[1] = b
  BY PrincipalFacts DEF AccountsIInv
<1> DEFINE was == IsActiveAdmin(users[u]) /\ (role # "admin" \/ ~active)
           r == [NoRequest EXCEPT !.op = "update", !.pc = "check", !.by = b, !.to = u, !.role = role,
                                  !.active = active, !.was = was]
<1>3. was \in BOOLEAN
  OBVIOUS
<1>4. Start(w, r) /\ UNCHANGED <<users, adminLock, acRest>>
  BY <1>1, <1>2 DEF StartUpdateUser
<1> HIDE DEF was
<1>5. r \in Requests /\ r.op = "update" /\ r.pc = "check" /\ r.to = u
  BY ZenonT(60), <1>3, NoRequestType DEF Requests, Steps
<1> HIDE DEF r
<1> QED
  BY <1>4, <1>5, OpeningStep DEF Opening, Ops

LEMMA StartDeleteUserStep ==
    ASSUME AccountsIInv, NEW w \in Web, NEW u \in Users, StartDeleteUser(w, u)
    PROVE  AccountsIInv'
<1>1. PICK p \in Principals("admin") :
        Start(w, [NoRequest EXCEPT !.op = "delete", !.pc = "check", !.by = p[1], !.to = u,
                                   !.was = IsActiveAdmin(users[u])])
  BY DEF StartDeleteUser
<1>2. PICK b \in Users : p[1] = b
  BY PrincipalFacts DEF AccountsIInv
<1> DEFINE was == IsActiveAdmin(users[u])
           r == [NoRequest EXCEPT !.op = "delete", !.pc = "check", !.by = b, !.to = u, !.was = was]
<1>3. was \in BOOLEAN
  BY DEF IsActiveAdmin, AccountsIInv, AccountsTypeOK, Rows
<1>4. Start(w, r) /\ UNCHANGED <<users, adminLock, acRest>>
  BY <1>1, <1>2 DEF StartDeleteUser
<1> HIDE DEF was
<1>5. r \in Requests /\ r.op = "delete" /\ r.pc = "check" /\ r.to = u
  BY <1>3, NoRequestType DEF Requests, Steps
<1> HIDE DEF r
<1> QED
  BY <1>4, <1>5, OpeningStep DEF Opening, Ops

LEMMA StartCreateKeyStep ==
    ASSUME AccountsIInv, NEW w \in Web, NEW u \in Users, NEW kind \in {"gateway", "management"},
           StartCreateKey(w, u, kind)
    PROVE  AccountsIInv'
<1>1. PICK p \in Principals("viewer") :
        Start(w, [NoRequest EXCEPT !.op = "mint", !.pc = "mint", !.by = p[1], !.to = u, !.kind = kind,
                                   !.role = users[p[1]].role, !.pw = users[u].pw])
  BY DEF StartCreateKey
<1>2. PICK b \in Users : p[1] = b
  BY PrincipalFacts DEF AccountsIInv
<1> DEFINE role == users[b].role
           pw == users[u].pw
           r == [NoRequest EXCEPT !.op = "mint", !.pc = "mint", !.by = b, !.to = u, !.kind = kind,
                                  !.role = role, !.pw = pw]
<1>3. role \in RolesUsed /\ pw \in 0..MaxPw
  BY DEF AccountsIInv, AccountsTypeOK, Rows
<1>4. Start(w, r) /\ UNCHANGED <<users, adminLock, acRest>>
  BY <1>1, <1>2 DEF StartCreateKey
<1> HIDE DEF role, pw
<1>5. r \in Requests /\ r.op = "mint" /\ r.pc = "mint" /\ r.to = u
  BY <1>3, NoRequestType DEF Requests, Steps
<1> HIDE DEF r
<1> QED
  BY <1>4, <1>5, OpeningStep DEF Opening, Ops

LEMMA StartUpdateKeyStep ==
    ASSUME AccountsIInv, NEW w \in Web, NEW k \in KeyIds, StartUpdateKey(w, k)
    PROVE  AccountsIInv'
<1>1. PICK p \in Principals("viewer") :
        Start(w, [NoRequest EXCEPT !.op = "edit", !.pc = "edit", !.by = p[1], !.key = k, !.st = apikeys[k].st,
                                   !.role = users[p[1]].role])
  BY DEF StartUpdateKey
<1>2. PICK b \in Users : p[1] = b
  BY PrincipalFacts DEF AccountsIInv
<1> DEFINE role == users[b].role
           st == apikeys[k].st
           r == [NoRequest EXCEPT !.op = "edit", !.pc = "edit", !.by = b, !.key = k, !.st = st, !.role = role]
<1>3. role \in RolesUsed /\ st \in {"unused", "live", "revoked"}
  BY DEF AccountsIInv, AccountsTypeOK, Rows, StartUpdateKey
<1>4. Start(w, r) /\ UNCHANGED <<users, adminLock, acRest>>
  BY <1>1, <1>2 DEF StartUpdateKey
<1> HIDE DEF role, st
<1>5. r \in Requests /\ r.op = "edit" /\ r.pc = "edit" /\ r.key = k
  BY <1>3, NoRequestType DEF Requests, Steps
<1> HIDE DEF r
<1> QED
  BY <1>4, <1>5, OpeningStep DEF Opening, Ops

LEMMA StartCallStep ==
    ASSUME AccountsIInv, NEW w \in Web, NEW k \in KeyIds, StartCall(w, k)
    PROVE  AccountsIInv'
<1> DEFINE r == [NoRequest EXCEPT !.op = "call", !.pc = "log", !.key = k]
<1>1. r \in Requests /\ r.op = "call" /\ r.pc = "log" /\ r.key = k
  BY NoRequestType DEF Requests, Steps
<1>2. Start(w, r) /\ UNCHANGED <<users, adminLock, acRest>>
  BY DEF StartCall
<1> HIDE DEF r
<1> QED
  BY <1>1, <1>2, OpeningStep DEF Opening, Ops

\* A request that ends without having changed a row and with nothing due.
LEMMA EndStep ==
    ASSUME AccountsIInv, NEW w \in Web, End(w), UNCHANGED <<users, acRest>>, adminLock' = adminLock \/ Unlock(w),
           web[w].pc \notin {"drop", "revoke"}
    PROVE  AccountsIInv'
<1>1. AccountsTypeOK
  BY DEF AccountsIInv
<1>2. Becomes(w, NoRequest) /\ served' \in 0..MaxWeb
  BY <1>1, EndFacts DEF AccountsTypeOK
<1>3. web'[w] = NoRequest
  BY <1>1, <1>2, BecomesFacts
<1>4. TxOK(w)'
  BY <1>3, NoRequestType DEF TxOK
<1>5. adminLock' \in Web \cup {Nobody} /\ \A v \in Web \ {w} : adminLock = v => adminLock' = v
  BY <1>1 DEF Unlock, AccountsTypeOK
<1>6. OwnOK(NoRequest) /\ ShapeOK(NoRequest)
  BY NoRequestType DEF OwnOK
<1> QED
  BY <1>2, <1>4, <1>5, <1>6, MoveStep

\* What is known of the request at each step.
LEMMA ShapeFacts ==
    ASSUME AccountsIInv, NEW w \in Web
    PROVE  /\ web[w] \in Requests /\ ShapeOK(web[w]) /\ OwnOK(web[w]) /\ TxOK(w)
           /\ web[w].pc \notin {"idle", "edit", "log"} => web[w].to \in Users
           /\ web[w].pc \in {"edit", "log"} => web[w].key \in KeyIds
           /\ web[w].pc = "insert" => web[w].op \in {"setup", "boot"}
           /\ web[w].pc = "session" => web[w].op \in {"setup", "login"}
           /\ web[w].pc = "password" => web[w].op \in {"own", "reset", "cli"}
           /\ web[w].pc = "drop" => web[w].op \in {"own", "reset", "cli", "update"}
           /\ web[w].pc = "revoke" => web[w].op \in {"own", "reset", "cli"}
           /\ web[w].pc \in {"check", "apply", "commit"} => web[w].op \in {"update", "delete"}
<1>1. web[w] \in Requests /\ ShapeOK(web[w]) /\ OwnOK(web[w]) /\ TxOK(w)
  BY DEF AccountsIInv, AccountsTypeOK, RequestsSound
<1>2. web[w].op \in Ops
  BY <1>1, RequestFields
<1> QED
  BY <1>1, <1>2 DEF ShapeOK, StepsOf, Ops

LEMMA CreateFirstUserCountStep ==
    ASSUME AccountsIInv, NEW w \in Web, CreateFirstUserCount(w)
    PROVE  AccountsIInv'
<1>1. AccountsTypeOK /\ web[w].op \in {"setup", "boot"} /\ web[w].pc = "begin" /\ adminLock = Nobody
      /\ UNCHANGED <<users, acRest>>
  BY DEF AccountsIInv, CreateFirstUserCount
<1>2. CASE \E v \in Users : users[v].here
  BY <1>1, <1>2, EndStep DEF CreateFirstUserCount
<1>3. CASE ~(\E v \in Users : users[v].here)
  <2>1. Go(w, "insert") /\ adminLock' = w /\ users' = users
    BY <1>1, <1>3 DEF CreateFirstUserCount
  <2> DEFINE r == [web[w] EXCEPT !.pc = "insert"]
  <2>2. /\ Becomes(w, r) /\ served' = served /\ r.pc = "insert" /\ r.op = web[w].op /\ r.to = web[w].to
    BY ZenonT(60), <1>1, <2>1, GoFacts DEF Steps
  <2>3. web'[w] = r /\ served' \in 0..MaxWeb
    BY <1>1, <2>2, BecomesFacts DEF AccountsTypeOK
  <2> HIDE DEF r
  <2>4. ShapeOK(r) /\ OwnOK(r)
    BY <1>1, <2>2, ShapeFacts DEF ShapeOK, OwnOK, StepsOf
  <2>5. TxOK(w)'
    BY <1>3, <2>1, <2>2, <2>3 DEF TxOK
  <2> QED
    BY <1>1, <2>1, <2>2, <2>3, <2>4, <2>5, MoveStep
<1> QED
  BY <1>2, <1>3

LEMMA NotLastAdminStep ==
    ASSUME AccountsIInv, NEW w \in Web, NotLastAdmin(w)
    PROVE  AccountsIInv'
<1>1. AccountsTypeOK /\ web[w].op \in {"update", "delete"} /\ web[w].pc = "check"
      /\ adminLock' = adminLock /\ UNCHANGED <<users, acRest>>
  BY ShapeFacts DEF AccountsIInv, NotLastAdmin
<1>2. CASE End(w)
  BY <1>1, <1>2, EndStep
<1>3. CASE Go(w, "begin")
  <2> DEFINE r == [web[w] EXCEPT !.pc = "begin"]
  <2>1. /\ Becomes(w, r) /\ served' = served /\ r.pc = "begin" /\ r.op = web[w].op /\ r.to = web[w].to
    BY ZenonT(60), <1>1, <1>3, GoFacts DEF Steps
  <2>2. web'[w] = r /\ served' \in 0..MaxWeb /\ adminLock' \in Web \cup {Nobody}
    BY <1>1, <2>1, BecomesFacts DEF AccountsTypeOK
  <2> HIDE DEF r
  <2>3. ShapeOK(r) /\ OwnOK(r)
    BY <1>1, <2>1, ShapeFacts DEF ShapeOK, OwnOK, StepsOf
  <2>4. TxOK(w)'
    BY <2>1, <2>2 DEF TxOK
  <2> QED
    BY <1>1, <2>1, <2>2, <2>3, <2>4, MoveStep
<1> QED
  BY <1>2, <1>3 DEF NotLastAdmin

LEMMA AdminTxBeginStep ==
    ASSUME AccountsIInv, NEW w \in Web, AdminTxBegin(w)
    PROVE  AccountsIInv'
<1>1. AccountsTypeOK /\ web[w].op \in {"update", "delete"} /\ web[w].pc = "begin" /\ adminLock = Nobody
      /\ UNCHANGED <<users, acRest>>
  BY DEF AccountsIInv, AdminTxBegin
<1>2. CASE ~users[web[w].to].here \/ (web[w].op = "delete" /\ AttributedKeys(web[w].to) # {})
  BY <1>1, <1>2, EndStep DEF AdminTxBegin
<1>3. CASE ~(~users[web[w].to].here \/ (web[w].op = "delete" /\ AttributedKeys(web[w].to) # {}))
  <2> DEFINE was == IsActiveAdmin(users[web[w].to])
             r == [web[w] EXCEPT !.pc = "apply", !.was = was]
  <2>1. adminLock' = w /\ users' = users /\ served' = served /\ users[web[w].to].here
    BY <1>1, <1>3 DEF AdminTxBegin
  <2>2. web' = [web EXCEPT ![w] = r]
    BY <1>1, <1>3 DEF AdminTxBegin
  <2>3. web[w] \in Requests /\ web[w].to \in Users
    BY <1>1, ShapeFacts
  <2>4. was \in BOOLEAN
    BY <1>1, <2>3 DEF IsActiveAdmin, AccountsTypeOK, Rows
  <2> HIDE DEF was
  <2>5. r \in Requests /\ r.pc = "apply" /\ r.op = web[w].op /\ r.to = web[w].to /\ r.was = was
    BY ZenonT(60), <2>3, <2>4 DEF Requests, Steps
  <2>6. Becomes(w, r)
    BY <2>2, <2>5 DEF Becomes
  <2>7. web'[w] = r /\ served' \in 0..MaxWeb
    BY <1>1, <2>1, <2>6, BecomesFacts DEF AccountsTypeOK
  <2> HIDE DEF r
  <2>8. ShapeOK(r) /\ OwnOK(r)
    BY <1>1, <2>3, <2>5 DEF ShapeOK, OwnOK, StepsOf
  <2>9. TxOK(w)'
    BY <2>1, <2>5, <2>7 DEF TxOK, was
  <2> QED
    BY <1>1, <2>1, <2>6, <2>7, <2>8, <2>9, MoveStep
<1> QED
  BY <1>2, <1>3

LEMMA AdminTxApplyStep ==
    ASSUME AccountsIInv, NEW w \in Web, AdminTxApply(w)
    PROVE  AccountsIInv'
<1>1. AccountsTypeOK /\ web[w].op \in {"update", "delete"} /\ web[w].pc = "apply"
      /\ UNCHANGED <<users, acRest>>
  BY DEF AccountsIInv, AdminTxApply
<1>2. CASE web[w].was /\ ActiveAdmins(Applied(w)) = {}
  BY <1>1, <1>2, EndStep DEF AdminTxApply
<1>3. CASE ~(web[w].was /\ ActiveAdmins(Applied(w)) = {})
  <2>1. Go(w, "commit") /\ adminLock' = adminLock /\ users' = users
    BY <1>1, <1>3 DEF AdminTxApply
  <2> DEFINE r == [web[w] EXCEPT !.pc = "commit"]
  <2>2. /\ Becomes(w, r) /\ served' = served /\ r.pc = "commit" /\ r.op = web[w].op /\ r.to = web[w].to
        /\ r.role = web[w].role /\ r.active = web[w].active /\ r.was = web[w].was
    <3>1. "commit" \in Steps
      BY DEF Steps
    <3> QED
      BY <1>1, <2>1, <3>1, GoFacts
  <2>3. web'[w] = r /\ served' \in 0..MaxWeb /\ adminLock' \in Web \cup {Nobody}
    BY <1>1, <2>1, <2>2, BecomesFacts DEF AccountsTypeOK
  <2> HIDE DEF r
  <2>4. ShapeOK(r) /\ OwnOK(r)
    BY <1>1, <2>2, ShapeFacts DEF ShapeOK, OwnOK, StepsOf
  <2>5. Applied(w)' = Applied(w)
    <3>1. Rewritten(users, r) = Rewritten(users, web[w])
      BY <2>2 DEF Rewritten, RewrittenRow
    <3> QED
      BY <2>1, <2>3, <3>1, AppliedIsRewritten
  <2>6. TxOK(w)'
    <3>1. adminLock = w /\ users[web[w].to].here /\ web[w].was = IsActiveAdmin(users[web[w].to])
      BY <1>1, ShapeFacts DEF TxOK
    <3>2. web'[w].pc = "commit" /\ web'[w].was => ActiveAdmins(Applied(w))' # {}
      BY <1>3, <2>2, <2>3, <2>5 DEF ActiveAdmins
    <3> QED
      BY <2>1, <2>2, <2>3, <3>1, <3>2 DEF TxOK
  <2> QED
    BY <1>1, <2>1, <2>2, <2>3, <2>4, <2>6, MoveStep
<1> QED
  BY <1>2, <1>3
-----------------------------------------------------------------------------
(* Steps that change sessions, keys and logs.                              *)

\* No session and no key comes into being.
NoneNew ==
    /\ \A s \in SessionIds : sessions'[s].st # "unused" =>
         sessions[s].st # "unused" /\ sessions'[s].user = sessions[s].user
    /\ \A k \in KeyIds : apikeys'[k].st # "unused" =>
         apikeys[k].st # "unused" /\ apikeys'[k].user = apikeys[k].user

TablesTyped ==
    /\ sessions' \in [SessionIds -> SessionRows]
    /\ apikeys' \in [KeyIds -> KeyRows]
    /\ logged' \in [KeyIds -> {"none", "named", "erased"}]

LEMMA QuietStep ==
    ASSUME AccountsIInv, UNCHANGED <<users, web, served, adminLock, founded, excused>>,
           TablesTyped, NoneNew, Owned, SessionsFade, KeysFade
    PROVE  AccountsIInv'
<1>1. AccountsTypeOK /\ RequestsSound /\ RowsSound /\ AdminRemains /\ Founding /\ Explained
  BY DEF AccountsIInv
<1>2. AccountsTypeOK'
  BY <1>1 DEF AccountsTypeOK, TablesTyped
<1>3. RequestsSound'
  <2>1. \A v \in Web : TxOK(v)'
    BY ZenonT(60), <1>1 DEF RequestsSound, TxOK, Applied, ActiveAdmins
  <2>2. \A v \in Web : OwnOK(web[v])'
    BY <1>1 DEF RequestsSound, OwnOK, Owned
  <2> QED
    BY <1>1, <2>1, <2>2 DEF RequestsSound, ShapeOK
<1>4. RowsSound' /\ AdminRemains' /\ Founding'
  BY <1>1 DEF RowsSound, NoneNew, AdminRemains, ActiveAdmins, Founding
<1>5. AgesSame /\ DuesKept
  BY DuesKeptByOthers DEF AgesSame
<1>6. Explained'
  BY <1>1, <1>2, <1>4, <1>5, ExplainedSame
<1> QED
  BY <1>2, <1>3, <1>4, <1>6 DEF AccountsIInv

\* Sessions end.
LEMMA EndedFacts ==
    ASSUME AccountsTypeOK, NEW S
    PROVE  /\ Ended(S) \in [SessionIds -> SessionRows]
           /\ \A s \in SessionIds : /\ s \in S => Ended(S)[s].st = "gone"
                                    /\ s \notin S => Ended(S)[s] = sessions[s]
                                    /\ Ended(S)[s].user = sessions[s].user /\ Ended(S)[s].pw = sessions[s].pw
                                    /\ Ended(S)[s].off = sessions[s].off /\ Ended(S)[s].raced = sessions[s].raced
<1> SUFFICES ASSUME NEW s \in SessionIds
             PROVE  /\ Ended(S)[s] \in SessionRows
                    /\ s \in S => Ended(S)[s].st = "gone"
                    /\ s \notin S => Ended(S)[s] = sessions[s]
                    /\ Ended(S)[s].user = sessions[s].user /\ Ended(S)[s].pw = sessions[s].pw
                    /\ Ended(S)[s].off = sessions[s].off /\ Ended(S)[s].raced = sessions[s].raced
  BY DEF Ended
<1>1. sessions[s] \in SessionRows
  BY DEF AccountsTypeOK
<1>2. CASE s \in S
  BY <1>1, <1>2 DEF Ended, SessionRows
<1>3. CASE s \notin S
  BY <1>1, <1>3 DEF Ended
<1> QED
  BY <1>2, <1>3

LEMMA EndSessionsStep ==
    ASSUME AccountsIInv, NEW S, \A s \in S : s \in SessionIds /\ sessions[s].st = "live", sessions' = Ended(S),
           UNCHANGED <<users, apikeys, logged, web, served, adminLock, founded, excused>>
    PROVE  AccountsIInv'
<1>1. AccountsTypeOK
  BY DEF AccountsIInv
<1>2. TablesTyped
  BY <1>1, EndedFacts DEF AccountsTypeOK, TablesTyped
<1>3. NoneNew /\ Owned
  BY <1>1, EndedFacts DEF NoneNew, Owned
<1>4. SessionsFade /\ KeysFade
  BY <1>1, EndedFacts DEF SessionsFade, KeysFade
<1> QED
  BY <1>2, <1>3, <1>4, QuietStep

\* A key changes its state, and is not live afterwards.
LEMMA KeyStep ==
    ASSUME AccountsIInv, NEW k \in KeyIds, NEW st \in {"revoked", "gone"}, apikeys[k].st # "unused",
           apikeys' = [apikeys EXCEPT ![k].st = st],
           UNCHANGED <<users, sessions, logged, web, served, adminLock, founded, excused>>
    PROVE  AccountsIInv'
<1>1. AccountsTypeOK /\ apikeys[k] \in KeyRows
  BY DEF AccountsIInv, AccountsTypeOK
<1> DEFINE row == [apikeys[k] EXCEPT !.st = st]
<1>2. row \in KeyRows /\ row.st = st /\ row.user = apikeys[k].user
  BY <1>1 DEF KeyRows
<1>3. apikeys' = [apikeys EXCEPT ![k] = row]
  OBVIOUS
<1> HIDE DEF row
<1>4. apikeys' \in [KeyIds -> KeyRows] /\ apikeys'[k] = row /\ \A j \in KeyIds \ {k} : apikeys'[j] = apikeys[j]
  BY <1>1, <1>2, <1>3 DEF AccountsTypeOK
<1>5. TablesTyped
  BY <1>1, <1>4 DEF AccountsTypeOK, TablesTyped
<1>6. NoneNew /\ Owned
  BY <1>2, <1>4 DEF NoneNew, Owned
<1>7. SessionsFade /\ KeysFade
  BY <1>2, <1>4 DEF SessionsFade, KeysFade
<1> QED
  BY <1>5, <1>6, <1>7, QuietStep

LEMMA QuietSteps ==
    ASSUME AccountsIInv,
           \/ \E s \in SessionIds : Logout(s)
           \/ \E u \in Users : RevokeSessions(u)
           \/ \E k \in KeyIds : RevokeKey(k) \/ DeleteKey(k) \/ PurgeKey(k) \/ PurgeLog(k)
    PROVE  AccountsIInv'
<1>1. ASSUME NEW s \in SessionIds, Logout(s) PROVE AccountsIInv'
  BY <1>1, EndSessionsStep DEF Logout
<1>2. ASSUME NEW u \in Users, RevokeSessions(u) PROVE AccountsIInv'
  BY <1>2, EndSessionsStep DEF RevokeSessions, SessionsOf
<1>3. ASSUME NEW k \in KeyIds, RevokeKey(k) PROVE AccountsIInv'
  BY <1>3, KeyStep DEF RevokeKey
<1>4. ASSUME NEW k \in KeyIds, DeleteKey(k) PROVE AccountsIInv'
  BY <1>4, KeyStep DEF DeleteKey
<1>5. ASSUME NEW k \in KeyIds, PurgeKey(k) PROVE AccountsIInv'
  BY <1>5, KeyStep DEF PurgeKey
<1>6. ASSUME NEW k \in KeyIds, PurgeLog(k) PROVE AccountsIInv'
  <2>1. TablesTyped /\ NoneNew /\ Owned /\ SessionsFade /\ KeysFade
    BY <1>6 DEF AccountsIInv, AccountsTypeOK, PurgeLog, TablesTyped, NoneNew, Owned, SessionsFade, KeysFade
  <2> QED
    BY <1>6, <2>1, QuietStep DEF PurgeLog
<1> QED
  BY <1>1, <1>2, <1>3, <1>4, <1>5, <1>6

\* The requests after one of them ended.
LEMMA EndedSound ==
    ASSUME AccountsIInv, NEW w \in Web, End(w), users' = users, Owned, adminLock' = adminLock \/ Unlock(w)
    PROVE  /\ web' \in [Web -> Requests] /\ served' \in 0..MaxWeb /\ adminLock' \in Web \cup {Nobody}
           /\ RequestsSound' /\ web'[w] = NoRequest /\ \A v \in Web \ {w} : web'[v] = web[v]
<1>1. AccountsTypeOK /\ RequestsSound
  BY DEF AccountsIInv
<1>2. Becomes(w, NoRequest) /\ served' \in 0..MaxWeb
  BY <1>1, EndFacts DEF AccountsTypeOK
<1>3. web' \in [Web -> Requests] /\ web'[w] = NoRequest /\ \A v \in Web \ {w} : web'[v] = web[v]
  BY <1>1, <1>2, BecomesFacts
<1>4. adminLock' \in Web \cup {Nobody} /\ \A v \in Web \ {w} : adminLock = v => adminLock' = v
  BY <1>1 DEF Unlock, AccountsTypeOK
<1>5. users' \in [Users -> Rows] /\ Grown
  BY <1>1 DEF AccountsTypeOK, Grown
<1>6. \A v \in Web \ {w} : web[v].pc = "insert" => \A u \in Users : ~users'[u].here
  BY <1>1 DEF RequestsSound, TxOK
<1>7. \A v \in Web \ {w} : ShapeOK(web'[v]) /\ OwnOK(web[v])' /\ TxOK(v)'
  BY <1>1, <1>3, <1>4, <1>5, <1>6, OthersSound
<1>8. ShapeOK(web'[w]) /\ OwnOK(web[w])' /\ TxOK(w)'
  BY <1>3, NoRequestType DEF OwnOK, TxOK
<1> QED
  BY <1>2, <1>3, <1>4, <1>7, <1>8 DEF RequestsSound, ShapeOK

\* A request ends with its last statement.
LEMMA EndingStep ==
    ASSUME AccountsIInv, NEW w \in Web, End(w), users' = users, founded' = founded,
           adminLock' = adminLock \/ Unlock(w), excused' \in [Users -> SUBSET {"sessions", "keys"}],
           TablesTyped, Owned, RowsSound', AccountsTypeOK' => Explained'
    PROVE  AccountsIInv'
<1>1. AccountsTypeOK /\ AdminRemains /\ Founding
  BY DEF AccountsIInv
<1>2. /\ web' \in [Web -> Requests] /\ served' \in 0..MaxWeb /\ adminLock' \in Web \cup {Nobody}
      /\ RequestsSound'
  BY EndedSound
<1>3. AccountsTypeOK'
  BY <1>1, <1>2 DEF AccountsTypeOK, TablesTyped
<1>4. AdminRemains' /\ Founding'
  BY <1>1 DEF AdminRemains, ActiveAdmins, Founding
<1> QED
  BY <1>2, <1>3, <1>4 DEF AccountsIInv

LEMMA NewSessionStep ==
    ASSUME AccountsIInv, NEW w \in Web, NewSession(w)
    PROVE  AccountsIInv'
<1>1. AccountsTypeOK /\ RowsSound /\ Explained /\ web[w].pc = "session" /\ web[w] \in Requests /\ web[w].to \in Users
  BY ShapeFacts DEF AccountsIInv, NewSession
<1>2. End(w) /\ UNCHANGED <<users, apikeys, logged, adminLock, founded, excused>>
  BY DEF NewSession
<1>3. CASE sessions' = sessions
  <2>1. AccountsTypeOK /\ UNCHANGED <<users, acRest>> /\ adminLock' = adminLock
    BY <1>1, <1>2, <1>3 DEF acRest
  <2> QED
    BY <1>1, <1>2, <2>1, EndStep
<1>4. CASE sessions' # sessions
  <2> DEFINE u == web[w].to
             raced == web[w].pw # users[u].pw \/ web[w].off # users[u].off
             row == [st |-> "live", user |-> u, pw |-> web[w].pw, off |-> web[w].off, raced |-> raced]
  <2>1. PICK s \in SessionIds : sessions[s].st = "unused" /\ sessions' = [sessions EXCEPT ![s] = row]
    BY <1>4 DEF NewSession
  <2>2. raced \in BOOLEAN /\ web[w].pw \in 0..MaxPw /\ web[w].off \in 0..MaxOff
    BY <1>1, RequestFields
  <2>3. ~raced => web[w].pw = users[u].pw /\ web[w].off = users[u].off
    OBVIOUS
  <2> HIDE DEF raced
  <2>4. row \in SessionRows /\ row.st = "live" /\ row.user = u /\ row.pw = web[w].pw /\ row.off = web[w].off
        /\ row.raced = raced
    BY <1>1, <2>2 DEF SessionRows
  <2> HIDE DEF row
  <2>5. sessions' \in [SessionIds -> SessionRows] /\ sessions'[s] = row /\ \A t \in SessionIds \ {s} : sessions'[t] = sessions[t]
    BY <1>1, <2>1, <2>4 DEF AccountsTypeOK
  <2>6. Owned /\ TablesTyped
    BY <1>1, <1>2, <2>1, <2>5 DEF Owned, TablesTyped, AccountsTypeOK
  <2>7. RowsSound'
    BY <1>1, <1>2, <2>4, <2>5 DEF RowsSound
  <2>8. ASSUME AccountsTypeOK' PROVE Explained'
    <3>1. \A v \in Web \ {w} : web'[v] = web[v]
      BY <1>2, <2>6, EndedSound
    <3>2. DuesKept
      BY <1>1, <1>2, <3>1, DuesKeptByOthers
    <3>3. OldPasswordsExplained'
      <4>1. \A x \in Users : users'[x].pw = users[x].pw
        BY <1>2
      <4>2. ASSUME NEW t \in SessionIds, NEW x \in Users, sessions'[t].st = "live", sessions'[t].user = x
            PROVE  \/ sessions'[t].raced \/ users'[x].pw <= sessions'[t].pw \/ PwDue(x)'
                   \/ /\ sessions[t].st = "live" /\ sessions[t].user = x
                      /\ sessions'[t].pw = sessions[t].pw /\ sessions'[t].raced = sessions[t].raced
                      /\ PwDue(x) => PwDue(x)'
        BY <1>2, <2>2, <2>3, <2>4, <2>5, <3>2, <4>2 DEF DuesKept
      <4> QED
        BY <1>1, <2>7, <2>8, <4>1, <4>2, OldPasswordsStep DEF Explained
    <3>4. DeactivationsExplained'
      <4>1. \A x \in Users : users'[x].off = users[x].off
        BY <1>2
      <4>2. ASSUME NEW t \in SessionIds, NEW x \in Users, sessions'[t].st = "live", sessions'[t].user = x
            PROVE  \/ sessions'[t].raced \/ users'[x].off <= sessions'[t].off \/ OffDue(x)'
                   \/ /\ sessions[t].st = "live" /\ sessions[t].user = x
                      /\ sessions'[t].off = sessions[t].off /\ sessions'[t].raced = sessions[t].raced
                      /\ OffDue(x) => OffDue(x)'
        BY <1>2, <2>2, <2>3, <2>4, <2>5, <3>2, <4>2 DEF DuesKept
      <4> QED
        BY <1>1, <2>7, <2>8, <4>1, <4>2, DeactivationsStep DEF Explained
    <3>5. OldKeysExplained'
      <4>1. \A x \in Users : users'[x].pw = users[x].pw
        BY <1>2
      <4> QED
        BY <1>1, <1>2, <2>7, <2>8, <3>2, <4>1, OldKeysStep DEF Explained, DuesKept
    <3> QED
      BY <3>3, <3>4, <3>5 DEF Explained
  <2>9. excused' \in [Users -> SUBSET {"sessions", "keys"}]
    BY <1>1, <1>2 DEF AccountsTypeOK
  <2> QED
    BY <1>2, <2>6, <2>7, <2>8, <2>9, EndingStep
<1> QED
  BY <1>3, <1>4

LEMMA CreateAPIKeyStep ==
    ASSUME AccountsIInv, NEW w \in Web, CreateAPIKey(w)
    PROVE  AccountsIInv'
<1>1. AccountsTypeOK /\ RowsSound /\ Explained /\ web[w].pc = "mint" /\ web[w] \in Requests /\ web[w].to \in Users
  BY ShapeFacts DEF AccountsIInv, CreateAPIKey
<1>2. End(w) /\ UNCHANGED <<users, sessions, logged, adminLock, founded, excused>>
  BY DEF CreateAPIKey
<1>3. CASE apikeys' = apikeys
  <2>1. AccountsTypeOK /\ UNCHANGED <<users, acRest>> /\ adminLock' = adminLock
    BY <1>1, <1>2, <1>3 DEF acRest
  <2> QED
    BY <1>1, <1>2, <2>1, EndStep
<1>4. CASE apikeys' # apikeys
  <2> DEFINE u == web[w].to
             raced == web[w].pw # users[u].pw
             row == [st |-> "live", kind |-> web[w].kind, user |-> u, pw |-> web[w].pw, reach |-> web[w].role,
                     raced |-> raced]
  <2>1. PICK k \in KeyIds : apikeys[k].st = "unused" /\ apikeys' = [apikeys EXCEPT ![k] = row]
    BY <1>4 DEF CreateAPIKey
  <2>2. raced \in BOOLEAN /\ web[w].pw \in 0..MaxPw /\ web[w].kind \in {"gateway", "management"} /\ web[w].role \in RolesUsed
    BY <1>1, RequestFields
  <2>3. ~raced => web[w].pw = users[u].pw
    OBVIOUS
  <2> HIDE DEF raced
  <2>4. row \in KeyRows /\ row.st = "live" /\ row.user = u /\ row.pw = web[w].pw /\ row.raced = raced
    BY <1>1, <2>2 DEF KeyRows
  <2> HIDE DEF row
  <2>5. apikeys' \in [KeyIds -> KeyRows] /\ apikeys'[k] = row /\ \A j \in KeyIds \ {k} : apikeys'[j] = apikeys[j]
    BY <1>1, <2>1, <2>4 DEF AccountsTypeOK
  <2>6. Owned /\ TablesTyped
    BY <1>1, <1>2, <2>5 DEF Owned, TablesTyped, AccountsTypeOK
  <2>7. RowsSound'
    BY <1>1, <1>2, <2>4, <2>5 DEF RowsSound
  <2>8. ASSUME AccountsTypeOK' PROVE Explained'
    <3>1. \A v \in Web \ {w} : web'[v] = web[v]
      BY <1>2, <2>6, EndedSound
    <3>2. DuesKept
      BY <1>1, <1>2, <3>1, DuesKeptByOthers
    <3>3. AgesSame /\ SessionsFade
      BY <1>2 DEF AgesSame, SessionsFade
    <3>4. OldPasswordsExplained'
      BY <1>1, <2>7, <2>8, <3>2, <3>3, OldPasswordsStep DEF Explained, AgesSame, SessionsFade, DuesKept
    <3>5. DeactivationsExplained'
      BY <1>1, <2>7, <2>8, <3>2, <3>3, DeactivationsStep DEF Explained, AgesSame, SessionsFade, DuesKept
    <3>6. OldKeysExplained'
      <4>1. ASSUME NEW j \in KeyIds, NEW x \in Users, apikeys'[j].st = "live", apikeys'[j].kind = "management",
                   apikeys'[j].user = x
            PROVE  \/ apikeys'[j].raced \/ users'[x].pw <= apikeys'[j].pw \/ KeysDue(x)'
                   \/ /\ apikeys[j].st = "live" /\ apikeys[j].kind = "management" /\ apikeys[j].user = x
                      /\ apikeys'[j].pw = apikeys[j].pw /\ apikeys'[j].raced = apikeys[j].raced
                      /\ KeysDue(x) => KeysDue(x)'
        BY <1>2, <2>2, <2>3, <2>4, <2>5, <3>2, <4>1 DEF DuesKept
      <4> QED
        BY <1>1, <2>7, <2>8, <3>3, <4>1, OldKeysStep DEF Explained, AgesSame
    <3> QED
      BY <3>4, <3>5, <3>6 DEF Explained
  <2>9. excused' \in [Users -> SUBSET {"sessions", "keys"}]
    BY <1>1, <1>2 DEF AccountsTypeOK
  <2> QED
    BY <1>2, <2>6, <2>7, <2>8, <2>9, EndingStep
<1> QED
  BY <1>3, <1>4

LEMMA UpdateAPIKeyStep ==
    ASSUME AccountsIInv, NEW w \in Web, UpdateAPIKey(w)
    PROVE  AccountsIInv'
<1>1. AccountsTypeOK /\ RowsSound /\ Explained /\ web[w].pc = "edit" /\ web[w] \in Requests /\ web[w].key \in KeyIds
  BY ShapeFacts DEF AccountsIInv, UpdateAPIKey
<1>2. End(w) /\ UNCHANGED <<users, sessions, logged, adminLock, founded, excused>>
  BY DEF UpdateAPIKey
<1> DEFINE k == web[w].key
           row == [apikeys[k] EXCEPT !.reach = web[w].role]
<1>3. apikeys[k] \in KeyRows /\ web[w].role \in RolesUsed
  BY <1>1, RequestFields DEF AccountsTypeOK
<1>4. row \in KeyRows /\ row.st = apikeys[k].st /\ row.user = apikeys[k].user /\ row.pw = apikeys[k].pw
      /\ row.raced = apikeys[k].raced /\ row.kind = apikeys[k].kind
  BY <1>3 DEF KeyRows
<1>5. apikeys' = apikeys \/ apikeys' = [apikeys EXCEPT ![k] = row]
  BY DEF UpdateAPIKey
<1> HIDE DEF row
<1>6. /\ apikeys' \in [KeyIds -> KeyRows]
      /\ \A j \in KeyIds : /\ apikeys'[j].st = apikeys[j].st /\ apikeys'[j].user = apikeys[j].user
                           /\ apikeys'[j].pw = apikeys[j].pw /\ apikeys'[j].raced = apikeys[j].raced
                           /\ apikeys'[j].kind = apikeys[j].kind
  BY <1>1, <1>4, <1>5 DEF AccountsTypeOK
<1>7. Owned /\ TablesTyped /\ AgesSame /\ SessionsFade /\ KeysFade
  BY <1>1, <1>2, <1>6 DEF Owned, TablesTyped, AccountsTypeOK, AgesSame, SessionsFade, KeysFade
<1>8. RowsSound'
  BY <1>1, <1>2, <1>6 DEF RowsSound
<1>9. ASSUME AccountsTypeOK' PROVE Explained'
  <2>1. \A v \in Web \ {w} : web'[v] = web[v]
    BY <1>2, <1>7, EndedSound
  <2>2. DuesKept
    BY <1>1, <1>2, <2>1, DuesKeptByOthers
  <2> QED
    BY <1>1, <1>7, <1>8, <1>9, <2>2, ExplainedSame
<1>10. excused' \in [Users -> SUBSET {"sessions", "keys"}]
  BY <1>1, <1>2 DEF AccountsTypeOK
<1> QED
  BY <1>2, <1>7, <1>8, <1>9, <1>10, EndingStep

LEMMA InsertRequestLogStep ==
    ASSUME AccountsIInv, NEW w \in Web, InsertRequestLog(w)
    PROVE  AccountsIInv'
<1>1. AccountsTypeOK /\ RowsSound /\ Explained /\ web[w].pc = "log" /\ web[w].key \in KeyIds
  BY ShapeFacts DEF AccountsIInv, InsertRequestLog
<1>2. End(w) /\ UNCHANGED <<users, sessions, apikeys, adminLock, founded, excused>>
  BY DEF InsertRequestLog
<1>3. logged' \in [KeyIds -> {"none", "named", "erased"}]
  BY <1>1 DEF InsertRequestLog, AccountsTypeOK
<1>4. Owned /\ TablesTyped /\ AgesSame /\ SessionsFade /\ KeysFade
  BY <1>1, <1>2, <1>3 DEF Owned, TablesTyped, AccountsTypeOK, AgesSame, SessionsFade, KeysFade
<1>5. RowsSound'
  BY <1>1, <1>2 DEF RowsSound
<1>6. ASSUME AccountsTypeOK' PROVE Explained'
  <2>1. \A v \in Web \ {w} : web'[v] = web[v]
    BY <1>2, <1>4, EndedSound
  <2>2. DuesKept
    BY <1>1, <1>2, <2>1, DuesKeptByOthers
  <2> QED
    BY <1>1, <1>4, <1>5, <1>6, <2>2, ExplainedSame
<1>7. excused' \in [Users -> SUBSET {"sessions", "keys"}]
  BY <1>1, <1>2 DEF AccountsTypeOK
<1> QED
  BY <1>2, <1>4, <1>5, <1>6, <1>7, EndingStep
-----------------------------------------------------------------------------
(* Revocations, made or given up.                                          *)

\* The dues of the requests other than w stay.
LEMMA DuesOfOthers ==
    ASSUME NEW w \in Web, \A v \in Web \ {w} : web'[v] = web[v], NEW x \in Users,
           "sessions" \in excused[x] => "sessions" \in excused'[x],
           "keys" \in excused[x] => "keys" \in excused'[x]
    PROVE  /\ (web[w].pc = "drop" => web[w].to # x) => (PwDue(x) => PwDue(x)')
           /\ (web[w].pc = "drop" /\ web[w].op # "own" => web[w].to # x) => (OffDue(x) => OffDue(x)')
           /\ (web[w].pc \in {"drop", "revoke"} /\ web[w].op # "update" => web[w].to # x) => (KeysDue(x) => KeysDue(x)')
<1>1. ASSUME web[w].pc = "drop" => web[w].to # x, PwDue(x) PROVE PwDue(x)'
  BY <1>1 DEF PwDue
<1>2. ASSUME web[w].pc = "drop" /\ web[w].op # "own" => web[w].to # x, OffDue(x) PROVE OffDue(x)'
  BY <1>2 DEF OffDue
<1>3. ASSUME web[w].pc \in {"drop", "revoke"} /\ web[w].op # "update" => web[w].to # x, KeysDue(x) PROVE KeysDue(x)'
  BY <1>3 DEF KeysDue
<1> QED
  BY <1>1, <1>2, <1>3

LEMMA RevokeUserKeysStep ==
    ASSUME AccountsIInv, NEW w \in Web, RevokeUserKeys(w)
    PROVE  AccountsIInv'
<1> DEFINE u == web[w].to
           kept == "keys" \in web[w].keep
           hit == {k \in KeyIds : ~kept /\ apikeys[k].user = u /\ apikeys[k].st = "live"
                                        /\ apikeys[k].kind \in RevokedKinds(web[w].op)}
<1>1. AccountsTypeOK /\ RowsSound /\ Explained /\ web[w].pc = "revoke" /\ web[w] \in Requests /\ u \in Users
  BY ShapeFacts DEF AccountsIInv, RevokeUserKeys
<1>2. End(w) /\ UNCHANGED <<users, sessions, logged, adminLock, founded>>
  BY DEF RevokeUserKeys
<1>3. apikeys' = [k \in KeyIds |-> IF k \in hit THEN [apikeys[k] EXCEPT !.st = "revoked"] ELSE apikeys[k]]
  BY DEF RevokeUserKeys
<1>4. ASSUME NEW k \in KeyIds
      PROVE  /\ apikeys'[k] \in KeyRows /\ apikeys'[k].user = apikeys[k].user /\ apikeys'[k].pw = apikeys[k].pw
             /\ apikeys'[k].raced = apikeys[k].raced /\ apikeys'[k].kind = apikeys[k].kind
             /\ k \in hit => apikeys'[k].st = "revoked" /\ apikeys[k].st = "live"
             /\ k \notin hit => apikeys'[k].st = apikeys[k].st
  <2>1. apikeys[k] \in KeyRows
    BY <1>1 DEF AccountsTypeOK
  <2>2. CASE k \in hit
    <3>1. apikeys'[k] = [apikeys[k] EXCEPT !.st = "revoked"] /\ apikeys[k].st = "live"
      BY <1>3, <2>2
    <3> HIDE DEF hit
    <3> QED
      BY <2>1, <2>2, <3>1 DEF KeyRows
  <2>3. CASE k \notin hit
    BY <1>3, <2>1, <2>3
  <2> QED
    BY <2>2, <2>3
<1>5. /\ excused' \in [Users -> SUBSET {"sessions", "keys"}]
      /\ \A x \in Users : "sessions" \in excused[x] => "sessions" \in excused'[x]
      /\ \A x \in Users \ {u} : excused'[x] = excused[x]
      /\ kept => "keys" \in excused'[u]
  BY <1>1 DEF RevokeUserKeys, AccountsTypeOK
<1>6. ASSUME NEW k \in KeyIds, ~kept, apikeys[k].user = u, apikeys[k].st = "live", apikeys[k].kind = "management"
      PROVE  k \in hit
  BY <1>6 DEF RevokedKinds
<1> HIDE DEF hit
<1>7. Owned /\ AgesSame /\ SessionsFade /\ KeysFade
  BY <1>2, <1>4 DEF Owned, AgesSame, SessionsFade, KeysFade
<1>8. apikeys' \in [KeyIds -> KeyRows]
  BY <1>3, <1>4
<1>9. TablesTyped
  BY <1>1, <1>2, <1>8 DEF TablesTyped, AccountsTypeOK
<1>10. RowsSound'
  BY <1>1, <1>2, <1>4 DEF RowsSound
<1>11. ASSUME AccountsTypeOK' PROVE Explained'
  <2>1. \A v \in Web \ {w} : web'[v] = web[v]
    BY <1>2, <1>7, EndedSound
  <2>2. \A x \in Users : (PwDue(x) => PwDue(x)') /\ (OffDue(x) => OffDue(x)')
    <3>1. ASSUME NEW x \in Users, PwDue(x) PROVE PwDue(x)'
      BY <1>1, <1>5, <2>1, <3>1 DEF PwDue
    <3>2. ASSUME NEW x \in Users, OffDue(x) PROVE OffDue(x)'
      BY <1>1, <1>5, <2>1, <3>2 DEF OffDue
    <3> QED
      BY <3>1, <3>2
  <2>3. OldPasswordsExplained'
    BY <1>1, <1>7, <1>10, <1>11, <2>2, OldPasswordsStep DEF Explained, AgesSame, SessionsFade
  <2>4. DeactivationsExplained'
    BY <1>1, <1>7, <1>10, <1>11, <2>2, DeactivationsStep DEF Explained, AgesSame, SessionsFade
  <2>5. OldKeysExplained'
    <3>1. ASSUME NEW k \in KeyIds, NEW x \in Users, apikeys'[k].st = "live", apikeys'[k].kind = "management",
                 apikeys'[k].user = x
          PROVE  \/ KeysDue(x)'
                 \/ /\ apikeys[k].st = "live" /\ apikeys[k].kind = "management" /\ apikeys[k].user = x
                    /\ apikeys'[k].pw = apikeys[k].pw /\ apikeys'[k].raced = apikeys[k].raced
                    /\ KeysDue(x) => KeysDue(x)'
      <4>1. CASE x = u
        <5>1. kept
          BY <1>4, <1>6, <3>1, <4>1
        <5> QED
          BY <1>5, <4>1, <5>1 DEF KeysDue
      <4>2. CASE x # u
        <5>1. KeysDue(x) => KeysDue(x)'
          BY <1>5, <2>1, <4>2, DuesOfOthers
        <5> QED
          BY <1>4, <3>1, <5>1
      <4> QED
        BY <4>1, <4>2
    <3> QED
      BY <1>1, <1>7, <1>10, <1>11, <3>1, OldKeysStep DEF Explained, AgesSame
  <2> QED
    BY <2>3, <2>4, <2>5 DEF Explained
<1> QED
  BY <1>2, <1>5, <1>7, <1>9, <1>10, <1>11, EndingStep

LEMMA AbortStep ==
    ASSUME AccountsIInv, NEW w \in Web, Abort(w)
    PROVE  AccountsIInv'
<1> DEFINE u == web[w].to
<1>1. AccountsTypeOK /\ RowsSound /\ Explained /\ web[w] \in Requests
  BY ShapeFacts DEF AccountsIInv
<1>2. End(w) /\ Unlock(w) /\ UNCHANGED <<users, sessions, apikeys, logged, founded>>
  BY DEF Abort
<1>3. CASE web[w].pc \notin {"drop", "revoke"}
  <2>1. excused' = excused
    BY <1>3 DEF Abort
  <2> QED
    BY <1>2, <1>3, <2>1, EndStep DEF acRest
<1>4. CASE web[w].pc \in {"drop", "revoke"}
  <2>1. u \in Users /\ web[w].op \in {"own", "reset", "cli", "update"}
    BY <1>4, ShapeFacts
  <2>2. /\ excused' \in [Users -> SUBSET {"sessions", "keys"}]
        /\ \A x \in Users : excused[x] \subseteq excused'[x]
        /\ web[w].pc = "drop" => "sessions" \in excused'[u]
        /\ web[w].op # "update" => "keys" \in excused'[u]
    <3>1. CASE web[w].pc = "drop" /\ web[w].op = "update"
      <4>1. excused' = [excused EXCEPT ![u] = @ \cup {"sessions"}]
        BY <3>1 DEF Abort
      <4> QED
        BY <1>1, <2>1, <3>1, <4>1 DEF AccountsTypeOK
    <3>2. CASE web[w].pc = "drop" /\ web[w].op # "update"
      <4>1. excused' = [excused EXCEPT ![u] = @ \cup {"sessions", "keys"}]
        BY <3>2 DEF Abort
      <4> QED
        BY <1>1, <2>1, <3>2, <4>1 DEF AccountsTypeOK
    <3>3. CASE web[w].pc = "revoke"
      <4>1. excused' = [excused EXCEPT ![u] = @ \cup {"keys"}]
        BY <3>3 DEF Abort
      <4> QED
        BY <1>1, <2>1, <3>3, <4>1 DEF AccountsTypeOK
    <3> QED
      BY <1>4, <3>1, <3>2, <3>3
  <2>3. Owned /\ TablesTyped /\ AgesSame /\ SessionsFade /\ KeysFade
    BY <1>1, <1>2 DEF Owned, TablesTyped, AccountsTypeOK, AgesSame, SessionsFade, KeysFade
  <2>4. RowsSound'
    BY <1>1, <1>2 DEF RowsSound
  <2>5. ASSUME AccountsTypeOK' PROVE Explained'
    <3>1. \A v \in Web \ {w} : web'[v] = web[v]
      BY <1>2, <2>3, EndedSound
    <3>2. ASSUME NEW x \in Users
          PROVE  (PwDue(x) => PwDue(x)') /\ (OffDue(x) => OffDue(x)') /\ (KeysDue(x) => KeysDue(x)')
      <4>1. CASE web[w].pc = "drop" /\ u = x
        <5>1. PwDue(x)' /\ OffDue(x)'
          BY <2>2, <4>1 DEF PwDue, OffDue
        <5>2. web[w].op # "update" => KeysDue(x)'
          BY <2>2, <4>1 DEF KeysDue
        <5>3. web[w].op = "update" => (KeysDue(x) => KeysDue(x)')
          BY <2>2, <3>1, DuesOfOthers
        <5> QED
          BY <5>1, <5>2, <5>3
      <4>2. CASE web[w].pc = "revoke" /\ u = x
        <5>1. KeysDue(x)'
          BY <1>4, <2>2, <4>2, ShapeFacts DEF KeysDue
        <5>2. (PwDue(x) => PwDue(x)') /\ (OffDue(x) => OffDue(x)')
          BY <2>2, <3>1, <4>2, DuesOfOthers
        <5> QED
          BY <5>1, <5>2
      <4>3. CASE u # x
        BY <2>2, <3>1, <4>3, DuesOfOthers
      <4> QED
        BY <1>4, <4>1, <4>2, <4>3
    <3>3. DuesKept
      BY <3>2 DEF DuesKept
    <3> QED
      BY <1>1, <2>3, <2>4, <2>5, <3>3, ExplainedSame
  <2> QED
    BY <1>2, <2>2, <2>3, <2>4, <2>5, EndingStep
<1> QED
  BY <1>3, <1>4

\* The requests after one of them moved on.
LEMMA MovedSound ==
    ASSUME AccountsIInv, NEW w \in Web, NEW r, Becomes(w, r), served' = served, users' \in [Users -> Rows],
           Grown \/ adminLock = w, Owned, adminLock' = adminLock \/ Unlock(w),
           \A v \in Web \ {w} : web[v].pc = "insert" => \A u \in Users : ~users'[u].here,
           ShapeOK(r), r.op = "own" => web[w].op = "own" /\ r.token = web[w].token /\ r.to = web[w].to,
           r.pc \notin {"insert", "apply", "commit"}
    PROVE  /\ web' \in [Web -> Requests] /\ served' \in 0..MaxWeb /\ adminLock' \in Web \cup {Nobody}
           /\ RequestsSound' /\ web'[w] = r /\ \A v \in Web \ {w} : web'[v] = web[v]
<1>1. AccountsTypeOK /\ RequestsSound
  BY DEF AccountsIInv
<1>2. web' \in [Web -> Requests] /\ web'[w] = r /\ \A v \in Web \ {w} : web'[v] = web[v]
  BY <1>1, BecomesFacts
<1>3. adminLock' \in Web \cup {Nobody} /\ \A v \in Web \ {w} : adminLock = v => adminLock' = v
  BY <1>1 DEF Unlock, AccountsTypeOK
<1>4. \A v \in Web \ {w} : ShapeOK(web'[v]) /\ OwnOK(web[v])' /\ TxOK(v)'
  BY <1>1, <1>2, <1>3, OthersSound
<1>5. ShapeOK(web'[w]) /\ TxOK(w)'
  BY <1>2 DEF TxOK
<1>6. OwnOK(web[w])'
  <2>1. OwnOK(web[w])
    BY <1>1 DEF RequestsSound
  <2> QED
    BY ZenonT(60), <1>2, <2>1 DEF OwnOK, Owned
<1>7. served' \in 0..MaxWeb
  BY <1>1 DEF AccountsTypeOK
<1> QED
  BY <1>2, <1>3, <1>4, <1>5, <1>6, <1>7 DEF RequestsSound, ShapeOK

\* The next step of a request, or its end.
LEMMA GoShape ==
    ASSUME AccountsIInv, NEW w \in Web, NEW pc \in Steps, Go(w, pc), pc \in StepsOf(web[w].op)
    PROVE  \E r : /\ Becomes(w, r) /\ served' = served /\ ShapeOK(r) /\ r.pc = pc /\ r.op = web[w].op
                  /\ r.token = web[w].token /\ r.to = web[w].to
<1>1. AccountsTypeOK
  BY DEF AccountsIInv
<1> DEFINE r == [web[w] EXCEPT !.pc = pc]
<1>2. /\ Becomes(w, r) /\ served' = served /\ r.pc = pc /\ r.op = web[w].op /\ r.to = web[w].to
      /\ r.token = web[w].token /\ r.key = web[w].key
  BY <1>1, GoFacts
<1> HIDE DEF r
<1>3. ShapeOK(web[w])
  BY ShapeFacts
<1>4. ShapeOK(r)
  BY <1>2, <1>3 DEF ShapeOK
<1> QED
  BY <1>2, <1>4

LEMMA EndShape ==
    ASSUME NEW w \in Web, End(w)
    PROVE  \E r : /\ Becomes(w, r) /\ served' = served /\ ShapeOK(r) /\ r.pc = "idle" /\ r.op = "none"
BY EndFacts, NoRequestType

LEMMA DeleteUserSessionsStep ==
    ASSUME AccountsIInv, NEW w \in Web, DeleteUserSessions(w)
    PROVE  AccountsIInv'
<1> DEFINE u == web[w].to
           op == web[w].op
           token == web[w].token
           S == DroppedSessions(w)
<1>1. /\ AccountsTypeOK /\ RowsSound /\ Explained /\ AdminRemains /\ Founding /\ web[w].pc = "drop"
      /\ web[w] \in Requests /\ u \in Users /\ op \in {"own", "reset", "cli", "update"} /\ OwnOK(web[w])
  BY ShapeFacts DEF AccountsIInv, DeleteUserSessions
<1>2. UNCHANGED <<users, apikeys, logged, adminLock, founded>>
  BY DEF DeleteUserSessions
<1>3. PICK r : /\ Becomes(w, r) /\ served' = served /\ ShapeOK(r)
               /\ r.op = "own" => op = "own" /\ r.token = token /\ r.to = u
               /\ op = "update" => r.pc = "idle"
               /\ op # "update" => r.pc = "revoke" /\ r.op = op /\ r.to = u
  <2>1. CASE op = "update"
    BY <2>1, EndShape DEF DeleteUserSessions
  <2>2. CASE op # "update"
    <3>1. Go(w, "revoke") /\ "revoke" \in Steps /\ "revoke" \in StepsOf(op)
      BY <1>1, <2>2 DEF DeleteUserSessions, Steps, StepsOf
    <3> QED
      BY <2>2, <3>1, GoShape
  <2> QED
    BY <2>1, <2>2
\* The sessions afterwards.
<1>4. ASSUME NEW s \in SessionIds
      PROVE  /\ sessions'[s] \in SessionRows /\ sessions'[s].user = sessions[s].user
             /\ sessions'[s].off = sessions[s].off /\ sessions'[s].raced = sessions[s].raced
             /\ s \in S => sessions'[s].st = "gone" /\ sessions[s].st = "live"
             /\ s \notin S => sessions'[s].st = sessions[s].st
             /\ sessions'[s].pw # sessions[s].pw => sessions'[s].pw = users[u].pw
             /\ op = "own" /\ s = token /\ sessions'[s].st = "live" => sessions'[s].pw = users[u].pw
  <2> DEFINE left == Ended(S)
  <2>1. left \in [SessionIds -> SessionRows]
    BY <1>1, EndedFacts
  <2>2. /\ s \in S => left[s].st = "gone" /\ sessions[s].st = "live"
        /\ s \notin S => left[s] = sessions[s]
        /\ left[s].user = sessions[s].user /\ left[s].pw = sessions[s].pw
        /\ left[s].off = sessions[s].off /\ left[s].raced = sessions[s].raced
    <3>1. s \in S => sessions[s].st = "live"
      BY DEF DroppedSessions, SessionsOf
    <3> HIDE DEF S
    <3> QED
      BY <1>1, <3>1, EndedFacts
  <2>3. sessions' = IF op = "own" /\ left[token].st = "live" THEN [left EXCEPT ![token].pw = users[u].pw] ELSE left
    BY DEF DeleteUserSessions
  <2> HIDE DEF left, S
  <2>4. CASE op = "own" /\ left[token].st = "live"
    <3> DEFINE row == [left[token] EXCEPT !.pw = users[u].pw]
    <3>1. token \in SessionIds
      BY <1>1, <2>4 DEF OwnOK
    <3>2. left[token] \in SessionRows /\ users[u].pw \in 0..MaxPw
      BY <1>1, <2>1, <3>1 DEF AccountsTypeOK, Rows
    <3>3. row \in SessionRows /\ row.st = left[token].st /\ row.user = left[token].user /\ row.off = left[token].off
          /\ row.raced = left[token].raced /\ row.pw = users[u].pw
      BY <3>2 DEF SessionRows
    <3>4. sessions' = [left EXCEPT ![token] = row]
      BY <2>3, <2>4
    <3> HIDE DEF row
    <3>5. CASE s = token
      <4>1. sessions'[s] = row
        BY <2>1, <3>4, <3>5
      <4> QED
        BY <2>2, <2>4, <3>3, <3>5, <4>1
    <3>6. CASE s # token
      <4>1. sessions'[s] = left[s]
        BY <2>1, <3>4, <3>6
      <4> QED
        BY <2>1, <2>2, <3>6, <4>1
    <3> QED
      BY <3>5, <3>6
  <2>5. CASE ~(op = "own" /\ left[token].st = "live")
    BY <2>1, <2>2, <2>3, <2>5
  <2> QED
    BY <2>4, <2>5
<1>5. ASSUME NEW s \in SessionIds, sessions[s].st = "live", sessions[s].user = u, op = "own" => s # token
      PROVE  s \in S
  BY <1>5 DEF DroppedSessions, SessionsOf
<1> HIDE DEF S
<1>6. /\ excused' \in [Users -> SUBSET {"sessions", "keys"}]
      /\ \A x \in Users : "keys" \in excused[x] => "keys" \in excused'[x]
      /\ \A x \in Users \ {u} : excused'[x] = excused[x]
      /\ op = "own" => excused' = excused
  BY <1>1 DEF DeleteUserSessions, AccountsTypeOK
<1>7. sessions' \in [SessionIds -> SessionRows]
  <2>1. sessions' = [s \in SessionIds |-> sessions'[s]]
    BY <1>1, EndedFacts DEF DeleteUserSessions
  <2> QED
    BY <1>4, <2>1
<1>8. Owned /\ Grown /\ AgesSame /\ KeysFade
  BY <1>2, <1>4 DEF Owned, Grown, AgesSame, KeysFade
<1>9. /\ web' \in [Web -> Requests] /\ served' \in 0..MaxWeb /\ adminLock' \in Web \cup {Nobody}
      /\ RequestsSound' /\ web'[w] = r /\ \A v \in Web \ {w} : web'[v] = web[v]
  <2>1. users' \in [Users -> Rows] /\ \A v \in Web \ {w} : web[v].pc = "insert" => \A x \in Users : ~users'[x].here
    BY <1>1, <1>2 DEF AccountsIInv, AccountsTypeOK, RequestsSound, TxOK
  <2>2. r.pc \notin {"insert", "apply", "commit"}
    BY <1>3
  <2> QED
    BY <1>2, <1>3, <1>8, <2>1, <2>2, MovedSound
<1>10. AccountsTypeOK'
  BY <1>1, <1>2, <1>6, <1>7, <1>9 DEF AccountsTypeOK
<1>11. RowsSound' /\ AdminRemains' /\ Founding'
  BY <1>1, <1>2, <1>4 DEF RowsSound, AdminRemains, ActiveAdmins, Founding
<1>12. OldPasswordsExplained'
  <2>1. ASSUME NEW s \in SessionIds, NEW x \in Users, sessions'[s].st = "live", sessions'[s].user = x
        PROVE  \/ users'[x].pw <= sessions'[s].pw
               \/ /\ sessions[s].st = "live" /\ sessions[s].user = x
                  /\ sessions'[s].pw = sessions[s].pw /\ sessions'[s].raced = sessions[s].raced
                  /\ PwDue(x) => PwDue(x)'
    <3>0. users'[x].pw = users[x].pw /\ users[x].pw \in Nat
      BY <1>1, <1>2 DEF AccountsTypeOK, Rows
    <3>1. sessions[s].st = "live" /\ sessions[s].user = x
      BY <1>4, <2>1
    <3>2. CASE x = u
      <4>1. op = "own" /\ s = token
        BY <1>4, <1>5, <2>1, <3>1, <3>2
      <4> QED
        BY <1>4, <2>1, <3>0, <3>2, <4>1
    <3>3. CASE x # u
      <4>1. PwDue(x) => PwDue(x)'
        BY <1>6, <1>9, <3>3, DuesOfOthers
      <4>2. sessions'[s].pw = sessions[s].pw
        <5>1. CASE op = "own" /\ s = token
          BY <1>1, <3>1, <3>3, <5>1 DEF OwnOK
        <5>2. CASE ~(op = "own" /\ s = token)
          <6>1. s \notin S
            BY <1>4, <2>1
          <6> QED
            BY <1>1, <5>2, <6>1, EndedFacts DEF DeleteUserSessions, S, OwnOK
        <5> QED
          BY <5>1, <5>2
      <4> QED
        BY <1>4, <3>1, <4>1, <4>2
    <3> QED
      BY <3>2, <3>3
  <2> QED
    BY <1>1, <1>8, <1>10, <1>11, <2>1, OldPasswordsStep DEF Explained, AgesSame
<1>13. DeactivationsExplained'
  <2>1. ASSUME NEW s \in SessionIds, NEW x \in Users, sessions'[s].st = "live", sessions'[s].user = x
        PROVE  /\ sessions[s].st = "live" /\ sessions[s].user = x
               /\ sessions'[s].off = sessions[s].off /\ sessions'[s].raced = sessions[s].raced
               /\ OffDue(x) => OffDue(x)'
    <3>1. sessions[s].st = "live" /\ sessions[s].user = x
      BY <1>4, <2>1
    <3>2. CASE x = u
      <4>1. op = "own"
        BY <1>4, <1>5, <2>1, <3>1, <3>2
      <4>2. OffDue(x) => OffDue(x)'
        BY <1>6, <1>9, <4>1, DuesOfOthers
      <4> QED
        BY <1>4, <3>1, <4>2
    <3>3. CASE x # u
      <4>1. OffDue(x) => OffDue(x)'
        BY <1>6, <1>9, <3>3, DuesOfOthers
      <4> QED
        BY <1>4, <3>1, <4>1
    <3> QED
      BY <3>2, <3>3
  <2> QED
    BY <1>1, <1>8, <1>10, <1>11, <2>1, DeactivationsStep DEF Explained, AgesSame
<1>14. OldKeysExplained'
  <2>1. ASSUME NEW x \in Users, KeysDue(x) PROVE KeysDue(x)'
    <3>1. CASE x = u /\ op # "update"
      BY <1>3, <1>9, <3>1 DEF KeysDue
    <3>2. CASE x # u \/ op = "update"
      <4>1. KeysDue(x) => KeysDue(x)'
        <5>1. web[w].op # "update" => web[w].to # x
          BY <3>2
        <5>2. "keys" \in excused[x] => "keys" \in excused'[x]
          BY <1>6
        <5> QED
          BY <1>9, <5>1, <5>2, <2>1 DEF KeysDue
      <4> QED
        BY <2>1, <4>1
    <3> QED
      BY <3>1, <3>2
  <2> QED
    BY <1>1, <1>8, <1>10, <1>11, <2>1, OldKeysStep DEF Explained, AgesSame, KeysFade
<1> QED
  BY <1>9, <1>10, <1>11, <1>12, <1>13, <1>14 DEF AccountsIInv, Explained
-----------------------------------------------------------------------------
(* Steps that change accounts.                                             *)

LEMMA UpdateUserPasswordStep ==
    ASSUME AccountsIInv, NEW w \in Web, UpdateUserPassword(w)
    PROVE  AccountsIInv'
<1> DEFINE u == web[w].to
           op == web[w].op
           keep == "sessions" \in web[w].keep
<1>1. /\ AccountsTypeOK /\ RowsSound /\ Explained /\ AdminRemains /\ Founding /\ web[w].pc = "password"
      /\ web[w] \in Requests /\ u \in Users /\ op \in {"own", "reset", "cli"}
  BY ShapeFacts DEF AccountsIInv, UpdateUserPassword
<1>2. UNCHANGED <<sessions, apikeys, logged, adminLock, founded>>
  BY DEF UpdateUserPassword
<1>3. PICK r : /\ Becomes(w, r) /\ served' = served /\ ShapeOK(r) /\ r.op = op /\ r.token = web[w].token /\ r.to = u
               /\ r.pc = (IF keep THEN "revoke" ELSE "drop")
  <2>1. CASE keep
    <3>1. Go(w, "revoke") /\ "revoke" \in Steps /\ "revoke" \in StepsOf(op)
      BY <1>1, <2>1 DEF UpdateUserPassword, Steps, StepsOf
    <3> QED
      BY <2>1, <3>1, GoShape
  <2>2. CASE ~keep
    <3>1. Go(w, "drop") /\ "drop" \in Steps /\ "drop" \in StepsOf(op)
      BY <1>1, <2>2 DEF UpdateUserPassword, Steps, StepsOf
    <3> QED
      BY <2>2, <3>1, GoShape
  <2> QED
    BY <2>1, <2>2
<1>4. /\ excused' \in [Users -> SUBSET {"sessions", "keys"}]
      /\ \A x \in Users : excused[x] \subseteq excused'[x]
      /\ keep => "sessions" \in excused'[u]
  BY <1>1 DEF UpdateUserPassword, AccountsTypeOK
<1>5. /\ users' \in [Users -> Rows]
      /\ \A x \in Users : /\ users'[x].here = users[x].here /\ users'[x].active = users[x].active
                          /\ users'[x].role = users[x].role /\ users'[x].off = users[x].off
                          /\ x # u => users'[x].pw = users[x].pw
  <2> DEFINE row == [users[u] EXCEPT !.pw = users[u].pw + 1]
  <2>1. users[u] \in Rows /\ users[u].pw + 1 \in 0..MaxPw
    BY <1>1 DEF UpdateUserPassword, AccountsTypeOK, Rows
  <2>2. row \in Rows /\ row.here = users[u].here /\ row.active = users[u].active /\ row.role = users[u].role
        /\ row.off = users[u].off
    BY <2>1 DEF Rows
  <2>3. users' = users \/ users' = [users EXCEPT ![u] = row]
    BY DEF UpdateUserPassword
  <2> HIDE DEF row
  <2> QED
    BY <1>1, <2>2, <2>3 DEF AccountsTypeOK
<1>6. Grown /\ Owned /\ SessionsFade /\ KeysFade
  BY <1>2, <1>5 DEF Grown, Owned, SessionsFade, KeysFade
<1>7. /\ web' \in [Web -> Requests] /\ served' \in 0..MaxWeb /\ adminLock' \in Web \cup {Nobody}
      /\ RequestsSound' /\ web'[w] = r /\ \A v \in Web \ {w} : web'[v] = web[v]
  <2>1. \A v \in Web \ {w} : web[v].pc = "insert" => \A x \in Users : ~users'[x].here
    BY <1>5 DEF AccountsIInv, RequestsSound, TxOK
  <2>2. r.pc \notin {"insert", "apply", "commit"}
    BY <1>3
  <2> QED
    BY <1>2, <1>3, <1>5, <1>6, <2>1, <2>2, MovedSound
<1>8. AccountsTypeOK'
  BY <1>1, <1>2, <1>4, <1>5, <1>7 DEF AccountsTypeOK
<1>9. RowsSound' /\ AdminRemains' /\ Founding'
  BY <1>1, <1>2, <1>5 DEF RowsSound, AdminRemains, ActiveAdmins, IsActiveAdmin, Founding
<1>10. DuesKept
  BY <1>1, <1>4, <1>7, DuesKeptByOthers
<1>11. ASSUME NEW x \in Users, x = u PROVE PwDue(x)' /\ KeysDue(x)'
  <2>1. web'[w].to = x /\ web'[w].op # "update" /\ web'[w].pc \in {"drop", "revoke"} /\ (~keep => web'[w].pc = "drop")
    BY <1>1, <1>3, <1>7, <1>11
  <2> QED
    BY <1>4, <1>11, <2>1 DEF PwDue, KeysDue
<1>12. OldPasswordsExplained'
  <2>1. \A x \in Users : users'[x].pw = users[x].pw \/ PwDue(x)'
    BY <1>5, <1>11
  <2> QED
    BY <1>1, <1>6, <1>8, <1>9, <1>10, <2>1, OldPasswordsStep DEF Explained, SessionsFade, DuesKept
<1>13. DeactivationsExplained'
  BY <1>1, <1>5, <1>6, <1>8, <1>9, <1>10, DeactivationsStep DEF Explained, SessionsFade, DuesKept
<1>14. OldKeysExplained'
  <2>1. \A x \in Users : users'[x].pw = users[x].pw \/ KeysDue(x)'
    BY <1>5, <1>11
  <2> QED
    BY <1>1, <1>6, <1>8, <1>9, <1>10, <2>1, OldKeysStep DEF Explained, KeysFade, DuesKept
<1> QED
  BY <1>7, <1>8, <1>9, <1>12, <1>13, <1>14 DEF AccountsIInv, Explained

\* Both founders of an account give it a row, an active admin or a member.
LEMMA NewRow ==
    ASSUME AccountsTypeOK, NEW u \in Users, NEW role \in RolesUsed,
           users' = [users EXCEPT ![u] = [users[u] EXCEPT !.here = TRUE, !.role = role, !.active = TRUE]]
    PROVE  /\ users' \in [Users -> Rows] /\ AgesSame
           /\ users'[u].here /\ users'[u].active /\ users'[u].role = role
           /\ \A x \in Users \ {u} : users'[x] = users[x]
<1> DEFINE row == [users[u] EXCEPT !.here = TRUE, !.role = role, !.active = TRUE]
<1>1. users[u] \in Rows
  BY DEF AccountsTypeOK
<1>2. row \in Rows /\ row.here /\ row.active /\ row.role = role /\ row.pw = users[u].pw /\ row.off = users[u].off
  BY <1>1 DEF Rows
<1> HIDE DEF row
<1> QED
  BY <1>2 DEF AccountsTypeOK, AgesSame, row

LEMMA CreateFirstUserInsertStep ==
    ASSUME AccountsIInv, NEW w \in Web, CreateFirstUserInsert(w)
    PROVE  AccountsIInv'
<1> DEFINE u == web[w].to
<1>1. /\ AccountsTypeOK /\ RequestsSound /\ RowsSound /\ Explained /\ Founding /\ web[w].pc = "insert" /\ web[w] \in Requests
      /\ u \in Users /\ web[w].op \in {"setup", "boot"} /\ adminLock = w /\ \A v \in Users : ~users[v].here
  BY ShapeFacts DEF AccountsIInv, CreateFirstUserInsert, TxOK
<1>2. Unlock(w) /\ UNCHANGED <<sessions, apikeys, logged, excused>> /\ founded' = founded + 1
  BY <1>1 DEF CreateFirstUserInsert
<1>3. users' = [users EXCEPT ![u] = [users[u] EXCEPT !.here = TRUE, !.role = "admin", !.active = TRUE]]
  BY <1>1 DEF CreateFirstUserInsert
<1>4. /\ users' \in [Users -> Rows] /\ AgesSame
      /\ users'[u].here /\ users'[u].active /\ users'[u].role = "admin"
      /\ \A x \in Users \ {u} : users'[x] = users[x]
  BY <1>1, <1>3, NewRow
<1>5. PICK r : Becomes(w, r) /\ served' = served /\ ShapeOK(r) /\ r.op # "own" /\ r.pc \in {"idle", "session"}
  <2>1. CASE web[w].op = "boot"
    <3>1. End(w)
      BY <1>1, <2>1 DEF CreateFirstUserInsert
    <3> QED
      BY <3>1, EndShape
  <2>2. CASE web[w].op = "setup"
    <3> DEFINE pw == users[u].pw
               off == users[u].off
               r == [web[w] EXCEPT !.pc = "session", !.pw = pw, !.off = off]
    <3>1. web' = [web EXCEPT ![w] = r] /\ served' = served
      BY <1>1, <2>2 DEF CreateFirstUserInsert, AccountsTypeOK
    <3>2. pw \in 0..MaxPw /\ off \in 0..MaxOff
      BY <1>1 DEF AccountsTypeOK, Rows
    <3> HIDE DEF pw, off
    <3>3. r \in Requests /\ r.pc = "session" /\ r.op = "setup" /\ r.to = u
      BY <1>1, <2>2, <3>2 DEF Requests, Steps
    <3> HIDE DEF r
    <3>4. ShapeOK(r)
      BY <1>1, <3>3 DEF ShapeOK, StepsOf
    <3> QED
      BY <3>1, <3>3, <3>4 DEF Becomes
  <2> QED
    BY <1>1, <2>1, <2>2
<1>6. Owned /\ SessionsFade /\ KeysFade
  BY <1>2 DEF Owned, SessionsFade, KeysFade
<1>7. /\ web' \in [Web -> Requests] /\ served' \in 0..MaxWeb /\ adminLock' \in Web \cup {Nobody}
      /\ RequestsSound' /\ web'[w] = r /\ \A v \in Web \ {w} : web'[v] = web[v]
  <2>1. \A v \in Web \ {w} : web[v].pc # "insert"
    BY <1>1 DEF RequestsSound, TxOK
  <2>2. r.pc \notin {"insert", "apply", "commit"}
    BY <1>5
  <2> QED
    BY <1>1, <1>2, <1>4, <1>5, <1>6, <2>1, <2>2, MovedSound
<1>8. AccountsTypeOK'
  BY <1>1, <1>2, <1>4, <1>7 DEF AccountsTypeOK
<1>9. RowsSound'
  BY <1>1, <1>2, <1>4 DEF RowsSound
<1>10. AdminRemains'
  BY <1>1, <1>4 DEF AdminRemains, ActiveAdmins, IsActiveAdmin
<1>11. Founding'
  BY <1>1, <1>2, <1>4 DEF Founding, AccountsTypeOK
<1>12. DuesKept
  BY <1>1, <1>2, <1>7, DuesKeptByOthers
<1>13. Explained'
  BY <1>1, <1>4, <1>6, <1>8, <1>9, <1>12, ExplainedSame
<1> QED
  BY <1>7, <1>8, <1>9, <1>10, <1>11, <1>13 DEF AccountsIInv

LEMMA CreateUserStep ==
    ASSUME AccountsIInv, NEW u \in Users, NEW role \in RolesUsed, CreateUser(u, role)
    PROVE  AccountsIInv'
<1>1. /\ AccountsTypeOK /\ RequestsSound /\ RowsSound /\ Explained /\ AdminRemains /\ Founding
      /\ UNCHANGED <<adminLock, web, served, acRest>> /\ ~users[u].here
  BY DEF AccountsIInv, CreateUser
<1>2. PICK p \in Principals("admin") : TRUE
  BY DEF CreateUser
<1>3. PICK a \in Users : users[a].here
  BY <1>1, PrincipalFacts
<1>4. users' = [users EXCEPT ![u] = [users[u] EXCEPT !.here = TRUE, !.role = role, !.active = TRUE]]
  BY DEF CreateUser
<1>5. /\ users' \in [Users -> Rows] /\ AgesSame
      /\ users'[u].here /\ users'[u].active /\ users'[u].role = role
      /\ \A x \in Users \ {u} : users'[x] = users[x]
  BY <1>1, <1>4, NewRow
<1>6. sessions' = sessions /\ apikeys' = apikeys /\ logged' = logged /\ founded' = founded /\ excused' = excused
  BY <1>1 DEF acRest
<1>7. Grown /\ Owned /\ SessionsFade /\ KeysFade
  BY <1>1, <1>5, <1>6 DEF Grown, Owned, SessionsFade, KeysFade
<1>8. AccountsTypeOK'
  BY <1>1, <1>5, <1>6 DEF AccountsTypeOK
<1>9. RequestsSound'
  <2>1. \A v \in Web : web[v].pc # "insert"
    BY <1>1, <1>3 DEF RequestsSound, TxOK
  <2>2. \A v \in Web : ShapeOK(web'[v]) /\ OwnOK(web[v])' /\ TxOK(v)'
    <3>1. Nobody \notin Web
      OBVIOUS
    <3> QED
      BY <1>1, <1>5, <1>7, <2>1, <3>1, OthersSound
  <2> QED
    BY <2>2 DEF RequestsSound, ShapeOK
<1>10. RowsSound'
  BY <1>1, <1>5, <1>6 DEF RowsSound
<1>11. AdminRemains'
  <2>1. PICK b \in Users : IsActiveAdmin(users[b])
    BY <1>1, <1>3 DEF AdminRemains, ActiveAdmins
  <2>2. IsActiveAdmin(users'[b])
    BY <1>1, <1>5, <2>1 DEF IsActiveAdmin
  <2> QED
    BY <2>2 DEF AdminRemains, ActiveAdmins
<1>12. Founding'
  BY <1>1, <1>5, <1>6 DEF Founding
<1>13. DuesKept
  BY <1>1, <1>6, DuesKeptByOthers
<1>14. Explained'
  BY <1>1, <1>5, <1>7, <1>8, <1>10, <1>13, ExplainedSame
<1> QED
  BY <1>8, <1>9, <1>10, <1>11, <1>12, <1>14 DEF AccountsIInv

LEMMA AdminTxCommitStep ==
    ASSUME AccountsIInv, NEW w \in Web, AdminTxCommit(w)
    PROVE  AccountsIInv'
<1> DEFINE u == web[w].to
           op == web[w].op
<1>1. /\ AccountsTypeOK /\ RequestsSound /\ RowsSound /\ Explained /\ Founding /\ AdminRemains
      /\ web[w].pc = "commit" /\ web[w] \in Requests /\ u \in Users /\ op \in {"update", "delete"}
      /\ adminLock = w /\ users[u].here /\ web[w].was = IsActiveAdmin(users[u])
      /\ (web[w].was => ActiveAdmins(Applied(w)) # {})
  BY ShapeFacts DEF AccountsIInv, AdminTxCommit, TxOK
<1>2. Unlock(w) /\ UNCHANGED <<founded, excused>> /\ users' = Applied(w)
  BY DEF AdminTxCommit
<1>3. /\ users' \in [Users -> Rows]
      /\ \A x \in Users \ {u} : users'[x] = users[x]
      /\ users'[u].pw = users[u].pw
      /\ op = "delete" => ~users'[u].here /\ ~users'[u].active /\ users'[u].off = users[u].off
      /\ op # "delete" => users'[u].here /\ (web[w].active => users'[u].off = users[u].off)
  <2>1. users' = Rewritten(users, web[w]) /\ users[u] \in Rows /\ users \in [Users -> Rows]
    BY <1>1, <1>2, AppliedIsRewritten DEF AccountsTypeOK
  <2>2. /\ users' \in [Users -> Rows] /\ \A x \in Users \ {u} : users'[x] = users[x]
        /\ users'[u] = RewrittenRow(users[u], web[w])
    BY <1>1, <2>1, RewrittenFacts
  <2> QED
    BY <1>1, <2>1, <2>2, RewrittenRowFacts
<1>4. PICK r : /\ Becomes(w, r) /\ served' = served /\ ShapeOK(r) /\ r.op # "own"
               /\ r.pc = "idle" \/ (r.pc = "drop" /\ r.op = "update" /\ r.to = u)
               /\ op # "delete" /\ ~web[w].active => r.pc = "drop"
  <2>1. CASE op = "delete" \/ web[w].active
    <3>1. End(w)
      BY <2>1 DEF AdminTxCommit
    <3> QED
      BY <2>1, <3>1, EndShape
  <2>2. CASE op # "delete" /\ ~web[w].active
    <3>1. Go(w, "drop") /\ "drop" \in Steps /\ "drop" \in StepsOf(op) /\ op = "update"
      BY <1>1, <2>2 DEF AdminTxCommit, Steps, StepsOf
    <3> QED
      BY <2>2, <3>1, GoShape
  <2> QED
    BY <2>1, <2>2
<1>5. /\ TablesTyped /\ Owned /\ SessionsFade /\ KeysFade
      /\ \A s \in SessionIds : sessions'[s].st # "unused" => sessions'[s].user \in Users
      /\ \A k \in KeyIds : apikeys'[k].st # "unused" => apikeys'[k].user \in Users
  <2>1. CASE op = "delete"
    <3>1. /\ sessions' = Ended(SessionsOf(u))
          /\ apikeys' = [k \in KeyIds |-> IF apikeys[k].user = u THEN [apikeys[k] EXCEPT !.st = "gone"] ELSE apikeys[k]]
          /\ logged' = [k \in KeyIds |-> IF k \in AttributedKeys(u) THEN "erased" ELSE logged[k]]
      BY <2>1 DEF AdminTxCommit
    <3>2. logged' \in [KeyIds -> {"none", "named", "erased"}]
      BY <1>1, <3>1 DEF AccountsTypeOK
    <3>3. sessions' \in [SessionIds -> SessionRows]
      BY <1>1, <3>1, EndedFacts
    <3>4. ASSUME NEW s \in SessionIds
          PROVE  /\ sessions'[s].user = sessions[s].user /\ sessions'[s].pw = sessions[s].pw
                 /\ sessions'[s].off = sessions[s].off /\ sessions'[s].raced = sessions[s].raced
                 /\ sessions'[s].st = sessions[s].st \/ (sessions'[s].st = "gone" /\ sessions[s].st = "live")
      <4>1. s \in SessionsOf(u) => sessions[s].st = "live"
        BY DEF SessionsOf
      <4> QED
        BY <1>1, <3>1, <4>1, EndedFacts
    <3>5. ASSUME NEW k \in KeyIds
          PROVE  /\ apikeys'[k] \in KeyRows
                 /\ apikeys'[k].user = apikeys[k].user /\ apikeys'[k].pw = apikeys[k].pw
                 /\ apikeys'[k].kind = apikeys[k].kind /\ apikeys'[k].raced = apikeys[k].raced
                 /\ apikeys'[k].st = apikeys[k].st \/ (apikeys'[k].st = "gone" /\ apikeys[k].user = u)
      <4>1. apikeys[k] \in KeyRows
        BY <1>1 DEF AccountsTypeOK
      <4>2. CASE apikeys[k].user = u
        <5>1. apikeys'[k] = [apikeys[k] EXCEPT !.st = "gone"]
          BY <3>1, <4>2
        <5> QED
          BY <4>1, <4>2, <5>1 DEF KeyRows
      <4>3. CASE apikeys[k].user # u
        BY <3>1, <4>1, <4>3
      <4> QED
        BY <4>2, <4>3
    <3>6. apikeys' \in [KeyIds -> KeyRows]
      BY <3>1, <3>5
    <3> QED
      <4>1. \A s \in SessionIds : sessions'[s].st # "unused" => sessions'[s].user \in Users
        BY <1>1, <3>4 DEF RowsSound
      <4>2. \A k \in KeyIds : apikeys'[k].st # "unused" => apikeys'[k].user \in Users
        BY <1>1, <3>5 DEF RowsSound
      <4>3. TablesTyped /\ Owned /\ SessionsFade /\ KeysFade
        BY <3>2, <3>3, <3>4, <3>5, <3>6 DEF TablesTyped, Owned, SessionsFade, KeysFade
      <4> QED
        BY <4>1, <4>2, <4>3
  <2>2. CASE op # "delete"
    <3>1. sessions' = sessions /\ apikeys' = apikeys /\ logged' = logged
      BY <2>2 DEF AdminTxCommit
    <3> QED
      BY <1>1, <3>1 DEF AccountsTypeOK, TablesTyped, RowsSound, Owned, SessionsFade, KeysFade
  <2> QED
    BY <2>1, <2>2
<1>6. /\ web' \in [Web -> Requests] /\ served' \in 0..MaxWeb /\ adminLock' \in Web \cup {Nobody}
      /\ RequestsSound' /\ web'[w] = r /\ \A v \in Web \ {w} : web'[v] = web[v]
  <2>1. \A v \in Web \ {w} : web[v].pc # "insert"
    BY <1>1 DEF RequestsSound, TxOK
  <2>2. r.pc \notin {"insert", "apply", "commit"}
    BY <1>4
  <2> QED
    BY <1>1, <1>2, <1>3, <1>4, <1>5, <2>1, <2>2, MovedSound
<1>7. AccountsTypeOK'
  BY <1>1, <1>2, <1>3, <1>5, <1>6 DEF AccountsTypeOK, TablesTyped
<1>8. RowsSound'
  BY <1>1, <1>3, <1>5 DEF RowsSound
<1>9. PICK b \in Users : IsActiveAdmin(users'[b])
  <2>1. CASE web[w].was
    BY <1>1, <1>2, <2>1 DEF ActiveAdmins
  <2>2. CASE ~web[w].was
    <3>1. PICK a \in Users : IsActiveAdmin(users[a])
      BY <1>1 DEF AdminRemains, ActiveAdmins
    <3>2. a # u
      BY <1>1, <2>2, <3>1
    <3> QED
      BY <1>3, <3>1, <3>2
  <2> QED
    BY <2>1, <2>2
<1>10. AdminRemains' /\ Founding'
  BY <1>1, <1>2, <1>9 DEF AdminRemains, ActiveAdmins, IsActiveAdmin, Founding
<1>11. DuesKept
  BY <1>1, <1>2, <1>6, DuesKeptByOthers
<1>12. \A x \in Users : users'[x].pw = users[x].pw
  BY <1>3
<1>13. ASSUME NEW x \in Users, users'[x].off # users[x].off PROVE OffDue(x)'
  <2>1. x = u /\ op # "delete" /\ ~web[w].active
    BY <1>3, <1>13
  <2> QED
    BY <1>4, <1>6, <2>1 DEF OffDue
<1>14. OldPasswordsExplained'
  BY <1>1, <1>5, <1>7, <1>8, <1>11, <1>12, OldPasswordsStep DEF Explained, SessionsFade, DuesKept
<1>15. DeactivationsExplained'
  BY <1>1, <1>5, <1>7, <1>8, <1>11, <1>13, DeactivationsStep DEF Explained, SessionsFade, DuesKept
<1>16. OldKeysExplained'
  BY <1>1, <1>5, <1>7, <1>8, <1>11, <1>12, OldKeysStep DEF Explained, KeysFade, DuesKept
<1> QED
  BY <1>6, <1>7, <1>8, <1>10, <1>14, <1>15, <1>16 DEF AccountsIInv, Explained
-----------------------------------------------------------------------------
(* The theorems.                                                           *)

\* There are as many numbers as accounts: Holder is defined.
LEMMA HolderFacts ==
    /\ Holder \in [1..Cardinality(Users) -> Users]
    /\ 1 \in DOMAIN Holder
<1>1. Cardinality(Users) \in Nat /\ Cardinality(Users) # 0
  BY FS_CardinalityType, FS_EmptySet
<1>2. ExistsBijection(1..Cardinality(Users), Users)
  BY FS_CardinalityType
<1>3. PICK h \in [1..Cardinality(Users) -> Users] : \A u \in Users : \E i \in DOMAIN h : h[i] = u
  BY <1>2 DEF ExistsBijection, Bijection, Injection, Surjection
<1>4. Holder \in [1..Cardinality(Users) -> Users]
  BY <1>3 DEF Holder
<1> QED
  BY <1>1, <1>4

LEMMA EmptyRows ==
    /\ Absent \in Rows /\ ~Absent.here /\ ~Absent.active /\ Absent.pw = 0 /\ Absent.off = 0
    /\ NoSession \in SessionRows /\ NoSession.st = "unused"
    /\ NoKey \in KeyRows /\ NoKey.st = "unused"
BY DEF Absent, Rows, NoSession, SessionRows, NoKey, KeyRows

LEMMA InitIInv ==
    ASSUME AccountsInit
    PROVE  AccountsIInv
<1>1. /\ adminLock = Nobody /\ web = [w \in Web |-> NoRequest] /\ served = 0 /\ founded = 0
      /\ logged = [k \in KeyIds |-> "none"] /\ excused = [u \in Users |-> {}]
  BY DEF AccountsInit
<1>2. RequestsSound
  BY <1>1, NoRequestType DEF RequestsSound, OwnOK, TxOK
<1>3. /\ users \in [Users -> Rows] /\ sessions \in [SessionIds -> SessionRows] /\ apikeys \in [KeyIds -> KeyRows]
      /\ RowsSound /\ AdminRemains
      /\ \A u \in Users : users[u].pw = 0 /\ users[u].off = 0
  <2>1. CASE /\ users = [u \in Users |-> Absent]
             /\ sessions = [s \in SessionIds |-> NoSession]
             /\ apikeys = [k \in KeyIds |-> NoKey]
    BY <2>1, EmptyRows DEF RowsSound, AdminRemains
  <2>2. ASSUME NEW roles \in [Users -> RolesUsed], NEW kind \in {"gateway", "management"},
               roles[Holder[1]] = "admin",
               users = [u \in Users |-> [Absent EXCEPT !.here = TRUE, !.active = TRUE, !.role = roles[u]]],
               sessions = [s \in SessionIds |->
                 IF s \in DOMAIN Holder THEN [NoSession EXCEPT !.st = "live", !.user = Holder[s]] ELSE NoSession],
               apikeys = [k \in KeyIds |->
                 IF k = 1 THEN [NoKey EXCEPT !.st = "live", !.kind = kind, !.user = Holder[1]] ELSE NoKey]
        PROVE  /\ users \in [Users -> Rows] /\ sessions \in [SessionIds -> SessionRows] /\ apikeys \in [KeyIds -> KeyRows]
               /\ RowsSound /\ AdminRemains
               /\ \A u \in Users : users[u].pw = 0 /\ users[u].off = 0
    <3>1. ASSUME NEW u \in Users
          PROVE  /\ users[u] \in Rows /\ users[u].here /\ users[u].active /\ users[u].role = roles[u]
                 /\ users[u].pw = 0 /\ users[u].off = 0
      <4>1. users[u] = [Absent EXCEPT !.here = TRUE, !.active = TRUE, !.role = roles[u]] /\ roles[u] \in RolesUsed
        BY <2>2
      <4> QED
        BY <4>1, EmptyRows DEF Rows
    <3>2. Holder[1] \in Users /\ \A s \in DOMAIN Holder : Holder[s] \in Users
      BY HolderFacts
    <3>3. ASSUME NEW s \in SessionIds
          PROVE  sessions[s] \in SessionRows /\ (sessions[s].st # "unused" => sessions[s].user \in Users)
      <4>1. CASE s \in DOMAIN Holder
        <5>1. sessions[s] = [NoSession EXCEPT !.st = "live", !.user = Holder[s]] /\ Holder[s] \in Users
          BY <2>2, <3>2, <4>1
        <5> QED
          BY <5>1, EmptyRows DEF SessionRows
      <4>2. CASE s \notin DOMAIN Holder
        <5>1. sessions[s] = NoSession
          BY <2>2, <4>2
        <5> QED
          BY <5>1, EmptyRows DEF SessionRows
      <4> QED
        BY <4>1, <4>2
    <3>4. ASSUME NEW k \in KeyIds
          PROVE  apikeys[k] \in KeyRows /\ (apikeys[k].st # "unused" => apikeys[k].user \in Users)
      <4>1. CASE k = 1
        <5>1. apikeys[k] = [NoKey EXCEPT !.st = "live", !.kind = kind, !.user = Holder[1]]
          BY <2>2, <4>1
        <5> QED
          BY <3>2, <5>1, EmptyRows DEF KeyRows
      <4>2. CASE k # 1
        <5>1. apikeys[k] = NoKey
          BY <2>2, <4>2
        <5> QED
          BY <5>1, EmptyRows DEF KeyRows
      <4> QED
        BY <4>1, <4>2
    <3>5. IsActiveAdmin(users[Holder[1]])
      BY <2>2, <3>1, <3>2 DEF IsActiveAdmin
    <3>6. RowsSound /\ AdminRemains
      BY <3>1, <3>2, <3>3, <3>4, <3>5 DEF RowsSound, AdminRemains, ActiveAdmins
    <3>7. users \in [Users -> Rows] /\ sessions \in [SessionIds -> SessionRows] /\ apikeys \in [KeyIds -> KeyRows]
      BY <2>2, <3>1, <3>3, <3>4
    <3> QED
      BY <3>1, <3>6, <3>7
  <2> QED
    BY <2>1, <2>2 DEF AccountsInit
<1>4. AccountsTypeOK
  BY <1>1, <1>3, NoRequestType DEF AccountsTypeOK
<1>5. Founding
  BY <1>1 DEF Founding
<1>6. Explained
  BY <1>3, <1>4 DEF Explained, OldPasswordsExplained, DeactivationsExplained, OldKeysExplained, RowsSound,
                    SessionRows, KeyRows, AccountsTypeOK
<1> QED
  BY <1>2, <1>3, <1>4, <1>5, <1>6 DEF AccountsIInv

LEMMA NextIInv ==
    ASSUME AccountsIInv, [AccountsNext]_acVars
    PROVE  AccountsIInv'
<1>1. ASSUME NEW w \in Web, NEW u \in Users,
             \/ StartSetup(w, u) \/ BootstrapAdmin(w, u) \/ LoginRead(w, u)
             \/ StartResetPassword(w, u) \/ StartResetCommand(w, u)
             \/ StartUpdateUser(w, u) \/ StartDeleteUser(w, u)
             \/ StartCreateKey(w, u, "gateway") \/ StartCreateKey(w, u, "management")
      PROVE  AccountsIInv'
  BY <1>1, FirstAccountStep, LoginReadStep, StartResetPasswordStep, StartResetCommandStep, StartUpdateUserStep,
     StartDeleteUserStep, StartCreateKeyStep
<1>2. ASSUME NEW w \in Web, NEW k \in KeyIds, StartUpdateKey(w, k) \/ StartCall(w, k)
      PROVE  AccountsIInv'
  BY <1>2, StartUpdateKeyStep, StartCallStep
<1>3. ASSUME NEW w \in Web,
             \/ StartChangePassword(w)
             \/ CreateFirstUserCount(w) \/ CreateFirstUserInsert(w) \/ NewSession(w)
             \/ UpdateUserPassword(w) \/ DeleteUserSessions(w) \/ RevokeUserKeys(w)
             \/ NotLastAdmin(w) \/ AdminTxBegin(w) \/ AdminTxApply(w) \/ AdminTxCommit(w)
             \/ CreateAPIKey(w) \/ UpdateAPIKey(w) \/ InsertRequestLog(w) \/ Abort(w)
      PROVE  AccountsIInv'
  BY <1>3, StartChangePasswordStep, CreateFirstUserCountStep, CreateFirstUserInsertStep, NewSessionStep,
     UpdateUserPasswordStep, DeleteUserSessionsStep, RevokeUserKeysStep, NotLastAdminStep, AdminTxBeginStep,
     AdminTxApplyStep, AdminTxCommitStep, CreateAPIKeyStep, UpdateAPIKeyStep, InsertRequestLogStep, AbortStep
<1>4. ASSUME NEW u \in Users, NEW role \in RolesUsed, CreateUser(u, role) PROVE AccountsIInv'
  BY <1>4, CreateUserStep
<1>5. CASE UNCHANGED acVars
  <2>1. UNCHANGED <<users, web, served, adminLock, founded, excused>> /\ TablesTyped /\ NoneNew /\ Owned
        /\ SessionsFade /\ KeysFade
    BY <1>5 DEF acVars, AccountsIInv, AccountsTypeOK, TablesTyped, NoneNew, Owned, SessionsFade, KeysFade
  <2> QED
    BY <2>1, QuietStep
<1> QED
  BY <1>1, <1>2, <1>3, <1>4, <1>5, QuietSteps DEF AccountsNext

THEOREM AccountsIInvAlways == AccountsSpec => []AccountsIInv
<1>1. AccountsInit => AccountsIInv
  BY InitIInv
<1>2. AccountsIInv /\ [AccountsNext]_acVars => AccountsIInv'
  BY NextIInv
<1> QED
  BY <1>1, <1>2, PTL DEF AccountsSpec

\* Whatever demotions, deactivations and deletions run at the same time, over
\* all replicas and with statements that fail, an active admin remains: every
\* one of them counts under the advisory lock (adminGuardedTx).
THEOREM AnAdminAlwaysRemains == AccountsSpec => []AccountsInv
<1>1. AccountsIInv => AccountsInv
  BY DEF AccountsIInv, AccountsInv
<1> QED
  BY <1>1, AccountsIInvAlways, PTL

\* Setup requests and starting replicas found at most one account between
\* them: the count that decides is repeated under the lock (CreateFirstUser).
THEOREM OneFounder == AccountsSpec => []FoundedOnce
<1>1. AccountsIInv => FoundedOnce
  BY DEF AccountsIInv, Founding, FoundedOnce
<1> QED
  BY <1>1, AccountsIInvAlways, PTL

\* Every live session or management key of an old password, and every session
\* from before a deactivation, belongs to an account whose revocation is under
\* way, was declined or failed, or to a login that raced it (changePassword,
\* resetPassword, updateUser).
THEOREM StaleCredentialsAlwaysExplained == AccountsSpec => []StaleCredentialsExplained
<1>1. ASSUME Explained PROVE StaleSessionsExplained
  BY <1>1 DEF Explained, OldPasswordsExplained, DeactivationsExplained, StaleSessionsExplained
<1>2. ASSUME Explained PROVE StaleKeysExplained
  BY <1>2 DEF Explained, OldKeysExplained, StaleKeysExplained
<1>3. AccountsIInv => StaleCredentialsExplained
  BY <1>1, <1>2 DEF AccountsIInv, StaleCredentialsExplained
<1> QED
  BY <1>3, AccountsIInvAlways, PTL

\* A key changes its state only one way.
LEMMA KeysOnlyRetire ==
    ASSUME AccountsIInv, [AccountsNext]_acVars, NEW k \in KeyIds
    PROVE  /\ apikeys[k].st = "revoked" => apikeys'[k].st \in {"revoked", "gone"}
           /\ apikeys[k].st = "gone" => apikeys'[k].st = "gone"
<1> DEFINE Goal == /\ apikeys[k].st = "revoked" => apikeys'[k].st \in {"revoked", "gone"}
                   /\ apikeys[k].st = "gone" => apikeys'[k].st = "gone"
<1>1. apikeys \in [KeyIds -> KeyRows] /\ web \in [Web -> Requests]
  BY DEF AccountsIInv, AccountsTypeOK
<1>2. ASSUME apikeys' = apikeys PROVE Goal
  BY <1>2
<1>3. ASSUME NEW w \in Web, RevokeUserKeys(w) PROVE Goal
  BY <1>1, <1>3 DEF RevokeUserKeys, KeyRows
<1>4. ASSUME NEW w \in Web, AdminTxCommit(w) PROVE Goal
  BY <1>1, <1>4 DEF AdminTxCommit, KeyRows
<1>5. ASSUME NEW w \in Web, CreateAPIKey(w) PROVE Goal
  BY <1>1, <1>5 DEF CreateAPIKey
<1>6. ASSUME NEW w \in Web, UpdateAPIKey(w) PROVE Goal
  <2>1. apikeys' = apikeys \/ apikeys' = [apikeys EXCEPT ![web[w].key].reach = web[w].role]
    BY <1>6 DEF UpdateAPIKey
  <2>2. apikeys'[k].st = apikeys[k].st
    BY <1>1, <2>1 DEF KeyRows
  <2> QED
    BY <2>2
<1>7. ASSUME NEW j \in KeyIds, RevokeKey(j) \/ DeleteKey(j) \/ PurgeKey(j) PROVE Goal
  BY <1>1, <1>7 DEF RevokeKey, DeleteKey, PurgeKey, KeyRows
<1>8. ASSUME NEW w \in Web, NEW u \in Users,
             \/ StartSetup(w, u) \/ BootstrapAdmin(w, u) \/ LoginRead(w, u)
             \/ StartResetPassword(w, u) \/ StartResetCommand(w, u)
             \/ StartUpdateUser(w, u) \/ StartDeleteUser(w, u)
             \/ StartCreateKey(w, u, "gateway") \/ StartCreateKey(w, u, "management")
      PROVE  apikeys' = apikeys
  <2>1. CASE StartSetup(w, u) \/ BootstrapAdmin(w, u) \/ LoginRead(w, u)
    BY <2>1 DEF StartSetup, BootstrapAdmin, FirstAccount, LoginRead, acRest
  <2>2. CASE StartResetPassword(w, u) \/ StartResetCommand(w, u)
    BY <2>2 DEF StartResetPassword, StartResetCommand, acRest
  <2>3. CASE StartUpdateUser(w, u) \/ StartDeleteUser(w, u)
    BY <2>3 DEF StartUpdateUser, StartDeleteUser, acRest
  <2>4. CASE StartCreateKey(w, u, "gateway") \/ StartCreateKey(w, u, "management")
    BY <2>4 DEF StartCreateKey, acRest
  <2> QED
    BY <1>8, <2>1, <2>2, <2>3, <2>4
<1>9. ASSUME NEW w \in Web,
             \/ StartChangePassword(w) \/ CreateFirstUserCount(w) \/ CreateFirstUserInsert(w) \/ NewSession(w)
             \/ UpdateUserPassword(w) \/ DeleteUserSessions(w) \/ NotLastAdmin(w) \/ AdminTxBegin(w) \/ AdminTxApply(w)
             \/ InsertRequestLog(w) \/ Abort(w) \/ \E j \in KeyIds : StartUpdateKey(w, j) \/ StartCall(w, j)
      PROVE  apikeys' = apikeys
  <2>1. CASE StartChangePassword(w) \/ CreateFirstUserCount(w) \/ CreateFirstUserInsert(w) \/ NewSession(w)
    BY <2>1 DEF StartChangePassword, CreateFirstUserCount, CreateFirstUserInsert, NewSession, acRest
  <2>2. CASE UpdateUserPassword(w) \/ DeleteUserSessions(w) \/ NotLastAdmin(w)
    BY <2>2 DEF UpdateUserPassword, DeleteUserSessions, NotLastAdmin, acRest
  <2>3. CASE AdminTxBegin(w) \/ AdminTxApply(w) \/ InsertRequestLog(w) \/ Abort(w)
    BY <2>3 DEF AdminTxBegin, AdminTxApply, InsertRequestLog, Abort, acRest
  <2>4. ASSUME NEW j \in KeyIds, StartUpdateKey(w, j) \/ StartCall(w, j)
        PROVE  apikeys' = apikeys
    BY <2>4 DEF StartUpdateKey, StartCall, acRest
  <2> QED
    BY <1>9, <2>1, <2>2, <2>3, <2>4
<1>10. ASSUME \/ \E s \in SessionIds : Logout(s)
            \/ \E u \in Users : RevokeSessions(u) \/ \E role \in RolesUsed : CreateUser(u, role)
            \/ \E j \in KeyIds : PurgeLog(j)
       PROVE  apikeys' = apikeys
  BY <1>10 DEF Logout, RevokeSessions, CreateUser, PurgeLog, acRest
<1> HIDE DEF Goal
<1>11. Goal
  <2>1. CASE UNCHANGED acVars
    <3>1. apikeys' = apikeys
      BY <2>1 DEF acVars
    <3> QED
      BY <1>2, <3>1
  <2>2. CASE AccountsNext
    BY <1>2, <1>3, <1>4, <1>5, <1>6, <1>7, <1>8, <1>9, <1>10, <2>2 DEF AccountsNext
  <2> QED
    BY <2>1, <2>2
<1> QED
  BY <1>11 DEF Goal

\* A revoked key never works again, whatever edits had loaded it live, and the
\* row of a deleted one never comes back (UpdateAPIKey).
THEOREM RevokedKeysStayRevoked == AccountsSpec => RevokedStaysRevoked
<1> DEFINE Kept == \A k \in KeyIds : /\ apikeys[k].st = "revoked" => apikeys'[k].st \in {"revoked", "gone"}
                                     /\ apikeys[k].st = "gone" => apikeys'[k].st = "gone"
<1>1. AccountsIInv /\ [AccountsNext]_acVars => [Kept]_acVars
  BY KeysOnlyRetire
<1> QED
  BY <1>1, AccountsIInvAlways, PTL DEF AccountsSpec, RevokedStaysRevoked
-----------------------------------------------------------------------------
(***************************************************************************)
(* LoginLimiter: what a cap counts, and the requests that may still add to *)
(* it.                                                                     *)
(***************************************************************************)

\* Requests that have passed a check and may still record a failure.
TriesFor(name) == {t \in Typists : typist[t].pc = "compare" /\ typist[t].who[1] = name}
TriesFrom(ip) == {t \in Typists : typist[t].pc = "compare" /\ typist[t].who[2] = ip}
TriesOf(p) == {t \in Typists : typist[t].pc \in {"minute", "compare"} /\ typist[t].who = p}
OfName(name) == {f \in attempts : f.recent /\ f.who[1] = name}
OfAddress(ip) == {f \in attempts : f.recent /\ f.who[2] = ip}
OfPair(p) == {f \in attempts : f.who = p}

\* The failures counted and those that may still be recorded.
Fits(counted, tries, cap) == Cardinality(counted) + Cardinality(tries) <= Slack(cap)

LoginIInv ==
    /\ LoginTypeOK /\ IsFiniteSet(attempts)
    /\ \A t \in Typists : typist[t].pc = "address" => typist[t].who[1] = SetupName
    /\ PerUser > 0 => \A n \in Names : Fits(OfName(n), TriesFor(n), PerUser)
    /\ PerIP > 0 => \A a \in Addresses : Fits(OfAddress(a), TriesFrom(a), PerIP)
    /\ LockoutFailures > 0 => \A p \in Pairs : p[1] # SetupName => Fits(OfPair(p), TriesOf(p), LockoutFailures)

LEMMA TypistCount == Cardinality(Typists) \in Nat
BY TypistsAssumption, FS_CardinalityType

LEMMA FinitePart == ASSUME NEW S, IsFiniteSet(S), NEW T \in SUBSET S
                    PROVE  IsFiniteSet(T) /\ Cardinality(T) \in Nat /\ Cardinality(T) <= Cardinality(S)
BY FS_Subset, FS_CardinalityType

\* A check that passes: whoever else is trying, the cap leaves room for them.
LEMMA FitsAfterCheck ==
    ASSUME NEW counted, IsFiniteSet(counted), NEW tries \in SUBSET Typists, NEW cap \in Nat, cap > 0,
           ~Reached(Cardinality(counted), cap)
    PROVE  Fits(counted, tries, cap)
<1>1. Cardinality(counted) \in Nat /\ Cardinality(tries) \in Nat /\ Cardinality(tries) <= Cardinality(Typists)
  BY FinitePart, FS_CardinalityType, TypistsAssumption
<1>2. Cardinality(counted) < cap
  BY <1>1 DEF Reached
<1> QED
  BY <1>1, <1>2, TypistCount DEF Fits, Slack

LEMMA FitsWithFewer ==
    ASSUME NEW counted, NEW tries \in SUBSET Typists, NEW cap \in Nat, Fits(counted, tries, cap), IsFiniteSet(counted),
           NEW less, Cardinality(less) \in Nat, Cardinality(less) <= Cardinality(counted), NEW fewer \in SUBSET tries
    PROVE  Fits(less, fewer, cap)
<1>1. /\ Cardinality(counted) \in Nat
      /\ Cardinality(fewer) \in Nat /\ Cardinality(tries) \in Nat /\ Cardinality(fewer) <= Cardinality(tries)
  <2>1. IsFiniteSet(tries)
    BY FinitePart, TypistsAssumption
  <2> QED
    BY <2>1, FinitePart, FS_CardinalityType
<1> QED
  BY <1>1, TypistCount DEF Fits, Slack

\* A failure is recorded by one of those that try.
LEMMA FitsAfterFailure ==
    ASSUME NEW counted, NEW tries \in SUBSET Typists, NEW cap \in Nat, Fits(counted, tries, cap), IsFiniteSet(counted),
           NEW f, NEW t \in tries
    PROVE  Fits(counted \cup {f}, tries \ {t}, cap)
<1>1. IsFiniteSet(tries) /\ Cardinality(tries) \in Nat /\ Cardinality(counted) \in Nat
  BY FinitePart, TypistsAssumption, FS_CardinalityType
<1>2. Cardinality(tries \ {t}) = Cardinality(tries) - 1
  BY <1>1, FS_RemoveElement
<1>3. Cardinality(counted \cup {f}) \in {Cardinality(counted), Cardinality(counted) + 1}
  BY FS_AddElement
<1> QED
  BY <1>1, <1>2, <1>3, TypistCount DEF Fits, Slack

LEMMA LoginParts ==
    ASSUME LoginIInv
    PROVE  /\ \A n : TriesFor(n) \in SUBSET Typists /\ IsFiniteSet(OfName(n)) /\ Cardinality(OfName(n)) \in Nat
           /\ \A a : TriesFrom(a) \in SUBSET Typists /\ IsFiniteSet(OfAddress(a)) /\ Cardinality(OfAddress(a)) \in Nat
           /\ \A p : TriesOf(p) \in SUBSET Typists /\ IsFiniteSet(OfPair(p)) /\ Cardinality(OfPair(p)) \in Nat
<1>1. IsFiniteSet(attempts)
  BY DEF LoginIInv
<1>2. \A n : OfName(n) \in SUBSET attempts /\ TriesFor(n) \in SUBSET Typists
  BY DEF OfName, TriesFor
<1>3. \A n : OfAddress(n) \in SUBSET attempts /\ TriesFrom(n) \in SUBSET Typists
  BY DEF OfAddress, TriesFrom
<1>4. \A n : OfPair(n) \in SUBSET attempts /\ TriesOf(n) \in SUBSET Typists
  BY DEF OfPair, TriesOf
<1> QED
  BY <1>1, <1>2, <1>3, <1>4, FinitePart

LEMMA LoginStarts == ASSUME LoginInit PROVE LoginIInv
<1>1. Away \in [pc : {"away", "pair", "minute", "address", "compare"}, who : Pairs] /\ Away.pc = "away"
  <2>1. \E p \in Pairs : p[1] = SetupName
    <3>1. PICK a \in Addresses : TRUE
      BY TypistsAssumption
    <3>2. <<SetupName, a>> \in Pairs /\ <<SetupName, a>>[1] = SetupName
      BY <3>1 DEF Pairs
    <3> QED
      BY <3>2
  <2> QED
    BY <2>1 DEF Away
<1>2. LoginTypeOK /\ IsFiniteSet(attempts)
  BY <1>1, LoginCapsAssumption, FS_EmptySet DEF LoginInit, LoginTypeOK
<1>3. \A x : /\ OfName(x) = {} /\ OfAddress(x) = {} /\ OfPair(x) = {}
             /\ TriesFor(x) = {} /\ TriesFrom(x) = {} /\ TriesOf(x) = {}
  BY <1>1 DEF LoginInit, OfName, OfAddress, OfPair, TriesFor, TriesFrom, TriesOf
<1>4. \A cap \in Nat : cap > 0 => Fits({}, {}, cap)
  BY FS_EmptySet, TypistCount DEF Fits, Slack
<1>5. PerUser \in Nat /\ PerIP \in Nat /\ LockoutFailures \in Nat
  BY LoginCapsAssumption
<1> QED
  BY <1>1, <1>2, <1>3, <1>4, <1>5 DEF LoginIInv, LoginInit

\* One request moves on; it joins those that try only after their check.
LEMMA TypistMoves ==
    ASSUME LoginIInv, NEW t \in Typists, UNCHANGED <<attempts, failed>>,
           NEW r \in [pc : {"away", "pair", "minute", "address", "compare"}, who : Pairs],
           typist' = [typist EXCEPT ![t] = r],
           r.pc = "address" => r.who[1] = SetupName,
           r.pc = "minute" => \/ typist[t].pc = "minute" /\ typist[t].who = r.who
                              \/ ~Reached(FailuresInWindow(r.who), LockoutFailures),
           r.pc = "compare" =>
             /\ r.who[1] = SetupName \/ (typist[t].pc = "minute" /\ typist[t].who = r.who /\ ~Reached(FailuresOf(r.who[1]), PerUser))
             /\ ~Reached(FailuresFrom(r.who[2]), PerIP)
    PROVE  LoginIInv'
<1>0. PerUser \in Nat /\ PerIP \in Nat /\ LockoutFailures \in Nat
  BY LoginCapsAssumption
<1>1. /\ \A s \in Typists : typist'[s] = IF s = t THEN r ELSE typist[s]
      /\ LoginTypeOK' /\ IsFiniteSet(attempts')
  BY DEF LoginIInv, LoginTypeOK
<1>2. \A x : OfName(x)' = OfName(x) /\ OfAddress(x)' = OfAddress(x) /\ OfPair(x)' = OfPair(x)
  BY DEF OfName, OfAddress, OfPair
<1>3. ASSUME PerUser > 0, NEW n \in Names
      PROVE  Fits(OfName(n), TriesFor(n), PerUser)'
  <2>0. Fits(OfName(n), TriesFor(n), PerUser)
    BY <1>3 DEF LoginIInv
  <2>1. TriesFor(n)' \in SUBSET Typists
    BY DEF TriesFor
  <2>2. CASE r.pc = "compare" /\ r.who[1] = n
    <3>1. ~Reached(Cardinality(OfName(n)), PerUser)
      BY <2>2, NamesAssumption DEF FailuresOf, OfName
    <3>2. Fits(OfName(n), TriesFor(n)', PerUser)
      BY <1>0, <1>3, <2>1, <3>1, LoginParts, FitsAfterCheck
    <3> QED
      BY <1>2, <3>2 DEF Fits, Slack
  <2>3. CASE ~(r.pc = "compare" /\ r.who[1] = n)
    <3>1. TriesFor(n)' \in SUBSET TriesFor(n)
      BY <1>1, <2>3 DEF TriesFor
    <3>2. Fits(OfName(n), TriesFor(n)', PerUser)
      BY <1>0, <2>0, <3>1, LoginParts, FitsWithFewer
    <3> QED
      BY <1>2, <3>2 DEF Fits, Slack
  <2> QED
    BY <2>2, <2>3
<1>4. ASSUME PerIP > 0, NEW a \in Addresses
      PROVE  Fits(OfAddress(a), TriesFrom(a), PerIP)'
  <2>0. Fits(OfAddress(a), TriesFrom(a), PerIP)
    BY <1>4 DEF LoginIInv
  <2>1. TriesFrom(a)' \in SUBSET Typists
    BY DEF TriesFrom
  <2>2. CASE r.pc = "compare" /\ r.who[2] = a
    <3>1. ~Reached(Cardinality(OfAddress(a)), PerIP)
      BY <2>2 DEF FailuresFrom, OfAddress
    <3>2. Fits(OfAddress(a), TriesFrom(a)', PerIP)
      BY <1>0, <1>4, <2>1, <3>1, LoginParts, FitsAfterCheck
    <3> QED
      BY <1>2, <3>2 DEF Fits, Slack
  <2>3. CASE ~(r.pc = "compare" /\ r.who[2] = a)
    <3>1. TriesFrom(a)' \in SUBSET TriesFrom(a)
      BY <1>1, <2>3 DEF TriesFrom
    <3>2. Fits(OfAddress(a), TriesFrom(a)', PerIP)
      BY <1>0, <2>0, <3>1, LoginParts, FitsWithFewer
    <3> QED
      BY <1>2, <3>2 DEF Fits, Slack
  <2> QED
    BY <2>2, <2>3
<1>5. ASSUME LockoutFailures > 0, NEW p \in Pairs, p[1] # SetupName
      PROVE  Fits(OfPair(p), TriesOf(p), LockoutFailures)'
  <2>0. Fits(OfPair(p), TriesOf(p), LockoutFailures)
    BY <1>5 DEF LoginIInv
  <2>1. TriesOf(p)' \in SUBSET Typists
    BY DEF TriesOf
  <2>2. CASE r.pc = "minute" /\ r.who = p /\ ~(typist[t].pc = "minute" /\ typist[t].who = r.who)
    <3>1. ~Reached(Cardinality(OfPair(p)), LockoutFailures)
      BY <2>2 DEF FailuresInWindow, OfPair
    <3>2. Fits(OfPair(p), TriesOf(p)', LockoutFailures)
      BY <1>0, <1>5, <2>1, <3>1, LoginParts, FitsAfterCheck
    <3> QED
      BY <1>2, <3>2 DEF Fits, Slack
  <2>3. CASE ~(r.pc = "minute" /\ r.who = p /\ ~(typist[t].pc = "minute" /\ typist[t].who = r.who))
    <3>1. TriesOf(p)' \in SUBSET TriesOf(p)
      BY <1>1, <1>5, <2>3 DEF TriesOf
    <3>2. Fits(OfPair(p), TriesOf(p)', LockoutFailures)
      BY <1>0, <2>0, <3>1, LoginParts, FitsWithFewer
    <3> QED
      BY <1>2, <3>2 DEF Fits, Slack
  <2> QED
    BY <2>2, <2>3
<1>6. \A s \in Typists : typist'[s].pc = "address" => typist'[s].who[1] = SetupName
  BY <1>1 DEF LoginIInv
<1> QED
  BY <1>1, <1>3, <1>4, <1>5, <1>6 DEF LoginIInv

LEMMA TypistsMove ==
    ASSUME LoginIInv, NEW t \in Typists,
           \/ \E p \in Pairs : Login(t, p) \/ Setup(t, p)
           \/ CheckPair(t) \/ CheckMinute(t) \/ CheckAddress(t) \/ Succeed(t)
    PROVE  LoginIInv'
<1> DEFINE Typing == [pc : {"away", "pair", "minute", "address", "compare"}, who : Pairs]
<1>0. /\ typist \in [Typists -> Typing] /\ typist[t] \in Typing
      /\ typist[t].pc = "address" => typist[t].who[1] = SetupName
  BY DEF LoginIInv, LoginTypeOK
<1>1. Away \in Typing /\ Away.pc = "away"
  <2>1. PICK a \in Addresses : TRUE
    BY TypistsAssumption
  <2>2. <<SetupName, a>> \in Pairs /\ <<SetupName, a>>[1] = SetupName
    BY <2>1 DEF Pairs
  <2>3. \E p \in Pairs : p[1] = SetupName
    BY <2>2
  <2> QED
    BY <2>3 DEF Away
<1>2. ASSUME NEW p \in Pairs, Login(t, p) PROVE LoginIInv'
  <2> DEFINE r == [pc |-> "pair", who |-> p]
  <2>1. r \in Typing /\ r.pc = "pair" /\ typist' = [typist EXCEPT ![t] = r] /\ UNCHANGED <<attempts, failed>>
    BY <1>2 DEF Login
  <2> HIDE DEF r
  <2> QED
    BY <2>1, TypistMoves
<1>3. ASSUME NEW p \in Pairs, Setup(t, p) PROVE LoginIInv'
  <2> DEFINE r == [pc |-> "address", who |-> p]
  <2>1. /\ r \in Typing /\ r.pc = "address" /\ r.who[1] = SetupName
        /\ typist' = [typist EXCEPT ![t] = r] /\ UNCHANGED <<attempts, failed>>
    BY <1>3 DEF Setup
  <2> HIDE DEF r
  <2> QED
    BY <2>1, TypistMoves
<1>4. ASSUME Leave(t) PROVE LoginIInv'
  BY <1>1, <1>4, TypistMoves DEF Leave
<1>5. ASSUME NEW pc \in {"minute", "compare"}, Step(t, pc),
             pc = "minute" => ~Reached(FailuresInWindow(typist[t].who), LockoutFailures),
             pc = "compare" => /\ \/ typist[t].who[1] = SetupName
                                  \/ typist[t].pc = "minute" /\ ~Reached(FailuresOf(typist[t].who[1]), PerUser)
                               /\ ~Reached(FailuresFrom(typist[t].who[2]), PerIP)
      PROVE  LoginIInv'
  <2> DEFINE r == [typist[t] EXCEPT !.pc = pc]
  <2>1. /\ r \in Typing /\ r.pc = pc /\ r.who = typist[t].who
        /\ typist' = [typist EXCEPT ![t] = r] /\ UNCHANGED <<attempts, failed>>
    BY <1>0, <1>5 DEF Step
  <2> HIDE DEF r
  <2> QED
    BY <1>5, <2>1, TypistMoves
<1>6. CASE CheckPair(t)
  BY <1>4, <1>5, <1>6 DEF CheckPair, Pass
<1>7. CASE CheckMinute(t)
  BY <1>4, <1>5, <1>7 DEF CheckMinute, Pass
<1>8. CASE CheckAddress(t)
  BY <1>0, <1>4, <1>5, <1>8 DEF CheckAddress, Pass
<1>9. CASE Succeed(t)
  BY <1>4, <1>9 DEF Succeed
<1> QED
  BY <1>2, <1>3, <1>6, <1>7, <1>8, <1>9

LEMMA FailureRecorded == ASSUME LoginIInv, NEW t \in Typists, RecordFailure(t) PROVE LoginIInv'
<1> DEFINE f == [id |-> failed + 1, who |-> typist[t].who, recent |-> TRUE]
           Typing == [pc : {"away", "pair", "minute", "address", "compare"}, who : Pairs]
<1>0. PerUser \in Nat /\ PerIP \in Nat /\ LockoutFailures \in Nat /\ MaxFailures \in Nat
  BY LoginCapsAssumption
<1>1. typist \in [Typists -> Typing] /\ failed \in 0..MaxFailures /\ attempts \subseteq Failures /\ IsFiniteSet(attempts)
  BY DEF LoginIInv, LoginTypeOK
<1>2. Away \in Typing /\ Away.pc = "away"
  <2>1. PICK a \in Addresses : TRUE
    BY TypistsAssumption
  <2>2. <<SetupName, a>> \in Pairs /\ <<SetupName, a>>[1] = SetupName
    BY <2>1 DEF Pairs
  <2>3. \E p \in Pairs : p[1] = SetupName
    BY <2>2
  <2> QED
    BY <2>3 DEF Away
<1>3. /\ f \in Failures /\ f.who = typist[t].who /\ f.recent = TRUE
      /\ attempts' = attempts \cup {f} /\ failed' \in 0..MaxFailures /\ typist[t].pc = "compare"
      /\ typist' = [typist EXCEPT ![t] = Away]
  BY <1>0, <1>1 DEF RecordFailure, Failures
<1> HIDE DEF f
<1>4. LoginTypeOK' /\ IsFiniteSet(attempts') /\ \A s \in Typists : typist'[s] = IF s = t THEN Away ELSE typist[s]
  BY <1>1, <1>2, <1>3, FS_AddElement DEF LoginTypeOK
<1>5. ASSUME PerUser > 0, NEW n \in Names
      PROVE  Fits(OfName(n), TriesFor(n), PerUser)'
  <2>0. Fits(OfName(n), TriesFor(n), PerUser)
    BY <1>5 DEF LoginIInv
  <2>1. CASE typist[t].who[1] = n
    <3>1. t \in TriesFor(n) /\ TriesFor(n)' = TriesFor(n) \ {t} /\ OfName(n)' = OfName(n) \cup {f}
      BY <1>2, <1>3, <1>4, <2>1 DEF TriesFor, OfName
    <3>2. Fits(OfName(n) \cup {f}, TriesFor(n) \ {t}, PerUser)
      BY <1>0, <2>0, <3>1, LoginParts, FitsAfterFailure
    <3> QED
      BY <3>1, <3>2 DEF Fits, Slack
  <2>2. CASE typist[t].who[1] # n
    <3>1. TriesFor(n)' = TriesFor(n) /\ OfName(n)' = OfName(n)
      BY <1>2, <1>3, <1>4, <2>2 DEF TriesFor, OfName
    <3> QED
      BY <2>0, <3>1 DEF Fits, Slack
  <2> QED
    BY <2>1, <2>2
<1>6. ASSUME PerIP > 0, NEW a \in Addresses
      PROVE  Fits(OfAddress(a), TriesFrom(a), PerIP)'
  <2>0. Fits(OfAddress(a), TriesFrom(a), PerIP)
    BY <1>6 DEF LoginIInv
  <2>1. CASE typist[t].who[2] = a
    <3>1. t \in TriesFrom(a) /\ TriesFrom(a)' = TriesFrom(a) \ {t} /\ OfAddress(a)' = OfAddress(a) \cup {f}
      BY <1>2, <1>3, <1>4, <2>1 DEF TriesFrom, OfAddress
    <3>2. Fits(OfAddress(a) \cup {f}, TriesFrom(a) \ {t}, PerIP)
      BY <1>0, <2>0, <3>1, LoginParts, FitsAfterFailure
    <3> QED
      BY <3>1, <3>2 DEF Fits, Slack
  <2>2. CASE typist[t].who[2] # a
    <3>1. TriesFrom(a)' = TriesFrom(a) /\ OfAddress(a)' = OfAddress(a)
      BY <1>2, <1>3, <1>4, <2>2 DEF TriesFrom, OfAddress
    <3> QED
      BY <2>0, <3>1 DEF Fits, Slack
  <2> QED
    BY <2>1, <2>2
<1>7. ASSUME LockoutFailures > 0, NEW p \in Pairs, p[1] # SetupName
      PROVE  Fits(OfPair(p), TriesOf(p), LockoutFailures)'
  <2>0. Fits(OfPair(p), TriesOf(p), LockoutFailures)
    BY <1>7 DEF LoginIInv
  <2>1. CASE typist[t].who = p
    <3>1. t \in TriesOf(p) /\ TriesOf(p)' = TriesOf(p) \ {t} /\ OfPair(p)' = OfPair(p) \cup {f}
      BY <1>2, <1>3, <1>4, <2>1 DEF TriesOf, OfPair
    <3>2. Fits(OfPair(p) \cup {f}, TriesOf(p) \ {t}, LockoutFailures)
      BY <1>0, <2>0, <3>1, LoginParts, FitsAfterFailure
    <3> QED
      BY <3>1, <3>2 DEF Fits, Slack
  <2>2. CASE typist[t].who # p
    <3>1. TriesOf(p)' = TriesOf(p) /\ OfPair(p)' = OfPair(p)
      BY <1>2, <1>3, <1>4, <2>2 DEF TriesOf, OfPair
    <3> QED
      BY <2>0, <3>1 DEF Fits, Slack
  <2> QED
    BY <2>1, <2>2
<1>8. \A s \in Typists : typist'[s].pc = "address" => typist'[s].who[1] = SetupName
  BY <1>2, <1>4 DEF LoginIInv
<1> QED
  BY <1>4, <1>5, <1>6, <1>7, <1>8 DEF LoginIInv

\* Replacing one row leaves no more of them.
LEMMA ReplacedRow ==
    ASSUME NEW S, IsFiniteSet(S), NEW f \in S, NEW g
    PROVE  LET T == (S \ {f}) \cup {g} IN Cardinality(T) \in Nat /\ Cardinality(T) <= Cardinality(S)
<1>1. IsFiniteSet(S \ {f}) /\ Cardinality(S \ {f}) = Cardinality(S) - 1 /\ Cardinality(S) \in Nat
  BY FS_RemoveElement, FS_CardinalityType
<1>2. Cardinality((S \ {f}) \cup {g}) \in {Cardinality(S \ {f}), Cardinality(S \ {f}) + 1}
  BY <1>1, FS_AddElement
<1>3. IsFiniteSet((S \ {f}) \cup {g})
  BY <1>1, FS_AddElement
<1> QED
  BY <1>1, <1>2, <1>3, FS_CardinalityType

\* Rows that leave the minute or the window only make room.
LEMMA RowsLeave == ASSUME LoginIInv, NEW f \in attempts, Age(f) \/ Expire(f) PROVE LoginIInv'
<1> DEFINE g == [f EXCEPT !.recent = FALSE]
<1>0. PerUser \in Nat /\ PerIP \in Nat /\ LockoutFailures \in Nat /\ f \in Failures /\ IsFiniteSet(attempts)
      /\ attempts \subseteq Failures
  BY LoginCapsAssumption DEF LoginIInv, LoginTypeOK
<1>1. g \in Failures /\ g.who = f.who /\ g.recent = FALSE
  BY <1>0 DEF Failures
<1>2. /\ UNCHANGED <<typist, failed>>
      /\ attempts' = (attempts \ {f}) \cup {g} \/ attempts' = attempts \ {f}
  BY DEF Age, Expire
<1> HIDE DEF g
<1>3. LoginTypeOK' /\ IsFiniteSet(attempts')
  <2>1. IsFiniteSet(attempts \ {f})
    BY <1>0, FS_RemoveElement
  <2>2. IsFiniteSet((attempts \ {f}) \cup {g})
    BY <2>1, FS_AddElement
  <2> QED
    BY <1>0, <1>1, <1>2, <2>1, <2>2 DEF LoginIInv, LoginTypeOK
<1>4. \A x : /\ TriesFor(x)' = TriesFor(x) /\ TriesFrom(x)' = TriesFrom(x) /\ TriesOf(x)' = TriesOf(x)
             /\ OfName(x)' \in SUBSET OfName(x) /\ OfAddress(x)' \in SUBSET OfAddress(x)
             /\ OfPair(x)' \in SUBSET OfPair(x) \/ (f \in OfPair(x) /\ OfPair(x)' = (OfPair(x) \ {f}) \cup {g})
  <2>1. \A x : TriesFor(x)' = TriesFor(x) /\ TriesFrom(x)' = TriesFrom(x) /\ TriesOf(x)' = TriesOf(x)
    BY <1>2 DEF TriesFor, TriesFrom, TriesOf
  <2>2. \A x : OfName(x)' \in SUBSET OfName(x) /\ OfAddress(x)' \in SUBSET OfAddress(x)
    BY <1>1, <1>2 DEF OfName, OfAddress
  <2>3. ASSUME NEW x
        PROVE  OfPair(x)' \in SUBSET OfPair(x) \/ (f \in OfPair(x) /\ OfPair(x)' = (OfPair(x) \ {f}) \cup {g})
    <3>1. CASE f.who = x
      BY <1>1, <1>2, <3>1 DEF OfPair
    <3>2. CASE f.who # x
      BY <1>1, <1>2, <3>2 DEF OfPair
    <3> QED
      BY <3>1, <3>2
  <2> QED
    BY <2>1, <2>2, <2>3
<1>5. \A x : /\ Cardinality(OfName(x)') \in Nat /\ Cardinality(OfName(x)') <= Cardinality(OfName(x))
             /\ Cardinality(OfAddress(x)') \in Nat /\ Cardinality(OfAddress(x)') <= Cardinality(OfAddress(x))
             /\ Cardinality(OfPair(x)') \in Nat /\ Cardinality(OfPair(x)') <= Cardinality(OfPair(x))
  BY <1>4, LoginParts, FinitePart, ReplacedRow
<1>6. ASSUME PerUser > 0, NEW n \in Names
      PROVE  Fits(OfName(n), TriesFor(n), PerUser)'
  <2>1. Fits(OfName(n), TriesFor(n), PerUser)
    BY <1>6 DEF LoginIInv
  <2>2. TriesFor(n) \in SUBSET TriesFor(n) /\ TriesFor(n) \in SUBSET Typists /\ IsFiniteSet(OfName(n))
    BY LoginParts
  <2>3. Fits(OfName(n)', TriesFor(n), PerUser)
    BY <1>0, <1>5, <2>1, <2>2, FitsWithFewer
  <2> QED
    BY <1>4, <2>3 DEF Fits, Slack
<1>7. ASSUME PerIP > 0, NEW a \in Addresses
      PROVE  Fits(OfAddress(a), TriesFrom(a), PerIP)'
  <2>1. Fits(OfAddress(a), TriesFrom(a), PerIP)
    BY <1>7 DEF LoginIInv
  <2>2. TriesFrom(a) \in SUBSET TriesFrom(a) /\ TriesFrom(a) \in SUBSET Typists /\ IsFiniteSet(OfAddress(a))
    BY LoginParts
  <2>3. Fits(OfAddress(a)', TriesFrom(a), PerIP)
    BY <1>0, <1>5, <2>1, <2>2, FitsWithFewer
  <2> QED
    BY <1>4, <2>3 DEF Fits, Slack
<1>8. ASSUME LockoutFailures > 0, NEW p \in Pairs, p[1] # SetupName
      PROVE  Fits(OfPair(p), TriesOf(p), LockoutFailures)'
  <2>1. Fits(OfPair(p), TriesOf(p), LockoutFailures)
    BY <1>8 DEF LoginIInv
  <2>2. TriesOf(p) \in SUBSET TriesOf(p) /\ TriesOf(p) \in SUBSET Typists /\ IsFiniteSet(OfPair(p))
    BY LoginParts
  <2>3. Fits(OfPair(p)', TriesOf(p), LockoutFailures)
    BY <1>0, <1>5, <2>1, <2>2, FitsWithFewer
  <2> QED
    BY <1>4, <2>3 DEF Fits, Slack
<1> QED
  BY <1>2, <1>3, <1>6, <1>7, <1>8 DEF LoginIInv

LEMMA LoginSteps == ASSUME LoginIInv, [LoginNext]_llVars PROVE LoginIInv'
<1>1. CASE UNCHANGED llVars
  BY <1>1 DEF llVars, LoginIInv, LoginTypeOK, Fits, Slack, OfName, OfAddress, OfPair, TriesFor, TriesFrom, TriesOf
<1> QED
  BY <1>1, TypistsMove, FailureRecorded, RowsLeave DEF LoginNext

LEMMA FitsIsWithin ==
    ASSUME NEW counted, IsFiniteSet(counted), NEW tries \in SUBSET Typists, NEW cap \in Nat, Fits(counted, tries, cap)
    PROVE  Cardinality(counted) <= Slack(cap)
<1>1. Cardinality(counted) \in Nat /\ Cardinality(tries) \in Nat
  BY FinitePart, FS_CardinalityType, TypistsAssumption
<1> QED
  BY <1>1, TypistCount DEF Fits, Slack

\* The caps of sign-in hold up to the attempts in progress, for any number of
\* requests over all replicas, names and addresses: a request that has passed a
\* check was within the cap when it passed (Check, CheckAddress, Record).
THEOREM LoginCapsAlwaysHold == LoginSpec => []LoginInv
<1>1. LoginInit => LoginIInv
  BY LoginStarts
<1>2. LoginIInv /\ [LoginNext]_llVars => LoginIInv'
  BY LoginSteps
<1>3. ASSUME LoginIInv PROVE LoginInv
  <2>1. PerUser \in Nat /\ PerIP \in Nat /\ LockoutFailures \in Nat
    BY LoginCapsAssumption
  <2>2. ASSUME PerUser > 0, NEW n \in Names PROVE FailuresOf(n) <= Slack(PerUser)
    <3>1. Fits(OfName(n), TriesFor(n), PerUser) /\ FailuresOf(n) = Cardinality(OfName(n))
      BY <1>3, <2>2 DEF LoginIInv, FailuresOf, OfName
    <3> QED
      BY <1>3, <2>1, <3>1, LoginParts, FitsIsWithin
  <2>3. ASSUME PerIP > 0, NEW a \in Addresses PROVE FailuresFrom(a) <= Slack(PerIP)
    <3>1. Fits(OfAddress(a), TriesFrom(a), PerIP) /\ FailuresFrom(a) = Cardinality(OfAddress(a))
      BY <1>3, <2>3 DEF LoginIInv, FailuresFrom, OfAddress
    <3> QED
      BY <1>3, <2>1, <3>1, LoginParts, FitsIsWithin
  <2>4. ASSUME LockoutFailures > 0, NEW p \in Pairs, p[1] # SetupName PROVE FailuresInWindow(p) <= Slack(LockoutFailures)
    <3>1. Fits(OfPair(p), TriesOf(p), LockoutFailures) /\ FailuresInWindow(p) = Cardinality(OfPair(p))
      BY <1>3, <2>4 DEF LoginIInv, FailuresInWindow, OfPair
    <3> QED
      BY <1>3, <2>1, <3>1, LoginParts, FitsIsWithin
  <2> QED
    BY <1>3, <2>2, <2>3, <2>4 DEF LoginIInv, LoginInv, AttemptsWithinCaps
<1> QED
  BY <1>1, <1>2, <1>3, PTL DEF LoginSpec
=============================================================================
