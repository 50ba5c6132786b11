------------------------------- MODULE Accounts -------------------------------
(***************************************************************************)
(* Accounts of the dashboard, their sessions and api keys, as the admin    *)
(* handlers, the login, the first-run setup, the reset-password command    *)
(* and the retention job change them.  Every SQL statement is a step of    *)
(* its own unless a transaction holds it together; requests of all         *)
(* replicas (Web) interleave between their statements, and a request may   *)
(* stop after any of them: the statement failed, the client left and took  *)
(* the request's context with it, or the process died.                     *)
(*                                                                         *)
(* A password is its version: an account's hash is replaced by a newer     *)
(* one and never comes back.  Attempt counters are the LoginLimiter        *)
(* module's, so every login here types the password the account has.       *)
(***************************************************************************)
EXTENDS Naturals, FiniteSets

CONSTANTS
    Users,       \* account names
    Web,         \* requests in progress at the same time, over all replicas
    SessionIds,  \* session tokens, never used twice
    KeyIds,      \* api keys
    RolesUsed,   \* the roles of the instance
    MaxPw,       \* bound on the passwords an account has had
    MaxOff,      \* bound on the deactivations of an account
    MaxWeb       \* bound on the requests

ASSUME RolesAssumption == RolesUsed \subseteq {"viewer", "editor", "admin"} /\ "admin" \in RolesUsed
ASSUME UsersAssumption == Users # {} /\ IsFiniteSet(Users)
ASSUME IdsAssumption == SessionIds \subseteq Nat \ {0} /\ KeyIds \subseteq Nat \ {0}
ASSUME WebBoundsAssumption == MaxPw \in Nat /\ MaxOff \in Nat /\ MaxWeb \in Nat

VARIABLES
    users,      \* rows of users
    sessions,   \* rows of sessions
    apikeys,    \* rows of api_keys
    logged,     \* the request log row of every key: none, named, erased
    adminLock,  \* the request that holds the advisory lock, or none of them
    web,        \* the requests
    served,     \* requests started
    founded,    \* history: accounts made by setup or ADMIN_PASSWORD
    excused     \* history: revocations declined by the operator or failed

acVars == <<users, sessions, apikeys, logged, adminLock, web, served, founded, excused>>
acRest == <<sessions, apikeys, logged, founded, excused>>
-----------------------------------------------------------------------------
Nobody == "nobody"
ASSUME NobodyAssumption == Nobody \notin Users \cup Web
Rank == [viewer |-> 1, editor |-> 2, admin |-> 3]
AtLeast(role, min) == Rank[role] >= Rank[min]

Rows == [here : BOOLEAN, role : RolesUsed, active : BOOLEAN, pw : 0..MaxPw, off : 0..MaxOff]
SessionRows == [st : {"unused", "live", "gone"}, user : Users \cup {Nobody}, pw : 0..MaxPw,
                off : 0..MaxOff, raced : BOOLEAN]
KeyRows == [st : {"unused", "live", "revoked", "gone"}, kind : {"gateway", "management"},
            user : Users \cup {Nobody}, pw : 0..MaxPw, reach : RolesUsed, raced : BOOLEAN]
Steps == {"idle", "begin", "apply", "commit", "insert", "check", "session", "password", "drop", "revoke",
          "mint", "edit", "log"}
Requests == [op : {"none", "setup", "boot", "login", "own", "reset", "cli", "update", "delete", "mint", "edit", "call"},
             pc : Steps, by : Users \cup {Nobody}, to : Users \cup {Nobody}, token : SessionIds \cup {0},
             role : RolesUsed, active : BOOLEAN, pw : 0..MaxPw, off : 0..MaxOff,
             key : KeyIds \cup {0}, kind : {"gateway", "management"}, st : {"unused", "live", "revoked"},
             was : BOOLEAN, keep : SUBSET {"sessions", "keys"}]

AccountsTypeOK ==
    /\ users \in [Users -> Rows]
    /\ sessions \in [SessionIds -> SessionRows]
    /\ apikeys \in [KeyIds -> KeyRows]
    /\ logged \in [KeyIds -> {"none", "named", "erased"}]
    /\ adminLock \in Web \cup {Nobody}
    /\ web \in [Web -> Requests]
    /\ served \in 0..MaxWeb
    /\ founded \in Nat
    /\ excused \in [Users -> SUBSET {"sessions", "keys"}]

Absent == [here |-> FALSE, role |-> "admin", active |-> FALSE, pw |-> 0, off |-> 0]
NoSession == [st |-> "unused", user |-> Nobody, pw |-> 0, off |-> 0, raced |-> FALSE]
NoKey == [st |-> "unused", kind |-> "gateway", user |-> Nobody, pw |-> 0, reach |-> "admin", raced |-> FALSE]
NoRequest == [op |-> "none", pc |-> "idle", by |-> Nobody, to |-> Nobody, token |-> 0, role |-> "admin",
              active |-> TRUE, pw |-> 0, off |-> 0, key |-> 0, kind |-> "gateway", st |-> "unused",
              was |-> FALSE, keep |-> {}]

\* A new database, or one in use: every account signed in once, the first an
\* admin, and one key issued by the first account to itself.
Holder == CHOOSE h \in [1..Cardinality(Users) -> Users] : \A u \in Users : \E i \in DOMAIN h : h[i] = u

AccountsInit ==
    /\ adminLock = Nobody
    /\ web = [w \in Web |-> NoRequest]
    /\ served = 0
    /\ founded = 0
    /\ logged = [k \in KeyIds |-> "none"]
    /\ excused = [u \in Users |-> {}]
    /\ \/ /\ users = [u \in Users |-> Absent]
          /\ sessions = [s \in SessionIds |-> NoSession]
          /\ apikeys = [k \in KeyIds |-> NoKey]
       \/ \E roles \in [Users -> RolesUsed], kind \in {"gateway", "management"} :
            /\ roles[Holder[1]] = "admin"
            /\ users = [u \in Users |-> [Absent EXCEPT !.here = TRUE, !.active = TRUE, !.role = roles[u]]]
            /\ sessions = [s \in SessionIds |->
                 IF s \in DOMAIN Holder THEN [NoSession EXCEPT !.st = "live", !.user = Holder[s]] ELSE NoSession]
            /\ apikeys = [k \in KeyIds |->
                 IF k = 1 THEN [NoKey EXCEPT !.st = "live", !.kind = kind, !.user = Holder[1]] ELSE NoKey]
-----------------------------------------------------------------------------
IsActiveAdmin(row) == row.here /\ row.active /\ row.role = "admin"
ActiveAdmins(table) == {u \in Users : IsActiveAdmin(table[u])}

\* One statement resolves a session together with its account's active flag.
UserBySession(s) ==
    IF sessions[s].st = "live" /\ users[sessions[s].user].active THEN sessions[s].user ELSE Nobody

\* ... and a key, whose reach is its scopes.
ResolveManagementKey(k) ==
    IF apikeys[k].st = "live" /\ apikeys[k].kind = "management" /\ users[apikeys[k].user].active
    THEN apikeys[k].user ELSE Nobody
ResolveGatewayKey(k) ==
    IF apikeys[k].st = "live" /\ apikeys[k].kind = "gateway" /\ users[apikeys[k].user].active
    THEN apikeys[k].user ELSE Nobody

\* A principal is an account and the session token it came with, 0 for a key.
\* A key never acts above its scopes, nor above the role its owner has now.
Principals(min) ==
    {<<UserBySession(s), s>> : s \in {s \in SessionIds : UserBySession(s) # Nobody
                                        /\ AtLeast(users[sessions[s].user].role, min)}}
    \cup {<<ResolveManagementKey(k), 0>> : k \in {k \in KeyIds : ResolveManagementKey(k) # Nobody
                                        /\ AtLeast(users[apikeys[k].user].role, min) /\ AtLeast(apikeys[k].reach, min)}}

Start(w, r) ==
    /\ web[w].pc = "idle" /\ served < MaxWeb
    /\ served' = served + 1
    /\ web' = [web EXCEPT ![w] = r]
Go(w, pc) == web' = [web EXCEPT ![w].pc = pc] /\ UNCHANGED served
End(w) == web' = [web EXCEPT ![w] = NoRequest] /\ UNCHANGED served
Unlock(w) == adminLock' = IF adminLock = w THEN Nobody ELSE adminLock
-----------------------------------------------------------------------------
(* First account.                                                          *)

\* A cheap count first; the transaction repeats it.  The first account comes
\* from the setup request or from the environment of a replica that starts.
FirstAccount(w, u, op) ==
    /\ \A v \in Users : ~users[v].here
    /\ Start(w, [NoRequest EXCEPT !.op = op, !.pc = "begin", !.to = u])
    /\ UNCHANGED <<users, adminLock, acRest>>
StartSetup(w, u) == FirstAccount(w, u, "setup")
BootstrapAdmin(w, u) == FirstAccount(w, u, "boot")

\* Mutant of CreateFirstUserCount: the advisory lock is not taken.
CreateFirstUserCount_NoLock(w) ==
    /\ web[w].op \in {"setup", "boot"} /\ web[w].pc = "begin"
    /\ IF \E v \in Users : users[v].here THEN End(w) ELSE Go(w, "insert")
    /\ UNCHANGED <<users, adminLock, acRest>>

CreateFirstUserCount(w) ==
    /\ web[w].op \in {"setup", "boot"} /\ web[w].pc = "begin" /\ adminLock = Nobody
    /\ IF \E v \in Users : users[v].here
       THEN End(w) /\ UNCHANGED adminLock
       ELSE Go(w, "insert") /\ adminLock' = w
    /\ UNCHANGED <<users, acRest>>

\* The insert and the commit; a taken name is a unique violation.
CreateFirstUserInsert(w) ==
    /\ web[w].pc = "insert"
    /\ LET u == web[w].to IN
       IF users[u].here
       THEN End(w) /\ UNCHANGED <<users, founded>>
       ELSE /\ users' = [users EXCEPT ![u] = [@ EXCEPT !.here = TRUE, !.role = "admin", !.active = TRUE]]
            /\ founded' = founded + 1
            /\ IF web[w].op = "boot" THEN End(w)
               ELSE web' = [web EXCEPT ![w].pc = "session", ![w].pw = users[u].pw, ![w].off = users[u].off]
                    /\ UNCHANGED served
    /\ Unlock(w)
    /\ UNCHANGED <<sessions, apikeys, logged, excused>>
-----------------------------------------------------------------------------
(* Sessions.                                                               *)

\* The account is read, then bcrypt runs, then the session is inserted.
LoginRead(w, u) ==
    /\ users[u].here /\ users[u].active
    /\ Start(w, [NoRequest EXCEPT !.op = "login", !.pc = "session", !.to = u, !.pw = users[u].pw, !.off = users[u].off])
    /\ UNCHANGED <<users, adminLock, acRest>>

NewSession(w) ==
    /\ web[w].pc = "session"
    /\ LET u == web[w].to IN
       \/ ~users[u].here /\ UNCHANGED sessions
       \/ /\ users[u].here
          /\ \E s \in SessionIds :
               /\ sessions[s].st = "unused" /\ \A t \in SessionIds : t < s => sessions[t].st # "unused"
               /\ sessions' = [sessions EXCEPT ![s] =
                    [st |-> "live", user |-> u, pw |-> web[w].pw, off |-> web[w].off,
                     raced |-> web[w].pw # users[u].pw \/ web[w].off # users[u].off]]
    /\ End(w)
    /\ UNCHANGED <<users, apikeys, logged, adminLock, founded, excused>>

Ended(S) == [s \in SessionIds |-> IF s \in S THEN [sessions[s] EXCEPT !.st = "gone"] ELSE sessions[s]]
SessionsOf(u) == {s \in SessionIds : sessions[s].st = "live" /\ sessions[s].user = u}

\* A logout, or the expiry of the session: an expired row resolves no more
\* than a deleted one, and the retention job removes it later.
Logout(s) ==
    /\ sessions[s].st = "live"
    /\ sessions' = Ended({s})
    /\ UNCHANGED <<users, apikeys, logged, adminLock, web, served, founded, excused>>

RevokeSessions(u) ==
    /\ Principals("admin") # {} /\ SessionsOf(u) # {}
    /\ sessions' = Ended(SessionsOf(u))
    /\ UNCHANGED <<users, apikeys, logged, adminLock, web, served, founded, excused>>
-----------------------------------------------------------------------------
(* Passwords: the update, the sessions and the keys are three statements.  *)

\* The middleware read the hash the current password is checked against.
StartChangePassword(w) ==
    /\ \E p \in Principals("viewer") :
         /\ p[2] # 0
         /\ Start(w, [NoRequest EXCEPT !.op = "own", !.pc = "password", !.by = p[1], !.to = p[1], !.token = p[2]])
    /\ UNCHANGED <<users, adminLock, acRest>>

StartResetPassword(w, u) ==
    /\ users[u].here
    /\ \E p \in Principals("admin") :
         p[2] # 0 /\ Start(w, [NoRequest EXCEPT !.op = "reset", !.pc = "password", !.by = p[1], !.to = u])
    /\ UNCHANGED <<users, adminLock, acRest>>

\* The command on the host: --no-revoke and --revoke-keys choose what goes.
StartResetCommand(w, u) ==
    /\ users[u].here
    /\ \E keep \in SUBSET {"sessions", "keys"} :
         Start(w, [NoRequest EXCEPT !.op = "cli", !.pc = "password", !.to = u, !.keep = keep])
    /\ UNCHANGED <<users, adminLock, acRest>>

\* A deletion in progress holds the row: the update waits for its end.
BeingDeleted(u) == \E v \in Web : web[v].op = "delete" /\ web[v].pc = "commit" /\ web[v].to = u

UpdateUserPassword(w) ==
    /\ web[w].pc = "password"
    /\ LET u == web[w].to IN
       /\ ~BeingDeleted(u)
       /\ users[u].pw < MaxPw
       /\ users' = IF users[u].here THEN [users EXCEPT ![u].pw = @ + 1] ELSE users
       /\ IF "sessions" \in web[w].keep
          THEN Go(w, "revoke") /\ excused' = [excused EXCEPT ![u] = @ \cup {"sessions"}]
          ELSE Go(w, "drop") /\ UNCHANGED excused
    /\ UNCHANGED <<sessions, apikeys, logged, adminLock, founded>>

\* Mutant of DroppedSessions: the comparison with the own token is inverted.
DroppedSessions_Inverted(w) == {s \in SessionsOf(web[w].to) : web[w].op = "own" => s = web[w].token}

\* A change of one's own password keeps the session it came with.
DroppedSessions(w) == {s \in SessionsOf(web[w].to) : web[w].op = "own" => s # web[w].token}

\* A kept session counts as one of the new password.
DeleteUserSessions(w) ==
    /\ web[w].pc = "drop"
    /\ LET u == web[w].to
           left == Ended(DroppedSessions(w)) IN
       /\ sessions' = IF web[w].op = "own" /\ left[web[w].token].st = "live"
                      THEN [left EXCEPT ![web[w].token].pw = users[u].pw] ELSE left
       /\ excused' = IF web[w].op = "own" THEN excused ELSE [excused EXCEPT ![u] = @ \ {"sessions"}]
       /\ IF web[w].op = "update" THEN End(w) ELSE Go(w, "revoke")
    /\ UNCHANGED <<users, apikeys, logged, adminLock, founded>>

\* The dashboard takes the management keys; the command takes all or none.
RevokedKinds(op) == IF op = "cli" THEN {"gateway", "management"} ELSE {"management"}

RevokeUserKeys(w) ==
    /\ web[w].pc = "revoke"
    /\ LET u == web[w].to
           kept == "keys" \in web[w].keep IN
       /\ apikeys' = [k \in KeyIds |->
            IF ~kept /\ apikeys[k].user = u /\ apikeys[k].st = "live" /\ apikeys[k].kind \in RevokedKinds(web[w].op)
            THEN [apikeys[k] EXCEPT !.st = "revoked"] ELSE apikeys[k]]
       /\ excused' = [excused EXCEPT ![u] = IF kept THEN @ \cup {"keys"} ELSE @ \ {"keys"}]
    /\ End(w)
    /\ UNCHANGED <<users, sessions, logged, adminLock, founded>>
-----------------------------------------------------------------------------
(* Roles, activation, deletion.                                            *)

CreateUser(u, role) ==
    /\ Principals("admin") # {} /\ ~users[u].here
    /\ users' = [users EXCEPT ![u] = [@ EXCEPT !.here = TRUE, !.role = role, !.active = TRUE]]
    /\ UNCHANGED <<adminLock, web, served, acRest>>

\* The body names a role, an active flag or both; what it leaves out is read
\* from the target, and nobody deactivates their own account.
StartUpdateUser(w, u) ==
    /\ users[u].here
    /\ \E p \in Principals("admin"), role \in RolesUsed, active \in BOOLEAN :
         /\ (active \/ p[1] # u)
         /\ (active \/ users[u].off < MaxOff)
         /\ role = users[u].role \/ active = users[u].active \/ RolesUsed = {"admin"}
         /\ Start(w, [NoRequest EXCEPT !.op = "update", !.pc = "check", !.by = p[1], !.to = u, !.role = role,
                                       !.active = active, !.was = IsActiveAdmin(users[u]) /\ (role # "admin" \/ ~active)])
    /\ UNCHANGED <<users, adminLock, acRest>>

StartDeleteUser(w, u) ==
    /\ users[u].here
    /\ \E p \in Principals("admin") :
         p[1] # u /\ Start(w, [NoRequest EXCEPT !.op = "delete", !.pc = "check", !.by = p[1], !.to = u,
                                                !.was = IsActiveAdmin(users[u])])
    /\ UNCHANGED <<users, adminLock, acRest>>

\* The friendly refusal before the transaction.
NotLastAdmin(w) ==
    /\ web[w].pc = "check"
    /\ IF web[w].was /\ Cardinality(ActiveAdmins(users)) <= 1 THEN End(w) ELSE Go(w, "begin")
    /\ UNCHANGED <<users, adminLock, acRest>>

AttributedKeys(u) == {k \in KeyIds : apikeys[k].user = u /\ apikeys[k].st \in {"live", "revoked"} /\ logged[k] = "named"}

\* Mutant of AdminTxBegin: the advisory lock is not taken.
AdminTxBegin_NoLock(w) ==
    /\ web[w].op \in {"update", "delete"} /\ web[w].pc = "begin"
    /\ IF ~users[web[w].to].here \/ (web[w].op = "delete" /\ AttributedKeys(web[w].to) # {})
       THEN End(w)
       ELSE /\ web' = [web EXCEPT ![w].pc = "apply", ![w].was = IsActiveAdmin(users[web[w].to])]
            /\ UNCHANGED served
    /\ UNCHANGED <<users, adminLock, acRest>>

\* The lock, the target's row and, for a deletion, the log rows of its keys.
AdminTxBegin(w) ==
    /\ web[w].op \in {"update", "delete"} /\ web[w].pc = "begin" /\ adminLock = Nobody
    /\ IF ~users[web[w].to].here \/ (web[w].op = "delete" /\ AttributedKeys(web[w].to) # {})
       THEN End(w) /\ UNCHANGED adminLock
       ELSE /\ web' = [web EXCEPT ![w].pc = "apply", ![w].was = IsActiveAdmin(users[web[w].to])]
            /\ adminLock' = w
            /\ UNCHANGED served
    /\ UNCHANGED <<users, acRest>>

Applied(w) ==
    LET u == web[w].to
        row == users[u] IN
    [users EXCEPT ![u] =
        IF web[w].op = "delete" THEN [row EXCEPT !.here = FALSE, !.active = FALSE]
        ELSE [row EXCEPT !.role = web[w].role, !.active = web[w].active,
                         !.off = IF @ < MaxOff /\ ~web[w].active THEN @ + 1 ELSE @]]

\* The change and the count of the admins it leaves: the transaction sees
\* its own change and what the others have committed.
AdminTxApply(w) ==
    /\ web[w].pc = "apply" /\ web[w].op \in {"update", "delete"}
    /\ IF web[w].was /\ ActiveAdmins(Applied(w)) = {}
       THEN End(w) /\ Unlock(w)
       ELSE Go(w, "commit") /\ UNCHANGED adminLock
    /\ UNCHANGED <<users, acRest>>

\* A deletion takes the sessions and keys along, and the foreign key clears
\* the log rows that name one of the keys.
AdminTxCommit(w) ==
    /\ web[w].pc = "commit"
    /\ users' = Applied(w)
    /\ IF web[w].op = "delete"
       THEN /\ sessions' = Ended(SessionsOf(web[w].to))
            /\ apikeys' = [k \in KeyIds |-> IF apikeys[k].user = web[w].to THEN [apikeys[k] EXCEPT !.st = "gone"]
                                            ELSE apikeys[k]]
            /\ logged' = [k \in KeyIds |-> IF k \in AttributedKeys(web[w].to) THEN "erased" ELSE logged[k]]
            /\ End(w)
       ELSE /\ UNCHANGED <<sessions, apikeys, logged>>
            /\ IF web[w].active THEN End(w) ELSE Go(w, "drop")
    /\ Unlock(w)
    /\ UNCHANGED <<founded, excused>>
-----------------------------------------------------------------------------
(* Keys.                                                                   *)

\* A management key needs a session and the editor role; a key for someone
\* else needs the admin role.  Its scopes are those of the issuer's role.
StartCreateKey(w, u, kind) ==
    /\ users[u].here
    /\ \E p \in Principals("viewer") :
         /\ p[1] = u \/ users[p[1]].role = "admin"
         /\ kind = "management" => p[2] # 0 /\ AtLeast(users[p[1]].role, "editor")
         /\ Start(w, [NoRequest EXCEPT !.op = "mint", !.pc = "mint", !.by = p[1], !.to = u, !.kind = kind,
                                       !.role = users[p[1]].role, !.pw = users[u].pw])
    /\ UNCHANGED <<users, adminLock, acRest>>

CreateAPIKey(w) ==
    /\ web[w].pc = "mint"
    /\ LET u == web[w].to IN
       \/ ~users[u].here /\ UNCHANGED apikeys
       \/ /\ users[u].here
          /\ \E k \in KeyIds :
               /\ apikeys[k].st = "unused" /\ \A j \in KeyIds : j < k => apikeys[j].st # "unused"
               /\ apikeys' = [apikeys EXCEPT ![k] =
                    [st |-> "live", kind |-> web[w].kind, user |-> u, pw |-> web[w].pw, reach |-> web[w].role,
                     raced |-> web[w].pw # users[u].pw]]
    /\ End(w)
    /\ UNCHANGED <<users, sessions, logged, adminLock, founded, excused>>

StartUpdateKey(w, k) ==
    /\ apikeys[k].st \in {"live", "revoked"}
    /\ \E p \in Principals("viewer") :
         /\ p[1] = apikeys[k].user \/ users[p[1]].role = "admin"
         /\ apikeys[k].kind = "management" => p[2] # 0 /\ AtLeast(users[p[1]].role, "editor")
         /\ Start(w, [NoRequest EXCEPT !.op = "edit", !.pc = "edit", !.by = p[1], !.key = k, !.st = apikeys[k].st,
                                       !.role = users[p[1]].role])
    /\ UNCHANGED <<users, adminLock, acRest>>

\* Mutant of UpdateAPIKey: the row that was loaded is written back whole.
UpdateAPIKey_Whole(w) ==
    /\ web[w].pc = "edit"
    /\ LET k == web[w].key IN
       apikeys' = IF apikeys[k].st = "gone" THEN apikeys
                  ELSE [apikeys EXCEPT ![k].reach = web[w].role, ![k].st = web[w].st]
    /\ End(w)
    /\ UNCHANGED <<users, sessions, logged, adminLock, founded, excused>>

\* Name, scopes, grants, limits and expiry are written, never revoked_at.
UpdateAPIKey(w) ==
    /\ web[w].pc = "edit"
    /\ LET k == web[w].key IN
       apikeys' = IF apikeys[k].st = "gone" THEN apikeys ELSE [apikeys EXCEPT ![k].reach = web[w].role]
    /\ End(w)
    /\ UNCHANGED <<users, sessions, logged, adminLock, founded, excused>>

RevokeKey(k) ==
    /\ apikeys[k].st = "live" /\ Principals("viewer") # {}
    /\ \E p \in Principals("viewer") : p[1] = apikeys[k].user \/ users[p[1]].role = "admin"
    /\ apikeys' = [apikeys EXCEPT ![k].st = "revoked"]
    /\ UNCHANGED <<users, sessions, logged, adminLock, web, served, founded, excused>>

\* One statement: the row goes only while no log names it.
DeleteKey(k) ==
    /\ apikeys[k].st \in {"live", "revoked"} /\ logged[k] # "named" /\ Principals("admin") # {}
    /\ apikeys' = [apikeys EXCEPT ![k].st = "gone"]
    /\ UNCHANGED <<users, sessions, logged, adminLock, web, served, founded, excused>>

\* The retention job: retired keys, and old request logs.
PurgeKey(k) ==
    /\ apikeys[k].st = "revoked" /\ logged[k] # "named"
    /\ apikeys' = [apikeys EXCEPT ![k].st = "gone"]
    /\ UNCHANGED <<users, sessions, logged, adminLock, web, served, founded, excused>>
PurgeLog(k) ==
    /\ logged[k] # "none"
    /\ logged' = [logged EXCEPT ![k] = "none"]
    /\ UNCHANGED <<users, sessions, apikeys, adminLock, web, served, founded, excused>>

\* A call under a gateway key, and the row it leaves at its end.  An insert
\* that names a deleted key fails, and the row with it.
StartCall(w, k) ==
    /\ ResolveGatewayKey(k) # Nobody
    /\ Start(w, [NoRequest EXCEPT !.op = "call", !.pc = "log", !.key = k])
    /\ UNCHANGED <<users, adminLock, acRest>>
InsertRequestLog(w) ==
    /\ web[w].pc = "log"
    /\ LET k == web[w].key IN
       /\ ~BeingDeleted(apikeys[k].user)
       /\ logged' = IF apikeys[k].st = "gone" THEN logged ELSE [logged EXCEPT ![k] = "named"]
    /\ End(w)
    /\ UNCHANGED <<users, sessions, apikeys, adminLock, founded, excused>>
-----------------------------------------------------------------------------
\* A statement fails or the process dies: an open transaction rolls back and
\* its lock goes with it; a revocation that was due is not made.
Abort(w) ==
    /\ web[w].pc # "idle"
    /\ LET due == IF web[w].pc = "drop" THEN IF web[w].op = "update" THEN {"sessions"} ELSE {"sessions", "keys"}
                  ELSE IF web[w].pc = "revoke" THEN {"keys"} ELSE {} IN
       excused' = IF due = {} THEN excused ELSE [excused EXCEPT ![web[w].to] = @ \cup due]
    /\ End(w) /\ Unlock(w)
    /\ UNCHANGED <<users, sessions, apikeys, logged, founded>>

AccountsNext ==
    \/ \E w \in Web :
         \/ \E u \in Users :
              \/ StartSetup(w, u) \/ BootstrapAdmin(w, u) \/ LoginRead(w, u)
              \/ StartResetPassword(w, u) \/ StartResetCommand(w, u)
              \/ StartUpdateUser(w, u) \/ StartDeleteUser(w, u)
              \/ StartCreateKey(w, u, "gateway") \/ StartCreateKey(w, u, "management")
         \/ StartChangePassword(w)
         \/ CreateFirstUserCount(w) \/ CreateFirstUserInsert(w) \/ NewSession(w)
         \/ UpdateUserPassword(w) \/ DeleteUserSessions(w) \/ RevokeUserKeys(w)
         \/ NotLastAdmin(w) \/ AdminTxBegin(w) \/ AdminTxApply(w) \/ AdminTxCommit(w)
         \/ CreateAPIKey(w) \/ UpdateAPIKey(w) \/ InsertRequestLog(w) \/ Abort(w)
         \/ \E k \in KeyIds : StartUpdateKey(w, k) \/ StartCall(w, k)
    \/ \E s \in SessionIds : Logout(s)
    \/ \E u \in Users : RevokeSessions(u) \/ \E role \in RolesUsed : CreateUser(u, role)
    \/ \E k \in KeyIds : RevokeKey(k) \/ DeleteKey(k) \/ PurgeKey(k) \/ PurgeLog(k)
-----------------------------------------------------------------------------
\* Once there is an account there is an active admin, whatever demotions,
\* deactivations and deletions run at the same time (adminGuardedTx).
AdminRemains == (\E u \in Users : users[u].here) => ActiveAdmins(users) # {}

\* Every row keeps its type, and the last active admin stays (adminGuardedTx).
AccountsInv == AccountsTypeOK /\ AdminRemains

\* Setup requests, and replicas that start with ADMIN_PASSWORD, found at most
\* one account between them (CreateFirstUser).
FoundedOnce == founded <= 1

\* A session older than its account's password or deactivation comes from a
\* login that had read the account before, or the revocation that was due is
\* still under way, was declined or failed (changePassword, resetPassword).
StaleSessionsExplained ==
    \A s \in SessionIds :
        LET u == sessions[s].user IN
        sessions[s].st = "live" /\ (sessions[s].pw < users[u].pw \/ sessions[s].off < users[u].off) =>
            \/ sessions[s].raced
            \/ "sessions" \in excused[u]
            \/ \E w \in Web : web[w].pc = "drop" /\ web[w].to = u

\* The same for management keys and passwords (RevokeUserManagementKeys).
StaleKeysExplained ==
    \A k \in KeyIds :
        LET u == apikeys[k].user IN
        apikeys[k].st = "live" /\ apikeys[k].kind = "management" /\ apikeys[k].pw < users[u].pw =>
            \/ apikeys[k].raced
            \/ "keys" \in excused[u]
            \/ \E w \in Web : web[w].pc \in {"drop", "revoke"} /\ web[w].to = u

\* Every live credential of an old password or a disabled account has its
\* explanation (changePassword, resetPassword, updateUser).
StaleCredentialsExplained == StaleSessionsExplained /\ StaleKeysExplained

\* A revoked key never works again, an edit that loaded it live included, and
\* the credential of a deleted one is never given out twice (UpdateAPIKey).
RevokedStaysRevoked ==
    [][\A k \in KeyIds : /\ apikeys[k].st = "revoked" => apikeys'[k].st \in {"revoked", "gone"}
                         /\ apikeys[k].st = "gone" => apikeys'[k].st = "gone"]_acVars

\* What DeleteUser promises: an account is not deleted while a request log
\* names one of its keys, so no log loses its attribution.
AttributionKept == \A k \in KeyIds : logged[k] # "erased"

AccountsSpec == AccountsInit /\ [][AccountsNext]_acVars
===============================================================================
