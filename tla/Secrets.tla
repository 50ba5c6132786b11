------------------------------- MODULE Secrets -------------------------------
(***************************************************************************)
(* The key that seals provider credentials: the canary that every start is *)
(* checked against, the credentials an earlier release left behind, the    *)
(* connections edited while the gateway serves, and rotate-key.  A start   *)
(* may come with any key: SECRET_KEY, or the secret.key of that host.  The *)
(* operator follows rotate.go: no gateway is up while a key is rotated.    *)
(***************************************************************************)
EXTENDS Integers

CONSTANTS Procs,     \* gateway replicas and rotate-key runs
          Keys,      \* keys in circulation
          Databases  \* databases to start from: a set of [creds, canary]

VARIABLES creds,     \* connection id -> [key, version]; key "" when it has none
          canary,    \* the key of the canary in instance_settings, or NoCanary
          proc       \* process -> [pc, key, rotates]
secVars == <<creds, canary, proc>>

NoCanary == "none"
NoCred == [key |-> "absent", version |-> 1]
CredRow == {NoCred} \cup [key : Keys \cup {""}, version : {0, 1}]

\* A key is not one of the marks; a database has rows by id, and a canary or none.
ASSUME KeysAssumption == Keys \cap {"", "absent", NoCanary} = {}
ASSUME DatabasesAssumption ==
    \A d \in Databases :
        /\ DOMAIN d.creds \subseteq Nat /\ d.creds \in [DOMAIN d.creds -> CredRow]
        /\ d.canary \in Keys \cup {NoCanary}
Ids == DOMAIN creds
Present == {i \in Ids : creds[i] # NoCred}
Lowest(S) == CHOOSE i \in S : \A j \in S : i <= j
Stopped == [pc |-> "down", key |-> "", rotates |-> FALSE]

SecretsInit ==
    /\ \E d \in Databases : creds = d.creds /\ canary = d.canary
    /\ proc = [p \in Procs |-> Stopped]

\* decryptKey: a connection without a key opens with every cipher.
Opens(k, i) == creds[i].key \in {"", k}
----------------------------------------------------------------------------
Stands(p, pc) == proc[p].pc = pc
Moves(p, pc) == proc' = [proc EXCEPT ![p] = [pc |-> pc, key |-> @.key, rotates |-> @.rotates]]
Stop(p) == proc' = [proc EXCEPT ![p] = Stopped]

Up(rotates) == \E p \in Procs : proc[p].pc # "down" /\ proc[p].rotates = rotates

\* loadCipher.
Load(p, k, rotates) ==
    /\ Stands(p, "down") /\ ~Up(~rotates)
    /\ proc' = [proc EXCEPT ![p] = [pc |-> "asking", key |-> k, rotates |-> rotates]]
    /\ UNCHANGED <<creds, canary>>

\* Mutant: the canary is sealed with whatever key comes first.
MaySeal_Always(k) == TRUE

\* canaryPrecondition: the first connection in id order speaks for all.
MaySeal(k) == canary # NoCanary \/ Present = {} \/ Opens(k, Lowest(Present))

Precondition(p) ==
    /\ Stands(p, "asking")
    /\ IF MaySeal(proc[p].key) THEN Moves(p, "sealing") ELSE Stop(p)
    /\ UNCHANGED <<creds, canary>>

\* INSERT ... ON CONFLICT DO NOTHING: the first replica decides.
Seal(p) ==
    /\ Stands(p, "sealing")
    /\ canary' = IF canary = NoCanary THEN proc[p].key ELSE canary
    /\ Moves(p, "verifying")
    /\ UNCHANGED creds

Verify(p) ==
    /\ Stands(p, "verifying")
    /\ IF canary = proc[p].key THEN Moves(p, IF proc[p].rotates THEN "rotating" ELSE "upgrading") ELSE Stop(p)
    /\ UNCHANGED <<creds, canary>>

\* encrypt: no blob for an empty key.
SealWith(plain, k) == IF plain = "" THEN "" ELSE k

\* resealRows: one transaction, refused as a whole when a row does not open.
Reseal(p, S, k) ==
    /\ \A i \in S : Opens(proc[p].key, i)
    /\ creds' = [i \in Ids |-> IF i \notin S THEN creds[i]
                 ELSE [key |-> SealWith(creds[i].key, k), version |-> 1]]

\* UpgradeConnectionKeys, before anything is served.
Legacy == {i \in Present : creds[i].version = 0}

Upgrade(p) ==
    /\ Stands(p, "upgrading")
    /\ \/ Reseal(p, Legacy, proc[p].key) /\ Moves(p, "serving")
       \/ (\E i \in Legacy : ~Opens(proc[p].key, i)) /\ Stop(p) /\ UNCHANGED creds
    /\ UNCHANGED canary

\* ReencryptConnections; the canary moves in the same transaction.  The process
\* ends either way.
Rotate(p, k) ==
    /\ Stands(p, "rotating") /\ k # proc[p].key
    /\ \/ Reseal(p, Present, k) /\ canary' = k
       \/ (\E i \in Present : ~Opens(proc[p].key, i)) /\ UNCHANGED <<creds, canary>>
    /\ Stop(p)
----------------------------------------------------------------------------
\* CreateConnection: ids grow, so a new one comes after every present one.
Create(p, i, keyed) ==
    /\ Stands(p, "serving") /\ i \in Ids \ Present /\ \A j \in Present : j < i
    /\ creds' = [creds EXCEPT ![i] = [key |-> IF keyed THEN proc[p].key ELSE "", version |-> 1]]
    /\ UNCHANGED <<canary, proc>>

\* UpdateConnection: an empty key keeps the stored one and its version.
Update(p, i) ==
    /\ Stands(p, "serving") /\ i \in Present
    /\ creds' = [creds EXCEPT ![i] = [key |-> proc[p].key, version |-> 1]]
    /\ UNCHANGED <<canary, proc>>

Delete(p, i) ==
    /\ Stands(p, "serving") /\ i \in Present
    /\ creds' = [creds EXCEPT ![i] = NoCred]
    /\ UNCHANGED <<canary, proc>>

\* A stop, a crash or an error, at any point.
Exit(p) == ~Stands(p, "down") /\ Stop(p) /\ UNCHANGED <<creds, canary>>

SecretsNext == \E p \in Procs :
    \/ \E k \in Keys, rotates \in BOOLEAN : Load(p, k, rotates)
    \/ Precondition(p) \/ Seal(p) \/ Verify(p) \/ Upgrade(p)
    \/ \E k \in Keys : Rotate(p, k)
    \/ \E i \in Ids : (\E keyed \in BOOLEAN : Create(p, i, keyed)) \/ Update(p, i) \/ Delete(p, i)
    \/ Exit(p)

SecretsSpec == SecretsInit /\ [][SecretsNext]_secVars
----------------------------------------------------------------------------
Sealed == {creds[i].key : i \in Present} \ {""}

\* The key the canary stands for opens every stored credential, and so does the
\* key of every gateway that serves: starting with a wrong key, several starts
\* at once and a rotation, finished or cut off, leave no other state.
KeysAgree ==
    /\ canary # NoCanary => Sealed \subseteq {canary}
    /\ \A p \in Procs : Stands(p, "serving") => Sealed \subseteq {proc[p].key}

\* canaryPrecondition's comment: "a key that cannot is reported as the mismatch
\* it is rather than written down as the truth".
MismatchIsReported ==
    [][(canary = NoCanary /\ canary' # NoCanary) => Sealed \subseteq {canary'}]_secVars
=============================================================================
