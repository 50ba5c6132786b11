---------------------------- MODULE Secrets_proofs ----------------------------
(***************************************************************************)
(* One key opens every stored credential, for any number of processes,     *)
(* keys, connections and databases to start from.                          *)
(***************************************************************************)
EXTENDS Secrets, TLAPS

\* Every credential among the rows opens with k.
OneKey(rows, k) == \A i \in DOMAIN rows : rows[i] = NoCred \/ rows[i].key \in {"", k}

\* The precondition of a first canary, as the rows answer it.
Speaks(rows, k) ==
    LET there == {i \in DOMAIN rows : rows[i] # NoCred}
    IN  there = {} \/ rows[Lowest(there)].key \in {"", k}

\* In a database without a canary the first connection speaks for all; in one
\* with a canary it opens all.  The run wrong_canary starts from databases of
\* which this does not hold.
FirstSpeaks ==
    \A d \in Databases :
        /\ d.canary = NoCanary => \A k \in Keys : Speaks(d.creds, k) => OneKey(d.creds, k)
        /\ d.canary # NoCanary => OneKey(d.creds, d.canary)

Steps == {"down", "asking", "sealing", "verifying", "upgrading", "rotating", "serving"}
SecretsTypeOK ==
    /\ creds \in [Ids -> CredRow]
    /\ canary \in Keys \cup {NoCanary}
    /\ proc \in [Procs -> [pc : Steps, key : Keys \cup {""}, rotates : BOOLEAN]]
    /\ \A p \in Procs : proc[p].pc # "down" => proc[p].key \in Keys

\* Without a canary the rows are as they were found and nobody is past sealing;
\* a process about to seal has asked the first connection.
Unsealed ==
    canary = NoCanary =>
        /\ \A k \in Keys : Speaks(creds, k) => OneKey(creds, k)
        /\ \A p \in Procs : proc[p].pc \in {"down", "asking", "sealing"}
        /\ \A p \in Procs : proc[p].pc = "sealing" => OneKey(creds, proc[p].key)

CanaryOpens == canary # NoCanary => OneKey(creds, canary)

\* A gateway past the canary has its key, and nobody rotates beside it.
GatewaysKnow == \A p \in Procs : proc[p].pc \in {"upgrading", "serving"} => proc[p].key = canary
Apart ==
    /\ \A p \in Procs : /\ proc[p].pc \in {"upgrading", "serving"} => ~proc[p].rotates
                        /\ proc[p].pc = "rotating" => proc[p].rotates
    /\ \A p, q \in Procs : proc[p].pc = "down" \/ proc[q].pc = "down" \/ proc[p].rotates = proc[q].rotates

KeyInv == SecretsTypeOK /\ Unsealed /\ CanaryOpens /\ GatewaysKnow /\ Apart

\* A start from a database whose first connection speaks for the others.
LEMMA KeyInit == FirstSpeaks /\ SecretsInit => KeyInv
<1> SUFFICES ASSUME FirstSpeaks, SecretsInit PROVE KeyInv
  OBVIOUS
<1>1. PICK d \in Databases : creds = d.creds /\ canary = d.canary
  BY DEF SecretsInit
<1>2. \A p \in Procs : proc[p].pc = "down" /\ proc[p].key = "" /\ proc[p].rotates = FALSE
  BY DEF SecretsInit, Stopped
<1>3. SecretsTypeOK
  <2>1. creds \in [Ids -> CredRow] /\ canary \in Keys \cup {NoCanary}
    BY <1>1, DatabasesAssumption DEF Ids
  <2>2. proc \in [Procs -> [pc : Steps, key : Keys \cup {""}, rotates : BOOLEAN]]
    BY DEF SecretsInit, Stopped, Steps
  <2> QED
    BY <1>2, <2>1, <2>2 DEF SecretsTypeOK
<1>4. Unsealed /\ CanaryOpens
  BY <1>1, <1>2 DEF FirstSpeaks, Unsealed, CanaryOpens
<1>5. GatewaysKnow /\ Apart
  BY <1>2 DEF GatewaysKnow, Apart
<1> QED
  BY <1>3, <1>4, <1>5 DEF KeyInv

\* What a step of one process does to the processes.
LEMMA MovesFacts ==
    ASSUME SecretsTypeOK, NEW p \in Procs, NEW pc \in Steps, Moves(p, pc), proc[p].pc # "down"
    PROVE  /\ proc' \in [Procs -> [pc : Steps, key : Keys \cup {""}, rotates : BOOLEAN]]
           /\ \A q \in Procs : proc'[q].pc # "down" => proc'[q].key \in Keys
           /\ proc'[p].pc = pc
           /\ \A q \in Procs : /\ q # p => proc'[q] = proc[q]
                               /\ proc'[q].key = proc[q].key /\ proc'[q].rotates = proc[q].rotates
                               /\ proc[q].pc = "down" => proc'[q].pc = "down"
<1>1. proc \in [Procs -> [pc : Steps, key : Keys \cup {""}, rotates : BOOLEAN]]
  BY DEF SecretsTypeOK
<1> DEFINE r == [pc |-> pc, key |-> proc[p].key, rotates |-> proc[p].rotates]
<1>2. proc'[p] = r /\ \A q \in Procs : q # p => proc'[q] = proc[q]
  BY <1>1 DEF Moves
<1>3. proc'[p].pc = pc /\ proc'[p].key = proc[p].key /\ proc'[p].rotates = proc[p].rotates
  <2>1. r.pc = pc /\ r.key = proc[p].key /\ r.rotates = proc[p].rotates
    OBVIOUS
  <2> HIDE DEF r
  <2> QED
    BY <1>2, <2>1, Zenon
<1>4. proc' \in [Procs -> [pc : Steps, key : Keys \cup {""}, rotates : BOOLEAN]]
  BY <1>1 DEF Moves
<1>5. \A q \in Procs : proc[q].pc # "down" => proc[q].key \in Keys
  BY DEF SecretsTypeOK
<1>6. \A q \in Procs : /\ proc'[q].key = proc[q].key /\ proc'[q].rotates = proc[q].rotates
                       /\ proc[q].pc = "down" => proc'[q].pc = "down"
  BY <1>2, <1>3
<1>7. \A q \in Procs : proc'[q].pc # "down" => proc'[q].key \in Keys
  BY <1>2, <1>5, <1>6
<1> QED
  BY <1>2, <1>3, <1>4, <1>6, <1>7

\* What the end of one process does to the processes.
LEMMA StopFacts ==
    ASSUME SecretsTypeOK, NEW p \in Procs, Stop(p)
    PROVE  /\ proc' \in [Procs -> [pc : Steps, key : Keys \cup {""}, rotates : BOOLEAN]]
           /\ \A q \in Procs : proc'[q].pc # "down" => proc'[q].key \in Keys
           /\ proc'[p].pc = "down"
           /\ \A q \in Procs : q # p => proc'[q] = proc[q]
<1>1. proc \in [Procs -> [pc : Steps, key : Keys \cup {""}, rotates : BOOLEAN]]
  BY DEF SecretsTypeOK
<1>2. proc'[p] = Stopped /\ \A q \in Procs : q # p => proc'[q] = proc[q]
  BY <1>1 DEF Stop
<1>3. proc' \in [Procs -> [pc : Steps, key : Keys \cup {""}, rotates : BOOLEAN]]
  BY <1>1 DEF Stop, Stopped, Steps
<1>4. proc'[p].pc = "down"
  <2>1. Stopped.pc = "down"
    BY DEF Stopped
  <2> QED
    BY <1>2, <2>1
<1>5. \A q \in Procs : proc[q].pc # "down" => proc[q].key \in Keys
  BY DEF SecretsTypeOK
<1>6. \A q \in Procs : proc'[q].pc # "down" => proc'[q].key \in Keys
  BY <1>2, <1>4, <1>5
<1> QED
  BY <1>2, <1>3, <1>4, <1>6

\* A process that stops, and nothing else, keeps the invariant.
LEMMA StopKeeps ==
    ASSUME KeyInv, NEW p \in Procs, Stop(p), creds' = creds, canary' = canary
    PROVE  KeyInv'
<1>0. SecretsTypeOK /\ Unsealed /\ CanaryOpens /\ GatewaysKnow /\ Apart
  BY DEF KeyInv
<1>1. /\ proc' \in [Procs -> [pc : Steps, key : Keys \cup {""}, rotates : BOOLEAN]]
      /\ \A q \in Procs : proc'[q].pc # "down" => proc'[q].key \in Keys
      /\ proc'[p].pc = "down" /\ \A q \in Procs : q # p => proc'[q] = proc[q]
  BY <1>0, StopFacts
<1>2. SecretsTypeOK'
  BY <1>0, <1>1 DEF SecretsTypeOK, Ids
<1>3. Unsealed'
  BY <1>0, <1>1 DEF Unsealed
<1>4. CanaryOpens'
  BY <1>0 DEF CanaryOpens
<1>5. GatewaysKnow' /\ Apart'
  BY ZenonT(60), <1>0, <1>1 DEF GatewaysKnow, Apart
<1> QED
  BY <1>2, <1>3, <1>4, <1>5 DEF KeyInv

\* Rows sealed again under one key open with it.
LEMMA ResealFacts ==
    ASSUME SecretsTypeOK, NEW p \in Procs, NEW S \in SUBSET Present, NEW k \in Keys, Reseal(p, S, k)
    PROVE  /\ Ids' = Ids /\ creds' \in [Ids -> CredRow]
           /\ \A i \in S : creds'[i].key \in {"", k}
           /\ \A i \in Ids \ S : creds'[i] = creds[i]
<1>1. creds \in [Ids -> CredRow] /\ S \subseteq Ids
  BY DEF SecretsTypeOK, Present
<1>2. \A i \in S : SealWith(creds[i].key, k) \in {"", k}
  BY DEF SealWith
<1>3. creds' = [i \in Ids |-> IF i \notin S THEN creds[i]
                              ELSE [key |-> SealWith(creds[i].key, k), version |-> 1]]
  BY DEF Reseal
<1>4. \A i \in S : creds'[i] = [key |-> SealWith(creds[i].key, k), version |-> 1]
  BY <1>1, <1>3
<1>5. \A i \in Ids \ S : creds'[i] = creds[i]
  BY <1>1, <1>3
<1>6. \A i \in S : creds'[i] \in CredRow /\ creds'[i].key \in {"", k}
  <2> SUFFICES ASSUME NEW i \in S PROVE creds'[i] \in CredRow /\ creds'[i].key \in {"", k}
    OBVIOUS
  <2>1. creds'[i] = [key |-> SealWith(creds[i].key, k), version |-> 1]
    BY <1>4
  <2>2. SealWith(creds[i].key, k) \in {"", k}
    BY <1>2
  <2>3. \A x : x \in {"", k} => [key |-> x, version |-> 1] \in [key : Keys \cup {""}, version : {0, 1}]
    OBVIOUS
  <2>4. creds'[i].key = SealWith(creds[i].key, k)
    BY <2>1
  <2> QED
    BY <2>1, <2>2, <2>3, <2>4 DEF CredRow
<1>7. \A i \in Ids : creds'[i] \in CredRow
  BY <1>1, <1>5, <1>6
<1>8. Ids' = Ids /\ creds' \in [Ids -> CredRow]
  BY <1>3, <1>7 DEF Ids
<1> QED
  BY <1>5, <1>6, <1>8

\* What has to be looked at when a process takes its next step: the rows, which
\* stay or open with the canary, the canary, and the process's own new place.
MayMove(p, pc) ==
    /\ proc[p].pc # "down" /\ pc \in Steps
    /\ \/ creds' = creds
       \/ canary' # NoCanary /\ creds' \in [Ids -> CredRow] /\ Ids' = Ids
    /\ canary' = canary \/ (canary = NoCanary /\ canary' \in Keys)
    /\ CanaryOpens'
    /\ canary' = NoCanary => pc \in {"asking", "sealing"}
    /\ (canary' = NoCanary /\ pc = "sealing") => OneKey(creds, proc[p].key)
    /\ pc \in {"upgrading", "serving"} => proc[p].key = canary' /\ ~proc[p].rotates
    /\ pc = "rotating" => proc[p].rotates

\* A process that goes on, with or without a write, keeps the invariant.
LEMMA MoveKeeps ==
    ASSUME KeyInv, NEW p \in Procs, NEW pc, Moves(p, pc), MayMove(p, pc)
    PROVE  KeyInv'
<1>0. SecretsTypeOK /\ Unsealed /\ CanaryOpens /\ GatewaysKnow /\ Apart
  BY DEF KeyInv
<1> USE DEF MayMove
<1>1. /\ proc' \in [Procs -> [pc : Steps, key : Keys \cup {""}, rotates : BOOLEAN]]
      /\ \A q \in Procs : proc'[q].pc # "down" => proc'[q].key \in Keys
      /\ proc'[p].pc = pc
      /\ \A q \in Procs : /\ q # p => proc'[q] = proc[q]
                          /\ proc'[q].key = proc[q].key /\ proc'[q].rotates = proc[q].rotates
                          /\ proc[q].pc = "down" => proc'[q].pc = "down"
  BY <1>0, MovesFacts
<1>2. canary' \in Keys \cup {NoCanary}
  BY <1>0 DEF SecretsTypeOK
<1>3. SecretsTypeOK'
  <2>1. creds' \in [Ids' -> CredRow]
    BY <1>0 DEF SecretsTypeOK, Ids
  <2> QED
    BY <1>1, <1>2, <2>1 DEF SecretsTypeOK
<1>4. Unsealed'
  <2> SUFFICES ASSUME canary' = NoCanary PROVE Unsealed'
    BY DEF Unsealed
  <2>1. canary = NoCanary /\ creds' = creds
    BY KeysAssumption
  <2>2. \A k \in Keys : Speaks(creds', k) => OneKey(creds', k)
    BY <1>0, <2>1 DEF Unsealed
  <2>3. \A q \in Procs : proc'[q].pc \in {"down", "asking", "sealing"}
    BY <1>0, <1>1, <2>1 DEF Unsealed
  <2>4. \A q \in Procs : proc'[q].pc = "sealing" => OneKey(creds', proc'[q].key)
    <3> SUFFICES ASSUME NEW q \in Procs, proc'[q].pc = "sealing" PROVE OneKey(creds, proc[q].key)
      BY <1>1
    <3>1. CASE q = p
      BY <1>1, <3>1
    <3>2. CASE q # p
      BY <1>0, <1>1, <2>1, <3>2 DEF Unsealed
    <3> QED
      BY <3>1, <3>2
  <2> QED
    BY <2>2, <2>3, <2>4 DEF Unsealed
<1>5. CanaryOpens'
  OBVIOUS
<1>6. GatewaysKnow'
  <2> SUFFICES ASSUME NEW q \in Procs, proc'[q].pc \in {"upgrading", "serving"} PROVE proc[q].key = canary'
    BY <1>1 DEF GatewaysKnow
  <2>1. CASE q = p
    BY <1>1, <2>1
  <2>2. CASE q # p
    <3>1. proc[q].pc \in {"upgrading", "serving"}
      BY <1>1, <2>2
    <3>2. canary # NoCanary
      BY <1>0, <3>1 DEF Unsealed
    <3> QED
      BY <1>0, <3>1, <3>2 DEF GatewaysKnow
  <2> QED
    BY <2>1, <2>2
<1>7. Apart'
  <2>1. \A q \in Procs : /\ proc'[q].pc \in {"upgrading", "serving"} => ~proc'[q].rotates
                         /\ proc'[q].pc = "rotating" => proc'[q].rotates
    <3> TAKE q \in Procs
    <3>1. CASE q = p
      BY <1>1, <3>1
    <3>2. CASE q # p
      BY <1>0, <1>1, <3>2 DEF Apart
    <3> QED
      BY <3>1, <3>2
  <2>2. \A q, r \in Procs : proc'[q].pc = "down" \/ proc'[r].pc = "down" \/ proc'[q].rotates = proc'[r].rotates
    <3> TAKE q, r \in Procs
    <3>1. proc[q].pc = "down" \/ proc[r].pc = "down" \/ proc[q].rotates = proc[r].rotates
      BY <1>0 DEF Apart
    <3>2. /\ proc'[q].rotates = proc[q].rotates /\ proc'[r].rotates = proc[r].rotates
          /\ proc[q].pc = "down" => proc'[q].pc = "down"
          /\ proc[r].pc = "down" => proc'[r].pc = "down"
      BY <1>1
    <3> QED
      BY <3>1, <3>2
  <2> QED
    BY <2>1, <2>2 DEF Apart
<1> QED
  BY <1>3, <1>4, <1>5, <1>6, <1>7 DEF KeyInv

\* A gateway that serves changes a row.
LEMMA RowKeeps ==
    ASSUME KeyInv, NEW p \in Procs, proc[p].pc = "serving", canary' = canary, proc' = proc,
           creds' \in [Ids -> CredRow], Ids' = Ids,
           \A i \in Ids : creds'[i] = creds[i] \/ creds'[i] = NoCred \/ creds'[i].key \in {"", proc[p].key}
    PROVE  KeyInv'
<1>0. SecretsTypeOK /\ Unsealed /\ CanaryOpens /\ GatewaysKnow /\ Apart
  BY DEF KeyInv
<1>1. canary # NoCanary /\ proc[p].key = canary
  BY <1>0 DEF Unsealed, GatewaysKnow
<1>2. OneKey(creds', canary)
  BY <1>0, <1>1 DEF CanaryOpens, OneKey, Ids
<1>3. SecretsTypeOK'
  BY <1>0 DEF SecretsTypeOK
<1>4. Unsealed' /\ CanaryOpens'
  BY <1>1, <1>2 DEF Unsealed, CanaryOpens
<1>5. GatewaysKnow' /\ Apart'
  BY <1>0 DEF GatewaysKnow, Apart
<1> QED
  BY <1>3, <1>4, <1>5 DEF KeyInv

\* Every step keeps the invariant.
LEMMA KeyStep == KeyInv /\ [SecretsNext]_secVars => KeyInv'
<1> SUFFICES ASSUME KeyInv, [SecretsNext]_secVars PROVE KeyInv'
  OBVIOUS
<1>0. SecretsTypeOK /\ Unsealed /\ CanaryOpens /\ GatewaysKnow /\ Apart
  BY DEF KeyInv
<1>t. /\ creds \in [Ids -> CredRow] /\ canary \in Keys \cup {NoCanary}
      /\ proc \in [Procs -> [pc : Steps, key : Keys \cup {""}, rotates : BOOLEAN]]
      /\ \A p \in Procs : proc[p].pc # "down" => proc[p].key \in Keys
  BY <1>0 DEF SecretsTypeOK
<1>1. ASSUME NEW p \in Procs, NEW k \in Keys, NEW rotates \in BOOLEAN, Load(p, k, rotates) PROVE KeyInv'
  <2> DEFINE r == [pc |-> "asking", key |-> k, rotates |-> rotates]
  <2>1. proc'[p] = r /\ (\A q \in Procs : q # p => proc'[q] = proc[q]) /\ creds' = creds /\ canary' = canary
    BY <1>1, <1>t DEF Load
  <2>2. r \in [pc : Steps, key : Keys \cup {""}, rotates : BOOLEAN]
    BY DEF Steps
  <2>3. r.pc = "asking" /\ r.key = k
    OBVIOUS
  <2>4. r.rotates = rotates
    OBVIOUS
  <2>5. proc' \in [Procs -> [pc : Steps, key : Keys \cup {""}, rotates : BOOLEAN]]
    BY <1>1, <1>t, <2>2 DEF Load
  <2> HIDE DEF r
  <2>6. proc'[p].pc = "asking" /\ proc'[p].key = k
    BY <2>1, <2>3
  <2>7. proc'[p].rotates = rotates
    BY <2>1, <2>4, Zenon
  <2>8. SecretsTypeOK'
    BY <1>t, <2>1, <2>5, <2>6 DEF SecretsTypeOK, Ids
  <2>9. Unsealed' /\ CanaryOpens' /\ GatewaysKnow'
    BY <1>0, <2>1, <2>6 DEF Unsealed, CanaryOpens, GatewaysKnow
  <2>10. \A q \in Procs : proc[q].pc = "down" \/ proc[q].rotates = rotates
    <3>1. \A q \in Procs : proc[q].pc = "down" \/ proc[q].rotates # ~rotates
      BY <1>1 DEF Load, Up
    <3>2. \A q \in Procs : proc[q].rotates \in BOOLEAN
      BY <1>t
    <3> QED
      BY <3>1, <3>2
  <2>11. Apart'
    <3>1. \A q \in Procs : /\ proc'[q].pc \in {"upgrading", "serving"} => ~proc'[q].rotates
                           /\ proc'[q].pc = "rotating" => proc'[q].rotates
      BY <1>0, <2>1, <2>6 DEF Apart
    <3>2. \A q \in Procs : proc'[q].pc = "down" \/ proc'[q].rotates = rotates
      BY <2>1, <2>7, <2>10, Zenon
    <3> QED
      BY <3>1, <3>2 DEF Apart
  <2> QED
    BY <2>8, <2>9, <2>11 DEF KeyInv
<1>2. ASSUME NEW p \in Procs, Precondition(p) PROVE KeyInv'
  <2>1. proc[p].pc = "asking" /\ creds' = creds /\ canary' = canary /\ proc[p].key \in Keys
    BY <1>2, <1>t DEF Precondition, Stands
  <2>2. CASE Stop(p)
    BY <2>1, <2>2, StopKeeps
  <2>3. CASE MaySeal(proc[p].key) /\ Moves(p, "sealing")
    <3>1. canary = NoCanary => Speaks(creds, proc[p].key)
      BY <2>3 DEF MaySeal, Speaks, Present, Ids, Opens
    <3>2. canary = NoCanary => OneKey(creds, proc[p].key)
      BY <1>0, <2>1, <3>1 DEF Unsealed
    <3>3. CanaryOpens'
      BY <1>0, <2>1 DEF CanaryOpens
    <3>4. MayMove(p, "sealing")
      <4>1. proc[p].pc # "down" /\ "sealing" \in Steps
        BY <2>1 DEF Steps
      <4>2. canary' = NoCanary => OneKey(creds, proc[p].key)
        BY <2>1, <3>2
      <4>3. creds' = creds /\ canary' = canary
        BY <2>1
      <4> QED
        BY <3>3, <4>1, <4>2, <4>3 DEF MayMove, OneKey
    <3> QED
      BY <2>3, <3>4, MoveKeeps
  <2> QED
    BY <1>2, <2>2, <2>3 DEF Precondition
<1>3. ASSUME NEW p \in Procs, Seal(p) PROVE KeyInv'
  <2>1. /\ proc[p].pc = "sealing" /\ creds' = creds /\ Moves(p, "verifying") /\ proc[p].key \in Keys
        /\ canary' = IF canary = NoCanary THEN proc[p].key ELSE canary
    BY <1>3, <1>t DEF Seal, Stands
  <2>2. canary' # NoCanary
    BY <2>1, KeysAssumption
  <2>3. canary = NoCanary => canary' = proc[p].key /\ OneKey(creds, proc[p].key)
    BY <1>0, <2>1 DEF Unsealed
  <2>4. CanaryOpens'
    BY <1>0, <2>1, <2>3 DEF CanaryOpens, OneKey
  <2>5. MayMove(p, "verifying")
    <3>1. proc[p].pc # "down" /\ "verifying" \in Steps /\ creds' = creds
      BY <2>1 DEF Steps
    <3>2. canary' = canary \/ (canary = NoCanary /\ canary' \in Keys)
      BY <2>1
    <3> QED
      BY <2>2, <2>4, <3>1, <3>2 DEF MayMove
  <2> QED
    BY <2>1, <2>5, MoveKeeps
<1>4. ASSUME NEW p \in Procs, Verify(p) PROVE KeyInv'
  <2>1. proc[p].pc = "verifying" /\ creds' = creds /\ canary' = canary /\ proc[p].key \in Keys
    BY <1>4, <1>t DEF Verify, Stands
  <2>2. CASE Stop(p)
    BY <2>1, <2>2, StopKeeps
  <2>3. CASE canary = proc[p].key /\ proc[p].rotates /\ Moves(p, "rotating")
    <3>1. canary # NoCanary
      BY <2>1, <2>3, KeysAssumption
    <3>2. MayMove(p, "rotating")
      BY <1>0, <2>1, <2>3, <3>1 DEF MayMove, Steps, CanaryOpens
    <3> QED
      BY <2>3, <3>2, MoveKeeps
  <2>4. CASE canary = proc[p].key /\ ~proc[p].rotates /\ Moves(p, "upgrading")
    <3>1. canary # NoCanary
      BY <2>1, <2>4, KeysAssumption
    <3>2. MayMove(p, "upgrading")
      BY <1>0, <2>1, <2>4, <3>1 DEF MayMove, Steps, CanaryOpens
    <3> QED
      BY <2>4, <3>2, MoveKeeps
  <2> QED
    BY <1>4, <2>2, <2>3, <2>4 DEF Verify
<1>5. ASSUME NEW p \in Procs, Upgrade(p) PROVE KeyInv'
  <2>1. /\ proc[p].pc = "upgrading" /\ canary' = canary /\ proc[p].key \in Keys /\ ~proc[p].rotates
        /\ proc[p].key = canary /\ canary # NoCanary
    BY <1>5, <1>0, <1>t DEF Upgrade, Stands, GatewaysKnow, Apart, Unsealed
  <2>2. CASE Stop(p) /\ creds' = creds
    BY <2>1, <2>2, StopKeeps
  <2>3. CASE Reseal(p, Legacy, proc[p].key) /\ Moves(p, "serving")
    <3>1. Legacy \in SUBSET Present
      BY DEF Legacy
    <3>2. /\ Ids' = Ids /\ creds' \in [Ids -> CredRow]
          /\ \A i \in Legacy : creds'[i].key \in {"", proc[p].key}
          /\ \A i \in Ids \ Legacy : creds'[i] = creds[i]
      BY <1>0, <2>1, <2>3, <3>1, ResealFacts
    <3>3. CanaryOpens'
      BY <1>0, <2>1, <3>2 DEF OneKey, CanaryOpens, Ids
    <3>4. MayMove(p, "serving")
      BY <2>1, <3>2, <3>3 DEF MayMove, Steps
    <3> QED
      BY <2>3, <3>4, MoveKeeps
  <2> QED
    BY <1>5, <2>2, <2>3 DEF Upgrade
<1>6. ASSUME NEW p \in Procs, NEW k \in Keys, Rotate(p, k) PROVE KeyInv'
  <2>1. proc[p].pc = "rotating" /\ Stop(p)
    BY <1>6 DEF Rotate, Stands
  <2>2. CASE creds' = creds /\ canary' = canary
    BY <2>1, <2>2, StopKeeps
  <2>3. CASE Reseal(p, Present, k) /\ canary' = k
    <3>1. /\ Ids' = Ids /\ creds' \in [Ids -> CredRow]
          /\ \A i \in Present : creds'[i].key \in {"", k}
          /\ \A i \in Ids \ Present : creds'[i] = creds[i]
      BY <1>0, <2>3, ResealFacts
    <3>2. OneKey(creds', k)
      BY <3>1 DEF OneKey, Present, Ids
    <3>3. k # NoCanary
      BY KeysAssumption
    <3>4. /\ proc' \in [Procs -> [pc : Steps, key : Keys \cup {""}, rotates : BOOLEAN]]
          /\ \A q \in Procs : proc'[q].pc # "down" => proc'[q].key \in Keys
          /\ proc'[p].pc = "down" /\ \A q \in Procs : q # p => proc'[q] = proc[q]
      BY <1>0, <2>1, StopFacts
    <3>5. SecretsTypeOK'
      BY <2>3, <3>1, <3>4 DEF SecretsTypeOK
    <3>6. Unsealed' /\ CanaryOpens'
      BY <2>3, <3>2, <3>3 DEF Unsealed, CanaryOpens
    <3>7. Apart'
      BY ZenonT(60), <1>0, <3>4 DEF Apart
    <3>8. \A q \in Procs : q # p => proc[q].pc \notin {"upgrading", "serving"}
      BY <1>0, <2>1 DEF Apart
    <3>9. GatewaysKnow'
      BY <3>4, <3>8 DEF GatewaysKnow
    <3> QED
      BY <3>5, <3>6, <3>7, <3>9 DEF KeyInv
  <2> QED
    BY <1>6, <2>2, <2>3 DEF Rotate
<1>7. ASSUME NEW p \in Procs, NEW i \in Ids, NEW keyed \in BOOLEAN, Create(p, i, keyed) PROVE KeyInv'
  <2> DEFINE key == IF keyed THEN proc[p].key ELSE ""
  <2>1. proc[p].pc = "serving" /\ canary' = canary /\ proc' = proc /\ key \in Keys \cup {""} /\ key \in {"", proc[p].key}
    BY <1>7, <1>t DEF Create, Stands
  <2>2. creds' = [creds EXCEPT ![i] = [key |-> key, version |-> 1]]
    BY <1>7 DEF Create
  <2> HIDE DEF key
  <2>3. [key |-> key, version |-> 1] \in CredRow /\ [key |-> key, version |-> 1].key = key
    BY <2>1 DEF CredRow
  <2>4. Ids' = Ids /\ creds' \in [Ids -> CredRow] /\ \A j \in Ids : creds'[j] = creds[j] \/ creds'[j].key = key
    BY <1>t, <2>2, <2>3 DEF Ids
  <2> QED
    BY <2>1, <2>4, RowKeeps
<1>8. ASSUME NEW p \in Procs, NEW i \in Ids, Update(p, i) PROVE KeyInv'
  <2>1. proc[p].pc = "serving" /\ canary' = canary /\ proc' = proc /\ proc[p].key \in Keys
    BY <1>8, <1>t DEF Update, Stands
  <2>2. creds' = [creds EXCEPT ![i] = [key |-> proc[p].key, version |-> 1]]
    BY <1>8 DEF Update
  <2>3. [key |-> proc[p].key, version |-> 1] \in CredRow /\ [key |-> proc[p].key, version |-> 1].key = proc[p].key
    BY <2>1 DEF CredRow
  <2>4. Ids' = Ids /\ creds' \in [Ids -> CredRow] /\ \A j \in Ids : creds'[j] = creds[j] \/ creds'[j].key = proc[p].key
    BY <1>t, <2>2, <2>3 DEF Ids
  <2> QED
    BY <2>1, <2>4, RowKeeps
<1>9. ASSUME NEW p \in Procs, NEW i \in Ids, Delete(p, i) PROVE KeyInv'
  <2>1. proc[p].pc = "serving" /\ canary' = canary /\ proc' = proc /\ creds' = [creds EXCEPT ![i] = NoCred]
    BY <1>9 DEF Delete, Stands
  <2>2. Ids' = Ids /\ creds' \in [Ids -> CredRow] /\ \A j \in Ids : creds'[j] = creds[j] \/ creds'[j] = NoCred
    BY <1>t, <2>1 DEF Ids, CredRow
  <2> QED
    BY <2>1, <2>2, RowKeeps
<1>10. ASSUME NEW p \in Procs, Exit(p) PROVE KeyInv'
  BY <1>10, StopKeeps DEF Exit
<1>11. CASE UNCHANGED secVars
  BY <1>0, <1>11 DEF secVars, KeyInv, SecretsTypeOK, Ids, Unsealed, CanaryOpens, GatewaysKnow, Apart
<1> QED
  BY <1>1, <1>2, <1>3, <1>4, <1>5, <1>6, <1>7, <1>8, <1>9, <1>10, <1>11 DEF SecretsNext

\* The invariant says what was to be shown.
LEMMA KeysAgreeFrom == KeyInv => KeysAgree
<1> SUFFICES ASSUME KeyInv PROVE KeysAgree
  OBVIOUS
<1>0. SecretsTypeOK /\ Unsealed /\ CanaryOpens /\ GatewaysKnow
  BY DEF KeyInv
<1>1. canary # NoCanary => Sealed \subseteq {canary}
  BY <1>0 DEF CanaryOpens, OneKey, Sealed, Present, Ids
<1>2. \A p \in Procs : Stands(p, "serving") => proc[p].key = canary /\ canary # NoCanary
  BY <1>0 DEF Stands, GatewaysKnow, Unsealed
<1> QED
  BY <1>1, <1>2 DEF KeysAgree

\* If the first connection of every database without a canary speaks for the
\* others, the canary's key and the key of every serving gateway open all that
\* is stored: whatever keys processes start with, however starts, upgrades,
\* writes and rotations interleave, and wherever they are cut off.
THEOREM KeysAlwaysAgree == FirstSpeaks => (SecretsSpec => []KeysAgree)
<1> SUFFICES ASSUME FirstSpeaks PROVE SecretsSpec => []KeysAgree
  OBVIOUS
<1>1. SecretsInit => KeyInv
  BY KeyInit
<1> QED
  BY <1>1, KeyStep, KeysAgreeFrom, PTL DEF SecretsSpec
===============================================================================
