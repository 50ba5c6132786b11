------------------------------ MODULE MC_Secrets ------------------------------
(* The databases Secrets starts from, for TLC.                             *)
EXTENDS Secrets

\* Two connections, each with no key, absent, or sealed under k1.
UnderK1(version) == {[key |-> k, version |-> version] : k \in {"", "k1"}}
CredRows == [1..2 -> {NoCred} \cup UnderK1(0) \cup UnderK1(1)]

\* Databases of this release, and databases of an older one, which have no
\* canary, whose connection with the lowest id has a key if any has.
Usual ==
    {[creds |-> c, canary |-> "k1"] : c \in [1..2 -> {NoCred} \cup UnderK1(1)]}
    \cup {[creds |-> c, canary |-> NoCanary] : c \in {r \in CredRows : r[1].key = "" => r[2].key # "k1"}}

\* And those of an older release whose lowest connection has no key.
AnyDatabase == Usual \cup {[creds |-> c, canary |-> NoCanary] : c \in CredRows}
===============================================================================
