----------------------------- MODULE MC_Operations -----------------------------
(***************************************************************************)
(* Instances of the modules of administration and operation: Accounts      *)
(* (users, sessions, keys), LoginLimiter (sign-in attempts), Catalog       *)
(* (admin writes), Migrations (start-up), Secrets (key material),          *)
(* VectorIndex (tables and indexes of a width) and Retention (the          *)
(* janitor).  They share no variable, so each is checked on its own: a     *)
(* behaviour picks one part, which moves while the others stay at rest in  *)
(* an initial state.                                                       *)
(***************************************************************************)
EXTENDS Accounts, LoginLimiter, Catalog, Migrations, MC_Secrets, VectorIndex, Retention, TLC

VARIABLE part

\* A database in use begins with a management key; gateway keys are made later.
OperationsInit ==
    /\ part \in {"accounts", "login", "catalog", "migrations", "secrets", "index", "retention"}
    /\ AccountsInit /\ (part # "accounts" => \A u \in Users : ~users[u].here)
    /\ apikeys[1].st = "live" => apikeys[1].kind = "management"
    /\ LoginInit
    /\ (part # "catalog" => /\ conns = [c \in Conns |-> [here |-> TRUE, type |-> "llm"]]
                            /\ project = [here |-> TRUE, model |-> CHOOSE c \in Conns : TRUE, turns |-> 1, policy |-> "always"]
                            /\ route = [here |-> FALSE, kind |-> "chat", holder |-> None])
    /\ CatalogInit
    /\ (part # "migrations" => applied = {} /\ node = [n \in Nodes |-> [Down EXCEPT !.head = Newest]])
    /\ MigrationsInit
    /\ (part # "secrets" => creds = [i \in 1..2 |-> NoCred] /\ canary = "k1") /\ SecretsInit
    /\ (part # "index" => table = FALSE /\ index = "none" /\ bound = {}) /\ VectorInit
    /\ RetentionInit

OperationsNext ==
    \/ part = "accounts" /\ AccountsNext /\ UNCHANGED <<part, llVars, catVars, migVars, secVars, vxVars, retVars>>
    \/ part = "login" /\ LoginNext /\ UNCHANGED <<part, acVars, catVars, migVars, secVars, vxVars, retVars>>
    \/ part = "catalog" /\ CatalogNext /\ UNCHANGED <<part, acVars, llVars, migVars, secVars, vxVars, retVars>>
    \/ part = "migrations" /\ MigrationsNext /\ UNCHANGED <<part, acVars, llVars, catVars, secVars, vxVars, retVars>>
    \/ part = "secrets" /\ SecretsNext /\ UNCHANGED <<part, acVars, llVars, catVars, migVars, vxVars, retVars>>
    \/ part = "index" /\ VectorNext /\ UNCHANGED <<part, acVars, llVars, catVars, migVars, secVars, retVars>>
    \/ part = "retention" /\ RetentionNext /\ UNCHANGED <<part, acVars, llVars, catVars, migVars, secVars, vxVars>>

OperationsSpec ==
    OperationsInit /\ [][OperationsNext]_<<part, acVars, llVars, catVars, migVars, secVars, vxVars, retVars>>

\* The same actors in every part: requests, sign-ins, handlers, replicas.
OperationsSymmetry == Permutations(Web) \cup Permutations(Conns)
===============================================================================
