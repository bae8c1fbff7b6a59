--------------------------- MODULE MCServerTables ---------------------------
(* Small instances of three tables of the web server: API keys,              *)
(* administrator sessions and deployments.  They share no state and no step  *)
(* but the end of the process, which each of them has for itself, so a       *)
(* behaviour here is about one of them.  They are extended, so that the      *)
(* properties checked here are the ones that are proved of them.             *)
EXTENDS ApiKeys, AdminSessions, Deployments, TLC

CONSTANTS blanks, plain, padded

VARIABLE table

\* What the modules assume of their constants.
ASSUME TablesAssumptions == KeysAssumptions /\ AdminAssumptions /\ DeploymentsAssumptions

adminVars == vars

TablesInit ==
    /\ table \in {"keys", "sessions", "deployments"}
    /\ KeysInit /\ Init /\ DeployInit

TablesNext ==
    /\ \/ table = "keys" /\ KeysNext /\ UNCHANGED <<adminVars, deployVars>>
       \/ table = "sessions" /\ Next /\ UNCHANGED <<keyVars, deployVars>>
       \/ table = "deployments" /\ DeployNext /\ UNCHANGED <<keyVars, adminVars>>
    /\ UNCHANGED table

TablesSpec == TablesInit /\ [][TablesNext]_<<table, keyVars, adminVars, deployVars>>

\* One password is nothing but blanks, one has blanks around another.
MCTrim == [x \in Passwords |-> IF x = blanks THEN None ELSE IF x = padded THEN plain ELSE x]

\* Bounds: of the two passwords that trimming changes one is in use, not both, and
\* what is left of the other is not itself a new password.
Chosen == {req[c].new : c \in {x \in Clients : Step(x) \in {"changing", "checked", "saved"}}}
InUse == {password, file} \cup Chosen \cup {req[c].pass : c \in {x \in Clients : Step(x) # "idle"}}
FewPasswords == plain \notin Chosen /\ ~({blanks, padded} \subseteq InUse)

\* Clients and addresses are alike.
Alike == Permutations(Clients) \cup Permutations(Addresses)
=============================================================================
