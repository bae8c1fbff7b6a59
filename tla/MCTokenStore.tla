---------------------------- MODULE MCTokenStore ----------------------------
(* Small instances of TokenStore for TLC.                                   *)
EXTENDS TokenStore, FiniteSets, TLC

CONSTANTS u1, u2, e1, e2

\* The first two users have an e-mail address of their own, others have none.
OwnEmails == [u \in Users |-> CASE u = u1 -> e1 [] u = u2 -> e2 [] OTHER -> None]

\* Callers may be exchanged, and the first two users together with their e-mails.
SwapUsers == [x \in {u1, u2, e1, e2} |->
                CASE x = u1 -> u2 [] x = u2 -> u1 [] x = e1 -> e2 [] OTHER -> e1]
CallerSymmetry == Permutations(Callers)
Symmetry == CallerSymmetry \cup {SwapUsers}
              \cup {SwapUsers @@ p : p \in CallerSymmetry}

\* A bound: at most two people sign in, and only one, with an e-mail, once there
\* was a fault.  Two matter where entries are matched, faults where file and memory
\* part.
FewPeople ==
    LET owners == {ownerOf[g] : g \in 1..issued} IN
    /\ Cardinality(owners) <= 2
    /\ faults > 0 => owners \cap Opaque = {} /\ Cardinality(owners) <= 1
=============================================================================
