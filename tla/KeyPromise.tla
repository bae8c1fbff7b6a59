----------------------------- MODULE KeyPromise -----------------------------
(***************************************************************************)
(* What the console's API keys promise their users.  A key goes forward    *)
(* only: it is issued, it may be revoked, and a key that was revoked or    *)
(* lost is never accepted again.  While the file of keys has given no      *)
(* trouble, nothing happens to a key that the console was not told.  All   *)
(* this ends when the file is taken to another place: then a restart goes  *)
(* back behind the revocations and the keys that came after.               *)
(* ApiKeys implements it.                                                  *)
(***************************************************************************)
CONSTANT Keys

VARIABLES
    status,  \* what a request with the key meets
    told,    \* what the console was told of it
    trouble, \* a write of the file has failed or was cut off by a crash
    moved    \* the file was taken to another place

Init ==
    /\ status = [k \in Keys |-> "unissued"]
    /\ told = [k \in Keys |-> "nothing"]
    /\ trouble = FALSE /\ moved = FALSE

Issue(k) ==
    /\ status[k] = "unissued"
    /\ status' = [status EXCEPT ![k] = "live"]
    /\ told' = [told EXCEPT ![k] = "created"]
    /\ UNCHANGED <<trouble, moved>>

Revoke(k) ==
    /\ status[k] = "live"
    /\ status' = [status EXCEPT ![k] = "revoked"]
    /\ told' = [told EXCEPT ![k] = "revoked"]
    /\ UNCHANGED <<trouble, moved>>

\* How far trouble with the file may carry a key.
Forward(s) ==
    CASE s = "unissued" -> {"unissued", "live"}
      [] s = "live"     -> {"live", "revoked", "gone"}
      [] s = "revoked"  -> {"revoked", "gone"}
      [] s = "gone"     -> {"gone"}

Carried ==
    /\ status' \in [Keys -> {"unissued", "live", "revoked", "gone"}]
    /\ \A k \in Keys : status'[k] \in Forward(status[k])
Damage ==
    /\ trouble' = TRUE /\ Carried
    /\ UNCHANGED <<told, moved>>

\* Without trouble, the move itself changes nothing.
Move ==
    /\ moved' = TRUE
    /\ UNCHANGED status \/ (trouble /\ Carried)
    /\ UNCHANGED <<told, trouble>>

\* What a restart may make of a key once the file was moved.
Back(s) == CASE s = "revoked" -> {"revoked", "live", "gone"}
             [] s = "live"    -> {"live", "gone"}
             [] OTHER         -> {s}
Forget ==
    /\ moved
    /\ status' \in [Keys -> {"unissued", "live", "revoked", "gone"}]
    /\ \A k \in Keys : status'[k] \in Back(status[k])
    /\ trouble' \in {trouble, TRUE}
    /\ UNCHANGED <<told, moved>>

Next == (\E k \in Keys : Issue(k) \/ Revoke(k)) \/ Damage \/ Move \/ Forget

Spec == Init /\ [][Next]_<<status, told, trouble, moved>>
=============================================================================
