----------------------------- MODULE ChatPromise -----------------------------
(***************************************************************************)
(* What chathub.Client promises the handlers that call it: ChatHub is      *)
(* asked once, with every image of the request, or not at all; while the   *)
(* model answers, the text handed over so far is always a beginning of the *)
(* answer; a call that succeeds returns the whole answer, and a call that  *)
(* ends any other way returns an error.  One thing is not promised: when   *)
(* ChatHub completes abruptly, giving an error in words or sending no      *)
(* result after a snapshot, a call may succeed with a text that breaks off *)
(* or repeats.  ChatHubStream implements it.                               *)
(***************************************************************************)
EXTENDS Naturals, Sequences, SequencesExt

CONSTANT Whole   \* the answer the model is giving

VARIABLES
    asked,     \* ChatHub was asked: "no", or with the "whole" request
    streamed,  \* text handed to the callback so far
    abrupt,    \* ChatHub completed abruptly
    outcome,   \* "pending", "ok" or "error"
    text       \* Result.Text

Init == asked = "no" /\ streamed = <<>> /\ abrupt = FALSE /\ outcome = "pending" /\ text = <<>>

Ask ==
    /\ outcome = "pending" /\ asked = "no"
    /\ asked' = "whole"
    /\ UNCHANGED <<streamed, abrupt, outcome, text>>

Stream ==
    /\ outcome = "pending" /\ asked = "whole"
    /\ streamed' \in {SubSeq(Whole, 1, n) : n \in Len(streamed)..Len(Whole)}
    /\ IsPrefix(streamed, streamed')
    /\ UNCHANGED <<asked, abrupt, outcome, text>>

Succeed ==
    /\ outcome = "pending" /\ asked = "whole"
    /\ outcome' = "ok" /\ abrupt' \in BOOLEAN
    /\ IF abrupt' THEN Len(text') >= Len(streamed) ELSE text' = Whole
    /\ UNCHANGED <<asked, streamed>>

Fail ==
    /\ outcome = "pending"
    /\ outcome' = "error"
    /\ UNCHANGED <<asked, streamed, abrupt, text>>

Next == Ask \/ Stream \/ Succeed \/ Fail

Spec == Init /\ [][Next]_<<asked, streamed, abrupt, outcome, text>>
=============================================================================
