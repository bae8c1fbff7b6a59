--------------------------- MODULE MCSessionTurns ---------------------------
(* Small instances of the two memories of conversations: SessionTurns, which *)
(* ChatHub conversation a key goes on in, and ResponsesTurns, the history    *)
(* kept for a response.  They share no state and no step but the end of the  *)
(* process, which each of them has for itself, so a behaviour here is about  *)
(* one of them.                                                              *)
EXTENDS SessionTurns, ResponsesTurns, TLC

VARIABLE memory

MemoryInit == memory \in {"sessions", "responses"} /\ Init /\ ResponsesInit

MemoryNext ==
    /\ \/ memory = "sessions" /\ Next /\ UNCHANGED responseVars
       \/ memory = "responses" /\ ResponsesNext /\ UNCHANGED vars
    /\ UNCHANGED memory

MemorySpec == MemoryInit /\ [][MemoryNext]_<<memory, vars, responseVars>>

Symmetry ==
    Permutations(Callers) \cup Permutations(Keys) \cup Permutations(Accounts \ Explicit)

\* A bound: a request contradicts the entry of its key, or the disk and the process
\* fail, not both.
OneTrouble == crossed = {} \/ (faults = 0 /\ restarts = 0)
=============================================================================
