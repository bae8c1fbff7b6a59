------------------------------ MODULE ProxyPool ------------------------------
(***************************************************************************)
(* One Pool of outbound proxies (internal/outbound/pool.go, health.go):    *)
(* round robin over its entries, a cooldown that grows with the failures   *)
(* of an entry, HTTP clients bound to the entry they were given, and the   *)
(* WebSocket dialer that stays with an entry until a dial through it       *)
(* fails.  Any number of goroutines share it; the model's steps are the    *)
(* sections under Pool.mu and under the dialer's own mutex.                *)
(*                                                                         *)
(* A Pool is never changed after NewPool but by these steps: the handlers  *)
(* that add and remove proxies replace it (module ProxySettings).          *)
(***************************************************************************)
EXTENDS Naturals, FiniteSets

CONSTANTS
    N,       \* number of entries
    Cap,     \* the longest cooldown, 2 minutes, in steps of 2 seconds
    Clients, \* HTTP clients made by HTTPClient()
    Dials    \* WebSocket dials in flight at a time

ASSUME PoolAssumptions == N \in Nat \ {0} /\ Cap \in Nat \ {0}

Entries == 0..(N - 1)
None    == N

VARIABLES
    failures, \* per entry, counted up to Cap: more changes no cooldown
    cooldown, \* per entry, what is left of it
    next,     \* where the next pick starts
    sticky,   \* the WebSocket dialer: the entry it stays with, or None
    client,   \* per HTTP client: its entry, or None
    dial,     \* per dial: its entry and where it stands
    passed,   \* per entry: picks of others since it was picked or cooling
    stale     \* a dial through the sticky entry has failed since it was picked

health == <<failures, cooldown>>
vars   == <<failures, cooldown, next, sticky, client, dial, passed, stale>>

Idle == [pc |-> "idle", entry |-> None]

Init ==
    /\ failures = [e \in Entries |-> 0] /\ cooldown = [e \in Entries |-> 0]
    /\ next = 0 /\ sticky = None
    /\ client = [c \in Clients |-> None] /\ dial = [d \in Dials |-> Idle]
    /\ passed = [e \in Entries |-> 0] /\ stale = FALSE

-----------------------------------------------------------------------------
Ready(e) == cooldown[e] = 0
Nth(i)   == (next + i) % N

\* The first entry from next on that is ready; if there is none, next itself.
Picked(i) ==
    \/ /\ Ready(Nth(i)) /\ \A j \in 0..(i - 1) : ~Ready(Nth(j))
    \/ /\ i = 0 /\ \A e \in Entries : ~Ready(e)

\* Who waits: an entry that is ready and not the one picked.
Pass(e) == passed' = [f \in Entries |-> IF f = e \/ ~Ready(f) THEN 0 ELSE passed[f] + 1]

\* A slip: the place is counted from the head of the list.
PickFromHead(i) == Picked(i) /\ next' = (i + 1) % N /\ Pass(Nth(i))

\* Pool.pick of the entry i places from next.
Pick(i) == Picked(i) /\ next' = (next + i + 1) % N /\ Pass(Nth(i))

Shorter(a, b) == IF a < b THEN a ELSE b

\* A slip: a success does not end the cooldown.
MarkKeepsCooldown(e, ok) ==
    /\ failures' = [failures EXCEPT ![e] = IF ok THEN 0 ELSE Shorter(@ + 1, Cap)]
    /\ cooldown' = [cooldown EXCEPT ![e] = IF ok THEN @ ELSE failures'[e]]
    /\ passed' = IF ok THEN passed ELSE [passed EXCEPT ![e] = 0]

\* Pool.mark.
Mark(e, ok) ==
    /\ failures' = [failures EXCEPT ![e] = IF ok THEN 0 ELSE Shorter(@ + 1, Cap)]
    /\ cooldown' = [cooldown EXCEPT ![e] = IF ok THEN 0 ELSE failures'[e]]
    /\ passed' = IF ok THEN passed ELSE [passed EXCEPT ![e] = 0]

-----------------------------------------------------------------------------
\* HTTPClient(): the entry is picked when the client is made ...
HTTPClient(c) ==
    /\ client[c] = None
    /\ \E i \in Entries : Pick(i) /\ client' = [client EXCEPT ![c] = Nth(i)]
    /\ UNCHANGED <<health, sticky, dial, stale>>

\* ... and every request of the client goes through it, whatever its health.
RoundTrip(c, ok) ==
    /\ client[c] # None
    /\ Mark(client[c], ok)
    /\ UNCHANGED <<next, sticky, client, dial, stale>>

Drop(c) ==
    /\ client[c] # None /\ client' = [client EXCEPT ![c] = None]
    /\ UNCHANGED <<health, next, sticky, dial, passed, stale>>

\* Check, for one entry: only its end changes the pool.
Check(e, ok) == Mark(e, ok) /\ UNCHANGED <<next, sticky, client, dial, stale>>

\* NetDialContext: the sticky entry, or a pick that becomes it.
StartDial(d) ==
    /\ dial[d] = Idle
    /\ \/ /\ sticky # None
          /\ dial' = [dial EXCEPT ![d] = [pc |-> "dialing", entry |-> sticky]]
          /\ UNCHANGED <<next, passed, sticky, stale>>
       \/ /\ sticky = None
          /\ \E i \in Entries :
               /\ Pick(i) /\ sticky' = Nth(i) /\ stale' = FALSE
               /\ dial' = [dial EXCEPT ![d] = [pc |-> "dialing", entry |-> Nth(i)]]
    /\ UNCHANGED <<health, client>>

\* The connection is there, or not: mark.
EndDial(d, ok) ==
    /\ dial[d].pc = "dialing"
    /\ Mark(dial[d].entry, ok)
    /\ dial' = [dial EXCEPT ![d] = IF ok THEN Idle ELSE [@ EXCEPT !.pc = "failed"]]
    /\ stale' = (stale \/ (~ok /\ sticky = dial[d].entry))
    /\ UNCHANGED <<next, sticky, client>>

\* A slip: the dialer leaves its entry only if nobody else is dialing.
LeaveIfAlone(d) ==
    /\ dial[d].pc = "failed"
    /\ sticky' = IF sticky = dial[d].entry /\ \A f \in Dials \ {d} : dial[f] = Idle
                   THEN None ELSE sticky
    /\ stale' = (stale /\ sticky' # None)
    /\ dial' = [dial EXCEPT ![d] = Idle]
    /\ UNCHANGED <<health, next, client, passed>>

\* A failed dial gives the sticky entry up, if it is still the one it used.
Leave(d) ==
    /\ dial[d].pc = "failed"
    /\ sticky' = IF sticky = dial[d].entry THEN None ELSE sticky
    /\ stale' = (stale /\ sticky' # None)
    /\ dial' = [dial EXCEPT ![d] = Idle]
    /\ UNCHANGED <<health, next, client, passed>>

Tick ==
    /\ \E e \in Entries : ~Ready(e)
    /\ cooldown' = [e \in Entries |-> IF Ready(e) THEN 0 ELSE cooldown[e] - 1]
    /\ UNCHANGED <<failures, next, sticky, client, dial, passed, stale>>

Next ==
    \/ \E c \in Clients : HTTPClient(c) \/ Drop(c) \/ \E ok \in BOOLEAN : RoundTrip(c, ok)
    \/ \E e \in Entries, ok \in BOOLEAN : Check(e, ok)
    \/ \E d \in Dials : StartDial(d) \/ Leave(d) \/ \E ok \in BOOLEAN : EndDial(d, ok)
    \/ Tick

Spec == Init /\ [][Next]_vars

-----------------------------------------------------------------------------
\* Places stay inside the list, and every dial has an entry.
TypeOK ==
    /\ failures \in [Entries -> 0..Cap] /\ cooldown \in [Entries -> 0..Cap]
    /\ next \in Entries /\ sticky \in Entries \cup {None}
    /\ client \in [Clients -> Entries \cup {None}]
    /\ dial \in [Dials -> {Idle} \cup [pc : {"dialing", "failed"}, entry : Entries]]
    /\ passed \in [Entries -> Nat] /\ stale \in BOOLEAN

\* Round robin, in spite of cooldowns that send picks past other entries: while a
\* proxy is ready, no more picks go to others than there are others.
NotStarved == \A e \in Entries : passed[e] < N

\* A proxy rests only for failures that no later answer has made up for, and not
\* longer than they are worth: whichever client, dial or check reported them last.
CooldownEarned == \A e \in Entries : cooldown[e] <= failures[e]

\* Dials do not keep going to a proxy that a dial has found dead: once a failed
\* dial has returned, its proxy is no longer the one new dials stay with, however
\* many were in flight through it.
StickyIsFresh == stale => \E d \in Dials : dial[d].pc = "failed" /\ dial[d].entry = sticky
=============================================================================
