-------------------------- MODULE ProxyPoolProofs --------------------------
(***************************************************************************)
(* For any number of proxies, clients and dials: round robin serves every  *)
(* proxy that is ready in its turn, no proxy rests without cause, and the  *)
(* dialer leaves a proxy that failed it.  For any requests of the console, *)
(* failures and starts: the pool, the settings and their file agree when   *)
(* requests that met no other are done, and the last of those stands.      *)
(***************************************************************************)
EXTENDS ProxyPool, ProxySettings, Recursions

-----------------------------------------------------------------------------
\* Places past the end of the list are places from its head.
LEMMA Wrap ==
  ASSUME NEW x \in Nat, x < 2 * N
  PROVE  x % N = IF x < N THEN x ELSE x - N
<1>. N \in Nat \ {0}
  BY PoolAssumptions
<1>1. CASE x < N
  BY <1>1
<1>2. CASE x >= N
  BY <1>2
<1>. QED  BY <1>1, <1>2

\* How many entries a pick would look at before it comes to e.
Ahead(e) == IF e >= next THEN e - next ELSE e + N - next

\* The entry at its place, and the places after a pick.
LEMMA Places ==
  ASSUME next \in Entries
  PROVE  /\ \A e \in Entries : Ahead(e) \in Entries /\ Nth(Ahead(e)) = e
         /\ \A i \in Entries : Nth(i) \in Entries /\ Ahead(Nth(i)) = i
<1>. N \in Nat \ {0}
  BY PoolAssumptions
<1>1. ASSUME NEW e \in Entries PROVE Ahead(e) \in Entries /\ Nth(Ahead(e)) = e
  BY Wrap DEF Entries, Ahead, Nth
<1>2. ASSUME NEW i \in Entries PROVE Nth(i) \in Entries /\ Ahead(Nth(i)) = i
  <2>1. Nth(i) = IF next + i < N THEN next + i ELSE next + i - N
    BY Wrap DEF Entries, Nth
  <2>. QED  BY <2>1 DEF Entries, Ahead
<1>. QED  BY <1>1, <1>2
LEMMA NextPlace ==
  ASSUME next \in Entries, NEW i \in Entries, next' = (next + i + 1) % N
  PROVE  /\ next' \in Entries
         /\ \A e \in Entries : Ahead(e) > i => Ahead(e)' = Ahead(e) - i - 1
         /\ \A e \in Entries : Ahead(e)' \in Entries
<1>. N \in Nat \ {0}
  BY PoolAssumptions
<1>1. next' = IF next + i + 1 < N THEN next + i + 1 ELSE next + i + 1 - N
  BY Wrap DEF Entries
<1>2. next' \in Entries
  BY <1>1 DEF Entries
<1>3. \A e \in Entries : Ahead(e) > i => Ahead(e)' = Ahead(e) - i - 1
  BY <1>1 DEF Entries, Ahead
<1>4. \A e \in Entries : Ahead(e)' \in Entries
  BY <1>2 DEF Entries, Ahead
<1>. QED  BY <1>2, <1>3, <1>4

-----------------------------------------------------------------------------
(***************************************************************************)
(* The inductive invariant.  An entry has been passed over at most as      *)
(* often as the place of the next pick has come closer to it, so the turn  *)
(* of an entry that is ready comes before others have had more than one    *)
(* each; cooldowns and failures only reset the count.                      *)
(***************************************************************************)
InTurn  == \A e \in Entries : passed[e] + Ahead(e) < N
PoolInv == TypeOK /\ InTurn /\ CooldownEarned /\ StickyIsFresh

\* Pool.pick serves an entry, and brings the others that are ready closer to theirs.
LEMMA PickTurn ==
  ASSUME TypeOK, InTurn, NEW i \in Entries, Pick(i)
  PROVE  /\ Nth(i) \in Entries /\ next' \in Entries /\ passed' \in [Entries -> Nat] /\ InTurn'
<1>. N \in Nat \ {0}
  BY PoolAssumptions
<1>1. /\ next \in Entries /\ passed \in [Entries -> Nat]
      /\ next' = (next + i + 1) % N /\ Nth(i) \in Entries
  BY Places DEF TypeOK, Pick
<1>2. passed' = [f \in Entries |-> IF f = Nth(i) \/ ~Ready(f) THEN 0 ELSE passed[f] + 1]
  BY DEF Pick, Pass
<1>3. ASSUME NEW e \in Entries PROVE passed'[e] + Ahead(e)' < N
  <2>1. CASE e = Nth(i) \/ ~Ready(e)
    BY <1>1, <1>2, <2>1, NextPlace DEF Entries
  <2>2. CASE e # Nth(i) /\ Ready(e)
    <3>1. Ahead(e) \in Entries /\ Nth(Ahead(e)) = e
      BY <1>1, Places
    <3>2. Ahead(e) > i
      BY <2>2, <3>1 DEF Pick, Picked, Entries
    <3>3. Ahead(e)' = Ahead(e) - i - 1
      BY <1>1, <3>2, NextPlace
    <3>4. passed[e] + Ahead(e) < N /\ passed[e] \in Nat /\ passed'[e] = passed[e] + 1
      BY <1>1, <1>2, <2>2 DEF InTurn
    <3>. QED  BY <3>1, <3>3, <3>4 DEF Entries
  <2>. QED  BY <2>1, <2>2
<1>4. passed' \in [Entries -> Nat]
  BY <1>1, <1>2
<1>. QED  BY <1>1, <1>3, <1>4, NextPlace DEF InTurn

\* Pool.mark: a failure earns its cooldown, a success ends it.
LEMMA MarkHealth ==
  ASSUME TypeOK, InTurn, CooldownEarned, NEW e \in Entries, NEW ok \in BOOLEAN, Mark(e, ok),
         next' = next
  PROVE  /\ failures' \in [Entries -> 0..Cap] /\ cooldown' \in [Entries -> 0..Cap]
         /\ passed' \in [Entries -> Nat] /\ InTurn' /\ CooldownEarned'
<1>. N \in Nat \ {0} /\ Cap \in Nat \ {0}
  BY PoolAssumptions
<1>1. failures' \in [Entries -> 0..Cap]
  BY DEF TypeOK, Mark, Shorter
<1>2. cooldown' \in [Entries -> 0..Cap]
  BY <1>1 DEF TypeOK, Mark
<1>3. CooldownEarned'
  BY <1>1 DEF TypeOK, CooldownEarned, Mark
<1>4. passed' \in [Entries -> Nat]
  BY DEF TypeOK, Mark
<1>5. ASSUME NEW f \in Entries PROVE passed'[f] + Ahead(f)' < N
  <2>1. Ahead(f)' = Ahead(f) /\ Ahead(f) \in Entries
    BY Places DEF Ahead, TypeOK
  <2>2. passed'[f] = passed[f] \/ passed'[f] = 0
    BY DEF Mark, TypeOK
  <2>. QED  BY <2>1, <2>2 DEF InTurn, Entries
<1>. QED  BY <1>1, <1>2, <1>3, <1>4, <1>5 DEF InTurn

\* A step that neither picks nor marks leaves everybody's turn where it was.
LEMMA SameTurn ==
  ASSUME InTurn, UNCHANGED <<next, passed>>
  PROVE  InTurn'
BY DEF InTurn, Ahead

-----------------------------------------------------------------------------
LEMMA InitPool == Init => PoolInv
<1>. SUFFICES ASSUME Init PROVE PoolInv
  OBVIOUS
<1>. N \in Nat \ {0} /\ Cap \in Nat \ {0}
  BY PoolAssumptions
<1>1. TypeOK
  <2>1. 0 \in Entries /\ 0 \in 0..Cap
    BY DEF Entries
  <2>. QED  BY <2>1 DEF Init, TypeOK
<1>2. InTurn
  BY DEF Init, InTurn, Ahead, Entries
<1>3. CooldownEarned /\ StickyIsFresh
  BY DEF Init, CooldownEarned, StickyIsFresh
<1>. QED  BY <1>1, <1>2, <1>3 DEF PoolInv

\* A client is given the entry picked for it.
LEMMA HTTPClientKeeps ==
  ASSUME PoolInv, NEW c \in Clients, HTTPClient(c)
  PROVE  PoolInv'
<1>1. PICK i \in Entries : Pick(i) /\ client' = [client EXCEPT ![c] = Nth(i)]
  BY DEF HTTPClient
<1>2. /\ Nth(i) \in Entries /\ next' \in Entries /\ passed' \in [Entries -> Nat] /\ InTurn'
  BY <1>1, PickTurn DEF PoolInv
<1>3. TypeOK'
  BY <1>1, <1>2 DEF HTTPClient, PoolInv, TypeOK, health
<1>4. CooldownEarned' /\ StickyIsFresh'
  BY DEF HTTPClient, PoolInv, CooldownEarned, StickyIsFresh, health
<1>. QED  BY <1>2, <1>3, <1>4 DEF PoolInv

\* An answer or a check reports on its entry, and touches neither turns nor dials.
LEMMA ReportKeeps ==
  ASSUME PoolInv, NEW e \in Entries, NEW ok \in BOOLEAN, Check(e, ok)
  PROVE  PoolInv'
<1>1. /\ failures' \in [Entries -> 0..Cap] /\ cooldown' \in [Entries -> 0..Cap]
      /\ passed' \in [Entries -> Nat] /\ InTurn' /\ CooldownEarned'
  BY MarkHealth DEF Check, PoolInv
<1>2. TypeOK'
  BY <1>1 DEF Check, PoolInv, TypeOK
<1>3. StickyIsFresh'
  BY DEF Check, PoolInv, StickyIsFresh
<1>. QED  BY <1>1, <1>2, <1>3 DEF PoolInv

\* A dial goes through the sticky entry, or through a pick that is sticky from now on.
LEMMA StartDialKeeps ==
  ASSUME PoolInv, NEW d \in Dials, StartDial(d)
  PROVE  PoolInv'
<1>. /\ failures' = failures /\ cooldown' = cooldown /\ client' = client
  BY DEF StartDial, health
<1>1. CooldownEarned'
  BY DEF PoolInv, CooldownEarned
<1>2. CASE /\ sticky # None
           /\ dial' = [dial EXCEPT ![d] = [pc |-> "dialing", entry |-> sticky]]
           /\ UNCHANGED <<next, passed, sticky, stale>>
  <2>1. TypeOK'
    BY <1>2 DEF PoolInv, TypeOK
  <2>2. InTurn'
    BY <1>2, SameTurn DEF PoolInv
  <2>3. ASSUME stale' PROVE \E x \in Dials : dial'[x].pc = "failed" /\ dial'[x].entry = sticky'
    <3>1. PICK x \in Dials : dial[x].pc = "failed" /\ dial[x].entry = sticky
      BY <1>2, <2>3 DEF PoolInv, StickyIsFresh
    <3>2. x # d
      BY <3>1 DEF StartDial, Idle
    <3>3. dial'[x] = dial[x]
      BY <1>2, <3>2 DEF PoolInv, TypeOK
    <3>. QED  BY <1>2, <3>1, <3>3
  <2>4. StickyIsFresh'
    BY <2>3 DEF StickyIsFresh
  <2>. QED  BY <1>1, <2>1, <2>2, <2>4 DEF PoolInv
<1>3. CASE /\ sticky = None
           /\ \E i \in Entries :
                /\ Pick(i) /\ sticky' = Nth(i) /\ stale' = FALSE
                /\ dial' = [dial EXCEPT ![d] = [pc |-> "dialing", entry |-> Nth(i)]]
  <2>1. PICK i \in Entries :
          /\ Pick(i) /\ sticky' = Nth(i) /\ stale' = FALSE
          /\ dial' = [dial EXCEPT ![d] = [pc |-> "dialing", entry |-> Nth(i)]]
    BY <1>3
  <2>2. Nth(i) \in Entries /\ next' \in Entries /\ passed' \in [Entries -> Nat] /\ InTurn'
    BY <2>1, PickTurn DEF PoolInv
  <2>3. TypeOK'
    BY <2>1, <2>2 DEF PoolInv, TypeOK
  <2>4. StickyIsFresh'
    BY <2>1 DEF StickyIsFresh
  <2>. QED  BY <1>1, <2>2, <2>3, <2>4 DEF PoolInv
<1>. QED  BY <1>2, <1>3 DEF StartDial

\* The end of a dial reports on its entry; if that is the sticky one and the dial
\* has failed, this dial is the one that is to give it up.
LEMMA EndDialKeeps ==
  ASSUME PoolInv, NEW d \in Dials, NEW ok \in BOOLEAN, EndDial(d, ok)
  PROVE  PoolInv'
<1>1. dial[d] \in [pc : {"dialing", "failed"}, entry : Entries]
  BY DEF EndDial, PoolInv, TypeOK, Idle
<1>2. /\ failures' \in [Entries -> 0..Cap] /\ cooldown' \in [Entries -> 0..Cap]
      /\ passed' \in [Entries -> Nat] /\ InTurn' /\ CooldownEarned'
  BY <1>1, MarkHealth DEF EndDial, PoolInv
<1>3. TypeOK'
  <2>1. dial' \in [Dials -> {Idle} \cup [pc : {"dialing", "failed"}, entry : Entries]]
    BY <1>1 DEF EndDial, PoolInv, TypeOK
  <2>2. stale' \in BOOLEAN
    BY DEF EndDial, PoolInv, TypeOK
  <2>. QED  BY <1>2, <2>1, <2>2 DEF EndDial, PoolInv, TypeOK
<1>4. ASSUME stale' PROVE \E x \in Dials : dial'[x].pc = "failed" /\ dial'[x].entry = sticky'
  <2>1. CASE stale
    <3>1. PICK x \in Dials : dial[x].pc = "failed" /\ dial[x].entry = sticky
      BY <2>1 DEF PoolInv, StickyIsFresh
    <3>2. x # d
      BY <3>1 DEF EndDial
    <3>3. dial'[x] = dial[x]
      BY <3>2 DEF EndDial, PoolInv, TypeOK
    <3>. QED  BY <3>1, <3>3 DEF EndDial
  <2>2. CASE ~stale
    <3>1. ~ok /\ sticky = dial[d].entry /\ sticky' = sticky
      BY <1>4, <2>2 DEF EndDial
    <3>2. dial'[d] = [dial[d] EXCEPT !.pc = "failed"]
      BY <3>1 DEF EndDial, PoolInv, TypeOK
    <3>3. dial'[d].pc = "failed" /\ dial'[d].entry = sticky'
      BY <1>1, <3>1, <3>2
    <3>. QED  BY <3>3
  <2>. QED  BY <2>1, <2>2
<1>5. StickyIsFresh'
  BY <1>4 DEF StickyIsFresh
<1>. QED  BY <1>2, <1>3, <1>5 DEF PoolInv

\* A failed dial gives up its own entry only, so what another one has yet to give up
\* stays its to give up.
LEMMA LeaveKeeps ==
  ASSUME PoolInv, NEW d \in Dials, Leave(d)
  PROVE  PoolInv'
<1>1. TypeOK'
  <2>1. dial' \in [Dials -> {Idle} \cup [pc : {"dialing", "failed"}, entry : Entries]]
    BY DEF Leave, PoolInv, TypeOK
  <2>2. stale' \in BOOLEAN /\ sticky' \in Entries \cup {None}
    BY DEF Leave, PoolInv, TypeOK
  <2>. QED  BY <2>1, <2>2 DEF Leave, PoolInv, TypeOK, health
<1>2. InTurn' /\ CooldownEarned'
  BY SameTurn DEF Leave, PoolInv, CooldownEarned, health
<1>3. ASSUME stale' PROVE \E x \in Dials : dial'[x].pc = "failed" /\ dial'[x].entry = sticky'
  <2>1. stale /\ sticky' # None
    BY <1>3 DEF Leave
  <2>2. sticky # dial[d].entry /\ sticky' = sticky
    BY <2>1 DEF Leave
  <2>3. PICK x \in Dials : dial[x].pc = "failed" /\ dial[x].entry = sticky
    BY <2>1 DEF PoolInv, StickyIsFresh
  <2>4. dial'[x] = dial[x]
    BY <2>2, <2>3 DEF Leave, PoolInv, TypeOK
  <2>. QED  BY <2>2, <2>3, <2>4
<1>4. StickyIsFresh'
  BY <1>3 DEF StickyIsFresh
<1>. QED  BY <1>1, <1>2, <1>4 DEF PoolInv

LEMMA TickKeeps ==
  ASSUME PoolInv, Tick
  PROVE  PoolInv'
<1>. Cap \in Nat \ {0}
  BY PoolAssumptions
<1>1. cooldown' \in [Entries -> 0..Cap] /\ \A e \in Entries : cooldown'[e] <= cooldown[e]
  BY DEF Tick, Ready, PoolInv, TypeOK
<1>2. TypeOK'
  BY <1>1 DEF Tick, PoolInv, TypeOK
<1>3. CooldownEarned'
  BY <1>1 DEF Tick, PoolInv, CooldownEarned, TypeOK
<1>4. InTurn' /\ StickyIsFresh'
  BY SameTurn DEF Tick, PoolInv, StickyIsFresh
<1>. QED  BY <1>2, <1>3, <1>4 DEF PoolInv

LEMMA NextPool == PoolInv /\ [Next]_vars => PoolInv'
<1>. SUFFICES ASSUME PoolInv, [Next]_vars PROVE PoolInv'
  OBVIOUS
<1>1. CASE \E c \in Clients : HTTPClient(c)
  BY <1>1, HTTPClientKeeps
<1>2. ASSUME NEW c \in Clients, Drop(c) PROVE PoolInv'
  <2>1. TypeOK'
    BY <1>2 DEF Drop, PoolInv, TypeOK, health
  <2>2. InTurn' /\ CooldownEarned' /\ StickyIsFresh'
    BY <1>2, SameTurn DEF Drop, PoolInv, CooldownEarned, StickyIsFresh, health
  <2>. QED  BY <2>1, <2>2 DEF PoolInv
<1>3. ASSUME NEW c \in Clients, NEW ok \in BOOLEAN, RoundTrip(c, ok) PROVE PoolInv'
  <2>1. client[c] \in Entries /\ Check(client[c], ok)
    BY <1>3 DEF RoundTrip, Check, PoolInv, TypeOK
  <2>. QED  BY <2>1, ReportKeeps
<1>4. CASE \E e \in Entries, ok \in BOOLEAN : Check(e, ok)
  BY <1>4, ReportKeeps
<1>5. CASE \E d \in Dials : StartDial(d)
  BY <1>5, StartDialKeeps
<1>6. CASE \E d \in Dials : Leave(d)
  BY <1>6, LeaveKeeps
<1>7. CASE \E d \in Dials, ok \in BOOLEAN : EndDial(d, ok)
  BY <1>7, EndDialKeeps
<1>8. CASE Tick
  BY <1>8, TickKeeps
<1>9. CASE UNCHANGED vars
  BY <1>9, SameTurn DEF vars, PoolInv, TypeOK, CooldownEarned, StickyIsFresh
<1>. QED  BY <1>1, <1>2, <1>3, <1>4, <1>5, <1>6, <1>7, <1>8, <1>9 DEF Next

LEMMA PoolInvariant == Spec => []PoolInv
BY InitPool, NextPool, PTL DEF Spec

-----------------------------------------------------------------------------
\* Every field of the pool, its dialer and its clients keeps its type: no place
\* leaves the list, and no client or dial is left without an entry.
THEOREM TypeCorrect == Spec => []TypeOK
BY PoolInvariant, PTL DEF PoolInv

\* Pool.pick: however many proxies there are, and whatever rests meanwhile, a proxy
\* that is ready is picked before the others have been picked more often than there
\* are others.
THEOREM Fairness == Spec => []NotStarved
<1>1. PoolInv => NotStarved
  <2>. SUFFICES ASSUME PoolInv, NEW e \in Entries PROVE passed[e] < N
    BY DEF NotStarved
  <2>1. Ahead(e) \in Entries /\ passed[e] \in Nat /\ passed[e] + Ahead(e) < N
    BY Places DEF PoolInv, TypeOK, InTurn
  <2>. QED  BY <2>1, PoolAssumptions DEF Entries
<1>. QED  BY <1>1, PoolInvariant, PTL

\* Pool.mark: a proxy rests only for failures that no later answer made up for.
THEOREM RestIsEarned == Spec => []CooldownEarned
BY PoolInvariant, PTL DEF PoolInv

\* NetDialContext: with any number of dials in flight, the proxy a failed dial went
\* through is not the one new dials stay with once that dial has returned.
THEOREM FreshDialer == Spec => []StickyIsFresh
BY PoolInvariant, PTL DEF PoolInv

-----------------------------------------------------------------------------
(***************************************************************************)
(* The settings and the list of proxies.  The inductive invariant: only    *)
(* one request is under way while it is alone, requests that met leave     *)
(* nothing settled, and what a lone request has yet to do is known from    *)
(* where it stands, whatever state it found.                               *)
(***************************************************************************)
Kept == /\ "file" \notin apart => file = mem
        /\ "pool" \notin apart => ToSet(Listed) = wanted.urls
        /\ ToSet(mem.pool) = wanted.urls /\ mem.rest = wanted.rest

Company ==
    /\ \A a \in Admins : alone = a =>
         req[a] # NoRequest /\ \A b \in Admins \ {a} : req[b] = NoRequest
    /\ alone = Nil /\ settled => Quiet /\ Kept

\* A lone request at a place where it has changed nothing yet.
Before(a) ==
    /\ req[a].pc = "read" /\ req[a].kind = "remove" => goal = {}
    /\ req[a].pc = "swap" => ToSet(req[a].list) = goal
    /\ settled /\ (\/ req[a].pc = "read"
                   \/ req[a].pc = "swap" /\ req[a].kind # "put"
                   \/ req[a].pc = "write" /\ req[a].kind = "put") => Kept

\* One that has changed the pool and is to copy it into the settings.
Copying(a) == req[a].kind # "put" =>
    /\ req[a].pc \in {"get", "list", "write", "set"} =>
         ToSet(Listed) = goal /\ (settled => mem.rest = wanted.rest)
    /\ req[a].pc \in {"list", "write", "set"} => req[a].v.rest = mem.rest
    /\ req[a].pc \in {"write", "set"} => ToSet(req[a].v.pool) = goal
    /\ req[a].pc = "set" => file = req[a].v

\* One that saves settings, whose list it will pass on to the pool.
Saving(a) == req[a].kind = "put" =>
    /\ req[a].pc \in {"write", "set", "swap"} /\ ToSet(req[a].v.pool) = goal
    /\ req[a].pc \in {"set", "swap"} => file = req[a].v
    /\ req[a].pc = "swap" => mem = req[a].v /\ req[a].list = req[a].v.pool

Alone == \A a \in Admins : alone = a => Before(a) /\ Copying(a) /\ Saving(a)
Consistent == Company /\ Alone

-----------------------------------------------------------------------------
\* What Keeping computes.
LEMMA KeepingIs ==
  ASSUME NEW S, NEW list \in Seq(S), NEW P
  PROVE  /\ Keeping(list, P) \in Seq(S)
         /\ ToSet(Keeping(list, P)) = {list[n] : n \in DOMAIN list \cap P}
         /\ (\A m, n \in DOMAIN list \cap P : list[m] = list[n] => m = n)
              => IsInjective(Keeping(list, P))
<1>. DEFINE N1 == Len(list)
            G  == [p \in (1..N1) \X Seq(S) |->
                     IF p[1] \in P THEN Append(p[2], list[p[1]]) ELSE p[2]]
            kept[n \in 0..N1] ==
               IF n = 0 THEN <<>> ELSE IF n \in P THEN Append(kept[n - 1], list[n]) ELSE kept[n - 1]
<1>1. N1 \in Nat /\ <<>> \in Seq(S) /\ DOMAIN list = 1..N1 /\ \A n \in 1..N1 : list[n] \in S
  OBVIOUS
<1>. HIDE DEF kept
<1>2. G \in [(1..N1) \X Seq(S) -> Seq(S)]
  <2>1. \A p \in (1..N1) \X Seq(S) :
          (IF p[1] \in P THEN Append(p[2], list[p[1]]) ELSE p[2]) \in Seq(S)
    BY <1>1
  <2>. QED  BY <2>1
<1>3. PICK f \in [0..N1 -> Seq(S)] : f[0] = <<>> /\ \A n \in 1..N1 : f[n] = G[<<n, f[n - 1]>>]
  <2>1. Solvable(N1, Seq(S), <<>>, G)
    <3>. HIDE DEF N1, G
    <3>. QED  BY <1>1, <1>2, Recursion, Zenon
  <2>. QED  BY <2>1 DEF Solvable
<1>4. ASSUME NEW n \in 1..N1
      PROVE  f[n] = IF n \in P THEN Append(f[n - 1], list[n]) ELSE f[n - 1]
  <2>1. n - 1 \in 0..N1
    BY <1>1
  <2>2. f[n - 1] \in Seq(S) /\ f[n] = G[<<n, f[n - 1]>>]
    BY <1>3, <2>1
  <2>. QED  BY <2>2
<1>5. f = [n \in 0..N1 |->
             IF n = 0 THEN <<>> ELSE IF n \in P THEN Append(f[n - 1], list[n]) ELSE f[n - 1]]
  <2>1. \A n \in 0..N1 : n = 0 \/ n \in 1..N1
    BY <1>1
  <2>. HIDE DEF N1, G
  <2>. QED  BY <1>3, <1>4, <2>1
<1>6. kept = [n \in 0..N1 |->
             IF n = 0 THEN <<>> ELSE IF n \in P THEN Append(kept[n - 1], list[n]) ELSE kept[n - 1]]
  <2>. HIDE DEF G, N1
  <2>. QED  BY <1>5 DEF kept
<1>7. PICK g : /\ Keeping(list, P) = g[N1]
               /\ \A n \in 0..N1 : g[n] = IF n = 0 THEN <<>>
                                       ELSE IF n \in P THEN Append(g[n - 1], list[n]) ELSE g[n - 1]
  <2>1. Keeping(list, P) = kept[N1]
    BY DEF Keeping, kept
  <2>2. \A n \in 0..N1 : kept[n] = IF n = 0 THEN <<>>
                                  ELSE IF n \in P THEN Append(kept[n - 1], list[n]) ELSE kept[n - 1]
    <3>. HIDE DEF N1, G
    <3>. QED  BY <1>6
  <2>. HIDE DEF N1, G
  <2>. QED  BY <2>1, <2>2
<1>. DEFINE Upto(n) == {list[m] : m \in (1..n) \cap P}
            Apart == \A m, n \in DOMAIN list \cap P : list[m] = list[n] => m = n
            Good == {n \in 0..N1 : /\ g[n] \in Seq(S) /\ ToSet(g[n]) = Upto(n)
                                   /\ Apart => IsInjective(g[n])}
<1>8. 0 \in Good
  <2>1. g[0] = <<>> /\ 0 \in 0..N1
    BY <1>1, <1>7
  <2>2. ToSet(<<>>) = {} /\ Upto(0) = {} /\ IsInjective(<<>>)
    BY DEF ToSet, IsInjective
  <2>. QED  BY <1>1, <2>1, <2>2
<1>9. ASSUME NEW n \in 1..N1, n - 1 \in Good PROVE n \in Good
  <2>1. n \in 0..N1 /\ n # 0 /\ n - 1 \in Nat /\ 1..n = (1..(n - 1)) \cup {n} /\ n \notin 1..(n - 1)
        /\ 1..(n - 1) \subseteq DOMAIN list /\ n \in DOMAIN list /\ list[n] \in S
    BY <1>1
  <2>2. g[n] = IF n \in P THEN Append(g[n - 1], list[n]) ELSE g[n - 1]
    <3>. HIDE DEF N1
    <3>. QED  BY <1>7, <2>1
  <2>3. g[n - 1] \in Seq(S) /\ ToSet(g[n - 1]) = Upto(n - 1) /\ (Apart => IsInjective(g[n - 1]))
    BY <1>9
  <2>4. CASE n \notin P
    <3>1. Upto(n) = Upto(n - 1)
      BY <2>1, <2>4
    <3>. HIDE DEF Upto, Apart, N1
    <3>. QED  BY <2>1, <2>2, <2>3, <2>4, <3>1
  <2>5. CASE n \in P
    <3>. DEFINE k == g[n - 1]
                l == Append(k, list[n])
    <3>1. Upto(n) = Upto(n - 1) \cup {list[n]}
      BY <2>1, <2>5
    <3>2. /\ l \in Seq(S) /\ Len(k) \in Nat /\ DOMAIN k = 1..Len(k) /\ DOMAIN l = 1..(Len(k) + 1)
          /\ \A i \in 1..Len(k) : l[i] = k[i]
          /\ l[Len(k) + 1] = list[n]
      <4>. HIDE DEF k
      <4>1. k \in Seq(S)
        BY <2>3 DEF k
      <4>. QED  BY <2>1, <4>1
    <3>. HIDE DEF k, l
    <3>3. ToSet(l) = ToSet(k) \cup {list[n]}
      <4>1. ToSet(k) = {k[i] : i \in 1..Len(k)} /\ ToSet(l) = {l[i] : i \in 1..(Len(k) + 1)}
        BY <3>2, Zenon DEF ToSet
      <4>2. 1..(Len(k) + 1) = (1..Len(k)) \cup {Len(k) + 1}
        BY <3>2
      <4>. QED  BY <3>2, <4>1, <4>2
    <3>4. ASSUME Apart PROVE IsInjective(l)
      <4>1. list[n] \notin ToSet(k)
        <5>1. list[n] \notin Upto(n - 1)
          BY <2>1, <2>5, <3>4
        <5>. QED  BY <2>3, <5>1 DEF k
      <4>2. IsInjective(k)
        BY <2>3, <3>4 DEF k
      <4>. HIDE DEF Apart
      <4>. QED  BY <3>2, <4>1, <4>2 DEF ToSet, IsInjective
    <3>5. g[n] = l /\ ToSet(k) = Upto(n - 1)
      BY <2>2, <2>3, <2>5 DEF k, l
    <3>. HIDE DEF Upto, Apart, N1
    <3>. QED  BY <2>1, <3>1, <3>2, <3>3, <3>4, <3>5
  <2>. QED  BY <2>4, <2>5
<1>10. N1 \in Good
  <2>1. N1 \in 0..N1
    BY <1>1
  <2>. HIDE DEF N1, Good
  <2>. QED  BY <1>1, <1>8, <1>9, <2>1, Counting
<1>11. Upto(N1) = {list[n] : n \in DOMAIN list \cap P}
  BY <1>1
<1>12. g[N1] \in Seq(S) /\ ToSet(g[N1]) = Upto(N1) /\ (Apart => IsInjective(g[N1]))
  BY <1>10
<1>. HIDE DEF Upto, N1
<1>. QED  BY <1>7, <1>11, <1>12

\* NewPool keeps every proxy of the list, once.
LEMMA DistinctIs ==
  ASSUME NEW S, NEW list \in Seq(S)
  PROVE  /\ Distinct(list) \in Seq(S) /\ IsInjective(Distinct(list))
         /\ ToSet(Distinct(list)) = ToSet(list)
<1>. DEFINE First(n) == \A m \in 1..(n - 1) : list[m] # list[n]
            P == {n \in DOMAIN list : First(n)}
<1>1. Len(list) \in Nat /\ DOMAIN list = 1..Len(list)
  OBVIOUS
<1>2. ASSUME NEW m \in DOMAIN list \cap P, NEW n \in DOMAIN list \cap P, list[m] = list[n]
      PROVE  m = n
  <2>1. m \in Nat /\ n \in Nat /\ m >= 1 /\ n >= 1
    BY <1>1
  <2>2. ~(m < n) /\ ~(n < m)
    BY <1>2, <2>1
  <2>. QED  BY <2>1, <2>2
<1>3. ASSUME NEW i \in DOMAIN list PROVE \E n \in DOMAIN list \cap P : list[n] = list[i]
  <2>. DEFINE T == {n \in DOMAIN list : list[n] = list[i]}
  <2>1. T \in SUBSET Nat /\ T # {}
    BY <1>1
  <2>2. PICK n \in T : \A m \in T : n <= m
    <3>. HIDE DEF T
    <3>. QED  BY <2>1, Smallest
  <2>3. First(n)
    <3>. SUFFICES ASSUME NEW m \in 1..(n - 1), list[m] = list[n] PROVE FALSE
      OBVIOUS
    <3>1. m \in T /\ n \in Nat
      BY <1>1, <2>2
    <3>. QED  BY <2>2, <3>1
  <2>. QED  BY <2>2, <2>3
<1>4. {list[n] : n \in DOMAIN list \cap P} = ToSet(list)
  <2>. HIDE DEF P
  <2>. QED  BY <1>3 DEF ToSet
<1>5. Distinct(list) = Keeping(list, P)
  BY DEF Distinct
<1>. HIDE DEF P
<1>6. /\ Keeping(list, P) \in Seq(S)
      /\ ToSet(Keeping(list, P)) = {list[n] : n \in DOMAIN list \cap P}
      /\ (\A m, n \in DOMAIN list \cap P : list[m] = list[n] => m = n)
           => IsInjective(Keeping(list, P))
  BY KeepingIs
<1>. QED  BY <1>2, <1>4, <1>5, <1>6

LEMMA WithoutIs ==
  ASSUME NEW S, NEW list \in Seq(S), NEW u
  PROVE  Without(list, u) \in Seq(S)
BY KeepingIs DEF Without

-----------------------------------------------------------------------------
UrlLists == Seq(Urls \cup {Bad})
StoresTyped ==
    /\ {file, mem} \subseteq Settings /\ Accepted(file.pool) /\ Accepted(mem.pool)
    /\ pool = Nil \/ (pool \in Seq(Urls) /\ IsInjective(pool))
HistoryTyped ==
    /\ alone \in Admins \cup {Nil} /\ goal \subseteq Urls \cup {Bad} /\ settled \in BOOLEAN
    /\ wanted \in [urls : SUBSET (Urls \cup {Bad}), rest : Rest]
    /\ apart \subseteq {"file", "pool"}

LEMMA TypedParts ==
  SettingsTyped <=> StoresTyped /\ HistoryTyped /\ req \in [Admins -> Requests]
BY DEF SettingsTyped, StoresTyped, HistoryTyped

LEMMA AcceptedSeq ==
  ASSUME NEW list \in UrlLists, Accepted(list)
  PROVE  list \in Seq(Urls)
<1>1. Len(list) \in Nat /\ list = [i \in 1..Len(list) |-> list[i]] /\ DOMAIN list = 1..Len(list)
  BY DEF UrlLists
<1>2. \A i \in 1..Len(list) : list[i] \in Urls
  BY <1>1 DEF Accepted, ToSet
<1>. QED  BY <1>1, <1>2

\* The list of the pool, and what a new pool is made of.
LEMMA ListedIs ==
  ASSUME StoresTyped
  PROVE  Listed \in Seq(Urls) /\ Listed \in UrlLists /\ Accepted(Listed)
<1>1. Listed \in Seq(Urls)
  BY DEF StoresTyped, Listed
<1>2. \A list \in Seq(Urls) : list \in UrlLists /\ ToSet(list) \subseteq Urls
  BY DEF UrlLists, ToSet
<1>. QED  BY <1>1, <1>2 DEF Accepted

LEMMA NewPoolIs ==
  ASSUME NEW list \in UrlLists, Accepted(list)
  PROVE  /\ Distinct(list) \in Seq(Urls) /\ IsInjective(Distinct(list))
         /\ ToSet(Distinct(list)) = ToSet(list) /\ Distinct(list) # Nil
<1>1. list \in Seq(Urls)
  BY AcceptedSeq
<1>2. /\ Distinct(list) \in Seq(Urls) /\ IsInjective(Distinct(list))
      /\ ToSet(Distinct(list)) = ToSet(list)
  BY <1>1, DistinctIs
<1>. QED  BY <1>2, SettingsAssumptions

\* The pool a start makes, of the environment or of what is stored.
LEMMA StartPoolIs ==
  ASSUME NEW env \in Envs, NEW list \in UrlLists, Accepted(list)
  PROVE  /\ LET p == StartPool(env, list)
            IN  p = Nil \/ (p \in Seq(Urls) /\ IsInjective(p))
         /\ env = Nil => ToSet(IF StartPool(env, list) = Nil THEN <<>> ELSE StartPool(env, list))
                           = ToSet(list)
<1>. DEFINE used == IF env = Nil THEN list ELSE env
<1>1. \A l \in Seq(Urls) : l \in UrlLists /\ ToSet(l) \subseteq Urls
  BY DEF UrlLists, ToSet
<1>2. used \in UrlLists /\ Accepted(used)
  BY <1>1, SettingsAssumptions DEF Accepted
<1>3. StartPool(env, list) = IF used = <<>> THEN Nil ELSE Distinct(used)
  BY DEF StartPool
<1>4. env = Nil => used = list
  OBVIOUS
<1>. HIDE DEF used
<1>5. /\ Distinct(used) \in Seq(Urls) /\ IsInjective(Distinct(used))
      /\ ToSet(Distinct(used)) = ToSet(used) /\ Distinct(used) # Nil
  BY <1>2, NewPoolIs
<1>. QED  BY <1>3, <1>4, <1>5

LEMMA RequestIs ==
  ASSUME req \in [Admins -> Requests], NEW a \in Admins
  PROVE  /\ req[a] \in Requests /\ req[a].pc \in Stages
         /\ req[a].kind \in {"add", "remove", "clear", "put", Nil}
         /\ req[a].url \in Urls \cup {Bad, Nil} /\ req[a].list \in UrlLists
         /\ req[a].v \in Settings /\ req[a].v.pool \in UrlLists /\ req[a].v.rest \in Rest
         /\ req[a].pc = "read" => req[a].url \in Urls \cup {Bad}
         /\ req[a].pc = "set" => Accepted(req[a].v.pool)
BY DEF Requests, Holdings, Settings, UrlLists

LEMMA StepIs ==
  ASSUME req \in [Admins -> Requests], NEW a \in Admins, NEW r \in Requests, Step(a, r)
  PROVE  /\ req' \in [Admins -> Requests] /\ req'[a] = r
         /\ \A b \in Admins \ {a} : req'[b] = req[b]
BY DEF Step

LEMMA Idling ==
  /\ Defaults \in Settings /\ Defaults.pool = <<>> /\ Defaults.rest = Default
  /\ NoRequest \in Requests /\ NoRequest.pc = "idle" /\ NoRequest.v = Defaults
  /\ NoRequest.list = <<>> /\ Accepted(<<>>) /\ ToSet(<<>>) = {} /\ <<>> \in UrlLists
<1>1. <<>> \in UrlLists /\ Accepted(<<>>) /\ ToSet(<<>>) = {}
  BY DEF UrlLists, Accepted, ToSet
<1>2. Defaults \in Settings
  BY <1>1, SettingsAssumptions DEF Defaults, Settings, UrlLists
<1>. QED  BY <1>1, <1>2 DEF NoRequest, Requests, Holdings, Stages, UrlLists, Defaults

\* Requests that start, end well and fail.
LEMMA StartTyped ==
  ASSUME SettingsTyped, NEW a \in Admins, NEW r \in Requests, Start(a, r)
  PROVE  SettingsTyped'
<1>0. StoresTyped /\ HistoryTyped /\ req \in [Admins -> Requests]
  BY TypedParts
<1>1. req' \in [Admins -> Requests]
  BY <1>0, StepIs DEF Start
<1>2. ToSet(r.v.pool) \subseteq Urls \cup {Bad}
  <2>1. r.v.pool \in UrlLists
    BY DEF Requests, Holdings, Settings, UrlLists
  <2>. QED  BY <2>1 DEF UrlLists, ToSet
<1>3. /\ alone' = IF Quiet THEN a ELSE Nil
      /\ goal' = IF Quiet THEN ToSet(r.v.pool) ELSE {}
      /\ settled' = (settled /\ Quiet)
      /\ wanted' = IF settled' THEN wanted ELSE Nothing
  BY DEF Start
<1>4. Nothing \in [urls : SUBSET (Urls \cup {Bad}), rest : Rest]
  BY SettingsAssumptions DEF Nothing
<1>5. settled' \in BOOLEAN
  BY <1>3
<1>a. apart' = apart
  BY DEF Start
<1>6. HistoryTyped'
  BY <1>0, <1>2, <1>3, <1>4, <1>5, <1>a DEF HistoryTyped
<1>7. StoresTyped'
  BY <1>0 DEF Start, stores, StoresTyped
<1>. QED  BY <1>1, <1>6, <1>7 DEF SettingsTyped, StoresTyped, HistoryTyped

\* The part of Write that fails.
Spoil(a) ==
    /\ FailWith(a, req[a].kind # "put")
    /\ file' \in IF Accepted(req[a].v.pool) THEN {file, req[a].v, Defaults} ELSE {file}
    /\ apart' = IF file' = file THEN apart ELSE apart \cup {"file"}

LEMMA EndTyped ==
  ASSUME SettingsTyped, NEW a \in Admins,
         \/ Succeed(a)
         \/ (\E harm \in BOOLEAN : FailWith(a, harm)) /\ apart' \subseteq {"file", "pool"}
  PROVE  HistoryTyped' /\ req' \in [Admins -> Requests]
<1>0. HistoryTyped /\ req \in [Admins -> Requests]
  BY TypedParts
<1>1. Step(a, NoRequest) /\ alone' = Nil /\ goal' = {}
  BY DEF Succeed, FailWith
<1>2. settled' \in BOOLEAN
  BY DEF Succeed, FailWith
<1>3. wanted' \in [urls : SUBSET (Urls \cup {Bad}), rest : Rest]
  <2>1. req[a].v.rest \in Rest
    BY <1>0, RequestIs
  <2>2. CASE Succeed(a)
    BY <1>0, <2>1, <2>2 DEF Succeed, Stands, HistoryTyped
  <2>3. CASE \E harm \in BOOLEAN : FailWith(a, harm)
    BY <1>0, <2>3, SettingsAssumptions DEF FailWith, Nothing, HistoryTyped
  <2>. QED  BY <2>2, <2>3
<1>4. req' \in [Admins -> Requests]
  BY <1>0, <1>1, StepIs, Idling
<1>5. apart' \subseteq {"file", "pool"}
  BY <1>0 DEF Succeed, Stands, HistoryTyped
<1>. QED  BY <1>1, <1>2, <1>3, <1>4, <1>5 DEF HistoryTyped

\* What a request holds after a step of its own.
LEMMA FieldsTyped ==
  ASSUME req \in [Admins -> Requests], NEW a \in Admins
  PROVE  /\ \A list \in UrlLists :
              /\ [req[a] EXCEPT !.pc = "swap", !.list = list] \in Requests
              /\ [req[a] EXCEPT !.pc = "swap", !.url = Nil, !.list = list] \in Requests
              /\ [req[a] EXCEPT !.pc = "get", !.list = list] \in Requests
              /\ [req[a] EXCEPT !.pc = "write", !.v.pool = list] \in Requests
         /\ [req[a] EXCEPT !.pc = "get", !.url = Nil] \in Requests
         /\ \A v \in Settings : [req[a] EXCEPT !.pc = "list", !.v = v] \in Requests
         /\ Accepted(req[a].v.pool) => [req[a] EXCEPT !.pc = "set"] \in Requests
<1>1. req[a] \in Holdings
  BY DEF Requests
<1>2. ASSUME NEW list \in UrlLists
      PROVE  /\ [req[a] EXCEPT !.pc = "swap", !.list = list] \in Requests
             /\ [req[a] EXCEPT !.pc = "swap", !.url = Nil, !.list = list] \in Requests
             /\ [req[a] EXCEPT !.pc = "get", !.list = list] \in Requests
             /\ [req[a] EXCEPT !.pc = "write", !.v.pool = list] \in Requests
  BY <1>1 DEF Requests, Holdings, Stages, Settings, UrlLists
<1>3. [req[a] EXCEPT !.pc = "get", !.url = Nil] \in Requests
  BY <1>1 DEF Requests, Holdings, Stages
<1>4. ASSUME NEW v \in Settings PROVE [req[a] EXCEPT !.pc = "list", !.v = v] \in Requests
  BY <1>1 DEF Requests, Holdings, Stages
<1>5. ASSUME Accepted(req[a].v.pool) PROVE [req[a] EXCEPT !.pc = "set"] \in Requests
  BY <1>1, <1>5 DEF Requests, Holdings, Stages
<1>. QED  BY <1>2, <1>3, <1>4, <1>5

LEMMA NewRequests ==
  /\ \A u \in Urls \cup {Bad} :
       /\ [NoRequest EXCEPT !.pc = "read", !.kind = "add", !.url = u] \in Requests
       /\ [NoRequest EXCEPT !.pc = "read", !.kind = "remove", !.url = u] \in Requests
  /\ [NoRequest EXCEPT !.pc = "swap", !.kind = "clear"] \in Requests
  /\ \A v \in Settings : [NoRequest EXCEPT !.pc = "write", !.kind = "put", !.v = v] \in Requests
<1>1. NoRequest \in Holdings /\ Nil \notin Urls \cup {Bad}
  BY Idling, SettingsAssumptions DEF Requests
<1>. QED  BY <1>1 DEF Requests, Holdings, Stages

LEMMA NextSettingsTyped ==
  ASSUME SettingsTyped, [SettingsNext]_settingsVars
  PROVE  SettingsTyped'
<1>0. StoresTyped /\ HistoryTyped /\ req \in [Admins -> Requests]
  BY TypedParts
<1>a. StoresTyped' /\ HistoryTyped' /\ req' \in [Admins -> Requests] => SettingsTyped'
  BY DEF SettingsTyped, StoresTyped, HistoryTyped
<1>b. UNCHANGED stores => StoresTyped'
  BY <1>0 DEF stores, StoresTyped
<1>c. UNCHANGED history => HistoryTyped'
  BY <1>0 DEF history, HistoryTyped
<1>d. \A a \in Admins :
        \/ Succeed(a)
        \/ (\E harm \in BOOLEAN : FailWith(a, harm)) /\ apart' \subseteq {"file", "pool"}
        => HistoryTyped' /\ req' \in [Admins -> Requests]
  BY EndTyped
<1>e. UNCHANGED apart => apart' \subseteq {"file", "pool"}
  BY <1>0 DEF HistoryTyped
<1>f. {file, mem} \subseteq Settings /\ Accepted(file.pool) /\ Accepted(mem.pool)
      /\ file.pool \in UrlLists /\ mem.pool \in UrlLists
  BY <1>0 DEF StoresTyped, Settings, UrlLists
<1>1. ASSUME NEW a \in Admins, NEW u \in Urls \cup {Bad}, Post(a, u) \/ Delete(a, u)
      PROVE  SettingsTyped'
  BY <1>1, NewRequests, StartTyped DEF Post, Delete
<1>2. ASSUME NEW a \in Admins, Clear(a) PROVE SettingsTyped'
  BY <1>2, NewRequests, StartTyped DEF Clear
<1>3. ASSUME NEW a \in Admins, NEW list \in Lists, NEW r \in Rest,
             Put(a, [pool |-> list, rest |-> r])
      PROVE  SettingsTyped'
  <2>1. [pool |-> list, rest |-> r] \in Settings
    BY SettingsAssumptions DEF Settings
  <2>. QED  BY <1>3, <2>1, NewRequests, StartTyped DEF Put
<1>4. ASSUME NEW a \in Admins, Read(a) PROVE SettingsTyped'
  <2>1. StoresTyped'
    BY <1>4, <1>b DEF Read
  <2>2. ASSUME NEW list \in UrlLists, ReadTo(a, list)
        PROVE  HistoryTyped' /\ req' \in [Admins -> Requests]
    <3>1. ToSet(list) \subseteq Urls \cup {Bad}
      BY DEF UrlLists, ToSet
    <3>2. HistoryTyped'
      BY <1>0, <2>2, <3>1 DEF ReadTo, Aim, HistoryTyped
    <3>3. [req[a] EXCEPT !.pc = "swap", !.url = Nil, !.list = list] \in Requests
      BY <1>0, FieldsTyped
    <3>. QED  BY <1>0, <2>2, <3>2, <3>3, StepIs DEF ReadTo
  <2>3. CASE req[a].kind = "add" /\ ReadTo(a, Append(Listed, req[a].url))
    <3>1. req[a].url \in Urls \cup {Bad}
      BY <1>0, <1>4, RequestIs DEF Read
    <3>2. Append(Listed, req[a].url) \in UrlLists
      BY <1>0, <3>1, ListedIs DEF UrlLists
    <3>. QED  BY <1>a, <2>1, <2>2, <2>3, <3>2
  <2>4. CASE ReadTo(a, Without(Listed, req[a].url))
    <3>1. Without(Listed, req[a].url) \in UrlLists
      BY <1>0, ListedIs, WithoutIs DEF UrlLists
    <3>. QED  BY <1>a, <2>1, <2>2, <2>4, <3>1
  <2>5. CASE Step(a, [req[a] EXCEPT !.pc = "get", !.url = Nil]) /\ Going
    <3>1. [req[a] EXCEPT !.pc = "get", !.url = Nil] \in Requests
      BY <1>0, FieldsTyped
    <3>. QED  BY <1>0, <1>a, <1>c, <2>1, <2>5, <3>1, StepIs DEF Going
  <2>6. CASE FailWith(a, FALSE) /\ UNCHANGED apart
    BY <1>a, <1>d, <1>e, <2>1, <2>6
  <2>. QED  BY <1>4, <2>3, <2>4, <2>5, <2>6 DEF Read
<1>5. ASSUME NEW a \in Admins, Swap(a) PROVE SettingsTyped'
  <2>1. req[a].list \in UrlLists
    BY <1>0, RequestIs
  <2>2. CASE Accepted(req[a].list) /\ pool' = Distinct(req[a].list)
    <3>1. StoresTyped'
      <4>1. pool' \in Seq(Urls) /\ IsInjective(pool')
        BY <2>1, <2>2, NewPoolIs
      <4>2. UNCHANGED <<file, mem>>
        BY <1>5 DEF Swap
      <4>. QED  BY <1>f, <4>1, <4>2 DEF StoresTyped
    <3>2. CASE Succeed(a)
      BY <1>a, <1>d, <3>1, <3>2
    <3>3. CASE Step(a, [req[a] EXCEPT !.pc = "get", !.list = <<>>]) /\ Going
      <4>1. [req[a] EXCEPT !.pc = "get", !.list = <<>>] \in Requests
        BY <1>0, FieldsTyped, Idling
      <4>. QED  BY <1>0, <1>a, <1>c, <3>1, <3>3, <4>1, StepIs DEF Going
    <3>4. CASE FailWith(a, FALSE) /\ UNCHANGED apart
      BY <1>a, <1>d, <1>e, <3>1, <3>4
    <3>. QED  BY <1>5, <3>2, <3>3, <3>4 DEF Swap
  <2>3. CASE FailWith(a, FALSE) /\ UNCHANGED <<pool, apart>>
    <3>1. StoresTyped'
      BY <1>5, <1>b, <2>3 DEF Swap, stores
    <3>. QED  BY <1>a, <1>d, <1>e, <2>3, <3>1
  <2>. QED  BY <1>5, <2>2, <2>3 DEF Swap
<1>6. ASSUME NEW a \in Admins, Get(a) \/ List(a) PROVE SettingsTyped'
  <2>1. [req[a] EXCEPT !.pc = "list", !.v = mem] \in Requests
    BY <1>0, <1>f, FieldsTyped
  <2>2. [req[a] EXCEPT !.pc = "write", !.v.pool = Listed] \in Requests
    BY <1>0, FieldsTyped, ListedIs
  <2>3. req' \in [Admins -> Requests]
    BY <1>0, <1>6, <2>1, <2>2, StepIs DEF Get, List
  <2>4. UNCHANGED stores /\ UNCHANGED history
    BY <1>6 DEF Get, List, Going
  <2>. QED  BY <1>a, <1>b, <1>c, <2>3, <2>4
<1>7. ASSUME NEW a \in Admins, Write(a) PROVE SettingsTyped'
  <2>1. UNCHANGED <<mem, pool>>
    BY <1>7 DEF Write
  <2>2. CASE Accepted(req[a].v.pool) /\ file' = req[a].v /\ To(a, "set") /\ Going
    <3>1. StoresTyped'
      <4>1. file' \in Settings /\ Accepted(file'.pool)
        BY <1>0, <2>2, RequestIs
      <4>. QED  BY <1>0, <1>f, <2>1, <4>1 DEF StoresTyped
    <3>2. [req[a] EXCEPT !.pc = "set"] \in Requests
      BY <1>0, <2>2, FieldsTyped
    <3>. QED  BY <1>0, <1>a, <1>c, <2>2, <3>1, <3>2, StepIs DEF To, Going
  <2>3. CASE Spoil(a)
    <3>1. (req[a].kind # "put") \in BOOLEAN
      OBVIOUS
    <3>2. apart' \subseteq {"file", "pool"}
      BY <1>0, <2>3 DEF Spoil, HistoryTyped
    <3>3. HistoryTyped' /\ req' \in [Admins -> Requests]
      BY <1>d, <2>3, <3>1, <3>2 DEF Spoil
    <3>4. req[a].v \in Settings
      BY <1>0, RequestIs
    <3>5. file' \in Settings /\ Accepted(file'.pool)
      BY <1>f, <2>3, <3>4, Idling DEF Spoil
    <3>6. StoresTyped'
      BY <1>0, <1>f, <2>1, <3>5 DEF StoresTyped
    <3>. QED  BY <1>a, <3>3, <3>6
  <2>. QED  BY <1>7, <2>2, <2>3 DEF Write, Spoil
<1>8. ASSUME NEW a \in Admins, SetMem(a) PROVE SettingsTyped'
  <2>1. StoresTyped'
    <3>1. mem' \in Settings /\ Accepted(mem'.pool)
      BY <1>0, <1>8, RequestIs DEF SetMem
    <3>2. UNCHANGED <<file, pool>>
      BY <1>8 DEF SetMem
    <3>. QED  BY <1>0, <1>f, <3>1, <3>2 DEF StoresTyped
  <2>2. CASE Step(a, [req[a] EXCEPT !.pc = "swap", !.list = req[a].v.pool]) /\ Going
    <3>1. [req[a] EXCEPT !.pc = "swap", !.list = req[a].v.pool] \in Requests
      BY <1>0, FieldsTyped, RequestIs
    <3>. QED  BY <1>0, <1>a, <1>c, <2>1, <2>2, <3>1, StepIs DEF Going
  <2>3. ASSUME NEW u \in Urls \cup {Bad},
               Step(a, [NoRequest EXCEPT !.pc = "read", !.kind = "add", !.url = u]),
               Stands(a), UNCHANGED <<alone, goal, settled>>
        PROVE  SettingsTyped'
    <3>1. req' \in [Admins -> Requests]
      <4>. DEFINE r == [NoRequest EXCEPT !.pc = "read", !.kind = "add", !.url = u]
      <4>1. r \in Requests
        BY NewRequests
      <4>. HIDE DEF r
      <4>. QED  BY <1>0, <2>3, <4>1, StepIs DEF r
    <3>2. req[a].v.rest \in Rest
      BY <1>0, RequestIs
    <3>3. wanted' \in [urls : SUBSET (Urls \cup {Bad}), rest : Rest]
      BY <1>0, <2>3, <3>2 DEF Stands, HistoryTyped
    <3>4. apart' \subseteq {"file", "pool"}
      BY <1>0, <2>3 DEF Stands, HistoryTyped
    <3>5. HistoryTyped'
      BY <1>0, <2>3, <3>3, <3>4 DEF HistoryTyped
    <3>. QED  BY <1>a, <2>1, <3>1, <3>5
  <2>4. CASE Succeed(a)
    BY <1>a, <1>d, <2>1, <2>4
  <2>. QED  BY <1>8, <2>2, <2>3, <2>4 DEF SetMem
<1>9. ASSUME Restart PROVE SettingsTyped'
  <2>1. /\ file' = file \/ file' = Defaults
        /\ mem' = file'
        /\ \E env \in Envs : pool' = StartPool(env, file'.pool) /\ apart' = SetApart(env)
        /\ req' = [a \in Admins |-> NoRequest] /\ alone' = Nil /\ goal' = {} /\ settled' = TRUE
        /\ wanted' = wanted \/ wanted' = [urls |-> ToSet(file'.pool), rest |-> file'.rest]
    BY <1>9 DEF Restart
  <2>2. file' \in Settings /\ Accepted(file'.pool)
    BY <1>f, <2>1, Idling
  <2>3. file'.pool \in UrlLists /\ file'.rest \in Rest
    BY <2>2 DEF Settings, UrlLists
  <2>4. pool' = Nil \/ (pool' \in Seq(Urls) /\ IsInjective(pool'))
    <3>. DEFINE list == file'.pool
    <3>1. list \in UrlLists /\ Accepted(list)
      BY <2>2, <2>3
    <3>2. PICK env \in Envs : pool' = StartPool(env, list)
      BY <2>1
    <3>. HIDE DEF list
    <3>. QED  BY <3>1, <3>2, StartPoolIs
  <2>5. StoresTyped'
    BY <2>1, <2>2, <2>4 DEF StoresTyped
  <2>6. wanted' \in [urls : SUBSET (Urls \cup {Bad}), rest : Rest]
    <3>1. ToSet(file'.pool) \subseteq Urls \cup {Bad}
      BY <2>2 DEF Accepted
    <3>. QED  BY <1>0, <2>1, <2>3, <3>1 DEF HistoryTyped
  <2>7. apart' \subseteq {"file", "pool"}
    BY <2>1 DEF SetApart
  <2>9. HistoryTyped'
    BY <2>1, <2>6, <2>7 DEF HistoryTyped
  <2>8. req' \in [Admins -> Requests]
    BY <2>1, Idling
  <2>. QED  BY <1>a, <2>5, <2>8, <2>9
<1>10. CASE UNCHANGED settingsVars
  <2>1. UNCHANGED stores /\ UNCHANGED history /\ UNCHANGED req
    BY <1>10 DEF settingsVars, stores, history
  <2>. QED  BY <1>0, <1>a, <1>b, <1>c, <2>1
<1>. QED  BY <1>1, <1>2, <1>3, <1>4, <1>5, <1>6, <1>7, <1>8, <1>9, <1>10 DEF SettingsNext

-----------------------------------------------------------------------------
\* Requests that have met: nothing is settled, whatever they do.
LEMMA Scattered ==
  ASSUME alone' = Nil, ~settled'
  PROVE  Consistent'
<1>1. \A a \in Admins : alone' # a
  BY SettingsAssumptions
<1>. QED  BY <1>1 DEF Consistent, Company, Alone

LEMMA CrowdStays ==
  ASSUME SettingsTyped, Consistent, NEW a \in Admins, req[a].pc # "idle", alone # a,
         Succeed(a) \/ (\E harm \in BOOLEAN : FailWith(a, harm)) \/ UNCHANGED <<alone, settled>>
  PROVE  Consistent'
<1>1. req[a] # NoRequest
  BY Idling
<1>2. alone = Nil
  BY <1>1 DEF Consistent, Company, SettingsTyped
<1>3. ~settled
  BY <1>1, <1>2 DEF Consistent, Company, Quiet
<1>4. alone' = Nil
  BY <1>2 DEF Succeed, FailWith
<1>5. ~settled'
  BY <1>3 DEF Succeed, FailWith
<1>. QED  BY <1>4, <1>5, Scattered

\* A lone request that is done leaves nobody under way, and one that goes on is
\* still alone.
LEMMA Ends ==
  ASSUME Consistent, NEW a \in Admins, alone = a, req'[a] = NoRequest,
         \A b \in Admins \ {a} : req'[b] = req[b], alone' = Nil, settled' => Kept'
  PROVE  Consistent'
<1>1. \A b \in Admins : req'[b] = NoRequest
  BY DEF Consistent, Company
<1>2. \A b \in Admins : alone' # b
  BY SettingsAssumptions
<1>. QED  BY <1>1, <1>2 DEF Consistent, Company, Alone, Quiet

LEMMA Goes ==
  ASSUME Consistent, NEW a \in Admins, alone = a, alone' = a, req'[a].pc # "idle",
         \A b \in Admins \ {a} : req'[b] = req[b],
         Before(a)', Copying(a)', Saving(a)'
  PROVE  Consistent'
<1>1. req'[a] # NoRequest
  BY Idling
<1>2. a # Nil
  BY SettingsAssumptions
<1>. QED  BY <1>1, <1>2 DEF Consistent, Company, Alone

LEMMA SucceedKeeps ==
  ASSUME SettingsTyped, Consistent, NEW a \in Admins, alone = a, Succeed(a),
         file' = mem', ToSet(mem'.pool) = goal, ToSet(Listed') = goal,
         mem'.rest = req[a].v.rest,
         settled /\ req[a].kind # "put" => wanted.rest = req[a].v.rest
  PROVE  Consistent'
<1>1. req'[a] = NoRequest /\ \A b \in Admins \ {a} : req'[b] = req[b]
  BY StepIs, Idling DEF Succeed, SettingsTyped
<1>2. wanted' = [urls |-> goal, rest |-> IF settled /\ req[a].kind # "put" THEN wanted.rest
                                        ELSE req[a].v.rest]
  BY DEF Succeed, Stands
<1>3. wanted'.urls = goal /\ wanted'.rest = req[a].v.rest
  BY <1>2
<1>4. apart' = {}
  BY DEF Succeed, Stands
<1>5. Kept'
  BY <1>3, <1>4 DEF Kept
<1>. QED  BY <1>1, <1>5, Ends DEF Succeed

LEMMA FailKeeps ==
  ASSUME SettingsTyped, Consistent, NEW a \in Admins, NEW harm \in BOOLEAN, alone = a,
         FailWith(a, harm), UNCHANGED <<mem, pool>>, apart \subseteq apart',
         file' = file \/ "file" \in apart', settled /\ ~harm => Kept
  PROVE  Consistent'
<1>1. req'[a] = NoRequest /\ \A b \in Admins \ {a} : req'[b] = req[b]
  BY StepIs, Idling DEF FailWith, SettingsTyped
<1>2. settled' => Kept'
  BY DEF FailWith, Kept, Listed
<1>. QED  BY <1>1, <1>2, Ends DEF FailWith

LEMMA StartKeeps ==
  ASSUME SettingsTyped, Consistent, NEW a \in Admins, NEW r \in Requests, Start(a, r),
         \/ r.pc = "read" /\ r.kind # "put" /\ r.v = Defaults
         \/ r.pc = "swap" /\ r.kind # "put" /\ r.v = Defaults /\ r.list = <<>>
         \/ r.pc = "write" /\ r.kind = "put"
  PROVE  Consistent'
<1>1. /\ req'[a] = r /\ \A b \in Admins \ {a} : req'[b] = req[b]
      /\ UNCHANGED stores
  BY StepIs DEF Start, SettingsTyped
<1>2. CASE ~Quiet
  BY <1>2, Scattered DEF Start
<1>3. CASE Quiet
  <2>1. alone = Nil
    BY <1>3 DEF Quiet, Consistent, Company, SettingsTyped
  <2>2. settled => Kept
    BY <2>1 DEF Consistent, Company
  <2>3. /\ alone' = a /\ goal' = ToSet(r.v.pool) /\ apart' = apart
        /\ settled' => settled /\ wanted' = wanted
    BY <1>3 DEF Start
  <2>4. settled' => Kept'
    BY <1>1, <2>2, <2>3 DEF Kept, stores, Listed
  <2>5. Before(a)' /\ Copying(a)' /\ Saving(a)'
    BY <1>1, <2>3, <2>4, Idling DEF Before, Copying, Saving
  <2>6. /\ \A b \in Admins \ {a} : req'[b] = NoRequest
        /\ req'[a] # NoRequest /\ a # Nil
    BY <1>1, <1>3, Idling, SettingsAssumptions DEF Quiet
  <2>. QED  BY <2>3, <2>5, <2>6 DEF Consistent, Company, Alone
<1>. QED  BY <1>2, <1>3

\* AddProxy and RemoveProxy look at the list.
LEMMA ReadKeeps ==
  ASSUME SettingsTyped, Consistent, NEW a \in Admins, Read(a)
  PROVE  Consistent'
<1>0. req[a].pc = "read" /\ UNCHANGED stores
  BY DEF Read
<1>. SUFFICES ASSUME alone = a PROVE Consistent'
  <2>1. (\E harm \in BOOLEAN : FailWith(a, harm)) \/ UNCHANGED <<alone, settled>>
    BY DEF Read, ReadTo, Going, history
  <2>. QED  BY <1>0, <2>1, CrowdStays
<1>1. Before(a) /\ Copying(a) /\ Saving(a) /\ req[a].kind # "put" /\ (settled => Kept)
  BY <1>0 DEF Consistent, Alone, Before, Saving
<1>2. req \in [Admins -> Requests] /\ req[a] \in Holdings
  BY DEF SettingsTyped, Requests
<1>3. ASSUME NEW list \in UrlLists, ReadTo(a, list) PROVE Consistent'
  <2>. DEFINE r == [req[a] EXCEPT !.pc = "swap", !.url = Nil, !.list = list]
  <2>1. r \in Requests /\ r.pc = "swap" /\ r.list = list /\ r.kind = req[a].kind /\ r.v = req[a].v
    BY <1>2, FieldsTyped DEF Holdings
  <2>2. Step(a, r) /\ goal' = ToSet(list) /\ UNCHANGED <<alone, settled, wanted, apart>>
    BY <1>3 DEF ReadTo, Aim
  <2>. HIDE DEF r
  <2>3. req'[a] = r /\ \A b \in Admins \ {a} : req'[b] = req[b]
    BY <1>2, <2>1, <2>2, StepIs
  <2>4. settled' => Kept'
    BY <1>0, <1>1, <2>2 DEF Kept, stores, Listed
  <2>5. Before(a)' /\ Copying(a)' /\ Saving(a)'
    BY <1>1, <2>1, <2>2, <2>3, <2>4 DEF Before, Copying, Saving
  <2>. QED  BY <2>1, <2>2, <2>3, <2>5, Goes
<1>4. CASE req[a].kind = "add" /\ ReadTo(a, Append(Listed, req[a].url))
  <2>1. Append(Listed, req[a].url) \in UrlLists
    BY <1>0, <1>2, ListedIs, RequestIs, TypedParts DEF UrlLists
  <2>. QED  BY <1>3, <1>4, <2>1
<1>5. CASE ReadTo(a, Without(Listed, req[a].url))
  <2>1. Without(Listed, req[a].url) \in UrlLists
    BY ListedIs, WithoutIs, TypedParts DEF UrlLists
  <2>. QED  BY <1>3, <1>5, <2>1
<1>6. CASE /\ req[a].kind = "remove" /\ pool = Nil
           /\ Step(a, [req[a] EXCEPT !.pc = "get", !.url = Nil]) /\ Going
  <2>. DEFINE r == [req[a] EXCEPT !.pc = "get", !.url = Nil]
  <2>1. r \in Requests /\ r.pc = "get" /\ r.kind = req[a].kind /\ r.v = req[a].v
    BY <1>2, FieldsTyped DEF Holdings
  <2>2. Step(a, r) /\ UNCHANGED <<alone, settled, wanted, goal, apart>>
    BY <1>6 DEF Going, history
  <2>. HIDE DEF r
  <2>3. req'[a] = r /\ \A b \in Admins \ {a} : req'[b] = req[b]
    BY <1>2, <2>1, <2>2, StepIs
  <2>4. ToSet(Listed') = goal /\ (settled => mem'.rest = wanted.rest)
    BY <1>0, <1>1, <1>6, Idling DEF Before, Kept, stores, Listed
  <2>5. Before(a)' /\ Copying(a)' /\ Saving(a)'
    BY <1>1, <2>1, <2>2, <2>3, <2>4 DEF Before, Copying, Saving
  <2>. QED  BY <2>1, <2>2, <2>3, <2>5, Goes
<1>7. CASE FailWith(a, FALSE) /\ UNCHANGED apart
  BY <1>0, <1>1, <1>7, FailKeeps DEF stores
<1>. QED  BY <1>4, <1>5, <1>6, <1>7 DEF Read

\* ConfigurePool.
LEMMA SwapKeeps ==
  ASSUME SettingsTyped, Consistent, NEW a \in Admins, Swap(a)
  PROVE  Consistent'
<1>0. req[a].pc = "swap" /\ UNCHANGED <<file, mem>>
  BY DEF Swap
<1>. SUFFICES ASSUME alone = a PROVE Consistent'
  <2>1. Succeed(a) \/ (\E harm \in BOOLEAN : FailWith(a, harm)) \/ UNCHANGED <<alone, settled>>
    BY DEF Swap, Going, history
  <2>. QED  BY <1>0, <2>1, CrowdStays
<1>1. Before(a) /\ Copying(a) /\ Saving(a)
  BY DEF Consistent, Alone
<1>2. req \in [Admins -> Requests] /\ req[a] \in Holdings /\ req[a].list \in UrlLists
  BY RequestIs DEF SettingsTyped, Requests
<1>3. ToSet(req[a].list) = goal
  BY <1>0, <1>1 DEF Before
<1>4. CASE Accepted(req[a].list) /\ pool' = Distinct(req[a].list)
  <2>1. ToSet(Listed') = goal
    BY <1>2, <1>3, <1>4, NewPoolIs DEF Listed
  <2>2. CASE req[a].kind = "put" /\ Succeed(a)
    <3>1. /\ file = req[a].v /\ mem = req[a].v /\ req[a].list = req[a].v.pool
      BY <1>0, <1>1, <2>2 DEF Saving
    <3>. QED  BY <1>0, <1>3, <2>1, <2>2, <3>1, SucceedKeeps
  <2>3. CASE /\ req[a].kind # "put" /\ Going
             /\ Step(a, [req[a] EXCEPT !.pc = "get", !.list = <<>>])
    <3>. DEFINE r == [req[a] EXCEPT !.pc = "get", !.list = <<>>]
    <3>1. r \in Requests /\ r.pc = "get" /\ r.kind = req[a].kind /\ r.v = req[a].v
      BY <1>2, FieldsTyped, Idling DEF Holdings
    <3>2. Step(a, r) /\ UNCHANGED <<alone, settled, wanted, goal, apart>>
      BY <2>3 DEF Going, history
    <3>. HIDE DEF r
    <3>3. req'[a] = r /\ \A b \in Admins \ {a} : req'[b] = req[b]
      BY <1>2, <3>1, <3>2, StepIs
    <3>4. settled => mem'.rest = wanted.rest
      BY <1>0, <1>1, <2>3 DEF Before, Kept
    <3>5. Before(a)' /\ Copying(a)' /\ Saving(a)'
      BY <2>1, <2>3, <3>1, <3>2, <3>3, <3>4 DEF Before, Copying, Saving
    <3>. QED  BY <3>1, <3>2, <3>3, <3>5, Goes
  <2>. QED  BY <1>4, <2>2, <2>3 DEF Swap, Accepted
<1>5. CASE ~Accepted(req[a].list) /\ FailWith(a, FALSE) /\ UNCHANGED <<pool, apart>>
  <2>1. req[a].kind # "put"
    BY <1>0, <1>1, <1>5 DEF Saving, SettingsTyped
  <2>2. settled => Kept
    BY <1>0, <1>1, <2>1 DEF Before
  <2>. QED  BY <1>0, <1>5, <2>2, FailKeeps
<1>. QED  BY <1>4, <1>5 DEF Swap

\* persistProxyPool reads the settings and the list.
LEMMA CopyKeeps ==
  ASSUME SettingsTyped, Consistent, NEW a \in Admins, Get(a) \/ List(a)
  PROVE  Consistent'
<1>0. /\ req[a].pc \in {"get", "list"} /\ UNCHANGED stores
      /\ UNCHANGED <<alone, settled, wanted, goal, apart>>
  BY DEF Get, List, Going, history
<1>. SUFFICES ASSUME alone = a PROVE Consistent'
  BY <1>0, CrowdStays
<1>1. Before(a) /\ Copying(a) /\ Saving(a) /\ req[a].kind # "put"
  BY <1>0 DEF Consistent, Alone, Saving
<1>2. /\ req \in [Admins -> Requests] /\ req[a] \in Holdings
      /\ mem \in Settings /\ Listed \in UrlLists /\ req[a].v \in Settings
  BY ListedIs, TypedParts, RequestIs DEF SettingsTyped, Requests
<1>3. Copying(a) => ToSet(Listed') = goal' /\ (settled' => mem'.rest = wanted'.rest)
  BY <1>0, <1>1 DEF Copying, stores, Listed
<1>4. CASE Get(a)
  <2>. DEFINE r == [req[a] EXCEPT !.pc = "list", !.v = mem]
  <2>1. r \in Requests /\ r.pc = "list" /\ r.kind = req[a].kind /\ r.v = mem
    BY <1>2, FieldsTyped DEF Holdings
  <2>2. Step(a, r)
    BY <1>4 DEF Get
  <2>. HIDE DEF r
  <2>3. req'[a] = r /\ \A b \in Admins \ {a} : req'[b] = req[b]
    BY <1>2, <2>1, <2>2, StepIs
  <2>4. Before(a)' /\ Copying(a)' /\ Saving(a)'
    BY <1>0, <1>1, <1>3, <2>1, <2>3 DEF Before, Copying, Saving, stores
  <2>. QED  BY <1>0, <2>1, <2>3, <2>4, Goes
<1>5. CASE List(a)
  <2>. DEFINE r == [req[a] EXCEPT !.pc = "write", !.v.pool = Listed]
  <2>1. /\ r \in Requests /\ r.pc = "write" /\ r.kind = req[a].kind
        /\ r.v.pool = Listed /\ r.v.rest = req[a].v.rest
    BY <1>2, FieldsTyped DEF Holdings, Settings
  <2>2. Step(a, r) /\ req[a].pc = "list"
    BY <1>5 DEF List
  <2>. HIDE DEF r
  <2>3. req'[a] = r /\ \A b \in Admins \ {a} : req'[b] = req[b]
    BY <1>2, <2>1, <2>2, StepIs
  <2>4. ToSet(r.v.pool) = goal /\ r.v.rest = mem.rest
    BY <1>1, <2>1, <2>2 DEF Copying
  <2>5. Before(a)' /\ Copying(a)' /\ Saving(a)'
    BY <1>0, <1>1, <1>3, <2>1, <2>3, <2>4 DEF Before, Copying, Saving, stores
  <2>. QED  BY <1>0, <2>1, <2>3, <2>5, Goes
<1>. QED  BY <1>4, <1>5

\* settingsStore.save: the file, which a save that fails may spoil ...
LEMMA WriteKeeps ==
  ASSUME SettingsTyped, Consistent, NEW a \in Admins, Write(a)
  PROVE  Consistent'
<1>0. req[a].pc = "write" /\ UNCHANGED <<mem, pool>>
  BY DEF Write
<1>a. (req[a].kind # "put") \in BOOLEAN
  OBVIOUS
<1>. SUFFICES ASSUME alone = a PROVE Consistent'
  <2>1. (\E harm \in BOOLEAN : FailWith(a, harm)) \/ UNCHANGED <<alone, settled>>
    BY <1>a DEF Write, Going, history
  <2>. QED  BY <1>0, <2>1, CrowdStays
<1>1. Before(a) /\ Copying(a) /\ Saving(a)
  BY DEF Consistent, Alone
<1>2. req \in [Admins -> Requests] /\ req[a] \in Holdings
  BY DEF SettingsTyped, Requests
<1>3. CASE Accepted(req[a].v.pool) /\ file' = req[a].v /\ To(a, "set") /\ Going
  <2>. DEFINE r == [req[a] EXCEPT !.pc = "set"]
  <2>1. r \in Requests /\ r.pc = "set" /\ r.kind = req[a].kind /\ r.v = req[a].v
    BY <1>2, <1>3, FieldsTyped DEF Holdings
  <2>2. Step(a, r) /\ UNCHANGED <<alone, settled, wanted, goal, apart>>
    BY <1>3 DEF To, Going, history
  <2>. HIDE DEF r
  <2>3. req'[a] = r /\ \A b \in Admins \ {a} : req'[b] = req[b]
    BY <1>2, <2>1, <2>2, StepIs
  <2>4. Listed' = Listed
    BY <1>0 DEF Listed
  <2>5. Before(a)' /\ Copying(a)' /\ Saving(a)'
    BY <1>0, <1>1, <1>3, <2>1, <2>2, <2>3, <2>4 DEF Before, Copying, Saving
  <2>. QED  BY <2>1, <2>2, <2>3, <2>5, Goes
<1>4. CASE Spoil(a)
  <2>1. settled /\ req[a].kind = "put" => Kept
    BY <1>0, <1>1 DEF Before
  <2>2. FailWith(a, req[a].kind # "put") /\ apart \subseteq apart' /\ (file' = file \/ "file" \in apart')
    BY <1>4 DEF Spoil
  <2>. QED  BY <1>0, <1>a, <2>1, <2>2, FailKeeps
<1>. QED  BY <1>3, <1>4 DEF Write, Spoil

\* ... and the memory.
LEMMA SetMemKeeps ==
  ASSUME SettingsTyped, Consistent, NEW a \in Admins, SetMem(a)
  PROVE  Consistent'
<1>0. req[a].pc = "set" /\ mem' = req[a].v /\ UNCHANGED <<file, pool>>
  BY DEF SetMem
<1>. SUFFICES ASSUME alone = a PROVE Consistent'
  <2>1. Succeed(a) \/ UNCHANGED <<alone, settled>>
    BY DEF SetMem, Going, history
  <2>. QED  BY <1>0, <2>1, CrowdStays
<1>1. Before(a) /\ Copying(a) /\ Saving(a)
  BY DEF Consistent, Alone
<1>2. req \in [Admins -> Requests] /\ req[a] \in Holdings /\ req[a].v.pool \in UrlLists
  BY RequestIs DEF SettingsTyped, Requests
<1>3. file = req[a].v /\ ToSet(req[a].v.pool) = goal /\ Listed' = Listed
  BY <1>0, <1>1 DEF Copying, Saving, Listed
<1>4. CASE /\ req[a].kind = "put" /\ Going
           /\ Step(a, [req[a] EXCEPT !.pc = "swap", !.list = req[a].v.pool])
  <2>. DEFINE r == [req[a] EXCEPT !.pc = "swap", !.list = req[a].v.pool]
  <2>1. /\ r \in Requests /\ r.pc = "swap" /\ r.kind = req[a].kind /\ r.v = req[a].v
        /\ r.list = req[a].v.pool
    BY <1>2, FieldsTyped DEF Holdings
  <2>2. Step(a, r) /\ UNCHANGED <<alone, settled, wanted, goal, apart>>
    BY <1>4 DEF Going, history
  <2>. HIDE DEF r
  <2>3. req'[a] = r /\ \A b \in Admins \ {a} : req'[b] = req[b]
    BY <1>2, <2>1, <2>2, StepIs
  <2>4. Before(a)' /\ Copying(a)' /\ Saving(a)'
    BY <1>0, <1>3, <1>4, <2>1, <2>2, <2>3 DEF Before, Copying, Saving
  <2>. QED  BY <2>1, <2>2, <2>3, <2>4, Goes
<1>5. ASSUME req[a].kind # "put"
      PROVE  /\ ToSet(Listed') = goal /\ req[a].v.rest = mem.rest
             /\ settled => mem.rest = wanted.rest
  BY <1>0, <1>1, <1>3, <1>5 DEF Copying
<1>6. ASSUME NEW u \in Urls \cup {Bad}, req[a].kind = "add",
             Step(a, [NoRequest EXCEPT !.pc = "read", !.kind = "add", !.url = u]),
             Stands(a), UNCHANGED <<alone, goal, settled>>
      PROVE  Consistent'
  <2>. DEFINE r == [NoRequest EXCEPT !.pc = "read", !.kind = "add", !.url = u]
  <2>1. r \in Requests /\ r.pc = "read" /\ r.kind = "add"
    BY NewRequests, Idling DEF Requests, Holdings
  <2>2. Step(a, r)
    BY <1>6
  <2>. HIDE DEF r
  <2>3. req'[a] = r /\ \A b \in Admins \ {a} : req'[b] = req[b]
    BY <1>2, <2>1, <2>2, StepIs
  <2>4. wanted'.urls = goal /\ (settled => wanted'.rest = wanted.rest) /\ apart' = {}
    BY <1>6 DEF Stands
  <2>5. settled' => Kept'
    BY <1>0, <1>3, <1>5, <1>6, <2>4 DEF Kept
  <2>6. Before(a)' /\ Copying(a)' /\ Saving(a)'
    BY <2>1, <2>3, <2>5 DEF Before, Copying, Saving
  <2>. QED  BY <1>6, <2>1, <2>3, <2>6, Goes
<1>7. CASE req[a].kind # "put" /\ Succeed(a)
  BY <1>0, <1>3, <1>5, <1>7, SucceedKeeps
<1>. QED  BY <1>4, <1>6, <1>7 DEF SetMem

\* A start: what nobody was changing stands.
LEMMA RestartKeeps ==
  ASSUME SettingsTyped, Consistent, Restart
  PROVE  Consistent'
<1>1. /\ mem' = file'
      /\ req' = [a \in Admins |-> NoRequest] /\ alone' = Nil /\ settled' = TRUE
      /\ wanted' = IF settled /\ Quiet /\ "file" \notin apart THEN wanted
                   ELSE [urls |-> ToSet(file'.pool), rest |-> file'.rest]
  BY DEF Restart
<1>2. file'.pool \in UrlLists /\ Accepted(file'.pool)
  <2>1. file' = file \/ file' = Defaults
    BY DEF Restart
  <2>. QED  BY <2>1, Idling DEF SettingsTyped, Settings, UrlLists
<1>3. "pool" \notin apart' => ToSet(Listed') = ToSet(file'.pool)
  <2>. DEFINE list == file'.pool
  <2>1. PICK env \in Envs : pool' = StartPool(env, list) /\ apart' = SetApart(env)
    BY DEF Restart
  <2>2. list \in UrlLists /\ Accepted(list)
    BY <1>2
  <2>. HIDE DEF list
  <2>3. env = Nil => ToSet(IF StartPool(env, list) = Nil THEN <<>> ELSE StartPool(env, list)) = ToSet(list)
    BY <2>2, StartPoolIs
  <2>4. env = Nil => ToSet(Listed') = ToSet(list)
    BY <2>1, <2>3 DEF Listed
  <2>. QED  BY <2>1, <2>4 DEF SetApart, list
<1>4. ToSet(file'.pool) = wanted'.urls /\ file'.rest = wanted'.rest
  <2>1. CASE settled /\ Quiet /\ "file" \notin apart
    <3>1. Kept
      BY <2>1 DEF Quiet, Consistent, Company, SettingsTyped
    <3>2. file' = file
      BY <2>1, Idling DEF Restart, Quiet
    <3>. QED  BY <1>1, <2>1, <3>1, <3>2 DEF Kept
  <2>2. CASE ~(settled /\ Quiet /\ "file" \notin apart)
    BY <1>1, <2>2
  <2>. QED  BY <2>1, <2>2
<1>5. Kept'
  BY <1>1, <1>3, <1>4 DEF Kept
<1>6. \A a \in Admins : req'[a] = NoRequest /\ alone' # a
  BY <1>1, SettingsAssumptions
<1>. QED  BY <1>5, <1>6 DEF Consistent, Company, Alone, Quiet

LEMMA NextSettings ==
  ASSUME SettingsTyped, Consistent, [SettingsNext]_settingsVars
  PROVE  Consistent'
<1>1. ASSUME NEW a \in Admins, NEW u \in Urls \cup {Bad}, Post(a, u) \/ Delete(a, u)
      PROVE  Consistent'
  <2>. DEFINE r == [NoRequest EXCEPT !.pc = "read", !.kind = "add", !.url = u]
              q == [NoRequest EXCEPT !.pc = "read", !.kind = "remove", !.url = u]
  <2>1. /\ r \in Requests /\ r.pc = "read" /\ r.kind # "put" /\ r.v = Defaults
        /\ q \in Requests /\ q.pc = "read" /\ q.kind # "put" /\ q.v = Defaults
    BY NewRequests, Idling DEF Requests, Holdings
  <2>2. Start(a, r) \/ Start(a, q)
    BY <1>1 DEF Post, Delete
  <2>. HIDE DEF r, q
  <2>. QED  BY <2>1, <2>2, StartKeeps
<1>2. ASSUME NEW a \in Admins, Clear(a) PROVE Consistent'
  <2>. DEFINE r == [NoRequest EXCEPT !.pc = "swap", !.kind = "clear"]
  <2>1. r \in Requests /\ r.pc = "swap" /\ r.kind # "put" /\ r.v = Defaults /\ r.list = <<>>
    BY NewRequests, Idling DEF Requests, Holdings
  <2>2. Start(a, r)
    BY <1>2 DEF Clear
  <2>. HIDE DEF r
  <2>. QED  BY <2>1, <2>2, StartKeeps
<1>3. ASSUME NEW a \in Admins, NEW list \in Lists, NEW x \in Rest,
             Put(a, [pool |-> list, rest |-> x])
      PROVE  Consistent'
  <2>. DEFINE v == [pool |-> list, rest |-> x]
              r == [NoRequest EXCEPT !.pc = "write", !.kind = "put", !.v = v]
  <2>1. v \in Settings
    BY SettingsAssumptions DEF Settings
  <2>2. r \in Requests /\ r.pc = "write" /\ r.kind = "put"
    <3>. HIDE DEF v
    <3>. QED  BY <2>1, NewRequests, Idling DEF Requests, Holdings
  <2>3. Start(a, r)
    BY <1>3 DEF Put
  <2>. HIDE DEF r
  <2>. QED  BY <2>2, <2>3, StartKeeps
<1>4. ASSUME NEW a \in Admins, Read(a) \/ Swap(a) \/ Get(a) \/ List(a) \/ Write(a) \/ SetMem(a)
      PROVE  Consistent'
  BY <1>4, ReadKeeps, SwapKeeps, CopyKeeps, WriteKeeps, SetMemKeeps
<1>5. ASSUME Restart PROVE Consistent'
  BY <1>5, RestartKeeps
<1>6. CASE UNCHANGED settingsVars
  <2>1. Company'
    BY <1>6 DEF settingsVars, Consistent, Company, Quiet, Kept, Listed
  <2>2. Alone'
    BY <1>6 DEF settingsVars, Consistent, Alone, Before, Copying, Saving, Kept, Listed
  <2>. QED  BY <2>1, <2>2 DEF Consistent
<1>. QED  BY <1>1, <1>2, <1>3, <1>4, <1>5, <1>6 DEF SettingsNext

LEMMA InitSettings == SettingsInit => SettingsTyped /\ Consistent
<1>. SUFFICES ASSUME SettingsInit PROVE SettingsTyped /\ Consistent
  OBVIOUS
<1>1. /\ file = Defaults /\ mem = Defaults /\ req = [a \in Admins |-> NoRequest]
      /\ alone = Nil /\ goal = {} /\ settled = TRUE /\ wanted = Nothing
  BY DEF SettingsInit
<1>a. PICK env \in Envs : pool = StartPool(env, <<>>) /\ apart = SetApart(env)
  BY DEF SettingsInit
<1>b. pool = Nil \/ (pool \in Seq(Urls) /\ IsInjective(pool))
  BY <1>a, StartPoolIs, Idling
<1>c. env = Nil => ToSet(Listed) = {}
  BY <1>a, StartPoolIs, Idling DEF Listed
<1>d. apart \subseteq {"file", "pool"} /\ ("pool" \notin apart => env = Nil)
  BY <1>a DEF SetApart
<1>2. SettingsTyped
  <2>1. Nothing \in [urls : SUBSET (Urls \cup {Bad}), rest : Rest]
    BY SettingsAssumptions DEF Nothing
  <2>2. settled \in BOOLEAN
    BY <1>1, Zenon
  <2>. QED  BY <1>1, <1>b, <1>d, <2>1, <2>2, Idling DEF SettingsTyped
<1>3. Kept
  BY <1>1, <1>c, <1>d, Idling DEF Kept, Nothing
<1>4. \A a \in Admins : alone # a /\ req[a] = NoRequest
  BY <1>1, SettingsAssumptions
<1>5. Consistent
  BY <1>3, <1>4 DEF Consistent, Company, Alone, Quiet
<1>. QED  BY <1>2, <1>5

LEMMA SettingsInvariant == SettingsSpec => [](SettingsTyped /\ Consistent)
<1>1. (SettingsTyped /\ Consistent) /\ [SettingsNext]_settingsVars => (SettingsTyped /\ Consistent)'
  <2>. SUFFICES ASSUME SettingsTyped, Consistent, [SettingsNext]_settingsVars
                PROVE  SettingsTyped' /\ Consistent'
    OBVIOUS
  <2>. QED  BY NextSettingsTyped, NextSettings
<1>. QED  BY <1>1, InitSettings, PTL DEF SettingsSpec

\* Between requests nothing is alone, so what is settled is kept.
LEMMA QuietKept ==
  ASSUME SettingsTyped, Consistent, Quiet, settled
  PROVE  Kept
BY DEF SettingsTyped, Consistent, Company, Quiet

\* The settings, the pool and the requests are what they should be; only lists that New
\* accepts are stored or used, and the pool holds no proxy twice (ProxySettings).
THEOREM SettingsTypeCorrect == SettingsSpec => []SettingsTyped
BY SettingsInvariant, PTL

\* Agreement: for any lists, requests, failures and environments, the file, the settings in
\* memory and the proxies in use agree between requests, unless requests met or one failed
\* half-way and no lone request has succeeded since; only the file differs when a save that
\* failed spoilt it, and only the proxies when a start took them from the environment.
THEOREM StoresAgree == SettingsSpec => []Agreement
<1>1. SettingsTyped /\ Consistent => Agreement
  BY QuietKept DEF Agreement, Kept
<1>. QED  BY <1>1, SettingsInvariant, PTL

\* LastRequestStands: what the last lone request asked for holds until the next one, through
\* failed saves, and through restarts of a file they have not spoilt, and it left the other
\* settings as they were; the proxies in use are another's only when the environment chose them.
THEOREM RequestStands == SettingsSpec => []LastRequestStands
<1>1. SettingsTyped /\ Consistent => LastRequestStands
  BY QuietKept DEF LastRequestStands, Kept
<1>. QED  BY <1>1, SettingsInvariant, PTL
=============================================================================
