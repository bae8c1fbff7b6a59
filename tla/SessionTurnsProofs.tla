------------------------- MODULE SessionTurnsProofs -------------------------
(***************************************************************************)
(* For any number of requests, keys, accounts, failed saves and restarts:  *)
(* no conversation is shared by two keys, a turn talks in a conversation   *)
(* of its account unless a request has contradicted the key, and the key   *)
(* of an answered turn leads to its conversation.                          *)
(*                                                                         *)
(* For any number of responses and calls: the history kept for a response  *)
(* is the conversation of its client, and a client that keeps to the       *)
(* protocol is refused for three reasons only (ResponsesTurns, below).     *)
(***************************************************************************)
EXTENDS SessionTurns, ResponsesTurns, FiniteSetTheorems, FunctionTheorems, Recursions

-----------------------------------------------------------------------------
\* What sessionStore.upsert makes of the table.
LEMMA PutTable ==
  ASSUME IsTable(sessions), NEW k \in Keys, NEW e \in Entry
  PROVE  /\ IsTable(Put(k, e)) /\ k \in DOMAIN Put(k, e) /\ Put(k, e)[k] = e
         /\ DOMAIN Put(k, e) = DOMAIN sessions \cup {k}
         /\ \A j \in DOMAIN sessions : j # k => Put(k, e)[j] = sessions[j]
BY DEF IsTable, Put

\* saveLocked leaves the new table, the old file, or one that does not decode.
LEMMA SaveDisk ==
  ASSUME Save, saved \in BOOLEAN
  PROVE  /\ saved' \in BOOLEAN /\ disk' \in {sessions', disk, None}
         /\ saved' => disk' = sessions'
<1>1. saved' \in BOOLEAN
  BY Zenon DEF Save
<1>2. disk' \in {sessions', disk, None}
  BY DEF Save
<1>3. saved' => disk' = sessions'
  BY Zenon DEF Save
<1>. QED  BY <1>1, <1>2, <1>3

\* sessionStore.upsert leaves the store typed.
LEMMA UpsertStore ==
  ASSUME StoreTyped, NEW k \in Keys, NEW a \in Accounts, NEW v \in Conv, Upsert(k, a, v)
  PROVE  /\ StoreTyped' /\ sessions' = Put(k, [account |-> a, conv |-> v])
         /\ disk' \in {sessions', disk, None} /\ (saved' => disk' = sessions')
<1>1. sessions' = Put(k, [account |-> a, conv |-> v]) /\ Save
  BY DEF Upsert
<1>2. [account |-> a, conv |-> v] \in Entry
  BY DEF Entry
<1>3. IsTable(sessions')
  BY <1>1, <1>2, PutTable DEF StoreTyped
<1>4. saved' \in BOOLEAN /\ disk' \in {sessions', disk, None} /\ (saved' => disk' = sessions')
  BY <1>1, SaveDisk DEF StoreTyped
<1>5. disk' = None \/ IsTable(disk')
  BY <1>3, <1>4 DEF StoreTyped
<1>. QED  BY <1>1, <1>3, <1>4, <1>5 DEF StoreTyped, IsTable

\* A conversation is made up once, for the key and the account of a turn.
LEMMA MakeConvType ==
  ASSUME ConvsTyped, NEW c \in Callers, MakeConv(c), turn[c] \in Turn,
         turn[c].account \in Accounts
  PROVE  /\ convs' = convs + 1 /\ convs' \in Conv /\ convs' \in 0..MaxConvs
         /\ owner' \in [Conv -> Accounts \cup {None}] /\ usedBy' \in [Conv -> SUBSET Keys]
         /\ owner'[convs + 1] = turn[c].account /\ usedBy'[convs + 1] = {turn[c].key}
         /\ \A v \in Conv : v # convs + 1 => owner'[v] = owner[v] /\ usedBy'[v] = usedBy[v]
BY SessionAssumptions DEF ConvsTyped, MakeConv, Conv, Turn

\* What a turn that ends, or moves on with a well-typed record, leaves typed.
LEMMA EndType ==
  ASSUME TurnsTyped, NEW c \in Callers, End(c)
  PROVE  /\ TurnsTyped' /\ pc'[c] = "idle"
         /\ \A d \in Callers : d # c => pc'[d] = pc[d] /\ turn'[d] = turn[d]
BY DEF TurnsTyped, End
LEMMA MoveType ==
  ASSUME TurnsTyped, NEW c \in Callers, NEW p, NEW t \in Turn,
         p \in {"looked", "routing", "resolved", "chatting"},
         p # "looked" => t.account \in Accounts, p = "chatting" => t.conv \in Conv,
         pc' = [pc EXCEPT ![c] = p], turn' = [turn EXCEPT ![c] = t]
  PROVE  /\ TurnsTyped' /\ pc'[c] = p /\ turn'[c] = t
         /\ \A d \in Callers : d # c => pc'[d] = pc[d] /\ turn'[d] = turn[d]
BY DEF TurnsTyped

-----------------------------------------------------------------------------
(***************************************************************************)
(* The inductive invariant.  A conversation that a key or a turn holds is  *)
(* bound: it exists, only turns of the key have used it, and it was made   *)
(* under the account it is held with unless a request has contradicted the *)
(* key.  This must be said of the file as well, which a restart brings     *)
(* back, and of a turn from the moment it has looked.                      *)
(***************************************************************************)
Bound(k, a, v) ==
    v \in 1..convs /\ usedBy[v] = {k} /\ (v \in crossed \/ owner[v] = a)
EntriesBound(t) == \A k \in DOMAIN t : Bound(k, t[k].account, t[k].conv)
StoreBound == EntriesBound(sessions) /\ (disk # None => EntriesBound(disk))
TurnBound(c) ==
    pc[c] # "idle" /\ turn[c].conv # 0 =>
      turn[c].account # None /\ Bound(turn[c].key, turn[c].account, turn[c].conv)
TurnsBound == \A c \in Callers : TurnBound(c)
UsedOnce   == \A v \in Conv : usedBy[v] = {} \/ \E k \in Keys : usedBy[v] = {k}
SavedStands == saved /\ ~lossy => disk = sessions

SessionInv ==
    TypeOK /\ StoreBound /\ TurnsBound /\ UsedOnce /\ SavedStands /\ AnsweredKeyMapped

\* What no step undoes: a conversation, its account, and the keys that used it.
Grow ==
    /\ convs' \in Nat /\ convs <= convs' /\ crossed \subseteq crossed'
    /\ \A v \in 1..convs : owner'[v] = owner[v] /\ usedBy'[v] = usedBy[v]

\* So what is bound stays bound,
LEMMA BoundKept ==
  ASSUME TypeOK, Grow, NEW k, NEW a, NEW v, Bound(k, a, v)
  PROVE  v \in 1..convs' /\ usedBy'[v] = {k} /\ (v \in crossed' \/ owner'[v] = a)
BY DEF TypeOK, ConvsTyped, Grow, Bound

\* an entry, however the store was saved,
LEMMA TableKept ==
  ASSUME TypeOK, Grow, NEW t, EntriesBound(t)
  PROVE  \A j \in DOMAIN t :
           /\ t[j].conv \in 1..convs' /\ usedBy'[t[j].conv] = {j}
           /\ t[j].conv \in crossed' \/ owner'[t[j].conv] = t[j].account
<1>. SUFFICES ASSUME NEW j \in DOMAIN t
              PROVE  /\ t[j].conv \in 1..convs' /\ usedBy'[t[j].conv] = {j}
                     /\ t[j].conv \in crossed' \/ owner'[t[j].conv] = t[j].account
  OBVIOUS
<1>1. Bound(j, t[j].account, t[j].conv)
  BY DEF EntriesBound
<1>. QED  BY <1>1, BoundKept
LEMMA DiskKept ==
  ASSUME TypeOK, StoreBound, Grow, disk # None, UNCHANGED disk
  PROVE  EntriesBound(disk)'
<1>1. \A j \in DOMAIN disk :
        /\ disk[j].conv \in 1..convs' /\ usedBy'[disk[j].conv] = {j}
        /\ disk[j].conv \in crossed' \/ owner'[disk[j].conv] = disk[j].account
  BY TableKept DEF StoreBound
<1>. QED  BY <1>1 DEF EntriesBound, Bound
LEMMA StoreKept ==
  ASSUME TypeOK, StoreBound, Grow, UNCHANGED <<sessions, disk>>
  PROVE  StoreBound'
<1>1. EntriesBound(sessions)'
  <2>1. \A j \in DOMAIN sessions :
          /\ sessions[j].conv \in 1..convs' /\ usedBy'[sessions[j].conv] = {j}
          /\ sessions[j].conv \in crossed' \/ owner'[sessions[j].conv] = sessions[j].account
    BY TableKept DEF StoreBound
  <2>. QED  BY <2>1 DEF EntriesBound, Bound
<1>2. ASSUME disk # None PROVE EntriesBound(disk)'
  BY <1>2, DiskKept
<1>. QED  BY <1>1, <1>2 DEF StoreBound
LEMMA StoreUpsert ==
  ASSUME TypeOK, StoreBound, Grow, NEW k \in Keys, NEW a \in Accounts, NEW v \in Conv,
         Upsert(k, a, v), v \in 1..convs', usedBy'[v] = {k}, v \in crossed' \/ owner'[v] = a
  PROVE  StoreBound'
<1>. DEFINE e == [account |-> a, conv |-> v]
<1>1. e \in Entry /\ IsTable(sessions) /\ sessions' = Put(k, e)
      /\ disk' \in {sessions', disk, None}
  BY UpsertStore DEF Entry, TypeOK, StoreTyped
<1>a. /\ DOMAIN sessions' = DOMAIN sessions \cup {k} /\ sessions'[k] = e
      /\ \A j \in DOMAIN sessions : j # k => sessions'[j] = sessions[j]
  <2>. HIDE DEF e
  <2>. QED  BY <1>1, PutTable
<1>2. EntriesBound(sessions)'
  <2>. SUFFICES ASSUME NEW j \in DOMAIN sessions'
                PROVE  Bound(j, sessions[j].account, sessions[j].conv)'
    BY DEF EntriesBound
  <2>1. CASE j = k
    BY <1>a, <2>1 DEF Bound
  <2>2. CASE j # k
    <3>1. j \in DOMAIN sessions /\ sessions'[j] = sessions[j]
      BY <1>a, <2>2
    <3>2. Bound(j, sessions[j].account, sessions[j].conv)
      BY <3>1 DEF StoreBound, EntriesBound
    <3>3. /\ sessions[j].conv \in 1..convs' /\ usedBy'[sessions[j].conv] = {j}
          /\ sessions[j].conv \in crossed' \/ owner'[sessions[j].conv] = sessions[j].account
      BY <3>2, BoundKept
    <3>. QED  BY <3>1, <3>3 DEF Bound
  <2>. QED  BY <2>1, <2>2
<1>3. ASSUME disk # None, disk' = disk PROVE EntriesBound(disk)'
  BY <1>3, DiskKept
<1>4. CASE disk' = sessions'
  BY <1>2, <1>4 DEF StoreBound, EntriesBound, Bound
<1>5. CASE disk' # sessions' /\ disk' # None
  BY <1>1, <1>2, <1>3, <1>5 DEF StoreBound
<1>6. CASE disk' = None
  BY <1>2, <1>6 DEF StoreBound
<1>. QED  BY <1>4, <1>5, <1>6

\* and a turn, when only turn c moves.
LEMMA TurnsKept ==
  ASSUME TypeOK, TurnsBound, Grow, NEW c \in Callers, TurnBound(c)',
         \A d \in Callers : d # c => pc'[d] = pc[d] /\ turn'[d] = turn[d]
  PROVE  TurnsBound'
<1>. SUFFICES ASSUME NEW d \in Callers, d # c PROVE TurnBound(d)'
  BY DEF TurnsBound
<1>1. TurnBound(d)
  BY DEF TurnsBound
<1>2. CASE pc[d] # "idle" /\ turn[d].conv # 0
  <2>1. /\ turn[d].conv \in 1..convs' /\ usedBy'[turn[d].conv] = {turn[d].key}
        /\ turn[d].conv \in crossed' \/ owner'[turn[d].conv] = turn[d].account
    BY <1>1, <1>2, BoundKept DEF TurnBound
  <2>2. turn[d].account # None
    BY <1>1, <1>2 DEF TurnBound
  <2>. QED  BY <2>1, <2>2 DEF TurnBound, Bound
<1>. QED  BY <1>2 DEF TurnBound

-----------------------------------------------------------------------------
\* Types are kept by every step (the turn that moves gets a record of its own).
LEMMA NextTypeOK == TypeOK /\ [Next]_vars => TypeOK'
<1>. SUFFICES ASSUME TypeOK, [Next]_vars PROVE TypeOK'
  OBVIOUS
<1>. USE SessionAssumptions
<1>0. StoreTyped /\ TurnsTyped /\ ConvsTyped /\ known \subseteq Accounts /\ lossy \in BOOLEAN
  BY DEF TypeOK
<1>a. UNCHANGED store => StoreTyped'
  BY <1>0 DEF StoreTyped, store, IsTable
<1>b. UNCHANGED <<convs, crossed, owner, usedBy, answered>> => ConvsTyped'
  BY <1>0 DEF ConvsTyped
<1>c. UNCHANGED <<pc, turn>> => TurnsTyped'
  BY <1>0 DEF TurnsTyped
<1>d. UNCHANGED <<known, lossy>> => known' \subseteq Accounts /\ lossy' \in BOOLEAN
  BY <1>0
<1>1. ASSUME NEW c \in Callers, NEW k \in Keys, NEW api \in Apis, Begin(c, k, api)
      PROVE  TypeOK'
  <2>1. k \in DOMAIN sessions => sessions[k] \in Entry
    BY <1>0 DEF StoreTyped, IsTable
  <2>2. PICK t \in Turn : turn' = [turn EXCEPT ![c] = t]
    BY <1>1, <2>1 DEF Begin, Turn, Entry
  <2>3. pc' = [pc EXCEPT ![c] = "looked"] /\ UNCHANGED <<store, known, lossy>>
    BY <1>1 DEF Begin
  <2>4. TurnsTyped'
    BY <1>0, <2>2, <2>3, MoveType
  <2>5. UNCHANGED <<convs, owner, usedBy, answered>> /\ crossed' \subseteq Conv
    BY <1>0, <1>1, <2>1 DEF Begin, ConvsTyped, Entry
  <2>. QED  BY <1>0, <1>a, <1>d, <2>3, <2>4, <2>5 DEF TypeOK, ConvsTyped
<1>2. ASSUME NEW c \in Callers, Resolve(c) PROVE TypeOK'
  <2>1. ASSUME End(c) PROVE TurnsTyped'
    BY <1>0, <2>1, EndType
  <2>2. ASSUME ~End(c) PROVE TurnsTyped'
    <3>1. PICK a \in known, router \in Routers :
            /\ turn' = [turn EXCEPT ![c] = [turn[c] EXCEPT !.account = a]]
            /\ pc' = [pc EXCEPT ![c] = IF router THEN "routing" ELSE "resolved"]
      BY <1>2, <2>2 DEF Resolve
    <3>2. [turn[c] EXCEPT !.account = a] \in Turn /\ a \in Accounts
      BY <1>0, <1>2, <3>1 DEF Resolve, TurnsTyped, Turn
    <3>. QED  BY <1>0, <3>1, <3>2, MoveType DEF Turn
  <2>3. UNCHANGED <<store, known, convs, owner, usedBy, answered, crossed, lossy>>
    BY <1>2 DEF Resolve
  <2>4. TurnsTyped'
    BY <2>1, <2>2
  <2>. QED  BY <1>a, <1>b, <1>d, <2>3, <2>4 DEF TypeOK
<1>3. ASSUME NEW c \in Callers, StartChat(c) PROVE TypeOK'
  <2>1. pc[c] = "resolved" /\ turn[c] \in Turn /\ turn[c].account \in Accounts
    BY <1>0, <1>3 DEF StartChat, TurnsTyped
  <2>2. PICK t \in Turn : /\ turn' = [turn EXCEPT ![c] = t]
                          /\ t.account \in Accounts /\ t.conv \in Conv
    <3>1. CASE turn[c].conv = 0
      <4>1. MakeConv(c) /\ turn' = [turn EXCEPT ![c] = [turn[c] EXCEPT !.conv = convs + 1]]
        BY <1>3, <3>1 DEF StartChat
      <4>2. convs + 1 \in Conv
        BY <1>0, <2>1, <4>1, MakeConvType
      <4>3. /\ [turn[c] EXCEPT !.conv = convs + 1] \in Turn
            /\ [turn[c] EXCEPT !.conv = convs + 1].account = turn[c].account
            /\ [turn[c] EXCEPT !.conv = convs + 1].conv = convs + 1
        BY <2>1, <4>2 DEF Turn
      <4>. QED  BY <2>1, <4>1, <4>2, <4>3
    <3>2. CASE turn[c].conv # 0
      <4>1. turn' = [turn EXCEPT ![c] = turn[c]] /\ turn[c].conv \in Conv
        BY <1>0, <1>3, <2>1, <3>2 DEF StartChat, TurnsTyped, Turn
      <4>. QED  BY <2>1, <4>1
    <3>. QED  BY <3>1, <3>2
  <2>3. TurnsTyped'
    BY <1>0, <1>3, <2>2, MoveType DEF StartChat
  <2>4. UNCHANGED <<store, known, answered, crossed, lossy>>
    BY <1>3 DEF StartChat
  <2>5. ConvsTyped'
    <3>1. CASE turn[c].conv = 0
      BY <1>0, <1>3, <2>1, <2>4, <3>1, MakeConvType DEF StartChat, ConvsTyped
    <3>2. CASE turn[c].conv # 0
      BY <1>0, <1>3, <2>1, <2>4, <3>2 DEF StartChat, ConvsTyped, Turn
    <3>. QED  BY <3>1, <3>2
  <2>. QED  BY <1>a, <1>d, <2>3, <2>4, <2>5 DEF TypeOK
<1>4. ASSUME NEW c \in Callers, RouterTools(c) PROVE TypeOK'
  <2>1. pc[c] = "routing" /\ turn[c] \in Turn /\ turn[c].account \in Accounts
    BY <1>0, <1>4 DEF RouterTools, TurnsTyped
  <2>2. MakeConv(c) /\ End(c) /\ UNCHANGED <<known, crossed, lossy>>
    BY <1>4 DEF RouterTools
  <2>3. TurnsTyped'
    BY <1>0, <2>2, EndType
  <2>4. turn[c].key \in Keys /\ turn[c].api \in Apis /\ convs + 1 \in Conv
    BY <1>0, <2>1, <2>2, MakeConvType DEF Turn
  <2>5. answered' \in [Keys -> Conv \cup {0}]
    BY <1>0, <1>4, <2>4 DEF RouterTools, ConvsTyped
  <2>6. ConvsTyped'
    BY <1>0, <2>1, <2>2, <2>5, MakeConvType DEF ConvsTyped
  <2>7. StoreTyped'
    <3>1. CASE turn[c].api = "openaiStream"
      BY <1>0, <1>4, <2>1, <2>4, <3>1, UpsertStore DEF RouterTools
    <3>2. CASE turn[c].api # "openaiStream"
      BY <1>a, <1>4, <3>2 DEF RouterTools
    <3>. QED  BY <3>1, <3>2
  <2>. QED  BY <1>d, <2>2, <2>3, <2>6, <2>7 DEF TypeOK
<1>5. ASSUME NEW c \in Callers, RouterNone(c) PROVE TypeOK'
  <2>1. pc[c] = "routing" /\ turn[c] \in Turn /\ turn[c].account \in Accounts
    BY <1>0, <1>5 DEF RouterNone, TurnsTyped
  <2>2. /\ MakeConv(c) /\ pc' = [pc EXCEPT ![c] = "resolved"]
        /\ UNCHANGED <<store, known, turn, answered, crossed, lossy>>
    BY <1>5 DEF RouterNone
  <2>3. TurnsTyped'
    BY <1>0, <2>1, <2>2 DEF TurnsTyped
  <2>4. ConvsTyped'
    BY <1>0, <2>1, <2>2, MakeConvType DEF ConvsTyped
  <2>. QED  BY <1>a, <1>d, <2>2, <2>3, <2>4 DEF TypeOK
<1>6. ASSUME NEW c \in Callers, ChatAnswered(c) PROVE TypeOK'
  <2>1. /\ pc[c] = "chatting" /\ turn[c] \in Turn /\ turn[c].account \in Accounts
        /\ turn[c].conv \in Conv
    BY <1>0, <1>6 DEF ChatAnswered, TurnsTyped
  <2>2. End(c) /\ UNCHANGED <<known, convs, owner, usedBy, crossed, lossy>>
    BY <1>6 DEF ChatAnswered
  <2>3. TurnsTyped'
    BY <1>0, <2>2, EndType
  <2>4. answered' \in [Keys -> Conv \cup {0}]
    BY <1>0, <1>6, <2>1 DEF ChatAnswered, ConvsTyped, Turn
  <2>5. StoreTyped'
    <3>1. CASE turn[c].api # "openaiStream"
      BY <1>0, <1>6, <2>1, <3>1, UpsertStore DEF ChatAnswered, Turn
    <3>2. CASE turn[c].api = "openaiStream"
      BY <1>a, <1>6, <3>2 DEF ChatAnswered
    <3>. QED  BY <3>1, <3>2
  <2>. QED  BY <1>0, <1>d, <2>2, <2>3, <2>4, <2>5 DEF TypeOK, ConvsTyped
<1>7. ASSUME NEW c \in Callers, ChatFails(c) PROVE TypeOK'
  <2>1. End(c) /\ UNCHANGED <<store, known, convs, owner, usedBy, answered, crossed, lossy>>
    BY <1>7 DEF ChatFails
  <2>. QED  BY <1>0, <1>a, <1>b, <1>d, <2>1, EndType DEF TypeOK
<1>8. ASSUME NEW k \in Keys, DeleteConversation(k) PROVE TypeOK'
  <2>1. /\ sessions' = [j \in DOMAIN sessions \ {k} |-> sessions[j]] /\ Save
        /\ answered' = [answered EXCEPT ![k] = 0]
        /\ UNCHANGED <<known, pc, turn, convs, owner, usedBy, crossed, lossy>>
    BY <1>8 DEF DeleteConversation
  <2>2. IsTable(sessions')
    BY <1>0, <2>1 DEF StoreTyped, IsTable
  <2>3. saved' \in BOOLEAN /\ disk' \in {sessions', disk, None}
    BY <1>0, <2>1, SaveDisk DEF StoreTyped
  <2>4. disk' = None \/ IsTable(disk')
    BY <1>0, <2>2, <2>3 DEF StoreTyped
  <2>5. StoreTyped'
    BY <2>2, <2>3, <2>4 DEF StoreTyped, IsTable
  <2>6. ConvsTyped'
    BY <1>0, <2>1 DEF ConvsTyped
  <2>. QED  BY <1>c, <1>d, <2>1, <2>5, <2>6 DEF TypeOK
<1>9. ASSUME NEW a \in Accounts, DeleteAccount(a) \/ Login(a) PROVE TypeOK'
  <2>1. known' \subseteq Accounts
    BY <1>0, <1>9 DEF DeleteAccount, Login
  <2>2. UNCHANGED <<store, pc, turn, convs, owner, usedBy, answered, crossed, lossy>>
    BY <1>9 DEF DeleteAccount, Login
  <2>. QED  BY <1>0, <1>a, <1>b, <1>c, <2>1, <2>2 DEF TypeOK
<1>10. ASSUME Restart PROVE TypeOK'
  <2>1. /\ UNCHANGED <<disk, known, convs, owner, usedBy, answered, crossed>>
        /\ lossy' = (lossy \/ ~saved) /\ saved' = TRUE
    BY <1>10 DEF Restart
  <2>2. TurnsTyped'
    BY <1>10 DEF Restart, TurnsTyped
  <2>3. IsTable(sessions')
    BY <1>0, <1>10 DEF Restart, StoreTyped, IsTable
  <2>4. StoreTyped'
    BY <1>0, <2>1, <2>3 DEF StoreTyped, IsTable
  <2>5. lossy' \in BOOLEAN
    BY <2>1
  <2>. QED  BY <1>0, <1>b, <2>1, <2>2, <2>4, <2>5 DEF TypeOK
<1>11. ASSUME UNCHANGED vars PROVE TypeOK'
  BY <1>0, <1>a, <1>b, <1>c, <1>d, <1>11 DEF vars, store, TypeOK
<1>. QED
  BY <1>1, <1>2, <1>3, <1>4, <1>5, <1>6, <1>7, <1>8, <1>9, <1>10, <1>11 DEF Next

-----------------------------------------------------------------------------
\* A new conversation is bound to the turn it was made up for.
LEMMA MakeConvGrow ==
  ASSUME TypeOK, UsedOnce, NEW c \in Callers, MakeConv(c), turn[c] \in Turn,
         turn[c].account \in Accounts, UNCHANGED crossed
  PROVE  /\ Grow /\ UsedOnce' /\ convs + 1 \in 1..convs' /\ convs + 1 \in Conv
         /\ usedBy'[convs + 1] = {turn[c].key} /\ owner'[convs + 1] = turn[c].account
<1>1. /\ convs \in Nat /\ convs' = convs + 1 /\ convs' \in Conv
      /\ owner'[convs + 1] = turn[c].account /\ usedBy'[convs + 1] = {turn[c].key}
      /\ \A v \in Conv : v # convs + 1 => owner'[v] = owner[v] /\ usedBy'[v] = usedBy[v]
  BY MakeConvType DEF TypeOK, ConvsTyped
<1>2. Grow
  BY <1>1, SessionAssumptions DEF Grow, Conv
<1>3. UsedOnce'
  BY <1>1 DEF UsedOnce, Turn
<1>. QED  BY <1>1, <1>2, <1>3

\* Conversations that are left alone stay as they are.
LEMMA SameGrow ==
  ASSUME TypeOK, UsedOnce, UNCHANGED <<convs, owner, usedBy>>, crossed \subseteq crossed'
  PROVE  Grow /\ UsedOnce'
BY DEF TypeOK, ConvsTyped, Grow, UsedOnce

\* After a turn of key k was answered, and nothing else, its entry is the answer's.
LEMMA MappedKept ==
  ASSUME TypeOK, AnsweredKeyMapped, UNCHANGED lossy, NEW k \in Keys, NEW a \in Accounts,
         NEW v \in Conv, v # 0, Upsert(k, a, v),
         answered' = [answered EXCEPT ![k] = v]
  PROVE  AnsweredKeyMapped'
<1>. DEFINE e == [account |-> a, conv |-> v]
<1>1. sessions' = Put(k, e) /\ e \in Entry /\ IsTable(sessions)
  BY UpsertStore DEF TypeOK, StoreTyped, Entry
<1>2. /\ k \in DOMAIN sessions' /\ sessions'[k] = e
      /\ \A j : j # k => (j \in DOMAIN sessions' <=> j \in DOMAIN sessions)
      /\ \A j \in DOMAIN sessions : j # k => sessions'[j] = sessions[j]
  <2>. HIDE DEF e
  <2>1. /\ k \in DOMAIN Put(k, e) /\ Put(k, e)[k] = e
        /\ DOMAIN Put(k, e) = DOMAIN sessions \cup {k}
        /\ \A j \in DOMAIN sessions : j # k => Put(k, e)[j] = sessions[j]
    BY <1>1, PutTable
  <2>2. \A j : j # k => (j \in DOMAIN Put(k, e) <=> j \in DOMAIN sessions)
    BY <2>1, Zenon
  <2>. QED  BY <1>1, <2>1, <2>2
<1>3. \A j \in Keys : answered'[j] = IF j = k THEN v ELSE answered[j]
  BY DEF TypeOK, ConvsTyped
<1>4. ASSUME NEW j \in Keys, ~lossy'
      PROVE  (IF answered[j] = 0 THEN j \notin DOMAIN sessions ELSE Mapped(j))'
  <2>1. CASE j = k
    BY <1>2, <1>3, <2>1 DEF Mapped
  <2>2. CASE j # k
    BY <1>2, <1>3, <1>4, <2>2 DEF Mapped, AnsweredKeyMapped
  <2>. QED  BY <2>1, <2>2
<1>. QED  BY <1>4 DEF AnsweredKeyMapped

\* A turn that has ended holds nothing.
LEMMA EndKept ==
  ASSUME TypeOK, TurnsBound, Grow, NEW c \in Callers, End(c)
  PROVE  TurnsBound'
<1>1. pc'[c] = "idle" /\ \A d \in Callers : d # c => pc'[d] = pc[d] /\ turn'[d] = turn[d]
  BY EndType DEF TypeOK
<1>. QED  BY <1>1, TurnsKept DEF TurnBound

LEMMA InitSession == Init => SessionInv
<1>. SUFFICES ASSUME Init PROVE SessionInv
  OBVIOUS
<1>. USE SessionAssumptions DEF Init
<1>1. StoreTyped
  BY DEF StoreTyped, IsTable
<1>2. TurnsTyped
  BY DEF TurnsTyped
<1>3. ConvsTyped
  BY DEF ConvsTyped
<1>4. StoreBound /\ TurnsBound /\ UsedOnce /\ SavedStands
  BY DEF StoreBound, EntriesBound, TurnsBound, TurnBound, UsedOnce, SavedStands
<1>5. AnsweredKeyMapped
  BY DEF AnsweredKeyMapped
<1>. QED  BY <1>1, <1>2, <1>3, <1>4, <1>5 DEF SessionInv, TypeOK

\* One step per handler section; Bound is what a turn carries from its look to its
\* answer, and SavedStands what a restart relies on.
LEMMA NextSession == SessionInv /\ [Next]_vars => SessionInv'
<1>. SUFFICES ASSUME SessionInv, [Next]_vars PROVE SessionInv'
  OBVIOUS
<1>0. /\ TypeOK /\ StoreTyped /\ TurnsTyped /\ ConvsTyped /\ StoreBound /\ TurnsBound
      /\ UsedOnce /\ SavedStands /\ AnsweredKeyMapped
  BY DEF SessionInv, TypeOK
<1>t. TypeOK'
  BY NextTypeOK, <1>0
<1>a. UNCHANGED <<store, lossy>> => SavedStands'
  BY <1>0 DEF SavedStands, store
<1>b. UNCHANGED <<sessions, answered, lossy>> => AnsweredKeyMapped'
  BY <1>0 DEF AnsweredKeyMapped, Mapped
<1>c. ASSUME NEW k \in Keys, NEW a \in Accounts, NEW v \in Conv, Upsert(k, a, v)
      PROVE  SavedStands'
  BY <1>0, <1>c, UpsertStore DEF SavedStands
<1>d. UNCHANGED <<store, answered, lossy>> /\ Grow /\ UsedOnce' /\ TurnsBound' => SessionInv'
  BY <1>0, <1>t, <1>a, <1>b, StoreKept DEF SessionInv, store
<1>1. ASSUME NEW c \in Callers, NEW k \in Keys, NEW api \in Apis, Begin(c, k, api)
      PROVE  SessionInv'
  <2>1. UNCHANGED <<store, convs, owner, usedBy, answered, lossy>> /\ crossed \subseteq crossed'
    BY <1>1 DEF Begin
  <2>2. Grow /\ UsedOnce'
    BY <1>0, <2>1, SameGrow
  <2>3. /\ \A d \in Callers : d # c => pc'[d] = pc[d] /\ turn'[d] = turn[d]
        /\ pc'[c] = "looked" /\ turn'[c].key = k
    BY <1>0, <1>1 DEF Begin, TurnsTyped
  <2>4. CASE k \in DOMAIN sessions
    <3>1. Bound(k, sessions[k].account, sessions[k].conv)
      BY <1>0, <2>4 DEF StoreBound, EntriesBound
    <3>2. /\ turn'[c].conv = sessions[k].conv /\ turn'[c].account # None
          /\ turn'[c].account = sessions[k].account \/ sessions[k].conv \in crossed'
      <4>1. sessions[k].account # None
        BY <1>0, <2>4, SessionAssumptions DEF StoreTyped, IsTable, Entry
      <4>. QED  BY <1>0, <1>1, <2>4, <4>1 DEF Begin, TurnsTyped
    <3>3. TurnBound(c)'
      BY <2>1, <2>3, <3>1, <3>2 DEF TurnBound, Bound
    <3>. QED  BY <1>0, <1>d, <2>1, <2>2, <2>3, <3>3, TurnsKept
  <2>5. CASE k \notin DOMAIN sessions
    <3>1. turn'[c].conv = 0
      BY <1>0, <1>1, <2>5 DEF Begin, TurnsTyped
    <3>. QED  BY <1>0, <1>d, <2>1, <2>2, <2>3, <3>1, TurnsKept DEF TurnBound
  <2>. QED  BY <2>4, <2>5
<1>2. ASSUME NEW c \in Callers, Resolve(c) PROVE SessionInv'
  <2>1. UNCHANGED <<store, convs, owner, usedBy, answered, crossed, lossy>>
    BY <1>2 DEF Resolve
  <2>2. Grow /\ UsedOnce'
    BY <1>0, <2>1, SameGrow
  <2>3. ASSUME End(c) PROVE SessionInv'
    BY <1>0, <1>d, <2>1, <2>2, <2>3, EndKept
  <2>4. ASSUME ~End(c) PROVE SessionInv'
    <3>1. pc[c] = "looked" /\ turn[c] \in Turn
      BY <1>0, <1>2 DEF Resolve, TurnsTyped
    <3>2. PICK a \in known, router \in Routers :
            /\ turn[c].account \in {None, a}
            /\ turn' = [turn EXCEPT ![c].account = a]
            /\ pc' = [pc EXCEPT ![c] = IF router THEN "routing" ELSE "resolved"]
      BY <1>2, <2>4 DEF Resolve
    <3>3. /\ \A d \in Callers : d # c => pc'[d] = pc[d] /\ turn'[d] = turn[d]
          /\ turn'[c].key = turn[c].key /\ turn'[c].conv = turn[c].conv /\ turn'[c].account = a
      BY <1>0, <3>1, <3>2 DEF TurnsTyped, Turn
    <3>4. TurnBound(c)'
      <4>1. TurnBound(c) /\ a # None
        BY <1>0, <3>2, SessionAssumptions DEF TurnsBound, TypeOK
      <4>. QED  BY <2>1, <3>1, <3>2, <3>3, <4>1 DEF TurnBound, Bound
    <3>. QED  BY <1>0, <1>d, <2>1, <2>2, <3>3, <3>4, TurnsKept
  <2>. QED  BY <2>3, <2>4
<1>3. ASSUME NEW c \in Callers, StartChat(c) PROVE SessionInv'
  <2>1. /\ pc[c] = "resolved" /\ turn[c] \in Turn /\ turn[c].account \in Accounts
        /\ UNCHANGED <<store, answered, crossed, lossy>>
    BY <1>0, <1>3 DEF StartChat, TurnsTyped
  <2>2. CASE turn[c].conv = 0
    <3>1. MakeConv(c) /\ turn' = [turn EXCEPT ![c].conv = convs + 1]
      BY <1>3, <2>2 DEF StartChat
    <3>2. /\ Grow /\ UsedOnce' /\ convs + 1 \in 1..convs'
          /\ usedBy'[convs + 1] = {turn[c].key} /\ owner'[convs + 1] = turn[c].account
      BY <1>0, <2>1, <3>1, MakeConvGrow
    <3>3. /\ \A d \in Callers : d # c => pc'[d] = pc[d] /\ turn'[d] = turn[d]
          /\ turn'[c].key = turn[c].key /\ turn'[c].conv = convs + 1
          /\ turn'[c].account = turn[c].account
      BY <1>0, <1>3, <2>1, <3>1 DEF StartChat, TurnsTyped, Turn
    <3>4. TurnBound(c)'
      BY <2>1, <3>2, <3>3, SessionAssumptions DEF TurnBound, Bound
    <3>. QED  BY <1>0, <1>d, <2>1, <3>2, <3>3, <3>4, TurnsKept
  <2>3. CASE turn[c].conv # 0
    <3>1. /\ usedBy' = [usedBy EXCEPT ![turn[c].conv] = @ \cup {turn[c].key}]
          /\ UNCHANGED <<turn, convs, owner>>
      BY <1>3, <2>3 DEF StartChat
    <3>2. Bound(turn[c].key, turn[c].account, turn[c].conv)
      BY <1>0, <2>1, <2>3 DEF TurnsBound, TurnBound
    <3>3. usedBy' = usedBy
      BY <1>0, <3>1, <3>2 DEF ConvsTyped, Bound, Turn
    <3>4. Grow /\ UsedOnce'
      BY <1>0, <2>1, <3>1, <3>3, SameGrow
    <3>5. \A d \in Callers : d # c => pc'[d] = pc[d] /\ turn'[d] = turn[d]
      BY <1>0, <1>3, <3>1 DEF StartChat, TurnsTyped
    <3>6. TurnBound(c)'
      BY <1>0, <2>1, <2>3, <3>1, <3>2, <3>3 DEF TurnsBound, TurnBound, Bound
    <3>. QED  BY <1>0, <1>d, <2>1, <3>4, <3>5, <3>6, TurnsKept
  <2>. QED  BY <2>2, <2>3
<1>4. ASSUME NEW c \in Callers, RouterTools(c) PROVE SessionInv'
  <2>1. /\ turn[c] \in Turn /\ turn[c].account \in Accounts /\ turn[c].key \in Keys
        /\ MakeConv(c) /\ End(c) /\ UNCHANGED <<crossed, lossy>>
    BY <1>0, <1>4 DEF RouterTools, TurnsTyped, Turn
  <2>2. /\ Grow /\ UsedOnce' /\ convs + 1 \in 1..convs' /\ convs + 1 \in Conv
        /\ usedBy'[convs + 1] = {turn[c].key} /\ owner'[convs + 1] = turn[c].account
    BY <1>0, <2>1, MakeConvGrow
  <2>3. TurnsBound'
    BY <1>0, <2>1, <2>2, EndKept
  <2>4. CASE turn[c].api = "openaiStream"
    <3>1. /\ Upsert(turn[c].key, turn[c].account, convs + 1)
          /\ answered' = [answered EXCEPT ![turn[c].key] = convs + 1] /\ convs + 1 # 0
      BY <1>4, <2>2, <2>4 DEF RouterTools, Conv
    <3>2. StoreBound'
      BY <1>0, <2>1, <2>2, <3>1, StoreUpsert
    <3>3. AnsweredKeyMapped'
      BY <1>0, <2>1, <2>2, <3>1, MappedKept
    <3>. QED  BY <1>t, <1>c, <2>1, <2>2, <2>3, <3>1, <3>2, <3>3 DEF SessionInv
  <2>5. CASE turn[c].api # "openaiStream"
    BY <1>4, <1>d, <2>1, <2>2, <2>3, <2>5 DEF RouterTools
  <2>. QED  BY <2>4, <2>5
<1>5. ASSUME NEW c \in Callers, RouterNone(c) PROVE SessionInv'
  <2>1. /\ pc[c] = "routing" /\ turn[c] \in Turn /\ turn[c].account \in Accounts /\ MakeConv(c)
        /\ pc' = [pc EXCEPT ![c] = "resolved"]
        /\ UNCHANGED <<store, turn, answered, crossed, lossy>>
    BY <1>0, <1>5 DEF RouterNone, TurnsTyped
  <2>2. Grow /\ UsedOnce'
    BY <1>0, <2>1, MakeConvGrow
  <2>3. /\ \A d \in Callers : d # c => pc'[d] = pc[d] /\ turn'[d] = turn[d]
        /\ turn'[c] = turn[c]
    BY <1>0, <2>1 DEF TurnsTyped
  <2>4. TurnBound(c)'
    <3>1. TurnBound(c)
      BY <1>0 DEF TurnsBound
    <3>2. CASE turn[c].conv # 0
      <4>1. /\ turn[c].conv \in 1..convs' /\ usedBy'[turn[c].conv] = {turn[c].key}
            /\ turn[c].conv \in crossed' \/ owner'[turn[c].conv] = turn[c].account
        BY <1>0, <2>1, <2>2, <3>1, <3>2, BoundKept DEF TurnBound
      <4>. QED  BY <2>1, <2>3, <4>1, SessionAssumptions DEF TurnBound, Bound
    <3>. QED  BY <2>3, <3>2 DEF TurnBound
  <2>. QED  BY <1>0, <1>d, <2>1, <2>2, <2>3, <2>4, TurnsKept
<1>6. ASSUME NEW c \in Callers, ChatAnswered(c) PROVE SessionInv'
  <2>1. /\ pc[c] = "chatting" /\ turn[c] \in Turn /\ turn[c].account \in Accounts
        /\ turn[c].key \in Keys /\ turn[c].conv \in Conv /\ turn[c].conv # 0
        /\ End(c) /\ UNCHANGED <<convs, owner, usedBy, crossed, lossy>>
    BY <1>0, <1>6 DEF ChatAnswered, TurnsTyped, Turn, Conv
  <2>2. Grow /\ UsedOnce'
    BY <1>0, <2>1, SameGrow
  <2>3. TurnsBound'
    BY <1>0, <2>1, <2>2, EndKept
  <2>4. CASE turn[c].api # "openaiStream"
    <3>1. /\ Upsert(turn[c].key, turn[c].account, turn[c].conv)
          /\ answered' = [answered EXCEPT ![turn[c].key] = turn[c].conv]
      BY <1>6, <2>4 DEF ChatAnswered
    <3>2. /\ turn[c].conv \in 1..convs' /\ usedBy'[turn[c].conv] = {turn[c].key}
          /\ turn[c].conv \in crossed' \/ owner'[turn[c].conv] = turn[c].account
      BY <1>0, <2>1, <2>2, BoundKept DEF TurnsBound, TurnBound
    <3>3. StoreBound'
      BY <1>0, <2>1, <2>2, <3>1, <3>2, StoreUpsert
    <3>4. AnsweredKeyMapped'
      BY <1>0, <2>1, <3>1, MappedKept
    <3>. QED  BY <1>t, <1>c, <2>1, <2>2, <2>3, <3>1, <3>3, <3>4 DEF SessionInv
  <2>5. CASE turn[c].api = "openaiStream"
    <3>1. UNCHANGED <<store, answered>>
      BY <1>6, <2>5 DEF ChatAnswered
    <3>. QED  BY <1>d, <2>1, <2>2, <2>3, <3>1
  <2>. QED  BY <2>4, <2>5
<1>7. ASSUME NEW c \in Callers, ChatFails(c) PROVE SessionInv'
  <2>1. End(c) /\ UNCHANGED <<store, convs, owner, usedBy, answered, crossed, lossy>>
    BY <1>7 DEF ChatFails
  <2>2. Grow /\ UsedOnce'
    BY <1>0, <2>1, SameGrow
  <2>. QED  BY <1>0, <1>d, <2>1, <2>2, EndKept
<1>8. ASSUME NEW k \in Keys, DeleteConversation(k) PROVE SessionInv'
  <2>1. /\ sessions' = [j \in DOMAIN sessions \ {k} |-> sessions[j]] /\ Save
        /\ answered' = [answered EXCEPT ![k] = 0]
        /\ UNCHANGED <<pc, turn, convs, owner, usedBy, crossed, lossy>>
    BY <1>8 DEF DeleteConversation
  <2>2. Grow /\ UsedOnce'
    BY <1>0, <2>1, SameGrow
  <2>3. disk' \in {sessions', disk, None} /\ (saved' => disk' = sessions')
    BY <1>0, <2>1, SaveDisk DEF StoreTyped
  <2>4. StoreBound'
    BY <1>0, <2>1, <2>3 DEF StoreBound, EntriesBound, Bound
  <2>5. TurnsBound'
    BY <1>0, <2>1 DEF TurnsBound, TurnBound, Bound
  <2>6. AnsweredKeyMapped'
    BY <1>0, <2>1 DEF AnsweredKeyMapped, Mapped, ConvsTyped
  <2>. QED  BY <1>t, <2>2, <2>3, <2>4, <2>5, <2>6 DEF SessionInv, SavedStands
<1>9. ASSUME NEW a \in Accounts, DeleteAccount(a) \/ Login(a) PROVE SessionInv'
  <2>1. UNCHANGED <<store, pc, turn, convs, owner, usedBy, answered, crossed, lossy>>
    BY <1>9 DEF DeleteAccount, Login
  <2>2. TurnsBound'
    BY <1>0, <2>1 DEF TurnsBound, TurnBound, Bound
  <2>. QED  BY <1>0, <1>d, <2>1, <2>2, SameGrow
<1>10. ASSUME Restart PROVE SessionInv'
  <2>1. /\ UNCHANGED <<disk, convs, owner, usedBy, answered, crossed>>
        /\ lossy' = (lossy \/ ~saved) /\ saved' = TRUE
        /\ sessions' = IF disk = None THEN [k \in {} |-> None] ELSE disk
        /\ pc' = [c \in Callers |-> "idle"]
    BY <1>10 DEF Restart
  <2>2. UsedOnce' /\ TurnsBound'
    BY <1>0, <2>1 DEF UsedOnce, TurnsBound, TurnBound
  <2>3. StoreBound'
    BY <1>0, <2>1 DEF StoreBound, EntriesBound, Bound
  <2>4. ~lossy' => disk = sessions /\ sessions' = sessions /\ disk' = sessions'
    BY <1>0, <2>1, SessionAssumptions DEF SavedStands, StoreTyped, IsTable
  <2>5. AnsweredKeyMapped'
    BY <1>0, <2>1, <2>4 DEF AnsweredKeyMapped, Mapped
  <2>. QED  BY <1>t, <2>2, <2>3, <2>4, <2>5 DEF SessionInv, SavedStands
<1>11. ASSUME UNCHANGED vars PROVE SessionInv'
  <2>1. UNCHANGED <<store, pc, turn, convs, owner, usedBy, answered, crossed, lossy>>
    BY <1>11 DEF vars, store
  <2>2. TurnsBound'
    BY <1>0, <2>1 DEF TurnsBound, TurnBound, Bound
  <2>. QED  BY <1>0, <1>d, <2>1, <2>2, SameGrow
<1>. QED
  BY <1>1, <1>2, <1>3, <1>4, <1>5, <1>6, <1>7, <1>8, <1>9, <1>10, <1>11 DEF Next

LEMMA SessionInvariant == Spec => []SessionInv
BY InitSession, NextSession, PTL DEF Spec

-----------------------------------------------------------------------------
\* The store, the file, the turns in flight and the books of the model keep their
\* types, whatever was saved, torn or restarted.
THEOREM TypeCorrect == Spec => []TypeOK
<1>1. SessionInv => TypeOK
  BY DEF SessionInv
<1>. QED  BY <1>1, SessionInvariant, PTL

\* Turns of two keys never meet in one conversation: not when the entry was copied
\* long ago, deleted meanwhile, or read back from an older file.
THEOREM Isolation == Spec => []KeysIsolated
<1>1. SessionInv => KeysIsolated
  <2>. SUFFICES ASSUME SessionInv, NEW v \in Conv PROVE Cardinality(usedBy[v]) <= 1
    BY DEF KeysIsolated
  <2>1. Cardinality({}) = 0
    BY FS_EmptySet
  <2>2. \A k \in Keys : Cardinality({k}) = 1
    BY FS_Singleton
  <2>3. usedBy[v] = {} \/ \E k \in Keys : usedBy[v] = {k}
    BY DEF SessionInv, UsedOnce
  <2>. QED  BY <2>1, <2>2, <2>3
<1>. QED  BY <1>1, SessionInvariant, PTL

\* A turn talks to ChatHub in a conversation of the account it authenticates with,
\* unless a request has contradicted its key: the account of an entry may be gone by
\* the time the turn resolves it, and then the turn is refused.
THEOREM Ownership == Spec => []AccountOwnsConversation
<1>1. SessionInv => AccountOwnsConversation
  <2>. SUFFICES ASSUME SessionInv, NEW c \in Callers, pc[c] = "chatting"
                PROVE  turn[c].conv \in crossed \/ owner[turn[c].conv] = turn[c].account
    BY DEF AccountOwnsConversation
  <2>1. TurnBound(c) /\ turn[c].conv # 0
    BY DEF SessionInv, TurnsBound, TypeOK, TurnsTyped, Conv
  <2>. QED  BY <2>1 DEF TurnBound, Bound
<1>. QED  BY <1>1, SessionInvariant, PTL

\* The key of a turn that was answered and stores leads to its conversation, in spite of
\* deletions, logins and other turns, until a restart follows a failed save.
THEOREM Remembered == Spec => []AnsweredKeyMapped
<1>1. SessionInv => AnsweredKeyMapped
  BY DEF SessionInv
<1>. QED  BY <1>1, SessionInvariant, PTL
-----------------------------------------------------------------------------
\* What a turn is converted to.
From(p) == [t \in Turns |-> IF p = "anthropic" THEN FromMessage(t) ELSE FromItems(t)]

\* What a block is converted to.
LEMMA BlockTyped ==
  ASSUME NEW b \in Blocks
  PROVE  /\ FromBlock(b) \in Seq(Messages) /\ User \in Messages
         /\ b.kind = "output" => FromBlock(b) = <<Tool(b.id, "done")>>
         /\ b.kind # "output" => FromBlock(b) \in {<<>>, <<User>>}
<1>1. User \in Messages
  BY DEF User, Messages
<1>2. CASE b.kind = "output"
  <2>1. Tool(b.id, "done") \in Messages
    BY <1>2 DEF Tool, Blocks, Messages
  <2>2. FromBlock(b) = <<Tool(b.id, "done")>>
    BY <1>2 DEF FromBlock
  <2>. QED  BY <1>1, <1>2, <2>1, <2>2
<1>3. CASE b.kind = "text"
  BY <1>1, <1>3 DEF FromBlock
<1>4. CASE b.kind = "progress"
  BY <1>1, <1>4 DEF FromBlock
<1>. QED  BY <1>2, <1>3, <1>4 DEF Blocks

\* The parts that both conversions join for a turn of the user.
ItemParts(blocks)    == [k \in DOMAIN blocks |-> FromBlock(blocks[k])]
MessageParts(blocks) ==
    [k \in DOMAIN blocks |-> IF blocks[k].kind = "output" THEN FromBlock(blocks[k]) ELSE <<>>]
Rest(blocks) == IF \E k \in DOMAIN blocks : blocks[k].kind = "text" THEN <<User>> ELSE <<>>

LEMMA PartsTyped ==
  ASSUME NEW blocks \in Seq(Blocks)
  PROVE  /\ ItemParts(blocks) \in Seq(Seq(Messages)) /\ Len(ItemParts(blocks)) = Len(blocks)
         /\ MessageParts(blocks) \in Seq(Seq(Messages))
         /\ Len(MessageParts(blocks)) = Len(blocks)
         /\ Rest(blocks) \in Seq(Messages)
<1>. DEFINE N == Len(blocks)
<1>1. N \in Nat /\ DOMAIN blocks = 1..N /\ \A k \in 1..N : blocks[k] \in Blocks
  OBVIOUS
<1>2. \A k \in 1..N : FromBlock(blocks[k]) \in Seq(Messages)
  BY <1>1, BlockTyped
<1>3. ItemParts(blocks) \in [1..N -> Seq(Messages)]
  BY <1>1, <1>2 DEF ItemParts
<1>4. MessageParts(blocks) \in [1..N -> Seq(Messages)]
  BY <1>1, <1>2 DEF MessageParts
<1>5. Rest(blocks) \in Seq(Messages)
  <2>1. User \in Messages
    BY DEF User, Messages
  <2>. QED  BY <2>1 DEF Rest
<1>. HIDE DEF N
<1>6. ItemParts(blocks) \in Seq(Seq(Messages)) /\ Len(ItemParts(blocks)) = N
  BY <1>1, <1>3, FunctionSeq
<1>7. MessageParts(blocks) \in Seq(Seq(Messages)) /\ Len(MessageParts(blocks)) = N
  BY <1>1, <1>4, FunctionSeq
<1>. QED  BY <1>5, <1>6, <1>7 DEF N

\* Both conversions of a turn of the user.
LEMMA UserTurnIs ==
  ASSUME NEW t \in Turns, t.role = "user"
  PROVE  /\ t.blocks \in Seq(Blocks)
         /\ FromItems(t) = FlattenSeq(ItemParts(t.blocks))
         /\ FromMessage(t) = FlattenSeq(MessageParts(t.blocks)) \o Rest(t.blocks)
BY DEF Turns, FromItems, FromMessage, ItemParts, MessageParts, Rest

\* The calls of an answer in one message, and in one message each.
OneByOne(ids) == [k \in DOMAIN ids |-> OneCall(ids[k])]

LEMMA CallsTyped ==
  ASSUME NEW ids \in Seq(Ids)
  PROVE  /\ AllCalls(BotTurn(ids)) \in Messages /\ Assistant(<<>>) \in Messages
         /\ OneByOne(ids) \in Seq(Messages) /\ Len(OneByOne(ids)) = Len(ids)
         /\ AllCalls(BotTurn(ids)).calls \in Seq([id : Ids])
         /\ Len(AllCalls(BotTurn(ids)).calls) = Len(ids)
         /\ \A k \in 1..Len(ids) : AllCalls(BotTurn(ids)).calls[k].id = ids[k]
<1>. DEFINE calls == [k \in DOMAIN ids |-> [id |-> ids[k]]]
            N == Len(ids)
<1>1. N \in Nat /\ DOMAIN ids = 1..N /\ \A k \in 1..N : ids[k] \in Ids
  OBVIOUS
<1>2. calls \in [1..N -> [id : Ids]]
  BY <1>1
<1>3. calls \in Seq([id : Ids]) /\ Len(calls) = N
  <2>. HIDE DEF calls, N
  <2>. QED  BY <1>1, <1>2, FunctionSeq
<1>4. AllCalls(BotTurn(ids)) = [role |-> "assistant", calls |-> calls]
  BY DEF AllCalls, BotTurn, Assistant
<1>5. \A k \in 1..N : calls[k].id = ids[k]
  BY <1>1
<1>. HIDE DEF calls
<1>6. AllCalls(BotTurn(ids)) \in Messages
  BY <1>3, <1>4 DEF Messages
<1>7. Assistant(<<>>) \in Messages
  BY DEF Assistant, Messages
<1>8. ASSUME NEW i \in Ids PROVE OneCall(i) \in Messages
  BY DEF OneCall, Assistant, Messages
<1>9. OneByOne(ids) \in [1..N -> Messages]
  BY <1>1, <1>8 DEF OneByOne
<1>10. OneByOne(ids) \in Seq(Messages) /\ Len(OneByOne(ids)) = N
  <2>. HIDE DEF N
  <2>. QED  BY <1>1, <1>9, FunctionSeq
<1>. QED  BY <1>3, <1>4, <1>5, <1>6, <1>7, <1>10

\* Both conversions of an answer.
LEMMA BotTurnIs ==
  ASSUME NEW ids \in Seq(Ids)
  PROVE  /\ BotTurn(ids) \in Turns
         /\ FromMessage(BotTurn(ids)) = <<AllCalls(BotTurn(ids))>>
         /\ FromItems(BotTurn(ids)) = IF ids = <<>> THEN <<Assistant(<<>>)>> ELSE OneByOne(ids)
         /\ Len(ids) <= 1 => FromItems(BotTurn(ids)) = <<AllCalls(BotTurn(ids))>>
<1>1. BotTurn(ids) \in Turns
  BY DEF BotTurn, Turns
<1>2. FromMessage(BotTurn(ids)) = <<AllCalls(BotTurn(ids))>>
  BY DEF BotTurn, FromMessage
<1>3. FromItems(BotTurn(ids)) = IF ids = <<>> THEN <<Assistant(<<>>)>> ELSE OneByOne(ids)
  BY DEF BotTurn, FromItems, OneByOne
<1>4. CASE ids = <<>>
  <2>1. AllCalls(BotTurn(ids)) = Assistant(<<>>)
    BY <1>4 DEF AllCalls, BotTurn, Assistant
  <2>. QED  BY <1>1, <1>2, <1>3, <1>4, <2>1
<1>5. CASE ids # <<>> /\ Len(ids) <= 1
  <2>1. Len(ids) = 1 /\ DOMAIN ids = {1}
    <3>1. Len(ids) \in Nat /\ Len(ids) # 0 /\ DOMAIN ids = 1..Len(ids)
      BY <1>5
    <3>. QED  BY <1>5, <3>1
  <2>2. AllCalls(BotTurn(ids)) = Assistant(<<[id |-> ids[1]]>>)
    BY <2>1 DEF AllCalls, BotTurn, Assistant
  <2>3. OneByOne(ids) = <<OneCall(ids[1])>>
    BY <2>1 DEF OneByOne
  <2>. QED  BY <1>1, <1>2, <1>3, <1>5, <2>2, <2>3 DEF OneCall
<1>6. CASE ~(Len(ids) <= 1)
  BY <1>1, <1>2, <1>3, <1>6
<1>. QED  BY <1>4, <1>5, <1>6

\* What a turn is converted to, messages.
LEMMA FromTyped ==
  ASSUME NEW t \in Turns, NEW p
  PROVE  From(p)[t] \in Seq(Messages)
<1>0. From(p)[t] \in {FromItems(t), FromMessage(t)}
  BY DEF From
<1>1. CASE t.role = "user"
  <2>1. PICK blocks \in Seq(Blocks) : blocks = t.blocks
    BY <1>1, UserTurnIs
  <2>2. /\ FlattenSeq(ItemParts(blocks)) \in Seq(Messages)
        /\ FlattenSeq(MessageParts(blocks)) \in Seq(Messages)
        /\ Rest(blocks) \in Seq(Messages)
    BY PartsTyped, Flattened
  <2>3. FlattenSeq(MessageParts(blocks)) \o Rest(blocks) \in Seq(Messages)
    BY <2>2
  <2>. QED  BY <1>0, <1>1, <2>1, <2>2, <2>3, UserTurnIs
<1>2. CASE t.role = "assistant"
  <2>1. PICK ids \in Seq(Ids) : t = BotTurn(ids)
    BY <1>2 DEF Turns, BotTurn
  <2>2. /\ AllCalls(BotTurn(ids)) \in Messages /\ Assistant(<<>>) \in Messages
        /\ OneByOne(ids) \in Seq(Messages)
    BY CallsTyped
  <2>3. \A m \in Messages : <<m>> \in Seq(Messages)
    OBVIOUS
  <2>4. FromMessage(t) \in Seq(Messages) /\ FromItems(t) \in Seq(Messages)
    BY <2>1, <2>2, <2>3, BotTurnIs
  <2>. QED  BY <1>0, <2>4
<1>. QED  BY <1>0, <1>1, <1>2 DEF Turns

\* A conversation is converted turn by turn.
LEMMA ConvertedIs ==
  ASSUME NEW conv \in Seq(Turns), NEW p
  PROVE  Converted(p, conv) = FlattenSeq(Each(From(p), conv))
<1>. DEFINE parts == [k \in DOMAIN conv |->
                        IF p = "anthropic" THEN FromMessage(conv[k]) ELSE FromItems(conv[k])]
<1>1. ASSUME NEW k \in DOMAIN conv PROVE parts[k] = From(p)[conv[k]]
  <2>1. conv[k] \in Turns
    OBVIOUS
  <2>. QED  BY <2>1 DEF From
<1>2. Converted(p, conv) = FlattenSeq(parts)
  BY DEF Converted
<1>3. parts = [k \in DOMAIN conv |-> parts[k]]
  OBVIOUS
<1>. HIDE DEF parts
<1>4. parts = Each(From(p), conv)
  BY <1>1, <1>3 DEF Each
<1>. QED  BY <1>2, <1>4

LEMMA ConvertedTyped ==
  ASSUME NEW conv \in Seq(Turns), NEW p
  PROVE  Converted(p, conv) \in Seq(Messages)
<1>1. PICK F : F = From(p)
  OBVIOUS
<1>2. \A t \in Turns : F[t] \in Seq(Messages)
  BY <1>1, FromTyped
<1>3. FlattenSeq(Each(F, conv)) \in Seq(Messages)
  BY <1>2, FlattenEach
<1>. QED  BY <1>1, <1>3, ConvertedIs

LEMMA ConvertedGrows ==
  ASSUME NEW conv \in Seq(Turns), NEW t \in Turns, NEW p
  PROVE  /\ Converted(p, Append(conv, t)) = Converted(p, conv) \o From(p)[t]
         /\ Converted(p, <<t>>) = From(p)[t] /\ Converted(p, <<>>) = <<>>
         /\ Converted(p, conv) \in Seq(Messages) /\ From(p)[t] \in Seq(Messages)
<1>1. PICK F : F = From(p)
  OBVIOUS
<1>2. \A u \in Turns : F[u] \in Seq(Messages)
  BY <1>1, FromTyped
<1>3. PICK one \in Seq(Turns) : one = <<t>> /\ Append(conv, t) = conv \o one
  <2>1. <<t>> \in Seq(Turns) /\ Append(conv, t) = conv \o <<t>>
    OBVIOUS
  <2>. QED  BY <2>1
<1>4. conv \o one \in Seq(Turns) /\ <<>> \in Seq(Turns)
  BY <1>3
<1>5. FlattenSeq(Each(F, conv \o one)) = FlattenSeq(Each(F, conv)) \o FlattenSeq(Each(F, one))
  BY <1>2, FlattenEachConcat
<1>7. FlattenSeq(Each(F, one)) = F[t] /\ FlattenSeq(Each(F, <<>>)) = <<>>
  BY <1>2, <1>3, FlattenEachOne
<1>8. FlattenSeq(Each(F, conv)) \in Seq(Messages)
  BY <1>2, FlattenEach
<1>6. /\ Converted(p, conv \o one) = FlattenSeq(Each(F, conv \o one))
      /\ Converted(p, conv) = FlattenSeq(Each(F, conv))
      /\ Converted(p, one) = FlattenSeq(Each(F, one))
      /\ Converted(p, <<>>) = FlattenSeq(Each(F, <<>>))
  BY <1>1, <1>3, <1>4, ConvertedIs
<1>. QED  BY <1>1, <1>2, <1>3, <1>5, <1>6, <1>7, <1>8

-----------------------------------------------------------------------------
\* validateToolConversation, one message after the other.
States == [ok : BOOLEAN, pending : SUBSET Ids, completed : SUBSET Ids]

LEMMA CheckType ==
  ASSUME NEW s \in States, NEW m \in Messages
  PROVE  Check(s, m) \in States
<1>1. CASE m.role = "user"
  BY <1>1 DEF Check
<1>2. CASE m.role = "tool"
  <2>1. m.id \in Ids
    BY <1>2 DEF Messages
  <2>. QED  BY <1>2, <2>1 DEF Check, States
<1>3. CASE m.role = "assistant"
  <2>0. PICK T : T = [id : Ids]
    OBVIOUS
  <2>1. PICK calls \in Seq(T) : calls = m.calls
    BY <1>3, <2>0 DEF Messages
  <2>2. \A k \in DOMAIN calls : calls[k] \in T
    OBVIOUS
  <2>3. IdsOf(m) \in SUBSET Ids
    BY <2>0, <2>1, <2>2 DEF IdsOf
  <2>. QED  BY <1>3, <2>3 DEF Check, States
<1>. QED  BY <1>1, <1>2, <1>3 DEF Messages

\* The states of the validation, from the first message to the last.
LEMMA CheckedWalk ==
  ASSUME NEW msgs \in Seq(Messages)
  PROVE  \E s \in [0..Len(msgs) -> States] :
           /\ s[0] = Fresh
           /\ \A n \in 1..Len(msgs) : s[n] = Check(s[n - 1], msgs[n])
           /\ s[Len(msgs)] = Checked(msgs)
<1>. DEFINE N == Len(msgs)
            after[n \in 0..N] == IF n = 0 THEN Fresh ELSE Check(after[n - 1], msgs[n])
            G == [p \in (1..N) \X States |-> Check(p[2], msgs[p[1]])]
<1>1. N \in Nat /\ Fresh \in States
  BY DEF Fresh, States
<1>2. G \in [(1..N) \X States -> States]
  BY CheckType
<1>. HIDE DEF G, after
<1>3. PICK s \in [0..N -> States] :
        s[0] = Fresh /\ \A n \in 1..N : s[n] = G[<<n, s[n - 1]>>]
  <2>1. Solvable(N, States, Fresh, G)
    <3>. HIDE DEF N
    <3>. QED  BY <1>1, <1>2, Recursion, Zenon
  <2>. QED  BY <2>1 DEF Solvable
<1>4. \A n \in 1..N : n - 1 \in 0..N /\ s[n] = Check(s[n - 1], msgs[n])
  BY <1>3 DEF G
<1>5. s = [n \in 0..N |-> IF n = 0 THEN Fresh ELSE Check(s[n - 1], msgs[n])]
  BY <1>3, <1>4
<1>6. after = [n \in 0..N |-> IF n = 0 THEN Fresh ELSE Check(after[n - 1], msgs[n])]
  BY <1>5 DEF after
<1>7. Checked(msgs) = after[N]
  BY DEF Checked, after
<1>8. \A k \in 0..N : k \in {n \in 0..N : after[n] = s[n]}
  <2>. DEFINE S == {n \in 0..N : after[n] = s[n]}
  <2>1. 0 \in S
    BY <1>1, <1>3, <1>6
  <2>2. ASSUME NEW i \in 1..N, i - 1 \in S PROVE i \in S
    BY <1>4, <1>6, <2>2
  <2>. HIDE DEF S
  <2>3. \A i \in 0..N : i \in S
    BY <1>1, <2>1, <2>2, Counting
  <2>. QED  BY <2>3 DEF S
<1>9. Checked(msgs) = s[N]
  BY <1>1, <1>7, <1>8
<1>. QED  BY <1>3, <1>4, <1>9

\* The validation of one message more.
LEMMA CheckedNext ==
  ASSUME NEW msgs \in Seq(Messages), NEW m \in Messages
  PROVE  /\ Checked(msgs \o <<m>>) = Check(Checked(msgs), m)
         /\ Checked(msgs) \in States /\ Checked(<<>>) = Fresh
<1>. DEFINE N == Len(msgs)
<1>1. PICK more \in Seq(Messages) :
        /\ more = msgs \o <<m>> /\ Len(more) = N + 1 /\ more[N + 1] = m
        /\ \A n \in 1..N : more[n] = msgs[n]
  <2>1. /\ msgs \o <<m>> \in Seq(Messages) /\ Len(msgs \o <<m>>) = N + 1
        /\ (msgs \o <<m>>)[N + 1] = m /\ \A n \in 1..N : (msgs \o <<m>>)[n] = msgs[n]
    OBVIOUS
  <2>. QED  BY <2>1
<1>2. PICK s \in [0..N -> States] :
        s[0] = Fresh /\ s[N] = Checked(msgs) /\ \A n \in 1..N : s[n] = Check(s[n - 1], msgs[n])
  BY CheckedWalk
<1>3. PICK t \in [0..Len(more) -> States] :
        /\ t[0] = Fresh /\ t[Len(more)] = Checked(more)
        /\ \A n \in 1..Len(more) : t[n] = Check(t[n - 1], more[n])
  BY CheckedWalk
<1>4. N \in Nat /\ N \in 0..N
  OBVIOUS
<1>. DEFINE S == {n \in 0..N : t[n] = s[n]}
<1>5. 0 \in S
  BY <1>2, <1>3, <1>4
<1>6. ASSUME NEW n \in 1..N, n - 1 \in S PROVE n \in S
  <2>1. n \in 1..Len(more) /\ more[n] = msgs[n] /\ n \in 0..N /\ t[n - 1] = s[n - 1]
    BY <1>1, <1>4, <1>6
  <2>. QED  BY <1>2, <1>3, <2>1
<1>. HIDE DEF S
<1>7. N \in S
  <2>. HIDE DEF N
  <2>. QED  BY <1>4, <1>5, <1>6, Counting
<1>8. t[N + 1] = Check(t[N], m)
  <2>1. PICK n \in 1..Len(more) : n = N + 1 /\ n - 1 = N
    BY <1>1, <1>4
  <2>. QED  BY <1>1, <1>3, <2>1
<1>9. Checked(<<>>) = Fresh
  <2>1. <<>> \in Seq(Messages) /\ Len(<<>>) = 0
    OBVIOUS
  <2>2. \E u \in [0..0 -> States] : u[0] = Fresh /\ u[0] = Checked(<<>>)
    BY <2>1, CheckedWalk
  <2>. QED  BY <2>2
<1>10. s[N] \in States
  BY <1>2, <1>4
<1>. QED  BY <1>1, <1>2, <1>3, <1>7, <1>8, <1>9, <1>10 DEF S

\* Messages that are refused are refused with more after them.
LEMMA RefusedStays ==
  ASSUME NEW msgs \in Seq(Messages), NEW more \in Seq(Messages), ~Checked(msgs).ok
  PROVE  ~Checked(msgs \o more).ok
<1>. DEFINE N == Len(msgs)
            M == Len(more)
<1>0. N \in Nat /\ M \in Nat /\ N \in 0..N /\ M \in 0..M /\ N + 0 = N
  OBVIOUS
<1>1. PICK all \in Seq(Messages) :
        all = msgs \o more /\ Len(all) = N + M /\ \A n \in 1..N : all[n] = msgs[n]
  <2>1. /\ msgs \o more \in Seq(Messages) /\ Len(msgs \o more) = N + M
        /\ \A n \in 1..N : (msgs \o more)[n] = msgs[n]
    OBVIOUS
  <2>. QED  BY <2>1
<1>2. PICK s \in [0..N -> States] :
        s[0] = Fresh /\ s[N] = Checked(msgs) /\ \A n \in 1..N : s[n] = Check(s[n - 1], msgs[n])
  BY CheckedWalk
<1>3. PICK t \in [0..Len(all) -> States] :
        /\ t[0] = Fresh /\ t[Len(all)] = Checked(all)
        /\ \A n \in 1..Len(all) : t[n] = Check(t[n - 1], all[n])
  BY CheckedWalk
<1>. DEFINE S == {n \in 0..N : t[n] = s[n]}
            R == {i \in 0..M : ~t[N + i].ok}
<1>4. 0 \in S
  BY <1>0, <1>2, <1>3
<1>5. ASSUME NEW n \in 1..N, n - 1 \in S PROVE n \in S
  <2>1. n \in 1..Len(all) /\ all[n] = msgs[n] /\ n \in 0..N /\ t[n - 1] = s[n - 1]
    BY <1>0, <1>1, <1>5
  <2>. QED  BY <1>2, <1>3, <2>1
<1>6. N \in S
  <2>. HIDE DEF S, N
  <2>. QED  BY <1>0, <1>4, <1>5, Counting
<1>7. 0 \in R
  BY <1>0, <1>2, <1>6
<1>8. ASSUME NEW i \in 1..M, i - 1 \in R PROVE i \in R
  <2>1. PICK n \in 1..Len(all) : n = N + i /\ n - 1 = N + (i - 1)
    BY <1>0, <1>1
  <2>2. t[n] = Check(t[n - 1], all[n]) /\ ~t[n - 1].ok /\ all[n] \in Messages
    BY <1>3, <1>8, <2>1
  <2>3. ASSUME NEW u, ~u.ok, NEW m \in Messages PROVE ~Check(u, m).ok
    <3>1. CASE m.role = "user"
      BY <2>3, <3>1 DEF Check
    <3>2. CASE m.role = "tool"
      BY <2>3, <3>2 DEF Check
    <3>3. CASE m.role = "assistant"
      BY <2>3, <3>3 DEF Check
    <3>. QED  BY <3>1, <3>2, <3>3 DEF Messages
  <2>4. ~t[n].ok
    BY <2>2, <2>3
  <2>. QED  BY <1>0, <2>1, <2>4
<1>9. M \in R
  <2>. HIDE DEF R, M
  <2>. QED  BY <1>0, <1>7, <1>8, Counting
<1>. QED  BY <1>1, <1>3, <1>9

LEMMA MessagesJoin ==
  \A s, t, u \in Seq(Messages) : (s \o t) \o u = s \o (t \o u)
BY JoinedThree

LEMMA FourJoin ==
  ASSUME NEW s \in Seq(Messages), NEW a \in Messages, NEW b \in Messages, NEW v \in Seq(Messages)
  PROVE  s \o ((<<a>> \o <<b>>) \o v) = ((s \o <<a>>) \o <<b>>) \o v
<1>1. PICK t \in Seq(Messages), u \in Seq(Messages), w \in Seq(Messages) :
        t = <<a>> /\ u = <<b>> /\ w = <<a>> \o <<b>>
  <2>1. <<a>> \in Seq(Messages) /\ <<b>> \in Seq(Messages) /\ <<a>> \o <<b>> \in Seq(Messages)
    OBVIOUS
  <2>. QED  BY <2>1
<1>2. (s \o w) \o v = s \o (w \o v)
  BY MessagesJoin
<1>3. (s \o t) \o u = s \o (t \o u)
  BY MessagesJoin
<1>. QED  BY <1>1, <1>2, <1>3

\* Two calls in messages of their own are refused.
LEMMA ParallelRefused ==
  ASSUME NEW msgs \in Seq(Messages), NEW ids \in Seq(Ids), Len(ids) > 1
  PROVE  ~Checked(msgs \o OneByOne(ids)).ok
<1>1. PICK calls \in Seq(Messages) : calls = OneByOne(ids) /\ Len(calls) > 1
  BY CallsTyped
<1>2. PICK a \in Messages, b \in Messages, more \in Seq(Messages) :
        a = calls[1] /\ b = calls[2] /\ calls = (<<a>> \o <<b>>) \o more
  <2>1. calls[1] \in Messages /\ calls[2] \in Messages
    BY <1>1
  <2>2. PICK more \in Seq(Messages) : more = SubSeq(calls, 3, Len(calls))
    <3>1. SubSeq(calls, 3, Len(calls)) \in Seq(Messages)
      OBVIOUS
    <3>. QED  BY <3>1
  <2>3. calls = (<<calls[1]>> \o <<calls[2]>>) \o more
    BY <1>1, <2>1, <2>2
  <2>. QED  BY <2>1, <2>3
<1>3. PICK i \in Ids : a = OneCall(i)
  <2>1. 1 \in DOMAIN ids /\ ids[1] \in Ids
    OBVIOUS
  <2>. QED  BY <1>1, <1>2, <2>1 DEF OneByOne
<1>4. PICK j \in Ids : b = OneCall(j)
  <2>1. 2 \in DOMAIN ids /\ ids[2] \in Ids
    OBVIOUS
  <2>. QED  BY <1>1, <1>2, <2>1 DEF OneByOne
<1>5. PICK one \in Seq(Messages), two \in Seq(Messages) :
        one = msgs \o <<a>> /\ two = one \o <<b>>
  <2>1. msgs \o <<a>> \in Seq(Messages) /\ (msgs \o <<a>>) \o <<b>> \in Seq(Messages)
    OBVIOUS
  <2>. QED  BY <2>1
<1>6. Checked(one) = Check(Checked(msgs), a) /\ Checked(two) = Check(Checked(one), b)
  BY <1>5, CheckedNext
<1>7. a.role = "assistant" /\ b.role = "assistant" /\ a.calls = <<[id |-> i]>>
  BY <1>3, <1>4 DEF OneCall, Assistant
<1>8. i \in Checked(one).pending
  <2>1. i \in IdsOf(a)
    BY <1>7 DEF IdsOf
  <2>. QED  BY <1>6, <1>7, <2>1 DEF Check
<1>9. ~Checked(two).ok
  BY <1>6, <1>7, <1>8 DEF Check
<1>10. ~Checked(two \o more).ok
  BY <1>9, RefusedStays
<1>11. msgs \o calls = two \o more
  <2>1. msgs \o ((<<a>> \o <<b>>) \o more) = ((msgs \o <<a>>) \o <<b>>) \o more
    BY FourJoin
  <2>. QED  BY <1>2, <1>5, <2>1
<1>. QED  BY <1>1, <1>10, <1>11

\* The messages pass, the calls P lack a result, and no other calls than C were made.
Asks(msgs, P, C) ==
    /\ Checked(msgs).ok /\ Checked(msgs).pending = P
    /\ P \subseteq C /\ Checked(msgs).completed \subseteq C

\* A message of the user opens and closes no call, the result of an open call closes it,
\* and the calls of an answer are open after it.
LEMMA AskUser ==
  ASSUME NEW msgs \in Seq(Messages), NEW P, NEW C, Asks(msgs, P, C)
  PROVE  Asks(msgs \o <<User>>, P, C)
<1>1. User \in Messages /\ User.role = "user"
  BY DEF User, Messages
<1>2. Check(Checked(msgs), User) = Checked(msgs)
  BY <1>1 DEF Check
<1>. QED  BY <1>1, <1>2, CheckedNext DEF Asks

LEMMA AskTool ==
  ASSUME NEW msgs \in Seq(Messages), NEW P, NEW C, Asks(msgs, P, C), NEW id \in Ids, id \in P
  PROVE  Asks(msgs \o <<Tool(id, "done")>>, P \ {id}, C)
<1>1. PICK m \in Messages : m = Tool(id, "done") /\ m.role = "tool" /\ m.id = id
  <2>1. Tool(id, "done") \in Messages /\ Tool(id, "done").role = "tool" /\ Tool(id, "done").id = id
    BY DEF Tool, Messages
  <2>. QED  BY <2>1
<1>2. PICK s \in States : s = Checked(msgs) /\ Checked(msgs \o <<m>>) = Check(s, m)
  BY <1>1, CheckedNext
<1>3. s.ok = TRUE /\ s.pending = P /\ P \subseteq C /\ s.completed \subseteq C
  BY <1>2 DEF Asks, States
<1>4. (s.ok /\ m.id \in s.pending) = TRUE
  BY <1>1, <1>3
<1>5. Check(s, m) = [ok |-> TRUE, pending |-> P \ {id}, completed |-> s.completed \cup {id}]
  BY <1>1, <1>3, <1>4 DEF Check
<1>6. P \ {id} \subseteq C /\ s.completed \cup {id} \subseteq C
  BY <1>3
<1>. QED  BY <1>1, <1>2, <1>5, <1>6 DEF Asks

\* Ids that differ are as many as the calls that bear them.
LEMMA AsManyIds ==
  ASSUME NEW ids \in Seq(Ids), IsInjective(ids)
  PROVE  Cardinality(ToSet(ids)) = Len(ids)
<1>. DEFINE K == 1..Len(ids)
            T == ToSet(ids)
<1>1. Len(ids) \in Nat /\ DOMAIN ids = K
  OBVIOUS
<1>2. ids \in [K -> T] /\ \A t \in T : \E k \in K : ids[k] = t
  BY <1>1 DEF ToSet
<1>3. \A k, l \in K : ids[k] = ids[l] => k = l
  BY <1>1 DEF IsInjective
<1>4. IsFiniteSet(K) /\ Cardinality(K) = Len(ids)
  <2>1. ASSUME NEW l \in Nat PROVE IsFiniteSet(1..l) /\ Cardinality(1..l) = l
    <3>1. 1 \in Int /\ l \in Int /\ (IF 1 > l THEN 0 ELSE l - 1 + 1) = l
      OBVIOUS
    <3>2. IsFiniteSet(1..l) /\ Cardinality(1..l) = IF 1 > l THEN 0 ELSE l - 1 + 1
      BY <3>1, FS_Interval
    <3>. QED  BY <3>1, <3>2
  <2>. QED  BY <1>1, <2>1
<1>. HIDE DEF K, T
<1>5. ids \in Bijection(K, T)
  BY <1>2, <1>3, Fun_IsBij
<1>6. ExistsBijection(K, T)
  BY <1>5 DEF ExistsBijection
<1>. QED  BY <1>4, <1>6, FS_Bijection DEF T

\* Calls that were not made before.
LEMMA AskCalls ==
  ASSUME NEW msgs \in Seq(Messages), NEW C, Asks(msgs, {}, C), NEW ids \in Seq(Ids),
         IsInjective(ids), ToSet(ids) \cap C = {}
  PROVE  Asks(msgs \o <<AllCalls(BotTurn(ids))>>, ToSet(ids), C \cup ToSet(ids))
<1>. DEFINE m == AllCalls(BotTurn(ids))
            s == Checked(msgs)
<1>1. /\ m \in Messages /\ Len(m.calls) = Len(ids) /\ m.calls \in Seq([id : Ids])
      /\ \A k \in 1..Len(ids) : m.calls[k].id = ids[k]
  BY CallsTyped
<1>2. m.role = "assistant"
  BY DEF AllCalls, Assistant
<1>. HIDE DEF m
<1>3. IdsOf(m) = ToSet(ids)
  <2>1. DOMAIN m.calls = 1..Len(ids) /\ DOMAIN ids = 1..Len(ids)
    BY <1>1
  <2>. QED  BY <1>1, <2>1 DEF IdsOf, ToSet
<1>4. Cardinality(IdsOf(m)) = Len(m.calls)
  BY <1>1, <1>3, AsManyIds
<1>5. s.ok /\ s.pending = {} /\ s.completed \subseteq C
  BY DEF Asks
<1>6. IdsOf(m) \cap s.completed = {}
  BY <1>3, <1>5
<1>7. Check(s, m) = [ok |-> /\ s.ok /\ s.pending = {} /\ Cardinality(IdsOf(m)) = Len(m.calls)
                            /\ IdsOf(m) \cap s.completed = {},
                     pending |-> IdsOf(m), completed |-> s.completed]
  BY <1>2 DEF Check
<1>8. /\ Check(s, m).ok /\ Check(s, m).pending = ToSet(ids)
      /\ Check(s, m).completed \subseteq C \cup ToSet(ids)
  BY <1>3, <1>4, <1>5, <1>6, <1>7
<1>9. Checked(msgs \o <<m>>) = Check(s, m)
  BY <1>1, CheckedNext
<1>. QED  BY <1>8, <1>9 DEF Asks, m

\* A turn that answers each of the calls P once.
Answering(blocks, P) ==
    /\ \A k \in DOMAIN blocks : blocks[k].kind = "output" => blocks[k].id \in P
    /\ \A j, k \in DOMAIN blocks :
         blocks[j].kind = "output" /\ blocks[k].kind = "output" /\ blocks[j].id = blocks[k].id
         => j = k
    /\ \A i \in P : \E k \in DOMAIN blocks : blocks[k].kind = "output" /\ blocks[k].id = i

\* The parts of such a turn, converted, leave no call open.
LEMMA PartsAnswer ==
  ASSUME NEW msgs \in Seq(Messages), NEW P \in SUBSET Ids, NEW C, Asks(msgs, P, C),
         NEW blocks \in Seq(Blocks), Answering(blocks, P),
         NEW parts \in Seq(Seq(Messages)), Len(parts) = Len(blocks),
         \A k \in 1..Len(blocks) :
           IF blocks[k].kind = "output" THEN parts[k] = <<Tool(blocks[k].id, "done")>>
           ELSE parts[k] \in {<<>>, <<User>>}
  PROVE  Asks(msgs \o FlattenSeq(parts), {}, C)
<1>. DEFINE N == Len(blocks)
            left(k) == {i \in P : \A j \in 1..k : ~(blocks[j].kind = "output" /\ blocks[j].id = i)}
<1>1. N \in Nat /\ N \in 0..N /\ DOMAIN blocks = 1..N /\ \A k \in 1..N : blocks[k] \in Blocks
  OBVIOUS
<1>2. PICK f : Joins(Messages, parts, f)
  BY JoinsExist
<1>3. FlattenSeq(parts) = f[N]
  BY <1>2, JoinsFlatten
<1>4. /\ f \in [0..N -> Seq(Messages)] /\ f[0] = <<>>
      /\ \A k \in 1..N : f[k] = f[k - 1] \o parts[k]
  BY <1>2 DEF Joins
<1>. DEFINE S == {k \in 0..N : Asks(msgs \o f[k], left(k), C)}
<1>5. 0 \in S
  <2>1. left(0) = P
    OBVIOUS
  <2>2. msgs \o <<>> = msgs
    OBVIOUS
  <2>. HIDE DEF left
  <2>3. Asks(msgs \o f[0], left(0), C)
    BY <1>4, <2>1, <2>2
  <2>. QED  BY <1>1, <2>3
<1>6. ASSUME NEW k \in 1..N, k - 1 \in S PROVE k \in S
  <2>1. PICK before \in Seq(Messages) : before = msgs \o f[k - 1] /\ Asks(before, left(k - 1), C)
    <3>1. k - 1 \in 0..N
      BY <1>1
    <3>2. f[k - 1] \in Seq(Messages)
      BY <1>4, <3>1
    <3>3. msgs \o f[k - 1] \in Seq(Messages)
      BY <3>2
    <3>. QED  BY <1>6, <3>3
  <2>2. msgs \o f[k] = before \o parts[k]
    <3>1. PICK t \in Seq(Messages), u \in Seq(Messages) : t = f[k - 1] /\ u = parts[k]
      <4>1. k - 1 \in 0..N /\ k \in DOMAIN parts
        BY <1>1
      <4>. QED  BY <1>4, <4>1
    <3>2. (msgs \o t) \o u = msgs \o (t \o u)
      BY MessagesJoin
    <3>. QED  BY <1>4, <2>1, <3>1, <3>2
  <2>3. CASE blocks[k].kind = "output"
    <3>1. PICK i \in Ids : i = blocks[k].id
      BY <1>1, <2>3 DEF Blocks
    <3>2. i \in P /\ \A j \in 1..(k - 1) : ~(blocks[j].kind = "output" /\ blocks[j].id = i)
      <4>1. \A j \in 1..(k - 1) : j \in 1..N /\ j # k
        BY <1>1
      <4>. QED  BY <1>1, <2>3, <3>1, <4>1 DEF Answering
    <3>3. i \in left(k - 1) /\ left(k) = left(k - 1) \ {i}
      <4>1. \A j \in 1..k : j = k \/ j \in 1..(k - 1)
        OBVIOUS
      <4>2. k \in 1..k /\ \A j \in 1..(k - 1) : j \in 1..k
        OBVIOUS
      <4>. QED  BY <2>3, <3>1, <3>2, <4>1, <4>2
    <3>4. parts[k] = <<Tool(i, "done")>>
      BY <2>3, <3>1
    <3>. HIDE DEF left
    <3>5. Asks(before \o <<Tool(i, "done")>>, left(k - 1) \ {i}, C)
      BY <2>1, <3>3, AskTool
    <3>6. Asks(msgs \o f[k], left(k), C)
      BY <2>2, <3>3, <3>4, <3>5
    <3>. QED  BY <1>1, <3>6
  <2>4. CASE blocks[k].kind # "output"
    <3>1. left(k) = left(k - 1)
      <4>1. \A j \in 1..k : j = k \/ j \in 1..(k - 1)
        OBVIOUS
      <4>2. \A j \in 1..(k - 1) : j \in 1..k
        OBVIOUS
      <4>. QED  BY <2>4, <4>1, <4>2
    <3>2. parts[k] = <<>> \/ parts[k] = <<User>>
      BY <2>4
    <3>. HIDE DEF left
    <3>3. Asks(before \o parts[k], left(k - 1), C)
      <4>1. before \o <<>> = before
        OBVIOUS
      <4>2. Asks(before \o <<User>>, left(k - 1), C)
        BY <2>1, AskUser
      <4>. QED  BY <2>1, <3>2, <4>1, <4>2
    <3>4. Asks(msgs \o f[k], left(k), C)
      BY <2>2, <3>1, <3>3
    <3>. QED  BY <1>1, <3>4
  <2>. QED  BY <2>3, <2>4
<1>7. left(N) = {}
  BY <1>1 DEF Answering
<1>. HIDE DEF S
<1>8. N \in S
  <2>. HIDE DEF N
  <2>. QED  BY <1>1, <1>5, <1>6, Counting
<1>9. Asks(msgs \o f[N], left(N), C)
  BY <1>8 DEF S
<1>. QED  BY <1>3, <1>7, <1>9

-----------------------------------------------------------------------------
\* A conversation in either conversion: what a turn adds to what is asked.
Sequential(conv) == \A k \in DOMAIN conv : conv[k].role = "assistant" => Len(conv[k].ids) <= 1
Called(conv) ==
    {i \in Ids : \E k \in DOMAIN conv :
       conv[k].role = "assistant" /\ \E l \in DOMAIN conv[k].ids : conv[k].ids[l] = i}
Follows(conv, P) ==
    /\ ~Repeats(conv) =>
         \A p \in {"anthropic", "replay"} :
           p = "anthropic" \/ Sequential(conv) => Asks(Converted(p, conv), P, Called(conv))
    /\ ~Sequential(conv) => ~Checked(Converted("replay", conv)).ok

\* An id is there twice for good, a turn of the user adds none, and the calls of a conversation are those of its turns.
LEMMA RepeatsStay ==
  ASSUME NEW conv \in Seq(Turns), NEW t \in Turns, Repeats(conv)
  PROVE  Repeats(Append(conv, t))
<1>1. PICK more : /\ more = Append(conv, t)
                  /\ \A k \in DOMAIN conv : k \in DOMAIN more /\ more[k] = conv[k]
  <2>1. \A k \in DOMAIN conv : k \in DOMAIN Append(conv, t) /\ Append(conv, t)[k] = conv[k]
    OBVIOUS
  <2>. QED  BY <2>1
<1>2. PICK i \in DOMAIN conv, j \in DOMAIN conv :
        /\ conv[i].role = "assistant" /\ conv[j].role = "assistant"
        /\ \E k \in DOMAIN conv[i].ids, l \in DOMAIN conv[j].ids :
             <<i, k>> # <<j, l>> /\ conv[i].ids[k] = conv[j].ids[l]
  BY DEF Repeats
<1>3. /\ i \in DOMAIN more /\ j \in DOMAIN more /\ more[i] = conv[i] /\ more[j] = conv[j]
  BY <1>1
<1>4. Repeats(more)
  BY <1>2, <1>3 DEF Repeats
<1>. QED  BY <1>1, <1>4

LEMMA RepeatsNoMore ==
  ASSUME NEW conv \in Seq(Turns), NEW t \in Turns, t.role = "user", Repeats(Append(conv, t))
  PROVE  Repeats(conv)
<1>1. PICK more :
        /\ more = Append(conv, t)
        /\ \A k \in DOMAIN more : more[k].role = "assistant" => k \in DOMAIN conv /\ more[k] = conv[k]
  <2>1. \A k \in DOMAIN Append(conv, t) :
          (k \in DOMAIN conv /\ Append(conv, t)[k] = conv[k]) \/ Append(conv, t)[k] = t
    OBVIOUS
  <2>. QED  BY <2>1
<1>. QED  BY <1>1 DEF Repeats

LEMMA CalledUser ==
  ASSUME NEW conv \in Seq(Turns), NEW t \in Turns, t.role = "user"
  PROVE  Called(Append(conv, t)) = Called(conv)
<1>1. \A k \in DOMAIN conv : k \in DOMAIN Append(conv, t) /\ Append(conv, t)[k] = conv[k]
  OBVIOUS
<1>2. \A k \in DOMAIN Append(conv, t) : k \in DOMAIN conv \/ Append(conv, t)[k] = t
  OBVIOUS
<1>. QED  BY <1>1, <1>2 DEF Called

LEMMA CalledBot ==
  ASSUME NEW conv \in Seq(Turns), NEW ids \in Seq(Ids)
  PROVE  /\ Called(Append(conv, BotTurn(ids))) = Called(conv) \cup ToSet(ids)
         /\ ~Repeats(Append(conv, BotTurn(ids))) =>
              IsInjective(ids) /\ ToSet(ids) \cap Called(conv) = {}
<1>1. PICK t \in Turns : t = BotTurn(ids) /\ t.role = "assistant" /\ t.ids = ids
  BY BotTurnIs DEF BotTurn
<1>2. PICK more, n :
        /\ more = Append(conv, t) /\ n \in DOMAIN more /\ more[n] = t /\ n \notin DOMAIN conv
        /\ \A k \in DOMAIN conv : k \in DOMAIN more /\ more[k] = conv[k]
        /\ \A k \in DOMAIN more : k \in DOMAIN conv \/ k = n
  <2>1. /\ Len(conv) + 1 \in DOMAIN Append(conv, t) /\ Append(conv, t)[Len(conv) + 1] = t
        /\ Len(conv) + 1 \notin DOMAIN conv
        /\ \A k \in DOMAIN conv : k \in DOMAIN Append(conv, t) /\ Append(conv, t)[k] = conv[k]
        /\ \A k \in DOMAIN Append(conv, t) : k \in DOMAIN conv \/ k = Len(conv) + 1
    OBVIOUS
  <2>. QED  BY <2>1
<1>3. ToSet(ids) = {ids[k] : k \in DOMAIN ids} /\ ToSet(ids) \subseteq Ids
  <2>1. \A k \in DOMAIN ids : ids[k] \in Ids
    OBVIOUS
  <2>. QED  BY <2>1 DEF ToSet
<1>4. Called(more) = Called(conv) \cup ToSet(ids)
  <2>1. ASSUME NEW i \in Ids
        PROVE  i \in Called(more) <=> i \in Called(conv) \/ \E l \in DOMAIN ids : ids[l] = i
    BY <1>1, <1>2 DEF Called
  <2>2. Called(more) \subseteq Ids /\ Called(conv) \subseteq Ids
    BY DEF Called
  <2>. QED  BY <1>3, <2>1, <2>2
<1>5. ASSUME NEW k \in DOMAIN ids, NEW l \in DOMAIN ids, k # l, ids[k] = ids[l]
      PROVE  Repeats(more)
  <2>1. <<n, k>> # <<n, l>>
    BY <1>5
  <2>. QED  BY <1>1, <1>2, <1>5, <2>1 DEF Repeats
<1>6. ASSUME NEW i \in ToSet(ids), i \in Called(conv)
      PROVE  Repeats(more)
  <2>1. PICK l \in DOMAIN ids : ids[l] = i
    BY <1>3
  <2>2. PICK j \in DOMAIN conv : conv[j].role = "assistant"
                /\ \E k \in DOMAIN conv[j].ids : conv[j].ids[k] = i
    BY <1>6 DEF Called
  <2>3. PICK k \in DOMAIN conv[j].ids : conv[j].ids[k] = i
    BY <2>2
  <2>4. <<j, k>> # <<n, l>> /\ j \in DOMAIN more /\ more[j] = conv[j]
    BY <1>2
  <2>. QED  BY <1>1, <1>2, <2>1, <2>2, <2>3, <2>4 DEF Repeats
<1>7. ~Repeats(more) => IsInjective(ids)
  BY <1>5 DEF IsInjective
<1>8. ~Repeats(more) => ToSet(ids) \cap Called(conv) = {}
  BY <1>6
<1>. QED  BY <1>1, <1>2, <1>4, <1>7, <1>8

\* So no id is there twice in the last answer.
LEMMA LastDiffer ==
  ASSUME NEW conv \in Seq(Turns), conv # <<>>, Last(conv).role = "assistant", ~Repeats(conv)
  PROVE  IsInjective(Last(conv).ids)
<1>1. PICK n : n \in DOMAIN conv /\ Last(conv) = conv[n]
  <2>1. Len(conv) \in DOMAIN conv /\ Last(conv) = conv[Len(conv)]
    BY DEF Last
  <2>. QED  BY <2>1
<1>2. ASSUME NEW k \in DOMAIN conv[n].ids, NEW l \in DOMAIN conv[n].ids, k # l
      PROVE  conv[n].ids[k] # conv[n].ids[l]
  <2>1. <<n, k>> # <<n, l>>
    BY <1>2
  <2>. QED  BY <1>1, <2>1 DEF Repeats
<1>. QED  BY <1>1, <1>2 DEF IsInjective

\* What remains of a turn of the user, after its outputs, is text or nothing.
LEMMA RestAnswers ==
  ASSUME NEW msgs \in Seq(Messages), NEW u \in Seq(Messages),
         NEW rest \in Seq(Messages), NEW C, Asks(msgs \o u, {}, C),
         rest = <<>> \/ rest = <<User>>
  PROVE  Asks(msgs \o (u \o rest), {}, C)
<1>1. msgs \o (u \o rest) = (msgs \o u) \o rest /\ msgs \o u \in Seq(Messages)
  BY MessagesJoin
<1>2. (msgs \o u) \o <<>> = msgs \o u
  BY <1>1
<1>3. Asks((msgs \o u) \o <<User>>, {}, C)
  BY <1>1, AskUser
<1>. QED  BY <1>1, <1>2, <1>3

\* So does the turn, in either conversion.
LEMMA UserAnswers ==
  ASSUME NEW msgs \in Seq(Messages), NEW P \in SUBSET Ids, NEW C, Asks(msgs, P, C), NEW p,
         NEW t \in Turns, t.role = "user", Answering(t.blocks, P)
  PROVE  Asks(msgs \o From(p)[t], {}, C)
<1>1. PICK blocks \in Seq(Blocks) :
        /\ blocks = t.blocks /\ FromItems(t) = FlattenSeq(ItemParts(blocks))
        /\ FromMessage(t) = FlattenSeq(MessageParts(blocks)) \o Rest(blocks)
  BY UserTurnIs
<1>2. DOMAIN blocks = 1..Len(blocks) /\ \A k \in 1..Len(blocks) : blocks[k] \in Blocks
  OBVIOUS
<1>4. \A k \in 1..Len(blocks) :
        IF blocks[k].kind = "output" THEN FromBlock(blocks[k]) = <<Tool(blocks[k].id, "done")>>
        ELSE FromBlock(blocks[k]) \in {<<>>, <<User>>}
  BY <1>2, BlockTyped
<1>5. PICK items \in Seq(Seq(Messages)), parts \in Seq(Seq(Messages)), rest \in Seq(Messages) :
        /\ items = ItemParts(blocks) /\ Len(items) = Len(blocks)
        /\ parts = MessageParts(blocks) /\ Len(parts) = Len(blocks) /\ rest = Rest(blocks)
  BY <1>2, PartsTyped
<1>6. /\ \A k \in 1..Len(blocks) : items[k] = FromBlock(blocks[k])
      /\ \A k \in 1..Len(blocks) :
           parts[k] = IF blocks[k].kind = "output" THEN FromBlock(blocks[k]) ELSE <<>>
  BY <1>2, <1>5 DEF ItemParts, MessageParts
<1>7. ASSUME NEW ps \in Seq(Seq(Messages)), Len(ps) = Len(blocks),
             \A k \in 1..Len(blocks) :
               IF blocks[k].kind = "output" THEN ps[k] = <<Tool(blocks[k].id, "done")>>
               ELSE ps[k] \in {<<>>, <<User>>}
      PROVE  Asks(msgs \o FlattenSeq(ps), {}, C)
  <2>1. Answering(blocks, P)
    BY <1>1
  <2>. QED  BY <1>7, <2>1, PartsAnswer
<1>8. Asks(msgs \o FlattenSeq(items), {}, C) /\ Asks(msgs \o FlattenSeq(parts), {}, C)
  <2>1. \A k \in 1..Len(blocks) :
          IF blocks[k].kind = "output" THEN items[k] = <<Tool(blocks[k].id, "done")>>
          ELSE items[k] \in {<<>>, <<User>>}
    BY <1>4, <1>6
  <2>2. \A k \in 1..Len(blocks) :
          IF blocks[k].kind = "output" THEN parts[k] = <<Tool(blocks[k].id, "done")>>
          ELSE parts[k] \in {<<>>, <<User>>}
    BY <1>4, <1>6
  <2>3. Asks(msgs \o FlattenSeq(items), {}, C)
    BY <1>5, <1>7, <2>1
  <2>4. Asks(msgs \o FlattenSeq(parts), {}, C)
    BY <1>5, <1>7, <2>2
  <2>. QED  BY <2>3, <2>4
<1>9. PICK u \in Seq(Messages) : u = FlattenSeq(parts)
  BY <1>5, Flattened
<1>10. Asks(msgs \o (u \o rest), {}, C)
  <2>1. rest = <<>> \/ rest = <<User>>
    BY <1>5 DEF Rest
  <2>. QED  BY <1>8, <1>9, <2>1, RestAnswers
<1>. QED  BY <1>1, <1>5, <1>8, <1>9, <1>10 DEF From

\* A conversation that follows goes on with an answer to its calls, and with calls.
LEMMA FollowsUser ==
  ASSUME NEW conv \in Seq(Turns), NEW P \in SUBSET Ids, Follows(conv, P),
         NEW t \in Turns, t.role = "user", ~Repeats(conv) => Answering(t.blocks, P)
  PROVE  Follows(Append(conv, t), {})
<1>1. Sequential(Append(conv, t)) <=> Sequential(conv)
  <2>1. \A k \in DOMAIN conv : k \in DOMAIN Append(conv, t) /\ Append(conv, t)[k] = conv[k]
    OBVIOUS
  <2>2. \A k \in DOMAIN Append(conv, t) :
          (k \in DOMAIN conv /\ Append(conv, t)[k] = conv[k]) \/ Append(conv, t)[k] = t
    OBVIOUS
  <2>. QED  BY <2>1, <2>2 DEF Sequential
<1>2. ASSUME ~Repeats(Append(conv, t)),
             NEW p \in {"anthropic", "replay"}, p = "anthropic" \/ Sequential(Append(conv, t))
      PROVE  Asks(Converted(p, Append(conv, t)), {}, Called(Append(conv, t)))
  <2>1. ~Repeats(conv) /\ Answering(t.blocks, P)
    BY <1>2, RepeatsStay
  <2>2. PICK C : C = Called(conv)
    OBVIOUS
  <2>3. PICK msgs \in Seq(Messages) : msgs = Converted(p, conv) /\ Asks(msgs, P, C)
    BY <1>1, <1>2, <2>1, <2>2, ConvertedTyped DEF Follows
  <2>4. Asks(msgs \o From(p)[t], {}, C)
    BY <2>1, <2>3, UserAnswers
  <2>. QED  BY <2>2, <2>3, <2>4, ConvertedGrows, CalledUser
<1>3. ASSUME ~Sequential(conv) PROVE ~Checked(Converted("replay", Append(conv, t))).ok
  <2>1. PICK msgs \in Seq(Messages), more \in Seq(Messages) :
          /\ msgs = Converted("replay", conv) /\ more = From("replay")[t]
          /\ Converted("replay", Append(conv, t)) = msgs \o more
    <3>1. /\ Converted("replay", conv) \in Seq(Messages) /\ From("replay")[t] \in Seq(Messages)
          /\ Converted("replay", Append(conv, t)) = Converted("replay", conv) \o From("replay")[t]
      BY <1>1, ConvertedGrows
    <3>. QED  BY <3>1
  <2>2. ~Checked(msgs).ok
    BY <1>3, <2>1 DEF Follows
  <2>. QED  BY <2>1, <2>2, RefusedStays
<1>. QED  BY <1>1, <1>2, <1>3 DEF Follows

LEMMA FollowsBot ==
  ASSUME NEW conv \in Seq(Turns), Follows(conv, {}), NEW ids \in Seq(Ids)
  PROVE  Follows(Append(conv, BotTurn(ids)), ToSet(ids))
<1>. DEFINE t == BotTurn(ids)
<1>1. t \in Turns /\ t.role = "assistant" /\ t.ids = ids
  BY BotTurnIs DEF BotTurn
<1>2. Sequential(Append(conv, t)) <=> Sequential(conv) /\ Len(ids) <= 1
  <2>1. \A k \in DOMAIN conv : k \in DOMAIN Append(conv, t) /\ Append(conv, t)[k] = conv[k]
    OBVIOUS
  <2>2. Len(conv) + 1 \in DOMAIN Append(conv, t) /\ Append(conv, t)[Len(conv) + 1] = t
    OBVIOUS
  <2>3. \A k \in DOMAIN Append(conv, t) :
          (k \in DOMAIN conv /\ Append(conv, t)[k] = conv[k]) \/ Append(conv, t)[k] = t
    OBVIOUS
  <2>. HIDE DEF t
  <2>. QED  BY <1>1, <2>1, <2>2, <2>3 DEF Sequential
<1>3. ASSUME NEW p \in {"anthropic", "replay"}, p = "anthropic" \/ Sequential(Append(conv, t)),
             ~Repeats(Append(conv, t))
      PROVE  Asks(Converted(p, Append(conv, t)), ToSet(ids), Called(Append(conv, t)))
  <2>1. From(p)[t] = <<AllCalls(t)>>
    BY <1>1, <1>2, <1>3, BotTurnIs DEF From
  <2>2. ~Repeats(conv) /\ IsInjective(ids) /\ ToSet(ids) \cap Called(conv) = {}
    BY <1>1, <1>3, RepeatsStay, CalledBot
  <2>0. PICK C : C = Called(conv)
    OBVIOUS
  <2>3. PICK msgs \in Seq(Messages) : msgs = Converted(p, conv) /\ Asks(msgs, {}, C)
    BY <2>0, <1>2, <1>3, <2>2, ConvertedTyped DEF Follows
  <2>4. Asks(msgs \o <<AllCalls(t)>>, ToSet(ids), C \cup ToSet(ids))
    BY <2>0, <2>2, <2>3, AskCalls
  <2>5. Called(Append(conv, t)) = C \cup ToSet(ids)
    BY <2>0, CalledBot
  <2>. HIDE DEF t
  <2>. QED  BY <1>1, <2>1, <2>3, <2>4, <2>5, ConvertedGrows
<1>4. ASSUME ~Sequential(Append(conv, t))
      PROVE  ~Checked(Converted("replay", Append(conv, t))).ok
  <2>1. PICK msgs \in Seq(Messages), more \in Seq(Messages) :
          /\ msgs = Converted("replay", conv) /\ more = From("replay")[t]
          /\ Converted("replay", Append(conv, t)) = msgs \o more
    <3>1. /\ Converted("replay", conv) \in Seq(Messages) /\ From("replay")[t] \in Seq(Messages)
          /\ Converted("replay", Append(conv, t)) = Converted("replay", conv) \o From("replay")[t]
      BY <1>1, ConvertedGrows
    <3>. QED  BY <3>1
  <2>2. CASE ~Sequential(conv)
    <3>1. ~Checked(msgs).ok
      BY <2>1, <2>2 DEF Follows
    <3>. QED  BY <2>1, <3>1, RefusedStays
  <2>3. CASE Sequential(conv)
    <3>1. Len(ids) \in Nat /\ Len(ids) > 1 /\ ids # <<>>
      BY <1>2, <1>4, <2>3
    <3>2. more = OneByOne(ids)
      BY <1>1, <2>1, <3>1, BotTurnIs DEF From
    <3>. QED  BY <2>1, <3>1, <3>2, ParallelRefused
  <2>. QED  BY <2>2, <2>3
<1>. HIDE DEF t
<1>5. Follows(Append(conv, t), ToSet(ids))
  BY <1>3, <1>4 DEF Follows
<1>. QED  BY <1>5 DEF t

\* Text after the outputs answers no call.
LEMMA AnsweringMore ==
  ASSUME NEW blocks \in Seq(Blocks), NEW P, Answering(blocks, P), NEW b \in Blocks,
         b.kind # "output"
  PROVE  Append(blocks, b) \in Seq(Blocks) /\ Answering(Append(blocks, b), P)
<1>1. PICK s, n :
        /\ s \in Seq(Blocks) /\ s = Append(blocks, b) /\ s[n] = b /\ \A k \in DOMAIN s : k \in DOMAIN blocks \/ k = n
        /\ \A k \in DOMAIN blocks : k \in DOMAIN s /\ s[k] = blocks[k]
  <2>1. /\ Append(blocks, b) \in Seq(Blocks) /\ Append(blocks, b)[Len(blocks) + 1] = b
        /\ \A k \in DOMAIN Append(blocks, b) : k \in DOMAIN blocks \/ k = Len(blocks) + 1
        /\ \A k \in DOMAIN blocks : k \in DOMAIN Append(blocks, b) /\ Append(blocks, b)[k] = blocks[k]
    OBVIOUS
  <2>. QED  BY <2>1
<1>2. \A k \in DOMAIN s : s[k].kind = "output" => k \in DOMAIN blocks /\ s[k] = blocks[k]
  BY <1>1
<1>3. Answering(s, P)
  BY <1>1, <1>2 DEF Answering
<1>. QED  BY <1>1, <1>3

\* The inputs of a client answer what it was asked, if no id is there twice.
LEMMA InputAnswers ==
  ASSUME NEW base, NEW ids \in Seq(Ids), ids = Open(base), NEW input \in Inputs(base)
  PROVE  /\ input \in Turns /\ input.role = "user"
         /\ IsInjective(ids) => Answering(input.blocks, ToSet(ids))
<1>. DEFINE N == Len(ids)
            outputs == [k \in DOMAIN ids |-> Block("output", ids[k])]
            text == Block("text", Nil)
            progress == Block("progress", Nil)
<1>1. /\ N \in Nat /\ DOMAIN ids = 1..N /\ ToSet(ids) = {ids[k] : k \in 1..N}
      /\ \A k \in 1..N : ids[k] \in Ids
      /\ IsInjective(ids) => \A j, k \in 1..N : ids[j] = ids[k] => j = k
  BY DEF ToSet, IsInjective
<1>2. text \in Blocks /\ text.kind = "text" /\ progress \in Blocks /\ progress.kind = "progress"
  BY DEF Block, Blocks
<1>3. /\ outputs \in [1..N -> Blocks]
      /\ \A k \in 1..N : outputs[k].kind = "output" /\ outputs[k].id = ids[k]
  BY <1>1 DEF Block, Blocks
<1>4. outputs \in Seq(Blocks) /\ Len(outputs) = N
  <2>. HIDE DEF outputs, N
  <2>. QED  BY <1>1, <1>3, FunctionSeq
<1>5. ASSUME NEW blocks \in Seq(Blocks), IsInjective(ids) => Answering(blocks, ToSet(ids)),
             input = UserTurn(blocks)
      PROVE  /\ input \in Turns /\ input.role = "user"
             /\ IsInjective(ids) => Answering(input.blocks, ToSet(ids))
  BY <1>5 DEF UserTurn, Turns
<1>6. CASE ids = <<>>
  <2>1. input = UserTurn(<<text>>)
    BY <1>6 DEF Inputs
  <2>2. <<text>> \in Seq(Blocks) /\ DOMAIN <<text>> = {1} /\ <<text>>[1] = text
    BY <1>2
  <2>3. ToSet(ids) = {}
    BY <1>6 DEF ToSet
  <2>. HIDE DEF text
  <2>4. Answering(<<text>>, ToSet(ids))
    BY <1>2, <2>2, <2>3 DEF Answering
  <2>. QED  BY <1>5, <2>1, <2>2, <2>4
<1>7. CASE ids # <<>>
  <2>1. input \in {UserTurn(outputs), UserTurn(Append(<<progress>> \o Reverse(outputs), text))}
    BY <1>7 DEF Inputs
  <2>. HIDE DEF outputs, text, progress
  <2>2. IsInjective(ids) => Answering(outputs, ToSet(ids))
    <3>1. DOMAIN outputs = 1..N
      BY <1>3
    <3>. QED  BY <1>1, <1>3, <3>1 DEF Answering
  <2>3. /\ <<progress>> \o Reverse(outputs) \in Seq(Blocks)
        /\ IsInjective(ids) => Answering(<<progress>> \o Reverse(outputs), ToSet(ids))
    <3>1. \A k \in 1..N : N - k + 1 \in 1..N
      BY <1>1
    <3>2. Reverse(outputs) \in [1..N -> Blocks] /\ \A k \in 1..N : Reverse(outputs)[k] = outputs[N - k + 1]
      BY <1>3, <1>4, <3>1 DEF Reverse
    <3>3. PICK u \in Seq(Blocks) : u = Reverse(outputs) /\ Len(u) = N
      <4>1. Reverse(outputs) \in Seq(Blocks) /\ Len(Reverse(outputs)) = N
        BY <1>1, <3>2, FunctionSeq
      <4>. QED  BY <4>1
    <3>4. PICK s \in Seq(Blocks) : /\ s = <<progress>> \o u /\ DOMAIN s = 1..(N + 1) /\ s[1] = progress
            /\ \A k \in 2..(N + 1) : s[k] = u[k - 1]
      <4>1. /\ <<progress>> \o u \in Seq(Blocks) /\ DOMAIN (<<progress>> \o u) = 1..(N + 1)
            /\ (<<progress>> \o u)[1] = progress
            /\ \A k \in 2..(N + 1) : (<<progress>> \o u)[k] = u[k - 1]
        BY <1>1, <1>2, <3>3
      <4>. QED  BY <4>1
    <3>5. \A k \in DOMAIN s : k \in 2..(N + 1) \/ s[k].kind = "progress"
      BY <1>1, <1>2, <3>4
    <3>6. ASSUME NEW k \in 2..(N + 1)
          PROVE  /\ k \in DOMAIN s /\ s[k].kind = "output" /\ N + 2 - k \in 1..N
                 /\ s[k].id = ids[N + 2 - k]
      <4>1. k - 1 \in 1..N /\ N - (k - 1) + 1 = N + 2 - k /\ N + 2 - k \in 1..N /\ k \in DOMAIN s
        BY <1>1, <3>4
      <4>2. s[k] = outputs[N + 2 - k]
        BY <3>2, <3>3, <3>4, <4>1
      <4>. QED  BY <1>3, <4>1, <4>2
    <3>7. \A j \in 1..N : N + 2 - j \in 2..(N + 1) /\ N + 2 - (N + 2 - j) = j
      BY <1>1
    <3>8. ASSUME IsInjective(ids) PROVE Answering(s, ToSet(ids))
      <4>1. ASSUME NEW k \in DOMAIN s, s[k].kind = "output"
            PROVE  k \in 2..(N + 1) /\ s[k].id \in ToSet(ids)
        <5>1. k \in 2..(N + 1)
          BY <3>5, <4>1
        <5>2. s[k].id = ids[N + 2 - k] /\ N + 2 - k \in 1..N
          BY <3>6, <5>1
        <5>. QED  BY <1>1, <5>1, <5>2
      <4>2. ASSUME NEW j \in 2..(N + 1), NEW k \in 2..(N + 1), s[j].id = s[k].id PROVE j = k
        <5>1. PICK a \in 1..N, b \in 1..N : a = N + 2 - j /\ b = N + 2 - k
          BY <3>6
        <5>2. ids[a] = ids[b]
          BY <3>6, <4>2, <5>1
        <5>3. a = b
          BY <1>1, <3>8, <5>2
        <5>. QED  BY <1>1, <5>1, <5>3
      <4>3. ASSUME NEW i \in ToSet(ids)
            PROVE  \E k \in DOMAIN s : s[k].kind = "output" /\ s[k].id = i
        <5>1. PICK j \in 1..N : i = ids[j]
          BY <1>1
        <5>2. PICK k \in 2..(N + 1) : N + 2 - k = j
          BY <3>7
        <5>. QED  BY <3>6, <5>1, <5>2
      <4>. QED  BY <4>1, <4>2, <4>3 DEF Answering
    <3>. QED  BY <3>3, <3>4, <3>8
  <2>4. PICK s \in Seq(Blocks) :
          /\ s = <<progress>> \o Reverse(outputs)
          /\ IsInjective(ids) => Answering(s, ToSet(ids))
    BY <2>3
  <2>5. /\ Append(s, text) \in Seq(Blocks)
        /\ IsInjective(ids) => Answering(Append(s, text), ToSet(ids))
    <3>1. Append(s, text) \in Seq(Blocks)
      BY <1>2
    <3>2. text.kind # "output" /\ text \in Blocks
      BY <1>2
    <3>. QED  BY <2>4, <3>1, <3>2, AnsweringMore
  <2>. QED  BY <1>4, <1>5, <2>1, <2>2, <2>4, <2>5
<1>. QED  BY <1>6, <1>7

-----------------------------------------------------------------------------
\* The atoms of a conversation, message by message.
AtomsOf ==
    [m \in Messages |->
       IF m.role = "assistant" /\ m.calls # <<>>
         THEN [k \in DOMAIN m.calls |-> <<"call", m.calls[k].id>>]
       ELSE IF m.role = "tool" THEN << <<"output", m.id>> >>
       ELSE << <<m.role>> >>]
AtomSet == ({"call", "output"} \X Ids) \cup {<<"user">>, <<"assistant">>}

LEMMA AtomsTyped == \A m \in Messages : AtomsOf[m] \in Seq(AtomSet)
<1>. TAKE m \in Messages
<1>1. CASE m.role = "assistant" /\ m.calls # <<>>
  <2>0. PICK T : T = [id : Ids]
    OBVIOUS
  <2>1. PICK calls \in Seq(T) : calls = m.calls
    BY <1>1, <2>0 DEF Messages
  <2>. DEFINE f == [k \in DOMAIN calls |-> <<"call", calls[k].id>>]
              N == Len(calls)
  <2>2. N \in Nat /\ DOMAIN calls = 1..N /\ \A k \in 1..N : calls[k] \in T
    OBVIOUS
  <2>3. \A k \in 1..N : <<"call", calls[k].id>> \in AtomSet
    BY <2>0, <2>2 DEF AtomSet
  <2>4. f \in [1..N -> AtomSet]
    BY <2>2, <2>3
  <2>5. AtomsOf[m] = f
    BY <1>1, <2>1 DEF AtomsOf
  <2>. HIDE DEF f, N
  <2>. QED  BY <2>2, <2>4, <2>5, FunctionSeq
<1>2. CASE m.role = "tool"
  <2>1. <<"output", m.id>> \in AtomSet
    BY <1>2 DEF Messages, AtomSet
  <2>. QED  BY <1>2, <2>1 DEF AtomsOf
<1>3. CASE m.role = "user" \/ (m.role = "assistant" /\ m.calls = <<>>)
  <2>1. <<m.role>> \in AtomSet
    BY <1>3 DEF AtomSet
  <2>2. << <<m.role>> >> \in Seq(AtomSet)
    BY <2>1
  <2>3. AtomsOf[m] = << <<m.role>> >>
    BY <1>3 DEF AtomsOf
  <2>. QED  BY <2>2, <2>3
<1>4. m.role \in {"user", "tool", "assistant"}
  BY DEF Messages
<1>. QED  BY <1>1, <1>2, <1>3, <1>4

LEMMA AtomsAre ==
  ASSUME NEW msgs \in Seq(Messages)
  PROVE  Atoms(msgs) = FlattenSeq(Each(AtomsOf, msgs))
<1>. DEFINE parts == [i \in DOMAIN msgs |->
               IF msgs[i].role = "assistant" /\ msgs[i].calls # <<>>
                 THEN [k \in DOMAIN msgs[i].calls |-> <<"call", msgs[i].calls[k].id>>]
               ELSE IF msgs[i].role = "tool" THEN << <<"output", msgs[i].id>> >>
               ELSE << <<msgs[i].role>> >>]
<1>1. ASSUME NEW i \in DOMAIN msgs PROVE parts[i] = AtomsOf[msgs[i]]
  <2>1. msgs[i] \in Messages
    OBVIOUS
  <2>. QED  BY <2>1 DEF AtomsOf
<1>2. Atoms(msgs) = FlattenSeq(parts)
  BY DEF Atoms
<1>3. parts = [i \in DOMAIN msgs |-> parts[i]]
  OBVIOUS
<1>. HIDE DEF parts
<1>4. parts = Each(AtomsOf, msgs)
  BY <1>1, <1>3 DEF Each
<1>. QED  BY <1>2, <1>4

LEMMA AtomsJoin ==
  ASSUME NEW s \in Seq(Messages), NEW t \in Seq(Messages)
  PROVE  Atoms(s \o t) = Atoms(s) \o Atoms(t)
<1>1. FlattenSeq(Each(AtomsOf, s \o t)) = FlattenSeq(Each(AtomsOf, s)) \o FlattenSeq(Each(AtomsOf, t))
  BY AtomsTyped, FlattenEachConcat
<1>2. s \o t \in Seq(Messages)
  OBVIOUS
<1>. QED  BY <1>1, <1>2, AtomsAre

LEMMA AtomsBot ==
  ASSUME NEW ids \in Seq(Ids)
  PROVE  Atoms(FromItems(BotTurn(ids))) = Atoms(<<AllCalls(BotTurn(ids))>>)
<1>1. CASE ids = <<>>
  <2>1. Len(ids) <= 1
    BY <1>1
  <2>. QED  BY <2>1, BotTurnIs
<1>2. CASE ids # <<>>
  <2>. DEFINE calls == [k \in DOMAIN ids |-> <<"call", ids[k]>>]
              N == Len(ids)
              m == AllCalls(BotTurn(ids))
  <2>1. N \in Nat /\ N # 0 /\ DOMAIN ids = 1..N /\ \A k \in 1..N : ids[k] \in Ids
    BY <1>2
  <2>2. \A k \in 1..N : <<"call", ids[k]>> \in AtomSet
    BY <2>1 DEF AtomSet
  <2>3. calls \in [1..N -> AtomSet]
    BY <2>1, <2>2
  <2>4. calls \in Seq(AtomSet) /\ Len(calls) = N
    <3>. HIDE DEF calls, N
    <3>. QED  BY <2>1, <2>3, FunctionSeq
  <2>5. FlattenSeq([k \in DOMAIN calls |-> <<calls[k]>>]) = calls
    <3>. HIDE DEF calls
    <3>. QED  BY <2>4, FlattenSingles
  <2>6. Each(AtomsOf, OneByOne(ids)) = [k \in DOMAIN calls |-> <<calls[k]>>]
    <3>1. ASSUME NEW i \in Ids PROVE AtomsOf[OneCall(i)] = << <<"call", i>> >>
      <4>1. OneCall(i) \in Messages
        BY DEF OneCall, Assistant, Messages
      <4>2. /\ OneCall(i).role = "assistant" /\ OneCall(i).calls = <<[id |-> i]>>
        BY DEF OneCall, Assistant
      <4>3. [k \in DOMAIN <<[id |-> i]>> |-> <<"call", <<[id |-> i]>>[k].id>>] = << <<"call", i>> >>
        OBVIOUS
      <4>. QED  BY <4>1, <4>2, <4>3 DEF AtomsOf
    <3>2. \A k \in 1..N : OneByOne(ids)[k] = OneCall(ids[k]) /\ calls[k] = <<"call", ids[k]>>
      BY <2>1 DEF OneByOne
    <3>3. DOMAIN OneByOne(ids) = 1..N /\ DOMAIN calls = 1..N
      BY <2>1 DEF OneByOne
    <3>. HIDE DEF calls
    <3>. QED  BY <2>1, <3>1, <3>2, <3>3 DEF Each
  <2>7. Atoms(OneByOne(ids)) = calls
    <3>1. OneByOne(ids) \in Seq(Messages)
      BY CallsTyped
    <3>. HIDE DEF calls
    <3>. QED  BY <2>5, <2>6, <3>1, AtomsAre
  <2>8. m \in Messages /\ Len(m.calls) = N /\ m.calls \in Seq([id : Ids])
        /\ \A k \in 1..N : m.calls[k].id = ids[k]
    BY CallsTyped
  <2>9. m.role = "assistant"
    BY DEF AllCalls, Assistant
  <2>10. AtomsOf[m] = calls
    <3>. HIDE DEF m
    <3>1. DOMAIN m.calls = 1..N /\ m.calls # <<>>
      BY <2>1, <2>8
    <3>. QED  BY <2>1, <2>8, <2>9, <3>1 DEF AtomsOf
  <2>11. Atoms(<<m>>) = calls
    <3>. HIDE DEF m, calls
    <3>1. <<m>> \in Seq(Messages)
      BY <2>8
    <3>2. FlattenSeq(Each(AtomsOf, <<m>>)) = AtomsOf[m]
      BY <2>4, <2>10, FlattenEachOne
    <3>. QED  BY <2>10, <3>1, <3>2, AtomsAre
  <2>. HIDE DEF calls
  <2>. QED  BY <1>2, <2>7, <2>11, BotTurnIs
<1>. QED  BY <1>1, <1>2

-----------------------------------------------------------------------------
\* What a client knows of a response, what is kept for it, and a request at work.
Given(conv) ==
    /\ conv \in Seq(Turns) /\ conv # <<>> /\ Last(conv).role = "assistant"
    /\ Follows(conv, ToSet(Last(conv).ids))
Kept(msgs, conv) ==
    /\ msgs \in Seq(Messages) /\ Atoms(msgs) = Atoms(Converted("replay", conv))
    /\ ~Repeats(conv) => Asks(msgs, ToSet(Last(conv).ids), Called(conv))
Working(q) ==
    /\ q.messages \in Seq(Messages) /\ q.conversation \in Seq(Turns)
    /\ Follows(q.conversation, {})
    /\ ~Repeats(q.conversation) => Asks(q.messages, {}, Called(q.conversation))
    /\ q.keep => Atoms(q.messages) = Atoms(Converted("replay", q.conversation))

GivenInv   == \A r \in Responses : given[r] # Nil => r <= turns /\ Given(given[r])
StoredInv  ==
    \A r \in Responses :
      /\ stored[r] # Nil => given[r] # Nil /\ Kept(stored[r], given[r])
      /\ given[r] # Nil /\ stored[r] = Nil => r \in unkept
WorkInv    == \A c \in Users : asked[c] # Nil => Working(asked[c])
RefusedInv ==
    \A c \in Users : refused[c] # Nil =>
      /\ refused[c].base \in Responses /\ given[refused[c].base] # Nil
      /\ \/ refused[c].why = "unknown" /\ refused[c].base \in unkept
         \/ refused[c].why = "replay" /\ ParallelIn(refused[c].base)
         \/ refused[c].why # "unknown" /\ Repeats(given[refused[c].base])
ResponsesInv == ResponsesTyped /\ GivenInv /\ StoredInv /\ WorkInv /\ RefusedInv

\* What a client can go on from.
LEMMA BaseKnown ==
  ASSUME ResponsesInv, NEW base \in {0} \cup {r \in Responses : given[r] # Nil}
  PROVE  /\ Known(base) \in Seq(Turns) /\ Open(base) \in Seq(Ids)
         /\ ~Repeats(Known(base)) => IsInjective(Open(base))
         /\ Follows(Known(base), ToSet(Open(base)))
         /\ base # 0 /\ stored[base] # Nil => Kept(stored[base], given[base])
<1>1. CASE base = 0
  <2>1. Known(base) = <<>> /\ Open(base) = <<>> /\ ToSet(<<>>) = {} /\ IsInjective(<<>>)
    BY <1>1 DEF Known, Open, ToSet, IsInjective
  <2>2. \A p : Converted(p, <<>>) = <<>>
    <3>1. FlattenSeq(<<>>) = <<>>
      BY DEF FlattenSeq
    <3>. QED  BY <3>1 DEF Converted
  <2>3. Checked(<<>>) = Fresh
    <3>1. User \in Messages /\ <<>> \in Seq(Messages)
      BY DEF User, Messages
    <3>. QED  BY <3>1, CheckedNext
  <2>4. Follows(<<>>, {})
    BY <2>2, <2>3 DEF Follows, Sequential, Asks, Fresh
  <2>5. ToSet(Open(base)) = {} /\ <<>> \in Seq(Turns) /\ <<>> \in Seq(Ids)
    BY <2>1
  <2>6. Follows(Known(base), ToSet(Open(base)))
    BY <2>1, <2>4, <2>5
  <2>. QED  BY <1>1, <2>1, <2>5, <2>6
<1>2. CASE base # 0
  <2>1. PICK r \in Responses : r = base /\ given[r] # Nil /\ Given(given[r])
    BY <1>2 DEF ResponsesInv, GivenInv
  <2>2. Known(base) = given[r] /\ Open(base) = Last(given[r]).ids
    BY <1>2, <2>1 DEF Known, Open
  <2>3. PICK conv \in Seq(Turns) :
          /\ conv = given[r] /\ conv # <<>> /\ Last(conv).role = "assistant"
          /\ Follows(conv, ToSet(Last(conv).ids))
    BY <2>1 DEF Given
  <2>4. Last(conv) \in Turns
    <3>1. Len(conv) \in 1..Len(conv)
      BY <2>3
    <3>. QED  BY <3>1 DEF Last
  <2>5. Last(conv).ids \in Seq(Ids)
    BY <2>3, <2>4 DEF Turns
  <2>6. ~Repeats(conv) => IsInjective(Last(conv).ids)
    BY <2>3, LastDiffer
  <2>7. stored[r] # Nil => Kept(stored[r], given[r])
    BY DEF ResponsesInv, StoredInv
  <2>. QED  BY <2>1, <2>2, <2>3, <2>5, <2>6, <2>7
<1>. QED  BY <1>1, <1>2

\* What a request puts through openaiChat, for every base, protocol and input.
MessagesOf(base, p, input) ==
    IF p = "previous" /\ base # 0 THEN stored[base] \o Converted(p, <<input>>)
    ELSE Converted(p, Append(Known(base), input))

LEMMA SendAsks ==
  ASSUME ResponsesInv, NEW base \in {0} \cup {r \in Responses : given[r] # Nil},
         NEW p \in Protocols, NEW input \in Inputs(base),
         ~(p = "previous" /\ base # 0 /\ stored[base] = Nil),
         NEW conv, conv = Append(Known(base), input)
  PROVE  /\ conv \in Seq(Turns) /\ Follows(conv, {}) /\ MessagesOf(base, p, input) \in Seq(Messages)
         /\ p # "anthropic" =>
              Atoms(MessagesOf(base, p, input)) = Atoms(Converted("replay", conv))
         /\ \/ ~Repeats(conv) => Asks(MessagesOf(base, p, input), {}, Called(conv))
            \/ /\ p = "replay" /\ base # 0 /\ ParallelIn(base)
               /\ ~Valid(MessagesOf(base, p, input))
         /\ Repeats(conv) => base # 0 /\ Repeats(given[base])
<1>1. PICK past, ids : past = Known(base) /\ ids = Open(base)
  OBVIOUS
<1>2. /\ past \in Seq(Turns) /\ ids \in Seq(Ids)
      /\ ~Repeats(past) => IsInjective(ids)
      /\ Follows(past, ToSet(ids))
  BY <1>1, BaseKnown
<1>3. /\ input \in Turns /\ input.role = "user"
      /\ ~Repeats(past) => Answering(input.blocks, ToSet(ids))
  BY <1>1, <1>2, InputAnswers
<1>4. ToSet(ids) \in SUBSET Ids
  <2>1. \A k \in DOMAIN ids : ids[k] \in Ids
    BY <1>2
  <2>. QED  BY <2>1 DEF ToSet
<1>5. conv \in Seq(Turns) /\ Follows(conv, {})
  BY <1>1, <1>2, <1>3, <1>4, FollowsUser
<1>6. p \in {"previous", "replay", "anthropic"}
  BY ResponsesAssumptions
<1>7. From("replay") = From("previous") /\ Converted("replay", conv) = Converted("previous", conv)
  BY DEF From, Converted
<1>10. Called(conv) = Called(past) /\ (Repeats(past) <=> Repeats(conv))
  BY <1>1, <1>2, <1>3, RepeatsStay, RepeatsNoMore, CalledUser
<1>11. Repeats(conv) => base # 0 /\ Repeats(given[base])
  <2>1. ~Repeats(<<>>)
    BY DEF Repeats
  <2>2. CASE base = 0
    BY <1>1, <1>10, <2>1, <2>2 DEF Known
  <2>3. CASE base # 0
    BY <1>1, <1>10, <2>3 DEF Known
  <2>. QED  BY <2>2, <2>3
<1>8. CASE p = "previous" /\ base # 0
  <2>1. PICK kept \in Seq(Messages) :
          /\ kept = stored[base]
          /\ ~Repeats(past) => Asks(kept, ToSet(ids), Called(past))
          /\ Atoms(kept) = Atoms(Converted("replay", past))
    BY <1>1, <1>8, BaseKnown DEF Known, Open, Kept
  <2>2. PICK more \in Seq(Messages) : more = From(p)[input] /\ Converted(p, <<input>>) = more
    BY <1>2, <1>3, ConvertedGrows
  <2>3. MessagesOf(base, p, input) = kept \o more
    BY <1>8, <2>1, <2>2 DEF MessagesOf
  <2>4. ~Repeats(conv) => Asks(kept \o more, {}, Called(conv))
    BY <1>3, <1>4, <1>10, <2>1, <2>2, UserAnswers
  <2>5. kept \o more \in Seq(Messages)
    OBVIOUS
  <2>6. PICK earlier \in Seq(Messages) :
          earlier = Converted("replay", past) /\ Converted("replay", conv) = earlier \o more
    <3>1. /\ Converted("replay", past) \in Seq(Messages)
          /\ Converted("replay", Append(past, input)) = Converted("replay", past) \o From("replay")[input]
      BY <1>2, <1>3, ConvertedGrows
    <3>2. From("replay")[input] = more
      BY <1>7, <1>8, <2>2
    <3>. QED  BY <1>1, <3>1, <3>2
  <2>7. Atoms(kept \o more) = Atoms(earlier \o more)
    <3>1. Atoms(kept \o more) = Atoms(kept) \o Atoms(more)
      BY AtomsJoin
    <3>2. Atoms(earlier \o more) = Atoms(earlier) \o Atoms(more)
      BY AtomsJoin
    <3>. QED  BY <2>1, <2>6, <3>1, <3>2
  <2>. QED  BY <1>5, <1>11, <2>3, <2>4, <2>5, <2>6, <2>7
<1>9. CASE ~(p = "previous" /\ base # 0)
  <2>1. MessagesOf(base, p, input) = Converted(p, conv)
    BY <1>9 DEF MessagesOf
  <2>2. Converted(p, conv) \in Seq(Messages)
    BY <1>5, ConvertedTyped
  <2>3. p # "anthropic" => Converted(p, conv) = Converted("replay", conv)
    BY <1>6, <1>7
  <2>4. CASE p = "anthropic"
    <3>1. ~Repeats(conv) => Asks(Converted(p, conv), {}, Called(conv))
      BY <1>5, <2>4 DEF Follows
    <3>. QED  BY <1>5, <1>11, <2>1, <2>2, <2>4, <3>1
  <2>5. CASE p # "anthropic" /\ ~(base # 0 /\ ParallelIn(base))
    <3>1. Sequential(conv)
      <4>1. \A k \in DOMAIN past : past[k].role = "assistant" => Len(past[k].ids) <= 1
        <5>1. CASE base = 0
          BY <1>1, <5>1 DEF Known
        <5>2. CASE base # 0
          <6>1. past = given[base]
            BY <1>1, <5>2 DEF Known
          <6>2. ASSUME NEW k \in DOMAIN past, past[k].role = "assistant"
                PROVE  Len(past[k].ids) <= 1
            <7>1. past[k] \in Turns
              BY <1>2
            <7>2. Len(past[k].ids) \in Nat
              <8>1. past[k].ids \in Seq(Ids)
                BY <6>2, <7>1 DEF Turns
              <8>. QED  BY <8>1
            <7>. QED  BY <2>5, <5>2, <6>1, <6>2, <7>2 DEF ParallelIn
          <6>. QED  BY <6>2
        <5>. QED  BY <5>1, <5>2
      <4>2. \A k \in DOMAIN conv : conv[k] = input \/ (k \in DOMAIN past /\ conv[k] = past[k])
        BY <1>1, <1>2, <1>3
      <4>. QED  BY <1>3, <4>1, <4>2 DEF Sequential
    <3>2. ~Repeats(conv) => Asks(Converted("replay", conv), {}, Called(conv))
      BY <1>5, <3>1 DEF Follows
    <3>. QED  BY <1>5, <1>11, <2>1, <2>2, <2>3, <2>5, <3>2
  <2>6. CASE p # "anthropic" /\ base # 0 /\ ParallelIn(base)
    <3>1. p = "replay"
      BY <1>6, <1>9, <2>6
    <3>2. PICK k \in DOMAIN past : past[k].role = "assistant" /\ Len(past[k].ids) > 1
      BY <1>1, <2>6 DEF ParallelIn, Known
    <3>3. k \in DOMAIN conv /\ conv[k] = past[k]
      BY <1>1, <1>2, <1>3
    <3>4. ~Sequential(conv)
      <4>1. past[k] \in Turns
        BY <1>2
      <4>2. past[k].ids \in Seq(Ids)
        BY <3>2, <4>1 DEF Turns
      <4>3. ~(Len(past[k].ids) <= 1)
        BY <3>2, <4>2
      <4>. QED  BY <3>2, <3>3, <4>3 DEF Sequential
    <3>5. ~Valid(Converted(p, conv))
      BY <1>5, <3>1, <3>4 DEF Follows, Valid
    <3>. QED  BY <1>5, <1>11, <2>1, <2>2, <2>3, <2>6, <3>1, <3>5
  <2>. QED  BY <2>4, <2>5, <2>6
<1>. QED  BY <1>8, <1>9

-----------------------------------------------------------------------------
\* Each operation preserves the invariant.
LEMMA ResponsesInitInv == ResponsesInit => ResponsesInv
<1>. SUFFICES ASSUME ResponsesInit PROVE ResponsesInv
  OBVIOUS
<1>1. ResponsesTyped
  BY ResponsesAssumptions DEF ResponsesInit, ResponsesTyped
<1>. QED  BY <1>1 DEF ResponsesInit, ResponsesInv, GivenInv, StoredInv, WorkInv, RefusedInv

\* Of steps that change neither what is known nor what is kept.
Quiet == UNCHANGED <<stored, given, unkept, turns>>

LEMMA QuietInv ==
  ASSUME ResponsesInv, Quiet, NEW c \in Users, NEW q, NEW w,
         asked' = [asked EXCEPT ![c] = q], refused' = [refused EXCEPT ![c] = w],
         q \in Asked \cup {Nil}, q # Nil => Working(q), w \in Refusals \cup {Nil},
         w # Nil => /\ w.base \in Responses /\ given[w.base] # Nil
                    /\ \/ w.why = "unknown" /\ w.base \in unkept
                       \/ w.why = "replay" /\ ParallelIn(w.base)
                       \/ w.why # "unknown" /\ Repeats(given[w.base])
  PROVE  ResponsesInv'
<1>1. ResponsesTyped'
  BY DEF ResponsesInv, ResponsesTyped, Quiet
<1>2. GivenInv' /\ StoredInv'
  BY DEF ResponsesInv, GivenInv, StoredInv, Quiet
<1>3. \A d \in Users : asked'[d] = (IF d = c THEN q ELSE asked[d])
                        /\ refused'[d] = (IF d = c THEN w ELSE refused[d])
  BY DEF ResponsesInv, ResponsesTyped
<1>4. WorkInv'
  BY <1>3 DEF ResponsesInv, WorkInv, Quiet
<1>5. \A b : ParallelIn(b)' <=> ParallelIn(b)
  BY DEF ParallelIn, Quiet
<1>6. RefusedInv'
  BY <1>3, <1>5 DEF ResponsesInv, RefusedInv, Quiet
<1>. QED  BY <1>1, <1>2, <1>4, <1>6 DEF ResponsesInv

LEMMA RefuseInv ==
  ASSUME ResponsesInv, NEW c \in Users, NEW why \in {"unknown"} \cup Protocols,
         NEW base \in Responses, Refuse(c, why, base), given[base] # Nil,
         \/ why = "unknown" /\ base \in unkept
         \/ why = "replay" /\ ParallelIn(base)
         \/ why # "unknown" /\ Repeats(given[base])
  PROVE  ResponsesInv'
<1>1. PICK w : w = [why |-> why, base |-> base]
  OBVIOUS
<1>2. w \in Refusals /\ w.why = why /\ w.base = base
  BY <1>1 DEF Refusals
<1>3. asked[c] \in Asked \cup {Nil} /\ asked' = [asked EXCEPT ![c] = asked[c]]
      /\ refused' = [refused EXCEPT ![c] = w] /\ Quiet
  BY <1>1 DEF ResponsesInv, ResponsesTyped, Refuse, Quiet
<1>4. asked[c] # Nil => Working(asked[c])
  BY DEF ResponsesInv, WorkInv
<1>. QED  BY <1>2, <1>3, <1>4, QuietInv

LEMMA SendInv == ASSUME ResponsesInv, NEW c \in Users, Send(c) PROVE ResponsesInv'
<1>1. PICK base \in {0} \cup {r \in Responses : given[r] # Nil},
           p \in Protocols, stream \in BOOLEAN : \E input \in Inputs(base) :
        IF p = "previous" /\ base # 0 /\ stored[base] = Nil THEN Refuse(c, "unknown", base)
        ELSE IF ~Valid(MessagesOf(base, p, input)) THEN Refuse(c, p, base)
        ELSE /\ asked' = [asked EXCEPT ![c] =
                  [messages |-> MessagesOf(base, p, input),
                   conversation |-> Append(Known(base), input),
                   keep |-> p # "anthropic" /\ ~stream]]
             /\ refused' = [refused EXCEPT ![c] = Nil]
             /\ UNCHANGED <<stored, given, unkept, turns>>
  BY DEF Send, MessagesOf
<1>10. PICK input \in Inputs(base) :
        IF p = "previous" /\ base # 0 /\ stored[base] = Nil THEN Refuse(c, "unknown", base)
        ELSE IF ~Valid(MessagesOf(base, p, input)) THEN Refuse(c, p, base)
        ELSE /\ asked' = [asked EXCEPT ![c] =
                  [messages |-> MessagesOf(base, p, input),
                   conversation |-> Append(Known(base), input),
                   keep |-> p # "anthropic" /\ ~stream]]
             /\ refused' = [refused EXCEPT ![c] = Nil]
             /\ UNCHANGED <<stored, given, unkept, turns>>
  BY <1>1
<1>2. CASE p = "previous" /\ base # 0 /\ stored[base] = Nil
  <2>1. base \in Responses /\ given[base] # Nil /\ base \in unkept
    BY <1>2 DEF ResponsesInv, StoredInv
  <2>. QED  BY <1>10, <1>2, <2>1, RefuseInv
<1>3. CASE ~(p = "previous" /\ base # 0 /\ stored[base] = Nil)
  <2>1. PICK msgs, conv : msgs = MessagesOf(base, p, input) /\ conv = Append(Known(base), input)
    OBVIOUS
  <2>2. /\ conv \in Seq(Turns) /\ Follows(conv, {}) /\ msgs \in Seq(Messages)
        /\ p # "anthropic" => Atoms(msgs) = Atoms(Converted("replay", conv))
        /\ \/ ~Repeats(conv) => Asks(msgs, {}, Called(conv))
           \/ p = "replay" /\ base # 0 /\ ParallelIn(base) /\ ~Valid(msgs)
        /\ Repeats(conv) => base # 0 /\ Repeats(given[base])
    <3>1. conv = Append(Known(base), input)
      BY <2>1
    <3>2. /\ conv \in Seq(Turns) /\ Follows(conv, {}) /\ MessagesOf(base, p, input) \in Seq(Messages)
          /\ p # "anthropic" =>
               Atoms(MessagesOf(base, p, input)) = Atoms(Converted("replay", conv))
          /\ \/ ~Repeats(conv) => Asks(MessagesOf(base, p, input), {}, Called(conv))
             \/ /\ p = "replay" /\ base # 0 /\ ParallelIn(base)
                /\ ~Valid(MessagesOf(base, p, input))
          /\ Repeats(conv) => base # 0 /\ Repeats(given[base])
      BY <1>3, <1>10, <3>1, SendAsks
    <3>. QED  BY <2>1, <3>2
  <2>3. Asks(msgs, {}, Called(conv)) => Valid(msgs)
    BY DEF Valid, Asks
  <2>4. CASE ~Valid(msgs)
    <3>1. Refuse(c, p, base) /\ base # 0
      BY <1>10, <1>3, <2>1, <2>2, <2>3, <2>4
    <3>2. p # "unknown" /\ base \in Responses /\ given[base] # Nil
      BY <3>1, ResponsesAssumptions
    <3>3. (p = "replay" /\ ParallelIn(base)) \/ Repeats(given[base])
      BY <2>2, <2>3, <2>4
    <3>. QED  BY <3>1, <3>2, <3>3, RefuseInv
  <2>5. CASE Valid(msgs)
    <3>1. PICK keep \in BOOLEAN : keep = (p # "anthropic" /\ ~stream)
      OBVIOUS
    <3>2. PICK q : q = [messages |-> msgs, conversation |-> conv, keep |-> keep]
      OBVIOUS
    <3>3. q.messages = msgs /\ q.conversation = conv /\ q.keep = keep
      BY <3>2
    <3>4. keep => p # "anthropic"
      BY <3>1
    <3>5. q \in Asked
      BY <2>2, <3>2 DEF Asked
    <3>6. ~Repeats(conv) => Asks(msgs, {}, Called(conv))
      BY <2>2, <2>5
    <3>8. Working(q)
      BY <2>2, <3>3, <3>4, <3>6 DEF Working
    <3>7. asked' = [asked EXCEPT ![c] = q] /\ refused' = [refused EXCEPT ![c] = Nil] /\ Quiet
      BY <1>10, <1>3, <2>1, <2>5, <3>1, <3>2 DEF Quiet
    <3>. QED  BY <3>5, <3>7, <3>8, QuietInv
  <2>. QED  BY <2>4, <2>5
<1>. QED  BY <1>2, <1>3

LEMMA FailInv == ASSUME ResponsesInv, NEW c \in Users, Fail(c) PROVE ResponsesInv'
<1>1. /\ asked' = [asked EXCEPT ![c] = Nil] /\ refused' = [refused EXCEPT ![c] = refused[c]]
      /\ Quiet /\ refused[c] \in Refusals \cup {Nil}
  BY DEF ResponsesInv, ResponsesTyped, Fail, Quiet
<1>2. refused[c] # Nil =>
        /\ refused[c].base \in Responses /\ given[refused[c].base] # Nil
        /\ \/ refused[c].why = "unknown" /\ refused[c].base \in unkept
           \/ refused[c].why = "replay" /\ ParallelIn(refused[c].base)
           \/ refused[c].why # "unknown" /\ Repeats(given[refused[c].base])
  BY DEF ResponsesInv, RefusedInv
<1>3. PICK w : w = refused[c]
  OBVIOUS
<1>. QED  BY <1>1, <1>2, <1>3, QuietInv

LEMMA AnswerInv == ASSUME ResponsesInv, NEW c \in Users, Answer(c) PROVE ResponsesInv'
<1>1. PICK q \in Asked : q = asked[c] /\ Working(q) /\ asked[c] # Nil
  BY DEF Answer, ResponsesInv, ResponsesTyped, WorkInv
<1>0. PICK r : r = turns + 1
  OBVIOUS
<1>2. PICK ids \in SeqOf(Ids, MaxCalls) :
        /\ stored' = IF q.keep THEN [stored EXCEPT ![r] = Append(q.messages, AllCalls(BotTurn(ids)))]
                     ELSE stored
        /\ given' = [given EXCEPT ![r] = Append(q.conversation, BotTurn(ids))]
        /\ turns' = r /\ asked' = [asked EXCEPT ![c] = Nil] /\ refused' = refused
        /\ unkept' = IF q.keep THEN unkept ELSE unkept \cup {r}
  BY <1>0, <1>1 DEF Answer, History
<1>3. /\ turns \in Nat /\ r \in Responses /\ r \in Nat /\ turns = r - 1 /\ turns <= r
      /\ r \in 0..MaxTurns
  BY <1>0, <1>2, ResponsesAssumptions DEF Answer, Responses, ResponsesInv, ResponsesTyped
<1>4. ids \in Seq(Ids)
  <2>1. PICK n \in 0..MaxCalls : ids \in [1..n -> Ids]
    BY DEF SeqOf
  <2>2. n \in Nat
    BY ResponsesAssumptions
  <2>. QED  BY <2>1, <2>2, FunctionSeq
<1>5. PICK t \in Turns : t = BotTurn(ids) /\ t.role = "assistant" /\ t.ids = ids
  <2>1. BotTurn(ids).role = "assistant" /\ BotTurn(ids).ids = ids
    BY DEF BotTurn
  <2>. QED  BY <1>4, <2>1, BotTurnIs
<1>6. PICK conv \in Seq(Turns), msgs \in Seq(Messages) :
        /\ conv = q.conversation /\ msgs = q.messages /\ Follows(conv, {})
        /\ ~Repeats(conv) => Asks(msgs, {}, Called(conv))
        /\ q.keep => Atoms(msgs) = Atoms(Converted("replay", conv))
  BY <1>1 DEF Working
<1>7. Given(Append(conv, t))
  <2>1. /\ Append(conv, t) \in Seq(Turns) /\ Append(conv, t) # <<>>
        /\ Last(Append(conv, t)) = t
    BY DEF Last
  <2>2. Follows(Append(conv, t), ToSet(ids))
    BY <1>4, <1>5, <1>6, FollowsBot
  <2>. QED  BY <1>5, <2>1, <2>2 DEF Given
<1>8. PICK m \in Messages : m = AllCalls(BotTurn(ids))
  BY <1>4, CallsTyped
<1>9. q.keep => Kept(Append(msgs, m), Append(conv, t))
  <2>1. <<m>> \in Seq(Messages) /\ Append(msgs, m) = msgs \o <<m>> /\ msgs \o <<m>> \in Seq(Messages)
    OBVIOUS
  <2>2. ASSUME ~Repeats(Append(conv, t))
        PROVE  Asks(msgs \o <<m>>, ToSet(ids), Called(Append(conv, t)))
    <3>1. PICK C : C = Called(conv)
      OBVIOUS
    <3>2. ~Repeats(conv) /\ IsInjective(ids) /\ ToSet(ids) \cap C = {}
      BY <1>4, <1>5, <2>2, <3>1, RepeatsStay, CalledBot
    <3>3. Asks(msgs \o <<m>>, ToSet(ids), C \cup ToSet(ids))
      BY <1>4, <1>6, <1>8, <3>1, <3>2, AskCalls
    <3>. QED  BY <1>4, <1>5, <3>1, <3>3, CalledBot
  <2>3. Last(Append(conv, t)).ids = ids
    <3>1. Last(Append(conv, t)) = t
      BY DEF Last
    <3>. QED  BY <1>5, <3>1
  <2>4. PICK before \in Seq(Messages), more \in Seq(Messages) :
          /\ before = Converted("replay", conv) /\ more = From("replay")[t]
          /\ Converted("replay", Append(conv, t)) = before \o more
    <3>1. /\ Converted("replay", conv) \in Seq(Messages) /\ From("replay")[t] \in Seq(Messages)
          /\ Converted("replay", Append(conv, t)) = Converted("replay", conv) \o From("replay")[t]
      BY ConvertedGrows
    <3>. QED  BY <3>1
  <2>5. more = FromItems(BotTurn(ids))
    BY <1>5, <2>4 DEF From
  <2>6. Atoms(more) = Atoms(<<m>>)
    BY <1>4, <1>8, <2>5, AtomsBot
  <2>7. Atoms(msgs \o <<m>>) = Atoms(msgs) \o Atoms(<<m>>)
        /\ Atoms(before \o more) = Atoms(before) \o Atoms(more)
    BY <2>1, AtomsJoin
  <2>8. q.keep => Atoms(msgs \o <<m>>) = Atoms(Converted("replay", Append(conv, t)))
    BY <1>6, <2>4, <2>6, <2>7
  <2>. QED  BY <2>1, <2>2, <2>3, <2>8 DEF Kept
<1>10. PICK past, kept :
         /\ past = Append(conv, t) /\ kept = Append(msgs, m) /\ past \in Seq(Turns)
         /\ kept \in Seq(Messages) /\ past # Nil /\ kept # Nil
  <2>1. Append(conv, t) \in Seq(Turns) /\ Append(msgs, m) \in Seq(Messages)
    OBVIOUS
  <2>2. Nil \notin Seq(Turns) /\ Nil \notin Seq(Messages)
    BY ResponsesAssumptions
  <2>. QED  BY <2>1, <2>2
<1>11. /\ given' = [given EXCEPT ![r] = past]
       /\ stored' = IF q.keep THEN [stored EXCEPT ![r] = kept] ELSE stored
       /\ given \in [Responses -> Seq(Turns) \cup {Nil}] /\ stored \in [Responses -> Seq(Messages) \cup {Nil}]
       /\ unkept \subseteq Responses /\ asked \in [Users -> Asked \cup {Nil}]
  BY <1>2, <1>5, <1>6, <1>8, <1>10 DEF ResponsesInv, ResponsesTyped
<1>12. \A x \in Responses : given'[x] = IF x = r THEN past ELSE given[x]
  BY <1>3, <1>11
<1>13. \A x \in Responses : stored'[x] = IF x = r /\ q.keep THEN kept ELSE stored[x]
  BY <1>3, <1>11
<1>14. ResponsesTyped'
  <2>1. given' \in [Responses -> Seq(Turns) \cup {Nil}] /\ stored' \in [Responses -> Seq(Messages) \cup {Nil}]
    BY <1>3, <1>10, <1>11
  <2>2. unkept' \subseteq Responses /\ turns' \in 0..MaxTurns /\ asked' \in [Users -> Asked \cup {Nil}]
    BY <1>2, <1>3, <1>11
  <2>. QED  BY <1>2, <2>1, <2>2 DEF ResponsesInv, ResponsesTyped
<1>15. \A x \in Responses : given[x] # Nil => x # r /\ x <= turns /\ Given(given[x])
  BY <1>3 DEF ResponsesInv, GivenInv
<1>16. GivenInv'
  <2>1. ASSUME NEW x \in Responses, given'[x] # Nil PROVE x <= turns' /\ Given(given'[x])
    <3>1. CASE x = r
      BY <1>2, <1>3, <1>7, <1>10, <1>12, <3>1
    <3>2. CASE x # r
      <4>1. given'[x] = given[x] /\ x <= turns /\ Given(given[x])
        BY <1>12, <1>15, <2>1, <3>2
      <4>2. x \in Nat
        BY DEF Responses
      <4>. QED  BY <1>2, <1>3, <4>1, <4>2
    <3>. QED  BY <3>1, <3>2
  <2>. QED  BY <2>1 DEF GivenInv
<1>17. StoredInv'
  <2>1. ASSUME NEW x \in Responses
        PROVE  /\ stored'[x] # Nil => given'[x] # Nil /\ Kept(stored'[x], given'[x])
               /\ given'[x] # Nil /\ stored'[x] = Nil => x \in unkept'
    <3>1. /\ stored[x] # Nil => given[x] # Nil /\ Kept(stored[x], given[x])
          /\ given[x] # Nil /\ stored[x] = Nil => x \in unkept
      BY DEF ResponsesInv, StoredInv
    <3>2. CASE x = r /\ q.keep
      BY <1>9, <1>10, <1>12, <1>13, <3>2
    <3>3. CASE x = r /\ ~q.keep
      BY <1>2, <1>12, <1>13, <1>15, <3>1, <3>3
    <3>4. CASE x # r
      BY <1>2, <1>12, <1>13, <3>1, <3>4
    <3>. QED  BY <3>2, <3>3, <3>4
  <2>. QED  BY <2>1 DEF StoredInv
<1>18. WorkInv'
  <2>1. ASSUME NEW d \in Users, asked'[d] # Nil PROVE Working(asked'[d])
    <3>1. d # c /\ asked'[d] = asked[d]
      BY <1>2, <1>11, <2>1
    <3>2. Working(asked[d])
      BY <2>1, <3>1 DEF ResponsesInv, WorkInv
    <3>. QED  BY <3>1, <3>2
  <2>. QED  BY <2>1 DEF WorkInv
<1>19. RefusedInv'
  <2>1. ASSUME NEW b \in Responses, given[b] # Nil
        PROVE  given'[b] = given[b] /\ (ParallelIn(b) => ParallelIn(b)')
    BY <1>12, <1>15, <2>1 DEF ParallelIn
  <2>2. unkept \subseteq unkept'
    BY <1>2
  <2>. QED  BY <1>2, <2>1, <2>2 DEF ResponsesInv, RefusedInv
<1>. QED  BY <1>14, <1>16, <1>17, <1>18, <1>19 DEF ResponsesInv

LEMMA RestartServerInv == ASSUME ResponsesInv, RestartServer PROVE ResponsesInv'
<1>1. ResponsesTyped'
  BY DEF ResponsesInv, ResponsesTyped, RestartServer
<1>2. GivenInv'
  BY DEF ResponsesInv, GivenInv, RestartServer
<1>3. StoredInv'
  BY DEF StoredInv, RestartServer
<1>4. WorkInv' /\ RefusedInv'
  BY DEF WorkInv, RefusedInv, RestartServer
<1>. QED  BY <1>1, <1>2, <1>3, <1>4 DEF ResponsesInv

LEMMA ResponsesNextInv == ResponsesInv /\ [ResponsesNext]_responseVars => ResponsesInv'
<1>. SUFFICES ASSUME ResponsesInv, [ResponsesNext]_responseVars PROVE ResponsesInv'
  OBVIOUS
<1>1. ASSUME NEW c \in Users, Send(c) PROVE ResponsesInv'
  BY <1>1, SendInv
<1>2. ASSUME NEW c \in Users, Fail(c) PROVE ResponsesInv'
  BY <1>2, FailInv
<1>3. ASSUME NEW c \in Users, Answer(c) PROVE ResponsesInv'
  BY <1>3, AnswerInv
<1>4. CASE RestartServer
  BY <1>4, RestartServerInv
<1>5. CASE UNCHANGED responseVars
  <2>1. ResponsesTyped' /\ GivenInv' /\ StoredInv' /\ WorkInv'
    BY <1>5 DEF ResponsesInv, ResponsesTyped, GivenInv, StoredInv, WorkInv, responseVars
  <2>2. \A b : ParallelIn(b)' <=> ParallelIn(b)
    BY <1>5 DEF ParallelIn, responseVars
  <2>3. RefusedInv'
    BY <1>5, <2>2 DEF ResponsesInv, RefusedInv, responseVars
  <2>. QED  BY <2>1, <2>3 DEF ResponsesInv
<1>. QED  BY <1>1, <1>2, <1>3, <1>4, <1>5 DEF ResponsesNext

\* For any users, protocols and bounds, every variable of ResponsesTurns has its type.
THEOREM ResponsesTypeCorrect == ResponsesSpec => []ResponsesTyped
<1>1. ResponsesInv => ResponsesTyped
  BY DEF ResponsesInv
<1>. QED  BY <1>1, ResponsesInitInv, ResponsesNextInv, PTL DEF ResponsesSpec

\* What the gateway keeps for a response is the conversation its client has had, over
\* all the responses it went on from, however it forks and whatever fails in between.
THEOREM HistoryIsConversation == ResponsesSpec => []StoredIsConversation
<1>1. ResponsesInv => StoredIsConversation
  BY DEF ResponsesInv, StoredInv, Kept, StoredIsConversation
<1>. QED  BY <1>1, ResponsesInitInv, ResponsesNextInv, PTL DEF ResponsesSpec

\* A client that answers each of its calls once is refused for three reasons only: the
\* response it names was not kept, it replays an answer with several calls, or two calls
\* that the gateway gave it bear one id.
THEOREM Served == ResponsesSpec => []PoliteIsServed
<1>1. ResponsesInv => PoliteIsServed
  BY DEF ResponsesInv, RefusedInv, PoliteIsServed
<1>. QED  BY <1>1, ResponsesInitInv, ResponsesNextInv, PTL DEF ResponsesSpec
=============================================================================
