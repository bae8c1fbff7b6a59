--------------------------- MODULE McpClientProofs ---------------------------
(***************************************************************************)
(* Two users of pipes.  McpClient, for any number of calls, of any length, *)
(* timeouts and unasked lines: the types, the discipline of Client.mu, and *)
(* the alignment of answers with requests until something disturbs it.     *)
(* ResponsesAdapter, for answers of any number of deltas and calls: the    *)
(* events a client receives.                                               *)
(***************************************************************************)
EXTENDS McpClient, ResponsesAdapter, FiniteSetTheorems, Recursions

LEMMA LineFacts == Notice \in Line /\ Notice.kind = "notice"
BY DEF Notice, Line

LEMMA NextTypeOK == TypeOK /\ [Next]_vars => TypeOK'
<1>. SUFFICES ASSUME TypeOK, [Next]_vars PROVE TypeOK'
  OBVIOUS
<1>. USE McpAssumptions DEF Positions
<1>1. ASSUME NEW c \in Calls, Begin(c) PROVE TypeOK'
  <2>1. CASE ~closed
    <3>1. nextID \in Nat \ {0} /\ nextID + 1 \in Nat \ {0} /\ Size[c] \in Nat
      BY DEF TypeOK
    <3>2. idOf' \in [Calls -> Nat] /\ nextID' \in Nat \ {0}
      BY <1>1, <2>1, <3>1 DEF Begin, TypeOK
    <3>. QED  BY <1>1, <2>1, <3>1, <3>2 DEF Begin, TypeOK
  <2>2. CASE closed
    <3>1. UNCHANGED <<holder, closed, nextID, idOf, left, reader, got, cache, inbox, out,
                      server, notices, strays>>
      BY <1>1, <2>2 DEF Begin
    <3>2. pc' = [pc EXCEPT ![c] = "error"]
      BY <1>1, <2>2 DEF Begin
    <3>. QED  BY <3>1, <3>2 DEF TypeOK
  <2>. QED  BY <2>1, <2>2 DEF TypeOK
<1>11. ASSUME NEW c \in Calls, Write(c) PROVE TypeOK'
  <2>1. CASE server = "running"
    <3>1. [of |-> c, last |-> left = 1] \in Unit
      BY DEF Unit
    <3>2. inbox' \in Seq(Unit)
      <4>1. inbox \in Seq(Unit) /\ inbox' = Append(inbox, [of |-> c, last |-> left = 1])
        BY <1>11, <2>1 DEF Write, TypeOK
      <4>. QED  BY <3>1, <4>1, AppendProperties
    <3>3. left' \in Nat
      BY <1>11, <2>1 DEF Write, TypeOK
    <3>. QED  BY <1>11, <2>1, <3>2, <3>3 DEF Write, TypeOK
  <2>2. CASE server = "dead"
    BY <1>11, <2>2 DEF Write, TypeOK
  <2>. QED  BY <2>1, <2>2 DEF TypeOK
<1>2. ASSUME NEW c \in Calls, Reading(c) PROVE TypeOK'
  <2>1. out # <<>> => Head(out) \in Line /\ Tail(out) \in Seq(Line)
    BY HeadTailProperties DEF TypeOK
  <2>2. CASE Read(c)
    <3>1. Head(out) \in Line /\ out' \in Seq(Line)
      BY <2>1, <2>2 DEF Read
    <3>2. reader' \in [Calls -> {"none", "reading", "delivered", "failed"}]
      BY <2>2 DEF Read, TypeOK
    <3>3. got' \in [Calls -> Line]
      BY <2>2, <3>1 DEF Read, TypeOK
    <3>4. UNCHANGED <<holder, closed, nextID, pc, idOf, left, cache, inbox, server,
                      notices, strays>>
      BY <2>2 DEF Read
    <3>5. closed' \in BOOLEAN
      BY <3>4, Zenon DEF TypeOK
    <3>. QED  BY <3>1, <3>2, <3>3, <3>4, <3>5 DEF TypeOK
  <2>3. CASE RacedRead(c)
    <3>1. out' \in Seq(Line)
      BY <2>1, <2>3 DEF RacedRead
    <3>2. /\ reader' \in [Calls -> {"none", "reading", "delivered", "failed"}]
          /\ got' \in [Calls -> Line]
      <4>1. {got[d] : d \in {e \in Calls : reader[e] = "delivered"}} \subseteq Line
        BY DEF TypeOK
      <4>. QED  BY <2>3, <4>1 DEF RacedRead, TypeOK
    <3>3. UNCHANGED <<holder, closed, nextID, pc, idOf, left, cache, inbox, server,
                      notices, strays>>
      BY <2>3 DEF RacedRead
    <3>4. closed' \in BOOLEAN
      BY <3>3, Zenon DEF TypeOK
    <3>. QED  BY <3>1, <3>2, <3>3, <3>4 DEF TypeOK
  <2>4. CASE ReadEOF(c)
    BY <2>4 DEF ReadEOF, TypeOK
  <2>. QED  BY <1>2, <2>2, <2>3, <2>4 DEF Reading
<1>3. ASSUME NEW c \in Calls, Returning(c) PROVE TypeOK'
  BY <1>3 DEF Returning, ReturnAnswer, ReturnError, TypeOK
<1>4. ASSUME NEW c \in Calls, Timeout(c) PROVE TypeOK'
  BY <1>4 DEF Timeout, TypeOK
<1>5. ASSUME Close PROVE TypeOK'
  BY <1>5 DEF Close, TypeOK
<1>6. ASSUME Serve PROVE TypeOK'
  <2>1. Head(inbox) \in Unit /\ inbox' \in Seq(Unit)
    BY <1>6, HeadTailProperties DEF Serve, TypeOK
  <2>2. idOf[Head(inbox).of] \in Nat
    BY <2>1 DEF Unit, TypeOK
  <2>3. \A kind \in {"result", "error", "garbled"} :
          [kind |-> kind, id |-> idOf[Head(inbox).of]] \in Line
    BY <2>2 DEF Line
  <2>4. out' \in Seq(Line)
    <3>1. CASE out' = out
      BY <3>1 DEF TypeOK
    <3>2. ASSUME NEW kind \in {"result", "error", "garbled"},
                 out' = Append(out, [kind |-> kind, id |-> idOf[Head(inbox).of]])
          PROVE  out' \in Seq(Line)
      <4>1. out \in Seq(Line) /\ [kind |-> kind, id |-> idOf[Head(inbox).of]] \in Line
        BY <2>3 DEF TypeOK
      <4>. QED  BY <3>2, <4>1, AppendProperties
    <3>. QED  BY <1>6, <3>1, <3>2, Zenon DEF Serve
  <2>. QED  BY <1>6, <2>1, <2>4 DEF Serve, TypeOK
<1>7. ASSUME Notify PROVE TypeOK'
  BY <1>7, LineFacts, AppendProperties DEF Notify, TypeOK
<1>12. ASSUME Stray PROVE TypeOK'
  <2>1. {[kind |-> "garbled", id |-> 0], [kind |-> "request", id |-> 1]} \subseteq Line
    BY DEF Line
  <2>2. out' \in Seq(Line)
    BY <1>12, <2>1, AppendProperties DEF Stray, TypeOK
  <2>. QED  BY <1>12, <2>2 DEF Stray, TypeOK
<1>8. ASSUME ServerDies PROVE TypeOK'
  BY <1>8 DEF ServerDies, TypeOK
<1>9. ASSUME UNCHANGED vars PROVE TypeOK'
  BY <1>9 DEF vars, TypeOK
<1>. QED  BY <1>1, <1>2, <1>3, <1>4, <1>5, <1>6, <1>7, <1>8, <1>9, <1>11, <1>12 DEF Next

\* The client's variables keep their types under every interleaving of calls,
\* readers and the server.
THEOREM TypeCorrect == Spec => []TypeOK
<1>1. Init => TypeOK
  <2>1. <<>> \in Seq(Line) /\ <<>> \in Seq(Unit)
    OBVIOUS
  <2>2. ASSUME Init
        PROVE  /\ pc \in [Calls -> Positions]
               /\ idOf \in [Calls -> Nat]
               /\ reader \in [Calls -> {"none", "reading", "delivered", "failed"}]
               /\ got \in [Calls -> Line]
    BY <2>2, LineFacts DEF Init, Positions
  <2>3. ASSUME Init PROVE closed \in BOOLEAN
    BY <2>3, Zenon DEF Init
  <2>4. ASSUME Init
        PROVE  /\ nextID \in Nat \ {0} /\ notices \in Nat /\ strays \in Nat /\ left \in Nat
               /\ inbox = <<>> /\ out = <<>> /\ server \in {"running", "dead"}
               /\ holder \in Calls \cup {None} /\ cache \in {"unset", "tools", "empty"}
    BY <2>4, SMT DEF Init
  <2>. QED  BY <2>1, <2>2, <2>3, <2>4 DEF TypeOK
<1>. QED  BY <1>1, NextTypeOK, PTL DEF Spec

-----------------------------------------------------------------------------
\* Client.mu: the holder is the one call that writes or waits, and a reader runs
\* for it once it waits, or was left behind by a request that gave up.  A dead server
\* has no input.
LockInv ==
  /\ HolderWaits
  /\ LeakedReadersGaveUp
  /\ \A c \in Calls : pc[c] \in {"idle", "writing"} => reader[c] = "none"
  /\ server = "dead" => inbox = <<>>

LEMMA NextLockInv == TypeOK /\ LockInv /\ [Next]_vars => LockInv'
<1>. SUFFICES ASSUME TypeOK, LockInv, [Next]_vars PROVE LockInv'
  OBVIOUS
<1>. USE McpAssumptions DEF LockInv, HolderWaits, LeakedReadersGaveUp, TypeOK
<1>1. ASSUME NEW c \in Calls, Begin(c) PROVE LockInv'
  <2>1. /\ reader' = reader /\ holder = None /\ pc[c] = "idle" /\ reader[c] = "none"
        /\ server' = server /\ inbox' = inbox
    BY <1>1 DEF Begin
  <2>2. CASE ~closed
    <3>1. holder' = c /\ \A d \in Calls : pc'[d] = IF d = c THEN "writing" ELSE pc[d]
      BY <1>1, <2>2 DEF Begin
    <3>. QED  BY <2>1, <3>1
  <2>3. CASE closed
    <3>1. holder' = holder /\ \A d \in Calls : pc'[d] = IF d = c THEN "error" ELSE pc[d]
      BY <1>1, <2>3 DEF Begin
    <3>. QED  BY <2>1, <3>1
  <2>. QED  BY <2>2, <2>3
<1>6. ASSUME NEW c \in Calls, Write(c) PROVE LockInv'
  <2>1. /\ pc[c] = "writing" /\ holder = c /\ reader[c] = "none"
        /\ server' = server /\ (server = "dead" => inbox' = inbox)
    BY <1>6 DEF Write
  <2>2. CASE left = 1 /\ c \notin Notifications /\ server = "running"
    <3>1. /\ holder' = holder
          /\ \A d \in Calls : /\ pc'[d] = IF d = c THEN "waiting" ELSE pc[d]
                             /\ reader'[d] = IF d = c THEN "reading" ELSE reader[d]
      BY <1>6, <2>2 DEF Write
    <3>. QED  BY <2>1, <3>1
  <2>3. CASE holder' = holder /\ reader' = reader /\ pc' = pc
    BY <2>1, <2>3
  <2>4. ASSUME holder' = None, reader' = reader, NEW p \in {"sent", "error"},
               pc' = [pc EXCEPT ![c] = p]
        PROVE  LockInv'
    BY <2>1, <2>4
  <2>. QED  BY <1>6, <2>2, <2>3, <2>4 DEF Write
<1>2. ASSUME NEW c \in Calls, Reading(c) PROVE LockInv'
  BY <1>2 DEF Reading, Read, RacedRead, ReadEOF
<1>3. ASSUME NEW c \in Calls, Returning(c) PROVE LockInv'
  BY <1>3 DEF Returning, ReturnAnswer, ReturnError
<1>4. ASSUME NEW c \in Calls, Timeout(c) PROVE LockInv'
  BY <1>4 DEF Timeout
<1>5. ASSUME Close \/ Serve \/ Notify \/ Stray \/ ServerDies \/ UNCHANGED vars PROVE LockInv'
  BY <1>5 DEF Close, Serve, Notify, Stray, ServerDies, vars
<1>. QED  BY <1>1, <1>2, <1>3, <1>4, <1>5, <1>6 DEF Next

\* The lock is held exactly while a call writes or waits, so one that gave up, failed or
\* was answered blocks neither the next call nor Close; and every reader left
\* behind belongs to a request that gave up.
THEOREM LockDiscipline == Spec => []LeavesOnlyReaders
<1>1. Init => LockInv
  BY McpAssumptions DEF Init, LockInv, HolderWaits, LeakedReadersGaveUp
<1>2. LockInv => LeavesOnlyReaders
  BY DEF LockInv, LeavesOnlyReaders
<1>. QED  BY <1>1, <1>2, NextLockInv, TypeCorrect, PTL DEF Spec

-----------------------------------------------------------------------------
(***************************************************************************)
(* Alignment.  While nothing has disturbed it, everything between the      *)
(* client and the server but notifications belongs to the holder of the    *)
(* lock: the beginning of its line while it writes; then the rest of it,   *)
(* its end last, and nothing in the server's output; then, while its       *)
(* reader still reads, at most the answer.                                 *)
(***************************************************************************)
Waits(c) == pc[c] = "waiting" /\ reader[c] = "reading"

Expected(id) == \E c \in Calls : Waits(c) /\ idOf[c] = id

Answers == {i \in DOMAIN out : out[i].kind # "notice"}
Units == {i \in DOMAIN inbox : inbox[i].of \notin Notifications}
LastUnits == {i \in Units : inbox[i].last}

OutAligned ==
  /\ \A i \in Answers : Expected(out[i].id)
  /\ \A i, j \in Answers : i = j
InboxAligned ==
  /\ \A i \in Units :
       /\ inbox[i].of = holder
       /\ \/ pc[holder] = "writing" /\ ~inbox[i].last
          \/ Waits(holder) /\ Answers = {} /\ LastUnits # {}
  /\ \A i \in Units, j \in LastUnits : i <= j
CallsAligned ==
  \A c \in Calls :
    /\ reader[c] = "delivered" => got[c].id = idOf[c]
    /\ pc[c] = "answered" => reader[c] = "delivered"
    /\ pc[c] # "timedout"

Aligned == OutAligned /\ InboxAligned /\ CallsAligned /\ cache # "empty"

AInv == Undisturbed => Aligned

\* What has been disturbed stays so.
LEMMA StaysDisturbed == TypeOK /\ [Next]_vars /\ Undisturbed' => Undisturbed
<1>. SUFFICES ASSUME TypeOK, [Next]_vars, Undisturbed' PROVE Undisturbed
  OBVIOUS
<1>1. ASSUME NEW c \in Calls, pc[c] = "timedout" PROVE pc'[c] = "timedout"
  BY <1>1 DEF Next, Begin, Write, Reading, Read, RacedRead, ReadEOF, Returning, ReturnAnswer,
              ReturnError, Timeout, Close, Serve, Notify, Stray, ServerDies, vars, TypeOK
<1>2. strays' = strays \/ strays' = strays + 1
  BY DEF Next, Begin, Write, Reading, Read, RacedRead, ReadEOF, Returning, ReturnAnswer,
         ReturnError, Timeout, Close, Serve, Notify, Stray, ServerDies, vars
<1>3. strays' = 0 => strays = 0
  BY <1>2 DEF TypeOK
<1>. QED  BY <1>1, <1>3 DEF Undisturbed

\* With the lock discipline and nobody timed out, only the holder reads.
LEMMA OneReader ==
  ASSUME LockInv, CallsAligned, NEW c \in Calls, NEW d \in Calls,
         reader[c] = "reading", reader[d] = "reading"
  PROVE  c = d /\ Waits(c) /\ holder = c
BY DEF LockInv, HolderWaits, LeakedReadersGaveUp, CallsAligned, Waits

\* Nothing is expected while the lock is free or its holder does not wait with its
\* reader still reading, so there is no answer in the server's output.
LEMMA UnexpectingIsQuiet ==
  ASSUME TypeOK, LockInv, Aligned, \A c \in Calls : holder = c => ~Waits(c)
  PROVE  Answers = {}
BY DEF LockInv, HolderWaits, Waits, Expected, Aligned, OutAligned

\* The server's input holds units of requests only while the holder writes or waits
\* with its reader still reading.
LEMMA NoUnits ==
  ASSUME TypeOK, LockInv, Aligned,
         \A c \in Calls : holder = c => pc[c] # "writing" /\ ~(Waits(c) /\ Answers = {})
  PROVE  Units = {}
<1>. SUFFICES ASSUME NEW i \in Units PROVE FALSE
  OBVIOUS
<1>1. inbox[i].of \in Calls
  <2>1. inbox \in Seq(Unit) /\ i \in DOMAIN inbox
    BY DEF Units, TypeOK
  <2>2. inbox[i] \in Unit
    BY <2>1
  <2>. QED  BY <2>2 DEF Unit
<1>2. inbox[i].of = holder
  BY DEF Aligned, InboxAligned
<1>. QED  BY <1>1, <1>2 DEF Aligned, InboxAligned

LEMMA NextAInv ==
  TypeOK /\ LockInv /\ AInv /\ [Next]_vars => AInv'
<1>. SUFFICES ASSUME TypeOK, TypeOK', LockInv, Undisturbed, Undisturbed', Aligned, [Next]_vars
              PROVE  Aligned'
  BY NextTypeOK, StaysDisturbed DEF AInv
<1>1. ASSUME NEW c \in Calls, Begin(c) PROVE Aligned'
  <2>1. holder = None /\ pc[c] = "idle" /\ reader[c] = "none"
    BY <1>1 DEF Begin, LockInv
  <2>2. Answers = {} /\ Units = {}
    BY <2>1, UnexpectingIsQuiet, NoUnits, McpAssumptions
  <2>3. /\ UNCHANGED <<out, inbox, cache, got, reader>>
        /\ \A d \in Calls \ {c} : pc'[d] = pc[d] /\ idOf'[d] = idOf[d]
        /\ pc'[c] \in {"writing", "error"}
    BY <1>1 DEF Begin, TypeOK
  <2>4. Answers' = {} /\ Units' = {}
    BY <2>2, <2>3 DEF Answers, Units
  <2>5. OutAligned' /\ InboxAligned'
    BY <2>4 DEF OutAligned, InboxAligned, LastUnits
  <2>6. CallsAligned'
    <3>1. ASSUME NEW d \in Calls, d # c
          PROVE  /\ reader'[d] = "delivered" => got'[d].id = idOf'[d]
                 /\ pc'[d] = "answered" => reader'[d] = "delivered"
                 /\ pc'[d] # "timedout"
      <4>1. pc'[d] = pc[d] /\ idOf'[d] = idOf[d] /\ reader'[d] = reader[d] /\ got'[d] = got[d]
        BY <2>3, <3>1
      <4>. QED  BY <4>1 DEF CallsAligned, Aligned
    <3>2. reader'[c] = "none" /\ pc'[c] # "answered" /\ pc'[c] # "timedout"
      BY <2>1, <2>3
    <3>. QED  BY <3>1, <3>2 DEF CallsAligned
  <2>. QED  BY <2>3, <2>5, <2>6 DEF Aligned
<1>2. ASSUME NEW c \in Calls, Write(c) PROVE Aligned'
  <2>1. pc[c] = "writing" /\ reader[c] = "none" /\ holder = c
    BY <1>2 DEF Write, LockInv, HolderWaits
  <2>2. Answers = {} /\ ~Waits(c)
    BY <2>1, UnexpectingIsQuiet DEF Waits
  <2>3. UNCHANGED <<out, cache, got, idOf>>
    BY <1>2 DEF Write
  <2>4. OutAligned' /\ Answers' = {}
    BY <2>2, <2>3 DEF OutAligned, Answers
  <2>5. \A i \in Units : inbox[i].of = c /\ ~inbox[i].last
    BY <2>1, <2>2 DEF Aligned, InboxAligned
  <2>6. CallsAligned'
    <3>1. \A d \in Calls : /\ d # c => pc'[d] = pc[d] /\ reader'[d] = reader[d]
                           /\ reader'[c] \in {"none", "reading"}
                           /\ pc'[c] \in {"writing", "waiting", "sent", "error"}
      BY <1>2, <2>1 DEF Write, TypeOK
    <3>. QED  BY <2>3, <3>1 DEF CallsAligned, Aligned
  <2>7. InboxAligned'
    <3>1. CASE server = "dead"
      <4>1. DOMAIN inbox' = {}
        BY <1>2, <3>1 DEF Write, LockInv
      <4>. QED  BY <4>1 DEF InboxAligned, Units, LastUnits
    <3>2. CASE server = "running"
      <4>. DEFINE n == Len(inbox) + 1
                  u == [of |-> c, last |-> left = 1]
      <4>1. /\ inbox' = Append(inbox, u) /\ n \in Nat /\ DOMAIN inbox' = 1..n
            /\ inbox'[n] = u /\ \A i \in DOMAIN inbox : i < n /\ i \in Nat /\ inbox'[i] = inbox[i]
            /\ DOMAIN inbox = 1..(n - 1)
        <5>1. inbox \in Seq(Unit) /\ inbox' = Append(inbox, u)
          BY <1>2, <3>2 DEF Write, TypeOK
        <5>. HIDE DEF u
        <5>. QED  BY <5>1
      <4>2. CASE c \in Notifications
        <5>1. Units = {}
          BY <2>5, <4>2 DEF Units
        <5>2. Units' = {}
          BY <4>1, <4>2, <5>1 DEF Units
        <5>. QED  BY <5>2 DEF InboxAligned, LastUnits
      <4>3. CASE c \notin Notifications
        <5>1. /\ \A i \in Units' : (i = n \/ (i \in Units /\ inbox'[i] = inbox[i])) /\ i <= n
              /\ n \in Units' /\ inbox'[n] = u
          BY <4>1, <4>3 DEF Units
        <5>2. \A i \in Units' : inbox'[i].of = c
          BY <2>5, <5>1
        <5>3. CASE left = 1
          <6>1. holder' = c /\ Waits(c)'
            BY <1>2, <2>1, <3>2, <4>3, <5>3 DEF Write, Waits, TypeOK
          <6>2. LastUnits' = {n}
            <7>1. \A i \in Units' : i # n => ~inbox'[i].last
              BY <2>5, <5>1
            <7>2. inbox'[n].last
              <8>1. u.last <=> left = 1
                OBVIOUS
              <8>. QED  BY <5>1, <5>3, <8>1, Zenon
            <7>. QED  BY <5>1, <7>1, <7>2 DEF LastUnits
          <6>. QED  BY <2>4, <5>1, <5>2, <6>1, <6>2 DEF InboxAligned
        <5>4. CASE left # 1
          <6>1. holder' = c /\ pc'[c] = "writing"
            BY <1>2, <2>1, <3>2, <5>4 DEF Write, TypeOK
          <6>2. \A i \in Units' : ~inbox'[i].last
            <7>1. ~u.last
              <8>1. u.last <=> left = 1
                OBVIOUS
              <8>. QED  BY <5>4, <8>1, Zenon
            <7>. HIDE DEF u
            <7>. QED  BY <2>5, <5>1, <7>1
          <6>. QED  BY <5>2, <6>1, <6>2 DEF InboxAligned, LastUnits
        <5>. QED  BY <5>3, <5>4
      <4>. QED  BY <4>2, <4>3
    <3>. QED  BY <3>1, <3>2 DEF TypeOK
  <2>. QED  BY <2>3, <2>4, <2>6, <2>7 DEF Aligned
<1>3. ASSUME NEW c \in Calls, Read(c) PROVE Aligned'
  <2>1. Waits(c) /\ holder = c /\ out # <<>>
    BY <1>3, OneReader DEF Read, Aligned
  <2>2. /\ out' = Tail(out) /\ cache' = cache /\ pc' = pc /\ idOf' = idOf
        /\ inbox' = inbox /\ holder' = holder
    BY <1>3 DEF Read
  <2>3. /\ Head(out) = out[1] /\ 1 \in DOMAIN out
        /\ \A i \in DOMAIN out' : i \in Nat \ {0} /\ i + 1 \in DOMAIN out /\ out'[i] = out[i + 1]
    BY <2>1, <2>2 DEF TypeOK
  <2>4. \A i \in Answers' : i \in Nat \ {0} /\ i + 1 \in Answers /\ out'[i] = out[i + 1]
    BY <2>3 DEF Answers
  <2>5. CASE Head(out).kind = "notice"
    <3>1. reader' = reader /\ got' = got
      BY <1>3, <2>5 DEF Read
    <3>2. OutAligned'
      <4>1. ASSUME NEW i \in Answers' PROVE Expected(out[i].id)'
        <5>1. Expected(out[i + 1].id)
          BY <2>4 DEF Aligned, OutAligned
        <5>. QED  BY <2>2, <2>4, <3>1, <5>1 DEF Expected, Waits
      <4>2. \A i, j \in Answers' : i = j
        <5>. TAKE i \in Answers', j \in Answers'
        <5>1. i + 1 = j + 1 /\ i \in Nat /\ j \in Nat
          BY <2>4 DEF Aligned, OutAligned
        <5>. QED  BY <5>1
      <4>. QED  BY <4>1, <4>2 DEF OutAligned
    <3>3. InboxAligned'
      <4>1. Units' = Units /\ LastUnits' = LastUnits /\ (Answers = {} => Answers' = {})
        BY <2>2, <2>4 DEF Units, LastUnits
      <4>. QED  BY <2>2, <3>1, <4>1 DEF Aligned, InboxAligned, Waits
    <3>4. CallsAligned'
      BY <2>2, <3>1 DEF Aligned, CallsAligned
    <3>. QED  BY <2>2, <3>2, <3>3, <3>4 DEF Aligned
  <2>6. CASE Head(out).kind # "notice"
    <3>1. 1 \in Answers
      BY <2>3, <2>6 DEF Answers
    <3>2. Answers' = {}
      <4>1. ASSUME NEW i \in Answers' PROVE FALSE
        <5>1. i + 1 \in Answers /\ i \in Nat \ {0}
          BY <2>4
        <5>2. i + 1 = 1
          BY <3>1, <5>1 DEF Aligned, OutAligned
        <5>. QED  BY <5>1, <5>2
      <4>. QED  BY <4>1
    <3>3. Units = {}
      BY <2>1, <3>1, NoUnits DEF Waits
    <3>4. OutAligned' /\ InboxAligned'
      BY <2>2, <3>2, <3>3 DEF OutAligned, InboxAligned, Units, LastUnits
    <3>5. Head(out).id = idOf[c]
      <4>1. Expected(out[1].id)
        BY <3>1 DEF Aligned, OutAligned
      <4>2. PICK d \in Calls : Waits(d) /\ idOf[d] = out[1].id
        BY <4>1 DEF Expected
      <4>3. d = c
        BY <2>1, <4>2, OneReader DEF Aligned, Waits
      <4>. QED  BY <2>3, <4>2, <4>3
    <3>6. CallsAligned'
      <4>1. /\ \A d \in Calls : d # c => reader'[d] = reader[d] /\ got'[d] = got[d]
            /\ reader'[c] = "delivered" => got'[c] = Head(out)
        BY <1>3, <2>6 DEF Read, TypeOK
      <4>. QED  BY <2>1, <2>2, <3>5, <4>1 DEF Aligned, CallsAligned, Waits
    <3>. QED  BY <2>2, <3>4, <3>6 DEF Aligned
  <2>. QED  BY <2>5, <2>6
<1>4. ASSUME NEW c \in Calls, RacedRead(c) PROVE Aligned'
  BY <1>4, OneReader DEF RacedRead, Aligned
<1>5. ASSUME NEW c \in Calls, ReadEOF(c) PROVE Aligned'
  <2>1. out = <<>> /\ inbox = <<>> /\ Waits(c)
    BY <1>5, OneReader DEF ReadEOF, LockInv, Aligned
  <2>2. /\ out' = out /\ inbox' = inbox /\ cache' = cache /\ got' = got
        /\ idOf' = idOf /\ pc' = pc /\ reader' = [reader EXCEPT ![c] = "failed"]
    BY <1>5 DEF ReadEOF
  <2>3. OutAligned' /\ InboxAligned'
    BY <2>1, <2>2 DEF OutAligned, InboxAligned, Answers, Units, LastUnits
  <2>4. CallsAligned'
    BY <2>1, <2>2 DEF Aligned, CallsAligned, TypeOK, Waits
  <2>. QED  BY <2>2, <2>3, <2>4 DEF Aligned
<1>6. ASSUME NEW c \in Calls, Returning(c) PROVE Aligned'
  <2>1. /\ out' = out /\ inbox' = inbox /\ got' = got
        /\ idOf' = idOf /\ reader' = reader /\ pc[c] = "waiting"
        /\ reader[c] \in {"delivered", "failed"}
        /\ \A d \in Calls \ {c} : pc'[d] = pc[d]
        /\ pc'[c] \in {"answered", "error"}
        /\ pc'[c] = "answered" => reader[c] = "delivered"
    BY <1>6 DEF Returning, ReturnAnswer, ReturnError, TypeOK
  <2>2. holder = c
    BY <2>1 DEF LockInv, HolderWaits
  <2>3. Answers = {} /\ Units = {}
    BY <2>1, <2>2, UnexpectingIsQuiet, NoUnits DEF Waits
  <2>4. OutAligned' /\ InboxAligned'
    BY <2>1, <2>3 DEF OutAligned, InboxAligned, Answers, Units, LastUnits
  <2>5. CallsAligned'
    BY <2>1 DEF Aligned, CallsAligned
  <2>6. cache' # "empty"
    <3>1. CASE ReturnAnswer(c)
      <4>1. got[c].id = idOf[c]
        BY <3>1 DEF ReturnAnswer, Aligned, CallsAligned
      <4>2. c \in Refreshes => IsRefresh(got[c].id)
        BY <4>1 DEF IsRefresh
      <4>. QED  BY <3>1, <4>2 DEF ReturnAnswer, Aligned
    <3>2. CASE ReturnError(c)
      BY <3>2 DEF ReturnError, Aligned
    <3>. QED  BY <1>6, <3>1, <3>2 DEF Returning
  <2>. QED  BY <2>4, <2>5, <2>6 DEF Aligned
<1>7. ASSUME NEW c \in Calls, Timeout(c) PROVE Aligned'
  BY <1>7 DEF Timeout, TypeOK, Undisturbed
<1>8. ASSUME Serve PROVE Aligned'
  <2>1. /\ inbox # <<>> /\ inbox' = Tail(inbox) /\ Head(inbox) = inbox[1]
        /\ UNCHANGED <<holder, pc, reader, idOf, got, cache>>
    BY <1>8 DEF Serve, TypeOK
  <2>2. /\ 1 \in DOMAIN inbox
        /\ \A i \in DOMAIN inbox' : i \in Nat /\ i + 1 \in DOMAIN inbox /\ inbox'[i] = inbox[i + 1]
        /\ \A i \in DOMAIN inbox : i \in Nat \ {0} /\ (i # 1 => i - 1 \in DOMAIN inbox')
    BY <2>1 DEF TypeOK
  <2>3. \A i \in Units' : i \in Nat \ {0} /\ i + 1 \in Units /\ inbox'[i] = inbox[i + 1]
    <3>1. \A i \in DOMAIN inbox' : i \in Nat \ {0}
      BY <2>1 DEF TypeOK
    <3>. QED  BY <2>2, <3>1 DEF Units
  <2>4. CallsAligned'
    BY <2>1 DEF Aligned, CallsAligned
  <2>5. CASE 1 \in LastUnits
    <3>1. Units' = {}
      <4>1. ASSUME NEW i \in Units' PROVE FALSE
        <5>1. i + 1 <= 1 /\ i \in Nat \ {0}
          BY <2>3, <2>5 DEF Aligned, InboxAligned
        <5>. QED  BY <5>1
      <4>. QED  BY <4>1
    <3>2. Head(inbox).of = holder /\ Waits(holder) /\ Answers = {} /\ holder \in Calls
      <4>1. 1 \in Units /\ inbox[1].last /\ inbox[1].of \in Calls
        <5>1. 1 \in Units /\ inbox[1].last
          BY <2>5 DEF LastUnits
        <5>2. inbox \in Seq(Unit)
          BY DEF TypeOK
        <5>3. inbox[1] \in Unit
          BY <2>2, <5>2
        <5>. QED  BY <5>1, <5>3 DEF Unit
      <4>. QED  BY <2>1, <4>1 DEF Aligned, InboxAligned
    <3>3. PICK kind \in {"result", "error", "garbled"} :
            out' = Append(out, [kind |-> kind, id |-> idOf[holder]])
      BY <1>8, <2>1, <2>5, <3>2 DEF Serve, LastUnits, Units
    <3>4. Answers' \subseteq {Len(out) + 1} /\ out'[Len(out) + 1].id = idOf[holder]
      BY <3>2, <3>3 DEF Answers, TypeOK
    <3>5. Expected(idOf[holder])'
      BY <2>1, <3>2 DEF Expected, Waits
    <3>6. OutAligned'
      <4>1. ASSUME NEW i \in Answers' PROVE i = Len(out) + 1 /\ Expected(out[i].id)'
        <5>1. i = Len(out) + 1 /\ out'[i].id = idOf'[holder']
          BY <2>1, <3>4
        <5>. QED  BY <3>5, <5>1 DEF Expected
      <4>. QED  BY <4>1 DEF OutAligned
    <3>7. InboxAligned'
      BY <3>1 DEF InboxAligned, LastUnits
    <3>. QED  BY <2>1, <2>4, <3>6, <3>7 DEF Aligned
  <2>6. CASE 1 \notin LastUnits
    <3>1. out' = out
      BY <1>8, <2>1, <2>2, <2>6 DEF Serve, LastUnits, Units
    <3>2. OutAligned' /\ Answers' = Answers
      BY <2>1, <3>1 DEF Aligned, OutAligned, Answers, Expected, Waits
    <3>3. \A i \in LastUnits : i - 1 \in LastUnits'
      <4>. TAKE i \in LastUnits
      <4>1. i \in DOMAIN inbox /\ i # 1 /\ i - 1 \in DOMAIN inbox'
        BY <2>2, <2>6 DEF LastUnits, Units
      <4>2. inbox'[i - 1] = inbox[i]
        <5>1. i - 1 + 1 = i
          BY <2>2, <4>1
        <5>. QED  BY <2>2, <4>1, <5>1
      <4>. QED  BY <4>1, <4>2 DEF LastUnits, Units
    <3>4. \A i \in LastUnits' : i + 1 \in LastUnits
      BY <2>3 DEF LastUnits
    <3>5. ASSUME NEW i \in Units'
          PROVE  /\ inbox'[i].of = holder
                 /\ \/ pc[holder] = "writing" /\ ~inbox'[i].last
                    \/ Waits(holder) /\ Answers = {} /\ LastUnits # {}
      BY <2>3 DEF Aligned, InboxAligned
    <3>6. ASSUME NEW i \in Units', NEW j \in LastUnits' PROVE i <= j
      <4>1. i + 1 <= j + 1 /\ i \in Nat /\ j \in Nat
        BY <2>3, <3>4 DEF Aligned, InboxAligned, LastUnits
      <4>. QED  BY <4>1
    <3>7. InboxAligned'
      BY <2>1, <3>2, <3>3, <3>5, <3>6 DEF InboxAligned, Waits
    <3>. QED  BY <2>1, <2>4, <3>2, <3>7 DEF Aligned
  <2>. QED  BY <2>5, <2>6
<1>9. ASSUME Notify PROVE Aligned'
  <2>1. UNCHANGED <<holder, pc, reader, idOf, got, cache, inbox>>
    BY <1>9 DEF Notify
  <2>2. out' = Append(out, Notice) /\ Notice.kind = "notice"
    BY <1>9, LineFacts DEF Notify
  <2>3. Answers' = Answers /\ \A i \in Answers : out'[i] = out[i]
    BY <2>2 DEF Answers, TypeOK
  <2>4. OutAligned'
    BY <2>1, <2>3 DEF Aligned, OutAligned, Expected, Waits
  <2>5. InboxAligned'
    BY <2>1, <2>3 DEF Aligned, InboxAligned, Units, LastUnits, Waits
  <2>. QED  BY <2>1, <2>4, <2>5 DEF Aligned, CallsAligned
<1>10. ASSUME Stray PROVE Aligned'
  BY <1>10 DEF Stray, Undisturbed, TypeOK
<1>11. ASSUME Close \/ ServerDies PROVE Aligned'
  <2>1. UNCHANGED <<pc, reader, idOf, got, cache, out>> /\ inbox' = <<>>
    BY <1>11 DEF Close, ServerDies
  <2>2. InboxAligned'
    BY <2>1 DEF InboxAligned, Units, LastUnits
  <2>. QED  BY <2>1, <2>2 DEF Aligned, OutAligned, CallsAligned, Answers, Expected, Waits
<1>12. ASSUME UNCHANGED vars PROVE Aligned'
  BY <1>12 DEF vars, Aligned, OutAligned, InboxAligned, CallsAligned, Answers, Units, LastUnits,
               Expected, Waits
<1>. QED  BY <1>1, <1>2, <1>3, <1>4, <1>5, <1>6, <1>7, <1>8, <1>9, <1>10, <1>11, <1>12
          DEF Next, Reading

\* Until a request gives up or the server sends a line that is nobody's answer, every
\* request gets the answer to its own id, the tool cache only ever holds what a refresh
\* asked for, although the client never compares an id, and a write that must wait
\* waits for the server to read its own line or notifications, however long the lines
\* are and however little the pipe holds.
THEOREM Alignment == Spec => []AlignedUntilDisturbed
<1>1. Init => AInv
  BY DEF Init, AInv, Aligned, OutAligned, InboxAligned, CallsAligned, Answers, Units, LastUnits
<1>2. TypeOK /\ LockInv /\ AInv => AlignedUntilDisturbed
  <2>1. ASSUME LockInv, Aligned, NEW c \in Calls, Blocked(c) PROVE OnlyItsOwn(c)
    <3>1. holder = c
      BY <2>1 DEF Blocked, LockInv, HolderWaits
    <3>. QED  BY <2>1, <3>1 DEF Aligned, InboxAligned, Units, OnlyItsOwn
  <2>. QED  BY <2>1 DEF AInv, Aligned, CallsAligned, AlignedUntilDisturbed, OwnAnswer
<1>3. Init => LockInv
  BY McpAssumptions DEF Init, LockInv, HolderWaits, LeakedReadersGaveUp
<1>. QED  BY <1>1, <1>2, <1>3, NextAInv, NextLockInv, TypeCorrect, PTL DEF Spec
-----------------------------------------------------------------------------
\* What a write leaves in the pipe: the line, long or not.
LEMMA WriteGives ==
  ASSUME AdapterTyped, NEW line \in Lines, WriteLine(line)
  PROVE  /\ pipe = <<>> /\ UNCHANGED outerVars /\ status' \in {0, 200, 400}
         /\ \E l \in Lines : pipe' = <<l>> /\ l.kind = line.kind /\ l.n = line.n
<1>1. PICK long \in BOOLEAN : pipe' = <<[line EXCEPT !.long = long]>>
  BY AdapterAssumptions DEF WriteLine
<1>2. [line EXCEPT !.long = long] \in Lines
  BY DEF Lines
<1>3. [line EXCEPT !.long = long].kind = line.kind /\ [line EXCEPT !.long = long].n = line.n
  BY DEF Lines
<1>. QED  BY <1>1, <1>2, <1>3 DEF WriteLine, AdapterTyped

\* The steps of the goroutine that write a line, and what it is.
Writes(line) ==
    /\ pipe = <<>> /\ UNCHANGED outerVars /\ line \in Lines /\ pipe' = <<line>>
    /\ status' \in {0, 200, 400}
    /\ \/ /\ line.kind = "text" /\ sent' = Append(sent, line.n) /\ UNCHANGED written
          /\ inner \in {"start", "streaming"} /\ inner' \in {"streaming", "calls", "ending"}
       \/ /\ line.kind = "other" /\ UNCHANGED <<sent, written>>
          /\ inner \in {"start", "streaming"} /\ inner' \in {"streaming", "ending"}
       \/ /\ line.kind \in CallTypes /\ line.n = written /\ UNCHANGED sent
          /\ inner = "calls" /\ inner' \in {"calls", "ending"} /\ written' = written + 1
    /\ chat' \in {"pending", "ok", "failed"}
    /\ numCalls' \in 0..MaxCalls /\ written' \in 0..numCalls'
    /\ inner' = "calls" => written' < numCalls'

\* The others, which find the pipe empty and leave it so.
Rests ==
    /\ pipe = <<>> /\ UNCHANGED <<sent, pipe, outerVars>> /\ status' = status
    /\ inner \in {"streaming", "ending"} /\ inner' \in {"calls", "closed"}
    /\ chat' \in {"pending", "ok", "failed"}
    /\ written' = written /\ numCalls' \in 0..MaxCalls /\ written' \in 0..numCalls'
    /\ inner' = "calls" => inner = "streaming" /\ written' < numCalls'

Carried ==
    /\ sent = text \o (IF pipe # <<>> /\ pipe[1].kind = "text" THEN <<pipe[1].n>> ELSE <<>>)
    /\ inner \in {"start", "streaming"} => written = 0
    /\ inner = "start" => sent = <<>> /\ pipe = <<>>
    /\ pipe # <<>> /\ pipe[1].kind \in CallTypes =>
         written = pipe[1].n + 1 /\ DOMAIN calls = 0..(pipe[1].n - 1)
    /\ ~(pipe # <<>> /\ pipe[1].kind \in CallTypes) => DOMAIN calls = 0..(written - 1)

LEMMA InnerSteps ==
  ASSUME AdapterTyped, Carried, Inner
  PROVE  (\E line \in Lines : Writes(line)) \/ Rests
<1>. USE AdapterAssumptions
<1>0. sent \in Seq(Nat) /\ Len(sent) \in Nat /\ Append(<<>>, 1) = <<1>>
      /\ numCalls \in 0..MaxCalls /\ written \in 0..numCalls /\ MaxCalls \in Nat
  BY DEF AdapterTyped
<1>1. CASE Reject
  <2>1. OtherLine \in Lines /\ OtherLine.kind = "other"
    BY DEF OtherLine, Lines
  <2>2. Writes(OtherLine)
    BY <1>0, <1>1, <2>1 DEF Reject, Writes, AdapterTyped
  <2>. QED  BY <2>1, <2>2
<1>2. CASE RouterCalls
  <2>1. TextLine(1) \in Lines /\ TextLine(1).kind = "text" /\ TextLine(1).n = 1
    BY DEF TextLine, Lines
  <2>2. PICK l \in Lines : pipe' = <<l>> /\ l.kind = "text" /\ l.n = 1
    BY <1>2, <2>1, WriteGives DEF RouterCalls
  <2>3. pipe = <<>> /\ UNCHANGED outerVars /\ status' \in {0, 200, 400}
    BY <1>2, <2>1, WriteGives DEF RouterCalls
  <2>4. inner = "start" /\ sent = <<>> /\ written = 0 /\ written' = 0 /\ sent' = <<1>>
        /\ inner' = "calls" /\ chat' = "ok" /\ numCalls' \in 1..MaxCalls
    BY <1>2 DEF RouterCalls, Carried
  <2>5. numCalls' \in 0..MaxCalls /\ 0 \in 0..numCalls' /\ 0 < numCalls'
    BY <1>0, <2>4
  <2>6. sent' = Append(sent, l.n)
    BY <1>0, <2>2, <2>4
  <2>. QED  BY <2>2, <2>3, <2>4, <2>5, <2>6 DEF Writes
<1>3. CASE StreamStart
  <2>1. OtherLine \in Lines /\ OtherLine.kind = "other"
    BY DEF OtherLine, Lines
  <2>2. PICK l \in Lines : pipe' = <<l>> /\ l.kind = "other"
    BY <1>3, <2>1, WriteGives DEF StreamStart
  <2>3. pipe = <<>> /\ UNCHANGED outerVars /\ status' \in {0, 200, 400}
    BY <1>3, <2>1, WriteGives DEF StreamStart
  <2>. QED  BY <1>0, <1>3, <2>2, <2>3 DEF StreamStart, Writes, AdapterTyped
<1>4. ASSUME NEW n \in {0, Len(sent) + 1}, WriteLine(TextLine(n)), sent' = Append(sent, n),
             inner = "streaming", inner' \in {"streaming", "ending"},
             chat' \in {chat, "ok"}, UNCHANGED <<numCalls, written>>
      PROVE  \E line \in Lines : Writes(line)
  <2>1. n \in Nat /\ TextLine(n) \in Lines /\ TextLine(n).kind = "text" /\ TextLine(n).n = n
    BY <1>0 DEF TextLine, Lines
  <2>2. PICK l \in Lines : pipe' = <<l>> /\ l.kind = "text" /\ l.n = n
    BY <1>4, <2>1, WriteGives
  <2>3. pipe = <<>> /\ UNCHANGED outerVars /\ status' \in {0, 200, 400}
    BY <1>4, <2>1, WriteGives
  <2>. QED  BY <1>0, <1>4, <2>2, <2>3 DEF Writes, AdapterTyped
<1>5. CASE StreamText
  BY <1>4, <1>5 DEF StreamText
<1>6. CASE StreamFails
  BY <1>0, <1>6 DEF StreamFails, Rests
<1>7. CASE StreamToCalls
  <2>1. written = 0 /\ written' = 0 /\ numCalls' \in 1..MaxCalls
    BY <1>7 DEF StreamToCalls, Carried
  <2>2. numCalls' \in 0..MaxCalls /\ 0 \in 0..numCalls' /\ 0 < numCalls'
    BY <1>0, <2>1
  <2>. QED  BY <1>7, <2>1, <2>2 DEF StreamToCalls, Rests
<1>8. CASE StreamEnd
  <2>1. CASE WriteLine(OtherLine) /\ UNCHANGED sent
    <3>1. OtherLine \in Lines /\ OtherLine.kind = "other"
      BY DEF OtherLine, Lines
    <3>2. PICK l \in Lines : pipe' = <<l>> /\ l.kind = "other"
      BY <2>1, <3>1, WriteGives
    <3>3. pipe = <<>> /\ UNCHANGED outerVars /\ status' \in {0, 200, 400}
      BY <2>1, <3>1, WriteGives
    <3>. QED  BY <1>0, <1>8, <2>1, <3>2, <3>3 DEF StreamEnd, Writes
  <2>. QED  BY <1>4, <1>8, <2>1 DEF StreamEnd
<1>9. CASE WriteCall
  <2>1. PICK t \in CallTypes : WriteLine(CallLine(written, t))
    BY <1>9 DEF WriteCall
  <2>2. CallLine(written, t) \in Lines /\ CallLine(written, t).kind = t
        /\ CallLine(written, t).n = written
    BY <1>0 DEF CallLine, Lines
  <2>3. PICK l \in Lines : pipe' = <<l>> /\ l.kind = t /\ l.n = written
    BY <2>1, <2>2, WriteGives
  <2>4. pipe = <<>> /\ UNCHANGED outerVars /\ status' \in {0, 200, 400}
    BY <2>1, <2>2, WriteGives
  <2>5. inner = "calls" /\ written < numCalls /\ written' = written + 1
    BY <1>9 DEF WriteCall, AdapterTyped
  <2>6. written' \in 0..numCalls
    BY <1>0, <2>5
  <2>7. inner' \in {"calls", "ending"} /\ (inner' = "calls" => written' # numCalls)
        /\ UNCHANGED <<chat, numCalls, sent>>
    BY <1>9 DEF WriteCall
  <2>8. inner' = "calls" => written' < numCalls'
    BY <1>0, <2>6, <2>7
  <2>. QED  BY <1>0, <2>3, <2>4, <2>5, <2>6, <2>7, <2>8 DEF Writes, AdapterTyped
<1>10. CASE InnerDone
  BY <1>0, <1>10 DEF InnerDone, Rests, AdapterTyped
<1>. QED  BY <1>1, <1>2, <1>3, <1>5, <1>6, <1>7, <1>8, <1>9, <1>10 DEF Inner

\* What is left of the events: the items added and closed so far, and the text sent.
ItemsOf(es, n, type) == {es[j].item : j \in {i \in 1..n : es[i].type = type}}
Inside  == {"textDelta", "argsDelta", "textDone", "argsDone", "itemDone"}
Final   == {"completed", "failed"}
Spoken(e)    == IF e.type = "textDelta" THEN e.data ELSE <<>>
SpokenIn(es) == FlattenSeq([i \in DOMAIN es |-> Spoken(es[i])])
Fits(es, i) ==
    /\ es[i].type = "added" => es[i].item \notin ItemsOf(es, i - 1, "added")
    /\ es[i].type \in Inside =>
         /\ es[i].item \in ItemsOf(es, i - 1, "added")
         /\ es[i].item \notin ItemsOf(es, i - 1, "itemDone")
Grows(es, added, shut, said) ==
    /\ es \in Seq(Events)
    /\ \A i \in 1..Len(es) : /\ es[i].type \notin Final /\ Spoken(es[i]) \in Seq(Nat)
                             /\ Fits(es, i)
                             /\ es[i].type = "textDone" => es[i].data = said
    /\ ItemsOf(es, Len(es), "added") = added /\ ItemsOf(es, Len(es), "itemDone") = shut
    /\ said \in Seq(Nat) /\ SpokenIn(es) = said

LEMMA ItemsNext ==
  ASSUME NEW es \in Seq(Events), NEW e \in Events, NEW type
  PROVE  /\ \A n \in 0..Len(es) : ItemsOf(Append(es, e), n, type) = ItemsOf(es, n, type)
         /\ ItemsOf(Append(es, e), Len(es) + 1, type) =
              ItemsOf(es, Len(es), type) \cup (IF e.type = type THEN {e.item} ELSE {})
<1>. DEFINE more == Append(es, e)
            N    == Len(es)
<1>1. /\ N \in Nat /\ \A i \in 1..N : more[i] = es[i]
      /\ more[N + 1] = e /\ \A n \in 0..N : 1..n \subseteq 1..N
  OBVIOUS
<1>2. 1..(N + 1) = (1..N) \cup {N + 1} /\ N + 1 \notin 1..N
  BY <1>1
<1>. HIDE DEF more, N
<1>3. ASSUME NEW n \in 0..N PROVE ItemsOf(more, n, type) = ItemsOf(es, n, type)
  BY <1>1 DEF ItemsOf
<1>4. ASSUME NEW x
      PROVE  x \in ItemsOf(more, N + 1, type) <=>
             x \in ItemsOf(es, N, type) \cup (IF e.type = type THEN {e.item} ELSE {})
  BY <1>1, <1>2 DEF ItemsOf
<1>. QED  BY <1>3, <1>4 DEF more, N

LEMMA SpokenNext ==
  ASSUME NEW es \in Seq(Events), NEW e \in Events, Spoken(e) \in Seq(Nat),
         \A i \in 1..Len(es) : Spoken(es[i]) \in Seq(Nat)
  PROVE  SpokenIn(Append(es, e)) = SpokenIn(es) \o Spoken(e) /\ SpokenIn(es) \in Seq(Nat)
<1>. DEFINE parts == [i \in 1..Len(es) |-> Spoken(es[i])]
            more  == Append(es, e)
            N     == Len(es)
<1>1. /\ N \in Nat /\ DOMAIN es = 1..N /\ DOMAIN more = 1..(N + 1)
      /\ \A i \in 1..N : more[i] = es[i]
      /\ more[N + 1] = e
  OBVIOUS
<1>2. parts \in Seq(Seq(Nat)) /\ Len(parts) = N
  <2>1. parts \in [1..N -> Seq(Nat)]
    OBVIOUS
  <2>. HIDE DEF parts, N
  <2>. QED  BY <1>1, <2>1, FunctionSeq
<1>3. [i \in 1..(N + 1) |-> Spoken(more[i])] = Append(parts, Spoken(e))
  <2>. DEFINE a == [i \in 1..(N + 1) |-> Spoken(more[i])]
              b == Append(parts, Spoken(e))
  <2>1. /\ b \in Seq(Seq(Nat)) /\ Len(b) = N + 1
        /\ \A i \in 1..N : b[i] = parts[i]
        /\ b[N + 1] = Spoken(e)
    <3>. HIDE DEF parts, N
    <3>. QED  BY <1>1, <1>2, AppendProperties
  <2>2. \A i \in 1..N : i \in 1..(N + 1) /\ parts[i] = Spoken(es[i])
    BY <1>1
  <2>3. N + 1 \in 1..(N + 1) /\ \A i \in 1..(N + 1) : i \in 1..N \/ i = N + 1
    BY <1>1
  <2>4. \A i \in 1..(N + 1) : a[i] = b[i]
    <3>1. \A i \in 1..(N + 1) : a[i] = Spoken(more[i])
      OBVIOUS
    <3>. HIDE DEF a, b, parts, more, N
    <3>. QED  BY <1>1, <2>1, <2>2, <2>3, <3>1
  <2>5. \A i \in 1..(N + 1) : a[i] \in Seq(Nat)
    <3>. HIDE DEF a, b, parts, more, N
    <3>. QED  BY <2>1, <2>4
  <2>6. a \in [1..(N + 1) -> Seq(Nat)]
    <3>1. a = [i \in 1..(N + 1) |-> a[i]]
      OBVIOUS
    <3>. HIDE DEF a, N
    <3>. QED  BY <2>5, <3>1
  <2>. HIDE DEF a, b, N
  <2>7. a \in Seq(Seq(Nat)) /\ Len(a) = N + 1
    BY <1>1, <2>6, FunctionSeq
  <2>8. a = b
    BY <2>1, <2>4, <2>7, SeqEqual
  <2>. QED  BY <2>8 DEF a, b
<1>4. SpokenIn(es) = FlattenSeq(parts) /\ SpokenIn(more) = FlattenSeq(Append(parts, Spoken(e)))
  <2>1. SpokenIn(es) = FlattenSeq(parts)
    BY <1>1 DEF SpokenIn
  <2>2. SpokenIn(more) = FlattenSeq([i \in 1..(N + 1) |-> Spoken(more[i])])
    <3>. HIDE DEF more, N
    <3>. QED  BY <1>1 DEF SpokenIn
  <2>. HIDE DEF more, N, parts
  <2>. QED  BY <1>3, <2>1, <2>2
<1>. HIDE DEF parts, N
<1>5. FlattenSeq(Append(parts, Spoken(e))) = FlattenSeq(parts) \o Spoken(e)
      /\ FlattenSeq(parts) \in Seq(Nat)
  BY <1>2, FlattenAppend
<1>. QED  BY <1>4, <1>5

\* An event more, that fits.
LEMMA Emit ==
  ASSUME NEW es, NEW added, NEW shut, NEW said, Grows(es, added, shut, said),
         NEW e \in Events, e.type \notin Final, Spoken(e) \in Seq(Nat),
         e.type = "added" => e.item \notin added,
         e.type \in Inside => e.item \in added /\ e.item \notin shut,
         e.type = "textDone" => e.data = said,
         e.type = "textDelta" => \A i \in 1..Len(es) : es[i].type # "textDone"
  PROVE  Grows(Append(es, e),
               added \cup (IF e.type = "added" THEN {e.item} ELSE {}),
               shut \cup (IF e.type = "itemDone" THEN {e.item} ELSE {}),
               said \o Spoken(e))
<1>. DEFINE more == Append(es, e)
            N    == Len(es)
<1>1. /\ es \in Seq(Events) /\ N \in Nat /\ more \in Seq(Events) /\ Len(more) = N + 1
      /\ \A i \in 1..N : more[i] = es[i]
      /\ more[N + 1] = e
  BY DEF Grows
<1>2. \A i \in 1..(N + 1) : i - 1 \in 0..N /\ (i \in 1..N \/ i = N + 1)
  BY <1>1
<1>3. \A type : \A n \in 0..N : ItemsOf(more, n, type) = ItemsOf(es, n, type)
  BY <1>1, ItemsNext
<1>4. \A type : ItemsOf(more, N + 1, type) =
                  ItemsOf(es, N, type) \cup (IF e.type = type THEN {e.item} ELSE {})
  BY <1>1, ItemsNext
<1>5. ASSUME NEW i \in 1..Len(more)
      PROVE  /\ more[i].type \notin Final /\ Spoken(more[i]) \in Seq(Nat)
             /\ Fits(more, i)
  <2>1. i \in 1..(N + 1) /\ i - 1 \in 0..N
    BY <1>1, <1>2
  <2>2. CASE i \in 1..N
    <3>1. more[i] = es[i]
      BY <1>1, <2>2
    <3>. HIDE DEF more, N
    <3>. QED  BY <1>3, <2>1, <2>2, <3>1 DEF Grows, Fits, N
  <2>3. CASE i = N + 1
    <3>1. more[i] = e /\ i - 1 = N /\ N \in 0..N
      BY <1>1, <2>3
    <3>2. ItemsOf(more, i - 1, "added") = added /\ ItemsOf(more, i - 1, "itemDone") = shut
      <4>. HIDE DEF more
      <4>. QED  BY <1>3, <3>1 DEF Grows
    <3>. HIDE DEF more, N
    <3>. QED  BY <3>1, <3>2 DEF Fits
  <2>. QED  BY <1>2, <2>1, <2>2, <2>3
<1>10. ASSUME NEW i \in 1..Len(more), more[i].type = "textDone"
       PROVE  more[i].data = said \o Spoken(e)
  <2>1. i \in 1..N \/ i = N + 1
    BY <1>1, <1>2
  <2>2. said \in Seq(Nat) /\ said \o <<>> = said
    BY DEF Grows
  <2>3. CASE i \in 1..N
    <3>1. more[i] = es[i]
      BY <1>1, <2>3
    <3>2. es[i].data = said /\ e.type # "textDelta"
      <4>. HIDE DEF more
      <4>. QED  BY <1>10, <2>3, <3>1 DEF Grows
    <3>. HIDE DEF more, N
    <3>. QED  BY <2>2, <3>1, <3>2 DEF Spoken
  <2>4. CASE i = N + 1
    <3>1. more[i] = e
      BY <1>1, <2>4
    <3>. HIDE DEF more, N
    <3>. QED  BY <1>10, <2>2, <3>1 DEF Spoken
  <2>. QED  BY <2>1, <2>3, <2>4
<1>6. SpokenIn(more) = said \o Spoken(e) /\ said \o Spoken(e) \in Seq(Nat)
  <2>1. \A i \in 1..Len(es) : Spoken(es[i]) \in Seq(Nat)
    BY DEF Grows
  <2>2. SpokenIn(more) = SpokenIn(es) \o Spoken(e)
    BY <1>1, <2>1, SpokenNext
  <2>3. said \in Seq(Nat) /\ SpokenIn(es) = said
    BY DEF Grows
  <2>4. said \o Spoken(e) \in Seq(Nat)
    BY <2>3
  <2>. QED  BY <2>2, <2>3, <2>4
<1>7. /\ ItemsOf(es, N, "added") = added /\ ItemsOf(es, N, "itemDone") = shut
  BY DEF Grows
<1>. HIDE DEF more, N
<1>8. /\ ItemsOf(more, Len(more), "added") =
           added \cup (IF e.type = "added" THEN {e.item} ELSE {})
      /\ ItemsOf(more, Len(more), "itemDone") =
           shut \cup (IF e.type = "itemDone" THEN {e.item} ELSE {})
  BY <1>1, <1>4, <1>7
<1>9. Grows(more, added \cup (IF e.type = "added" THEN {e.item} ELSE {}),
                  shut \cup (IF e.type = "itemDone" THEN {e.item} ELSE {}),
                  said \o Spoken(e))
  BY <1>1, <1>5, <1>6, <1>8, <1>10 DEF Grows
<1>. QED  BY <1>9 DEF more

LEMMA EmitAdded ==
  ASSUME NEW es, NEW added, NEW shut, NEW said, Grows(es, added, shut, said),
         NEW item \in Items, item \notin added
  PROVE  /\ Event("added", item, <<>>) \in Events
         /\ Grows(Append(es, Event("added", item, <<>>)), added \cup {item}, shut, said)
<1>. DEFINE e == Event("added", item, <<>>)
<1>1. /\ e \in Events /\ e.type = "added" /\ e.item = item
  BY DEF Event, Events
<1>2. e.type \notin Final /\ Spoken(e) = <<>> /\ e.type \notin Inside /\ <<>> \in Seq(Nat)
  BY <1>1 DEF Final, Spoken, Inside
<1>3. said \o <<>> = said
  BY DEF Grows
<1>. HIDE DEF e
<1>4. Grows(Append(es, e), added \cup {item}, shut \cup {}, said \o <<>>)
  BY <1>1, <1>2, Emit
<1>. QED  BY <1>1, <1>3, <1>4 DEF e

LEMMA EmitInside ==
  ASSUME NEW es, NEW added, NEW shut, NEW said, Grows(es, added, shut, said),
         NEW type \in {"argsDelta", "textDone", "argsDone"}, NEW data \in Seq(Nat),
         NEW item \in Items, item \in added, item \notin shut,
         type = "textDone" => data = said
  PROVE  /\ Event(type, item, data) \in Events
         /\ Grows(Append(es, Event(type, item, data)), added, shut, said)
<1>. DEFINE e == Event(type, item, data)
<1>1. /\ e \in Events /\ e.type = type /\ e.item = item /\ e.data = data
  BY DEF Event, Events
<1>2. /\ e.type \notin Final /\ Spoken(e) = <<>> /\ <<>> \in Seq(Nat)
      /\ e.type \notin {"added", "itemDone", "textDelta"}
  BY <1>1 DEF Final, Spoken
<1>3. said \o <<>> = said
  BY DEF Grows
<1>. HIDE DEF e
<1>4. Grows(Append(es, e), added \cup {}, shut \cup {}, said \o <<>>)
  BY <1>1, <1>2, Emit
<1>. QED  BY <1>1, <1>3, <1>4 DEF e

LEMMA EmitDone ==
  ASSUME NEW es, NEW added, NEW shut, NEW said, Grows(es, added, shut, said),
         NEW item \in Items, item \in added, item \notin shut
  PROVE  /\ Event("itemDone", item, <<>>) \in Events
         /\ Grows(Append(es, Event("itemDone", item, <<>>)), added, shut \cup {item}, said)
<1>. DEFINE e == Event("itemDone", item, <<>>)
<1>1. /\ e \in Events /\ e.type = "itemDone" /\ e.item = item
  BY DEF Event, Events
<1>2. /\ e.type \notin Final /\ Spoken(e) = <<>> /\ <<>> \in Seq(Nat)
      /\ e.type \notin {"added", "textDone", "textDelta"}
  BY <1>1 DEF Final, Spoken
<1>3. said \o <<>> = said
  BY DEF Grows
<1>. HIDE DEF e
<1>4. Grows(Append(es, e), added \cup {}, shut \cup {item}, said \o <<>>)
  BY <1>1, <1>2, Emit
<1>. QED  BY <1>1, <1>3, <1>4 DEF e

LEMMA EmitText ==
  ASSUME NEW es, NEW added, NEW shut, NEW said, Grows(es, added, shut, said),
         NEW n \in Nat, NEW item \in Items, item \in added, item \notin shut,
         \A i \in 1..Len(es) : es[i].type # "textDone"
  PROVE  /\ Event("textDelta", item, <<n>>) \in Events
         /\ Grows(Append(es, Event("textDelta", item, <<n>>)), added, shut, Append(said, n))
<1>. DEFINE e == Event("textDelta", item, <<n>>)
<1>1. /\ e \in Events /\ e.type = "textDelta" /\ e.item = item
  BY DEF Event, Events
<1>2. /\ e.type \notin Final /\ Spoken(e) = <<n>> /\ <<n>> \in Seq(Nat)
      /\ e.type \notin {"added", "textDone", "itemDone"}
  BY <1>1 DEF Final, Spoken, Event
<1>3. said \o <<n>> = Append(said, n)
  BY DEF Grows
<1>. HIDE DEF e
<1>4. Grows(Append(es, e), added \cup {}, shut \cup {}, said \o <<n>>)
  BY <1>1, <1>2, Emit
<1>. QED  BY <1>1, <1>3, <1>4 DEF e

LEMMA Appended ==
  ASSUME NEW S, NEW es \in Seq(S), NEW a \in S, NEW b \in S, NEW c \in S, NEW d \in S
  PROVE  /\ es \o <<>> = es
         /\ es \o <<a>> = Append(es, a)
         /\ es \o <<a, b>> = Append(Append(es, a), b)
         /\ es \o <<a, b, c>> = Append(Append(Append(es, a), b), c)
         /\ es \o (<<a>> \o <<b, c, d>>) = Append(Append(Append(Append(es, a), b), c), d)
<1>1. es \o <<>> = es
  OBVIOUS
<1>2. es \o <<a>> = Append(es, a)
  OBVIOUS
<1>3. es \o <<a, b>> = Append(Append(es, a), b)
  OBVIOUS
<1>4. es \o <<a, b, c>> = Append(Append(Append(es, a), b), c)
  OBVIOUS
<1>5. es \o (<<a>> \o <<b, c, d>>) = Append(Append(Append(Append(es, a), b), c), d)
  OBVIOUS
<1>. QED  BY <1>1, <1>2, <1>3, <1>4, <1>5

LEMMA ItemsAre ==
  ASSUME NEW i \in Nat
  PROVE  /\ {Message, Call(i), Renamed(i)} \subseteq Items
         /\ Call(i) # Message /\ Renamed(i) # Message
         /\ \A j \in Nat : /\ Call(i) # Renamed(j)
                           /\ Call(i) = Call(j) => i = j
                           /\ Renamed(i) = Renamed(j) => i = j
BY DEF Message, Call, Renamed, Items

\* The events that close a call: a custom one under its own id, a function call as an
\* item that is added with them.
LEMMA CloseCallGrows ==
  ASSUME AdapterTyped, NEW i \in DOMAIN calls,
         NEW es, NEW added, NEW shut, NEW said, Grows(es, added, shut, said),
         Call(i) \in added, Call(i) \notin shut,
         Renamed(i) \notin added, Renamed(i) \notin shut
  PROVE  /\ CloseCall(i) \in Seq(Events)
         /\ Grows(es \o CloseCall(i),
                  added \cup (IF calls[i] = "custom" THEN {} ELSE {Renamed(i)}),
                  shut \cup {Item(i)}, said)
<1>. DEFINE item == Item(i)
            a == Event("added", Renamed(i), <<>>)
            b == Event("argsDelta", item, <<i>>)
            c == Event("argsDone", item, <<i>>)
            d == Event("itemDone", item, <<>>)
            more == added \cup (IF calls[i] = "custom" THEN {} ELSE {Renamed(i)})
            begun == IF calls[i] = "custom" THEN es ELSE Append(es, a)
<1>1. i \in Nat /\ <<i>> \in Seq(Nat) /\ es \in Seq(Events)
  BY AdapterAssumptions DEF AdapterTyped, Grows
<1>2. item \in Items /\ item \in more /\ item \notin shut /\ Renamed(i) \in Items
  BY <1>1, ItemsAre DEF Item
<1>3. a \in Events /\ Grows(begun, more, shut, said)
  <2>1. a \in Events /\ Grows(Append(es, a), added \cup {Renamed(i)}, shut, said)
    BY <1>2, EmitAdded
  <2>2. CASE calls[i] = "custom"
    <3>1. begun = es /\ more = added
      BY <2>2
    <3>. HIDE DEF begun, more, a
    <3>. QED  BY <2>1, <3>1
  <2>3. CASE calls[i] # "custom"
    <3>1. begun = Append(es, a) /\ more = added \cup {Renamed(i)}
      BY <2>3
    <3>. HIDE DEF begun, more, a
    <3>. QED  BY <2>1, <3>1
  <2>. QED  BY <2>2, <2>3
<1>. HIDE DEF begun, more, item
<1>4. b \in Events /\ Grows(Append(begun, b), more, shut, said)
  BY <1>1, <1>2, <1>3, EmitInside
<1>5. c \in Events /\ Grows(Append(Append(begun, b), c), more, shut, said)
  <2>. HIDE DEF b
  <2>. QED  BY <1>1, <1>2, <1>4, EmitInside
<1>6. d \in Events /\ Grows(Append(Append(Append(begun, b), c), d), more, shut \cup {item}, said)
  <2>. HIDE DEF b, c
  <2>. QED  BY <1>1, <1>2, <1>5, EmitDone
<1>7. CloseCall(i) = (IF calls[i] = "custom" THEN <<>> ELSE <<a>>) \o <<b, c, d>>
  BY DEF CloseCall, item
<1>. HIDE DEF a, b, c, d
<1>8. CloseCall(i) \in Seq(Events)
  <2>1. <<>> \in Seq(Events) /\ <<a>> \in Seq(Events) /\ <<b, c, d>> \in Seq(Events)
    BY <1>3, <1>4, <1>5, <1>6
  <2>. QED  BY <1>7, <2>1
<1>9. es \o CloseCall(i) = Append(Append(Append(begun, b), c), d)
  <2>1. CASE calls[i] = "custom"
    <3>1. begun = es /\ CloseCall(i) = <<b, c, d>>
      BY <1>7, <2>1 DEF begun
    <3>2. es \o <<b, c, d>> = Append(Append(Append(es, b), c), d)
      BY <1>1, <1>4, <1>5, <1>6, Appended
    <3>. QED  BY <3>1, <3>2
  <2>2. CASE calls[i] # "custom"
    <3>1. begun = Append(es, a) /\ CloseCall(i) = <<a>> \o <<b, c, d>>
      BY <1>7, <2>2 DEF begun
    <3>2. es \o (<<a>> \o <<b, c, d>>) = Append(Append(Append(Append(es, a), b), c), d)
      BY <1>1, <1>3, <1>4, <1>5, <1>6, Appended
    <3>. QED  BY <3>1, <3>2
  <2>. QED  BY <2>1, <2>2
<1>. QED  BY <1>6, <1>8, <1>9 DEF more, item

Opened == (IF text = <<>> THEN {} ELSE {Message}) \cup {Call(i) : i \in DOMAIN calls}

\* All of them, one after the other.
LEMMA ClosingGrows ==
  ASSUME AdapterTyped, NEW n \in Nat \ {0}, DOMAIN calls = 0..(n - 1),
         Grows(events, Opened, {}, text)
  PROVE  /\ Closing \in Seq(Events)
         /\ \E added : Grows(events \o Closing, added, {Item(i) : i \in 0..(n - 1)}, text)
<1>. DEFINE parts == [k \in 1..n |-> CloseCall(k - 1)]
            Again(k) == {Renamed(i) : i \in {j \in 0..(k - 1) : calls[j] # "custom"}}
            Ended(k) == {Item(i) : i \in 0..(k - 1)}
<1>0. events \in Seq(Events) /\ \A k \in 1..n : k - 1 \in DOMAIN calls
  BY DEF AdapterTyped
<1>1. ASSUME NEW k \in 1..n PROVE CloseCall(k - 1) \in Seq(Events)
  <2>. DEFINE i == k - 1
  <2>1. i \in DOMAIN calls
    BY <1>0
  <2>2. i \in Nat
    OBVIOUS
  <2>3. Call(i) \in Opened /\ Renamed(i) \notin Opened
    <3>1. \A j \in DOMAIN calls : j \in Nat
      OBVIOUS
    <3>. HIDE DEF i
    <3>. QED  BY <2>1, <2>2, <3>1, ItemsAre DEF Opened
  <2>. HIDE DEF i
  <2>4. CloseCall(i) \in Seq(Events)
    BY <2>1, <2>3, CloseCallGrows
  <2>. QED  BY <2>4 DEF i
<1>2. /\ parts \in Seq(Seq(Events)) /\ Len(parts) = n
      /\ \A k \in 1..n : parts[k] = CloseCall(k - 1)
  <2>1. parts \in [1..n -> Seq(Events)]
    BY <1>1
  <2>2. \A k \in 1..n : parts[k] = CloseCall(k - 1)
    OBVIOUS
  <2>. HIDE DEF parts
  <2>. QED  BY <2>1, <2>2, FunctionSeq
<1>3. Closing = FlattenSeq(parts)
  <2>1. PICK m \in Int : m = n - 1 /\ 0 \in Int /\ ~(0 > m) /\ m - 0 + 1 = n
    OBVIOUS
  <2>2. Cardinality(0..m) = n
    BY <2>1, FS_Interval
  <2>3. DOMAIN calls = 0..m /\ 0 \in 0..m
    BY <2>1
  <2>4. Cardinality(DOMAIN calls) = n /\ DOMAIN calls # {}
    BY <2>2, <2>3, Zenon
  <2>. QED  BY <2>4 DEF Closing
<1>. HIDE DEF parts
<1>4. PICK f : Joins(Events, parts, f)
  BY <1>2, JoinsExist
<1>5. Closing = f[n]
  BY <1>2, <1>3, <1>4, JoinsFlatten
<1>. DEFINE S == {k \in 0..n : Grows(events \o f[k], Opened \cup Again(k), Ended(k), text)}
<1>6. 0 \in S
  <2>1. f[0] = <<>> /\ events \o <<>> = events
    BY <1>0, <1>4 DEF Joins
  <2>2. Again(0) = {} /\ Ended(0) = {}
    OBVIOUS
  <2>3. Opened \cup {} = Opened /\ 0 \in 0..n
    OBVIOUS
  <2>4. events \o f[0] = events /\ Opened \cup Again(0) = Opened
    BY <2>1, <2>2
  <2>. HIDE DEF Again, Ended
  <2>. QED  BY <2>2, <2>3, <2>4
<1>7. ASSUME NEW k \in 1..n, k - 1 \in S PROVE k \in S
  <2>1. PICK i \in DOMAIN calls : i = k - 1 /\ i \in Nat
    BY <1>0
  <2>2. /\ k \in 0..n /\ i \in 0..n /\ 0..(k - 1) = (0..(i - 1)) \cup {i} /\ i \notin 0..(i - 1)
        /\ 0..(i - 1) \subseteq Nat
    BY <2>1
  <2>3. Grows(events \o f[i], Opened \cup Again(i), Ended(i), text)
    BY <1>7, <2>1
  <2>4. Call(i) \in Opened \cup Again(i) /\ Renamed(i) \notin Opened \cup Again(i)
    <3>1. \A j \in DOMAIN calls : j \in Nat
      OBVIOUS
    <3>. QED  BY <2>1, <2>2, <3>1, ItemsAre DEF Opened
  <2>5. Call(i) \notin Ended(i) /\ Renamed(i) \notin Ended(i)
    BY <2>1, <2>2, ItemsAre DEF Item
  <2>6. Again(k) = Again(i) \cup (IF calls[i] = "custom" THEN {} ELSE {Renamed(i)})
    BY <2>2
  <2>7. Ended(k) = Ended(i) \cup {Item(i)}
    BY <2>2
  <2>. HIDE DEF Again, Ended
  <2>8. Grows((events \o f[i]) \o CloseCall(i),
              (Opened \cup Again(i)) \cup (IF calls[i] = "custom" THEN {} ELSE {Renamed(i)}),
              Ended(i) \cup {Item(i)}, text)
    BY <2>1, <2>3, <2>4, <2>5, CloseCallGrows
  <2>9. (Opened \cup Again(i)) \cup (IF calls[i] = "custom" THEN {} ELSE {Renamed(i)})
          = Opened \cup Again(k)
    BY <2>6
  <2>10. (events \o f[i]) \o CloseCall(i) = events \o f[k]
    <3>1. f[k] = f[k - 1] \o parts[k] /\ parts[k] = CloseCall(k - 1)
      BY <1>2, <1>4 DEF Joins
    <3>2. f[i] \in Seq(Events) /\ CloseCall(i) \in Seq(Events)
      BY <1>1, <1>2, <1>4, <2>1, <2>2 DEF Joins
    <3>3. f[k] = f[i] \o CloseCall(i)
      BY <2>1, <3>1
    <3>4. (events \o f[i]) \o CloseCall(i) = events \o (f[i] \o CloseCall(i))
      <4>1. PICK s \in Seq(Events), t \in Seq(Events), u \in Seq(Events) :
              s = events /\ t = f[i] /\ u = CloseCall(i)
        BY <1>0, <3>2
      <4>2. (s \o t) \o u = s \o (t \o u)
        BY JoinedThree
      <4>. QED  BY <4>1, <4>2
    <3>. QED  BY <3>3, <3>4
  <2>11. Grows(events \o f[k], Opened \cup Again(k), Ended(k), text)
    BY <2>7, <2>8, <2>9, <2>10
  <2>. QED  BY <2>2, <2>11
<1>8. n \in S
  <2>1. n \in 0..n /\ n \in Nat
    OBVIOUS
  <2>. HIDE DEF S
  <2>. QED  BY <1>6, <1>7, <2>1, Counting
<1>9. f[n] \in Seq(Events)
  <2>1. n \in 0..Len(parts)
    BY <1>2
  <2>. QED  BY <1>4, <2>1 DEF Joins
<1>. HIDE DEF Again
<1>. QED  BY <1>5, <1>8, <1>9

LEMMA GrowsGrammar ==
  ASSUME NEW added, NEW shut, NEW said, Grows(events, added, shut, said), outer # "done"
  PROVE  StreamGrammar
<1>1. DOMAIN events = 1..Len(events) /\ Len(events) \in Nat
  BY DEF Grows
<1>2. ASSUME NEW i \in DOMAIN events
      PROVE  events[i].type \notin Final /\ Fits(events, i)
  BY <1>1 DEF Grows
<1>3. ASSUME NEW i, NEW type
      PROVE  Before(i, type) <=> events[i].item \in ItemsOf(events, i - 1, type)
  BY DEF Before, ItemsOf
<1>4. Terminals = {} /\ Occurs("completed") = {}
  BY <1>2 DEF Terminals, Occurs, Final
<1>5. \A i \in Occurs("added") : ~Before(i, "added")
  BY <1>2, <1>3 DEF Occurs, Fits
<1>6. \A i \in DOMAIN events :
        events[i].type \in Inside => Before(i, "added") /\ ~Before(i, "itemDone")
  BY <1>2, <1>3 DEF Fits
<1>. QED  BY <1>4, <1>5, <1>6 DEF StreamGrammar, Inside

\* The terminal event.
LEMMA Ends ==
  ASSUME NEW es, NEW added, NEW shut, NEW said, Grows(es, added, shut, said),
         NEW e \in Events, e.type \in Final, events' = Append(es, e), outer' = "done",
         e.type = "completed" => \A k \in DOMAIN e.data : e.data[k] \in shut,
         sent' = said
  PROVE  StreamGrammar' /\ NothingLost' /\ (IsCompleted' <=> e.type = "completed")
<1>. DEFINE ev == events'
            N  == Len(es)
<1>1. /\ N \in Nat /\ ev \in Seq(Events) /\ Len(ev) = N + 1 /\ DOMAIN ev = 1..(N + 1)
      /\ \A i \in 1..N : ev[i] = es[i]
      /\ ev[N + 1] = e /\ es \in Seq(Events) /\ \A i \in 1..(N + 1) : i \in 1..N \/ i = N + 1
  BY DEF Grows
<1>2. \A type : \A n \in 0..N : ItemsOf(ev, n, type) = ItemsOf(es, n, type)
  BY <1>1, ItemsNext
<1>3. ASSUME NEW i \in 1..N
      PROVE  ev[i].type \notin Final /\ Fits(ev, i)
  <2>1. i - 1 \in 0..N /\ ev[i] = es[i]
    BY <1>1
  <2>. HIDE DEF ev
  <2>. QED  BY <1>2, <2>1 DEF Grows, Fits
<1>4. Terminals' = {N + 1}
  <2>1. \A i \in 1..(N + 1) : ev[i].type \in Final <=> i = N + 1
    <3>1. N + 1 \notin 1..N
      BY <1>1
    <3>. HIDE DEF ev, N
    <3>. QED  BY <1>1, <1>3, <3>1
  <2>2. Terminals' = {i \in 1..(N + 1) : ev[i].type \in Final}
    <3>. HIDE DEF N
    <3>. QED  BY <1>1 DEF Terminals, Occurs, Final
  <2>3. N + 1 \in 1..(N + 1)
    BY <1>1
  <2>. HIDE DEF ev, N
  <2>. QED  BY <2>1, <2>2, <2>3
<1>5. ASSUME NEW i, NEW type
      PROVE  Before(i, type)' <=> ev[i].item \in ItemsOf(ev, i - 1, type)
  BY DEF Before, ItemsOf
<1>6. \A i \in 1..(N + 1) : i \in 1..N \/ ev[i].type \in Final
  <2>. HIDE DEF ev, N
  <2>. QED  BY <1>1
<1>7. \A i \in Occurs("added")' : ~Before(i, "added")'
  <2>1. ASSUME NEW i \in Occurs("added")' PROVE i \in 1..(N + 1) /\ ev[i].type = "added"
    <3>. HIDE DEF N
    <3>. QED  BY <1>1 DEF Occurs
  <2>. HIDE DEF ev, N
  <2>. QED  BY <1>3, <1>5, <1>6, <2>1 DEF Fits, Final
<1>8. \A i \in 1..(N + 1) : ev[i].type \in Inside =>
        Before(i, "added")' /\ ~Before(i, "itemDone")'
  <2>. HIDE DEF ev, N
  <2>. QED  BY <1>3, <1>5, <1>6 DEF Fits, Inside, Final
<1>9. ASSUME NEW i \in Occurs("completed")', NEW k \in DOMAIN ev[i].data
      PROVE  \E j \in Occurs("itemDone")' : ev[j].item = ev[i].data[k]
  <2>1. i \in 1..(N + 1) /\ ev[i].type = "completed"
    <3>. HIDE DEF N
    <3>. QED  BY <1>1 DEF Occurs
  <2>2. i = N + 1 /\ ev[i] = e
    <3>. HIDE DEF ev, N
    <3>. QED  BY <1>1, <1>3, <2>1 DEF Final
  <2>3. e.type = "completed" /\ e.data[k] \in shut
    <3>. HIDE DEF ev, N
    <3>. QED  BY <1>9, <2>1, <2>2
  <2>4. shut = ItemsOf(ev, N, "itemDone")
    <3>1. N \in 0..N
      BY <1>1
    <3>. HIDE DEF ev
    <3>. QED  BY <1>2, <3>1 DEF Grows
  <2>5. PICK j \in 1..N : ev[j].type = "itemDone" /\ ev[j].item = e.data[k]
    <3>. HIDE DEF ev, N
    <3>. QED  BY <2>3, <2>4 DEF ItemsOf
  <2>6. j \in Occurs("itemDone")'
    <3>1. j \in 1..(N + 1)
      BY <1>1
    <3>. HIDE DEF N
    <3>. QED  BY <1>1, <2>5, <3>1 DEF Occurs
  <2>. HIDE DEF ev, N
  <2>. QED  BY <2>2, <2>5, <2>6
<1>10. StreamGrammar'
  <2>1. Len(events') = N + 1 /\ DOMAIN events' = 1..(N + 1)
    BY <1>1
  <2>. HIDE DEF N
  <2>. QED  BY <1>4, <1>7, <1>8, <1>9, <2>1 DEF StreamGrammar, Inside
<1>11. Streamed("textDelta")' = said
  <2>1. /\ Spoken(e) = <<>> /\ <<>> \in Seq(Nat) /\ \A i \in 1..N : Spoken(es[i]) \in Seq(Nat)
        /\ SpokenIn(es) = said /\ said \in Seq(Nat)
    BY DEF Grows, Spoken, Final
  <2>2. SpokenIn(ev) = said \o <<>>
    <3>1. SpokenIn(Append(es, e)) = SpokenIn(es) \o Spoken(e)
      BY <1>1, <2>1, SpokenNext
    <3>. QED  BY <2>1, <3>1
  <2>3. Streamed("textDelta")' = SpokenIn(ev)
    BY DEF Streamed, SpokenIn, Spoken
  <2>. QED  BY <2>1, <2>2, <2>3
<1>12. ASSUME NEW i \in Occurs("textDone")' PROVE ev[i].data = said
  <2>1. i \in 1..(N + 1) /\ ev[i].type = "textDone"
    <3>. HIDE DEF N
    <3>. QED  BY <1>1 DEF Occurs
  <2>2. i \in 1..N /\ ev[i] = es[i]
    <3>. HIDE DEF ev, N
    <3>. QED  BY <1>1, <1>6, <2>1 DEF Final
  <2>. HIDE DEF ev
  <2>. QED  BY <2>1, <2>2 DEF Grows
<1>13. NothingLost'
  BY <1>11, <1>12 DEF NothingLost
<1>15. ASSUME e.type = "completed" PROVE IsCompleted'
  <2>. HIDE DEF ev, N
  <2>. QED  BY <1>1, <1>15 DEF IsCompleted, Occurs
<1>14. ASSUME IsCompleted' PROVE e.type = "completed"
  <2>1. PICK i \in Occurs("completed")' : TRUE
    BY <1>14 DEF IsCompleted
  <2>2. i \in 1..(N + 1) /\ ev[i].type = "completed"
    <3>. HIDE DEF N
    <3>. QED  BY <1>1, <2>1 DEF Occurs
  <2>. HIDE DEF ev, N
  <2>. QED  BY <1>1, <1>3, <2>2 DEF Final
<1>. QED  BY <1>10, <1>13, <1>14, <1>15

\* While the handler scans and waits: what it has sent opens what it has taken.
Scanned ==
    outer # "done" =>
      /\ Grows(events, Opened, {}, text)
      /\ \A i \in 1..Len(events) : events[i].type # "textDone"
Halted ==
    /\ scanErr => outer = "waiting" /\ pipe # <<>>
    /\ outer # "scanning" /\ ~scanErr => inner = "closed"
    /\ inner = "closed" => pipe = <<>>
\* What the handler judges by.
Judged == IsCompleted <=> status < 400 /\ (DOMAIN calls # {} \/ ~Blank(text))
Ended == outer = "done" => StreamGrammar /\ NothingLost /\ Judged
AdapterInv == AdapterTyped /\ Carried /\ Halted /\ Scanned /\ Ended

LEMMA InnerInv == ASSUME AdapterInv, Inner PROVE AdapterInv'
<1>. USE AdapterAssumptions DEF AdapterInv
<1>0. pipe = <<>> /\ ~scanErr /\ inner # "closed" /\ outer = "scanning" /\ UNCHANGED outerVars
      /\ DOMAIN calls = 0..(written - 1) /\ sent = text \o <<>> /\ text \o <<>> = text
      /\ text \in Seq(Nat)
  <2>1. pipe = <<>> /\ inner # "closed" /\ UNCHANGED outerVars
    BY InnerSteps DEF Writes, Rests
  <2>2. ~scanErr /\ outer = "scanning"
    BY <2>1 DEF Halted, AdapterTyped
  <2>3. DOMAIN calls = 0..(written - 1) /\ sent = text \o <<>>
    BY <2>1 DEF Carried
  <2>4. text \in Seq(Nat) /\ text \o <<>> = text
    BY DEF AdapterTyped
  <2>. QED  BY <2>1, <2>2, <2>3, <2>4
<1>1. Scanned' /\ Ended'
  <2>1. UNCHANGED <<outer, events, text, calls>>
    BY <1>0 DEF outerVars
  <2>. QED  BY <1>0, <2>1 DEF Scanned, Ended, Grows, Opened
<1>2. ASSUME NEW line \in Lines, Writes(line) PROVE AdapterTyped' /\ Carried' /\ Halted'
  <2>1. pipe' = <<line>> /\ pipe' # <<>> /\ pipe'[1] = line
    BY <1>2 DEF Writes
  <2>2. UNCHANGED <<outer, scanErr, text, calls, events>>
    BY <1>2 DEF Writes, outerVars
  <2>3. line.n \in Nat /\ line.kind \in {"text", "other"} \cup CallTypes
        /\ "text" \notin CallTypes /\ "other" \notin CallTypes
    BY DEF Lines
  <2>4. Halted' /\ inner' \in {"streaming", "calls", "ending"}
    BY <1>0, <1>2, <2>1, <2>2 DEF Halted, Writes
  <2>5. sent \in Seq(Nat) /\ sent' \in Seq(Nat)
    <3>1. sent \in Seq(Nat)
      BY DEF AdapterTyped
    <3>2. sent' = sent \/ sent' = Append(sent, line.n)
      BY <1>2 DEF Writes
    <3>. QED  BY <2>3, <3>1, <3>2
  <2>6. AdapterTyped'
    <3>1. /\ chat' \in {"pending", "ok", "failed"} /\ status' \in {0, 200, 400}
          /\ numCalls' \in 0..MaxCalls /\ written' \in 0..numCalls'
          /\ (inner' = "calls" => written' < numCalls')
      BY <1>2 DEF Writes
    <3>2. pipe' \in {<<>>} \cup {<<l>> : l \in Lines}
      BY <2>1
    <3>3. scanErr' \in BOOLEAN
      BY <2>2, Zenon DEF AdapterTyped
    <3>. QED  BY <2>2, <2>4, <2>5, <3>1, <3>2, <3>3 DEF AdapterTyped
  <2>7. CASE line.kind = "text"
    <3>1. sent' = Append(sent, line.n) /\ written' = written /\ inner \in {"start", "streaming"}
      BY <1>2, <2>3, <2>7 DEF Writes
    <3>2. sent' = text' \o <<line.n>> /\ written = 0
      BY <1>0, <2>2, <2>3, <3>1 DEF Carried
    <3>. QED  BY <1>0, <2>1, <2>2, <2>3, <2>4, <2>6, <2>7, <3>1, <3>2 DEF Carried
  <2>8. CASE line.kind = "other"
    <3>1. sent' = sent /\ written' = written /\ inner \in {"start", "streaming"}
      BY <1>2, <2>3, <2>8 DEF Writes
    <3>. QED  BY <1>0, <2>1, <2>2, <2>3, <2>4, <2>6, <2>8, <3>1 DEF Carried
  <2>9. CASE line.kind \in CallTypes
    <3>1. sent' = sent /\ line.n = written /\ inner' \in {"calls", "ending"}
          /\ written' = written + 1
      BY <1>2, <2>3, <2>9 DEF Writes
    <3>. QED  BY <1>0, <2>1, <2>2, <2>3, <2>4, <2>6, <2>9, <3>1 DEF Carried
  <2>. QED  BY <2>3, <2>7, <2>8, <2>9
<1>3. ASSUME Rests PROVE AdapterTyped' /\ Carried' /\ Halted'
  <2>1. UNCHANGED <<outer, scanErr, text, calls, events, sent, pipe, written>>
    BY <1>3 DEF Rests, outerVars
  <2>2. Halted' /\ inner' \in {"calls", "closed"}
    BY <1>0, <1>3, <2>1 DEF Halted, Rests
  <2>3. AdapterTyped'
    <3>1. /\ chat' \in {"pending", "ok", "failed"} /\ status' = status
          /\ numCalls' \in 0..MaxCalls /\ written' \in 0..numCalls'
          /\ (inner' = "calls" => written' < numCalls')
      BY <1>3 DEF Rests
    <3>2. scanErr' \in BOOLEAN
      BY <2>1, Zenon DEF AdapterTyped
    <3>. QED  BY <2>1, <2>2, <3>1, <3>2 DEF AdapterTyped
  <2>4. Carried'
    BY <1>0, <2>1, <2>2 DEF Carried
  <2>. QED  BY <2>2, <2>3, <2>4
<1>4. AdapterTyped' /\ Carried' /\ Halted'
  BY <1>2, <1>3, InnerSteps
<1>. QED  BY <1>1, <1>4

\* A line that the handler reads.
LEMMA TextTaken ==
  ASSUME AdapterInv, outer = "scanning", NEW line \in Lines, TakeText(line), outer' = outer
  PROVE  Scanned' /\ events' \in Seq(Events) /\ text' \in Seq(Nat)
<1>. DEFINE a == Event("added", Message, <<>>)
            b == Event("textDelta", Message, <<line.n>>)
            begun == IF text = <<>> THEN Append(events, a) ELSE events
            all   == Opened \cup {Message}
<1>1. /\ Grows(events, Opened, {}, text) /\ events \in Seq(Events)
      /\ \A i \in 1..Len(events) : events[i].type # "textDone"
      /\ text \in Seq(Nat) /\ line.n \in Nat /\ line.n = line.n
  BY DEF AdapterInv, AdapterTyped, Scanned, Lines
<1>2. Message \in Items /\ \A i \in DOMAIN calls : Call(i) # Message
  BY DEF Message, Items, Call
<1>3. a \in Events /\ Grows(begun, all, {}, text) /\ begun \in Seq(Events)
      /\ \A i \in 1..Len(begun) : begun[i].type # "textDone"
  <2>0. a \in Events /\ a.type = "added"
    BY <1>2 DEF Event, Events
  <2>1. CASE text = <<>>
    <3>1. begun = Append(events, a) /\ Message \notin Opened
      BY <1>2, <2>1 DEF Opened
    <3>2. Grows(Append(events, a), Opened \cup {Message}, {}, text)
      BY <1>1, <1>2, <3>1, EmitAdded
    <3>3. Append(events, a) \in Seq(Events) /\ Len(Append(events, a)) = Len(events) + 1
          /\ \A i \in 1..(Len(events) + 1) :
               Append(events, a)[i] = IF i = Len(events) + 1 THEN a ELSE events[i]
      BY <1>1, <2>0
    <3>. HIDE DEF a, begun
    <3>. QED  BY <1>1, <2>0, <3>1, <3>2, <3>3
  <2>2. CASE text # <<>>
    <3>1. begun = events /\ all = Opened
      BY <2>2 DEF Opened
    <3>. HIDE DEF begun, all, a
    <3>. QED  BY <1>1, <2>0, <3>1
  <2>. QED  BY <2>1, <2>2
<1>. HIDE DEF begun
<1>4. b \in Events /\ Grows(Append(begun, b), all, {}, Append(text, line.n))
  BY <1>1, <1>2, <1>3, EmitText
<1>5. events' = Append(begun, b)
  <2>1. events' = events \o (IF text = <<>> THEN <<a>> ELSE <<>>) \o <<b>>
    BY DEF TakeText
  <2>. HIDE DEF a, b
  <2>2. events \o (IF text = <<>> THEN <<a>> ELSE <<>>) = begun
    BY <1>1, <1>3, Appended DEF begun
  <2>3. begun \o <<b>> = Append(begun, b)
    BY <1>3, <1>4, Appended
  <2>. QED  BY <2>1, <2>2, <2>3
<1>6. text' = Append(text, line.n) /\ calls' = calls /\ text' # <<>> /\ text' \in Seq(Nat)
  BY <1>1 DEF TakeText
<1>7. Opened' = all
  BY <1>6 DEF Opened
<1>8. events' \in Seq(Events) /\ \A i \in 1..Len(events') : events'[i].type # "textDone"
  <2>1. b.type # "textDone"
    BY DEF Event
  <2>2. Append(begun, b) \in Seq(Events) /\ Len(Append(begun, b)) = Len(begun) + 1
        /\ \A i \in 1..(Len(begun) + 1) :
             Append(begun, b)[i] = IF i = Len(begun) + 1 THEN b ELSE begun[i]
    <3>. HIDE DEF b
    <3>. QED  BY <1>3, <1>4
  <2>. HIDE DEF b
  <2>. QED  BY <1>3, <1>5, <2>1, <2>2
<1>. HIDE DEF b, all
<1>9. Grows(events', Opened', {}, text')
  BY <1>4, <1>5, <1>6, <1>7
<1>10. Scanned'
  BY <1>8, <1>9 DEF Scanned, Grows, Fits, ItemsOf, SpokenIn, Spoken
<1>. QED  BY <1>6, <1>8, <1>10

LEMMA CallTaken ==
  ASSUME AdapterInv, outer = "scanning", NEW line \in Lines, line.kind \in CallTypes,
         line.n \notin DOMAIN calls, TakeCall(line), outer' = outer
  PROVE  /\ Scanned' /\ events' \in Seq(Events) /\ text' = text
         /\ DOMAIN calls' = DOMAIN calls \cup {line.n} /\ calls' \in [DOMAIN calls' -> CallTypes]
<1>. DEFINE i == line.n
            a == Event("added", Call(i), <<>>)
            b == Event("argsDelta", Call(i), <<i>>)
            begun == Append(events, a)
            all   == Opened \cup {Call(i)}
            last  == IF line.kind = "function" THEN Append(begun, b) ELSE begun
<1>1. /\ Grows(events, Opened, {}, text) /\ events \in Seq(Events)
      /\ \A j \in 1..Len(events) : events[j].type # "textDone"
      /\ i \in Nat /\ <<i>> \in Seq(Nat) /\ \A j \in DOMAIN calls : j \in Nat
      /\ calls \in [DOMAIN calls -> CallTypes]
  BY AdapterAssumptions DEF AdapterInv, AdapterTyped, Scanned, Lines
<1>2. Call(i) \in Items /\ Call(i) \notin Opened
  BY <1>1, ItemsAre DEF Opened
<1>3. a \in Events /\ Grows(begun, all, {}, text)
  BY <1>1, <1>2, EmitAdded
<1>4. begun \in Seq(Events) /\ Len(begun) = Len(events) + 1
      /\ \A j \in 1..Len(begun) : begun[j].type # "textDone"
  <2>1. a.type # "textDone"
    BY DEF Event
  <2>2. begun \in Seq(Events) /\ Len(begun) = Len(events) + 1
        /\ \A j \in 1..(Len(events) + 1) :
             begun[j] = IF j = Len(events) + 1 THEN a ELSE events[j]
    <3>. HIDE DEF a
    <3>. QED  BY <1>1, <1>3
  <2>. HIDE DEF a, begun
  <2>. QED  BY <1>1, <2>1, <2>2
<1>. HIDE DEF begun, i
<1>5. b \in Events /\ Grows(Append(begun, b), all, {}, text)
  BY <1>1, <1>2, <1>3, EmitInside
<1>6. last \in Seq(Events) /\ Grows(last, all, {}, text)
      /\ \A j \in 1..Len(last) : last[j].type # "textDone"
  <2>1. b.type # "textDone"
    BY DEF Event
  <2>2. Append(begun, b) \in Seq(Events) /\ Len(Append(begun, b)) = Len(begun) + 1
        /\ \A j \in 1..(Len(begun) + 1) :
             Append(begun, b)[j] = IF j = Len(begun) + 1 THEN b ELSE begun[j]
    <3>. HIDE DEF b
    <3>. QED  BY <1>4, <1>5
  <2>. HIDE DEF b, all
  <2>3. CASE line.kind = "function"
    <3>1. last = Append(begun, b)
      BY <2>3
    <3>. HIDE DEF last
    <3>. QED  BY <1>4, <1>5, <2>1, <2>2, <3>1
  <2>4. CASE line.kind # "function"
    <3>1. last = begun
      BY <2>4
    <3>. HIDE DEF last
    <3>. QED  BY <1>3, <1>4, <3>1 DEF all
  <2>. QED  BY <2>3, <2>4
<1>7. events' = last
  <2>1. events' = events \o <<a>> \o (IF line.kind = "function" THEN <<b>> ELSE <<>>)
    BY DEF TakeCall, i
  <2>. HIDE DEF a, b
  <2>2. events \o <<a>> = begun
    BY <1>1, <1>3, Appended DEF begun
  <2>3. begun \o <<b>> = Append(begun, b) /\ begun \o <<>> = begun
    BY <1>4, <1>5, Appended
  <2>. QED  BY <2>1, <2>2, <2>3
<1>8. /\ text' = text /\ DOMAIN calls' = DOMAIN calls \cup {i}
      /\ calls' \in [DOMAIN calls' -> CallTypes]
  BY <1>1 DEF TakeCall, i
<1>9. Opened' = all
  BY <1>8 DEF Opened
<1>. HIDE DEF last, all
<1>10. Grows(events', Opened', {}, text')
  BY <1>6, <1>7, <1>8, <1>9
<1>11. Scanned'
  BY <1>6, <1>7, <1>10 DEF Scanned, Grows, Fits, ItemsOf, SpokenIn, Spoken
<1>. QED  BY <1>6, <1>7, <1>8, <1>11 DEF i

LEMMA ScannedStays ==
  ASSUME AdapterInv, UNCHANGED <<text, calls, events>>, outer # "done"
  PROVE  Scanned'
<1>1. Opened' = Opened
  BY DEF Opened
<1>2. Grows(events, Opened, {}, text) /\ \A i \in 1..Len(events) : events[i].type # "textDone"
  BY DEF AdapterInv, Scanned
<1>3. Grows(events', Opened', {}, text')
  BY <1>1, <1>2
<1>. QED  BY <1>2, <1>3 DEF Scanned

\* The end: everything was read, so the calls are numbered from 0.
LEMMA FinishInv == ASSUME AdapterInv, Finish PROVE AdapterInv'
<1>. USE AdapterAssumptions
<1>0. /\ outer = "waiting" /\ inner = "closed" /\ outer' = "done"
      /\ UNCHANGED <<scanErr, text, calls, pipe, innerVars>>
  BY DEF Finish
<1>1. /\ pipe = <<>> /\ ~scanErr /\ DOMAIN calls = 0..(written - 1)
      /\ sent = text \o <<>> /\ text \in Seq(Nat) /\ text \o <<>> = text
      /\ written \in Nat /\ status \in {0, 200, 400} /\ events \in Seq(Events)
  <2>1. pipe = <<>> /\ ~scanErr
    BY <1>0 DEF AdapterInv, Halted
  <2>2. text \in Seq(Nat) /\ text \o <<>> = text /\ status \in {0, 200, 400}
        /\ events \in Seq(Events)
    BY DEF AdapterInv, AdapterTyped
  <2>3. written \in 0..numCalls /\ numCalls \in 0..MaxCalls
    BY DEF AdapterInv, AdapterTyped
  <2>. QED  BY <2>1, <2>2, <2>3 DEF AdapterInv, Carried
<1>2. Grows(events, Opened, {}, text)
  BY <1>0 DEF AdapterInv, Scanned
<1>3. sent' = text /\ status' = status
  BY <1>0, <1>1 DEF innerVars
<1>4. Message \in Items /\ Failed \in Events /\ Failed.type = "failed"
  BY DEF Message, Items, Failed, Event, Events
<1>. DEFINE Bad == status >= 400 \/ (DOMAIN calls = {} /\ Blank(text))
<1>5. ASSUME Bad PROVE events' \in Seq(Events) /\ Ended'
  <2>1. events' = Append(events, Failed)
    BY <1>1, <1>5 DEF Finish
  <2>2. StreamGrammar' /\ NothingLost' /\ ~IsCompleted'
    BY <1>0, <1>2, <1>3, <1>4, <2>1, Ends DEF Final
  <2>3. events' \in Seq(Events)
    BY <1>1, <1>4, <2>1
  <2>4. Bad'
    BY <1>0, <1>3, <1>5 DEF Blank
  <2>5. status' >= 400 => ~(status' < 400)
    BY <1>1, <1>3
  <2>6. Judged'
    BY <2>2, <2>4, <2>5 DEF Judged
  <2>. QED  BY <2>2, <2>3, <2>6 DEF Ended
<1>6. ASSUME ~Bad PROVE events' \in Seq(Events) /\ Ended'
  <2>1. events' = events \o Closing \o <<Completed>>
    BY <1>1, <1>6 DEF Finish
  <2>2. /\ Closing \in Seq(Events)
        /\ \E added, shut : /\ Grows(events \o Closing, added, shut, text)
                              /\ Output \in Seq(Items)
                              /\ \A k \in DOMAIN Output : Output[k] \in shut
    <3>1. CASE DOMAIN calls = {}
      <4>1. text # <<>>
        BY <1>6, <3>1 DEF Blank
      <4>2. Message \in Opened /\ Message \notin {}
        BY <4>1 DEF Opened
      <4>. DEFINE a == Event("textDone", Message, text)
                  b == Event("itemDone", Message, <<>>)
      <4>3. a \in Events /\ Grows(Append(events, a), Opened, {}, text)
        BY <1>1, <1>2, <1>4, <4>2, EmitInside
      <4>4. b \in Events /\ Grows(Append(Append(events, a), b), Opened, {} \cup {Message}, text)
        <5>. HIDE DEF a
        <5>. QED  BY <1>4, <4>2, <4>3, EmitDone
      <4>5. Closing = <<a, b>>
        BY <3>1 DEF Closing, CloseMessage
      <4>6. /\ Output = <<Message>> /\ Output \in Seq(Items)
            /\ DOMAIN Output = {1} /\ Output[1] = Message
        BY <1>4, <3>1 DEF Output
      <4>. HIDE DEF a, b
      <4>7. events \o Closing = Append(Append(events, a), b) /\ Closing \in Seq(Events)
        BY <1>1, <4>3, <4>4, <4>5, Appended
      <4>8. Grows(events \o Closing, Opened, {Message}, text)
        BY <4>4, <4>7
      <4>9. \A k \in DOMAIN Output : Output[k] \in {Message}
        BY <4>6
      <4>. QED  BY <4>6, <4>7, <4>8, <4>9
    <3>2. CASE DOMAIN calls # {}
      <4>1. written \in Nat \ {0} /\ DOMAIN calls = 0..(written - 1)
        BY <1>1, <3>2
      <4>2. PICK added : Grows(events \o Closing, added, {Item(i) : i \in 0..(written - 1)}, text)
        BY <1>2, <4>1, ClosingGrows DEF AdapterInv
      <4>3. Closing \in Seq(Events)
        BY <1>2, <4>1, ClosingGrows DEF AdapterInv
      <4>4. Cardinality(DOMAIN calls) = written
        <5>1. PICK m \in Int : m = written - 1 /\ 0 \in Int /\ ~(0 > m) /\ m - 0 + 1 = written
          BY <4>1
        <5>2. Cardinality(0..m) = written
          BY <5>1, FS_Interval
        <5>3. DOMAIN calls = 0..m
          BY <4>1, <5>1
        <5>. QED  BY <5>2, <5>3, Zenon
      <4>5. Output = [k \in 1..written |-> Item(k - 1)]
        BY <3>2, <4>4 DEF Output
      <4>6. \A k \in 1..written : k - 1 \in 0..(written - 1) /\ k - 1 \in Nat
        BY <4>1
      <4>7. \A k \in 1..written : Item(k - 1) \in Items
        BY <4>6, ItemsAre DEF Item
      <4>8. Output \in [1..written -> Items]
        BY <4>5, <4>7
      <4>9. Output \in Seq(Items)
        BY <4>1, <4>8, FunctionSeq
      <4>10. \A k \in DOMAIN Output : Output[k] \in {Item(i) : i \in 0..(written - 1)}
        BY <4>5, <4>6
      <4>. QED  BY <4>2, <4>3, <4>9, <4>10
    <3>. QED  BY <3>1, <3>2
  <2>3. PICK added, shut : /\ Grows(events \o Closing, added, shut, text)
                             /\ Output \in Seq(Items)
                             /\ \A k \in DOMAIN Output : Output[k] \in shut
    BY <2>2
  <2>4. Completed \in Events /\ Completed.type = "completed" /\ Completed.data = Output
    BY <1>4, <2>3 DEF Completed, Event, Events
  <2>5. events \o Closing \in Seq(Events)
    BY <2>3 DEF Grows
  <2>6. events' = Append(events \o Closing, Completed)
    <3>1. (events \o Closing) \o <<Completed>> = Append(events \o Closing, Completed)
      BY <2>4, <2>5, Appended
    <3>. QED  BY <2>1, <3>1
  <2>7. StreamGrammar' /\ NothingLost'
    BY <1>0, <1>3, <2>3, <2>4, <2>6, Ends DEF Final
  <2>8. events' \in Seq(Events)
    BY <2>4, <2>5, <2>6
  <2>9. Judged'
    <3>1. IsCompleted'
      BY <1>0, <1>3, <2>3, <2>4, <2>6, Ends DEF Final
    <3>2. ~Bad'
      BY <1>0, <1>3, <1>6 DEF Blank
    <3>3. status' < 400 <=> ~(status' >= 400)
      BY <1>1, <1>3
    <3>. QED  BY <3>1, <3>2, <3>3 DEF Judged
  <2>. QED  BY <2>7, <2>8, <2>9 DEF Ended
<1>7. events' \in Seq(Events) /\ Ended' /\ Scanned'
  BY <1>0, <1>5, <1>6 DEF Scanned
<1>8. AdapterTyped'
  <2>1. scanErr' \in BOOLEAN
    BY <1>0, Zenon DEF AdapterInv, AdapterTyped
  <2>. QED  BY <1>0, <1>7, <2>1 DEF AdapterInv, AdapterTyped, innerVars
<1>9. Carried' /\ Halted'
  BY <1>0, <1>1 DEF AdapterInv, Carried, Halted, innerVars
<1>. QED  BY <1>7, <1>8, <1>9 DEF AdapterInv

LEMMA OuterInv == ASSUME AdapterInv, Outer PROVE AdapterInv'
<1>. USE AdapterAssumptions
<1>1. CASE ScanLine
  <2>0. /\ outer = "scanning" /\ pipe # <<>> /\ pipe' = <<>>
        /\ UNCHANGED <<outer, scanErr, innerVars>> /\ ~scanErr
    BY <1>1 DEF ScanLine, AdapterInv, Halted
  <2>1. PICK line \in Lines : pipe = <<line>> /\ pipe[1] = line
    BY <2>0 DEF AdapterInv, AdapterTyped
  <2>2. line.n \in Nat /\ text \in Seq(Nat) /\ written \in 0..numCalls /\ numCalls \in 0..MaxCalls
        /\ MaxCalls \in Nat
    BY DEF Lines, AdapterInv, AdapterTyped
  <2>3. inner # "closed" /\ inner # "start"
    BY <2>0 DEF AdapterInv, Halted, Carried
  <2>4. sent = text \o (IF line.kind = "text" THEN <<line.n>> ELSE <<>>)
        /\ (inner \in {"start", "streaming"} => written = 0)
    BY <2>0, <2>1 DEF AdapterInv, Carried
  <2>5. Halted' /\ Ended'
    BY <2>0, <2>3 DEF Halted, Ended, innerVars
  <2>6. ASSUME /\ Scanned' /\ events' \in Seq(Events) /\ text' \in Seq(Nat) /\ sent = text'
               /\ DOMAIN calls' = 0..(written - 1) /\ calls' \in [DOMAIN calls' -> CallTypes]
        PROVE  AdapterInv'
    <3>1. DOMAIN calls' \subseteq 0..(MaxCalls - 1)
      BY <2>2, <2>6
    <3>2. scanErr' \in BOOLEAN
      BY <2>0, Zenon DEF AdapterInv, AdapterTyped
    <3>3. AdapterTyped'
      BY <2>0, <2>6, <3>1, <3>2 DEF AdapterInv, AdapterTyped, innerVars
    <3>4. text' \o <<>> = text'
      BY <2>6
    <3>5. Carried'
      BY <2>0, <2>3, <2>4, <2>6, <3>4 DEF Carried, innerVars
    <3>. QED  BY <2>5, <2>6, <3>3, <3>5 DEF AdapterInv
  <2>7. CASE line.kind = "other" /\ UNCHANGED <<text, calls, events>>
    <3>1. Scanned'
      BY <2>0, <2>7, ScannedStays
    <3>2. DOMAIN calls = 0..(written - 1) /\ calls \in [DOMAIN calls -> CallTypes]
          /\ events \in Seq(Events)
      BY <2>0, <2>1, <2>7 DEF AdapterInv, Carried, AdapterTyped
    <3>3. sent = text
      BY <2>2, <2>4, <2>7
    <3>. QED  BY <2>2, <2>6, <2>7, <3>1, <3>2, <3>3
  <2>8. CASE line.kind = "text" /\ TakeText(line)
    <3>1. Scanned' /\ events' \in Seq(Events) /\ text' \in Seq(Nat)
      BY <2>0, <2>8, TextTaken
    <3>2. DOMAIN calls = 0..(written - 1) /\ calls \in [DOMAIN calls -> CallTypes]
      BY <2>0, <2>1, <2>8 DEF AdapterInv, Carried, AdapterTyped
    <3>3. text' = Append(text, line.n) /\ calls' = calls
      BY <2>8 DEF TakeText
    <3>4. sent = text'
      BY <2>2, <2>4, <2>8, <3>3
    <3>. QED  BY <2>6, <3>1, <3>2, <3>3, <3>4
  <2>9. CASE line.kind \in CallTypes /\ TakeCall(line)
    <3>1. written = line.n + 1 /\ DOMAIN calls = 0..(line.n - 1)
      BY <2>0, <2>1, <2>9 DEF AdapterInv, Carried
    <3>2. line.n \notin DOMAIN calls /\ DOMAIN calls \cup {line.n} = 0..(written - 1)
      BY <2>2, <3>1
    <3>3. /\ Scanned' /\ events' \in Seq(Events) /\ text' = text
          /\ DOMAIN calls' = DOMAIN calls \cup {line.n} /\ calls' \in [DOMAIN calls' -> CallTypes]
      BY <2>0, <2>9, <3>2, CallTaken
    <3>4. sent = text
      BY <2>2, <2>4, <2>9
    <3>. QED  BY <2>2, <2>6, <3>2, <3>3, <3>4
  <2>. QED  BY <1>1, <2>1, <2>7, <2>8, <2>9 DEF ScanLine
<1>2. CASE ScanTooLong
  <2>1. /\ outer = "scanning" /\ pipe # <<>> /\ outer' = "waiting" /\ scanErr' = TRUE
        /\ UNCHANGED <<text, calls, events, pipe, innerVars>>
    BY <1>2 DEF ScanTooLong
  <2>2. Scanned' /\ Ended' /\ Halted'
    <3>1. Scanned'
      BY <2>1, ScannedStays
    <3>. QED  BY <2>1, <3>1 DEF AdapterInv, Ended, Halted, innerVars
  <2>3. AdapterTyped' /\ Carried'
    BY <2>1 DEF AdapterInv, AdapterTyped, Carried, innerVars
  <2>. QED  BY <2>2, <2>3 DEF AdapterInv
<1>3. CASE ScanEOF
  <2>1. /\ outer = "scanning" /\ pipe = <<>> /\ inner = "closed" /\ outer' = "waiting"
        /\ UNCHANGED <<scanErr, text, calls, events, pipe, innerVars>> /\ ~scanErr
    BY <1>3 DEF ScanEOF, AdapterInv, Halted
  <2>2. Scanned' /\ Ended' /\ Halted'
    <3>1. Scanned'
      BY <2>1, ScannedStays
    <3>. QED  BY <2>1, <3>1 DEF AdapterInv, Ended, Halted, innerVars
  <2>3. AdapterTyped'
    <3>1. scanErr' \in BOOLEAN
      BY <2>1, Zenon DEF AdapterInv, AdapterTyped
    <3>. QED  BY <2>1, <3>1 DEF AdapterInv, AdapterTyped, innerVars
  <2>4. Carried'
    BY <2>1 DEF AdapterInv, Carried, innerVars
  <2>. QED  BY <2>2, <2>3, <2>4 DEF AdapterInv
<1>. QED  BY <1>1, <1>2, <1>3, FinishInv DEF Outer

LEMMA StartInv == AdapterInit => AdapterInv
<1>. SUFFICES ASSUME AdapterInit PROVE AdapterInv
  OBVIOUS
<1>. USE AdapterAssumptions
<1>1. Created \in Events /\ events = <<Created>> /\ Created.type = "created"
  BY DEF Created, Event, Events, Message, Items, AdapterInit
<1>2. AdapterTyped /\ Carried /\ Halted /\ Ended
  <2>1. events \in Seq(Events) /\ <<>> \in Seq(Nat)
    BY <1>1
  <2>2. AdapterTyped
    <3>1. DOMAIN calls = {} /\ calls \in [DOMAIN calls -> CallTypes]
      BY DEF AdapterInit
    <3>2. 0 \in 0..MaxCalls /\ 0 \in 0..0 /\ {} \subseteq 0..(MaxCalls - 1)
      OBVIOUS
    <3>3. scanErr \in BOOLEAN
      BY DEF AdapterInit
    <3>. QED  BY <2>1, <3>1, <3>2, <3>3 DEF AdapterInit, AdapterTyped
  <2>. QED  BY <2>2 DEF AdapterInit, Carried, Halted, Ended
<1>3. Scanned
  <2>1. Len(events) = 1 /\ events[1] = Created /\ events \in Seq(Events)
    BY <1>1
  <2>2. text = <<>> /\ DOMAIN calls = {} /\ <<>> \in Seq(Nat)
    BY DEF AdapterInit
  <2>3. Opened = {}
    BY <2>2 DEF Opened
  <2>4. SpokenIn(events) = <<>>
    <3>1. SpokenIn(Append(<<>>, Created)) = SpokenIn(<<>>) \o Spoken(Created)
          /\ SpokenIn(<<>>) \in Seq(Nat)
      <4>1. <<>> \in Seq(Events) /\ Spoken(Created) \in Seq(Nat) /\ Len(<<>>) = 0
        BY <1>1 DEF Spoken
      <4>2. \A i \in 1..Len(<<>>) : Spoken(<<>>[i]) \in Seq(Nat)
        BY <4>1
      <4>. QED  BY <1>1, <4>1, <4>2, SpokenNext
    <3>2. SpokenIn(<<>>) = <<>>
      <4>1. [i \in DOMAIN <<>> |-> Spoken(<<>>[i])] = <<>>
        OBVIOUS
      <4>2. FlattenSeq(<<>>) = <<>>
        BY DEF FlattenSeq
      <4>. QED  BY <4>1, <4>2 DEF SpokenIn
    <3>3. Spoken(Created) = <<>> /\ Append(<<>>, Created) = events
      BY <1>1 DEF Spoken
    <3>. QED  BY <3>1, <3>2, <3>3
  <2>5. \A type \in {"added", "itemDone"} : ItemsOf(events, Len(events), type) = {}
    BY <1>1, <2>1 DEF ItemsOf
  <2>6. \A i \in 1..Len(events) : events[i].type = "created"
    BY <1>1, <2>1
  <2>7. Grows(events, Opened, {}, text)
    BY <2>1, <2>2, <2>3, <2>4, <2>5, <2>6 DEF Grows, Fits, Final, Inside, Spoken
  <2>. QED  BY <2>6, <2>7 DEF Scanned
<1>. QED  BY <1>2, <1>3 DEF AdapterInv

LEMMA AdapterStep == AdapterInv /\ [AdapterNext]_adapterVars => AdapterInv'
<1>1. ASSUME AdapterInv, UNCHANGED adapterVars PROVE AdapterInv'
  <2>1. UNCHANGED <<inner, chat, status, numCalls, written, sent, pipe, outer, scanErr, text,
                    calls, events>>
    BY <1>1 DEF adapterVars, innerVars, outerVars
  <2>2. Scanned'
    BY <1>1, <2>1, ScannedStays DEF Scanned
  <2>3. Ended'
    BY <1>1, <2>1 DEF AdapterInv, Ended, StreamGrammar, Terminals, Occurs, Before, NothingLost,
                      Streamed, Judged, IsCompleted, Blank
  <2>4. AdapterTyped' /\ Carried' /\ Halted'
    BY <1>1, <2>1 DEF AdapterInv, AdapterTyped, Carried, Halted
  <2>. QED  BY <2>2, <2>3, <2>4 DEF AdapterInv
<1>. QED  BY <1>1, InnerInv, OuterInv DEF AdapterNext

LEMMA AdapterInvariance == AdapterSpec => []AdapterInv
BY StartInv, AdapterStep, PTL DEF AdapterSpec

LEMMA InvEvents == AdapterInv => StreamGrammar /\ NothingLost
<1>. SUFFICES ASSUME AdapterInv, outer # "done"
              PROVE  StreamGrammar /\ NothingLost
  BY DEF AdapterInv, Ended
<1>1. Grows(events, Opened, {}, text)
  BY DEF AdapterInv, Scanned
<1>2. StreamGrammar
  BY <1>1, GrowsGrammar
<1>. QED  BY <1>2 DEF NothingLost

\* What the goroutine came to, by the place where it stands: until its end it owes
\* an answer, and then it has written all its calls or failed without one.
Outcome ==
    /\ inner \in {"start", "streaming"} =>
         chat = "pending" /\ numCalls = 0 /\ written = 0 /\ status < 400
    /\ inner = "calls" => chat = "ok" /\ status < 400
    /\ inner \in {"ending", "closed"} =>
         \/ chat = "ok" /\ status < 400 /\ written = numCalls
         \/ chat = "failed" /\ written = 0

LEMMA OutcomeStep == AdapterInv /\ Outcome /\ [AdapterNext]_adapterVars => Outcome'
<1>. SUFFICES ASSUME AdapterInv, Outcome, [AdapterNext]_adapterVars PROVE Outcome'
  OBVIOUS
<1>. USE DEF Outcome
<1>1. status \in {0, 200, 400} /\ written \in Nat /\ numCalls \in Nat
  BY AdapterAssumptions DEF AdapterInv, AdapterTyped
<1>2. ASSUME NEW line, WriteLine(line), status < 400 PROVE status' < 400
  BY <1>1, <1>2 DEF WriteLine
<1>3. CASE UNCHANGED innerVars
  BY <1>3 DEF innerVars
<1>4. CASE Reject
  BY <1>4 DEF Reject
<1>5. CASE RouterCalls
  BY <1>2, <1>5 DEF RouterCalls
<1>6. CASE StreamStart
  BY <1>2, <1>6 DEF StreamStart
<1>7. CASE StreamText
  BY <1>2, <1>7 DEF StreamText
<1>8. CASE StreamFails
  BY <1>8 DEF StreamFails
<1>9. CASE StreamToCalls
  BY <1>9 DEF StreamToCalls
<1>10. CASE StreamEnd
  BY <1>2, <1>10 DEF StreamEnd
<1>11. CASE WriteCall
  BY <1>2, <1>11 DEF WriteCall
<1>12. CASE InnerDone
  BY <1>12 DEF InnerDone
<1>13. Outer => UNCHANGED innerVars
  BY DEF Outer, ScanLine, ScanTooLong, ScanEOF, Finish
<1>. QED  BY <1>3, <1>4, <1>5, <1>6, <1>7, <1>8, <1>9, <1>10, <1>11, <1>12, <1>13
          DEF AdapterNext, Inner, adapterVars

\* The handler judges by what it has read, and it has read all there was.
LEMMA Told == AdapterInv /\ Outcome => TerminalTellsOutcome
<1>. SUFFICES ASSUME AdapterInv, Outcome, outer = "done"
              PROVE  IsCompleted <=> Answered \/ BrokenOff
  BY DEF TerminalTellsOutcome
<1>1. pipe = <<>> /\ inner = "closed"
  BY DEF AdapterInv, Halted
<1>2. DOMAIN calls = 0..(written - 1) /\ sent = text
  <2>1. text \o <<>> = text
    BY DEF AdapterInv, AdapterTyped
  <2>. QED  BY <1>1, <2>1 DEF AdapterInv, Carried
<1>3. written \in Nat /\ numCalls \in Nat
  BY AdapterAssumptions DEF AdapterInv, AdapterTyped
<1>4. DOMAIN calls # {} <=> written > 0
  BY <1>2, <1>3
<1>5. Judged
  BY DEF AdapterInv, Ended
<1>6. CASE chat = "ok"
  <2>1. status < 400 /\ written = numCalls
    BY <1>1, <1>6 DEF Outcome
  <2>. QED  BY <1>2, <1>4, <1>5, <1>6, <2>1 DEF Judged, Answered, BrokenOff
<1>7. CASE chat = "failed"
  <2>1. ~(written > 0)
    BY <1>1, <1>7 DEF Outcome
  <2>. QED  BY <1>2, <1>4, <1>5, <1>7, <2>1 DEF Judged, Answered, BrokenOff
<1>. QED  BY <1>1, <1>6, <1>7 DEF Outcome

\* The types of the adapter's variables (streamResponsesAdapter).
THEOREM AdapterTypeCorrect == AdapterSpec => []AdapterTyped
<1>1. AdapterInv => AdapterTyped
  BY DEF AdapterInv
<1>. QED  BY <1>1, AdapterInvariance, PTL

\* An item is added once, its deltas and its closing come between, one terminal event
\* is the last, and all that the output names was closed (streamResponsesAdapter).
THEOREM Grammar == AdapterSpec => []StreamGrammar
BY AdapterInvariance, InvEvents, PTL

\* The client has been sent what openaiChat wrote, and the text that closes the message
\* is that (streamResponsesAdapter, the scan).
THEOREM Completeness == AdapterSpec => []NothingLost
BY AdapterInvariance, InvEvents, PTL

\* The terminal event tells what became of the upstream call, but for a stream that
\* broke off after visible text (streamResponsesAdapter 142-167, openaiChat 917-919).
THEOREM Meaning == AdapterSpec => []TerminalTellsOutcome
<1>1. AdapterInit => Outcome
  BY DEF AdapterInit, Outcome
<1>. QED  BY <1>1, AdapterInvariance, OutcomeStep, Told, PTL DEF AdapterSpec
=============================================================================
