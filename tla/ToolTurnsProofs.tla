-------------------------- MODULE ToolTurnsProofs --------------------------
(***************************************************************************)
(* The six invariants of ToolTurns, for any calls, limits and bounds: what *)
(* reaches ChatHub is well paired, refusals have a cause, ids are fresh,   *)
(* the loop of a user turn is bounded, writes are serialised and completed *)
(* calls are not planned again.                                            *)
(*                                                                         *)
(* validateToolConversation and the filter are recursions over sequences.  *)
(* What they compute is proved with the lemmas of Recursions, in place of  *)
(* an induction over data.                                                 *)
(***************************************************************************)
EXTENDS ToolTurns, Recursions, FiniteSetTheorems, FunctionTheorems

-----------------------------------------------------------------------------
\* validateToolConversation is a walk over the conversation.
States == [ok : BOOLEAN, pending : SUBSET Ids, completed : SUBSET Ids]

LEMMA CheckType ==
  ASSUME NEW s \in States, NEW m \in Messages
  PROVE  Check(s, m) \in States
<1>1. CASE m.role = "user"
  BY <1>1 DEF Check
<1>2. CASE m.role = "tool"
  <2>1. m.id \in Ids
    BY <1>2 DEF Messages
  <2>. QED  BY <1>2, <2>1 DEF Check, States
<1>3. CASE m.role = "assistant"
  <2>1. m.calls \in Seq(ToolCalls)
    BY <1>3 DEF Messages
  <2>2. \A k \in DOMAIN m.calls : m.calls[k] \in ToolCalls
    BY <2>1
  <2>3. IdsOf(m) \in SUBSET Ids
    BY <2>2 DEF IdsOf, ToolCalls
  <2>. QED  BY <1>3, <2>3 DEF Check, States
<1>. QED  BY <1>1, <1>2, <1>3 DEF Messages

LEMMA CheckedWalk ==
  ASSUME NEW msgs \in Seq(Messages)
  PROVE  \E s \in [0..Len(msgs) -> States] :
           /\ s[0] = Fresh
           /\ \A n \in 1..Len(msgs) : s[n] = Check(s[n - 1], msgs[n])
           /\ s[Len(msgs)] = Checked(msgs)
<1>. DEFINE N == Len(msgs)
            after[n \in 0..N] == IF n = 0 THEN Fresh ELSE Check(after[n - 1], msgs[n])
            G == [p \in (1..N) \X States |-> Check(p[2], msgs[p[1]])]
<1>1. N \in Nat /\ Fresh \in States
  BY DEF Fresh, States
<1>2. G \in [(1..N) \X States -> States]
  BY CheckType
<1>. HIDE DEF G, after
<1>3. PICK s \in [0..N -> States] :
        s[0] = Fresh /\ \A n \in 1..N : s[n] = G[<<n, s[n - 1]>>]
  <2>1. Solvable(N, States, Fresh, G)
    <3>. HIDE DEF N
    <3>. QED  BY <1>1, <1>2, Recursion, Zenon
  <2>. QED  BY <2>1 DEF Solvable
<1>4. \A n \in 1..N : n - 1 \in 0..N /\ s[n] = Check(s[n - 1], msgs[n])
  BY <1>3 DEF G
<1>5. s = [n \in 0..N |-> IF n = 0 THEN Fresh ELSE Check(s[n - 1], msgs[n])]
  BY <1>3, <1>4
<1>6. after = [n \in 0..N |-> IF n = 0 THEN Fresh ELSE Check(after[n - 1], msgs[n])]
  BY <1>5 DEF after
<1>7. Checked(msgs) = after[N]
  BY DEF Checked, after
<1>8. \A k \in 0..N : k \in {n \in 0..N : after[n] = s[n]}
  <2>. DEFINE S == {n \in 0..N : after[n] = s[n]}
  <2>1. 0 \in S
    BY <1>1, <1>3, <1>6
  <2>2. ASSUME NEW i \in 1..N, i - 1 \in S PROVE i \in S
    BY <1>4, <1>6, <2>2
  <2>. HIDE DEF S
  <2>3. \A i \in 0..N : i \in S
    BY <1>1, <2>1, <2>2, Counting
  <2>. QED  BY <2>3 DEF S
<1>9. Checked(msgs) = s[N]
  BY <1>1, <1>7, <1>8
<1>. QED  BY <1>3, <1>4, <1>9

-----------------------------------------------------------------------------
\* filterCompletedCalls leaves calls of the batch that are not completed.
LEMMA Filtered ==
  ASSUME NEW batch \in Seq(Calls)
  PROVE  FilterCompleted(batch) \in Seq({c \in Calls : ~HasCompleted(messages, c)})
<1>. DEFINE V == {c \in Calls : ~HasCompleted(messages, c)}
            parts == [k \in DOMAIN batch |->
                        IF HasCompleted(messages, batch[k]) THEN <<>> ELSE <<batch[k]>>]
<1>1. ASSUME NEW k \in 1..Len(batch) PROVE parts[k] \in Seq(V)
  <2>1. batch[k] \in Calls /\ k \in DOMAIN batch
    OBVIOUS
  <2>2. CASE HasCompleted(messages, batch[k])
    BY <2>1, <2>2
  <2>3. CASE ~HasCompleted(messages, batch[k])
    <3>1. batch[k] \in V /\ parts[k] = <<batch[k]>>
      BY <2>1, <2>3
    <3>. HIDE DEF V, parts
    <3>. QED  BY <3>1
  <2>. QED  BY <2>2, <2>3
<1>2. parts \in Seq(Seq(V))
  <2>1. Len(batch) \in Nat /\ DOMAIN parts = 1..Len(batch)
        /\ parts = [k \in 1..Len(batch) |-> parts[k]]
    OBVIOUS
  <2>. HIDE DEF V, parts
  <2>. QED  BY <1>1, <2>1
<1>3. FilterCompleted(batch) = FlattenSeq(parts)
  BY DEF FilterCompleted
<1>. HIDE DEF parts, V
<1>4. FlattenSeq(parts) \in Seq(V)
  BY <1>2, Flattened
<1>. QED  BY <1>3, <1>4 DEF V

LEMMA FilteredCalls ==
  ASSUME NEW batch \in Seq(Calls)
  PROVE  /\ FilterCompleted(batch) \in Seq(Calls)
         /\ \A k \in DOMAIN FilterCompleted(batch) :
              ~HasCompleted(messages, FilterCompleted(batch)[k])
<1>. DEFINE V == {c \in Calls : ~HasCompleted(messages, c)}
            rest == FilterCompleted(batch)
<1>1. rest \in Seq(V)
  BY Filtered
<1>. HIDE DEF rest, V
<1>2. rest \in [1..Len(rest) -> V] /\ Len(rest) \in Nat
  BY <1>1
<1>3. V \subseteq Calls /\ \A c \in V : ~HasCompleted(messages, c)
  BY DEF V
<1>4. rest \in Seq(Calls)
  BY <1>1, <1>3, SeqMonotonic
<1>5. \A k \in DOMAIN rest : ~HasCompleted(messages, rest[k])
  BY <1>2, <1>3
<1>. QED  BY <1>4, <1>5 DEF rest

-----------------------------------------------------------------------------
\* What a response may bring: at most the limit, alone when it is a write, with ids
\* that tell where it was made, and on the filtered paths nothing that is completed.
Placed(id, i, k) == id.path \in {"fence", "frame"} \/ (id.at = i /\ id.place = k)
Given(calls) ==
    /\ calls \in Seq(ToolCalls) /\ Len(calls) <= CallLimit
    /\ Len(calls) > 1 => \A k \in DOMAIN calls : calls[k].call \in ReadOnly
    /\ \A k \in DOMAIN calls :
         /\ Placed(calls[k].id, Len(messages), k)
         /\ calls[k].id.path \in {"stream", "retry"} => ~HasCompleted(messages, calls[k].call)

Resting == {"idle", "refused"}
Moves   == pc \notin Resting
             /\ \E where \in {"repairing", "retrying", "answering", "recovering"} : Goto(where)
Fails   == pc \notin Resting /\ Fail
Answers == pc \notin Resting /\ \E calls : Given(calls) /\ Return(<<Assistant(calls)>>)

\* limitToolCalls keeps the first calls, and one only if any of the batch is a write.
Trimmed(kept, calls, batch) ==
    /\ kept \in Seq(ToolCalls) /\ Len(kept) <= CallLimit
    /\ \A k \in 1..Len(kept) : k \in 1..Len(calls) /\ kept[k] = calls[k]
    /\ Len(kept) > 1 => \A k \in 1..Len(batch) : batch[k] \in ReadOnly

LEMMA LimitedBatch ==
  ASSUME NEW batch \in Seq(Calls), NEW calls \in Seq(ToolCalls), Len(calls) = Len(batch)
  PROVE  Trimmed(Limited(calls, AdaptiveLimit(batch)), calls, batch)
<1>. DEFINE n == AdaptiveLimit(batch)
<1>1. /\ n \in Nat \ {0} /\ n <= CallLimit
      /\ n > 1 => ToSet(batch) \subseteq ReadOnly
  BY ToolAssumptions DEF AdaptiveLimit
<1>2. n > 1 => \A k \in 1..Len(batch) : batch[k] \in ReadOnly
  BY <1>1 DEF ToSet
<1>3. CallLimit \in Nat /\ Len(calls) \in Nat
  BY ToolAssumptions
<1>. SUFFICES Trimmed(Limited(calls, n), calls, batch)
  OBVIOUS
<1>. HIDE DEF n
<1>4. CASE Len(calls) > n
  <2>1. \A k \in 1..n : k \in 1..Len(calls) /\ calls[k] \in ToolCalls
    BY <1>1, <1>3, <1>4
  <2>. DEFINE kept == SubSeq(calls, 1, n)
  <2>2. kept \in Seq(ToolCalls) /\ Len(kept) = n /\ \A k \in 1..n : kept[k] = calls[k]
    BY <1>1, <1>4, <2>1
  <2>3. Limited(calls, n) = kept
    BY <1>4 DEF Limited
  <2>. HIDE DEF kept
  <2>. QED  BY <1>1, <1>2, <2>1, <2>2, <2>3 DEF Trimmed
<1>5. CASE ~(Len(calls) > n)
  <2>1. Limited(calls, n) = calls
    BY <1>5 DEF Limited
  <2>. QED  BY <1>1, <1>2, <1>3, <1>5, <2>1 DEF Trimmed
<1>. QED  BY <1>4, <1>5

\* writeToolResponse gives calls of the batch with their ids.
LEMMA RespondGives ==
  ASSUME NEW batch \in Seq(Calls), NEW ids, pc \notin Resting, Respond(batch, ids),
         \A k \in DOMAIN batch :
           /\ ids[k] \in Ids /\ Placed(ids[k], Len(messages), k)
           /\ ids[k].path \in {"stream", "retry"} => ~HasCompleted(messages, batch[k])
  PROVE  Answers
<1>. DEFINE calls == [k \in DOMAIN batch |-> [id |-> ids[k], call |-> batch[k]]]
            kept == Limited(calls, AdaptiveLimit(batch))
<1>1. \A k \in 1..Len(batch) : k \in DOMAIN batch /\ calls[k] \in ToolCalls
  BY DEF ToolCalls
<1>2. calls \in Seq(ToolCalls) /\ Len(calls) = Len(batch)
  <2>1. Len(batch) \in Nat /\ calls = [k \in 1..Len(batch) |-> calls[k]]
    OBVIOUS
  <2>. HIDE DEF calls
  <2>. QED  BY <1>1, <2>1
<1>3. \A k \in 1..Len(batch) : calls[k].id = ids[k] /\ calls[k].call = batch[k]
  OBVIOUS
<1>4. Return(<<Assistant(kept)>>)
  BY DEF Respond
<1>. HIDE DEF calls
<1>5. Trimmed(kept, calls, batch)
  BY <1>2, LimitedBatch
<1>. HIDE DEF kept
<1>6. /\ kept \in Seq(ToolCalls) /\ Len(kept) <= CallLimit
      /\ Len(kept) > 1 => \A k \in 1..Len(batch) : batch[k] \in ReadOnly
      /\ \A k \in 1..Len(kept) : k \in 1..Len(batch) /\ kept[k] = calls[k]
  BY <1>2, <1>5 DEF Trimmed
<1>7. DOMAIN kept = 1..Len(kept) /\ DOMAIN batch = 1..Len(batch)
  BY <1>6
<1>8. ASSUME NEW k \in 1..Len(kept)
      PROVE  /\ Len(kept) > 1 => kept[k].call \in ReadOnly
             /\ Placed(kept[k].id, Len(messages), k)
             /\ kept[k].id.path \in {"stream", "retry"} => ~HasCompleted(messages, kept[k].call)
  <2>1. k \in DOMAIN batch /\ kept[k].id = ids[k] /\ kept[k].call = batch[k]
    BY <1>3, <1>6, <1>7
  <2>2. Len(kept) > 1 => batch[k] \in ReadOnly
    BY <1>6
  <2>. QED  BY <2>1, <2>2, Zenon
<1>9. Given(kept)
  BY <1>6, <1>7, <1>8, Zenon DEF Given
<1>. QED  BY <1>4, <1>9 DEF Answers

LEMMA BatchesTyped == \A b \in Batches \cup {<<>>} : b \in Seq(Calls)
<1>1. ASSUME NEW m \in Nat, NEW b \in [1..m -> Calls] PROVE b \in Seq(Calls)
  BY <1>1
<1>2. \A b \in Batches : \E m \in 0..MaxBatch : b \in [1..m -> Calls]
  BY DEF Batches, SeqOf
<1>3. 0..MaxBatch \subseteq Nat
  BY ToolAssumptions
<1>4. \A b \in Batches : b \in Seq(Calls)
  BY <1>1, <1>2, <1>3, Zenon
<1>5. <<>> \in Seq(Calls)
  OBVIOUS
<1>. QED  BY <1>4, <1>5, Zenon

\* The four ways calls get their ids.
LEMMA PlannedGives ==
  ASSUME TypeOK, pc \notin Resting, NEW batch \in Seq(Calls),
         NEW path \in {"stream", "router", "retry", "recovery"}, Planned(batch, path),
         path \in {"stream", "retry"} =>
           \A k \in DOMAIN batch : ~HasCompleted(messages, batch[k])
  PROVE  Answers
<1>. DEFINE ids == [k \in DOMAIN batch |-> PlannedId(path, Len(messages), k, batch[k])]
<1>1. Respond(batch, ids)
  BY DEF Planned
<1>2. ASSUME NEW k \in DOMAIN batch
      PROVE  /\ ids[k] \in Ids /\ Placed(ids[k], Len(messages), k)
             /\ ids[k].path \in {"stream", "retry"} => ~HasCompleted(messages, batch[k])
  <2>1. k \in Nat /\ batch[k] \in Calls /\ Len(messages) \in Nat
    BY DEF TypeOK
  <2>. QED  BY <2>1 DEF Placed, PlannedId, Ids
<1>. HIDE DEF ids
<1>. QED  BY <1>1, <1>2, RespondGives

LEMMA StreamedGives ==
  ASSUME TypeOK, pc \notin Resting, NEW batch \in Seq(Calls), Streamed(batch)
  PROVE  Answers
<1>. DEFINE ids == [k \in DOMAIN batch |-> StreamedId(Len(messages), k)]
<1>1. Respond(batch, ids)
  BY DEF Streamed
<1>2. ASSUME NEW k \in DOMAIN batch
      PROVE  /\ ids[k] \in Ids /\ Placed(ids[k], Len(messages), k)
             /\ ids[k].path \in {"stream", "retry"} => ~HasCompleted(messages, batch[k])
  <2>1. k \in Nat /\ Len(messages) \in Nat
    BY DEF TypeOK
  <2>. QED  BY <2>1 DEF Placed, StreamedId, Ids
<1>. HIDE DEF ids
<1>. QED  BY <1>1, <1>2, RespondGives

LEMMA FencedGives ==
  ASSUME pc \notin Resting, NEW batch \in Seq(Calls), Fenced(batch)
  PROVE  Answers
<1>. DEFINE ids == [k \in DOMAIN batch |-> FencedId(k, batch[k])]
<1>1. Respond(batch, ids)
  BY DEF Fenced
<1>2. ASSUME NEW k \in DOMAIN batch
      PROVE  /\ ids[k] \in Ids /\ Placed(ids[k], Len(messages), k)
             /\ ids[k].path \in {"stream", "retry"} => ~HasCompleted(messages, batch[k])
  <2>1. k \in Nat /\ batch[k] \in Calls
    OBVIOUS
  <2>. QED  BY <2>1 DEF Placed, FencedId, Ids
<1>. HIDE DEF ids
<1>. QED  BY <1>1, <1>2, RespondGives

LEMMA FramedGives ==
  ASSUME pc \notin Resting, NEW batch \in Seq(Calls), Framed(batch)
  PROVE  Answers
<1>. DEFINE ids == [k \in DOMAIN batch |-> FrameId(batch[k])]
<1>1. Respond(batch, ids)
  BY DEF Framed
<1>2. ASSUME NEW k \in DOMAIN batch
      PROVE  /\ ids[k] \in Ids /\ Placed(ids[k], Len(messages), k)
             /\ ids[k].path \in {"stream", "retry"} => ~HasCompleted(messages, batch[k])
  <2>1. batch[k] \in Calls
    OBVIOUS
  <2>. QED  BY <2>1 DEF Placed, FrameId, Ids
<1>. HIDE DEF ids
<1>. QED  BY <1>1, <1>2, RespondGives

LEMMA TextGives == ASSUME pc \notin Resting, AnswerText PROVE Answers
<1>1. Given(<<>>)
  BY ToolAssumptions DEF Given
<1>. QED  BY <1>1 DEF AnswerText, Answers

\* A routing decision: with a stream it passes the filter first.
LEMMA DecideGives ==
  ASSUME TypeOK, pc \notin Resting, NEW batch \in Seq(Calls), Decide(batch)
  PROVE  Answers \/ Moves
<1>1. ASSUME NEW where \in {"answering", "retrying"}, Goto(where) PROVE Moves
  BY <1>1 DEF Moves
<1>2. CASE req.stream /\ FilterCompleted(batch) # <<>>
  <2>1. FilterCompleted(batch) \in Seq(Calls)
        /\ \A k \in DOMAIN FilterCompleted(batch) :
             ~HasCompleted(messages, FilterCompleted(batch)[k])
    BY FilteredCalls
  <2>2. Planned(FilterCompleted(batch), "stream")
    BY <1>2 DEF Decide
  <2>. QED  BY <2>1, <2>2, PlannedGives
<1>3. CASE req.stream /\ FilterCompleted(batch) = <<>>
  BY <1>1, <1>3 DEF Decide
<1>4. CASE ~req.stream /\ batch # <<>>
  <2>1. Planned(batch, "router")
    BY <1>4 DEF Decide
  <2>. QED  BY <2>1, PlannedGives
<1>5. CASE ~req.stream /\ batch = <<>>
  <2>1. Goto("retrying") \/ Goto("answering")
    BY <1>5 DEF Decide
  <2>. QED  BY <1>1, <2>1
<1>. QED  BY <1>2, <1>3, <1>4, <1>5

\* Whatever openaiChat does, it is one of these.
LEMMA Steps == ASSUME TypeOK, Next PROVE Send \/ Moves \/ Fails \/ Answers \/ Say
<1>1. CASE Send \/ Say
  BY <1>1
<1>2. CASE RouterFails
  BY <1>2 DEF RouterFails, Fails, Resting
<1>3. CASE RouterDecides \/ RepairDecides
  <2>1. PICK b \in Batches \cup {<<>>} : Decide(b) /\ pc \notin Resting
    BY <1>3 DEF RouterDecides, RepairDecides, Resting
  <2>. QED  BY <2>1, BatchesTyped, DecideGives
<1>4. CASE RouterUnparsed
  BY <1>4 DEF RouterUnparsed, Moves, Resting
<1>5. CASE RepairFails
  BY <1>5 DEF RepairFails, Moves, Fails, Resting
<1>6. CASE Retry
  <2>1. pc \notin Resting
    BY <1>6 DEF Retry, Resting
  <2>2. ASSUME NEW b \in Batches, Planned(FilterCompleted(b), "retry") PROVE Answers
    BY <2>1, <2>2, BatchesTyped, FilteredCalls, PlannedGives
  <2>. QED  BY <1>6, <2>1, <2>2 DEF Retry, Fails
<1>7. CASE AnswerStream
  <2>1. pc \notin Resting
    BY <1>7 DEF AnswerStream, Resting
  <2>2. \A b \in Batches : Streamed(b) \/ Fenced(b) => Answers
    BY <2>1, BatchesTyped, StreamedGives, FencedGives
  <2>. QED  BY <1>7, <2>1, <2>2, TextGives DEF AnswerStream, Fails
<1>8. CASE Answer
  <2>1. pc \notin Resting
    BY <1>8 DEF Answer, Resting
  <2>2. \A b \in Batches : Framed(b) \/ Fenced(b) => Answers
    BY <2>1, BatchesTyped, FramedGives, FencedGives
  <2>3. Goto("recovering") => Moves
    BY <2>1 DEF Moves
  <2>. QED  BY <1>8, <2>1, <2>2, <2>3, TextGives DEF Answer, Fails
<1>9. CASE Recover
  <2>1. pc \notin Resting
    BY <1>9 DEF Recover, Resting
  <2>2. ASSUME NEW b \in Batches, Planned(b, "recovery") PROVE Answers
    BY <2>1, <2>2, BatchesTyped, PlannedGives
  <2>. QED  BY <1>9, <2>1, <2>2, TextGives DEF Recover
<1>. QED  BY <1>1, <1>2, <1>3, <1>4, <1>5, <1>6, <1>7, <1>8, <1>9 DEF Next

-----------------------------------------------------------------------------
\* Where the calls of a conversation are.
LEMMA Roles ==
  /\ User \in Messages /\ User.role = "user"
  /\ \A cs \in Seq(ToolCalls) :
       Assistant(cs) \in Messages /\ Assistant(cs).role = "assistant" /\ Assistant(cs).calls = cs
  /\ \A id \in Ids, out \in Outcomes :
       /\ Tool(id, out) \in Messages /\ Tool(id, out).role = "tool"
       /\ Tool(id, out).id = id /\ Tool(id, out).out = out
BY DEF Messages, User, Assistant, Tool

LEMMA MadeIs ==
  ASSUME NEW msgs \in Seq(Messages), NEW i, NEW k
  PROVE  <<i, k>> \in Made(msgs) <=>
           i \in 1..Len(msgs) /\ msgs[i].role = "assistant" /\ k \in 1..Len(msgs[i].calls)
<1>1. DOMAIN msgs = 1..Len(msgs)
  OBVIOUS
<1>2. \A j \in DOMAIN msgs : msgs[j].role = "assistant" => msgs[j].calls \in Seq(ToolCalls)
  BY DEF Messages
<1>3. \A j \in DOMAIN msgs : msgs[j].role = "assistant" =>
        DOMAIN msgs[j].calls = 1..Len(msgs[j].calls)
  BY <1>2
<1>. QED  BY <1>1, <1>3 DEF Made

LEMMA MadeTyped ==
  ASSUME NEW msgs \in Seq(Messages), NEW p \in Made(msgs)
  PROVE  /\ p = <<p[1], p[2]>> /\ p[1] \in 1..Len(msgs) /\ msgs[p[1]].role = "assistant"
         /\ p[2] \in 1..Len(msgs[p[1]].calls) /\ msgs[p[1]].calls \in Seq(ToolCalls)
         /\ CallAt(msgs, p) \in ToolCalls
<1>1. p = <<p[1], p[2]>>
  BY DEF Made
<1>2. p[1] \in 1..Len(msgs) /\ msgs[p[1]].role = "assistant" /\ p[2] \in 1..Len(msgs[p[1]].calls)
  BY <1>1, MadeIs
<1>3. msgs[p[1]].calls \in Seq(ToolCalls)
  BY <1>2 DEF Messages
<1>4. CallAt(msgs, p) \in ToolCalls
  BY <1>2, <1>3 DEF CallAt
<1>. QED  BY <1>1, <1>2, <1>3, <1>4

\* The conversation has grown by one message.
Grown(m) ==
    /\ m \in Messages
    /\ messages' \in Seq(Messages) /\ Len(messages') = Len(messages) + 1
    /\ \A i \in 1..Len(messages) : messages'[i] = messages[i]
    /\ messages'[Len(messages) + 1] = m

LEMMA ReturnGrows ==
  ASSUME TypeOK, NEW m \in Messages, Return(<<m>>)
  PROVE  Grown(m) /\ pc' = "idle" /\ req' = None
<1>1. messages \in Seq(Messages) /\ <<m>> \in Seq(Messages)
  BY DEF TypeOK
<1>2. messages' = messages \o <<m>>
  BY DEF Return
<1>. QED  BY <1>1, <1>2 DEF Return, Grown

LEMMA SayGrows ==
  ASSUME TypeOK, Say
  PROVE  /\ Grown(User) \/ \E id \in Ids, out \in Outcomes : Grown(Tool(id, out))
         /\ pc \in Resting /\ pc' = "idle" /\ req' = req
<1>1. ASSUME NEW m \in Messages, messages' = Append(messages, m) PROVE Grown(m)
  BY <1>1 DEF TypeOK, Grown
<1>2. CASE messages' = Append(messages, User)
  BY <1>1, <1>2, Roles DEF Say, Resting
<1>3. ASSUME NEW id \in {CallAt(messages, p).id : p \in Made(messages)} \cup {StrayId},
             NEW out \in Outcomes, messages' = Append(messages, Tool(id, out))
      PROVE  \E i \in Ids, o \in Outcomes : Grown(Tool(i, o))
  <2>1. StrayId \in Ids
    BY DEF StrayId, Ids
  <2>2. \A p \in Made(messages) : CallAt(messages, p).id \in Ids
    BY MadeTyped DEF TypeOK, ToolCalls
  <2>3. id \in Ids
    BY <2>1, <2>2
  <2>4. Tool(id, out) \in Messages
    BY <2>3, Roles
  <2>5. Grown(Tool(id, out))
    BY <1>1, <1>3, <2>4
  <2>. QED  BY <2>3, <2>5
<1>. QED  BY <1>2, <1>3 DEF Say, Resting

LEMMA MadeGrown ==
  ASSUME TypeOK, NEW m, Grown(m), NEW i, NEW k
  PROVE  /\ <<i, k>> \in Made(messages') <=>
              \/ <<i, k>> \in Made(messages)
              \/ i = Len(messages) + 1 /\ m.role = "assistant" /\ k \in 1..Len(m.calls)
         /\ <<i, k>> \in Made(messages) =>
              /\ i \in 1..Len(messages)
              /\ CallAt(messages', <<i, k>>) = CallAt(messages, <<i, k>>)
<1>1. messages \in Seq(Messages) /\ Len(messages) \in Nat
  BY DEF TypeOK
<1>2. /\ <<i, k>> \in Made(messages) <=>
           i \in 1..Len(messages) /\ messages[i].role = "assistant"
             /\ k \in 1..Len(messages[i].calls)
      /\ <<i, k>> \in Made(messages') <=>
           i \in 1..Len(messages') /\ messages'[i].role = "assistant"
             /\ k \in 1..Len(messages'[i].calls)
  BY <1>1, MadeIs DEF Grown
<1>3. i \in 1..Len(messages') <=> i \in 1..Len(messages) \/ i = Len(messages) + 1
  BY <1>1 DEF Grown
<1>. QED  BY <1>1, <1>2, <1>3 DEF Grown, CallAt

-----------------------------------------------------------------------------
\* What a step does to the conversation.
Replied(calls) ==
    /\ Given(calls) /\ Grown(Assistant(calls))
    /\ pc \notin Resting /\ pc' = "idle" /\ req' = None
Said(m) ==
    /\ Grown(m) /\ m.role # "assistant"
    /\ pc \in Resting /\ pc' = "idle" /\ req' = req

LEMMA Effects ==
  ASSUME TypeOK, [Next]_vars
  PROVE  \/ UNCHANGED vars
         \/ Send
         \/ UNCHANGED messages /\ pc \notin Resting
              /\ pc' \in {"idle", "repairing", "retrying", "answering", "recovering"}
              /\ req' = IF pc' = "idle" THEN None ELSE req
         \/ \E calls : Replied(calls)
         \/ Said(User)
         \/ \E id \in Ids, out \in Outcomes : Said(Tool(id, out))
<1>1. CASE Moves
  BY <1>1 DEF Moves, Goto
<1>2. CASE Fails
  <2>1. messages' = messages \o <<>> /\ messages \in Seq(Messages)
    BY <1>2 DEF Fails, Fail, Return, TypeOK
  <2>. QED  BY <1>2, <2>1 DEF Fails, Fail, Return
<1>3. CASE Answers
  <2>1. PICK calls : Given(calls) /\ Return(<<Assistant(calls)>>)
    BY <1>3 DEF Answers
  <2>2. Assistant(calls) \in Messages
    BY <2>1, Roles DEF Given
  <2>3. Grown(Assistant(calls)) /\ pc' = "idle" /\ req' = None
    BY <2>1, <2>2, ReturnGrows
  <2>. QED  BY <1>3, <2>1, <2>3 DEF Answers, Replied
<1>4. CASE Say
  BY <1>4, SayGrows, Roles DEF Said
<1>. QED  BY <1>1, <1>2, <1>3, <1>4, Steps

LEMMA NextType == ASSUME TypeOK, [Next]_vars PROVE TypeOK'
<1>1. CASE UNCHANGED vars
  BY <1>1 DEF TypeOK, vars
<1>2. CASE Send
  BY <1>2 DEF Send, TypeOK
<1>3. CASE UNCHANGED messages /\ pc \notin Resting
             /\ pc' \in {"idle", "repairing", "retrying", "answering", "recovering"}
             /\ req' = IF pc' = "idle" THEN None ELSE req
  BY <1>3 DEF TypeOK, Resting
<1>4. ASSUME NEW calls, Replied(calls) PROVE TypeOK'
  BY <1>4 DEF Replied, Grown, TypeOK
<1>5. ASSUME NEW m, Said(m) PROVE TypeOK'
  BY <1>5 DEF Said, Grown, TypeOK, Resting
<1>. QED  BY <1>1, <1>2, <1>3, <1>4, <1>5, Effects

-----------------------------------------------------------------------------
\* The invariants on what was given: they only grow with the conversation.
IdsPlaced == \A p \in Made(messages) : Placed(CallAt(messages, p).id, p[1] - 1, p[2])

LEMMA NextIds == ASSUME TypeOK, IdsPlaced, [Next]_vars PROVE IdsPlaced'
<1>1. CASE UNCHANGED messages
  BY <1>1 DEF IdsPlaced
<1>. SUFFICES ASSUME NEW m, Grown(m),
                     \/ m.role # "assistant"
                     \/ \E calls : m = Assistant(calls) /\ Given(calls)
              PROVE  IdsPlaced'
  BY <1>1, Effects, Roles DEF Replied, Said, Send, vars
<1>2. ASSUME NEW p \in Made(messages')
      PROVE  Placed(CallAt(messages', p).id, p[1] - 1, p[2])
  <2>1. p = <<p[1], p[2]>> /\ messages \in Seq(Messages) /\ Len(messages) \in Nat
    BY MadeTyped DEF Grown, TypeOK
  <2>2. CASE <<p[1], p[2]>> \in Made(messages)
    BY <2>1, <2>2, MadeGrown DEF IdsPlaced
  <2>3. CASE p[1] = Len(messages) + 1 /\ m.role = "assistant" /\ p[2] \in 1..Len(m.calls)
    <3>1. Given(m.calls)
      BY <2>3 DEF Assistant
    <3>2. p[2] \in DOMAIN m.calls
      BY <2>3, <3>1 DEF Given
    <3>3. CallAt(messages', p) = m.calls[p[2]]
      BY <2>3 DEF CallAt, Grown
    <3>4. p[1] - 1 = Len(messages)
      BY <2>1, <2>3
    <3>. QED  BY <3>1, <3>2, <3>3, <3>4 DEF Given
  <2>. QED  BY <2>1, <2>2, <2>3, MadeGrown
<1>. QED  BY <1>2 DEF IdsPlaced

LEMMA NextSerial == ASSUME TypeOK, SerialWrites, [Next]_vars PROVE SerialWrites'
<1>1. CASE UNCHANGED messages
  BY <1>1 DEF SerialWrites
<1>. SUFFICES ASSUME NEW m, Grown(m),
                     \/ m.role # "assistant"
                     \/ \E calls : m = Assistant(calls) /\ Given(calls)
              PROVE  SerialWrites'
  BY <1>1, Effects, Roles DEF Replied, Said, Send, vars
<1>2. m.role = "assistant" => Given(m.calls)
  BY DEF Assistant
<1>3. ASSUME NEW i \in DOMAIN messages', messages'[i].role = "assistant",
             Len(messages'[i].calls) > 1, NEW k \in DOMAIN messages'[i].calls
      PROVE  messages'[i].calls[k].call \in ReadOnly
  <2>1. Len(messages) \in Nat /\ DOMAIN messages = 1..Len(messages)
        /\ DOMAIN messages' = 1..Len(messages')
    BY DEF TypeOK, Grown
  <2>2. CASE i \in 1..Len(messages)
    BY <1>3, <2>1, <2>2 DEF SerialWrites, Grown
  <2>3. CASE i = Len(messages) + 1
    BY <1>2, <1>3, <2>3 DEF Grown, Given
  <2>. QED  BY <2>1, <2>2, <2>3 DEF Grown
<1>. QED  BY <1>3 DEF SerialWrites

LEMMA NextUnrepeated == ASSUME TypeOK, NotRepeated, [Next]_vars PROVE NotRepeated'
<1>1. CASE UNCHANGED messages
  BY <1>1 DEF NotRepeated
<1>. SUFFICES ASSUME NEW m, Grown(m),
                     \/ m.role # "assistant"
                     \/ \E calls : m = Assistant(calls) /\ Given(calls)
              PROVE  NotRepeated'
  BY <1>1, Effects, Roles DEF Replied, Said, Send, vars
<1>2. m.role = "assistant" => Given(m.calls)
  BY DEF Assistant
<1>3. /\ messages \in Seq(Messages) /\ messages' \in Seq(Messages) /\ Len(messages) \in Nat
      /\ DOMAIN messages = 1..Len(messages) /\ DOMAIN messages' = 1..Len(messages')
  BY DEF TypeOK, Grown
<1>4. ASSUME NEW i \in 1..(Len(messages) + 1)
      PROVE  SubSeq(messages', 1, i - 1) = SubSeq(messages, 1, i - 1)
  <2>1. \A j \in 1..(i - 1) : messages'[j] = messages[j]
    BY <1>3 DEF Grown
  <2>. QED  BY <1>3, <2>1 DEF Grown
<1>5. SubSeq(messages, 1, Len(messages)) = messages
  BY <1>3, SubSeqFull
<1>6. ASSUME NEW i \in DOMAIN messages', messages'[i].role = "assistant",
             NEW k \in DOMAIN messages'[i].calls,
             messages'[i].calls[k].id.path \in {"stream", "retry"}
      PROVE  ~HasCompleted(SubSeq(messages', 1, i - 1), messages'[i].calls[k].call)
  <2>1. CASE i \in 1..Len(messages)
    <3>1. messages'[i] = messages[i]
      BY <2>1 DEF Grown
    <3>2. ~HasCompleted(SubSeq(messages, 1, i - 1), messages[i].calls[k].call)
      BY <1>3, <1>6, <2>1, <3>1 DEF NotRepeated
    <3>3. i \in 1..(Len(messages) + 1)
      BY <1>3, <2>1
    <3>4. SubSeq(messages', 1, i - 1) = SubSeq(messages, 1, i - 1)
      BY <1>4, <3>3
    <3>. QED  BY <3>1, <3>2, <3>4, Zenon
  <2>2. CASE i = Len(messages) + 1
    <3>1. messages'[i] = m
      BY <2>2 DEF Grown
    <3>2. ~HasCompleted(messages, m.calls[k].call)
      BY <1>2, <1>6, <3>1 DEF Given
    <3>3. SubSeq(messages', 1, i - 1) = messages
      BY <1>3, <1>4, <1>5, <2>2
    <3>. QED  BY <3>1, <3>2, <3>3
  <2>. QED  BY <1>3, <2>1, <2>2 DEF Grown
<1>. QED  BY <1>6 DEF NotRepeated

-----------------------------------------------------------------------------
\* The active messages are those after a place d, where the last user message is.
ActiveFrom(d) ==
    LET active == ActiveMessages(messages) IN
    /\ active \in Seq(Messages) /\ Len(active) = Len(messages) - d
    /\ \A i \in 1..(Len(messages) - d) : active[i] = messages[i + d]
    /\ \/ d = 0 /\ \A i \in 1..Len(messages) : messages[i].role # "user"
       \/ /\ d + 1 \in 1..Len(messages) /\ messages[d + 1].role = "user"
          /\ \A i \in (d + 2)..Len(messages) : messages[i].role # "user"

LEMMA ActiveIs == ASSUME TypeOK PROVE \E d \in 0..Len(messages) : ActiveFrom(d)
<1>. DEFINE N     == Len(messages)
            Users == {i \in 1..N : messages[i].role = "user"}
<1>1. N \in Nat /\ DOMAIN messages = 1..N /\ messages \in Seq(Messages)
  BY DEF TypeOK
<1>2. CASE Users = {}
  <2>1. LastUser(messages) = {}
    BY <1>1, <1>2 DEF LastUser
  <2>2. ActiveMessages(messages) = messages
    BY <2>1 DEF ActiveMessages
  <2>3. ActiveFrom(0) /\ 0 \in 0..N
    BY <1>1, <1>2, <2>2 DEF ActiveFrom
  <2>. QED  BY <2>3
<1>3. CASE Users # {}
  <2>1. PICK m \in Users : \A i \in Users : i <= m
    <3>1. Users \in SUBSET (0..N)
      OBVIOUS
    <3>. HIDE DEF Users, N
    <3>. QED  BY <1>1, <1>3, <3>1, Largest
  <2>2. m \in LastUser(messages)
    BY <1>1, <2>1 DEF LastUser
  <2>. DEFINE u == CHOOSE i \in LastUser(messages) : TRUE
  <2>3. u \in LastUser(messages) /\ ActiveMessages(messages) = SubSeq(messages, u, N)
    BY <2>2 DEF ActiveMessages
  <2>. HIDE DEF u
  <2>4. u \in 1..N /\ messages[u].role = "user"
        /\ \A i \in 1..N : messages[i].role = "user" => i <= u
    BY <1>1, <2>3 DEF LastUser
  <2>5. \A i \in u..N : messages[i] \in Messages
    BY <1>1, <2>4
  <2>. DEFINE active == SubSeq(messages, u, N)
  <2>6. /\ active \in Seq(Messages) /\ Len(active) = N - u + 1
        /\ \A i \in 1..(N - u + 1) : active[i] = messages[u + i - 1]
    BY <1>1, <2>4, <2>5, SubSeqProperties
  <2>. HIDE DEF active
  <2>7. N - (u - 1) = N - u + 1 /\ u - 1 + 1 = u /\ u - 1 \in 0..N
        /\ \A i \in 1..(N - u + 1) : u + i - 1 = i + (u - 1)
    BY <1>1, <2>4
  <2>8. \A i \in (u - 1 + 2)..N : messages[i].role # "user"
    BY <1>1, <2>4
  <2>9. ActiveMessages(messages) = active
    BY <2>3 DEF active
  <2>10. ActiveFrom(u - 1)
    BY <2>4, <2>6, <2>7, <2>8, <2>9 DEF ActiveFrom
  <2>. QED  BY <2>7, <2>10
<1>. QED  BY <1>2, <1>3

LEMMA ActiveCalls ==
  ASSUME TypeOK, NEW d \in 0..Len(messages), ActiveFrom(d)
  PROVE  /\ MadeInTurn = {p \in Made(messages) : p[1] > d}
         /\ \A i, k : <<i, k>> \in Made(ActiveMessages(messages)) <=>
              i \in Nat \ {0} /\ <<i + d, k>> \in Made(messages)
<1>. DEFINE N == Len(messages)
            active == ActiveMessages(messages)
<1>1. N \in Nat /\ DOMAIN messages = 1..N /\ messages \in Seq(Messages) /\ active \in Seq(Messages)
  BY DEF TypeOK, ActiveFrom
<1>2. ASSUME NEW p \in Made(messages)
      PROVE  p[1] > d <=> \A i \in p[1]..N : messages[i].role # "user"
  <2>1. p[1] \in 1..N /\ messages[p[1]].role # "user"
    BY <1>1, MadeTyped
  <2>2. CASE p[1] > d
    BY <1>1, <2>1, <2>2 DEF ActiveFrom
  <2>3. CASE ~(p[1] > d)
    BY <1>1, <2>1, <2>3 DEF ActiveFrom
  <2>. QED  BY <2>2, <2>3
<1>3. ASSUME NEW i, NEW k
      PROVE  <<i, k>> \in Made(active) <=> i \in Nat \ {0} /\ <<i + d, k>> \in Made(messages)
  <2>1. <<i, k>> \in Made(active) <=>
          i \in 1..(N - d) /\ active[i].role = "assistant" /\ k \in 1..Len(active[i].calls)
    BY <1>1, MadeIs DEF ActiveFrom
  <2>2. <<i + d, k>> \in Made(messages) <=>
          i + d \in 1..N /\ messages[i + d].role = "assistant"
            /\ k \in 1..Len(messages[i + d].calls)
    BY <1>1, MadeIs
  <2>3. i \in 1..(N - d) <=> i \in Nat \ {0} /\ i + d \in 1..N
    BY <1>1
  <2>4. i \in 1..(N - d) => active[i] = messages[i + d]
    BY DEF ActiveFrom
  <2>. HIDE DEF active, N
  <2>. QED  BY <2>1, <2>2, <2>3, <2>4
<1>. QED  BY <1>2, <1>3 DEF MadeInTurn

\* CanContinue counts what was made since the user last spoke.
LEMMA ActiveCount ==
  ASSUME TypeOK, IsFiniteSet(MadeInTurn)
  PROVE  Cardinality(Made(ActiveMessages(messages))) = CallsOfTurn
<1>1. PICK d \in 0..Len(messages) : ActiveFrom(d)
  BY ActiveIs
<1>. DEFINE T == Made(ActiveMessages(messages))
            f == [p \in MadeInTurn |-> <<p[1] - d, p[2]>>]
<1>2. MadeInTurn = {p \in Made(messages) : p[1] > d}
  BY <1>1, ActiveCalls
<1>3. \A i, k : <<i, k>> \in T <=> i \in Nat \ {0} /\ <<i + d, k>> \in Made(messages)
  BY <1>1, ActiveCalls
<1>4. ASSUME NEW p \in MadeInTurn
      PROVE  /\ p = <<p[1], p[2]>> /\ p[1] \in Nat /\ p[1] > d
             /\ p[1] - d \in Nat \ {0} /\ p[1] - d + d = p[1]
             /\ p \in Made(messages)
  <2>1. p \in Made(messages) /\ p[1] > d /\ messages \in Seq(Messages)
    BY <1>2 DEF TypeOK
  <2>2. p = <<p[1], p[2]>> /\ p[1] \in 1..Len(messages)
    BY <2>1, MadeTyped
  <2>. QED  BY <2>1, <2>2
<1>5. f \in [MadeInTurn -> T]
  BY <1>3, <1>4
<1>6. \A p, q \in MadeInTurn : f[p] = f[q] => p = q
  BY <1>4
<1>7. ASSUME NEW t \in T PROVE \E p \in MadeInTurn : f[p] = t
  <2>1. ActiveMessages(messages) \in Seq(Messages)
    BY <1>1 DEF ActiveFrom
  <2>2. t = <<t[1], t[2]>>
    BY <2>1, MadeTyped
  <2>3. t[1] \in Nat \ {0} /\ <<t[1] + d, t[2]>> \in Made(messages)
    BY <1>3, <2>2
  <2>4. <<t[1] + d, t[2]>> \in MadeInTurn /\ t[1] + d - d = t[1]
    BY <1>2, <2>3
  <2>. DEFINE p == <<t[1] + d, t[2]>>
  <2>5. p[1] = t[1] + d /\ p[2] = t[2] /\ p \in MadeInTurn
    BY <2>4
  <2>. HIDE DEF p
  <2>6. p[1] - d = t[1]
    BY <2>3, <2>5
  <2>7. f[p] = <<p[1] - d, p[2]>>
    BY <2>5
  <2>8. f[p] = <<t[1], t[2]>>
    BY <2>5, <2>6, <2>7
  <2>. QED  BY <2>2, <2>5, <2>8
<1>. HIDE DEF f, T
<1>8. f \in Bijection(MadeInTurn, T)
  BY <1>5, <1>6, <1>7, Fun_IsBij
<1>9. ExistsBijection(MadeInTurn, T)
  BY <1>8 DEF ExistsBijection
<1>10. Cardinality(T) = Cardinality(MadeInTurn)
  BY <1>9, FS_Bijection
<1>. QED  BY <1>10 DEF T, CallsOfTurn

\* What a new message makes of the calls of the turn.
LEMMA TurnGrown ==
  ASSUME TypeOK, NEW m, Grown(m)
  PROVE  /\ m.role = "user" => MadeInTurn' = {}
         /\ m.role = "tool" => MadeInTurn' = MadeInTurn
         /\ m.role = "assistant" =>
              MadeInTurn' = MadeInTurn \cup ({Len(messages) + 1} \X (1..Len(m.calls)))
<1>. DEFINE N == Len(messages)
<1>1. N \in Nat /\ messages \in Seq(Messages) /\ messages' \in Seq(Messages) /\ Len(messages') = N + 1
  BY DEF TypeOK, Grown
<1>2. \A i \in 1..N : messages'[i] = messages[i]
  BY DEF Grown
<1>3. messages'[N + 1] = m
  BY DEF Grown
<1>4. MadeInTurn' = {p \in Made(messages') :
                       \A i \in p[1]..(N + 1) : messages'[i].role # "user"}
  BY <1>1 DEF MadeInTurn
<1>5. ASSUME NEW p \in Made(messages')
      PROVE  p = <<p[1], p[2]>> /\ p[1] \in 1..(N + 1) /\ p[2] \in Nat
  BY <1>1, MadeTyped
<1>6. ASSUME NEW p \in Made(messages)
      PROVE  p = <<p[1], p[2]>> /\ p[1] \in 1..N
  BY <1>1, MadeTyped
<1>. HIDE DEF N
<1>7. CASE m.role = "user"
  <2>1. \A p \in Made(messages') : N + 1 \in p[1]..(N + 1)
    BY <1>1, <1>5
  <2>. QED  BY <1>3, <1>4, <1>7, <2>1
<1>8. ASSUME m.role # "user", NEW p \in Made(messages), p[1] \in 1..N
      PROVE  (\A i \in p[1]..(N + 1) : messages'[i].role # "user")
               <=> (\A i \in p[1]..N : messages[i].role # "user")
  BY <1>1, <1>2, <1>3, <1>8
<1>9. ASSUME NEW p
      PROVE  p \in Made(messages') <=>
               \/ p \in Made(messages)
               \/ m.role = "assistant" /\ p \in {N + 1} \X (1..Len(m.calls))
  <2>1. CASE p = <<p[1], p[2]>>
    BY <2>1, MadeGrown DEF N
  <2>2. CASE p # <<p[1], p[2]>>
    BY <1>5, <1>6, <2>2
  <2>. QED  BY <2>1, <2>2
<1>10. CASE m.role # "user"
  <2>1. ASSUME NEW p
        PROVE  p \in MadeInTurn' <=>
                 \/ p \in MadeInTurn
                 \/ m.role = "assistant" /\ p \in {N + 1} \X (1..Len(m.calls))
    <3>1. CASE p \in Made(messages)
      <4>1. p \in Made(messages') /\ p[1] \in 1..N
        BY <1>6, <1>9, <3>1
      <4>2. p[1] # N + 1
        BY <1>1, <4>1
      <4>3. p \notin {N + 1} \X (1..Len(m.calls))
        BY <4>2
      <4>4. p \in MadeInTurn' <=> \A i \in p[1]..(N + 1) : messages'[i].role # "user"
        BY <1>4, <4>1
      <4>5. p \in MadeInTurn <=> \A i \in p[1]..N : messages[i].role # "user"
        BY <3>1 DEF MadeInTurn, N
      <4>. QED  BY <1>8, <1>10, <3>1, <4>1, <4>3, <4>4, <4>5
    <3>2. CASE m.role = "assistant" /\ p \in {N + 1} \X (1..Len(m.calls))
      <4>1. p \in Made(messages') /\ p[1] = N + 1
        BY <1>9, <3>2
      <4>2. \A i \in (N + 1)..(N + 1) : messages'[i].role # "user"
        BY <1>1, <1>3, <1>10
      <4>3. p \in MadeInTurn'
        BY <1>4, <4>1, <4>2
      <4>. QED  BY <3>2, <4>3
    <3>3. CASE p \notin Made(messages')
      BY <1>4, <1>9, <3>3 DEF MadeInTurn
    <3>. QED  BY <1>9, <3>1, <3>2, <3>3
  <2>2. m.role = "assistant" => MadeInTurn' = MadeInTurn \cup ({N + 1} \X (1..Len(m.calls)))
    BY <2>1
  <2>3. m.role = "tool" => MadeInTurn' = MadeInTurn
    BY <2>1
  <2>. QED  BY <1>10, <2>2, <2>3 DEF N
<1>. QED  BY <1>7, <1>10

-----------------------------------------------------------------------------
\* While openaiChat works on a request, its conversation has passed the validator and
\* the limit; one it has refused has not, or a call of the turn is pending.
Asking  == pc \notin Resting => Valid(messages) /\ CallsOfTurn < MaxRounds
Refused == pc = "refused" => ~Valid(messages) \/ ~CanContinue(ActiveMessages(messages))
TurnInv == IsFiniteSet(MadeInTurn) /\ CallsBounded

LEMMA NextAsking ==
  ASSUME TypeOK, IsFiniteSet(MadeInTurn), Asking, Refused, [Next]_vars
  PROVE  Asking' /\ Refused'
<1>1. ASSUME UNCHANGED messages
      PROVE  /\ CallsOfTurn' = CallsOfTurn /\ Valid(messages') = Valid(messages)
             /\ CanContinue(ActiveMessages(messages')) = CanContinue(ActiveMessages(messages))
  BY <1>1 DEF CallsOfTurn, MadeInTurn
<1>2. CASE UNCHANGED vars
  <2>1. UNCHANGED messages /\ pc' = pc
    BY <1>2 DEF vars
  <2>. QED  BY <1>1, <2>1 DEF Asking, Refused
<1>3. CASE Send
  <2>1. UNCHANGED messages
    BY <1>3 DEF Send
  <2>2. CASE Valid(messages) /\ CanContinue(ActiveMessages(messages))
                /\ pc' \in {"routing", "answering"}
    <3>1. CallsOfTurn < MaxRounds
      BY <2>2, ActiveCount DEF CanContinue, UnderLimit
    <3>. QED  BY <1>1, <2>1, <2>2, <3>1 DEF Asking, Refused
  <2>3. CASE (~Valid(messages) \/ ~CanContinue(ActiveMessages(messages))) /\ pc' = "refused"
    BY <1>1, <2>1, <2>3 DEF Asking, Refused, Resting
  <2>. QED  BY <1>3, <2>2, <2>3 DEF Send
<1>4. CASE UNCHANGED messages /\ pc \notin Resting
             /\ pc' \in {"idle", "repairing", "retrying", "answering", "recovering"}
  BY <1>1, <1>4 DEF Asking, Refused
<1>5. CASE pc' = "idle"
  BY <1>5 DEF Asking, Refused, Resting
<1>. QED  BY <1>2, <1>3, <1>4, <1>5, Effects DEF Replied, Said

\* A batch enters a turn that was under the limit, and is itself limited.
LEMMA NextTurn == ASSUME TypeOK, TurnInv, Asking, [Next]_vars PROVE TurnInv'
<1>0. MaxRounds \in Nat \ {0} /\ CallLimit \in Nat \ {0}
  BY ToolAssumptions
<1>1. CASE UNCHANGED messages
  BY <1>1 DEF TurnInv, CallsBounded, CallsOfTurn, MadeInTurn
<1>2. ASSUME NEW calls, Replied(calls) PROVE TurnInv'
  <2>. DEFINE N     == Len(messages)
              added == {N + 1} \X (1..Len(calls))
  <2>1. /\ Assistant(calls).role = "assistant" /\ Assistant(calls).calls = calls
        /\ Len(calls) \in Nat /\ Len(calls) <= CallLimit
    BY <1>2, Roles DEF Replied, Given
  <2>2. MadeInTurn' = MadeInTurn \cup added
    BY <1>2, <2>1, TurnGrown DEF Replied
  <2>3. IsFiniteSet(added) /\ Cardinality(added) = Len(calls)
    <3>1. IsFiniteSet({N + 1}) /\ Cardinality({N + 1}) = 1
      BY FS_Singleton
    <3>2. IsFiniteSet(1..Len(calls)) /\ Cardinality(1..Len(calls)) = Len(calls)
      BY <2>1, FS_Interval
    <3>3. IsFiniteSet(added) /\ Cardinality(added) = 1 * Len(calls)
      <4>. HIDE DEF N
      <4>. QED  BY <3>1, <3>2, FS_Product
    <3>. QED  BY <2>1, <3>3
  <2>4. CallsOfTurn < MaxRounds /\ IsFiniteSet(MadeInTurn)
    BY <1>2 DEF Replied, Asking, TurnInv
  <2>. HIDE DEF added
  <2>5. IsFiniteSet(MadeInTurn \cup added)
        /\ Cardinality(MadeInTurn \cup added)
             = Cardinality(MadeInTurn) + Cardinality(added) - Cardinality(MadeInTurn \cap added)
    BY <2>3, <2>4, FS_Union
  <2>6. Cardinality(MadeInTurn) \in Nat /\ Cardinality(MadeInTurn \cap added) \in Nat
    BY <2>4, FS_CardinalityType, FS_Intersection
  <2>7. CallsOfTurn' = Cardinality(MadeInTurn \cup added)
    BY <2>2 DEF CallsOfTurn
  <2>8. CallsOfTurn' < MaxRounds + CallLimit
    BY <1>0, <2>1, <2>3, <2>4, <2>5, <2>6, <2>7 DEF CallsOfTurn
  <2>. QED  BY <2>2, <2>5, <2>8 DEF TurnInv, CallsBounded
<1>3. CASE Said(User)
  <2>1. MadeInTurn' = {}
    BY <1>3, Roles, TurnGrown DEF Said
  <2>2. CallsOfTurn' = 0 /\ IsFiniteSet(MadeInTurn')
    BY <2>1, FS_EmptySet DEF CallsOfTurn
  <2>. QED  BY <1>0, <2>2 DEF TurnInv, CallsBounded
<1>4. ASSUME NEW id \in Ids, NEW out \in Outcomes, Said(Tool(id, out)) PROVE TurnInv'
  <2>1. MadeInTurn' = MadeInTurn
    BY <1>4, Roles, TurnGrown DEF Said
  <2>. QED  BY <2>1 DEF TurnInv, CallsBounded, CallsOfTurn
<1>. QED  BY <1>1, <1>2, <1>3, <1>4, Effects DEF Send, vars

-----------------------------------------------------------------------------
\* What the walk of validateToolConversation knows of the first n messages.
Asks(i)      == messages[i].role = "assistant"
Tells(j, id) == messages[j].role = "tool" /\ messages[j].id = id

OpenAt(n, i, id) ==
    (\A m \in (i + 1)..n : ~Asks(m)) /\ \A j \in 1..n : ~Tells(j, id)
ClosedAt(n, i, id) ==
    \E j \in (i + 1)..n :
      /\ Tells(j, id) /\ \A l \in 1..n : Tells(l, id) => l = j
      /\ \A m \in (i + 1)..(j - 1) : ~Asks(m)

Completes(n, s) == \A id \in Ids : id \in s.completed <=> \E j \in 1..n : Tells(j, id)
Walked(n, s) ==
    /\ Completes(n, s)
    /\ \A i \in 1..n : \A id \in Ids : Issues(i, id) =>
         \/ id \in s.pending /\ OpenAt(n, i, id)
         \/ id \notin s.pending /\ ClosedAt(n, i, id)
    /\ \A j \in 1..n : messages[j].role = "tool" =>
         \E i \in 1..(j - 1) : Issues(i, messages[j].id)
    /\ \A id \in s.pending : \E i \in 1..n : Issues(i, id)

\* One message more.
LEMMA MessageTyped ==
  ASSUME TypeOK, NEW n \in 1..Len(messages)
  PROVE  /\ messages[n].role \in {"user", "tool", "assistant"}
         /\ messages[n].role = "tool" => messages[n].id \in Ids
         /\ messages[n].role = "assistant" =>
              /\ messages[n].calls \in Seq(ToolCalls) /\ IdsOf(messages[n]) \subseteq Ids
              /\ \A id : Issues(n, id) <=> id \in IdsOf(messages[n])
<1>1. messages[n] \in Messages
  BY DEF TypeOK
<1>2. CASE messages[n].role = "assistant"
  <2>1. messages[n].calls \in Seq(ToolCalls)
    BY <1>1, <1>2 DEF Messages
  <2>2. \A k \in DOMAIN messages[n].calls : messages[n].calls[k] \in ToolCalls
    BY <2>1
  <2>3. IdsOf(messages[n]) \subseteq Ids
    BY <2>2 DEF IdsOf, ToolCalls
  <2>. QED  BY <1>2, <2>1, <2>3 DEF Issues
<1>. QED  BY <1>1, <1>2 DEF Messages

LEMMA CompletesStep ==
  ASSUME TypeOK, NEW n \in 1..Len(messages), NEW s \in States, Completes(n - 1, s)
  PROVE  Completes(n, Check(s, messages[n]))
<1>. DEFINE m == messages[n]
<1>1. \A id \in Ids : (\E j \in 1..n : Tells(j, id)) <=>
                        (\E j \in 1..(n - 1) : Tells(j, id)) \/ Tells(n, id)
  OBVIOUS
<1>2. CASE m.role = "tool"
  <2>1. Check(s, m).completed = s.completed \cup {m.id}
    BY <1>2 DEF Check
  <2>2. \A id \in Ids : Tells(n, id) <=> id = m.id
    BY <1>2 DEF Tells
  <2>. HIDE DEF m
  <2>3. Completes(n, Check(s, m))
    BY <1>1, <2>1, <2>2 DEF Completes
  <2>. QED  BY <2>3 DEF m
<1>3. CASE m.role # "tool"
  <2>1. Check(s, m).completed = s.completed
    BY <1>3, MessageTyped DEF Check
  <2>2. \A id \in Ids : ~Tells(n, id)
    BY <1>3 DEF Tells
  <2>. HIDE DEF m
  <2>3. Completes(n, Check(s, m))
    BY <1>1, <2>1, <2>2 DEF Completes
  <2>. QED  BY <2>3 DEF m
<1>. QED  BY <1>2, <1>3

LEMMA WalkTool ==
  ASSUME TypeOK, NEW n \in 1..Len(messages), NEW s \in States, Walked(n - 1, s),
         messages[n].role = "tool", Check(s, messages[n]).ok
  PROVE  Walked(n, Check(s, messages[n]))
<1>. DEFINE m == messages[n]
            t == Check(s, m)
<1>1. /\ m.id \in s.pending /\ m.id \in Ids
      /\ t.pending = s.pending \ {m.id}
  BY MessageTyped DEF Check
<1>2. \A id : Tells(n, id) <=> id = m.id
  BY DEF Tells
<1>3. ~Asks(n) /\ \A id : ~Issues(n, id)
  BY DEF Asks, Issues
<1>4. Completes(n, t)
  BY CompletesStep DEF Walked
<1>. HIDE DEF m, t
<1>5. ASSUME NEW i \in 1..n, NEW id \in Ids, Issues(i, id)
      PROVE  \/ id \in t.pending /\ OpenAt(n, i, id)
             \/ id \notin t.pending /\ ClosedAt(n, i, id)
  <2>1. i \in 1..(n - 1)
    BY <1>3, <1>5
  <2>2. CASE id \in s.pending /\ OpenAt(n - 1, i, id)
    <3>1. CASE id = m.id
      <4>1. Tells(n, id) /\ (\A l \in 1..n : Tells(l, id) => l = n)
        BY <1>2, <2>2, <3>1 DEF OpenAt
      <4>2. \A k \in (i + 1)..(n - 1) : ~Asks(k)
        BY <2>2 DEF OpenAt
      <4>3. n \in (i + 1)..n
        BY <2>1
      <4>4. ClosedAt(n, i, id)
        BY <4>1, <4>2, <4>3 DEF ClosedAt
      <4>. QED  BY <1>1, <3>1, <4>4
    <3>2. CASE id # m.id
      <4>1. OpenAt(n, i, id)
        BY <1>2, <1>3, <2>2, <3>2 DEF OpenAt
      <4>. QED  BY <1>1, <2>2, <3>2, <4>1
    <3>. QED  BY <3>1, <3>2
  <2>3. CASE id \notin s.pending /\ ClosedAt(n - 1, i, id)
    <3>1. id # m.id
      BY <1>1, <2>3
    <3>2. PICK j \in (i + 1)..(n - 1) :
            /\ Tells(j, id) /\ \A l \in 1..(n - 1) : Tells(l, id) => l = j
            /\ \A k \in (i + 1)..(j - 1) : ~Asks(k)
      BY <2>3 DEF ClosedAt
    <3>3. j \in (i + 1)..n /\ \A l \in 1..n : Tells(l, id) => l = j
      BY <1>2, <3>1, <3>2
    <3>4. ClosedAt(n, i, id)
      BY <3>2, <3>3 DEF ClosedAt
    <3>. QED  BY <1>1, <2>3, <3>4
  <2>. QED  BY <1>5, <2>1, <2>2, <2>3 DEF Walked
<1>6. ASSUME NEW j \in 1..n, messages[j].role = "tool"
      PROVE  \E i \in 1..(j - 1) : Issues(i, messages[j].id)
  <2>1. CASE j \in 1..(n - 1)
    BY <1>6, <2>1 DEF Walked
  <2>2. CASE j = n
    <3>1. \E i \in 1..(n - 1) : Issues(i, m.id)
      BY <1>1 DEF Walked
    <3>. QED  BY <2>2, <3>1 DEF m
  <2>. QED  BY <2>1, <2>2
<1>7. \A id \in t.pending : \E i \in 1..n : Issues(i, id)
  <2>1. \A id \in t.pending : \E i \in 1..(n - 1) : Issues(i, id)
    BY <1>1 DEF Walked
  <2>2. 1..(n - 1) \subseteq 1..n
    OBVIOUS
  <2>. QED  BY <2>1, <2>2
<1>8. Walked(n, t)
  BY <1>4, <1>5, <1>6, <1>7 DEF Walked
<1>. QED  BY <1>8 DEF m, t

LEMMA WalkAssistant ==
  ASSUME TypeOK, NEW n \in 1..Len(messages), NEW s \in States, Walked(n - 1, s),
         messages[n].role = "assistant", Check(s, messages[n]).ok
  PROVE  Walked(n, Check(s, messages[n]))
<1>. DEFINE m == messages[n]
            t == Check(s, m)
<1>1. /\ s.pending = {} /\ IdsOf(m) \cap s.completed = {}
      /\ t.pending = IdsOf(m)
  BY DEF Check
<1>2. /\ \A id : ~Tells(n, id)
      /\ \A id : Issues(n, id) <=> id \in IdsOf(m)
      /\ IdsOf(m) \subseteq Ids
  BY MessageTyped DEF Tells
<1>3. Completes(n, t)
  BY CompletesStep DEF Walked
<1>4. Completes(n - 1, s)
  BY DEF Walked
<1>5. messages[n].role # "tool"
  OBVIOUS
<1>. HIDE DEF m, t
<1>6. ASSUME NEW i \in 1..n, NEW id \in Ids, Issues(i, id)
      PROVE  \/ id \in t.pending /\ OpenAt(n, i, id)
             \/ id \notin t.pending /\ ClosedAt(n, i, id)
  <2>1. CASE i \in 1..(n - 1)
    <3>1. ClosedAt(n - 1, i, id)
      BY <1>1, <1>6, <2>1 DEF Walked
    <3>2. PICK j \in (i + 1)..(n - 1) :
            /\ Tells(j, id) /\ \A l \in 1..(n - 1) : Tells(l, id) => l = j
            /\ \A k \in (i + 1)..(j - 1) : ~Asks(k)
      BY <3>1 DEF ClosedAt
    <3>3. j \in (i + 1)..n /\ j \in 1..(n - 1) /\ \A l \in 1..n : Tells(l, id) => l = j
      BY <1>2, <2>1, <3>2
    <3>4. ClosedAt(n, i, id)
      BY <3>2, <3>3 DEF ClosedAt
    <3>5. id \in s.completed
      BY <1>4, <3>2, <3>3 DEF Completes
    <3>. QED  BY <1>1, <3>4, <3>5
  <2>2. CASE i = n
    <3>1. id \in IdsOf(m)
      BY <1>2, <1>6, <2>2
    <3>2. \A j \in 1..(n - 1) : ~Tells(j, id)
      BY <1>1, <1>4, <3>1 DEF Completes
    <3>3. OpenAt(n, i, id)
      BY <1>2, <2>2, <3>2 DEF OpenAt
    <3>. QED  BY <1>1, <3>1, <3>3
  <2>. QED  BY <2>1, <2>2
<1>7. ASSUME NEW j \in 1..n, messages[j].role = "tool"
      PROVE  \E i \in 1..(j - 1) : Issues(i, messages[j].id)
  BY <1>5, <1>7 DEF Walked
<1>8. \A id \in t.pending : \E i \in 1..n : Issues(i, id)
  BY <1>1, <1>2
<1>9. Walked(n, t)
  BY <1>3, <1>6, <1>7, <1>8 DEF Walked
<1>. QED  BY <1>9 DEF m, t

LEMMA WalkUser ==
  ASSUME TypeOK, NEW n \in 1..Len(messages), NEW s \in States, Walked(n - 1, s),
         messages[n].role = "user"
  PROVE  Walked(n, s)
<1>1. ~Asks(n) /\ \A id : ~Issues(n, id) /\ ~Tells(n, id)
  BY DEF Asks, Issues, Tells
<1>2. Check(s, messages[n]) = s
  BY DEF Check
<1>3. Completes(n, s)
  BY <1>2, CompletesStep DEF Walked
<1>4. ASSUME NEW i \in 1..n, NEW id \in Ids, Issues(i, id)
      PROVE  \/ id \in s.pending /\ OpenAt(n, i, id)
             \/ id \notin s.pending /\ ClosedAt(n, i, id)
  <2>1. i \in 1..(n - 1)
    BY <1>1, <1>4
  <2>2. CASE id \in s.pending /\ OpenAt(n - 1, i, id)
    BY <1>1, <2>2 DEF OpenAt
  <2>3. CASE id \notin s.pending /\ ClosedAt(n - 1, i, id)
    <3>1. PICK j \in (i + 1)..(n - 1) :
            /\ Tells(j, id) /\ \A l \in 1..(n - 1) : Tells(l, id) => l = j
            /\ \A k \in (i + 1)..(j - 1) : ~Asks(k)
      BY <2>3 DEF ClosedAt
    <3>2. j \in (i + 1)..n /\ \A l \in 1..n : Tells(l, id) => l = j
      BY <1>1, <3>1
    <3>. QED  BY <2>3, <3>1, <3>2 DEF ClosedAt
  <2>. QED  BY <1>4, <2>1, <2>2, <2>3 DEF Walked
<1>5. ASSUME NEW j \in 1..n, messages[j].role = "tool"
      PROVE  \E i \in 1..(j - 1) : Issues(i, messages[j].id)
  BY <1>5 DEF Walked
<1>6. \A id \in s.pending : \E i \in 1..n : Issues(i, id)
  <2>1. \A id \in s.pending : \E i \in 1..(n - 1) : Issues(i, id)
    BY DEF Walked
  <2>2. 1..(n - 1) \subseteq 1..n
    OBVIOUS
  <2>. QED  BY <2>1, <2>2
<1>. QED  BY <1>3, <1>4, <1>5, <1>6 DEF Walked

LEMMA OkBefore ==
  ASSUME NEW m, m.role \in {"user", "tool", "assistant"}, NEW s \in States, Check(s, m).ok
  PROVE  s.ok
<1>1. CASE m.role = "user"
  BY <1>1 DEF Check
<1>2. CASE m.role = "tool"
  BY <1>2 DEF Check
<1>3. CASE m.role = "assistant"
  BY <1>3 DEF Check
<1>. QED  BY <1>1, <1>2, <1>3

\* The whole walk, while no message is refused.
LEMMA WalkedAll ==
  ASSUME TypeOK, NEW s \in [0..Len(messages) -> States], s[0] = Fresh,
         \A n \in 1..Len(messages) : s[n] = Check(s[n - 1], messages[n]),
         s[Len(messages)].ok
  PROVE  Walked(Len(messages), s[Len(messages)])
<1>. DEFINE N == Len(messages)
            S == {n \in 0..N : s[n].ok => Walked(n, s[n])}
<1>0. N \in Nat
  BY DEF TypeOK
<1>1. 0 \in S
  <2>1. Walked(0, Fresh)
    BY DEF Walked, Completes, Fresh
  <2>. QED  BY <1>0, <2>1
<1>2. ASSUME NEW n \in 1..N, n - 1 \in S PROVE n \in S
  <2>. SUFFICES ASSUME s[n].ok PROVE Walked(n, s[n])
    BY <1>0
  <2>1. n - 1 \in 0..N /\ s[n - 1] \in States /\ s[n] = Check(s[n - 1], messages[n])
    BY <1>0
  <2>2. messages[n].role \in {"user", "tool", "assistant"}
    BY MessageTyped
  <2>3. s[n - 1].ok
    BY <2>1, <2>2, OkBefore
  <2>4. Walked(n - 1, s[n - 1])
    BY <1>2, <2>3
  <2>5. CASE messages[n].role = "user"
    <3>1. s[n] = s[n - 1]
      BY <2>1, <2>5 DEF Check
    <3>. QED  BY <2>1, <2>4, <2>5, <3>1, WalkUser
  <2>6. CASE messages[n].role = "tool"
    BY <2>1, <2>4, <2>6, WalkTool
  <2>7. CASE messages[n].role = "assistant"
    BY <2>1, <2>4, <2>7, WalkAssistant
  <2>. QED  BY <2>2, <2>5, <2>6, <2>7
<1>3. N \in S
  <2>1. N \in 0..N
    BY <1>0
  <2>. HIDE DEF N, S
  <2>. QED  BY <1>0, <1>1, <1>2, <2>1, Counting
<1>. QED  BY <1>3

\* A conversation the validator accepts pairs every call with one result.
LEMMA ValidIsPaired == ASSUME TypeOK, Valid(messages) PROVE Paired
<1>. DEFINE N == Len(messages)
<1>0. N \in Nat /\ DOMAIN messages = 1..N
  BY DEF TypeOK
<1>1. PICK s \in [0..N -> States] :
        /\ s[0] = Fresh
        /\ \A n \in 1..N : s[n] = Check(s[n - 1], messages[n])
        /\ s[N] = Checked(messages)
  BY CheckedWalk DEF TypeOK
<1>2. s[N].ok /\ s[N].pending = {}
  BY <1>1 DEF Valid
<1>3. Walked(N, s[N])
  BY <1>1, <1>2, WalkedAll
<1>4. ASSUME NEW i \in 1..N, messages[i].role = "assistant", NEW id \in IdsOf(messages[i])
      PROVE  Followed(i, id)
  <2>1. Issues(i, id) /\ id \in Ids
    BY <1>4, MessageTyped DEF Issues
  <2>2. ClosedAt(N, i, id)
    BY <1>2, <1>3, <2>1 DEF Walked
  <2>3. PICK j \in (i + 1)..N :
          /\ Tells(j, id) /\ \A l \in 1..N : Tells(l, id) => l = j
          /\ \A k \in (i + 1)..(j - 1) : ~Asks(k)
    BY <2>2 DEF ClosedAt
  <2>4. j \in 1..N /\ j > i
    BY <1>0, <2>3
  <2>5. Results(id) = {j}
    BY <1>0, <2>3, <2>4 DEF Results, Tells
  <2>. QED  BY <1>0, <2>3, <2>4, <2>5 DEF Followed, Asks
<1>5. \A j \in 1..N : messages[j].role = "tool" =>
        \E i \in 1..(j - 1) : Issues(i, messages[j].id)
  BY <1>3 DEF Walked
<1>. HIDE DEF N
<1>. QED  BY <1>0, <1>4, <1>5 DEF Paired

-----------------------------------------------------------------------------
\* The other way round: the walk over a conversation whose calls are paired and whose
\* ids are unique refuses no message, and leaves nothing pending.
Standing(n, s) ==
    /\ s.ok /\ Completes(n, s)
    /\ \A id \in Ids : id \in s.pending <=>
         (\E i \in 1..n : Issues(i, id)) /\ \A j \in 1..n : ~Tells(j, id)

LEMMA Pairs ==
  ASSUME TypeOK, Paired
  PROVE  /\ \A i \in 1..Len(messages), id \in Ids : Issues(i, id) =>
              \E j \in (i + 1)..Len(messages) :
                /\ \A l \in 1..Len(messages) : Tells(l, id) <=> l = j
                /\ \A k \in (i + 1)..(j - 1) : ~Asks(k)
         /\ \A j \in 1..Len(messages) : messages[j].role = "tool" =>
              \E i \in 1..(j - 1) : Issues(i, messages[j].id)
<1>. DEFINE N == Len(messages)
<1>0. N \in Nat /\ DOMAIN messages = 1..N
  BY DEF TypeOK
<1>1. ASSUME NEW i \in 1..N, NEW id \in Ids, Issues(i, id)
      PROVE  \E j \in (i + 1)..N :
                /\ \A l \in 1..N : Tells(l, id) <=> l = j
                /\ \A k \in (i + 1)..(j - 1) : ~Asks(k)
  <2>1. Followed(i, id)
    BY <1>0, <1>1 DEF Paired, Issues
  <2>2. PICK j \in 1..N : /\ Results(id) = {j} /\ j > i
                          /\ \A k \in (i + 1)..(j - 1) : messages[k].role # "assistant"
    BY <1>0, <2>1 DEF Followed
  <2>3. j \in (i + 1)..N
    BY <1>0, <2>2
  <2>4. \A l \in 1..N : Tells(l, id) <=> l \in Results(id)
    BY <1>0 DEF Results, Tells
  <2>5. \A l \in 1..N : Tells(l, id) <=> l = j
    BY <2>2, <2>4
  <2>. QED  BY <2>2, <2>3, <2>5 DEF Asks
<1>2. \A j \in 1..N : messages[j].role = "tool" =>
        \E i \in 1..(j - 1) : Issues(i, messages[j].id)
  BY <1>0 DEF Paired
<1>. QED  BY <1>1, <1>2

\* Calls with unique ids are as many as their ids.
LEMMA AsManyIds ==
  ASSUME TypeOK, IdsUnique, NEW n \in 1..Len(messages), messages[n].role = "assistant"
  PROVE  Cardinality(IdsOf(messages[n])) = Len(messages[n].calls)
<1>. DEFINE calls == messages[n].calls
            K == 1..Len(calls)
            f == [k \in K |-> calls[k].id]
            T == IdsOf(messages[n])
<1>1. calls \in Seq(ToolCalls)
  BY MessageTyped
<1>2. DOMAIN calls = K /\ Len(calls) \in Nat
  BY <1>1
<1>3. T = {calls[k].id : k \in K}
  BY <1>2 DEF IdsOf
<1>4. ASSUME NEW k \in K, NEW l \in K, f[k] = f[l] PROVE k = l
  <2>1. <<n, k>> \in Made(messages) /\ <<n, l>> \in Made(messages)
    BY MadeIs DEF TypeOK
  <2>2. CallAt(messages, <<n, k>>).id = calls[k].id /\ CallAt(messages, <<n, l>>).id = calls[l].id
    BY DEF CallAt
  <2>3. <<n, k>> = <<n, l>>
    BY <1>4, <2>1, <2>2 DEF IdsUnique, SameId
  <2>. QED  BY <2>3
<1>5. f \in [K -> T]
  BY <1>3
<1>6. \A t \in T : \E k \in K : f[k] = t
  BY <1>3
<1>7. IsFiniteSet(K) /\ Cardinality(K) = Len(calls)
  <2>1. ASSUME NEW l \in Nat PROVE IsFiniteSet(1..l) /\ Cardinality(1..l) = l
    <3>1. 1 \in Int /\ l \in Int /\ (IF 1 > l THEN 0 ELSE l - 1 + 1) = l
      OBVIOUS
    <3>2. IsFiniteSet(1..l) /\ Cardinality(1..l) = IF 1 > l THEN 0 ELSE l - 1 + 1
      BY <3>1, FS_Interval
    <3>. QED  BY <3>1, <3>2
  <2>. QED  BY <1>2, <2>1
<1>8. \A k, l \in K : f[k] = f[l] => k = l
  BY <1>4
<1>. HIDE DEF f, T, K
<1>9. f \in Bijection(K, T)
  BY <1>5, <1>6, <1>8, Fun_IsBij
<1>10. ExistsBijection(K, T)
  BY <1>9 DEF ExistsBijection
<1>. QED  BY <1>7, <1>10, FS_Bijection DEF T

LEMMA StandTool ==
  ASSUME TypeOK, Paired, NEW n \in 1..Len(messages), NEW s \in States, Standing(n - 1, s),
         messages[n].role = "tool"
  PROVE  Standing(n, Check(s, messages[n]))
<1>. DEFINE m == messages[n]
            t == Check(s, m)
            N == Len(messages)
<1>0. N \in Nat
  BY DEF TypeOK
<1>1. m.id \in Ids /\ t.pending = s.pending \ {m.id} /\ (t.ok <=> s.ok /\ m.id \in s.pending)
  BY MessageTyped DEF Check
<1>2. \A id : Tells(n, id) <=> id = m.id
  BY DEF Tells
<1>3. ~Asks(n) /\ \A id : ~Issues(n, id)
  BY DEF Asks, Issues
<1>4. Completes(n, t)
  BY CompletesStep DEF Standing
<1>5. \E i \in 1..(n - 1) : Issues(i, m.id)
  BY Pairs
<1>6. ASSUME NEW j \in 1..(n - 1) PROVE ~Tells(j, m.id)
  <2>1. PICK i \in 1..(n - 1) : Issues(i, m.id)
    BY <1>5
  <2>2. i \in 1..N /\ j \in 1..N /\ n \in 1..N /\ j # n
    BY <1>0
  <2>3. Tells(n, m.id)
    BY <1>2
  <2>. QED  BY <1>1, <2>1, <2>2, <2>3, Pairs
<1>. HIDE DEF m, t, N
<1>7. m.id \in s.pending
  BY <1>1, <1>5, <1>6 DEF Standing
<1>8. t.ok
  BY <1>1, <1>7 DEF Standing
<1>9. ASSUME NEW id \in Ids
      PROVE  id \in t.pending <=>
               (\E i \in 1..n : Issues(i, id)) /\ \A j \in 1..n : ~Tells(j, id)
  <2>1. CASE id = m.id
    BY <1>1, <1>2, <2>1
  <2>2. CASE id # m.id
    <3>1. (\E i \in 1..n : Issues(i, id)) <=> \E i \in 1..(n - 1) : Issues(i, id)
      BY <1>3
    <3>2. (\A j \in 1..n : ~Tells(j, id)) <=> \A j \in 1..(n - 1) : ~Tells(j, id)
      BY <1>2, <2>2
    <3>. QED  BY <1>1, <2>2, <3>1, <3>2 DEF Standing
  <2>. QED  BY <2>1, <2>2
<1>10. Standing(n, t)
  BY <1>4, <1>8, <1>9 DEF Standing
<1>. QED  BY <1>10 DEF m, t

LEMMA StandAssistant ==
  ASSUME TypeOK, Paired, IdsUnique, NEW n \in 1..Len(messages), NEW s \in States,
         Standing(n - 1, s), messages[n].role = "assistant"
  PROVE  Standing(n, Check(s, messages[n]))
<1>. DEFINE m == messages[n]
            t == Check(s, m)
            N == Len(messages)
<1>0. N \in Nat
  BY DEF TypeOK
<1>1. /\ t.ok <=> /\ s.ok /\ s.pending = {} /\ Cardinality(IdsOf(m)) = Len(m.calls)
                  /\ IdsOf(m) \cap s.completed = {}
      /\ t.pending = IdsOf(m)
  BY DEF Check
<1>2. /\ Asks(n) /\ \A id : ~Tells(n, id)
      /\ \A id : Issues(n, id) <=> id \in IdsOf(m)
      /\ IdsOf(m) \subseteq Ids
  BY MessageTyped DEF Tells, Asks
<1>3. Completes(n, t) /\ Completes(n - 1, s)
  BY CompletesStep DEF Standing
<1>4. Cardinality(IdsOf(m)) = Len(m.calls)
  BY AsManyIds
<1>. HIDE DEF m, t
<1>5. s.pending = {}
  <2>. SUFFICES ASSUME NEW id \in s.pending PROVE FALSE
    OBVIOUS
  <2>0. id \in Ids
    BY DEF States
  <2>1. PICK i \in 1..(n - 1) : Issues(i, id)
    BY <2>0 DEF Standing
  <2>2. \A j \in 1..(n - 1) : ~Tells(j, id)
    BY <2>0 DEF Standing
  <2>3. i \in 1..N
    BY <1>0, <2>1
  <2>4. PICK j \in (i + 1)..N : /\ \A l \in 1..N : Tells(l, id) <=> l = j
                                /\ \A k \in (i + 1)..(j - 1) : ~Asks(k)
    BY <2>0, <2>1, <2>3, Pairs
  <2>5. j \in 1..N /\ Tells(j, id)
    BY <1>0, <2>3, <2>4
  <2>6. j > n
    BY <1>0, <1>2, <2>2, <2>5
  <2>7. n \in (i + 1)..(j - 1)
    BY <1>0, <2>1, <2>4, <2>6
  <2>. QED  BY <1>2, <2>4, <2>7
<1>6. ASSUME NEW id \in IdsOf(m) PROVE \A j \in 1..n : ~Tells(j, id)
  <2>1. id \in Ids /\ Issues(n, id)
    BY <1>2
  <2>2. PICK j \in (n + 1)..N : \A l \in 1..N : Tells(l, id) <=> l = j
    BY <2>1, Pairs
  <2>3. \A l \in 1..n : l \in 1..N /\ l # j
    BY <1>0, <2>2
  <2>. QED  BY <2>2, <2>3
<1>7. IdsOf(m) \cap s.completed = {}
  BY <1>2, <1>3, <1>6 DEF Completes
<1>8. t.ok
  BY <1>1, <1>4, <1>5, <1>7 DEF Standing
<1>9. ASSUME NEW id \in Ids
      PROVE  id \in t.pending <=>
               (\E i \in 1..n : Issues(i, id)) /\ \A j \in 1..n : ~Tells(j, id)
  <2>1. CASE id \in IdsOf(m)
    BY <1>1, <1>2, <1>6, <2>1
  <2>2. CASE id \notin IdsOf(m)
    <3>1. ASSUME \E i \in 1..n : Issues(i, id), \A j \in 1..n : ~Tells(j, id)
          PROVE  FALSE
      <4>1. \E i \in 1..(n - 1) : Issues(i, id)
        BY <1>2, <2>2, <3>1
      <4>2. \A j \in 1..(n - 1) : ~Tells(j, id)
        BY <3>1
      <4>. QED  BY <1>5, <4>1, <4>2 DEF Standing
    <3>. QED  BY <1>1, <2>2, <3>1
  <2>. QED  BY <2>1, <2>2
<1>10. Standing(n, t)
  BY <1>3, <1>8, <1>9 DEF Standing
<1>. QED  BY <1>10 DEF m, t

LEMMA StandUser ==
  ASSUME TypeOK, NEW n \in 1..Len(messages), NEW s \in States, Standing(n - 1, s),
         messages[n].role = "user"
  PROVE  Standing(n, s)
<1>1. \A id : ~Issues(n, id) /\ ~Tells(n, id)
  BY DEF Issues, Tells
<1>2. Check(s, messages[n]) = s
  BY DEF Check
<1>3. Completes(n, s)
  BY <1>2, CompletesStep DEF Standing
<1>4. \A id \in Ids : id \in s.pending <=>
        (\E i \in 1..n : Issues(i, id)) /\ \A j \in 1..n : ~Tells(j, id)
  BY <1>1 DEF Standing
<1>. QED  BY <1>3, <1>4 DEF Standing

LEMMA PairedIsValid == ASSUME TypeOK, Paired, IdsUnique PROVE Valid(messages)
<1>. DEFINE N == Len(messages)
<1>0. N \in Nat
  BY DEF TypeOK
<1>1. PICK s \in [0..N -> States] :
        /\ s[0] = Fresh
        /\ \A n \in 1..N : s[n] = Check(s[n - 1], messages[n])
        /\ s[N] = Checked(messages)
  BY CheckedWalk DEF TypeOK
<1>. DEFINE S == {n \in 0..N : Standing(n, s[n])}
<1>2. 0 \in S
  <2>1. Standing(0, Fresh)
    BY DEF Standing, Completes, Fresh
  <2>. QED  BY <1>0, <1>1, <2>1
<1>3. ASSUME NEW n \in 1..N, n - 1 \in S PROVE n \in S
  <2>1. /\ n - 1 \in 0..N /\ n \in 0..N /\ s[n - 1] \in States
        /\ s[n] = Check(s[n - 1], messages[n]) /\ Standing(n - 1, s[n - 1])
    BY <1>0, <1>1, <1>3
  <2>2. messages[n].role \in {"user", "tool", "assistant"}
    BY MessageTyped
  <2>3. CASE messages[n].role = "user"
    <3>1. s[n] = s[n - 1]
      BY <2>1, <2>3 DEF Check
    <3>. QED  BY <2>1, <2>3, <3>1, StandUser
  <2>4. CASE messages[n].role = "tool"
    BY <2>1, <2>4, StandTool
  <2>5. CASE messages[n].role = "assistant"
    BY <2>1, <2>5, StandAssistant
  <2>. QED  BY <2>2, <2>3, <2>4, <2>5
<1>4. N \in S
  <2>1. N \in 0..N
    BY <1>0
  <2>. HIDE DEF N, S
  <2>. QED  BY <1>0, <1>2, <1>3, <2>1, Counting
<1>5. Standing(N, s[N]) /\ s[N] \in States
  BY <1>0, <1>1, <1>4
<1>6. s[N].pending = {}
  <2>. SUFFICES ASSUME NEW id \in s[N].pending PROVE FALSE
    OBVIOUS
  <2>1. id \in Ids
    BY <1>5 DEF States
  <2>2. PICK i \in 1..N : Issues(i, id)
    BY <1>5, <2>1 DEF Standing
  <2>3. \A j \in 1..N : ~Tells(j, id)
    BY <1>5, <2>1 DEF Standing
  <2>4. PICK j \in (i + 1)..N : \A l \in 1..N : Tells(l, id) <=> l = j
    BY <2>1, <2>2, Pairs
  <2>5. j \in 1..N
    BY <1>0, <2>2, <2>4
  <2>. QED  BY <2>3, <2>4, <2>5
<1>. QED  BY <1>1, <1>5, <1>6 DEF Valid, Standing

-----------------------------------------------------------------------------
\* A call pending in the active messages has a result, which is empty.
LEMMA PendingIsEmpty ==
  ASSUME TypeOK, Paired, Pending(ActiveMessages(messages)) # {}
  PROVE  \E j \in DOMAIN messages : messages[j].role = "tool" /\ messages[j].out = "empty"
<1>. DEFINE N == Len(messages)
            active == ActiveMessages(messages)
<1>0. N \in Nat /\ DOMAIN messages = 1..N /\ messages \in Seq(Messages)
  BY DEF TypeOK
<1>1. PICK d \in 0..N : ActiveFrom(d)
  BY ActiveIs
<1>2. /\ active \in Seq(Messages) /\ DOMAIN active = 1..(N - d)
      /\ \A i \in 1..(N - d) : active[i] = messages[i + d]
  BY <1>1 DEF ActiveFrom
<1>3. PICK p \in Made(active) : ~Returned(active, CallAt(active, p).id)
  BY DEF Pending
<1>. DEFINE i  == p[1] + d
            id == CallAt(active, p).id
<1>4. /\ p[1] \in 1..(N - d) /\ active[p[1]].role = "assistant"
      /\ p[2] \in 1..Len(active[p[1]].calls) /\ active[p[1]].calls \in Seq(ToolCalls)
      /\ CallAt(active, p) \in ToolCalls
  <2>1. Len(active) = N - d
    BY <1>1 DEF ActiveFrom
  <2>. QED  BY <1>2, <1>3, <2>1, MadeTyped
<1>5. i \in 1..N /\ messages[i] = active[p[1]]
  BY <1>0, <1>2, <1>4
<1>6. id \in Ids /\ id \in IdsOf(messages[i])
  <2>1. p[2] \in DOMAIN messages[i].calls /\ id = messages[i].calls[p[2]].id
    BY <1>4, <1>5 DEF CallAt
  <2>. QED  BY <1>4, <2>1 DEF IdsOf, ToolCalls
<1>7. Issues(i, id)
  BY <1>4, <1>5, <1>6 DEF Issues
<1>. HIDE DEF i, id, active
<1>8. PICK j \in (i + 1)..N : \A l \in 1..N : Tells(l, id) <=> l = j
  BY <1>5, <1>6, <1>7, Pairs
<1>9. j \in 1..N /\ Tells(j, id)
  BY <1>0, <1>5, <1>8
<1>10. j > d
  BY <1>0, <1>4, <1>5, <1>8 DEF i
<1>11. j - d \in 1..(N - d) /\ active[j - d] = messages[j]
  <2>1. j - d \in 1..(N - d) /\ j - d + d = j
    BY <1>0, <1>9, <1>10
  <2>. QED  BY <1>2, <2>1
<1>12. messages[j].out = "empty"
  BY <1>2, <1>3, <1>9, <1>11 DEF Returned, Tells, id
<1>. QED  BY <1>0, <1>9, <1>12 DEF Tells

-----------------------------------------------------------------------------
\* The inductive invariant.
ToolInv == TypeOK /\ Asking /\ Refused /\ TurnInv /\ IdsPlaced /\ SerialWrites /\ NotRepeated

LEMMA InitInv == Init => ToolInv
<1>. SUFFICES ASSUME Init PROVE ToolInv
  OBVIOUS
<1>1. messages = <<User>> /\ Len(messages) = 1 /\ DOMAIN messages = {1}
      /\ messages[1].role = "user"
  BY Roles DEF Init
<1>2. TypeOK
  <2>1. <<User>> \in Seq(Messages)
    BY Roles
  <2>. QED  BY <2>1 DEF Init, TypeOK
<1>3. Made(messages) = {}
  BY <1>1 DEF Made
<1>4. MadeInTurn = {} /\ CallsOfTurn = 0
  <2>1. MadeInTurn = {}
    BY <1>3 DEF MadeInTurn
  <2>. QED  BY <2>1, FS_EmptySet DEF CallsOfTurn
<1>5. TurnInv
  BY <1>4, FS_EmptySet, ToolAssumptions DEF TurnInv, CallsBounded
<1>6. Asking /\ Refused
  BY DEF Init, Asking, Refused, Resting
<1>7. IdsPlaced
  BY <1>3 DEF IdsPlaced
<1>8. SerialWrites /\ NotRepeated
  BY <1>1 DEF SerialWrites, NotRepeated
<1>. QED  BY <1>2, <1>5, <1>6, <1>7, <1>8 DEF ToolInv

LEMMA NextInv == ToolInv /\ [Next]_vars => ToolInv'
BY NextType, NextAsking, NextTurn, NextIds, NextSerial, NextUnrepeated DEF ToolInv, TurnInv

\* What it implies.
LEMMA InvPairs == ToolInv => ForwardedIsPaired
<1>. SUFFICES ASSUME ToolInv, req # None PROVE Paired
  BY DEF ForwardedIsPaired
<1>1. pc \notin Resting
  BY DEF ToolInv, TypeOK, Resting
<1>. QED  BY <1>1, ValidIsPaired DEF ToolInv, Asking

LEMMA InvFresh == ToolInv => IdsFresh
<1>. SUFFICES ASSUME ToolInv, NEW p \in Made(messages), NEW q \in Made(messages), SameId(p, q),
                     CallAt(messages, p).id.path \notin {"fence", "frame"}
              PROVE  FALSE
  BY DEF IdsFresh
<1>1. p = <<p[1], p[2]>> /\ q = <<q[1], q[2]>> /\ p[1] \in Nat /\ q[1] \in Nat
  BY MadeTyped DEF ToolInv, TypeOK
<1>2. CallAt(messages, p).id.at = p[1] - 1 /\ CallAt(messages, p).id.place = p[2]
  BY DEF ToolInv, IdsPlaced, Placed
<1>3. CallAt(messages, q).id.at = q[1] - 1 /\ CallAt(messages, q).id.place = q[2]
  BY DEF ToolInv, IdsPlaced, Placed, SameId
<1>4. p[1] = q[1] /\ p[2] = q[2]
  BY <1>1, <1>2, <1>3 DEF SameId
<1>. QED  BY <1>1, <1>4 DEF SameId

LEMMA InvCause == ToolInv => RefusedForCause
<1>. SUFFICES ASSUME ToolInv, pc = "refused", Paired, IdsUnique
              PROVE  \/ \E j \in DOMAIN messages :
                          messages[j].role = "tool" /\ messages[j].out = "empty"
                     \/ CallsOfTurn >= MaxRounds
  BY DEF RefusedForCause
<1>1. Valid(messages)
  BY PairedIsValid DEF ToolInv
<1>2. ~CanContinue(ActiveMessages(messages))
  BY <1>1 DEF ToolInv, Refused
<1>3. CASE Pending(ActiveMessages(messages)) # {}
  BY <1>3, PendingIsEmpty DEF ToolInv
<1>4. CASE ~UnderLimit(ActiveMessages(messages))
  <2>1. ~(CallsOfTurn < MaxRounds)
    BY <1>4, ActiveCount DEF UnderLimit, ToolInv, TurnInv
  <2>2. CallsOfTurn \in Nat /\ MaxRounds \in Nat
    BY FS_CardinalityType, ToolAssumptions DEF CallsOfTurn, ToolInv, TurnInv
  <2>. QED  BY <2>1, <2>2
<1>. QED  BY <1>2, <1>3, <1>4 DEF CanContinue

-----------------------------------------------------------------------------
LEMMA Invariance == Spec => []ToolInv
BY InitInv, NextInv, PTL DEF Spec

\* The conversation stays one of users' messages, results and limited batches, and a
\* request is at work exactly while its planning mode is known.
THEOREM TypeCorrect == Spec => []TypeOK
<1>1. ToolInv => TypeOK
  BY DEF ToolInv
<1>. QED  BY <1>1, Invariance, PTL

\* Whatever the client sends, ChatHub is asked only about conversations in which every
\* call has exactly one result, before the next call of a model, and every result has
\* its call: what validateToolConversation accepts is what its comment promises.
THEOREM Pairing == Spec => []ForwardedIsPaired
BY Invariance, InvPairs, PTL

\* An id of writeToolResponse made from the place of its call, or of a streamed event,
\* is not given twice in a conversation.
THEOREM FreshIds == Spec => []IdsFresh
BY Invariance, InvFresh, PTL

\* A client that answers every call once, where the ids are unique, is refused only for
\* the rounds of its current turn or for a result that is empty: validateToolConversation
\* accepts whatever is paired.
THEOREM Cause == Spec => []RefusedForCause
BY Invariance, InvCause, PTL

\* CanContinue ends the loop of every user turn, on every path that returns calls.
THEOREM LoopEnds == Spec => []CallsBounded
<1>1. ToolInv => CallsBounded
  BY DEF ToolInv, TurnInv
<1>. QED  BY <1>1, Invariance, PTL

\* limitToolCalls stands on every path that returns calls.
THEOREM WritesAlone == Spec => []SerialWrites
<1>1. ToolInv => SerialWrites
  BY DEF ToolInv
<1>. QED  BY <1>1, Invariance, PTL

\* A call that is completed anywhere in the conversation is not planned again by the
\* paths that filter with the ledger.
THEOREM NoRepetition == Spec => []NotRepeated
<1>1. ToolInv => NotRepeated
  BY DEF ToolInv
<1>. QED  BY <1>1, Invariance, PTL
=============================================================================
