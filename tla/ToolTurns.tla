------------------------------ MODULE ToolTurns ------------------------------
(***************************************************************************)
(* The tool protocol of openaiChat (internal/web/server.go, tool_state.go, *)
(* agent_ledger.go, toolloop.go, fenced_tools.go, native_tools.go).        *)
(*                                                                         *)
(* The gateway keeps nothing between requests: the client sends the whole  *)
(* conversation each time, the gateway checks it, rebuilds a ledger of the *)
(* calls made so far, asks ChatHub (for a routing decision, an answer, or  *)
(* both) and returns calls or an answer, which the client appends.  The    *)
(* client (external) is free: it may add any result, repeat one, forget    *)
(* one, speak in between, and send at any time.                            *)
(***************************************************************************)
EXTENDS ToolProtocol

CONSTANTS
    Calls,       \* what a model asks for: a tool and its arguments
    ReadOnly,    \* the calls whose tool's name looks read-only, and not mutating
    Outcomes,    \* what a tool returns: "done", "empty" or either
    CallLimit,   \* MaxToolCallsPerTurn
    MaxRounds,   \* maxToolRounds()
    MaxBatch,    \* bound: calls in one upstream answer
    MaxMessages, \* bound: messages of the conversation
    None

ASSUME ToolAssumptions ==
    /\ ReadOnly \subseteq Calls /\ None \notin Calls
    /\ Outcomes \subseteq {"done", "empty"}
    /\ CallLimit \in Nat \ {0} /\ MaxRounds \in Nat \ {0}
    /\ MaxBatch \in Nat /\ MaxMessages \in Nat

VARIABLES
    messages,  \* the conversation as the client holds it
    pc,        \* where the request stands
    req        \* planning mode, stream and tool_choice of the request

vars == <<messages, pc, req>>

Request == [mode : {"router", "native"}, stream : BOOLEAN,
            choice : {"auto", "required", "none"}]

\* Call ids.  The planned ones hash the length of the conversation, the path that
\* made them, their place and the call; those of streamed events are new uuids;
\* those read from a fence hash place and call, those from frames only the call.
\* (The hashed completed ids separate nothing the length does not.)
PlannedId(path, at, k, c)  == [path |-> path, at |-> at, place |-> k, call |-> c]
StreamedId(at, k)          == [path |-> "event", at |-> at, place |-> k, call |-> None]
FencedId(k, c)             == [path |-> "fence", at |-> 0, place |-> k, call |-> c]
FrameId(c)                 == [path |-> "frame", at |-> 0, place |-> 0, call |-> c]
StrayId                    == [path |-> "stray", at |-> 0, place |-> 0, call |-> None]

-----------------------------------------------------------------------------
\* buildAgentLedger: the places of the calls made, as message and position; a call is
\* completed by a result that is not empty.  The ledger is asked only about
\* conversations that Valid accepts: an id has one call, and one result after it.
Made(msgs) == UNION {{i} \X DOMAIN msgs[i].calls :
                       i \in {i \in DOMAIN msgs : msgs[i].role = "assistant"}}
CallAt(msgs, p) == msgs[p[1]].calls[p[2]]
Returned(msgs, id) == \E i \in DOMAIN msgs :
                        msgs[i].role = "tool" /\ msgs[i].id = id /\ msgs[i].out # "empty"
Pending(msgs) == {p \in Made(msgs) : ~Returned(msgs, CallAt(msgs, p).id)}
HasCompleted(msgs, call) ==
    \E p \in Made(msgs) :
      CallAt(msgs, p).call = call /\ Returned(msgs, CallAt(msgs, p).id)

LastUser(msgs) == {i \in DOMAIN msgs : /\ msgs[i].role = "user"
                                       /\ \A j \in DOMAIN msgs : msgs[j].role = "user" => j <= i}

\* A slip: the whole conversation counts.
AllMessages(msgs) == msgs

\* activeMessages: from the last message of the user on.
ActiveMessages(msgs) ==
    IF LastUser(msgs) = {} THEN msgs
    ELSE LET i == CHOOSE i \in LastUser(msgs) : TRUE IN SubSeq(msgs, i, Len(msgs))

\* A slip: one round too many.
UnderLimitOrAt(msgs) == Cardinality(Made(msgs)) <= MaxRounds

\* CanContinue, on the active messages: its two refusals.
UnderLimit(msgs) == Cardinality(Made(msgs)) < MaxRounds
CanContinue(msgs) == UnderLimit(msgs) /\ Pending(msgs) = {}

\* A slip: only the calls of the current user turn are filtered.
FilterActive(batch) ==
    FlattenSeq([k \in DOMAIN batch |->
      IF HasCompleted(ActiveMessages(messages), batch[k]) THEN <<>> ELSE <<batch[k]>>])

\* filterCompletedCalls, on the ledger of the whole conversation.
FilterCompleted(batch) ==
    FlattenSeq([k \in DOMAIN batch |->
      IF HasCompleted(messages, batch[k]) THEN <<>> ELSE <<batch[k]>>])

\* A slip: only the first call is looked at.
AdaptiveLimitByFirst(batch) ==
    IF Len(batch) < 2 \/ CallLimit < 2 \/ batch[1] \notin ReadOnly THEN 1 ELSE CallLimit

\* adaptiveToolCallLimit and limitToolCalls.
AdaptiveLimit(batch) ==
    IF Len(batch) < 2 \/ CallLimit < 2 \/ ~(ToSet(batch) \subseteq ReadOnly)
      THEN 1 ELSE CallLimit
Limited(calls, n) == IF Len(calls) > n THEN SubSeq(calls, 1, n) ELSE calls

\* What an upstream answer may ask for.
Batches == SeqOf(Calls, MaxBatch) \ {<<>>}

Init == messages = <<User>> /\ pc = "idle" /\ req = None

-----------------------------------------------------------------------------
Goto(where) == pc' = where /\ UNCHANGED <<messages, req>>

\* The response is sent; the client appends what it brings.
Return(ms) ==
    /\ Len(messages \o ms) <= MaxMessages
    /\ messages' = messages \o ms /\ pc' = "idle" /\ req' = None
Fail       == Return(<<>>)
AnswerText == Return(<<Assistant(<<>>)>>)

\* writeToolResponse: the calls up to the limit, each with its id.
Respond(batch, ids) ==
    LET calls == [k \in DOMAIN batch |-> [id |-> ids[k], call |-> batch[k]]]
    IN  Return(<<Assistant(Limited(calls, AdaptiveLimit(batch)))>>)

\* A slip: the scope of the ids leaves out the length of the conversation.
PlannedUnscoped(batch, path) ==
    Respond(batch, [k \in DOMAIN batch |-> PlannedId(path, 0, k, batch[k])])
Planned(batch, path) ==
    Respond(batch, [k \in DOMAIN batch |-> PlannedId(path, Len(messages), k, batch[k])])
Fenced(batch)   == Respond(batch, [k \in DOMAIN batch |-> FencedId(k, batch[k])])
Framed(batch)   == Respond(batch, [k \in DOMAIN batch |-> FrameId(batch[k])])
Streamed(batch) == Respond(batch, [k \in DOMAIN batch |-> StreamedId(Len(messages), k)])

\* The client sends the conversation: openaiChat up to its first upstream call.
Send ==
    /\ pc = "idle"
    /\ \/ /\ Valid(messages) /\ CanContinue(ActiveMessages(messages))
          /\ \E r \in Request :
               /\ req' = r
               /\ pc' = IF r.mode = "router" /\ r.choice # "none"
                          THEN "routing" ELSE "answering"
       \/ /\ ~Valid(messages) \/ ~CanContinue(ActiveMessages(messages))
          /\ pc' = "refused" /\ UNCHANGED req
    /\ UNCHANGED messages

\* What openaiChat makes of a routing decision that parsed.  With a stream it is
\* filtered; without calls a stream goes on to the answer.  Without a stream it
\* is not; without calls a required one is asked for again, in other words.
Decide(batch) ==
    \/ /\ req.stream
       /\ LET rest == FilterCompleted(batch) IN
          IF rest # <<>> THEN Planned(rest, "stream") ELSE Goto("answering")
    \/ /\ ~req.stream
       /\ IF batch # <<>> THEN Planned(batch, "router")
          ELSE Goto(IF req.choice = "required" THEN "retrying" ELSE "answering")

RouterFails == pc = "routing" /\ Fail
RouterDecides == pc = "routing" /\ \E b \in Batches \cup {<<>>} : Decide(b)
RouterUnparsed == pc = "routing" /\ Goto("repairing")

\* The repair of a decision that did not parse.  If it fails, or does not parse
\* either, a stream goes on to the answer and the others end.
RepairDecides == pc = "repairing" /\ \E b \in Batches \cup {<<>>} : Decide(b)
RepairFails ==
    /\ pc = "repairing"
    /\ \/ req.stream /\ Goto("answering")
       \/ ~req.stream /\ Fail

\* The constrained retry.
Retry ==
    /\ pc = "retrying"
    /\ \/ Fail
       \/ \E b \in Batches :
            FilterCompleted(b) # <<>> /\ Planned(FilterCompleted(b), "retry")

\* The streamed answer: calls in its events, else in its fences, else text.  A
\* fence counts only when the tool choice allows its tool.
AnswerStream ==
    /\ pc = "answering" /\ req.stream
    /\ \/ Fail
       \/ \E b \in Batches : Streamed(b)
       \/ req.choice # "none" /\ \E b \in Batches : Fenced(b)
       \/ AnswerText

\* The answer without a stream: calls in its fences, else in its frames; else, in
\* native mode, the router is asked what the text meant.
Answer ==
    /\ pc = "answering" /\ ~req.stream
    /\ \/ Fail
       \/ req.choice # "none" /\ \E b \in Batches : Fenced(b)
       \/ \E b \in Batches : Framed(b)
       \/ /\ req.mode = "native" /\ req.choice # "none"
          /\ Goto("recovering")
       \/ /\ req.mode = "router" \/ req.choice = "none"
          /\ AnswerText

\* The recovery, with a repair of its own; whatever fails leaves the answer (or,
\* if completionEvidenceAllows does not, a sentence in its place).
Recover ==
    /\ pc = "recovering"
    /\ \/ \E b \in Batches : Planned(b, "recovery")
       \/ AnswerText

-----------------------------------------------------------------------------
\* The client: a message of the user, a result of any call or of none.
Say ==
    /\ pc \in {"idle", "refused"} /\ Len(messages) < MaxMessages
    /\ \/ messages' = Append(messages, User)
       \/ \E id \in {CallAt(messages, p).id : p \in Made(messages)} \cup {StrayId},
             out \in Outcomes : messages' = Append(messages, Tool(id, out))
    /\ pc' = "idle" /\ UNCHANGED req

Next ==
    \/ Send
    \/ RouterFails \/ RouterDecides \/ RouterUnparsed \/ RepairDecides \/ RepairFails
    \/ Retry \/ AnswerStream \/ Answer \/ Recover
    \/ Say

Spec == Init /\ [][Next]_vars

-----------------------------------------------------------------------------
Ids == [path  : {"stream", "router", "retry", "recovery", "event", "fence", "frame", "stray"},
        at    : Nat, place : Nat, call : Calls \cup {None}]
ToolCalls == [id : Ids, call : Calls]
Messages  == [role : {"user"}] \cup [role : {"tool"}, id : Ids, out : Outcomes]
               \cup [role : {"assistant"}, calls : Seq(ToolCalls)]
TypeOK ==
    /\ messages \in Seq(Messages)
    /\ pc \in {"idle", "refused", "routing", "repairing", "retrying", "answering", "recovering"}
    /\ IF pc \in {"idle", "refused"} THEN req = None ELSE req \in Request

\* "Every assistant call must be followed by exactly one matching tool result
\* before another model turn is requested" (tool_state.go:6).
Issues(i, id)  == messages[i].role = "assistant" /\ id \in IdsOf(messages[i])
Results(id)    == {j \in DOMAIN messages : messages[j].role = "tool" /\ messages[j].id = id}
Followed(i, id) ==
    \E j \in DOMAIN messages :
      /\ Results(id) = {j} /\ j > i
      /\ \A n \in (i + 1)..(j - 1) : messages[n].role # "assistant"
Paired ==
    /\ \A i \in DOMAIN messages : messages[i].role = "assistant" =>
         \A id \in IdsOf(messages[i]) : Followed(i, id)
    /\ \A j \in DOMAIN messages : messages[j].role = "tool" =>
         \E i \in 1..(j - 1) : Issues(i, messages[j].id)

\* ... so ChatHub is never asked about a conversation in which a call of the last
\* turn is open, answered twice, or a result answers no call, whatever the client
\* sent.
ForwardedIsPaired == req # None => Paired

\* The ids the gateway gives are new in their conversation, so that a client which
\* answers each of them once is not refused for it: true of those it plans and of
\* those of streamed events ...
SameId(p, q) == p # q /\ CallAt(messages, p).id = CallAt(messages, q).id
IdsFresh ==
    \A p, q \in Made(messages) :
      SameId(p, q) => CallAt(messages, p).id.path \in {"fence", "frame"}

\* What a client relies on that matches results to calls by their ids.
IdsUnique == \A p, q \in Made(messages) : ~SameId(p, q)

\* The calls made since the user last spoke.
MadeInTurn  == {p \in Made(messages) :
                  \A i \in p[1]..Len(messages) : messages[i].role # "user"}
CallsOfTurn == Cardinality(MadeInTurn)

\* A client that kept to the protocol is refused only when the current user turn
\* has used up its rounds, however many calls older turns made, or because a tool
\* returned nothing.
RefusedForCause ==
    pc = "refused" /\ Paired /\ IdsUnique =>
      \/ \E j \in DOMAIN messages : messages[j].role = "tool" /\ messages[j].out = "empty"
      \/ CallsOfTurn >= MaxRounds

\* The agent loop of one user turn ends: whatever the models ask for, on whichever
\* path, and whatever the client sends, it gets at most so many calls.
CallsBounded == CallsOfTurn < MaxRounds + CallLimit

\* "Any write, execution, mutation, or ambiguous tool is serialized conservatively"
\* (settings.go:229): on every path that returns calls.
SerialWrites ==
    \A i \in DOMAIN messages :
      messages[i].role = "assistant" /\ Len(messages[i].calls) > 1 =>
        \A k \in DOMAIN messages[i].calls : messages[i].calls[k].call \in ReadOnly

\* "A completed call is final evidence; do not issue the same name and arguments
\* again" (agent_ledger.go:120): the paths that filter never do, in this user turn
\* or in a later one.
NotRepeated ==
    \A i \in DOMAIN messages : messages[i].role = "assistant" =>
      \A k \in DOMAIN messages[i].calls :
        messages[i].calls[k].id.path \in {"stream", "retry"} =>
          ~HasCompleted(SubSeq(messages, 1, i - 1), messages[i].calls[k].call)
=============================================================================
