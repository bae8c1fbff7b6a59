--------------------------- MODULE ResponsesTurns ---------------------------
(***************************************************************************)
(* The two other protocols on top of openaiChat: the Responses API and the *)
(* Anthropic messages API (internal/web/protocol_compat.go, the handlers   *)
(* responses and anthropicMessages of protocol_handlers.go).               *)
(*                                                                         *)
(* A request is converted into chat messages and put through openaiChat.   *)
(* A Responses client either names the response it goes on from, whose     *)
(* history the gateway kept in memory, or replays the conversation item by *)
(* item; an Anthropic client always replays it.  The clients here keep to  *)
(* the protocol: they answer every call they were given once.  (ToolTurns  *)
(* has the clients that do not, and what openaiChat does in between.)  The *)
(* id of a call is a hash of its name and its arguments, for most calls of *)
(* its place in the answer too: a call made again bears its id again.      *)
(* System messages play no part in the validation and are left out.        *)
(***************************************************************************)
EXTENDS ToolProtocol

CONSTANTS
    Users,       \* requests at the same time
    Protocols,   \* of "previous", "replay" and "anthropic"
    Ids,         \* of calls: what callID and walkNative can make of them
    MaxCalls,    \* bound: calls of one answer
    MaxTurns,    \* bound: answers; they number the responses
    Nil

VARIABLES
    stored,   \* responseMessages: the history kept for a response, or Nil
    given,    \* the conversation up to each response, as its client knows it
    unkept,   \* the responses that were streamed or came before a restart (history)
    turns,    \* answers given
    asked,    \* the request under way of each user, or Nil
    refused   \* why the last request of a user was refused, or Nil

responseVars == <<stored, given, unkept, turns, asked, refused>>

Responses == 1..MaxTurns
Messages ==
    [role : {"user"}] \cup [role : {"tool"}, id : Ids, out : {"done"}]
      \cup [role : {"assistant"}, calls : Seq([id : Ids])]

\* What a client sends and gets, in turns.  A turn of the user is a sequence of
\* blocks: text, the output of a call, or the progress of one; a turn of the
\* assistant is a sequence of calls, or else text.
Block(kind, id)  == [kind |-> kind, id |-> id]
UserTurn(blocks) == [role |-> "user", blocks |-> blocks]
BotTurn(ids)     == [role |-> "assistant", ids |-> ids]
Blocks == [kind : {"output"}, id : Ids] \cup [kind : {"text", "progress"}, id : {Nil}]
Turns  == [role : {"user"}, blocks : Seq(Blocks)] \cup [role : {"assistant"}, ids : Seq(Ids)]
Asked  == [messages : Seq(Messages), conversation : Seq(Turns), keep : BOOLEAN]
Refusals == [why : {"unknown"} \cup Protocols, base : {0} \cup Responses]

\* What is assumed of the constants.
ASSUME ResponsesAssumptions ==
    /\ Protocols \subseteq {"previous", "replay", "anthropic"}
    /\ {MaxCalls, MaxTurns} \subseteq Nat
    /\ Nil \notin Seq(Messages) \cup Seq(Turns) \cup Asked \cup Refusals

ResponsesTyped ==
    /\ stored \in [Responses -> Seq(Messages) \cup {Nil}]
    /\ given \in [Responses -> Seq(Turns) \cup {Nil}]
    /\ unkept \subseteq Responses /\ turns \in 0..MaxTurns
    /\ asked \in [Users -> Asked \cup {Nil}] /\ refused \in [Users -> Refusals \cup {Nil}]

-----------------------------------------------------------------------------
\* responsesRequest.openAI: every item becomes a message of its own, a call the
\* message of an assistant that made this one call; progress becomes nothing.
OneCall(id) == Assistant(<<[id |-> id]>>)
FromBlock(b) ==
    CASE b.kind = "text"     -> <<User>>
      [] b.kind = "output"   -> <<Tool(b.id, "done")>>
      [] b.kind = "progress" -> <<>>
FromItems(turn) ==
    IF turn.role = "user" THEN FlattenSeq([k \in DOMAIN turn.blocks |-> FromBlock(turn.blocks[k])])
    ELSE IF turn.ids = <<>> THEN <<Assistant(<<>>)>>
    ELSE [k \in DOMAIN turn.ids |-> OneCall(turn.ids[k])]

\* The calls of one message, together.
AllCalls(turn) == Assistant([k \in DOMAIN turn.ids |-> [id |-> turn.ids[k]]])

\* anthropicRequest.openAI: the results of a message become messages of their own,
\* before one with the rest of it; the calls of a message stay together.
FromMessage(turn) ==
    IF turn.role = "user"
      THEN FlattenSeq([k \in DOMAIN turn.blocks |->
             IF turn.blocks[k].kind = "output" THEN FromBlock(turn.blocks[k]) ELSE <<>>])
           \o (IF \E k \in DOMAIN turn.blocks : turn.blocks[k].kind = "text"
                 THEN <<User>> ELSE <<>>)
      ELSE <<AllCalls(turn)>>

Converted(protocol, conversation) ==
    FlattenSeq([k \in DOMAIN conversation |->
      IF protocol = "anthropic" THEN FromMessage(conversation[k]) ELSE FromItems(conversation[k])])

-----------------------------------------------------------------------------
ResponsesInit ==
    /\ stored = [r \in Responses |-> Nil] /\ given = [r \in Responses |-> Nil]
    /\ unkept = {} /\ turns = 0
    /\ asked = [c \in Users |-> Nil] /\ refused = [c \in Users |-> Nil]

\* The conversation a client can go on from, and what it says next: text, or the output
\* of every call of the last answer, alone or in another order with progress and text.
Known(base) == IF base = 0 THEN <<>> ELSE given[base]
Open(base)  == IF base = 0 THEN <<>> ELSE Last(given[base]).ids
Inputs(base) ==
    IF Open(base) = <<>> THEN {UserTurn(<<Block("text", Nil)>>)}
    ELSE LET outputs == [k \in DOMAIN Open(base) |-> Block("output", Open(base)[k])] IN
         {UserTurn(outputs),
          UserTurn(Append(<<Block("progress", Nil)>> \o Reverse(outputs), Block("text", Nil)))}

Refuse(c, why, base) ==
    /\ refused' = [refused EXCEPT ![c] = [why |-> why, base |-> base]]
    /\ UNCHANGED <<stored, given, unkept, turns, asked>>

\* A request: the conversion, the history of the response it names, and openaiChat
\* up to the first upstream call.
Send(c) ==
    /\ asked[c] = Nil
    /\ \E base \in {0} \cup {r \in Responses : given[r] # Nil},
          protocol \in Protocols, stream \in BOOLEAN :
       \E input \in Inputs(base) :
         LET conversation == Append(Known(base), input)
             messages ==
               IF protocol = "previous" /\ base # 0
                 THEN stored[base] \o Converted(protocol, <<input>>)
                 ELSE Converted(protocol, conversation) IN
         IF protocol = "previous" /\ base # 0 /\ stored[base] = Nil
           THEN Refuse(c, "unknown", base)
         ELSE IF ~Valid(messages) THEN Refuse(c, protocol, base)
         ELSE /\ asked' = [asked EXCEPT ![c] =
                   [messages |-> messages, conversation |-> conversation,
                    keep |-> protocol # "anthropic" /\ ~stream]]
              /\ refused' = [refused EXCEPT ![c] = Nil]
              /\ UNCHANGED <<stored, given, unkept, turns>>

\* The upstream call fails, or comes back empty: an error, and nothing is kept.
Fail(c) ==
    /\ asked[c] # Nil
    /\ asked' = [asked EXCEPT ![c] = Nil]
    /\ UNCHANGED <<stored, given, unkept, turns, refused>>

\* A slip: only the text of an answer is kept.
HistoryOfText(c, ids) ==
    IF ids = <<>> THEN Append(asked[c].messages, Assistant(<<>>)) ELSE asked[c].messages

\* A slip: what the client sent is kept, without the history before it.
HistoryOfRequest(c, ids) ==
    Append(FromItems(Last(asked[c].conversation)), AllCalls(BotTurn(ids)))

\* What is kept of an answered request: its messages and the answer.
History(c, ids) == Append(asked[c].messages, AllCalls(BotTurn(ids)))

\* The answer, text or calls, whose ids may have been there before.  A Responses
\* request without a stream is kept under the id its client is told; the others are not.
Answer(c) ==
    /\ asked[c] # Nil /\ turns < MaxTurns
    /\ turns' = turns + 1
    /\ \E ids \in SeqOf(Ids, MaxCalls) :
         /\ stored' = IF asked[c].keep THEN [stored EXCEPT ![turns + 1] = History(c, ids)] ELSE stored
         /\ given' = [given EXCEPT ![turns + 1] = Append(asked[c].conversation, BotTurn(ids))]
    /\ unkept' = IF asked[c].keep THEN unkept ELSE unkept \cup {turns + 1}
    /\ asked' = [asked EXCEPT ![c] = Nil]
    /\ UNCHANGED <<refused>>

\* The histories are in memory only.
RestartServer ==
    /\ stored' = [r \in Responses |-> Nil]
    /\ asked' = [c \in Users |-> Nil] /\ refused' = [c \in Users |-> Nil]
    /\ unkept' = {r \in Responses : given[r] # Nil}
    /\ UNCHANGED <<given, turns>>

ResponsesNext ==
    \/ \E c \in Users : Send(c) \/ Fail(c) \/ Answer(c)
    \/ RestartServer

ResponsesSpec == ResponsesInit /\ [][ResponsesNext]_responseVars

-----------------------------------------------------------------------------
\* A conversation in its smallest parts.
Atoms(messages) ==
    FlattenSeq([i \in DOMAIN messages |->
      IF messages[i].role = "assistant" /\ messages[i].calls # <<>>
        THEN [k \in DOMAIN messages[i].calls |-> <<"call", messages[i].calls[k].id>>]
      ELSE IF messages[i].role = "tool" THEN << <<"output", messages[i].id>> >>
      ELSE << <<messages[i].role>> >>])

\* "Retain the normalized history so a subsequent previous_response_id can validate
\* its function_call_output against the original tool call"
\* (protocol_handlers.go:279): what is kept for a response is the conversation its
\* client has had, over all the responses it went on from, forks included.
StoredIsConversation ==
    \A r \in Responses : stored[r] # Nil =>
      Atoms(stored[r]) = Atoms(Converted("replay", given[r]))

\* A client that answers each of its calls once is refused by the conversion and
\* the validation of its messages for three reasons only.
\* It names a response that was streamed, which the gateway never keeps, or one
\* from before a restart; or it replays, item by item, an answer with several
\* calls: as messages of their own, the second call comes while the first is open;
\* or the gateway itself gave two calls of the conversation one id.
ParallelIn(base) ==
    \E k \in DOMAIN given[base] :
      given[base][k].role = "assistant" /\ Len(given[base][k].ids) > 1
Repeats(conversation) ==
    \E i, j \in DOMAIN conversation :
      /\ conversation[i].role = "assistant" /\ conversation[j].role = "assistant"
      /\ \E k \in DOMAIN conversation[i].ids, l \in DOMAIN conversation[j].ids :
           <<i, k>> # <<j, l>> /\ conversation[i].ids[k] = conversation[j].ids[l]
PoliteIsServed ==
    \A c \in Users : refused[c] # Nil =>
      \/ refused[c].why = "unknown" /\ refused[c].base \in unkept
      \/ refused[c].why = "replay" /\ ParallelIn(refused[c].base)
      \/ refused[c].why # "unknown" /\ Repeats(given[refused[c].base])
=============================================================================
