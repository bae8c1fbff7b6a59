---------------------------- MODULE ChatHubStream ----------------------------
(***************************************************************************)
(* internal/chathub/client.go, chatWithHandlers: the images of a request   *)
(* are uploaded, ChatHub is dialled and asked, and a loop reads SignalR    *)
(* frames, rebuilds the text of the answer from cursor writes and full     *)
(* snapshots, forwards tool calls, and decides when the call has succeeded. *)
(*                                                                         *)
(* The far end (ChatHub, external) is in the same module: it says a list   *)
(* of bot messages letter by letter, in updates that carry new letters     *)
(* (writeAtCursor), a snapshot of the message so far (messages[]), or      *)
(* both, and closes with a result frame (type 2) and a completion (type 3).*)
(***************************************************************************)
EXTENDS Naturals, Sequences, SequencesExt

CONSTANTS
    Requests,      \* the requests that are made, see Request
    Messages,      \* the bot messages of the answer, each a sequence of letters
    SnapshotsOf,   \* the messages of which ChatHub sends snapshots
    Tools,         \* the tool calls the model makes (name and arguments)
    MaxInside,     \* bound: messages of one update that are the same call
    MaxExtra,      \* bound: updates that reveal no letter
    None

\* A request may lack credentials or text.  Of its attachments the images given as
\* data are uploaded, if they decode; "other" ones go into the payload as they are.
Request == [credentials : BOOLEAN, text : BOOLEAN,
            attachments : Seq({"image", "corrupt", "other"})]

ASSUME ChatHubAssumptions ==
    /\ Requests \subseteq Request
    /\ Messages \in Seq(Seq(STRING)) /\ Messages # <<>>
    /\ SnapshotsOf \subseteq DOMAIN Messages
    /\ MaxInside \in Nat /\ MaxExtra \in Nat
    /\ \A r \in Requests : \A D \in SUBSET DOMAIN r.attachments : None # D

VARIABLES
    pc,         \* "start", "uploading", "dialling", "greeting", "asking", then "top"
                \* of the loop, "reading", and in the end "returned"
    req,        \* the request
    handled,    \* attachments the upload has gone through
    docs,       \* attachments with a docId
    asked,      \* ChatHub: the attachments annotated in the payload it got, or None
    streamed,   \* streamedText: everything passed to emitDelta
    deltas,     \* the joined deltas
    final,      \* the message of the type 2 frame
    seen,       \* seenStreamTools
    emitted,    \* events passed to onEvent, of each tool call
    outcome,    \* "pending", "ok" or "error"
    text,       \* Result.Text
    current,    \* ChatHub: the message being said
    said,       \* ChatHub: how much of it the client has been sent
    snapped,    \* ChatHub: it has sent a snapshot
    resultSent, \* ChatHub: the type 2 frame is out
    called,     \* ChatHub: the tool calls it has sent
    inside,     \* ChatHub: how often each has stood in messages[]
    abrupt,     \* ChatHub: it completed without a type 2 frame, giving an error in
                \* words or after a snapshot
    extra,      \* ChatHub: updates so far that revealed no letter
    cancelled,  \* the context is done
    late        \* the five minutes are over

question == <<req, handled, docs, asked>>
answer   == <<streamed, deltas, final, seen, emitted>>
client   == <<pc, question, answer, outcome, text>>
calls    == <<called, inside>>
chatHub  == <<current, said, snapped, resultSent, calls, abrupt, extra>>
clocks   == <<cancelled, late>>
vars     == <<client, chatHub, clocks>>

Whole == FlattenSeq(Messages)
Saying == Messages[current]

\* The call has returned exactly when it has an outcome, and only a success has
\* a text.
TypeOK ==
    /\ pc \in {"start", "uploading", "dialling", "greeting", "asking", "top", "reading",
               "returned"}
    /\ req \in Requests /\ handled \in 0..Len(req.attachments)
    /\ docs \subseteq DOMAIN req.attachments /\ asked \in {None, docs}
    /\ outcome \in {"pending", "ok", "error"}
    /\ pc = "returned" <=> outcome # "pending"
    /\ text # <<>> => outcome = "ok"
    /\ seen \subseteq Tools /\ called \subseteq Tools
    /\ {emitted, inside} \subseteq [Tools -> Nat]
    /\ current \in DOMAIN Messages /\ said \in 0..Len(Saying)
    /\ extra \in 0..MaxExtra
    /\ {snapped, resultSent, abrupt, cancelled, late} \subseteq BOOLEAN

Init ==
    /\ pc = "start" /\ req \in Requests /\ handled = 0 /\ docs = {} /\ asked = None
    /\ streamed = <<>> /\ deltas = <<>> /\ final = <<>>
    /\ seen = {} /\ emitted = [t \in Tools |-> 0] /\ outcome = "pending" /\ text = <<>>
    /\ current = 1 /\ said = 0 /\ snapped = FALSE /\ resultSent = FALSE /\ extra = 0
    /\ called = {} /\ inside = [t \in Tools |-> 0] /\ abrupt = FALSE
    /\ cancelled = FALSE /\ late = FALSE

-----------------------------------------------------------------------------
Return(o, t) ==
    /\ pc' = "returned" /\ outcome' = o /\ text' = t
    /\ UNCHANGED <<question, answer>>
Goto(label) == pc' = label /\ UNCHANGED <<answer, outcome, text>>

-----------------------------------------------------------------------------
\* Up to the send of the payload any step may fail, and the call with it: a server
\* refuses, a deadline passes, the context is done.
SetUpFails ==
    /\ pc \in {"uploading", "dialling", "greeting", "asking"}
    /\ Return("error", <<>>)
    /\ UNCHANGED <<chatHub, clocks>>

\* The checks at the top of chatWithHandlers.
Begin ==
    /\ pc = "start"
    /\ IF req.credentials /\ (req.text \/ req.attachments # <<>>)
         THEN Goto("uploading") /\ UNCHANGED question
         ELSE Return("error", <<>>)
    /\ UNCHANGED <<chatHub, clocks>>

\* uploadAttachments, one attachment: an image gets its docId, one that does not
\* decode ends the call, the others are left as they are.
Upload ==
    /\ pc = "uploading" /\ handled < Len(req.attachments)
    /\ LET k == handled + 1 IN
       IF req.attachments[k] = "corrupt" THEN Return("error", <<>>)
       ELSE /\ handled' = k
            /\ docs' = IF req.attachments[k] = "image" THEN docs \cup {k} ELSE docs
            /\ Goto("uploading") /\ UNCHANGED <<req, asked>>
    /\ UNCHANGED <<chatHub, clocks>>

\* The socket is dialled, then the handshake sent and answered.
Dial ==
    /\ pc = "uploading" /\ handled = Len(req.attachments)
    /\ Goto("dialling") /\ UNCHANGED <<question, chatHub, clocks>>
Greet ==
    /\ pc = "dialling"
    /\ Goto("greeting") /\ UNCHANGED <<question, chatHub, clocks>>
Greeted ==
    /\ pc = "greeting"
    /\ Goto("asking") /\ UNCHANGED <<question, chatHub, clocks>>

\* chatPayload: an image is annotated when it has a docId.
Annotated == {k \in DOMAIN req.attachments : req.attachments[k] = "image" /\ k \in docs}

\* The payload is sent.
Ask ==
    /\ pc = "asking"
    /\ asked' = Annotated
    /\ Goto("top") /\ UNCHANGED <<req, handled, docs, chatHub, clocks>>

SetUp == Begin \/ Upload \/ Dial \/ Greet \/ Greeted \/ Ask \/ SetUpFails

-----------------------------------------------------------------------------

\* A slip: the loop has no deadline of its own.
LoopForever ==
    /\ pc = "top"
    /\ IF cancelled THEN Return("error", <<>>)
       ELSE Goto("reading") /\ UNCHANGED question
    /\ UNCHANGED <<chatHub, clocks>>

\* The head of the loop: past the deadline or with the context done the call
\* ends, else it reads the next message of the socket.
Loop ==
    /\ pc = "top"
    /\ IF late \/ cancelled THEN Return("error", <<>>)
       ELSE Goto("reading") /\ UNCHANGED question
    /\ UNCHANGED <<chatHub, clocks>>

\* A slip: what was streamed before the connection dropped is a success.
ReadFailsPartial ==
    /\ pc = "reading" /\ streamed # <<>>
    /\ Return("ok", streamed)
    /\ UNCHANGED <<chatHub, clocks>>

\* ReadMessage fails: the socket dropped, or 90 seconds went by.
ReadFails ==
    /\ pc = "reading"
    /\ Return("error", <<>>)
    /\ UNCHANGED <<chatHub, clocks>>

\* A slip: a snapshot is emitted whole.
EmitSnapshotWhole(s, w) == s \o w

\* emitSnapshot: what it makes of the text streamed so far.  A piece that begins
\* with that text counts as a snapshot of it; any other piece is appended.  (No
\* callback of the gateway returns an error, so emitting never ends the call.)
EmitSnapshot(s, w) == IF s # <<>> /\ IsPrefix(s, w) THEN w ELSE s \o w

\* An update frame with new letters at the cursor, with a snapshot of the
\* message up to its m-th letter, or with both, cursor first.
Update ==
    /\ pc = "reading" /\ ~resultSent
    /\ \E cursor \in said..Len(Saying), m \in 0..Len(Saying) :
         /\ m = 0 \/ (m >= cursor /\ current \in SnapshotsOf)
         /\ cursor > said \/ m > 0
         /\ LET written  == SubSeq(Saying, said + 1, cursor)
                snapshot == SubSeq(Saying, 1, m) IN
            /\ streamed' = EmitSnapshot(EmitSnapshot(streamed, written), snapshot)
            /\ deltas' = deltas \o written \o snapshot
         /\ said' = IF m > cursor THEN m ELSE cursor
         /\ snapped' = (snapped \/ m > 0)
    /\ extra' = (IF said' = said THEN extra + 1 ELSE extra) /\ extra' <= MaxExtra
    /\ pc' = "top"
    /\ UNCHANGED <<question, final, seen, emitted, outcome, text, current, resultSent, calls,
                   abrupt, clocks>>

\* ChatHub goes on to its next message.
NextMessage ==
    /\ said = Len(Saying) /\ current < Len(Messages) /\ ~resultSent
    /\ current' = current + 1 /\ said' = 0
    /\ UNCHANGED <<client, snapped, resultSent, calls, abrupt, extra, clocks>>

\* An update frame with a tool call, in so many of its messages and perhaps outside
\* them: what onEvent is told of it.  extractToolEvents walks the whole argument and
\* drops a call it has seen; classifyUpdateMessages then reports every call found in
\* messages[], seen or not.
Told(t, times) == emitted[t] + (IF t \in seen THEN 0 ELSE 1) + times

\* A slip: a call found is not remembered.
ToolUpdateForgets(t) ==
    /\ pc = "reading" /\ ~resultSent /\ extra < MaxExtra
    /\ extra' = extra + 1
    /\ \E times \in 0..MaxInside :
         /\ emitted' = [emitted EXCEPT ![t] = Told(t, times)]
         /\ inside' = [inside EXCEPT ![t] = @ + times]
    /\ called' = called \cup {t}
    /\ pc' = "top"
    /\ UNCHANGED <<question, streamed, deltas, final, seen, outcome, text, current, said,
                   snapped, resultSent, abrupt, clocks>>

\* An update with several calls does to each what an update of its own does.
ToolUpdate(t) ==
    /\ pc = "reading" /\ ~resultSent /\ extra < MaxExtra
    /\ extra' = extra + 1
    /\ \E times \in 0..MaxInside :
         /\ emitted' = [emitted EXCEPT ![t] = Told(t, times)]
         /\ inside' = [inside EXCEPT ![t] = @ + times]
    /\ seen' = seen \cup {t} /\ called' = called \cup {t}
    /\ pc' = "top"
    /\ UNCHANGED <<question, streamed, deltas, final, outcome, text, current, said, snapped,
                   resultSent, abrupt, clocks>>

\* A type 2 frame carries the whole answer, whether or not all of it was streamed.
ResultFrame ==
    /\ pc = "reading" /\ ~resultSent
    /\ resultSent' = TRUE
    /\ final' = Whole
    /\ pc' = "top"
    /\ UNCHANGED <<question, streamed, deltas, seen, emitted, outcome, text, current, said,
                   snapped, calls, abrupt, extra, clocks>>

\* The completion frame (type 3): Result.Text is the message of the result frame,
\* or else the joined deltas.  Without a result frame ChatHub has said everything, or
\* it breaks off at any time with an error in words, which is not taken for one: only
\* an error object is.
Completion ==
    /\ pc = "reading"
    /\ \E inWords \in BOOLEAN :
         /\ inWords \/ resultSent \/ (current = Len(Messages) /\ said = Len(Saying))
         /\ abrupt' = (~resultSent /\ (inWords \/ snapped))
    /\ Return("ok", IF final = <<>> THEN deltas ELSE final)
    /\ UNCHANGED <<current, said, snapped, resultSent, calls, extra, clocks>>

\* A completion frame with an error object.
CompletionError ==
    /\ pc = "reading"
    /\ Return("error", <<>>)
    /\ UNCHANGED <<chatHub, clocks>>

\* A ping, a frame that does not parse or one of another type: read and dropped.
OtherFrame ==
    /\ pc = "reading"
    /\ Goto("top") /\ UNCHANGED <<question, chatHub, clocks>>

\* The caller's context is done; five minutes have passed.
Cancel == ~cancelled /\ cancelled' = TRUE /\ UNCHANGED <<client, chatHub, late>>
TimePasses == ~late /\ late' = TRUE /\ UNCHANGED <<client, chatHub, cancelled>>

Frame ==
    \/ Update \/ ResultFrame \/ Completion \/ CompletionError \/ OtherFrame
    \/ \E t \in Tools : ToolUpdate(t)

Next ==
    \/ SetUp \/ Loop \/ ReadFails \/ Frame
    \/ NextMessage \/ Cancel \/ TimePasses

Spec == Init /\ [][Next]_vars

\* The goroutine runs, time passes, and a read ends within 90 seconds, with a
\* frame or without.  Before the loop, every step ends too: the context of every
\* handler has a deadline, which ends an upload and a dial, and the handshake has 45
\* seconds.  Nothing is assumed of ChatHub: it may send pings for ever.
FairSpec ==
    /\ Spec
    /\ WF_vars(SetUp) /\ WF_vars(Loop) /\ WF_vars(ReadFails \/ Frame) /\ WF_vars(TimePasses)

-----------------------------------------------------------------------------
\* The text ChatHub has revealed.
Revealed == FlattenSeq(SubSeq(Messages, 1, current - 1)) \o SubSeq(Saying, 1, said)

\* "Emit only the unseen suffix" (client.go:306): the user has been shown exactly
\* what ChatHub revealed, neither twice nor with a hole, however the letters were
\* divided between cursor writes and snapshots.
StreamFollows == streamed = Revealed

\* No tool call is lost, and however many updates repeat it a call is reported once,
\* and once more each time it stands in messages[] (client.go:270): onEvent turns every
\* report into a call of its own with a fresh id.
ToolsCounted ==
    \A t \in Tools : emitted[t] = inside[t] + (IF t \in called THEN 1 ELSE 0)

\* The question as ChatPromise sees it.
Asked == CASE asked = None -> "no"
           [] asked = {k \in DOMAIN req.attachments : req.attachments[k] = "image"} -> "whole"
           [] OTHER -> "part"

Promise == INSTANCE ChatPromise WITH
             asked <- Asked, streamed <- streamed, abrupt <- abrupt, outcome <- outcome,
             text <- text

\* The call implements what it promises: no payload without the docId of each of
\* its images, no text before it, streamed text that is a beginning of the answer,
\* and success only with the whole of it ("never convert a timeout or dropped
\* WebSocket into a successful partial response", client.go:232), unless ChatHub itself
\* completes abruptly: then the text may break off or repeat, but holds no less than
\* has been shown.
PromiseKept == Promise!Spec

\* Every call returns, whatever ChatHub sends.
EveryCallReturns == <>(pc = "returned")
=============================================================================
