-------------------------- MODULE ResponsesAdapter --------------------------
(***************************************************************************)
(* internal/web/protocol_handlers.go, streamResponsesAdapter: a /responses  *)
(* request with stream=true.  One goroutine runs openaiChat and writes its *)
(* server-sent events into an io.Pipe; the handler scans the pipe line by  *)
(* line and emits Responses events while the answer is still coming, then  *)
(* waits for the goroutine and emits the terminal event.                   *)
(*                                                                         *)
(* A line is what the adapter tells apart: a delta with text (numbered, 0  *)
(* when the text is blank), a delta with a tool call, or anything else.    *)
(***************************************************************************)
EXTENDS Naturals, Sequences, SequencesExt, FiniteSets

CONSTANTS
    MaxParts,   \* bound: text deltas of the inner stream
    MaxCalls,   \* bound: tool calls of one answer
    CallTypes,  \* of "function" and "custom"
    LongLines   \* BOOLEAN: a line may exceed the scanner's 2 MiB

ASSUME AdapterAssumptions ==
    /\ MaxParts \in Nat /\ MaxCalls \in Nat
    /\ CallTypes \subseteq {"function", "custom"}
    /\ LongLines \in BOOLEAN

VARIABLES
    inner,    \* the goroutine: "start", "streaming", "calls", "ending", "closed"
    chat,     \* what the upstream call of the goroutine came to
    status,   \* pipeResponseWriter.status
    numCalls, \* tool calls the goroutine writes, and those written
    written,
    sent,     \* text deltas the goroutine wrote (history)
    pipe,     \* the line being written, in a sequence of at most one
    outer,    \* the handler: "scanning", "waiting" for innerDone, "done"
    scanErr,  \* scanner.Err() # nil
    text,     \* the text collected by the handler
    calls,    \* the handler's calls: index -> type
    events    \* the Responses events emitted

innerVars == <<inner, chat, status, numCalls, written, sent>>
outerVars == <<outer, scanErr, text, calls, events>>
adapterVars == <<innerVars, pipe, outerVars>>

TextLine(n)    == [kind |-> "text", n |-> n, long |-> FALSE]
CallLine(i, t) == [kind |-> t, n |-> i, long |-> FALSE]
OtherLine      == [kind |-> "other", n |-> 0, long |-> FALSE]

\* Items of the response: the message, the call item added while scanning, and
\* the function_call item that the end of the handler makes up anew.
Message    == <<"message", 0>>
Call(i)    == <<"call", i>>
Renamed(i) == <<"renamed", i>>

Event(type, item, data) == [type |-> type, item |-> item, data |-> data]
Created   == Event("created", Message, <<>>)
Failed    == Event("failed", Message, <<>>)

Lines  == [kind : {"text", "other"} \cup CallTypes, n : Nat, long : BOOLEAN]
Items  == {"message", "call", "renamed"} \X Nat
Events == [type : {"created", "added", "textDelta", "argsDelta", "textDone", "argsDone",
                   "itemDone", "completed", "failed"},
           item : Items, data : Seq(Nat) \cup Seq(Items)]

AdapterTyped ==
    /\ inner \in {"start", "streaming", "calls", "ending", "closed"}
    /\ chat \in {"pending", "ok", "failed"}
    /\ status \in {0, 200, 400}
    /\ numCalls \in 0..MaxCalls /\ written \in 0..numCalls
    /\ (inner = "calls" => written < numCalls)
    /\ sent \in Seq(Nat)
    /\ pipe \in {<<>>} \cup {<<line>> : line \in Lines}
    /\ outer \in {"scanning", "waiting", "done"}
    /\ scanErr \in BOOLEAN
    /\ text \in Seq(Nat)
    /\ DOMAIN calls \subseteq 0..(MaxCalls - 1) /\ calls \in [DOMAIN calls -> CallTypes]
    /\ events \in Seq(Events)

AdapterInit ==
    /\ inner = "start" /\ chat = "pending" /\ status = 0
    /\ numCalls = 0 /\ written = 0 /\ sent = <<>>
    /\ pipe = <<>>
    /\ outer = "scanning" /\ scanErr = FALSE /\ text = <<>>
    /\ calls = [i \in {} |-> "function"] /\ events = <<Created>>

-----------------------------------------------------------------------------
\* The goroutine.  A write to the pipe ends when the handler has read it, so the
\* goroutine goes on only when the pipe is empty; any write sets the status.
WriteLine(line) ==
    /\ pipe = <<>>
    /\ \E long \in IF line.kind = "other" THEN {FALSE} ELSE {FALSE, LongLines} :
         pipe' = <<[line EXCEPT !.long = long]>>
    /\ status' = IF status = 0 THEN 200 ELSE status
    /\ UNCHANGED outerVars

\* openaiChat refuses the request, or its tool router fails: http.Error.
Reject ==
    /\ inner = "start" /\ pipe = <<>>
    /\ pipe' = <<OtherLine>> /\ status' = 400
    /\ inner' = "ending" /\ chat' = "failed"
    /\ UNCHANGED <<numCalls, written, sent, outerVars>>

\* The router chose tools: writeToolResponse writes a summary, then the calls.
RouterCalls ==
    /\ inner = "start" /\ WriteLine(TextLine(1)) /\ sent' = <<1>>
    /\ chat' = "ok" /\ inner' = "calls" /\ numCalls' \in 1..MaxCalls
    /\ UNCHANGED written

\* The answer is streamed: ": connected" first.
StreamStart ==
    /\ inner = "start" /\ WriteLine(OtherLine)
    /\ inner' = "streaming"
    /\ UNCHANGED <<chat, numCalls, written, sent>>

\* emitText: text that ChatHub delivered and that is not held back.
StreamText ==
    /\ inner = "streaming" /\ Len(sent) < MaxParts
    /\ \E n \in {0, Len(sent) + 1} : WriteLine(TextLine(n)) /\ sent' = Append(sent, n)
    /\ UNCHANGED <<inner, chat, numCalls, written>>

\* A slip: the early return does not close the pipe.
StreamFailsOpen ==
    /\ inner = "streaming" /\ pipe = <<>>
    /\ chat' = "failed" /\ inner' = "returned"
    /\ UNCHANGED <<status, numCalls, written, sent, pipe, outerVars>>

\* ChatWithEvents fails: the goroutine returns without another byte.
StreamFails ==
    /\ inner = "streaming" /\ pipe = <<>>
    /\ chat' = "failed" /\ inner' = "closed"
    /\ UNCHANGED <<status, numCalls, written, sent, pipe, outerVars>>

\* The answer is complete.  With tool calls only those follow (what was held
\* back is dropped); without, the rest of the text, if any, and [DONE].
StreamToCalls ==
    /\ inner = "streaming" /\ pipe = <<>>
    /\ chat' = "ok" /\ inner' = "calls" /\ numCalls' \in 1..MaxCalls
    /\ UNCHANGED <<status, written, sent, pipe, outerVars>>
StreamEnd ==
    /\ inner = "streaming"
    /\ chat' = "ok" /\ inner' = "ending"
    /\ \/ WriteLine(OtherLine) /\ UNCHANGED sent
       \/ \E n \in {0, Len(sent) + 1} :
            Len(sent) < MaxParts /\ WriteLine(TextLine(n)) /\ sent' = Append(sent, n)
    /\ UNCHANGED <<numCalls, written>>

\* writeToolResponse, one call.
WriteCall ==
    /\ inner = "calls"
    /\ \E t \in CallTypes : WriteLine(CallLine(written, t))
    /\ written' = written + 1
    /\ inner' = IF written + 1 = numCalls THEN "ending" ELSE "calls"
    /\ UNCHANGED <<chat, numCalls, sent>>

\* openaiChat has returned: the pipe is closed, then innerDone.
InnerDone ==
    /\ inner = "ending" /\ pipe = <<>>
    /\ inner' = "closed"
    /\ UNCHANGED <<chat, status, numCalls, written, sent, pipe, outerVars>>

-----------------------------------------------------------------------------
\* A slip of the scan: blank deltas are dropped.
TakeTextUnlessBlank(line) ==
    /\ text' = IF line.n = 0 THEN text ELSE Append(text, line.n)
    /\ events' = IF line.n = 0 THEN events ELSE events
         \o (IF text = <<>> THEN <<Event("added", Message, <<>>)>> ELSE <<>>)
         \o <<Event("textDelta", Message, <<line.n>>)>>
    /\ UNCHANGED calls

\* A text delta is passed on, the first one after the item that will hold it.
TakeText(line) ==
    /\ text' = Append(text, line.n)
    /\ events' = events
         \o (IF text = <<>> THEN <<Event("added", Message, <<>>)>> ELSE <<>>)
         \o <<Event("textDelta", Message, <<line.n>>)>>
    /\ UNCHANGED calls

\* A call is collected, and its arguments are passed on unless it is custom.
TakeCall(line) ==
    /\ calls' = [i \in DOMAIN calls \cup {line.n} |->
                   IF i = line.n THEN line.kind ELSE calls[i]]
    /\ events' = events \o <<Event("added", Call(line.n), <<>>)>>
         \o (IF line.kind = "function"
               THEN <<Event("argsDelta", Call(line.n), <<line.n>>)>> ELSE <<>>)
    /\ UNCHANGED text

\* The handler, one line.
ScanLine ==
    /\ outer = "scanning" /\ pipe # <<>> /\ ~pipe[1].long
    /\ pipe' = <<>>
    /\ LET line == pipe[1] IN
       \/ line.kind = "other" /\ UNCHANGED <<text, calls, events>>
       \/ line.kind = "text" /\ TakeText(line)
       \/ line.kind \in CallTypes /\ TakeCall(line)
    /\ UNCHANGED <<outer, scanErr, innerVars>>

\* The scanner stops at a line over its limit, and leaves the writer blocked.
ScanTooLong ==
    /\ outer = "scanning" /\ pipe # <<>> /\ pipe[1].long
    /\ outer' = "waiting" /\ scanErr' = TRUE
    /\ UNCHANGED <<text, calls, events, pipe, innerVars>>

ScanEOF ==
    /\ outer = "scanning" /\ pipe = <<>> /\ inner = "closed"
    /\ outer' = "waiting"
    /\ UNCHANGED <<scanErr, text, calls, events, pipe, innerVars>>

Blank(t) == \A i \in DOMAIN t : t[i] = 0

\* The items of a finished response and the events that close them.  A custom
\* call is closed under its own id, a function call is added again under a new
\* one, and a message is in the output only when there are no calls.
Item(i) == IF calls[i] = "custom" THEN Call(i) ELSE Renamed(i)

CloseCall(i) ==
    (IF calls[i] = "custom" THEN <<>> ELSE <<Event("added", Renamed(i), <<>>)>>)
    \o <<Event("argsDelta", Item(i), <<i>>), Event("argsDone", Item(i), <<i>>),
         Event("itemDone", Item(i), <<>>)>>
CloseMessage ==
    <<Event("textDone", Message, text), Event("itemDone", Message, <<>>)>>

Output == IF DOMAIN calls = {} THEN <<Message>>
          ELSE [k \in 1..Cardinality(DOMAIN calls) |-> Item(k - 1)]
Closing == IF DOMAIN calls = {} THEN CloseMessage
           ELSE FlattenSeq([k \in 1..Cardinality(DOMAIN calls) |-> CloseCall(k - 1)])
Completed == Event("completed", Message, Output)

\* Slips of the end: it closes a message together with the calls; it forgets that
\* blank text is no answer.
FinishBoth ==
    /\ outer = "waiting" /\ inner = "closed"
    /\ outer' = "done"
    /\ events' = IF scanErr \/ status >= 400 \/ (DOMAIN calls = {} /\ Blank(text))
                   THEN Append(events, Failed)
                   ELSE events \o CloseMessage \o Closing \o <<Completed>>
    /\ UNCHANGED <<scanErr, text, calls, pipe, innerVars>>
FinishBlank ==
    /\ outer = "waiting" /\ inner = "closed"
    /\ outer' = "done"
    /\ events' = IF scanErr \/ status >= 400
                   THEN Append(events, Failed) ELSE events \o Closing \o <<Completed>>
    /\ UNCHANGED <<scanErr, text, calls, pipe, innerVars>>

\* <-innerDone, then the terminal event.
Finish ==
    /\ outer = "waiting" /\ inner = "closed"
    /\ outer' = "done"
    /\ events' = IF scanErr \/ status >= 400 \/ (DOMAIN calls = {} /\ Blank(text))
                   THEN Append(events, Failed) ELSE events \o Closing \o <<Completed>>
    /\ UNCHANGED <<scanErr, text, calls, pipe, innerVars>>

Inner ==
    \/ Reject \/ RouterCalls \/ StreamStart \/ StreamText \/ StreamFails
    \/ StreamToCalls \/ StreamEnd \/ WriteCall \/ InnerDone
Outer == ScanLine \/ ScanTooLong \/ ScanEOF \/ Finish

AdapterNext == Inner \/ Outer

AdapterSpec == AdapterInit /\ [][AdapterNext]_adapterVars

\* Both goroutines are scheduled; the upstream call returns (ChatHubStream,
\* EveryCallReturns).
AdapterFairSpec == AdapterSpec /\ WF_adapterVars(Inner) /\ WF_adapterVars(Outer)

-----------------------------------------------------------------------------
Occurs(type)  == {i \in DOMAIN events : events[i].type = type}
Terminals     == Occurs("completed") \cup Occurs("failed")
Before(i, type) == \E j \in 1..(i - 1) : events[j].type = type /\ events[j].item = events[i].item
IsCompleted   == Occurs("completed") # {}
Streamed(type) == FlattenSeq([i \in DOMAIN events |->
                    IF events[i].type = type THEN events[i].data ELSE <<>>])

\* The events a client parses: one terminal event, the last; an item is added
\* once, and every delta and done of it lies between its adding and its closing,
\* although calls and text are closed by another loop than the one that opened
\* them; and every item of the final output was closed.
StreamGrammar ==
    /\ Terminals \subseteq {Len(events)} /\ (outer = "done" <=> Terminals # {})
    /\ \A i \in Occurs("added") : ~Before(i, "added")
    /\ \A i \in DOMAIN events :
         events[i].type \in {"textDelta", "argsDelta", "textDone", "argsDone", "itemDone"} =>
           Before(i, "added") /\ ~Before(i, "itemDone")
    /\ \A i \in Occurs("completed") : \A k \in DOMAIN events[i].data :
         \E j \in Occurs("itemDone") : events[j].item = events[i].data[k]

\* What crosses the pipe arrives whole and in order: the deltas a client has been
\* sent at the end are those openaiChat wrote, and the text that closes the
\* message is their concatenation.
NothingLost ==
    outer = "done" /\ ~scanErr =>
      /\ Streamed("textDelta") = sent
      /\ \A i \in Occurs("textDone") : events[i].data = sent

\* What the goroutine came to, which the handler learns only from the pipe: an
\* answer that a client can use, or one that broke off after visible text had been
\* passed on, with a status that can no longer change (server.go:917-919).
Answered  == chat = "ok" /\ (numCalls > 0 \/ ~Blank(sent))
BrokenOff == chat = "failed" /\ status < 400 /\ ~Blank(sent)

\* The terminal event tells whether there is an answer: a request refused, an
\* upstream call that fails before any visible text and one that comes to nothing
\* all end in response.failed, an answer in response.completed.  The one case it
\* gets wrong is a stream that breaks off: its beginning is completed as an answer.
TerminalTellsOutcome ==
    outer = "done" => (IsCompleted <=> Answered \/ BrokenOff)

\* "Never leave a Responses stream after response.created without a terminal
\* event" (protocol_handlers.go:156): it holds as long as every line fits the
\* scanner, whatever becomes of the upstream call ...
FittingStreamEnds == <>(scanErr \/ Terminals # {})

\* ... and not of a stream with a longer one.
EveryStreamEnds == <>(Terminals # {})
=============================================================================
