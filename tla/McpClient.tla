------------------------------ MODULE McpClient ------------------------------
(***************************************************************************)
(* internal/mcp/client.go: JSON-RPC requests to a stdio MCP server over    *)
(* one pipe each way.  A request holds Client.mu from its write to its     *)
(* return, so requests are serialised; but it leaves the reading to a      *)
(* goroutine of its own, and a request that gives up (its context is done) *)
(* returns without that goroutine, which goes on reading the shared pipe.  *)
(***************************************************************************)
EXTENDS Naturals, Sequences

CONSTANTS
    Calls,          \* the requests and notifications sent over the client's life
    Refreshes,      \* the requests made by RefreshTools
    Notifications,  \* the calls of notify: lines without an id, never answered
    Size,           \* units of the pipe that the line of each call takes
    Capacity,       \* units the pipe to the server holds unread (64 KiB on Linux)
    MaxUnasked,     \* bound: lines the server sends that answer nobody
    None

ASSUME McpAssumptions ==
    /\ Refreshes \subseteq Calls /\ Notifications \subseteq Calls \ Refreshes
    /\ Size \in [Calls -> Nat \ {0}] /\ Capacity \in Nat \ {0}
    /\ MaxUnasked \in Nat
    /\ None \notin Calls

VARIABLES
    holder,    \* the call that holds Client.mu, or None
    closed,    \* Client.closed
    nextID,    \* Client.nextID
    pc,        \* where each call stands
    idOf,      \* the id a request was sent with, 0 before
    left,      \* units of the holder's line still to write
    reader,    \* the goroutine started for a request
    got,       \* the answer in its result channel
    cache,     \* Client.toolCache: unset, the server's tools, or an empty list
    inbox,     \* units in the pipe to the server, which reads one at a time
    out,       \* lines the server wrote and nobody has read
    server,    \* whether the server process runs
    notices, strays  \* unasked lines of the server: notifications, others (histories)

vars == <<holder, closed, nextID, pc, idOf, left, reader, got, cache, inbox, out,
          server, notices, strays>>

\* A line of the server: a result or an error for id, a notification, a line that
\* does not decode ("garbled"; in its id the request it was the answer to, or 0),
\* or a request of the server's own, which has an id but no result.
Line == [kind : {"result", "error", "notice", "garbled", "request"}, id : Nat]
Notice == [kind |-> "notice", id |-> 0]

\* A unit of a line in the pipe to the server.
Unit == [of : Calls, last : BOOLEAN]

Positions == {"idle", "writing", "waiting", "sent", "answered", "error", "timedout"}

TypeOK ==
    /\ holder \in Calls \cup {None}
    /\ closed \in BOOLEAN
    /\ nextID \in Nat \ {0}
    /\ pc \in [Calls -> Positions]
    /\ idOf \in [Calls -> Nat]
    /\ left \in Nat
    /\ reader \in [Calls -> {"none", "reading", "delivered", "failed"}]
    /\ got \in [Calls -> Line]
    /\ cache \in {"unset", "tools", "empty"}
    /\ inbox \in Seq(Unit)
    /\ out \in Seq(Line)
    /\ server \in {"running", "dead"}
    /\ notices \in Nat /\ strays \in Nat

Init ==
    /\ holder = None /\ closed = FALSE /\ nextID = 1
    /\ pc = [c \in Calls |-> "idle"] /\ idOf = [c \in Calls |-> 0] /\ left = 0
    /\ reader = [c \in Calls |-> "none"] /\ got = [c \in Calls |-> Notice]
    /\ cache = "unset" /\ inbox = <<>> /\ out = <<>>
    /\ server = "running" /\ notices = 0 /\ strays = 0

-----------------------------------------------------------------------------
\* request and notify: lock; a request takes an id.  A closed client ends the call.
Begin(c) ==
    /\ holder = None /\ pc[c] = "idle"
    /\ \/ /\ ~closed
          /\ holder' = c /\ left' = Size[c]
          /\ \/ /\ c \notin Notifications
                /\ idOf' = [idOf EXCEPT ![c] = nextID] /\ nextID' = nextID + 1
             \/ c \in Notifications /\ UNCHANGED <<idOf, nextID>>
          /\ pc' = [pc EXCEPT ![c] = "writing"]
       \/ /\ closed
          /\ pc' = [pc EXCEPT ![c] = "error"]
          /\ UNCHANGED <<holder, idOf, nextID, left>>
    /\ UNCHANGED <<closed, reader, got, cache, inbox, out, server, notices,
                   strays>>

\* The line is written, under the lock and without a look at the context, as the
\* pipe has room for it; a line longer than the pipe waits for the server to read
\* its beginning.  Once it is out a reader starts for a request, and notify
\* returns.  A write to a dead server fails.
Write(c) ==
    /\ pc[c] = "writing"
    /\ \/ /\ server = "running" /\ Len(inbox) < Capacity
          /\ inbox' = Append(inbox, [of |-> c, last |-> left = 1])
          /\ left' = left - 1
          /\ \/ left > 1 /\ UNCHANGED <<holder, reader, pc>>
             \/ /\ left = 1 /\ c \notin Notifications
                /\ reader' = [reader EXCEPT ![c] = "reading"]
                /\ pc' = [pc EXCEPT ![c] = "waiting"]
                /\ UNCHANGED holder
             \/ /\ left = 1 /\ c \in Notifications
                /\ pc' = [pc EXCEPT ![c] = "sent"]
                /\ holder' = None
                /\ UNCHANGED reader
       \/ /\ server = "dead"
          /\ pc' = [pc EXCEPT ![c] = "error"]
          /\ holder' = None /\ left' = 0
          /\ UNCHANGED <<inbox, reader>>
    /\ UNCHANGED <<closed, nextID, idOf, got, cache, out, server, notices,
                   strays>>

\* A reader takes the next line: it skips a notification, a line that does not
\* decode ends it, and ANY line with an id is delivered.
Read(c) ==
    /\ reader[c] = "reading" /\ out # <<>>
    /\ out' = Tail(out)
    /\ \/ Head(out).kind = "notice" /\ UNCHANGED <<reader, got>>
       \/ /\ Head(out).kind = "garbled"
          /\ reader' = [reader EXCEPT ![c] = "failed"]
          /\ UNCHANGED got
       \/ /\ Head(out).kind \in {"result", "error", "request"}
          /\ reader' = [reader EXCEPT ![c] = "delivered"]
          /\ got' = [got EXCEPT ![c] = Head(out)]
    /\ UNCHANGED <<holder, closed, nextID, pc, idOf, left, cache, inbox, server,
                   notices, strays>>

\* Two readers race on the bufio.Reader: a line is lost to one that then finds
\* no JSON in what it has, or that finds an old line still in the buffer.
RacedRead(c) ==
    /\ reader[c] = "reading" /\ out # <<>>
    /\ \E d \in Calls \ {c} : reader[d] = "reading"
    /\ out' = Tail(out)
    /\ \/ /\ reader' = [reader EXCEPT ![c] = "failed"]
          /\ UNCHANGED got
       \/ \E old \in {got[d] : d \in {e \in Calls : reader[e] = "delivered"}} :
            /\ reader' = [reader EXCEPT ![c] = "delivered"]
            /\ got' = [got EXCEPT ![c] = old]
    /\ UNCHANGED <<holder, closed, nextID, pc, idOf, left, cache, inbox, server,
                   notices, strays>>

\* The server is gone and its pipe is drained.
ReadEOF(c) ==
    /\ reader[c] = "reading" /\ server = "dead" /\ out = <<>>
    /\ reader' = [reader EXCEPT ![c] = "failed"]
    /\ UNCHANGED <<holder, closed, nextID, pc, idOf, left, got, cache, inbox, out,
                   server, notices, strays>>

\* The request that an id was sent with.
IsRefresh(id) == \E c \in Refreshes : idOf[c] = id

\* A slip: the answer of a refresh is not checked for an error before Replace.
ReturnAnswerUnchecked(c) ==
    /\ pc[c] = "waiting" /\ reader[c] = "delivered"
    /\ pc' = [pc EXCEPT ![c] = "answered"]
    /\ cache' = IF c \notin Refreshes THEN cache
                ELSE IF got[c].kind = "result" /\ IsRefresh(got[c].id) THEN "tools" ELSE "empty"
    /\ holder' = None
    /\ UNCHANGED <<closed, nextID, idOf, left, reader, got, inbox, out, server, notices, strays>>

\* request, the case of an answer: it is decoded without comparing its id; a
\* request of the server has no result to decode.  RefreshTools then replaces the
\* cached tools by the "tools" member of the result, which is missing when the
\* answer was to another method.
ReturnAnswer(c) ==
    /\ pc[c] = "waiting" /\ reader[c] = "delivered"
    /\ pc' = [pc EXCEPT ![c] = IF got[c].kind = "result" THEN "answered" ELSE "error"]
    /\ cache' = IF c \notin Refreshes \/ got[c].kind # "result" THEN cache
                ELSE IF IsRefresh(got[c].id) THEN "tools" ELSE "empty"
    /\ holder' = None
    /\ UNCHANGED <<closed, nextID, idOf, left, reader, got, inbox, out, server, notices, strays>>

ReturnError(c) ==
    /\ pc[c] = "waiting" /\ reader[c] = "failed"
    /\ pc' = [pc EXCEPT ![c] = "error"]
    /\ holder' = None
    /\ UNCHANGED <<closed, nextID, idOf, left, reader, got, cache, inbox, out, server,
                   notices, strays>>

\* A slip: giving up keeps the lock.
TimeoutKeepsLock(c) ==
    /\ pc[c] = "waiting"
    /\ pc' = [pc EXCEPT ![c] = "timedout"]
    /\ UNCHANGED <<holder, closed, nextID, idOf, left, reader, got, cache, inbox, out,
                   server, notices, strays>>

\* A slip: the context is looked at only between reads.
TimeoutAfterRead(c) ==
    /\ pc[c] = "waiting" /\ reader[c] # "reading"
    /\ pc' = [pc EXCEPT ![c] = "timedout"]
    /\ holder' = None
    /\ UNCHANGED <<closed, nextID, idOf, left, reader, got, cache, inbox, out, server,
                   notices, strays>>

\* request, the case ctx.Done(): the lock is released, the reader stays.
Timeout(c) ==
    /\ pc[c] = "waiting"
    /\ pc' = [pc EXCEPT ![c] = "timedout"]
    /\ holder' = None
    /\ UNCHANGED <<closed, nextID, idOf, left, reader, got, cache, inbox, out, server,
                   notices, strays>>

\* Close waits for the lock, then kills the server.
Close ==
    /\ holder = None /\ ~closed
    /\ closed' = TRUE /\ server' = "dead" /\ inbox' = <<>>
    /\ UNCHANGED <<holder, nextID, pc, idOf, left, reader, got, cache, out,
                   notices, strays>>

\* The server (external) reads its pipe and, at the end of a request, answers it,
\* in order: with a result, an error or something that does not decode.  It may
\* also send notifications and stray lines (a log line on its standard output, a
\* request of its own), stop reading, and die.
Serve ==
    /\ server = "running" /\ inbox # <<>>
    /\ inbox' = Tail(inbox)
    /\ \/ /\ Head(inbox).last /\ Head(inbox).of \notin Notifications
          /\ \E kind \in {"result", "error", "garbled"} :
               out' = Append(out, [kind |-> kind, id |-> idOf[Head(inbox).of]])
       \/ /\ ~Head(inbox).last \/ Head(inbox).of \in Notifications
          /\ UNCHANGED out
    /\ UNCHANGED <<holder, closed, nextID, pc, idOf, left, reader, got, cache, server,
                   notices, strays>>

Notify ==
    /\ server = "running" /\ notices + strays < MaxUnasked
    /\ out' = Append(out, Notice) /\ notices' = notices + 1
    /\ UNCHANGED <<holder, closed, nextID, pc, idOf, left, reader, got, cache, inbox,
                   server, strays>>

Stray ==
    /\ server = "running" /\ notices + strays < MaxUnasked
    /\ \E line \in {[kind |-> "garbled", id |-> 0], [kind |-> "request", id |-> 1]} :
         out' = Append(out, line)
    /\ strays' = strays + 1
    /\ UNCHANGED <<holder, closed, nextID, pc, idOf, left, reader, got, cache, inbox,
                   server, notices>>

ServerDies ==
    /\ server = "running"
    /\ server' = "dead" /\ inbox' = <<>>
    /\ UNCHANGED <<holder, closed, nextID, pc, idOf, left, reader, got, cache, out,
                   notices, strays>>

Reading(c) == Read(c) \/ RacedRead(c) \/ ReadEOF(c)
Returning(c) == ReturnAnswer(c) \/ ReturnError(c)

Next ==
    \/ \E c \in Calls : Begin(c) \/ Write(c) \/ Reading(c) \/ Returning(c) \/ Timeout(c)
    \/ Close \/ Serve \/ Notify \/ Stray \/ ServerDies

Spec == Init /\ [][Next]_vars

\* Goroutines are scheduled, and every context has a deadline (CallTool and
\* ListTools are given one; WithDefaultTimeout makes it 30 seconds).  Nothing is
\* assumed of the server.
FairSpec ==
    /\ Spec
    /\ \A c \in Calls : /\ WF_vars(Write(c)) /\ WF_vars(Reading(c))
                        /\ WF_vars(Returning(c)) /\ WF_vars(Timeout(c))

-----------------------------------------------------------------------------
\* "Ignore server notifications and continue until our response arrives"
\* (client.go:105): a request that returns a result returns the answer to it.
OwnAnswer == \A c \in Calls : pc[c] = "answered" => got[c].id = idOf[c]

\* A write that waits, with the lock, for a server that does not read.
Blocked(c) == pc[c] = "writing" /\ server = "running" /\ Len(inbox) >= Capacity

\* The pipe holds nothing but the beginning of the line of c and notifications.
OnlyItsOwn(c) == \A i \in DOMAIN inbox : inbox[i].of \in Notifications \cup {c}

\* Nobody has given up and the server has sent no line that is nobody's answer.
Undisturbed == strays = 0 /\ \A c \in Calls : pc[c] # "timedout"

\* As long as that is so, answers and requests stay aligned: every request gets its
\* own answer although ids are never compared, the cached tool list is never
\* replaced by the result of something else, and a write that has to wait for the
\* server (client.go:88) waits for it to read that line itself or notifications,
\* never the line of an earlier request.
AlignedUntilDisturbed ==
    Undisturbed => /\ OwnAnswer /\ cache # "empty"
                   /\ \A c \in Calls : Blocked(c) => OnlyItsOwn(c)

\* A reader outlives its request only when the request gave up, so the leaked
\* goroutines (and the answers they will steal) number at most the timeouts.
LeakedReadersGaveUp ==
    \A c \in Calls : reader[c] = "reading" => pc[c] \in {"waiting", "timedout"}

\* The lock is held by the call that writes or waits and by nobody else.
HolderWaits == \A c \in Calls : pc[c] \in {"writing", "waiting"} <=> holder = c

\* A call that gave up or failed leaves nothing behind that blocks the next one
\* or Close: not the lock, and no reader but that of a request that timed out.
LeavesOnlyReaders == HolderWaits /\ LeakedReadersGaveUp

\* Every call that has the lock returns, so the lock comes free again and again,
\* whatever the server answers and whoever reads the answer, but for one cause: a
\* running server that does not read while the pipe is full.  The write then waits
\* for it, past every deadline, and with it whoever wants the lock, Close included.
EveryCallReturns == []<>(holder = None \/ \E c \in Calls : Blocked(c))
=============================================================================
