# A TLA+ model of m365-native

m365-native is a gateway written in Go. Clients speak the OpenAI chat, OpenAI
Responses or Anthropic protocol to it; it speaks Microsoft 365 ChatHub
(SignalR frames on a WebSocket) on their behalf, with accounts that people have
signed in over its console. This directory holds TLA+ modules of the parts of
it that have state and concurrency, TLC configurations that check them on small
instances, and TLAPS proofs of most of what they check for every instance.

Paths below are relative to `src/internal/` unless they begin with `src/`.

- [The system](#the-system)
- [Modules and code](#modules-and-code)
- [Runs](#runs)
- [Fairness](#fairness)
- [Proofs](#proofs)
- [Where code and documents differ](#where-code-and-documents-differ)
- [What is not modelled](#what-is-not-modelled)
- [Plan](#plan)

## The system

One process (`src/cmd/server/main.go`) opens its stores and serves HTTP. Every
request is a goroutine; what they share lies behind the mutex of one component
each (the global of the deployments lies behind none), and no component holds two
locks at a time. A lock is never held over a
call to the network, with one exception (the MCP client). So the behaviours
that are hard lie **between** the locked sections: a handler copies a piece of
state, spends seconds to minutes with Microsoft, and then writes something that
depends on the copy. That is why almost every module has one action for each
locked section, and lets everything interleave between two of them.

| Component | State | Operations | Talks to | What is hard |
|---|---|---|---|---|
| Account store (`auth/cache.go`, `auth/token.go`) | list of accounts, `accounts.json` | `Upsert`, `Delete`, `EnsureValid`, `First`, `OpenStore` | identity provider; called by every chat handler, the PKCE login and the console | refresh happens outside the lock; rotation of refresh tokens; stale copies written back; torn files |
| PKCE login (`web/server.go` 359-479) | `Server.pkce`, a map of pending flows | `startPKCE`, `pkceStatus`, `callbackPKCE` | identity provider, account store, console | repeated and overlapping callbacks, expiry, copies written back |
| Session cache (`web/sessions.go`, `web/conversations.go`) | map `session_key` → account and conversation, file | `get`, `upsert`, delete | the three chat handlers | a turn uses its copy for minutes; accounts and entries vanish meanwhile |
| ChatHub client (`chathub/client.go`) | one call: streamed text, deltas, result, tools seen | `chatWithHandlers` | ChatHub, the handlers' callbacks | cursor writes mixed with snapshots; repeated tool calls; silence, drops, deadlines |
| Tool protocol (`web/server.go` 703-1110, `agent_ledger.go`, `tool_state.go`, `settings.go` 231-270 and the parsers) | none of its own: the conversation travels with the client | `openaiChat` | ChatHub client, session cache | several upstream calls per turn; six paths that return calls; ids that must be new; loops |
| Responses adapter (`web/protocol_handlers.go` 39-210) | a pipe and two goroutines per request | `streamResponsesAdapter` | `openaiChat` as the writer of the pipe | partial failure after the first byte, waiting on each other, event grammar |
| MCP client (`mcp/client.go`, `mcp/tools.go`) | one server process, its pipes, the next id, the tool cache | `request`, `RefreshTools`, `Close` | an MCP server on stdio | timed-out requests leave readers behind; ids are not compared; the write happens under the lock |
| Proxy pool (`outbound/pool.go`, `health.go`) | entries with failures and cooldown, `next`, a sticky entry | `pick`, `mark`, `HTTPClient`, `WebSocketDialer`, `Check` | every outbound connection | marks arrive late and in any order; dials share the sticky entry |
| API keys (`web/keys.go`) | list of keys, `api-keys.json`, the path of that file (which is in the file) | `create`, `revoke`, `valid`, `openAPIKeys` | every `/v1/` request, console | every admitted request rewrites the file in place; failed and torn writes; a moved file |
| Administrator sessions (`web/admin_security.go`, the door of `web/server.go`) | password and its file, sessions, failed logins by address | `adminLogin`, `adminMiddleware`, `adminChangePassword`, logout | console | each request takes the lock several times; changes of password overtake logins and visits; a table of attempts that is full |
| Deployments (`web/deployments.go`) | a store opened on demand through an unguarded global, its list, `deployments.json` | `deploymentsAPI`, `deploymentItem`, `deploymentCheck`, `save` | Cloudflare, the deployed Workers, console | a pointer into the list kept over an unlock; saving in a section of its own; two stores |
| Stored responses (`web/protocol_compat.go`, `web/protocol_handlers.go` 212-345) | `responseMessages`: the history of each response | `responses`, `anthropicMessages` and the two conversions | `openaiChat` | what was kept, converted or replayed must pass the validator again; streams and restarts keep nothing |
| Settings and proxy list (`web/settings.go`, `web/proxy_pool.go`, `outbound/proxy.go`) | `settings.json`, settings in memory, the pool | `adminSettings`, `proxyPool`, `ConfigurePool`, `save` | console, proxy pool | three pieces of state, changed one after the other without a common lock |

What makes each of them correct:

- **Account store**: credentials never move between people, an account is filed
  once, a refresh token that is dead has a cause one can name, the file follows
  the memory, a deleted account does not come back stale.
- **PKCE login**: what the console is told is what became of the login, and it
  is told some day.
- **Session cache**: two keys never share a conversation, a conversation is used
  with the account that owns it, the key of an answered turn leads to its
  conversation also after a restart.
- **ChatHub client**: the streamed text is a beginning of the answer, success
  means the whole answer unless ChatHub itself breaks off, every other end is an
  error, no tool call is lost or invented, every call returns.
- **Tool protocol**: only paired histories reach ChatHub, ids are new, the agent
  loop is bounded, a batch with a write is cut to one call, completed calls are
  not planned again, and refusals have a cause.
- **Responses adapter**: the event stream has the grammar clients parse, loses
  nothing, tells an answer from a failure, and ends.
- **MCP client**: a request leaves no lock behind, gets its own answer until a
  timeout or a stray line of the server disturbs the order, and returns.
- **Proxy pool**: no ready proxy is starved, a cooldown is earned by failures, no
  dial stays with a proxy that has just failed.
- **API keys**: a revoked key is never accepted again; without trouble on the disk
  a key is accepted exactly from the report of its creation to that of its
  revocation.
- **Administrator sessions**: whoever is admitted has shown the password in force,
  a restart does not undo a change of it, an address that is on record is locked out
  after the limit.
- **Deployments**: what was reported stays in the list and in the file, in whatever
  order handlers save.
- **Stored responses**: the history kept is the conversation the client has had, and
  a client that keeps to the protocol is refused for named causes only.
- **Settings**: file, memory and pool agree between requests, and what a lone
  request was told stands.

## Modules and code

Shared conventions. An action is one section under the component's mutex (or
one step of a goroutine, or one exchange with the outside); its comment names
the function. Definitions whose comment begins with "A slip" are wrong
variants of the definition that follows them, in the way a maintainer might
write it; no specification uses them, and each of them makes TLC report the
property it is paired with in `PROJECT.json`. `Max...` constants are bounds;
the variables marked "(history)" only record what properties refer to.

**TokenStore** (`auth/cache.go`). `accounts` is `Store.data.Accounts`: a
function from positions, of which only the order matters. `EnsureValid` ends at
its first unlock; `RefreshGranted` and `RefreshFailed` are the exchange outside
the lock, `MarkExpired` and `FinishRefresh` the two ways it comes back, with the
copy `snap` taken before. Logins come from `ExchangeCode` and `FinishLogin`. `Save`
may fail and may leave a file that does not decode, because `os.WriteFile`
truncates and writes in place. The identity provider is external: it may rotate
a refresh token, leave it in force, or rotate it and lose the answer. A token is
the number of the grant it came with, which is enough to know whose it is and
whether it is dead.

**PkceLogin** (`web/server.go` 359-479). A flow is an entry of `pkce`; a callback
is `Callback` (copy under the lock), `ExchangeCode`, `Upsert` (the account store)
and `Fail` or `Finish` (the copy is written back whatever the entry is by then).
Time is whether a flow is older than ten minutes.

**SessionTurns** (`web/sessions.go`, `conversations.go`, `stream.go`, `server.go`).
A turn is `Begin` (copy the entry), `Resolve` (the account), possibly the tool
router, `StartChat`, `ChatAnswered` or `ChatFails`. `"openai"` and `"openaiStream"`
differ in whether they store the conversation; the console's two handlers do what
`"openai"` does without the router. A request may name an account itself
(`Explicit`), and so contradict its key; `crossed` remembers for which conversations
that happened. Accounts come and go as the token store allows.

**ChatPromise** and **ChatHubStream** (`chathub/client.go` 127-365).
`ChatPromise` is what callers rely on: it says nothing of uploads or frames.
`ChatHubStream` is one call from its checks to its return: `Begin`, `Upload` of one
image after the other, `Dial`, the handshake (`Greet`, `Greeted`) and `Ask`, each of
which may fail; then the loop with its three accumulators (`streamed`, `deltas`,
`final`), the tool de-duplication, its deadline and its returns; and ChatHub as the
environment that says an answer letter by letter, in every division into cursor
writes and snapshots. A tool call may stand in an update outside `messages[]`, in
several of its messages, or both; `Told` says how often `onEvent` then hears of it.
`Completion` ends in success also when its error is a string, at whatever point of the
answer: `abrupt` records that, and a completion without a result frame after a
snapshot. It is checked to implement `ChatPromise`: `streamed`, `abrupt`, `outcome`
and `text` are mapped to themselves, `Whole` is the concatenation of the messages,
and `asked` is "no", "whole" or "part" by comparing the attachments annotated in the
payload with the images of the request, so that a payload that lacks one of them is
no step of the promise.
A WebSocket message holds one frame in the model; in the code it may hold several,
which the loop handles one after the other without reading the clock in between.

**ToolProtocol** (`web/tool_state.go`). The messages of a conversation with tools
and `validateToolConversation` as a recursive walk over them (`Checked`), for the next
module and `ResponsesTurns`.

**ToolTurns** (`openaiChat` with the ledger, the validator, the limits and the
parsers). The variables are the conversation a client holds and where the request
stands. A client may append a user message or any tool result, faithful or not.
Each path that returns calls is an action of its own, with the ids it gives: ids
are records of what is hashed into them, so two ids are equal exactly when their
hashes' inputs are. Text, schemas and prompts are abstracted to the batch of calls
that passes the schema. Every answer the upstream may give is in `Batches`.

**ResponsesAdapter** (`streamResponsesAdapter`). The inner goroutine is the
streaming branch of `openaiChat` as far as its lines go; `pipe` holds the one
write in progress (an `io.Pipe` has no buffer); the outer one scans, waits for
`innerDone`, and emits the closing events. `events` is what a client has received.

**McpClient** (`mcp/client.go`). `holder` is the mutex, `inbox` and `out` the
pipes to and from the server, `reader` the goroutine of each request. The pipe to
the server holds `Capacity` units and the line of a call takes `Size[c]` of them, which
may be more; `Write` is one unit of the write under the lock, which waits for room and
pays no heed to the deadline. Notifications (`notify`) are calls without an answer. After a
timeout two readers share one `bufio.Reader`; `RacedRead` is that data race: a
line may be lost, and the loser may find no JSON or an old line in the buffer.
The server reads its pipe unit by unit and answers in order, with a result, an error or
a line that does not decode; it may stop reading, be silent, notify, send stray lines (one
that does not decode, a request of its own) and die. A line that does not decode ends the
reader that meets it, alone or not (`client.go` 100-103).

**ProxyPool** (`outbound/pool.go`, `health.go`). `pick` and `mark` are operators
used by all actions. A cooldown is counted in steps of two seconds up to `Cap`
(two minutes in the code), failures likewise: more failures change nothing.

**ProxySettings** (`web/settings.go`, `web/proxy_pool.go`, `outbound/proxy.go`). A
request is a program over three pieces of state: read the list, swap the pool, get
the settings, list the pool, write the file, set the memory. All settings other
than the pool are one value `rest`. A save that fails leaves the old file, the new one or
one that does not decode, which a start reads as the defaults; `Restart` takes the list
from `M365_PROXY_POOL` when the environment has it (`Envs`). `apart` remembers what such
a save or such a start has set apart.

**KeyPromise** and **ApiKeys** (`web/keys.go`). Each operation is one section of one
lock and writes the whole file; a write may fail before the file is touched, leave
a torn file, or fail after it, and the process may end within it. `KeyPromise` is the
promise by key: unissued, live, revoked, gone, forward only, with `Damage` for what
trouble on the disk may do. `ApiKeys` implements it under a mapping that computes a
key's status from memory and from whether it was ever there. The path of the file is
read out of the file (`keys.go:39`): `Move` takes the file to another place, after
which writes go `astray`, and `Forget` of the promise says what a restart then undoes.

**AdminSessions** (`web/admin_security.go`). A request is its sections under
`Server.mu`: `AskLogin`, `Compare`, `RecordFailure` or `ClearFailures` and
`AddSession`; `Visit` and `EndVisit` (the middleware looks twice: at the session, then
at the password gate); `AskChange`, `CheckCurrent`, `Save` (the file, without the lock)
and `SetPassword`. The time of a login is the one it took when it began. The file holds
a password as it was given and `Loaded` trims it (`Trim`), as `loadAdminPassword` does;
one that is all blanks is no password to it. A session remembers, for the properties, the
password it was opened with, and `wrong` the failures of an address that were recorded,
whatever the entry says.

**Deployments** (`web/deployments.go`). A store is named by the request that opened
it; `Begin` sees whether the global is set and `Publish` sets it, so two requests may
open one each. A check holds a place in the list over the unlock, and an append
either leaves the list where it is or not (`moved`), after which the answer is
written to the old array. `SaveList` is a section of its own.

**ResponsesTurns** (`web/protocol_compat.go`, `protocol_handlers.go` 212-345). A
conversation is a sequence of turns with blocks; `FromItems` and `FromMessage` are the
two conversions to chat messages, `Send` puts them through `ToolProtocol!Valid`, `Answer`
gives text or calls and keeps the history if the code does. The ids of calls are any of
`Ids`, those of earlier calls included: `callID` and `walkNative` hash a call, so that one
made again bears its id again. The clients here answer every call once and may fork,
stream, or replay.

**MCServerTables** checks `ApiKeys`, `AdminSessions` and `Deployments` in one run, and
**MCSessionTurns** checks `SessionTurns` and `ResponsesTurns`, the two memories of
conversations: they share no state and no step, and a behaviour is about one of them.
They extend the modules, and their names do not meet (`KeysInit`, `keyVars`, `DeployInit`,
`ResponsesSpec` and so on), so that what is checked is by definition what is proved.

Each other module `M` has an instance `MCM` that a configuration refers to. The proofs
about a module are in `MProofs`, those about `ApiKeys`, `AdminSessions`, `PkceLogin` and
`Deployments` together in `ServerTablesProofs`, those about `ProxySettings` with those
about `ProxyPool`, those about `ResponsesAdapter` with those about `McpClient`, those
about `ResponsesTurns` with those about `SessionTurns`, and the lemmas about sequences
and recursive definitions that several of them share in `Recursions`.

The modules meet at shared operations instead of importing each other:
`PkceLogin.Upsert` and `SessionTurns.Login/DeleteAccount` are the account store
seen from outside; `ResponsesAdapter.Inner` is `ToolTurns` seen as a writer of
lines, and its failures are those `ChatHubStream` may return; `ProxySettings`
replaces pools of which each is a `ProxyPool`.

## Runs

Run a configuration with `tlc -workers 2 -config X.cfg MCmodule.tla`.

| Run | Configuration | Distinct states | Bounds | What it shows |
|---|---|---|---|---|
| store | `TokenStore.cfg` | 2,357,774 | 2 of 3 people (2 with e-mail, 1 without claims), 2 callers, 3 places, 3 grants, 2 faults | credentials stay with their owner, one entry for each account, a dead refresh token has a named cause, the file follows the memory, nothing comes back stale |
| login | `PkceLogin.cfg` | 594,544 | 2 flows, 2 callbacks at a time, 2 people | what the console is told |
| sessions | `SessionTurns.cfg` | 1,706,074 | 2 turns at a time, 2 keys, 2 accounts, one of them named by requests, 2 conversations, 1 failed save, 1 restart; 1 client, 3 answers with up to 2 calls, 2 ids | conversations, keys and accounts stay together; stored histories are the conversation and pass the validator |
| chathub | `ChatHubStream.cfg` | 281,844 | 12 requests with up to 3 attachments, a remark of 2 and an answer of 3 letters, 2 tools, up to 2 places in `messages[]` of an update, 3 updates without news | the loop implements the promise and returns |
| tools | `ToolTurns.cfg` | 254,527 | 2 tools, 6 messages, limits of 2 | pairing, fresh ids, bounded loop, serial writes, no repetition |
| adapter | `ResponsesAdapter.cfg` | 2,230 | 3 deltas, 3 calls, both call types, long lines | grammar, completeness, terminal event and end of a stream |
| long | `ResponsesAdapter_long.cfg` | - | the same | *violated*: a line over 2 MiB leaves the stream without an end |
| mcp | `McpClient.cfg` | 1,685,747 | 3 requests, one a refresh and one longer than the pipe, 1 notification each way or a stray line | locks, leaked readers, alignment, return |
| stale | `McpClient_stale.cfg` | - | the same | *violated*: after a timeout a request gets the answer of another |
| proxy | `ProxyPool.cfg` | 676,512 | 3 proxies, 1 HTTP client, 2 dials, cooldown up to 2 | round robin, cooldowns, the sticky dialer |
| settings | `ProxySettings.cfg` | 6,349,380 | 2 proxies, 2 requests at a time, a list with a duplicate and a rejected one, starts with and without a list in the environment | when file, memory and pool agree, what a lone request leaves |
| tables | `ServerTables.cfg` | 2,265,386 | 2 keys, 3 failed writes; 2 browsers, 2 addresses with room for 1, 4 passwords, one all blanks and one with blanks around another, 2 changes; 2 requests over 2 Workers, 4 in all, 1 failed write | keys keep their promise; who is admitted, what a restart loads, the login limit; deployments stay |

Why these bounds are enough to meet the interesting cases:

- **store**: the losing interleaving of a refresh needs two callers with a copy of
  one account, the rotation of a token, and a third grant to show that the new one
  is accepted; two faults allow a failed save and then a crash. A wrong match needs
  an entry that is somebody else's (two people), and one whose id is not from a
  claim (the third). The constraint `FewPeople` lets at most two people sign in, and
  only one once there was a fault: two matter where entries are matched, faults where
  file and memory part. People and e-mails are exchanged together by the symmetry,
  callers freely.
- **login**: a second code for the same flow and a code pasted to the other flow
  need two people over one flow; a third callback adds no new pair of copies.
- **sessions**: two overlapping turns, of one key or of two, with the account of the
  first deleted and one restart. Conversations are never given back, so two are
  enough for a wrong one to exist. Requests may name the first account; the
  constraint `OneTrouble` separates what follows from a contradiction from what
  follows from failed saves and restarts. Of the histories, three answers make a fork,
  or a call, its output and the turn after; two ids are two calls at once, or a call made
  again.
- **chathub**: requests with and without credentials, text, and attachments: two images
  and a file between them, or an image and one that does not decode. Three letters, one of them occurring in both messages, make every
  pair of overlapping pieces possible. `SnapshotsOf = {1}` says what is assumed of
  ChatHub: no snapshot of a second message. With the other value the code departs from
  its comments (below). Three updates without news are a call that comes again after it
  was seen, and one of another tool; two messages of one update repeat it within.
- **tools**: six messages hold two user turns with a call and a result each; limits
  of two are reached and passed by a batch.
- **adapter**: three deltas with a blank one at each place; three calls of mixed
  types.
- **mcp**: a timed-out request, the one that gets its answer, and one behind it. The pipe
  holds one unit: it is full when one request has timed out on a server that does not
  read, and the line of one request is longer. One unasked line of the server is enough to
  put every later answer out of step.
- **proxy**: with three entries, one cooling and one failing, the order of the rest
  still matters; a cooldown of two steps distinguishes first from repeated failure.
- **settings**: a list operation, a PUT and a check of the result by a lone request; the
  environment's list is neither what was asked for nor empty.
- **tables**: a revoked and a live key, and a failed write before and after a crash or
  a move; two browsers are a login or a visit and the change that overtakes it, or two
  changes; a limit of two, over two addresses of which the table has room for one;
  two requests open two stores, or are a check and the append that moves the list.
  Of the passwords, `Trim` takes one to nothing and one to another; the constraint
  `FewPasswords` leaves only one of the two in use, and does not let a change choose the
  other, which a restart brings.

`CHECK_DEADLOCK FALSE` is given where the system really stops in the model: the
bounded conversations, conversations ever made and grants run out; a returned
ChatHub call, a finished stream and a set of finished MCP requests have nothing
left to do; after a crash over a torn `accounts.json` the process does not start
again (`main` ends with `log.Fatal`). The tables and the histories reach their bounds on
time, operations and answers. `ProxyPool`, `ProxySettings` and
`PkceLogin` are checked for deadlock.

## Fairness

Only five liveness properties are stated, each under the fairness its code has:

- `McpClient.FairSpec`: goroutines are scheduled, and every request has a deadline
  (`WithDefaultTimeout`, 30 seconds), except while it writes: a write ends only if the
  pipe has room or the server is dead. Nothing is assumed of the server, which is why
  `EveryCallReturns` has an exception: it says that the lock comes free again and again,
  unless a write meets a full pipe that a running server does not read.
- `ChatHubStream.FairSpec`: the steps before the loop end (each has a deadline), the loop runs, the five minutes pass, and a read ends
  within 90 seconds with a frame or an error, because the read deadline is set
  before each. Nothing is assumed of ChatHub, which may send pings for ever.
- `ResponsesAdapter.AdapterFairSpec`: both goroutines are scheduled and the upstream call
  of the inner one returns, which is `EveryCallReturns` of `ChatHubStream`. The
  client is assumed to read its stream.
- `PkceLogin.FairSpec`: the console keeps polling, ten minutes pass, a callback
  ends (its exchange has a deadline). The person need not come back.

`store`, `sessions`, `tools`, `proxy`, `settings` and `tables` check safety only: their
handlers may stop anywhere, and nothing waits for them.

## Proofs

`tlapm M.tla`, for each of the eight modules named in the headings below, checks
every leaf with Z3, Zenon and LS4. A theorem holds for every value of the constants:
any number of keys, accounts, clients, callers, proxies, tools and requests, answers
and conversations of any length, and any bound. Nothing is assumed but the named
assumptions on constants (`TokenStoreAssumptions`, `McpAssumptions`,
`SessionAssumptions`, `PoolAssumptions`, `KeysAssumptions`, `AdminAssumptions`,
`ToolAssumptions`, `ChatHubAssumptions`, `LoginAssumptions`, `DeploymentsAssumptions`,
`SettingsAssumptions`, `AdapterAssumptions`, `ResponsesAssumptions`), which TLC evaluates
for each instance and which say of constants what they are and that `None` or `Nil` is none of the values it stands beside, and what a
theorem itself states. Each module begins with type correctness:
every later step rests on it, and it is proved by one case for each action.

**TokenStoreProofs** (`TokenStore`)

- *TypeCorrect*: `TypeOK` alone is not inductive: `FinishRefresh` builds an account out
  of `snap[c]` and `tok[c]`, which may be `None` as far as `TypeOK` says, and
  `RefreshGranted` looks up the owner of a refresh token. `TypeInv` adds `CallerInv`
  (what a caller's program counter says about its copies) and `OwnInv` (every token in
  sight was issued to a user, and no grant has an owner before it is issued).
- *FileIsCurrent* (`FileHoldsMemory`): inductive by itself; every section that changes
  the list saves it.
- *Appearance* (`AppearsOnlyFresh`, of steps): `FreshInv` says that a refresh token on its
  way from the provider to the store is accepted by the provider and held by nobody but
  the caller that received it, and that nobody holds anything while the process is
  down. No login or refresh can then bring in what is spent.
- *OneEntry* and *Ownership*: if no two users share an e-mail address
  (`EmailsDistinct`), no account is filed twice and no entry or copy mixes two
  people's credentials. `IdInv` says that in memory **and** in the file ids are distinct
  and each entry is `Sound` (a claimed id owns both tokens and carries its own e-mail),
  so is every copy and token set in flight, and a refresh that has been granted is for
  the person whose token was used. The file is part of it because a restart reads it,
  the copies because `MarkExpired` and `FinishRefresh` write from them. `UpsertSound` is
  the central lemma: the first match by id or e-mail has the same id, because a sound
  entry with the same e-mail belongs to the same user. The assumption is needed:
  `Upsert` matches by e-mail (`cache.go:134`), so two users with one address would be
  taken for the same account.
- *DeadTokens* (`DeadTokenExplained`, under `EmailsDistinct` too): `DeadInv` adds that a
  refresh token is filed under one id only, so that a caller that brings the
  replacement of a spent token files it where the spent one is, and that the file
  explains what a restart would read.

**McpClientProofs** (`McpClient` and `ResponsesAdapter`)

- *TypeCorrect*, *LockDiscipline* and *Alignment* (`AlignedUntilDisturbed`). The lock is held
  exactly by the call that writes or waits, and only a request that timed out leaves a
  reader; and while no request has timed out and the server has sent no line that is
  nobody's answer, every request returns the answer to its own id although ids are never
  compared, and a write that has to wait for the server waits for it to read that line or
  notifications, for lines of any length and a pipe of any capacity. `Alignment` rests on
  `AInv`: besides notifications there is at most one line between client and server, whole
  or as far as it is written, or the answer to it, and it belongs to the one request that
  holds the lock; an answer that does not decode is used up by its own reader. `OneReader` and `FreeExpectsNothing` derive
  from the lock discipline that there is only one such request.
- *AdapterTypeCorrect*, *Grammar* (`StreamGrammar`), *Completeness* (`NothingLost`) and
  *Meaning* (`TerminalTellsOutcome`), for answers of any number of pieces and calls, a client
  that leaves at any point, and an upstream that fails at any point. `AdapterInv` has
  four parts besides the types. `Carried`: what the adapter has taken plus the line in the
  pipe is what `Inner` has sent, calls with their numbers. `Halted`: a
  scan ends because a line is too long, which stays in the pipe and makes both wait for
  ever, or because `Inner` closed an empty pipe. `Scanned`: the events written so far lead
  from nothing to the items now open, each delta inside its own item, and carry the text
  taken. `Ended`: a response that is done has the three properties. `Scanned` is kept by
  every event alone (the `Emit` lemmas) and by the closing sequence as a whole
  (`CloseCallGrows`, `ClosingGrows`).

**SessionTurnsProofs** (`SessionTurns` and `ResponsesTurns`)

- *TypeCorrect*, *Isolation*, *Ownership* and *Remembered*, from one invariant
  `SessionInv`: what an entry of the store, an entry **of the file**, or a turn that has
  looked holds is `Bound`, which means the conversation exists, only turns of that key
  have used it, and it was made under the account it is held with unless the key was
  contradicted. Nothing undoes that (`Grow`), so old copies and old files may come back
  at any time. `SavedStands` (without a failed save the file is the memory) carries
  `AnsweredKeyMapped` over a restart.
- *ResponsesTypeCorrect*, *HistoryIsConversation* (`StoredIsConversation`) and *Served*
  (`PoliteIsServed`), for any number of responses, calls of an answer and users at a
  time, from `ResponsesInv`. Of every response its client's conversation `Follows`, which
  means that its conversion is accepted and leaves exactly the calls of the last answer
  open; item by item, only while no answer had two calls. What is kept for it has the same
  atoms (`Kept`) and, like what a request has put through the validation (`Working`), is
  accepted with the same calls open. All of it but the atoms is said of conversations in
  which no id comes back (`Repeats`); one that has come back stays (`RepeatsStay`), so
  that a refusal then has its cause. The calls of an answer that repeats nothing are new
  to the validator, which would refuse an id it knows (`Called`). `AskUser`, `AskTool` and `AskCalls` say what the
  validator makes of one message more, `UserAnswers` what it makes of a whole turn in
  either conversion, and `AtomsJoin` and `AtomsBot` that both conversions of an answer
  have the same atoms. In `RefusedInv` a refusal keeps its cause, because what a client
  was given is never taken back.

**ProxyPoolProofs** (`ProxyPool` and `ProxySettings`)

- *TypeCorrect*, *Fairness*, *RestIsEarned* and *FreshDialer*. `NotStarved` follows from
  `InTurn`: the times an entry was passed over plus its distance from `next` stay below
  the number of entries; `PickTurn` shows that a pick brings every ready entry closer by
  what it adds to the count, and `Places` has the arithmetic modulo N. `CooldownEarned`
  and `StickyIsFresh` are inductive with the types.
- *SettingsTypeCorrect*, *StoresAgree* (`Agreement`) and *RequestStands*
  (`LastRequestStands`), for lists and proxies of any number. The invariant `Consistent` has
  two halves. `Company`: a request marked alone is the only one under way, and where
  requests met nothing is settled any more. `Alone` (with `Before`, `Copying` and `Saving`)
  says what a lone request has done and has yet to do from where it stands, whatever
  state earlier requests left, so that file, memory and pool agree at its end even if
  they did not at its beginning. What a failed save or the environment has set apart
  (`apart`) stays so until then. `KeepingIs` and `DistinctIs` say what `NewPool` makes of a
  list: the same proxies, each once.

**ServerTablesProofs** (`ApiKeys`, `AdminSessions`, `PkceLogin` and `Deployments`)

- *KeysTypeCorrect* and *KeepsPromise*: `ApiKeys` implements `KeyPromise`. The invariant
  `KeysInv` says how far the file may be from the memory: in its place it is the memory
  until a write gave trouble, then never live where the memory is revoked and never
  there where the memory has no key; once moved, it stands still with what has been in
  memory. Every operation, with a write that succeeds, fails or tears, and every
  restart is then a step of the promise or changes nothing it speaks of.
- *AdminTypeCorrect*, *Admission*, *Persistence* and *LimitHolds*, from `AdminInv`: every
  session and every request found right or let in shows the password in force or was
  overtaken (`AllShow`); the file is ahead of the memory only from the write of a change
  to its end, and without overlap there is one such change (`OneChange`, `FileAhead`), with
  what trimming makes of the file in the place of the file; and an address's recorded failures **plus the logins under way that will still count within its
  window** stay below the limit plus the number of clients, because a full entry is
  locked for as long as its window lasts (`AllCounted`). The cardinalities need finitely
  many clients, which `AdminAssumptions` says.
- *LoginTypeCorrect* and *ToldTheTruth* (`ToldTruly`), from `LoginInv`: the copy a callback
  holds names, like the entry it was taken from, only an account that is filed and signed
  in over that flow (`CopiesTrue`), so that it may be written back at any time; what is
  filed and who signed in only grows (`LoginGrows`). Every callback that ends writes the
  entry's status, which is therefore the outcome of the last to end even while others are
  under way.
- *DeployTypeCorrect* and *ReportedStays* (`DeployedStays`). `FileFollows`, as long as no write
  failed and no two requests opened the store at once: whoever has a store has the
  global one, and while it is being opened nobody else is under way (`OneStore`); what a
  handler added and has yet to save is in the list (`Added`); the file holds nothing the
  list has not (`FileWithin`), all that was reported (`FileKeeps`), and, when nobody has
  yet to save, the list itself (`FileSettled`). `Changed` shows that writing through the
  pointer of a check leaves the ids of the list as they are. A step that ends in such a
  state began in one, since a failed write and a second opening are remembered.

**Recursions**: lemmas about recursive functions and `FlattenSeq`. The library's
induction theorems take an operator as a parameter, which the provers cannot
instantiate; `Smallest` (a set of numbers that is not empty has a least one, from the
well-foundedness of `<`) does its work as a statement about sets, and from it follow
`Counting` (induction over a set), `Recursion` (a recursive function over an interval
exists and satisfies its equation), `JoinsFlatten` and `FlattenedPrefixes` (what
`FlattenSeq` returns for a sequence and for its prefixes). `FlattenAppend`, `FlattenConcat`
and `JoinedThree` say the same of a sequence that grows, of two and of three joined, and
`FlattenEachConcat` of the joined images of a sequence's elements, which is what a
conversion of messages is.

**ToolTurnsProofs** (`ToolTurns` and `ToolProtocol`): conversations of any length.

- *Pairing* (`ForwardedIsPaired`): `ValidIsPaired` shows that what
  `validateToolConversation` accepts is paired, by a walk over the messages that relates
  the validator's state after each of them to the places of calls and results so far
  (`WalkTool`, `WalkAssistant`, `WalkUser`, `WalkedAll`).
- *Cause* (`RefusedForCause`) is the other direction: `PairedIsValid` shows that the
  validator accepts whatever is paired, when ids are unique, and `PendingIsEmpty` that
  the ledger then finds nothing pending except an empty result. `Refused` of the
  invariant says that a refused conversation failed one of the two.
- *FreshIds* (`IdsFresh`): `IdsPlaced` says that each id records the place it was made
  for, where its path hashes it.
- *LoopEnds* (`CallsBounded`): `TurnInv` counts the calls of the current turn; a request at
  work was under the limit when it was let in (`Asking`), and gets one batch.
- *WritesAlone* (`SerialWrites`) and *NoRepetition* (`NotRepeated`) are inductive with the
  types, from what each path returns (`LimitedBatch`, `PlannedGives`, `StreamedGives`,
  `FencedGives`, `FramedGives`) and what filtering leaves (`FilteredCalls`).

**ChatHubStreamProofs** (`ChatHubStream`): answers of any number of messages and letters.

- *TypeCorrect* and *CallsCounted* (`ToolsCounted`) assume nothing of ChatHub. *TextFollows*
  (`StreamFollows`) and *KeepsPromise* (the refinement of `ChatPromise`) need `Orderly`
  (snapshots of the first message only) and `Unrepeating`: no beginning of the answer is
  followed at once by itself. Without either of these the code does otherwise than its
  comments say, as noted below for `client.go:307`; the instance that TLC checks has both.
  An abrupt completion needs no assumption: the promise says what is left of it.
- `CallInv` is `TypeOK`, `Prepared` (the docIds are those of the images gone through, all of
  which are when ChatHub is asked) and `Answered` (the text streamed is the text
  revealed; so are the deltas until a snapshot; the result frame brought the whole
  answer). A step of `Update` shows first what is written at the cursor and then what
  the snapshot adds: the former is no continuation of the text so far
  because the answer is `Unrepeating`, the latter always is. For the refinement, each
  action is a step of `ChatPromise` or leaves its variables alone (`ToAsk`, `ToStream`,
  `ToSucceed`).

**Only model-checked**

The liveness properties: the prover does neither fairness nor `ENABLED`. Every safety
property that a run checks is stated by a theorem, except the two that are violated.

The `TypeOK` of a module is an invariant of a run only in `TokenStore`; in the other
modules it says what the variables hold, and serves the proofs. No module declares a
`RECURSIVE` operator.

## Where code and documents differ

Two runs end in a violation and are listed as findings:

- `mcp/client.go:105` says a reader continues "until our response arrives"; it
  stops at the first line with any id (run `stale`).
- `web/protocol_handlers.go:156` says never to leave a stream without a terminal
  event; over a line of more than 2 MiB both goroutines wait for ever (run `long`).

Other departures met while modelling; the models follow the code, and the
properties are stated where they hold:

- `src/README.md:131` says the conversation of a `session_key` is stored. The
  streaming branch of `openaiChat` (`server.go` 851-940) returns without storing,
  and when the router chooses tools it stores the router's own conversation
  (844-846). A turn without a stream that router tools answer (`server.go` 962-970)
  returns before anything is stored. `AnsweredKeyMapped` says which turns store.
- `chathub/client.go:307` says only the unseen suffix is emitted. A cursor write
  that happens to begin with all the text so far is taken for a snapshot, the
  snapshots of a second bot message are appended whole, and without a result frame
  the text of an answer that came with snapshots is doubled (343-345). A tool call
  inside `messages[]` is reported twice, and in several messages of an update more often
  (`stream_events_test.go:19` accepts it); `ToolsCounted` says how often.
- `chathub/client.go:232` says a partial response is never turned into a success; a
  completion frame whose error is a string (337; only an object is taken for one) ends the
  call in success with what came before. `ChatPromise` says of such an `abrupt`
  completion only that no less is returned than was shown.
- `chathub/client.go:231` refuses to turn a dropped socket into a success; the
  Responses adapter completes what was streamed before it (`server.go` 917-919),
  since only the status of the first byte is left to tell. `TerminalTellsOutcome` says
  that this is the only outcome the terminal event gets wrong. Function arguments are sent as a delta twice, under two items
  (`protocol_handlers.go` 134 and 188; `legacy_stream_test.go:41`).
- `agent_ledger_test.go:37` asks that call ids differ across turns. Ids of fenced and
  native calls hash no turn (`fenced_tools.go:25`, `native_tools.go:57`); a client
  that answers them faithfully is refused at the next request. `IdsFresh` is about
  the other paths, `RefusedForCause` about unique ids.
- An empty tool result leaves its call pending, so that the rest of the user turn is
  refused with 409. The router without a stream (`server.go:950`), fenced and native
  calls and the recovery do not filter completed calls.
- A request that names another `accountId` together with a `session_key` continues
  the conversation of one account under another (`server.go:769`), and so do the turns
  after it; `AccountOwnsConversation` says that no other conversation is affected.
- A stored response can become impossible to go on from: the ids of calls are hashes, so
  that a call made again has its old id, and the validator refuses the conversation of a
  client that answered both (`tool_state.go:22`). It is one of the three reasons of
  `PoliteIsServed`.
- A Responses client that replays a turn with several calls item by item is refused:
  every `function_call` item becomes an assistant message of its own
  (`protocol_compat.go:76`), and the second comes while the first is open. A streamed
  response is never kept (`protocol_handlers.go` 212-305), so that its id is unknown
  as `previous_response_id`, like every id after a restart.
- Console: a login that compared the old password before a change of it, and a visit
  between the two looks of the middleware, get through after the change
  (`admin_security.go` 133-170). Two overlapping changes may leave the one in the file
  and the other in memory. A login that began before the window of its address did
  locks the address from its own beginning, so that the lock may be short or over. When
  the table of attempts is full of others, the failures of a further address are not
  recorded (`admin_security.go` 113-115), and it is never locked out.
- Console: `admin_security.go:36` says the persisted password takes precedence over
  bootstrap sources. It is written as it was given (52-57) and kept so in memory (165), but
  trimmed when it is read (37-38), and `validNewAdminPassword` (77-88) lets blanks pass:
  after a restart the password is another one by its blanks, and with nothing but blanks
  the one configured at the start is back. `PasswordKept` says exactly this.
- Settings: `os.WriteFile` (`settings.go:187`) truncates in place, so that a save that fails
  may leave a file that does not decode, or the new one: the request is answered with an
  error, and the next start has the defaults, or what was refused. `Agreement` and
  `LastRequestStands` except the file from such a save on, until a lone request succeeds.
- Deployments: two first requests at once open two stores, and what one of them
  reports is not in the other. The result of a health check is lost when an append
  moved the list (`deployments.go:233`).
- API keys: the file carries its own path (`keys.go:39`). A file moved to where
  `M365_API_KEYS` points goes on being written to its old place, and a restart goes
  back behind every revocation reported since.
- PKCE: a second callback's failure turns "authenticated" into "error"; a callback in
  flight puts an expired flow back; only polling removes entries.
- `ConfigurePool(nil)` leaves a pool that is empty and not nil, so a single proxy from
  the environment is ignored until the next start; `http://` entries are bypassed by
  WebSockets (`pool.go:107`); the ChatHub client keeps the proxies of its start
  (`chathub/client.go:97`), which `settings.go:198` documents.
- Not covered by a property: pongs fail 15 seconds after dialling
  (`chathub/client.go` 157-158, 250), the last eight runes held back are dropped when tool calls follow
  (`server.go` 931-935).

## What is not modelled

| Part | Why |
|---|---|
| Request log, tracing, versions (`debug.go`, `http_trace.go`, `request_id.go`, `version.go`) | no effect on behaviour |
| Prompts, payloads, images, catalog, usage estimates | pure conversions |
| Device code flow (`auth/device.go`) | called by no handler |
| Server start (`src/cmd/server/main.go`) | its effect is in `Init`, and in `OpenStore` and `Restart` of the stores |
| Console pages, Python and browser scripts (`src/web`, `src/*.py`, `src/*.user.js`) | clients and probes of the server |

Within the modelled parts: wording, JSON layout, token estimates and logs are left
out; the labels of a proxy in the console (health, latency, last error) are not
state of `ProxyPool`; the single proxy of the environment is not in
`ProxySettings`; a request that names a conversation itself (`conversation_id`) is
not in `SessionTurns`; system messages are not in `ResponsesTurns`; the rest of a
payload besides its images, the WebSocket URL and the normalised events are not in
`ChatHubStream`; which address a login comes from (`clientIP`) is given in
`AdminSessions`.

## Plan

Done in this order, the most consequential first: `TokenStore` with its proofs;
`McpClient` with its proofs; `ChatPromise` and `ChatHubStream`; `ResponsesAdapter`;
`SessionTurns`; `ToolTurns`; `ProxyPool`; `ProxySettings`; `PkceLogin`.

Then: `ResponsesTurns` over `ToolProtocol`, `KeyPromise` and `ApiKeys`, the bounded pipe of
`McpClient`, `AdminSessions`, `Deployments`, the set-up of a call in `ChatHubStream`, and
requests that contradict their key in `SessionTurns`.

Left of the modelling, by use: the single proxy of the environment beside the pool
(`proxy.go:55`); `SessionTurns` over `TokenStore` in place of `Login` and `DeleteAccount`,
which today give an account the same id again; the request log.

Proved, in this order: `TokenStore`, `McpClient`, then `SessionTurns`, `ProxyPool`,
`ApiKeys`, `AdminSessions`, `ToolTurns`, `ChatHubStream`, `PkceLogin`, `Deployments`,
`ProxySettings`, `ResponsesAdapter` and `ResponsesTurns`.
