---------------------------- MODULE Deployments ----------------------------
(***************************************************************************)
(* internal/web/deployments.go: the list of deployed Workers, in memory    *)
(* and in deployments.json.  The store is opened by the first request that *)
(* needs it, through a global that no lock guards; a handler changes the   *)
(* list under the store's lock and saves in a section of its own; a health *)
(* check keeps a pointer into the list while it asks the Worker.           *)
(***************************************************************************)
EXTENDS Naturals, Sequences

CONSTANTS
    Requests,   \* handlers that run at the same time
    Workers,    \* the deployments that can be made
    MaxOps,     \* bound: requests begun
    MaxSaveFaults, \* bound: writes of the file that fail or are cut off
    NoStore

\* What is assumed of the constants.
DeploymentsAssumptions ==
    /\ MaxOps \in Nat /\ MaxSaveFaults \in Nat
    /\ NoStore \notin Requests

VARIABLES
    global,   \* deployments: the store every later request will use, or NoStore
    items,    \* the list of each store; a store is named by the request that opened it
    deployFile, \* what deployments.json would be read as
    handler,  \* where a request stands
    ops,      \* requests begun
    deployed, \* the Workers whose deployment was reported done (history)
    split,    \* two stores were open at once (history)
    saveFaults \* writes that failed or were cut off

deployVars == <<global, items, deployFile, handler, ops, deployed, split, saveFaults>>

\* What the handlers change of a record: the active URL and the status.
Record == [id : Workers, url : {"default", "custom"},
           status : {"deployed", "healthy", "unhealthy"}]
New(w) == [id |-> w, url |-> "default", status |-> "deployed"]

NoRequest == [step |-> "idle"]
Kinds == {"add", "put", "check"}
Handler ==
    {NoRequest}
      \cup [step : {"opening"}, kind : Kinds, id : Workers]
      \cup [step : {"opened", "unsaved"}, kind : Kinds, id : Workers, store : Requests]
      \cup [step : {"probing"}, kind : {"check"}, id : Workers, store : Requests,
            place : Nat, moved : BOOLEAN]

DeployTyped ==
    /\ global \in Requests \cup {NoStore}
    /\ items \in [Requests -> Seq(Record)] /\ deployFile \in Seq(Record)
    /\ handler \in [Requests -> Handler]
    /\ ops \in 0..MaxOps /\ saveFaults \in 0..MaxSaveFaults
    /\ deployed \subseteq Workers /\ split \in BOOLEAN

DeployInit ==
    /\ global = NoStore /\ items = [r \in Requests |-> <<>>] /\ deployFile = <<>>
    /\ handler = [r \in Requests |-> NoRequest] /\ ops = 0
    /\ deployed = {} /\ split = FALSE /\ saveFaults = 0

Stage(r)     == handler[r].step
MoveTo(r, s)  == handler' = [handler EXCEPT ![r] = s]
Places(r, w) == {n \in DOMAIN items[r] : items[r][n].id = w}

-----------------------------------------------------------------------------
\* A request comes in and looks at the global.  The global is read and written
\* without a lock: requests that find it nil each read the file into a store.
Begin(r) ==
    /\ Stage(r) = "idle" /\ ops < MaxOps
    /\ ops' = ops + 1
    /\ \E kind \in Kinds, w \in Workers :
         \/ /\ global # NoStore
            /\ MoveTo(r, [step |-> "opened", kind |-> kind, id |-> w, store |-> global])
            /\ UNCHANGED <<items, split>>
         \/ /\ global = NoStore
            /\ MoveTo(r, [step |-> "opening", kind |-> kind, id |-> w])
            /\ items' = [items EXCEPT ![r] = deployFile]
            /\ split' = (split \/ \E s \in Requests : Stage(s) = "opening")
    /\ UNCHANGED <<global, deployFile, deployed, saveFaults>>

Publish(r) ==
    /\ Stage(r) = "opening"
    /\ global' = r
    /\ MoveTo(r, [step |-> "opened", kind |-> handler[r].kind, id |-> handler[r].id, store |-> r])
    /\ UNCHANGED <<items, deployFile, ops, deployed, split, saveFaults>>

Unsaved(r) ==
    [step |-> "unsaved", kind |-> handler[r].kind, id |-> handler[r].id, store |-> handler[r].store]

\* The answer to a POST reports the deployment.
Report(r) == deployed' = IF handler[r].kind = "add" THEN deployed \cup {handler[r].id} ELSE deployed

\* A slip: the deployment is reported and left to the next save.
AddUnsaved(r) ==
    /\ Stage(r) = "opened" /\ handler[r].kind = "add"
    /\ \A list \in {items[s] : s \in Requests} \cup {deployFile} :
         \A n \in DOMAIN list : list[n].id # handler[r].id
    /\ items' = [items EXCEPT ![handler[r].store] = Append(@, New(handler[r].id))]
    /\ Report(r) /\ MoveTo(r, NoRequest)
    /\ UNCHANGED <<global, deployFile, ops, split, saveFaults>>

\* POST: Cloudflare made the Worker (a new one every time), which is appended.
\* When the array has no room the list moves, and the pointers of the checks that
\* are out lead to the old one.
Add(r) ==
    /\ Stage(r) = "opened" /\ handler[r].kind = "add"
    /\ \A list \in {items[s] : s \in Requests} \cup {deployFile} :
         \A n \in DOMAIN list : list[n].id # handler[r].id
    /\ items' = [items EXCEPT ![handler[r].store] = Append(@, New(handler[r].id))]
    /\ \E moves \in BOOLEAN :
         handler' = [s \in Requests |->
           IF s = r THEN Unsaved(r)
           ELSE IF Stage(s) = "probing" /\ handler[s].store = handler[r].store /\ moves
             THEN [handler[s] EXCEPT !.moved = TRUE] ELSE handler[s]]
    /\ UNCHANGED <<global, deployFile, ops, deployed, split, saveFaults>>
AddFails(r) ==
    /\ Stage(r) = "opened" /\ handler[r].kind = "add"
    /\ MoveTo(r, NoRequest)
    /\ UNCHANGED <<global, items, deployFile, ops, deployed, split, saveFaults>>

NotFound(r) ==
    /\ Stage(r) = "opened" /\ handler[r].kind # "add"
    /\ Places(handler[r].store, handler[r].id) = {}
    /\ MoveTo(r, NoRequest)
    /\ UNCHANGED <<global, items, deployFile, ops, deployed, split, saveFaults>>

\* PUT: the custom URL, or without one the default, becomes active.
PutURL(r) ==
    /\ Stage(r) = "opened" /\ handler[r].kind = "put"
    /\ \E n \in Places(handler[r].store, handler[r].id), url \in {"default", "custom"} :
         /\ items' = [items EXCEPT ![handler[r].store][n].url = url]
         /\ MoveTo(r, Unsaved(r))
    /\ UNCHANGED <<global, deployFile, ops, deployed, split, saveFaults>>

\* deploymentCheck: the record is found, the lock given up, the Worker asked.
Probe(r) ==
    /\ Stage(r) = "opened" /\ handler[r].kind = "check"
    /\ \E n \in Places(handler[r].store, handler[r].id) :
         MoveTo(r, [step |-> "probing", kind |-> "check", id |-> handler[r].id,
                  store |-> handler[r].store, place |-> n, moved |-> FALSE])
    /\ UNCHANGED <<global, items, deployFile, ops, deployed, split, saveFaults>>

\* The active URL does not parse: there is no request to send, and the handler panics.
ProbePanics(r) ==
    /\ Stage(r) = "opened" /\ handler[r].kind = "check"
    /\ \E n \in Places(handler[r].store, handler[r].id) : items[handler[r].store][n].url = "custom"
    /\ MoveTo(r, NoRequest)
    /\ UNCHANGED <<global, items, deployFile, ops, deployed, split, saveFaults>>

\* The answer is written through the pointer.
Probed(r) ==
    /\ Stage(r) = "probing"
    /\ \E status \in {"healthy", "unhealthy"} :
         /\ items' = IF handler[r].moved THEN items
                     ELSE [items EXCEPT ![handler[r].store][handler[r].place].status = status]
         /\ MoveTo(r, Unsaved(r))
    /\ UNCHANGED <<global, deployFile, ops, deployed, split, saveFaults>>

\* save, in a section of its own: it writes the list as it is by then.  A write
\* may fail before, in the middle or after; a check drops the error, the others
\* answer with it and keep what they changed.
SaveList(r) ==
    /\ Stage(r) = "unsaved"
    /\ deployFile' = items[handler[r].store]
    /\ Report(r) /\ MoveTo(r, NoRequest)
    /\ UNCHANGED <<global, items, ops, split, saveFaults>>
SaveListFails(r) ==
    /\ Stage(r) = "unsaved" /\ saveFaults < MaxSaveFaults
    /\ saveFaults' = saveFaults + 1
    /\ deployFile' \in {deployFile, <<>>, items[handler[r].store]}
    /\ MoveTo(r, NoRequest)
    /\ UNCHANGED <<global, items, ops, deployed, split>>

\* The process ends, perhaps in the middle of a write, and starts: the store will
\* be opened again by the first request that needs it.
DeployRestart ==
    /\ \/ UNCHANGED <<deployFile, saveFaults>>
       \/ /\ \E r \in Requests : Stage(r) = "unsaved" /\ deployFile' \in {<<>>, items[handler[r].store]}
          /\ saveFaults < MaxSaveFaults /\ saveFaults' = saveFaults + 1
    /\ global' = NoStore
    /\ items' = [r \in Requests |-> <<>>]
    /\ handler' = [r \in Requests |-> NoRequest]
    /\ UNCHANGED <<ops, deployed, split>>

DeployNext ==
    \/ \E r \in Requests :
         \/ Begin(r) \/ Publish(r)
         \/ Add(r) \/ AddFails(r) \/ NotFound(r) \/ PutURL(r)
         \/ Probe(r) \/ ProbePanics(r) \/ Probed(r) \/ SaveList(r) \/ SaveListFails(r)
    \/ DeployRestart

DeploySpec == DeployInit /\ [][DeployNext]_deployVars

-----------------------------------------------------------------------------
\* The list a request that comes in now would be given.
List == IF global = NoStore THEN deployFile ELSE items[global]
Settled == \A r \in Requests : Stage(r) \in {"idle", "opening", "opened", "probing"}

\* A deployment that was reported stays in the list, over restarts, and whenever no
\* handler has yet to save, the file holds the list, checks and URLs included:
\* each handler saves after it gave up the lock, and whatever order they save in,
\* the last one writes what all of them did.  It is not so once a write failed, nor
\* once two requests opened the store at the same time.
DeployedStays ==
    saveFaults = 0 /\ ~split =>
      /\ \A w \in deployed : \E n \in DOMAIN List : List[n].id = w
      /\ Settled => deployFile = List
=============================================================================
