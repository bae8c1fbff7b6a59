---------------------------- MODULE ProxySettings ----------------------------
(***************************************************************************)
(* The settings store and the list of proxies, which three handlers keep   *)
(* in step by hand: proxyPool (POST adds proxies, DELETE removes one or    *)
(* all; internal/web/proxy_pool.go, internal/outbound/proxy.go) changes    *)
(* the pool and copies it into the settings, adminSettings (PUT;           *)
(* internal/web/settings.go) saves settings and copies their list into the *)
(* pool.  Neither holds a lock from one end to the other, and a start      *)
(* rebuilds the pool from settings.json, or from M365_PROXY_POOL when that *)
(* is in the environment.                                                  *)
(***************************************************************************)
EXTENDS Naturals, Sequences, SequencesExt

CONSTANTS
    Urls,    \* proxy URLs that New accepts (no commas, at which a start divides a list)
    Bad,     \* one that it does not
    Lists,   \* the lists a PUT may bring
    Envs,    \* the lists M365_PROXY_POOL may hold at a start, Nil when it is not set
    Rest,    \* values of the other settings
    Default, \* the one of defaultRuntimeSettings
    Admins,  \* requests of the console in flight at a time
    Nil

ASSUME SettingsAssumptions ==
    /\ Default \in Rest /\ Bad \notin Urls /\ Lists \subseteq Seq(Urls \cup {Bad})
    /\ Envs \subseteq Seq(Urls) \cup {Nil}
    /\ Nil \notin Urls \cup {Bad} \cup Admins \cup Seq(Urls)

VARIABLES
    file,    \* settings.json, as a start reads it: [pool, rest]
    mem,     \* settingsStore.v
    pool,    \* the entries of outbound.proxyPool, or Nil when it is nil
    req,     \* per request: where it stands and what it holds
    alone,   \* the request that has met no other since it started, or Nil
    goal,    \* the proxies it asks for
    settled, \* since the last thing that went wrong, a lone request succeeded
    wanted,  \* what the last successful lone request asked for
    apart    \* what was set apart since: "file" by a save that failed half-way,
             \* "pool" by the environment

stores == <<file, mem, pool>>
history == <<alone, goal, settled, wanted, apart>>
settingsVars == <<file, mem, pool, req, alone, goal, settled, wanted, apart>>

Defaults == [pool |-> <<>>, rest |-> Default]
NoRequest == [pc |-> "idle", kind |-> Nil, url |-> Nil, list |-> <<>>, v |-> Defaults]

Nothing  == [urls |-> {}, rest |-> Default]

Listed == IF pool = Nil THEN <<>> ELSE pool \* ProxyPoolStatus

\* The list of what stands at some of the places of another.
Keeping(list, places) ==
    LET kept[n \in 0..Len(list)] ==
          IF n = 0 THEN <<>>
          ELSE IF n \in places THEN Append(kept[n - 1], list[n]) ELSE kept[n - 1]
    IN  kept[Len(list)]

\* NewPool: duplicates and blanks are left out.
Distinct(list) == Keeping(list, {n \in DOMAIN list : \A m \in 1..(n - 1) : list[m] # list[n]})
Without(list, url) == Keeping(list, {n \in DOMAIN list : list[n] # url})
Accepted(list) == ToSet(list) \subseteq Urls

\* ApplyStartupSettingsEnv and ConfigureFromEnv: the environment wins over the file.
StartPool(env, stored) ==
    LET list == IF env = Nil THEN stored ELSE env
    IN  IF list = <<>> THEN Nil ELSE Distinct(list)
SetApart(env) == IF env = Nil THEN {} ELSE {"pool"}

SettingsInit ==
    /\ file = Defaults /\ mem = Defaults
    /\ \E env \in Envs : pool = StartPool(env, <<>>) /\ apart = SetApart(env)
    /\ req = [a \in Admins |-> NoRequest]
    /\ alone = Nil /\ goal = {} /\ settled = TRUE
    /\ wanted = Nothing

-----------------------------------------------------------------------------
Quiet      == \A a \in Admins : req[a] = NoRequest
Step(a, r) == req' = [req EXCEPT ![a] = r]
To(a, pc)  == Step(a, [req[a] EXCEPT !.pc = pc])

\* A request starts; it is alone if no other is under way.  What was wanted means
\* nothing any more once two have met.
Start(a, r) ==
    /\ req[a] = NoRequest /\ Step(a, r)
    /\ alone'   = IF Quiet THEN a ELSE Nil
    /\ goal'    = IF Quiet THEN ToSet(r.v.pool) ELSE {}
    /\ settled' = (settled /\ Quiet)
    /\ wanted'  = IF settled' THEN wanted ELSE Nothing
    /\ UNCHANGED <<stores, apart>>
Aim(a, urls) == goal' = IF alone = a THEN urls ELSE goal

\* What a lone request has done so far, in all three places; only a PUT means to change the other settings.
Stands(a) ==
    /\ wanted' = IF alone # a THEN wanted ELSE
         [urls |-> goal,
          rest |-> IF settled /\ req[a].kind # "put" THEN wanted.rest ELSE req[a].v.rest]
    /\ apart' = IF alone # a THEN apart ELSE {}

\* It ends well, or with an error that may leave its work half done.
Succeed(a) ==
    /\ Step(a, NoRequest) /\ alone' = Nil /\ goal' = {}
    /\ settled' = (settled \/ alone = a)
    /\ Stands(a)
FailWith(a, harm) ==
    /\ Step(a, NoRequest) /\ alone' = Nil /\ goal' = {} /\ settled' = (settled /\ ~harm)
    /\ wanted' = IF settled' THEN wanted ELSE Nothing
Going == UNCHANGED history

Post(a, u)   == Start(a, [NoRequest EXCEPT !.pc = "read", !.kind = "add", !.url = u])
Delete(a, u) == Start(a, [NoRequest EXCEPT !.pc = "read", !.kind = "remove", !.url = u])
Clear(a)     == Start(a, [NoRequest EXCEPT !.pc = "swap", !.kind = "clear"])
Put(a, v)    == Start(a, [NoRequest EXCEPT !.pc = "write", !.kind = "put", !.v = v])

\* AddProxy, RemoveProxy: the list is read ...
ReadTo(a, list) ==
    /\ Step(a, [req[a] EXCEPT !.pc = "swap", !.url = Nil, !.list = list])
    /\ Aim(a, ToSet(list)) /\ UNCHANGED <<alone, settled, wanted, apart>>
Read(a) ==
    /\ req[a].pc = "read"
    /\ \/ req[a].kind = "add" /\ ReadTo(a, Append(Listed, req[a].url))
       \/ /\ req[a].kind = "remove" /\ Contains(Listed, req[a].url)
          /\ ReadTo(a, Without(Listed, req[a].url))
       \/ /\ req[a].kind = "remove" /\ pool = Nil
          /\ Step(a, [req[a] EXCEPT !.pc = "get", !.url = Nil]) /\ Going
       \/ /\ req[a].kind = "remove" /\ pool # Nil /\ ~Contains(Listed, req[a].url)
          /\ FailWith(a, FALSE) /\ UNCHANGED apart
    /\ UNCHANGED stores

\* ... and a new pool is made of it: ConfigurePool.  A list with a URL that New
\* does not accept changes nothing.
Swap(a) ==
    /\ req[a].pc = "swap"
    /\ \/ /\ Accepted(req[a].list) /\ pool' = Distinct(req[a].list)
          /\ IF req[a].kind = "put" THEN Succeed(a)
             ELSE Step(a, [req[a] EXCEPT !.pc = "get", !.list = <<>>]) /\ Going
       \/ /\ ~Accepted(req[a].list) /\ FailWith(a, FALSE) /\ UNCHANGED <<pool, apart>>
    /\ UNCHANGED <<file, mem>>

\* persistProxyPool: the settings, then the list of the pool ...
Get(a) ==
    /\ req[a].pc = "get"
    /\ Step(a, [req[a] EXCEPT !.pc = "list", !.v = mem])
    /\ Going /\ UNCHANGED stores

\* A slip: the list of the pool is added to the one in the settings.
ListBoth(a) ==
    /\ req[a].pc = "list"
    /\ Step(a, [req[a] EXCEPT !.pc = "write", !.v.pool = Distinct(@ \o Listed)])
    /\ Going /\ UNCHANGED stores

List(a) ==
    /\ req[a].pc = "list"
    /\ Step(a, [req[a] EXCEPT !.pc = "write", !.v.pool = Listed])
    /\ Going /\ UNCHANGED stores

\* A slip: the memory changes first, and stays when the file cannot be written.
WriteAfter(a) ==
    /\ req[a].pc = "write"
    /\ \/ /\ Accepted(req[a].v.pool)
          /\ file' = req[a].v /\ To(a, "set") /\ Going /\ UNCHANGED mem
       \/ /\ mem' = req[a].v /\ FailWith(a, req[a].kind # "put") /\ UNCHANGED <<file, apart>>
    /\ UNCHANGED pool

\* settingsStore.save: the file, if the settings are valid and it can be written.
\* os.WriteFile truncates and writes in place: when it fails the file is the old one,
\* the new one, or does not decode.  The memory stays as it was, so that a PUT has
\* changed nothing else; the other requests have changed the pool already.
Write(a) ==
    /\ req[a].pc = "write"
    /\ \/ /\ Accepted(req[a].v.pool)
          /\ file' = req[a].v /\ To(a, "set") /\ Going
       \/ /\ FailWith(a, req[a].kind # "put")
          /\ file' \in IF Accepted(req[a].v.pool) THEN {file, req[a].v, Defaults} ELSE {file}
          /\ apart' = IF file' = file THEN apart ELSE apart \cup {"file"}
    /\ UNCHANGED <<mem, pool>>

\* ... then the memory.  A PUT goes on to the pool; a POST may hold another URL.
SetMem(a) ==
    /\ req[a].pc = "set"
    /\ mem' = req[a].v
    /\ \/ /\ req[a].kind = "put"
          /\ Step(a, [req[a] EXCEPT !.pc = "swap", !.list = req[a].v.pool]) /\ Going
       \/ /\ req[a].kind = "add"
          /\ \E u \in Urls \cup {Bad} : Step(a, [NoRequest EXCEPT !.pc = "read", !.kind = "add", !.url = u])
          /\ Stands(a) /\ UNCHANGED <<alone, goal, settled>>
       \/ /\ req[a].kind # "put" /\ Succeed(a)
    /\ UNCHANGED <<file, pool>>

\* The process dies, in the middle of a write too, which leaves a file that does
\* not decode; the next start rebuilds the rest.
Restart ==
    /\ \/ UNCHANGED file
       \/ (\E a \in Admins : req[a].pc = "write") /\ file' = Defaults
    /\ mem' = file'
    /\ \E env \in Envs : pool' = StartPool(env, file'.pool) /\ apart' = SetApart(env)
    /\ req' = [a \in Admins |-> NoRequest] /\ alone' = Nil /\ goal' = {}
    /\ settled' = TRUE
    /\ wanted' = IF settled /\ Quiet /\ "file" \notin apart THEN wanted
                 ELSE [urls |-> ToSet(file'.pool), rest |-> file'.rest]

SettingsNext ==
    \/ \E a \in Admins :
         \/ \E u \in Urls \cup {Bad} : Post(a, u) \/ Delete(a, u)
         \/ Clear(a)
         \/ \E list \in Lists, r \in Rest : Put(a, [pool |-> list, rest |-> r])
         \/ Read(a) \/ Swap(a) \/ Get(a) \/ List(a) \/ Write(a) \/ SetMem(a)
    \/ Restart

SettingsSpec == SettingsInit /\ [][SettingsNext]_settingsVars

-----------------------------------------------------------------------------
Settings == [pool : Seq(Urls \cup {Bad}), rest : Rest]
Stages   == {"idle", "read", "swap", "get", "list", "write", "set"}
Holdings == [pc : Stages, kind : {"add", "remove", "clear", "put", Nil},
             url : Urls \cup {Bad, Nil}, list : Seq(Urls \cup {Bad}), v : Settings]
Requests == {r \in Holdings : /\ r.pc = "read" => r.url # Nil
                              /\ r.pc = "set" => Accepted(r.v.pool)}

\* Whatever a request brings, only lists that New accepts are stored or used, and
\* the pool visits every proxy once.
SettingsTyped ==
    /\ {file, mem} \subseteq Settings /\ Accepted(file.pool) /\ Accepted(mem.pool)
    /\ pool = Nil \/ (pool \in Seq(Urls) /\ IsInjective(pool))
    /\ req \in [Admins -> Requests]
    /\ alone \in Admins \cup {Nil} /\ goal \subseteq Urls \cup {Bad} /\ settled \in BOOLEAN
    /\ wanted \in [urls : SUBSET (Urls \cup {Bad}), rest : Rest]
    /\ apart \subseteq {"file", "pool"}

\* The file, the settings in memory and the proxies in use agree between requests,
\* over failures, crashes and restarts; and after requests that overlapped, or one
\* that failed half-way, the next lone request that succeeds brings them together.
\* Two things set one of them apart until then: a save that fails may leave a file
\* that is torn or new already, and at a start the environment may choose the proxies
\* ("explicit process environment variables always win", settings.go:275).
Agreement ==
    Quiet /\ settled =>
      /\ "file" \notin apart => file = mem
      /\ "pool" \notin apart => ToSet(Listed) = ToSet(mem.pool)

\* What an administrator was told is done is what holds until the next request: the
\* proxies asked for, the other settings untouched, also when the saves of later
\* requests fail, and through restarts unless such a save has spoilt the file.
\* Proxies the environment chooses at a start are in use instead, but only in use.
LastRequestStands ==
    Quiet /\ settled =>
      /\ ToSet(mem.pool) = wanted.urls /\ mem.rest = wanted.rest
      /\ "pool" \notin apart => ToSet(Listed) = wanted.urls
=============================================================================
