---------------------------- MODULE SessionTurns ----------------------------
(***************************************************************************)
(* internal/web/sessions.go and the chat handlers that use it: a turn with *)
(* a session_key copies the entry of the key, resolves an account, talks   *)
(* to ChatHub (which makes up a conversation when it is given none) and,   *)
(* on some of its paths, stores the conversation under the key again.      *)
(* Sections under the mutex of the store are actions; turns interleave     *)
(* between them.  Requests here name no conversation of their own (one     *)
(* that does, with conversation_id, reads nothing but the account of the   *)
(* entry, and vouches for the rest itself).                                *)
(***************************************************************************)
EXTENDS Naturals, FiniteSets

CONSTANTS
    Callers,    \* concurrent requests
    Keys,       \* session keys in use
    Accounts,   \* account ids
    Explicit,   \* account ids that requests name themselves
    Apis,       \* of "openai" and "openaiStream": what becomes of the conversation; a
                \* turn of the console (chatOnce, chatStream) is one of "openai" that
                \* does not ask the router
    Routers,    \* the tool planning modes: TRUE for "router", FALSE for "native"
    MaxConvs,   \* bound: conversations ever made up
    MaxFaults,  \* bound: saves that fail
    MaxRestarts,
    None

Conv  == 1..MaxConvs
Entry == [account : Accounts, conv : Conv]

ASSUME SessionAssumptions ==
    /\ Explicit \subseteq Accounts /\ None \notin Accounts
    /\ \A K \in SUBSET Keys : None \notin [K -> Entry]
    /\ Apis \subseteq {"openai", "openaiStream"}
    /\ Routers \subseteq BOOLEAN
    /\ MaxConvs \in Nat /\ MaxFaults \in Nat /\ MaxRestarts \in Nat

VARIABLES
    sessions,   \* sessionStore.data: key -> account and conversation
    disk,       \* the sessions file, None when it does not decode
    saved,      \* the last save succeeded (history)
    known,      \* the accounts of the token store (external)
    pc,         \* where each turn stands
    turn,       \* a turn's key, api, account and conversation
    convs,      \* conversations made up so far
    owner,      \* the account a conversation was made under
    usedBy,     \* history: the keys whose turns used a conversation
    answered,   \* history: the conversation of the last turn of a key that was
                \* answered and stores it, 0 before one and after a delete
    crossed,    \* history: the conversations of a key for which a request named an
                \* account other than the one of its entry
    lossy,      \* history: a restart followed a failed save
    faults, restarts

store == <<sessions, disk, saved, faults>>
vars  == <<sessions, disk, saved, known, pc, turn, convs, owner, usedBy, answered, crossed,
           lossy, faults, restarts>>

Turn    == [key : Keys, api : Apis, account : Accounts \cup {None}, conv : Conv \cup {0}]
NoTurn  == [k |-> None]

IsTable(t) == DOMAIN t \subseteq Keys /\ t \in [DOMAIN t -> Entry]

StoreTyped ==
    IsTable(sessions) /\ (disk = None \/ IsTable(disk)) /\ saved \in BOOLEAN
TurnsTyped ==
    /\ pc \in [Callers -> {"idle", "looked", "routing", "resolved", "chatting"}]
    /\ turn \in [Callers -> Turn \cup {NoTurn}]
    /\ \A c \in Callers :
         /\ pc[c] # "idle" => turn[c] \in Turn
         /\ pc[c] \in {"resolved", "routing", "chatting"} => turn[c].account \in Accounts
         /\ pc[c] = "chatting" => turn[c].conv \in Conv
ConvsTyped ==
    /\ convs \in 0..MaxConvs /\ crossed \subseteq Conv
    /\ owner \in [Conv -> Accounts \cup {None}] /\ usedBy \in [Conv -> SUBSET Keys]
    /\ answered \in [Keys -> Conv \cup {0}]
TypeOK ==
    /\ StoreTyped /\ TurnsTyped /\ ConvsTyped
    /\ known \subseteq Accounts /\ lossy \in BOOLEAN

Init ==
    /\ sessions = [k \in {} |-> None] /\ disk = sessions /\ saved = TRUE
    /\ known = Accounts
    /\ pc = [c \in Callers |-> "idle"] /\ turn = [c \in Callers |-> NoTurn]
    /\ convs = 0 /\ owner = [v \in Conv |-> None] /\ usedBy = [v \in Conv |-> {}]
    /\ answered = [k \in Keys |-> 0] /\ crossed = {} /\ lossy = FALSE
    /\ faults = 0 /\ restarts = 0

-----------------------------------------------------------------------------
Put(k, e) == [j \in DOMAIN sessions \cup {k} |-> IF j = k THEN e ELSE sessions[j]]

\* saveLocked ignores every error and os.WriteFile is not atomic.
Save ==
    \/ disk' = sessions' /\ saved' = TRUE /\ UNCHANGED faults
    \/ /\ faults < MaxFaults /\ faults' = faults + 1
       /\ disk' \in {disk, None} /\ saved' = FALSE

\* A slip: the entry is changed in memory only.
UpsertUnsaved(k, account, conv) ==
    /\ sessions' = Put(k, [account |-> account, conv |-> conv])
    /\ UNCHANGED <<disk, saved, faults>>

\* sessionStore.upsert.
Upsert(k, account, conv) ==
    /\ sessions' = Put(k, [account |-> account, conv |-> conv])
    /\ Save

End(c) == pc' = [pc EXCEPT ![c] = "idle"] /\ turn' = [turn EXCEPT ![c] = NoTurn]

\* A slip: the entry of any key will do.
BeginAnyKey(c, k, api) ==
    /\ pc[c] = "idle"
    /\ \E a \in Explicit \cup {None}, j \in Keys :
         turn' = [turn EXCEPT ![c] =
           IF j \in DOMAIN sessions
             THEN [key |-> k, api |-> api,
                   account |-> IF a = None THEN sessions[j].account ELSE a,
                   conv |-> sessions[j].conv]
             ELSE [key |-> k, api |-> api, account |-> a, conv |-> 0]]
    /\ pc' = [pc EXCEPT ![c] = "looked"]
    /\ UNCHANGED <<store, known, convs, owner, usedBy, answered, crossed, lossy, restarts>>

\* A turn starts: the entry of its key fills what the request leaves open.
Begin(c, k, api) ==
    /\ pc[c] = "idle"
    /\ \E a \in Explicit \cup {None} :
         IF k \in DOMAIN sessions
           THEN LET e == sessions[k] IN
                /\ turn' = [turn EXCEPT ![c] =
                     [key |-> k, api |-> api,
                      account |-> IF a = None THEN e.account ELSE a, conv |-> e.conv]]
                /\ crossed' = IF a \in {None, e.account} THEN crossed ELSE crossed \cup {e.conv}
           ELSE /\ turn' = [turn EXCEPT ![c] =
                     [key |-> k, api |-> api, account |-> a, conv |-> 0]]
                /\ UNCHANGED crossed
    /\ pc' = [pc EXCEPT ![c] = "looked"]
    /\ UNCHANGED <<store, known, convs, owner, usedBy, answered, lossy, restarts>>

\* A slip: an unknown account is replaced by the first one.
ResolveAnyway(c) ==
    /\ pc[c] = "looked" /\ known # {}
    /\ \E a \in known :
         /\ turn[c].account \in known => a = turn[c].account
         /\ turn' = [turn EXCEPT ![c].account = a]
         /\ pc' = [pc EXCEPT ![c] = "resolved"]
    /\ UNCHANGED <<store, known, convs, owner, usedBy, answered, crossed, lossy, restarts>>

\* resolveAccount: the account named, or the first in the token store (whichever
\* that is); without one the turn is refused.  The OpenAI handler then asks the
\* tool router, if it plans with it.
Resolve(c) ==
    /\ pc[c] = "looked"
    /\ \/ /\ turn[c].account \notin known
          /\ turn[c].account # None \/ known = {}
          /\ End(c)
       \/ \E a \in known, router \in Routers :
            /\ turn[c].account \in {None, a}
            /\ turn' = [turn EXCEPT ![c].account = a]
            /\ pc' = [pc EXCEPT ![c] = IF router THEN "routing" ELSE "resolved"]
    /\ UNCHANGED <<store, known, convs, owner, usedBy, answered, crossed, lossy, restarts>>

\* ChatHub makes up a conversation for a request that names none.
MakeConv(c) ==
    /\ convs < MaxConvs /\ convs' = convs + 1
    /\ owner' = [owner EXCEPT ![convs + 1] = turn[c].account]
    /\ usedBy' = [usedBy EXCEPT ![convs + 1] = {turn[c].key}]

\* The request is sent, in the conversation of the key or in a new one.
StartChat(c) ==
    /\ pc[c] = "resolved"
    /\ pc' = [pc EXCEPT ![c] = "chatting"]
    /\ \/ /\ turn[c].conv = 0
          /\ MakeConv(c)
          /\ turn' = [turn EXCEPT ![c].conv = convs + 1]
       \/ /\ turn[c].conv # 0
          /\ usedBy' = [usedBy EXCEPT ![turn[c].conv] = @ \cup {turn[c].key}]
          /\ UNCHANGED <<turn, convs, owner>>
    /\ UNCHANGED <<store, known, answered, crossed, lossy, restarts>>

\* The router is always asked in a conversation of its own.  When it chooses
\* tools they are the answer: a streaming turn stores the ROUTER's conversation
\* under the key, any other stores nothing.  When it chooses none the answer
\* follows; when it fails (or its answer does not parse) the turn may end.
RouterTools(c) ==
    /\ pc[c] = "routing"
    /\ MakeConv(c)
    /\ \/ /\ turn[c].api = "openaiStream"
          /\ Upsert(turn[c].key, turn[c].account, convs + 1)
          /\ answered' = [answered EXCEPT ![turn[c].key] = convs + 1]
       \/ turn[c].api # "openaiStream" /\ UNCHANGED <<store, answered>>
    /\ End(c)
    /\ UNCHANGED <<known, crossed, lossy, restarts>>
RouterNone(c) ==
    /\ pc[c] = "routing"
    /\ MakeConv(c)
    /\ pc' = [pc EXCEPT ![c] = "resolved"]
    /\ UNCHANGED <<store, known, turn, answered, crossed, lossy, restarts>>

\* ChatHub answers: the conversation is stored under the key, except by a
\* streaming OpenAI turn, which returns from its stream without doing so.
ChatAnswered(c) ==
    /\ pc[c] = "chatting"
    /\ \/ turn[c].api = "openaiStream" /\ UNCHANGED <<store, answered>>
       \/ /\ turn[c].api # "openaiStream"
          /\ Upsert(turn[c].key, turn[c].account, turn[c].conv)
          /\ answered' = [answered EXCEPT ![turn[c].key] = turn[c].conv]
    /\ End(c)
    /\ UNCHANGED <<known, convs, owner, usedBy, crossed, lossy, restarts>>

\* ChatHub or the router fails: an error, and nothing is stored.
ChatFails(c) ==
    /\ pc[c] \in {"routing", "chatting"}
    /\ End(c)
    /\ UNCHANGED <<store, known, convs, owner, usedBy, answered, crossed, lossy, restarts>>

\* deleteConversation.
DeleteConversation(k) ==
    /\ k \in DOMAIN sessions
    /\ sessions' = [j \in DOMAIN sessions \ {k} |-> sessions[j]]
    /\ Save
    /\ answered' = [answered EXCEPT ![k] = 0]
    /\ UNCHANGED <<known, pc, turn, convs, owner, usedBy, crossed, lossy, restarts>>

\* Accounts are deleted and log in again (TokenStore; external here).  A deleted
\* account leaves its sessions behind.
DeleteAccount(a) ==
    /\ a \in known /\ known' = known \ {a}
    /\ UNCHANGED <<store, pc, turn, convs, owner, usedBy, answered, crossed, lossy, restarts>>
Login(a) ==
    /\ a \notin known /\ known' = known \cup {a}
    /\ UNCHANGED <<store, pc, turn, convs, owner, usedBy, answered, crossed, lossy, restarts>>

\* The process is restarted: turns in flight are gone, and openSessionStore reads
\* the file, or starts empty when it does not decode.
Restart ==
    /\ restarts < MaxRestarts /\ restarts' = restarts + 1
    /\ sessions' = IF disk = None THEN [k \in {} |-> None] ELSE disk
    /\ lossy' = (lossy \/ ~saved) /\ saved' = TRUE
    /\ pc' = [c \in Callers |-> "idle"] /\ turn' = [c \in Callers |-> NoTurn]
    /\ UNCHANGED <<disk, known, convs, owner, usedBy, answered, crossed, faults>>

Next ==
    \/ \E c \in Callers :
         \/ \E k \in Keys, api \in Apis : Begin(c, k, api)
         \/ Resolve(c) \/ StartChat(c)
         \/ RouterTools(c) \/ RouterNone(c)
         \/ ChatAnswered(c) \/ ChatFails(c)
    \/ \E k \in Keys : DeleteConversation(k)
    \/ \E a \in Accounts : DeleteAccount(a) \/ Login(a)
    \/ Restart

Spec == Init /\ [][Next]_vars

-----------------------------------------------------------------------------
\* "Use a different key for a different conversation" (README.md:131): turns of
\* two keys never meet in one conversation, whatever was deleted, restarted or
\* concurrent in between.
KeysIsolated == \A v \in Conv : Cardinality(usedBy[v]) <= 1

\* A turn talks in a conversation of the account it authenticates with, also when
\* the account its key remembers has been deleted and others have logged in.  The
\* exception is a conversation whose key was sent together with another accountId:
\* the request continues it under that account, and so does the key from then on.
AccountOwnsConversation ==
    \A c \in Callers : pc[c] = "chatting" =>
      turn[c].conv \in crossed \/ owner[turn[c].conv] = turn[c].account

Mapped(k) == k \in DOMAIN sessions /\ sessions[k].conv = answered[k]

\* A key leads to the conversation of the last of its turns that was answered without a
\* stream, or with tools the router chose for a stream, and to none before one or when
\* its entry was deleted since: with other turns of the key in flight, and also after a
\* restart unless a save had failed before it.  "The gateway stores the corresponding
\* upstream ConversationID and SessionID" (README.md:131) says it of every turn, but a
\* streamed answer, and tools the router chooses without a stream (server.go:962),
\* store nothing: they leave the key where it was.
AnsweredKeyMapped ==
    ~lossy => \A k \in Keys : IF answered[k] = 0 THEN k \notin DOMAIN sessions ELSE Mapped(k)
=============================================================================
