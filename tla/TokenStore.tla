----------------------------- MODULE TokenStore -----------------------------
(***************************************************************************)
(* The account cache of internal/auth/cache.go: a mutex-protected list of  *)
(* accounts mirrored to accounts.json, the callers of EnsureValid that     *)
(* refresh a token OUTSIDE the mutex, the logins that Upsert a new one     *)
(* and the administrator who deletes one.                                  *)
(*                                                                         *)
(* Every action is one section the code runs under s.mu (or one exchange   *)
(* with the identity provider, which runs outside it); whatever lies       *)
(* between two of them may interleave with every other caller.             *)
(*                                                                         *)
(* A position stands for an index of Store.data.Accounts.  Only the order  *)
(* of the entries is observable (First, and the first match of Get and     *)
(* Upsert), so deleting an entry leaves a hole instead of renumbering.     *)
(***************************************************************************)
EXTENDS Naturals

CONSTANTS
    Users,       \* the people known to the identity provider (their OIDs)
    Opaque,      \* those whose tokens carry no readable claims
    ClockIds,    \* "account-HHMMSS", the ids given when a token has no claims
    EmailOf,     \* the e-mail claim of each user, or None
    Callers,     \* concurrent requests (HTTP handlers)
    Positions,   \* places in the list (bounds the appends)
    MaxGrants,   \* bound: answers the provider ever gives
    MaxFaults,   \* bound: failed saves and crashes
    None

Ids    == Users \cup ClockIds
Emails == {EmailOf[u] : u \in Users} \ {None}

\* Identity of a grant: the n-th successful answer of the token endpoint.  It
\* names both the access token and the refresh token of that answer.
Grants == 1..MaxGrants

VARIABLES
    accounts,   \* Store.data.Accounts, a function from the used positions
    disk,       \* the content of accounts.json, None when it does not decode
    saved,      \* the last saveLocked returned nil (history)
    up,         \* the process runs
    pc,         \* where each caller stands
    snap,       \* the AccountToken a caller copied out of the store
    tok,        \* the TokenSet a caller received
    issued,     \* provider: number of grants so far
    ownerOf,    \* provider: whose tokens a grant carries
    spent,      \* provider: refresh tokens it no longer accepts
    expired,    \* access tokens past ExpiresAt - 30s
    faults,     \* failed saves and crashes so far
    blame       \* history: what may have made the stored credential of an id useless

provider == <<issued, ownerOf, spent>>
vars == <<accounts, disk, saved, up, pc, snap, tok, issued, ownerOf, spent,
          expired, faults, blame>>

Account  == [id : Ids, email : Emails \cup {None}, status : {"online", "expired"},
             at : Grants, rt : Grants \cup {None}]
TokenSet == [id : Users \cup {None}, email : Emails \cup {None},
             at : Grants, rt : Grants \cup {None}]
Causes   == {"lostAnswer", "staleWrite", "crash"}

ASSUME TokenStoreAssumptions ==
    /\ Opaque \subseteq Users
    /\ Users \cap ClockIds = {}
    /\ Positions \subseteq Nat
    /\ MaxGrants \in Nat
    /\ None \notin Ids
    /\ None \notin Nat
    /\ None \notin Account \cup TokenSet

\* Accounts stored at some of the positions.
IsList(l) == DOMAIN l \subseteq Positions /\ l \in [DOMAIN l -> Account]

TypeOK ==
    /\ IsList(accounts)
    /\ disk = None \/ IsList(disk)
    /\ saved \in BOOLEAN /\ up \in BOOLEAN
    /\ pc \in [Callers -> {"idle", "resolved", "refreshing", "refused",
                           "unrefreshable", "granted", "exchanged"}]
    /\ snap \in [Callers -> Account \cup {None}]
    /\ tok \in [Callers -> TokenSet \cup {None}]
    /\ issued \in 0..MaxGrants
    /\ ownerOf \in [Grants -> Users \cup {None}]
    /\ spent \subseteq Grants /\ expired \subseteq Grants
    /\ faults \in Nat
    /\ blame \in [Ids -> SUBSET Causes]

Init ==
    /\ accounts = [p \in {} |-> None] /\ disk = accounts
    /\ saved = TRUE /\ up = TRUE
    /\ pc = [c \in Callers |-> "idle"]
    /\ snap = [c \in Callers |-> None] /\ tok = [c \in Callers |-> None]
    /\ issued = 0 /\ ownerOf = [g \in Grants |-> None]
    /\ spent = {} /\ expired = {} /\ faults = 0
    /\ blame = [i \in Ids |-> {}]

-----------------------------------------------------------------------------
\* The first of a set of positions, as a set of at most one element: what a
\* loop that breaks at its first hit finds.
FirstOf(S) == {p \in S : \A q \in S : p <= q}

\* Get matches a key against ID, OID and Email; OID equals ID in every entry
\* Upsert writes and OpenStore normalises.
Known(key) == {p \in DOMAIN accounts : accounts[p].id = key \/ accounts[p].email = key}

\* A slip of the matching rule: ids are not compared.
MatchingByEmailOnly(acc) == {p \in DOMAIN accounts :
                               acc.email # None /\ accounts[p].email = acc.email}

\* The entries Upsert takes for the same account.
Matching(acc) == {p \in DOMAIN accounts :
                    \/ accounts[p].id = acc.id
                    \/ acc.email # None /\ accounts[p].email = acc.email}

FreePositions == {p \in Positions : \A q \in DOMAIN accounts : q < p}

\* saveLocked: os.WriteFile truncates and writes in place, so a failure leaves
\* the old file (open failed) or one that does not decode (write failed).
Save ==
    \/ disk' = accounts' /\ saved' = TRUE /\ UNCHANGED faults
    \/ /\ faults < MaxFaults /\ faults' = faults + 1
       /\ disk' \in {disk, None} /\ saved' = FALSE

\* Slips of Upsert: the old refresh token survives a rotation, and the token is
\* inherited from the head of the list instead of from the match.
UpsertKeepsOldToken(acc) ==
    /\ \/ /\ Matching(acc) = {}
          /\ \E p \in FirstOf(FreePositions) :
               accounts' = [q \in DOMAIN accounts \cup {p} |->
                              IF q = p THEN acc ELSE accounts[q]]
       \/ \E p \in FirstOf(Matching(acc)) :
            accounts' = [accounts EXCEPT ![p] = [acc EXCEPT !.rt = accounts[p].rt]]
    /\ blame' = [blame EXCEPT ![acc.id] = IF acc.rt = None THEN @ ELSE {}]
    /\ Save
UpsertInheritsFromHead(acc) ==
    /\ \/ /\ Matching(acc) = {}
          /\ \E p \in FirstOf(FreePositions) :
               accounts' = [q \in DOMAIN accounts \cup {p} |->
                              IF q = p THEN acc ELSE accounts[q]]
       \/ \E p \in FirstOf(Matching(acc)), h \in FirstOf(DOMAIN accounts) :
            accounts' = [accounts EXCEPT ![p] =
                           [acc EXCEPT !.rt = IF acc.rt = None THEN accounts[h].rt ELSE @]]
    /\ blame' = [blame EXCEPT ![acc.id] = IF acc.rt = None THEN @ ELSE {}]
    /\ Save

\* Store.Upsert of the account built from a token set.  The first match is
\* replaced and keeps its refresh token when the new set has none.
Upsert(acc) ==
    /\ \/ /\ Matching(acc) = {}
          /\ \E p \in FirstOf(FreePositions) :
               accounts' = [q \in DOMAIN accounts \cup {p} |->
                              IF q = p THEN acc ELSE accounts[q]]
       \/ \E p \in FirstOf(Matching(acc)) :
            accounts' = [accounts EXCEPT ![p] =
                           [acc EXCEPT !.rt = IF acc.rt = None THEN accounts[p].rt ELSE @]]
    /\ blame' = [blame EXCEPT ![acc.id] = IF acc.rt = None THEN @ ELSE {}]
    /\ Save

OnlineAccount(id, email, t) ==
    [id |-> id, email |-> email, status |-> "online", at |-> t.at, rt |-> t.rt]

Return(c) ==
    /\ pc' = [pc EXCEPT ![c] = "idle"]
    /\ snap' = [snap EXCEPT ![c] = None]
    /\ tok' = [tok EXCEPT ![c] = None]

-----------------------------------------------------------------------------
\* resolveAccount without an account id: the id of First is used, and EnsureValid
\* looks it up again under a new lock.
ResolveFirst(c) ==
    /\ up /\ pc[c] = "idle"
    /\ \E p \in FirstOf(DOMAIN accounts) : snap' = [snap EXCEPT ![c] = accounts[p]]
    /\ pc' = [pc EXCEPT ![c] = "resolved"]
    /\ UNCHANGED <<accounts, disk, saved, up, tok, provider, expired, faults, blame>>

\* EnsureValid up to its first unlock: Get, then the decision on the copy.  A
\* fresh access token or an unknown key ends the call.
EnsureValid(c, key) ==
    /\ up
    /\ \/ pc[c] = "idle" /\ key \in Ids \cup Emails
       \/ pc[c] = "resolved" /\ key = snap[c].id
    /\ \/ /\ Known(key) = {}
          /\ Return(c)
       \/ \E p \in FirstOf(Known(key)) :
            LET acc == accounts[p] IN
            \/ acc.at \notin expired /\ Return(c)
            \/ /\ acc.at \in expired
               /\ snap' = [snap EXCEPT ![c] = acc]
               /\ pc' = [pc EXCEPT ![c] = IF acc.rt = None THEN "unrefreshable"
                                                           ELSE "refreshing"]
               /\ UNCHANGED tok
    /\ UNCHANGED <<accounts, disk, saved, up, provider, expired, faults, blame>>

\* The identity provider (external): a new grant for u, with or without a
\* refresh token; the claims name u unless u's tokens are opaque.
Grant(c, u, withRefresh) ==
    LET n == issued + 1 IN
    /\ issued < MaxGrants
    /\ issued' = n
    /\ ownerOf' = [ownerOf EXCEPT ![n] = u]
    /\ tok' = [tok EXCEPT ![c] = [id    |-> IF u \in Opaque THEN None ELSE u,
                                  email |-> IF u \in Opaque THEN None ELSE EmailOf[u],
                                  at    |-> n,
                                  rt    |-> IF withRefresh THEN n ELSE None]]

\* auth.Refresh succeeds: the provider either rotates the refresh token, and
\* stops accepting the old one, or leaves it in force.
RefreshGranted(c) ==
    /\ up /\ pc[c] = "refreshing" /\ snap[c].rt \notin spent
    /\ \E rotate \in BOOLEAN :
         /\ Grant(c, ownerOf[snap[c].rt], rotate)
         /\ spent' = IF rotate THEN spent \cup {snap[c].rt} ELSE spent
    /\ pc' = [pc EXCEPT ![c] = "granted"]
    /\ UNCHANGED <<accounts, disk, saved, up, snap, expired, faults, blame>>

\* auth.Refresh fails: refused, unreachable, or answered with an answer that
\* never arrived although the provider had already rotated the token.
RefreshFailed(c) ==
    /\ up /\ pc[c] = "refreshing"
    /\ pc' = [pc EXCEPT ![c] = "refused"]
    /\ \/ UNCHANGED <<spent, blame>>
       \/ /\ spent' = spent \cup {snap[c].rt}
          /\ blame' = [blame EXCEPT ![snap[c].id] = @ \cup {"lostAnswer"}]
    /\ UNCHANGED <<accounts, disk, saved, up, snap, tok, issued, ownerOf, expired, faults>>

\* EnsureValid after a successful refresh: blanks are filled from the copy taken
\* before the refresh, then Upsert.
FinishRefresh(c) ==
    /\ up /\ pc[c] = "granted"
    /\ LET t == tok[c] IN
         Upsert(OnlineAccount(IF t.id = None THEN snap[c].id ELSE t.id,
                              IF t.email = None THEN snap[c].email ELSE t.email, t))
    /\ Return(c)
    /\ UNCHANGED <<up, provider, expired>>

\* A slip of the write-back: the copy is added when its account was deleted
\* meanwhile.
MarkExpiredReinserts(c) ==
    /\ up /\ pc[c] \in {"refused", "unrefreshable"}
    /\ \A p \in DOMAIN accounts : accounts[p].id # snap[c].id
    /\ \E p \in FirstOf(FreePositions) :
         accounts' = [q \in DOMAIN accounts \cup {p} |->
           IF q = p THEN [snap[c] EXCEPT !.status = "expired"] ELSE accounts[q]]
    /\ Save /\ Return(c)
    /\ UNCHANGED <<up, provider, expired, blame>>

\* EnsureValid without a refresh token, or after a failed refresh: the copy
\* taken BEFORE the refresh is written back over the entry with its id.
MarkExpired(c) ==
    /\ up /\ pc[c] \in {"refused", "unrefreshable"}
    /\ LET same == {p \in DOMAIN accounts : accounts[p].id = snap[c].id} IN
       \/ /\ same = {}
          /\ UNCHANGED <<accounts, disk, saved, faults, blame>>
       \/ \E p \in FirstOf(same) :
            /\ accounts' = [accounts EXCEPT ![p] = [snap[c] EXCEPT !.status = "expired"]]
            /\ blame' = [blame EXCEPT ![snap[c].id] =
                           IF accounts[p].rt = snap[c].rt THEN @ ELSE @ \cup {"staleWrite"}]
            /\ Save
    /\ Return(c)
    /\ UNCHANGED <<up, provider, expired>>

\* callbackPKCE, the exchange of the authorization code (outside every lock).
ExchangeCode(c, u) ==
    /\ up /\ pc[c] = "idle"
    /\ \E withRefresh \in BOOLEAN : Grant(c, u, withRefresh)
    /\ pc' = [pc EXCEPT ![c] = "exchanged"]
    /\ UNCHANGED <<accounts, disk, saved, up, snap, spent, expired, faults, blame>>

\* A slip: no id is made up for a token set without claims.
FinishLoginWithoutId(c) ==
    /\ up /\ pc[c] = "exchanged"
    /\ Upsert(OnlineAccount(tok[c].id, tok[c].email, tok[c]))
    /\ Return(c)
    /\ UNCHANGED <<up, provider, expired>>

\* callbackPKCE, the Upsert of the exchanged token.  A token set without OID
\* and e-mail gets an id made of the time of day.
FinishLogin(c) ==
    /\ up /\ pc[c] = "exchanged"
    /\ \E id \in IF tok[c].id = None THEN ClockIds ELSE {tok[c].id} :
         Upsert(OnlineAccount(id, tok[c].email, tok[c]))
    /\ Return(c)
    /\ UNCHANGED <<up, provider, expired>>

\* A slip: the deletion is not saved.
DeleteUnsaved(id) ==
    /\ up
    /\ accounts' = [p \in {q \in DOMAIN accounts : accounts[q].id # id} |-> accounts[p]]
    /\ UNCHANGED <<disk, saved, up, pc, snap, tok, provider, expired, faults, blame>>

\* Store.Delete, called by deleteAccount: every entry with that id goes.
Delete(id) ==
    /\ up
    /\ accounts' = [p \in {q \in DOMAIN accounts : accounts[q].id # id} |-> accounts[p]]
    /\ Save
    /\ UNCHANGED <<up, pc, snap, tok, provider, expired, blame>>

\* Time passes the 30 second margin of an access token (external).
Expire(g) ==
    /\ g \in 1..issued \ expired
    /\ expired' = expired \cup {g}
    /\ UNCHANGED <<accounts, disk, saved, up, pc, snap, tok, provider, faults, blame>>

\* The process dies: the calls in flight and the memory are gone.
Crash ==
    /\ up /\ faults < MaxFaults
    /\ up' = FALSE /\ faults' = faults + 1
    /\ blame' = [i \in Ids |->
                   IF \/ disk # accounts
                      \/ \E c \in Callers : pc[c] = "granted" /\ snap[c].id = i
                   THEN blame[i] \cup {"crash"} ELSE blame[i]]
    /\ accounts' = [p \in {} |-> None]
    /\ pc' = [c \in Callers |-> "idle"]
    /\ snap' = [c \in Callers |-> None] /\ tok' = [c \in Callers |-> None]
    /\ UNCHANGED <<disk, saved, provider, expired>>

\* OpenStore at start-up; main ends with log.Fatal when the file does not decode.
OpenStore ==
    /\ ~up /\ disk # None
    /\ up' = TRUE /\ accounts' = disk /\ saved' = TRUE
    /\ UNCHANGED <<disk, pc, snap, tok, provider, expired, faults, blame>>

Next ==
    \/ \E c \in Callers :
         \/ ResolveFirst(c)
         \/ \E key \in Ids \cup Emails : EnsureValid(c, key)
         \/ RefreshGranted(c) \/ RefreshFailed(c)
         \/ FinishRefresh(c) \/ MarkExpired(c)
         \/ \E u \in Users : ExchangeCode(c, u)
         \/ FinishLogin(c)
    \/ \E id \in Ids : Delete(id)
    \/ \E g \in Grants : Expire(g)
    \/ Crash
    \/ OpenStore

Spec == Init /\ [][Next]_vars

-----------------------------------------------------------------------------
\* No two users of the tenant share an e-mail address.
EmailsDistinct == \A u, v \in Users : EmailOf[u] = EmailOf[v] /\ EmailOf[u] # None => u = v

Entries == {accounts[p] : p \in DOMAIN accounts}

\* The credentials filed under a user are that user's own, in the store and in
\* every copy a caller holds, whatever Upsert matched and merged (cache.go:134
\* matches by e-mail and inherits the refresh token) and whoever refreshed.
TokensMatchOwner ==
    \A a \in Entries \cup ({snap[c] : c \in Callers} \ {None}) :
      a.id \in Users => /\ ownerOf[a.at] = a.id
                        /\ a.rt # None => ownerOf[a.rt] = a.id

\* An account is filed once: no two entries with one id and no two with one
\* e-mail, so that Get, Upsert and the write-back of MarkExpired agree on which
\* entry they mean.
OneEntryPerAccount ==
    \A p, q \in DOMAIN accounts :
      (\/ accounts[p].id = accounts[q].id
       \/ accounts[p].email # None /\ accounts[p].email = accounts[q].email) => p = q

\* A stored refresh token the provider no longer accepts always has one of the
\* known causes: the answer that rotated it was lost, a stale copy was written
\* back over a newer token (cache.go:213), or the process died before the new
\* token reached the file; or its replacement is still on its way.
DeadTokenExplained ==
    \A a \in Entries :
      a.rt \in spent =>
        \/ blame[a.id] # {}
        \/ \E c \in Callers : pc[c] = "granted" /\ snap[c].rt = a.rt

\* While no save fails the file always decodes to what the memory holds, so a
\* restart resumes with exactly the accounts the running process served.
FileHoldsMemory == up /\ saved => disk = accounts

\* An entry never comes back, or comes in, with a stale credential: a failed
\* refresh that races a Delete does not resurrect the account, and a login or a
\* successful refresh that does adds it with a token the provider still accepts.
AppearsOnlyFresh ==
    [][up => \A p \in DOMAIN accounts' \ DOMAIN accounts :
               /\ accounts'[p].status = "online"
               /\ accounts'[p].rt \notin spent]_vars
=============================================================================
