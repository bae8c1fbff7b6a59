-------------------------- MODULE TokenStoreProofs --------------------------
(***************************************************************************)
(* Type correctness of TokenStore, FileHoldsMemory and AppearsOnlyFresh,   *)
(* and, for users with distinct e-mail addresses, OneEntryPerAccount,      *)
(* TokensMatchOwner and DeadTokenExplained, for any number of users,       *)
(* callers, grants and faults.                                             *)
(***************************************************************************)
EXTENDS TokenStore, TLAPS

-----------------------------------------------------------------------------
\* Saving never leaves anything but the new list, the old file or a broken one.
LEMMA SaveType ==
  ASSUME TypeOK, IsList(accounts)', Save
  PROVE  (disk = None \/ IsList(disk))' /\ saved' \in BOOLEAN /\ faults' \in Nat
<1>0. faults' \in Nat
  BY SMT DEF TypeOK, Save
<1>1. saved' \in BOOLEAN
  BY Zenon DEF Save
<1>2. disk' \in {accounts', disk, None}
  BY DEF Save
<1>3. (disk = None \/ IsList(disk))'
  BY <1>2 DEF TypeOK, IsList
<1>. QED  BY <1>0, <1>1, <1>3

\* Upsert of an account keeps the list a list.
LEMMA UpsertType ==
  ASSUME TypeOK, NEW acc \in Account, Upsert(acc)
  PROVE  IsList(accounts)' /\ blame' \in [Ids -> SUBSET Causes] /\ Save
<1>1. ASSUME NEW p \in FirstOf(FreePositions),
             accounts' = [q \in DOMAIN accounts \cup {p} |->
                            IF q = p THEN acc ELSE accounts[q]]
      PROVE  IsList(accounts)'
  BY <1>1 DEF TypeOK, IsList, FirstOf, FreePositions
<1>2. ASSUME NEW p \in FirstOf(Matching(acc)),
             accounts' = [accounts EXCEPT ![p] =
                [acc EXCEPT !.rt = IF acc.rt = None THEN accounts[p].rt ELSE @]]
      PROVE  IsList(accounts)'
  <2>1. p \in DOMAIN accounts /\ accounts[p] \in Account
    BY <1>2 DEF TypeOK, IsList, FirstOf, Matching
  <2>2. [acc EXCEPT !.rt = IF acc.rt = None THEN accounts[p].rt ELSE @] \in Account
    BY <2>1 DEF Account
  <2>. QED  BY <1>2, <2>1, <2>2 DEF TypeOK, IsList
<1>3. blame' \in [Ids -> SUBSET Causes]
  BY DEF Upsert, TypeOK
<1>. QED  BY <1>1, <1>2, <1>3 DEF Upsert

\* Going back to idle keeps the callers' variables typed.
LEMMA ReturnType ==
  ASSUME TypeOK, NEW c \in Callers, Return(c)
  PROVE  /\ pc' \in [Callers -> {"idle", "resolved", "refreshing", "refused",
                                 "unrefreshable", "granted", "exchanged"}]
         /\ snap' \in [Callers -> Account \cup {None}]
         /\ tok' \in [Callers -> TokenSet \cup {None}]
BY DEF TypeOK, Return

\* What a grant hands to a caller is a token set.
LEMMA GrantType ==
  ASSUME TypeOK, NEW c \in Callers, NEW u \in Users, NEW b \in BOOLEAN, Grant(c, u, b)
  PROVE  /\ issued' \in 0..MaxGrants /\ issued' \in Grants
         /\ ownerOf' \in [Grants -> Users \cup {None}]
         /\ tok' \in [Callers -> TokenSet \cup {None}]
<1>1. issued + 1 \in Grants
  BY TokenStoreAssumptions DEF TypeOK, Grant, Grants
<1>2. (IF u \in Opaque THEN None ELSE EmailOf[u]) \in Emails \cup {None}
  BY DEF Emails
<1>. QED  BY <1>1, <1>2, TokenStoreAssumptions DEF TypeOK, Grant, TokenSet, Grants

-----------------------------------------------------------------------------
\* What each caller's program counter says of the copies it holds.
CallerInv ==
  \A c \in Callers :
    /\ pc[c] \in {"resolved", "refreshing", "refused", "unrefreshable", "granted"}
         => snap[c] \in Account /\ snap[c] # None
    /\ pc[c] \in {"refreshing", "granted"} => snap[c].rt \in Grants
    /\ pc[c] \in {"granted", "exchanged"} => tok[c] \in TokenSet /\ tok[c] # None

\* The tokens of an entry, a copy or a token set were issued to a user, when o
\* says whom the grants belong to.
OwnedIn(o, x) == /\ o[x.at] \in Users
                 /\ x.rt # None => o[x.rt] \in Users
Owned(x) == OwnedIn(ownerOf, x)

OwnInv ==
  /\ \A g \in Grants : g > issued => ownerOf[g] = None
  /\ \A p \in DOMAIN accounts : Owned(accounts[p])
  /\ disk # None => \A p \in DOMAIN disk : Owned(disk[p])
  /\ \A c \in Callers : snap[c] # None => Owned(snap[c])
  /\ \A c \in Callers : tok[c] # None => Owned(tok[c])

TypeInv == TypeOK /\ CallerInv /\ OwnInv

LEMMA InitTypeInv == Init => TypeInv
<1>1. ASSUME Init PROVE TypeOK
  <2>1. IsList(accounts) /\ disk = accounts
    BY <1>1 DEF Init, IsList
  <2>. QED  BY <1>1, <2>1, TokenStoreAssumptions DEF Init, TypeOK, Ids
<1>2. ASSUME Init PROVE CallerInv
  BY <1>2 DEF Init, CallerInv
<1>3. ASSUME Init PROVE OwnInv
  BY <1>3, TokenStoreAssumptions DEF Init, OwnInv
<1>. QED  BY <1>1, <1>2, <1>3 DEF TypeInv

\* Saving and returning, as the handlers combine them, preserve ownership when
\* every entry of the new list is owned.
LEMMA SaveOwned ==
  ASSUME TypeInv, Save, ownerOf' = ownerOf, issued' = issued,
         \A p \in DOMAIN accounts' : Owned(accounts'[p])
  PROVE  (disk # None => \A p \in DOMAIN disk : Owned(disk[p]))'
BY DEF TypeInv, OwnInv, Save, Owned, OwnedIn

\* A grant changes nobody's ownership of the grants already in use.
LEMMA GrantOwned ==
  ASSUME TypeInv, NEW c \in Callers, NEW u \in Users, NEW b \in BOOLEAN, Grant(c, u, b),
         NEW x, x.at \in Grants, x.rt \in Grants \cup {None}, Owned(x)
  PROVE  OwnedIn(ownerOf', x)
BY TokenStoreAssumptions DEF TypeInv, TypeOK, OwnInv, Owned, OwnedIn, Grant, Grants, Ids

LEMMA UpsertOwned ==
  ASSUME TypeInv, NEW acc \in Account, Upsert(acc), Owned(acc), ownerOf' = ownerOf
  PROVE  \A p \in DOMAIN accounts' : Owned(accounts'[p])
<1>. USE DEF Owned, OwnedIn
<1>1. ASSUME NEW p \in FirstOf(FreePositions),
             accounts' = [q \in DOMAIN accounts \cup {p} |->
                            IF q = p THEN acc ELSE accounts[q]]
      PROVE  \A q \in DOMAIN accounts' : Owned(accounts'[q])
  BY <1>1 DEF TypeInv, OwnInv
<1>2. ASSUME NEW p \in FirstOf(Matching(acc)),
             accounts' = [accounts EXCEPT ![p] =
                [acc EXCEPT !.rt = IF acc.rt = None THEN accounts[p].rt ELSE @]]
      PROVE  \A q \in DOMAIN accounts' : Owned(accounts'[q])
  <2>. DEFINE new == [acc EXCEPT !.rt = IF acc.rt = None THEN accounts[p].rt ELSE @]
  <2>1. p \in DOMAIN accounts /\ Owned(accounts[p])
    BY <1>2 DEF TypeInv, OwnInv, FirstOf, Matching
  <2>2. new.at = acc.at /\ new.rt \in {acc.rt, accounts[p].rt}
    BY DEF Account
  <2>3. Owned(new)
    BY <2>1, <2>2
  <2>4. DOMAIN accounts' = DOMAIN accounts /\ accounts'[p] = new
        /\ \A q \in DOMAIN accounts : q # p => accounts'[q] = accounts[q]
    BY <1>2, <2>1 DEF TypeInv, TypeOK, IsList
  <2>. QED  BY <2>3, <2>4 DEF TypeInv, OwnInv
<1>. QED  BY <1>1, <1>2 DEF Upsert

\* Return frees the caller's copies and touches nobody else's.
LEMMA ReturnInv ==
  ASSUME TypeInv, NEW c \in Callers, Return(c), ownerOf' = ownerOf
  PROVE  /\ CallerInv'
         /\ \A d \in Callers : (snap[d] # None => Owned(snap[d]))'
         /\ \A d \in Callers : (tok[d] # None => Owned(tok[d]))'
BY DEF TypeInv, TypeOK, CallerInv, OwnInv, Return, Owned, OwnedIn

\* A handler that ends with an Upsert preserves the invariant.
LEMMA UpsertReturnInv ==
  ASSUME TypeInv, NEW c \in Callers, NEW acc \in Account, Owned(acc), Upsert(acc),
         Return(c), UNCHANGED <<up, provider, expired>>
  PROVE  TypeInv'
<1>0. ownerOf' = ownerOf /\ issued' = issued /\ TypeOK
  BY DEF provider, TypeInv
<1>1. IsList(accounts)' /\ blame' \in [Ids -> SUBSET Causes] /\ Save
  BY <1>0, UpsertType
<1>2. TypeOK'
  BY <1>0, <1>1, SaveType, ReturnType DEF TypeOK, provider
<1>3. \A p \in DOMAIN accounts' : Owned(accounts'[p])
  BY <1>0, UpsertOwned
<1>4. (disk # None => \A p \in DOMAIN disk : Owned(disk[p]))'
  BY <1>0, <1>1, <1>3, SaveOwned
<1>5. (\A p \in DOMAIN accounts : Owned(accounts[p]))'
  BY <1>0, <1>3 DEF Owned, OwnedIn
<1>6. OwnInv'
  BY <1>0, <1>4, <1>5, ReturnInv DEF OwnInv, TypeInv
<1>. QED  BY <1>0, <1>2, <1>6, ReturnInv DEF TypeInv

\* A grant handed to a caller, everything stored left alone, preserves ownership.
LEMMA GrantOwnInv ==
  ASSUME TypeInv, NEW c \in Callers, NEW u \in Users, NEW b \in BOOLEAN, Grant(c, u, b),
         UNCHANGED <<accounts, disk, snap>>
  PROVE  OwnInv' /\ tok'[c] \in TokenSet
<1>1. TypeOK /\ OwnInv
  BY DEF TypeInv
<1>2. tok' \in [Callers -> TokenSet \cup {None}] /\ issued' \in Grants
  BY <1>1, GrantType
<1>3. tok'[c] \in TokenSet /\ tok'[c].at = issued' /\ tok'[c].rt \in {issued', None}
  <2>1. tok'[c] = [id    |-> IF u \in Opaque THEN None ELSE u,
                   email |-> IF u \in Opaque THEN None ELSE EmailOf[u],
                   at    |-> issued + 1,
                   rt    |-> IF b THEN issued + 1 ELSE None]
    BY <1>1 DEF Grant, TypeOK
  <2>2. (IF u \in Opaque THEN None ELSE EmailOf[u]) \in Emails \cup {None}
    BY DEF Emails
  <2>. QED  BY <1>2, <2>1, <2>2 DEF Grant, TokenSet
<1>4. ownerOf'[issued'] \in Users
  BY <1>1, <1>2 DEF Grant, TypeOK
<1>5. \A g \in Grants : g > issued' => ownerOf'[g] = None
  BY <1>1, <1>2 DEF Grant, TypeOK, OwnInv, Grants
<1>6. \A p \in DOMAIN accounts' : OwnedIn(ownerOf', accounts'[p])
  BY <1>1, GrantOwned DEF OwnInv, TypeOK, IsList, Account
<1>7. disk' # None => \A p \in DOMAIN disk' : OwnedIn(ownerOf', disk'[p])
  BY <1>1, GrantOwned DEF OwnInv, TypeOK, IsList, Account
<1>8. \A d \in Callers : snap'[d] # None => OwnedIn(ownerOf', snap'[d])
  BY <1>1, GrantOwned DEF OwnInv, TypeOK, Account
<1>9. \A d \in Callers : tok'[d] # None => OwnedIn(ownerOf', tok'[d])
  <2>. SUFFICES ASSUME NEW d \in Callers, tok'[d] # None PROVE OwnedIn(ownerOf', tok'[d])
    OBVIOUS
  <2>1. CASE d = c
    BY <1>3, <1>4, <2>1, TokenStoreAssumptions DEF Owned, OwnedIn, Grants
  <2>2. CASE d # c
    <3>1. tok'[d] = tok[d] /\ tok[d] \in TokenSet
      BY <1>1, <2>2 DEF Grant, TypeOK
    <3>. QED  BY <1>1, <3>1, GrantOwned DEF OwnInv, TokenSet
  <2>. QED  BY <2>1, <2>2
<1>. QED  BY <1>3, <1>5, <1>6, <1>7, <1>8, <1>9 DEF OwnInv, Owned

LEMMA NextTypeInv == TypeInv /\ [Next]_vars => TypeInv'
<1>. SUFFICES ASSUME TypeInv, [Next]_vars PROVE TypeInv'
  OBVIOUS
<1>t. TypeOK /\ CallerInv /\ OwnInv
  BY DEF TypeInv
<1>1. ASSUME NEW c \in Callers, ResolveFirst(c) PROVE TypeInv'
  <2>1. PICK p \in DOMAIN accounts : snap' = [snap EXCEPT ![c] = accounts[p]]
    BY <1>1 DEF ResolveFirst, FirstOf
  <2>2. accounts[p] \in Account /\ Owned(accounts[p])
    BY <1>t DEF TypeOK, IsList, OwnInv
  <2>3. TypeOK'
    BY <1>1, <1>t, <2>1, <2>2 DEF ResolveFirst, TypeOK, IsList, provider
  <2>4. CallerInv'
    BY <1>1, <1>t, <2>1, <2>2, TokenStoreAssumptions DEF ResolveFirst, TypeOK, CallerInv
  <2>5. OwnInv'
    BY <1>1, <1>t, <2>1, <2>2 DEF ResolveFirst, TypeOK, OwnInv, Owned, OwnedIn, provider
  <2>. QED  BY <2>3, <2>4, <2>5 DEF TypeInv
<1>2. ASSUME NEW c \in Callers, NEW key \in Ids \cup Emails, EnsureValid(c, key)
      PROVE  TypeInv'
  <2>0. UNCHANGED <<accounts, disk, saved, up, provider, expired, faults, blame>>
    BY <1>2 DEF EnsureValid
  <2>1. CASE Return(c)
    <3>1. TypeOK'
      BY <1>t, <2>0, <2>1, ReturnType DEF TypeOK, IsList, provider
    <3>2. CallerInv' /\ OwnInv'
      BY <1>t, <2>0, <2>1, ReturnInv DEF OwnInv, Owned, OwnedIn, provider
    <3>. QED  BY <3>1, <3>2 DEF TypeInv
  <2>2. ASSUME NEW p \in FirstOf(Known(key)), UNCHANGED tok,
               snap' = [snap EXCEPT ![c] = accounts[p]],
               pc' = [pc EXCEPT ![c] = IF accounts[p].rt = None THEN "unrefreshable"
                                                                ELSE "refreshing"]
        PROVE  TypeInv'
    <3>1. p \in DOMAIN accounts /\ accounts[p] \in Account /\ Owned(accounts[p])
      BY <1>t, <2>2 DEF FirstOf, Known, TypeOK, IsList, OwnInv
    <3>2. TypeOK'
      BY <1>t, <2>0, <2>2, <3>1 DEF TypeOK, IsList, provider
    <3>3. CallerInv'
      BY <1>t, <2>2, <3>1, TokenStoreAssumptions DEF TypeOK, CallerInv, Account
    <3>4. OwnInv'
      BY <1>t, <2>0, <2>2, <3>1 DEF TypeOK, OwnInv, Owned, OwnedIn, provider
    <3>. QED  BY <3>2, <3>3, <3>4 DEF TypeInv
  <2>. QED  BY <1>2, <2>1, <2>2 DEF EnsureValid
<1>3. ASSUME NEW c \in Callers, RefreshGranted(c) PROVE TypeInv'
  <2>1. snap[c] \in Account /\ snap[c].rt \in Grants /\ Owned(snap[c])
    BY <1>3, <1>t, TokenStoreAssumptions
       DEF RefreshGranted, CallerInv, OwnInv, Account, Ids, Grants
  <2>2. PICK rotate \in BOOLEAN :
          /\ Grant(c, ownerOf[snap[c].rt], rotate)
          /\ spent' = IF rotate THEN spent \cup {snap[c].rt} ELSE spent
    BY <1>3 DEF RefreshGranted
  <2>3. ownerOf[snap[c].rt] \in Users
    BY <2>1, TokenStoreAssumptions DEF Owned, OwnedIn, Grants
  <2>4. /\ issued' \in 0..MaxGrants /\ issued' \in Grants
        /\ ownerOf' \in [Grants -> Users \cup {None}]
        /\ tok' \in [Callers -> TokenSet \cup {None}]
    BY <1>t, <2>2, <2>3, GrantType
  <2>5. TypeOK'
    BY <1>3, <1>t, <2>1, <2>2, <2>4 DEF RefreshGranted, TypeOK, IsList
  <2>6. OwnInv' /\ tok'[c] \in TokenSet
    BY <1>3, <2>2, <2>3, GrantOwnInv DEF RefreshGranted
  <2>7. CallerInv'
    BY <1>3, <1>t, <2>1, <2>2, <2>6, TokenStoreAssumptions DEF RefreshGranted, Grant, TypeOK, CallerInv
  <2>. QED  BY <2>5, <2>6, <2>7 DEF TypeInv
<1>4. ASSUME NEW c \in Callers, RefreshFailed(c) PROVE TypeInv'
  <2>1. snap[c] \in Account /\ snap[c].rt \in Grants
    BY <1>4, <1>t DEF RefreshFailed, CallerInv
  <2>2. TypeOK'
    BY <1>4, <1>t, <2>1 DEF RefreshFailed, TypeOK, IsList, Causes, Account
  <2>3. CallerInv' /\ OwnInv'
    BY <1>4, <1>t, <2>1 DEF RefreshFailed, TypeOK, CallerInv, OwnInv, Owned, OwnedIn
  <2>. QED  BY <2>2, <2>3 DEF TypeInv
<1>5. ASSUME NEW c \in Callers, FinishRefresh(c) PROVE TypeInv'
  <2>. DEFINE t == tok[c]
              acc == OnlineAccount(IF t.id = None THEN snap[c].id ELSE t.id,
                                   IF t.email = None THEN snap[c].email ELSE t.email, t)
  <2>1. t \in TokenSet /\ snap[c] \in Account /\ Owned(t)
    BY <1>5, <1>t DEF FinishRefresh, CallerInv, OwnInv, TypeOK, TokenSet
  <2>2. acc \in Account
    BY <2>1 DEF OnlineAccount, Account, TokenSet, Ids
  <2>3. Owned(acc)
    BY <2>1 DEF OnlineAccount, Owned, OwnedIn
  <2>4. Upsert(acc) /\ Return(c) /\ UNCHANGED <<up, provider, expired>>
    BY <1>5 DEF FinishRefresh
  <2>. HIDE DEF acc
  <2>. QED  BY <2>2, <2>3, <2>4, UpsertReturnInv
<1>6. ASSUME NEW c \in Callers, MarkExpired(c) PROVE TypeInv'
  <2>0. snap[c] \in Account /\ Owned(snap[c]) /\ UNCHANGED <<up, provider, expired>> /\ Return(c)
    BY <1>6, <1>t, TokenStoreAssumptions DEF MarkExpired, CallerInv, OwnInv, Account, Ids
  <2>1. CASE UNCHANGED <<accounts, disk, saved, faults, blame>>
    <3>1. TypeOK'
      BY <1>t, <2>0, <2>1, ReturnType DEF TypeOK, IsList, provider
    <3>2. CallerInv' /\ OwnInv'
      BY <1>t, <2>0, <2>1, ReturnInv DEF OwnInv, Owned, OwnedIn, provider
    <3>. QED  BY <3>1, <3>2 DEF TypeInv
  <2>2. ASSUME NEW p \in DOMAIN accounts, accounts[p].id = snap[c].id, Save,
               accounts' = [accounts EXCEPT ![p] = [snap[c] EXCEPT !.status = "expired"]],
               blame' = [blame EXCEPT ![snap[c].id] =
                           IF accounts[p].rt = snap[c].rt THEN @ ELSE @ \cup {"staleWrite"}]
        PROVE  TypeInv'
    <3>. DEFINE old == [snap[c] EXCEPT !.status = "expired"]
    <3>1. old \in Account /\ Owned(old)
      BY <2>0 DEF Account, Owned, OwnedIn
    <3>. HIDE DEF old
    <3>2. IsList(accounts)' /\ \A q \in DOMAIN accounts' : Owned(accounts'[q])
      BY <1>t, <2>2, <3>1 DEF old, TypeOK, IsList, OwnInv
    <3>3. blame' \in [Ids -> SUBSET Causes]
      BY <1>t, <2>0, <2>2 DEF TypeOK, Account, Causes
    <3>4. (disk = None \/ IsList(disk))' /\ saved' \in BOOLEAN /\ faults' \in Nat
      BY <1>t, <2>2, <3>2, SaveType
    <3>5. TypeOK'
      BY <1>t, <2>0, <3>2, <3>3, <3>4, ReturnType DEF TypeOK, provider
    <3>6. (disk # None => \A q \in DOMAIN disk : Owned(disk[q]))'
      BY <2>0, <2>2, <3>2, SaveOwned DEF provider
    <3>7. OwnInv'
      BY <1>t, <2>0, <3>2, <3>6, ReturnInv DEF OwnInv, Owned, OwnedIn, provider
    <3>8. CallerInv'
      BY <2>0, ReturnInv DEF provider
    <3>. QED  BY <3>5, <3>7, <3>8 DEF TypeInv
  <2>. QED  BY <1>6, <2>1, <2>2 DEF MarkExpired, FirstOf
<1>7. ASSUME NEW c \in Callers, NEW u \in Users, ExchangeCode(c, u) PROVE TypeInv'
  <2>1. PICK b \in BOOLEAN : Grant(c, u, b)
    BY <1>7 DEF ExchangeCode
  <2>2. OwnInv' /\ tok'[c] \in TokenSet
    BY <1>7, <2>1, GrantOwnInv DEF ExchangeCode
  <2>3. TypeOK'
    BY <1>7, <1>t, <2>1, GrantType DEF ExchangeCode, TypeOK, IsList
  <2>4. CallerInv'
    BY <1>7, <1>t, <2>1, <2>2, TokenStoreAssumptions DEF ExchangeCode, Grant, TypeOK, CallerInv
  <2>. QED  BY <2>2, <2>3, <2>4 DEF TypeInv
<1>8. ASSUME NEW c \in Callers, FinishLogin(c) PROVE TypeInv'
  <2>1. tok[c] \in TokenSet /\ Owned(tok[c])
    BY <1>8, <1>t, TokenStoreAssumptions DEF FinishLogin, CallerInv, OwnInv, TokenSet, Grants
  <2>2. PICK id \in IF tok[c].id = None THEN ClockIds ELSE {tok[c].id} :
          Upsert(OnlineAccount(id, tok[c].email, tok[c]))
    BY <1>8 DEF FinishLogin
  <2>. DEFINE acc == OnlineAccount(id, tok[c].email, tok[c])
  <2>3. acc \in Account
    BY <2>1, <2>2 DEF OnlineAccount, Account, TokenSet, Ids
  <2>4. Owned(acc)
    BY <2>1 DEF OnlineAccount, Owned, OwnedIn
  <2>5. Return(c) /\ UNCHANGED <<up, provider, expired>>
    BY <1>8 DEF FinishLogin
  <2>. HIDE DEF acc
  <2>. QED  BY <2>2, <2>3, <2>4, <2>5, UpsertReturnInv DEF acc
<1>9. ASSUME NEW id \in Ids, Delete(id) PROVE TypeInv'
  <2>1. IsList(accounts)' /\ \A p \in DOMAIN accounts' : Owned(accounts'[p])
    BY <1>9, <1>t DEF Delete, TypeOK, IsList, OwnInv
  <2>2. Save /\ UNCHANGED <<up, pc, snap, tok, provider, expired, blame>>
    BY <1>9 DEF Delete
  <2>3. TypeOK'
    BY <1>t, <2>1, <2>2, SaveType DEF TypeOK, provider
  <2>4. (disk # None => \A q \in DOMAIN disk : Owned(disk[q]))'
    BY <2>1, <2>2, SaveOwned DEF provider
  <2>5. CallerInv' /\ OwnInv'
    BY <1>t, <2>1, <2>2, <2>4 DEF CallerInv, OwnInv, Owned, OwnedIn, provider
  <2>. QED  BY <2>3, <2>5 DEF TypeInv
<1>10. ASSUME NEW g \in Grants, Expire(g) PROVE TypeInv'
  BY <1>10, <1>t DEF Expire, TypeInv, TypeOK, IsList, CallerInv, OwnInv, Owned, OwnedIn, provider
<1>11. ASSUME Crash PROVE TypeInv'
  <2>0. blame' \in [Ids -> SUBSET Causes]
    <3>1. \A i \in Ids : blame[i] \in SUBSET Causes /\ blame[i] \cup {"crash"} \in SUBSET Causes
      BY <1>t DEF TypeOK, Causes
    <3>. QED  BY <1>11, <3>1 DEF Crash
  <2>1. TypeOK'
    <3>1. IsList(accounts)' /\ (disk = None \/ IsList(disk))'
      BY <1>11, <1>t DEF Crash, TypeOK, IsList
    <3>2. faults' \in Nat
      BY <1>11, <1>t, SMT DEF Crash, TypeOK
    <3>4. up' \in BOOLEAN
      BY <1>11, Zenon DEF Crash
    <3>3. snap' \in [Callers -> Account \cup {None}] /\ tok' \in [Callers -> TokenSet \cup {None}]
      BY <1>11 DEF Crash
    <3>. QED  BY <1>11, <1>t, <2>0, <3>1, <3>2, <3>3, <3>4 DEF Crash, TypeOK, provider
  <2>2. CallerInv' /\ OwnInv'
    BY <1>11, <1>t DEF Crash, CallerInv, OwnInv, Owned, OwnedIn, provider
  <2>. QED  BY <2>1, <2>2 DEF TypeInv
<1>12. ASSUME OpenStore PROVE TypeInv'
  <2>1. TypeOK'
    BY <1>12, <1>t DEF OpenStore, TypeOK, IsList, provider
  <2>2. CallerInv' /\ OwnInv'
    BY <1>12, <1>t DEF OpenStore, CallerInv, OwnInv, Owned, OwnedIn, provider
  <2>. QED  BY <2>1, <2>2 DEF TypeInv
<1>13. ASSUME UNCHANGED vars PROVE TypeInv'
  BY <1>13, <1>t DEF vars, TypeInv, TypeOK, IsList, CallerInv, OwnInv, Owned, OwnedIn
<1>. QED
  BY <1>1, <1>2, <1>3, <1>4, <1>5, <1>6, <1>7, <1>8, <1>9, <1>10, <1>11, <1>12, <1>13
     DEF Next

\* The variables keep their types, whatever the callers, the administrator, the
\* provider, failing saves and crashes do; in particular every copy a caller
\* still holds when it writes back is a whole account.
THEOREM TypeCorrect == Spec => []TypeOK
<1>1. TypeInv => TypeOK
  BY DEF TypeInv
<1>. QED  BY <1>1, InitTypeInv, NextTypeInv, PTL DEF Spec

-----------------------------------------------------------------------------
\* While no save fails the file is what the memory holds: every change is saved in
\* the section that makes it.
THEOREM FileIsCurrent == Spec => []FileHoldsMemory
<1>1. Init => FileHoldsMemory
  BY DEF Init, FileHoldsMemory
<1>2. FileHoldsMemory /\ [Next]_vars => FileHoldsMemory'
  <2>. SUFFICES ASSUME FileHoldsMemory, [Next]_vars PROVE FileHoldsMemory'
    OBVIOUS
  <2>1. ASSUME Save PROVE FileHoldsMemory'
    BY <2>1 DEF Save, FileHoldsMemory
  <2>2. ASSUME UNCHANGED <<accounts, disk, saved, up>> PROVE FileHoldsMemory'
    BY <2>2 DEF FileHoldsMemory
  <2>3. ASSUME NEW c \in Callers,
               \/ ResolveFirst(c)
               \/ \E key \in Ids \cup Emails : EnsureValid(c, key)
               \/ RefreshGranted(c) \/ RefreshFailed(c)
               \/ \E u \in Users : ExchangeCode(c, u)
        PROVE  FileHoldsMemory'
    BY <2>2, <2>3 DEF ResolveFirst, EnsureValid, RefreshGranted, RefreshFailed, ExchangeCode
  <2>4. ASSUME NEW c \in Callers, FinishRefresh(c) \/ FinishLogin(c) PROVE FileHoldsMemory'
    BY <2>1, <2>4 DEF FinishRefresh, FinishLogin, Upsert
  <2>5. ASSUME NEW c \in Callers, MarkExpired(c) PROVE FileHoldsMemory'
    BY <2>1, <2>2, <2>5 DEF MarkExpired
  <2>6. ASSUME NEW id \in Ids, Delete(id) PROVE FileHoldsMemory'
    BY <2>1, <2>6 DEF Delete
  <2>7. ASSUME NEW g \in Grants, Expire(g) PROVE FileHoldsMemory'
    BY <2>2, <2>7 DEF Expire
  <2>8. ASSUME Crash \/ OpenStore PROVE FileHoldsMemory'
    BY <2>8 DEF Crash, OpenStore, FileHoldsMemory
  <2>9. ASSUME UNCHANGED vars PROVE FileHoldsMemory'
    BY <2>2, <2>9 DEF vars
  <2>. QED  BY <2>3, <2>4, <2>5, <2>6, <2>7, <2>8, <2>9 DEF Next
<1>. QED  BY <1>1, <1>2, PTL DEF Spec

-----------------------------------------------------------------------------
(***************************************************************************)
(* New tokens.  A refresh token on its way from the provider to the store  *)
(* is accepted by the provider and held by nobody but the caller that      *)
(* received it; when the process is down nobody holds anything.            *)
(***************************************************************************)
DownIsEmpty ==
  ~up => /\ DOMAIN accounts = {}
         /\ \A c \in Callers : pc[c] = "idle" /\ snap[c] = None /\ tok[c] = None

SpentWereIssued == \A g \in spent : ownerOf[g] # None

NewTokens ==
  \A c \in Callers : tok[c] # None /\ tok[c].rt # None =>
    /\ tok[c].rt \notin spent
    /\ \A p \in DOMAIN accounts : accounts[p].rt # tok[c].rt
    /\ \A d \in Callers : snap[d] # None => snap[d].rt # tok[c].rt
    /\ \A d \in Callers \ {c} : tok[d] # None => tok[d].rt # tok[c].rt

FreshInv == DownIsEmpty /\ SpentWereIssued /\ NewTokens

\* What Upsert does to the list: a new last entry, or the entry of the first match.
LEMMA UpsertEffect ==
  ASSUME TypeOK, NEW acc \in Account, Upsert(acc)
  PROVE  \/ /\ Matching(acc) = {}
            /\ \E p \in Positions \ DOMAIN accounts :
                 /\ DOMAIN accounts' = DOMAIN accounts \cup {p} /\ accounts'[p] = acc
                 /\ \A q \in DOMAIN accounts : accounts'[q] = accounts[q]
         \/ \E p \in Matching(acc) :
              /\ DOMAIN accounts' = DOMAIN accounts
              /\ accounts'[p] = [acc EXCEPT !.rt = IF acc.rt = None THEN accounts[p].rt ELSE @]
              /\ \A q \in DOMAIN accounts \ {p} : accounts'[q] = accounts[q]
<1>1. ASSUME NEW p \in FirstOf(FreePositions), Matching(acc) = {},
             accounts' = [q \in DOMAIN accounts \cup {p} |->
                            IF q = p THEN acc ELSE accounts[q]]
      PROVE  /\ p \in Positions \ DOMAIN accounts
             /\ DOMAIN accounts' = DOMAIN accounts \cup {p} /\ accounts'[p] = acc
             /\ \A q \in DOMAIN accounts : accounts'[q] = accounts[q]
  <2>1. p \in Positions /\ p \in Nat /\ \A q \in DOMAIN accounts : q < p
    BY <1>1, TokenStoreAssumptions DEF FirstOf, FreePositions
  <2>2. p \notin DOMAIN accounts
    BY <2>1
  <2>. QED  BY <1>1, <2>1, <2>2
<1>2. ASSUME NEW p \in FirstOf(Matching(acc)),
             accounts' = [accounts EXCEPT ![p] =
                [acc EXCEPT !.rt = IF acc.rt = None THEN accounts[p].rt ELSE @]]
      PROVE  /\ p \in Matching(acc)
             /\ DOMAIN accounts' = DOMAIN accounts
             /\ accounts'[p] = [acc EXCEPT !.rt = IF acc.rt = None THEN accounts[p].rt ELSE @]
             /\ \A q \in DOMAIN accounts \ {p} : accounts'[q] = accounts[q]
  <2>. DEFINE new == [acc EXCEPT !.rt = IF acc.rt = None THEN accounts[p].rt ELSE @]
  <2>1. p \in Matching(acc) /\ p \in DOMAIN accounts
    BY <1>2 DEF FirstOf, Matching
  <2>. HIDE DEF new
  <2>2. DOMAIN accounts' = DOMAIN accounts /\ accounts'[p] = new
        /\ \A q \in DOMAIN accounts \ {p} : accounts'[q] = accounts[q]
    BY <1>2, <2>1 DEF new, TypeOK, IsList
  <2>. QED  BY <2>1, <2>2 DEF new
<1>3. CASE /\ Matching(acc) = {}
           /\ \E p \in FirstOf(FreePositions) :
                accounts' = [q \in DOMAIN accounts \cup {p} |->
                               IF q = p THEN acc ELSE accounts[q]]
  BY <1>1, <1>3
<1>4. CASE \E p \in FirstOf(Matching(acc)) :
             accounts' = [accounts EXCEPT ![p] =
                [acc EXCEPT !.rt = IF acc.rt = None THEN accounts[p].rt ELSE @]]
  BY <1>2, <1>4
<1>. QED  BY <1>3, <1>4 DEF Upsert

\* The refresh tokens in the list after an Upsert: the old ones and the new one.
LEMMA UpsertTokens ==
  ASSUME TypeOK, NEW acc \in Account, Upsert(acc), NEW p \in DOMAIN accounts'
  PROVE  accounts'[p].rt = acc.rt \/ \E q \in DOMAIN accounts : accounts'[p].rt = accounts[q].rt
<1>1. ASSUME NEW q \in Matching(acc),
             accounts'[q] = [acc EXCEPT !.rt = IF acc.rt = None THEN accounts[q].rt ELSE @]
      PROVE  accounts'[q].rt \in {acc.rt, accounts[q].rt} /\ q \in DOMAIN accounts
  BY <1>1 DEF Account, Matching
<1>. QED  BY <1>1, UpsertEffect

LEMMA ReturnEffect ==
  ASSUME TypeOK, NEW c \in Callers, Return(c), NEW d \in Callers
  PROVE  IF d = c THEN pc'[d] = "idle" /\ snap'[d] = None /\ tok'[d] = None
                  ELSE pc'[d] = pc[d] /\ snap'[d] = snap[d] /\ tok'[d] = tok[d]
BY DEF TypeOK, Return

\* A caller that returns takes its tokens with it; the list it leaves may hold its
\* own new one.
LEMMA ReturnFresh ==
  ASSUME TypeOK, FreshInv, NEW c \in Callers, Return(c), up' = up, up, UNCHANGED provider,
         \A p \in DOMAIN accounts' :
           \/ tok[c] # None /\ accounts'[p].rt = tok[c].rt
           \/ snap[c] # None /\ accounts'[p].rt = snap[c].rt
           \/ \E q \in DOMAIN accounts : accounts'[p].rt = accounts[q].rt
  PROVE  FreshInv'
<1>1. DownIsEmpty' /\ SpentWereIssued'
  BY DEF FreshInv, DownIsEmpty, SpentWereIssued, provider
<1>2. ASSUME NEW d \in Callers, tok'[d] # None, tok'[d].rt # None
      PROVE  /\ tok'[d].rt \notin spent'
             /\ \A p \in DOMAIN accounts' : accounts'[p].rt # tok'[d].rt
             /\ \A e \in Callers : snap'[e] # None => snap'[e].rt # tok'[d].rt
             /\ \A e \in Callers \ {d} : tok'[e] # None => tok'[e].rt # tok'[d].rt
  <2>1. d # c /\ tok'[d] = tok[d]
    BY <1>2, ReturnEffect
  <2>2. /\ tok[d].rt \notin spent
        /\ \A p \in DOMAIN accounts : accounts[p].rt # tok[d].rt
        /\ \A e \in Callers : snap[e] # None => snap[e].rt # tok[d].rt
        /\ \A e \in Callers \ {d} : tok[e] # None => tok[e].rt # tok[d].rt
    BY <1>2, <2>1 DEF FreshInv, NewTokens
  <2>3. \A p \in DOMAIN accounts' : accounts'[p].rt # tok[d].rt
    BY <2>1, <2>2
  <2>. QED  BY <2>1, <2>2, <2>3, ReturnEffect DEF provider
<1>. QED  BY <1>1, <1>2 DEF FreshInv, NewTokens

\* A handler that ends with an Upsert files its own new token and no other's.
LEMMA UpsertReturnFresh ==
  ASSUME TypeOK, FreshInv, NEW c \in Callers, NEW acc \in Account, tok[c] # None,
         acc.rt = tok[c].rt, Upsert(acc), Return(c), up, UNCHANGED <<up, provider>>
  PROVE  FreshInv'
BY UpsertTokens, ReturnFresh

\* The provider has given nobody the token it gives next.
LEMMA GrantFresh ==
  ASSUME TypeInv, FreshInv, up, up' = up, NEW c \in Callers, NEW u \in Users, NEW b \in BOOLEAN,
         Grant(c, u, b), UNCHANGED <<accounts, snap>>,
         \/ spent' = spent
         \/ snap[c] # None /\ snap[c].rt \in Grants /\ spent' = spent \cup {snap[c].rt}
  PROVE  FreshInv'
<1>1. TypeOK /\ OwnInv /\ issued + 1 \in Grants /\ ownerOf[issued + 1] = None
  BY TokenStoreAssumptions DEF TypeInv, TypeOK, Grant, Grants, OwnInv
<1>2. None \notin Users /\ None \notin Grants
  BY TokenStoreAssumptions DEF Ids, Grants
<1>3. ASSUME NEW x, x.rt # None, Owned(x) PROVE x.rt # issued + 1
  BY <1>1, <1>2, <1>3 DEF Owned, OwnedIn
<1>4. \A g \in Grants : ownerOf[g] # None => ownerOf'[g] # None
  BY <1>1, <1>2 DEF Grant, TypeOK
<1>5. DownIsEmpty' /\ SpentWereIssued'
  <2>1. snap[c] # None /\ snap[c].rt \in Grants => ownerOf[snap[c].rt] # None
    BY <1>1, <1>2 DEF OwnInv, Owned, OwnedIn
  <2>2. \A g \in spent' : g \in Grants /\ ownerOf[g] # None
    BY <1>1, <2>1 DEF FreshInv, SpentWereIssued, TypeOK
  <2>. QED  BY <1>4, <2>2 DEF FreshInv, DownIsEmpty, SpentWereIssued
<1>6. /\ tok'[c].rt \in {issued + 1, None}
      /\ \A d \in Callers \ {c} : tok'[d] = tok[d]
  BY <1>1 DEF Grant, TypeOK
<1>7. ASSUME NEW d \in Callers, tok'[d] # None, tok'[d].rt # None
      PROVE  /\ tok'[d].rt \notin spent'
             /\ \A p \in DOMAIN accounts' : accounts'[p].rt # tok'[d].rt
             /\ \A e \in Callers : snap'[e] # None => snap'[e].rt # tok'[d].rt
             /\ \A e \in Callers \ {d} : tok'[e] # None => tok'[e].rt # tok'[d].rt
  <2>1. CASE d = c
    <3>1. tok'[d].rt = issued + 1
      BY <1>6, <1>7, <2>1
    <3>2. issued + 1 \notin spent'
      <4>1. issued + 1 \notin spent
        BY <1>1 DEF FreshInv, SpentWereIssued
      <4>2. snap[c] # None /\ snap[c].rt \in Grants => snap[c].rt # issued + 1
        BY <1>1, <1>2, <1>3 DEF OwnInv
      <4>. QED  BY <4>1, <4>2
    <3>3. \A p \in DOMAIN accounts : accounts[p].rt # issued + 1
      BY <1>1, <1>2, <1>3 DEF OwnInv
    <3>4. \A e \in Callers : snap[e] # None => snap[e].rt # issued + 1
      BY <1>1, <1>2, <1>3 DEF OwnInv
    <3>5. \A e \in Callers : tok[e] # None => tok[e].rt # issued + 1
      BY <1>1, <1>2, <1>3 DEF OwnInv
    <3>. QED  BY <1>6, <2>1, <3>1, <3>2, <3>3, <3>4, <3>5
  <2>2. CASE d # c
    <3>1. tok'[d] = tok[d] /\ tok[d].rt # issued + 1
      BY <1>1, <1>3, <1>6, <1>7, <2>2 DEF OwnInv
    <3>2. /\ tok[d].rt \notin spent
          /\ \A p \in DOMAIN accounts : accounts[p].rt # tok[d].rt
          /\ \A e \in Callers : snap[e] # None => snap[e].rt # tok[d].rt
          /\ \A e \in Callers \ {d} : tok[e] # None => tok[e].rt # tok[d].rt
      BY <1>7, <3>1 DEF FreshInv, NewTokens
    <3>3. tok'[c].rt # tok[d].rt
      BY <1>6, <1>7, <3>1
    <3>. QED  BY <1>6, <3>1, <3>2, <3>3
  <2>. QED  BY <2>1, <2>2
<1>. QED  BY <1>5, <1>7 DEF FreshInv, NewTokens

LEMMA InitFresh == Init => FreshInv
BY DEF Init, FreshInv, DownIsEmpty, SpentWereIssued, NewTokens

LEMMA NextFresh == TypeInv /\ FreshInv /\ [Next]_vars => FreshInv'
<1>. SUFFICES ASSUME TypeInv, FreshInv, [Next]_vars PROVE FreshInv'
  OBVIOUS
<1>t. TypeOK /\ CallerInv /\ OwnInv
  BY DEF TypeInv
<1>0. ASSUME UNCHANGED <<accounts, up, provider, tok>>, up,
             \A d \in Callers : snap'[d] # None =>
               \/ snap'[d] = snap[d]
               \/ \E p \in DOMAIN accounts : snap'[d] = accounts[p]
      PROVE  FreshInv'
  <2>1. DownIsEmpty' /\ SpentWereIssued'
    BY <1>0 DEF FreshInv, DownIsEmpty, SpentWereIssued, provider
  <2>2. NewTokens'
    BY <1>0 DEF FreshInv, NewTokens, provider
  <2>. QED  BY <2>1, <2>2 DEF FreshInv
<1>1. ASSUME NEW c \in Callers, ResolveFirst(c) PROVE FreshInv'
  <2>1. PICK p \in DOMAIN accounts : snap' = [snap EXCEPT ![c] = accounts[p]]
    BY <1>1 DEF ResolveFirst, FirstOf
  <2>2. \A d \in Callers : snap'[d] = snap[d] \/ snap'[d] = accounts[p]
    BY <1>t, <2>1 DEF TypeOK
  <2>. QED  BY <1>0, <1>1, <2>2 DEF ResolveFirst
<1>2. ASSUME NEW c \in Callers, NEW key \in Ids \cup Emails, EnsureValid(c, key)
      PROVE  FreshInv'
  <2>0. up /\ UNCHANGED <<accounts, up, provider>>
    BY <1>2 DEF EnsureValid
  <2>1. CASE Return(c)
    BY <1>t, <2>0, <2>1, ReturnFresh
  <2>2. ASSUME NEW p \in FirstOf(Known(key)), UNCHANGED tok,
               snap' = [snap EXCEPT ![c] = accounts[p]]
        PROVE  FreshInv'
    <3>1. p \in DOMAIN accounts
      BY <2>2 DEF FirstOf, Known
    <3>2. \A d \in Callers : snap'[d] = snap[d] \/ snap'[d] = accounts[p]
      BY <1>t, <2>2 DEF TypeOK
    <3>. QED  BY <1>0, <2>0, <2>2, <3>1, <3>2
  <2>. QED  BY <1>2, <2>1, <2>2 DEF EnsureValid
<1>3. ASSUME NEW c \in Callers, RefreshGranted(c) PROVE FreshInv'
  <2>1. snap[c] # None /\ snap[c].rt \in Grants /\ ownerOf[snap[c].rt] \in Users
    BY <1>3, <1>t, TokenStoreAssumptions DEF RefreshGranted, CallerInv, OwnInv, Owned, OwnedIn, Grants
  <2>2. PICK rotate \in BOOLEAN :
          /\ Grant(c, ownerOf[snap[c].rt], rotate)
          /\ spent' = IF rotate THEN spent \cup {snap[c].rt} ELSE spent
    BY <1>3 DEF RefreshGranted
  <2>. QED  BY <1>3, <2>1, <2>2, GrantFresh DEF RefreshGranted
<1>4. ASSUME NEW c \in Callers, RefreshFailed(c) PROVE FreshInv'
  <2>1. snap[c] # None /\ snap[c].rt \in Grants /\ ownerOf[snap[c].rt] # None
    BY <1>4, <1>t, TokenStoreAssumptions
       DEF RefreshFailed, CallerInv, OwnInv, Owned, OwnedIn, Grants, Ids
  <2>2. spent' = spent \/ spent' = spent \cup {snap[c].rt}
    BY <1>4 DEF RefreshFailed
  <2>3. DownIsEmpty' /\ SpentWereIssued'
    BY <1>4, <2>1, <2>2 DEF RefreshFailed, FreshInv, DownIsEmpty, SpentWereIssued
  <2>4. NewTokens'
    BY <1>4, <2>1, <2>2 DEF RefreshFailed, FreshInv, NewTokens
  <2>. QED  BY <2>3, <2>4 DEF FreshInv
<1>5. ASSUME NEW c \in Callers, FinishRefresh(c) PROVE FreshInv'
  <2>. DEFINE t == tok[c]
              acc == OnlineAccount(IF t.id = None THEN snap[c].id ELSE t.id,
                                   IF t.email = None THEN snap[c].email ELSE t.email, t)
  <2>1. t \in TokenSet /\ t # None /\ snap[c] \in Account
    BY <1>5, <1>t DEF FinishRefresh, CallerInv
  <2>2. acc \in Account /\ acc.rt = tok[c].rt
    BY <2>1 DEF OnlineAccount, Account, TokenSet, Ids
  <2>3. Upsert(acc) /\ Return(c) /\ up /\ UNCHANGED <<up, provider>>
    BY <1>5 DEF FinishRefresh
  <2>. HIDE DEF acc
  <2>. QED  BY <1>t, <2>1, <2>2, <2>3, UpsertReturnFresh
<1>6. ASSUME NEW c \in Callers, MarkExpired(c) PROVE FreshInv'
  <2>0. snap[c] \in Account /\ snap[c] # None /\ up /\ UNCHANGED <<up, provider>> /\ Return(c)
    BY <1>6, <1>t DEF MarkExpired, CallerInv
  <2>1. CASE UNCHANGED accounts
    BY <1>t, <2>0, <2>1, ReturnFresh
  <2>2. ASSUME NEW p \in DOMAIN accounts,
               accounts' = [accounts EXCEPT ![p] = [snap[c] EXCEPT !.status = "expired"]]
        PROVE  FreshInv'
    <3>1. [snap[c] EXCEPT !.status = "expired"].rt = snap[c].rt
      BY <2>0 DEF Account
    <3>2. \A q \in DOMAIN accounts' :
            q \in DOMAIN accounts /\ (accounts'[q].rt = snap[c].rt \/ accounts'[q] = accounts[q])
      BY <1>t, <2>2, <3>1 DEF TypeOK, IsList
    <3>. QED  BY <1>t, <2>0, <3>2, ReturnFresh
  <2>. QED  BY <1>6, <2>1, <2>2 DEF MarkExpired, FirstOf
<1>7. ASSUME NEW c \in Callers, NEW u \in Users, ExchangeCode(c, u) PROVE FreshInv'
  BY <1>7, GrantFresh DEF ExchangeCode
<1>8. ASSUME NEW c \in Callers, FinishLogin(c) PROVE FreshInv'
  <2>1. tok[c] \in TokenSet /\ tok[c] # None
    BY <1>8, <1>t DEF FinishLogin, CallerInv
  <2>2. PICK id \in IF tok[c].id = None THEN ClockIds ELSE {tok[c].id} :
          Upsert(OnlineAccount(id, tok[c].email, tok[c]))
    BY <1>8 DEF FinishLogin
  <2>. DEFINE acc == OnlineAccount(id, tok[c].email, tok[c])
  <2>3. acc \in Account /\ acc.rt = tok[c].rt
    BY <2>1, <2>2 DEF OnlineAccount, Account, TokenSet, Ids
  <2>4. Return(c) /\ up /\ UNCHANGED <<up, provider>>
    BY <1>8 DEF FinishLogin
  <2>. HIDE DEF acc
  <2>. QED  BY <1>t, <2>1, <2>2, <2>3, <2>4, UpsertReturnFresh DEF acc
<1>9. ASSUME NEW id \in Ids, Delete(id) PROVE FreshInv'
  <2>1. \A p \in DOMAIN accounts' : p \in DOMAIN accounts /\ accounts'[p] = accounts[p]
    BY <1>9 DEF Delete
  <2>2. DownIsEmpty' /\ SpentWereIssued' /\ NewTokens'
    BY <1>9, <2>1 DEF Delete, FreshInv, DownIsEmpty, SpentWereIssued, NewTokens, provider
  <2>. QED  BY <2>2 DEF FreshInv
<1>10. ASSUME NEW g \in Grants, Expire(g) PROVE FreshInv'
  BY <1>10 DEF Expire, FreshInv, DownIsEmpty, SpentWereIssued, NewTokens, provider
<1>11. ASSUME Crash PROVE FreshInv'
  BY <1>11 DEF Crash, FreshInv, DownIsEmpty, SpentWereIssued, NewTokens, provider
<1>12. ASSUME OpenStore PROVE FreshInv'
  BY <1>12 DEF OpenStore, FreshInv, DownIsEmpty, SpentWereIssued, NewTokens, provider
<1>13. ASSUME UNCHANGED vars PROVE FreshInv'
  BY <1>13 DEF vars, FreshInv, DownIsEmpty, SpentWereIssued, NewTokens, provider
<1>. QED
  BY <1>1, <1>2, <1>3, <1>4, <1>5, <1>6, <1>7, <1>8, <1>9, <1>10, <1>11, <1>12, <1>13
     DEF Next

LEMMA FreshInvariant == Spec => [](TypeInv /\ FreshInv)
<1>1. TypeInv /\ FreshInv /\ [Next]_vars => (TypeInv /\ FreshInv)'
  BY NextTypeInv, NextFresh
<1>. QED  BY <1>1, InitTypeInv, InitFresh, PTL DEF Spec

\* Only Upsert adds entries, and the entry it adds is online, with the new token of
\* its caller or none.
LEMMA AddsOnlyFresh ==
  ASSUME TypeInv, FreshInv, [Next]_vars, up, NEW p \in DOMAIN accounts' \ DOMAIN accounts
  PROVE  accounts'[p].status = "online" /\ accounts'[p].rt \notin spent
<1>n. Grants \subseteq Nat /\ None \notin Nat
  BY TokenStoreAssumptions DEF Grants
<1>t. TypeOK /\ CallerInv /\ None \notin spent
  BY <1>n DEF TypeInv, TypeOK
<1>0. ASSUME NEW c \in Callers, tok[c] # None, NEW acc \in Account, Upsert(acc),
             acc.status = "online", acc.rt = tok[c].rt
      PROVE  accounts'[p].status = "online" /\ accounts'[p].rt \notin spent
  <2>1. accounts'[p] = acc
    BY <1>t, <1>0, UpsertEffect
  <2>. QED  BY <1>t, <1>0, <2>1 DEF FreshInv, NewTokens
<1>1. ASSUME NEW c \in Callers, FinishRefresh(c)
      PROVE  accounts'[p].status = "online" /\ accounts'[p].rt \notin spent
  <2>. DEFINE t == tok[c]
              acc == OnlineAccount(IF t.id = None THEN snap[c].id ELSE t.id,
                                   IF t.email = None THEN snap[c].email ELSE t.email, t)
  <2>1. t \in TokenSet /\ t # None /\ snap[c] \in Account
    BY <1>1, <1>t DEF FinishRefresh, CallerInv
  <2>2. acc \in Account /\ acc.rt = tok[c].rt /\ acc.status = "online"
    BY <2>1 DEF OnlineAccount, Account, TokenSet, Ids
  <2>3. Upsert(acc)
    BY <1>1 DEF FinishRefresh
  <2>. HIDE DEF acc
  <2>. QED  BY <1>0, <2>1, <2>2, <2>3
<1>2. ASSUME NEW c \in Callers, FinishLogin(c)
      PROVE  accounts'[p].status = "online" /\ accounts'[p].rt \notin spent
  <2>1. tok[c] \in TokenSet /\ tok[c] # None
    BY <1>2, <1>t DEF FinishLogin, CallerInv
  <2>2. PICK id \in IF tok[c].id = None THEN ClockIds ELSE {tok[c].id} :
          Upsert(OnlineAccount(id, tok[c].email, tok[c]))
    BY <1>2 DEF FinishLogin
  <2>. DEFINE acc == OnlineAccount(id, tok[c].email, tok[c])
  <2>3. acc \in Account /\ acc.rt = tok[c].rt /\ acc.status = "online"
    BY <2>1, <2>2 DEF OnlineAccount, Account, TokenSet, Ids
  <2>. HIDE DEF acc
  <2>. QED  BY <1>0, <2>1, <2>2, <2>3 DEF acc
<1>3. ASSUME NEW c \in Callers, MarkExpired(c) PROVE FALSE
  BY <1>3, <1>t DEF MarkExpired
<1>4. ASSUME NEW c \in Callers, NEW key \in Ids \cup Emails, EnsureValid(c, key) PROVE FALSE
  BY <1>4 DEF EnsureValid
<1>5. ASSUME NEW c \in Callers,
             ResolveFirst(c) \/ RefreshGranted(c) \/ RefreshFailed(c) \/ \E u \in Users : ExchangeCode(c, u)
      PROVE  FALSE
  BY <1>5 DEF ResolveFirst, RefreshGranted, RefreshFailed, ExchangeCode
<1>6. ASSUME \E id \in Ids : Delete(id) PROVE FALSE
  BY <1>6 DEF Delete
<1>7. ASSUME (\E g \in Grants : Expire(g)) \/ Crash \/ OpenStore \/ UNCHANGED vars PROVE FALSE
  BY <1>7 DEF Expire, Crash, OpenStore, vars
<1>. QED  BY <1>1, <1>2, <1>3, <1>4, <1>5, <1>6, <1>7 DEF Next

\* An account that was deleted is not resurrected by a refresh that fails, and every
\* account that comes in does so with a token the provider accepts, however logins,
\* refreshes, deletions and crashes interleave.
THEOREM Appearance == Spec => AppearsOnlyFresh
<1>1. TypeInv /\ FreshInv /\ [Next]_vars =>
        [up => \A p \in DOMAIN accounts' \ DOMAIN accounts :
                 /\ accounts'[p].status = "online"
                 /\ accounts'[p].rt \notin spent]_vars
  BY AddsOnlyFresh
<1>. QED  BY <1>1, FreshInvariant, PTL DEF Spec, AppearsOnlyFresh

-----------------------------------------------------------------------------
(***************************************************************************)
(* The identity invariant.  OneEntryPerAccount and TokensMatchOwner need   *)
(* each other: an entry is replaced at the FIRST match by id or e-mail, so *)
(* a second entry for the same account could be left behind, and the       *)
(* refresh token it inherits is its owner's only if the match is.          *)
(***************************************************************************)
Sound(o, x) ==
  /\ x.id \in Users    => /\ x.email = EmailOf[x.id] /\ o[x.at] = x.id
                          /\ x.rt # None => o[x.rt] = x.id
  /\ x.id \in ClockIds => /\ x.email = None /\ o[x.at] \in Opaque
                          /\ x.rt # None => o[x.rt] \in Opaque

TokSound(o, t) ==
  /\ t.rt # None => o[t.rt] = o[t.at]
  /\ t.id = None => o[t.at] \in Opaque /\ t.email = None
  /\ t.id # None => o[t.at] = t.id /\ t.id \notin Opaque /\ t.email = EmailOf[t.id]

SoundList(o, l) ==
  /\ \A p, q \in DOMAIN l : l[p].id = l[q].id => p = q
  /\ \A p \in DOMAIN l : Sound(o, l[p])

IdInv ==
  /\ SoundList(ownerOf, accounts)
  /\ disk # None => SoundList(ownerOf, disk)
  /\ \A c \in Callers :
       /\ snap[c] # None => Sound(ownerOf, snap[c])
       /\ tok[c] # None => TokSound(ownerOf, tok[c])
       /\ pc[c] = "granted" => ownerOf[tok[c].at] = ownerOf[snap[c].rt]

\* Saving a sound list leaves a sound file, if any.
LEMMA SaveSound ==
  ASSUME IdInv, Save, SoundList(ownerOf, accounts')
  PROVE  disk' # None => SoundList(ownerOf, disk')
BY DEF IdInv, Save

LEMMA ReturnSound ==
  ASSUME TypeOK, IdInv, NEW c \in Callers, Return(c)
  PROVE  \A d \in Callers :
       /\ snap'[d] # None => Sound(ownerOf, snap'[d])
       /\ tok'[d] # None => TokSound(ownerOf, tok'[d])
       /\ pc'[d] = "granted" => ownerOf[tok'[d].at] = ownerOf[snap'[d].rt]
BY DEF TypeOK, IdInv, Return

\* With distinct addresses a match, by id or by e-mail, is an entry with the same id.
LEMMA MatchId ==
  ASSUME EmailsDistinct, TypeOK, IdInv, NEW acc \in Account, Sound(ownerOf, acc),
         NEW p \in DOMAIN accounts
  PROVE  p \in Matching(acc) <=> accounts[p].id = acc.id
<1>1. Sound(ownerOf, accounts[p]) /\ acc.id \in Ids /\ accounts[p].id \in Ids
  BY DEF IdInv, SoundList, TypeOK, IsList, Account
<1>2. ASSUME accounts[p].email = acc.email, acc.email # None
      PROVE  accounts[p].id = acc.id
  BY <1>1, <1>2 DEF Sound, EmailsDistinct, Ids
<1>. QED  BY <1>2 DEF Matching

\* Upsert of a sound account: whatever it replaces was filed for the same
\* account, and nothing else is.
LEMMA UpsertSound ==
  ASSUME EmailsDistinct, TypeOK, IdInv, NEW acc \in Account, Sound(ownerOf, acc), Upsert(acc)
  PROVE  SoundList(ownerOf, accounts')
<1>l. /\ \A p, q \in DOMAIN accounts : accounts[p].id = accounts[q].id => p = q
      /\ \A p \in DOMAIN accounts : Sound(ownerOf, accounts[p]) /\ accounts[p] \in Account
  BY DEF IdInv, SoundList, TypeOK, IsList
<1>m. \A p \in DOMAIN accounts : p \in Matching(acc) <=> accounts[p].id = acc.id
  BY MatchId
<1>1. ASSUME NEW p \in FirstOf(FreePositions), Matching(acc) = {},
             accounts' = [q \in DOMAIN accounts \cup {p} |->
                            IF q = p THEN acc ELSE accounts[q]]
      PROVE  SoundList(ownerOf, accounts')
  BY <1>1, <1>l, <1>m DEF SoundList
<1>2. ASSUME NEW p \in FirstOf(Matching(acc)),
             accounts' = [accounts EXCEPT ![p] =
                [acc EXCEPT !.rt = IF acc.rt = None THEN accounts[p].rt ELSE @]]
      PROVE  SoundList(ownerOf, accounts')
  <2>. DEFINE new == [acc EXCEPT !.rt = IF acc.rt = None THEN accounts[p].rt ELSE @]
  <2>1. p \in DOMAIN accounts /\ accounts[p].id = acc.id /\ Sound(ownerOf, accounts[p])
    BY <1>2, <1>l, <1>m DEF FirstOf, Matching
  <2>2. /\ new.id = acc.id /\ new.email = acc.email /\ new.at = acc.at
        /\ new.rt \in {acc.rt, accounts[p].rt}
    BY DEF Account
  <2>3. Sound(ownerOf, new)
    BY <2>1, <2>2 DEF Sound
  <2>4. DOMAIN accounts' = DOMAIN accounts /\ accounts'[p] = new
        /\ \A q \in DOMAIN accounts : q # p => accounts'[q] = accounts[q]
    BY <1>2, <2>1 DEF TypeOK, IsList
  <2>. HIDE DEF new
  <2>. QED  BY <1>l, <2>1, <2>2, <2>3, <2>4 DEF SoundList
<1>. QED  BY <1>1, <1>2 DEF Upsert

\* The account a refresh files, and the ids a login may file its account under.
Refreshed(c) ==
  OnlineAccount(IF tok[c].id = None THEN snap[c].id ELSE tok[c].id,
                IF tok[c].email = None THEN snap[c].email ELSE tok[c].email, tok[c])
LoginIds(c) == IF tok[c].id = None THEN ClockIds ELSE {tok[c].id}

\* A refresh files the new tokens under the account whose token it used.
LEMMA RefreshedSound ==
  ASSUME TypeInv, IdInv, NEW c \in Callers, pc[c] = "granted"
  PROVE  /\ Refreshed(c) \in Account /\ Sound(ownerOf, Refreshed(c))
         /\ Refreshed(c).id = snap[c].id /\ Refreshed(c).rt = tok[c].rt
         /\ tok[c] # None /\ snap[c] # None
<1>. DEFINE t == tok[c]
<1>1. /\ t \in TokenSet /\ t # None /\ TokSound(ownerOf, t)
      /\ snap[c] \in Account /\ snap[c] # None /\ Sound(ownerOf, snap[c])
      /\ snap[c].rt \in Grants /\ ownerOf[t.at] = ownerOf[snap[c].rt]
  BY DEF TypeInv, CallerInv, IdInv
<1>2. Refreshed(c) \in Account /\ Refreshed(c).rt = t.rt
  BY <1>1 DEF Refreshed, OnlineAccount, Account, TokenSet, Ids
<1>3. snap[c].rt # None /\ snap[c].id \in Ids /\ (t.id # None => t.id \in Users \ Opaque)
  BY <1>1, TokenStoreAssumptions DEF Grants, Account, TokenSet, TokSound
<1>4. t.id # None => snap[c].id = t.id
  BY <1>1, <1>3 DEF Sound, TokSound, Ids
<1>5. Sound(ownerOf, Refreshed(c))
  BY <1>1, <1>3, <1>4, TokenStoreAssumptions DEF Refreshed, OnlineAccount, Sound, TokSound, Ids
<1>6. Refreshed(c).id = snap[c].id
  BY <1>4 DEF Refreshed, OnlineAccount
<1>. QED  BY <1>1, <1>2, <1>5, <1>6

LEMMA LoggedInSound ==
  ASSUME TypeInv, IdInv, NEW c \in Callers, pc[c] = "exchanged", NEW id \in LoginIds(c)
  PROVE  LET acc == OnlineAccount(id, tok[c].email, tok[c])
         IN  /\ acc \in Account /\ Sound(ownerOf, acc)
             /\ tok[c] # None /\ acc.rt = tok[c].rt
<1>1. tok[c] \in TokenSet /\ tok[c] # None /\ TokSound(ownerOf, tok[c])
  BY DEF TypeInv, CallerInv, IdInv
<1>. DEFINE acc == OnlineAccount(id, tok[c].email, tok[c])
<1>2. acc \in Account /\ acc.rt = tok[c].rt
  BY <1>1 DEF LoginIds, OnlineAccount, Account, TokenSet, Ids
<1>3. Sound(ownerOf, acc)
  BY <1>1, TokenStoreAssumptions DEF LoginIds, OnlineAccount, Sound, TokSound, TokenSet, Ids
<1>. QED  BY <1>1, <1>2, <1>3

\* A handler that ends with an Upsert preserves the identity invariant.
LEMMA UpsertReturnSound ==
  ASSUME EmailsDistinct, TypeOK, IdInv, NEW c \in Callers, NEW acc \in Account,
         Sound(ownerOf, acc), Upsert(acc), Return(c), UNCHANGED provider
  PROVE  IdInv'
<1>1. SoundList(ownerOf, accounts') /\ Save
  BY UpsertSound DEF Upsert
<1>2. disk' # None => SoundList(ownerOf, disk')
  BY <1>1, SaveSound
<1>. QED  BY <1>1, <1>2, ReturnSound DEF IdInv, provider

\* A new grant changes the owner of no grant in use.
LEMMA GrantSound ==
  ASSUME TypeInv, IdInv, NEW c \in Callers, NEW u \in Users, NEW b \in BOOLEAN,
         Grant(c, u, b), UNCHANGED <<accounts, disk, snap>>
  PROVE  /\ SoundList(ownerOf', accounts')
         /\ disk' # None => SoundList(ownerOf', disk')
         /\ \A d \in Callers : snap'[d] # None => Sound(ownerOf', snap'[d])
         /\ \A d \in Callers : tok'[d] # None => TokSound(ownerOf', tok'[d])
         /\ tok'[c].at \in Grants /\ ownerOf'[tok'[c].at] = u
<1>0. TypeOK /\ OwnInv /\ issued + 1 \in Grants
  BY TokenStoreAssumptions DEF TypeInv, TypeOK, Grant, Grants
<1>1. \A g \in Grants : ownerOf[g] \in Users => ownerOf'[g] = ownerOf[g]
  BY <1>0, TokenStoreAssumptions DEF Grant, TypeOK, OwnInv, Grants, Ids
<1>2. ASSUME NEW x \in Account, Owned(x), Sound(ownerOf, x)
      PROVE  Sound(ownerOf', x)
  BY <1>1, <1>2 DEF Sound, Owned, OwnedIn, Account
<1>3. SoundList(ownerOf', accounts')
  BY <1>0, <1>2 DEF IdInv, SoundList, OwnInv, TypeOK, IsList
<1>4. disk' # None => SoundList(ownerOf', disk')
  BY <1>0, <1>2 DEF IdInv, SoundList, OwnInv, TypeOK, IsList
<1>5. \A d \in Callers : snap'[d] # None => Sound(ownerOf', snap'[d])
  BY <1>0, <1>2 DEF IdInv, OwnInv, TypeOK
<1>6. /\ tok'[c].id = (IF u \in Opaque THEN None ELSE u)
      /\ tok'[c].email = (IF u \in Opaque THEN None ELSE EmailOf[u])
      /\ tok'[c].at = issued + 1 /\ tok'[c].rt \in {issued + 1, None}
      /\ \A d \in Callers : d # c => tok'[d] = tok[d]
  BY <1>0 DEF Grant, TypeOK
<1>7. ownerOf'[issued + 1] = u
  BY <1>0 DEF Grant, TypeOK
<1>8. TokSound(ownerOf', tok'[c])
  BY <1>6, <1>7, TokenStoreAssumptions DEF TokSound, Ids
<1>9. ASSUME NEW d \in Callers, d # c, tok[d] # None
      PROVE  TokSound(ownerOf', tok[d])
  BY <1>0, <1>1, <1>9 DEF TypeOK, TokenSet, IdInv, OwnInv, Owned, OwnedIn, TokSound
<1>. QED  BY <1>0, <1>3, <1>4, <1>5, <1>6, <1>7, <1>8, <1>9

LEMMA InitIdInv == Init => IdInv
BY DEF Init, IdInv, SoundList

LEMMA NextIdInv ==
  ASSUME EmailsDistinct, TypeInv, IdInv, [Next]_vars
  PROVE  IdInv'
<1>t. TypeOK /\ CallerInv /\ OwnInv
  BY DEF TypeInv
<1>1. ASSUME NEW c \in Callers, ResolveFirst(c) PROVE IdInv'
  <2>1. PICK p \in DOMAIN accounts : snap' = [snap EXCEPT ![c] = accounts[p]]
    BY <1>1 DEF ResolveFirst, FirstOf
  <2>. QED  BY <1>1, <1>t, <2>1 DEF ResolveFirst, TypeOK, IdInv, SoundList, provider
<1>2. ASSUME NEW c \in Callers, NEW key \in Ids \cup Emails, EnsureValid(c, key)
      PROVE  IdInv'
  <2>0. UNCHANGED <<accounts, disk, provider>>
    BY <1>2 DEF EnsureValid
  <2>1. CASE Return(c)
    BY <1>t, <2>0, <2>1, ReturnSound DEF IdInv, provider
  <2>2. ASSUME NEW p \in FirstOf(Known(key)), UNCHANGED tok,
               snap' = [snap EXCEPT ![c] = accounts[p]],
               pc' = [pc EXCEPT ![c] = IF accounts[p].rt = None THEN "unrefreshable"
                                                                ELSE "refreshing"]
        PROVE  IdInv'
    <3>1. p \in DOMAIN accounts
      BY <2>2 DEF FirstOf, Known
    <3>. QED  BY <1>t, <2>0, <2>2, <3>1 DEF TypeOK, IdInv, SoundList, provider
  <2>. QED  BY <1>2, <2>1, <2>2 DEF EnsureValid
<1>3. ASSUME NEW c \in Callers, RefreshGranted(c) PROVE IdInv'
  <2>1. PICK rotate \in BOOLEAN : Grant(c, ownerOf[snap[c].rt], rotate)
    BY <1>3 DEF RefreshGranted
  <2>2. snap[c] \in Account /\ snap[c] # None /\ snap[c].rt \in Grants
    BY <1>3, <1>t DEF RefreshGranted, CallerInv
  <2>3. ownerOf[snap[c].rt] \in Users
    BY <1>t, <2>2, TokenStoreAssumptions DEF OwnInv, Owned, OwnedIn, Grants
  <2>4. /\ SoundList(ownerOf', accounts')
        /\ disk' # None => SoundList(ownerOf', disk')
        /\ \A d \in Callers : snap'[d] # None => Sound(ownerOf', snap'[d])
        /\ \A d \in Callers : tok'[d] # None => TokSound(ownerOf', tok'[d])
        /\ tok'[c].at \in Grants /\ ownerOf'[tok'[c].at] = ownerOf[snap[c].rt]
    BY <1>3, <2>1, <2>3, GrantSound DEF RefreshGranted
  <2>5. \A g \in Grants : ownerOf[g] \in Users => ownerOf'[g] = ownerOf[g]
    BY <1>t, <2>1, <2>3, TokenStoreAssumptions DEF Grant, TypeOK, OwnInv, Grants, Ids
  <2>6. ASSUME NEW d \in Callers, pc'[d] = "granted"
        PROVE  ownerOf'[tok'[d].at] = ownerOf'[snap'[d].rt]
    <3>1. CASE d = c
      BY <1>3, <2>2, <2>3, <2>4, <2>5, <3>1 DEF RefreshGranted
    <3>2. CASE d # c
      <4>1. pc[d] = "granted" /\ tok'[d] = tok[d] /\ snap'[d] = snap[d]
        BY <1>3, <1>t, <2>1, <2>6, <3>2 DEF RefreshGranted, Grant, TypeOK
      <4>2. /\ tok[d] \in TokenSet /\ tok[d] # None /\ snap[d] # None /\ snap[d].rt \in Grants
            /\ ownerOf[tok[d].at] = ownerOf[snap[d].rt]
        BY <1>t, <4>1 DEF CallerInv, IdInv
      <4>. QED  BY <1>t, <2>5, <4>1, <4>2 DEF OwnInv, Owned, OwnedIn, TokenSet
    <3>. QED  BY <3>1, <3>2
  <2>. QED  BY <2>4, <2>6 DEF IdInv
<1>4. ASSUME NEW c \in Callers, RefreshFailed(c) PROVE IdInv'
  BY <1>4, <1>t DEF RefreshFailed, TypeOK, IdInv
<1>5. ASSUME NEW c \in Callers, FinishRefresh(c) PROVE IdInv'
  <2>1. Refreshed(c) \in Account /\ Sound(ownerOf, Refreshed(c))
    BY <1>5, RefreshedSound DEF FinishRefresh
  <2>2. Upsert(Refreshed(c)) /\ Return(c) /\ UNCHANGED provider
    BY <1>5 DEF FinishRefresh, Refreshed
  <2>. QED  BY <1>t, <2>1, <2>2, UpsertReturnSound
<1>6. ASSUME NEW c \in Callers, MarkExpired(c) PROVE IdInv'
  <2>0. /\ snap[c] \in Account /\ Sound(ownerOf, snap[c])
        /\ UNCHANGED provider /\ Return(c)
    BY <1>6, <1>t DEF MarkExpired, CallerInv, IdInv
  <2>1. CASE UNCHANGED <<accounts, disk>>
    BY <1>t, <2>0, <2>1, ReturnSound DEF IdInv, provider
  <2>2. ASSUME NEW p \in DOMAIN accounts, accounts[p].id = snap[c].id, Save,
               accounts' = [accounts EXCEPT ![p] = [snap[c] EXCEPT !.status = "expired"]]
        PROVE  IdInv'
    <3>. DEFINE old == [snap[c] EXCEPT !.status = "expired"]
    <3>1. Sound(ownerOf, old) /\ old.id = accounts[p].id
      BY <2>0, <2>2 DEF Account, Sound
    <3>2. DOMAIN accounts' = DOMAIN accounts /\ accounts'[p] = old
          /\ \A q \in DOMAIN accounts : q # p => accounts'[q] = accounts[q]
      BY <1>t, <2>2 DEF TypeOK, IsList
    <3>. HIDE DEF old
    <3>3. SoundList(ownerOf, accounts')
      BY <3>1, <3>2 DEF IdInv, SoundList
    <3>4. disk' # None => SoundList(ownerOf, disk')
      BY <2>2, <3>3, SaveSound
    <3>. QED  BY <1>t, <2>0, <3>3, <3>4, ReturnSound DEF IdInv, provider
  <2>. QED  BY <1>6, <2>1, <2>2 DEF MarkExpired, FirstOf
<1>7. ASSUME NEW c \in Callers, NEW u \in Users, ExchangeCode(c, u) PROVE IdInv'
  <2>1. PICK b \in BOOLEAN : Grant(c, u, b)
    BY <1>7 DEF ExchangeCode
  <2>2. /\ SoundList(ownerOf', accounts')
        /\ disk' # None => SoundList(ownerOf', disk')
        /\ \A d \in Callers : snap'[d] # None => Sound(ownerOf', snap'[d])
        /\ \A d \in Callers : tok'[d] # None => TokSound(ownerOf', tok'[d])
    BY <1>7, <2>1, GrantSound DEF ExchangeCode
  <2>3. ASSUME NEW d \in Callers, pc'[d] = "granted"
        PROVE  ownerOf'[tok'[d].at] = ownerOf'[snap'[d].rt]
    <3>0. \A g \in Grants : ownerOf[g] \in Users => ownerOf'[g] = ownerOf[g]
      BY <1>t, <2>1, TokenStoreAssumptions DEF Grant, TypeOK, OwnInv, Grants, Ids
    <3>1. pc[d] = "granted" /\ tok'[d] = tok[d] /\ snap'[d] = snap[d]
      BY <1>7, <1>t, <2>1, <2>3 DEF ExchangeCode, Grant, TypeOK
    <3>2. /\ tok[d] \in TokenSet /\ tok[d] # None /\ snap[d] # None /\ snap[d].rt \in Grants
          /\ ownerOf[tok[d].at] = ownerOf[snap[d].rt]
      BY <1>t, <3>1 DEF CallerInv, IdInv
    <3>. QED  BY <1>t, <3>0, <3>1, <3>2 DEF OwnInv, Owned, OwnedIn, TokenSet
  <2>. QED  BY <2>2, <2>3 DEF IdInv
<1>8. ASSUME NEW c \in Callers, FinishLogin(c) PROVE IdInv'
  <2>1. PICK id \in LoginIds(c) : Upsert(OnlineAccount(id, tok[c].email, tok[c]))
    BY <1>8 DEF FinishLogin, LoginIds
  <2>. DEFINE acc == OnlineAccount(id, tok[c].email, tok[c])
  <2>2. acc \in Account /\ Sound(ownerOf, acc)
    BY <1>8, LoggedInSound DEF FinishLogin
  <2>3. Return(c) /\ UNCHANGED provider
    BY <1>8 DEF FinishLogin
  <2>. HIDE DEF acc
  <2>. QED  BY <1>t, <2>1, <2>2, <2>3, UpsertReturnSound DEF acc
<1>9. ASSUME NEW id \in Ids, Delete(id) PROVE IdInv'
  <2>1. SoundList(ownerOf, accounts')
    BY <1>9 DEF Delete, IdInv, SoundList
  <2>2. disk' # None => SoundList(ownerOf, disk')
    BY <1>9, <2>1, SaveSound DEF Delete
  <2>. QED  BY <1>9, <2>1, <2>2 DEF Delete, IdInv, provider
<1>10. ASSUME NEW g \in Grants, Expire(g) PROVE IdInv'
  BY <1>10 DEF Expire, IdInv, provider
<1>11. ASSUME Crash PROVE IdInv'
  BY <1>11 DEF Crash, IdInv, SoundList, provider
<1>12. ASSUME OpenStore PROVE IdInv'
  BY <1>12 DEF OpenStore, IdInv, provider
<1>13. ASSUME UNCHANGED vars PROVE IdInv'
  BY <1>13 DEF vars, IdInv
<1>. QED
  BY <1>1, <1>2, <1>3, <1>4, <1>5, <1>6, <1>7, <1>8, <1>9, <1>10, <1>11, <1>12, <1>13
     DEF Next

LEMMA IdInvariant ==
  ASSUME EmailsDistinct
  PROVE  Spec => [](TypeInv /\ IdInv)
<1>1. TypeInv /\ IdInv /\ [Next]_vars => (TypeInv /\ IdInv)'
  BY NextTypeInv, NextIdInv
<1>. QED  BY <1>1, InitTypeInv, InitIdInv, PTL DEF Spec

\* When no two users share an e-mail address, the store never files one account
\* twice, although Upsert replaces the first match by id OR e-mail and refreshes,
\* logins and deletions interleave.
THEOREM OneEntry ==
  ASSUME EmailsDistinct
  PROVE  Spec => []OneEntryPerAccount
<1>1. TypeInv /\ IdInv => OneEntryPerAccount
  <2>. SUFFICES ASSUME TypeInv, IdInv, NEW p \in DOMAIN accounts, NEW q \in DOMAIN accounts,
                       \/ accounts[p].id = accounts[q].id
                       \/ accounts[p].email # None /\ accounts[p].email = accounts[q].email
                PROVE  p = q
    BY DEF OneEntryPerAccount
  <2>1. /\ accounts[p].id \in Ids /\ accounts[q].id \in Ids
        /\ Sound(ownerOf, accounts[p]) /\ Sound(ownerOf, accounts[q])
    BY DEF TypeInv, TypeOK, IsList, Account, IdInv, SoundList
  <2>2. accounts[p].id = accounts[q].id
    BY <2>1 DEF Sound, EmailsDistinct, Ids
  <2>. QED  BY <2>2 DEF IdInv, SoundList
<1>. QED  BY <1>1, IdInvariant, PTL

\* When no two users share an e-mail address, no entry and no caller's copy mixes
\* the credentials of two users.
THEOREM Ownership ==
  ASSUME EmailsDistinct
  PROVE  Spec => []TokensMatchOwner
<1>1. TypeInv /\ IdInv => TokensMatchOwner
  BY DEF IdInv, SoundList, Sound, TokensMatchOwner, Entries
<1>. QED  BY <1>1, IdInvariant, PTL

-----------------------------------------------------------------------------
(***************************************************************************)
(* Dead tokens.  A refresh token is filed under one id only, so a caller   *)
(* that carries the replacement of a spent token will file it where the    *)
(* spent one is; what the file holds matters once the process is down.     *)
(***************************************************************************)
SameId(x, y) == x.rt # None /\ x.rt = y.rt => x.id = y.id

OneId ==
  /\ \A p, q \in DOMAIN accounts : SameId(accounts[p], accounts[q])
  /\ \A p \in DOMAIN accounts, c \in Callers : snap[c] # None => SameId(accounts[p], snap[c])
  /\ \A c, d \in Callers : snap[c] # None /\ snap[d] # None => SameId(snap[c], snap[d])
  /\ disk # None => \A p, q \in DOMAIN disk : SameId(disk[p], disk[q])

\* The replacement of the refresh token r is on its way.
Renewed(r) ==
  \E c \in Callers : pc[c] = "granted" /\ tok[c].rt # None /\ snap[c].rt = r

Explained(l) ==
  \A p \in DOMAIN l : l[p].rt \in spent => blame[l[p].id] # {} \/ Renewed(l[p].rt)

DeadInv ==
  /\ OneId
  /\ Explained(accounts)
  /\ ~up /\ disk # None => Explained(disk)

\* Whoever is not on the way back with a new token takes none with it.
LEMMA RenewedKept ==
  ASSUME NEW c \in Callers, pc[c] # "granted" \/ tok[c].rt = None,
         \A d \in Callers \ {c} : pc'[d] = pc[d] /\ snap'[d] = snap[d] /\ tok'[d] = tok[d],
         NEW r, Renewed(r)
  PROVE  \E d \in Callers : pc'[d] = "granted" /\ tok'[d].rt # None /\ snap'[d].rt = r
BY DEF Renewed

\* A step that changes no list and spends no token, and in which one caller moves
\* that carries no new token.
LEMMA MoveDead ==
  ASSUME TypeOK, DeadInv, NEW c \in Callers, pc[c] # "granted", up, up' = up,
         UNCHANGED <<accounts, disk, spent, blame>>,
         \A d \in Callers \ {c} : pc'[d] = pc[d] /\ snap'[d] = snap[d] /\ tok'[d] = tok[d],
         snap'[c] # None => snap'[c] = snap[c] \/ \E p \in DOMAIN accounts : snap'[c] = accounts[p]
  PROVE  DeadInv'
<1>1. OneId'
  <2>1. \A d \in Callers : snap'[d] # None =>
          \/ snap[d] # None /\ snap'[d] = snap[d]
          \/ \E p \in DOMAIN accounts : snap'[d] = accounts[p]
    OBVIOUS
  <2>2. ASSUME NEW p \in DOMAIN accounts, NEW d \in Callers, snap'[d] # None
        PROVE  SameId(accounts[p], snap'[d])
    BY <2>1, <2>2 DEF DeadInv, OneId
  <2>3. ASSUME NEW d \in Callers, NEW e \in Callers, snap'[d] # None, snap'[e] # None
        PROVE  SameId(snap'[d], snap'[e])
    BY <2>1, <2>3 DEF DeadInv, OneId, SameId
  <2>. QED  BY <2>2, <2>3 DEF DeadInv, OneId, SameId
<1>2. Explained(accounts)'
  <2>. SUFFICES ASSUME NEW p \in DOMAIN accounts, accounts[p].rt \in spent, blame[accounts[p].id] = {}
                PROVE  Renewed(accounts[p].rt)'
    BY DEF Explained
  <2>1. Renewed(accounts[p].rt)
    BY DEF DeadInv, Explained
  <2>. QED  BY <2>1, RenewedKept DEF Renewed
<1>. QED  BY <1>1, <1>2 DEF DeadInv

\* A handler that ends with an Upsert files a token the provider accepts where the
\* spent one was.
LEMMA UpsertReturnDead ==
  ASSUME EmailsDistinct, TypeInv, FreshInv, IdInv, DeadInv,
         NEW c \in Callers, NEW acc \in Account, Sound(ownerOf, acc),
         tok[c] # None, acc.rt = tok[c].rt,
         pc[c] = "granted" => snap[c] # None /\ snap[c].id = acc.id,
         Upsert(acc), Return(c), up, UNCHANGED <<up, provider>>
  PROVE  DeadInv'
<1>t. /\ TypeOK /\ Save /\ spent' = spent /\ acc.id \in Ids
      /\ blame' = [blame EXCEPT ![acc.id] = IF acc.rt = None THEN @ ELSE {}]
  BY DEF TypeInv, Upsert, provider, Account
<1>n. None \notin spent
  <2>1. Grants \subseteq Nat /\ None \notin Nat
    BY TokenStoreAssumptions DEF Grants
  <2>. QED  BY <1>t, <2>1 DEF TypeOK
<1>1. PICK p \in DOMAIN accounts' :
        /\ accounts'[p].id = acc.id
        /\ acc.rt # None => accounts'[p].rt = acc.rt
        /\ acc.rt = None /\ accounts'[p].rt # None =>
             /\ p \in DOMAIN accounts
             /\ accounts[p].rt = accounts'[p].rt /\ accounts[p].id = acc.id
        /\ \A q \in DOMAIN accounts' \ {p} :
             /\ q \in DOMAIN accounts /\ accounts'[q] = accounts[q]
             /\ accounts[q].id # acc.id
  <2>1. ASSUME Matching(acc) = {}, NEW p \in Positions \ DOMAIN accounts,
               DOMAIN accounts' = DOMAIN accounts \cup {p}, accounts'[p] = acc,
               \A q \in DOMAIN accounts : accounts'[q] = accounts[q]
        PROVE  /\ accounts'[p].id = acc.id
               /\ acc.rt # None => accounts'[p].rt = acc.rt
               /\ acc.rt = None /\ accounts'[p].rt # None =>
                    /\ p \in DOMAIN accounts
                    /\ accounts[p].rt = accounts'[p].rt /\ accounts[p].id = acc.id
               /\ \A q \in DOMAIN accounts' \ {p} :
                    /\ q \in DOMAIN accounts /\ accounts'[q] = accounts[q]
                    /\ accounts[q].id # acc.id
    BY <1>t, <2>1, MatchId
  <2>2. ASSUME NEW p \in Matching(acc), DOMAIN accounts' = DOMAIN accounts,
               accounts'[p] = [acc EXCEPT !.rt = IF acc.rt = None THEN accounts[p].rt ELSE @],
               \A q \in DOMAIN accounts \ {p} : accounts'[q] = accounts[q]
        PROVE  /\ p \in DOMAIN accounts'
               /\ accounts'[p].id = acc.id
               /\ acc.rt # None => accounts'[p].rt = acc.rt
               /\ acc.rt = None /\ accounts'[p].rt # None =>
                    /\ p \in DOMAIN accounts
                    /\ accounts[p].rt = accounts'[p].rt /\ accounts[p].id = acc.id
               /\ \A q \in DOMAIN accounts' \ {p} :
                    /\ q \in DOMAIN accounts /\ accounts'[q] = accounts[q]
                    /\ accounts[q].id # acc.id
    <3>1. p \in DOMAIN accounts
      BY DEF Matching
    <3>2. accounts[p].id = acc.id
      BY <1>t, <3>1, MatchId
    <3>3. /\ accounts'[p].id = acc.id
          /\ accounts'[p].rt = IF acc.rt = None THEN accounts[p].rt ELSE acc.rt
      BY <2>2 DEF Account
    <3>4. \A q \in DOMAIN accounts \ {p} : accounts[q].id # acc.id
      BY <3>1, <3>2 DEF IdInv, SoundList
    <3>. QED  BY <2>2, <3>1, <3>2, <3>3, <3>4
  <2>. QED  BY <1>t, <2>1, <2>2, UpsertEffect
<1>2. \A q \in DOMAIN accounts' : accounts'[q].rt # None =>
        \/ q = p /\ accounts'[q].rt = tok[c].rt /\ tok[c].rt # None
        \/ /\ q \in DOMAIN accounts
           /\ accounts[q].rt = accounts'[q].rt /\ accounts[q].id = accounts'[q].id
  BY <1>1
<1>3. ASSUME tok[c].rt # None
      PROVE  /\ tok[c].rt \notin spent
             /\ \A q \in DOMAIN accounts : accounts[q].rt # tok[c].rt
             /\ \A d \in Callers : snap[d] # None => snap[d].rt # tok[c].rt
  BY <1>3 DEF FreshInv, NewTokens
<1>4. \A q, r \in DOMAIN accounts' : SameId(accounts'[q], accounts'[r])
  BY <1>2, <1>3 DEF DeadInv, OneId, SameId
<1>5. \A q \in DOMAIN accounts', d \in Callers : snap'[d] # None => SameId(accounts'[q], snap'[d])
  BY <1>t, <1>2, <1>3, ReturnEffect DEF DeadInv, OneId, SameId
<1>6. OneId'
  <2>1. \A d, e \in Callers : snap'[d] # None /\ snap'[e] # None => SameId(snap'[d], snap'[e])
    BY <1>t, ReturnEffect DEF DeadInv, OneId
  <2>2. disk' # None => \A q, r \in DOMAIN disk' : SameId(disk'[q], disk'[r])
    BY <1>t, <1>4 DEF Save, DeadInv, OneId
  <2>. QED  BY <1>4, <1>5, <2>1, <2>2 DEF OneId, SameId
<1>7. ASSUME NEW q \in DOMAIN accounts', accounts'[q].rt \in spent'
      PROVE  blame'[accounts'[q].id] # {} \/ Renewed(accounts[q].rt)'
  <2>0. accounts'[q].rt # None
    BY <1>t, <1>n, <1>7
  <2>1. /\ q \in DOMAIN accounts
        /\ accounts[q].rt = accounts'[q].rt /\ accounts[q].id = accounts'[q].id
    BY <1>t, <1>2, <1>3, <1>7, <2>0
  <2>2. blame[accounts[q].id] # {} \/ Renewed(accounts[q].rt)
    BY <1>t, <1>7, <2>1 DEF DeadInv, Explained
  <2>3. CASE blame[accounts[q].id] # {}
    <3>1. acc.rt = None \/ accounts[q].id # acc.id
      <4>1. CASE q = p
        <5>1. acc.rt # None => accounts'[q].rt = acc.rt /\ acc.rt \notin spent
          BY <1>1, <1>3, <4>1
        <5>. QED  BY <1>t, <1>7, <5>1
      <4>2. CASE q # p
        BY <1>1, <4>2
      <4>. QED  BY <4>1, <4>2
    <3>2. accounts[q].id \in Ids
      BY <1>t, <2>1 DEF TypeOK, IsList, Account
    <3>3. blame'[accounts[q].id] = blame[accounts[q].id]
      BY <1>t, <3>1, <3>2 DEF TypeOK
    <3>. QED  BY <2>1, <2>3, <3>3
  <2>4. ASSUME NEW d \in Callers, pc[d] = "granted", tok[d].rt # None, snap[d].rt = accounts[q].rt
        PROVE  Renewed(accounts[q].rt)'
    <3>1. CASE d = c
      <4>1. snap[c] # None /\ snap[c].id = acc.id /\ acc.rt # None
        BY <2>4, <3>1
      <4>2. accounts[q].id = acc.id
        BY <2>0, <2>1, <2>4, <3>1, <4>1 DEF DeadInv, OneId, SameId
      <4>3. q = p
        BY <1>1, <4>2
      <4>4. accounts'[q].rt = tok[c].rt
        BY <1>1, <4>1, <4>3
      <4>. QED  BY <1>t, <1>3, <1>7, <4>1, <4>4
    <3>2. CASE d # c
      <4>1. pc'[d] = pc[d] /\ snap'[d] = snap[d] /\ tok'[d] = tok[d]
        BY <1>t, <3>2, ReturnEffect
      <4>. QED  BY <2>1, <2>4, <4>1 DEF Renewed
    <3>. QED  BY <3>1, <3>2
  <2>. QED  BY <2>2, <2>3, <2>4 DEF Renewed
<1>8. Explained(accounts)'
  BY <1>7 DEF Explained
<1>. QED  BY <1>6, <1>8 DEF DeadInv

LEMMA InitDead == Init => DeadInv
BY DEF Init, DeadInv, OneId, Explained

LEMMA NextDead ==
  ASSUME EmailsDistinct, TypeInv, FreshInv, IdInv, DeadInv, [Next]_vars
  PROVE  DeadInv'
<1>t. TypeOK /\ CallerInv /\ OwnInv
  BY DEF TypeInv
<1>n. None \notin spent /\ None \notin Grants
  <2>1. Grants \subseteq Nat /\ None \notin Nat
    BY TokenStoreAssumptions DEF Grants
  <2>. QED  BY <1>t, <2>1 DEF TypeOK
<1>1. ASSUME NEW c \in Callers, ResolveFirst(c) PROVE DeadInv'
  <2>1. PICK p \in DOMAIN accounts : snap' = [snap EXCEPT ![c] = accounts[p]]
    BY <1>1 DEF ResolveFirst, FirstOf
  <2>2. /\ snap'[c] = accounts[p]
        /\ \A d \in Callers \ {c} : pc'[d] = pc[d] /\ snap'[d] = snap[d] /\ tok'[d] = tok[d]
    BY <1>1, <1>t, <2>1 DEF ResolveFirst, TypeOK
  <2>. QED  BY <1>1, <1>t, <2>2, MoveDead DEF ResolveFirst, provider
<1>2. ASSUME NEW c \in Callers, NEW key \in Ids \cup Emails, EnsureValid(c, key)
      PROVE  DeadInv'
  <2>0. up /\ UNCHANGED <<accounts, disk, up, spent, blame>> /\ pc[c] # "granted"
    BY <1>2 DEF EnsureValid, provider
  <2>1. CASE Return(c)
    BY <1>t, <2>0, <2>1, ReturnEffect, MoveDead
  <2>2. ASSUME NEW p \in FirstOf(Known(key)), UNCHANGED tok,
               snap' = [snap EXCEPT ![c] = accounts[p]],
               pc' = [pc EXCEPT ![c] = IF accounts[p].rt = None THEN "unrefreshable"
                                                                ELSE "refreshing"]
        PROVE  DeadInv'
    <3>1. p \in DOMAIN accounts
      BY <2>2 DEF FirstOf, Known
    <3>2. /\ snap'[c] = accounts[p]
          /\ \A d \in Callers \ {c} : pc'[d] = pc[d] /\ snap'[d] = snap[d] /\ tok'[d] = tok[d]
      BY <1>t, <2>2 DEF TypeOK
    <3>. QED  BY <1>t, <2>0, <3>1, <3>2, MoveDead
  <2>. QED  BY <1>2, <2>1, <2>2 DEF EnsureValid
<1>3. ASSUME NEW c \in Callers, RefreshGranted(c) PROVE DeadInv'
  <2>1. PICK rotate \in BOOLEAN :
          /\ Grant(c, ownerOf[snap[c].rt], rotate)
          /\ spent' = IF rotate THEN spent \cup {snap[c].rt} ELSE spent
    BY <1>3 DEF RefreshGranted
  <2>2. /\ UNCHANGED <<accounts, disk, up, snap, blame>> /\ up /\ pc[c] = "refreshing"
        /\ pc'[c] = "granted" /\ \A d \in Callers \ {c} : pc'[d] = pc[d] /\ tok'[d] = tok[d]
    BY <1>3, <1>t, <2>1 DEF RefreshGranted, Grant, TypeOK
  <2>3. rotate => tok'[c].rt # None
    <3>1. issued + 1 \in Grants
      BY <1>t, <2>1, TokenStoreAssumptions DEF Grant, TypeOK, Grants
    <3>2. rotate => tok'[c].rt = issued + 1
      BY <1>t, <2>1 DEF Grant, TypeOK
    <3>. QED  BY <1>n, <3>1, <3>2
  <2>4. ASSUME NEW p \in DOMAIN accounts, accounts[p].rt \in spent', blame[accounts[p].id] = {}
        PROVE  Renewed(accounts[p].rt)'
    <3>1. CASE accounts[p].rt \in spent
      <4>1. Renewed(accounts[p].rt)
        BY <2>4, <3>1 DEF DeadInv, Explained
      <4>. QED  BY <2>2, <4>1, RenewedKept DEF Renewed
    <3>2. CASE accounts[p].rt \notin spent
      <4>1. rotate /\ accounts[p].rt = snap[c].rt
        BY <2>1, <2>4, <3>2
      <4>. QED  BY <2>2, <2>3, <4>1 DEF Renewed
    <3>. QED  BY <3>1, <3>2
  <2>5. Explained(accounts)'
    BY <2>2, <2>4 DEF Explained
  <2>6. OneId'
    BY <2>2 DEF DeadInv, OneId, SameId
  <2>. QED  BY <2>2, <2>5, <2>6 DEF DeadInv
<1>4. ASSUME NEW c \in Callers, RefreshFailed(c) PROVE DeadInv'
  <2>1. snap[c] \in Account /\ snap[c] # None /\ snap[c].id \in Ids /\ snap[c].rt # None
    BY <1>4, <1>t, <1>n DEF RefreshFailed, CallerInv, Account
  <2>2. /\ UNCHANGED <<accounts, disk, up, snap, tok>> /\ up /\ pc[c] = "refreshing"
        /\ \A d \in Callers \ {c} : pc'[d] = pc[d]
    BY <1>4, <1>t DEF RefreshFailed, TypeOK
  <2>3. /\ \A i \in Ids : blame[i] # {} => blame'[i] # {}
        /\ spent' # spent => spent' = spent \cup {snap[c].rt} /\ blame'[snap[c].id] # {}
    BY <1>4, <1>t, <2>1 DEF RefreshFailed, TypeOK
  <2>4. ASSUME NEW p \in DOMAIN accounts, accounts[p].rt \in spent', blame'[accounts[p].id] = {}
        PROVE  Renewed(accounts[p].rt)'
    <3>1. accounts[p].id \in Ids
      BY <1>t DEF TypeOK, IsList, Account
    <3>2. accounts[p].rt \in spent
      BY <2>1, <2>3, <2>4 DEF DeadInv, OneId, SameId
    <3>3. Renewed(accounts[p].rt)
      BY <2>3, <2>4, <3>1, <3>2 DEF DeadInv, Explained
    <3>. QED  BY <2>2, <3>3, RenewedKept DEF Renewed
  <2>5. Explained(accounts)'
    BY <2>2, <2>4 DEF Explained
  <2>6. OneId'
    BY <2>2 DEF DeadInv, OneId, SameId
  <2>. QED  BY <2>2, <2>5, <2>6 DEF DeadInv
<1>5. ASSUME NEW c \in Callers, FinishRefresh(c) PROVE DeadInv'
  <2>1. /\ Refreshed(c) \in Account /\ Sound(ownerOf, Refreshed(c))
        /\ Refreshed(c).id = snap[c].id /\ Refreshed(c).rt = tok[c].rt
        /\ tok[c] # None /\ snap[c] # None
    BY <1>5, RefreshedSound DEF FinishRefresh
  <2>2. Upsert(Refreshed(c)) /\ Return(c) /\ up /\ UNCHANGED <<up, provider>>
    BY <1>5 DEF FinishRefresh, Refreshed
  <2>. QED  BY <2>1, <2>2, UpsertReturnDead
<1>6. ASSUME NEW c \in Callers, MarkExpired(c) PROVE DeadInv'
  <2>0. /\ snap[c] \in Account /\ snap[c] # None /\ snap[c].id \in Ids
        /\ up /\ up' = up /\ spent' = spent /\ pc[c] # "granted" /\ Return(c)
    BY <1>6, <1>t DEF MarkExpired, CallerInv, provider, Account
  <2>1. CASE UNCHANGED <<accounts, disk, blame>>
    BY <1>t, <2>0, <2>1, ReturnEffect, MoveDead
  <2>2. ASSUME NEW p \in DOMAIN accounts, accounts[p].id = snap[c].id, Save,
               accounts' = [accounts EXCEPT ![p] = [snap[c] EXCEPT !.status = "expired"]],
               blame' = [blame EXCEPT ![snap[c].id] =
                           IF accounts[p].rt = snap[c].rt THEN @ ELSE @ \cup {"staleWrite"}]
        PROVE  DeadInv'
    <3>. DEFINE old == [snap[c] EXCEPT !.status = "expired"]
    <3>1. old.id = snap[c].id /\ old.rt = snap[c].rt
      BY <2>0 DEF Account
    <3>. HIDE DEF old
    <3>2. DOMAIN accounts' = DOMAIN accounts /\ accounts'[p] = old
          /\ \A q \in DOMAIN accounts : q # p => accounts'[q] = accounts[q]
      BY <1>t, <2>2 DEF old, TypeOK, IsList
    <3>3. \A q \in DOMAIN accounts' :
            \/ accounts'[q].rt = snap[c].rt /\ accounts'[q].id = snap[c].id
            \/ q \in DOMAIN accounts /\ accounts'[q] = accounts[q]
      BY <3>1, <3>2
    <3>4. \A q, r \in DOMAIN accounts' : SameId(accounts'[q], accounts'[r])
      BY <2>0, <3>3 DEF DeadInv, OneId, SameId
    <3>5. \A q \in DOMAIN accounts', d \in Callers :
            snap'[d] # None => SameId(accounts'[q], snap'[d])
      BY <1>t, <2>0, <3>3, ReturnEffect DEF DeadInv, OneId, SameId
    <3>6. OneId'
      <4>1. \A d, e \in Callers : snap'[d] # None /\ snap'[e] # None => SameId(snap'[d], snap'[e])
        BY <1>t, <2>0, ReturnEffect DEF DeadInv, OneId
      <4>2. disk' # None => \A q, r \in DOMAIN disk' : SameId(disk'[q], disk'[r])
        BY <2>2, <3>4 DEF Save, DeadInv, OneId
      <4>. QED  BY <3>4, <3>5, <4>1, <4>2 DEF OneId, SameId
    <3>7. ASSUME NEW q \in DOMAIN accounts', accounts'[q].rt \in spent', blame'[accounts'[q].id] = {}
          PROVE  Renewed(accounts[q].rt)'
      <4>1. \A i \in Ids : blame[i] # {} => blame'[i] # {}
        BY <1>t, <2>0, <2>2 DEF TypeOK
      <4>2. accounts[p].rt # snap[c].rt => blame'[snap[c].id] # {}
        BY <1>t, <2>0, <2>2 DEF TypeOK
      <4>3. /\ q \in DOMAIN accounts
            /\ accounts'[q].rt = accounts[q].rt /\ accounts'[q].id = accounts[q].id
        BY <2>2, <3>1, <3>2, <3>7, <4>2
      <4>4. accounts[q].id \in Ids
        BY <1>t, <4>3 DEF TypeOK, IsList, Account
      <4>5. Renewed(accounts[q].rt)
        BY <2>0, <3>7, <4>1, <4>3, <4>4 DEF DeadInv, Explained
      <4>. QED  BY <1>t, <2>0, <4>3, <4>5, ReturnEffect, RenewedKept DEF Renewed
    <3>8. Explained(accounts)'
      BY <3>7 DEF Explained
    <3>. QED  BY <2>0, <3>6, <3>8 DEF DeadInv
  <2>. QED  BY <1>6, <2>1, <2>2 DEF MarkExpired, FirstOf
<1>7. ASSUME NEW c \in Callers, NEW u \in Users, ExchangeCode(c, u) PROVE DeadInv'
  <2>1. /\ \A d \in Callers \ {c} : pc'[d] = pc[d] /\ tok'[d] = tok[d]
        /\ UNCHANGED <<accounts, disk, up, snap, spent, blame>> /\ up /\ pc[c] # "granted"
    BY <1>7, <1>t DEF ExchangeCode, Grant, TypeOK
  <2>. QED  BY <1>t, <2>1, MoveDead
<1>8. ASSUME NEW c \in Callers, FinishLogin(c) PROVE DeadInv'
  <2>1. PICK id \in LoginIds(c) : Upsert(OnlineAccount(id, tok[c].email, tok[c]))
    BY <1>8 DEF FinishLogin, LoginIds
  <2>. DEFINE acc == OnlineAccount(id, tok[c].email, tok[c])
  <2>2. acc \in Account /\ Sound(ownerOf, acc) /\ tok[c] # None /\ acc.rt = tok[c].rt
    BY <1>8, LoggedInSound DEF FinishLogin
  <2>3. Return(c) /\ up /\ UNCHANGED <<up, provider>> /\ pc[c] # "granted"
    BY <1>8 DEF FinishLogin
  <2>. HIDE DEF acc
  <2>. QED  BY <2>1, <2>2, <2>3, UpsertReturnDead DEF acc
<1>9. ASSUME NEW id \in Ids, Delete(id) PROVE DeadInv'
  <2>1. \A p \in DOMAIN accounts' : p \in DOMAIN accounts /\ accounts'[p] = accounts[p]
    BY <1>9 DEF Delete
  <2>2. UNCHANGED <<up, pc, snap, tok, spent, blame>> /\ up /\ Save
    BY <1>9 DEF Delete, provider
  <2>3. OneId'
    BY <2>1, <2>2 DEF DeadInv, OneId, SameId, Save
  <2>4. Explained(accounts)'
    BY <2>1, <2>2 DEF DeadInv, Explained, Renewed
  <2>. QED  BY <2>2, <2>3, <2>4 DEF DeadInv
<1>10. ASSUME NEW g \in Grants, Expire(g) PROVE DeadInv'
  BY <1>10 DEF Expire, DeadInv, OneId, SameId, Explained, Renewed, provider
<1>11. ASSUME Crash PROVE DeadInv'
  <2>1. /\ DOMAIN accounts' = {} /\ \A c \in Callers : snap'[c] = None
        /\ UNCHANGED <<disk, spent>>
    BY <1>11 DEF Crash, provider
  <2>2. OneId' /\ Explained(accounts)'
    BY <2>1 DEF DeadInv, OneId, SameId, Explained
  <2>3. ASSUME disk # None, NEW p \in DOMAIN disk, disk[p].rt \in spent
        PROVE  blame'[disk[p].id] # {}
    <3>1. disk[p].id \in Ids
      BY <1>t, <2>3 DEF TypeOK, IsList, Account
    <3>2. CASE disk # accounts
      BY <1>11, <3>1, <3>2 DEF Crash
    <3>3. CASE disk = accounts /\ blame[disk[p].id] # {}
      BY <1>11, <3>1, <3>3 DEF Crash
    <3>4. CASE disk = accounts /\ blame[disk[p].id] = {}
      <4>1. PICK c \in Callers : pc[c] = "granted" /\ snap[c].rt = disk[p].rt
        BY <2>3, <3>4 DEF DeadInv, Explained, Renewed
      <4>2. snap[c] # None
        BY <1>t, <4>1 DEF CallerInv
      <4>3. snap[c].id = disk[p].id
        BY <1>n, <2>3, <3>4, <4>1, <4>2 DEF DeadInv, OneId, SameId
      <4>. QED  BY <1>11, <3>1, <4>1, <4>3 DEF Crash
    <3>. QED  BY <3>2, <3>3, <3>4
  <2>4. disk' # None => Explained(disk)'
    BY <2>1, <2>3 DEF Explained
  <2>. QED  BY <2>2, <2>4 DEF DeadInv
<1>12. ASSUME OpenStore PROVE DeadInv'
  <2>1. /\ accounts' = disk /\ disk # None /\ ~up /\ up'
        /\ UNCHANGED <<disk, pc, snap, tok, spent, blame>>
    BY <1>12 DEF OpenStore, provider
  <2>2. \A c \in Callers : snap[c] = None
    BY <2>1 DEF FreshInv, DownIsEmpty
  <2>3. OneId'
    BY <2>1, <2>2 DEF DeadInv, OneId, SameId
  <2>4. Explained(accounts)'
    BY <2>1 DEF DeadInv, Explained, Renewed
  <2>. QED  BY <2>1, <2>3, <2>4 DEF DeadInv
<1>13. ASSUME UNCHANGED vars PROVE DeadInv'
  BY <1>13 DEF vars, DeadInv, OneId, SameId, Explained, Renewed, provider
<1>. QED
  BY <1>1, <1>2, <1>3, <1>4, <1>5, <1>6, <1>7, <1>8, <1>9, <1>10, <1>11, <1>12, <1>13
     DEF Next

\* When no two users share an e-mail address, a stored refresh token the provider no
\* longer accepts has a known cause, or its replacement is on its way: a lost answer,
\* a stale copy written back, a crash.  Callers that refresh one token together do
\* not add another.
THEOREM DeadTokens ==
  ASSUME EmailsDistinct
  PROVE  Spec => []DeadTokenExplained
<1>1. /\ TypeInv /\ FreshInv /\ IdInv /\ DeadInv /\ [Next]_vars
           => (TypeInv /\ FreshInv /\ IdInv /\ DeadInv)'
  BY NextTypeInv, NextFresh, NextIdInv, NextDead
<1>2. DeadInv => DeadTokenExplained
  BY DEF DeadInv, Explained, Renewed, DeadTokenExplained, Entries
<1>. QED  BY <1>1, <1>2, InitTypeInv, InitFresh, InitIdInv, InitDead, PTL DEF Spec
=============================================================================
