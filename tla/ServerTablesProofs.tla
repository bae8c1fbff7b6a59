------------------------- MODULE ServerTablesProofs -------------------------
(***************************************************************************)
(* Four tables of the server.  The store of API keys implements            *)
(* KeyPromise, for any number of keys and of writes that fail or are cut   *)
(* off.  For any browsers, addresses and passwords, and any order of their *)
(* requests, the console admits only who has shown the password in force,  *)
(* a restart loads that password, and the limit on failed logins holds.    *)
(* For any flows, codes and callbacks, what the console is told of a login *)
(* is what became of it.  For any requests and Workers, what was reported  *)
(* deployed stays in the list and in the file.                             *)
(***************************************************************************)
EXTENDS ApiKeys, AdminSessions, PkceLogin, Deployments, FiniteSetTheorems, TLAPS

-----------------------------------------------------------------------------
(***************************************************************************)
(* The inductive invariant: how far the file may be from the memory.  In   *)
(* its place it is the memory, until a write gave trouble; then it may     *)
(* hold a key whose creation failed, or a revocation that was not          *)
(* reported, or nothing, but never as live what is revoked, nor at all     *)
(* what is gone.  Once it was moved it stands still, and what it holds has *)
(* been in memory.                                                         *)
(***************************************************************************)
Fresh   == \A k \in Keys : told[k] = "nothing" =>
             keys[k] = "absent" /\ keyFile[k] = "absent" /\ k \notin ever
Noticed == \A k \in Keys : keys[k] # "absent" => k \in ever
Near(k) ==
    /\ keys[k] = "revoked" => keyFile[k] # "live"
    /\ keys[k] = "absent"  => keyFile[k] # "revoked" /\ (k \in ever => keyFile[k] = "absent")
InPlace == ~astray => (faults = 0 => keyFile = keys) /\ \A k \in Keys : Near(k)
Left(k) == /\ keyFile[k] # "absent" => k \in ever
           /\ keyFile[k] \in {"absent", keys[k]} \/ (keyFile[k] = "live" /\ keys[k] = "revoked")
Astray  == astray => keyFile # NoKeys /\ \A k \in Keys : Left(k)

KeysInv == KeysTyped /\ Fresh /\ Noticed /\ InPlace /\ Astray

-----------------------------------------------------------------------------
\* What append and the mark of a revocation make of the records.
LEMMA PutRecord ==
  ASSUME KeysTyped, NEW k \in Keys, NEW s \in {"live", "revoked"}
  PROVE  /\ Put(k, s) \in Records /\ Put(k, s)[k] = s
         /\ \A j \in Keys : j # k => Put(k, s)[j] = keys[j]
BY DEF KeysTyped, Records, Put

\* What a write that did not succeed leaves behind.
LEMMA NotSavedFile ==
  ASSUME KeysAssumptions, KeysTyped, NEW r \in Records, NotSaved(r)
  PROVE  /\ keyFile' \in Records /\ faults' \in 0..MaxFaults /\ faults' > 0 /\ astray' = astray
         /\ (astray => keyFile' = keyFile) /\ (~astray => keyFile' \in {keyFile, NoKeys, r})
<1>1. keyFile' \in Records /\ (astray => keyFile' = keyFile) /\ (~astray => keyFile' \in {keyFile, NoKeys, r})
  BY DEF KeysTyped, NotSaved, Records, NoKeys
<1>2. faults' \in 0..MaxFaults /\ faults' > 0 /\ astray' = astray
  BY DEF KeysTyped, NotSaved, KeysAssumptions
<1>. QED  BY <1>1, <1>2

LEMMA NextKeysTyped == ASSUME KeysAssumptions, KeysTyped, [KeysNext]_keyVars PROVE KeysTyped'
<1>a. NoKeys \in Records
  BY DEF NoKeys, Records
<1>b. ASSUME NEW r \in Records, Saved(r) \/ NotSaved(r)
      PROVE  keyFile' \in Records /\ faults' \in 0..MaxFaults /\ astray' \in BOOLEAN
  BY <1>b, NotSavedFile DEF Saved, KeysTyped
<1>c. ASSUME NEW r \in Records, Seen(r) PROVE ever' \subseteq Keys
  BY <1>c DEF Seen, KeysTyped
<1>1. ASSUME NEW k \in Keys, Create(k) PROVE KeysTyped'
  <2>1. Put(k, "live") \in Records
    BY PutRecord
  <2>2. keys' \in Records /\ told' \in [Keys -> Told]
    BY <1>1, <2>1 DEF Create, Tell, KeysTyped, Told
  <2>3. keyFile' \in Records /\ faults' \in 0..MaxFaults /\ astray' \in BOOLEAN
    BY <1>1, <1>b, <2>1 DEF Create
  <2>4. ever' \subseteq Keys
    BY <1>1 DEF Create, Seen, KeysTyped
  <2>. QED  BY <2>2, <2>3, <2>4 DEF KeysTyped
<1>2. ASSUME NEW k \in Keys, Revoke(k) PROVE KeysTyped'
  <2>1. Put(k, "revoked") \in Records
    BY PutRecord
  <2>2. keys' \in Records /\ told' \in [Keys -> Told] /\ ever' = ever
    BY <1>2, <2>1 DEF Revoke, Tell, KeysTyped, Told
  <2>3. keyFile' \in Records /\ faults' \in 0..MaxFaults /\ astray' \in BOOLEAN
    BY <1>2, <1>b, <2>1 DEF Revoke
  <2>. QED  BY <2>2, <2>3 DEF KeysTyped
<1>3. ASSUME NEW k \in Keys, Use(k) PROVE KeysTyped'
  BY <1>3, <1>b DEF Use, KeysTyped
<1>4. ASSUME Reopen PROVE KeysTyped'
  BY <1>4, <1>c DEF Reopen, KeysTyped
<1>5. ASSUME Move PROVE KeysTyped'
  BY <1>5, <1>c DEF Move, KeysTyped
<1>6. ASSUME CrashInWrite PROVE KeysTyped'
  <2>1. PICK k \in Keys, s \in {"live", "revoked"} :
          /\ NotSaved(Put(k, s)) \/ NotSaved(keys)
          /\ told' \in {told, [told EXCEPT ![k] = "failed"]}
    BY <1>6 DEF CrashInWrite, Tell
  <2>2. keyFile' \in Records /\ faults' \in 0..MaxFaults /\ astray' \in BOOLEAN
    BY <1>b, <2>1, PutRecord DEF KeysTyped
  <2>3. told' \in [Keys -> Told]
    BY <2>1 DEF KeysTyped, Told
  <2>4. keys' \in Records /\ ever' \subseteq Keys
    BY <1>6, <2>2 DEF CrashInWrite, Seen, KeysTyped
  <2>. QED  BY <2>2, <2>3, <2>4 DEF KeysTyped
<1>7. ASSUME UNCHANGED keyVars PROVE KeysTyped'
  BY <1>7 DEF keyVars, KeysTyped
<1>. QED  BY <1>1, <1>2, <1>3, <1>4, <1>5, <1>6, <1>7 DEF KeysNext

\* A crash in the middle of a write: the write of one key's record, or of none.
LEMMA CrashEffect ==
  ASSUME KeysAssumptions, KeysInv, CrashInWrite
  PROVE  \E k \in Keys, r \in Records :
           /\ NotSaved(r) /\ keys' = keyFile' /\ Seen(keyFile')
           /\ \A j \in Keys : j # k => r[j] = keys[j] /\ told'[j] = told[j]
           /\ \/ told[k] = "nothing" /\ r[k] = "live" /\ told' = [told EXCEPT ![k] = "failed"]
              \/ keys[k] = "live" /\ r[k] \in {"live", "revoked"} /\ UNCHANGED told
<1>1. PICK k \in Keys :
        \/ told[k] = "nothing" /\ NotSaved(Put(k, "live")) /\ Tell(k, "failed")
        \/ keys[k] = "live" /\ NotSaved(Put(k, "revoked")) /\ UNCHANGED told
        \/ keys[k] = "live" /\ NotSaved(keys) /\ UNCHANGED told
  BY DEF CrashInWrite
<1>2. keys' = keyFile' /\ Seen(keyFile')
  BY DEF CrashInWrite
<1>3. CASE told[k] = "nothing" /\ NotSaved(Put(k, "live")) /\ Tell(k, "failed")
  BY <1>2, <1>3, PutRecord DEF KeysInv, KeysTyped, Tell
<1>4. CASE keys[k] = "live" /\ NotSaved(Put(k, "revoked")) /\ UNCHANGED told
  BY <1>2, <1>4, PutRecord DEF KeysInv
<1>5. CASE keys[k] = "live" /\ NotSaved(keys) /\ UNCHANGED told
  BY <1>2, <1>5 DEF KeysInv, KeysTyped
<1>. QED  BY <1>1, <1>3, <1>4, <1>5

\* The invariant is kept by every operation, restart and crash.
LEMMA NextKeys == ASSUME KeysAssumptions, KeysInv, [KeysNext]_keyVars PROVE KeysInv'
<1>0. KeysTyped /\ Fresh /\ Noticed /\ InPlace /\ Astray
  BY DEF KeysInv
<1>00. ASSUME Fresh', Noticed', InPlace', Astray' PROVE KeysInv'
  BY <1>0, <1>00, NextKeysTyped DEF KeysInv
<1>t. /\ \A k \in Keys : NoKeys[k] = "absent"
      /\ keyFile \in Records /\ keys \in Records /\ astray \in BOOLEAN /\ faults \in Nat
  BY <1>0 DEF NoKeys, KeysTyped, KeysAssumptions
<1>a. \A r \in Records : Seen(r) => ever \subseteq ever' /\ \A j \in Keys :
                          j \in ever' <=> j \in ever \/ r[j] # "absent"
  BY DEF Seen
<1>1. ASSUME NEW k \in Keys, Create(k) PROVE KeysInv'
  <2>. DEFINE r == Put(k, "live")
  <2>1. r \in Records /\ r[k] = "live" /\ \A j \in Keys : j # k => r[j] = keys[j]
    BY <1>0, PutRecord
  <2>2. told[k] = "nothing" /\ keys[k] = "absent" /\ keyFile[k] = "absent" /\ k \notin ever
    BY <1>0, <1>1 DEF Create, Fresh
  <2>3. CASE Saved(r) /\ keys' = r /\ Tell(k, "created")
    <3>1. Seen(r) /\ \A j \in Keys : told'[j] = IF j = k THEN "created" ELSE told[j]
      BY <1>0, <1>1, <2>3 DEF Create, Tell, KeysTyped
    <3>2. UNCHANGED <<astray, faults>> /\ keyFile' = IF astray THEN keyFile ELSE r
      BY <2>3 DEF Saved
    <3>. HIDE DEF r
    <3>3. Fresh'
      BY <1>0, <1>a, <2>1, <2>2, <2>3, <3>1, <3>2 DEF Fresh
    <3>4. Noticed'
      BY <1>0, <1>a, <2>1, <2>3, <3>1 DEF Noticed
    <3>5. InPlace'
      BY <2>3, <3>2 DEF InPlace, Near
    <3>6. Astray'
      BY <1>0, <1>a, <2>1, <2>2, <2>3, <3>1, <3>2 DEF Astray, Left
    <3>. QED  BY <1>00, <3>3, <3>4, <3>5, <3>6
  <2>4. CASE NotSaved(r) /\ UNCHANGED keys /\ Tell(k, "failed")
    <3>1. Seen(keys) /\ \A j \in Keys : told'[j] = IF j = k THEN "failed" ELSE told[j]
      BY <1>0, <1>1, <2>4 DEF Create, Tell, KeysTyped
    <3>2. /\ keyFile' \in Records /\ faults' \in 0..MaxFaults /\ faults' > 0 /\ astray' = astray
          /\ (astray => keyFile' = keyFile) /\ (~astray => keyFile' \in {keyFile, NoKeys, r})
      BY <1>0, <2>1, <2>4, NotSavedFile
    <3>. HIDE DEF r
    <3>3. Fresh'
      BY <1>0, <1>a, <1>t, <2>1, <2>2, <2>4, <3>1, <3>2 DEF Fresh
    <3>4. Noticed'
      BY <1>0, <1>a, <1>t, <2>4, <3>1 DEF Noticed
    <3>5. InPlace'
      BY <1>0, <1>a, <1>t, <2>1, <2>2, <2>4, <3>1, <3>2 DEF InPlace, Near, Noticed
    <3>6. Astray'
      BY <1>0, <1>a, <1>t, <2>4, <3>1, <3>2 DEF Astray, Left
    <3>. QED  BY <1>00, <3>3, <3>4, <3>5, <3>6
  <2>. QED  BY <1>1, <2>3, <2>4 DEF Create
<1>2. ASSUME NEW k \in Keys, Revoke(k) PROVE KeysInv'
  <2>. DEFINE r == Put(k, "revoked")
  <2>1. r \in Records /\ r[k] = "revoked" /\ \A j \in Keys : j # k => r[j] = keys[j]
    BY <1>0, PutRecord
  <2>2. keys[k] = "live" /\ k \in ever /\ ever' = ever
    BY <1>0, <1>2 DEF Revoke, Noticed
  <2>3. CASE Saved(r) /\ keys' = r /\ Tell(k, "revoked")
    <3>1. \A j \in Keys : told'[j] = IF j = k THEN "revoked" ELSE told[j]
      BY <1>0, <2>3 DEF Tell, KeysTyped
    <3>2. UNCHANGED <<astray, faults>> /\ keyFile' = IF astray THEN keyFile ELSE r
      BY <2>3 DEF Saved
    <3>. HIDE DEF r
    <3>3. Fresh'
      BY <1>0, <2>1, <2>2, <2>3, <3>1, <3>2 DEF Fresh
    <3>4. Noticed'
      BY <1>0, <2>1, <2>2, <2>3 DEF Noticed
    <3>5. InPlace'
      BY <2>3, <3>2 DEF InPlace, Near
    <3>6. Astray'
      BY <1>0, <2>1, <2>2, <2>3, <3>2 DEF Astray, Left
    <3>. QED  BY <1>00, <3>3, <3>4, <3>5, <3>6
  <2>4. CASE NotSaved(r) /\ UNCHANGED <<keys, told>>
    <3>2. /\ keyFile' \in Records /\ faults' \in 0..MaxFaults /\ faults' > 0 /\ astray' = astray
          /\ (astray => keyFile' = keyFile) /\ (~astray => keyFile' \in {keyFile, NoKeys, r})
      BY <1>0, <2>1, <2>4, NotSavedFile
    <3>. HIDE DEF r
    <3>3. Fresh'
      BY <1>0, <1>t, <2>1, <2>2, <2>4, <3>2 DEF Fresh
    <3>4. Noticed'
      BY <1>0, <2>2, <2>4 DEF Noticed
    <3>5. InPlace'
      BY <1>0, <1>t, <2>1, <2>2, <2>4, <3>2 DEF InPlace, Near
    <3>6. Astray'
      BY <1>0, <2>2, <2>4, <3>2 DEF Astray, Left
    <3>. QED  BY <1>00, <3>3, <3>4, <3>5, <3>6
  <2>. QED  BY <1>2, <2>3, <2>4 DEF Revoke
<1>3. ASSUME NEW k \in Keys, Use(k) PROVE KeysInv'
  <2>1. UNCHANGED <<keys, told, ever>>
    BY <1>3 DEF Use
  <2>2. /\ astray' = astray /\ (astray => keyFile' = keyFile)
        /\ ~astray => keyFile' \in {keyFile, NoKeys, keys} /\ (faults' = 0 => keyFile' = keys)
    BY <1>0, <1>t, <1>3, NotSavedFile DEF Use, Saved
  <2>3. Fresh' /\ Noticed'
    BY <1>0, <1>t, <2>1, <2>2 DEF Fresh, Noticed
  <2>4. InPlace'
    BY <1>0, <1>t, <2>1, <2>2 DEF InPlace, Near
  <2>5. Astray'
    BY <1>0, <2>1, <2>2 DEF Astray, Left
  <2>. QED  BY <1>00, <2>3, <2>4, <2>5
<1>4. ASSUME Reopen \/ Move PROVE KeysInv'
  <2>1. keys' = keyFile /\ Seen(keyFile) /\ UNCHANGED <<keyFile, told, faults>>
        /\ astray' \in {astray, keyFile # NoKeys}
    BY <1>4 DEF Reopen, Move
  <2>2. Fresh' /\ Noticed'
    BY <1>0, <1>a, <1>t, <2>1 DEF Fresh, Noticed
  <2>3. InPlace'
    BY <2>1 DEF InPlace, Near
  <2>4. Astray'
    BY <1>0, <1>a, <1>t, <2>1 DEF Astray, Left
  <2>. QED  BY <1>00, <2>2, <2>3, <2>4
<1>5. ASSUME CrashInWrite PROVE KeysInv'
  <2>1. PICK k \in Keys, r \in Records :
          /\ NotSaved(r) /\ keys' = keyFile' /\ Seen(keyFile')
          /\ \A j \in Keys : j # k => r[j] = keys[j] /\ told'[j] = told[j]
          /\ \/ told[k] = "nothing" /\ r[k] = "live" /\ told' = [told EXCEPT ![k] = "failed"]
             \/ keys[k] = "live" /\ r[k] \in {"live", "revoked"} /\ UNCHANGED told
    BY <1>5, CrashEffect
  <2>2. /\ keyFile' \in Records /\ faults' \in 0..MaxFaults /\ faults' > 0 /\ astray' = astray
        /\ (astray => keyFile' = keyFile) /\ (~astray => keyFile' \in {keyFile, NoKeys, r})
    BY <1>0, <2>1, NotSavedFile
  <2>3. told'[k] # "nothing"
    BY <1>0, <2>1 DEF Fresh, KeysTyped
  <2>4. \A j \in Keys : j \in ever' <=> j \in ever \/ keyFile'[j] # "absent"
    BY <2>1 DEF Seen
  <2>5. Fresh'
    BY <1>0, <1>t, <2>1, <2>2, <2>3, <2>4 DEF Fresh
  <2>6. Noticed' /\ InPlace'
    BY <2>1, <2>2, <2>4 DEF Noticed, InPlace, Near
  <2>7. Astray'
    BY <1>0, <2>1, <2>2, <2>4 DEF Astray, Left
  <2>. QED  BY <1>00, <2>5, <2>6, <2>7
<1>6. ASSUME UNCHANGED keyVars PROVE KeysInv'
  BY <1>0, <1>00, <1>6 DEF keyVars, Fresh, Noticed, InPlace, Near, Astray, Left, NoKeys
<1>. QED  BY <1>1, <1>2, <1>3, <1>4, <1>5, <1>6 DEF KeysNext

-----------------------------------------------------------------------------
(***************************************************************************)
(* The refinement.  A write that was cut off or failed is Damage, also     *)
(* where it did none; a restart is Damage or nothing while the file is in  *)
(* its place, and Forget once it is not.                                   *)
(***************************************************************************)
States == {"unissued", "live", "revoked", "gone"}

LEMMA StatusType ==
  ASSUME KeysInv
  PROVE  /\ Statuses \in [Keys -> States]
         /\ \A k \in Keys : /\ Statuses[k] = Status(k)
                            /\ Heard[k] = IF told[k] = "failed" THEN "nothing" ELSE told[k]
         /\ \A k \in Keys : told[k] = "nothing" => Status(k) = "unissued"
BY DEF KeysInv, KeysTyped, Records, Statuses, Status, States, Heard, Fresh

\* The same keys are remembered and the records are what they were.
LEMMA SameStatus ==
  ASSUME UNCHANGED <<keys, ever>> PROVE Statuses' = Statuses
BY DEF Statuses, Status
LEMMA SameHeard ==
  ASSUME NEW k \in Keys, told[k] = "nothing", told' = [told EXCEPT ![k] = "failed"],
         KeysInv
  PROVE  Heard' = Heard
BY DEF Heard, KeysInv, KeysTyped

\* From the memory to the file in its place, keys go forward only,
LEMMA FileForward ==
  ASSUME KeysInv, KeysInv', NEW k \in Keys, keys'[k] \in {keys[k], "absent"} \/
           (keys'[k] = keyFile[k] /\ Near(k)) \/ (keys[k] = "live" /\ keys'[k] = "revoked") \/
           (Status(k) = "unissued" /\ keys'[k] = "live"),
         k \in ever' <=> (k \in ever \/ keys'[k] # "absent")
  PROVE  Status(k)' \in Promise!Forward(Status(k))
BY DEF KeysInv, KeysTyped, Records, Noticed, Near, Status, Promise!Forward

\* and to one that was left behind they go back to it.
LEMMA FileBack ==
  ASSUME KeysInv, KeysInv', NEW k \in Keys, Left(k), keys'[k] = keyFile[k],
         k \in ever' <=> (k \in ever \/ keys'[k] # "absent")
  PROVE  Status(k)' \in Promise!Back(Status(k))
BY DEF KeysInv, KeysTyped, Records, Noticed, Left, Status, Promise!Back

\* Steps of KeyPromise, from what they do to each key.
LEMMA ToDamage ==
  ASSUME KeysInv, KeysInv', Heard' = Heard, astray' = astray, faults' > 0,
         \A k \in Keys : Status(k)' \in Promise!Forward(Status(k))
  PROVE  Promise!Damage
<1>1. Statuses' \in [Keys -> {"unissued", "live", "revoked", "gone"}]
  BY DEF KeysInv, KeysTyped, Records, Statuses, Status
<1>2. \A k \in Keys : Statuses'[k] = Status(k)' /\ Statuses[k] = Status(k)
  BY DEF Statuses
<1>3. (faults > 0)' = TRUE
  OBVIOUS
<1>. QED  BY <1>1, <1>2, <1>3 DEF Promise!Damage, Promise!Carried

LEMMA ToForget ==
  ASSUME KeysInv, KeysInv', Heard' = Heard, astray' = astray, astray,
         (faults' > 0) \in {faults > 0, TRUE},
         \A k \in Keys : Status(k)' \in Promise!Back(Status(k))
  PROVE  Promise!Forget
<1>1. Statuses' \in [Keys -> {"unissued", "live", "revoked", "gone"}]
  BY DEF KeysInv, KeysTyped, Records, Statuses, Status
<1>2. \A k \in Keys : Statuses'[k] = Status(k)' /\ Statuses[k] = Status(k)
  BY DEF Statuses
<1>. QED  BY <1>1, <1>2 DEF Promise!Forget

LEMMA NextPromise ==
  ASSUME KeysAssumptions, KeysInv, KeysInv', [KeysNext]_keyVars
  PROVE  [Promise!Next]_<<Statuses, Heard, faults > 0, astray>>
<1>0. /\ KeysTyped /\ KeysTyped' /\ Fresh /\ Noticed /\ Noticed' /\ InPlace /\ Astray
      /\ faults \in Nat /\ faults' \in Nat /\ keys \in Records /\ keyFile \in Records
      /\ \A k \in Keys : NoKeys[k] = "absent"
  BY DEF KeysInv, KeysTyped, KeysAssumptions, NoKeys
<1>1. ASSUME NEW k \in Keys, Create(k) PROVE [Promise!Next]_<<Statuses, Heard, faults > 0, astray>>
  <2>1. told[k] = "nothing" /\ Seen(keys')
    BY <1>1 DEF Create
  <2>2. CASE Saved(Put(k, "live")) /\ keys' = Put(k, "live") /\ Tell(k, "created")
    <3>1. /\ Statuses[k] = "unissued" /\ Statuses' = [Statuses EXCEPT ![k] = "live"]
      <4>. DEFINE r == Put(k, "live")
      <4>1. r \in Records /\ r[k] = "live" /\ \A j \in Keys : j # k => r[j] = keys[j]
        BY <1>0, PutRecord
      <4>2. keys' = r
        BY <2>2
      <4>. HIDE DEF r
      <4>3. \A j \in Keys : j \in ever' <=> (j \in ever \/ r[j] # "absent")
        BY <2>1, <4>2 DEF Seen
      <4>4. \A j \in Keys : Status(j)' = IF j = k THEN "live" ELSE Status(j)
        BY <1>0, <4>1, <4>2, <4>3 DEF Status, Noticed
      <4>. QED  BY <2>1, <4>4, StatusType DEF Statuses
    <3>2. Heard' = [Heard EXCEPT ![k] = "created"]
      BY <1>0, <2>2 DEF Heard, Tell, KeysTyped
    <3>3. UNCHANGED <<faults, astray>>
      BY <2>2 DEF Saved
    <3>4. Promise!Issue(k)
      BY <3>1, <3>2, <3>3 DEF Promise!Issue
    <3>. QED  BY <3>4 DEF Promise!Next
  <2>3. CASE NotSaved(Put(k, "live")) /\ UNCHANGED keys /\ Tell(k, "failed")
    <3>1. UNCHANGED <<keys, ever>>
      BY <1>0, <2>1, <2>3 DEF Seen, Noticed, KeysTyped
    <3>2. Heard' = Heard
      BY <2>1, <2>3, SameHeard DEF Tell
    <3>3. astray' = astray /\ faults' > 0
      BY <1>0, <2>3, PutRecord, NotSavedFile
    <3>4. \A j \in Keys : Status(j)' \in Promise!Forward(Status(j))
      BY <1>0, <3>1, FileForward DEF Noticed
    <3>. QED  BY <3>2, <3>3, <3>4, ToDamage DEF Promise!Next
  <2>. QED  BY <1>1, <2>2, <2>3 DEF Create
<1>2. ASSUME NEW k \in Keys, Revoke(k) PROVE [Promise!Next]_<<Statuses, Heard, faults > 0, astray>>
  <2>1. keys[k] = "live" /\ ever' = ever
    BY <1>2 DEF Revoke
  <2>2. CASE Saved(Put(k, "revoked")) /\ keys' = Put(k, "revoked") /\ Tell(k, "revoked")
    <3>1. Statuses[k] = "live" /\ Statuses' = [Statuses EXCEPT ![k] = "revoked"]
      <4>. DEFINE r == Put(k, "revoked")
      <4>1. r[k] = "revoked" /\ (\A j \in Keys : j # k => r[j] = keys[j]) /\ keys' = r
        BY <1>0, <2>2, PutRecord
      <4>. HIDE DEF r
      <4>2. \A j \in Keys : Status(j)' = IF j = k THEN "revoked" ELSE Status(j)
        BY <2>1, <4>1 DEF Status
      <4>3. Status(k) = "live"
        BY <2>1 DEF Status
      <4>. QED  BY <4>2, <4>3 DEF Statuses
    <3>2. Heard' = [Heard EXCEPT ![k] = "revoked"]
      BY <1>0, <2>2 DEF Heard, Tell, KeysTyped
    <3>3. UNCHANGED <<faults, astray>>
      BY <2>2 DEF Saved
    <3>4. Promise!Revoke(k)
      BY <3>1, <3>2, <3>3 DEF Promise!Revoke
    <3>. QED  BY <3>4 DEF Promise!Next
  <2>3. CASE NotSaved(Put(k, "revoked")) /\ UNCHANGED <<keys, told>>
    <3>1. Heard' = Heard
      BY <2>3 DEF Heard
    <3>2. astray' = astray /\ faults' > 0
      BY <1>0, <2>3, PutRecord, NotSavedFile
    <3>3. \A j \in Keys : Status(j)' \in Promise!Forward(Status(j))
      BY <1>0, <2>1, <2>3, FileForward DEF Noticed
    <3>. QED  BY <3>1, <3>2, <3>3, ToDamage DEF Promise!Next
  <2>. QED  BY <1>2, <2>2, <2>3 DEF Revoke
<1>3. ASSUME NEW k \in Keys, Use(k) PROVE [Promise!Next]_<<Statuses, Heard, faults > 0, astray>>
  <2>1. UNCHANGED <<keys, told, ever>>
    BY <1>3 DEF Use
  <2>2. Statuses' = Statuses /\ Heard' = Heard
    BY <2>1, SameStatus DEF Heard
  <2>3. CASE Saved(keys)
    BY <2>2, <2>3 DEF Saved
  <2>4. CASE NotSaved(keys)
    <3>1. astray' = astray /\ faults' > 0
      BY <1>0, <2>4, NotSavedFile
    <3>2. \A j \in Keys : Status(j)' \in Promise!Forward(Status(j))
      BY <1>0, <2>1, FileForward DEF Noticed
    <3>. QED  BY <2>2, <3>1, <3>2, ToDamage DEF Promise!Next
  <2>. QED  BY <1>3, <2>3, <2>4 DEF Use
<1>4. ASSUME Reopen \/ Move PROVE [Promise!Next]_<<Statuses, Heard, faults > 0, astray>>
  <2>1. keys' = keyFile /\ Seen(keyFile) /\ UNCHANGED <<keyFile, told, faults>>
    BY <1>4 DEF Reopen, Move
  <2>2. Heard' = Heard
    BY <2>1 DEF Heard
  <2>3. \A k \in Keys : k \in ever' <=> (k \in ever \/ keys'[k] # "absent")
    BY <2>1 DEF Seen
  <2>4. CASE astray
    <3>1. astray' = astray
      BY <1>0, <1>4, <2>4 DEF Reopen, Move, Astray, KeysTyped
    <3>2. \A k \in Keys : Status(k)' \in Promise!Back(Status(k))
      BY <1>0, <2>1, <2>3, <2>4, FileBack DEF Astray
    <3>3. (faults' > 0) \in {faults > 0, TRUE}
      BY <2>1
    <3>. QED  BY <2>2, <2>4, <3>1, <3>2, <3>3, ToForget DEF Promise!Next
  <2>5. CASE ~astray /\ faults = 0
    <3>1. UNCHANGED <<keys, ever>>
      BY <1>0, <2>1, <2>5 DEF InPlace, Noticed, Seen, KeysTyped
    <3>2. Statuses' = Statuses
      BY <3>1, SameStatus
    <3>3. CASE astray' = astray
      BY <2>1, <2>2, <3>2, <3>3
    <3>4. CASE astray' # astray
      <4>1. astray' = TRUE
        BY <1>0, <2>5, <3>4 DEF KeysTyped
      <4>2. Promise!Move
        BY <2>1, <2>2, <3>2, <4>1 DEF Promise!Move
      <4>. QED  BY <4>2 DEF Promise!Next
    <3>. QED  BY <3>3, <3>4
  <2>6. CASE ~astray /\ faults > 0
    <3>1. \A k \in Keys : Status(k)' \in Promise!Forward(Status(k))
      BY <1>0, <2>1, <2>3, <2>6, FileForward DEF InPlace
    <3>2. CASE astray' = astray
      BY <2>1, <2>2, <2>6, <3>1, <3>2, ToDamage DEF Promise!Next
    <3>3. CASE astray' # astray
      <4>1. astray' = TRUE
        BY <1>0, <2>6, <3>3 DEF KeysTyped
      <4>2. Promise!Carried
        <5>1. Statuses' \in [Keys -> {"unissued", "live", "revoked", "gone"}]
          BY StatusType DEF States, KeysInv, KeysTyped, Records, Statuses, Status
        <5>. QED  BY <3>1, <5>1 DEF Promise!Carried, Statuses
      <4>3. Promise!Move
        BY <2>1, <2>2, <2>6, <4>1, <4>2 DEF Promise!Move
      <4>. QED  BY <4>3 DEF Promise!Next
    <3>. QED  BY <3>2, <3>3
  <2>. QED  BY <1>0, <2>4, <2>5, <2>6
<1>5. ASSUME CrashInWrite PROVE [Promise!Next]_<<Statuses, Heard, faults > 0, astray>>
  <2>1. PICK k \in Keys, r \in Records :
          /\ NotSaved(r) /\ keys' = keyFile' /\ Seen(keyFile')
          /\ \A j \in Keys : j # k => r[j] = keys[j] /\ told'[j] = told[j]
          /\ \/ told[k] = "nothing" /\ r[k] = "live" /\ told' = [told EXCEPT ![k] = "failed"]
             \/ keys[k] = "live" /\ r[k] \in {"live", "revoked"} /\ UNCHANGED told
    BY <1>5, CrashEffect
  <2>2. /\ keyFile' \in Records /\ faults' > 0 /\ astray' = astray
        /\ (astray => keyFile' = keyFile) /\ (~astray => keyFile' \in {keyFile, NoKeys, r})
    BY <1>0, <2>1, NotSavedFile
  <2>3. Heard' = Heard
    <3>1. CASE UNCHANGED told
      BY <3>1 DEF Heard
    <3>2. CASE told[k] = "nothing" /\ told' = [told EXCEPT ![k] = "failed"]
      BY <3>2, SameHeard
    <3>. QED  BY <2>1, <3>1, <3>2
  <2>4. \A j \in Keys : j \in ever' <=> (j \in ever \/ keys'[j] # "absent")
    BY <2>1 DEF Seen
  <2>5. CASE astray
    <3>1. \A j \in Keys : Status(j)' \in Promise!Back(Status(j))
      BY <1>0, <2>1, <2>2, <2>4, <2>5, FileBack DEF Astray
    <3>2. (faults' > 0) \in {faults > 0, TRUE}
      BY <2>2
    <3>. QED  BY <2>2, <2>3, <2>5, <3>1, <3>2, ToForget DEF Promise!Next
  <2>6. CASE ~astray
    <3>1. ASSUME NEW j \in Keys PROVE Status(j)' \in Promise!Forward(Status(j))
      <4>1. CASE keyFile' \in {keyFile, NoKeys}
        BY <1>0, <2>1, <2>2, <2>4, <2>6, <4>1, FileForward DEF InPlace
      <4>2. CASE keyFile' = r /\ j # k
        BY <1>0, <2>1, <2>4, <4>2, FileForward
      <4>3. CASE keyFile' = r /\ j = k
        BY <1>0, <2>1, <2>4, <4>3, FileForward, StatusType
      <4>. QED  BY <2>2, <2>6, <4>1, <4>2, <4>3
    <3>. QED  BY <2>2, <2>3, <3>1, ToDamage DEF Promise!Next
  <2>. QED  BY <2>5, <2>6
<1>6. ASSUME UNCHANGED keyVars PROVE [Promise!Next]_<<Statuses, Heard, faults > 0, astray>>
  BY <1>6, SameStatus DEF keyVars, Heard
<1>. QED  BY <1>1, <1>2, <1>3, <1>4, <1>5, <1>6 DEF KeysNext

LEMMA InitPromise == ASSUME KeysAssumptions, KeysInit PROVE KeysInv /\ Promise!Init
<1>1. KeysTyped
  <2>1. keys \in Records /\ keyFile \in Records /\ told \in [Keys -> Told]
    BY DEF KeysInit, Records, NoKeys, Told
  <2>2. ever \subseteq Keys /\ astray \in BOOLEAN
    BY DEF KeysInit
  <2>3. faults \in 0..MaxFaults
    BY DEF KeysInit, KeysAssumptions
  <2>. QED  BY <2>1, <2>2, <2>3 DEF KeysTyped
<1>2. Fresh /\ Noticed /\ InPlace /\ Astray
  BY DEF KeysInit, Fresh, Noticed, InPlace, Near, Astray, NoKeys
<1>3. Statuses = [k \in Keys |-> "unissued"] /\ Heard = [k \in Keys |-> "nothing"]
  BY DEF KeysInit, Statuses, Status, Heard, NoKeys
<1>4. (faults > 0) = FALSE /\ astray = FALSE
  BY DEF KeysInit
<1>. QED  BY <1>1, <1>2, <1>3, <1>4 DEF KeysInv, Promise!Init

LEMMA KeysInvariant == ASSUME KeysAssumptions PROVE KeysSpec => []KeysInv
<1>1. KeysInit => KeysInv
  BY InitPromise
<1>2. KeysInv /\ [KeysNext]_keyVars => KeysInv'
  BY NextKeys
<1>. QED  BY <1>1, <1>2, PTL DEF KeysSpec

-----------------------------------------------------------------------------
\* The records, in memory and in the file, and what was told keep their types.
THEOREM KeysTypeCorrect == ASSUME KeysAssumptions PROVE KeysSpec => []KeysTyped
<1>1. KeysInv => KeysTyped
  BY DEF KeysInv
<1>. QED  BY <1>1, KeysInvariant, PTL

\* The store of keys.go implements what the console promises: a key whose revocation was
\* reported stays revoked over restarts, failed writes and crashes in the middle of one,
\* and without such trouble nothing happens to a key that the console was not told,
\* as long as the file stays in its place.
THEOREM KeepsPromise == ASSUME KeysAssumptions PROVE KeysSpec => KeysPromiseKept
<1>1. KeysInit => Promise!Init
  BY InitPromise
<1>2. KeysInv /\ KeysInv' /\ [KeysNext]_keyVars =>
        [Promise!Next]_<<Statuses, Heard, faults > 0, astray>>
  BY NextPromise
<1>. QED  BY <1>1, <1>2, KeysInvariant, PTL DEF KeysSpec, KeysPromiseKept, Promise!Spec

-----------------------------------------------------------------------------
\* The step of a request tells what else it holds.
LEMMA Shape ==
  ASSUME TypeOK, NEW c \in Clients
  PROVE  /\ Step(c) \in LoginSteps => req[c] \in Logins
         /\ Step(c) = "visiting" => req[c] \in Visits
         /\ Step(c) \in {"changing", "checked", "saved"} => req[c] \in Renewals
BY DEF TypeOK, Step, LoginSteps, Idle, Visits, Logins, Renewals

\* A request that is over, and one that goes on.
LEMMA GotoType ==
  ASSUME TypeOK, NEW c \in Clients, NEW r \in {Idle} \cup Visits \cup Logins \cup Renewals,
         Goto(c, r)
  PROVE  /\ req' \in [Clients -> {Idle} \cup Visits \cup Logins \cup Renewals]
         /\ req'[c] = r /\ \A d \in Clients : d # c => req'[d] = req[d]
BY DEF TypeOK, Goto
LEMMA StepLogin ==
  ASSUME TypeOK, NEW c \in Clients, Step(c) \in LoginSteps, NEW s \in LoginSteps,
         req' = [req EXCEPT ![c].step = s]
  PROVE  /\ req' \in [Clients -> {Idle} \cup Visits \cup Logins \cup Renewals]
         /\ req'[c] = [req[c] EXCEPT !.step = s] /\ req'[c] \in Logins
         /\ \A d \in Clients : d # c => req'[d] = req[d]
<1>1. [req[c] EXCEPT !.step = s] \in Logins
  BY Shape DEF Logins
<1>. QED  BY <1>1 DEF TypeOK
LEMMA StepRenewal ==
  ASSUME TypeOK, NEW c \in Clients, Step(c) \in {"changing", "checked", "saved"},
         NEW s \in {"changing", "checked", "saved"}, req' = [req EXCEPT ![c].step = s]
  PROVE  /\ req' \in [Clients -> {Idle} \cup Visits \cup Logins \cup Renewals]
         /\ req'[c] = [req[c] EXCEPT !.step = s] /\ req'[c] \in Renewals
         /\ \A d \in Clients : d # c => req'[d] = req[d]
<1>1. [req[c] EXCEPT !.step = s] \in Renewals
  BY Shape DEF Renewals
<1>. QED  BY <1>1 DEF TypeOK

\* The failure that is recorded, and the place made for it.
LEMMA FailedType ==
  ASSUME AdminAssumptions, NEW e \in Attempt \cup {None}, NEW t \in 0..MaxClock
  PROVE  Failed(e, t) \in Attempt
BY DEF AdminAssumptions, Attempt, Failed, Recent
LEMMA RoomType ==
  ASSUME TypeOK, NEW a \in Addresses, NEW t \in 0..MaxClock
  PROVE  /\ Room(a, t) \in [Addresses -> Attempt \cup {None}]
         /\ \A b \in Addresses : Room(a, t)[b] \in {attempts[b], None}
BY DEF TypeOK, Room, Purged

-----------------------------------------------------------------------------
\* Types are kept by every step.
LEMMA NextAdminTyped ==
  ASSUME AdminAssumptions, TypeOK, [Next]_vars
  PROVE  TypeOK'
<1>. DEFINE Reqs     == {Idle} \cup Visits \cup Logins \cup Renewals
            DoorOK   == /\ password \in Passwords /\ file \in Passwords \cup {None}
                        /\ mustChange = (password = Default)
                        /\ sessions \in [Clients -> Session \cup {None}]
            LimitOK  == attempts \in [Addresses -> Attempt \cup {None}] /\ wrong \in [Addresses -> Nat]
            ReqOK    == req \in [Clients -> Reqs]
            PastOK   == /\ clock \in 0..MaxClock /\ changes \in 0..MaxChanges
                        /\ overlapped \in BOOLEAN /\ trouble \in BOOLEAN
<1>0. DoorOK /\ LimitOK /\ ReqOK /\ PastOK
  BY DEF TypeOK
<1>00. ASSUME DoorOK', LimitOK', ReqOK', PastOK' PROVE TypeOK'
  BY <1>00 DEF TypeOK
<1>. HIDE DEF DoorOK, LimitOK, ReqOK, PastOK
<1>a. UNCHANGED door => DoorOK'
  BY <1>0 DEF DoorOK, door
<1>b. UNCHANGED limit => LimitOK'
  BY <1>0 DEF LimitOK, limit
<1>c. UNCHANGED past => PastOK'
  BY <1>0 DEF PastOK, past
<1>d. ASSUME NEW c \in Clients, NEW r \in Reqs, Goto(c, r) PROVE ReqOK'
  BY <1>d, GotoType DEF ReqOK
<1>e. ASSUME UNCHANGED <<password, mustChange, file>>,
             sessions' \in [Clients -> Session \cup {None}]
      PROVE  DoorOK'
  BY <1>0, <1>e DEF DoorOK
<1>1. ASSUME NEW c \in Clients, NEW a \in Addresses, AskLogin(c, a) PROVE TypeOK'
  <2>1. PICK p \in Passwords : Goto(c, Login("asked", p, a, clock, FALSE))
    BY <1>1 DEF AskLogin
  <2>2. Login("asked", p, a, clock, FALSE) \in Logins
    BY <1>0 DEF Login, Logins, LoginSteps, PastOK
  <2>3. LimitOK'
    BY <1>0, <1>1 DEF AskLogin, Forget, LimitOK
  <2>. QED  BY <1>00, <1>a, <1>c, <1>d, <1>1, <2>1, <2>2, <2>3 DEF AskLogin
<1>2. ASSUME NEW c \in Clients, Compare(c) PROVE TypeOK'
  <2>1. PICK s \in LoginSteps : req' = [req EXCEPT ![c].step = s]
    BY <1>2 DEF Compare, LoginSteps
  <2>2. Step(c) \in LoginSteps
    BY <1>2 DEF Compare, LoginSteps
  <2>. QED  BY <1>00, <1>a, <1>b, <1>c, <1>2, <2>1, <2>2, StepLogin DEF Compare, ReqOK
<1>3. ASSUME NEW c \in Clients, RecordFailure(c) PROVE TypeOK'
  <2>1. req[c].from \in Addresses /\ req[c].at \in 0..MaxClock
    BY <1>3, Shape DEF RecordFailure, LoginSteps, Logins
  <2>2. LimitOK'
    <3>. DEFINE a == req[c].from
                m == Room(a, req[c].at)
    <3>1. m \in [Addresses -> Attempt \cup {None}]
      BY <2>1, RoomType
    <3>2. Failed(m[a], req[c].at) \in Attempt
      BY <2>1, <3>1, FailedType
    <3>3. attempts' \in {m, [m EXCEPT ![a] = Failed(m[a], req[c].at)]}
      BY <1>3 DEF RecordFailure
    <3>4. wrong' \in [Addresses -> Nat]
      <4>1. PICK full \in BOOLEAN, n \in {wrong[a] + 1, 1} :
              wrong' = [b \in Addresses |-> IF b = a /\ ~full THEN n
                                           ELSE IF m[b] = None THEN 0 ELSE wrong[b]]
        <5>1. (m[a] = None /\ Cardinality(Attempted(m)) >= MaxAddresses) \in BOOLEAN
          OBVIOUS
        <5>2. (IF Recent(m[a], req[c].at) THEN wrong[a] + 1 ELSE 1) \in {wrong[a] + 1, 1}
          OBVIOUS
        <5>3. wrong' = [b \in Addresses |->
                          IF b = a /\ ~(m[a] = None /\ Cardinality(Attempted(m)) >= MaxAddresses)
                            THEN IF Recent(m[a], req[c].at) THEN wrong[a] + 1 ELSE 1
                          ELSE IF m[b] = None THEN 0 ELSE wrong[b]]
          BY <1>3 DEF RecordFailure
        <5>. HIDE DEF m, a
        <5>. QED  BY <5>1, <5>2, <5>3
      <4>2. n \in Nat /\ \A b \in Addresses : wrong[b] \in Nat
        BY <1>0, <2>1, <4>1 DEF LimitOK
      <4>. HIDE DEF m, a
      <4>. QED  BY <4>1, <4>2
    <3>. HIDE DEF m
    <3>. QED  BY <3>1, <3>2, <3>3, <3>4 DEF LimitOK
  <2>. QED  BY <1>00, <1>a, <1>c, <1>d, <1>3, <2>2 DEF RecordFailure
<1>4. ASSUME NEW c \in Clients, ClearFailures(c) PROVE TypeOK'
  <2>1. LimitOK'
    BY <1>0, <1>4 DEF ClearFailures, LimitOK
  <2>2. Step(c) \in LoginSteps /\ req' = [req EXCEPT ![c].step = "cleared"]
    BY <1>4 DEF ClearFailures, LoginSteps
  <2>3. ReqOK'
    BY <2>2, StepLogin DEF ReqOK, LoginSteps
  <2>. QED  BY <1>00, <1>a, <1>c, <1>4, <2>1, <2>3 DEF ClearFailures
<1>5. ASSUME NEW c \in Clients, AddSession(c) PROVE TypeOK'
  <2>1. [pass |-> req[c].pass, raced |-> req[c].raced, expired |-> FALSE] \in Session
    BY <1>5, Shape DEF AddSession, LoginSteps, Logins, Session
  <2>2. DoorOK'
    BY <1>0, <1>e, <1>5, <2>1 DEF AddSession, DoorOK
  <2>. QED  BY <1>00, <1>b, <1>c, <1>d, <1>5, <2>2 DEF AddSession
<1>6. ASSUME NEW c \in Clients, Visit(c) PROVE TypeOK'
  <2>1. DoorOK'
    BY <1>0, <1>e, <1>6 DEF Visit, Shown, DoorOK
  <2>2. ReqOK'
    <3>1. CASE ValidSession(c)
      <4>1. Visiting(sessions[c]) \in Visits
        BY <1>0, <3>1 DEF ValidSession, Visiting, Visits, DoorOK, Session
      <4>. QED  BY <1>d, <1>6, <3>1, <4>1 DEF Visit
    <3>2. CASE ~ValidSession(c)
      BY <1>0, <1>6, <3>2 DEF Visit, ReqOK
    <3>. QED  BY <3>1, <3>2
  <2>. QED  BY <1>00, <1>b, <1>c, <1>6, <2>1, <2>2 DEF Visit
<1>7. ASSUME NEW c \in Clients, EndVisit(c) PROVE TypeOK'
  BY <1>00, <1>a, <1>b, <1>c, <1>d, <1>7 DEF EndVisit
<1>8. ASSUME NEW c \in Clients, Logout(c) \/ Expire(c) PROVE TypeOK'
  <2>1. sessions' \in [Clients -> Session \cup {None}]
    <3>1. CASE Logout(c)
      BY <1>0, <3>1 DEF Logout, DoorOK
    <3>2. CASE Expire(c)
      BY <1>0, <3>2 DEF Expire, ValidSession, DoorOK, Session
    <3>. QED  BY <1>8, <3>1, <3>2
  <2>2. UNCHANGED <<password, mustChange, file, limit, req, past>>
    BY <1>8 DEF Logout, Expire
  <2>3. ReqOK'
    BY <1>0, <2>2 DEF ReqOK
  <2>. QED  BY <1>00, <1>b, <1>c, <1>e, <2>1, <2>2, <2>3
<1>9. ASSUME NEW c \in Clients, AskChange(c) PROVE TypeOK'
  <2>1. PICK p \in Passwords, new \in Passwords \ {Default} : Goto(c, Change("changing", p, new))
    BY <1>9 DEF AskChange
  <2>2. Change("changing", p, new) \in Renewals
    BY DEF Change, Renewals
  <2>3. PastOK'
    BY <1>0, <1>9 DEF AskChange, PastOK, AdminAssumptions
  <2>. QED  BY <1>00, <1>a, <1>b, <1>d, <1>9, <2>1, <2>2, <2>3 DEF AskChange
<1>10. ASSUME NEW c \in Clients, CheckCurrent(c) PROVE TypeOK'
  <2>1. PastOK'
    BY <1>0, <1>10 DEF CheckCurrent, PastOK
  <2>2. ReqOK'
    <3>1. CASE req[c].pass = password
      BY <1>10, <3>1, StepRenewal DEF CheckCurrent, ReqOK
    <3>2. CASE req[c].pass # password
      BY <1>d, <1>10, <3>2 DEF CheckCurrent
    <3>. QED  BY <3>1, <3>2
  <2>. QED  BY <1>00, <1>a, <1>b, <1>10, <2>1, <2>2 DEF CheckCurrent
<1>11. ASSUME NEW c \in Clients, Save(c) PROVE TypeOK'
  <2>1. ReqOK' /\ req[c].new \in Passwords
    BY <1>11, StepRenewal, Shape DEF Save, ReqOK, Renewals
  <2>2. DoorOK'
    BY <1>0, <1>11, <2>1 DEF Save, DoorOK
  <2>. QED  BY <1>00, <1>b, <1>c, <1>11, <2>1, <2>2 DEF Save
<1>12. ASSUME NEW c \in Clients, SaveFails(c) PROVE TypeOK'
  <2>1. req[c].new \in Passwords
    BY <1>12, Shape DEF SaveFails, Renewals
  <2>2. DoorOK'
    BY <1>0, <1>12, <2>1 DEF SaveFails, DoorOK
  <2>3. PastOK'
    BY <1>0, <1>12 DEF SaveFails, PastOK
  <2>. QED  BY <1>00, <1>b, <1>d, <1>12, <2>2, <2>3 DEF SaveFails
<1>13. ASSUME NEW c \in Clients, SetPassword(c) PROVE TypeOK'
  <2>1. req[c].new \in Passwords \ {Default}
    BY <1>13, Shape DEF SetPassword, Renewals
  <2>2. DoorOK'
    BY <1>0, <1>13, <2>1 DEF SetPassword, DoorOK
  <2>3. ASSUME NEW d \in Clients, Overtaken(d) PROVE [req[d] EXCEPT !.raced = TRUE] \in Reqs
    <3>1. CASE Step(d) = "visiting"
      BY <3>1, Shape DEF Visits
    <3>2. CASE Step(d) \in LoginSteps
      BY <3>2, Shape DEF Logins
    <3>. QED  BY <2>3, <3>1, <3>2 DEF Overtaken
  <2>4. ReqOK'
    BY <1>0, <1>13, <2>3 DEF SetPassword, ReqOK
  <2>. QED  BY <1>00, <1>b, <1>c, <1>13, <2>2, <2>4 DEF SetPassword
<1>14. ASSUME Restart PROVE TypeOK'
  <2>1. file' \in Passwords \cup {None} /\ trouble' \in BOOLEAN
    <3>1. CASE UNCHANGED <<file, trouble>>
      BY <1>0, <3>1 DEF DoorOK, PastOK
    <3>2. ASSUME NEW c \in Clients, Step(c) = "checked", file' \in {None, req[c].new},
                 trouble' = TRUE
          PROVE  file' \in Passwords \cup {None} /\ trouble' \in BOOLEAN
      BY <3>2, Shape DEF Renewals
    <3>. QED  BY <1>14, <3>1, <3>2 DEF Restart
  <2>4. Loaded(file') \in Passwords
    BY <2>1 DEF Loaded, Blank, AdminAssumptions
  <2>2. DoorOK'
    BY <1>14, <2>1, <2>4 DEF Restart, DoorOK
  <2>3. LimitOK' /\ ReqOK' /\ PastOK'
    BY <1>0, <1>14, <2>1 DEF Restart, LimitOK, ReqOK, PastOK
  <2>. QED  BY <1>00, <2>2, <2>3
<1>15. ASSUME Tick PROVE TypeOK'
  <2>1. PastOK'
    BY <1>0, <1>15 DEF Tick, PastOK, AdminAssumptions
  <2>2. ReqOK'
    BY <1>0, <1>15 DEF Tick, ReqOK
  <2>. QED  BY <1>00, <1>a, <1>b, <1>15, <2>1, <2>2 DEF Tick
<1>16. ASSUME UNCHANGED vars PROVE TypeOK'
  BY <1>0, <1>a, <1>b, <1>c, <1>00, <1>16 DEF vars, ReqOK
<1>. QED
  BY <1>1, <1>2, <1>3, <1>4, <1>5, <1>6, <1>7, <1>8, <1>9, <1>10, <1>11, <1>12, <1>13, <1>14,
     <1>15, <1>16 DEF Next

-----------------------------------------------------------------------------
(***************************************************************************)
(* The inductive invariant.  A session, and a request that has been found  *)
(* right or let in, shows the password in force, or was overtaken by a     *)
(* change.  The file is ahead of the password from the write of a change   *)
(* to its end, and while changes do not overlap there is one such change.  *)
(* An entry of the limit counts what it let in: the failures so far and    *)
(* the logins under way that will still count within its window stay under *)
(* the bound, because a full entry is locked for as long as its window     *)
(* lasts.                                                                  *)
(***************************************************************************)
Shows(c) ==
    /\ sessions[c] # None => sessions[c].pass = password \/ sessions[c].raced
    /\ Step(c) \in {"right", "cleared", "visiting"} =>
         req[c].pass = password \/ req[c].raced
AllShow == \A c \in Clients : Shows(c)

OneChange ==
    ~overlapped => \A c \in Clients, d \in Clients : UnderWay(c) /\ UnderWay(d) => c = d
FileAhead ==
    ~overlapped /\ ~trouble =>
      /\ \A c \in Clients : Step(c) = "saved" => file = req[c].new
      /\ (\A c \in Clients : Step(c) # "saved") => Loaded(file) = Loaded(password)

Pending(a, t) ==
    {c \in Clients : Step(c) \in {"asked", "wrong"} /\ req[c].from = a /\ req[c].at - t < Window}
Full(e)    == e.failures >= Limit => e.until >= e.start + Window
Counted(a) ==
    attempts[a] # None /\ ~attempts[a].late =>
      /\ Full(attempts[a])
      /\ attempts[a].failures + Cardinality(Pending(a, attempts[a].start))
           < Limit + Cardinality(Clients)
AllCounted == \A a \in Addresses : Counted(a)

\* What was counted is what is on record.
Tallied == \A a \in Addresses :
    wrong[a] = IF attempts[a] = None THEN 0 ELSE attempts[a].failures

AdminInv == TypeOK /\ AllShow /\ OneChange /\ FileAhead /\ AllCounted /\ Tallied

-----------------------------------------------------------------------------
\* Whoever shows the password in force goes on doing so, or was overtaken.
LEMMA NextShow ==
  ASSUME AdminAssumptions, TypeOK, AllShow, [Next]_vars
  PROVE  AllShow'
<1>a. ASSUME UNCHANGED <<password, sessions>>,
             \A d \in Clients : req'[d] = req[d] \/ req'[d].step \notin {"right", "cleared", "visiting"}
      PROVE  AllShow'
  BY <1>a DEF AllShow, Shows, Step
<1>b. ASSUME NEW c \in Clients, Goto(c, Idle), UNCHANGED <<password, sessions>> PROVE AllShow'
  BY <1>a, <1>b, GotoType DEF Idle
<1>c. ASSUME NEW c \in Clients, UNCHANGED <<password, sessions>>, Step(c) \in {"right", "cleared"},
             NEW s \in LoginSteps, req' = [req EXCEPT ![c].step = s]
      PROVE  AllShow'
  <2>1. /\ \A d \in Clients : d # c => req'[d] = req[d]
        /\ req'[c].pass = req[c].pass /\ req'[c].raced = req[c].raced
    BY <1>c, StepLogin, Shape DEF LoginSteps, Logins
  <2>. QED  BY <1>c, <2>1 DEF AllShow, Shows, Step
<1>1. ASSUME NEW c \in Clients, NEW a \in Addresses, AskLogin(c, a) PROVE AllShow'
  <2>1. PICK p \in Passwords : Goto(c, Login("asked", p, a, clock, FALSE))
    BY <1>1 DEF AskLogin
  <2>2. req'[c] = Login("asked", p, a, clock, FALSE) /\ \A d \in Clients : d # c => req'[d] = req[d]
    BY <2>1 DEF TypeOK, Goto
  <2>3. req'[c].step = "asked"
    BY <2>2 DEF Login
  <2>. QED  BY <1>a, <1>1, <2>2, <2>3 DEF AskLogin, door
<1>2. ASSUME NEW c \in Clients, Compare(c) PROVE AllShow'
  <2>1. UNCHANGED <<password, sessions>> /\ Step(c) \in LoginSteps
    BY <1>2 DEF Compare, door, LoginSteps
  <2>2. CASE req[c].pass = password
    <3>1. req' = [req EXCEPT ![c].step = "right"]
      BY <1>2, <2>2 DEF Compare, Step
    <3>2. /\ \A d \in Clients : d # c => req'[d] = req[d]
          /\ req'[c].pass = password
      BY <2>1, <2>2, <3>1, StepLogin, Shape DEF LoginSteps, Logins
    <3>. QED  BY <1>2, <2>1, <3>2 DEF AllShow, Shows, Step, Compare
  <2>3. CASE req[c].pass # password
    <3>1. req' = [req EXCEPT ![c].step = "wrong"]
      BY <1>2, <2>3 DEF Compare, Step
    <3>2. /\ \A d \in Clients : d # c => req'[d] = req[d]
          /\ req'[c].step = "wrong"
      BY <2>1, <3>1, StepLogin, Shape DEF LoginSteps, Logins
    <3>. QED  BY <1>a, <2>1, <3>2
  <2>. QED  BY <2>2, <2>3
<1>3. ASSUME NEW c \in Clients, RecordFailure(c) PROVE AllShow'
  BY <1>b, <1>3 DEF RecordFailure, door
<1>4. ASSUME NEW c \in Clients, ClearFailures(c) PROVE AllShow'
  BY <1>c, <1>4 DEF ClearFailures, door, LoginSteps
<1>5. ASSUME NEW c \in Clients, AddSession(c) PROVE AllShow'
  <2>1. Goto(c, Idle) /\ password' = password
        /\ sessions' = [sessions EXCEPT ![c] =
                          [pass |-> req[c].pass, raced |-> req[c].raced, expired |-> FALSE]]
    BY <1>5 DEF AddSession
  <2>2. /\ req'[c].step = "idle" /\ \A d \in Clients : d # c => req'[d] = req[d]
        /\ sessions'[c].pass = req[c].pass /\ sessions'[c].raced = req[c].raced
        /\ \A d \in Clients : d # c => sessions'[d] = sessions[d]
    BY <2>1, GotoType DEF Idle, TypeOK
  <2>3. req[c].pass = password \/ req[c].raced
    BY <1>5 DEF AddSession, AllShow, Shows
  <2>. QED  BY <2>1, <2>2, <2>3 DEF AllShow, Shows, Step
<1>6. ASSUME NEW c \in Clients, Visit(c) PROVE AllShow'
  <2>1. password' = password
        /\ sessions' = [sessions EXCEPT ![c] = IF ValidSession(c) THEN @ ELSE None]
    BY <1>6 DEF Visit, Shown
  <2>2. \A d \in Clients : sessions'[d] # None => sessions'[d] = sessions[d]
    BY <2>1 DEF TypeOK
  <2>3. CASE ValidSession(c)
    <3>1. /\ req'[c] = Visiting(sessions[c]) /\ \A d \in Clients : d # c => req'[d] = req[d]
          /\ sessions[c] # None
      BY <1>6, <2>3 DEF Visit, Goto, TypeOK, ValidSession
    <3>2. req'[c].pass = sessions[c].pass /\ req'[c].raced = sessions[c].raced
      BY <3>1 DEF Visiting
    <3>. QED  BY <2>1, <2>2, <3>1, <3>2 DEF AllShow, Shows, Step
  <2>4. CASE ~ValidSession(c)
    BY <1>6, <2>1, <2>2, <2>4 DEF Visit, AllShow, Shows, Step
  <2>. QED  BY <2>3, <2>4
<1>7. ASSUME NEW c \in Clients, EndVisit(c) PROVE AllShow'
  BY <1>b, <1>7 DEF EndVisit, door
<1>8. ASSUME NEW c \in Clients, Logout(c) \/ Expire(c) PROVE AllShow'
  <2>1. \A d \in Clients : sessions'[d] # None =>
          /\ sessions[d] # None
          /\ sessions'[d].pass = sessions[d].pass /\ sessions'[d].raced = sessions[d].raced
    BY <1>8 DEF TypeOK, Logout, Expire, ValidSession, Session
  <2>. QED  BY <1>8, <2>1 DEF Logout, Expire, AllShow, Shows, Step
<1>9. ASSUME NEW c \in Clients, AskChange(c) PROVE AllShow'
  <2>1. PICK p \in Passwords, new \in Passwords \ {Default} : Goto(c, Change("changing", p, new))
    BY <1>9 DEF AskChange
  <2>2. req'[c] = Change("changing", p, new) /\ \A d \in Clients : d # c => req'[d] = req[d]
    BY <2>1 DEF TypeOK, Goto
  <2>3. req'[c].step = "changing"
    BY <2>2 DEF Change
  <2>. QED  BY <1>a, <1>9, <2>2, <2>3 DEF AskChange, door
<1>10. ASSUME NEW c \in Clients, CheckCurrent(c) PROVE AllShow'
  <2>1. CASE req[c].pass = password
    <3>0. Step(c) = "changing" /\ req' = [req EXCEPT ![c].step = "checked"]
      BY <1>10, <2>1 DEF CheckCurrent
    <3>1. req'[c].step = "checked" /\ \A d \in Clients : d # c => req'[d] = req[d]
      BY <3>0, StepRenewal, Shape DEF Renewals
    <3>. QED  BY <1>a, <1>10, <3>1 DEF CheckCurrent, door
  <2>2. CASE req[c].pass # password
    BY <1>b, <1>10, <2>2 DEF CheckCurrent, door
  <2>. QED  BY <2>1, <2>2
<1>11. ASSUME NEW c \in Clients, Save(c) PROVE AllShow'
  <2>1. req'[c].step = "saved" /\ \A d \in Clients : d # c => req'[d] = req[d]
    BY <1>11, StepRenewal, Shape DEF Save, Renewals
  <2>. QED  BY <1>a, <1>11, <2>1 DEF Save
<1>12. ASSUME NEW c \in Clients, SaveFails(c) PROVE AllShow'
  BY <1>b, <1>12 DEF SaveFails
<1>13. ASSUME NEW c \in Clients, SetPassword(c) PROVE AllShow'
  <2>. SUFFICES ASSUME NEW d \in Clients PROVE Shows(d)'
    BY DEF AllShow
  <2>1. sessions'[d] = None
    BY <1>13 DEF SetPassword
  <2>2. /\ req' \in [Clients -> {Idle} \cup Visits \cup Logins \cup Renewals]
        /\ req'[d] = IF d = c THEN Idle
                      ELSE IF Overtaken(d) THEN [req[d] EXCEPT !.raced = TRUE] ELSE req[d]
    BY <1>13, NextAdminTyped DEF SetPassword, TypeOK
  <2>3. CASE d = c
    BY <2>1, <2>2, <2>3 DEF Shows, Step, Idle
  <2>4. CASE d # c /\ Overtaken(d)
    <3>1. req'[d].raced
      BY <2>2, <2>4, Shape DEF Overtaken, Visits, Logins
    <3>. QED  BY <2>1, <3>1 DEF Shows
  <2>5. CASE d # c /\ ~Overtaken(d)
    BY <2>1, <2>2, <2>5 DEF Shows, Step, Overtaken, LoginSteps
  <2>. QED  BY <2>3, <2>4, <2>5
<1>14. ASSUME Restart PROVE AllShow'
  BY <1>14 DEF Restart, AllShow, Shows, Step, Idle
<1>15. ASSUME Tick PROVE AllShow'
  BY <1>a, <1>15 DEF Tick, door
<1>16. ASSUME UNCHANGED vars PROVE AllShow'
  BY <1>a, <1>16 DEF vars, door
<1>. QED
  BY <1>1, <1>2, <1>3, <1>4, <1>5, <1>6, <1>7, <1>8, <1>9, <1>10, <1>11, <1>12, <1>13, <1>14,
     <1>15, <1>16 DEF Next

\* One change at a time writes the file and then the password, and nothing else moves
\* either of them; where that is not so, it is on record.
LEMMA NextFile ==
  ASSUME AdminAssumptions, TypeOK, OneChange, FileAhead, [Next]_vars
  PROVE  OneChange' /\ FileAhead'
<1>a. ASSUME UNCHANGED <<password, file, overlapped, trouble>>,
             \A d \in Clients : \/ req'[d] = req[d]
                               \/ /\ Step(d) # "saved"
                                  /\ req'[d].step \notin {"checked", "saved"}
      PROVE  OneChange' /\ FileAhead'
  <2>1. \A d \in Clients : /\ UnderWay(d)' => UnderWay(d)
                           /\ Step(d)' = "saved" => Step(d) = "saved" /\ req'[d] = req[d]
                           /\ Step(d) = "saved" => Step(d)' = "saved"
    BY <1>a DEF UnderWay, Step
  <2>. QED  BY <1>a, <2>1 DEF OneChange, FileAhead
<1>b. ASSUME NEW c \in Clients, NEW r \in {Idle} \cup Visits \cup Logins \cup Renewals,
             r.step \notin {"checked", "saved"}, Goto(c, r), Step(c) # "saved",
             UNCHANGED <<password, file, overlapped, trouble>>
      PROVE  OneChange' /\ FileAhead'
  BY <1>a, <1>b, GotoType
<1>c. ASSUME NEW c \in Clients, Step(c) \in LoginSteps, NEW s \in LoginSteps,
             req' = [req EXCEPT ![c].step = s],
             UNCHANGED <<password, file, overlapped, trouble>>
      PROVE  OneChange' /\ FileAhead'
  <2>1. req'[c].step = s /\ \A d \in Clients : d # c => req'[d] = req[d]
    BY <1>c, StepLogin, Shape DEF Logins
  <2>. QED  BY <1>a, <1>c, <2>1 DEF LoginSteps
<1>1. ASSUME NEW c \in Clients, NEW a \in Addresses, AskLogin(c, a) PROVE OneChange' /\ FileAhead'
  <2>1. PICK p \in Passwords : Goto(c, Login("asked", p, a, clock, FALSE))
    BY <1>1 DEF AskLogin
  <2>2. Login("asked", p, a, clock, FALSE) \in Logins
        /\ Login("asked", p, a, clock, FALSE).step = "asked"
    BY DEF Login, Logins, LoginSteps, TypeOK
  <2>. QED  BY <1>b, <1>1, <2>1, <2>2 DEF AskLogin, door, past
<1>2. ASSUME NEW c \in Clients, Compare(c) PROVE OneChange' /\ FileAhead'
  <2>1. Step(c) \in LoginSteps
    BY <1>2 DEF Compare, LoginSteps
  <2>2. PICK s \in LoginSteps : req' = [req EXCEPT ![c].step = s]
    BY <1>2 DEF Compare, LoginSteps
  <2>. QED  BY <1>c, <1>2, <2>1, <2>2 DEF Compare, door, past
<1>3. ASSUME NEW c \in Clients, RecordFailure(c) PROVE OneChange' /\ FileAhead'
  BY <1>b, <1>3 DEF RecordFailure, door, past, Idle
<1>4. ASSUME NEW c \in Clients, ClearFailures(c) PROVE OneChange' /\ FileAhead'
  BY <1>c, <1>4 DEF ClearFailures, door, past, LoginSteps
<1>5. ASSUME NEW c \in Clients, AddSession(c) PROVE OneChange' /\ FileAhead'
  BY <1>b, <1>5 DEF AddSession, past, Idle
<1>6. ASSUME NEW c \in Clients, Visit(c) PROVE OneChange' /\ FileAhead'
  <2>1. CASE ValidSession(c)
    <3>1. Visiting(sessions[c]) \in Visits /\ Visiting(sessions[c]).step = "visiting"
      BY <2>1 DEF ValidSession, Visiting, Visits, TypeOK, Session
    <3>. QED  BY <1>b, <1>6, <2>1, <3>1 DEF Visit, past
  <2>2. CASE ~ValidSession(c)
    BY <1>a, <1>6, <2>2 DEF Visit, past
  <2>. QED  BY <2>1, <2>2
<1>7. ASSUME NEW c \in Clients, EndVisit(c) PROVE OneChange' /\ FileAhead'
  BY <1>b, <1>7 DEF EndVisit, door, past, Idle
<1>8. ASSUME NEW c \in Clients, Logout(c) \/ Expire(c) PROVE OneChange' /\ FileAhead'
  BY <1>a, <1>8 DEF Logout, Expire, past
<1>9. ASSUME NEW c \in Clients, AskChange(c) PROVE OneChange' /\ FileAhead'
  <2>1. PICK p \in Passwords, new \in Passwords \ {Default} : Goto(c, Change("changing", p, new))
    BY <1>9 DEF AskChange
  <2>2. Change("changing", p, new) \in Renewals /\ Change("changing", p, new).step = "changing"
    BY DEF Change, Renewals
  <2>. QED  BY <1>b, <1>9, <2>1, <2>2 DEF AskChange, door
<1>10. ASSUME NEW c \in Clients, CheckCurrent(c) PROVE OneChange' /\ FileAhead'
  <2>1. CASE req[c].pass = password
    <3>1. /\ Step(c) = "changing" /\ req' = [req EXCEPT ![c].step = "checked"]
          /\ UNCHANGED <<password, file, trouble>>
          /\ overlapped' = (overlapped \/ \E d \in Clients \ {c} : UnderWay(d))
      BY <1>10, <2>1 DEF CheckCurrent, door
    <3>2. req'[c].step = "checked" /\ \A d \in Clients : d # c => req'[d] = req[d]
      BY <3>1, StepRenewal, Shape DEF Renewals
    <3>3. OneChange'
      BY <3>1, <3>2 DEF OneChange, UnderWay, Step
    <3>4. FileAhead'
      BY <3>1, <3>2 DEF FileAhead, Step
    <3>. QED  BY <3>3, <3>4
  <2>2. CASE req[c].pass # password
    BY <1>b, <1>10, <2>2 DEF CheckCurrent, door, Idle
  <2>. QED  BY <2>1, <2>2
<1>11. ASSUME NEW c \in Clients, Save(c) PROVE OneChange' /\ FileAhead'
  <2>1. /\ Step(c) = "checked" /\ req' = [req EXCEPT ![c].step = "saved"] /\ file' = req[c].new
        /\ UNCHANGED <<password, overlapped, trouble>>
    BY <1>11 DEF Save, past
  <2>2. /\ req'[c].step = "saved" /\ req'[c].new = req[c].new
        /\ \A d \in Clients : d # c => req'[d] = req[d]
    BY <2>1, StepRenewal, Shape DEF Renewals
  <2>3. OneChange'
    BY <2>1, <2>2 DEF OneChange, UnderWay, Step
  <2>4. FileAhead'
    BY <2>1, <2>2 DEF OneChange, UnderWay, FileAhead, Step
  <2>. QED  BY <2>3, <2>4
<1>12. ASSUME NEW c \in Clients, SaveFails(c) PROVE OneChange' /\ FileAhead'
  <2>1. /\ req'[c].step = "idle" /\ \A d \in Clients : d # c => req'[d] = req[d]
        /\ trouble' = TRUE /\ overlapped' = overlapped
    BY <1>12, GotoType DEF SaveFails, Idle
  <2>. QED  BY <2>1 DEF OneChange, UnderWay, FileAhead, Step
<1>13. ASSUME NEW c \in Clients, SetPassword(c) PROVE OneChange' /\ FileAhead'
  <2>1. /\ Step(c) = "saved" /\ password' = req[c].new /\ UNCHANGED <<file, overlapped, trouble>>
        /\ req' = [d \in Clients |-> IF d = c THEN Idle
                      ELSE IF Overtaken(d) THEN [req[d] EXCEPT !.raced = TRUE] ELSE req[d]]
    BY <1>13 DEF SetPassword, past
  <2>2. ASSUME NEW d \in Clients
        PROVE  /\ d # c /\ ~Overtaken(d) => req'[d] = req[d]
               /\ d = c => req'[d].step = "idle"
               /\ d # c /\ Overtaken(d) => req'[d].step = req[d].step
    BY <2>1, Shape DEF Idle, Overtaken, Visits, Logins
  <2>3. \A d \in Clients : UnderWay(d)' => UnderWay(d) /\ d # c
    BY <2>2 DEF UnderWay, Step, Overtaken, LoginSteps
  <2>4. OneChange'
    BY <2>1, <2>3 DEF OneChange
  <2>5. ASSUME ~overlapped', ~trouble'
        PROVE  /\ \A d \in Clients : ~UnderWay(d)'
               /\ Loaded(file') = Loaded(password')
    <3>1. file = req[c].new /\ \A d \in Clients : UnderWay(d) => d = c
      BY <2>1, <2>5 DEF OneChange, FileAhead, UnderWay
    <3>. QED  BY <2>1, <2>3, <3>1
  <2>6. FileAhead'
    BY <2>5 DEF FileAhead, UnderWay
  <2>. QED  BY <2>4, <2>6
<1>14. ASSUME Restart PROVE OneChange' /\ FileAhead'
  <2>1. file' \in Passwords \cup {None} /\ password' = Loaded(file')
    BY <1>14, NextAdminTyped DEF Restart, TypeOK
  <2>2. Loaded(password') = Loaded(file')
    BY <2>1 DEF Loaded, Blank, AdminAssumptions
  <2>3. \A c \in Clients : req'[c].step = "idle"
    BY <1>14 DEF Restart, Idle
  <2>. QED  BY <2>2, <2>3 DEF OneChange, FileAhead, UnderWay, Step
<1>15. ASSUME Tick PROVE OneChange' /\ FileAhead'
  BY <1>a, <1>15 DEF Tick, door
<1>16. ASSUME UNCHANGED vars PROVE OneChange' /\ FileAhead'
  BY <1>a, <1>16 DEF vars, door, past
<1>. QED
  BY <1>1, <1>2, <1>3, <1>4, <1>5, <1>6, <1>7, <1>8, <1>9, <1>10, <1>11, <1>12, <1>13, <1>14,
     <1>15, <1>16 DEF Next

-----------------------------------------------------------------------------
\* The logins that may still count are some of the clients.
LEMMA PendingFinite ==
  ASSUME AdminAssumptions, NEW S \in SUBSET Clients
  PROVE  /\ IsFiniteSet(S) /\ Cardinality(S) \in Nat /\ Cardinality(S) <= Cardinality(Clients)
         /\ Cardinality(Clients) \in Nat
         /\ \A c \in Clients \ S : Cardinality(S) < Cardinality(Clients)
         /\ \A R \in SUBSET S : Cardinality(R) <= Cardinality(S)
         /\ \A R \in SUBSET S : \A c \in S \ R : Cardinality(R) < Cardinality(S)
<1>1. IsFiniteSet(Clients)
  BY DEF AdminAssumptions
<1>2. IsFiniteSet(S) /\ Cardinality(S) <= Cardinality(Clients)
  BY <1>1, FS_Subset
<1>3. Cardinality(S) \in Nat /\ Cardinality(Clients) \in Nat
  BY <1>1, <1>2, FS_CardinalityType
<1>4. \A c \in Clients \ S : Cardinality(S) < Cardinality(Clients)
  <2>1. Cardinality(Clients) = Cardinality(S) => Clients = S
    BY <1>1, FS_Subset
  <2>. QED  BY <1>2, <1>3, <2>1
<1>5. \A R \in SUBSET S : Cardinality(R) <= Cardinality(S)
  BY <1>2, FS_Subset
<1>6. ASSUME NEW R \in SUBSET S, NEW c \in S \ R PROVE Cardinality(R) < Cardinality(S)
  <2>1. Cardinality(S) = Cardinality(R) => S = R
    BY <1>2, FS_Subset
  <2>2. IsFiniteSet(R) /\ Cardinality(R) <= Cardinality(S)
    BY <1>2, FS_Subset
  <2>3. Cardinality(R) \in Nat
    BY <2>2, FS_CardinalityType
  <2>. QED  BY <1>3, <2>1, <2>2, <2>3
<1>. QED  BY <1>2, <1>3, <1>4, <1>5, <1>6

\* An address whose entry stands still, while no login from it is added.
LEMMA CountedKept ==
  ASSUME AdminAssumptions, TypeOK, NEW b \in Addresses, Counted(b), attempts'[b] = attempts[b],
         \A d \in Clients : req'[d].step \in {"asked", "wrong"} /\ req'[d].from = b =>
           Step(d) \in {"asked", "wrong"} /\ req'[d].from = req[d].from /\ req'[d].at = req[d].at
  PROVE  Counted(b)'
<1>. DEFINE e == attempts[b]
            P == Pending(b, e.start)
            Q == {d \in Clients : /\ req'[d].step \in {"asked", "wrong"} /\ req'[d].from = b
                                 /\ req'[d].at - e.start < Window}
<1>1. Counted(b)' <=> (e # None /\ ~e.late =>
                         Full(e) /\ e.failures + Cardinality(Q) < Limit + Cardinality(Clients))
  BY DEF Counted, Full, Pending, Step
<1>2. SUFFICES ASSUME e # None, ~e.late
               PROVE  Full(e) /\ e.failures + Cardinality(Q) < Limit + Cardinality(Clients)
  BY <1>1
<1>3. Full(e) /\ e.failures + Cardinality(P) < Limit + Cardinality(Clients)
  BY <1>2 DEF Counted
<1>4. Q \subseteq P /\ P \subseteq Clients
  BY DEF Pending, Step
<1>5. e.failures \in Nat /\ Limit \in Nat
  BY <1>2 DEF TypeOK, Attempt, AdminAssumptions
<1>. HIDE DEF e, P, Q
<1>6. Cardinality(Q) \in Nat /\ Cardinality(P) \in Nat /\ Cardinality(Q) <= Cardinality(P)
      /\ Cardinality(Clients) \in Nat
  BY <1>4, PendingFinite
<1>. QED  BY <1>3, <1>5, <1>6

\* An address that starts a window, or that may still be tried in one.
LEMMA CountedRoom ==
  ASSUME AdminAssumptions, NEW b \in Addresses, NEW e \in Attempt, attempts'[b] = e,
         Full(e), e.failures < Limit \/ (e.failures = 1 /\ \E c \in Clients : req'[c].step = "idle")
  PROVE  Counted(b)'
<1>. DEFINE Q == {d \in Clients : /\ req'[d].step \in {"asked", "wrong"} /\ req'[d].from = b
                                 /\ req'[d].at - e.start < Window}
<1>1. Full(e) /\ e.failures + Cardinality(Q) < Limit + Cardinality(Clients) => Counted(b)'
  BY DEF Counted, Full, Pending, Step
<1>2. Q \subseteq Clients /\ e.failures \in Nat /\ Limit \in Nat /\ Limit >= 1
  BY DEF Attempt, AdminAssumptions
<1>3. (\E c \in Clients : req'[c].step = "idle") => \E c \in Clients : c \notin Q
  OBVIOUS
<1>. HIDE DEF Q
<1>4. /\ Cardinality(Q) \in Nat /\ Cardinality(Clients) \in Nat
      /\ Cardinality(Q) <= Cardinality(Clients)
      /\ (\E c \in Clients : c \notin Q) => Cardinality(Q) < Cardinality(Clients)
  BY <1>2, PendingFinite
<1>. QED  BY <1>1, <1>2, <1>3, <1>4

\* The failure of a login that was let in within the window: it leaves the logins
\* under way for the count.
LEMMA CountedFailure ==
  ASSUME AdminAssumptions, TypeOK, NEW c \in Clients, Step(c) = "wrong", Goto(c, Idle),
         NEW b \in Addresses, req[c].from = b, Counted(b), attempts[b] # None,
         Recent(attempts[b], req[c].at), attempts'[b] = Failed(attempts[b], req[c].at)
  PROVE  Counted(b)'
<1>. DEFINE e == attempts[b]
            t == req[c].at
            f == attempts'[b]
            P == Pending(b, e.start)
            Q == {d \in Clients : /\ req'[d].step \in {"asked", "wrong"} /\ req'[d].from = b
                                 /\ req'[d].at - e.start < Window}
<1>1. e \in Attempt /\ t \in 0..MaxClock
  BY Shape DEF TypeOK, LoginSteps, Logins
<1>2. /\ f.failures = e.failures + 1 /\ f.start = e.start
      /\ f.until = IF f.failures >= Limit THEN t + Window ELSE e.until
      /\ f.late = (e.late \/ t < e.start)
  BY DEF Failed
<1>3. Counted(b)' <=> (f # None /\ ~f.late =>
                         Full(f) /\ f.failures + Cardinality(Q) < Limit + Cardinality(Clients))
  BY <1>2 DEF Counted, Full, Pending, Step
<1>4. SUFFICES ASSUME ~f.late
               PROVE  Full(f) /\ f.failures + Cardinality(Q) < Limit + Cardinality(Clients)
  BY <1>3
<1>5. ~e.late /\ t >= e.start /\ e.failures + Cardinality(P) < Limit + Cardinality(Clients)
  <2>1. ~e.late /\ ~(t < e.start)
    BY <1>2, <1>4, Zenon
  <2>2. t >= e.start
    BY <1>1, <2>1 DEF Attempt
  <2>. QED  BY <2>1, <2>2 DEF Counted
<1>6. Full(f)
  BY <1>1, <1>2, <1>5 DEF Full, Attempt, AdminAssumptions
<1>7. Q \subseteq P /\ P \subseteq Clients /\ c \in P \ Q
  <2>1. req'[c].step = "idle" /\ \A d \in Clients : d # c => req'[d] = req[d]
    BY GotoType DEF Idle
  <2>2. c \in P
    BY <1>1 DEF Pending, Recent
  <2>. QED  BY <2>1, <2>2 DEF Pending, Step
<1>8. f.failures = e.failures + 1 /\ e.failures \in Nat /\ Limit \in Nat
  BY <1>1, <1>2 DEF Attempt, AdminAssumptions
<1>. HIDE DEF e, f, t, P, Q
<1>9. Cardinality(Q) \in Nat /\ Cardinality(P) \in Nat /\ Cardinality(Q) < Cardinality(P)
      /\ Cardinality(Clients) \in Nat
  BY <1>7, PendingFinite
<1>. QED  BY <1>5, <1>6, <1>8, <1>9

LEMMA NextCounted ==
  ASSUME AdminAssumptions, TypeOK, AllCounted, [Next]_vars
  PROVE  AllCounted'
<1>a. ASSUME UNCHANGED attempts,
             \A d \in Clients : \/ req'[d] = req[d]
                               \/ req'[d].step \notin {"asked", "wrong"}
                               \/ /\ Step(d) \in {"asked", "wrong"}
                                  /\ req'[d].from = req[d].from /\ req'[d].at = req[d].at
      PROVE  AllCounted'
  BY <1>a, CountedKept DEF AllCounted, Step
<1>b. ASSUME NEW c \in Clients, NEW r \in {Idle} \cup Visits \cup Logins \cup Renewals, Goto(c, r),
             r.step \notin {"asked", "wrong"}, UNCHANGED attempts
      PROVE  AllCounted'
  BY <1>a, <1>b, GotoType
<1>1. ASSUME NEW c \in Clients, NEW a \in Addresses, AskLogin(c, a) PROVE AllCounted'
  <2>1. PICK p \in Passwords : Goto(c, Login("asked", p, a, clock, FALSE))
    BY <1>1 DEF AskLogin
  <2>2. /\ req'[c] = Login("asked", p, a, clock, FALSE)
        /\ \A d \in Clients : d # c => req'[d] = req[d]
    BY <2>1 DEF TypeOK, Goto
  <2>3. attempts' = [attempts EXCEPT ![a] = IF Recent(@, clock) THEN @ ELSE None]
        /\ ~Locked(attempts[a], clock)
    BY <1>1 DEF AskLogin, Forget
  <2>. SUFFICES ASSUME NEW b \in Addresses PROVE Counted(b)'
    BY DEF AllCounted
  <2>4. CASE b # a
    <3>1. attempts'[b] = attempts[b] /\ req'[c].from # b
      BY <2>2, <2>3, <2>4 DEF TypeOK, Login
    <3>. QED  BY <2>2, <3>1, CountedKept DEF AllCounted, Step
  <2>5. CASE b = a /\ ~Recent(attempts[a], clock)
    BY <2>3, <2>5 DEF Counted, TypeOK
  <2>6. CASE b = a /\ Recent(attempts[a], clock) /\ ~attempts[a].late
    <3>1. attempts[a] \in Attempt /\ attempts'[a] = attempts[a] /\ Full(attempts[a])
      BY <2>3, <2>6 DEF TypeOK, Recent, AllCounted, Counted
    <3>2. attempts[a].failures < Limit
      BY <2>3, <2>6, <3>1 DEF Full, Recent, Locked, Attempt, TypeOK, AdminAssumptions
    <3>. QED  BY <2>6, <3>1, <3>2, CountedRoom
  <2>7. CASE b = a /\ Recent(attempts[a], clock) /\ attempts[a].late
    BY <2>3, <2>7 DEF Counted, TypeOK
  <2>. QED  BY <2>4, <2>5, <2>6, <2>7
<1>2. ASSUME NEW c \in Clients, Compare(c) PROVE AllCounted'
  <2>1. Step(c) = "asked" /\ UNCHANGED attempts
    BY <1>2 DEF Compare, limit
  <2>2. PICK s \in LoginSteps : req' = [req EXCEPT ![c].step = s]
    BY <1>2 DEF Compare, LoginSteps
  <2>3. /\ req'[c].from = req[c].from /\ req'[c].at = req[c].at
        /\ \A d \in Clients : d # c => req'[d] = req[d]
    BY <2>1, <2>2, StepLogin, Shape DEF LoginSteps, Logins
  <2>. QED  BY <1>a, <2>1, <2>3
<1>3. ASSUME NEW c \in Clients, RecordFailure(c) PROVE AllCounted'
  <2>. DEFINE a == req[c].from
              t == req[c].at
              m == Room(a, t)
  <2>1. Step(c) = "wrong" /\ Goto(c, Idle) /\ a \in Addresses /\ t \in 0..MaxClock
    BY <1>3, Shape DEF RecordFailure, LoginSteps, Logins
  <2>2. req'[c].step = "idle" /\ \A d \in Clients : d # c => req'[d] = req[d]
    BY <2>1, GotoType DEF Idle
  <2>3. attempts' \in {m, [m EXCEPT ![a] = Failed(m[a], t)]}
    BY <1>3 DEF RecordFailure
  <2>4. /\ m \in [Addresses -> Attempt \cup {None}]
        /\ \A b \in Addresses : m[b] \in {attempts[b], None}
    BY <2>1, RoomType
  <2>. HIDE DEF a, t, m
  <2>. SUFFICES ASSUME NEW b \in Addresses PROVE Counted(b)'
    BY DEF AllCounted
  <2>5. ASSUME attempts'[b] = m[b] PROVE Counted(b)'
    <3>1. CASE m[b] = attempts[b]
      BY <2>2, <2>5, <3>1, CountedKept DEF AllCounted, Step
    <3>2. CASE m[b] = None
      BY <2>5, <3>2 DEF Counted
    <3>. QED  BY <2>4, <3>1, <3>2
  <2>6. ASSUME b = a, attempts'[b] = Failed(m[b], t), ~Recent(m[b], t) PROVE Counted(b)'
    <3>1. /\ attempts'[b] \in Attempt /\ attempts'[b].failures = 1 /\ attempts'[b].start = t
          /\ attempts'[b].failures >= Limit => attempts'[b].until = t + Window
      BY <2>1, <2>4, <2>6, FailedType DEF Failed
    <3>2. \A e \in Attempt : attempts'[b] = e =>
            /\ Full(e)
            /\ e.failures < Limit \/ (e.failures = 1 /\ \E d \in Clients : req'[d].step = "idle")
      BY <2>1, <2>2, <3>1 DEF Full, AdminAssumptions
    <3>. QED  BY <3>1, <3>2, CountedRoom
  <2>7. ASSUME b = a, attempts'[b] = Failed(m[b], t), Recent(m[b], t) PROVE Counted(b)'
    <3>1. m[b] = attempts[b] /\ attempts[b] # None
      BY <2>4, <2>7 DEF Recent
    <3>. QED  BY <2>1, <2>7, <3>1, CountedFailure DEF AllCounted, a, t
  <2>8. attempts'[b] = m[b] \/ (b = a /\ attempts'[b] = Failed(m[b], t))
    BY <2>1, <2>3, <2>4
  <2>. QED  BY <2>5, <2>6, <2>7, <2>8
<1>4. ASSUME NEW c \in Clients, ClearFailures(c) PROVE AllCounted'
  <2>1. Step(c) = "right" /\ req' = [req EXCEPT ![c].step = "cleared"]
        /\ attempts' = [attempts EXCEPT ![req[c].from] = None]
    BY <1>4 DEF ClearFailures
  <2>2. req'[c].step = "cleared" /\ \A d \in Clients : d # c => req'[d] = req[d]
    BY <2>1, StepLogin, Shape DEF LoginSteps, Logins
  <2>. SUFFICES ASSUME NEW b \in Addresses PROVE Counted(b)'
    BY DEF AllCounted
  <2>3. CASE attempts'[b] = attempts[b]
    BY <2>2, <2>3, CountedKept DEF AllCounted, Step
  <2>4. CASE attempts'[b] = None
    BY <2>4 DEF Counted
  <2>. QED  BY <2>1, <2>3, <2>4 DEF TypeOK
<1>5. ASSUME NEW c \in Clients, AddSession(c) PROVE AllCounted'
  BY <1>b, <1>5 DEF AddSession, Idle, limit
<1>6. ASSUME NEW c \in Clients, Visit(c) PROVE AllCounted'
  <2>1. CASE ValidSession(c)
    <3>1. Visiting(sessions[c]) \in Visits /\ Visiting(sessions[c]).step = "visiting"
      BY <2>1 DEF ValidSession, Visiting, Visits, TypeOK, Session
    <3>. QED  BY <1>b, <1>6, <2>1, <3>1 DEF Visit, limit
  <2>2. CASE ~ValidSession(c)
    BY <1>a, <1>6, <2>2 DEF Visit, limit
  <2>. QED  BY <2>1, <2>2
<1>7. ASSUME NEW c \in Clients, EndVisit(c) PROVE AllCounted'
  BY <1>b, <1>7 DEF EndVisit, Idle, limit
<1>8. ASSUME NEW c \in Clients, Logout(c) \/ Expire(c) PROVE AllCounted'
  BY <1>a, <1>8 DEF Logout, Expire, limit
<1>9. ASSUME NEW c \in Clients, AskChange(c) PROVE AllCounted'
  <2>1. PICK p \in Passwords, new \in Passwords \ {Default} : Goto(c, Change("changing", p, new))
    BY <1>9 DEF AskChange
  <2>2. Change("changing", p, new) \in Renewals /\ Change("changing", p, new).step = "changing"
    BY DEF Change, Renewals
  <2>. QED  BY <1>b, <1>9, <2>1, <2>2 DEF AskChange, limit
<1>10. ASSUME NEW c \in Clients, CheckCurrent(c) \/ Save(c) PROVE AllCounted'
  <2>1. UNCHANGED attempts
    BY <1>10 DEF CheckCurrent, Save, limit
  <2>2. ASSUME Goto(c, Idle) PROVE AllCounted'
    BY <1>b, <2>1, <2>2 DEF Idle
  <2>3. ASSUME NEW s \in {"checked", "saved"}, req' = [req EXCEPT ![c].step = s],
               Step(c) \in {"changing", "checked", "saved"}
        PROVE  AllCounted'
    <3>1. req'[c].step = s /\ \A d \in Clients : d # c => req'[d] = req[d]
      BY <2>3, StepRenewal, Shape DEF Renewals
    <3>. QED  BY <1>a, <2>1, <3>1
  <2>. QED  BY <1>10, <2>2, <2>3 DEF CheckCurrent, Save
<1>11. ASSUME NEW c \in Clients, SaveFails(c) PROVE AllCounted'
  BY <1>b, <1>11 DEF SaveFails, Idle, limit
<1>12. ASSUME NEW c \in Clients, SetPassword(c) PROVE AllCounted'
  <2>1. UNCHANGED attempts
        /\ req' = [d \in Clients |-> IF d = c THEN Idle
                      ELSE IF Overtaken(d) THEN [req[d] EXCEPT !.raced = TRUE] ELSE req[d]]
    BY <1>12 DEF SetPassword, limit
  <2>2. ASSUME NEW d \in Clients
        PROVE  \/ req'[d] = req[d]
               \/ req'[d].step \notin {"asked", "wrong"}
               \/ /\ Step(d) \in {"asked", "wrong"}
                  /\ req'[d].from = req[d].from /\ req'[d].at = req[d].at
    <3>1. CASE d = c
      BY <2>1, <3>1 DEF Idle
    <3>2. CASE d # c /\ ~Overtaken(d)
      BY <2>1, <3>2
    <3>3. CASE d # c /\ Overtaken(d)
      <4>1. req'[d] = [req[d] EXCEPT !.raced = TRUE]
        BY <2>1, <3>3
      <4>. QED  BY <3>3, <4>1, Shape DEF Overtaken, Step, LoginSteps, Visits, Logins
    <3>. QED  BY <3>1, <3>2, <3>3
  <2>. QED  BY <1>a, <2>1, <2>2
<1>13. ASSUME Restart PROVE AllCounted'
  BY <1>13 DEF Restart, AllCounted, Counted
<1>14. ASSUME Tick \/ UNCHANGED vars PROVE AllCounted'
  BY <1>a, <1>14 DEF Tick, vars, limit
<1>. QED
  BY <1>1, <1>2, <1>3, <1>4, <1>5, <1>6, <1>7, <1>8, <1>9, <1>10, <1>11, <1>12, <1>13, <1>14
  DEF Next

\* The history counts what the entries count.
LEMMA NextTallied ==
  ASSUME AdminAssumptions, TypeOK, Tallied, [Next]_vars
  PROVE  Tallied'
<1>a. UNCHANGED limit => Tallied'
  BY DEF Tallied, limit
<1>0. attempts \in [Addresses -> Attempt \cup {None}] /\ wrong \in [Addresses -> Nat]
  BY DEF TypeOK
<1>1. ASSUME NEW c \in Clients, NEW a \in Addresses, AskLogin(c, a) PROVE Tallied'
  <2>1. /\ attempts' = [attempts EXCEPT ![a] = IF Recent(@, clock) THEN @ ELSE None]
        /\ wrong' = [wrong EXCEPT ![a] = IF Recent(attempts[a], clock) THEN @ ELSE 0]
    BY <1>1 DEF AskLogin, Forget
  <2>. QED  BY <1>0, <2>1 DEF Tallied
<1>2. ASSUME NEW c \in Clients, RecordFailure(c) PROVE Tallied'
  <2>. DEFINE a == req[c].from
              t == req[c].at
              m == Room(a, t)
              full == m[a] = None /\ Cardinality(Attempted(m)) >= MaxAddresses
  <2>1. a \in Addresses /\ t \in 0..MaxClock
    BY <1>2, Shape DEF RecordFailure, LoginSteps, Logins
  <2>2. /\ m \in [Addresses -> Attempt \cup {None}]
        /\ \A b \in Addresses : m[b] \in {attempts[b], None}
    BY <2>1, RoomType
  <2>3. /\ attempts' = IF full THEN m ELSE [m EXCEPT ![a] = Failed(m[a], t)]
        /\ wrong' = [b \in Addresses |->
                       IF b = a /\ ~full THEN IF Recent(m[a], t) THEN wrong[a] + 1 ELSE 1
                       ELSE IF m[b] = None THEN 0 ELSE wrong[b]]
    BY <1>2 DEF RecordFailure
  <2>. HIDE DEF a, t, m, full
  <2>. SUFFICES ASSUME NEW b \in Addresses
                PROVE  wrong'[b] = IF attempts'[b] = None THEN 0 ELSE attempts'[b].failures
    BY DEF Tallied
  <2>4. CASE b = a /\ ~full
    <3>1. attempts'[b] = Failed(m[a], t) /\ wrong'[b] = IF Recent(m[a], t) THEN wrong[a] + 1 ELSE 1
      BY <2>2, <2>3, <2>4
    <3>2. Failed(m[a], t) \in Attempt /\ None \notin Attempt
      BY <2>1, <2>2, FailedType DEF AdminAssumptions
    <3>3. Failed(m[a], t).failures = IF Recent(m[a], t) THEN m[a].failures + 1 ELSE 1
      BY DEF Failed
    <3>4. Recent(m[a], t) => m[a] # None /\ m[a] = attempts[a] /\ wrong[a] = attempts[a].failures
      BY <2>1, <2>2 DEF Recent, Tallied
    <3>. QED  BY <3>1, <3>2, <3>3, <3>4
  <2>5. CASE ~(b = a /\ ~full)
    <3>1. attempts'[b] = m[b] /\ wrong'[b] = IF m[b] = None THEN 0 ELSE wrong[b]
      BY <2>2, <2>3, <2>5
    <3>. QED  BY <2>2, <3>1 DEF Tallied
  <2>. QED  BY <2>4, <2>5
<1>3. ASSUME NEW c \in Clients, ClearFailures(c) PROVE Tallied'
  <2>1. /\ attempts' = [attempts EXCEPT ![req[c].from] = None]
        /\ wrong' = [wrong EXCEPT ![req[c].from] = 0]
    BY <1>3 DEF ClearFailures
  <2>. QED  BY <1>0, <2>1 DEF Tallied
<1>4. ASSUME Restart PROVE Tallied'
  BY <1>4 DEF Restart, Tallied
<1>5. ASSUME NEW c \in Clients,
             \/ Compare(c) \/ AddSession(c) \/ Visit(c) \/ EndVisit(c) \/ Logout(c) \/ Expire(c)
             \/ AskChange(c) \/ CheckCurrent(c) \/ Save(c) \/ SaveFails(c) \/ SetPassword(c)
      PROVE  Tallied'
  BY <1>a, <1>5 DEF Compare, AddSession, Visit, EndVisit, Logout, Expire, AskChange,
                    CheckCurrent, Save, SaveFails, SetPassword
<1>6. ASSUME Tick \/ UNCHANGED vars PROVE Tallied'
  BY <1>a, <1>6 DEF Tick, vars
<1>. QED  BY <1>1, <1>2, <1>3, <1>4, <1>5, <1>6 DEF Next

-----------------------------------------------------------------------------
LEMMA InitAdmin == ASSUME AdminAssumptions, Init PROVE AdminInv
<1>1. TypeOK
  <2>1. mustChange = (password = Default)
    BY Zenon DEF Init
  <2>2. req \in [Clients -> {Idle} \cup Visits \cup Logins \cup Renewals]
    BY DEF Init
  <2>3. /\ password \in Passwords /\ file \in Passwords \cup {None}
        /\ sessions \in [Clients -> Session \cup {None}]
        /\ attempts \in [Addresses -> Attempt \cup {None}] /\ wrong \in [Addresses -> Nat]
        /\ clock \in 0..MaxClock /\ changes \in 0..MaxChanges
    BY DEF AdminAssumptions, Init
  <2>4. overlapped \in BOOLEAN /\ trouble \in BOOLEAN
    BY DEF Init
  <2>. QED  BY <2>1, <2>2, <2>3, <2>4 DEF TypeOK
<1>2. \A c \in Clients : Step(c) = "idle" /\ sessions[c] = None
  BY DEF Init, Step, Idle
<1>3. AllShow
  BY <1>2 DEF AllShow, Shows
<1>4. OneChange
  BY <1>2 DEF OneChange, UnderWay
<1>5. FileAhead
  BY <1>2 DEF Init, FileAhead, Loaded, Blank, AdminAssumptions
<1>6. AllCounted
  BY DEF Init, AllCounted, Counted
<1>7. Tallied
  BY DEF Init, Tallied
<1>. QED  BY <1>1, <1>3, <1>4, <1>5, <1>6, <1>7 DEF AdminInv

LEMMA AdminInvariant == ASSUME AdminAssumptions PROVE Spec => []AdminInv
<1>1. Init => AdminInv
  BY InitAdmin
<1>2. AdminInv /\ [Next]_vars => AdminInv'
  BY NextAdminTyped, NextShow, NextFile, NextCounted, NextTallied DEF AdminInv
<1>. QED  BY <1>1, <1>2, PTL DEF Spec

\* The door's tables, the requests and the password file keep their types, and the gate
\* is up exactly while the default password is in force.
THEOREM AdminTypeCorrect == ASSUME AdminAssumptions PROVE Spec => []TypeOK
<1>1. AdminInv => TypeOK
  BY DEF AdminInv
<1>. QED  BY <1>1, AdminInvariant, PTL

\* adminMiddleware admits only requests whose session was opened with the password in
\* force, which is not the default one: whatever logins, changes and restarts came in
\* between, but for a change that was completed within the login or the visit itself.
THEOREM Admission == ASSUME AdminAssumptions PROVE Spec => []AdmittedKnowsPassword
<1>1. AdminInv => AdmittedKnowsPassword
  BY DEF AdminInv, TypeOK, AllShow, Shows, AdmittedKnowsPassword, Admitted
<1>. QED  BY <1>1, AdminInvariant, PTL

\* When no change is between its check and its end, a restart loads the password in
\* force but for the blanks around it, or the one configured when it has nothing else:
\* each change writes the file first and the memory after it.
THEOREM Persistence == ASSUME AdminAssumptions PROVE Spec => []PasswordKept
<1>1. AdminInv => PasswordKept
  BY DEF AdminInv, FileAhead, UnderWay, PasswordKept, Loaded
<1>. QED  BY <1>1, AdminInvariant, PTL

\* The limit on failed logins holds although a login asks loginAllowed in one section
\* and is counted by recordLoginFailure in another, for every limit, window and number
\* of browsers and addresses, but for the failures that find the table full.
THEOREM LimitHolds == ASSUME AdminAssumptions PROVE Spec => []FailuresBounded
<1>1. AdminInv => FailuresBounded
  <2>. SUFFICES ASSUME AdminAssumptions, AdminInv, NEW a \in Addresses,
                       ~(attempts[a] # None /\ attempts[a].late)
                PROVE  wrong[a] < Limit + Cardinality(Clients)
    BY DEF FailuresBounded
  <2>. DEFINE S == Pending(a, attempts[a].start)
  <2>1. S \subseteq Clients
    BY DEF Pending
  <2>2. CASE attempts[a] = None
    <3>1. Cardinality(Clients) \in Nat
      BY <2>1, PendingFinite
    <3>. QED  BY <2>2, <3>1 DEF AdminInv, Tallied, AdminAssumptions
  <2>3. CASE attempts[a] # None
    <3>1. attempts[a].failures + Cardinality(S) < Limit + Cardinality(Clients)
          /\ attempts[a].failures \in Nat /\ Limit \in Nat /\ wrong[a] = attempts[a].failures
      BY <2>3 DEF AdminInv, AllCounted, Counted, Tallied, TypeOK, Attempt, AdminAssumptions
    <3>. HIDE DEF S
    <3>2. Cardinality(S) \in Nat /\ Cardinality(Clients) \in Nat
      BY <2>1, PendingFinite
    <3>. QED  BY <3>1, <3>2
  <2>. QED  BY <2>2, <2>3
<1>. QED  BY <1>1, AdminInvariant, PTL

-----------------------------------------------------------------------------
(***************************************************************************)
(* The login of an account.  The inductive invariant: an entry of the map, *)
(* and a copy that a callback holds, name only an account that was filed   *)
(* and signed in over the flow; and a flow that was not started has no     *)
(* callback and no outcome.                                                *)
(***************************************************************************)
Truthful(f, p) == p.account # Nil => p.account \in filed \cap won[f]
Carries(b) ==
    /\ Truthful(cb[b].flow, cb[b].p) /\ shown[cb[b].flow] # Nil
    /\ cb[b].pc \in {"upsert", "done"} => cb[b].who \in won[cb[b].flow]
    /\ cb[b].pc = "done" => cb[b].who \in filed

CopiesTrue == \A b \in Callbacks : cb[b] # NoCallback => Carries(b)
NotStarted == \A f \in Flows : shown[f] = Nil => pkce[f] = Nil /\ ended[f] = Nil

LoginInv == LoginTyped /\ ToldTruly /\ CopiesTrue /\ NotStarted

\* The parts of LoginTyped that a step changes one at a time.
MapTyped  == /\ pkce \in [Flows -> Entry \cup {Nil}] /\ old \subseteq Flows
             /\ shown \in [Flows -> {"pending", "settled", Nil}]
             /\ \A f \in Flows : pkce[f] # Nil /\ pkce[f].status = "error" => pkce[f].error
CodesTyped == codes \subseteq Codes /\ spent \subseteq codes
InHand(x)  == /\ x \in {NoCallback} \cup InFlight /\ (x # NoCallback => x.code \in codes)
              /\ x.pc \in {"upsert", "done"} => x.who \in People
CopiesTyped == cb \in [Callbacks -> {NoCallback} \cup InFlight] /\ \A b \in Callbacks : InHand(cb[b])
EndsTyped == /\ filed \subseteq People /\ won \in [Flows -> SUBSET People]
             /\ ended \in [Flows -> {"authenticated", "error", Nil}]

LEMMA LoginParts == LoginTyped <=> MapTyped /\ CodesTyped /\ CopiesTyped /\ EndsTyped
BY Zenon DEF LoginTyped, MapTyped, CodesTyped, CopiesTyped, InHand, EndsTyped

\* A callback takes up x, the others stay.
LEMMA TakesUp ==
  ASSUME CopiesTyped, NEW b \in Callbacks, NEW x, InHand(x), cb' = [cb EXCEPT ![b] = x],
         codes' = codes
  PROVE  CopiesTyped' /\ cb'[b] = x /\ \A d \in Callbacks \ {b} : cb'[d] = cb[d]
BY DEF CopiesTyped, InHand

\* A callback in flight has a copy of a flow and a code of the provider.
LEMMA FlightIs ==
  ASSUME LoginAssumptions, LoginTyped, NEW b \in Callbacks, cb[b].pc # "idle"
  PROVE  /\ cb[b] # NoCallback /\ cb[b] \in InFlight /\ cb[b].flow \in Flows /\ cb[b].p \in Entry
         /\ cb[b].code \in codes /\ cb[b].code \in Flows \X People
<1>1. cb[b] # NoCallback /\ cb[b] \in {NoCallback} \cup InFlight /\ codes \subseteq Codes
  BY DEF LoginTyped, NoCallback
<1>. QED  BY <1>1 DEF LoginTyped, InFlight, LoginAssumptions

\* Where the end of a callback leaves its flow.
LEMMA EndIs ==
  ASSUME LoginAssumptions, LoginTyped, NEW b \in Callbacks, Fail(b) \/ Finish(b)
  PROVE  \E p \in Entry, how \in {"authenticated", "error"} :
           /\ WriteBack(b, how, p) /\ p.status = how /\ (how = "error" => p.error)
           /\ p.account \in {cb[b].p.account, cb[b].who}
           /\ how = "error" => p.account = cb[b].p.account
           /\ how = "authenticated" => cb[b].pc = "done"
<1>0. cb[b].p \in Entry
  BY FlightIs DEF Fail, Finish
<1>1. CASE Fail(b)
  <2>. DEFINE p == [cb[b].p EXCEPT !.status = "error", !.error = TRUE]
  <2>1. p \in Entry /\ p.status = "error" /\ p.error /\ p.account = cb[b].p.account
    BY <1>0 DEF Entry
  <2>. QED  BY <1>1, <2>1 DEF Fail
<1>2. CASE Finish(b)
  <2>. DEFINE p == [cb[b].p EXCEPT !.status = "authenticated", !.account = cb[b].who]
  <2>1. p \in Entry /\ p.status = "authenticated" /\ p.account = cb[b].who
    BY <1>0, <1>2 DEF Entry, Finish, LoginTyped
  <2>. QED  BY <1>2, <2>1 DEF Finish
<1>. QED  BY <1>1, <1>2

LEMMA NextLoginTyped ==
  ASSUME LoginAssumptions, LoginTyped, [LoginNext]_loginVars
  PROVE  LoginTyped'
<1>0. MapTyped /\ CodesTyped /\ CopiesTyped /\ EndsTyped
  BY LoginParts
<1>a. MapTyped' /\ CodesTyped' /\ CopiesTyped' /\ EndsTyped' => LoginTyped'
  BY Zenon DEF LoginTyped, MapTyped, CodesTyped, CopiesTyped, InHand, EndsTyped
<1>1. ASSUME NEW f \in Flows, startPKCE(f) \/ Age(f) \/ pkceStatus(f) PROVE LoginTyped'
  <2>1. Started \in Entry /\ Started.status # "error"
    BY DEF Started, Entry
  <2>2. MapTyped'
    BY <1>0, <1>1, <2>1 DEF MapTyped, startPKCE, Age, pkceStatus, StatusOf
  <2>3. UNCHANGED <<codes, spent, cb, filed, ended, won>>
    BY <1>1 DEF startPKCE, Age, pkceStatus, provider
  <2>. QED  BY <1>a, <1>0, <2>2, <2>3 DEF CodesTyped, CopiesTyped, InHand, EndsTyped
<1>2. ASSUME NEW code \in Codes, SignIn(code) PROVE LoginTyped'
  BY <1>a, <1>0, <1>2 DEF SignIn, MapTyped, CodesTyped, CopiesTyped, InHand, EndsTyped
<1>3. ASSUME NEW b \in Callbacks, NEW f \in Flows, NEW code \in Codes, Callback(b, f, code)
      PROVE  LoginTyped'
  <2>. DEFINE x == [pc |-> "exchange", flow |-> f, code |-> code, p |-> pkce[f], who |-> Nil]
  <2>1. InHand(x)
    BY <1>0, <1>3 DEF Callback, InHand, InFlight, MapTyped
  <2>2. cb' = [cb EXCEPT ![b] = x] /\ UNCHANGED <<pkce, old, shown, codes, spent, filed, ended, won>>
    BY <1>3 DEF Callback, provider
  <2>. HIDE DEF x
  <2>3. CopiesTyped'
    BY <1>0, <2>1, <2>2, TakesUp
  <2>. QED  BY <1>a, <1>0, <2>2, <2>3 DEF MapTyped, CodesTyped, EndsTyped
<1>4. ASSUME NEW b \in Callbacks, ExchangeCode(b) PROVE LoginTyped'
  <2>1. /\ cb[b] \in InFlight /\ cb[b] # NoCallback
        /\ cb[b].code \in codes /\ cb[b].code \in Flows \X People
    BY <1>4, FlightIs DEF ExchangeCode
  <2>2. PICK x \in InFlight : /\ cb' = [cb EXCEPT ![b] = x] /\ x.code = cb[b].code
                              /\ x.pc = "failed" \/ (x.pc = "upsert" /\ x.who \in People)
    <3>1. CASE Granted(b)
      <4>. DEFINE x == [cb[b] EXCEPT !.pc = "upsert", !.who = cb[b].code[2]]
      <4>1. cb' = [cb EXCEPT ![b] = x]
        BY <3>1 DEF Granted
      <4>2. x \in InFlight /\ x.code = cb[b].code /\ x.pc = "upsert" /\ x.who \in People
        BY <2>1 DEF InFlight
      <4>. QED  BY <4>1, <4>2
    <3>2. CASE cb' = [cb EXCEPT ![b].pc = "failed"]
      <4>. DEFINE x == [cb[b] EXCEPT !.pc = "failed"]
      <4>1. x \in InFlight /\ x.code = cb[b].code /\ x.pc = "failed"
        BY <2>1 DEF InFlight
      <4>. QED  BY <3>2, <4>1
    <3>. QED  BY <1>4, <3>1, <3>2 DEF ExchangeCode
  <2>3. InHand(x)
    BY <2>1, <2>2 DEF InHand
  <2>4. UNCHANGED <<pkce, old, shown, codes, filed, ended>>
    BY <1>4 DEF ExchangeCode
  <2>5. CopiesTyped'
    BY <1>0, <2>2, <2>3, <2>4, TakesUp
  <2>6. CodesTyped' /\ EndsTyped'
    BY <1>0, <1>4, <2>1, <2>4 DEF CodesTyped, EndsTyped, ExchangeCode, Granted
  <2>. QED  BY <1>a, <1>0, <2>4, <2>5, <2>6 DEF MapTyped
<1>5. ASSUME NEW b \in Callbacks, Upsert(b) PROVE LoginTyped'
  <2>1. cb[b] \in InFlight /\ cb[b] # NoCallback /\ cb[b].code \in codes /\ cb[b].who \in People
    BY <1>0, <1>5, FlightIs DEF Upsert, CopiesTyped, InHand
  <2>2. PICK pc \in {"done", "failed"} : cb' = [cb EXCEPT ![b].pc = pc]
    BY <1>5 DEF Upsert
  <2>. DEFINE x == [cb[b] EXCEPT !.pc = pc]
  <2>3. InHand(x)
    BY <2>1 DEF InHand, InFlight
  <2>4. cb' = [cb EXCEPT ![b] = x] /\ UNCHANGED <<pkce, old, shown, codes, spent, ended, won>>
    BY <1>5, <2>2 DEF Upsert, provider
  <2>. HIDE DEF x
  <2>5. CopiesTyped'
    BY <1>0, <2>3, <2>4, TakesUp
  <2>6. EndsTyped'
    BY <1>0, <1>5, <2>1, <2>4 DEF EndsTyped, Upsert
  <2>. QED  BY <1>a, <1>0, <2>4, <2>5, <2>6 DEF MapTyped, CodesTyped
<1>6. ASSUME NEW b \in Callbacks, Fail(b) \/ Finish(b) PROVE LoginTyped'
  <2>1. PICK p \in Entry, how \in {"authenticated", "error"} :
           WriteBack(b, how, p) /\ p.status = how /\ (how = "error" => p.error)
    BY <1>6, EndIs
  <2>2. InHand(NoCallback)
    BY DEF InHand, NoCallback
  <2>3. /\ cb' = [cb EXCEPT ![b] = NoCallback]
        /\ UNCHANGED <<old, shown, codes, spent, filed, won>>
    BY <2>1 DEF WriteBack, provider
  <2>4. CopiesTyped'
    BY <1>0, <2>2, <2>3, TakesUp
  <2>5. MapTyped'
    BY <1>0, <2>1, <2>3 DEF MapTyped, WriteBack
  <2>6. EndsTyped'
    BY <1>0, <2>1, <2>3 DEF EndsTyped, WriteBack
  <2>. QED  BY <1>a, <1>0, <2>3, <2>4, <2>5, <2>6 DEF CodesTyped
<1>7. CASE UNCHANGED loginVars
  BY <1>a, <1>0, <1>7 DEF loginVars, MapTyped, CodesTyped, CopiesTyped, InHand, EndsTyped
<1>. QED  BY <1>1, <1>2, <1>3, <1>4, <1>5, <1>6, <1>7 DEF LoginNext

\* What was true of a copy stays true: an account filed stays filed, a person who signed
\* in over a flow has, and a flow once started was started.
LoginGrows == /\ filed \subseteq filed'
              /\ \A f \in Flows : won[f] \subseteq won'[f] /\ (shown[f] # Nil => shown'[f] # Nil)

LEMMA TrueStays ==
  ASSUME LoginAssumptions, LoginTyped, LoginGrows, NEW b \in Callbacks,
         cb[b] # NoCallback, Carries(b), cb'[b] = cb[b]
  PROVE  Carries(b)'
<1>1. cb[b].flow \in Flows
  BY DEF LoginTyped, InFlight
<1>. QED  BY <1>1 DEF LoginGrows, Carries, Truthful

LEMMA GrowsInLogin ==
  ASSUME LoginAssumptions, LoginTyped, [LoginNext]_loginVars
  PROVE  LoginGrows
<1>1. ASSUME NEW f \in Flows, startPKCE(f) \/ Age(f) \/ pkceStatus(f) PROVE LoginGrows
  <2>1. Nil \notin {"pending", "settled"}
    BY DEF LoginAssumptions
  <2>2. UNCHANGED <<filed, won>> /\ \/ shown' = shown
                                    \/ \E s \in {"pending", "settled"} : shown' = [shown EXCEPT ![f] = s]
    BY <1>1 DEF startPKCE, Age, pkceStatus, StatusOf, provider
  <2>. QED  BY <2>1, <2>2 DEF LoginTyped, LoginGrows
<1>2. ASSUME NEW b \in Callbacks, ExchangeCode(b) PROVE LoginGrows
  <2>1. cb[b].code \in Flows \X People
    BY <1>2, FlightIs DEF ExchangeCode
  <2>2. shown' = shown /\ filed' = filed
    BY <1>2 DEF ExchangeCode
  <2>3. \A f \in Flows : won[f] \subseteq won'[f]
    BY <1>2, <2>1 DEF ExchangeCode, Granted, LoginTyped
  <2>. QED  BY <2>2, <2>3 DEF LoginGrows
<1>3. ASSUME NEW b \in Callbacks, Fail(b) \/ Finish(b) PROVE LoginGrows
  BY <1>3 DEF Fail, Finish, WriteBack, LoginGrows
<1>4. ASSUME NEW b \in Callbacks, Upsert(b) PROVE LoginGrows
  BY <1>4 DEF Upsert, LoginGrows
<1>5. ASSUME \/ \E code \in Codes : SignIn(code)
             \/ \E b \in Callbacks, f \in Flows, code \in Codes : Callback(b, f, code)
             \/ UNCHANGED loginVars
      PROVE  LoginGrows
  BY <1>5 DEF SignIn, Callback, loginVars, LoginGrows
<1>. QED  BY <1>1, <1>2, <1>3, <1>4, <1>5 DEF LoginNext

LEMMA NextLogin ==
  ASSUME LoginAssumptions, LoginInv, [LoginNext]_loginVars
  PROVE  LoginInv'
<1>0. LoginTyped /\ ToldTruly /\ CopiesTrue /\ NotStarted /\ LoginGrows /\ LoginTyped'
  BY GrowsInLogin, NextLoginTyped DEF LoginInv
<1>a. ASSUME UNCHANGED <<pkce, ended>> PROVE ToldTruly' /\ NotStarted'
  BY <1>0, <1>a DEF ToldTruly, NotStarted, LoginGrows
<1>b. ASSUME cb' = cb PROVE CopiesTrue'
  <2>1. ASSUME NEW b \in Callbacks, cb'[b] # NoCallback PROVE Carries(b)'
    BY <1>0, <1>b, <2>1, TrueStays DEF CopiesTrue
  <2>. QED  BY <2>1 DEF CopiesTrue
<1>c. ASSUME NEW b \in Callbacks, NEW x, cb' = [cb EXCEPT ![b] = x],
             x = NoCallback \/ Carries(b)'
      PROVE  CopiesTrue'
  <2>1. ASSUME NEW d \in Callbacks, cb'[d] # NoCallback PROVE Carries(d)'
    <3>1. CASE d = b
      BY <1>0, <1>c, <2>1, <3>1 DEF LoginTyped
    <3>2. CASE d # b
      <4>1. cb'[d] = cb[d]
        BY <1>0, <1>c, <3>2 DEF LoginTyped
      <4>. QED  BY <1>0, <2>1, <4>1, TrueStays DEF CopiesTrue
    <3>. QED  BY <3>1, <3>2
  <2>. QED  BY <2>1 DEF CopiesTrue
<1>1. ASSUME NEW f \in Flows, startPKCE(f) PROVE LoginInv'
  <2>1. ended[f] = Nil /\ Started.account = Nil
    BY <1>0, <1>1 DEF startPKCE, NotStarted, Started
  <2>2. /\ pkce' = [pkce EXCEPT ![f] = Started] /\ shown' = [shown EXCEPT ![f] = "pending"]
        /\ UNCHANGED <<ended, cb, filed, won>>
    BY <1>1 DEF startPKCE
  <2>3. ToldTruly'
    BY <1>0, <2>1, <2>2 DEF ToldTruly, LoginTyped
  <2>4. NotStarted'
    BY <1>0, <2>2 DEF NotStarted, LoginTyped, LoginAssumptions
  <2>. QED  BY <1>0, <1>b, <2>2, <2>3, <2>4 DEF LoginInv
<1>2. ASSUME NEW f \in Flows, pkceStatus(f) PROVE LoginInv'
  <2>1. UNCHANGED <<ended, cb, filed, won>> /\ (pkce' = pkce \/ pkce' = [pkce EXCEPT ![f] = Nil])
    BY <1>2 DEF pkceStatus
  <2>2. ToldTruly' /\ NotStarted'
    BY <1>0, <2>1 DEF ToldTruly, NotStarted, LoginGrows, LoginTyped
  <2>. QED  BY <1>0, <1>b, <2>1, <2>2 DEF LoginInv
<1>3. ASSUME NEW b \in Callbacks, NEW f \in Flows, NEW code \in Codes, Callback(b, f, code)
      PROVE  LoginInv'
  <2>. DEFINE x == [pc |-> "exchange", flow |-> f, code |-> code, p |-> pkce[f], who |-> Nil]
  <2>1. cb' = [cb EXCEPT ![b] = x] /\ UNCHANGED <<pkce, shown, ended, filed, won>>
    BY <1>3 DEF Callback
  <2>2. cb'[b] = x
    BY <1>0, <2>1 DEF LoginTyped
  <2>3. shown[f] # Nil /\ Truthful(f, pkce[f])
    BY <1>0, <1>3 DEF Callback, NotStarted, ToldTruly, Truthful
  <2>4. Carries(b)'
    BY <2>1, <2>2, <2>3 DEF Carries, Truthful
  <2>. QED  BY <1>0, <1>a, <1>c, <2>1, <2>4 DEF LoginInv
<1>4. ASSUME NEW b \in Callbacks, ExchangeCode(b) PROVE LoginInv'
  <2>1. /\ cb[b] # NoCallback /\ cb[b] \in InFlight /\ cb[b].flow \in Flows
        /\ cb[b].code \in Flows \X People /\ Carries(b)
    BY <1>0, <1>4, FlightIs DEF ExchangeCode, CopiesTrue
  <2>2. PICK x : /\ cb' = [cb EXCEPT ![b] = x] /\ x.flow = cb[b].flow /\ x.p = cb[b].p
                 /\ x.pc = "failed" \/ (x.pc = "upsert" /\ x.who \in won'[cb[b].flow])
    <3>1. CASE cb[b].code[1] = cb[b].flow /\ Granted(b)
      <4>. DEFINE x == [cb[b] EXCEPT !.pc = "upsert", !.who = cb[b].code[2]]
      <4>1. cb' = [cb EXCEPT ![b] = x]
        BY <3>1 DEF Granted
      <4>2. x.flow = cb[b].flow /\ x.p = cb[b].p /\ x.pc = "upsert" /\ x.who = cb[b].code[2]
        BY <2>1 DEF InFlight
      <4>3. cb[b].code[2] \in won'[cb[b].flow]
        BY <1>0, <2>1, <3>1 DEF Granted, LoginTyped
      <4>. QED  BY <4>1, <4>2, <4>3
    <3>2. CASE cb' = [cb EXCEPT ![b].pc = "failed"]
      <4>. DEFINE x == [cb[b] EXCEPT !.pc = "failed"]
      <4>1. x.flow = cb[b].flow /\ x.p = cb[b].p /\ x.pc = "failed"
        BY <2>1 DEF InFlight
      <4>. QED  BY <3>2, <4>1
    <3>. QED  BY <1>4, <3>1, <3>2 DEF ExchangeCode
  <2>3. cb'[b] = x
    BY <1>0, <2>2 DEF LoginTyped
  <2>4. Carries(b)'
    BY <1>0, <2>1, <2>2, <2>3 DEF Carries, Truthful, LoginGrows
  <2>5. UNCHANGED <<pkce, ended>>
    BY <1>4 DEF ExchangeCode
  <2>. QED  BY <1>0, <1>a, <1>c, <2>2, <2>4, <2>5 DEF LoginInv
<1>5. ASSUME NEW b \in Callbacks, Upsert(b) PROVE LoginInv'
  <2>1. /\ cb[b] # NoCallback /\ cb[b] \in InFlight /\ cb[b].flow \in Flows /\ Carries(b)
    BY <1>0, <1>5, FlightIs DEF Upsert, CopiesTrue
  <2>2. PICK pc \in {"done", "failed"} : cb' = [cb EXCEPT ![b].pc = pc]
    BY <1>5 DEF Upsert
  <2>. DEFINE x == [cb[b] EXCEPT !.pc = pc]
  <2>3. cb' = [cb EXCEPT ![b] = x] /\ cb'[b] = x
    BY <1>0, <2>2 DEF LoginTyped
  <2>4. x.flow = cb[b].flow /\ x.p = cb[b].p /\ x.who = cb[b].who /\ x.pc \in {"done", "failed"}
    BY <2>1 DEF InFlight
  <2>5. cb[b].who \in won[cb[b].flow] /\ cb[b].who \in filed' /\ UNCHANGED <<pkce, ended>>
    BY <1>5, <2>1 DEF Upsert, Carries
  <2>. HIDE DEF x
  <2>6. Carries(b)'
    BY <1>0, <2>1, <2>3, <2>4, <2>5 DEF Carries, Truthful, LoginGrows
  <2>. QED  BY <1>0, <1>a, <1>c, <2>3, <2>5, <2>6 DEF LoginInv
<1>6. ASSUME NEW b \in Callbacks, Fail(b) \/ Finish(b) PROVE LoginInv'
  <2>1. /\ cb[b] # NoCallback /\ cb[b].flow \in Flows /\ Carries(b)
    BY <1>0, <1>6, FlightIs DEF Fail, Finish, CopiesTrue
  <2>2. PICK p \in Entry, how \in {"authenticated", "error"} :
          /\ WriteBack(b, how, p) /\ p.status = how
          /\ p.account \in {cb[b].p.account, cb[b].who}
          /\ how = "error" => p.account = cb[b].p.account
          /\ how = "authenticated" => cb[b].pc = "done"
    BY <1>0, <1>6, EndIs
  <2>3. /\ pkce' = [pkce EXCEPT ![cb[b].flow] = p] /\ ended' = [ended EXCEPT ![cb[b].flow] = how]
        /\ cb' = [cb EXCEPT ![b] = NoCallback] /\ UNCHANGED <<shown, filed, won>>
    BY <2>2 DEF WriteBack
  <2>4. p.account # Nil => p.account \in filed \cap won[cb[b].flow]
    BY <2>1, <2>2 DEF Carries, Truthful
  <2>5. ToldTruly'
    BY <1>0, <2>1, <2>2, <2>3, <2>4 DEF ToldTruly, LoginTyped
  <2>6. NotStarted'
    BY <1>0, <2>1, <2>3 DEF NotStarted, Carries, LoginTyped
  <2>. QED  BY <1>0, <1>c, <2>3, <2>5, <2>6 DEF LoginInv
<1>7. ASSUME \/ \E f \in Flows : Age(f)
             \/ \E code \in Codes : SignIn(code)
             \/ UNCHANGED loginVars
      PROVE  LoginInv'
  <2>1. UNCHANGED <<pkce, ended, cb>>
    BY <1>7 DEF Age, SignIn, loginVars
  <2>. QED  BY <1>0, <1>a, <1>b, <2>1 DEF LoginInv
<1>. QED  BY <1>1, <1>2, <1>3, <1>4, <1>5, <1>6, <1>7 DEF LoginNext

LEMMA InitLogin == ASSUME LoginAssumptions, LoginInit PROVE LoginInv
<1>1. LoginTyped
  BY DEF LoginInit, LoginTyped, NoCallback
<1>. QED  BY <1>1 DEF LoginInit, LoginInv, ToldTruly, CopiesTrue, NotStarted

LEMMA LoginInvariant == LoginSpec => []LoginInv
<1>1. LoginInit => LoginInv
  BY InitLogin, LoginAssumptions
<1>2. LoginInv /\ [LoginNext]_loginVars => LoginInv'
  BY NextLogin, LoginAssumptions
<1>. QED  BY <1>1, <1>2, PTL DEF LoginSpec

\* Entries, copies and codes keep their types, whatever callbacks overlap and expire.
THEOREM LoginTypeCorrect == LoginSpec => []LoginTyped
<1>1. LoginInv => LoginTyped
  BY DEF LoginInv
<1>. QED  BY <1>1, LoginInvariant, PTL

\* pkceStatus tells the truth about a login for any number of flows, callbacks and people:
\* callbackPKCE may write back a copy from before other callbacks and from before the
\* expiry, but every copy names only people who signed in over the flow and were filed.
THEOREM ToldTheTruth == LoginSpec => []ToldTruly
<1>1. LoginInv => ToldTruly
  BY DEF LoginInv
<1>. QED  BY <1>1, LoginInvariant, PTL

-----------------------------------------------------------------------------
(***************************************************************************)
(* Deployments.  The inductive invariant, while no write has failed and no *)
(* two requests opened the store together: whoever has a store has the     *)
(* global one, nobody else is under way while it is opened, the file lacks *)
(* only what somebody has yet to save, and it never holds what the list    *)
(* does not; what was reported was saved.                                  *)
(***************************************************************************)
IdsIn(list) == {list[n].id : n \in DOMAIN list}
Smooth == saveFaults = 0 /\ ~split

OneStore == \A r \in Requests :
    /\ Stage(r) \in {"opened", "probing", "unsaved"} =>
         global # NoStore /\ handler[r].store = global
    /\ Stage(r) = "opening" =>
         /\ global = NoStore /\ items[r] = deployFile
         /\ \A s \in Requests \ {r} : Stage(s) = "idle"
Added == \A r \in Requests :
    Stage(r) = "unsaved" /\ handler[r].kind = "add" => handler[r].id \in IdsIn(items[global])
FileWithin == global # NoStore => IdsIn(deployFile) \subseteq IdsIn(items[global])
FileKeeps  == deployed \subseteq IdsIn(deployFile)
FileSettled == Settled => deployFile = List

\* What a handler is, by its step.
LEMMA HandlerIs ==
  ASSUME DeployTyped, NEW r \in Requests, Stage(r) # "idle"
  PROVE  /\ handler[r].kind \in Kinds /\ handler[r].id \in Workers
         /\ Stage(r) \in {"opening", "opened", "probing", "unsaved"}
         /\ Stage(r) # "opening" => handler[r].store \in Requests
         /\ Stage(r) = "probing" => handler[r].kind = "check" /\ handler[r].place \in Nat
BY DEF DeployTyped, Handler, Stage, NoRequest, Kinds

LEMMA MoveTyped ==
  ASSUME DeployTyped, NEW r \in Requests, NEW s \in Handler, MoveTo(r, s)
  PROVE  /\ handler' \in [Requests -> Handler] /\ handler'[r] = s
         /\ \A d \in Requests \ {r} : handler'[d] = handler[d]
BY DEF DeployTyped, MoveTo

\* The records that are appended and changed are records, and changes keep the ids.
LEMMA Appended ==
  ASSUME NEW list \in Seq(Record), NEW w \in Workers
  PROVE  /\ Append(list, New(w)) \in Seq(Record)
         /\ IdsIn(Append(list, New(w))) = IdsIn(list) \cup {w}
<1>1. New(w) \in Record /\ New(w).id = w
  BY DEF New, Record
<1>. DEFINE l == Append(list, New(w))
<1>2. /\ l \in Seq(Record) /\ Len(l) = Len(list) + 1 /\ Len(list) \in Nat
      /\ \A n \in 1..Len(list) : l[n] = list[n]
      /\ l[Len(list) + 1] = New(w)
  BY <1>1
<1>. HIDE DEF l
<1>3. DOMAIN l = 1..(Len(list) + 1) /\ DOMAIN list = 1..Len(list)
  BY <1>2
<1>. QED  BY <1>1, <1>2, <1>3 DEF IdsIn, l

LEMMA Changed ==
  ASSUME NEW list \in Seq(Record), NEW n, NEW x \in Record, n \in DOMAIN list => x.id = list[n].id
  PROVE  [list EXCEPT ![n] = x] \in Seq(Record) /\ IdsIn([list EXCEPT ![n] = x]) = IdsIn(list)
<1>. DEFINE l == [list EXCEPT ![n] = x]
<1>1. Len(list) \in Nat /\ DOMAIN list = 1..Len(list) /\ DOMAIN l = 1..Len(list)
  OBVIOUS
<1>2. \A k \in 1..Len(list) : l[k] \in Record /\ l[k].id = list[k].id
  OBVIOUS
<1>3. l = [k \in 1..Len(list) |-> l[k]]
  OBVIOUS
<1>. HIDE DEF l
<1>4. l \in Seq(Record)
  BY <1>1, <1>2, <1>3
<1>5. IdsIn(l) = IdsIn(list)
  BY <1>1, <1>2 DEF IdsIn
<1>. QED  BY <1>4, <1>5 DEF l

\* Writing where a list has no place leaves it as it is.
LEMMA Untouched ==
  ASSUME NEW S, NEW list \in Seq(S), NEW n, NEW x, n \notin DOMAIN list
  PROVE  [list EXCEPT ![n] = x] = list
<1>1. list = [k \in DOMAIN list |-> list[k]]
  OBVIOUS
<1>. QED  BY <1>1

LEMMA RecordAt ==
  ASSUME NEW list \in Seq(Record), NEW n \in DOMAIN list
  PROVE  list[n] \in Record
OBVIOUS

LEMMA NextDeployTyped ==
  ASSUME DeploymentsAssumptions, DeployTyped, [DeployNext]_deployVars
  PROVE  DeployTyped'
<1>0. /\ global \in Requests \cup {NoStore} /\ items \in [Requests -> Seq(Record)]
      /\ deployFile \in Seq(Record) /\ handler \in [Requests -> Handler] /\ ops \in 0..MaxOps
      /\ saveFaults \in 0..MaxSaveFaults /\ deployed \subseteq Workers /\ split \in BOOLEAN
      /\ MaxOps \in Nat /\ MaxSaveFaults \in Nat
  BY DEF DeployTyped, DeploymentsAssumptions
<1>a. ASSUME NEW r \in Requests, NEW s \in Handler, MoveTo(r, s),
             UNCHANGED <<global, items, deployFile, ops, deployed, split, saveFaults>>
      PROVE  DeployTyped'
  BY <1>0, <1>a, MoveTyped DEF DeployTyped
<1>b. ASSUME NEW r \in Requests, NEW l \in Seq(Record), items' = [items EXCEPT ![r] = l]
      PROVE  items' \in [Requests -> Seq(Record)]
  BY <1>0, <1>b
<1>c. NoRequest \in Handler
  BY DEF Handler
<1>d. ASSUME NEW r \in Requests, Stage(r) \in {"opened", "probing"}
      PROVE  Unsaved(r) \in Handler
  BY <1>d, HandlerIs DEF Unsaved, Handler
<1>1. ASSUME NEW r \in Requests, Begin(r) PROVE DeployTyped'
  <2>1. PICK kind \in Kinds, w \in Workers :
         \/ /\ global # NoStore
            /\ MoveTo(r, [step |-> "opened", kind |-> kind, id |-> w, store |-> global])
            /\ UNCHANGED <<items, split>>
         \/ /\ global = NoStore
            /\ MoveTo(r, [step |-> "opening", kind |-> kind, id |-> w])
            /\ items' = [items EXCEPT ![r] = deployFile]
            /\ split' = (split \/ \E s \in Requests : Stage(s) = "opening")
    BY <1>1 DEF Begin
  <2>2. [step |-> "opening", kind |-> kind, id |-> w] \in Handler
    BY DEF Handler
  <2>3. global # NoStore =>
          [step |-> "opened", kind |-> kind, id |-> w, store |-> global] \in Handler
    BY <1>0 DEF Handler
  <2>4. handler' \in [Requests -> Handler]
    BY <2>1, <2>2, <2>3, MoveTyped
  <2>5. items' \in [Requests -> Seq(Record)]
    BY <1>0, <1>b, <2>1
  <2>6. split' \in BOOLEAN
    BY <1>0, <2>1
  <2>7. ops' \in 0..MaxOps /\ UNCHANGED <<global, deployFile, deployed, saveFaults>>
    BY <1>0, <1>1 DEF Begin
  <2>. QED  BY <1>0, <2>4, <2>5, <2>6, <2>7 DEF DeployTyped
<1>2. ASSUME NEW r \in Requests, Publish(r) PROVE DeployTyped'
  <2>1. [step |-> "opened", kind |-> handler[r].kind, id |-> handler[r].id, store |-> r] \in Handler
    BY <1>2, HandlerIs DEF Publish, Handler
  <2>2. handler' \in [Requests -> Handler]
    BY <1>2, <2>1, MoveTyped DEF Publish
  <2>. QED  BY <1>0, <1>2, <2>2 DEF Publish, DeployTyped
<1>3. ASSUME NEW r \in Requests, Add(r) PROVE DeployTyped'
  <2>1. /\ handler[r].store \in Requests /\ handler[r].id \in Workers /\ Unsaved(r) \in Handler
    BY <1>3, <1>d, HandlerIs DEF Add
  <2>2. items' \in [Requests -> Seq(Record)]
    <3>1. Append(items[handler[r].store], New(handler[r].id)) \in Seq(Record)
      BY <1>0, <2>1, Appended
    <3>. QED  BY <1>3, <1>b, <2>1, <3>1 DEF Add
  <2>3. handler' \in [Requests -> Handler]
    <3>1. PICK moves \in BOOLEAN :
            handler' = [s \in Requests |->
              IF s = r THEN Unsaved(r)
              ELSE IF Stage(s) = "probing" /\ handler[s].store = handler[r].store /\ moves
                THEN [handler[s] EXCEPT !.moved = TRUE] ELSE handler[s]]
      BY <1>3 DEF Add
    <3>2. ASSUME NEW s \in Requests, Stage(s) = "probing"
          PROVE  [handler[s] EXCEPT !.moved = TRUE] \in Handler
      <4>1. handler[s] \in [step : {"probing"}, kind : {"check"}, id : Workers, store : Requests,
                            place : Nat, moved : BOOLEAN]
        BY <1>0, <3>2 DEF Handler, Stage, NoRequest
      <4>. QED  BY <4>1 DEF Handler
    <3>. QED  BY <1>0, <2>1, <3>1, <3>2
  <2>. QED  BY <1>0, <1>3, <2>2, <2>3 DEF Add, DeployTyped
<1>4. ASSUME NEW r \in Requests, AddFails(r) \/ NotFound(r) \/ ProbePanics(r) PROVE DeployTyped'
  BY <1>a, <1>c, <1>4 DEF AddFails, NotFound, ProbePanics
<1>5. ASSUME NEW r \in Requests, PutURL(r) PROVE DeployTyped'
  <2>1. handler[r].store \in Requests /\ Unsaved(r) \in Handler
    BY <1>5, <1>d, HandlerIs DEF PutURL
  <2>2. PICK n \in Places(handler[r].store, handler[r].id), url \in {"default", "custom"} :
          items' = [items EXCEPT ![handler[r].store][n].url = url]
    BY <1>5 DEF PutURL
  <2>3. items' \in [Requests -> Seq(Record)]
    <3>. DEFINE l == items[handler[r].store]
                x == [l[n] EXCEPT !.url = url]
    <3>1. l \in Seq(Record) /\ n \in DOMAIN l
      BY <1>0, <2>1, <2>2 DEF Places
    <3>2. l[n] \in Record
      BY <3>1
    <3>3. x \in Record /\ x.id = l[n].id
      BY <3>2 DEF Record
    <3>4. [l EXCEPT ![n] = x] \in Seq(Record)
      <4>. HIDE DEF l, x
      <4>. QED  BY <3>1, <3>3, Changed
    <3>5. items' = [items EXCEPT ![handler[r].store] = [l EXCEPT ![n] = x]]
      BY <2>2
    <3>. QED  BY <1>b, <2>1, <3>4, <3>5
  <2>4. handler' \in [Requests -> Handler]
    BY <1>5, <2>1, MoveTyped DEF PutURL
  <2>. QED  BY <1>0, <1>5, <2>3, <2>4 DEF PutURL, DeployTyped
<1>6. ASSUME NEW r \in Requests, Probe(r) PROVE DeployTyped'
  <2>1. PICK n \in Places(handler[r].store, handler[r].id) :
         MoveTo(r, [step |-> "probing", kind |-> "check", id |-> handler[r].id,
                    store |-> handler[r].store, place |-> n, moved |-> FALSE])
    BY <1>6 DEF Probe
  <2>2. handler[r].store \in Requests /\ handler[r].id \in Workers
    BY <1>6, HandlerIs DEF Probe
  <2>3. n \in Nat
    BY <1>0, <2>1, <2>2 DEF Places
  <2>4. [step |-> "probing", kind |-> "check", id |-> handler[r].id,
         store |-> handler[r].store, place |-> n, moved |-> FALSE] \in Handler
    BY <2>2, <2>3 DEF Handler
  <2>. QED  BY <1>a, <1>6, <2>1, <2>4 DEF Probe
<1>7. ASSUME NEW r \in Requests, Probed(r) PROVE DeployTyped'
  <2>1. handler[r].store \in Requests /\ Unsaved(r) \in Handler
    BY <1>7, <1>d, HandlerIs DEF Probed
  <2>2. PICK status \in {"healthy", "unhealthy"} :
          items' = IF handler[r].moved THEN items
                   ELSE [items EXCEPT ![handler[r].store][handler[r].place].status = status]
    BY <1>7 DEF Probed
  <2>3. items' \in [Requests -> Seq(Record)]
    <3>. DEFINE l == items[handler[r].store]
                n == handler[r].place
                x == [l[n] EXCEPT !.status = status]
    <3>1. l \in Seq(Record)
      BY <1>0, <2>1
    <3>2. [l EXCEPT ![n] = x] \in Seq(Record)
      <4>1. CASE n \in DOMAIN l
        <5>1. l[n] \in Record
          <6>. HIDE DEF l, n
          <6>. QED  BY <3>1, <4>1, RecordAt
        <5>2. x \in Record /\ x.id = l[n].id
          BY <5>1 DEF Record
        <5>. HIDE DEF l, n, x
        <5>. QED  BY <3>1, <5>2, Changed
      <4>2. CASE n \notin DOMAIN l
        <5>. HIDE DEF l, n, x
        <5>. QED  BY <3>1, <4>2, Untouched
      <4>. QED  BY <4>1, <4>2
    <3>3. items' = items \/ items' = [items EXCEPT ![handler[r].store] = [l EXCEPT ![n] = x]]
      BY <2>2
    <3>. QED  BY <1>0, <1>b, <2>1, <3>2, <3>3
  <2>4. handler' \in [Requests -> Handler]
    BY <1>7, <2>1, MoveTyped DEF Probed
  <2>. QED  BY <1>0, <1>7, <2>3, <2>4 DEF Probed, DeployTyped
<1>8. ASSUME NEW r \in Requests, SaveList(r) \/ SaveListFails(r) PROVE DeployTyped'
  <2>1. handler[r].store \in Requests /\ handler[r].id \in Workers
    BY <1>8, HandlerIs DEF SaveList, SaveListFails
  <2>2. handler' \in [Requests -> Handler]
    BY <1>8, <1>c, MoveTyped DEF SaveList, SaveListFails
  <2>3. deployFile' \in Seq(Record)
    <3>1. deployFile' \in {deployFile, <<>>, items[handler[r].store]}
      BY <1>8 DEF SaveList, SaveListFails
    <3>2. items[handler[r].store] \in Seq(Record) /\ <<>> \in Seq(Record)
      BY <1>0, <2>1
    <3>. QED  BY <1>0, <3>1, <3>2
  <2>4. deployed' \subseteq Workers /\ saveFaults' \in 0..MaxSaveFaults
    BY <1>0, <1>8, <2>1 DEF SaveList, SaveListFails, Report
  <2>5. UNCHANGED <<global, items, ops, split>>
    BY <1>8 DEF SaveList, SaveListFails
  <2>. QED  BY <1>0, <2>2, <2>3, <2>4, <2>5 DEF DeployTyped
<1>9. ASSUME DeployRestart PROVE DeployTyped'
  <2>1. deployFile' \in Seq(Record) /\ saveFaults' \in 0..MaxSaveFaults
    <3>1. \A r \in Requests : Stage(r) = "unsaved" => items[handler[r].store] \in Seq(Record)
      BY <1>0, HandlerIs
    <3>2. <<>> \in Seq(Record)
      OBVIOUS
    <3>3. deployFile' = deployFile \/ deployFile' = <<>>
          \/ \E r \in Requests : Stage(r) = "unsaved" /\ deployFile' = items[handler[r].store]
      BY <1>9 DEF DeployRestart
    <3>4. saveFaults' = saveFaults \/ (saveFaults < MaxSaveFaults /\ saveFaults' = saveFaults + 1)
      BY <1>9 DEF DeployRestart
    <3>5. saveFaults' \in 0..MaxSaveFaults
      BY <1>0, <3>4
    <3>. QED  BY <1>0, <3>1, <3>2, <3>3, <3>5
  <2>2. /\ global' = NoStore /\ items' = [r \in Requests |-> <<>>]
        /\ handler' = [r \in Requests |-> NoRequest] /\ UNCHANGED <<ops, deployed, split>>
    BY <1>9 DEF DeployRestart
  <2>. QED  BY <1>0, <1>c, <2>1, <2>2 DEF DeployTyped
<1>10. CASE UNCHANGED deployVars
  BY <1>0, <1>10 DEF deployVars, DeployTyped
<1>. QED  BY <1>1, <1>2, <1>3, <1>4, <1>5, <1>6, <1>7, <1>8, <1>9, <1>10 DEF DeployNext

-----------------------------------------------------------------------------
\* What holds while the saves go through and one store was opened.
FileFollows == OneStore /\ Added /\ FileWithin /\ FileKeeps /\ FileSettled

\* A handler that only moves on, holding the store or done with it.
LEMMA MovesOn ==
  ASSUME DeployTyped, FileFollows, NEW r \in Requests, NEW h \in Handler, MoveTo(r, h),
         global # NoStore, Stage(r) \in {"idle", "opened"},
         h.step \in {"idle", "opened", "probing"}, h.step # "idle" => h.store = global,
         UNCHANGED <<global, items, deployFile, deployed>>
  PROVE  FileFollows'
<1>1. handler'[r] = h /\ \A d \in Requests \ {r} : handler'[d] = handler[d]
  BY MoveTyped
<1>2. OneStore'
  BY <1>1 DEF FileFollows, OneStore, Stage
<1>3. Added'
  BY <1>1 DEF FileFollows, Added, Stage
<1>4. FileWithin' /\ FileKeeps'
  BY DEF FileFollows, FileWithin, FileKeeps
<1>5. FileSettled'
  <2>1. Settled' => Settled
    BY <1>1 DEF Settled, Stage
  <2>2. List' = List
    BY DEF List
  <2>. QED  BY <2>1, <2>2 DEF FileFollows, FileSettled
<1>. QED  BY <1>2, <1>3, <1>4, <1>5 DEF FileFollows

\* A handler that changed the list and has yet to save.
LEMMA Touched ==
  ASSUME DeployTyped, FileFollows, NEW r \in Requests, Stage(r) \in {"opened", "probing"},
         handler'[r] = Unsaved(r),
         \A d \in Requests \ {r} : /\ handler'[d].step = handler[d].step
                                   /\ Stage(d) # "idle" => /\ handler'[d].kind = handler[d].kind
                                                           /\ handler'[d].id = handler[d].id
                                   /\ Stage(d) \in {"opened", "probing", "unsaved"} =>
                                         handler'[d].store = handler[d].store,
         UNCHANGED <<global, deployFile, deployed>>,
         IdsIn(items[global]) \subseteq IdsIn(items'[global]),
         handler[r].kind = "add" => handler[r].id \in IdsIn(items'[global])
  PROVE  FileFollows'
<1>1. global # NoStore /\ handler[r].store = global
  BY DEF FileFollows, OneStore
<1>2. /\ handler'[r].step = "unsaved" /\ handler'[r].store = global
      /\ handler'[r].kind = handler[r].kind /\ handler'[r].id = handler[r].id
  BY <1>1 DEF Unsaved
<1>3. \A d \in Requests : Stage(d) # "opening"
  BY <1>1 DEF FileFollows, OneStore
<1>4. OneStore'
  <2>. SUFFICES ASSUME NEW d \in Requests
                PROVE  /\ handler'[d].step # "opening"
                       /\ handler'[d].step \in {"opened", "probing", "unsaved"} =>
                            handler'[d].store = global
    BY <1>1 DEF OneStore, Stage
  <2>1. CASE d = r
    BY <1>2, <2>1
  <2>2. CASE d # r
    BY <1>3, <2>2 DEF FileFollows, OneStore, Stage
  <2>. QED  BY <2>1, <2>2
<1>5. Added'
  <2>. SUFFICES ASSUME NEW d \in Requests, handler'[d].step = "unsaved", handler'[d].kind = "add"
                PROVE  handler'[d].id \in IdsIn(items'[global])
    BY DEF Added, Stage, IdsIn
  <2>1. CASE d = r
    BY <1>2, <2>1
  <2>2. CASE d # r
    BY <2>2 DEF FileFollows, Added, Stage
  <2>. QED  BY <2>1, <2>2
<1>6. FileWithin' /\ FileKeeps'
  <2>1. IdsIn(deployFile) \subseteq IdsIn(items'[global]) /\ deployed \subseteq IdsIn(deployFile)
    BY <1>1 DEF FileFollows, FileWithin, FileKeeps
  <2>. QED  BY <2>1 DEF FileWithin, FileKeeps, IdsIn
<1>7. FileSettled'
  BY <1>2 DEF FileSettled, Settled, Stage
<1>. QED  BY <1>4, <1>5, <1>6, <1>7 DEF FileFollows

LEMMA BeginFollows ==
  ASSUME DeployTyped, FileFollows, NEW r \in Requests, Begin(r), ~split'
  PROVE  FileFollows'
<1>1. PICK kind \in Kinds, w \in Workers :
         \/ /\ global # NoStore
            /\ MoveTo(r, [step |-> "opened", kind |-> kind, id |-> w, store |-> global])
            /\ UNCHANGED <<items, split>>
         \/ /\ global = NoStore
            /\ MoveTo(r, [step |-> "opening", kind |-> kind, id |-> w])
            /\ items' = [items EXCEPT ![r] = deployFile]
            /\ split' = (split \/ \E s \in Requests : Stage(s) = "opening")
  BY DEF Begin
<1>2. Stage(r) = "idle" /\ UNCHANGED <<global, deployFile, deployed>>
  BY DEF Begin
<1>3. CASE global # NoStore
  <2>. DEFINE h == [step |-> "opened", kind |-> kind, id |-> w, store |-> global]
  <2>1. h \in Handler /\ h.step = "opened" /\ h.store = global
    BY <1>3 DEF DeployTyped, Handler
  <2>2. MoveTo(r, h) /\ UNCHANGED items
    BY <1>1, <1>3
  <2>. HIDE DEF h
  <2>. QED  BY <1>2, <1>3, <2>1, <2>2, MovesOn
<1>4. CASE global = NoStore
  <2>. DEFINE h == [step |-> "opening", kind |-> kind, id |-> w]
  <2>1. h \in Handler /\ h.step = "opening"
    BY DEF Handler
  <2>2. MoveTo(r, h) /\ items' = [items EXCEPT ![r] = deployFile]
    BY <1>1, <1>4
  <2>. HIDE DEF h
  <2>3. handler'[r] = h /\ \A d \in Requests \ {r} : handler'[d] = handler[d]
    BY <2>1, <2>2, MoveTyped
  <2>4. \A d \in Requests \ {r} : Stage(d) = "idle"
    <3>1. \A d \in Requests : Stage(d) # "opening"
      BY <1>1, <1>4
    <3>. QED  BY <1>4, <3>1, HandlerIs DEF FileFollows, OneStore
  <2>5. \A d \in Requests \ {r} : handler'[d].step = "idle"
    BY <2>3, <2>4 DEF Stage
  <2>6. items'[r] = deployFile
    BY <2>2 DEF DeployTyped
  <2>7. OneStore'
    BY <1>2, <1>4, <2>1, <2>3, <2>5, <2>6 DEF OneStore, Stage
  <2>8. Added'
    BY <2>1, <2>3, <2>5 DEF Added, Stage
  <2>9. FileWithin' /\ FileKeeps' /\ FileSettled'
    BY <1>2, <1>4 DEF FileFollows, FileWithin, FileKeeps, FileSettled, List
  <2>. QED  BY <2>7, <2>8, <2>9 DEF FileFollows
<1>. QED  BY <1>3, <1>4

LEMMA PublishFollows ==
  ASSUME DeploymentsAssumptions, DeployTyped, FileFollows, NEW r \in Requests, Publish(r)
  PROVE  FileFollows'
<1>. DEFINE h == [step |-> "opened", kind |-> handler[r].kind, id |-> handler[r].id, store |-> r]
<1>1. /\ Stage(r) = "opening" /\ global' = r /\ MoveTo(r, h)
      /\ UNCHANGED <<items, deployFile, deployed>>
  BY DEF Publish
<1>2. h \in Handler /\ h.step = "opened" /\ h.store = r
  BY <1>1, HandlerIs DEF Handler
<1>. HIDE DEF h
<1>3. handler'[r] = h /\ \A d \in Requests \ {r} : handler'[d] = handler[d]
  BY <1>1, <1>2, MoveTyped
<1>4. items[r] = deployFile /\ \A d \in Requests \ {r} : Stage(d) = "idle"
  BY <1>1 DEF FileFollows, OneStore
<1>5. \A d \in Requests \ {r} : handler'[d].step = "idle"
  BY <1>3, <1>4 DEF Stage
<1>6. r # NoStore
  BY DEF DeploymentsAssumptions
<1>7. OneStore'
  BY <1>1, <1>2, <1>3, <1>5, <1>6 DEF OneStore, Stage
<1>8. Added'
  BY <1>2, <1>3, <1>5 DEF Added, Stage
<1>9. FileWithin' /\ FileKeeps' /\ FileSettled'
  BY <1>1, <1>4, <1>6 DEF FileFollows, FileWithin, FileKeeps, FileSettled, List
<1>. QED  BY <1>7, <1>8, <1>9 DEF FileFollows

LEMMA ProbeFollows ==
  ASSUME DeployTyped, FileFollows, NEW r \in Requests,
         AddFails(r) \/ NotFound(r) \/ ProbePanics(r) \/ Probe(r)
  PROVE  FileFollows'
<1>1. /\ Stage(r) = "opened" /\ UNCHANGED <<global, items, deployFile, deployed>>
  BY DEF AddFails, NotFound, ProbePanics, Probe
<1>2. global # NoStore /\ handler[r].store = global /\ global \in Requests
  BY <1>1 DEF FileFollows, OneStore, DeployTyped
<1>3. CASE MoveTo(r, NoRequest)
  <2>1. NoRequest \in Handler /\ NoRequest.step = "idle"
    BY DEF Handler, NoRequest
  <2>. QED  BY <1>1, <1>2, <1>3, <2>1, MovesOn
<1>4. CASE Probe(r)
  <2>1. PICK n \in Places(handler[r].store, handler[r].id) :
          MoveTo(r, [step |-> "probing", kind |-> "check", id |-> handler[r].id,
                     store |-> handler[r].store, place |-> n, moved |-> FALSE])
    BY <1>4 DEF Probe
  <2>. DEFINE h == [step |-> "probing", kind |-> "check", id |-> handler[r].id,
                    store |-> handler[r].store, place |-> n, moved |-> FALSE]
  <2>2. n \in Nat /\ handler[r].id \in Workers
    <3>1. items[global] \in Seq(Record)
      BY <1>2 DEF DeployTyped
    <3>. QED  BY <1>1, <1>2, <2>1, <3>1, HandlerIs DEF Places
  <2>3. h \in Handler /\ h.step = "probing" /\ h.store = global
    BY <1>2, <2>2 DEF Handler
  <2>4. MoveTo(r, h)
    BY <2>1
  <2>. HIDE DEF h
  <2>. QED  BY <1>1, <1>2, <2>3, <2>4, MovesOn
<1>. QED  BY <1>3, <1>4 DEF AddFails, NotFound, ProbePanics

LEMMA AddFollows ==
  ASSUME DeployTyped, FileFollows, NEW r \in Requests, Add(r)
  PROVE  FileFollows'
<1>1. /\ Stage(r) = "opened" /\ UNCHANGED <<global, deployFile, deployed>>
      /\ items' = [items EXCEPT ![handler[r].store] = Append(@, New(handler[r].id))]
  BY DEF Add
<1>2. handler[r].store = global /\ global \in Requests /\ handler[r].id \in Workers
  BY <1>1, HandlerIs DEF FileFollows, OneStore, DeployTyped
<1>3. items[global] \in Seq(Record) /\ items'[global] = Append(items[global], New(handler[r].id))
  BY <1>1, <1>2 DEF DeployTyped
<1>4. /\ IdsIn(items[global]) \subseteq IdsIn(items'[global])
      /\ handler[r].id \in IdsIn(items'[global])
  BY <1>2, <1>3, Appended
<1>5. PICK moves \in BOOLEAN :
         handler' = [s \in Requests |->
           IF s = r THEN Unsaved(r)
           ELSE IF Stage(s) = "probing" /\ handler[s].store = handler[r].store /\ moves
             THEN [handler[s] EXCEPT !.moved = TRUE] ELSE handler[s]]
  BY DEF Add
<1>6. handler'[r] = Unsaved(r)
  BY <1>5
<1>7. ASSUME NEW d \in Requests \ {r}
      PROVE  /\ handler'[d].step = handler[d].step
             /\ Stage(d) # "idle" => /\ handler'[d].kind = handler[d].kind
                                     /\ handler'[d].id = handler[d].id
             /\ Stage(d) \in {"opened", "probing", "unsaved"} =>
                   handler'[d].store = handler[d].store
  <2>1. CASE Stage(d) = "probing"
    <3>1. handler[d] \in [step : {"probing"}, kind : {"check"}, id : Workers, store : Requests,
                          place : Nat, moved : BOOLEAN]
      <4>1. handler[d] \in Handler
        BY DEF DeployTyped
      <4>. QED  BY <2>1, <4>1 DEF Handler, Stage, NoRequest
    <3>2. handler'[d] = handler[d] \/ handler'[d] = [handler[d] EXCEPT !.moved = TRUE]
      BY <1>5
    <3>. QED  BY <3>1, <3>2
  <2>2. CASE Stage(d) # "probing"
    BY <1>5, <2>2
  <2>. QED  BY <2>1, <2>2
<1>. QED  BY <1>1, <1>4, <1>6, <1>7, Touched

\* The URL of a record, or its status, is changed.
LEMMA ChangeFollows ==
  ASSUME DeployTyped, FileFollows, NEW r \in Requests, PutURL(r) \/ Probed(r)
  PROVE  FileFollows'
<1>1. /\ Stage(r) \in {"opened", "probing"} /\ MoveTo(r, Unsaved(r)) /\ handler[r].kind # "add"
      /\ UNCHANGED <<global, deployFile, deployed>>
  BY HandlerIs DEF PutURL, Probed
<1>2. handler[r].store = global /\ global \in Requests
  BY <1>1 DEF FileFollows, OneStore, DeployTyped
<1>3. Unsaved(r) \in Handler
  BY <1>1, HandlerIs DEF Unsaved, Handler
<1>4. handler'[r] = Unsaved(r) /\ \A d \in Requests \ {r} : handler'[d] = handler[d]
  BY <1>1, <1>3, MoveTyped
<1>5. IdsIn(items'[global]) = IdsIn(items[global])
  <2>. DEFINE l == items[global]
  <2>1. l \in Seq(Record)
    BY <1>2 DEF DeployTyped
  <2>2. CASE PutURL(r)
    <3>1. PICK n \in Places(global, handler[r].id), url \in {"default", "custom"} :
            items' = [items EXCEPT ![global][n].url = url]
      BY <1>2, <2>2 DEF PutURL
    <3>. DEFINE x == [l[n] EXCEPT !.url = url]
    <3>2. n \in DOMAIN l
      BY <3>1 DEF Places
    <3>3. l[n] \in Record
      <4>. HIDE DEF l
      <4>. QED  BY <2>1, <3>2, RecordAt
    <3>4. x \in Record /\ x.id = l[n].id
      BY <3>3 DEF Record
    <3>5. items'[global] = [l EXCEPT ![n] = x]
      BY <1>2, <3>1 DEF DeployTyped
    <3>6. IdsIn([l EXCEPT ![n] = x]) = IdsIn(l)
      <4>. HIDE DEF l, x
      <4>. QED  BY <2>1, <3>2, <3>4, Changed
    <3>. QED  BY <3>5, <3>6
  <2>3. CASE Probed(r)
    <3>1. PICK status \in {"healthy", "unhealthy"} :
            items' = IF handler[r].moved THEN items
                     ELSE [items EXCEPT ![global][handler[r].place].status = status]
      BY <1>2, <2>3 DEF Probed
    <3>. DEFINE n == handler[r].place
                x == [l[n] EXCEPT !.status = status]
    <3>2. items' = items \/ items'[global] = [l EXCEPT ![n] = x]
      BY <1>2, <3>1 DEF DeployTyped
    <3>3. IdsIn([l EXCEPT ![n] = x]) = IdsIn(l)
      <4>1. CASE n \in DOMAIN l
        <5>1. l[n] \in Record
          <6>. HIDE DEF l, n
          <6>. QED  BY <2>1, <4>1, RecordAt
        <5>2. x \in Record /\ x.id = l[n].id
          BY <5>1 DEF Record
        <5>. HIDE DEF l, n, x
        <5>. QED  BY <2>1, <4>1, <5>2, Changed
      <4>2. CASE n \notin DOMAIN l
        <5>1. [l EXCEPT ![n] = x] = l
          <6>. HIDE DEF l, n, x
          <6>. QED  BY <2>1, <4>2, Untouched
        <5>. QED  BY <5>1
      <4>. QED  BY <4>1, <4>2
    <3>. QED  BY <3>2, <3>3
  <2>. QED  BY <2>2, <2>3
<1>. QED  BY <1>1, <1>4, <1>5, Touched

LEMMA SaveFollows ==
  ASSUME DeployTyped, FileFollows, NEW r \in Requests, SaveList(r)
  PROVE  FileFollows'
<1>1. /\ Stage(r) = "unsaved" /\ deployFile' = items[handler[r].store] /\ Report(r)
      /\ MoveTo(r, NoRequest) /\ UNCHANGED <<global, items>>
  BY DEF SaveList
<1>2. handler[r].store = global /\ global # NoStore
  BY <1>1 DEF FileFollows, OneStore
<1>3. NoRequest \in Handler /\ NoRequest.step = "idle"
  BY DEF Handler, NoRequest
<1>4. handler'[r] = NoRequest /\ \A d \in Requests \ {r} : handler'[d] = handler[d]
  BY <1>1, <1>3, MoveTyped
<1>5. OneStore'
  BY <1>1, <1>2, <1>3, <1>4 DEF FileFollows, OneStore, Stage
<1>6. Added'
  BY <1>1, <1>3, <1>4 DEF FileFollows, Added, Stage
<1>7. FileWithin' /\ FileSettled'
  BY <1>1, <1>2 DEF FileWithin, FileSettled, List
<1>8. FileKeeps'
  <2>1. deployed \subseteq IdsIn(items[global])
    BY <1>2 DEF FileFollows, FileKeeps, FileWithin
  <2>2. handler[r].kind = "add" => handler[r].id \in IdsIn(items[global])
    BY <1>1 DEF FileFollows, Added
  <2>3. deployed' \subseteq IdsIn(items[global])
    BY <1>1, <2>1, <2>2 DEF Report
  <2>4. deployFile' = items[global]
    BY <1>1, <1>2
  <2>. QED  BY <2>3, <2>4 DEF FileKeeps, IdsIn
<1>. QED  BY <1>5, <1>6, <1>7, <1>8 DEF FileFollows

LEMMA RestartFollows ==
  ASSUME DeployTyped, FileFollows, DeployRestart, UNCHANGED deployFile
  PROVE  FileFollows'
<1>1. /\ global' = NoStore /\ handler' = [r \in Requests |-> NoRequest] /\ UNCHANGED deployed
  BY DEF DeployRestart
<1>2. \A r \in Requests : handler'[r].step = "idle"
  BY <1>1 DEF NoRequest
<1>3. OneStore' /\ Added'
  BY <1>2 DEF OneStore, Added, Stage
<1>4. FileWithin' /\ FileKeeps' /\ FileSettled'
  BY <1>1 DEF FileFollows, FileWithin, FileKeeps, FileSettled, List
<1>. QED  BY <1>3, <1>4 DEF FileFollows

\* Every step keeps the invariant; one that ends smooth began smooth.
LEMMA NextDeployInv ==
  ASSUME DeploymentsAssumptions, DeployTyped, Smooth => FileFollows, [DeployNext]_deployVars
  PROVE  Smooth' => FileFollows'
<1>. SUFFICES ASSUME Smooth' PROVE FileFollows'
  OBVIOUS
<1>0. saveFaults' = 0 /\ ~split' /\ saveFaults \in Nat /\ split \in BOOLEAN
  BY DEF Smooth, DeployTyped
<1>1. ASSUME NEW r \in Requests, Begin(r) PROVE FileFollows'
  <2>1. Smooth
    BY <1>0, <1>1 DEF Begin, Smooth
  <2>. QED  BY <1>0, <1>1, <2>1, BeginFollows
<1>2. ASSUME NEW r \in Requests, Publish(r) PROVE FileFollows'
  <2>1. Smooth
    BY <1>0, <1>2 DEF Publish, Smooth
  <2>. QED  BY <1>2, <2>1, PublishFollows
<1>3. ASSUME NEW r \in Requests, AddFails(r) \/ NotFound(r) \/ ProbePanics(r) \/ Probe(r)
      PROVE  FileFollows'
  <2>1. Smooth
    BY <1>0, <1>3 DEF AddFails, NotFound, ProbePanics, Probe, Smooth
  <2>. QED  BY <1>3, <2>1, ProbeFollows
<1>4. ASSUME NEW r \in Requests, Add(r) PROVE FileFollows'
  <2>1. Smooth
    BY <1>0, <1>4 DEF Add, Smooth
  <2>. QED  BY <1>4, <2>1, AddFollows
<1>5. ASSUME NEW r \in Requests, PutURL(r) \/ Probed(r) PROVE FileFollows'
  <2>1. Smooth
    BY <1>0, <1>5 DEF PutURL, Probed, Smooth
  <2>. QED  BY <1>5, <2>1, ChangeFollows
<1>6. ASSUME NEW r \in Requests, SaveList(r) PROVE FileFollows'
  <2>1. Smooth
    BY <1>0, <1>6 DEF SaveList, Smooth
  <2>. QED  BY <1>6, <2>1, SaveFollows
<1>7. ASSUME NEW r \in Requests, SaveListFails(r) PROVE FALSE
  BY <1>0, <1>7 DEF SaveListFails
<1>8. ASSUME DeployRestart PROVE FileFollows'
  <2>1. Smooth /\ UNCHANGED deployFile
    BY <1>0, <1>8 DEF DeployRestart, Smooth
  <2>. QED  BY <1>8, <2>1, RestartFollows
<1>9. CASE UNCHANGED deployVars
  <2>1. Smooth /\ FileFollows
    BY <1>0, <1>9 DEF deployVars, Smooth
  <2>. QED
    BY <1>9, <2>1 DEF deployVars, FileFollows, OneStore, Added, FileWithin, FileKeeps,
                      FileSettled, Settled, List, Stage, IdsIn
<1>. QED  BY <1>1, <1>2, <1>3, <1>4, <1>5, <1>6, <1>7, <1>8, <1>9 DEF DeployNext

\* Where the store stands, whatever the requests do: every handler, list and record
\* is of its kind (Deployments).
THEOREM DeployTypeCorrect ==
  ASSUME DeploymentsAssumptions
  PROVE  DeploySpec => []DeployTyped
<1>1. DeployInit => DeployTyped
  <2>1. <<>> \in Seq(Record) /\ NoRequest \in Handler
    BY DEF Handler
  <2>. SUFFICES ASSUME DeployInit PROVE DeployTyped
    OBVIOUS
  <2>2. /\ items \in [Requests -> Seq(Record)] /\ handler \in [Requests -> Handler]
        /\ deployFile \in Seq(Record)
    BY <2>1 DEF DeployInit
  <2>3. ops \in 0..MaxOps /\ saveFaults \in 0..MaxSaveFaults
    BY DEF DeploymentsAssumptions, DeployInit
  <2>4. global \in Requests \cup {NoStore} /\ deployed \subseteq Workers /\ split \in BOOLEAN
    BY Zenon DEF DeployInit
  <2>. QED  BY <2>2, <2>3, <2>4 DEF DeployTyped
<1>2. DeployTyped /\ [DeployNext]_deployVars => DeployTyped'
  BY NextDeployTyped
<1>. QED  BY <1>1, <1>2, PTL DEF DeploySpec

\* DeployedStays: a deployment that was reported stays in the list, over restarts, and
\* once nobody has yet to save, the file holds the list; for any number of requests and
\* Workers, as long as no write failed and no two requests opened the store at once.
THEOREM ReportedStays ==
  ASSUME DeploymentsAssumptions
  PROVE  DeploySpec => []DeployedStays
<1>1. DeployInit => (Smooth => FileFollows)
  BY DEF DeploymentsAssumptions, DeployInit, FileFollows, OneStore, Added, FileWithin, FileKeeps,
         FileSettled, List, Stage, NoRequest
<1>2. DeployTyped /\ (Smooth => FileFollows) /\ [DeployNext]_deployVars
        => (Smooth' => FileFollows')
  BY NextDeployInv
<1>3. DeployTyped /\ (Smooth => FileFollows) => DeployedStays
  <2>. SUFFICES ASSUME DeployTyped, FileFollows
                PROVE  /\ \A w \in deployed : \E n \in DOMAIN List : List[n].id = w
                       /\ Settled => deployFile = List
    BY DEF DeployedStays, Smooth
  <2>1. deployed \subseteq IdsIn(List)
    BY DEF FileFollows, FileKeeps, FileWithin, List
  <2>. QED  BY <2>1 DEF FileFollows, FileSettled, IdsIn
<1>. QED  BY <1>1, <1>2, <1>3, DeployTypeCorrect, PTL DEF DeploySpec
=============================================================================
