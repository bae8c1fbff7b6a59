------------------------------ MODULE ApiKeys ------------------------------
(***************************************************************************)
(* internal/web/keys.go and the handlers over it (adminKeys, validAPIKey   *)
(* of server.go): the keys a request to /v1/ is admitted with, held in     *)
(* memory and in api-keys.json.  Every operation runs under one lock and   *)
(* writes the whole file in place, the admission of a request included.    *)
(* A write may fail, and the process may end in the middle of one.  The    *)
(* file holds its own path, and reading it sets the path of later writes.  *)
(***************************************************************************)
EXTENDS Naturals

CONSTANTS
    Keys,      \* the keys that can be made
    MaxFaults  \* bound: writes that fail or are cut off

\* What is assumed of the constants.
KeysAssumptions == MaxFaults \in Nat

VARIABLES
    keys,    \* apiKeyStore.Keys, by key
    keyFile, \* what api-keys.json, in the place M365_API_KEYS names, would be read as
    astray,  \* apiKeyStore.Path is another place, from where the file was moved
    told,    \* what the console was last told of a key
    ever,    \* the keys that were ever in memory (history)
    faults   \* writes that failed or were cut off

keyVars == <<keys, keyFile, astray, told, ever, faults>>

Records == [Keys -> {"absent", "live", "revoked"}]

\* A missing file and one that was cut off are read alike: as no keys at all.
NoKeys == [k \in Keys |-> "absent"]

Told == {"nothing", "failed", "created", "revoked"}

KeysTyped ==
    /\ keys \in Records /\ keyFile \in Records
    /\ told \in [Keys -> Told]
    /\ ever \subseteq Keys /\ astray \in BOOLEAN
    /\ faults \in 0..MaxFaults

KeysInit ==
    /\ keys = NoKeys /\ keyFile = NoKeys /\ astray = FALSE
    /\ told = [k \in Keys |-> "nothing"] /\ ever = {} /\ faults = 0

Put(k, s) == [keys EXCEPT ![k] = s]
Seen(r)   == ever' = ever \cup {k \in Keys : r[k] # "absent"}
Tell(k, t) == told' = [told EXCEPT ![k] = t]

-----------------------------------------------------------------------------
\* save: os.WriteFile truncates the file at Path and writes it anew.
Saved(r) ==
    /\ keyFile' = IF astray THEN keyFile ELSE r
    /\ UNCHANGED <<astray, faults>>

\* It fails before the file is touched, in between, or after.
NotSaved(r) ==
    /\ faults < MaxFaults /\ faults' = faults + 1
    /\ keyFile' \in IF astray THEN {keyFile} ELSE {keyFile, NoKeys, r}
    /\ UNCHANGED astray

\* create: the record is appended, the file written, and the record taken back
\* when that fails.
Create(k) ==
    /\ told[k] = "nothing"
    /\ \/ /\ Saved(Put(k, "live"))
          /\ keys' = Put(k, "live") /\ Tell(k, "created")
       \/ /\ NotSaved(Put(k, "live"))
          /\ UNCHANGED keys /\ Tell(k, "failed")
    /\ Seen(keys')

\* A slip: the file is left for the next request to write.
RevokeUnsaved(k) ==
    /\ keys[k] = "live"
    /\ keys' = Put(k, "revoked") /\ Tell(k, "revoked")
    /\ UNCHANGED <<keyFile, astray, ever, faults>>

\* revoke: a key that is not live is not found; the mark is taken off again when
\* the file cannot be written.
Revoke(k) ==
    /\ keys[k] = "live"
    /\ \/ /\ Saved(Put(k, "revoked"))
          /\ keys' = Put(k, "revoked") /\ Tell(k, "revoked")
       \/ /\ NotSaved(Put(k, "revoked"))
          /\ UNCHANGED <<keys, told>>
    /\ UNCHANGED ever

\* valid: a request with a live key is admitted, and the time of it is written
\* with everything else; an error of that write is dropped.
Use(k) ==
    /\ keys[k] = "live"
    /\ Saved(keys) \/ NotSaved(keys)
    /\ UNCHANGED <<keys, told, ever>>

\* openAPIKeys, after the process ended between two operations ...
Reopen ==
    /\ keys' = keyFile /\ Seen(keyFile)
    /\ UNCHANGED <<keyFile, astray, told, faults>>

\* ... or to take the file to a new place, which M365_API_KEYS then names: unless the
\* file is missing or does not decode, it sets Path to the old place.
Move ==
    /\ keys' = keyFile /\ Seen(keyFile)
    /\ astray' = (keyFile # NoKeys)
    /\ UNCHANGED <<keyFile, told, faults>>

\* ... or in the middle of the write of one, whose caller gets no answer.
CrashInWrite ==
    /\ \E k \in Keys :
         \/ told[k] = "nothing" /\ NotSaved(Put(k, "live")) /\ Tell(k, "failed")
         \/ keys[k] = "live" /\ NotSaved(Put(k, "revoked")) /\ UNCHANGED told
         \/ keys[k] = "live" /\ NotSaved(keys) /\ UNCHANGED told
    /\ keys' = keyFile' /\ Seen(keyFile')

KeysNext ==
    \/ \E k \in Keys : Create(k) \/ Revoke(k) \/ Use(k)
    \/ Reopen \/ Move \/ CrashInWrite

KeysSpec == KeysInit /\ [][KeysNext]_keyVars

-----------------------------------------------------------------------------
\* A key that was in memory once and is no more was lost with the file.
Status(k) == IF keys[k] # "absent" THEN keys[k]
             ELSE IF k \in ever THEN "gone" ELSE "unissued"

Statuses == [k \in Keys |-> Status(k)]
\* An attempt to make a key that failed leaves it as it was, to its users.
Heard    == [k \in Keys |-> IF told[k] = "failed" THEN "nothing" ELSE told[k]]

Promise == INSTANCE KeyPromise WITH
             status <- Statuses, told <- Heard, trouble <- faults > 0, moved <- astray

\* The keys keep their promise: a key whose revocation was reported is never
\* accepted again, over restarts and whatever the disk did to the file that every
\* request rewrites; and without such trouble a key is accepted exactly from the
\* report of its creation to that of its revocation.  The exception is a file that
\* was taken to another place: nothing is written to it any more, and a restart
\* goes back behind what was reported since.
KeysPromiseKept == Promise!Spec
=============================================================================
