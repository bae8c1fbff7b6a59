------------------------------ MODULE PkceLogin ------------------------------
(***************************************************************************)
(* The login of an account (internal/web/server.go: startPKCE, pkceStatus, *)
(* callbackPKCE): a flow is a random state with a verifier; the person     *)
(* signs in at the identity provider, whose redirect, or a pasted URL,     *)
(* brings a code to callbackPKCE; the console polls the status meanwhile.  *)
(* callbackPKCE copies the flow, exchanges the code and files the account  *)
(* without the lock, and writes the copy back: callbacks of one flow, from *)
(* a reload or a paste, overlap with each other and with the expiry.       *)
(***************************************************************************)
EXTENDS Naturals, FiniteSets

CONSTANTS
    Flows,     \* states that startPKCE makes up
    Callbacks, \* callbacks under way at a time
    People,    \* who may sign in
    Codes,     \* bound: the codes the provider may issue, as <<flow, person>>
    Nil

ASSUME LoginAssumptions ==
    /\ Codes \subseteq Flows \X People
    /\ Nil \notin People \cup Flows \cup Codes \cup {"pending", "settled"}

VARIABLES
    pkce,  \* Server.pkce: per flow its entry, or Nil
    old,   \* the flows started more than ten minutes ago
    shown, \* per flow: what the console was told last, "pending" or an outcome
           \* ("settled": authenticated, error or expired); Nil before it started
    codes, \* the identity provider: codes it has issued
    spent, \* the identity provider: codes that were exchanged
    cb,    \* per callback: where it stands and what it holds
    filed, \* the accounts of the store
    ended, \* per flow: how the last callback to end did
    won    \* per flow: the people whose code was exchanged with its verifier

provider == <<codes, spent>>
loginVars == <<pkce, old, shown, codes, spent, cb, filed, ended, won>>

Entry   == [status : {"pending", "error", "authenticated"}, account : People \cup {Nil},
            error : BOOLEAN]
Started == [status |-> "pending", account |-> Nil, error |-> FALSE]
NoCallback == [pc |-> "idle", flow |-> Nil, code |-> Nil, p |-> Started, who |-> Nil]
InFlight   == [pc : {"exchange", "upsert", "done", "failed"}, flow : Flows, code : Codes,
               p : Entry, who : People \cup {Nil}]

LoginInit ==
    /\ pkce = [f \in Flows |-> Nil] /\ old = {} /\ shown = [f \in Flows |-> Nil]
    /\ codes = {} /\ spent = {}
    /\ cb = [b \in Callbacks |-> NoCallback]
    /\ filed = {} /\ ended = [f \in Flows |-> Nil] /\ won = [f \in Flows |-> {}]

-----------------------------------------------------------------------------
startPKCE(f) ==
    /\ shown[f] = Nil
    /\ pkce' = [pkce EXCEPT ![f] = Started] /\ shown' = [shown EXCEPT ![f] = "pending"]
    /\ UNCHANGED <<old, provider, cb, filed, ended, won>>

\* A person signs in: the provider issues a code for the challenge of the flow.
SignIn(code) ==
    /\ shown[code[1]] # Nil /\ code \notin codes
    /\ codes' = codes \cup {code}
    /\ UNCHANGED <<pkce, old, shown, spent, cb, filed, ended, won>>

Age(f) ==
    /\ shown[f] # Nil /\ old' = old \cup {f}
    /\ UNCHANGED <<pkce, shown, provider, cb, filed, ended, won>>

StatusOf(f) == IF pkce[f] = Started THEN "pending" ELSE "settled"

\* A slip: the status does not look at the age.
StatusKeepsOld(f) ==
    /\ shown[f] # Nil
    /\ shown' = [shown EXCEPT ![f] = StatusOf(f)]
    /\ UNCHANGED <<pkce, old, provider, cb, filed, ended, won>>

\* The console polls; a flow too old is forgotten.
pkceStatus(f) ==
    /\ shown[f] # Nil
    /\ \/ /\ pkce[f] # Nil /\ f \notin old
          /\ shown' = [shown EXCEPT ![f] = StatusOf(f)] /\ UNCHANGED pkce
       \/ /\ pkce[f] = Nil \/ f \in old
          /\ shown' = [shown EXCEPT ![f] = "settled"]
          /\ pkce' = [pkce EXCEPT ![f] = Nil]
    /\ UNCHANGED <<old, provider, cb, filed, ended, won>>

\* callbackPKCE copies a flow that is there and not too old; the code comes with
\* the state in one URL, or was pasted to another.
Callback(b, f, code) ==
    /\ cb[b] = NoCallback /\ pkce[f] # Nil /\ f \notin old /\ code \in codes
    /\ cb' = [cb EXCEPT ![b] =
                [pc |-> "exchange", flow |-> f, code |-> code, p |-> pkce[f], who |-> Nil]]
    /\ UNCHANGED <<pkce, old, shown, provider, filed, ended, won>>

Granted(b) ==
    /\ spent' = spent \cup {cb[b].code}
    /\ won' = [won EXCEPT ![cb[b].code[1]] = @ \cup {cb[b].code[2]}]
    /\ cb' = [cb EXCEPT ![b].pc = "upsert", ![b].who = cb[b].code[2]]

\* The provider grants a code once, to its verifier; its answer may be lost.
ExchangeCode(b) ==
    /\ cb[b].pc = "exchange"
    /\ \/ cb[b].code[1] = cb[b].flow /\ cb[b].code \notin spent /\ Granted(b)
       \/ /\ cb' = [cb EXCEPT ![b].pc = "failed"]
          /\ spent' \in {spent, spent \cup {cb[b].code}} /\ UNCHANGED won
    /\ UNCHANGED <<pkce, old, shown, codes, filed, ended>>

\* The account is filed, and saved or not.
Upsert(b) ==
    /\ cb[b].pc = "upsert"
    /\ filed' = filed \cup {cb[b].who}
    /\ \E pc \in {"done", "failed"} : cb' = [cb EXCEPT ![b].pc = pc]
    /\ UNCHANGED <<pkce, old, shown, provider, ended, won>>

\* The copy is written back, whatever the entry is by now.
WriteBack(b, how, p) ==
    /\ pkce' = [pkce EXCEPT ![cb[b].flow] = p]
    /\ ended' = [ended EXCEPT ![cb[b].flow] = how]
    /\ cb' = [cb EXCEPT ![b] = NoCallback]
    /\ UNCHANGED <<old, shown, provider, filed, won>>

\* The exchange or the save has failed, or both went well.
Fail(b) ==
    /\ cb[b].pc = "failed"
    /\ WriteBack(b, "error", [cb[b].p EXCEPT !.status = "error", !.error = TRUE])

\* A slip: only a flow that is still pending is authenticated.
FinishPending(b) ==
    /\ cb[b].pc = "done"
    /\ WriteBack(b, "authenticated",
         IF cb[b].p.status = "pending"
           THEN [cb[b].p EXCEPT !.status = "authenticated", !.account = cb[b].who] ELSE cb[b].p)

Finish(b) ==
    /\ cb[b].pc = "done"
    /\ WriteBack(b, "authenticated",
         [cb[b].p EXCEPT !.status = "authenticated", !.account = cb[b].who])

LoginNext ==
    \/ \E f \in Flows :
         \/ startPKCE(f) \/ Age(f) \/ pkceStatus(f)
         \/ \E b \in Callbacks, code \in Codes : Callback(b, f, code)
    \/ \E code \in Codes : SignIn(code)
    \/ \E b \in Callbacks : ExchangeCode(b) \/ Upsert(b) \/ Fail(b) \/ Finish(b)

LoginSpec == LoginInit /\ [][LoginNext]_loginVars

\* The console polls a flow it has started, time passes, and a callback ends.
FairSpec ==
    /\ LoginSpec
    /\ \A f \in Flows : WF_loginVars(Age(f)) /\ WF_loginVars(pkceStatus(f))
    /\ \A b \in Callbacks : WF_loginVars(ExchangeCode(b) \/ Upsert(b) \/ Fail(b) \/ Finish(b))

-----------------------------------------------------------------------------
\* Entries and callbacks are well formed, and a callback holds a person from its
\* exchange on.
LoginTyped ==
    /\ pkce \in [Flows -> Entry \cup {Nil}] /\ old \subseteq Flows
    /\ shown \in [Flows -> {"pending", "settled", Nil}]
    /\ codes \subseteq Codes /\ spent \subseteq codes
    /\ cb \in [Callbacks -> {NoCallback} \cup InFlight]
    /\ \A b \in Callbacks :
         /\ cb[b] # NoCallback => cb[b].code \in codes
         /\ cb[b].pc \in {"upsert", "done"} => cb[b].who \in People
    /\ filed \subseteq People /\ won \in [Flows -> SUBSET People]
    /\ ended \in [Flows -> {"authenticated", "error", Nil}]
    /\ \A f \in Flows : pkce[f] # Nil /\ pkce[f].status = "error" => pkce[f].error

\* What the console is told of a login is what became of it: "authenticated" names
\* an account that is in the store and that signed in over this very flow; and the
\* status of a flow is the outcome of its last callback to end, whatever copies the
\* others wrote back, or the flow is gone.
ToldTruly ==
    \A f \in Flows : pkce[f] # Nil =>
      /\ pkce[f].account # Nil => pkce[f].account \in filed \cap won[f]
      /\ ended[f] # Nil => pkce[f].status = ended[f]

\* A console that keeps polling is told an outcome, or that the flow expired,
\* although the person may never come back from the provider.
PollSettles ==
    \A f \in Flows : shown[f] = "pending" ~> shown[f] # "pending"
=============================================================================
