-------------------------------- MODULE Login --------------------------------
(***************************************************************************)
(* Relay-mediated sign-in: the in-memory auth sessions                     *)
(* (MemoryAuthSessionStore), the handlers of /api/auth/* that work on them *)
(* (login, cli-start, cli-choose, authorize, callback, poll), and the two  *)
(* clients that wait for a token: the CLI polls until its deadline, the    *)
(* web app polls once when its page loads again.                           *)
(*                                                                         *)
(* A callback talks to the identity provider between its two visits to the *)
(* store, so callbacks, polls, a second choice of provider, expiry and a   *)
(* restart interleave there.  The provider is external: it redeems a code  *)
(* once, for the PKCE verifier whose challenge the code was issued under.  *)
(***************************************************************************)
EXTENDS Naturals

CONSTANTS
    Ids,         \* session ids (nanoids, never reused)
    Providers,   \* the configured identity providers
    Verifiers,   \* code verifiers generateCodeVerifier may return
    Callbacks,   \* callback requests at once
    devMode,     \* the relay runs with --dev
    None

ASSUME LoginNoneAssumption == None \notin Ids \cup Providers \cup Verifiers
ASSUME DevModeAssumption == devMode \in BOOLEAN /\ "dev" \notin Providers

VARIABLES
    sess,     \* MemoryAuthSessionStore.sessions
    aged,     \* ids created more than the TTL ago
    used,     \* verifiers generated so far
    issued,   \* authorization codes the providers have issued
    spent,    \* codes redeemed
    cb,       \* callback handlers: program counter, input, copy of the session
    client,   \* who waits for the session's token, or what became of them
    handed    \* history: polls of the id answered "complete"

storeVars == <<sess, aged>>
idpVars == <<used, issued, spent>>
clientVars == <<client, handed>>
vars == <<storeVars, idpVars, cb, clientVars>>

\* A code carries what the provider bound it to: the authorize request's state
\* (the session), its provider and its challenge.  The token it is redeemed for
\* is named by the code; the dev token is one as well.
Codes == [id : Ids, provider : Providers, verifier : Verifiers]
DevToken(id) == [id |-> id, provider |-> "dev", verifier |-> None]
Tokens == Codes \cup {DevToken(id) : id \in Ids}

AuthSession == [provider : Providers \cup {"dev", None},
                verifier : Verifiers \cup {None},
                token : Tokens \cup {None}]

ASSUME NilAssumption == None \notin Tokens \cup AuthSession

NoCallback == [pc |-> "idle", code |-> None, state |-> None, provider |-> None,
               verifier |-> None]

TypeOK ==
    /\ sess \in [Ids -> AuthSession \cup {None}]
    /\ aged \subseteq Ids
    /\ used \subseteq Verifiers
    /\ issued \subseteq Codes
    /\ spent \subseteq issued
    /\ cb \in [Callbacks -> [pc : {"idle", "exchange", "complete"},
                             code : Codes \cup {None},
                             state : Ids \cup {None},
                             provider : Providers \cup {None},
                             verifier : Verifiers \cup {None}]]
    /\ client \in [Ids -> {"none", "cli", "web", "in", "out"}]
    /\ handed \in [Ids -> Nat]

Init ==
    /\ sess = [id \in Ids |-> None]
    /\ aged = {}
    /\ used = {}
    /\ issued = {}
    /\ spent = {}
    /\ cb = [h \in Callbacks |-> NoCallback]
    /\ client = [id \in Ids |-> "none"]
    /\ handed = [id \in Ids |-> 0]

-----------------------------------------------------------------------------
(* MemoryAuthSessionStore.                                                  *)

\* Create: the id is fresh.  The response with the id may be lost on its way.
Create(id, provider, verifier, token, source) ==
    /\ client[id] = "none"
    /\ sess' = [sess EXCEPT ![id] = [provider |-> provider, verifier |-> verifier,
                                     token |-> token]]
    /\ \E s \in {source, "out"} : client' = [client EXCEPT ![id] = s]

\* Get returns the session.
Got(id) == sess[id] # None /\ id \notin aged

\* Get finds an expired session and deletes it; the handler answers with an error.
GetExpired(id) ==
    /\ sess[id] # None
    /\ id \in aged
    /\ sess' = [sess EXCEPT ![id] = None]
    /\ UNCHANGED <<aged, idpVars, cb, clientVars>>

\* Mutant: the copy a callback holds is written back, present or not.
CompletePutsBack(id, token) ==
    [sess EXCEPT ![id] = [provider |-> token.provider, verifier |-> token.verifier,
                          token |-> token]]

\* The sessions after Complete: only a session that is still there is completed.
Complete(id, token) ==
    IF sess[id] # None THEN [sess EXCEPT ![id].token = token] ELSE sess

\* Mutant: only sessions nobody has completed are collected.
cleanupIncomplete ==
    /\ \E id \in aged : sess[id] # None /\ sess[id].token = None
    /\ sess' = [id \in Ids |-> IF id \in aged /\ sess[id] # None /\ sess[id].token = None
                               THEN None ELSE sess[id]]
    /\ UNCHANGED <<aged, idpVars, cb, clientVars>>

\* The cleanup goroutine's tick.
cleanup ==
    /\ \E id \in aged : sess[id] # None
    /\ sess' = [id \in Ids |-> IF id \in aged THEN None ELSE sess[id]]
    /\ UNCHANGED <<aged, idpVars, cb, clientVars>>

\* Time: the session's TTL passes.
Age(id) ==
    /\ client[id] # "none"
    /\ id \notin aged
    /\ aged' = aged \cup {id}
    /\ UNCHANGED <<sess, idpVars, cb, clientVars>>

-----------------------------------------------------------------------------
(* Starting a login.                                                         *)

\* POST /api/auth/login with a configured provider; any other name is refused.
HandleAuthLogin(id, p, source) ==
    /\ p \in Providers
    /\ \E v \in Verifiers \ used :
          /\ used' = used \cup {v}
          /\ Create(id, p, v, None, source)
    /\ UNCHANGED <<aged, issued, spent, cb, handed>>

\* The same with provider "dev": the session is born completed.
HandleDevLogin(id, source) ==
    /\ devMode
    /\ Create(id, "dev", None, DevToken(id), source)
    /\ UNCHANGED <<aged, idpVars, cb, handed>>

\* POST /api/auth/cli-start: the provider is chosen later, in the browser.
HandleCLIStart(id) ==
    /\ Create(id, None, None, None, "cli")
    /\ UNCHANGED <<aged, idpVars, cb, handed>>

\* Mutant: the provider's name is taken from the form unchecked.
HandleCLIChooseAny(id, p) ==
    /\ Got(id)
    /\ \E v \in Verifiers \ used :
          /\ used' = used \cup {v}
          /\ sess' = [sess EXCEPT ![id].provider = p, ![id].verifier = v]
    /\ UNCHANGED <<aged, issued, spent, cb, clientVars>>

\* POST /api/auth/cli-choose, also a second time with another provider.  The
\* handler keeps nothing of its Get but that there is a session, and SetProvider
\* leaves a missing one alone, so the two locked steps are one here.
HandleCLIChoose(id, p) ==
    /\ p \in Providers
    /\ Got(id)
    /\ \E v \in Verifiers \ used :
          /\ used' = used \cup {v}
          /\ sess' = [sess EXCEPT ![id].provider = p, ![id].verifier = v]
    /\ UNCHANGED <<aged, issued, spent, cb, clientVars>>

\* GET /api/auth/authorize redirects with the session's challenge; the user
\* signs in at the provider, which issues a code.
HandleAuthAuthorize(id) ==
    /\ Got(id)
    /\ sess[id].provider \in Providers
    /\ issued' = issued \cup {[id |-> id, provider |-> sess[id].provider,
                               verifier |-> sess[id].verifier]}
    /\ UNCHANGED <<storeVars, used, spent, cb, clientVars>>

-----------------------------------------------------------------------------
(* /api/auth/callback.                                                       *)

\* The browser arrives with a code and a state, not necessarily of one login
\* (two tabs, a reloaded page), and the handler copies the session.  Without
\* one, or with a provider that has no token endpoint, it ends here.
CallbackGets(h, code, state) ==
    /\ cb[h].pc = "idle"
    /\ Got(state)
    /\ sess[state].provider \in Providers
    /\ cb' = [cb EXCEPT ![h] = [pc |-> "exchange", code |-> code, state |-> state,
                                provider |-> sess[state].provider,
                                verifier |-> sess[state].verifier]]
    /\ UNCHANGED <<storeVars, idpVars, clientVars>>

\* The provider redeems the code (external): once, under the right verifier.
Redeemable(h) ==
    /\ cb[h].code \notin spent
    /\ cb[h].code.provider = cb[h].provider
    /\ cb[h].code.verifier = cb[h].verifier

\* Mutant: the exchange does not send the session's verifier.
ExchangeWithoutPKCE(h) ==
    /\ cb[h].pc = "exchange"
    /\ cb[h].code \notin spent
    /\ cb[h].code.provider = cb[h].provider
    /\ spent' = spent \cup {cb[h].code}
    /\ cb' = [cb EXCEPT ![h].pc = "complete"]
    /\ UNCHANGED <<storeVars, used, issued, clientVars>>

\* The token exchange succeeds.
Exchange(h) ==
    /\ cb[h].pc = "exchange"
    /\ Redeemable(h)
    /\ spent' = spent \cup {cb[h].code}
    /\ cb' = [cb EXCEPT ![h].pc = "complete"]
    /\ UNCHANGED <<storeVars, used, issued, clientVars>>

\* It fails: refused, or the provider's answer is lost after it took the code.
ExchangeFails(h) ==
    /\ cb[h].pc = "exchange"
    /\ \/ UNCHANGED spent
       \/ Redeemable(h) /\ spent' = spent \cup {cb[h].code}
    /\ cb' = [cb EXCEPT ![h] = NoCallback]
    /\ UNCHANGED <<storeVars, used, issued, clientVars>>

\* The token is stored and the browser is sent on: to the app, or to the page
\* that says "Authentication Complete".
CallbackCompletes(h) ==
    /\ cb[h].pc = "complete"
    /\ sess' = Complete(cb[h].state, cb[h].code)
    /\ cb' = [cb EXCEPT ![h] = NoCallback]
    /\ UNCHANGED <<aged, idpVars, clientVars>>

-----------------------------------------------------------------------------
(* /api/auth/poll and the clients.                                           *)

\* What a client whose poll brought no token does: the CLI polls again, the web
\* app has already forgotten the session and shows the sign-in page.
NoToken(id) == IF client[id] = "web" THEN "out" ELSE client[id]

\* Consume: the session is deleted with the answer, which may be lost.
PollCompletes(id) ==
    /\ client[id] \in {"cli", "web"}
    /\ sess[id] # None
    /\ sess[id].token # None
    /\ sess' = [sess EXCEPT ![id] = None]
    /\ handed' = [handed EXCEPT ![id] = @ + 1]
    /\ \E s \in {"in", NoToken(id)} : client' = [client EXCEPT ![id] = s]
    /\ UNCHANGED <<aged, idpVars, cb>>

\* Mutant: Consume removes the session whether or not it was completed.
PollPendingDeletes(id) ==
    /\ client[id] \in {"cli", "web"}
    /\ sess[id] # None => sess[id].token = None
    /\ sess' = [sess EXCEPT ![id] = None]
    /\ client' = [client EXCEPT ![id] = NoToken(id)]
    /\ UNCHANGED <<aged, idpVars, cb, handed>>

\* "pending": not completed yet, or unknown, expired or consumed.
PollPending(id) ==
    /\ client[id] \in {"cli", "web"}
    /\ sess[id] # None => sess[id].token = None
    /\ client' = [client EXCEPT ![id] = NoToken(id)]
    /\ UNCHANGED <<storeVars, idpVars, cb, handed>>

\* BrowserLogin's five minutes are over, or the user interrupts it.
GiveUp(id) ==
    /\ client[id] = "cli"
    /\ client' = [client EXCEPT ![id] = "out"]
    /\ UNCHANGED <<storeVars, idpVars, cb, handed>>

-----------------------------------------------------------------------------
\* The relay restarts: sessions and requests are lost, the clients do not know.
Restart ==
    /\ sess' = [id \in Ids |-> None]
    /\ cb' = [h \in Callbacks |-> NoCallback]
    /\ UNCHANGED <<aged, idpVars, clientVars>>

LoginStep(id) ==
    \/ \E p \in Providers \cup {"unknown"}, s \in {"cli", "web"} : HandleAuthLogin(id, p, s)
    \/ \E s \in {"cli", "web"} : HandleDevLogin(id, s)
    \/ HandleCLIStart(id)
    \/ \E p \in Providers \cup {"unknown"} : HandleCLIChoose(id, p)
    \/ HandleAuthAuthorize(id)
    \/ GetExpired(id)
    \/ Age(id)
    \/ PollCompletes(id)
    \/ PollPending(id)
    \/ GiveUp(id)

CallbackStep(h) ==
    \/ \E code \in issued, state \in Ids : CallbackGets(h, code, state)
    \/ Exchange(h)
    \/ ExchangeFails(h)
    \/ CallbackCompletes(h)

Next ==
    \/ \E id \in Ids : LoginStep(id)
    \/ \E h \in Callbacks : CallbackStep(h)
    \/ cleanup
    \/ Restart

Spec == Init /\ [][Next]_vars

\* Time passes and the cleanup ticker ticks.
FairSpec == Spec /\ WF_vars(cleanup) /\ \A id \in Ids : WF_vars(Age(id))

-----------------------------------------------------------------------------
(* Properties.                                                               *)

\* The token a poll will be answered with is one of that very login: a code that the browser
\* brings back for one session never signs another one in, whichever session
\* the callback names and however often the provider is chosen anew
\* (HandleAuthCallback sends the session's own verifier).
TokenIsOfLogin ==
    \A id \in Ids :
        sess[id] # None /\ sess[id].token # None => sess[id].token.id = id

\* A session's token is handed out once: a callback that returns after the poll
\* does not bring the session back (Consume deletes, Complete only updates).
HandedOnce ==
    \A id \in Ids : handed[id] <= 1

\* The success page is honest: when a callback finishes, the session holds a
\* token for its client, or the client was answered already, or the login had
\* outlived its TTL (HandleAuthCallback ignores what Complete did).
SuccessIsHonest ==
    [][\A h \in Callbacks :
         CallbackCompletes(h)
         => LET id == cb[h].state
            IN  \/ sess'[id] # None /\ sess'[id].token # None
                \/ handed[id] > 0
                \/ id \in aged]_vars

\* No session stays in memory forever, whatever its client and its callbacks do
\* (NewMemoryAuthSessionStore's cleanup).
SessionsExpire ==
    \A id \in Ids : sess[id] # None ~> [](sess[id] = None)
=============================================================================
