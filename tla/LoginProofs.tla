----------------------------- MODULE LoginProofs -----------------------------
(***************************************************************************)
(* Proofs about module Login, for any number of logins, providers,         *)
(* verifiers and concurrent callbacks: a token is one of its own login, it *)
(* is handed out once, and the success page is honest.                     *)
(***************************************************************************)
EXTENDS Login, TLAPS

\* An id nobody has created has neither a session nor an answer.
FreshIsEmpty ==
    \A id \in Ids : client[id] = "none" => sess[id] = None /\ handed[id] = 0

\* A session with a provider to go to has a verifier.
ProviderHasVerifier ==
    \A id \in Ids :
        sess[id] # None /\ sess[id].provider \in Providers => sess[id].verifier \in Verifiers

\* A callback that runs has a code and a copy of a session; one whose exchange
\* succeeded brought a code of the copy's verifier.
CallbacksAreSane ==
    \A h \in Callbacks :
        cb[h].pc # "idle" => /\ cb[h].code \in issued
                             /\ cb[h].state \in Ids
                             /\ cb[h].verifier \in Verifiers
                             /\ cb[h].pc = "complete" => cb[h].code.verifier = cb[h].verifier

\* Verifier v is login id's: the session has it, a callback has copied it from
\* the session, or a code was issued under its challenge.
Bound(id, v) ==
    \/ sess[id] # None /\ sess[id].verifier = v
    \/ \E h \in Callbacks : cb[h].pc # "idle" /\ cb[h].state = id /\ cb[h].verifier = v
    \/ \E c \in issued : c.id = id /\ c.verifier = v

\* A verifier is one login's, however often the provider is chosen anew.
VerifierOfOneLogin ==
    \A v \in Verifiers : \A i \in Ids :
        Bound(i, v) => v \in used /\ \A j \in Ids : Bound(j, v) => i = j

\* A login whose token was handed out is over.
ConsumedIsOver ==
    \A id \in Ids : handed[id] <= 1 /\ (handed[id] > 0 => sess[id] = None /\ client[id] # "none")

\* While a callback runs, its session only disappears for a reason.
CallbackHasReason ==
    \A h \in Callbacks :
        cb[h].pc # "idle" => \/ sess[cb[h].state] # None
                             \/ handed[cb[h].state] > 0
                             \/ cb[h].state \in aged

\* The inductive invariant.
IInv ==
    /\ TypeOK
    /\ FreshIsEmpty
    /\ ProviderHasVerifier
    /\ CallbacksAreSane
    /\ VerifierOfOneLogin
    /\ TokenIsOfLogin
    /\ ConsumedIsOver
    /\ CallbackHasReason

-----------------------------------------------------------------------------
\* A step that gives no login a verifier keeps the verifiers apart.
LEMMA NothingBound ==
    ASSUME VerifierOfOneLogin, used \subseteq used',
           \A i \in Ids, v \in Verifiers : Bound(i, v)' => Bound(i, v)
    PROVE  VerifierOfOneLogin'
  BY DEF VerifierOfOneLogin

\* A step that gives one login a fresh verifier does so, too.
LEMMA FreshBound ==
    ASSUME VerifierOfOneLogin, NEW id \in Ids, NEW w \in Verifiers \ used,
           used' = used \cup {w},
           \A i \in Ids, v \in Verifiers : Bound(i, v)' => Bound(i, v) \/ (i = id /\ v = w)
    PROVE  VerifierOfOneLogin'
  BY DEF VerifierOfOneLogin

\* The invariant is kept by a step that changes the sessions only by deleting
\* some, for a reason, or by ending callbacks.
LEMMA DeletesInv ==
    ASSUME IInv, TypeOK',
           UNCHANGED <<used, issued>>, aged \subseteq aged',
           \A id \in Ids : sess'[id] \in {sess[id], None},
           \A h \in Callbacks : cb'[h] = cb[h] \/ cb'[h].pc = "idle",
           \A id \in Ids : client[id] # "none" => client'[id] # "none",
           \A id \in Ids : client'[id] = "none" => handed'[id] = handed[id],
           \A id \in Ids : \/ handed'[id] = handed[id]
                           \/ /\ handed[id] = 0 /\ handed'[id] = 1
                              /\ sess'[id] = None /\ client'[id] # "none",
           \A h \in Callbacks : cb'[h].pc # "idle" =>
               \/ sess'[cb[h].state] = sess[cb[h].state]
               \/ handed'[cb[h].state] > 0
               \/ cb[h].state \in aged'
    PROVE  IInv'
<1>1. FreshIsEmpty'
  BY DEF IInv, FreshIsEmpty
<1>2. ProviderHasVerifier'
  BY DEF IInv, ProviderHasVerifier
<1>3. CallbacksAreSane'
  BY DEF IInv, CallbacksAreSane
<1>4. VerifierOfOneLogin'
  <2>1. \A i \in Ids, v \in Verifiers : Bound(i, v)' => Bound(i, v)
    BY DEF Bound
  <2>2. QED
    BY <2>1, NothingBound DEF IInv
<1>5. TokenIsOfLogin'
  BY DEF IInv, TokenIsOfLogin
<1>6. ConsumedIsOver'
  BY DEF IInv, ConsumedIsOver, TypeOK
<1>7. CallbackHasReason'
  BY DEF IInv, CallbackHasReason, CallbacksAreSane, ConsumedIsOver, TypeOK
<1>8. QED
  BY <1>1, <1>2, <1>3, <1>4, <1>5, <1>6, <1>7 DEF IInv

\* The invariant is kept by creating a session that is pending or the dev token's.
LEMMA CreateInv ==
    ASSUME IInv, NEW id \in Ids, NEW p \in Providers \cup {"dev", None},
           NEW w \in Verifiers \cup {None}, NEW t \in {None, DevToken(id)},
           NEW src \in {"cli", "web"},
           Create(id, p, w, t, src),
           p \in Providers => w # None,
           \/ w = None /\ used' = used
           \/ w \in Verifiers \ used /\ used' = used \cup {w},
           UNCHANGED <<aged, issued, spent, cb, handed>>
    PROVE  IInv'
<1> USE LoginNoneAssumption, NilAssumption
<1> DEFINE s == [provider |-> p, verifier |-> w, token |-> t]
<1>1. /\ s \in AuthSession /\ s # None
      /\ s.provider = p /\ s.verifier = w /\ s.token = t
      /\ t # None => t.id = id
  BY DEF AuthSession, Tokens, DevToken
<1>2. /\ client[id] = "none" /\ sess[id] = None
      /\ sess' = [sess EXCEPT ![id] = s]
      /\ client' \in [Ids -> {"none", "cli", "web", "in", "out"}]
      /\ \A i \in Ids : client'[i] = "none" => client[i] = "none" /\ i # id
      /\ \A i \in Ids : client[i] # "none" => client'[i] # "none"
  BY DEF Create, IInv, TypeOK, FreshIsEmpty
<1> HIDE DEF s
<1>3. TypeOK'
  BY <1>1, <1>2 DEF IInv, TypeOK
<1>4. FreshIsEmpty'
  BY <1>2 DEF IInv, FreshIsEmpty, TypeOK
<1>5. ProviderHasVerifier'
  BY <1>1, <1>2 DEF IInv, ProviderHasVerifier, TypeOK
<1>6. CallbacksAreSane'
  BY DEF IInv, CallbacksAreSane
<1>7. VerifierOfOneLogin'
  <2>1. \A i \in Ids, v \in Verifiers : Bound(i, v)' => Bound(i, v) \/ (i = id /\ v = w)
    BY <1>1, <1>2 DEF Bound, IInv, TypeOK
  <2>2. CASE w = None
    BY <2>1, <2>2, NothingBound DEF IInv
  <2>3. CASE w # None
    BY <2>1, <2>3, FreshBound DEF IInv
  <2>4. QED
    BY <2>2, <2>3
<1>8. TokenIsOfLogin'
  BY <1>1, <1>2 DEF IInv, TokenIsOfLogin, TypeOK
<1>9. ConsumedIsOver'
  BY <1>2 DEF IInv, ConsumedIsOver, FreshIsEmpty, TypeOK
<1>10. CallbackHasReason'
  BY <1>1, <1>2 DEF IInv, CallbackHasReason, CallbacksAreSane, TypeOK
<1>11. QED
  BY <1>3, <1>4, <1>5, <1>6, <1>7, <1>8, <1>9, <1>10 DEF IInv

\* The invariant is kept by the three ways to start a login.
LEMMA StartInv ==
    ASSUME IInv, NEW id \in Ids, NEW p, NEW src \in {"cli", "web"},
           HandleAuthLogin(id, p, src) \/ HandleDevLogin(id, src) \/ HandleCLIStart(id)
    PROVE  IInv'
<1>1. CASE HandleAuthLogin(id, p, src)
  <2>1. PICK v \in Verifiers \ used : used' = used \cup {v} /\ Create(id, p, v, None, src)
    BY <1>1 DEF HandleAuthLogin
  <2>2. p \in Providers /\ v # None
    BY <1>1, LoginNoneAssumption DEF HandleAuthLogin
  <2>3. QED
    BY <1>1, <2>1, <2>2, CreateInv DEF HandleAuthLogin
<1>2. CASE HandleDevLogin(id, src)
  <2>1. Create(id, "dev", None, DevToken(id), src)
        /\ UNCHANGED <<aged, used, issued, spent, cb, handed>>
    BY <1>2 DEF HandleDevLogin, idpVars
  <2>2. /\ "dev" \in Providers \cup {"dev", None} /\ "dev" \notin Providers
        /\ None \in Verifiers \cup {None} /\ DevToken(id) \in {None, DevToken(id)}
    BY DevModeAssumption
  <2>3. QED
    BY <2>1, <2>2, CreateInv
<1>3. CASE HandleCLIStart(id)
  <2>1. Create(id, None, None, None, "cli")
        /\ UNCHANGED <<aged, used, issued, spent, cb, handed>>
    BY <1>3 DEF HandleCLIStart, idpVars
  <2>2. /\ None \in Providers \cup {"dev", None} /\ None \notin Providers
        /\ None \in Verifiers \cup {None} /\ None \in {None, DevToken(id)}
        /\ "cli" \in {"cli", "web"}
    BY LoginNoneAssumption
  <2>3. QED
    BY <2>1, <2>2, CreateInv
<1>4. QED
  BY <1>1, <1>2, <1>3

\* What a new provider leaves alone of the sessions.
LEMMA ChosenSession ==
    ASSUME TypeOK, NEW id \in Ids, sess[id] # None, NEW p \in Providers, NEW w \in Verifiers,
           sess' = [sess EXCEPT ![id].provider = p, ![id].verifier = w]
    PROVE  /\ sess' \in [Ids -> AuthSession \cup {None}]
           /\ \A i \in Ids : i # id => sess'[i] = sess[i]
           /\ sess'[id] # None /\ sess'[id].provider = p /\ sess'[id].verifier = w
           /\ sess'[id].token = sess[id].token
<1>1. sess[id] \in AuthSession /\ sess \in [Ids -> AuthSession \cup {None}]
  BY DEF TypeOK
<1>2. PICK s \in AuthSession : s = [sess[id] EXCEPT !.provider = p, !.verifier = w]
  BY <1>1 DEF AuthSession
<1>3. s # None /\ s.provider = p /\ s.verifier = w /\ s.token = sess[id].token
  BY <1>1, <1>2, NilAssumption DEF AuthSession
<1>4. sess' = [sess EXCEPT ![id] = s]
  BY <1>2
<1>5. QED
  BY <1>1, <1>3, <1>4

\* What a token leaves alone of the sessions.
LEMMA CompletedSession ==
    ASSUME TypeOK, NEW id \in Ids, sess[id] # None, NEW t \in Tokens,
           sess' = [sess EXCEPT ![id].token = t]
    PROVE  /\ sess' \in [Ids -> AuthSession \cup {None}]
           /\ \A i \in Ids : i # id => sess'[i] = sess[i]
           /\ sess'[id] # None /\ sess'[id].provider = sess[id].provider
           /\ sess'[id].verifier = sess[id].verifier
           /\ sess'[id].token = t
<1>1. sess[id] \in AuthSession /\ sess \in [Ids -> AuthSession \cup {None}]
  BY DEF TypeOK
<1>2. PICK s \in AuthSession : s = [sess[id] EXCEPT !.token = t]
  BY <1>1 DEF AuthSession
<1>3. /\ s # None /\ s.token = t /\ s.provider = sess[id].provider
      /\ s.verifier = sess[id].verifier
  BY <1>1, <1>2, NilAssumption DEF AuthSession
<1>4. sess' = [sess EXCEPT ![id] = s]
  BY <1>2
<1>5. QED
  BY <1>1, <1>3, <1>4

\* The invariant is kept by a choice of provider, the first or a later one.
LEMMA HandleCLIChooseInv ==
    ASSUME IInv, NEW id \in Ids, NEW p, HandleCLIChoose(id, p)
    PROVE  IInv'
<1> USE LoginNoneAssumption
<1>1. PICK w \in Verifiers \ used :
        /\ used' = used \cup {w}
        /\ sess' = [sess EXCEPT ![id].provider = p, ![id].verifier = w]
  BY DEF HandleCLIChoose
<1>2. /\ p \in Providers /\ sess[id] # None
      /\ UNCHANGED <<aged, issued, spent, cb, client, handed>>
  BY DEF HandleCLIChoose, Got, clientVars
<1>3. /\ sess' \in [Ids -> AuthSession \cup {None}]
      /\ \A i \in Ids : i # id => sess'[i] = sess[i]
      /\ sess'[id] # None /\ sess'[id].provider = p /\ sess'[id].verifier = w
      /\ sess'[id].token = sess[id].token
  BY <1>1, <1>2, ChosenSession DEF IInv
<1>4. TypeOK'
  BY <1>1, <1>2, <1>3 DEF IInv, TypeOK
<1>5. FreshIsEmpty' /\ ConsumedIsOver'
  BY <1>2, <1>3 DEF IInv, FreshIsEmpty, ConsumedIsOver
<1>6. ProviderHasVerifier'
  BY <1>2, <1>3 DEF IInv, ProviderHasVerifier
<1>7. CallbacksAreSane' /\ CallbackHasReason'
  BY <1>2, <1>3 DEF IInv, CallbacksAreSane, CallbackHasReason
<1>8. VerifierOfOneLogin'
  <2>1. \A i \in Ids, v \in Verifiers : Bound(i, v)' => Bound(i, v) \/ (i = id /\ v = w)
    BY <1>2, <1>3 DEF Bound
  <2>2. QED
    BY <1>1, <2>1, FreshBound DEF IInv
<1>9. TokenIsOfLogin'
  BY <1>2, <1>3 DEF IInv, TokenIsOfLogin
<1>10. QED
  BY <1>4, <1>5, <1>6, <1>7, <1>8, <1>9 DEF IInv

\* The invariant is kept by the provider issuing a code for the session.
LEMMA HandleAuthAuthorizeInv ==
    ASSUME IInv, NEW id \in Ids, HandleAuthAuthorize(id)
    PROVE  IInv'
<1> DEFINE c == [id |-> id, provider |-> sess[id].provider, verifier |-> sess[id].verifier]
<1>1. /\ c \in Codes /\ c.id = id /\ c.verifier = sess[id].verifier /\ sess[id] # None
      /\ issued' = issued \cup {c}
      /\ UNCHANGED <<sess, aged, used, spent, cb, client, handed>>
  BY DEF HandleAuthAuthorize, Got, Codes, IInv, ProviderHasVerifier, storeVars, clientVars
<1> HIDE DEF c
<1>2. TypeOK'
  BY <1>1 DEF IInv, TypeOK
<1>3. FreshIsEmpty' /\ ConsumedIsOver' /\ ProviderHasVerifier' /\ TokenIsOfLogin'
  BY <1>1 DEF IInv, FreshIsEmpty, ConsumedIsOver, ProviderHasVerifier, TokenIsOfLogin
<1>4. CallbacksAreSane' /\ CallbackHasReason'
  BY <1>1 DEF IInv, CallbacksAreSane, CallbackHasReason
<1>5. VerifierOfOneLogin'
  <2>1. \A i \in Ids, v \in Verifiers : Bound(i, v)' => Bound(i, v)
    BY <1>1 DEF Bound
  <2>2. QED
    BY <1>1, <2>1, NothingBound DEF IInv
<1>6. QED
  BY <1>2, <1>3, <1>4, <1>5 DEF IInv

\* The invariant is kept by a callback that copies a session.
LEMMA CallbackGetsInv ==
    ASSUME IInv, NEW h \in Callbacks, NEW code \in issued, NEW state \in Ids,
           CallbackGets(h, code, state)
    PROVE  IInv'
<1> DEFINE r == [pc |-> "exchange", code |-> code, state |-> state,
                 provider |-> sess[state].provider, verifier |-> sess[state].verifier]
<1>1. /\ sess[state] # None /\ sess[state].provider \in Providers
      /\ sess[state].verifier \in Verifiers
      /\ cb' = [cb EXCEPT ![h] = r]
      /\ UNCHANGED <<sess, aged, used, issued, spent, client, handed>>
  BY DEF CallbackGets, Got, IInv, ProviderHasVerifier, storeVars, idpVars, clientVars
<1>2. /\ r.pc = "exchange" /\ r.code = code /\ r.state = state
      /\ r.verifier = sess[state].verifier
      /\ r \in [pc : {"idle", "exchange", "complete"}, code : Codes \cup {None},
                state : Ids \cup {None}, provider : Providers \cup {None},
                verifier : Verifiers \cup {None}]
  BY <1>1 DEF IInv, TypeOK
<1> HIDE DEF r
<1>3. TypeOK'
  BY <1>1, <1>2 DEF IInv, TypeOK
<1>4. FreshIsEmpty' /\ ConsumedIsOver' /\ ProviderHasVerifier' /\ TokenIsOfLogin'
  BY <1>1 DEF IInv, FreshIsEmpty, ConsumedIsOver, ProviderHasVerifier, TokenIsOfLogin
<1>5. CallbacksAreSane' /\ CallbackHasReason'
  BY <1>1, <1>2 DEF IInv, TypeOK, CallbacksAreSane, CallbackHasReason
<1>6. VerifierOfOneLogin'
  <2>1. \A i \in Ids, v \in Verifiers : Bound(i, v)' => Bound(i, v)
    BY <1>1, <1>2 DEF Bound, IInv, TypeOK
  <2>2. QED
    BY <1>1, <2>1, NothingBound DEF IInv
<1>7. QED
  BY <1>3, <1>4, <1>5, <1>6 DEF IInv

\* The invariant is kept by a successful exchange.
LEMMA ExchangeInv ==
    ASSUME IInv, NEW h \in Callbacks, Exchange(h)
    PROVE  IInv'
<1>1. /\ cb[h].pc = "exchange" /\ cb[h].code \in issued
      /\ cb[h].code.verifier = cb[h].verifier
      /\ spent' = spent \cup {cb[h].code}
      /\ UNCHANGED <<sess, aged, used, issued, client, handed>>
  BY DEF Exchange, Redeemable, storeVars, clientVars, IInv, CallbacksAreSane
<1>2. /\ cb' \in [Callbacks -> [pc : {"idle", "exchange", "complete"},
                                code : Codes \cup {None}, state : Ids \cup {None},
                                provider : Providers \cup {None},
                                verifier : Verifiers \cup {None}]]
      /\ \A g \in Callbacks : g # h => cb'[g] = cb[g]
      /\ cb'[h].pc = "complete" /\ cb'[h].code = cb[h].code /\ cb'[h].state = cb[h].state
      /\ cb'[h].verifier = cb[h].verifier
  BY DEF Exchange, IInv, TypeOK
<1>3. TypeOK'
  BY <1>1, <1>2 DEF IInv, TypeOK
<1>4. FreshIsEmpty' /\ ConsumedIsOver' /\ ProviderHasVerifier' /\ TokenIsOfLogin'
  BY <1>1 DEF IInv, FreshIsEmpty, ConsumedIsOver, ProviderHasVerifier, TokenIsOfLogin
<1>5. CallbacksAreSane' /\ CallbackHasReason'
  BY <1>1, <1>2 DEF IInv, CallbacksAreSane, CallbackHasReason
<1>6. VerifierOfOneLogin'
  <2>1. \A i \in Ids, v \in Verifiers : Bound(i, v)' => Bound(i, v)
    BY <1>1, <1>2 DEF Bound
  <2>2. QED
    BY <1>1, <2>1, NothingBound DEF IInv
<1>7. QED
  BY <1>3, <1>4, <1>5, <1>6 DEF IInv

\* The end of a callback.
LEMMA EndedCallback ==
    ASSUME IInv, NEW h \in Callbacks, cb' = [cb EXCEPT ![h] = NoCallback]
    PROVE  /\ cb' \in [Callbacks -> [pc : {"idle", "exchange", "complete"},
                                     code : Codes \cup {None}, state : Ids \cup {None},
                                     provider : Providers \cup {None},
                                     verifier : Verifiers \cup {None}]]
           /\ \A g \in Callbacks : g # h => cb'[g] = cb[g]
           /\ cb'[h].pc = "idle"
  BY DEF NoCallback, IInv, TypeOK

\* The invariant is kept by a failed exchange.
LEMMA ExchangeFailsInv ==
    ASSUME IInv, NEW h \in Callbacks, ExchangeFails(h)
    PROVE  IInv'
<1>1. /\ cb[h].code \in issued
      /\ spent' \in {spent, spent \cup {cb[h].code}}
      /\ UNCHANGED <<sess, aged, used, issued, client, handed>>
      /\ cb' = [cb EXCEPT ![h] = NoCallback]
  BY DEF ExchangeFails, storeVars, clientVars, IInv, CallbacksAreSane
<1>2. TypeOK'
  BY <1>1, EndedCallback DEF IInv, TypeOK
<1>3. \A g \in Callbacks : cb'[g] = cb[g] \/ cb'[g].pc = "idle"
  BY <1>1, EndedCallback
<1>4. QED
  BY <1>1, <1>2, <1>3, DeletesInv

\* The invariant is kept by Complete: the code it stores was redeemed under the
\* verifier of the session the callback had read, so it is one of that login.
LEMMA CallbackCompletesInv ==
    ASSUME IInv, NEW h \in Callbacks, CallbackCompletes(h)
    PROVE  IInv'
<1> USE LoginNoneAssumption, NilAssumption
<1>1. PICK id \in Ids, c \in issued : id = cb[h].state /\ c = cb[h].code
  BY DEF CallbackCompletes, IInv, CallbacksAreSane
<1>2. /\ cb[h].pc = "complete"
      /\ UNCHANGED <<aged, used, issued, spent, client, handed>>
      /\ cb' = [cb EXCEPT ![h] = NoCallback]
      /\ sess' = IF sess[id] # None THEN [sess EXCEPT ![id].token = c] ELSE sess
  BY <1>1 DEF CallbackCompletes, Complete, idpVars, clientVars
<1>3. c \in Codes /\ c \in Tokens /\ c.verifier = cb[h].verifier /\ c.verifier \in Verifiers
  BY <1>1, <1>2 DEF IInv, TypeOK, CallbacksAreSane, Tokens, Codes
<1>4. c.id = id
  <2>1. Bound(id, c.verifier)
    BY <1>1, <1>2, <1>3 DEF Bound
  <2>2. Bound(c.id, c.verifier) /\ c.id \in Ids
    BY <1>3 DEF Bound, Codes
  <2>3. QED
    BY <1>3, <2>1, <2>2 DEF IInv, VerifierOfOneLogin
<1>5. /\ sess' \in [Ids -> AuthSession \cup {None}]
      /\ \A i \in Ids : (sess'[i] # None) <=> (sess[i] # None)
      /\ \A i \in Ids : sess[i] # None => /\ sess'[i].provider = sess[i].provider
                                          /\ sess'[i].verifier = sess[i].verifier
      /\ \A i \in Ids : sess[i] # None => sess'[i].token = IF i = id THEN c ELSE sess[i].token
  <2>1. CASE sess[id] # None
    <3>1. sess' = [sess EXCEPT ![id].token = c]
      BY <1>2, <2>1
    <3>2. /\ sess' \in [Ids -> AuthSession \cup {None}]
          /\ \A i \in Ids : i # id => sess'[i] = sess[i]
          /\ sess'[id] # None /\ sess'[id].provider = sess[id].provider
          /\ sess'[id].verifier = sess[id].verifier
          /\ sess'[id].token = c
      BY <1>3, <2>1, <3>1, CompletedSession DEF IInv
    <3>3. QED
      BY <2>1, <3>2
  <2>2. CASE sess[id] = None
    BY <1>2, <2>2 DEF IInv, TypeOK
  <2>3. QED
    BY <2>1, <2>2
<1>6. TypeOK'
  BY <1>2, <1>5, EndedCallback DEF IInv, TypeOK
<1>7. FreshIsEmpty' /\ ConsumedIsOver' /\ ProviderHasVerifier'
  BY <1>2, <1>5 DEF IInv, FreshIsEmpty, ConsumedIsOver, ProviderHasVerifier
<1>8. TokenIsOfLogin'
  BY <1>4, <1>5 DEF IInv, TokenIsOfLogin
<1>9. CallbacksAreSane' /\ CallbackHasReason'
  BY <1>2, <1>5, EndedCallback DEF IInv, CallbacksAreSane, CallbackHasReason
<1>10. VerifierOfOneLogin'
  <2>1. \A i \in Ids, v \in Verifiers : Bound(i, v)' => Bound(i, v)
    BY <1>2, <1>5, EndedCallback DEF Bound
  <2>2. QED
    BY <1>2, <2>1, NothingBound DEF IInv
<1>11. QED
  BY <1>6, <1>7, <1>8, <1>9, <1>10 DEF IInv

\* The invariant is kept by expiry, by the sweep and by the passing of time.
LEMMA ExpiryInv ==
    ASSUME IInv, cleanup \/ \E id \in Ids : GetExpired(id) \/ Age(id)
    PROVE  IInv'
<1>1. CASE cleanup
  <2>1. TypeOK'
    BY <1>1 DEF cleanup, idpVars, clientVars, IInv, TypeOK
  <2>2. QED
    BY <1>1, <2>1, DeletesInv DEF cleanup, idpVars, clientVars, IInv, CallbacksAreSane, TypeOK
<1>2. ASSUME NEW id \in Ids, GetExpired(id) PROVE IInv'
  <2>1. TypeOK'
    BY <1>2 DEF GetExpired, idpVars, clientVars, IInv, TypeOK
  <2>2. QED
    BY <1>2, <2>1, DeletesInv DEF GetExpired, idpVars, clientVars, IInv, TypeOK
<1>3. ASSUME NEW id \in Ids, Age(id) PROVE IInv'
  <2>1. TypeOK'
    BY <1>3 DEF Age, idpVars, clientVars, IInv, TypeOK
  <2>2. QED
    BY <1>3, <2>1, DeletesInv DEF Age, idpVars, clientVars, IInv, TypeOK
<1>4. QED
  BY <1>1, <1>2, <1>3

\* The invariant is kept by the polls and by a client that gives up.
LEMMA ClientInv ==
    ASSUME IInv, NEW id \in Ids, PollCompletes(id) \/ PollPending(id) \/ GiveUp(id)
    PROVE  IInv'
<1>1. CASE PollCompletes(id)
  <2>0. sess[id] # None /\ handed[id] = 0 /\ client[id] \in {"cli", "web"}
    BY <1>1 DEF PollCompletes, IInv, ConsumedIsOver, TypeOK
  <2>1. /\ sess' = [sess EXCEPT ![id] = None]
        /\ handed' = [handed EXCEPT ![id] = handed[id] + 1]
        /\ \E s \in {"cli", "in", "out"} : client' = [client EXCEPT ![id] = s]
        /\ UNCHANGED <<aged, used, issued, spent, cb>>
    BY <1>1, <2>0 DEF PollCompletes, NoToken, idpVars
  <2>2. TypeOK'
    BY <2>0, <2>1 DEF IInv, TypeOK
  <2>3. QED
    BY <2>0, <2>1, <2>2, DeletesInv DEF IInv, TypeOK
<1>2. CASE PollPending(id) \/ GiveUp(id)
  <2>1. /\ client[id] # "none"
        /\ \E s \in {"cli", "out"} : client' = [client EXCEPT ![id] = s]
        /\ UNCHANGED <<sess, aged, used, issued, spent, cb, handed>>
    BY <1>2 DEF PollPending, GiveUp, NoToken, idpVars, storeVars
  <2>2. TypeOK'
    BY <2>1 DEF IInv, TypeOK
  <2>3. QED
    BY <2>1, <2>2, DeletesInv DEF IInv, TypeOK
<1>3. QED
  BY <1>1, <1>2

\* The invariant is kept by a restart of the relay.
LEMMA RestartInv ==
    ASSUME IInv, Restart
    PROVE  IInv'
<1>1. TypeOK' /\ \A h \in Callbacks : cb'[h].pc = "idle"
  BY DEF Restart, NoCallback, idpVars, clientVars, IInv, TypeOK
<1>2. QED
  BY <1>1, DeletesInv DEF Restart, idpVars, clientVars

-----------------------------------------------------------------------------
\* Every step of the handlers, the providers and the clients keeps the invariant.
LEMMA StepInv == IInv /\ [Next]_vars => IInv'
<1> SUFFICES ASSUME IInv, [Next]_vars PROVE IInv'
  OBVIOUS
<1>1. ASSUME NEW id \in Ids, LoginStep(id) PROVE IInv'
  BY <1>1, StartInv, HandleCLIChooseInv, HandleAuthAuthorizeInv, ExpiryInv, ClientInv
     DEF LoginStep
<1>2. ASSUME NEW h \in Callbacks, CallbackStep(h) PROVE IInv'
  BY <1>2, CallbackGetsInv, ExchangeInv, ExchangeFailsInv, CallbackCompletesInv
     DEF CallbackStep
<1>3. CASE UNCHANGED vars
  BY <1>3 DEF vars, storeVars, idpVars, clientVars, IInv, TypeOK, FreshIsEmpty,
              ProviderHasVerifier, CallbacksAreSane, VerifierOfOneLogin, Bound,
              TokenIsOfLogin, ConsumedIsOver, CallbackHasReason
<1>4. QED
  BY <1>1, <1>2, <1>3, ExpiryInv, RestartInv DEF Next

\* The invariant holds of the empty store and every step keeps it.
LEMMA LoginInductive == Spec => []IInv
<1>1. Init => IInv
  BY DEF Init, NoCallback, IInv, TypeOK, FreshIsEmpty, ProviderHasVerifier,
         CallbacksAreSane, VerifierOfOneLogin, Bound, TokenIsOfLogin, ConsumedIsOver,
         CallbackHasReason
<1>2. QED
  BY <1>1, StepInv, PTL DEF Spec

\* Type correctness of the session store, the callbacks and the clients.
THEOREM LoginTypeOK == Spec => []TypeOK
<1>1. IInv => TypeOK
  BY DEF IInv
<1>2. QED
  BY <1>1, LoginInductive, PTL

\* A session only ever holds a token of its own login, whichever code and state
\* browsers bring to HandleAuthCallback: PKCE ties the code to the session.
THEOREM LoginTokenIsOfLogin == Spec => []TokenIsOfLogin
<1>1. IInv => TokenIsOfLogin
  BY DEF IInv
<1>2. QED
  BY <1>1, LoginInductive, PTL

\* Consume answers at most one poll of a session with its token, also when
\* callbacks complete it again afterwards.
THEOREM LoginHandedOnce == Spec => []HandedOnce
<1>1. IInv => HandedOnce
  BY DEF IInv, ConsumedIsOver, HandedOnce
<1>2. QED
  BY <1>1, LoginInductive, PTL

\* HandleAuthCallback ignores what Complete did and yet its success page is
\* honest: the token is there, was handed out already, or came after the TTL.
THEOREM LoginSuccessIsHonest == Spec => SuccessIsHonest
<1> DEFINE Honest(h) == CallbackCompletes(h)
                        => LET id == cb[h].state
                           IN  \/ sess'[id] # None /\ sess'[id].token # None
                               \/ handed[id] > 0
                               \/ id \in aged
<1>1. ASSUME IInv, NEW h \in Callbacks PROVE Honest(h)
  <2> SUFFICES ASSUME CallbackCompletes(h), sess[cb[h].state] # None
               PROVE  sess'[cb[h].state] # None /\ sess'[cb[h].state].token # None
    BY <1>1 DEF IInv, CallbackHasReason, CallbackCompletes
  <2>1. PICK id \in Ids, c \in Tokens : id = cb[h].state /\ c = cb[h].code
    BY <1>1 DEF CallbackCompletes, IInv, CallbacksAreSane, TypeOK, Tokens
  <2>2. sess[id] # None /\ sess' = [sess EXCEPT ![id].token = c]
    BY <2>1 DEF CallbackCompletes, Complete
  <2>3. sess'[id] # None /\ sess'[id].token = c
    BY <1>1, <2>2, CompletedSession DEF IInv
  <2>4. QED
    BY <2>1, <2>3, NilAssumption
<1>2. IInv /\ [Next]_vars => [\A h \in Callbacks : Honest(h)]_vars
  BY <1>1
<1>3. QED
  BY <1>2, LoginInductive, PTL DEF Spec, SuccessIsHonest
=============================================================================
