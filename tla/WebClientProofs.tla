--------------------------- MODULE WebClientProofs ---------------------------
(***************************************************************************)
(* Proofs about the web application.  Module WebClient, for any number of  *)
(* views and host keys: no credential goes to a host key the user has not  *)
(* accepted, and no prompt is left without the goroutine that waits for    *)
(* its answer.  Module MachinesPage, whose variables are others, for any   *)
(* number of users, machines and requests: nobody sees another user's      *)
(* machines.                                                               *)
(***************************************************************************)
EXTENDS WebClient, MachinesPage, TLAPS

\* Before connect has created it there is no socket, and before the form is
\* submitted there is no connection.
NoSocketYet ==
    \A v \in Views : /\ view[v] = "form" => pc[v] = "idle"
                     /\ pc[v] \in {"idle", "load"} => ws[v] = "none"

\* What localStorage has pinned was accepted once, in whichever view.
PinIsAccepted == pin # None => pin \in accepted

\* A connection that asks about a key has been presented one.
KeyIsPresented == \A v \in Views : pc[v] = "hostkey" => fp[v] \in Fingerprints

\* The inductive invariant.
IInv ==
    /\ TypeOK
    /\ NoSocketYet
    /\ PinIsAccepted
    /\ KeyIsPresented
    /\ HostKeyTrusted
    /\ PromptHasWaiter

-----------------------------------------------------------------------------
\* The invariant is kept by a step of a view that neither is presented a key nor
\* gets an answer: it gets no further than it was towards the machine, and a
\* prompt on its screen keeps its goroutine.
LEMMA QuietInv ==
    ASSUME IInv, TypeOK', NEW v \in Views,
           UNCHANGED <<fp, pin, accepted>>,
           \A u \in Views \ {v} : /\ view'[u] = view[u] /\ pc'[u] = pc[u]
                                  /\ ws'[u] = ws[u] /\ ask'[u] = ask[u],
           view'[v] = "form" => pc'[v] = "idle",
           pc'[v] \in {"idle", "load"} => ws'[v] = "none",
           pc'[v] = "hostkey" => pc[v] = "hostkey",
           pc'[v] \in {"auth", "prompt", "shell", "up"}
               => pc[v] \in {"auth", "prompt", "shell", "up"},
           ask'[v] = "hostkey" => pc'[v] = "hostkey",
           ask'[v] = "password" => pc'[v] = "prompt"
    PROVE  IInv'
<1>1. NoSocketYet'
  BY DEF IInv, NoSocketYet
<1>2. PinIsAccepted' /\ KeyIsPresented'
  BY DEF IInv, PinIsAccepted, KeyIsPresented
<1>3. HostKeyTrusted'
  BY DEF IInv, HostKeyTrusted
<1>4. PromptHasWaiter'
  BY DEF IInv, PromptHasWaiter
<1>5. QED
  BY <1>1, <1>2, <1>3, <1>4 DEF IInv

\* The invariant is kept by what the user does with the page: submit the form,
\* leave, change the key, press [disconnect].
LEMMA PageInv ==
    ASSUME IInv, NEW v \in Views,
           Submit(v) \/ Unmount(v) \/ DependenciesChange(v) \/ Disconnect(v)
    PROVE  IInv'
<1> USE WebNoneAssumption DEF Cleanup, HangsUp, Goes, Asks
<1>1. CASE Submit(v)
  <2>1. TypeOK'
    BY <1>1 DEF Submit, IInv, TypeOK, Working
  <2>2. QED
    BY <1>1, <2>1, QuietInv DEF Submit, IInv, TypeOK, NoSocketYet, PromptHasWaiter
<1>2. CASE Unmount(v)
  <2>1. TypeOK'
    BY <1>2 DEF Unmount, IInv, TypeOK
  <2>2. QED
    BY <1>2, <2>1, QuietInv DEF Unmount, IInv, TypeOK, NoSocketYet
<1>3. CASE DependenciesChange(v)
  <2>1. TypeOK'
    BY <1>3 DEF DependenciesChange, IInv, TypeOK
  <2>2. QED
    BY <1>3, <2>1, QuietInv
       DEF DependenciesChange, IInv, TypeOK, NoSocketYet, PromptHasWaiter
<1>4. CASE Disconnect(v)
  <2>1. TypeOK'
    BY <1>4 DEF Disconnect, IInv, TypeOK
  <2>2. QED
    BY <1>4, <2>1, QuietInv DEF Disconnect, IInv, TypeOK, NoSocketYet, PromptHasWaiter
<1>5. QED
  BY <1>1, <1>2, <1>3, <1>4

\* The invariant is kept by connect up to the handshake, and by a refusal.
LEMMA OpeningInv ==
    ASSUME IInv, NEW v \in Views,
           Loaded(v) \/ LoadFails(v) \/ Opened(v) \/ Acknowledged(v) \/ Refused(v)
    PROVE  IInv'
<1> USE DEF HangsUp, Goes
<1>1. CASE Loaded(v)
  <2>1. TypeOK'
    BY <1>1 DEF Loaded, IInv, TypeOK, Working
  <2>2. QED
    BY <1>1, <2>1, QuietInv DEF Loaded, IInv, TypeOK, NoSocketYet, PromptHasWaiter
<1>2. CASE LoadFails(v)
  <2>1. TypeOK'
    BY <1>2 DEF LoadFails, IInv, TypeOK
  <2>2. QED
    BY <1>2, <2>1, QuietInv DEF LoadFails, IInv, TypeOK, NoSocketYet, PromptHasWaiter
<1>3. CASE Opened(v)
  <2>1. TypeOK'
    BY <1>3 DEF Opened, IInv, TypeOK
  <2>2. QED
    BY <1>3, <2>1, QuietInv DEF Opened, IInv, TypeOK, NoSocketYet, PromptHasWaiter
<1>4. CASE Acknowledged(v)
  <2>1. TypeOK'
    BY <1>4 DEF Acknowledged, IInv, TypeOK, Working
  <2>2. QED
    BY <1>4, <2>1, QuietInv DEF Acknowledged, IInv, TypeOK, NoSocketYet, PromptHasWaiter
<1>5. CASE Refused(v)
  <2>1. TypeOK'
    BY <1>5 DEF Refused, IInv, TypeOK
  <2>2. QED
    BY <1>5, <2>1, QuietInv DEF Refused, IInv, TypeOK, NoSocketYet, PromptHasWaiter
<1>6. QED
  BY <1>1, <1>2, <1>3, <1>4, <1>5

\* The invariant is kept when a key is presented: the pinned key was accepted,
\* any other one is asked about.
LEMMA HostKeyInv ==
    ASSUME IInv, NEW v \in Views, NEW f \in Fingerprints, HostKey(v, f)
    PROVE  IInv'
<1> USE WebNoneAssumption DEF HostKey, Goes, Asks, IInv
<1>1. TypeOK'
  BY DEF TypeOK, Working
<1>2. NoSocketYet'
  BY DEF NoSocketYet, TypeOK
<1>3. PinIsAccepted' /\ KeyIsPresented'
  BY DEF PinIsAccepted, KeyIsPresented, TypeOK
<1>4. HostKeyTrusted'
  BY DEF HostKeyTrusted, PinIsAccepted, TypeOK
<1>5. PromptHasWaiter'
  BY DEF PromptHasWaiter, TypeOK
<1>6. QED
  BY <1>1, <1>2, <1>3, <1>4, <1>5

\* The invariant is kept by the user's answer about a key.
LEMMA AnswerHostKeyInv ==
    ASSUME IInv, NEW v \in Views, NEW yes \in BOOLEAN, AnswerHostKey(v, yes)
    PROVE  IInv'
<1> USE WebNoneAssumption DEF AnswerHostKey, Goes, Asks, HangsUp, IInv
<1>1. pc[v] = "hostkey" /\ fp[v] \in Fingerprints
  BY DEF PromptHasWaiter, KeyIsPresented
<1>2. TypeOK'
  BY <1>1 DEF TypeOK, Working
<1>3. NoSocketYet'
  BY <1>1 DEF NoSocketYet, TypeOK
<1>4. PinIsAccepted' /\ KeyIsPresented'
  BY DEF PinIsAccepted, KeyIsPresented, TypeOK
<1>5. HostKeyTrusted'
  BY DEF HostKeyTrusted, TypeOK
<1>6. PromptHasWaiter'
  BY DEF PromptHasWaiter, TypeOK
<1>7. QED
  BY <1>2, <1>3, <1>4, <1>5, <1>6

\* The invariant is kept by authentication and by the start of the shell.
LEMMA AuthInv ==
    ASSUME IInv, NEW v \in Views,
           \/ PasswordAsked(v) \/ AnswerPassword(v) \/ Authenticated(v)
           \/ ShellStarted(v) \/ ShellStartedAndEnded(v)
    PROVE  IInv'
<1> USE WebNoneAssumption DEF HangsUp, Goes, Asks
<1>1. CASE PasswordAsked(v)
  <2>1. TypeOK'
    BY <1>1 DEF PasswordAsked, IInv, TypeOK, Working
  <2>2. QED
    BY <1>1, <2>1, QuietInv DEF PasswordAsked, IInv, TypeOK, NoSocketYet, PromptHasWaiter
<1>2. CASE AnswerPassword(v)
  <2>1. TypeOK'
    BY <1>2 DEF AnswerPassword, IInv, TypeOK, Working
  <2>2. QED
    BY <1>2, <2>1, QuietInv DEF AnswerPassword, IInv, TypeOK, NoSocketYet, PromptHasWaiter
<1>3. CASE Authenticated(v)
  <2>1. TypeOK'
    BY <1>3 DEF Authenticated, IInv, TypeOK, Working
  <2>2. QED
    BY <1>3, <2>1, QuietInv DEF Authenticated, IInv, TypeOK, NoSocketYet, PromptHasWaiter
<1>4. CASE ShellStarted(v)
  <2>1. TypeOK'
    BY <1>4 DEF ShellStarted, IInv, TypeOK
  <2>2. QED
    BY <1>4, <2>1, QuietInv DEF ShellStarted, IInv, TypeOK, NoSocketYet, PromptHasWaiter
<1>5. CASE ShellStartedAndEnded(v)
  <2>1. TypeOK'
    BY <1>5 DEF ShellStartedAndEnded, IInv, TypeOK
  <2>2. QED
    BY <1>5, <2>1, QuietInv DEF ShellStartedAndEnded, IInv, TypeOK, NoSocketYet, PromptHasWaiter
<1>6. QED
  BY <1>1, <1>2, <1>3, <1>4, <1>5

\* The invariant is kept when the socket closes: a goroutine that awaits an
\* answer does not notice.
LEMMA SocketClosesInv ==
    ASSUME IInv, NEW v \in Views, SocketCloses(v)
    PROVE  IInv'
<1>1. TypeOK'
  BY DEF SocketCloses, Goes, IInv, TypeOK
<1>2. /\ ws[v] # "none"
      /\ ws' = [ws EXCEPT ![v] = "closed"]
      /\ pc' = [pc EXCEPT ![v] = IF @ \in {"hostkey", "prompt"} THEN @ ELSE "over"]
      /\ UNCHANGED <<view, fp, ask, pin, accepted>>
  <2>1. pc' = [pc EXCEPT ![v] = IF @ \in {"hostkey", "prompt"} THEN @ ELSE "over"]
    BY DEF SocketCloses, Goes, IInv, TypeOK
  <2>2. QED
    BY <2>1 DEF SocketCloses
<1>3. QED
  BY <1>1, <1>2, QuietInv DEF IInv, TypeOK, NoSocketYet, PromptHasWaiter

-----------------------------------------------------------------------------
\* Every task of every page keeps the invariant.
LEMMA StepInv == IInv /\ [Next]_vars => IInv'
<1> SUFFICES ASSUME IInv, [Next]_vars PROVE IInv'
  OBVIOUS
<1>1. ASSUME NEW v \in Views, User(v) PROVE IInv'
  BY <1>1, PageInv, AnswerHostKeyInv, AuthInv DEF User
<1>2. ASSUME NEW v \in Views, Network(v) PROVE IInv'
  BY <1>2, OpeningInv, HostKeyInv, AuthInv, SocketClosesInv DEF Network
<1>3. CASE UNCHANGED vars
  BY <1>3 DEF vars, IInv, TypeOK, NoSocketYet, PinIsAccepted, KeyIsPresented,
              HostKeyTrusted, PromptHasWaiter
<1>4. QED
  BY <1>1, <1>2, <1>3 DEF Next, Done

\* The invariant holds of freshly mounted views and every step keeps it.
LEMMA WebClientInductive == Spec => []IInv
<1>1. Init => IInv
  BY WebNoneAssumption
     DEF Init, IInv, TypeOK, NoSocketYet, PinIsAccepted, KeyIsPresented, HostKeyTrusted,
         PromptHasWaiter, Working
<1>2. QED
  BY <1>1, StepInv, PTL DEF Spec

\* Type correctness of the views, their sockets and the shared pin.
THEOREM WebClientTypeOK == Spec => []TypeOK
<1>1. IInv => TypeOK
  BY DEF IInv
<1>2. QED
  BY <1>1, WebClientInductive, PTL

\* onHostKey: authentication only starts towards a key that the user accepted,
\* although the pin is shared with views in other tabs that change it.
THEOREM WebClientHostKeyTrusted == Spec => []HostKeyTrusted
<1>1. IInv => HostKeyTrusted
  BY DEF IInv
<1>2. QED
  BY <1>1, WebClientInductive, PTL

\* authRequest and await: every prompt on a screen has its own goroutine waiting,
\* also after the socket has closed.
THEOREM WebClientPromptHasWaiter == Spec => []PromptHasWaiter
<1>1. IInv => PromptHasWaiter
  BY DEF IInv
<1>2. QED
  BY <1>1, WebClientInductive, PTL

-----------------------------------------------------------------------------
(* The other page of the web application that keeps state: the machine list *)
(* of module MachinesPage, with variables of its own.                       *)

\* A request for the list, and the removal under way.
PageFetch == [pc : {"idle", "sent", "online", "answer"},
              of : Users \cup {Null},
              mine : BOOLEAN,
              rows : SUBSET Machines,
              online : SUBSET Machines,
              todo : SUBSET Machines]
PageDelete == [pc : {"idle", "sent", "close", "answer"},
               m : Machines \cup {Null},
               of : Users \cup {Null},
               mine : BOOLEAN]

\* The machine is u's, or of the user whom the relay takes u's token for.
ReadFor(m, u) == Owner[m] \in {u, verifyToken(u)}

\* A request whose component is there was sent for somebody who has been signed in
\* since it came up, and what it has read is that user's.
FetchIsMine(f) ==
    f.mine => Mounted /\ f.of \in visitors /\ \A m \in f.rows : ReadFor(m, f.of)

\* So was a removal, which knows its machine.
RemovalIsMine ==
    /\ del.mine => Mounted /\ del.of \in visitors
    /\ del.pc # "idle" => del.m \in Machines

\* Whoever is signed in is a visitor of the list, unless the relay is in dev mode the
\* only one; without dev mode nobody signs in without leaving the page.
VisitorsInv ==
    /\ user # Null => user \in visitors
    /\ ~devMode => visitors \subseteq {user} /\ "dev" \notin logins

\* The inductive invariant of the list.
ListInv ==
    /\ PageTypeOK
    /\ \A r \in Fetches : FetchIsMine(fetch[r])
    /\ RemovalIsMine
    /\ VisitorsInv
    /\ NoForeignList

\* What a request and a removal look like, and that the idle ones are nobody's.
LEMMA PageTypes ==
    /\ NoFetch \in PageFetch /\ NoFetch.mine = FALSE /\ NoFetch.rows = {}
    /\ NoDelete \in PageDelete /\ NoDelete.mine = FALSE /\ NoDelete.pc = "idle"
    /\ PageTypeOK => fetch \in [Fetches -> PageFetch] /\ del \in PageDelete
  BY DEF NoFetch, NoDelete, PageTypeOK, PageFetch, PageDelete

\* The count of changes stays within its bound.
LEMMA ListChanges ==
    ASSUME ListInv, Changes \/ Disturbs \/ UNCHANGED changes
    PROVE  changes' \in 0..MaxChanges
  BY PageAssumption DEF ListInv, PageTypeOK, Changes, Disturbs

\* The relay's tables, and that it stays in the mode it was started in.
RelayTypeOK ==
    /\ devMode' = devMode
    /\ row' \in SUBSET Machines /\ deleted' \in SUBSET Machines /\ entry' \in SUBSET Machines

LEMMA ListRelayTypes ==
    ASSUME ListInv, UNCHANGED relayVars
    PROVE  RelayTypeOK
  BY DEF ListInv, PageTypeOK, RelayTypeOK, relayVars

\* A token that expires does not change what was read with it, and neither does a new
\* one of the dev user.
LEMMA ReadForStays ==
    ASSUME NEW m \in Machines, NEW u \in Users, ReadFor(m, u), devMode' = devMode,
           expired \subseteq expired' \/ (devMode /\ expired' = expired \ {Dev})
    PROVE  ReadFor(m, u)'
  BY DEF ReadFor, verifyToken

\* A step that leaves the page and who is signed in alone keeps the invariant.
LEMMA ListRelayInv ==
    ASSUME ListInv, RelayTypeOK,
           UNCHANGED <<user, authLoading, route, visitors, listView, machines, fetch>>,
           changes' \in 0..MaxChanges,
           expired' \in SUBSET Users, expired \subseteq expired',
           logins' \in SUBSET {"dev", "redirect"}, "dev" \in logins' => devMode,
           del' \in PageDelete, RemovalIsMine'
    PROVE  ListInv'
<1>1. PageTypeOK'
  BY DEF ListInv, PageTypeOK, PageDelete, RelayTypeOK
<1>2. Mounted' = Mounted /\ devMode' = devMode
  BY DEF Mounted, RelayTypeOK
<1>3. ASSUME NEW r \in Fetches PROVE FetchIsMine(fetch[r])'
  <2>1. fetch[r] \in PageFetch /\ FetchIsMine(fetch[r]) /\ visitors \subseteq Users
    BY PageTypes DEF ListInv, PageTypeOK
  <2>2. ASSUME fetch[r].mine, NEW m \in fetch[r].rows PROVE ReadFor(m, fetch[r].of)'
    <3>1. m \in Machines /\ fetch[r].of \in Users /\ ReadFor(m, fetch[r].of)
      BY <2>1, <2>2 DEF FetchIsMine, PageFetch
    <3>2. ReadFor(m, fetch[r].of) /\ fetch'[r].of = fetch[r].of
      BY <3>1
    <3>3. QED
      BY <1>2, <3>1, <3>2 DEF ReadFor, verifyToken
  <2>3. QED
    BY <1>2, <2>1, <2>2 DEF FetchIsMine
<1>4. VisitorsInv'
  BY <1>2 DEF ListInv, VisitorsInv
<1>5. NoForeignList'
  <2>1. ASSUME NEW m \in machines.rows
        PROVE  /\ Mounted
               /\ \E u \in visitors : (Owner[m] \in {u, verifyToken(u)})'
               /\ ~devMode => Owner[m] = user
    <3>1. Mounted /\ m \in Machines /\ (~devMode => Owner[m] = user)
      BY <2>1 DEF ListInv, PageTypeOK, NoForeignList
    <3>2. PICK u \in visitors : ReadFor(m, u)
      BY <2>1 DEF ListInv, NoForeignList, ReadFor
    <3>3. u \in Users
      BY DEF ListInv, PageTypeOK
    <3>4. ReadFor(m, u)'
      BY <1>2, <3>1, <3>2, <3>3, ReadForStays
    <3>5. QED
      BY <3>1, <3>2, <3>4 DEF ReadFor
  <2>2. QED
    BY <1>2, <2>1 DEF NoForeignList
<1>6. QED
  BY <1>1, <1>3, <1>4, <1>5 DEF ListInv

\* A step of one request keeps the invariant, and what it shows.
LEMMA ListFetchInv ==
    ASSUME ListInv, NEW r \in Fetches, NEW f \in PageFetch, FetchIsMine(f),
           fetch' = [fetch EXCEPT ![r] = f],
           UNCHANGED <<relayVars, authVars>>,
           del' \in {del, NoDelete},
           changes' \in 0..MaxChanges, listView' \in {"loading", "error", "list"},
           \/ machines' = machines
           \/ /\ machines' \in [rows : SUBSET Machines, online : SUBSET Machines]
              /\ \A m \in machines'.rows : Mounted /\ \E u \in visitors : ReadFor(m, u)
    PROVE  ListInv'
<1>1. fetch \in [Fetches -> PageFetch]
  BY PageTypes DEF ListInv
<1>2. fetch' \in [Fetches -> PageFetch] /\ fetch'[r] = f
      /\ \A x \in Fetches : x # r => fetch'[x] = fetch[x]
  BY <1>1
<1>3. machines' \in [rows : SUBSET Machines, online : SUBSET Machines]
  BY DEF ListInv, PageTypeOK
<1>4. PageTypeOK'
  BY <1>2, <1>3, PageTypes DEF ListInv, PageTypeOK, PageFetch, PageDelete, relayVars, authVars
<1>5. /\ Mounted' = Mounted /\ visitors' = visitors /\ devMode' = devMode /\ user' = user
      /\ \A u : verifyToken(u)' = verifyToken(u)
  BY DEF Mounted, verifyToken, relayVars, authVars
<1>6. \A x \in Fetches : FetchIsMine(fetch[x])'
  <2>1. \A x \in Fetches : FetchIsMine(fetch'[x])
    BY <1>2 DEF ListInv
  <2>2. QED
    BY <1>5, <2>1 DEF FetchIsMine, ReadFor
<1>7. RemovalIsMine' /\ VisitorsInv'
  BY <1>5, PageTypes DEF ListInv, RemovalIsMine, VisitorsInv, authVars
<1>8. NoForeignList'
  <2>1. ASSUME NEW m \in machines'.rows
        PROVE  /\ Mounted
               /\ \E u \in visitors : Owner[m] \in {u, verifyToken(u)}
               /\ ~devMode => Owner[m] = user
    <3>1. CASE machines' = machines
      BY <3>1 DEF ListInv, NoForeignList
    <3>2. CASE Mounted /\ \E u \in visitors : ReadFor(m, u)
      <4>1. PICK u \in visitors : ReadFor(m, u)
        BY <3>2
      <4>2. m \in Machines /\ Owner[m] \in Users /\ Owner[m] # Null
        BY <1>3, PageAssumption
      <4>3. ~devMode => Owner[m] = user
        BY <4>1, <4>2 DEF ListInv, VisitorsInv, ReadFor, verifyToken
      <4>4. QED
        BY <3>2, <4>1, <4>3 DEF ReadFor
    <3>3. QED
      BY <2>1, <3>1, <3>2
  <2>2. QED
    BY <1>5, <2>1 DEF NoForeignList
<1>9. QED
  BY <1>4, <1>6, <1>7, <1>8 DEF ListInv

\* refresh keeps the invariant: the request is of the component that is there.
LEMMA ListSends ==
    ASSUME ListInv, NEW r \in Fetches, NEW u \in Users, Sends(r, u), Mounted, u \in visitors,
           UNCHANGED <<relayVars, authVars, listView, machines, changes>>,
           del' \in {del, NoDelete}
    PROVE  ListInv'
<1>1. PICK f \in PageFetch : f = [NoFetch EXCEPT !.pc = "sent", !.of = u, !.mine = TRUE]
  BY DEF NoFetch, PageFetch
<1>2. f.of = u /\ f.rows = {}
  BY <1>1 DEF NoFetch
<1>3. FetchIsMine(f)
  BY <1>2 DEF FetchIsMine
<1>4. fetch' = [fetch EXCEPT ![r] = f]
  BY <1>1 DEF Sends
<1>5. changes' \in 0..MaxChanges /\ listView' \in {"loading", "error", "list"}
  BY DEF ListInv, PageTypeOK
<1>6. QED
  BY <1>3, <1>4, <1>5, ListFetchInv

\* An answer, or a failure, keeps the invariant: only the component that asked shows
\* what has come.
LEMMA ListAnswered ==
    ASSUME ListInv, NEW r \in Fetches,
           Answer(r) \/ Unauthorized(r) \/ FetchFails(r)
    PROVE  ListInv'
<1>1. fetch' = [fetch EXCEPT ![r] = NoFetch] /\ NoFetch \in PageFetch
  BY PageTypes DEF Answer, Unauthorized, FetchFails, Fails, Over
<1>2. FetchIsMine(NoFetch)
  BY PageTypes DEF FetchIsMine
<1>3. UNCHANGED <<relayVars, authVars>> /\ del' = del
  BY DEF Answer, Unauthorized, FetchFails, Fails
<1>4. listView' \in {"loading", "error", "list"}
  BY DEF ListInv, PageTypeOK, Answer, Unauthorized, FetchFails, Fails
<1>5. changes' \in 0..MaxChanges
  BY ListChanges DEF Answer, Unauthorized, FetchFails
<1>6. \/ machines' = machines
      \/ /\ machines' \in [rows : SUBSET Machines, online : SUBSET Machines]
         /\ \A m \in machines'.rows : Mounted /\ \E u \in visitors : ReadFor(m, u)
  <2>1. CASE Answer(r) /\ fetch[r].mine
    <3>1. fetch[r] \in PageFetch /\ FetchIsMine(fetch[r])
      BY PageTypes DEF ListInv
    <3>2. PICK R \in SUBSET Machines : R = fetch[r].rows
      BY <3>1 DEF PageFetch
    <3>3. PICK N \in SUBSET Machines : N = fetch[r].online
      BY <3>1 DEF PageFetch
    <3>4. machines' = [rows |-> R, online |-> N]
      BY <2>1, <3>2, <3>3 DEF Answer
    <3>5. \A m \in R : Mounted /\ \E u \in visitors : ReadFor(m, u)
      BY <2>1, <3>1, <3>2 DEF FetchIsMine
    <3>6. QED
      BY <3>4, <3>5
  <2>2. CASE ~(Answer(r) /\ fetch[r].mine)
    BY <2>2 DEF Answer, Unauthorized, FetchFails, Fails
  <2>3. QED
    BY <2>1, <2>2
<1>7. QED
  BY <1>1, <1>2, <1>3, <1>4, <1>5, <1>6, ListFetchInv

\* The handler keeps the invariant: it reads the rows of whom the token is taken for.
LEMMA ListServed ==
    ASSUME ListInv, NEW r \in Fetches,
           \/ ListMachines(r)
           \/ \E m \in Machines : ReadOnline(r, m)
           \/ Encode(r)
    PROVE  ListInv'
<1>1. fetch \in [Fetches -> PageFetch] /\ fetch[r] \in PageFetch /\ FetchIsMine(fetch[r])
  BY PageTypes DEF ListInv
<1>2. \E f \in PageFetch : fetch' = [fetch EXCEPT ![r] = f] /\ FetchIsMine(f)
  <2>1. CASE ListMachines(r)
    <3>1. PICK R \in SUBSET Machines : R = {m \in row : Owner[m] = verifyToken(fetch[r].of)}
      BY DEF ListInv, PageTypeOK
    <3>2. PICK f \in PageFetch :
             f = [fetch[r] EXCEPT !.pc = "online", !.rows = R, !.todo = R]
      BY <1>1 DEF PageFetch
    <3>3. f.rows = R /\ f.of = fetch[r].of /\ f.mine = fetch[r].mine
      BY <1>1, <3>2 DEF PageFetch
    <3>4. FetchIsMine(f)
      BY <1>1, <3>1, <3>3 DEF FetchIsMine, ReadFor
    <3>5. fetch' = [fetch EXCEPT ![r] = f]
      BY <2>1, <3>1, <3>2 DEF ListMachines
    <3>6. QED
      BY <3>4, <3>5
  <2>2. ASSUME NEW m \in Machines, ReadOnline(r, m)
        PROVE  \E f \in PageFetch : fetch' = [fetch EXCEPT ![r] = f] /\ FetchIsMine(f)
    <3>1. PICK N \in SUBSET Machines :
             N = IF m \in entry THEN fetch[r].online \cup {m} ELSE fetch[r].online
      BY <1>1 DEF PageFetch
    <3>2. PICK D \in SUBSET Machines : D = fetch[r].todo \ {m}
      BY <1>1 DEF PageFetch
    <3>3. PICK f \in PageFetch : f = [fetch[r] EXCEPT !.todo = D, !.online = N]
      BY <1>1 DEF PageFetch
    <3>4. f.rows = fetch[r].rows /\ f.of = fetch[r].of /\ f.mine = fetch[r].mine
      BY <1>1, <3>3 DEF PageFetch
    <3>5. FetchIsMine(f)
      BY <1>1, <3>4 DEF FetchIsMine
    <3>6. fetch' = [fetch EXCEPT ![r] = f]
      BY <1>1, <2>2, <3>1, <3>2, <3>3 DEF ReadOnline
    <3>7. QED
      BY <3>5, <3>6
  <2>3. CASE Encode(r)
    <3>1. PICK f \in PageFetch : f = [fetch[r] EXCEPT !.pc = "answer"]
      BY <1>1 DEF PageFetch
    <3>2. f.rows = fetch[r].rows /\ f.of = fetch[r].of /\ f.mine = fetch[r].mine
      BY <1>1, <3>1 DEF PageFetch
    <3>3. FetchIsMine(f)
      BY <1>1, <3>2 DEF FetchIsMine
    <3>4. fetch' = [fetch EXCEPT ![r] = f]
      BY <2>3, <3>1 DEF Encode
    <3>5. QED
      BY <3>3, <3>4
  <2>4. QED
    BY <2>1, <2>2, <2>3
<1>3. PICK f \in PageFetch : fetch' = [fetch EXCEPT ![r] = f] /\ FetchIsMine(f)
  BY <1>2
<1>4. UNCHANGED <<relayVars, authVars, listView, machines, changes>> /\ del' = del
  BY DEF ListMachines, ReadOnline, Encode
<1>5. changes' \in 0..MaxChanges /\ listView' \in {"loading", "error", "list"}
  BY <1>4 DEF ListInv, PageTypeOK
<1>6. QED
  BY <1>3, <1>4, <1>5, ListFetchInv

\* Leaving the list, signing out or going to a provider keeps the invariant: nothing
\* is left on the screen, and nobody for the answers that are on their way.
LEMMA ListUnmounts ==
    ASSUME ListInv, Logout \/ Leave \/ Redirected
    PROVE  ListInv'
<1>1. fetch \in [Fetches -> PageFetch] /\ del \in PageDelete
  BY PageTypes DEF ListInv
<1>2. /\ listView' = "loading" /\ machines' = [rows |-> {}, online |-> {}]
      /\ \/ fetch' = [r \in Fetches |-> IF fetch[r].mine
                                        THEN [fetch[r] EXCEPT !.mine = FALSE]
                                        ELSE fetch[r]]
         \/ fetch' = [r \in Fetches |-> NoFetch]
      /\ del' = [del EXCEPT !.mine = FALSE]
      /\ UNCHANGED relayVars
  BY DEF Logout, Leave, Redirected, Unmounts, NoMachines
<1>3. ASSUME NEW r \in Fetches
      PROVE  fetch'[r] \in PageFetch /\ fetch'[r].mine = FALSE
  <2>1. fetch[r] \in PageFetch
    BY <1>1
  <2>2. \/ fetch'[r] = NoFetch
        \/ fetch[r].mine /\ fetch'[r] = [fetch[r] EXCEPT !.mine = FALSE]
        \/ ~fetch[r].mine /\ fetch'[r] = fetch[r]
    BY <1>2
  <2>3. QED
    BY <2>1, <2>2, PageTypes DEF PageFetch
<1>4. fetch' \in [Fetches -> PageFetch]
  <2>1. fetch' = [r \in Fetches |-> fetch'[r]]
    BY <1>2
  <2>2. QED
    BY <1>3, <2>1
<1>5. /\ del' \in PageDelete /\ del'.mine = FALSE
      /\ del'.pc # "idle" => del'.m \in Machines
  BY <1>1, <1>2 DEF ListInv, RemovalIsMine, PageDelete
<1>6. /\ user' \in Users \cup {Null} /\ route' \in {"list", "other"}
      /\ logins' \in SUBSET {"dev", "redirect"} /\ authLoading' \in {"no", "poll", "stuck"}
      /\ expired' \in SUBSET Users /\ visitors' \in SUBSET Users
  BY DEF ListInv, PageTypeOK, Logout, Leave, Redirected
<1>7. changes' \in 0..MaxChanges
  BY ListChanges DEF Logout, Leave, Redirected
<1>8. PageTypeOK'
  BY <1>2, <1>4, <1>5, <1>6, <1>7
     DEF ListInv, PageTypeOK, PageFetch, PageDelete, relayVars
<1>9. VisitorsInv'
  BY <1>2 DEF ListInv, VisitorsInv, Logout, Leave, Redirected, relayVars
<1>10. machines'.rows = {}
  BY <1>2
<1>11. QED
  BY <1>3, <1>5, <1>8, <1>9, <1>10
     DEF ListInv, FetchIsMine, RemovalIsMine, NoForeignList

\* While the list is off the screen, nothing is shown and no request has a component:
\* whoever is signed in then, the invariant is kept.
LEMMA ListMounts ==
    ASSUME ListInv, ~Mounted,
           user' \in Users \cup {Null}, route' \in {"list", "other"},
           logins' \in SUBSET {"dev", "redirect"}, authLoading' \in {"no", "poll", "stuck"},
           expired' \in SUBSET Users, visitors' \in SUBSET Users, VisitorsInv',
           UNCHANGED <<relayVars, listView, machines, fetch, del, changes>>
    PROVE  ListInv'
<1>1. /\ \A r \in Fetches : ~fetch[r].mine
      /\ ~del.mine /\ (del.pc # "idle" => del.m \in Machines)
      /\ machines.rows = {}
  BY DEF ListInv, FetchIsMine, RemovalIsMine, NoForeignList
<1>2. PageTypeOK'
  BY DEF ListInv, PageTypeOK, relayVars
<1>3. QED
  BY <1>1, <1>2 DEF ListInv, FetchIsMine, RemovalIsMine, NoForeignList

\* The end of AuthProvider's poll, and coming back to the list, keep the invariant.
LEMMA ListPolled ==
    ASSUME ListInv, (\E u \in Users : PollCompletes(u)) \/ PollFails \/ Return
    PROVE  ListInv'
<1>1. ~Mounted /\ UNCHANGED <<relayVars, listView, machines, fetch, del, changes>>
  BY DEF PollCompletes, PollFails, Return, Mounted
<1>2. /\ user' \in Users \cup {Null} /\ route' \in {"list", "other"}
      /\ logins' \in SUBSET {"dev", "redirect"} /\ authLoading' \in {"no", "poll", "stuck"}
      /\ expired' \in SUBSET Users /\ visitors' \in SUBSET Users
  BY DEF ListInv, PageTypeOK, PollCompletes, PollFails, Return
<1>3. VisitorsInv'
  BY DEF ListInv, VisitorsInv, PollCompletes, PollFails, Return, relayVars
<1>4. QED
  BY <1>1, <1>2, <1>3, ListMounts

\* A dev sign-in keeps the invariant, whoever is signed in when it ends: the user
\* before stays a visitor of the list.
LEMMA ListConsumes ==
    ASSUME ListInv, ConsumeSession
    PROVE  ListInv'
<1>1. /\ UNCHANGED <<relayVars, authLoading, route, listView, machines, fetch, del, changes>>
      /\ user' = Dev /\ expired' = expired \ {Dev} /\ logins' = logins \ {"dev"}
      /\ visitors' = IF Mounted THEN visitors \cup {Dev} ELSE {Dev}
      /\ devMode /\ devMode' = devMode
  BY DEF ListInv, VisitorsInv, ConsumeSession, relayVars
<1>2. /\ user' \in Users \cup {Null} /\ route' \in {"list", "other"}
      /\ logins' \in SUBSET {"dev", "redirect"} /\ authLoading' \in {"no", "poll", "stuck"}
      /\ expired' \in SUBSET Users /\ visitors' \in SUBSET Users
  BY <1>1, PageAssumption DEF ListInv, PageTypeOK
<1>3. VisitorsInv'
  BY <1>1 DEF VisitorsInv
<1>4. CASE ~Mounted
  BY <1>1, <1>2, <1>3, <1>4, ListMounts
<1>5. CASE Mounted
  <2>1. PageTypeOK'
    BY <1>1, <1>2 DEF ListInv, PageTypeOK, relayVars
  <2>2. Mounted' /\ visitors \subseteq visitors'
    BY <1>1, <1>5, PageAssumption DEF Mounted
  <2>3. ASSUME NEW m \in Machines, NEW u \in visitors, ReadFor(m, u)
        PROVE  u \in visitors' /\ ReadFor(m, u)'
    <3>1. u \in Users
      BY DEF ListInv, PageTypeOK
    <3>2. QED
      BY <1>1, <2>2, <2>3, <3>1, ReadForStays
  <2>4. ASSUME NEW r \in Fetches PROVE FetchIsMine(fetch[r])'
    <3>1. fetch[r] \in PageFetch /\ FetchIsMine(fetch[r]) /\ fetch' = fetch
      BY <1>1, PageTypes DEF ListInv
    <3>2. fetch[r].mine =>
             /\ fetch[r].of \in visitors'
             /\ \A m \in fetch[r].rows :
                   Owner[m] \in {fetch[r].of, verifyToken(fetch[r].of)'}
      <4>1. \A m \in Machines, u \in visitors :
               ReadFor(m, u) => Owner[m] \in {u, verifyToken(u)'}
        BY <2>3 DEF ReadFor
      <4>2. fetch[r].rows \subseteq Machines /\ verifyToken(fetch[r].of)' = verifyToken(fetch[r].of)
        BY <1>1, <3>1 DEF PageFetch, verifyToken
      <4>3. QED
        BY <2>2, <3>1, <4>1, <4>2 DEF FetchIsMine, ReadFor
    <3>3. QED
      BY <2>2, <3>1, <3>2 DEF FetchIsMine, ReadFor
  <2>5. RemovalIsMine'
    BY <1>1, <2>2 DEF ListInv, RemovalIsMine
  <2>6. NoForeignList'
    <3>1. ASSUME NEW m \in machines.rows
          PROVE  \E u \in visitors' : (Owner[m] \in {u, verifyToken(u)})'
      <4>1. m \in Machines
        BY DEF ListInv, PageTypeOK
      <4>2. PICK u \in visitors : ReadFor(m, u)
        BY DEF ListInv, NoForeignList, ReadFor
      <4>3. QED
        BY <2>3, <4>1, <4>2 DEF ReadFor
    <3>2. QED
      BY <1>1, <2>2, <3>1 DEF NoForeignList
  <2>7. QED
    BY <1>3, <2>1, <2>4, <2>5, <2>6 DEF ListInv
<1>6. QED
  BY <1>4, <1>5

\* A removal keeps the invariant, from the click to the request for the list.
LEMMA ListRemoves ==
    ASSUME ListInv,
           \/ \E m \in Machines : Remove(m)
           \/ DeleteMachine \/ CloseTunnel \/ DeleteFails
           \/ \E r \in Fetches : Removed(r)
    PROVE  ListInv'
<1>1. del \in PageDelete /\ RemovalIsMine
  BY PageTypes DEF ListInv
<1>2. /\ expired \in SUBSET Users /\ logins \in SUBSET {"dev", "redirect"}
      /\ "dev" \in logins => devMode
  BY DEF ListInv, PageTypeOK, VisitorsInv
<1>3. ASSUME NEW m \in Machines, Remove(m) PROVE ListInv'
  <2>1. Mounted /\ UNCHANGED <<relayVars, authVars, listView, machines, fetch>>
    BY <1>3 DEF Remove, Shown
  <2>2. user \in visitors /\ user \in Users
    BY <2>1 DEF ListInv, PageTypeOK, VisitorsInv, Mounted
  <2>3. del' \in PageDelete /\ del'.m \in Machines /\ del'.of = user
    BY <1>3, <2>2 DEF Remove, PageDelete
  <2>4. RemovalIsMine'
    BY <2>1, <2>2, <2>3 DEF RemovalIsMine, Mounted, authVars
  <2>5. changes' \in 0..MaxChanges
    BY <1>3, ListChanges DEF Remove
  <2>6. RelayTypeOK
    BY <2>1, ListRelayTypes
  <2>7. QED
    BY <1>2, <2>1, <2>3, <2>4, <2>5, <2>6, ListRelayInv DEF authVars
<1>4. CASE DeleteMachine \/ CloseTunnel \/ DeleteFails
  <2>1. UNCHANGED <<authVars, listView, machines, fetch, changes>>
    BY <1>4 DEF DeleteMachine, CloseTunnel, DeleteFails
  <2>2. PICK p \in {"close", "answer"} : del' = [del EXCEPT !.pc = p]
    BY <1>4 DEF DeleteMachine, CloseTunnel, DeleteFails
  <2>3. /\ del' \in PageDelete /\ del'.mine = del.mine /\ del'.m = del.m /\ del'.of = del.of
        /\ del.m \in Machines
    BY <1>1, <1>4, <2>2
       DEF PageDelete, RemovalIsMine, DeleteMachine, CloseTunnel, DeleteFails
  <2>4. RemovalIsMine'
    BY <1>1, <2>1, <2>3 DEF RemovalIsMine, Mounted, authVars
  <2>5. RelayTypeOK
    <3>1. CASE DeleteMachine
      BY <2>3, <3>1 DEF ListInv, PageTypeOK, RelayTypeOK, DeleteMachine
    <3>2. CASE CloseTunnel
      BY <3>2 DEF ListInv, PageTypeOK, RelayTypeOK, CloseTunnel
    <3>3. CASE DeleteFails
      BY <3>3, ListRelayTypes DEF DeleteFails
    <3>4. QED
      BY <1>4, <3>1, <3>2, <3>3
  <2>6. changes' \in 0..MaxChanges
    BY <2>1, ListChanges
  <2>7. QED
    BY <1>2, <2>1, <2>3, <2>4, <2>5, <2>6, ListRelayInv DEF authVars
<1>5. ASSUME NEW r \in Fetches, Removed(r) PROVE ListInv'
  <2>1. UNCHANGED <<relayVars, authVars, listView, machines, changes>> /\ del' = NoDelete
    BY <1>5 DEF Removed
  <2>2. CASE del.mine
    <3>1. Sends(r, del.of) /\ Mounted /\ del.of \in visitors /\ del.of \in Users
      BY <1>1, <1>5, <2>2 DEF Removed, RemovalIsMine, ListInv, PageTypeOK
    <3>2. QED
      BY <2>1, <3>1, ListSends
  <2>3. CASE ~del.mine
    <3>1. fetch' = fetch
      BY <1>5, <2>3 DEF Removed
    <3>2. del' \in PageDelete /\ RemovalIsMine'
      BY <2>1, PageTypes DEF RemovalIsMine
    <3>3. RelayTypeOK /\ changes' \in 0..MaxChanges
      BY <2>1, ListRelayTypes, ListChanges
    <3>4. QED
      BY <1>2, <2>1, <3>1, <3>2, <3>3, ListRelayInv DEF authVars
  <2>4. QED
    BY <2>2, <2>3
<1>6. QED
  BY <1>3, <1>4, <1>5

\* What others do to the machines, their tunnels and the token keeps the invariant, and
\* so does a login from the click until it ends.
LEMMA ListOthers ==
    ASSUME ListInv,
           \/ \E m \in Machines : EnrollMachine(m) \/ TunnelComes(m) \/ TunnelGoes(m)
           \/ \E k \in {"dev", "redirect"} : ClickLogin(k) \/ LoginFails(k)
           \/ TokenExpires
           \/ UNCHANGED pageVars
    PROVE  ListInv'
<1>1. /\ UNCHANGED <<user, authLoading, route, visitors, listView, machines, fetch>>
      /\ del' = del
  BY DEF EnrollMachine, TunnelComes, TunnelGoes, ClickLogin, LoginFails, TokenExpires,
         authVars, pageVars
<1>2. RelayTypeOK
  BY DEF ListInv, PageTypeOK, RelayTypeOK, EnrollMachine, TunnelComes, TunnelGoes,
         ClickLogin, LoginFails, TokenExpires, relayVars, pageVars
<1>3. expired' \in SUBSET Users /\ expired \subseteq expired'
  BY DEF ListInv, PageTypeOK, EnrollMachine, TunnelComes, TunnelGoes, ClickLogin,
         LoginFails, TokenExpires, authVars, pageVars
<1>4. logins' \in SUBSET {"dev", "redirect"} /\ ("dev" \in logins' => devMode)
  BY DEF ListInv, PageTypeOK, VisitorsInv, EnrollMachine, TunnelComes, TunnelGoes,
         ClickLogin, LoginFails, TokenExpires, authVars, pageVars
<1>5. changes' \in 0..MaxChanges
  BY ListChanges DEF EnrollMachine, TunnelComes, TunnelGoes, ClickLogin, LoginFails,
                     TokenExpires, pageVars
<1>6. del' \in PageDelete /\ RemovalIsMine'
  BY <1>1, PageTypes DEF ListInv, RemovalIsMine, Mounted
<1>7. QED
  BY <1>1, <1>2, <1>3, <1>4, <1>5, <1>6, ListRelayInv

\* Every step of the page keeps the invariant.
LEMMA ListStepInv ==
    ASSUME ListInv, [PageNext]_pageVars
    PROVE  ListInv'
<1>1. ASSUME NEW r \in Fetches, Poll(r) PROVE ListInv'
  <2>1. /\ UNCHANGED <<relayVars, authVars, listView, machines, changes>> /\ del' = del
        /\ Sends(r, user) /\ Mounted
    BY <1>1 DEF Poll
  <2>2. user \in Users /\ user \in visitors
    BY <2>1 DEF ListInv, PageTypeOK, VisitorsInv, Mounted
  <2>3. QED
    BY <2>1, <2>2, ListSends
<1>2. ASSUME NEW r \in Fetches, Serve(r) \/ FetchFails(r) PROVE ListInv'
  BY <1>2, ListServed, ListAnswered DEF Serve
<1>3. CASE Delete
  BY <1>3, ListRemoves DEF Delete
<1>4. CASE ConsumeSession
  BY <1>4, ListConsumes
<1>5. CASE (\E u \in Users : PollCompletes(u)) \/ PollFails \/ Return
  BY <1>5, ListPolled
<1>6. CASE Logout \/ Leave \/ Redirected
  BY <1>6, ListUnmounts
<1>7. QED
  BY <1>1, <1>2, <1>3, <1>4, <1>5, <1>6, ListRemoves, ListOthers DEF PageNext

\* ListInv is an invariant of the page.
LEMMA ListInductive == PageSpec => []ListInv
<1>1. PageInit => ListInv
  <2> SUFFICES ASSUME PageInit PROVE ListInv
    OBVIOUS
  <2>1. /\ fetch \in [Fetches -> PageFetch] /\ del \in PageDelete
        /\ ~del.mine /\ del.pc = "idle"
        /\ \A r \in Fetches : ~fetch[r].mine
    BY PageTypes DEF PageInit
  <2>2. machines = [rows |-> {}, online |-> {}] /\ changes = 0 /\ 0 \in 0..MaxChanges
    BY PageAssumption DEF PageInit, NoMachines
  <2>3. PageTypeOK
    BY <2>1, <2>2 DEF PageInit, PageTypeOK, PageFetch, PageDelete
  <2>4. (\A r \in Fetches : FetchIsMine(fetch[r])) /\ RemovalIsMine
    BY <2>1 DEF FetchIsMine, RemovalIsMine
  <2>5. VisitorsInv
    BY DEF PageInit, VisitorsInv
  <2>6. NoForeignList
    BY <2>2 DEF NoForeignList
  <2>7. QED
    BY <2>3, <2>4, <2>5, <2>6 DEF ListInv
<1>2. ListInv /\ [PageNext]_pageVars => ListInv'
  BY ListStepInv
<1>3. QED
  BY <1>1, <1>2, PTL DEF PageSpec

\* Type correctness of the machine list, its requests, its removal and the sign-ins.
THEOREM ListTypeOK == PageSpec => []PageTypeOK
<1>1. ListInv => PageTypeOK
  BY DEF ListInv
<1>2. QED
  BY <1>1, ListInductive, PTL

\* AuthProvider, ProtectedRoute and useMachines: what the list shows was read for
\* somebody who has been signed in since it came up, and without dev mode for the user
\* who is signed in; for any number of users, of sign-ins that end late, and of
\* requests that overtake each other.
THEOREM ListNoForeignList == PageSpec => []NoForeignList
<1>1. ListInv => NoForeignList
  BY DEF ListInv
<1>2. QED
  BY <1>1, ListInductive, PTL
=============================================================================
