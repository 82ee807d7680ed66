---------------------------- MODULE MachinesPage ----------------------------
(***************************************************************************)
(* The machine list of one browser tab: useMachines, which asks for the    *)
(* list every few seconds and after every removal, MachineCard's buttons,  *)
(* AuthProvider and ProtectedRoute, which decide whether the list is on    *)
(* the screen at all, and the relay's HandleListMachines and               *)
(* HandleDeleteMachine behind them.                                        *)
(*                                                                         *)
(* Sign-ins take their time, and nothing cancels one: the page goes on     *)
(* until it has been redirected, the poll of a page that comes back from a *)
(* provider and the dev provider's sign-in may be under way together, and  *)
(* each of them sets the user when it ends, whoever is signed in by then.  *)
(*                                                                         *)
(* Requests overlap and their answers come in any order.  A handler reads  *)
(* the rows in one query and then asks the registry about each of them.    *)
(* Machines are enrolled and their tunnels come and go by themselves.      *)
(***************************************************************************)
EXTENDS Naturals

CONSTANTS
    Users,
    Dev,          \* the user of the dev provider, which signs in without a redirect
    Machines,
    Owner,        \* the user under whose tenant a machine is enrolled
    Fetches,      \* GET /api/machines requests in flight at once
    MaxChanges,   \* bound: changes and failures the page has to keep up with
    Null

ASSUME PageAssumption ==
    /\ Null \notin Users \cup Machines
    /\ Dev \in Users
    /\ Owner \in [Machines -> Users]
    /\ MaxChanges \in Nat

VARIABLES
    devMode,      \* how the relay was started
    row,          \* ids of machines with a row
    deleted,      \* ids of machines that had one
    entry,        \* machines the registry has a tunnel of
    user,         \* AuthProvider's user
    logins,       \* login calls under way, at most one of each kind
    authLoading,  \* AuthProvider's isLoading: its poll is under way, or has thrown
    expired,      \* the users whose token no longer verifies
    route,        \* whether the tab is at the list or at another page
    visitors,     \* history: who was signed in since the list came up
    listView,     \* MachineList: loading, an error, the list
    machines,     \* the state `machines` of useMachines
    fetch,        \* the requests for the list
    del,          \* handleDelete and HandleDeleteMachine
    changes       \* how many changes there have been

relayVars == <<devMode, row, deleted, entry>>
authVars == <<user, logins, authLoading, expired, route, visitors>>
pageVars == <<relayVars, authVars, listView, machines, fetch, del, changes>>

\* `mine`: the component that sent the request is still mounted.
NoFetch == [pc |-> "idle", of |-> Null, mine |-> FALSE, rows |-> {}, online |-> {}, todo |-> {}]
NoDelete == [pc |-> "idle", m |-> Null, of |-> Null, mine |-> FALSE]
NoMachines == [rows |-> {}, online |-> {}]

PageTypeOK ==
    /\ devMode \in BOOLEAN
    /\ row \subseteq Machines
    /\ deleted \subseteq Machines
    /\ entry \subseteq Machines
    /\ user \in Users \cup {Null}
    /\ logins \subseteq {"dev", "redirect"}
    /\ authLoading \in {"no", "poll", "stuck"}
    /\ expired \subseteq Users
    /\ visitors \subseteq Users
    /\ route \in {"list", "other"}
    /\ listView \in {"loading", "error", "list"}
    /\ machines \in [rows : SUBSET Machines, online : SUBSET Machines]
    /\ fetch \in [Fetches -> [pc : {"idle", "sent", "online", "answer"},
                              of : Users \cup {Null},
                              mine : BOOLEAN,
                              rows : SUBSET Machines,
                              online : SUBSET Machines,
                              todo : SUBSET Machines]]
    /\ del \in [pc : {"idle", "sent", "close", "answer"},
                m : Machines \cup {Null},
                of : Users \cup {Null},
                mine : BOOLEAN]
    /\ changes \in 0..MaxChanges

PageInit ==
    /\ devMode \in BOOLEAN
    /\ row \in SUBSET Machines
    /\ deleted = {}
    /\ entry \in SUBSET row
    /\ user = Null
    /\ logins = {}
    /\ authLoading = "no"
    /\ expired = {}
    /\ visitors = {}
    /\ route = "list"
    /\ listView = "loading"
    /\ machines = NoMachines
    /\ fetch = [r \in Fetches |-> NoFetch]
    /\ del = NoDelete
    /\ changes = 0

\* ProtectedRoute renders the list only for a user, and not before AuthProvider has
\* ended its poll.
Mounted == user # Null /\ authLoading = "no" /\ route = "list"

\* Whom the relay takes the bearer of u's token for: nobody if it has expired, but in
\* dev mode any token that does not verify is the dev user's.
verifyToken(u) == IF u \notin expired THEN u ELSE IF devMode THEN Dev ELSE Null

Changes == changes < MaxChanges /\ changes' = changes + 1

\* What the user does to the page is a change if it takes the list off the screen.
Disturbs == IF Mounted THEN Changes ELSE UNCHANGED changes

-----------------------------------------------------------------------------
(* useMachines and MachineCard.                                             *)

\* refresh sends a request with the token of the user it was rendered for.
Sends(r, u) ==
    /\ fetch[r].pc = "idle"
    /\ fetch' = [fetch EXCEPT ![r] = [NoFetch EXCEPT !.pc = "sent", !.of = u, !.mine = TRUE]]

\* The effect: when it is mounted, when there is another user, and whenever the
\* interval is over.
Poll(r) ==
    /\ Mounted
    /\ Sends(r, user)
    /\ UNCHANGED <<relayVars, authVars, listView, machines, del, changes>>

Over(r) == fetch' = [fetch EXCEPT ![r] = NoFetch]

\* Mutant: the list is kept outside of the component that asked for it.
AnswerToAnyone(r) ==
    /\ fetch[r].pc = "answer"
    /\ Over(r)
    /\ IF Mounted
       THEN /\ machines' = [rows |-> fetch[r].rows, online |-> fetch[r].online]
            /\ listView' = "list"
       ELSE UNCHANGED <<machines, listView>>
    /\ UNCHANGED <<relayVars, authVars, del, changes>>

\* Mutant: refresh leaves the error of an earlier request in place.
AnswerKeepsError(r) ==
    /\ fetch[r].pc = "answer"
    /\ Over(r)
    /\ IF fetch[r].mine
       THEN /\ machines' = [rows |-> fetch[r].rows, online |-> fetch[r].online]
            /\ listView' = IF listView = "error" THEN "error" ELSE "list"
       ELSE UNCHANGED <<machines, listView>>
    /\ UNCHANGED <<relayVars, authVars, del, changes>>

\* An answer arrives: the component that asked, if it is still there, shows it.
Answer(r) ==
    /\ fetch[r].pc = "answer"
    /\ Over(r)
    /\ IF fetch[r].mine
       THEN /\ machines' = [rows |-> fetch[r].rows, online |-> fetch[r].online]
            /\ listView' = "list"
       ELSE UNCHANGED <<machines, listView>>
    /\ UNCHANGED <<relayVars, authVars, del, changes>>

\* Mutant: fetchMachines takes the body of an error for the list.
FailsUnchecked(r) ==
    /\ Over(r)
    /\ machines' = IF fetch[r].mine THEN [error |-> "failed"] ELSE machines
    /\ listView' = IF fetch[r].mine THEN "list" ELSE listView
    /\ UNCHANGED <<relayVars, authVars, del>>

\* The component shows an error in place of the list, which it keeps.
Fails(r) ==
    /\ Over(r)
    /\ listView' = IF fetch[r].mine THEN "error" ELSE listView
    /\ UNCHANGED <<relayVars, authVars, machines, del>>

\* MachineList shows the cards of the list, unless it shows an error instead.
Shown(m) == Mounted /\ listView = "list" /\ m \in machines.rows

\* handleDelete, once the user has confirmed, with the token of that moment.
Remove(m) ==
    /\ Shown(m)
    /\ del.pc = "idle"
    /\ Changes
    /\ del' = [pc |-> "sent", m |-> m, of |-> user, mine |-> TRUE]
    /\ UNCHANGED <<relayVars, authVars, listView, machines, fetch>>

\* The answer, or an error that nobody looks at, and then onChanged: a request for
\* the list, with the token of the removal, which of a component that is gone nobody
\* would see.
Removed(r) ==
    /\ del.pc = "answer"
    /\ del' = NoDelete
    /\ IF del.mine THEN Sends(r, del.of) ELSE UNCHANGED fetch
    /\ UNCHANGED <<relayVars, authVars, listView, machines, changes>>

-----------------------------------------------------------------------------
(* The tab.                                                                 *)

\* The list and its state go; what it has asked for is answered to nobody.
Unmounts ==
    /\ listView' = "loading"
    /\ machines' = NoMachines
    /\ fetch' = [r \in Fetches |-> IF fetch[r].mine THEN [fetch[r] EXCEPT !.mine = FALSE]
                                   ELSE fetch[r]]
    /\ del' = [del EXCEPT !.mine = FALSE]

\* Nothing stops a sign-in that is under way.
Logout ==
    /\ user # Null
    /\ Disturbs
    /\ user' = Null
    /\ visitors' = {}
    /\ Unmounts
    /\ UNCHANGED <<relayVars, logins, authLoading, expired, route>>

\* login: the buttons of Layout's header are there whenever nobody is signed in, also
\* while AuthProvider's poll is under way.
ClickLogin(k) ==
    /\ user = Null
    /\ k = "dev" => devMode
    /\ k \notin logins
    /\ logins' = logins \cup {k}
    /\ UNCHANGED <<relayVars, user, authLoading, expired, route, visitors>>
    /\ UNCHANGED <<listView, machines, fetch, del, changes>>

\* An error, a lost answer, or a poll that brings no token.
LoginFails(k) ==
    /\ k \in logins
    /\ logins' = logins \ {k}
    /\ UNCHANGED <<relayVars, user, authLoading, expired, route, visitors>>
    /\ UNCHANGED <<listView, machines, fetch, del, changes>>

\* The dev provider's session is consumed without leaving the page.  If somebody has
\* been signed in meanwhile, the user changes under the list that is on the screen.
ConsumeSession ==
    /\ "dev" \in logins
    /\ logins' = logins \ {"dev"}
    /\ user' = Dev
    /\ expired' = expired \ {Dev}
    /\ visitors' = IF Mounted THEN visitors \cup {Dev} ELSE {Dev}
    /\ UNCHANGED <<relayVars, authLoading, route, listView, machines, fetch, del, changes>>

\* The page is taken to the provider, with everything it was doing; the one that comes
\* back asks for the token of its session before it renders a protected page.
Redirected ==
    /\ "redirect" \in logins
    /\ Disturbs
    /\ logins' = {}
    /\ user' = Null
    /\ authLoading' = "poll"
    /\ route' = "list"
    /\ visitors' = {}
    /\ listView' = "loading"
    /\ machines' = NoMachines
    /\ fetch' = [r \in Fetches |-> NoFetch]
    /\ del' = [del EXCEPT !.mine = FALSE]
    /\ UNCHANGED <<relayVars, expired>>

\* The poll brings the token of whoever has signed in at the provider.
PollCompletes(u) ==
    /\ authLoading = "poll"
    /\ u # Dev
    /\ user' = u
    /\ authLoading' = "no"
    /\ expired' = expired \ {u}
    /\ visitors' = {u}
    /\ UNCHANGED <<relayVars, logins, route, listView, machines, fetch, del, changes>>

\* The poll brings no token, or fetch throws and the page is never done loading.
PollFails ==
    /\ authLoading = "poll"
    /\ authLoading' \in {"no", "stuck"}
    /\ UNCHANGED <<relayVars, user, logins, expired, route, visitors>>
    /\ UNCHANGED <<listView, machines, fetch, del, changes>>

\* handleConnect, or a link to another page; and back.
Leave ==
    /\ user # Null /\ route = "list"
    /\ Disturbs
    /\ route' = "other"
    /\ visitors' = {user}
    /\ Unmounts
    /\ UNCHANGED <<relayVars, user, logins, authLoading, expired>>

Return ==
    /\ route = "other"
    /\ route' = "list"
    /\ UNCHANGED <<relayVars, user, logins, authLoading, expired, visitors>>
    /\ UNCHANGED <<listView, machines, fetch, del, changes>>

-----------------------------------------------------------------------------
(* The relay.                                                               *)

\* resolveUser accepts the token; ListMachines reads the tenant's rows.
ListMachines(r) ==
    /\ fetch[r].pc = "sent"
    /\ verifyToken(fetch[r].of) # Null
    /\ LET rows == {m \in row : Owner[m] = verifyToken(fetch[r].of)}
       IN  fetch' = [fetch EXCEPT ![r].pc = "online", ![r].rows = rows, ![r].todo = rows]
    /\ UNCHANGED <<relayVars, authVars, listView, machines, del, changes>>

\* machineJSON asks the registry, machine by machine.
ReadOnline(r, m) ==
    /\ fetch[r].pc = "online"
    /\ m \in fetch[r].todo
    /\ fetch' = [fetch EXCEPT ![r].todo = @ \ {m},
                              ![r].online = IF m \in entry THEN @ \cup {m} ELSE @]
    /\ UNCHANGED <<relayVars, authVars, listView, machines, del, changes>>

Encode(r) ==
    /\ fetch[r].pc = "online"
    /\ fetch[r].todo = {}
    /\ fetch' = [fetch EXCEPT ![r].pc = "answer"]
    /\ UNCHANGED <<relayVars, authVars, listView, machines, del, changes>>

\* 401 for a token that has expired.
Unauthorized(r) ==
    /\ fetch[r].pc = "sent"
    /\ verifyToken(fetch[r].of) = Null
    /\ Fails(r)
    /\ UNCHANGED changes

\* 500, or the answer is lost.
FetchFails(r) ==
    /\ fetch[r].pc # "idle"
    /\ Changes
    /\ Fails(r)

\* HandleDeleteMachine: the row, if the bearer of the token has that machine, and then
\* its tunnel.
DeleteMachine ==
    /\ del.pc = "sent"
    /\ IF del.m \in row /\ Owner[del.m] = verifyToken(del.of)
       THEN /\ row' = row \ {del.m}
            /\ deleted' = deleted \cup {del.m}
            /\ del' = [del EXCEPT !.pc = "close"]
       ELSE /\ del' = [del EXCEPT !.pc = "answer"]
            /\ UNCHANGED <<row, deleted>>
    /\ UNCHANGED <<devMode, entry, authVars, listView, machines, fetch, changes>>

CloseTunnel ==
    /\ del.pc = "close"
    /\ entry' = entry \ {del.m}
    /\ del' = [del EXCEPT !.pc = "answer"]
    /\ UNCHANGED <<devMode, row, deleted, authVars, listView, machines, fetch, changes>>

\* The request never arrives, is refused, or the database fails, perhaps after it
\* has deleted the row: then the tunnel stays.
DeleteFails ==
    /\ del.pc \in {"sent", "close"}
    /\ del' = [del EXCEPT !.pc = "answer"]
    /\ UNCHANGED <<relayVars, authVars, listView, machines, fetch, changes>>

-----------------------------------------------------------------------------
(* Everybody else.                                                          *)

EnrollMachine(m) ==
    /\ m \notin row \cup deleted
    /\ Changes
    /\ row' = row \cup {m}
    /\ UNCHANGED <<devMode, deleted, entry, authVars, listView, machines, fetch, del>>

TunnelComes(m) ==
    /\ m \in row \ entry
    /\ Changes
    /\ entry' = entry \cup {m}
    /\ UNCHANGED <<devMode, row, deleted, authVars, listView, machines, fetch, del>>

TunnelGoes(m) ==
    /\ m \in entry
    /\ Changes
    /\ entry' = entry \ {m}
    /\ UNCHANGED <<devMode, row, deleted, authVars, listView, machines, fetch, del>>

TokenExpires ==
    /\ user # Null
    /\ user \notin expired
    /\ Changes
    /\ expired' = expired \cup {user}
    /\ UNCHANGED <<relayVars, user, logins, authLoading, route, visitors>>
    /\ UNCHANGED <<listView, machines, fetch, del>>

-----------------------------------------------------------------------------
Serve(r) ==
    \/ ListMachines(r) \/ (\E m \in Machines : ReadOnline(r, m)) \/ Encode(r)
    \/ Unauthorized(r) \/ Answer(r)

Delete == DeleteMachine \/ CloseTunnel \/ DeleteFails \/ \E r \in Fetches : Removed(r)

PageNext ==
    \/ \E r \in Fetches : Poll(r) \/ Serve(r) \/ FetchFails(r)
    \/ Delete
    \/ \E k \in {"dev", "redirect"} : ClickLogin(k) \/ LoginFails(k)
    \/ ConsumeSession \/ Redirected \/ PollFails \/ \E u \in Users : PollCompletes(u)
    \/ Logout \/ Leave \/ Return \/ TokenExpires
    \/ \E m \in Machines : Remove(m) \/ EnrollMachine(m) \/ TunnelComes(m) \/ TunnelGoes(m)

PageSpec == PageInit /\ [][PageNext]_pageVars

\* The interval fires, and the relay ends every request it has accepted (its
\* server has timeouts for reading and writing).  The user need not do anything.
PageFairSpec ==
    /\ PageSpec
    /\ WF_pageVars(\E r \in Fetches : Poll(r))
    /\ WF_pageVars(Delete)
    /\ \A r \in Fetches : WF_pageVars(Serve(r))

-----------------------------------------------------------------------------
(* Properties.                                                               *)

\* What there is to show.
Truth == LET rows == {m \in row : Owner[m] = verifyToken(user)}
         IN  [rows |-> rows, online |-> rows \cap entry]

\* The list converges: when machines, tunnels and the user stop changing, a list
\* that is on the screen becomes the true one and stays it, although answers
\* overtake each other, an older one may be shown after a newer and the user may
\* have changed under the list; with a token that is refused it becomes an error
\* for good, never an old list (useMachines).
ListConverges ==
    <>[](Mounted => IF verifyToken(user) = Null
                    THEN listView = "error"
                    ELSE listView = "list" /\ machines = Truth)

\* Nothing that was read for somebody outlasts a sign-out or a way back to the list:
\* what is shown was read with the token of somebody who has been signed in since the
\* list came up, although that user's answers are still on their way when the next
\* one signs in on the same page (ProtectedRoute unmounts the list, and an answer
\* belongs to the component that asked for it).  Unless the relay is in dev mode that
\* is the user who is signed in.
NoForeignList ==
    \A m \in machines.rows :
        /\ Mounted
        /\ \E u \in visitors : Owner[m] \in {u, verifyToken(u)}
        /\ ~devMode => Owner[m] = user
=============================================================================
