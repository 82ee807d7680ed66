# Phosphor: a TLA+ development

Phosphor gives browser-based SSH access to machines that are behind NAT.  A
machine runs `phosphor tunnel`, which keeps an outbound SSH connection to a
relay; a browser opens a WebSocket to the relay, which opens a channel back
through that connection to the machine's sshd and pipes ciphertext between the
two.  This directory models the parts of it that keep state, checks them with
TLC on small instances and proves the most important results with TLAPS for
every value of the constants.

Paths below are relative to the repository.

## 1. Inventory

### The parts and the state they keep

| Part | Where | State | Operations |
|---|---|---|---|
| SSH gateway | `internal/sshgate/server.go` | per connection: TCP stream, authenticated machine id, request queue | accept, public-key check, `tcpip-forward`, `cancel-tcpip-forward`, end of loop, idle deadline |
| Tunnel registry | `internal/sshgate/registry.go` | `tunnels`: machine id to the connection that serves it, under a mutex | `register`, `unregister`, `Online`, `Dial`, `Close` |
| Browser bridge | `internal/relay/handler_ws_ssh.go` | one handler goroutine per session, `bridgeCounts` | authorize, acquire, dial, pipe (two copies, a watchdog), release |
| Machines API | `internal/relay/handler_machines.go` | rows of `machines` | create, list, rename, delete |
| User directory | `internal/store/store.go` | rows of `users` and `tenants` | `GetOrCreateUser` from every authenticated request |
| Sign-in | `internal/relay/handler_auth.go`, `authsession_memory.go` | in-memory auth sessions with a TTL | login, cli-start, cli-choose, authorize, callback, poll, cleanup |
| API keys, tokens | `internal/relay/apikey.go`, `auth.go`, `internal/auth` | signing secret, recorded and revoked key ids | generate, verify, resolve to a user |
| Host key | `internal/sshgate/hostkey.go` | a key file | load, or generate and persist |
| Enroll command | `internal/cli/enroll.go`, `machinekey.go` | `machine_key`, `machine.json` | generate key, create row, fetch ssh-info, save config |
| Tunnel command | `internal/cli/tunnel.go` | SSH client, keepalive, open sessions | dial, listen, accept, keepalive, drain, back off |
| CLI login | `internal/cli/login.go`, `config.go`, `internal/auth/device.go` | token cache | browser login, device code, save, logout |
| Machine list | `web/src/hooks/useMachines.ts`, `MachineCard.tsx`, `AuthProvider.tsx` | the list, the user, requests in flight | poll, remove, sign in and out, navigate |
| Browser SSH client | `internal/webssh`, `web/src` | WebSocket as `net.Conn`, prompts, host-key pins, React state | connect, prompt, resize, close; keys |

### How they interact

- A tunnel command and the gateway share one SSH connection.  Its requests are
  queued in the SSH mux and handled by one goroutine per connection; the
  registry is shared by all of them and by every HTTP handler.
- A connection that is displaced (`register`) or unenrolled (`Registry.Close`)
  is closed **after** the registry's mutex is released.
- A bridge reads the registry, releases the lock and only then asks the
  connection for a channel (`Registry.Dial`); `OpenChannel` has no timeout.
- `HandleDeleteMachine` deletes the row and then closes the tunnel: two
  systems, no transaction.
- A sign-in callback talks to the identity provider between its two visits to
  the session store, while the client polls that store.
- Every authenticated request calls `GetOrCreateUser`, several of them at once
  when a web page loads for the first time.
- `enroll` writes two files around two HTTP calls; `tunnel` reads both files.
- `login` leaves a token in a file that a later `enroll` picks up unasked.
- Enrolling pins the gateway's host key; the relay must present the same one
  after every restart, from a file that it writes at its first.
- The machine list is asked for again every five seconds and after a removal,
  without waiting for the previous answer; the relay reads the rows in one query
  and the registry once per row.
- Signing in on the web is asynchronous and nothing cancels it: the poll of a page
  that comes back from a provider and the dev provider's sign-in may be under way
  together, and each sets the user when it ends, whoever is signed in by then.

### What is hard

Interleavings at the unlocked gaps above; peers that vanish without a FIN;
requests buffered when the link dies; relay restarts; HTTP answers and commits
whose answer is lost; commands killed between two writes; goroutines that wait
for each other at the end of a session; expiry racing a late callback.  The
hazards are listed with their lines in `PROJECT.json`, each with the
properties that would notice it going wrong, or a note on why none does yet.

### What makes each part correct

- **Gateway**: an entry belongs to a live connection that proved the machine's
  key; nobody's cleanup takes down a replacement; nobody is left connected and
  unreachable; dead connections leave.
- **Bridge**: only one's own machines; the cap is exact and holds; slots come
  back.
- **Directory**: one identity, one tenant, for ever, whoever races.
- **Sign-in**: the token belongs to that login and is handed out once; a success
  page tells the truth unless the session expired meanwhile; sessions expire.
- **Enroll**: success leaves a usable pair of files, and the machine under the
  account the user is signed in as.
- **Host key**: who pinned it can come back for ever.
- **Machine list**: one's own; in dev mode, where users may change under the list,
  at most that of somebody who was signed in since it came up; true once things
  are quiet.
- **Tunnel**: it comes back after any failure, it stops when told, it leaks no
  session.
- **API keys**: a key acts for its maker, works once it was handed out and is
  of no use after it was revoked or the secret changed.
- **Terminal in the browser**: no credential goes to a host key nobody
  accepted, an answer reaches the question it was given to, who leaves hangs up.

## 2. Modules

| Module | Models | Extends / instantiates |
|---|---|---|
| `Gate` | sshgate server and registry, `HandleDeleteMachine` | INSTANCE `Tunnels` |
| `Tunnels` | what the gateway promises the rest of the relay (abstract) | |
| `Bridge` | `HandleSSHBridge`, `bridgeCounts`, `Registry.Dial`, `pipe` | EXTENDS `Tunnels` |
| `Users` | `store.GetOrCreateUser`, statement by statement | INSTANCE `Directory` |
| `Directory` | an atomic get-or-create (abstract) | |
| `Login` | auth sessions, `/api/auth/*`, polling clients | |
| `TokenCache` | `phosphor login`, `logout`, the device flow, `tokens.json` | |
| `Enroll` | `phosphor enroll`, the rows, what `phosphor tunnel` loads | EXTENDS `TokenCache` |
| `HostKey` | `LoadOrCreateHostKey` and the relay's starts | |
| `TunnelClient` | `phosphor tunnel` at run time, with the pinned key | EXTENDS `HostKey` |
| `Accounts` | `verifyToken`, `HandleGenerateAPIKey`, the `api_keys` table | |
| `WebClient` | `ConnectView`, `useSSH`, `webssh.connect`, host-key pins | |
| `MachinesPage` | `useMachines`, `MachineCard`, `AuthProvider`, `HandleListMachines` | |
| `GateProofs`, `BridgeProofs`, `UsersProofs`, `LoginProofs`, `EnrollProofs`, `TunnelClientProofs`, `AccountsProofs` | theorems about these modules and the ones they extend | EXTENDS them and TLAPS |
| `WebClientProofs` | theorems about the two pages of the web application that keep state | EXTENDS `WebClient`, `MachinesPage` and TLAPS |
| `MCBridge`, `MCEnroll`, `MCAccounts`, `MCMachinesPage` | constants that a `.cfg` cannot write (a function, a symmetry set) | |

Definitions keep the source's names where there is one (`register`,
`unregister`, `acquire`, `release`, `cleanup`, `HandleAuthLogin`, ...).  A
definition whose comment begins with "Mutant:" is a deliberately wrong variant
of the one below it; it shows that some property depends on that detail of the
code and is not part of the specification.

### Gate

One action is one critical section, or one step of a goroutine between two
points where another goroutine can be seen.  `tunnels` is `Registry.tunnels`;
`link` and `peer` separate what the relay believes of a TCP stream from
whether the CLI is still there; `reqs` is the connection's queue of global
requests; `loop` is where `handleConn` and its request goroutine are.
`HandleForward` is the locked part of `register`; the displaced connection is
kept in `victim` and closed by `CloseVictim`.  `RegistryClose` and
`RegistryCloseConn` split `Registry.Close` the same way, after `DeleteLoads`
and `DeleteRow` of the HTTP handler.  A statement that fails may have taken
place (`DeleteRowFails`).  `Restart` drops everything but the rows.  `fwd` and
`unenrolled` are history variables.

`Tunnels` is what a user of the gateway needs to know: a connection comes up
for an enrolled machine, takes over or gives up the machine's entry, closes, is
detected as dead.  `Gate` implements it (`GateImplementsTunnels`, with its
fairness; the safety half is proved), and `Bridge` is built on it in place of `Gate`, which keeps the
composed state space small.

### Bridge

One session is one handler goroutine with a program counter; `copies` are the
two goroutines of `pipe`, `Tick` is the watchdog, `ctxDone` the context that
ties them together.  The client's path value is kept as text (`Paths`):
`uuid.Parse` accepts several spellings of one id, the registry and the counter
compare the text.  Closing an SSH channel sends a message, so a copy blocked in
`Read` ends only when the other side answers or the connection dies; that is
why `chan` has a state "closing".

### Users and Directory

One action is one SQL statement at READ COMMITTED.  `pending` is the
uncommitted row that makes a conflicting `INSERT` wait; `LosesRace` is
`ON CONFLICT DO NOTHING` returning no row, after which the transaction is
rolled back and the winner's row is read.  `Fails` is any statement's error,
with the deferred rollback; a lost answer to a commit may hide a commit that
took place.  `Directory` is one atomic step per answer.

### Login

`sess` is the store's map.  A callback has three steps: `CallbackGets` copies
the session, `Exchange` redeems the code at the provider, `CallbackCompletes`
writes the token.  The browser may bring any issued code with any state.  The
provider is external: it redeems a code once, and only for the verifier it was
issued under.  `PollCompletes` is `Consume`, whose answer may be lost.  The CLI
polls until it gives up; the web app polls once.

### TokenCache and Enroll

`TokenCache` is a host's sign-in: `tokenFile` is `tokens.json`, `login` the
login commands, each waiting for the browser or polling with a device code, then
truncating and then writing the file.  A token is the account it speaks for,
until `TokenExpires`; `blank` is what the device flow saves when the provider's
answer names no error and holds no token.  A `logout` during a write unlinks the
file that is being written.

In `Enroll` both files are truncated and then written, the command may die
anywhere and may run twice at once; `CreateFails` includes the row that was
created although the answer was lost.  A run starts with an API key
(`StartWithKey`), with whatever token is cached (`StartCached`, expired or not)
or with a browser sign-in whose token is not saved (`StartBrowser`, `SignIn`).
`me`, `who` and `overlap` are history: the account of the host's last successful
login, the account a run was meant for ("unsure" where commands overlapped and
nobody could say), and whether runs overlapped.  `LoadMachineConfig`,
`LoadMachineKey` and `Matches` say what a `tunnel` command would find.

### HostKey and TunnelClient

`HostKey` is one relay process and its key file: `LoadHostKey`, or
`GenerateHostKey`, which creates the file, and `PersistHostKey`, which fills it,
before anything listens.  `TunnelClient` enrolls a machine when the relay is up
(`Pin`) and then keeps its tunnel against a gateway that may be stopped, or die
during its first start, and must present the pinned key to be dialled
(`Reachable`).  `pc` is `RunTunnel` and `runTunnelOnce`; `ka` the keepalive goroutine; `watch`
the goroutine that closes the client when the context ends; `ch` one
`bridgeToSSHD` per channel.  A link may be up, silent (nothing arrives and
nobody says so) or closed.

### Accounts

A request is a chain of steps: `VerifyToken`, or `VerifyAPIKey` and
`IsAPIKeyRevoked`; then, for a new key, `GenerateAPIKey`, `GetOrCreateUser`,
`RecordAPIKey`, `Reply`, and for a machine `GetOrCreateUser` and
`CreateMachine`.  `Fails` is any database call's error, which may hide a call
that took place.  A user is its identity (provider, subject), as `Directory`
allows.  `maker`, `by` and `revoked` are history: they follow a key back to the
account at its root, also through keys made with keys.  Signatures are
abstracted to the secret a key was signed with.  `RevokeAPIKey` exists in the
store and no handler calls it; in the model anybody with access to the database
does.

### WebClient

An action is one task of the page's event loop with everything that runs before
the next task; `pc` is where the effect's async function and the goroutine of
`connect` are, `ask` is the prompt on the screen, `cancelled` the flag of the
effect's cleanup.  Two views share `pin`, as two tabs do.  What is typed, what
is displayed and key re-exchange are left out.

### MachinesPage

Its definitions have names of their own (`PageInit`, `PageSpec`, `listView`), so
that one module can prove about both pages.  `fetch` are the requests for the
list, from `refresh` through the handler (one query, then the registry machine
by machine) to the answer, which belongs to the component that asked (`mine`);
`del` is the one removal under way, and both carry the token of the user they
were sent for (`of`).  `Mounted` is `ProtectedRoute` and the router.  `logins` are
the `login` calls under way, one of each kind at most (a bound): `Redirected` ends
one with a new page, whose poll (`authLoading`) ends in `PollCompletes` or
`PollFails` while the buttons in the header already work; `ConsumeSession` ends
the dev provider's on the page where it began, whoever is signed in by then.
`devMode` is how the relay was started: without it there is no dev provider, and
with it `verifyToken` takes a token that does not verify for the dev user's.
`visitors` is history: who has been signed in since the list came up.
Enrollments, tunnels, removals, failures, expiries and what takes the list off the
screen (`Disturbs`) happen at most `MaxChanges` times, so that "once things stop
changing" has a meaning; sign-ins are not counted while no list is shown.

## 3. Runs

| Run | Question | Instance | Distinct states |
|---|---|---|---|
| `gate` | Is the registry right whatever interleaves, do dead tunnels leave, and does the gateway implement `Tunnels`? | 2 machines, 2 connections, 1 DELETE | 341,858 |
| `gate_unenroll` (violation) | Is a machine offline once its DELETE was answered? | 1 machine, 1 connection | |
| `bridge` | Isolation, cap, exact counter, slots returned | 1 machine, 2 connections, 2 sessions, 2 tenants, cap 1 | 291,338 |
| `users` | One tenant per identity, atomic directory, calls return | 2 identities, 2 calls, 3 tenant ids | 22,885 |
| `login` | Token of that login, once; honest success; expiry | 2 sessions, 1 provider, 2 verifiers, 2 callbacks | 508,225 |
| `enroll` | Usable files and the right account after success | 1 host, 2 enrolls, 2 logins, 2 accounts, 2 keys, 2 names (symmetric) | 670,330 |
| `enroll_key` (violation) | Does the key on disk fit the config on disk? | 1 host, 1 run, 2 keys | |
| `tunnel_client` | Lasting pins, recovery, stopping, draining | 2 channels, 3 faults, 2 host keys | 2,199 |
| `accounts` | Do keys act for their maker, work, and stop working? | 2 accounts with one email, 2 providers, 2 keys, 2 secrets, 2 requests (symmetric) | 1,898,992 |
| `accounts_enroll` (violation) | Is a machine under its creator's own user? | 1 key, 1 secret, 1 request | |
| `web_client` | Trusted host keys, answered prompts, hanging up | 2 views, 2 fingerprints | 6,270 |
| `machines_page` | One's own list, and in the end the true one | 2 users of a provider and the dev user, 2 machines, 2 requests, 2 changes, dev mode or not | 1,520,778 |

The states are small because data is abstract, and the bounds are chosen so
that the races named in the hazards occur:

- `Gate`: two connections are what a replacement takes; both may authenticate
  as either machine, so mixing machines up is possible; one waiting request per
  connection (`ReqBuf`) suffices for one that arrives before the link dies.
  Connections are not reused, as in the code.
- `Bridge`: cap 1 with two sessions makes the limit reachable; with two
  spellings of the id it also makes a bypass of the counter expressible.  A second
  machine, of the other tenant, is out of TLC's reach here: that a dialled
  connection is never another tenant's machine's is for the proof, which is about
  any machines.
- `Users`: two calls are one winner and one loser; a third tenant id lets a
  transaction that will be rolled back coexist with two committed users, so a
  call never runs out of ids for good (`gen_random_uuid()` never does).
- `Login`: a second verifier is what choosing a provider twice takes; two
  callbacks may belong to one or to two sessions.  `devMode` is TRUE, which
  only adds behaviours.
- `Enroll`: hosts share no files and meet only in the names of an account, which
  two runs of one host collide on as well, so there is one host.  Two keys let it
  enroll twice; two logins are what an overlap takes, two accounts what a mix-up
  takes.
- `TunnelClient`: three faults hit a connection in any phase and its successor
  while it is being built; a second host key makes a replaced one visible.
- `MachinesPage`: two requests overtake each other; two changes are a removal or an
  expired token beside a sign-out, a lost answer or a tunnel that comes or goes,
  and the run starts with any of the machines enrolled and connected.  Two users of
  a provider take turns in production; one of them and the dev user have a machine
  each, so that both a change of users and an expired token change the list.
- `Accounts`: two keys let one be made with the other; two requests let one be
  past its checks when the other begins after a revocation; a second secret is
  a restart without `API_KEY_SECRET`; one address at two providers is what
  could mix two accounts up.
- `WebClient`: two views and two fingerprints let one view pin what the other
  is being asked about.

### Fairness, and why the code justifies it

- Goroutines that can run do run (weak fairness on the relay's own steps).
- `IdleTimeout`: `idleConn` sets a read deadline on each read and a write
  extends it too; the relay writes to a vanished peer only until the TCP send
  window is full, so the deadline eventually passes.
- `Bridge`: the SSH library of a CLI that is there answers channel opens and
  closes; a copy goroutine is assumed to end only once its channel is over,
  since before that it may sit in a read or a write for ever; the watchdog
  ticks.
- `Users`: PostgreSQL queues lock waiters, so an insert that is enabled again
  and again runs (strong fairness on the conflicting `INSERT`).  Nothing is
  assumed of `Fails`.
- `Login`: time passes and the cleanup ticker ticks; nothing is assumed of
  users, providers or clients.
- `TunnelClient`: timers fire, the gateway comes back, and `ssh.Dial` and
  `client.Listen`, which have no deadline of their own past connecting, end
  when TCP gives up.  A session may last for ever while its tunnel is up, and
  ends once the connection is closed, provided that the local sshd goes on reading
  what is written to it.  Nothing
  is assumed of the operator.
- `MachinesPage`: the interval fires, and the relay ends every request it has
  accepted (`main.go` gives its server read and write timeouts).  Nothing is
  assumed of the user or of machines.
- `WebClient`: the module loads or fails to, and a connection that does not get
  as far as a shell is closed in the end by somebody else: the relay waits ten
  seconds for the prelude and closes bridges that are idle, the sshd has its
  login grace time, and a dial through a dead tunnel ends with the tunnel.  Nothing is
  assumed of the user, and nothing of a connection whose shell is up.

Deadlock is checked in every passing run.  `Accounts` and `WebClient` state a
`TypeOK` that is proved (section 4); their runs check the other properties only.

### What the violations show

- `gate_unenroll`: `HandleDeleteMachine` "unenrolls a machine and closes its
  tunnel".  A connection that authenticated before the row was deleted may send
  `tcpip-forward` after `Registry.Close` ran; `register` does not look at the
  store, so the deleted machine is in the registry again and stays there while
  its CLI keeps the connection.  The bridge refuses it, as there is no row.
- `enroll_key`: `Enroll` overwrites `machine_key` before it asks the relay.
  When the request is refused (enrolling a second time under the same name is
  a 409, with an expired cached token a 401) the old `machine.json` stays, with a
  key the relay does not know: the earlier enrollment no longer connects.
- `accounts_enroll`: enrolling "registers the machine under your account", with
  `--api-key` too.  `HandleGenerateAPIKey` signs the key for the email address,
  users are found by OIDC subject: the key's requests resolve to a user
  (provider, email) with a tenant of its own, and the machine is not in the
  list of the web sign-in that made the key.

Seen in the models and not stated as a run: the loser of a first-login race
does not store the email it brought (the next call does); a DELETE whose answer
is lost and that is retried gets a 404; a poll whose answer is lost loses the
token, as `Consume` has deleted the session; a cached token that has expired
makes every enroll fail until the user logs in again or out, since nothing looks
at its expiry and the refresh token saved beside it is never used; a device-code
login whose answer holds no token reports success; a relay that dies while it
first writes its host key does not start again until the file is removed; a
machine list shows an older answer after a newer one for up to an interval; a
sign-in that is under way when the user signs out signs in when it ends; a poll
that throws leaves the page at "Initializing..."; in dev mode a dev sign-in that
ends after a redirect's poll changes the user under that user's list, which stays
until the next answer, and an expired token is taken for the dev user's.  In the
browser: [disconnect]
before the session is up does nothing; the badge stays "[connected]" after the
token or the key changed under a view, and when the shell's end arrives with
the answer to its start; a prompt of a view that was left keeps its goroutine
for ever; a failed load of the WebAssembly module is remembered until the page
is reloaded.

## 4. Proofs

Every safety invariant and every action property of the passing runs is also a
theorem, for every value of the constants.  `tlapm <module>.tla` checks them:

| Module | Theorems | For any |
|---|---|---|
| `GateProofs` | `GateTypeOK`, `GateAuthenticTunnel`, `GateNoGhostTunnel`, `GateNoStrandedTunnel`, `GateOfflineOnlyByOwnEnd`, `GateRefinesTunnels` | machines, connections, DELETE requests, request buffer |
| `BridgeProofs` | `BridgeTypeOK`, `BridgeCountsAreHolders`, `BridgeCapPerMachine`, `BridgeTenantIsolation` | machines, connections, tenants, finitely many sessions, cap |
| `UsersProofs` | `UsersTypeOK`, `UsersTenantsArePersonal`, `UsersTenantIsForever`, `UsersRefineDirectory` | identities, tenants, concurrent calls |
| `LoginProofs` | `LoginTypeOK`, `LoginTokenIsOfLogin`, `LoginHandedOnce`, `LoginSuccessIsHonest` | sessions, providers, verifiers, callbacks, dev mode or not |
| `EnrollProofs` | `EnrollTypeOK`, `EnrollConfigNamesARow`, `EnrollEnrolledIsUsable`, `EnrollEnrolledAsSignedIn` | hosts, accounts, keys, names, enroll and login commands |
| `TunnelClientProofs` | `TunnelClientTypeOK`, `TunnelClientPinKeepsWorking`, `TunnelClientSessionsAreDrained` | host keys, channels, faults |
| `AccountsProofs` | `AccountsTypeOK`, `AccountsRevokedStaysOut`, `AccountsHandedKeyWorks`, `AccountsKeyNamesItsMaker` | accounts, providers, keys, secrets, requests |
| `WebClientProofs` | `WebClientTypeOK`, `WebClientHostKeyTrusted`, `WebClientPromptHasWaiter`; `ListTypeOK`, `ListNoForeignList` | views, fingerprints; users, machines, requests, changes |

**Assumptions.**  They are named and stand in the module that declares the
constants, and TLC evaluates each in a run.  Most say that a sentinel is no value
of the set it is added to, as `nil` is no pointer: `NoneAssumption`,
`TunnelsNoneAssumption`, `UsersNoneAssumption`, `LoginNoneAssumption`,
`NilAssumption`, `EnrollAssumption`, `HostKeyAssumption`,
`CredentialsAssumption`, `WebNoneAssumption`, `PageAssumption`.  The others give constants their
kind: `ReqBufAssumption` and `MaxFaultsAssumption` (naturals), `CapAssumption`
(positive), `SessionsAssumption` (finitely many sessions, so that they can be
counted), `TenantOfAssumption` and `AccountsAssumption` (a machine has a tenant,
an account a provider and an address; `PageAssumption` gives a machine its user), `DevModeAssumption`.

Each module has one inductive invariant, `IInv` (`ListInv` for the machine list),
and one lemma per action or group of actions that it is kept.  What had to be
added to the properties is where the argument is:

**Gate.**  `NoStrandedTunnel` is not inductive: it needs to know who is about to
close whom.  `IInv` adds to the three invariants `KnownPeers` (a connection in
its loop has an authenticated machine, and the machine it is known as is the
one whose key it proved), `FiledUnderSelf` (an entry is filed under
the machine its connection authenticated as) and `ClosersKnowTheirTarget` (a
goroutine between unlock and close holds a real connection, and a granted
forward is remembered only while its request goroutine runs).  There is one
lemma per action, and under it one step per conjunct; the interesting ones are
`HandleForward`, where the displaced connection stops owning the entry in the
very step that makes it somebody's victim, and `LoopEnds`, where the ownership
check of `unregister` keeps a replacement's entry.  `OfflineOnlyByOwnEnd` needs
one more invariant, `RowGoesFirst`: a DELETE that has reached the registry has
deleted the row before.

**Gate implements Tunnels.**  `GateRefinesTunnels` is the safety half of
`GateImplementsTunnels`: the same refinement mapping, without the fairness.  The
public-key check and the end of the handshake are `Authenticated` and `Admit`,
`HandleForward` is `Register`, `HandleCancel` is `Leave`, `LoopEnds` retires the
connection, a restart is a restart; steps on a request queue, closing a
connection that is closed already and looking a row up stutter.  The lemmas
`WhereIs` and `ConnStates` say in which of `Tunnels`' five states a connection
is.  `Bridge` is built on `Tunnels`' actions and never looks below them, so what
is proved of `Bridge` is about the tunnels this gateway provides.

**Bridge.**  `CountsAreHolders` equates a number with the size of a set of
sessions; each step adds one session to that set, removes one, or leaves it
alone.  That no counter exceeds the cap is part of `TypeOK`.  `CapPerMachine` is about machines and the counter is about spellings:
`DialledIsNamed` says that a session that has reached a connection has the
canonical spelling, which makes its machine's sessions a subset of one counter's
holders.  `TenantIsolation` joins three facts that were true at three different
moments: the path was authorized (`PathsAreAuthorized`), the entry was the
machine's own (`EntriesAreOwn`), the connection dialled was that entry.

**Users.**  `IInv` is the type invariant, `CallsAreSane` (what a call's program
counter implies for its variables), `MadeIsPrivate` (an uncommitted tenant is
neither committed nor another call's), `IndexIsUnique` (the unique index: a
call that is about to commit holds the pending row of its identity, and no row
is committed under it), `TenantsExist` and `TenantsArePersonal`.  The
refinement follows step by step: the commit is the directory's creating step,
returning a row is its answering step, everything else stutters.

**Login.**  That a token is of its own login rests on PKCE, which the invariant
says as `VerifierOfOneLogin`: whoever holds a verifier (a session, a callback
that copied it, a code issued under it) belongs to one login, however often the
provider is chosen anew.  `ConsumedIsOver` makes `HandedOnce` inductive: a login
whose token was handed out has no session that a late callback could complete.
`CallbackHasReason` carries `SuccessIsHonest` over the gap between the callback's
two visits to the store.

**Enroll.**  `Alone` follows a command beside which no other runs on its host:
from its first write on, the key on disk is its own, and the token it presents is
of the account it is meant for.  `TokenIsMine` ties the cached token to the last
successful login, `RunsAreApart` gives commands different keys, `Left` is what
remains after a success.

**TunnelClient.**  `KeyIsPersisted` and `PinIsOnDisk`: what serves is on the disk,
and what is pinned is on the disk, hence what serves is what is pinned.
`TunnelOwnsGoroutines`: outside `accept` and `drain` there is no session.

**Accounts.**  Per request: the credential is real, a key revoked at its start
still is when it is looked up, an admitted request goes by a name of the account
behind it, a key in the making is on record exactly when its reply is due.
Between requests: no two make keys of one id.  `KeyNamesItsMaker` is then
inductive over chains of keys of any length, since a key's maker is the account
behind the request that made it.

**Web application.**  The pin is shared between views, so `HostKeyTrusted` needs
`PinIsAccepted`: whatever is pinned was accepted once, in whichever view.  For the
machine list, `FetchIsMine`: an answer that will still be used was asked for
somebody who has been signed in since the list came up, and holds rows of that user,
or of whom the relay takes the token for.  `RemovalIsMine` says the same of the
request that follows a removal, and `VisitorsInv` that without dev mode there is
only one such user.  `ListConsumes` is the step where users change in place: it
adds a visitor and takes nothing off the screen.  `ListUnmounts` and `ListMounts`
say why nothing passes from one visit of the list to the next.

**Only model-checked.**  Liveness (`DeadTunnelLeaves`, `SlotIsReleased`,
`CallReturns`, `SessionsExpire`, `TunnelRecovers`, `CancelStops`,
`LeavingHangsUp`, `ListConverges`) and the fairness half of
`GateImplementsTunnels`: liveness under fairness is out of the prover's reach.

## 5. What is left out

Bytes and their encryption, durations (deadlines and backoffs may pass at any
time), `last_seen_at` (displayed only), wording of answers, metrics and logs.
Ids, keys and verifiers are drawn from finite pools and never repeat.  Rows are
`none`, `enrolled` or `deleted` in `Gate`, as ids are fresh UUIDs.

Assumed of the surroundings: there is one relay process; what `os.WriteFile` has
written survives (no power loss), and the host-key file is on a volume that is
kept, as the comment of `LoadOrCreateHostKey` asks.

Not modelled:

- TLS and HTTP servers, routing, schema migrations (run once at start), static
  assets, the terminal's rendering: wiring, I/O and layout.
- The parsing of imported SSH keys (`internal/sshkeys`) and the key-pair helpers
  of `internal/webssh/register.go`: pure functions of a library.
- The pages of stored SSH keys and of settings: one IndexedDB transaction, or one
  request that `Accounts` covers, per click.
- The order of keystrokes: each write of the terminal has a goroutine of its own,
  and whether two of them run in order is up to the Go scheduler; a model could
  only state that nothing is promised.
- `internal/store/fake.go`: a test double.
- The debug listener of `cmd/relay/main.go` (`SSH_DEBUG_LISTEN`), which in development
  pipes raw TCP into one machine's tunnel: to the registry one more caller of `Dial`.
- A reload of the page by hand while signed in, which restores the user from
  `localStorage`.

## 6. Plan

Done, in this order: `Gate` with `Tunnels` and its proofs, `Bridge`, `Users`
with `Directory` and its proofs, `Login`, `Enroll`, `TunnelClient`, `Accounts`,
`WebClient`; then `HostKey` under `TunnelClient`, `TokenCache` under `Enroll`,
`MachinesPage`; then the proofs about `Bridge`, `Login`, `TunnelClient`,
`Accounts`, `WebClient`, `MachinesPage` and `Enroll`, and the refinement of
`Tunnels`.

Left:

1. Action properties that the inductive invariants give almost for nothing and
   that say more than they do, such as a pin or a registry entry never changing
   but by the step meant for it.
2. What the violation runs show, positively: the weaker promises that do hold
   after a DELETE and for machines enrolled with an API key, as theorems.
