# Verification of Toolmux

Toolmux is a self-hosted gateway between AI agents and their tools: a Go server with a PostgreSQL
database that holds connections to tool servers (MCP servers, HTTP APIs, commands), discovers their
tools, grants them to agents by token, keeps OAuth credentials alive, writes its own entries into the
configuration files of agents on the host, routes model requests and watches all of it. This directory
models its logic in TLA+, checks the models with TLC and proves the main results with TLAPS.

Lines below are those of the repository's files; `store/` stands for `src/internal/store/`, and so on.

## 1. The system

### Components

| component | state | operations | interacts with | where it is hard | what makes it correct |
|---|---|---|---|---|---|
| **Tool catalog and access** (`store/tools.go`, `store/connections.go`, `store/agents.go`, `checker`) | tables `connections`, `tools`, `agent_connections`, `grants` | create, rename, pause, delete, import a connection; check it and reconcile its tools; declare and delete tools; assign, unassign, save a page of grants | checks call the tool execution router or an MCP client; the UI, the control endpoint and the importer call the store | a request reads the connection, calls an upstream for seconds and writes with what it read; pages are submitted after the catalog changed | an assigned agent holds every enabled tool, a refused tool is not granted behind the operator's back, a choice survives a tool's absence, names follow the slug |
| **Agent identities, tokens and their files** (`store/agents.go`, `localconfig`, `importer/hermes.go`, `web/operations.go`) | `agents`, `agent_tokens`; configuration files on the host | issue, revoke, disable, enable; rotate a token across files; import a profile and delete an agent (swap of `config.yaml`) | files are shared with editors and with each other's writers | a rotation writes several files; a swap is two renames; the process may stop anywhere; imports overlap | no file is left with a token Toolmux killed; configuration is not lost; edits are not undone |
| **OAuth credentials** (`oauth`, `store/connections.go:419-477`) | `connection_credentials`, `oauth_configs`, `oauth_states`, a lock per connection in memory | start, register, complete, resolve (refresh) | provider over HTTP; calls and checks resolve before every upstream call | refresh tokens are single-use with rotating providers; answers are lost; Complete and SaveOAuthClient write back what they read earlier | a refresh token is not spent twice, the stored one is live, secret and client belong together, a state is used once, callers return |
| **Operations monitor and alerts** (`operations/monitor.go`, `store/operations.go`, `web/operations.go:36-65`) | `operation_settings`, `operation_states`, `operation_events`, `webhook_deliveries` | observe a status, save the settings, deliver the queue under a lease with retries, prune | checks, the Codex sign-in, webhooks | transactions of several statements overlap; leases end and settings change during a delivery | a problem is alerted once and not forgotten; old messages are not sent to a new destination; no duplicate or endless delivery |
| **Users and sessions** (`store/admin.go`, `web/auth.go`, `web/users.go`, `web/settings.go`) | `users`, `admin_sessions`, `login_attempts` | first-run setup, sign in, sign out, create users, change password and access, rate-limit | the web UI | authentication and the creation of the session are two calls; access and password changes are transactions that overlap | an active administrator remains; a change of access or password ends the sessions opened under the old one; a password is replaced by who knew it |
| **Model gateway** (`gateway`, `store/models.go`) | model providers and their models, agents' models, a token cache of 256 entries, usage rows | infer, exchange keys for tokens, discover, enable and disable models, save and pause providers | providers over HTTP; agent tokens | three reads of a provider that is being saved; the cache is cleared under exchanges; discovery races the operator | a request sends a token of its own settings and key; one exchange at a time; a model is not lost |
| **MCP endpoint and clients** (`mcp`) | none but the sessions and processes a call has open | list by pages, call; handshakes, retries on 429/503 | catalog, OAuth, audit | paging over a changing catalog, retries and lost answers, clients that go | a call runs its tool once at most and only if granted; nothing is left open; the audit row is true |
| **Tool execution router** (`execute`) | none | check and execute an HTTP operation or a command | catalog | outcomes and time limits, which are those of a call | data conversion, unit tested |
| **Codex sign-in** (`operations/codex.go`) | one mutex, the state the page shows, scripts in a container | check, list models, sign in | monitor | a sign-in outlives its request, a script outlives its command | one script at a time has the account's refresh token; a sign-in ends and is shown while it runs |
| **Updater** (`updater`, `deploy/update-host.py`) | request and status files, the installed binary and its backup | check, install, run the helper, restore | systemd, GitHub, the process itself | main moves on; the helper is stopped anywhere; commands fail | what is installed was asked for; outcomes are told truly; updates are not blocked for good |
| **Local discovery and Hermes import** (`discovery`, `importer`) | none of its own | scan, read profiles, import | catalog, tokens | see tokens | idempotent imports |
| **Fleet supervisor** (`deploy/hermes-fleet-supervisor.py`) | restart times | restart dead units | systemd | cooldown against cap | - |
| **Control endpoint** (`control`) | none | thin tools over the store | store | - | same operations as the UI |
| **Web UI, schema and migrations, secret box, configuration, audit log, Google Workspace helper, Business API server** | forms, constraints, encryption, append-only rows, filters | - | - | - | see `PROJECT.json` |

`PROJECT.json` lists every component with its status and what is left out, and under "hazards" the
places in the code that are hard to test, each with the property that watches it or the reason why
there is none.

### Concurrency

The server handles requests in goroutines; `main` also starts the monitor and the updater loop. All
durable state is in PostgreSQL at its default isolation level, READ COMMITTED. What is shared in memory
are the locks of the OAuth manager, the rotation mutex of the web handler and the gateway's token cache.
Outside of the process are the providers, which answer, refuse or lose an answer, the configuration
files, which other programs edit, and the operator, whose pages are older than what they change.

## 2. The modules

| module | what it is |
|---|---|
| `Catalog` | connections, tools, assignments and grants with the requests in flight |
| `OAuth` | one connection's credential, the handlers that use and replace it, and the provider |
| `AgentTokens` | one agent's tokens, the configuration files, the rotation, imports and deletions |
| `Alerts` | the checks of subjects, the saves of the alert settings and the workers that deliver the queue |
| `Accounts`, `UserRegister` | users, sessions and browser requests, statement by statement; the register of accounts they implement |
| `ModelGateway` | a provider and a model, inference requests and the cache of exchanged tokens |
| `ToolCalls`, `Invocations` | listings and calls of the MCP endpoint, from the authorization to the audit row; the tool call they implement, without upstreams |
| `Updater`, `Codex`, `Host` | the update manager and helper, the Codex sign-in, and both in one process that ends and restarts |
| `MC...` | the constants TLC needs and the symmetry |
| `CatalogProofs`, `OAuthProofs`, `AgentTokensProofs`, `AlertsProofs`, `AccountsProofs`, `ModelGatewayProofs`, `HostProofs`, `ToolCallsProofs` | the theorems; those of `Updater` and `Codex` are in `HostProofs` |

### Catalog

Each store operation but one is one action. That is justified by the locks: `ReconcileTools`,
`SetAgentConnection`, `UpdateConnection` and `SetVisibleGrants` lock the connection's row FOR UPDATE,
a DELETE locks it, `ImportConnection` locks it by its ON CONFLICT clause, and the INSERT of a declared
tool takes a KEY SHARE lock through its foreign key, which FOR UPDATE excludes. What does overlap is
everything a request read before its transaction: `requests[h]` holds the connection, and the slug, as a
check (`Checker.Check`), a definition (`createDeclaredTool`) or a command import (`EnsureCommandTool`)
read it, and the outcome a check has yet to save.

The exception is `EnsureCommandTool` when the tool exists already: its statement locks the tool's row
(`Locked`), which a deletion waits for, but not the connection's, and a later statement reads the assignees
and grants them the tool. It is two steps: `UpdateCommandTool` locks and reads (`requests[h].agents`), and
`GrantCommandTool` grants. An operator who unassigns the connection, or refuses the tool, between the two finds
it granted again; no text denies it, and `overlapped` names exactly those grants.

| variable | code |
|---|---|
| `agents`, `status`, `slug`, `assigned`, `grants` | the tables and columns of those names; `absent` and `deleted` stand for no row (ids are not used again) |
| `catalog`, `enabled` | rows of `tools`, and those with `enabled` |
| `exposed` | the slug `exposed_name` was built from; a tool is a pair of a connection and an upstream name that is already sanitised |
| `requests` | local variables of handlers between their first read and their last write |
| `decision` | history: the operator's last word on an agent and a tool, as the operations take it |
| `raced` | history: connections renamed while a request held the slug they had |
| `overlapped` | history: tools withheld from an agent while an update in flight had read it as an assignee (`Promised`) |

`SetVisibleGrants` takes any page and any ticks, so it includes every page however old. Deleting and
renaming include what the foreign keys cascade and what the unique constraints forbid. A failing
statement rolls a transaction back: `Abandon` and `RefreshNotSaved` are those outcomes. Which outcomes a
check may have is a constant (`Failures`), as those that leave the catalog alone differ only in the status.

### OAuth

Handlers run `Resolve` (for a tool call or a check), `Start` or `Complete`. `proc[h]` is the point a
handler has reached and what it has read. A step is a database statement, a message to the provider or
its answer, or taking the lock (`Manager.refreshing`, one mutex per connection, held from reading the
latest credential to saving the new one). `SaveOAuthClient` is two steps: the transaction updates
`oauth_configs`, so two of them exclude each other, but reads and writes the credential without locking
that row, and other writers come between. The provider numbers tokens; redeeming a refresh token
yields an access token, and a new refresh token if it rotates them, with the old one then spent. It redeems
a refresh token only for the client it was issued to (`owner`). It may also lose its answer, refuse or fail. A client is public or authenticates with a secret.

The history variables name the ways a stored token may go bad which no client can exclude: `unsaved`
(the replacement never reached the store), `restored` (a handler wrote back over a newer credential),
`kept` (it was put beside a client registered since: `SaveOAuthClient` keeps the refresh token when it
registers over an imported client, and a `Complete` or a refresh that began before stores the older client's),
and for the secret `crossed` (it wrote back a secret over a newer client's). The properties say that nothing *else* goes
wrong, so a lost lock, a forgotten re-read or a dropped refresh token violates them.

### AgentTokens

One agent and the files `localconfig.Files` names for it. A file is its Toolmux server entry, its model
entry and the rest of its text, or `NoFile`. The steps are the database statements and the file system
operations: an editor (`EditText`, `EditToken`) may come between any two, and `Restart` stops the
process anywhere, leaving files and tables as they are.

* Rotation (`web/operations.go`, `localconfig/rotation.go`): issue, compare all files, then compare and
  write one at a time, then revoke. `rotationMu` admits one. The submission's checks are one step: the
  page lists what the preview found with a fingerprint, and a submission that finds anything else
  changes nothing, so the preview and the submission are the same state. The order in which files are
  written is left open. `RotateToken(t, FALSE)` is a rotation that leaves local files alone.
* Import (`importer/hermes.go`): create or find the agent, look at the entry, issue a token, read the
  file, rename it away, rename the new one in, remove the original. Failing before the new file is in
  place renames the original back; a failed swap revokes the token it was to write. Deleting an agent
  swaps the entry out first. Requests overlap: nothing serialises them.
* `Restored` has the outcome that the renaming back fails, too; then `broken` says so, as after a stop
  between the two renames: there is no recovery of an interrupted swap in the code.
* `severed` are tokens a person put out of use (by revoking, disabling, deleting, or rotating without
  the files), whose files the person has to see to.
* `disowned` are the tokens revoked by imports whose *last* step failed (`RemoveFails`, `Disown`): `replaceYAML` reports failure when it cannot
  remove the original (`importer/hermes.go:553-555`), and the token that is already in the file is revoked
  (line 197), so that the profile is left with a token Toolmux itself killed. Nothing in the repository says
  otherwise, so it is an exception of its own in `FilesHoldWorkingTokens`; it is a weakness.
* `touched` are files others changed in a way no comparison can catch: pasting the old token into a
  file that was already rewritten, or two swaps of the same file at once.
* If the agent is deleted and imported again during another import, the model lets that import go on
  with the new agent; in the code its INSERT fails by the foreign key. This admits more behaviours.

### Alerts

A *subject* is what is checked: a connection, a model provider or the Codex subscription. Its observers
(the monitor's check, a check an operator starts, a Codex sign-in that ends, each in every running
process), the operators who save the settings form and the delivery loops meet in PostgreSQL only. At
READ COMMITTED each statement sees what was committed when it starts, so here, unlike in `Catalog`, a
step is a statement, or several nothing can come between:

| action | code |
|---|---|
| `ReadState`, `WriteState`, `CommitState` | `Observe`: the advisory lock and the SELECT; the upsert of the row, with the message's INSERT and the second UPDATE; the COMMIT |
| `BeginSave` | `saveMonitoring`: the checks of the form, against settings read before the transaction |
| `UpdateSettings`, `CommitSave` | `SaveOperationSettings`: up to the UPDATE of all rows of `operation_states`; the DELETE of all messages and the COMMIT |
| `ReadEndpoint`, `NextDelivery`, `SendWebhook`, `FinishDelivery`, `EndRound` | `deliver`, a round of `Batch` (5) messages to the endpoint it read first |
| `ObserveFails`, `SaveFails`, `FinishFails` | a statement or the COMMIT fails, a time limit passes, or the process stops: the transaction is rolled back, or the outcome of a delivery never stored |
| `FallDue` | `next_attempt` has come: the lease, or the delay of a retry, is over |
| `PruneDelivery`, `PruneState`, `DeleteSubject` | `PruneOperations`, and the deletions that leave it rows to remove, with the checks that have listed the subject before and record its status after (`Listed`) |

Row locks are guards: a check's upsert waits for a save that has updated the row, and a save for a check
that has. But an UPDATE does not see, and does not wait for, a row whose INSERT has not committed, so a
save misses the first check of a subject. Two consequences are real, and named by history variables:

* `missed`: the alert of that first check is queued under the old settings after the save emptied the
  queue, and goes to the new destination, whatever the comment at `store/operations.go:61` intends. The
  window is the time between two statements, once in a subject's life.
* `raced`: a check that read the mark before the save reset it writes it back, and `ProblemIsAlerted` and
  `MarkedAlertIsKept` have it as their exception. The destination that was
  just entered then gets no alert until the subject recovers, is disabled, or the settings are saved again.

Two more weaknesses no text denies: a message given up after three attempts, or after a day, leaves the
mark set, so nobody is told until the subject recovers; and a worker that read the endpoint before a
save sends what is queued after it to the old destination (never the reverse, as
`OldMessagesStayBehind` says). Messages of one subject may arrive out of order, as a retry waits for minutes.

Time is left out: `FallDue` may happen at any moment, except that a lease of 60 s outlasts the request it
covers, whose limit is 10 s (`LeaseHeld`). It need not outlast the database call that stores the outcome,
nor a process that stops (`unsettled`). A save and `PruneOperations` take their row locks in opposite orders;
PostgreSQL resolves such a deadlock by failing one, which is `SaveFails` or the pruning not happening.

Simplified: the events and their pruning; the delays of retries; `unreachable`, which stands for every
status that neither needs nor ends an alert; each row that a save updates is seen when its UPDATE
ends rather than when it starts, which differs only if it waits for one subject's check while another
subject is checked for the first time; and a check that ends between a save's DELETE and COMMIT ends
after both. "Alerts on" with no endpoint, which two operators can bring about as the form is checked
early, counts as off, as in the code.

### Accounts and UserRegister

A step is a statement, or several nothing can come between. The transactions that change users are two
steps, up to the last statement and the COMMIT, and what they hold in between is a guard of the others:
the advisory lock of setup, `CreateUser` and `SetUserAccess` (`lock`), the row of the user (`RowTaken`),
which also holds up the foreign key of a new session while a password changes, and deleted sessions
(`Deleting`). A request reads the account through its session once (`Admit`) and goes on with that copy;
whether an operation trusts the copy or reads again is what several properties turn on. `GiveUp` is every
refusal, failed statement, cancelled request and stop of the process.

Signing in is two store calls. A change of access or password between them deletes the sessions there
are, and the login then adds one; `overtaken` marks that login, and `SessionsFollowChanges` says that
nothing else leaves a session behind. `NewAdminSession` inserts only for an enabled user, so the race lets a
session survive a demotion or a new password, never a deactivation committed before it.

`UserRegister` is the promise without the machinery: changes of the accounts made one at a time and then
kept or dropped; a founder, then additions and changes by who is an active administrator when the change is
made, one of whom remains. `ImplementsRegister` maps `users` to it and the transaction that holds the lock to
the change that is being made, by whom and to what; every other variable is hidden. An operation that
trusted the copy the middleware read, or a setup that did not look again under the lock, would not implement it.
The operator and viewer roles differ only in the pages they open, so two roles suffice.

### ModelGateway

A request reads the chosen model, the provider's options and its credential in three queries
(`FindModel`, `ReadProvider`, `ReadCredential`); a save between them gives it a pair of settings and key
that was never stored, and the model lets it. `cache` holds an entry for a pair: `cached` while
`Tokens.cache` finds it, `gate` the request that exchanges, `token` what a later request may reuse. Clearing
the full cache leaves the entries that requests hold (`Swept`). `End` is an answer, a refusal, a failure or a
client that goes, at every step.

`word` is history: who last had a say on the model. `SaveDiscoveredModels` enables again a model which
an operator disabled and a provider still lists; no text says otherwise, so `ModelsStayAvailable` states the
other direction, which `MODEL_GATEWAY.md` promises: a model goes off only by somebody who may say so.

### ToolCalls and Invocations

A call is authorized, dispatched by the kind of its tool (`mcp`, `stdio`, `http`, `command`), asked and
audited. An MCP server is asked in the steps of its handshake, the newer one first and the older one
after a failure (`FallBack`); a request over HTTP is repeated after 429 and 503 (`Throttled`, `RetryAfter`) up to
`Attempts`. `Unanswered(c, TRUE)` is an answer lost after the tool ran. The client may go at any moment,
which cancels whatever runs in the context of its request, the audit row included. `open` holds the sessions
and processes of the call; `dropped` are sessions of a handshake that failed, which are never closed.

Tools are numbers in the order of their names, which is that of the catalog: a page is the visible tools whose
`Position` lies behind the cursor, `PageSize` at most, and the cursor is where it ends.

`Invocations` is the promise without upstreams: a call waits, is permitted or refused by what is visible at that
moment, runs its tool once at most after that, is answered, and leaves the row of that answer if its client
is still there and the database takes it. `ImplementsInvocations` maps each call to its stage (`Stage`):
everything from `Dispatch` to the last repetition is one stage, so discovery, handshake, fallback, retries and
the close are stutters; the listing, `kind`, `step`, `attempt`, `open` and `offered` are hidden. A retry of
a failure, a lookup that trusts the name, or a handler that leaves out rows would not implement it.

Facts met while modelling, that no text denies or that a property states as an exception:

* the row of a tool call is written in the request's context (`mcp/handler.go:336-340`), so a call whose client
  has gone leaves none, although its tool may have run; the model gateway writes its row in a context of its own
  (`gateway/handler.go:79-84`). `OutcomeIsAudited` has the exception `gone`;
* an answer about a parameter header that contradicts the arguments is not audited;
* a call to a stdio server has no time limit of its own, only its probe has one: `CallsEnd` excepts
  `WaitsForProcess`;
* a cursor is an offset, so when a tool before it disappears the listing skips one (`slipped`).

The connection's credential (`OAuth`) and the discovery of an upstream's tools (`Catalog`) meet a call
in one answer each, so they are inputs here: `NotAuthorized`, `visible`.

### Updater, Codex and Host

`Updater` has the manager's checks and `Install`, and each command of the helper as a step that may fail
(`CommandFails`, `CopyFails`) or after which the helper may be stopped (`Halt`). `systemctl` may report the
failure of a start or stop that takes effect (`StartFails`, `StopFails`); after such a stop the helper does not know
that it has stopped the service, as `stopped` is set after the command (`update-host.py:68`), and leaves it down with
"Existing version retained". No text denies that this may happen: `unseen` names it, an exception of
`ServiceIsStartedAgain`. Revisions are the numbers pushed to main; some do not pass the startup checks. Ages of the status and of a pending request take
the values the code compares with. The dump of the database is a step that may fail; nothing restores it.

`Codex` has the mutex (`work`), the state shown (`view`), and the scripts in the bridge's container. A
command whose time is over leaves its script there, an orphan; so does a process that ends.

`Host` puts both in one process: `StopService`, `RestartService` and `Restart` end it with the sign-in in
it (`ProcessEnds`), and `CodexNext` needs it to run. This is where an update overtakes a sign-in.

## 3. Checks

Bounds are in the `.cfg` files.

| run | instance | distinct states | what it shows |
|---|---|---|---|
| `catalog` | 1 agent, 2 connections (one MCP server, one declared and imported), 1 name, 2 slugs, 2 requests | 788,684 | assignments stay complete, refusals and choices survive, grants have causes, names follow slugs, under overlapping refreshes, imports, renames, pages and deletions |
| `oauth` | 2 handlers, 1 authorization state, 2 tokens, 2 clients | 261,956 | the safety properties of the credential and that callers return |
| `agent_tokens` | 2 files, 2 imports or deletions, 3 tokens, 1 edit | 2,018,871 | files hold working tokens, the configuration is kept, edits are kept |
| `alerts_saves` | 1 subject, which may be deleted, 3 statuses, 2 observers, 1 operator, 2 saves, 2 messages | 2,391,555 | alerts are raised once, and again to a destination that was entered since |
| `alerts_delivery` | 1 subject, 2 statuses, 1 observer, 1 operator, 1 save, 2 workers with rounds of 2, 1 message | 3,378,285 | the lease, the attempts, and that old messages are not sent to new destinations |
| `accounts` | 2 users, 2 roles, 2 passwords, 2 sessions, 2 requests, 2 login attempts | 888,992 | sessions end with what they were opened under, passwords are compared, the register is implemented |
| `model_gateway` | 2 requests, 2 settings (one with OAuth), 2 keys, 3 entries, a cache of 1 | 71,584 | tokens are the request's own, one exchange at a time, models do not vanish |
| `tool_calls` | 1 call, 2 tools, pages of 1, 3 attempts | 197,178 | calls implement `Invocations`, run once at most if granted, have true rows and leave nothing open; listings are complete, calls end |
| `host` | revisions 0 to 2, of which 1 is bad; a monitor, a listing, a sign-in | 251,335 | updates and sign-ins, their outcomes, and that neither blocks the next |
| `catalog_disabled`, `tokens_disabled`, `updater` | smaller | - | findings, see below |

Why the bounds suffice to see the interesting cases:

* catalog properties speak of one agent, one tool and its connection; a second slug allows a rename, a second
  request a race of two refreshes, a second connection a competition for a slug;
* two handlers make every race on the credential (there is one lock and one row), one token may come with the
  import and one from a refresh or a code, a second client follows a registration;
* three tokens are the one of an earlier installation, one issued to the agent and one a rotation or an
  import adds; two files make a rotation that stops half-way; two imports overlap;
* in `Alerts` subjects share only the settings and the queue, so one subject with two checks has every race
  on its row; three statuses are a problem, its recovery and one that is neither ("disabled" ends a problem as a
  recovery does, without a message, and is left to the proofs); two saves let one undo the other; one message is enough for two workers to meet at, as
  often as it is retried, and its second message is in the other run;
* two users let two administrators demote each other, and two requests are two transactions; a third user
  would only watch;
* a cache of one entry is full with every second pair, so it is cleared under every exchange; three entries
  are one cached and one held by each request;
* calls of one agent share nothing but the grants, so one call meets every grant, failure and departure; three
  attempts are the first, one that may be repeated and the last; two pages make a cursor;
* of three revisions one is installed, one fails its checks and one replaces it as main moves on.

For the safety properties these bounds are dropped by the proofs; only the liveness properties rest on them.

`CHECK_DEADLOCK FALSE` in the `Catalog` and `AgentTokens` runs: connection ids and agents are not created
again after a deletion, so a state in which all are deleted is an end; tokens are bounded, so issuing ends.
All other runs check for deadlock.

`SYMMETRY` permutes sets of values no definition distinguishes: slugs and requests in `Catalog`, imports
in `AgentTokens`, observers, operators and workers in `Alerts`, users, passwords, sessions and requests in
`Accounts`, requests, keys and entries in `ModelGateway`. The runs with a liveness property (`oauth`, `tool_calls`,
`host`) use none.

### Fairness

* `OAuth`: each step of a handler inside `Resolve` is weakly fair: requests to the provider have a time limit
  of 15 s and statements carry the request's context, so none waits for ever. Taking the lock is strongly
  fair: it is a `sync.Mutex`, whose starvation mode hands it to the longest waiter. Nothing is assumed of
  operators, of `Start` and `Complete`, of the provider or of time. `CallersReturn` then says that no path leaves
  the lock taken.
* `ToolCalls`: the steps of a call are weakly fair together, which leaves open which of them comes: HTTP requests
  and commands have time limits. Excepted is the wait for a stdio server, which has none. `CallsEnd` then
  says that retries and fallbacks come to an end.
* `Host`: a step of the helper (its commands have time limits, and the unit has one), the passing of the ages
  the code compares, and, for each caller, the end of a command in the bridge, which the code limits to 25 s,
  16 minutes and so on. Nothing is assumed of pushes, of installations or of somebody on the host.
* `Alerts` has none: that alerts arrive is not promised, as they are given up. `Catalog`, `AgentTokens`,
  `Accounts` and `ModelGateway` promise safety only.

Each property of a passing run has a mutant in `PROJECT.json`: an operator of the model in the form it
would have with a plausible bug (waiting callers that go on with the credential they came with, a rotation
that revokes although it stopped half-way, an authorization that trusts the copy read before the lock, a
cache indexed by the settings without the key, a retry of a call that may have run). TLC finds each violated.

### Findings

1. `catalog_disabled`: `SaveCheck` sets the status whatever it was meanwhile, so pausing a connection during a
   check is undone, and checking a paused connection or replacing its credential resumes it (the edit form
   does not check a paused connection, `web/connections.go:297`).
2. `tokens_disabled`: a disabled agent can be issued a token, which works once the agent is enabled.
3. `updater`: the helper sets `previous` before the copy it names is made, so when the copy fails the partial file
   is restored over a binary that was not replaced yet, and reported as the previous one restored.

Three further disagreements between a text and the code are stated as properties beside the
others. They are not among the runs above, and can be shown with
`tlc -config CatalogRename.cfg MCCatalog` and so on:

* `NamesFollowSlug` (`CatalogRename.cfg`): a check or a definition that read the connection before a rename writes
  names with the old slug afterwards (`store/tools.go:58`), against the comment of `UpdateConnection`.
  `NamesFollowSlugUnlessRaced`, which does hold, says this is the only way;
* `RejectedRefreshIsRecorded` (`OAuthRejected.cfg`): a refresh rejected during a tool call does not change the
  connection's status;
* `ImportedEntryWorks` (`AgentTokensImport.cfg`): importing a profile with an entry of an earlier installation
  keeps that entry and its dead token, and the new token is written nowhere.

## 4. Proofs

All theorems hold for every value of the constants that satisfies the modules' assumptions:
`CatalogAssumption`, `OAuthAssumption`, `AgentTokensAssumption`, `NoFileAssumption`, `AlertsAssumption`,
`AccountsAssumption`, `GatewayAssumption`, `ToolCallsAssumption` and `UpdaterAssumption` (subsets that are subsets,
values for "none" that are no members, bounds that are numbers). Sets need not be finite. Type correctness is
proved of every module with theorems, and so is not among the runs' properties; every safety property of a
passing run is proved.

* **Catalog.** `TypeOK` becomes inductive with `RequestsOK`: a request in flight names a connection that
  was there when it was read, so a foreign key can tell it is gone. `AssignedHoldsEveryEnabledTool` and
  `ChosenStaysGranted` are then inductive; `WithheldStaysWithheld` needs `WithheldIsUnassigned`: an agent
  one of whose tools is withheld is not assigned the connection, which is why `SetVisibleGrants` ends an
  assignment. For the two steps of `EnsureCommandTool`, `LocksOK`: one update holds a tool, and it is enabled, so
  its assignees have it; and what an update is about to grant is held already, or was withheld since
  it was read and is in `overlapped` (`PromisesOK`). Names need `HoldersAreCurrent`: a slug held by a request
  is the connection's, or the connection has raced.
* **OAuth.** `LockOK`: the handlers between reading and saving the latest credential are those that hold
  the lock, so there is one at most, and `NoConcurrentSpend` follows. `TokenInv` relates everybody's refresh
  tokens to the stored one: no token has a number not yet issued (`Known`); one an authorization has yet
  to store is known to that request only (`Exclusive`); one the lock holder is about to send would be
  redeemed for its client, or is named by `unsaved`, `restored` or `kept`, and one it is about to save is live (`Refreshing`); and so
  is the stored one, unless it is being replaced (`Stored`). `SecretFollowsClient` is inductive with the types.
  `SingleUse`: an authorization that was not used has sent no code, and one callback has it.
* **AgentTokens.** `TypeOK` with `ShapeOK` (the rotation keeps the content of every file it has yet to
  write). `ConfigKept` and `EditsKept` follow by cases, the latter with `Compared`: the file about to be
  written is as it was compared, or was edited in the gap between the comparison and the write, which the
  code cannot close. `FilesWork` needs `TokenInv`: a token somebody has yet to write is its own
  (`Distinct`) and is in no file (`Unwritten`), so giving it back harms nobody; the token being replaced
  is only in files still pending (`OldReplaced`), so none has it when it is revoked; and the document
  that was renamed away stands for the file as long as nothing took its place (`Away`).
* **Alerts.** One invariant, `IInv`, in two parts. `Producing`: one check of a subject is in a transaction, and
  the message it is writing is its own (`ObsOK`); one save has the settings locked, and no check is writing
  a row that save has updated (`FormOK`). A subject whose mark is not set, or not set as a check read it, has
  no alert (`Unmarked`), so the check that queues one queues the first: `OneAlertPerProblem`. A check that read
  the mark leaves the alert it stands for (`Marks`), from which `MarkedAlertIsKept`; one about to record a
  problem with alerts on records its mark (`Alerting`), and the alert of a mark was queued under the settings in force
  or by a check the save missed (`MarkedOK`), from which `ProblemIsAlerted`. A message still being
  written when a save commits was missed by that save (`Overtaken`), and so one queued afterwards (`QueueOK`).
  `Delivering`: a message that is being sent is not due (`Leased`), so nobody takes it, which is
  `NoDuplicateDelivery`; it was queued under settings as new as its destination or was missed (`SendingOK`), which
  with `QueueOK` is `OldMessagesStayBehind`.
  A second invariant, `Counted`, rests on the first. `Sufficient`: a queued message was sent as often as it
  has attempts, and once more for each worker that has sent it and not stored the outcome; any number of
  workers may have, once leases end early, so this speaks of every finite set of them. `Settled`: a message
  whose outcomes were all stored in time is held by one worker, with the attempts it has. `ThreeAttempts` is both.
* **Accounts.** `Inv` is the types with `Shape` (what a request holds at each step, and that the accounts it
  speaks of exist), `Exclusive` (an addition or a change of access holds the lock, a change holds its row) and
  `Owned`. On it rest `Follow`, by which a transaction about to commit deletes every session that its change
  would leave behind, and `Agreed`: a transaction changes nothing of an account but the access or the password
  it is about (`Pending`), so that the administrator it counted is still there when it commits
  (`AdminRemains`). `Held`: whoever holds the lock is about to add an account or change access. Every step then
  maps to a step of `UserRegister` or to a stutter, which is `AccountsImplementRegister`.
* **ModelGateway.** `Inv` has, besides the types and `ModelsStayAvailable`, `Offered` (whoever is being served was
  offered a model that is available now), `Progress` (what a request has read at each step, and that its token
  is for its own pair) and `Consistent`: an entry a request waits at is there and of its pair (`Held`), an entry's
  token is its own and its gate is held by an exchange of it (`Gated`), and the cache finds one entry at
  most for a pair (`Distinct`), from which `OneExchange`.
* **Updater, Codex and Host.** A step of the host is one of the updater or leaves its
  variables alone, and the same of the sign-in (the lemma `HostSteps`), so the two invariants need not know of each
  other. `UpdaterInv`:
  what the manager wants, what is pending and what the helper builds was asked for (`AskedOK`), which is
  `InstalledWasAsked` once it is installed; while the helper has stopped the service it has yet to start it again
  or to fail (`ServiceOK`); at every command it is known what the binary and its backup hold, as the
  backup is made from the binary it replaces (`BinaryOK`); and what the status file reports of a binary is
  what is installed (`ReportOK`), also after the helper was stopped, since it writes the outcome last. `CodexInv`:
  whoever holds the mutex is the one caller whose script is waited for, and the page shows a sign-in while
  that caller is one. `HostInv` is both with `Quiet`: a service that does not run holds nothing.
* **ToolCalls.** `CallOK` says of each call what is true at its step. `OutcomeOK`: it has not run before it is
  answered and never without having been offered, and decision and row agree with it, so `RunsOnceIfGranted` and
  `OutcomeIsAudited` follow. `OpenOK`: what is open is fixed by the kind of the tool and the step of the handshake
  (one probe, or one process, or sessions), so every way out knows what it has to close. `ListOK`: every steady tool
  at a position the cursor has passed is on a page. That it is inductive is a fact about cardinalities,
  `StaysAhead`: when a tool appears, no tool moves towards the front, and when one disappears that the cursor had
  not passed, none crosses the cursor; what crosses it otherwise is `slipped`. The refinement of `Invocations`
  rests on `OutcomeOK`, by which a tool runs at most once although several actions count it: each action is
  one step of the invocation (`ServiceSteps`) or leaves it as it is (`UpstreamIsHidden`).

Only model-checked: the liveness properties `CallersReturn`, `CallsEnd`, `UpdatesUnblock` and `SignInEnds`, as
liveness under fairness is out of the prover's reach.
The findings are counterexamples and need no proof.

## 5. Not modelled, and the plan

Not modelled: parsing and formatting (YAML, JSON, MCP messages, model requests and streams), encryption, pages
and their wording, the contents of schemas and arguments, searching audit rows, migrations, token counts and
usage rows, the Google Workspace helper and the Business API server. They are data conversion or I/O
without state the properties could relate. The fleet supervisor is one loop with a cooldown and a cap, and
no second actor.

Left out of modelled components:

* `OAuth`: the credential and client that a re-import (`store/connections.go:179-245`) may replace;
* `AgentTokens` and `ModelGateway`: `SetAgentModels`, whose check of the chosen models precedes its write, and
  `AgentsUsingModel`, which a page reads before a model is disabled;
* two discoveries of one connection that overlap, of which the older may be saved last: the next check
  repairs it, and nothing is promised in between.

The plan for what remains:

1. `OAuth`: a `Reimport` action, with what it may overwrite.
2. Proofs: an abstract credential store that `OAuth` implements, and what the extension above adds.
