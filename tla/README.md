# A verification model of wactl

wactl connects one WhatsApp account to AI clients.  It has two long-running
programs, a **bridge** (Go, on top of the whatsmeow library) that keeps
messages in SQLite and offers an HTTP API on the loopback interface, and a
**server** (TypeScript) that offers those messages over MCP, with an admin
panel, OAuth, notifications and a watchdog; a few shell scripts install and
update them.  This directory holds TLA+ modules of that code, the TLC
configurations that check them on small instances, and proofs of what matters
most for every instance.

## 1. Inventory

### Bridge

| Part | State | Operations | Hard behaviours | What makes it correct |
|---|---|---|---|---|
| LID resolver, `bridge/lidmap.go` | maps lid to phone and back, a copy of whatsmeow's table in `session.db` | `Refresh` (at start, every 5 minutes), `Normalize`, `NormalizeUser`, `Snapshot`, `Classify` | the copy is stale between refreshes, empty after a restart or a failed refresh | a lid is only ever replaced by its own phone; what was merged stays merged |
| Message ingestion, `bridge/handlers.go` | local variables of the calls in flight | `handleMessage`, `handleHistorySync`, `SyncContacts`, `resolveChatName` | they run on goroutines of their own, look names and lids up and write afterwards; statements fail one at a time; a crash falls anywhere; messages come twice and out of order | every message in its own conversation, once; the chat listed and sorted by its newest message |
| Message store, `bridge/store.go` | tables `chats`, `messages`, `contacts`, `schema_migrations` | upserts, `INSERT OR REPLACE`, the one-time backfill `MigrateLIDChats`, queries | backfill over a database that holds a person under both forms; its mark of completion | no message lost, none filed wrongly |
| Connection and QR state, `bridge/handlers.go`, `main.go`, `api.go` | `Connected`, `LoggedIn`, `Account`, `QRCode`, `QRExpires` under one mutex | event handlers, start-up, the goroutines reading QR channels, `POST /logout` | events handled while `main` still sets the fields; two writers of the QR code; nobody tells a silent drop | `/status` agrees with the session in the end; a logged-out bridge shows a fresh QR code |
| HTTP API, `bridge/api.go` | the media cache directory | reading chats, messages, contacts; sending; download; `POST /resync` | cache files written in place; paging by whole seconds | a page sequence shows every message; a cached file is whole |

### Server

| Part | State | Operations | Hard behaviours | What makes it correct |
|---|---|---|---|---|
| Callbacks, watchdog, notifications, `server/src/index.ts`, `notify/ntfy.ts` | `pendingReconnectNotify`, the watchdog's timers, `lastNotified` | the callback route, the watchdog's tick, `notify` with its debounce | callbacks are sent once, unordered, with a timeout; a restart forgets; the debounce counts failures | every outage is announced, and its end |
| OAuth provider, `mcp/oauth.ts` | clients, codes, access and refresh tokens in memory | register, authorize, exchange, refresh, verify, revoke | expiry against exchange, rotation, restart | a code gives tokens once; a refresh token rotates |
| MCP transports, `mcp/server.ts`, `mcp/auth.ts` | tables of SSE and streamable sessions | connect, message, close | a session is registered after its first request was answered; a DELETE may come before; clients go without a word | the tables hold the sessions that are open, and none that was closed |
| Admin panel, `admin/auth.ts`, `admin/routes.ts` | sessions, counters of login attempts, the API key in `.env` and in memory | login, logout, settings, a new key, proxying to the bridge | fixed windows of the limiter; a file rewritten in place | attempts are bounded; who may connect holds a key or a token |
| MCP tools, bridge client, CLI, views | none | one bridge request each | | |

### Scripts

| Part | State | Operations | Hard behaviours | What makes it correct |
|---|---|---|---|---|
| Auto-updater, `scripts/update-check.sh` | `go.mod`, binaries and their backup, services running | get, build, self-test, swap, distribute, roll back | any command may fail under `set -e`; the machine may stop between two | afterwards old or new everywhere, services running, and the next run tries again |
| Upstream watcher, `scripts/upstream-watch.sh` | a state file with the last commit and release seen | compare, notify, save | it notifies before it saves, and saves in place | no commit is taken for old before its alert |
| Installer, `scripts/install.sh` | the instance registry, ports | index and port allocation, removal | two installers at once; indices used again | ports of instances differ |
| Caddy hotfix, container files | | | | |

### How they interact

whatsmeow calls the bridge's event handlers and writes `session.db`; the
resolver reads that file.  The handlers write `messages.db`, set the connection
state and post callbacks (`notifyCallback`: one goroutine each, one attempt,
five seconds) to the server's callback route, which notifies the owner.  The
server's watchdog polls the bridge's `/status`.  MCP clients and the admin
panel reach the bridge through the server's bridge client.  The updater and the
installer start and stop the services and replace the bridge's binary.

## 2. Plan

In the order of importance; all of it is written.

| Modules | Compose | Question | Status |
|---|---|---|---|
| `LidIdentity`, `MessageTables`, `Ingest`, `Archive`, `Reads`, `MCIngest`, `IngestProofs`, `ReadsProofs` | resolver + handlers + store + the API's answers about people | is any history lost, misfiled or split again? is one person answered for as one? | modelled, checked, proved |
| `BridgeSession`, `Notify`, `Outages`, `BridgeSessionProofs`, `OutagesProofs` | connection events + `main` + `/logout`; callbacks + watchdog + `ntfy`; both together | what may `/status` and `/qr` say, and for how long? is an outage noticed, and its end announced? | modelled, checked, safety proved |
| `AutoUpdate`, `UpstreamWatch`, `Host`, `MCHost`, `AutoUpdateProofs`, `HostProofs` | the update script + the installer + the watch | is what runs tested, of one version, and updatable after a failure at any command? whose ports are whose? | modelled, checked, safety proved |
| `ChatPages`, `MediaCache`, `ChatNames`, `BridgeApi`, `MCBridgeApi`, `BridgeApiProofs` | paging + media + names over the rows of one chat | is a chat read back in full? is a cached file whole? does a name stay? | modelled, checked, safety proved |
| `OAuth`, `Grants`, `McpSessions`, `AdminPanel`, `Server`, `MCServer`, `ServerProofs` | tokens that open sessions, logins, the API key, restarts of all of them | does a consent give access once? who counts as connected? how many logins are let through? | modelled, checked, proved |

Every safety property that a passing run checks - invariants, action properties
and both refinements - is also a theorem, for all values of the constants that
the named assumptions admit.  Four properties stay with TLC, since they are
liveness under fairness, which the proof system cannot do: `UnlinkedGetsCode`,
`OutageNoticed`, `GetsLatest` and `WalkEnds`.  What is left to prove is their
safety side where it says something of its own (a watchdog that has tripped on
a dead session stays tripped; a walk that goes on has a cursor that falls).

## 3. The core: ingestion

### Modules

* **`LidIdentity`** - JIDs, who a lid belongs to, `Normalize` and
  `NormalizeUser` (`lidmap.go`).  A JID is a record of a user part and a
  server.  `PnOf` says which phone a lid belongs to: WhatsApp's assignment,
  fixed and one to one, as `whatsmeow_lid_map` has it.  What changes is which
  lids `session.db` knows (`lidMap`) and which the resolver has read (`cached`).
  Device suffixes are left out.
* **`MessageTables`** - the statements of `store.go` as operators on the tables:
  `UpsertChat`, `StoreMessage` (replace by key) and the `UPDATE OR IGNORE` /
  `DELETE` pairs of the backfill.  `UpsertChat` takes the MAX of texts: SQLite has
  the times with their UTC offset, and where the clock was set back (`TextOf`,
  external) the later text is not that of the later time.  A message has a
  conversation, an author and a time of its own; content, media and names are
  left out.
* **`Ingest`** - the state machine:

| Variable | Code |
|---|---|
| `lidMap` | `whatsmeow_lid_map` in `session.db` |
| `phase`, `resolver` | how far `main()` has come; whether `NewLIDResolver` succeeded |
| `cached` | `LIDResolver.l2p` and `p2l` |
| `migrated` | the row `lid_backfill_v1` of `schema_migrations` |
| `chats`, `messages`, `contacts` | the tables |
| `live`, `history`, `sync` | the local variables of `handleMessage`, `handleHistorySync` and `SyncContacts` in flight |
| `backfilled`, `mishaps` | history variables, for the properties only |

| Action | Code |
|---|---|
| `OpenResolver`, `InitialRefresh`, `MigrateLIDChats` | `main.go:66-83` and the functions it calls, each with its failure |
| `AutoRefresh` | the ticker of `StartAutoRefresh` |
| `LearnMapping` | whatsmeow stores a mapping (external) |
| `Crash` | the process ends anywhere; the tables stay, the rest goes |
| `LiveArrives` ... `LiveMessage` | `handleMessage`, one look-up or statement after the other |
| `HistoryArrives` ... `HistoryEnds` | a conversation of `handleHistorySync` |
| `SyncReads`, `SyncWrites` | `SyncContacts`: the look-ups, then one transaction |

* **`Archive`** - what the database promises whoever reads it, without JIDs: a
  message kept in its conversation stays, a listed conversation stays listed.
* **`Reads`** - who a message, a JID or a member of a group is, as the API
  answers it from the same tables: `Classify`, `buildSenderMeta`, GET
  /jid/:jid/resolve and GET /groups/:jid/participants.  Nothing but operators;
  its property holds them against each other in every state of `Ingest`.
* **`MCIngest`** - the instance and its bounds.
* **`IngestProofs`**, **`ReadsProofs`** - the theorems.

A look-up in the resolver and the statement after it are one step where the
look-up's result is all that is carried: whatever falls between the two
commutes with one of them.  The two look-ups of `handleMessage` are separate
steps, and so are all statements, except that a statement's failure is a choice
in its step.

### Runs

* `ingest` (passes) checks, over every interleaving of the handlers with each
  other, with refreshes, lid learning, failing statements, crashes and restarts,
  from every old database an earlier build could have left:
  - `TypeOK`;
  - `NeverMisfiled`: a message is never stored with somebody else;
  - `MessageHasChat`: a message's chat is listed, unless `UpsertChat` failed;
  - `ChatTimeCoversMessages`: in SQLite's order a chat's time is not before that
    of its messages, unless `UpsertChat` failed or the backfill met both forms of
    one chat (in seconds it may be, by as much as the clock was set back);
  - `BackfillHolds`: while every start can read the lid map, what the backfill
    merged is never split again;
  - `SenderNeverBehindChat`: of the two look-ups of one message only the second
    may know more;
  - `NeverLosesHistory`: `Ingest` implements `Archive` through a refinement
    mapping, so neither `INSERT OR REPLACE` nor the backfill's deletes lose a
    message;
  - `OnePerson`: once the resolver knows somebody's lid, every answer about that
    person, asked for by either JID, as a member of a group or as a sender, has
    the same phone and names, and finds names under whichever form they are.
    Senders are those of the 1:1 chat, and of groups those stored as a user part.
* `ingest_later_mappings`, `ingest_order`, `ingest_group_senders` (violated) each
  check a sentence of a comment or of the README that the code does not keep;
  see the findings below.

**Bounds.**  One contact with a phone and a lid, the own account, one group,
two messages of the contact of different times; in `ingest` the clock was set
back between them, so that the later one has the earlier text.  Two forms of one person is
what every hazard of this component is about; two messages are what ordering,
replaced rows and collisions in the backfill need.  `Bounds` (a CONSTRAINT)
limits a behaviour to one *kind* of mishap, keeps `SyncContacts` apart from the
two message handlers, and lets only the newer message arrive live (the older
one is in the old database or comes with history, before, after or meanwhile).
Both messages are in the 1:1 chat, and in the group in `ingest_group_senders`;
the theorems cover both.  Histories of conversations without
messages are cut off after their first step.  Nothing bounds the number of
crashes, refreshes, messages or replays.  The theorems have none of these
bounds.  No fairness is assumed: all properties of this component are safety.

`CHECK_DEADLOCK` is left on: the bridge can always crash and start again.

### Proofs

All for arbitrary sets of lids, phones, groups, messages and contact stores,
from the assumptions `NamespacesAssumption`, `PnOfAssumption`,
`MessageAssumption` and `NamedAssumption`.

* `TypeCorrect`: `Spec => []TypeOK`.  `TypeOK` is inductive; lemmas
  give the type of what `Normalize` and the backfill's operators return.
* `NeverMisfiledHolds`: `Spec => []NeverMisfiled`.  The property says nothing of
  what the handlers carry, so it is strengthened by the same statement of the
  calls in flight (`FilingInv`): the chat of a call is a form of its
  message's conversation, and its sender a name of the author's.
* `BackfillIsForGood`: `Spec => []BackfillHolds`.  The invariant `BackfillInv`
  adds that, once `main` has come past its refresh, the resolver covers every
  lid that was rewritten (lids only join `lidMap`, a refresh copies all of it)
  and that no call in flight carries one of those lids, since all calls
  begin after the backfill and were normalised by such a resolver.

`ReadsProofs` goes on from these invariants, under the same assumptions:

* `MessageHasChatHolds`, `ChatTimeCoversMessagesHolds`: a message and its chat
  are written by two statements, so the invariants (`RowsInv`, `TimesInv`) say
  the same of a handler between the two.  `MigrateChatsKeeps` carries them
  through the backfill: a chat row moves with its messages, and only a row of
  both forms loses a time.  That no handler runs before the backfill comes from
  `BackfillInv`.
* `ChatTimeWithinSetBack`: what this means in seconds.  If a text that is not
  earlier never stands for a time that is earlier by more than some bound, which
  is how far the clock was ever set back, the time of a chat is behind its newest
  message by at most that.
* `SenderNeverBehindChatHolds`: the chat is looked up first, so a chat filed
  under the phone means a sender that is not a lid or one that the resolver
  maps - and a running resolver forgets no lid (`LiveSenderInv`,
  `ResolverCovers`).  `BareSenders` adds that 1:1 messages have bare senders.
* `OnePersonHolds`: with the senders known by then to be names of the author
  (`FilingInv`, `SenderInv`), `MetaOfEither` computes the one answer.
* `NeverLosesHistoryHolds`: `Spec => NeverLosesHistory`, the refinement of
  `Archive`.  Under `NeverMisfiled` what is archived are the ids that have a
  row: a REPLACE keeps them, and so does the backfill, whose DELETE only takes
  what the phone's conversation has (`MigrateMessagesKeepsIds`).  Listed
  conversations need that no JID is a form of two (`FormsApart`).

Nothing of this component is only model-checked.  `RowsInv`, `TimesInv` and
`SenderInv` hold in every state TLC reaches on the instance.

### Findings

* **Rows of later mappings stay.**  `store.go:113` says mappings that appear
  after the backfill are handled at write time.  When the first refresh fails,
  the backfill sees an empty snapshot and is marked as applied; the ticker's
  refresh then brings the mappings, new messages go to the phone's chat and the
  old rows stay under the lid for good (`LaterMappingsHandled`).
* **The backfill loses the newer time.**  With rows for both forms of a chat,
  the lid's row is dropped with its `last_message_time` while its messages
  move, so `GetChats` sorts the chat by the older time (`OrderedByMostRecent`).
* **Senders of groups that history brings are conflated.**  `handleHistorySync`
  takes `Key.Participant`, a full JID, as the sender; `NormalizeUser` knows bare
  user parts and lets it through, so the column that `store.go:216` calls bare has
  the JID.  `buildSenderMeta` appends a server to it, finds neither contact nor
  mapping and answers with the lid for a phone, where README.md:236 promises that
  two forms of a contact are never conflated (`NeverConflated`).  The same message
  delivered live is answered for rightly.

### Limits of the ingestion model

The names in `contacts` are left out (a row is there or not); those in `chats`
are in `ChatNames`.  The comment at `store.go:425` says that unmapped
lids come back with type "lid" and no phone; `Classify` takes them for phones,
and so does the model.  One handler of each kind is in flight.  Messages that arrive while the
backfill runs do not exist: `main` registers the handlers afterwards.  Messages
sent through `POST /send` are not stored by the bridge itself and enter, if at
all, as events.

## 4. Sessions and outages

### Modules

* **`BridgeSession`** - the session and what the bridge says of it.  `device`,
  `link`, `channel` and `code` belong to whatsmeow and are external, taken from
  how the bridge uses it: a linked client that loses its websocket retries and
  tells nobody; a device removed by WhatsApp or on the phone gives `LoggedOut`
  and `Client.Logout` gives no event; a takeover gives `StreamReplaced` and no
  reconnect; a QR channel delivers codes until one is scanned or all have run
  out.  Events reach the handlers one at a time and in order (`events`).

| Variable | Code |
|---|---|
| `main` | how far `main()` is: "connecting" between `Connect` and the fields |
| `connected`, `loggedIn`, `account` | the fields of `BridgeState`; of the account only whether it is set |
| `qr` | `QRCode` with `QRExpires` as GET /qr shows them |
| `reader`, `relogin` | the goroutine that reads a QR channel; that of `handleLoggedOut` in its two seconds |
| `logout` | POST /logout between `Client.Logout` and the fields |
| `calls` | callbacks on their way, at most one of each kind, in no order |
| `incidents`, `mishaps` | the budget of things going wrong; history variable: which late or failed write put the fields out of step |

  The handlers are actions of their own names.  `Start`, `MainSetsFields` and
  `Exit` are `main()`, `Relogin`, `ReadsCode` and `ReaderEnds` the goroutines,
  `handleLogout` and `LogoutSetsFields` POST /logout, `CallEnds` the end of
  `notifyCallback`'s request.
* **`Notify`** - the server: `SessionBreaks`, `QRReady` and `Connected` are the
  callback route; `PollAsks`, `PollConnected` and `PollOffline` the watchdog,
  which awaits GET /status and acts on the answer later; `Notify` and
  `QuietEnds` the notifier with its debounce, which counts a notice whether it
  was delivered or not; `ServerRestarts` loses all of it.  A notice the owner
  sees is the last one that reached `inbox`.
* **`Outages`** - both together: callbacks (`calls`) and GET /status (`online`)
  are all that passes between them.

### Runs

* `bridge_session` (passes):
  - `NeverClaimsDeadSession`: when nothing is under way any more, `connected`
    means a session that is up or retrying - except after one of two late
    writes, which the model marks: `main` setting the fields after a `LoggedOut`
    was handled, and `Connected` handled after POST /logout;
  - `LiveSessionReported`: a session that is up is reported in full - except
    after a POST /logout whose `Logout` failed;
  - `UnlinkedGetsCode`: after a logout the owner gets a code, unless the single
    attempt to ask for one fails.
* `outages` (passes): `OutageNoticed`: an outage that ends the session or its
  connection for good leaves the watchdog tripped for good, even when callbacks
  are lost and the server restarts.
* `outages_silent` (violated): see the finding.

**Bounds.**  `MaxIncidents` limits what goes wrong (drops, takeovers, logouts,
failures, exits), not what goes right: pairings, logins and codes are unbounded.
Three incidents let a mishap follow a recovery from another; each exception
above needs at most two.  Three events in the queue are more than one socket
leaves waiting.  In `Outages` one incident is the outage; the watchdog trips at
two polls instead of five (one poll that counts and one that trips is all the
code tells apart) and its count stops there, since nothing reads it beyond.
A poll is answered before the next one is due.  `Debounced` says which kinds of
notice may come again within ten minutes.

**Fairness.**  Of the bridge: systemd starts it again (`Restart=always`),
goroutines run, queued events are handled, WhatsApp sends codes to a client
that pairs.  `Start` is a start that succeeds; one that fails is the process
still being down.  Of the server: requests on the loopback interface end one way
or the other, the watchdog's timer fires.  Nothing is assumed of logins, scans,
incidents, restarts of the server or the end of a debounce.

`CHECK_DEADLOCK` is off in these runs: a bridge whose session was taken over
really waits for ever for somebody to do something.

### Proofs

`BridgeSessionProofs`, for any number of incidents and any length of the queue
(`BoundsAssumption`), proves `TypeCorrect`, `NeverClaimsDeadSessionHolds` and
`LiveSessionReportedHolds`.  Both properties speak of moments at which nothing
is under way; the invariant has to say what holds meanwhile.  What it says is
that the *newest* event in the queue tells how the link stands (`NewestTells`),
as nothing moves the link without an event but a drop, a POST /logout and the
codes running out; that the end of a session is the last event until the
bridge connects again (`EndsLast`), so nothing handled after it undoes what
`handleLoggedOut` did; and that `handleLoggedOut`'s goroutine is alone
(`ReloginInv`).  With these a claim without a session is one that a queued event
or the open POST /logout is about to correct (`ClaimsInv`), and a session that
is not reported has its `Connected` queued (`ReportsInv`).

`OutagesProofs`: `ImplementsBridge` shows that the composition steps the bridge as
`BridgeSession` allows or leaves it alone, so that `StatusIsTrue` brings both
properties over to a bridge that talks to a server; `ServerTypeCorrect` is the
type of the server's side, with a watchdog that has tripped having counted up
(`OutagesAssumption`).

`UnlinkedGetsCode` and `OutageNoticed` are liveness properties and stay with TLC.

### Finding

* **The watchdog misses what it was made for.**  `index.ts:182` says whatsmeow
  retries silently and the watchdog is there to notice.  But no handler clears
  `Connected` when the socket drops, so GET /status goes on saying connected
  and the watchdog never trips (`SilentOutageNoticed`).

### Limits

Two things the model shows and no run is about.  A QR channel is opened at start
and after a `LoggedOut` event only: when the codes run out unscanned, or after
POST /logout, GET /qr stays empty until somebody restarts the process.  And the
poll that finds the bridge back after an outage arms the notice of the *next*
`Connected` callback, while the one that the comment of `index.ts:184` means may
have been received and passed over by then.  Events are handled one at a time
and in the order of the socket; whatsmeow may dispatch some of them on
goroutines of their own.

## 5. The machine: updates, instances, upstream

### Modules

**`AutoUpdate`** - `update-check.sh` command by command, where commands that
only print or read fall to their neighbours, beside the installer.

| Variable | Code |
|---|---|
| `latest` | the newest whatsmeow (external) |
| `goMod`, `backup` | the version in `go.mod` and in `go.mod.bak`; in a run the latter is also `CURRENT`, and after `go get` the former is `LATEST` |
| `built`, `canonical` | `wactl-bridge-new`, `bridge/wactl-bridge` |
| `registry`, `copied`, `binary`, `up` | `instances.json`; instances half installed; the binary and the started services of each |
| `pc`, `test`, `alive`, `todo`, `instance` | where the script is, `TEST_RESULT`, the process under test, the loop over `INSTANCE_NAMES` |
| `squatter` | a test process of an earlier run that still serves the test's port |
| `mishaps` | history variable: why the pieces need not agree at the moment |

`set -e` is what makes the script's failures interesting: the failing branch of
`Fetch`, `KillTest` and `CopyBinary` ends the run where it is, while the build and
the verdict have a rollback of their own.  `Killed` and `Reboot` end it anywhere.
`AddCopies` and `AddRegisters` are the beginning and the end of an installation,
with an update possibly in between.

**`UpstreamWatch`** - `upstream-watch.sh` on whatsmeow's commits, which are the
versions of `AutoUpdate`.  `stateFile` is the commit in the state file; `watch` is
the running script; `told` and `excused` are history variables.  A run fetches a
page (`Polls`), alerts or, the first time, only starts counting (`Alerts`), and
saves (`WritesState`).  An alert may reach nobody, for want of a topic or because
`curl` failed, and the run goes on.  `WatchCutOff` ends it anywhere; in the middle
of the write it leaves an empty file, after which the next run is a first one, or
part of a line (`torn`), on which every later run ends where it sources the file.

**`Host`** - the update, the installer and the watch together, with the index of
every instance: `Installs` is `AddCopies` with the choice of the index (`NextIndex`,
jq's `max + 1`), `Removes` gives it back, `Ports` is the arithmetic.  jq and the
`mv` that replaces `instances.json` are one step.

### Runs

* `auto_update` (passes):
  - `NoInstanceOnBadVersion`: no instance gets a version that does not start -
    except that a test process left over from a killed run answers the next
    run's `curl`, and a version that hangs passes;
  - `UpToDateMeansInstalled`: between two runs `go.mod`, the canonical binary and
    those of all instances agree and the services are started, so that "Already
    up to date" is true - unless a run was cut short (`CutShort`), failed
    between instances (`CopyFailed`) or missed one just being installed
    (`JoinedLate`); a binary that dies in its test cuts the run short, see the
    finding.  The next update that gets through repairs all three;
  - `GetsLatest`: when upstream rests at a version that works and nothing is
    left of those mishaps, every instance ends up running it;
  - `PortsDistinct`: instances have ports of their own (README.md:77), whichever
    were removed and installed again - but for one whose index was read while
    another installation was not yet in the registry;
  - `NoneTakenForOld`: the state does not move past a commit with a keyword before
    its alert went out, wherever a run ends - but for those before a first run
    and those that a page or an alert has no room for.  Nor does it say that the
    owner heard of it: an alert that reached nobody is not sent again.
* `auto_update_rollback` (violated): after a failed self-test everything is
  rolled back (`MAINTENANCE.md:226`).

**Bounds.**  Two instances (one updated while the other waits, fails or
joins).  Five versions in the order good, good, does not start, does not
compile, good: a bad version after a good one that was tested, and a good one
after both kinds of bad ones.  Three incidents.  Days are unbounded.  Three
indices: one can be given back below and above the other's and used again.  A
page of three and an alert of two lines overflow within five commits.  `Bounds`
lets the watch run, and a third index be held, only beside an updater that has
not run yet: the watch and the updater share the commits and nothing else, and
the updater does not look at indices.  So every behaviour of the updater is
explored with the watch asleep and two indices, which its steps do not leave,
and liveness is judged there.  (The theorems have none of these bounds.)

**Fairness.**  Weak fairness of the script alone: cron starts it every day and
its commands end (`curl` and `go` time out).  Upstream, the installer and
incidents are free.

### Proofs

`AutoUpdateProofs`, for any set of instances, any numbers of versions and
incidents, any sets of versions that compile and start
(`VersionsAssumption`: the first version, with which the installation was made,
starts):

* `TypeCorrect`: `Spec => []TypeOK`, which includes that `go.mod.bak` exists
  wherever the script restores it.
* `BadVersionsKeptOut`: `Spec => []NoInstanceOnBadVersion`.  The invariant
  `StartsInv` adds the canonical binary, from which instances are copied, and
  the build that has passed its test and is not installed yet.
* `UpToDateIsTrue`: `Spec => []UpToDateMeansInstalled`.  The invariant `AgreeInv`
  follows a run: until the verdict `go.mod.bak` agrees with the canonical
  binary and the build with `go.mod`; from the swap on `go.mod` agrees with the
  canonical binary, and every instance does or is still ahead in the loop.

`HostProofs`, for the machine as a whole and every `MaxIndex` (`IndexAssumption`):

* `UpdateIsSafe` carries the three theorems to `HostSpec`: watch, indices and
  removals do to the updater only what `AutoUpdate` says.
* `NoneTakenForOldHolds`: the invariant `WatchInv` follows a run of the watch: what
  it has read is what the state file holds, and once it has alerted everything
  up to the head is accounted for - which is why alerting before saving is the
  right order.
* `IndicesDistinctHolds`: an index that is read while nothing else is being
  installed is greater than all that are held; removals only free indices.
* `PortsDistinctHolds`: ports are distinct as long as indices are at most 407.
  The code has no such limit, and `PortsMeet` shows that the number is exact:
  index 408 would get port 8080 of the first instance.

`GetsLatest` is a liveness property and stays with TLC.

### Finding

* **A dead binary is not rolled back.**  `kill $TEST_PID` fails when the binary
  under test has died, and under `set -e` that ends the script: `go.mod` stays
  at the bad version, and until upstream moves on every run finds itself up to
  date (`RollsBack`).

## 6. The bridge's API on a chat

### Modules

* **`ChatPages`** - a client that reads a chat back, by `before` (GET
  /chats/:id/messages) or by `until` (GET /messages/search).  `NewestOf` is the
  query's ORDER BY ... LIMIT, with rows of one second in any order;
  `GetMessages` and `SearchMessages` are its conditions, strict and not.  `TextOf`
  is the place of a time in SQLite's order, which compares texts with their UTC
  offset (external): where the clock is set back it is not that of the times.
  The client is external and does what the tool's description tells it.
* **`MediaCache`** - GET /media/:messageId, one action per system call: look-up,
  read of the cache, download, the write that empties the file first and the
  write that fills it, or fails.  `Requests` run side by side without a lock.
  `torn` is a history variable: files whose last write broke off.
* **`ChatNames`** - the name of a chat in `chats` (`rowName`), the contact's name
  that GET /chats shows before it (`contact`) and what each handler found and
  is about to write (`resolved`).  `resolveChatName` is the look-up, `WritesName`
  the statement.
* **`BridgeApi`** - all three over the rows of one chat, with messages received,
  sent (POST /send and /send-file: WhatsApp has them, the table does not) and
  recovered (`handleResync`, `HistoryStores`), and crashes.  `conversation` is what
  WhatsApp has of the chat.

### Run

* `bridge_api` (passes):
  - `TypeOK`, which includes that a stored media message has a file name;
  - `WalkComplete`: a walk to the end shows every message that was stored when
    it began, whatever is stored meanwhile and with the clock set back in
    between - but for messages of a second that a page of GET
    /chats/:id/messages ended in, and those beyond a second that holds as many
    messages as a page of a search;
  - `WalkEnds`: pages come to an end;
  - `PartIsExplained`: part of a file is in the cache only while a request writes
    it or when its last write broke off;
  - `WholeForGood`: a whole file that no request has found missing is never
    touched again;
  - `NameForGood`: a chat listed under a real name is never again listed under a
    number, once no handler is left that looked before the name was there.

**Bounds.**  Five messages of three seconds, three of them of one, and pages of
three: pages that end inside a second, that are filled by one second, and that
are not full.  One message has media, with two file names to get and two
requests to ask for it: what a third request could add is another writer of the
same kind.  Two handlers, the live one and history.  `Bounds` lets the walk, the
media and the names move one at a time beside everything that changes the rows;
they share nothing else.  A walk's own states are closed under the steps that
the constraint leaves, so liveness is judged on all of them.

**Fairness.**  Weak fairness of the client's next request, which is what having
begun a walk means.  A failing request is one not made yet.

`CHECK_DEADLOCK` is left on: the bridge can always crash.

### Proofs

`BridgeApiProofs`, for any finite set of messages, any size of page, any order of
SQLite's texts that tells two times apart (`PagesAssumption`), any requests,
file names and handlers (`MediaAssumption`, `NoFileAssumption`):

* `TypeCorrect`: `Spec => []TypeOK`.
* `WalkCompleteHolds`: `WalkComplete` is about the end of a walk.  The invariant
  `WalkInv` says of every page that what was there at the beginning has been
  shown, is still ahead of the cursor, or is of a second the code leaves out; the
  cursor is the oldest text shown.  The lemmas about `NewestOf` (a page that
  is not full has all rows, what it leaves is not newer) need cardinalities of
  finite sets, and the oldest of a page that times have a least one.
* `PartIsExplainedHolds`: inductive as it is.
* `WholeForGoodHolds`: an action property; of each system call of a request it
  is shown that it writes no file whose absence no request has seen.
* `NameForGoodHolds`: an action property, with the invariant that a group has no
  contact row (`NamesInv`).

`WalkEnds` is a liveness property and stays with TLC.

### Limits

The exceptions in these properties are the code's: each is needed for its
property to hold.  GET /chats/:id/messages skips what its page cuts off of a
second, as `toolDefinitions.ts:86` tells the client to pass the oldest time.  A
file whose write broke off is served in part for good, since the cache is
"best effort" (`api.go:385`) but read first.  A name may be lost to a
handler that looked before it; the stand-in of a chat that one writes first is
one's own number; a group's subject is never looked up again once a row has it.
Text is not modelled, so neither is the search by words.

## 7. The server

### Modules

* **`OAuth`** - the provider and its clients.  A consent of the owner stands for
  the code it yields and the tokens that come of it; a token is a consent with a
  number.  `ChecksChallenge` and `exchangeAuthorizationCode` are two steps, as
  the SDK awaits between them; `exchangeRefreshToken` is one.  Requests may be
  repeated before an answer comes, and request or answer may be lost.  `held` is
  what the client has; `broken` is a history variable: consents of which
  something went wrong that nobody can repair.
* **`Grants`** - the abstract specification: a consent is given, redeemed once,
  and ended for good.
* **`McpSessions`** - the two tables of sessions (`sessions`), the first requests
  that are still in `handleStreamableHTTP` (`opening`) and how the client of each
  session stands (`client`).  `StreamableBegins` goes up to the answer, which has
  the id; `StreamableRegisters` is the statement after `handleRequest`, whatever
  became of the client by then.  A DELETE that comes before it is refused with
  400 (`RefusesDelete`), and may be sent again.
* **`AdminPanel`** - the limiter of one address, with a clock, and the API key in
  `.env` and in the MCP server.  `passed` is a history variable.  `form` is how
  `.env` mentions `MCP_API_KEY=`: `includes` and the anchored regexp do not agree
  on a line that is commented out or indented, and a second line is left alone,
  so that a write may succeed without the key a start takes being the new one.
* **`Server`** - the process: all of them, with `validateAuth` between tokens,
  key and sessions (`Admitted`), and the restart (`Restarts`) that empties them.

### Runs

* `server` (passes):
  - `TypeOK`, with at most one good refresh token of a consent;
  - `GrantsOnce`: `OAuth` implements `Grants` through a refinement mapping: a code
    gives tokens once, however requests fall, and what has ended stays ended;
  - `ClientInStep`: what a client holds can be exchanged, or the answer to its
    exchange is on its way, until an answer is lost, a token revoked, a code
    expires or the server restarts;
  - `ConnectedClients`: every client with an open session is counted by the
    panel, at the latest when its first request has been handled, and no session
    is counted or still to come whose connection closed or whose DELETE
    succeeded.  Others are: of clients that went without a word, and of those
    whose DELETE came too early and that did not ask again;
  - `AttemptsBounded`: in no minute are there more than two windows' attempts
    less one.
* `server_five_a_minute` (violated): no minute has more than `MAX_ATTEMPTS`.

**Bounds.**  Two consents, two requests, two tokens of each: a code asked for
twice, a rotation asked for twice, and one consent beside another.  One session
of either kind; two keys and every form of `.env`.  Three attempts in windows of three ticks, over eight
ticks: the bound is met exactly.  `Bounds` looks at one of tokens, sessions and
logins at a time in full; they share the restart, which every state allows, and
`Admitted`.  Consents, requests and keys are symmetric: nothing in the modules
tells them apart, and no liveness is checked here.

`CHECK_DEADLOCK` is left on: the server can always restart.

### Proofs

`ServerProofs`, for any consents, requests, sessions and keys, any number of
tokens (`TokensAssumption`) and any limit, window and course of time
(`LimitAssumption`):

* `TypeCorrect`: the invariant `OAuthInv` adds that a good code has issued nothing
  and that tokens, requests and answers carry numbers that were issued; without
  it "one refresh token of a consent" is not inductive.
* `ClientInStepHolds`: `ClientInv` says why a client that asks twice is not left
  with a dead token: of a consent that is not broken one answer at most is on
  its way, it is later than what the client holds, its token is the good one,
  and every other request asks by what the client held before and will be
  refused.
* `GrantsOnceHolds`: `Spec => GrantsOnce`, the refinement of `Grants`.  Each step of
  the provider gives, redeems or ends one consent, or none; a restart ends all.
* `ConnectedClientsHolds`: inductive once no session is both registered and still
  to come (`SessionsInv`), and the ids of the two transports are apart
  (`KindsAssumption`).
* `AttemptsBoundedHolds`: `LimitInv` ties the limiter's count to what has passed
  since its window began, says that an attempt began it, and that what passed
  within a window's length before its beginning leaves out the one that began
  the window before: hence twice the limit *less one*.

Nothing of this component is only model-checked.

### Finding

* **Up to nine attempts in a minute.**  The five of README.md:38 are five in a
  window that begins with an attempt; across its end the attempts of two windows
  come together (`FiveAMinute`).  `AttemptsBoundedHolds` says how many at most.

### Limits

Of the API key nothing is stated: the server's and that of `.env` differ after a
write that broke off and where the file has no line for the regexp, until the
next restart, and where neither happened they agree by what `regenerateKey`
assigns.  It is modelled because it decides who is admitted.  The tables of attempts and of expired tokens are never pruned, and a
streamable session whose client vanished is counted until the server restarts.
A client that comes back with the id of a session from before a restart is
taken for a new one and refused (`server.ts:151`).  Cookie sessions of the panel, scopes and
what passes inside an MCP session are left out.

## 8. Not modelled

* The MCP tools, the bridge client, the command line and the admin views: they
  turn one request into one answer and keep nothing.
* The panel's cookie sessions: a map with an expiry, looked at by each request.
* Text and its search, captions and replies (`extractText`, `extractQuotedID`),
  and media types: data that no property here tells apart.
* GET /messages/:id: one row; that the id may be of another chat is noted among
  the hazards.
* The watch over mautrix releases: the steps of the watch over commits, with a
  page of one.
* The installer's packages and first build, the Caddy configuration and its
  hotfix, the container files: one-off edits and packaging.

## 9. Running

    tlc -config MCIngest.cfg MCIngest                  # two to three minutes
    tlc -config MCIngestLaterMappings.cfg MCIngest     # a counterexample
    tlc -config MCIngestOrder.cfg MCIngest             # a counterexample
    tlc -config MCIngestGroup.cfg MCIngest             # a counterexample
    tlc -config MCBridgeSession.cfg MCBridgeSession
    tlc -config MCOutages.cfg MCOutages
    tlc -config MCOutagesSilent.cfg MCOutages          # a counterexample
    tlc -config MCHost.cfg MCHost                      # three minutes
    tlc -config MCHostRollback.cfg MCHost              # a counterexample
    tlc -config MCBridgeApi.cfg MCBridgeApi            # one to two minutes
    tlc -config MCServer.cfg MCServer                  # one to two minutes
    tlc -config MCServerFive.cfg MCServer              # a counterexample
    tlapm IngestProofs.tla
    tlapm ReadsProofs.tla
    tlapm BridgeSessionProofs.tla
    tlapm OutagesProofs.tla
    tlapm AutoUpdateProofs.tla
    tlapm HostProofs.tla
    tlapm BridgeApiProofs.tla
    tlapm ServerProofs.tla
