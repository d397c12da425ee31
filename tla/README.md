# Verification of the C4 Raven server

TLA+ models of the parts of the C4 Raven server in which several processes act on shared state, the
TLC runs that check them on small instances, and TLAPS proofs of their invariants for every value of
the constants. Paths are relative to the repository; `EudHandler.py` is
`src/raven/eud_handler/EudHandler.py`, other files are named as they are found under `src/raven/`.

Contents: [inventory](#inventory) - [modules](#modules) - [runs](#runs) - [proofs](#proofs) -
[where code and comments disagree](#where-code-and-comments-disagree) - [not modelled](#not-modelled) -
[plan](#plan). `PROJECT.json` lists components, runs, mutants, the map from definitions to source
lines, findings, hazards and theorems.

## Inventory

The server is a set of processes around one database (PostgreSQL, through SQLAlchemy) and one RabbitMQ
broker:

```
 device ──TCP/TLS──> EudServer[SSL]  fork per connection: EudHandler
                         │   cot_parser queue, eud_control, queue <uid>
                         v
                     RabbitMQ  <────> cot_parser workers ──> database
                      │  │  │ groups (topic), dms (direct), missions
                      │  │  └── meshtastic_controller <── gateways of radios
                      │  └── federation_hub_daemon <── gRPC ──> Federation Hub ──> other servers
                      └── Flask application under gevent (web and Marti APIs, scheduled jobs) ──> files,
                          openssl, MediaMTX, tak.gov, the hub's admin API
```

| Component | State | Operations | Modules |
|---|---|---|---|
| Streaming sessions: `eud_handler/`, `scheduled_jobs.py` | channel, identification, `superseded`, consumer tags; broker bindings; `euds.last_status` | identify, supersede, close, restart, `reconcile_eud_status` | `EudSession`, `DeviceLink` |
| Offline chat: `offline_chat.py` | `offline_chat_messages`, `euds.last_rx_at` | queue, live routing, backlog, settle, purge, drop | `OfflineChat` |
| Remote clear: `remote_clear.py`, `user_api.py` | `pending_clear_commands` | store, ask to reconnect, deliver, stamp | `RemoteClear` |
| Revocation: `cert_revocation.py`, `certificate_api.py`, `EudServerSSL.py` | index, CRL, lock, `revoked_at`, `enrollment_blocks`, cached SSL context | revoke, refresh, block, allow, kick, handshake | `CertRevocation` |
| Issuance: `certificate_authority.py`, `certificate_enrollment_api.py` | CA files, an account's directory, certificate rows | create the CA, sign, package, look serials up | `CertificateIssuance` |
| Hub administration: `fedhub_partners.py`, `federation_hub_api.py` | policies and CAs the hub keeps | save, activate, confirm, the way back | `FederationPolicy`, `HubChange` |
| Federation daemon: `federation_hub_daemon.py` | loop guards, roster, bindings, streams; rows and accounts of remote devices | outbound and inbound loops, direct messages | `FederationBridge`, `FederatedDevices` |
| Accounts: `user_api.py`, `Token.py`, `EudHandler.handle_auth` | accounts, roles, passwords, tokens, owners of devices | create, delete, deactivate, reset, enroll, kick | `Accounts`, `AccountDevices` |
| Groups: `group_policy.py`, `group_api.py`, `group_marti_api.py` | memberships with expiry, locks, bindings, tags | add, remove, expire, select channels, diagram | `GroupMembership` |
| Missions: `mission_marti_api.py` and its relatives | roles, invitations, tokens, layers, contents, change log | subscribe, invite, kick, file, move, delete | `MissionAccess`, `MissionLayers`, `LayerTree`, `MissionContents`, `Missions` |
| Records and retention: `cot_parser.py`, `retention.py` | CoT, points, markers, lines, alerts, casevacs | store step by step, purge in batches | `CotRecords` |
| Data packages | rows and files named by hash | upload, delete, purge | `DataPackages` |
| Device profiles | settings, files, update times | save, copy, delete, sync | `DeviceProfiles`, `ProfileFiles` |
| Video: `video_api.py`, `mediamtx_api.py` | `video_streams`, MediaMTX's paths | feeds, authorization, webhooks | `Video` |
| Meshtastic: `meshtastic_controller.py` | memory of devices, node ids in `euds` | read rows, give ids, handle packets, find a text's recipient | `Meshtastic` |
| Metrics and error log: `metrics.py`, `error_log.py` | shared counters, table; files, inodes, cursor | count, flush; write, rotate, poll | `Metrics`, `ErrorLog` |
| Scheduler, tak.gov link | job store; tokens | fire, pause, schedule; link, renew | `Scheduler`, `TakGovLink` |

The UDP port, plugins, Mumble, CI-TRAP, supporting documents, start-up wiring, migrations and generated
code are listed in `PROJECT.json` with the reason they are left out.

**What is hard.** A connection is a process with two threads, and handlers of one device never see each
other: they only meet in the broker and the database. A web request runs in a greenlet that yields at
every query, so that a check and the commit it protects are always apart. Every hand-over (a connection
replacing a half-dead one, stored chat before live chat, a revocation against a handshake, an event
against the guard left for it, a row against its file) is a protocol of several steps without a common
lock. Devices vanish without closing, the broker closes channels, messages are lost or delivered again,
openssl or a commit fails part way, a call to the hub times out after it took effect, processes restart.

**What makes a component correct.** *Sessions*: handlers of a device do not compete for its queue for
ever; one steps aside for another only; a device that is gone is not shown as connected. *Chat*: a row
is stamped only if the message was had or too old; backlog before live; nothing after its stamp; nothing
to another user. *Clear*: a command is not taken for delivered and not overlooked. *Trust*: rows and
kicks never run ahead of the CRL, revoked sessions end; a row names the certificate its holder has; an
answer about the hub is true. *Federation*: events arrive, do not go round, are not swallowed; an account
has its device. *Administration*: the protected administrator stays, temporary passwords are flagged,
tokens serve one account, kicks wait. *Groups*: no binding without a membership; locked groups stay as
they are. *Missions*: layers stay an ordered forest, what is filed is in the log, nothing outlives the
mission. *Records, packages, profiles, video*: fresh rows stay, rows have their files, uids are unique,
a device gets what it lacks. *Traffic*: a text from a mesh finds its device, counts are added once,
what the log's cursor passed was shown.

## Modules

Each module has one action per handler step that another process can come between, with `Init`, `Next`
and a specification under a name of its own where modules are composed (`VideoInit`, `VideoNext`,
`VideoSpec`). Definitions whose comment starts with "Mutant:" are plausible bugs; they are not part of
`Next`, and each shows that one property depends on one definition. Bounds are constants called `Max...`.

| Module | Processes and their steps | What stands for what |
|---|---|---|
| `EudSession` | the handler thread (`Identify...`, `BindControl`, `Announce`, `SaveRow`, `Close...`) next to its pika loop (`HandleSupersede`, `ChannelLost`, ...), cot_parser (`ParserDisconnect`), restart, reconcile job | `Conns` are `conn_token`s; `bindings`, `control`, `parserQ` the broker, as sets: every order is explored; `GroupKeys` and `RecordedKeys` differ as a disabled membership is in `bound_queues` and never bound |
| `DeviceLink` | what others may rely on of a connection | the abstract specification of `EudSession`, and what `RemoteClear` is built on |
| `RemoteClear` | request (`Commit`, ask to reconnect), handler (`ReadPending`, write, stamp) | one command per device and request |
| `OfflineChat` | parser (`QueueChat`, `RouteChat`), handler (`Identify`, `StartBacklog`, `WriteRow`, `StampRow`, `GoLive`, `LiveDeliver`), jobs (`Settle`, `Purge`), `DropQueue` | one recipient device; a clock; `Prompt`: what takes less than a tick does not take longer, a live message waits at most `MaxLag`; switches `Overlap`, `ChannelLags`, `DbFails` add disturbances |
| `CertRevocation` | requests (`Pick...`, `WriteIndex`, `Gencrl`, `MarkRows`, `BlockEnrollment`, `Kick`), enrollment, handlers of the TLS port | `BrokerKeepsUp`: the broker has handled a `queue_bind` before the client reads the index again (the code does not wait for it) |
| `CertificateIssuance` | start of the server, two request slots, backfill of serials | one account's directory (`dir`: key, csr, pem, p12), rows, openssl's serials |
| `FederationPolicy` | administrators (`Lock`, `Start...`, trust and rename, `Save`, `Activate`, `Confirm`, and the way back), requests without the lock | a policy is the nodes Raven tells apart and one bit for the rest; every call is answered, refused, late or ignored |
| `HubChange` | one turn at a time, any policy meanwhile, an answer | the abstract specification of `FederationPolicy` |
| `FederationBridge` | devices, cot_parsers, daemons of several servers, the hub | a message is on one leg; `sent`, `injected` are `_recently_sent`, `_recently_injected`; a guard lapses only when no event of its device is on its way (ten seconds are longer) |
| `FederatedDevices` | the inbound thread's commits, local devices, administrators, purge | rows of `euds`, accounts, the account's place-holder |
| `Accounts`, `AccountDevices` | requests checked at arrival and committed later; tokens, enrollment, connections | `gen` tells accounts of one name apart |
| `GroupMembership` | requests (`CheckAdd`, `CommitAdd`, ...), connecting devices, channel switches, expiry job | `row` is the membership table, `bound` the broker, `leftover` the bindings known to be left |
| `MissionAccess`, `MissionLayers`, `MissionContents`, `Missions` | Marti and web requests, each cut at its commits; `Missions` composes the three | one mission and "there" for all others |
| `LayerTree` | put, move, take out | abstract ordered forest, implemented by `MissionLayers` |
| `CotRecords` | one parser, the retention job in batches, crashes | `got` is the server's time, kept for the properties |
| `DataPackages`, `ProfileFiles`, `DeviceProfiles` | uploads, removals, copies, jobs; a device that syncs | a hash names a file, a profile file has a name of its own |
| `Video` | web and TAK requests, CoT details, authorization calls, webhooks, restarts of MediaMTX | one group |
| `Meshtastic` | the controller's start (`Start`, `LoadRow`, `FillRow`, `Loaded`) and packets (`OnMessage...`), connections that give ids (`ConnectReads`, `ConnectCommits`), the parser (`ParsePoint`, `ParseGeochat`) | `aired` is what was published under which id; `late`, `met` name the exceptions |
| `Metrics`, `ErrorLog` | workers and flusher; services and a page's polls | one counter; one service's log |
| `Scheduler`, `TakGovLink` | job store, loop, requests; page, callers, tak.gov | times are ticks; tokens are (session, number) |

**Refinements.** `EudSession` implements `DeviceLink` (`ImplementsLink`, proved): that a connection is
told to reconnect, ends, or has its row marked looks from outside like the small specification
`RemoteClear` uses. `FederationPolicy` implements `HubChange` (`Implements`, proved): whatever failed,
what the administrator is told is true. `MissionLayers` implements `LayerTree` (`IsALayerTree`).

**Assumptions of the models.** Control messages do not expire within their ten seconds; a "gone" socket
stands for a dead peer and a closed one; a request that committed goes on. There is one cot_parser
process, and a device's time is either broken or at most `Lag` behind. One administrator saves device
profiles at a time, the sync time is taken when a request starts, and values that are withdrawn stay on
the device. One video request that carries a uid runs at a time. A poll of the error log lists the folder
in one step. Serial numbers never repeat, legacy certificates expire more than a day apart from new ones.
There is one web process for the link to tak.gov. No node id of Meshtastic is drawn twice. Pairwise group names are reserved by their prefix
(`group_api.py:598`), and a uid made for a path is not one a client chooses.


## Runs

Some runs check several modules that have no state in common. They have a variable `part`: the initial
state chooses one of the parts and only that one moves, so that the run explores the sum of the state
spaces, not their product.

| Run | Instance | Shows |
|---|---|---|
| `session_safety` | a TCP and a TLS connection of one device, an enabled and a disabled group, one restart | `CompetingConsumersAreTransient`: two handlers consume one queue only while one has the message that ends it, or will get it; `StepsAsideOnlyForAnother`: nobody is superseded by a connection that did not announce itself |
| `session_live` | two TLS connections (one of a relay platform), one requested reconnect, fair threads | `GoneDeviceNotConnected`: a device without a connection is shown as disconnected in the end; `ImplementsLink` |
| `clear` | two connections of a device, two requests, one restart | `CommandsAreKept`: neither taken for delivered nor overlooked; `WaitsOnlyForDevice`: with a device that connects, it is delivered |
| `chat_reliable` | two messages, two connections in turn, dead peers, clock to 3, retention 2, grace 1, timeout 2 | `DeliveredIsNotLost`, `BacklogBeforeLive`, `NeverResentAfterStamp` |
| `traffic` | *chat*: two users, overlapping connections, failing commits, one membership change. *mesh*: a device on two connections, a plain radio and that of its plugin, two starts, two packets, three node ids of which one begins with zero. *metrics*: three messages, two lives, two faults. *log*: three texts on two inodes, two lines. *federated*: one remote, one local device, three accounts, one failure | `BacklogForItsUser`, `RepliesFindTheirDevice`, `CountedOnce`, `PassedWasShown`, `AccountHasItsDevice` |
| `trust` | *certificates*: three of which two share a serial and one row names no device, two overlapping requests, a connection, fair handlers. *policy*: two administrators, one partner's CA, two nicknames, two stored policies, every kind of answer of the hub | `RevokedIsRefused` (rows and kicks after the CRL; devices blocked; no kicked session overlooked), `KickedSessionsEnd`, `Implements`, `BridgesStay` |
| `bridge` | two servers, a device enrolled at both and one at home, two positions, a direct message, one failure, fair threads | `NotHandedBack`, `OwnTrafficIsNotRemote`, `GuardsSwallowOnlyAfterLoss`, `EventsArrive` |
| `groups` | two accounts of whom one has a device, a group and the default one, one item, two changes, expiries | `BoundOnlyWhileMember`, `LockedStaysFrozen` |
| `content` | *missions*: a device, three layers, a file, an item, a log of three. *records*: six pairs of messages, retention of one tick, clock to 3, batches of two, a crash. *packages*: three uploads, two removals. *files*: two profiles, two editors, one failure. *video*: two paths, two callers, two viewers | `ItemIsInLog`, `NothingWithoutMission`, `IsALayerTree`, `FreshStays`, `RowHasItsFile`, `FileHasItsBytes`, `UidNamesOneFeed` |
| `administration` | *tokens*, *connections*: an account beside the protected one, two concurrent workers, two or three requests. *profiles*: two profiles, three saves, three values of the clock. *certificates*: two request slots, four serials, a crash. *takgov*: two callers, two links, two renewals, a fault. *jobs*: two built-in jobs, a one-off, a restart | `AdministratorStays`, `TempIsFlagged`, `TokenServesItsAccount`, `KickedWhenServed`, `LackedWillCome`, `RowNamesItsCertificate`, `PresentedOnce`, `PausedStaysPaused` |
| `accounts_role` | an account with two roles | violation of `RoleRequestDecides` |
| `profiles_rest` | two profiles and a device that syncs | violation of `DeviceHasTheRest` |

**Bounds.** Two connections, requests, administrators or editors are the smallest number that interfere;
the theorems cover any number. Two messages show overtaking, two requests colliding serials, two servers
echo and hand-back. Retention, grace and timeout of one or two ticks let a row be queued, lag, be covered
by the evidence, and expire. One failure or crash at any step is enough to leave each guard, row or file
behind; a second one meets the states the first has left, which the theorems cover. In `content` the
constraint `Few` lets a second layer and any content be made only while nothing else goes on with the
mission. In `trust`, two rules of the MC module spare states that differ in names only: `r1` is the first
request to begin (and then `r2` revokes a single row or serial), and `a2` is an administrator who begins
while `a1` is at work. In `administration`, the part with tokens has two requests instead of three, and
three values of the clock let an update fall between a sync and the window of the next. In `traffic`, three
node ids are enough for a row to be given two and a third by the next start, and two packets for a radio to
be noted and then to write. In `chat_reliable`, where connections are used in turn, `c1` is the first; that
one steps aside for another happens in `traffic`. The two connections in `traffic`, there also the node ids
without a leading zero, the values and requests in `administration`, and in `content` the two video paths
and the two editors of profiles, are alike, which TLC uses (`SYMMETRY`), and in `content` a third request
about video comes when the first two are served (`InPeace`).
Everything stops when connections, messages and requests are used up, so deadlock is not checked.

**Fairness.** `EudSession`: the steps of a handler's thread, a close once the peer is gone (keepalive and
`TCP_USER_TIMEOUT` end `recv()`) or once begun, the passing of three minutes, and the reconcile job. No
fairness is given to devices, the broker's failures, control messages or cot_parser, so the row is
corrected even if none of them helps. `CertRevocation`: the steps of a handler, the broker's answer to
its binding, and the delivery of its control messages; no request has to finish. `FederationBridge`: for
each server and event, some step that carries it is eventually taken; the loops there reconnect after
every failure. `RemoteClear`: the handler's steps; the property asks that the device goes on connecting.
Weak fairness is enough: nothing but the step itself, or a loss that the property counts, disables these
actions for good.

**Conditional properties.** Where the code promises less than a reader would wish, the property says so
by naming the exception: `GuardsSwallowOnlyAfterLoss` and `EventsArrive` allow for what a failure takes
with it; `RevokedIsRefused` speaks of the newest row of a device, as `_block_enrollment` does;
`BoundOnlyWhileMember` names the bindings of the diagram and of deleted accounts (`leftover`);
`PassedWasShown` excepts what was moved between the two times a poll opens a file or exceeds its limit
(`lost`); `CountedOnce` holds until the answer to a commit is lost (`doubtful`); `RowHasItsFile` excepts
the same bytes uploaded again while the file is removed (`torn`); `RowNamesItsCertificate` a package that
another request of the account came between (`mixed`); `LackedWillCome` what came to the front without a
later update, was committed late, or was updated no longer after a sync than the next request took
(`passed`); `RepliesFindTheirDevice` ids with a leading zero, ids and radios newer than the controller's
memory (`late`), and devices given two ids (`met`); `AccountHasItsDevice` an account whose device enrolled elsewhere (`excused`).

## Proofs

Eight modules, checked by TLAPS with Z3, Zenon and LS4. They assume the named ASSUMEs of the modules,
which say what the constants are, and where it is stated in the theorem one condition on the
environment. Each invariance proof has the shape `Init => Inv`, one step per action for
`Inv /\ [Next]_vars => Inv'`, `Inv => property`.

| Module | Theorem | Inductive invariant, and why it is needed |
|---|---|---|
| `EudSessionProofs` | `CompetingConsumers` | `ConsumerInv`: a consuming handler has identified itself and, past `BindControl`, has its control queue bound; so an announcement reaches it |
| | `StepsAside` | `AsideInv`: a supersede message in flight names a connection of the same device that announced itself |
| | `SessionsImplementLinks` | `LinkInv`: control messages only for an open channel, nothing before accept, one disconnect message per connection. Every step of the handlers, the parser, the broker, the restart and the job is a step of `DeviceLink` or a stutter |
| `TrustProofs` | `MarkedAfterCrl`, `KickedSessionsLeave`, `RevokedDevicesBlocked`, together `RevocationHolds` | `CrlInv` ties the serials of a request to index and CRL by how far it got; `SessionInv`: a session past its second look has its queue bound; `BlockInv`: a revoked row does not become the newest again |
| | `NoBridgeIsCut`, `AnswersAreTrue` | `PolicyInv`: what a request has read and decided stays true while it holds the lock. Until it activates, the hub enforces what it read; when it takes its changes back, the hub enforces those nodes again; a CA dropped without force is in use by no node. The requests without the lock never change what is enforced |
| `FederationBridgeProofs` | `CalmNotHandedBack`, `CalmOwnTraffic` (`Calm`) | `CalmInv`: which guard each message will meet, and that two messages of a device never need the same one: before the hub there is one, after it one for each server |
| | `CalmGuardsServeTheirEvent` (`Calm`) | `GuardsInv`: a guard left behind has its event on the way to it, or that event was lost |
| `DeviceProofs` | `ClearCommandsAreKept` | `ClearInv`: a handler reads rows only when its connection can be asked to end, and stamps what it wrote |
| | `BindingsFollowMemberships` | `MembershipInv`: each binding is `Covered` (a membership, a request or switch about to act, a device about to go, or a named leftover); a switch that is not open has no flags |
| | `LockedGroupsStayFrozen` (one administrator request at a time) | `LockInv`: the group of a request is still open when it goes on, groups of the diagram are never locked, a row has an expiry |
| `AdministrationProofs` | `AccountTyping`, `ProtectedAdministratorStays`, `TemporaryIsFlagged`, `TokensServeTheirAccount`, `KickWaits` | a request under way is never about a protected account; `gen` grows, so that a token's account and a later one of its name differ; a served connection of a deactivated account was bound before its kick |
| | `RefreshTokensPresentedOnce` | `LinkInv`: the token in the configuration was not sent, or its caller has the answer in hand; config.yml agrees with it but for what an ended process did not save |
| | `PausedJobsStayPaused` | `SchedulerInv`: a request that looked at a paused job will not resume it; a job with a date got it from an administrator |
| | `RowsNameTheirCertificates` | `IssuanceInv`: what an unmixed request has in hand is what lies in the directory; a row without serial number is a legacy one |
| | `LackedSettingsWillCome` | `SyncInv`: a key comes from a profile updated since the request under way began, or is as the request read it, and then the device has it, is sent it, or the window begins after its update, which is then close to the last sync (`Close`); a save is the latest of its profile, and syncs begin in order. That there is a profile which comes last (`LastExists`) goes by counting those after each, not by induction |
| `TrafficProofs` | `MessagesAreCountedOnce` | `MetricsInv`: one flusher between read and note, whose growth is what it saw less what was flushed |
| | `PassedLinesWereShown` | `ErrorLogInv`: newest text under the live name, listed files apart, what a cursor noted is of a text that exists |
| | `AccountsHaveTheirDevices` | `DevicesInv`: an account waits for its row in two steps of one event only |
| | `RepliesReachTheirDevice` | `RememberedInv`: the id of a row is in memory, still to be read, of the device's own radio, or one of the exceptions (`Remembered`); what was published or is to be committed is the row's id (`IdsStay`); a radio's row and entry have its own id |
| | `BacklogOnlyForItsUser` | `UserInv`: also the rows a connection has listed are its user's, and what is not yet queued appears nowhere |
| | `NothingIsResent` (one connection at a time) | `ConnectionInv`, `RowInv`: a connection works through its list within the tick, so that neither job nor cut-off meets its rows |
| | `NothingUndeliveredIsStamped`, `BacklogPrecedesLive` (`Undisturbed`) | `DeliveryInv`: what `last_rx_at` minus its grace covers was had by the device; a live copy not yet had is younger; what was pending at identification is listed until written |
| `MissionProofs` | `NothingOutlivesItsMission` | `MissionInv`: also no link to a file that may be uploaded again |
| | `ItemsAreInLog` (one request at a time for each item, `OnePerItem`) | `LogInv`: what a request read of its item stays true until it writes. An item it takes off is in the mission, the change it found is there, and of one it missed there is none; an item that is here was added last, or a request is about to say so |
| | `LayersAreATree` (one request on the folders at a time) | `TableInv`: parents exist, and the folders of one parent are a chain of `after`; what the request under way has read of its folder, its new parent and predecessor still holds when it writes. A chain stays one when a folder is unlinked (`ChainWithout`) and linked (`ChainWith`), and the others keep their order; the turns of one reparent request keep what is above the new parent (`AncestorsKept`) and put its folders together (`OneMoreMoved`) |
| `ContentProofs` | `PackagesHaveTheirFiles` | `PackagesInv`: ids of deleted rows never come back; an upload that will insert has its file |
| | `FilesHaveTheirBytes` | `FilesInv`: names are given once; new rows are a request's own; what a request has seen agrees with the rows; what it will remove is in no row |
| | `UidsAreUnique` (one uid-carrying request at a time) | `VideoInv`: a uid made for a path is on no other; a pending uid is on no other row |
| | `FreshRowsStay` (`ParsedInTime`) | `RecordsInv`: rows were received in the order of their ids, so that all up to the boundary by which broken clocks are aged is overdue (`BoundaryInv`); what a batch lists is overdue, and so is what its deletion cascades to, while nothing that is kept or being made is built on it (`BatchInv`) |

Type correctness is a theorem of its own where the module has many variables (`Typing`, `ChatTyping`,
`RevocationTyping`, `PolicyTyping`, `BridgeTyping`, `AccountTyping`), and part of the invariant elsewhere.

The conditions are needed, as TLC shows (next section): `Calm` (a device's event settles before the next
is sent, one group besides `__ANON__`, direct messages between two servers), `Undisturbed` (one account,
one connection at a time, each with its channel, commits that do not fail), one administrator at a time
for locked groups, one uid-carrying request, one request for each item and one on the folders of a mission at
a time (two make a cycle), `BrokerKeepsUp` for `KickedSessionsLeave`, and `ParsedInTime`: the error of a device's clock, the wait in the queue included, is less than the time CoTs
are kept (days, against seconds); with `Lag = 2` and one tick of retention, TLC shows a CoT purged between
its insertion and that of its record.

**Model-checked only.**
- Liveness: `GoneDeviceNotConnected`, `WaitsOnlyForDevice`, `KickedSessionsEnd`, `EventsArrive` (and
  fairness in general) are beyond this prover.

## Where code and comments disagree

Two runs expect a violation and are listed as findings:

- `accounts_role`, `RoleRequestDecides`: the loop at `user_api.py:705` removes roles from the list it
  iterates over and passes over every second one, so that an account may stay an administrator after a
  request that sets it to `user`, which the audit record at 714 says it is.
- `profiles_rest`, `DeviceHasTheRest`: "a device that synced since then already has the rest"
  (`device_profile_marti_api.py:405`) is not so of a profile whose commit or group came later than its
  time of update, or that comes to the front as another goes; nor of one updated just after that sync, since
  the window is counted back, in whole seconds, from a moment after the merge is worked out (407).

More statements are violated when a run is changed as follows. They are not runs of their own, but each is
a change of a `.cfg` and takes TLC seconds.

| From | Change | Violated | What happens |
|---|---|---|---|
| `session_safety` | `TransportOf <- AllSsl`, `MaxRestarts = 0` | `SomeoneKeepsConsuming` | "Any EARLIER handler ... steps aside" (`EudHandler.py:1049`): two that bind before either announces itself both step aside |
| `session_safety` | the same, `Conns = {c1}` | `UnboundWhenDisconnected` | cot_parser binds group keys (`cot_parser.py:988`) after the disconnect has unbound them |
| `chat_reliable` | `Msgs = {m1}`, `Keep = 4`, `MaxTime = 4`, `ChannelLags = TRUE` | `DeliveredIsNotLost` | "never fewer" (`offline_chat.py:43`): data that arrives while the channel is still opening counts as evidence for messages that are not consumed yet |
| `bridge` | `Spec`, `HomesOf <- Staying`, `Cots = {x}`, `KeysOf <- TwoGroups`, `MaxBreaks = 0` | `NotHandedBack` | the guard is popped by the first copy (`federation_hub_daemon.py:600`); one per group comes back |
| `bridge` | `Spec`, `Servers = {A, B, C}`, `HomesOf <- Staying`, `Cots = {z, d}`, `MaxBreaks = 0` | `NotHandedBack` | a direct message reaches every server, and one of a third is handed on (`federation_hub_daemon.py:470`) |
| `trust` | `MCSpec`, `Requests`, `Conns` empty, `Nicks = {n1}`, `Drafts <- Settings`, `Replies = {"ok"}`, `Tunings = {TRUE, FALSE}` | `SuccessIsApplied` | a policy saved without the lock is overwritten, yet both requests are answered with success |
| `groups` | `Owners = {}`, `MaxChanges = 3` | `ItemsStayGrouped` | an item tagged with the last two groups while both are deleted becomes visible to everyone (`group_api.py:141`) |
| `groups` | `Admins = {w1, w2}` | `LockedStaysFrozen` | a group is locked between the check of another request and its commit |
| `content` | `Layers = {a, b}`, `Requests = {1, 2}`, no files, items, writers, `MaxLog = 2` | `RemovedHasNoRole` | two subscriptions leave two rows, of which a kick takes one |
| `content` | the same with `Requests = {1}`, `Editors = {1, 2}` | `NotInsideItself` | two moves that look before either writes make a cycle (`mission_data_marti_api.py:341`) |
| `content` | `Writers = {1, 2}`, `Layers = {a}`, no files | `ItemIsInLog` | two first messages about an item both look before either commits, and both insert an ADD row, of which there should be "exactly one" (`MissionChange.py:296`) |
| `content` | | `RowAlwaysHasItsFile` | the same bytes are uploaded again between the deletion of a row and of its file |
| `content` | | `MarkerGoesByItsLastUpdate` | `retention.py:566`: a marker keeps the CoT of its first message |
| `content` | `FeedEditors = {web, tak}` | `UidNamesOneFeed` | two requests that carry a uid look for it before either commits |
| `traffic` | | `PassedWasShownAlways` | `error_log_api.py:26`: a rotation between listing and reading hides what was moved |
| `traffic` | | `StreamEndsByFaults` | `federation_hub_daemon.py:745`: looking for a free name flushes the row outside the `try`, and a callsign in use ends the stream |
| `traffic` | | `KnownByItsId` | the id "for TAK EUDs to be identified by in the Meshtastic network" (`EudHandler.py:1111`) is looked for in a memory that is filled only when the controller starts (`meshtastic_controller.py:38`), and without its leading zero (53) |
| `administration` | | `CrlWhenUp` | "ca.crl must always exist" (`cert_revocation.py:21`), and the start is to "make sure there is one" (`app.py:194`), but a failure to make it is only logged (`app.py:200`); the daily job tries again |
| `administration` | | `UsedIsLinked` | an access token that is cached outlives the unlinking |

What reading the code for the models showed, and the modules say at the definition in question:

- *Sessions.* `superseded` is looked at once while a connection closes; the reconcile job writes by what
  it read before, and counts the restart of one streaming service for the devices of the other. A handler
  that steps aside leaves its socket open. What is left in the queue of a uid reaches the next user of it.
- *Chat.* One recipient's `IntegrityError` rolls the rows of all back.
- *Trust.* Without `BrokerKeepsUp` a kick between the second look and the binding reaches nobody. The
  block is looked at before signing, not after. A revocation that failed after the index was written
  cannot be repeated by serial number.
- *Administration.* Concurrent enrollments exceed the uses of a token. A kick misses a connection that is
  not yet bound. A pause during `reschedule_job` is lost.
- *Groups and missions.* The diagram and the deletion of a mission never unbind; an expiry that the job
  has read overrides an extension; contents are committed before the change is published; tokens of a
  mission never expire.
- *Records.* A CoT that is delivered again makes a second row.
- *Metrics.* A flush whose answer was lost is added again.
- *Meshtastic.* A text whose sender's uid is not in memory ends the thread of the controller's connection
  (`meshtastic_controller.py:199` is outside the `try`). The copies it publishes for other channels end in
  "outgoing", which it drops; nothing it publishes reaches cot_parser.

## Not modelled

- Whole parts: the UDP port (no session), plugins, Mumble, CI-TRAP, supporting documents, wiring of the
  web application, migrations, generated protocol code; see the notes in `PROJECT.json`.
- Content: fields of CoT, conversions and their formats, geometry, texts, who may see what in listings;
  passwords and cryptography are "valid or not".
- In modelled parts: several recipients and federated target groups in chat; live mode of the clear
  command; LDAP; the backfill of serials in revocation; telemetry, decryption, the CoT made of packets,
  chat of the plugin and the deletion of rows in Meshtastic; recordings; a restart of the federation daemon; the audit log, which only appends rows.

## Plan

Every invariant and action property that the passing runs check is stated by a theorem, and so are the
refinements; liveness is not. What is left:

1. Widen the conditional theorems: locked groups with two administrators but the known race, chat with
   overlapping connections, the bridge with events that overlap.
2. More of the Marti mission listings and passwords, and a second cot_parser process.
