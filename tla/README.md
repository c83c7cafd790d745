# ShipSystem in TLA+

This directory models the parts of ShipSystem in which something can go wrong
between two steps: the WebSocket hub, the dispatch workflow, the battle sessions
and their radar reports, ships with their locations and alarms, the simulators that
post those reports, the radar duel they simulate, and the scripts that release,
check and maintain the system. Each module is translated from the source;
`PROJECT.json` gives the lines every definition stands for.

## The system

| Part | State | Operations | Model |
|---|---|---|---|
| WebSocket hub `backend/internal/ws/hub.go` | map of clients, broadcast queue (256), a buffer per client (256), counters | connect, register, broadcast, fan-out, evict, heartbeat, the two pumps | `Hub`, `OrderedBroadcast` |
| Dispatch events `services.go`, `store.go` | event row, log rows | create, change the status, announce | `Dispatch` |
| Battle sessions `services.go`, `store.go` | session row, current targets, units and projectiles, events, snapshots | create, receive a report, stop, read the state | `BattleSession` |
| Simulators `analytics/app/main.py` | task registry, delivery metrics | start, stop, post with retries | `Simulator` |
| Radar duel `analytics/app/battle_sim.py` | units, projectiles, status, sequence numbers | step | `BattleSim` |
| Ships `services.go`, `store.go` | rows with soft delete, a unique MMSI | list, create, update, delete | `Fleet` |
| Locations and alarms `services.go`, `store.go` | locations, alarms | report, raise an alarm, acknowledge | `Fleet` |
| Timeline and battle report | none, computed from snapshots and events | list, report | not modelled |
| Analytics proxy `services/analytics.go` | none | forwards starts and stops | not modelled |
| Login, tokens, roles | users, claims in tokens | login, check a role | not modelled |
| Migrations and seed `database.go` | schema_migrations, seed rows | run at start | the demo ships and their locations in `Fleet` |
| Frontend `App.tsx`, pages, `client.ts` | copies of rows, a WebSocket | reconnect, merge events, poll, page through lists | not modelled |
| Retention `retention_maintenance.py` | none of its own; the tables | preview, prune table by table | `Retention`, `LiveOps` |
| Smoke check `smoke_check.py` | cookie, session id, WebSocket | 18 checks in order | `Smoke`, `LiveOps` |
| Capacity probe `run_capacity_smoke.py` | session id | create, report, read, stop; estimate | `Capacity`, `LiveOps` |
| Contract checks `check_*.py` | none | pass or fail on a working tree | `Contracts` |
| Preflight `preflight_check.py` | the list of checks | select, run, stop at the first failure | `Preflight`, `Release` |
| Evidence `collect_release_evidence.py` | a directory with files and a manifest | run steps, write evidence | `Evidence`, `Release` |
| Drill and integration tests `run_backup_restore_drill.py`, `run_repository_db_integration.py` | a compose project each, a dump | start PostgreSQL, migrate, seed, dump, restore, take down | `TempDatabase`, `Release` |
| Other scripts | none | probe ports, read endpoints once, generate a file | not modelled |

Scripts are under `src/scripts/`.

How they interact. A browser's request runs in a goroutine of its own, changes rows
through the store and passes an event to `Hub.Broadcast`, which never blocks. A
browser that is connected to `/ws/monitor` gets the events. A simulator is started
and stopped through the API server, which forwards the request to the analytics
service; its task posts locations or radar reports back to the API server, where
they become requests like any other. The smoke check and the capacity probe are such
clients from outside; the retention script goes past the server, to the tables. Preflight
runs the contract checks and, on request, the drill; the evidence collector runs
preflight, the drill and the integration tests as child processes and sees their exit
codes only. The drill and the integration tests each use one compose project by a fixed
name, whoever starts them.

What is hard in it:

- *Interleaving.* The transition of a dispatch event is checked on a row that is
  read without a lock and made under a lock. A report writes six tables in seven
  statements that are no transaction, while another report and a stop do the same.
  The tick of a snapshot is a maximum plus one. The hub's goroutine and two
  goroutines per connection share channels that are closed on two paths. A ship is
  read, merged and saved while another request deletes it. The stop
  handlers of the analytics service await a task and then write the registry.
- *Failure.* A request can end after each of its statements. The simulator sends
  the same report again after an error or a timeout, and the server may still be
  working on the first one.
- *Ordering.* Broadcasts come after the commit; reports come late or twice.
- *Processes.* A server ends while it starts and has seeded one half. A script is killed
  half way and leaves a container, rows, tables or evidence files that the next run meets;
  two runs share a compose project; a prune is six or more transactions beside a server that
  writes; a probe gives up a request that the server goes on with.
- *Limits.* A full broadcast queue drops an event, a full buffer evicts a client, a
  list of projectiles is cut to its last 80.

## Modules

| Module | Is | Code |
|---|---|---|
| `OrderedBroadcast` | the abstract specification of the hub | the promise of `hub.go` |
| `Hub` | the hub with its goroutines | `hub.go`, `MonitorWS` |
| `HubProofs` | its safety and that it implements `OrderedBroadcast`, proved | |
| `Dispatch` | dispatch events under concurrent requests | `services.go` 396-443, 1321-1361, `store.go` 180-208 |
| `DispatchProofs` | its log and its announcements, proved | |
| `BattleSession` | one session under create, reports and stops | `services.go` 488-678, 817-846, `store.go` 231-371 |
| `BattleProofs` | its ticks, announcements and lone posts, proved | |
| `Fleet` | ships, location reports, alarms, the seed of a start | `services.go` 288-386, `store.go` 60-154, `database.go` 297-329 |
| `FleetProofs` | deletes, tracks, acknowledgements and what is told of an alarm, proved | |
| `Simulator` | start, stop, task, retries, metrics | `main.py` 177-223, 380-496, 543-606 |
| `SimulatorProofs` | its registry and its deliveries, proved | |
| `BattleSim` | one radar duel, step by step | `battle_sim.py` |
| `BattleSimProofs` | its events, flights and wrecks, proved | |
| `Retention` | runs of the retention script on one session, over `BattleSession` | `retention_maintenance.py` |
| `Smoke` | the smoke check, over `BattleSession` and `OrderedBroadcast` | `smoke_check.py`, `MonitorWS` |
| `Capacity` | the live probe and its estimate, over `BattleSession` | `run_capacity_smoke.py` |
| `LiveOps` | the composition of these three with the server | |
| `LiveOpsProofs` | prunes, probes and smoke checks, proved | |
| `Contracts` | when each contract check passes on a tree, and what they guarantee | six `check_*.py` |
| `Preflight` | selection and run of the checks | `preflight_check.py` |
| `Evidence` | the collector, its directory and manifest | `collect_release_evidence.py` |
| `TempDatabase` | the drill and the integration tests over their compose projects | `run_backup_restore_drill.py`, `run_repository_db_integration.py` |
| `Release` | the composition of the release scripts | |
| `ReleaseProofs` | the gate, the throw-away databases and the manifest, proved | |
| `MC...` | constants and symmetry of the runs | |

### Hub

`clients`, `activeClients`, `dropped`, `queue` and `send` are the fields of `Hub` and
`Client`; `closed[c]` says that the channel was closed, and `panicked` that a closed
channel was closed or sent on. `reader[c]` and `writer[c]` are the places of the two
goroutines of a connection, the first of which is the handler `MonitorWS` until it
becomes `ReadPump`. The hub's select is enabled when no message is being fanned out
(`Selecting`); a fan-out visits one client per step (`HubOffer`), as the pumps take
from the buffers meanwhile.

Merged steps: a pump takes a message and writes it in one step, which is one slot of
buffering less than the code has (`SendCap` is arbitrary), and the three statements
of `unregisterClient` are one step, since the hub's goroutine owns the map and the
counter. Left out: the token check of `MonitorWS` and the deadlines, whose only effect
is that a connection breaks (`PeerGone`).

`OrderedBroadcast` has three variables: what was published, where the run of each
subscriber starts, and what it received. `Hub` implements it with
`published <- order \o queue`, `start <- joined` and `received <- delivered`.

### Dispatch

A request is `CreateEvent`, or `CheckTransition` (the unlocked read, the rules of
`canTransitionDispatch` and the early return when nothing changes), then
`StoreUpdate` (the transaction: read under the row lock, compare again, write the row
and its log entry) and `Announce`. `base` records the length of the log at the check.
Creating and storing can fail; a failed transaction leaves nothing. The broadcast of
`CreateEvent` belongs to its step, since nothing else can name the event before. A
log entry is written in the transaction of its row.

### BattleSession

One step per statement; the transaction of `AppendBattleSnapshot` takes two,
`LockSession` and `InsertSnapshot`, with the row lock held in between, and every
writer of the session row waits for the lock. `current` has the rows of the three tables
of targets, units and projectiles, by key, each abstracted to the report that wrote it
last. A report names some rows of each table (`Payload[r].rows`), and the upserts insert or
overwrite these and leave the others, so that a state, and the snapshot made of it, has rows
of many reports; an empty list writes nothing. Events and snapshots are sets. `Fail(p)` ends
a request at any step: a database error, a canceled request or the death of the server. An
upsert of targets with a repeated target is refused. Reports carry their scan time, and the
time decides whether a snapshot exists already. A stop of a session that is stopped reads the
state for its answer (`RereadState`), which can fail as any read.

The id of a session is made by the request that creates it, so no other request names
the session before that one has answered. Merged: the four list queries of
`GetBattleState`, and the broadcasts of a handler.

### Fleet

`row`, `location` and `alarm` are the tables; a row of `ships` is absent, live or deleted,
and keeps its MMSI when it is deleted. A request that takes several statements goes through
`pc`: an update `LoadShip`, `SaveUpdates` and, when no row was updated, `SaveInserts`; a
report `ReportLocation` (the service's read), `CreateLocationReads` (the transaction's),
`CreateLocation`, `CreateAlarm` and `AnnounceAlarm`; an acknowledgement `AckAlarmReads`
(with the row lock, held while the request is at "holding"), `AckAlarmSaves` and
`AnnounceAck`. Creating and deleting take one statement. `Start`, `SeedShip`, `SeedLocation`
and `Serve` are `main` and `seed`: each demo ship is found or inserted, which commits it,
and gets a location if it has none. `SeedFails` is the insert that the unique index refuses,
and `SeedBreaks` any other error of a statement of the start, the migrations and the other
seed rows included; either ends the process. `Crash` ends it at any moment, while it starts
or serves. `fault` is history: an error or a crash ended the last start. Alarms are named by
the report that raised them. `SaveInserts` is what gorm v1.31.1 does in `Save`, which is not
in the repository: it follows from the call in `store.go` 71 on a model with
`gorm.DeletedAt`.

Left out: validation of values, coordinates, lists. A location is announced in the
step that commits it. The column `geom`, which an `UPDATE` after each insert of a location
fills, is left out: a start that ends in between leaves it empty for good
(`database.go` 318-321), but nothing reads it.

### Simulator

asyncio runs one coroutine at a time, so a step goes from one await to the next. The
module stands for the location simulator and the simulator of one battle session
(`kind`, chosen at the start): `slot` is `_simulator_task` or the entry of
`_battle_tasks`. A task is suspended at its start, in a post, in the pause before a
retry, in the sleep between rounds, or while its HTTP client closes; a cancellation is
delivered at that await before anything else. `over` says that the battle ended with
the last payload. What the server did with a post is not in this module: an answer is
any of success, refusal, retryable failure.

### BattleSim

`Step` is `BattleSimulation.step`: cooldowns tick, units that are ready and see an
enemy may fire, every projectile flies on, hits with some damage or expires, in the
order of the list and new ones included, and the verdict looks at the blue side first.
Movement, ranges and the random numbers are free choices; time is counted in steps.

### Retention, Smoke, Capacity, LiveOps

The three extend `BattleSession`, whose requests go on by themselves (`ServerMoves`); the
requests that a script sends are `BattleSession`'s own actions.

`Retention`: a run takes a policy and goes through `BuildSteps`, one `DELETE` per step.
`old` holds the writes to the session row that lie before the cutoff, so that
`stopped_at`, or `updated_at` of a session that was never stopped, is old or not;
`DaysPass` moves the cutoff. `PruneFails` ends a run at any step and the next begins
from the first. `disturbed` is history: a request was under way or the cutoff moved
during the run. The previews of a run without `--apply` change nothing and are one step;
the steps on tracks, alarms and dispatch events, which leave the session alone, are left
out.

`Smoke`: `SmokeChecks` is the list of checks, and each of them passes or fails without
ending it. `Connects` reads the 101, `Registered` is the registration with the hub, which
`MonitorWS` does after it; the hub is an instance of `OrderedBroadcast`, which `Hub`
implements. `CheckFails` is any failure of a request, and any deadline. Merged: the reads
before the login, those after it, the timeline with the snapshots, and the delivery of a
message with its read.

`Capacity`: the probe posts each report after the answer to the last, reads what the
server shows, and stops its session in a `finally` block. `ProbeFails` is a request that
fails or passes its deadline while the server goes on (`lost`). The script sends no token,
so each of its requests is refused unless something in front of the server authenticates
them; `gateway` is that choice.

`LiveOps` gives the one session to a `user`: the smoke check, the probe, or a simulator
whose reports and stops come at any time. The retention script runs beside the simulator
only: the session of a smoke check is never stopped, and the probe's is stopped when the
probe is over, so no prune that honours a cutoff of days meets either of them earlier.

### Contracts, Preflight, Evidence, TempDatabase, Release

`Contracts` has no state. A working tree `t` is what the scripts' patterns find in the
sources, and `OpenapiPasses` and the others say when a script ends with 0.
`ContractsHold` says what the release needs of the program itself: calls of the frontend
are served with the roles that are published, roles exist, events and payload fields have
readers, the frontend and the analytics service start behind the database. The scripts
compare the program with documents and tables; each of these facts follows from several
comparisons, the first from those of three scripts. The last is weaker than the compose
check's own messages ("must depend on a healthy backend"): the check lets the short form of
`depends_on` through, a list of names or a value that is no mapping
(`check_compose_config.py` 170-172, asserted by `scripts_tests/test_check_compose_config.py`),
which orders the starts and asks nobody's health. So `DependsOnHealthy` accepts "short", and
`DatabaseFirst` says of the links between a service and the database that they are there and
that those which name a condition ask for health.

`Preflight`: `SelectedChecks` is the selection with its defaults, `--only` and the
`--include` options; `RunCheck` runs one, and the first failure ends it. `Evidence`:
one file per step, numbered by `EvidenceNumber`, and one manifest at the end; the directory
may hold the files of an earlier run, and `CollectorBroken` ends a run before its
manifest. `TempDatabase`: `box[k]` is the container and volume of a script's project,
`files[k]` its compose file and dump. Every command may fail, a run may be killed at any
place, and a second run of the same script may overlap. An empty volume passes through
"init", in which only the local socket answers, to "ready". `up` takes the volume that is
there (`MadeAnew`, external): with another port the container is made anew, and an initdb
that this breaks off runs again, or its data directory is used as it is, with the database
or without. A database has a schema or not, and rows of a drill's sample or the tables of
tests that were broken off (`BreakTestsOff`): the tests drop their tables when they end, and
tables left behind keep the names of their indexes, so that later tests fail. `trouble` is
history: the worst that happened to a run.

`Release` composes them: the collector's steps are runs of `Preflight` and of the two
scripts, preflight may run the drill, and a person may type one of the commands.
`RunPreflight`, `RunJob` and `Collect` are guarded so that a command is only tried where it
shares something with what already runs: processes that share nothing commute.

## Runs

| Run | Instance | Shows |
|---|---|---|
| `hub` | 2 clients, queues of 1, 3 broadcasts, fairness | no panic, exact counter, unbroken runs, the refinement; broken and evicted connections end, the queue drains |
| `dispatch` | 1 event, 4 requests | the log is a chain, illegal steps only by overlap, announced once |
| `battle` | 2 reports over 2 keys in each of 3 tables, 2 deliveries and 2 stops, 3 of them at most | ticks, announcements, the snapshot of a report alone, what the replay shows of it once accepted |
| `battle_restop` | 3 reports, 1 delivery, 2 stops | stopped_at is rewritten (finding) |
| `battle_retry` | 3 reports, 2 deliveries, 1 stop | an event is never announced (finding) |
| `fleet` | 2 ships, 2 MMSIs, 1 demo ship, 3 requests, fairness of a start | soft delete, tracks, acknowledgements, announcements, what a server that serves has seeded, when a start fails |
| `simulator` | 2 starts, 2 stops, 2 attempts, 2 payloads, 2 ships, fairness | metrics, order of posts, registry, stops are answered |
| `simulator_stop` | 2 starts, 2 stops | a task outlives its stop (finding) |
| `battle_sim` | 1 against 2, 3 shots, list of 2 | events, verdict, closed flights, destroyed units |
| `battle_sim_repeats` | the same | a report repeats a target (finding) |
| `release` | 2 commands, 1 kill, 26 trees, 4 command lines, 3 sets of steps, 2 ports | what passing the gate means, the manifest, the restored rows, leftovers |
| `live` | 1 session, 2 posts, 1 stop, 2 prunes, 3 policies | whole prunes, why a smoke check fails and what its passing means, the probe's stop and its estimate |

Why the bounds are enough. With one slot each the queue and the buffers of the hub fill up
after one message, so eviction and drops happen beside deliveries; three broadcasts are one
in a buffer, one being sent and one in the queue, which is what a hub that waited for a
client would need to be stuck; a second client is what the first must not disturb. Four
requests are a creation and three updates, one more than a check and an update that overlap
need. Three requests are a report and the two acknowledgements that compete for its alarm,
or two updates and a report; with as many ids as MMSIs an insert is never short of an id.
Two deliveries with a stop, or two stops with a delivery, give every pair of overlapping
handlers, and two deliveries can be of one report, which is a retry; the first report names
rows that the second does not, and the second leaves a table out and names a row of its own,
so that a merge keeps something besides what it writes. Two starts and two stops are what a
race on the registry takes; two attempts are one retry. In `BattleSim` one hit or two
destroy a unit, three shots let both sides be destroyed in one step, and the third
projectile overruns the list.

In `release` two commands are a run that is killed and the run that meets what it left, or
two runs that overlap; three would repeat a pair. `Trees` are the sound tree, one tree for
each thing a contract check looks at that is wrong (the one with a link in the short form
passes, as in the script), and four in which two parts are wrong in the same way, so that a
check that compares them with each other sees nothing. Only the first command runs on all of
them (`TreesNow`), since no script remembers a tree. In `live` two posts and a stop are the
least with a report after a stop; two prunes are one that fails and one that meets its
leftovers; a preview, or the last run, is not begun beside a request, as whatever happens to
it then an earlier run meets as well (`PruneStart`). The simulator's report ends with a
victory, so its session ends by the report, by the stop, or by both. `KeepChoices` and
`StepChoices` name what is tried of the options.

Named bounds: `MaxEvents` (broadcasts), `MaxPayloads` (payloads of a task), `MaxShots`
(projectiles), `MaxRequests` (posts and stops of one behaviour of `battle`), `MaxCommands`
and `MaxKills` (release), `MaxPrunes` (retention). In the other modules every request is
made once, which bounds the run. All runs say `CHECK_DEADLOCK FALSE`: when every request is
answered, every command has ended or the bound is reached, the system is at rest.

Fairness. `Hub`: goroutines that can run do (weak fairness of the pumps and of a fan-out),
and Go's select picks at random among ready cases, so a case that is ready again and again
is taken (strong fairness of each case). Browsers and callers of `Broadcast` owe nothing.
`Fleet`: a process that starts goes on until it serves or ends, which takes no one else;
nothing starts it again and requests owe nothing. `BattleSession` and `Dispatch` state no
liveness: a request waits for nothing but the row lock of its session, which `TypeOK` ties
to a transaction that goes on or fails. `Simulator`: the event loop runs every task and
handler that can go on, and a post is answered or times out (`HTTP_TIMEOUT_SECONDS`);
requests need not come. The scripts state no fairness: anyone may kill them, and each of
their waits has a deadline that is one of their failures.

## Properties

- `NoPanic`, `ActiveClientsExact`, `GapFree`,
  `ImplementsOrderedBroadcast`, `ConnectionsEnd`, `QueueDrains`: a browser sees one
  unbroken run of the events, slow ones are cut off and leak nothing.
- `LogIsChain`, `IllegalOnlyByOverlap`, `AnnouncedOnce`: the log
  of a dispatch event tells how it got to its status. A transition that the rules
  forbid is possible, but only to a request that was overtaken: the transaction
  compares statuses and does not apply the rules again, so a request checked before an
  event was completed can move it out of that status.
- `TicksContiguous`, `AnnouncedOnce`, `LoneSnapshotExact`, `LoneAckIsReplayed`, `TypeOK`
  with its clause on the lock: the replay of a session. The two `Lone` properties say what a
  report can rely on that overlaps no other request; `alone` is the history they need. Its
  snapshot has its events and its version of the rows it names; the rows it does not name
  stand as other reports left them, and no row of an earlier snapshot is missing. Once it is
  accepted the replay has a snapshot of its time that shows its events, with one exception
  that the property names: an earlier delivery wrote the time and failed, and a stop, or a
  post that overlapped another request, took the snapshot of that time with the events of
  its own. The retry then finds the time taken and returns early; its events are in the
  table but never in the replay.
- `RevivedOnlyByOverlap`, `TracksOfLiveShips`: what a soft delete keeps, and that only
  a request that read the ship before the delete can break it: gorm's `Save` turns an
  update that finds no row into an upsert, which brings the ship back. `AckKept`, `AlarmTold`:
  one acknowledgement, announced once; the last announcement can be the older one, but
  only if the acknowledgement came before the report had announced its alarm.
  `ServesSeeded`: a server that serves has seeded every demo ship with a location, also when
  earlier starts ended half way. `StartEnds`: a start that no error and no crash ends comes to
  serve unless a demo ship was deleted, and then none does.
- `MetricsAddUp`, `PostsOrderly`, `RegistryExact`, `StopsAnswered`: delivery and
  control of a simulator. `RegistryExact` holds as long as no start was served while a
  stop waited; `raced` is that history.
- `EventsTellBattle`, `WinnerStands`, `FlightsAreClosed`, `WrecksStayOut`: what a
  reader of the reports can conclude about the battle. When the last units of both
  sides fall in one step the code reports a red victory, and `WinnerStands` says so.
- `GateMeansContracts`: a preflight that passes its default checks has found
  `ContractsHold`. `ManifestTruthful`: the manifest names the files of its run with their
  exit codes, unless a later run into the directory replaced them. `DrillProvesRestore`:
  what a passing drill restored are its own rows. `LeftoversHarmless`: a
  killed run makes no later drill fail, since a drill takes the old project down first. The
  integration script does not: an undisturbed run of it fails if its volume has the tables of
  tests that were broken off, or no database. It also waits by the local socket, which the
  server of initdb answers too: an undisturbed run may fail for it, and the history `trouble`
  says "early". `NothingLeft`: a run that is left alone takes down what it started.
- `PrunedWhole`: a prune that nothing falls into takes a session with all its rows or only
  thins out a session that had ended. A run that a request or the cutoff falls into can
  leave rows without a session, and no later run deletes those, since every step selects by
  session. `SmokeFailsOnlyByRace`, `SmokePassMeans`: a smoke check fails without trouble only
  when it is registered too late or hears the state of the creation first; when it passes,
  its report went through rows, snapshot and WebSocket. `LeftRunningOnlyByLoss`,
  `ProbeMeasuresEstimate`: a probe leaves its session running only when its create, its stop
  or a report it gave up was served late or not at all; a probe with a result has seen the
  number of snapshots and events that it estimates from.

Every invariant and every action property above is also proved, for all values of the
constants; so is the refinement of the hub. Type invariants of `Hub`, `Dispatch`, `Fleet`
and `Release`, `NothingSkipped` and `OneLogPerChange` are proved and not repeated in the
runs.

Each property has a mutant of the code in the same module, marked `Mutant:`, that
breaks it.

## Findings

1. `battle_restop`: a report writes its status over "stopped"; the next stop writes
   `stopped_at` again.
2. `battle_retry`: a delivery that fails after it inserted its events leaves them
   unannounced for good.
3. `simulator_stop`: the second of two waiting stops removes a newer task from the
   registry without canceling it.
4. `battle_sim_repeats`: a report lists an enemy once per unit that sees it, and one
   `INSERT ... ON CONFLICT DO UPDATE` with a repeated key is refused by PostgreSQL.
   The starting positions of both scenarios are in radar range of each other, so this
   begins with the first report.

A disagreement that a passing run states: `run_repository_db_integration.py` line 2 calls its
container isolated, but the script starts on the volume that a killed run left (line 54, with
no `down` before it), and its tests then run among the tables of that run. These keep the names of
their indexes (`models.go` 221-222, 236-237), the next tables are made without them, and a test
that relies on one fails (`store_integration_test.go` 170-176). It is the exception in
`LeftoversHarmless`.

Met while reading, with no run of their own because nothing in the modelled behaviour
turns on them: the release runbook asks the collector for a `status` and for skipped
steps, which its manifest does not have; `generate_compose_local_override.py` can choose
one free port for two services; the OpenAPI check takes login and logout from a constant,
so it does not notice when one of them is no longer registered; with fewer than two tracks
the probe injects no event although its estimate counts them (`Profile` is for two tracks or
more).

## Proofs

A run shows a property on its instance; the theorems show it for every value of the
constants that the named assumptions of the modules allow.

`HubProofs`, from `HubAssumption` (finitely many clients, queues of at least one slot).
`HubSafety`: `Spec => [](TypeOK /\ NoPanic /\ ActiveClientsExact)`. The invariant
`SafetyInv` adds what the two properties need: every key of the map has an open channel,
a client that is not registered yet has an open channel and is no key, and a fan-out
visits keys only. `HubOrder`: `Spec => [](GapFree /\ NothingSkipped)`. `OrderInv` adds
that the message being sent is the last of the order, and that a client without a place
in the order has nothing in its buffer and no write pump; the two properties are
inductive together, as a message goes from the order to a buffer to the connection.
`HubImplements`: `Spec => ImplementsOrderedBroadcast`, step by step: a call of `Broadcast`
publishes or loses its message (`BroadcastMaps`), the registration joins behind all that
was taken from the queue (`RegisterMaps`), the write of a pump delivers the next event of
its client (`WriteMaps`, which is where `OrderInv` is needed), taking a message moves it
from `queue` to `order` and leaves `order \o queue` as it is, and everything else is a
stutter.

`DispatchProofs`, with no assumption on the constants. `DispatchTrail`: `Spec => [](TypeOK
/\ LogIsChain /\ OneLogPerChange /\ IllegalOnlyByOverlap)`. The last property is not
inductive: `ChecksHold` says of a request that passed its check what it still knows,
namely that if nothing was logged since, the status is the one it read. The step of
`StoreUpdate` follows from it: either the entry is legal or `base` shows the overlap.
`DispatchAnnouncements`: `Spec => []AnnouncedOnce`, an equation between cardinalities;
`AnnounceInv` adds that only finitely many requests wait to announce, since `Requests` may
be infinite. `CreateAnnounce`, `WriteAnnounce` and `AnnounceAnnounce` add or move one element.

`BattleProofs`, from `PayloadAssumption` and `RequestAssumption` (a process is a creation, a
report or a stop and none of them is `None`). `BattleTicks`: types, with the clause on the
row lock, and `TicksContiguous`. `SessionInv` adds that the holder of the lock has the next
tick and has found its time free (`TickHolds`). `BattleAnnouncements`: `AnnouncedOnce`.
`EventInv` gives the row of every event to at most one request at work (`Claims`), until that
request turns its claim into the one announcement. `BattleLonePosts`: `LoneSnapshotExact`
and `LoneAckIsReplayed`. `LoneInv` says what a request without company has written and read
back by each place of its handler (`AloneHolds`), and what stays when it is over
(`ReplayedHolds`), whoever comes after it. As rows are merged it also says that a row was
written by a report that names it (`RowsNamed`), that no row goes away, so that tables grow from
one snapshot to the next (`RowsStay`), and, for the exception of a retry, that a scan time in
the row or in a snapshot is that of a report that was posted (`TimesPosted`).

`FleetProofs`, from `FleetAssumption` (there is an MMSI, `Seeded` is a sequence of them).
`FleetAcks`, `FleetDeletes` and `FleetTracks` prove `AckKept`, `RevivedOnlyByOverlap` and
`TracksOfLiveShips`. These are action properties; what makes them true is what a request
knows between its steps, and `FleetInv` says it: `ReadHolds` (a request whose ship is not
live any more is in `late`), `LockHolds` (who holds the row lock of an alarm found it open
and is alone) and `AlarmHolds` (a report that has not raised its alarm has none).
`FleetInvariant` is `Spec => []FleetInv`, type invariant and unique MMSIs included.
`FleetSeeds`: `ServesSeeded`. `SeedInv` says that the demo ships behind the one a start is at are
`Settled`, in the table with a location, and that the one it found or made is there; no request
is served meanwhile, and locations are never removed.
`FleetAlarms`: `Spec => []AlarmTold`. The property looks at alarms of which nothing is to be
told any more; `TellInv` says of every alarm what was told at each stage (`Said`), unless
the end of the process cut an announcement off.

`SimulatorProofs`, from `ConstantsAssumption` (finitely many starts, none of them `None`, as
many payloads as whole rounds). `SimulatorRegistry`: `[](TypeOK /\ RegistryExact)`.
`RegistryHolds` adds what a waiting stop awaits. `SimulatorDelivery`: `[](PostsOrderly /\
MetricsAddUp)`. `TaskHolds` and `PostsHold` tie the number of attempts to the end of the
sequence of posts. `MetricsAddUp` sums over the tasks, and a sum is a fold, which would take
induction; the module counts pairs of a task and a number instead (`Numbered`), so that the
step of one task adds or removes elements of one finite set.

`BattleSimProofs`, from its `ConstantsAssumption` (both sides have units, no unit comes
twice). `BattleSimEvents`, `BattleSimFlights` and `BattleSimWrecks` prove all four
properties. A step folds three loops over sequences of any length. The prover cannot use
induction theorems that take an operator, so the first part of the module shows for each loop
that its fold is the end of a run, a function on 0..n that makes one round per step; a
claim about all rounds then follows from the least round that breaks it (`Least`,
`Inductive`, with the good rounds given as a set). `RoundHolds` is the invariant of the loop
that advances the projectiles. `SimInv` adds `LineHolds`: the projectiles of the list are
different ones, one that flies has not been told of as a hit, and nothing is told of
projectiles that were not fired.

`ReleaseProofs`. `GateSound` is about one tree: if all six scripts pass, `ContractsHold`,
for any routes, roles, events and payloads. Its conjuncts join several comparisons: that a
call is served, for example, takes the frontend check (the call is in the OpenAPI document),
the OpenAPI check (what is there is registered, with these roles) and the RBAC check (the
matrix says the same). That of the database says no more than the compose file names: a link
in the short form passes the check. `GateHolds`: `Spec => []GateMeansContracts`; the
property looks only at the end of a run, and `GateInv` says of every place what is known
there (`BehindPasses`), after the list of checks was shown to begin with the defaults when
`--only` is not given. `ReleaseDatabases`: `[](DrillProvesRestore /\ LeftoversHarmless /\
NothingLeft)`. `DatabaseInv` says what an undisturbed run finds at each place
(`Undisturbed`), what it finds when none of its own commands failed either (`Unfailed`), and
that two runs of one script know of each other (`Apart`); it has to hold for whatever a
killed run left, which for the tests is any volume. `ReleaseManifest`: `[](TypeOK /\
ManifestTruthful)`. `EvidenceInv` follows the collector entry by entry; it needs that the
steps are run in the order of their numbers (`StepsRise`), so that no file of a run is
written twice. The assumptions are those on the tables, two different ports, two different
people, and that the chosen steps exist.

`LiveOpsProofs`, from `ProbeAssumption`, `SmokeAssumption`, `LiveAssumption` and those of
`BattleSession`. `LiveBase` says that every request is at a place of its own handler and
that only the script whose session it is has begun; it carries `LoneInv` and `EventInv` of
`BattleProofs` along, where no prune takes rows away. `LivePrunes`: `[]PrunedWhole`. `PruneInv`
says what the statements of a run have left so far (`RunHolds`, `AgeGone`).
`LiveProbeMeasures` and `LiveProbeStops`: `OnlyProbe` says which requests a probe has made by
the place it is at, and that each of its reports was alone; that the snapshots are then as
many as the ticks is a bijection (`ProbeMeasures`). `LiveSmokePasses` and `LiveSmokeFails`:
`SmokeInv` has four parts. `ReportHolds` follows the one report through its handler,
`SentHolds` says that what was published was sent and of which types there is a message,
`FeedHolds` that the connection has an unbroken part of what was published and the script a
message of each type that came, and `ScriptHolds` what the script has got at each of its
checks as long as nothing troubled it. A check that waited for everything that comes has a
message of each type unless it was registered late (`HeardUnlessLate`), and a message of
each type, of which the state is not that of the creation, is every message of the report.

What stays with TLC: liveness (`ConnectionsEnd`, `QueueDrains`, `StartEnds`,
`StopsAnswered`) and with it `ENABLED`, which the prover does not reach; and the four
findings, which are counterexamples. No module has a RECURSIVE operator.

## Plan

Done: `OrderedBroadcast`, `Hub`; `Dispatch`; `BattleSession`; `Simulator`; `BattleSim`;
`Fleet`; the release scripts; the scripts on a running system with `LiveOps`; and for each
of them the proof of its invariants and action properties.

Theorems worth proving next: that a detailed specification implements an abstract one for
other components than the hub, which takes an abstract session and an abstract registry
first; and lemmas on the terms of the liveness properties that are not temporal, such as
that a waiting stop always has a task that can go on.

## Not modelled

- The frontend: React state inside callbacks. What a page shows depends on how a browser
  schedules them, and no text says what it should show after a race. Its two hazards (a list
  fetched before an event replaces a newer state; events are lost while the client
  reconnects) therefore have no property; on the server's side `GapFree` says what one
  connection gets.
- Migrations: SQL text. Two servers that start on one new database both find a migration
  missing, and one of the two fails: one of the errors that end a start in `Fleet` (`SeedBreaks`).
- Timeline and battle report: merges and rankings over rows, without state, unit-tested.
  What they show of a stop whose event or snapshot failed is a hazard without a property.
- Tokens and login: cryptography over one request. What roles admit is in `Contracts`.
- The analytics proxy: it forwards a request and keeps nothing; the environment of
  `Simulator` sends such requests at any time.
- `runtime_precheck.py`, `run_runtime_observability_snapshot.py`,
  `generate_compose_local_override.py`, `generate_frontend_api_types.py`: they probe or write
  once, in no order that matters.
- A second simulation for the same session repeats the ids of its events, and a late older
  report writes its units over newer ones: both follow from the code at one line, and need
  payloads that the bounds of `BattleSession` do not hold.
- Configuration, logging, request ids, CORS and the drain at shutdown keep no state that
  another part reads. Wording, coordinates and everything else that no property tells apart
  is abstracted as the modules say.

## Running

    tlc -workers 2 -config MCHub.cfg MCHub
    tlc -workers 2 -config MCLiveOps.cfg MCLiveOps
    tlapm HubProofs.tla
