# Phone Control: verification

Phone Control lends Android phones to drivers. A phone in its dock is locked on
a kiosk screen; a driver scans his badge, a session opens, the phone is usable
until the driver comes back to the depot, the session expires, the evening lock
falls or the server orders it to lock. The phone must work without a network:
it keeps its session, its events and its orders in a local database and
reconciles them with the server whenever it can.

This directory holds TLA+ modules translated from the source, the TLC runs that
check them and the TLAPS proofs about them. Every definition that models code
is tied to its lines in `PROJECT.json` ("map"), every hazard of the code to the
properties that watch it ("hazards"), every disagreement between the code and
its own documentation to the run that shows it ("findings").

    tlc -config PhoneSessionRaces.cfg MCPhoneSession.tla
    tlapm PhoneSessionProofs.tla

## The system

`AND` is `src/apps/android/app/src/main/kotlin/com/phonecontrol`, `RULES` is
`src/apps/android/core-rules/src/main/kotlin/com/phonecontrol/core/rules`, `API`
is `src/apps/api/src`.

| Component | State | Operations | Talks to | Correct when |
|---|---|---|---|---|
| Session of the phone: `AND/session/SessionManager.kt`, `RULES/DeviceStateMachine.kt`, `AND/ui/MainViewModel.kt`, `AND/MainActivity.kt` | context in memory (state and session), rows of `session` | scan, offline scan, lock, reconcile, restore, geofence transition | the server (badge request, pull), the recorder, the location service | never usable for nobody; the memory agrees with a row; what was ended stays ended; a divergence from the server ends |
| Lock schedule: `AND/schedule/LockScheduler.kt`, `RULES/Schedule.kt`, `API/rules/schedule.ts`, `API/worker/lock-scheduler.job.ts` | the exact alarm, the periodic check; the last pass of the job | plan, fire, catch up, boot; order the phones of a depot to lock | the session, the commands | locked in time although alarms get lost; each instant gives each phone one order |
| Commands: `API/devices/commands.service.ts`, `AND/sync/SyncEngine.kt`, `CommandDao` | `device_commands` (server), `pending_commands` (phone) | enqueue, pull, execute, report, expire | the session on both sides | run at most once, not when overdue, and the outcome shown is true |
| Events: `AND/sync/EventRecorder.kt`, `PendingEventDao`, `API/sync/sync.service.ts` | `pending_events` (phone), one table for each kind (server) | number, insert, cap, batch, handle, acknowledge | the sessions of the server, the last position, the alerts | nothing urgent lost, nothing twice, in order; the session and the map follow |
| Sessions of the server: `API/auth/barcode-auth.service.ts`, `API/sessions` | `sessions` | open, end, expire, return | phone, dashboard | one active session for a phone and for a driver; a phone is told to log out once its session is over |
| Badges: `API/badges`, `API/users`, `barcode-auth.service.ts` | badges, drivers, assignments | register, suspend, revoke, assign; the controls of a scan | sessions | a revoked badge opens nothing |
| Rate limiter: `API/redis/rate-limiter.service.ts` | counters in Redis | consume, record a failure, lock out | the scan | no more guesses than the limits |
| Geofence: `AND/geofence`, `RULES/GeofenceEngine.kt`, `GeofenceRules.kt`, `API/rules/geofence-rules.ts` | window of fixes, side of the fence | fix, transition, decision | session, recorder | no transition without confirmation; a departure after the return is told |
| Identity of the phone: `API/auth/device-token.service.ts`, `API/devices/enrollment.service.ts`, `AND/data/remote/DeviceAuthInterceptor.kt`, `EnrollmentManager.kt` | family of refresh tokens, enrolment tokens, two tokens on the phone | enrol, refresh, revoke | every request | a phone is disenrolled for a cause only; a label enrols once |
| Screen sharing: `API/screen-share`, `AND/screenshare`, dashboard panel | rows of shares, copies of the phone and of the panel | request, consent, frame, end | phone, dashboard | no frame without consent, nor to another administrator |
| Applications: `API/app-packages`, `AND/apps`, `RULES/AppInstallRules.kt` | catalogue, files, orders of installation, what a phone has | upload, deploy, install, retire | commands | what is said to be installed was |
| Configuration: `API/settings`, `API/depots`, `API/sync`, `AND/sync/SyncEngine.kt` | settings and version, depot, badges of a phone | edit, pull, apply, report | phone | what a company sets reaches its phones |
| Alerts and notifications: `API/alerts`, `API/worker/health-monitor.job.ts`, `API/notifications`, `API/push` | alerts, dates of dispatch, cached access token | raise, acknowledge, resolve, close; route, send; wake a phone | dashboard, channels, phone | the open alerts say how the phones are; a critical one reaches every channel |
| Administrators: `API/auth/admin-auth.service.ts`, `access.guard.ts`, the gateway of the dashboard | accounts, grants, cookies | log in, SSO, code; refresh; log out; exclude | every page | a code opens once; failures lock; nobody is signed out without a cause |
| Live feed and home page: `API/realtime`, dashboard `lib/realtime.tsx`, `API/dashboard` | socket, listeners, list; figures | join, subscribe, publish, read; count | dashboard | the list follows the rows; figures agree |
| Companies: `API/prisma/tenant-extension.ts`, `API/integration`, `API/companies` | context of a request, link to an account, enrolments | query; provision, cut, enter; invoice | Trajelys | a company sees its own rows; one company by account; what was occupied is billed |
| Retention: `API/worker/maintenance.job.ts`, the page of the settings | partitions, rows, durations | create and drop partitions, purge, edit | | nothing erased early, nothing kept after a pass |
| Provisioning: `packages/provisioning-payload`, `tools/provisioning`, dashboard `api/provisioning` | campaign, labels, tokens, cookies, the bench | check, declare, issue, print; read a file; give a role by cable | enrolment | each phone its label; nothing spent on a wrong configuration |
| Kiosk, integrity, secrets, audit log | device policies, key stores, rows | apply, check, encrypt, append | Android | calls to Android, cryptography, appended rows |

What is hard here: Kotlin coroutines interleave at each suspension point while
only a few lines run under a mutex; Android kills processes, destroys activities,
delays jobs and drops alarms; two SyncWorker jobs (periodic and immediate) may run
together, and `syncNow` cancels one midway; requests and answers are lost, or the
phone gives up while the server goes on. On the server almost every handler reads
a row, awaits, decides, and writes the row whatever it has become; the worker's
jobs, the channels and the sockets run beside the requests, and Redis, the
process or a channel may fail between two statements. In the dashboard several
requests of a page share two cookies, a form is filled once, and events arrive in
the middle of reads. The list, line by line, is "hazards" in `PROJECT.json`: those
a run watches; the ones the code is exposed to are the table "Not held" below.

## Modules

| Module | Models |
|---|---|
| `DeviceStateMachine` | the pure transitions of `DeviceStateMachine.kt`, one operator for each event |
| `PhoneSession` | the session on one phone: every thread of `SessionManager`, the schedule, the geofence, the process |
| `CommandPromise` | abstract: what the queue of commands promises to the administrator |
| `CommandQueue` | the commands that lock, on the server and on the phone |
| `EventQueue` | the events: recorders, storage, push, server |
| `PhoneSessionProofs` | the theorems about `PhoneSession` |
| `DispatchProofs` | the theorems about `CommandQueue`, `LockJob`, `WakePush` |
| `BackendProofs` | the theorems about `EventQueue`, `NotificationRouting`, `RealtimeFeed`, `HomeSummary` |
| `OfficeProofs` | the theorems about `Billing`, `Retention`, `DepotReturn`, `DepotPage`, `LastPosition`, `Commissioning`, `OwnerByUsb` |
| `ServerProofs` | the theorems about `ServerSessions`, `TenantIsolation`, `BadgeScan`, `RateLimiter`, `TrajelysLink`, `AlertQueue`, `AdminLogin`, `DashboardSession` |
| `PhoneProofs`, `IdentityProofs` | the theorems about `FleetConfig`, `ScreenShare`, `AppDeployment`; about `DeviceIdentity` |
| `DeviceIdentity` | enrolment, rotation of the tokens, revocation; the calls of the phone that share one rotation |
| `AppDeployment` | upload, catalogue, orders, and the installation on the phone step by step |
| `ScreenShare` | the rows of the shares, the phone's and the panels' copies, the images |
| `RateLimiter` | quota, failures and lockout of a scan, in Redis |
| `FleetConfig` | what a pull brings: settings and their version, depot, badges; the application policy and its report |
| `BadgeScan` | badges, drivers, assignments, and the controls of a scan |
| `AlertQueue` | alerts, heartbeats, the monitor of silent phones, administrators |
| `DepotRules` | the rules of a day and the decision of a transition, as functions |
| `LockJob` | the job that orders the depots to lock, its window and its leader lock |
| `WakePush` | the wake-up push, its throttle and the access token of Google |
| `ServerSessions` | opening, ends, expiry, logout orders |
| `NotificationRouting` | the choice of the channels and the dispatch |
| `AdminLogin`, `DashboardSession` | how an administrator comes in; his cookies, the gateway, the families of his tokens |
| `RealtimeFeed`, `HomeSummary` | the socket, its listeners and the list; the figures and the graph |
| `TenantIsolation` | the context of a request and the extension that filters the queries |
| `TrajelysLink`, `Billing` | accounts and companies; what is invoiced |
| `Retention` | partitions, purges, and the form of the durations |
| `Commissioning` | the content of a label and its controls; the campaign of the workshop and the page |
| `FleetFile`, `OwnerByUsb` | reading the fleet file; the role given by cable |
| `DepotReturn`, `DepotPage`, `LastPosition` | the handling of a transition by the server; the form of a depot and its fence; last position and trace |
| `MCPhoneSession`, `MCEventQueue` | symmetries of two core modules, and what `events_delivery` has happen at once |
| `MCPhone`, `MCPull`, `MCServer`, `MCPromise`, `MCBackend`, `MCOffice` | several modules checked in one run |

A definition commented "Mutant" is a plausible fault, used by no action: it shows
that the property named beside it in `PROJECT.json` can fail.

The six last modules put side by side components that share no state: `scene`,
chosen at the start, says which of them moves, and the variables of the others
rest in one initial state. The state space is the sum of theirs, not the product.
Modules that do interact are composed for real: `LockJob` and `DepotReturn` EXTEND
`DepotRules`, `PhoneSession` EXTENDS `DeviceStateMachine`, `CommandQueue` implements
`CommandPromise`.

### PhoneSession

`ctx` is `SessionManager._context` (state and session), `db` the rows of `session`
(absent, open, ended), `srv` the active session on the server. Each thread (a scan,
the alarm receiver, the periodic check, a SyncWorker job) has a program point `pc`,
and stops at each suspension point of the code: a DAO call, a request,
`Dispatchers.Main`. What a thread has read before such a point stays in `sid`, `seen`,
`check`, `restore` or `decision`, and is used after it as the code does, stale or not.
`lock()` is four actions (`LockEnter`, `LockEnd`, `LockRequest`, `LockApply`) because
that is where it suspends, `reconcile()` reads, writes the row, then the memory,
outside any mutex. `ui` says whether a MainViewModel exists: without it the effects of
the machine (start and stop of the tracking) are lost. `hasDepot` says whether the
phone has stored a depot: without one nothing is planned, the periodic check looks at
nothing, not even the expiry, and no fix is evaluated; the answer to a pull stores it
(`DepotStored`). `Kill`, `PowerOff`, `CloseUI`, `LoseAlarm` and `SyncCancelled` are
the environment.

Time is counted in quarters of an hour, the real period of the periodic check
(`CheckPeriod` = 1) and half of the catch-up window (`Window` = 2). `Tick`
waits for threads in the middle of local work, since a quarter is long; a badge
request may straddle it. Bounds: `MaxTime`, two scans at most, one
offline and one or two online sessions, one pull. `DepotAtStart` says which phones a
run starts with: both kinds where depots do not matter to the property
(`session_races`) or where the property says what they change (`phone`).

### CommandQueue

`status` is the column of `device_commands`, `phone` that of `pending_commands`;
`handler` is where the server is with the request of each worker: `pullPending`
is three statements, `reportResult` a read and a transaction. `phone` gives up
without the server stopping ("late"), jobs are cancelled at any point. Only the
commands that lock are modelled (`LOCK_DEVICE`, `FORCE_LOGOUT`,
`REVOKE_SESSION`); the session is a number. Bounds: `MaxTime`, `MaxSessions`; a
worker has one request at a time on the server, the abandoned one included; the
server's and the phone's clocks agree (the code corrects the drift).

### EventQueue

`seq` is the number of an event, `counter` the `AtomicLong` of the recorder (-1 in a
new process), `place` where the event is: not recorded, numbered, a row, gone.
`sending` are the rows marked SENDING, which `nextBatch` takes again. A worker takes
at most `BatchSize` rows by kind and number (500 in the code), at most `Rounds` times
(20). The server handles the batch one event at a time, locations last in one
statement; `stored` counts the rows of its tables for each event. The server reads the
device once for a request (`ReadDevice`): `bare` are the requests that found it
without a depot (fault `"detached"`), whose transitions are acknowledged and stored
nowhere (`ignored`). `Orphans` are the alerts that name a session of which the server
has no row: the foreign key refuses them. The effect of an event on sessions, alerts
and the map is left out; a geofence event is its check and its commit.

### The phone and what the server keeps for it

- `DeviceIdentity`: a request on the server is a sequence of statements
  (`CheckTicket`, `Enrol`; `ReadCred`, `RevokeFamily` or `UseCred`, `Issue`), and its
  answer may find a phone that has given up. The interceptor's mutex lets one call
  rotate while the others wait and take what it stored (`Refresh`, `Refused`,
  `StoreAccess`, `StoreRefresh`: the two tokens are two writes, with `KillUnit`
  between). `excuse` records what may cost a phone its credentials.
- `AppDeployment`: `desk` is what a request of an administrator has still to do, so
  that a deployment orders phone by phone while another retires the package; `job`
  is the installation (download, verdict, session, report) on a phone.
- `ScreenShare`: `calls` holds the handlers that have read a share and will write
  it (`Judged`, `Write`), and the answers on their way to phone and panel.
- `RateLimiter`: the counters expire by themselves; `flaky` is a Redis that may not
  answer, in which case the code lets the request through.
- `FleetConfig`: a pull is three reads on the server (`ReadDevice`, `ReadSettings`,
  `AnswerPull`) and several writes on the phone (`Stores`), with `KillPhone` between any
  two. The periodic and the immediate work (`Works`) each have a pull of their own,
  under no mutex; `LosePull` is a lost message, or a work that `syncNow` cancels where
  it is suspended (`Suspended`). `crossed` records that a pull stored its settings
  over those another had stored or was storing: the phone may then know a version and
  hold the settings of an older one, which nothing corrects.

### The server

- `BadgeScan`: a request presents a number, then reads the phone, the badge and its
  driver, the assignment; an administrator reads the status, then writes it.
- `AlertQueue`: the monitor is a loop over the phones (`LookForAlert`,
  `InsertAlert`), then a read and a write of the alerts to close.
- `LockJob`: each slot each instance may run a pass (`Trigger` takes the lock, or
  not when Redis fails), which opens each depot and orders each of its phones;
  `changed` dates the last edit of a schedule, `outage` counts the slots in a row
  without a complete pass.
- `WakePush`: `Wake`, `Lookup`, `Token` and `SendMessage` are the awaits of `wake`.
- `ServerSessions`: `Open` is the transaction of a scan, with the unique indexes it
  may break (`OpenConflicts`); the worker reads, expires, then orders the logouts
  one by one; `fragile` says that it may end in between.
- `NotificationRouting`: `Decide` reads the count of the hour, `Reaches` and
  `Misses` try a channel, `DateAlert` writes. `Fails` is the catch of `dispatch`: what
  throws before the first channel, or after the last, ends the dispatch, and nobody
  tries again. A server that stops in the middle of a dispatch is not modelled.
- `AdminLogin`: a password is two statements around its verification, a code of
  Trajelys one `GETDEL`. `DashboardSession`: the gateway forwards, rotates, and
  replays; each request carries the cookies as they were when it left (`page`), and
  `jar` is the browser's. `left` records what may have ended the session.
- `RealtimeFeed`: `known` is `listenersRef`, `wired` the listeners of the socket;
  events that are sent while the socket is away are lost, as in the code. `Invalidate`
  is react-query, external: an event cancels the read under way and reads again, except
  a first read (`filled` is FALSE: a new page, a filter not used yet, a reload), which
  goes on, so that an event in the middle of it passes (`gap`).
- `HomeSummary`: the counts of one summary are answered one by one.

### Companies, returns, provisioning

- `TenantIsolation`: `context` is what `AsyncLocalStorage` gives a request, opened
  empty by the middleware and filled by the guard in place; the extension reads it
  at each query (`mergeWhere`, `Touch`), with a read before `update` and `delete`.
- `TrajelysLink`: all accounts choose one slug, the worst case of `slugLibre`; the
  unique indexes reject, and the code reads again or tries the next slug. `Tries` bounds
  the suffixes (50 in the code); a call fails after the last. No code of the server
  writes the `deletedAt` of a company, so the branch of `provisionner` for a deleted one
  is left out.
- `Billing`: one row by phone keeps one enrolment only; `occupied` is the history it
  is compared with; `Freeze` is the answer Trajelys keeps.
- `Retention`: a row goes to the partition of its month, or to the default one;
  `night` is the pass with the durations it read; the form of the page is filled once.
- `Commissioning`: the campaign of the tool lists page by page, then issues; the
  request of the page rotates its session on the way. A profile is checked by
  `Commissioning!Errors`, the controls of `validatePayload` in their order.
- `FleetFile`: one step, the reading of a text of a few characters: `parseDelimited`
  is a fold over the characters, checked against the cells they came from.
- `OwnerByUsb`: `InspectDevice`, then `SetDeviceOwner`, while people handle phones.
- `DepotReturn`: a push takes transitions, and for each reads the session, raises
  the alert, then writes the row and the session in one transaction.
  `DepotPage`: the form sends all of itself; row and fence change in one
  transaction that holds the row. `LastPosition`: load, insert, move forward.

## Runs

Passing runs (a name is that of a core question; the scenes beside it are
components that share no state with it):

| Run | Question | Bound |
|---|---|---|
| `session_races` | can any interleaving of two scans, locks, a pull, the geofence, the death of the process, a cancelled job, open the phone for nobody, without a row, or revive an ended row? | 2 scans, 1 online session, 1 pull, no clock, with and without a depot |
| `session_schedule` | without a pull and with one scan at a time: is a phone that has its depot locked within one check after a lock instant, even if the alarm is lost? | 6 quarters, instant at 2, duration 2, 3 sessions |
| `phone` (`MCPhone`: session, identity, apps, share, limits) | does an expired session end within one check, across deaths and power cuts, on a phone that has a depot? is a phone disenrolled for a cause only, is what is installed what was ordered, is a screen seen as agreed, are guesses bounded? | 5 quarters, duration 2, 1 scan, 1 online and 1 offline session, with and without a depot; 2 calls at once, 3 credentials, 2 requests, three sets of faults; 2 packages of 2 versions, 1 phone; 2 shares; 3 requests of 1 phone, lockout after 2 |
| `session_convergence` (`MCPull`: session, fleet) | does a divergence with the server end (liveness)? does what a company sets reach its phones though two works pull at once (liveness), and may a known version hide settings that are not held, unless pulls crossed? | 1 scan, 1 pull, deaths; 2 works, 1 immediate call, 1 edit, 1 mishap, 2 badges of which one stays, 1 application |
| `server` (`MCServer`: commands, tenants, badges, alerts, lockJob, wake) | with requests lost, cancelled or failing but no slow batch: is an overdue command ever run, an outcome shown that is false? are companies apart? what does a revoked badge open, what do the alerts say, what do the evening and the pushes reach? | 2 commands, 1 worker, 2 ticks; 2 companies, 2 rows, 2 requests; 2 badges of one number; 2 passes of the monitor, 2 alerts; 2 depots, 2 instances, days of 4 slots, clock to 4; 2 calls of `wake` |
| `command_promise` (`MCPromise`: commands, link, events) | does one worker implement `CommandPromise`, and run a command once? does every command get an outcome, does an event the server refuses let the others pass, does an account get its company (liveness)? one company by account? | 2 commands; 2 accounts, 3 companies, 2 names to try, 1 operator; 1 refused event, 2 others, batches of 2, devices without a depot |
| `events_delivery` | two jobs, a full queue, lost answers, failing statements, cancelled jobs, restarts: is an event stored twice, an urgent one lost (but a transition of a device without a depot), the order of the numbers broken? | 3 events of 3 kinds, 2 workers, batches of 1, one for each run, cap 1; at most 2 events recorded at once and 1 request abandoned (`FewAtOnce`) |
| `backend` (`MCBackend`: events, sessions, routing, login, browser, feed, home) | are transitions applied in order? one session in force? who comes in, who stays, what administrators are told | 2 transitions, 2 workers, no failing statement, devices without a depot; 2 phones, 2 drivers, 2 scans; 2 alerts, 2 channels, ceiling 1, dispatches that fail; 3 requests, limit 3; 2 requests of a page, 2 tokens; 3 changes of the list; 2 sessions, 2 days |
| `office` (`MCOffice`: billing, retention, labels, file, usb, return, depot, positions) | is what a company owes and what is kept of it right, is a phone put into service as asked, does the server follow where phones are? | 2 companies, 5 days; terms of 1 or 2 days, 2 positions and 1 event; 2 phones, pages of 1, 1 expiry; texts of 2 lines of 2 cells; 2 phones on the bench; 2 sessions, 2 transitions; 2 pages; 4 points |

The invariants named `...Inv` are conjunctions: the type invariant of a module and
its properties, each a definition with a comment of its own. `OfficeSteps` is the
conjunction of two action properties.

Three runs end in a violation: the code does not do what its comments say. Each
is a finding in `PROJECT.json`.

| Run | What happens |
|---|---|
| `session_reopened` | `reconcile` writes back, after the evening lock, the session it read before it (`SessionManager.kt:297`): the phone is open all night |
| `command_lost_ack` | a lost report is never sent again, and the server shows an executed command as expired |
| `events_orphan` | a security event of a session opened offline is refused by a foreign key at each push, and stays at the head of the queue |

### Not held

Other disagreements between the code and its documents, or what a reader would
expect of it, are states of the same models. The property is in its module; TLC
finds it violated with the constants of the run, as they are unless the table says
otherwise.

| Property | Run, constants | What happens |
|---|---|---|
| `PhoneSession!LockedInTime` | `session_schedule`, `Duration = 4`, `Faults = {"kill"}` | a new process is LOCKED without a session, so `lock()` does nothing (`SessionManager.kt:263`), and the next activity restores the open row after the lock instant |
| `PhoneSession!LockedHasNoSession` | `session_races`, no fault | a refusal after a grant keeps the session in a locked context (`DeviceStateMachine.kt:178`; `DeviceStateMachineTest.kt:96-101` expects none); a geofence transition then reopens the phone |
| `PhoneSession!TrackingOnlyInSession` | `session_races`, 1 scan | a grant between `LockRequested` and `LockApplied` leaves the location service running (`LocationTrackingService.kt:38-40` says it does not exist outside a session) |
| `PhoneSession!OfflineSessionConfirmed` | `session_races`, 1 offline session | the first pull locks the phone out of the session opened offline (`docs/05-offline-et-sync.md:125-127` says it is confirmed) |
| `PhoneSession!UsableInTime` | `phone` as it is; `session_schedule`, `DepotAtStart = {FALSE}` | a phone that has a session and no depot yet leaves the periodic check before the expiry is looked at (`LockScheduler.kt:218`) |
| `PhoneSession!OfflineIsDeclared` | `session_schedule`, `Faults = {"kill"}` | the process ends between the row of an offline session and its event (`SessionManager.kt:228`): the restoration opens the session, and the server never hears of it |
| `PhoneSession!AlarmCompletes` | `session_schedule`, `SPECIFICATION FairSpec`, `Faults = {"closeUI"}` | the receiver holds the main thread and waits for the mutex, the restoration holds the mutex and waits for the main thread |
| `CommandQueue!ReplayHarmless` | module `CommandQueue`, 2 workers, 2 sessions | two jobs run the same command; the second run closes a newer session (`commands.service.ts:25-27` calls the replay harmless) |
| `CommandQueue!NeverRunExpired` | `server`, `"slow"` in `Faults` | behind a slow command the next one runs after its expiry (`Daos.kt:173` says never) |
| `CommandQueue!ServerLockIsTrue` | module `CommandQueue`, 2 sessions, no fault | the report of a lock ends, on the server, a session opened since (`commands.service.ts:202-204`) |
| `EventQueue!SeqMonotone` | `MCEventQueue`, 2 alerts, `Faults = {"kill"}` | after everything was acknowledged a new process numbers from 1 again (`EventRecorder.kt:32-33` says monotone and persistent) |
| `EventQueue!UrgentStored` | `events_delivery` | a transition of a device the server gives no depot is acknowledged, so deleted on the phone, and stored nowhere (`sync.service.ts:296-302`; `SyncEngine.kt:49-51` says "jamais une donnée") |
| `AppDeployment!NameIsOfTheFile` | `phone`, `Jobs = {j1, j2}` | two jobs of a phone write one cached file; one installs and reports what the other has written there |
| `DeviceIdentity!KeptByGatewayError` | `phone` | any answer but 200 of the rotation, a 502 of the gateway included, erases the tokens (`DeviceAuthInterceptor.kt`) |
| `DeviceIdentity!FamilyStaysRevoked` | `phone` | a rotation that has read its token in force issues after the family was revoked (`device-token.service.ts:77`) |
| `AppDeployment!DeployedIsOrdered` | `phone` | the key of an order is for ever: a phone that refused or removed an application gets no second order (`app-packages.service.ts:227`) |
| `AppDeployment!OfferedSurvives` | `phone` | the file is deleted before the row is retired (`app-packages.service.ts:302`) |
| `ScreenShare!TerminalIsFinal`, `ConsentInTime`, `OneLiveShare`, `NothingShownAfterEnd` | `phone` | each handler of `screen-share.service.ts` (`:108`, `:194`, `:284`) reads, then writes whatever the row has become |
| `FleetConfig!VersionTold`, `PolicyReachesAnyway` | `session_convergence` | settings and version are two writes under no mutex (`SyncEngine.kt:170-171`): the settings of an older pull stay under the version of a newer one, and are never sent again |
| `FleetConfig!DepotReaches`, `ReportReaches` | `session_convergence` | a depot changes without a version (`sync.service.ts:604`), a lost report is not sent again (`devices.service.ts:77`) |
| `FleetConfig!RevokedLeavesList` | module `FleetConfig`, `FleetFairSpec`, 1 work, 1 badge | the last badge of a list stays (`SyncEngine.kt:204`); `session_convergence` keeps one badge listed |
| `BadgeScan!RevokedIsFinal` | `server`, `Editors = {a1, a2}` | a status read before a revocation is written after it (`badges.service.ts:210`) |
| `BadgeScan!ActiveBadgeAdmitted` | `server` | a number registered again after its badge was revoked: the scan may find the old row |
| `AlertQueue!HandledIsKept` | `server` | the monitor closes what an administrator has handled since it was read (`health-monitor.job.ts:164`) |
| `LockJob!LockedTheSameDay` | `server` | an order lives twelve hours, into the next operational day (`lock-scheduler.job.ts:124-125`) |
| `LockJob!LockOrdered` | module `LockJob`, `Schedules = {Opens(3, Override(Unset, 0))}`, `LastSlot = 6`, one instance | a day that locks one slot after the day before: in the window the first instant hides the second (`lock-scheduler.job.ts:94`), and one missed slot loses it although the window covers two; `OrdersInv` asks for instants further apart than the outage (`Spaced`) |
| `LockJob!SpecialPrevails` | `server`, a schedule of `Closed` days with a special day | a day of the week that is closed returns before the special days (`schedule.ts:116`) |
| `WakePush!OneWakeByInterval` | `server` | the row of the phone is awaited between the throttle and its mark (`push.service.ts:76-89`) |
| `NotificationRouting!CriticalAlwaysTried` | `backend` | a dispatch that fails before its first channel (configuration, count or message) is logged and never tried again (`notifications.service.ts:97-106`; `routing.ts:12` says that a critical alert always passes) |
| `NotificationRouting!CeilingHolds` | `backend` | dispatches that overlap count before any is dated (`notifications.service.ts:115`) |
| `AdminLogin!LockedAnyway` | `backend` | failures that overlap count for one, and a late one erases the lock (`admin-auth.service.ts:80`) |
| `DashboardSession!RefusedMeansOver`, `LogoutIsFinal` | `backend` | two rotations of one token refuse one of the requests (`lib/server/session.ts:77`); a rotation under way brings the cookies back after a logout |
| `RealtimeFeed!HeardIsShown` | `backend` | an event in the middle of the first read of a list does not start it again (`realtime.tsx:106`, with react-query 5): the list lacks it until the next event or reload |
| `RealtimeFeed!WiredOnce`, `BarredHearsNothing` | `backend` | the listener of a page that has gone stays (`realtime.tsx:159`); the token is checked at the handshake only (`realtime.gateway.ts:49`) |
| `HomeSummary!NeverNegative` | `backend` | "not returned" is drawn from two counts made at two instants (`dashboard.service.ts:151`) |
| `TrajelysLink!EntersCompanyFound`, `NoLateEntry` | `command_promise` | an entry opens after the link was moved or cut (`admin-auth.service.ts:147`, `companies.controller.ts:264`) |
| `Billing!BilledIsOccupied` | `office` | a phone revoked again is counted again (`enrollment.service.ts:198`) |
| `Retention!FormOfItsCompany` | `office` | the form keeps the durations of the company shown before (`settings/page.tsx:77`) |
| `Retention!MonthAtMost` | `office`, `LastDay = 5`, 1 company, 1 track, no fact | a position stored before its month has a partition bars it, and nothing drops the default one (`maintenance.job.ts:49`) |
| `Commissioning!TokensWhenDrawable`, `EveryTokenPrinted`, `NoConflict`, `RotationAlwaysKept` | `office` | the size is checked for level L and drawn at another (`payload.ts:106`); tokens issued before a failure are on no sheet (`batch.ts:159`); the fleet moves between two pages (`lib/api.ts:70`); an error gives no cookie back (`api/provisioning/route.ts:178`) |
| `FleetFile!TagsAlwaysAsWritten`, `LineOfTheFile` | `office` | a separator guessed on the first line only; lines are counted without the empty ones (`lib/csv.ts:72`, `:181`) |
| `OwnerByUsb!RoleWhileFit` | `office` | the phone changes between the examination and the order (`adb-owner.ts:73`) |
| `DepotReturn!ReturnedInSession`, `ClosedIsLocked` | `office` | a late transition marks the next session, and sets active a phone whose session has ended (`sync.service.ts:389`) |
| `DepotReturn!StateFollows`, `ExitIsTold` | `office`, `Overlap = TRUE`, 2 handlers | two pushes of one phone handled at once |
| `DepotPage!OnlyWhatWasTyped` | `office` | the page sends the values it had read over newer ones (`depots/[id]/page.tsx:54`) |
| `LastPosition!SettledIsShown` | `office`, `Together = TRUE`, 2 pushes | the last position loaded before another push is written over it (`sync.service.ts:240`) |
| `LastPosition!CutLacks` | `office` | a trace of exactly the limit is said to be cut (`locations.service.ts:147`) |

### Bounds

The races need two actors on one row, so two scans, workers, requests, pages,
administrators or passes show each pair; a second session, package, company or
share shows staleness across them. The clocks go beyond the instant that matters
(lock, expiry, end of an interval or of a month) by more than the window the code
looks back. `BatchSize` = 2 lets a refused event and a healthy one share a batch
while a third waits. Quotas and limits are small and both sides of them are reached.
Every counter has a named bound (`Max...`, `Last...`, `FinalDay`, `EndDay`) in the
guard of the action that moves it.

Symmetry is broken only between interchangeable things: `SYMMETRY` for workers,
scans, sessions and commands in runs without liveness; elsewhere by taking the first
free one (`Spare`, `NextRow`, `NextFree`, `Begins`, `FirstOfThem`).

Deadlock is checked in every run but `office`, where the reading of a file, a
campaign, a bench and a month really end. In `MCPhone`, `MCServer` and `MCBackend`
the action `Bounded` stutters in the scenes where the bounds stop what the code does
not; the core (the session of the phone, the commands, the events) and the scene of
the screen have no such step, so a deadlock there is one of the model.

### Fairness

- `PhoneSession`: a coroutine that has begun goes on (weak fairness of the steps
  after a request), a pull is tried again and answered (`PullAnswered`: WorkManager
  repeats the job with a backoff). A new badge scan, a death or a geofence
  transition is owed to nobody.
- `CommandQueue!ServerFairSpec`, and its scene of `command_promise`: the server
  serves, the maintenance job runs, time passes. The phone owes nothing. `FairSpec`
  adds that the phone is on and that answers arrive again and again; only a
  violation uses it.
- `EventQueue`: jobs run again and again and neither requests nor answers are lost
  for ever. With jobs that are cancelled for ever before each answer, or a server
  that fails for ever, nothing is delivered, so `HealthyDelivered` is checked with
  lost messages, deaths and devices without a depot only (whose transitions are owed an
  answer, not a row).
- `MCPull!PullFairness`: the periodic work of the phone comes back for ever, an
  immediate one that has begun goes on (none is owed), and the provisioning of the
  Device Owner ends. Mishaps are bounded by `MaxMishaps`. `FleetConfig!FleetFairness`
  asks the same of each work by itself.
- `TrajelysLink!LinkFairness`: each request of an account goes on, and an account
  that has no answer asks again. It is owed its company while one of the names
  that are tried is free (`NoSlugLeft`).

## Proofs

Seven modules hold the theorems. Each is about every value of the constants: any
number of phones, requests, jobs, administrators and sessions, every set of faults,
unless a hypothesis is named here. The pattern is the same everywhere: the invariant
the runs check (`...Inv`) is itself inductive, because the conjuncts a proof needs
beside the safety properties are conjuncts of it; TLC checks them all.

### The core

- `PhoneSessionProofs`: `NeverOpenForNobody` (a usable phone has a session),
  `NeverOpenUnstored` (that session has a row), `EndedForEver` (an ended row is never
  opened again). Neither of the first two is inductive: a scan, a reconciliation or a
  restoration writes, at its last step, a session it chose several steps before. `Inv`
  adds what they carry: a session about to be written has a row (`ComingIsStored`),
  and the identifier a scan holds is that of no row and no other scan until it is
  stored (`GrantsAreFresh`). The lemmas say, one for each piece of state, what a step
  may do to it: `RowsStep`, `ContextStep`, `ScanMoves`, `SyncMoves`, `RestoreMoves`;
  `ComingStep` and `FreshStep` combine them.
- The deadlines of the session, in the same module, of a phone that has its depot
  (without one the worker looks at nothing: `UsableInTime`, "Not held").
  `ExpiredOnTime`: a session leaves the phone usable no longer than one period of
  `LockCheckWorker` after its duration, whatever dies, restarts or loses the alarm;
  without a pull the phone keeps what it started with, a depot or none.
  `LockedOnTime`: the same of each lock instant, while the process and the interface
  live, if the catch-up window is longer than the period (30 minutes in
  `LockScheduler.kt`, 15 in `SyncWorker.kt`). Both assume one scan at a time and no
  pull, because several of them break the properties (`session_reopened`, "Not held").
  `ProcessAgrees` bounds the age of what a scan carries and of the worker's last run;
  `OneHolder` says that no scan goes on beside a session in memory, so that `lock()`
  finds it; `ExpiryWatched` and `LocksWatched` that the worker ran last before the
  deadline or is locking (`WatchKept`, shared by both). The catch-up is
  `MissedIsSeen`: an instant passed since the last run is in the window, by
  `NextLockIsFirst`. A kill, a power cut and the end of the activity: each of these
  three faults alone breaks `LockedOnTime` (with `Duration = 4`): the next restoration
  opens a row that `lock()` did not end.
- `DispatchProofs`: `ExecutedIsTrue` (an outcome EXECUTED on the server means that
  the phone ran the command); `OverdueNeverRun`, if batches are not slow. `Inv` says
  what is in flight: a worker and a request that carry an execution are about a
  command that was run, and a batch holds created commands that are not overdue.
  `OnceHolds` (a command is run once) and `PromiseIsKept` (the queue implements
  `CommandPromise`, step by step) assume `Alone(w)`: one worker that is neither
  cancelled nor overtaken by its own late request. Two jobs really run a command
  twice (`ReplayHarmless` below "Not held"), so the hypothesis is the code's. `OnceInv`
  says where an execution may be: at the worker's program point (`PointsAgree`), in
  the row of the phone (`RowsAgree`), in the request on its way (`HandsAgree`).
- `OrdersOfTheEvening`, in `DispatchProofs` too. Each lock instant of a schedule gives each
  phone of the depot one order. The argument is `MissedIsRecent`: an instant of the
  window that has given no order was due, at a slot `u`, for the slots of the current
  outage at most, because a complete pass of slot `u` had to serve it (`CompleteServes`,
  from `PassesServe` on the depots and phones a pass leaves behind). An instant that
  leaves the window was due one more slot than an outage lasts, so it has its order.
  What a pass finds due is the first instant after the beginning of the window
  (`DueIsFirst`, from the operational day of an instant and of a lock, `DayOfInstant` and
  `LockInItsDay`; the window is no longer than a day, as the code's 10 minutes are). It
  needs `Spaced`: instants of a schedule further apart than the outage. Without it
  `LockOrdered` is false ("Not held"), which this proof brought out. The other half is
  the push: a token taken from the cache lives longer than the call that carries it
  (`TokensAgree`).
- `BackendProofs`: `StoredOnce`, `NothingUrgentLost`, `NumberedAfterAll`,
  `TransitionsInOrder`. What leaves the queue was acknowledged, and what is
  acknowledged was stored, or ignored for want of a depot (`AckedStored`, in `Inv`).
  That a new process numbers after every row needs a greatest number
  (`GreatestNumber`, by the well-founded order of finite subsets, since the sets of
  events are arbitrary) and that the counter covers what is on the phone
  (`CounterBounds`). The order of the transitions needs `OrderInv`: they become rows
  in the order of their numbers, and a request that carries one, of a device that has
  a depot, carries those before it that the server does not have (`SentInOrder`; only
  such a request writes a transition, `CommitsWithDepot`). It assumes that no
  statement of the server fails: a failed transition is skipped, and the next one of
  the batch is applied before it.

### The server

`ServerProofs`:

- `SessionsAgree`: one session in force for a phone and for a driver, a logout ordered
  for each session that expired, none before its end, whatever scans, ends, sweeps of
  the worker and reports overlap. `EndsAreKnown` says that what a handler carries from
  its read to its write is about rows that exist, and what is ordered about rows that
  are over.
- `CompaniesIsolated`: a request touches rows of the company of its bearer, for any
  number of requests and jobs at once. `ContextAgrees` ties the context of each request
  to its bearer between the guard and the last query, and says that a write by key
  follows a read that found the row of that company. The constants are assumed to name
  no company by the two marks of a row without one (`IsolationAssumption`).
- `RevokedNeverOpens`: a badge revoked before the scan reached the server opens
  nothing, for any number of scans, with one administrator (`Editors = {a}`): two of
  them give the badge back (`RevokedIsFinal`, "Not held"). `DeadStayRevoked` and
  `WritesAgree` say that what was found revoked stays so, because the status about to
  be written was read since.
- `GuessesBounded`: as long as Redis answers, a phone's refusals between two resets stay
  below the limit and the requests handled at once. The bound is not inductive:
  `GuessesCounted` accounts for each refusal, by a failure counted or a request still
  under way, which is a fact about cardinalities. Callers and codes are distinct names
  (`LimiterAssumption`).
- `OneCompanyByAccount`: an account is always given the same company, and a link that is
  cut takes its entries with it, for any number of requests, with one operator at a
  time (`Desks = {k}`). `AnswersAgree` (one company by account), `SlugsTried` (a slug
  passed is taken for ever, so the search ends) and `DecisionsAgree` (a decision is
  about the link it read) are what the several statements of a request carry.
- `AlertsTellTheTruth`: a pass of the monitor that no other overlaps leaves an alert for
  each silent phone and none for the others, whatever heartbeats and administrators do
  meanwhile. `PassesAgree` says, at each point of the loop, which phones it has dealt
  with, and that what it is about to close is of phones that are back; `BeatsAgree` ties
  a heartbeat under way to the battery it told of.
- `AccessKept`: a code opens one session, failures that do not overlap lock the
  account, a browser is signed out by its own pages only if their rotations overlap,
  and an administrator excluded before a request left is not served, for any number of
  requests, pages, codes and grants. That a session, once ended, stays so is not
  claimed: `LogoutIsFinal` is "Not held". At the door, `DoorsAgree`, `VouchersAgree`
  and `ChecksAgree` say what a request knows of the code between the read and the
  write that takes it, and that the failures counted are those answered or under way.
  In the browser, `GrantsAgree` and `RotationsAgree` follow a refresh token from the
  rotation to the cookie, `SessionStands` says that the jar's family is in force as
  long as nothing may have cost it, and `BarredStays` that a request which left after
  its administrator was excluded finds him excluded. That one grant is in force is
  said of the family in the jar: said of all families it is false, since rotations
  that overlap before a new login leave two in force in the family abandoned.

### The phone and what the server keeps for it

- `PhoneProofs`, `VersionToldTheTruth`: a phone that knows the version of the settings
  holds these settings, for any number of works that pull at once and wherever they were
  interrupted, unless one stored its settings over another's (`crossed`; without this
  hypothesis it is false: `VersionTold`, "Not held"). `PullAgrees` orders the versions
  of the phone, of each answer under way and of the row (`WorkAgrees`), and says that
  what a pull stored stays until it has stored the version.
- `PhoneProofs`, `SeenByConsent`: an image is captured and shown only for a share the
  driver agreed to, before its deadline, to the administrator who asked.
  `WritingsAgree` carries the agreement (`AgreedUntil`) through rows, answers and
  images on their way.
- `PhoneProofs`, `InstalledAsUploaded`: what the server shows as installed was
  installed, under the name its file declares, with one job on each phone
  (`Jobs = {j}`); with two, one reports the file the other has written
  (`NameIsOfTheFile`, "Not held"). `UploadsAgree` and `InstallsAgree` follow the file
  from the upload to the report.
- `IdentityProofs`, `IdentityKept`: a phone loses its tokens only after a cause the code
  knows, a label enrols once unless two enrolments overlap, and one credential of its
  family is in force while every rotation is answered. The longest argument here.
  `RotationsAgree` says that the interceptor's mutex lets one call rotate;
  `CredsAgree` and `FamiliesAgree` that what each request carries exists and which
  family it is about; `LatestIsLive` that the live credential of the phone's family is
  the one it holds or the one about to replace it; `KeptAgrees` that the tokens are
  accepted as long as nothing may have cost them. The property is about the phone's own
  family: said of all families it is false, because a rotation without an answer, begun
  before a new enrolment, leaves two credentials in force in the family abandoned.

- `BackendProofs`, `ToldTheTruth`: a critical alert was tried on every channel that
  accepts it unless its dispatch failed before the first one, a list that was read
  holds the alerts saved unless an event went unheard or passed during its first read,
  a panel that has joined is wired, the figures of the home page agree.
  `DispatchesAgree` says that what was tried and what is left are together what the
  alert must reach; `ReadsAgree`, that a read that no event crossed holds what is
  saved; `PanelsAgree`, that a panel is wired as soon as it has a socket;
  `CountsAgree`, that each answer is the count of now as long as no row changed since
  the page asked (`calm`).

### What is kept, and put into service

`OfficeProofs`, each part in its own invariant, joined by the theorems at the end:

- `KeptForTheCompany`. `Billing`: a phone that occupied a window is on its invoice, since
  a row that was enrolled says from when and until when (`EnrolmentsAgree`).
  `Retention`: a pass leaves no row past the term its company had when it was read.
  `PassAgrees` says, at each point of the pass, which rows it has dealt with and which
  companies are left; `HomesAgree`, that a partition holds the positions of its month.
  `DepotReturn`: the state of a session follows the transitions written for it, and a
  departure after the return is never silent. `HandlerAgrees` says that the transition
  in hand is the phone's, that an alert precedes its row and that the state that was
  read is still the session's; the last needs pushes that do not overlap
  (`~Overlap`, a hypothesis inside the invariant). `BackAfter` says what one row more
  does to `BackBefore`, the reference of both properties. `DepotPage`: a fence is that
  of the depot's row whichever pages save at once (`DraftAgrees`, on what the holder of
  the row has written). `LastPosition`: what settled is what is shown, if pushes do not
  run together (`~Together`), and a trace that was not cut is whole (`FirstOrAll`, on
  the first points of a finite set).
- `PutInService`. `Commissioning`: the labels of a sheet are those asked for, with tokens
  issued for their phones and no two alike (`Sown`, `Ongoing`), of a configuration that
  was accepted (`CheckedFirst`), by the tool and by the page at once. `OwnerByUsb`: the
  role of owner is asked of the phone that was examined, whatever is plugged meanwhile.
- `OfficeStepsHold`: dropping a partition erases no row before the term its company had
  when the pass read it, because a partition holds one month and all its rows are
  below the longest term; the refresh token a page holds after an answer is the newest,
  from `CookiesAgree` (an access token lives beside the refresh token not yet used, and
  a request that rotated holds it).

The proofs corrected two definitions: `SUBSET Tags \ {{}}` in `Commissioning!Fleets`,
which the parser and the prover read apart, has its parentheses; an `UNCHANGED` in
`OwnerByUsb!Handle` was in the scope of a quantifier over the other phones, and so said
nothing of a bench with one.

The lemmas follow one plan in each module: one for the type of what a step writes, one
for each conjunct and each group of steps that disturbs it (a `...Stays` or `...Step`),
and a last one that combines them; the theorem is `Starts`, `Stays` and PTL.

### Assumptions, and what stays with TLC

The constants are assumed what the modules name (`...Assumption`): bounds are natural
numbers, the sets that are counted are finite, marks such as `None` or `NoSession` are
not members of the sets they complete, threads and sessions are distinct. Each is
evaluated by TLC in a run.

Only model-checked:

- liveness and everything that needs `ENABLED`, which the prover does not do:
  `DivergenceResolved`, `ConfigurationDelivered`, `EverySettled`,
  `HealthyDelivered`, `AccountAlwaysServed`;
- `FileInv` (the file of a fleet): the reading of a text is a recursive function of its
  length, and what it returns for every text is an induction over data.

No module that is proved about declares a RECURSIVE operator, and no proof does an
induction over data: what the reading of a text returns (`FleetFile`) is checked over
bounded inputs.

## Plan

What is left, in the order of its worth:

1. The windows of `GeofenceEngine.kt`: samples inside, outside and unsure, with the
   hysteresis, compared with the decision it promises.
2. `PhoneSession` and `CommandQueue` composed with `ServerSessions`: a scheduled lock
   of twelve hours that closes the session of the next day, an offline session met by
   the first pull.

## Not modelled

Cryptography and key stores, certificate pinning and Android's own services (kiosk,
device policies, integrity, the package installer beyond its answer): they hold no
protocol of this code. Distances and the sample windows of the geofence engine: the
confirmed transition is the input. Time zones and their changes of hour, left to the
libraries: `DepotRules` computes in slots of one zone. The contents of labels, images,
messages and pages that only show. The audit log, appended after each operation and
read by its page only. Failures of the local database of the phone (storage full).
The hosting, the migrations and the seeds. `PROJECT.json` gives the reason for each
component.
