---------------------------- MODULE PhoneSession ----------------------------
(***************************************************************************)
(* The driver session on one phone.                                        *)
(*                                                                         *)
(* The phone keeps the session twice: in the memory of the process         *)
(* (SessionManager._context) and in a row of the local database.  A mutex  *)
(* protects the dispatch of an event and the restoration, nothing else:    *)
(* the threads that open, lock and reconcile the session interleave at     *)
(* every suspension point.  The threads are - Scans: coroutines of         *)
(* submitBarcode; - Alarm: LockAlarmReceiver; - Worker: LockCheckWorker; - *)
(* Syncs: SyncWorker jobs, which execute the server's lock commands and    *)
(* reconcile the session with the server's; - the geofence coordinator and *)
(* the restoration, which have a variable of their own.                    *)
(*                                                                         *)
(* Time is counted in quarters of an hour, the period of the workers.      *)
(*                                                                         *)
(* A definition commented "Mutant" is a plausible fault of the operator    *)
(* that follows it; it is used by no action.                               *)
(***************************************************************************)
EXTENDS Integers, DeviceStateMachine

CONSTANTS
    OnlineSessions,    \* identifiers the server gives to sessions
    OfflineSessions,   \* identifiers the phone draws for offline sessions
    Scans, Syncs,      \* threads
    Alarm, Worker,
    LockTimes,         \* the lock instants of the depot's schedule
    Duration,          \* maximal duration of a session
    CheckPeriod,       \* longest time between two runs of LockCheckWorker
    Window,            \* CHECK_WINDOW_SECONDS
    MaxTime,           \* bound of the clock
    DepotAtStart,      \* whether the phone starts with its depot: possible answers
    Faults             \* what the environment may do, a subset of AllFaults

Sessions == OnlineSessions \cup OfflineSessions
Lockers == Syncs \cup {Alarm, Worker}
Threads == Scans \cup Lockers
AllFaults == {"kill", "powerOff", "loseAlarm", "closeUI", "cancelSync"}
Never == -1            \* no instant

ASSUME SessionAssumption ==
    /\ NoSession \notin Sessions
    /\ OnlineSessions \cap OfflineSessions = {}

ASSUME ThreadAssumption ==
    /\ Alarm \notin Scans \cup Syncs \cup {Worker}
    /\ Worker \notin Scans \cup Syncs
    /\ Scans \cap Syncs = {}

ASSUME TimeAssumption ==
    /\ MaxTime \in Nat
    /\ LockTimes \subseteq 0..MaxTime
    /\ Duration \in Nat \ {0}
    /\ CheckPeriod \in Nat \ {0}
    /\ Window \in Nat

ASSUME FaultAssumption == Faults \subseteq AllFaults

ASSUME DepotAssumption == DepotAtStart \subseteq BOOLEAN

VARIABLES
    now,         \* the clock
    power,       \* the phone is switched on
    up,          \* the process of the application runs
    ui,          \* MainViewModel exists: it collects the effects
    ctx,         \* SessionManager._context
    db,          \* row of each session: absent, open (endedAt null) or ended
    dbState,     \* state column of each row
    dbReturned,  \* returnedAt column of each row is set
    logged,      \* offline sessions whose BARCODE_SCAN event is in the queue
    start,       \* instant each session was granted
    alarm,       \* instant of the pending exact alarm
    lastCheck,   \* last run of LockCheckWorker
    pc,          \* where each thread is
    sid,         \* session a scan was granted
    seen,        \* server session a sync received
    expired,     \* LockCheckWorker found the session it captured expired
    second,      \* LockCheckWorker has done its first test
    restorer,    \* who is in restore(), which holds the mutex
    stored,      \* row the restoration read
    decision,    \* decision the geofence coordinator has still to dispatch
    tracking,    \* LocationTrackingService runs
    srv,         \* the server's active session of this device
    hasDepot     \* the local database has a depot

env == <<now, power, alarm, lastCheck, up, ui>>
rows == <<db, dbState, dbReturned, logged>>
grants == <<sid, start>>
check == <<expired, second>>
restore == <<restorer, stored>>
vars == <<now, power, up, ui, ctx, db, dbState, dbReturned, logged, start,
          alarm, lastCheck, pc, sid, seen, expired, second,
          restorer, stored, decision, tracking, srv,
          hasDepot>>

-----------------------------------------------------------------------------
(* Values *)

ServerSession == [sid : OnlineSessions \cup {NoSession},
                  state : Usable, returned : BOOLEAN]
Decision == [pending : BOOLEAN, next : Usable, mark : BOOLEAN]
Context == [state : DeviceState, sid : Sessions \cup {NoSession},
            returned : BOOLEAN]

NoServerSession == [sid |-> NoSession, state |-> "ACTIVE", returned |-> FALSE]
NoDecision == [pending |-> FALSE, next |-> "ACTIVE", mark |-> FALSE]

\* The four points of SessionManager.lock, and where its caller resumes.
LockPoints == {"enter", "end", "request", "apply", "after"}
ScanPoints == {"asking", "answered", "offline", "granted", "denied",
               "cleared", "stored", "declared"}
SyncPoints == {"response", "row", "memory"}

TypeOK ==
    /\ now \in 0..MaxTime
    /\ power \in BOOLEAN /\ up \in BOOLEAN /\ ui \in BOOLEAN
    /\ ctx \in Context
    /\ db \in [Sessions -> {"absent", "open", "ended"}]
    /\ dbState \in [Sessions -> Usable]
    /\ dbReturned \in [Sessions -> BOOLEAN]
    /\ logged \subseteq Sessions
    /\ start \in [Sessions -> {Never} \cup 0..MaxTime]
    /\ alarm \in {Never} \cup 0..MaxTime
    /\ lastCheck \in 0..MaxTime
    /\ pc \in [Threads -> {"idle"} \cup LockPoints \cup ScanPoints \cup SyncPoints]
    /\ sid \in [Scans -> Sessions \cup {NoSession}]
    /\ seen \in [Syncs -> ServerSession]
    /\ expired \in BOOLEAN /\ second \in BOOLEAN
    /\ restorer \in {"nobody", "ui", "boot"}
    /\ stored \in Sessions \cup {NoSession}
    /\ decision \in Decision
    /\ tracking \in BOOLEAN
    /\ srv \in ServerSession
    /\ hasDepot \in BOOLEAN

Init ==
    /\ now = 0
    /\ power = TRUE /\ up = FALSE /\ ui = FALSE
    /\ ctx = LockedContext
    /\ db = [s \in Sessions |-> "absent"]
    /\ dbState = [s \in Sessions |-> "ACTIVE"]
    /\ dbReturned = [s \in Sessions |-> FALSE]
    /\ logged = {}
    /\ start = [s \in Sessions |-> Never]
    /\ alarm = Never
    /\ lastCheck = 0
    /\ pc = [t \in Threads |-> "idle"]
    /\ sid = [s \in Scans |-> NoSession]
    /\ seen = [y \in Syncs |-> NoServerSession]
    /\ expired = FALSE /\ second = FALSE
    /\ restorer = "nobody"
    /\ stored = NoSession
    /\ decision = NoDecision
    /\ tracking = FALSE
    /\ srv = NoServerSession
    /\ hasDepot \in DepotAtStart

-----------------------------------------------------------------------------
(* Shared pieces *)

Goto(t, point) == pc' = [pc EXCEPT ![t] = point]
At(t, point) == up /\ pc[t] = point

\* dispatch and restore exclude one another.
MutexFree == restorer = "nobody"

\* LockAlarmReceiver and BootReceiver run in runBlocking on the main thread;
\* the scans, the geofence and a restoration by the interface resume on it.
MainFree == pc[Alarm] = "idle" /\ restorer # "boot"
OnMain(s, point) == At(s, point) /\ MainFree

\* sessions.endAll: every row that is still open is ended.
EndAll == db' = [s \in Sessions |-> IF db[s] = "open" THEN "ended" ELSE db[s]]

\* An effect reaches LocationTrackingService only through a living
\* MainViewModel: the flow of effects has no replay.
StartTracking == tracking' = (tracking \/ ui)
StopTracking == tracking' = (tracking /\ ~ui)

Expiry(s) == start[s] + Duration

\* nextLockInstant: the first lock instant strictly after an instant.
NextLock(from) ==
    IF \E t \in LockTimes : t > from
    THEN CHOOSE t \in LockTimes :
            t > from /\ \A u \in LockTimes : u > from => t <= u
    ELSE Never

\* LockScheduler.schedule: without a depot nothing is planned, nothing cancelled.
Schedule == alarm' = IF hasDepot THEN NextLock(now) ELSE alarm

-----------------------------------------------------------------------------
(* Scanning a badge *)

RequestScan ==
    /\ ui /\ MainFree /\ MutexFree /\ ctx.state = "LOCKED"
    /\ ctx' = ScanRequested(ctx)
    /\ UNCHANGED <<env, rows, pc, grants, seen, check, restore, decision,
                   tracking, srv, hasDepot>>

CancelScan ==
    /\ ui /\ MainFree /\ MutexFree /\ ctx.state = "SCANNING"
    /\ ctx' = ScanCancelled(ctx)
    /\ UNCHANGED <<env, rows, pc, grants, seen, check, restore, decision,
                   tracking, srv, hasDepot>>

\* submitBarcode up to the request.  The camera still delivers a second code
\* until the screen has rendered AUTHENTICATING.
SubmitBarcode(s) ==
    /\ ui /\ MainFree /\ MutexFree /\ pc[s] = "idle"
    /\ ctx.state \in {"SCANNING", "AUTHENTICATING"}
    /\ ctx' = BarcodeCaptured(ctx)
    /\ Goto(s, "asking")
    /\ UNCHANGED <<env, rows, grants, seen, check, restore, decision, tracking,
                   srv, hasDepot>>

\* Mutant: the server answers with a session it has already given.
ServerGrantsReplayed(s, new) ==
    /\ At(s, "asking")
    /\ start' = [start EXCEPT ![new] = now]
    /\ sid' = [sid EXCEPT ![s] = new]
    /\ srv' = [sid |-> new, state |-> "ACTIVE", returned |-> FALSE]
    /\ Goto(s, "answered")
    /\ UNCHANGED <<env, ctx, rows, seen, check, restore, decision, tracking,
                   hasDepot>>

\* The server accepts the badge: it ends the device's session and opens one.
ServerGrants(s, new) ==
    /\ At(s, "asking")
    /\ start[new] = Never
    /\ start' = [start EXCEPT ![new] = now]
    /\ sid' = [sid EXCEPT ![s] = new]
    /\ srv' = [sid |-> new, state |-> "ACTIVE", returned |-> FALSE]
    /\ Goto(s, "answered")
    /\ UNCHANGED <<env, ctx, rows, seen, check, restore, decision, tracking,
                   hasDepot>>

\* A refusal of the server, an empty answer, a device that is not enrolled, or
\* a refusal of the local list.
Refuse(s) ==
    /\ OnMain(s, "asking") \/ OnMain(s, "answered") \/ OnMain(s, "offline")
    /\ Goto(s, "denied")
    /\ UNCHANGED <<env, ctx, rows, grants, seen, check, restore, decision,
                   tracking, srv, hasDepot>>

ScanDone(s) ==
    /\ Goto(s, "idle")
    /\ sid' = [sid EXCEPT ![s] = NoSession]

DispatchDenied(s) ==
    /\ OnMain(s, "denied") /\ MutexFree
    /\ ctx' = AccessDenied(ctx)
    /\ ScanDone(s)
    /\ UNCHANGED <<env, rows, start, seen, check, restore, decision, tracking,
                   srv, hasDepot>>

\* No successful answer: the request or its answer was lost, or the server
\* answered with an error status.
FallBackOffline(s) ==
    /\ OnMain(s, "asking") \/ OnMain(s, "answered")
    /\ Goto(s, "offline")
    /\ UNCHANGED <<env, ctx, rows, grants, seen, check, restore, decision,
                   tracking, srv, hasDepot>>

\* The local list accepts the badge: a session with an identifier of its own.
OfflineGrants(s, new) ==
    /\ OnMain(s, "offline")
    /\ start[new] = Never
    /\ start' = [start EXCEPT ![new] = now]
    /\ sid' = [sid EXCEPT ![s] = new]
    /\ Goto(s, "granted")
    /\ UNCHANGED <<env, ctx, rows, seen, check, restore, decision, tracking,
                   srv, hasDepot>>

\* Mutant: persistSession forgets its upsert.
ClearRowsOnly(s) ==
    /\ OnMain(s, "answered") \/ OnMain(s, "granted")
    /\ EndAll
    /\ Goto(s, "declared")
    /\ UNCHANGED <<env, ctx, dbState, dbReturned, logged, grants, seen, check,
                   restore, decision, tracking, srv, hasDepot>>

\* persistSession, first statement: endAll("NEW_SESSION").
ClearRows(s) ==
    /\ OnMain(s, "answered") \/ OnMain(s, "granted")
    /\ EndAll
    /\ Goto(s, "cleared")
    /\ UNCHANGED <<env, ctx, dbState, dbReturned, logged, grants, seen, check,
                   restore, decision, tracking, srv, hasDepot>>

\* persistSession, second statement: upsert, which replaces the whole row.
StoreRow(s) ==
    /\ OnMain(s, "cleared")
    /\ db' = [db EXCEPT ![sid[s]] = "open"]
    /\ dbState' = [dbState EXCEPT ![sid[s]] = "ACTIVE"]
    /\ dbReturned' = [dbReturned EXCEPT ![sid[s]] = FALSE]
    /\ Goto(s, IF sid[s] \in OfflineSessions THEN "stored" ELSE "declared")
    /\ UNCHANGED <<env, ctx, logged, grants, seen, check, restore, decision,
                   tracking, srv, hasDepot>>

\* recordOfflineScan.
DeclareOfflineScan(s) ==
    /\ OnMain(s, "stored")
    /\ logged' = logged \cup {sid[s]}
    /\ Goto(s, "declared")
    /\ UNCHANGED <<env, ctx, db, dbState, dbReturned, grants, seen, check,
                   restore, decision, tracking, srv, hasDepot>>

DispatchGranted(s) ==
    /\ OnMain(s, "declared") /\ MutexFree
    /\ ctx' = AccessGranted(ctx, sid[s])
    /\ StartTracking
    \* The ExitKiosk effect makes MainViewModel plan the alarm again.
    /\ IF ui THEN Schedule ELSE UNCHANGED alarm
    /\ ScanDone(s)
    /\ UNCHANGED <<now, power, lastCheck, up, ui, rows, start, seen, check,
                   restore, decision, srv, hasDepot>>

-----------------------------------------------------------------------------
(* SessionManager.lock, called by the alarm, the worker and the syncs *)

LockEnter(t) ==
    /\ At(t, "enter")
    /\ Goto(t, IF ctx.state = "LOCKED" THEN "after" ELSE "end")
    /\ UNCHANGED <<env, ctx, rows, grants, seen, check, restore, decision,
                   tracking, srv, hasDepot>>

LockEnd(t) ==
    /\ At(t, "end")
    /\ EndAll
    /\ Goto(t, "request")
    /\ UNCHANGED <<env, ctx, dbState, dbReturned, logged, grants, seen, check,
                   restore, decision, tracking, srv, hasDepot>>

LockRequest(t) ==
    /\ At(t, "request") /\ MutexFree
    /\ ctx' = LockRequested(ctx)
    /\ IF ctx.state = "LOCKED" THEN UNCHANGED tracking ELSE StopTracking
    /\ Goto(t, "apply")
    /\ UNCHANGED <<env, rows, grants, seen, check, restore, decision, srv,
                   hasDepot>>

LockApply(t) ==
    /\ At(t, "apply") /\ MutexFree
    /\ ctx' = LockApplied(ctx)
    /\ Goto(t, "after")
    /\ UNCHANGED <<env, rows, grants, seen, check, restore, decision, tracking,
                   srv, hasDepot>>

-----------------------------------------------------------------------------
(* LockScheduler.kt: the alarm and the periodic check *)

\* The system delivers the alarm and starts the process if it has to.
AlarmFires ==
    /\ power /\ MainFree
    /\ alarm # Never /\ alarm <= now
    /\ alarm' = Never
    /\ up' = TRUE
    /\ Goto(Alarm, "enter")
    /\ UNCHANGED <<now, power, lastCheck, ui, ctx, rows, grants, seen, check,
                   restore, decision, tracking, srv, hasDepot>>

AlarmReschedules ==
    /\ At(Alarm, "after")
    /\ Schedule
    /\ Goto(Alarm, "idle")
    /\ UNCHANGED <<now, power, lastCheck, up, ui, ctx, rows, grants, seen,
                   check, restore, decision, tracking, srv, hasDepot>>

\* Mutant: no catch-up window.
LockMissedNow == LET due == NextLock(now) IN due # Never /\ due <= now

\* A lock instant in the catch-up window (now - Window, now].
LockMissed == LET due == NextLock(now - Window)
              IN  due # Never /\ due <= now

\* LockCheckWorker.doWork up to its first call of lock.  Without a depot, or
\* without a session in memory, it returns at once.
CheckStarts ==
    /\ power /\ pc[Worker] = "idle" /\ now > lastCheck
    /\ lastCheck' = now
    /\ up' = TRUE
    /\ IF ~hasDepot \/ ctx.sid = NoSession
       THEN UNCHANGED <<pc, expired, second>>
       ELSE /\ expired' = (Expiry(ctx.sid) < now)
            /\ second' = ~LockMissed
            /\ Goto(Worker, IF LockMissed THEN "enter" ELSE "after")
    /\ UNCHANGED <<now, power, alarm, ui, ctx, rows, grants, seen, restore,
                   decision, tracking, srv, hasDepot>>

\* Mutant: the expiry of the session is not looked at.
CheckExpiryNever ==
    /\ At(Worker, "after") /\ (~second \/ expired)
    /\ second' = TRUE
    /\ expired' = FALSE
    /\ Goto(Worker, "after")
    /\ UNCHANGED <<env, ctx, rows, grants, seen, restore, decision, tracking,
                   srv, hasDepot>>

\* Its second test uses the session it captured at the beginning.
CheckExpiry ==
    /\ At(Worker, "after") /\ (~second \/ expired)
    /\ second' = TRUE
    /\ expired' = FALSE
    /\ Goto(Worker, IF expired THEN "enter" ELSE "after")
    /\ UNCHANGED <<env, ctx, rows, grants, seen, restore, decision, tracking,
                   srv, hasDepot>>

CheckReschedules ==
    /\ At(Worker, "after") /\ second /\ ~expired
    /\ Schedule
    /\ Goto(Worker, "idle")
    /\ UNCHANGED <<now, power, lastCheck, up, ui, ctx, rows, grants, seen,
                   check, restore, decision, tracking, srv, hasDepot>>

-----------------------------------------------------------------------------
(* Synchronisation: a lock command, or the reconciliation after a pull *)

\* executeCommands finds LOCK_DEVICE, FORCE_LOGOUT or REVOKE_SESSION.
CommandLocks(y) ==
    /\ power /\ pc[y] = "idle"
    /\ up' = TRUE
    /\ Goto(y, "enter")
    /\ UNCHANGED <<now, power, alarm, lastCheck, ui, ctx, rows, grants, seen,
                   check, restore, decision, tracking, srv, hasDepot>>

\* The server answers a pull with the session it sees at that moment.
PullAnswered(y) ==
    /\ power /\ pc[y] = "idle"
    /\ up' = TRUE
    /\ seen' = [seen EXCEPT ![y] = srv]
    /\ Goto(y, "response")
    /\ UNCHANGED <<now, power, alarm, lastCheck, ui, ctx, rows, grants, check,
                   restore, decision, tracking, srv, hasDepot>>

SyncDone(y) ==
    /\ Goto(y, "idle")
    /\ seen' = [seen EXCEPT ![y] = NoServerSession]

\* The answer is lost.
PullLost(y) ==
    /\ At(y, "response")
    /\ SyncDone(y)
    /\ UNCHANGED <<env, ctx, rows, grants, check, restore, decision, tracking,
                   srv, hasDepot>>

\* The answer brings the depot, which the phone stores before it reconciles.
DepotStored(y) ==
    /\ At(y, "response") /\ ~hasDepot
    /\ hasDepot' = TRUE
    /\ UNCHANGED <<env, ctx, rows, pc, grants, seen, check, restore, decision,
                   tracking, srv>>

\* Mutant: a server without a session is nothing to reconcile with.
ReconcileNothingTolerant(y) ==
    /\ At(y, "response") /\ NoSession \in {ctx.sid, seen[y].sid}
    /\ SyncDone(y)
    /\ UNCHANGED <<env, ctx, rows, grants, check, restore, decision, tracking,
                   srv, hasDepot>>

\* reconcile reads the session in memory, outside the mutex: no session,
ReconcileNothing(y) ==
    /\ At(y, "response") /\ ctx.sid = NoSession
    /\ SyncDone(y)
    /\ UNCHANGED <<env, ctx, rows, grants, check, restore, decision, tracking,
                   srv, hasDepot>>

\* another one than the server's, or none on the server: lock(REVOKED),
ReconcileDiverges(y) ==
    /\ At(y, "response") /\ ctx.sid \notin {NoSession, seen[y].sid}
    /\ Goto(y, "enter")
    /\ UNCHANGED <<env, ctx, rows, grants, seen, check, restore, decision,
                   tracking, srv, hasDepot>>

\* the same: the state the server sent is going to be applied.
ReconcileMatches(y) ==
    /\ At(y, "response") /\ ctx.sid # NoSession /\ ctx.sid = seen[y].sid
    /\ Goto(y, "row")
    /\ UNCHANGED <<env, ctx, rows, grants, seen, check, restore, decision,
                   tracking, srv, hasDepot>>

\* Mutant: the row is upserted instead of updated.
ReconcileRowUpserts(y) ==
    /\ At(y, "row")
    /\ db' = [db EXCEPT ![seen[y].sid] = "open"]
    /\ dbState' = [dbState EXCEPT ![seen[y].sid] = seen[y].state]
    /\ dbReturned' = [dbReturned EXCEPT ![seen[y].sid] = seen[y].returned]
    /\ Goto(y, "memory")
    /\ UNCHANGED <<env, ctx, logged, grants, seen, check, restore, decision,
                   tracking, srv, hasDepot>>

\* sessions.updateState: state and returnedAt, whether the row is ended or not.
ReconcileRow(y) ==
    /\ At(y, "row")
    /\ dbState' = [dbState EXCEPT ![seen[y].sid] = seen[y].state]
    /\ dbReturned' = [dbReturned EXCEPT ![seen[y].sid] = seen[y].returned]
    /\ Goto(y, "memory")
    /\ UNCHANGED <<env, ctx, db, logged, grants, seen, check, restore,
                   decision, tracking, srv, hasDepot>>

\* The context is overwritten, outside the mutex, with the session that was
\* read before the suspension.
ReconcileMemory(y) ==
    /\ At(y, "memory")
    /\ ctx' = [state |-> seen[y].state, sid |-> seen[y].sid,
               returned |-> seen[y].returned]
    /\ SyncDone(y)
    /\ UNCHANGED <<env, rows, grants, check, restore, decision, tracking, srv,
                   hasDepot>>

SyncEnds(y) ==
    /\ At(y, "after")
    /\ SyncDone(y)
    /\ UNCHANGED <<env, ctx, rows, grants, check, restore, decision, tracking,
                   srv, hasDepot>>

\* syncNow replaces the running job: it is cancelled where it is suspended,
\* in the middle of lock() too.  EnterKiosk, an effect of lock(), calls syncNow.
SyncCancelled(y) ==
    /\ "cancelSync" \in Faults /\ up /\ pc[y] # "idle"
    /\ SyncDone(y)
    /\ UNCHANGED <<env, ctx, rows, grants, check, restore, decision, tracking,
                   srv, hasDepot>>

-----------------------------------------------------------------------------
(* Geofence transitions.  The coordinator decides from the session's         *)
(* returnedAt, records the event, then dispatches.                           *)

Decisions ==
    {[pending |-> TRUE, next |-> IF ctx.returned THEN "RETURNED" ELSE "ACTIVE",
      mark |-> FALSE],                               \* entry before return time
     [pending |-> TRUE, next |-> "RETURNED", mark |-> ~ctx.returned],  \* after
     [pending |-> TRUE, next |-> "ACTIVE", mark |-> FALSE]}            \* exit

GeofenceDecides ==
    /\ up /\ MainFree /\ hasDepot /\ tracking /\ ~decision.pending
    /\ decision' \in Decisions
    /\ UNCHANGED <<env, ctx, rows, pc, grants, seen, check, restore, tracking,
                   srv, hasDepot>>

GeofenceDispatches ==
    /\ up /\ MainFree /\ MutexFree /\ decision.pending
    /\ ctx' = GeofenceConfirmed(ctx, decision.next, decision.mark)
    /\ decision' = NoDecision
    /\ UNCHANGED <<env, rows, pc, grants, seen, check, restore, tracking, srv,
                   hasDepot>>

-----------------------------------------------------------------------------
(* Process life: start, restoration, death *)

\* SessionDao.current: the open row with the latest start.
CurrentRow ==
    {s \in Sessions : /\ db[s] = "open"
                      /\ \A r \in Sessions : db[r] = "open" => start[r] <= start[s]}

\* restore() has the mutex and reads the row.
RestoreReads(who) ==
    /\ restorer' = who
    /\ IF CurrentRow = {} THEN stored' = NoSession
                          ELSE stored' \in CurrentRow

\* MainViewModel is created: it collects the effects and restores.
OpenUI ==
    /\ power /\ ~ui /\ MainFree
    /\ up' = TRUE
    /\ ui' = TRUE
    /\ MutexFree
    /\ RestoreReads("ui")
    /\ UNCHANGED <<now, power, alarm, lastCheck, ctx, rows, pc, grants, seen,
                   check, decision, tracking, srv, hasDepot>>

\* The phone is switched on: BootReceiver restores.
Boot ==
    /\ ~power
    /\ power' = TRUE
    /\ up' = TRUE
    /\ lastCheck' = now
    /\ RestoreReads("boot")
    /\ UNCHANGED <<now, alarm, ui, ctx, rows, pc, grants, seen, check,
                   decision, tracking, srv, hasDepot>>

\* The rest of restore(), then schedule().
RestoreApplies ==
    /\ up /\ ~MutexFree
    /\ restorer = "ui" => MainFree
    /\ IF stored = NoSession
       THEN /\ ctx' = LockedContext
            /\ UNCHANGED <<db, tracking>>
       ELSE IF Expiry(stored) <= now
       THEN /\ ctx' = LockedContext
            /\ EndAll
            /\ UNCHANGED tracking
       ELSE /\ ctx' = [state |-> dbState[stored], sid |-> stored,
                       returned |-> dbReturned[stored]]
            /\ StartTracking
            /\ UNCHANGED db
    /\ restorer' = "nobody"
    /\ stored' = NoSession
    /\ Schedule
    /\ UNCHANGED <<now, power, lastCheck, up, ui, dbState, dbReturned, logged,
                   pc, grants, seen, check, decision, srv, hasDepot>>

\* Memory and coroutines disappear with the process.
ProcessEnds ==
    /\ up' = FALSE
    /\ ui' = FALSE
    /\ ctx' = LockedContext
    /\ pc' = [t \in Threads |-> "idle"]
    /\ restorer' = "nobody"
    /\ stored' = NoSession
    /\ decision' = NoDecision
    /\ expired' = FALSE /\ second' = FALSE
    /\ sid' = [s \in Scans |-> NoSession]
    /\ seen' = [y \in Syncs |-> NoServerSession]
    /\ UNCHANGED <<now, lastCheck, rows, start, srv, hasDepot>>

\* Android kills the process.  The location service is START_STICKY: the
\* system starts it again.
Kill ==
    /\ "kill" \in Faults /\ up
    /\ ProcessEnds
    /\ UNCHANGED <<power, alarm, tracking>>

\* Switching off also forgets the alarm and the service.
PowerOff ==
    /\ "powerOff" \in Faults /\ power
    /\ ProcessEnds
    /\ power' = FALSE
    /\ alarm' = Never
    /\ tracking' = FALSE

\* The sticky service comes back in a fresh process.
ServiceRestarts ==
    /\ power /\ ~up /\ tracking
    /\ up' = TRUE
    /\ UNCHANGED <<now, power, alarm, lastCheck, ui, ctx, rows, pc, grants,
                   seen, check, restore, decision, tracking, srv, hasDepot>>

\* The activity is destroyed while the process lives: viewModelScope is
\* cancelled, and with it the scans and a restoration begun there.
CloseUI ==
    /\ "closeUI" \in Faults /\ ui /\ MainFree
    /\ ui' = FALSE
    /\ pc' = [t \in Threads |-> IF t \in Scans THEN "idle" ELSE pc[t]]
    /\ sid' = [s \in Scans |-> NoSession]
    /\ IF restorer = "ui" THEN restorer' = "nobody" /\ stored' = NoSession
                          ELSE UNCHANGED restore
    /\ UNCHANGED <<now, power, alarm, lastCheck, up, ctx, rows, start, seen,
                   check, decision, tracking, srv, hasDepot>>

\* A vendor's battery manager drops the alarm.
LoseAlarm ==
    /\ "loseAlarm" \in Faults /\ alarm # Never
    /\ alarm' = Never
    /\ UNCHANGED <<now, power, lastCheck, up, ui, ctx, rows, pc, grants, seen,
                   check, restore, decision, tracking, srv, hasDepot>>

-----------------------------------------------------------------------------
(* The server's session: other ends than a new login, and the returns it     *)
(* decides from the geofence events it received.                             *)

ServerEnds ==
    /\ srv.sid # NoSession
    /\ srv' = NoServerSession
    /\ UNCHANGED <<env, ctx, rows, pc, grants, seen, check, restore, decision,
                   tracking, hasDepot>>

ServerReturns(state, returned) ==
    /\ srv.sid # NoSession
    /\ srv.returned => returned
    /\ state = "RETURNED" => returned
    /\ srv' = [srv EXCEPT !.state = state, !.returned = returned]
    /\ UNCHANGED <<env, ctx, rows, pc, grants, seen, check, restore, decision,
                   tracking, hasDepot>>

-----------------------------------------------------------------------------
(* Time.  A step of a thread takes far less than a quarter of an hour; a      *)
(* request or its answer may straddle the boundary of two quarters.           *)

Settled(t) == \/ pc[t] \in {"idle", "asking", "response"}
              \/ pc[t] = "answered" /\ start[sid[t]] = now

\* The exact alarm fires at its instant and LockCheckWorker runs once per
\* CheckPeriod while the phone is on.
Tick ==
    /\ now < MaxTime
    /\ \A t \in Threads : Settled(t)
    /\ MutexFree /\ ~decision.pending
    /\ power => /\ alarm = Never \/ now < alarm
                /\ now + 1 - lastCheck <= CheckPeriod
    /\ now' = now + 1
    /\ UNCHANGED <<power, alarm, lastCheck, up, ui, ctx, rows, pc, grants,
                   seen, check, restore, decision, tracking, srv, hasDepot>>

-----------------------------------------------------------------------------

ScanStep(s) ==
    \/ SubmitBarcode(s)
    \/ \E new \in OnlineSessions : ServerGrants(s, new)
    \/ \E new \in OfflineSessions : OfflineGrants(s, new)
    \/ Refuse(s) \/ DispatchDenied(s) \/ FallBackOffline(s)
    \/ ClearRows(s) \/ StoreRow(s) \/ DeclareOfflineScan(s)
    \/ DispatchGranted(s)

LockStep(t) == LockEnter(t) \/ LockEnd(t) \/ LockRequest(t) \/ LockApply(t)

SyncStep(y) ==
    \/ CommandLocks(y) \/ PullAnswered(y) \/ PullLost(y) \/ DepotStored(y)
    \/ ReconcileNothing(y) \/ ReconcileDiverges(y) \/ ReconcileMatches(y)
    \/ ReconcileRow(y) \/ ReconcileMemory(y)
    \/ SyncEnds(y) \/ SyncCancelled(y)

CheckStep == CheckStarts \/ CheckExpiry \/ CheckReschedules

ProcessStep ==
    \/ OpenUI \/ Boot \/ RestoreApplies \/ ServiceRestarts
    \/ Kill \/ PowerOff \/ CloseUI \/ LoseAlarm

Next ==
    \/ RequestScan \/ CancelScan
    \/ \E s \in Scans : ScanStep(s)
    \/ \E t \in Lockers : LockStep(t)
    \/ AlarmFires \/ AlarmReschedules \/ CheckStep
    \/ \E y \in Syncs : SyncStep(y)
    \/ GeofenceDecides \/ GeofenceDispatches
    \/ ProcessStep
    \/ ServerEnds
    \/ \E state \in Usable, returned \in BOOLEAN : ServerReturns(state, returned)
    \/ Tick

Spec == Init /\ [][Next]_vars

-----------------------------------------------------------------------------
(* Properties *)

\* The phone is usable only with a session in memory: whatever the threads
\* that write the context do, the kiosk never opens for nobody.
UsableHasSession == ctx.state \in Usable => ctx.sid # NoSession

\* The session in memory was first written to the database: a restart knows
\* every session that ever opened the phone.
SessionWasStored == ctx.sid # NoSession => db[ctx.sid] # "absent"

EndedRowsKept == \A s \in Sessions : db[s] = "ended" => db'[s] = "ended"

\* A row that was ended is never opened again, although upsert replaces rows
\* and updateState does not look at endedAt.
EndedStaysEnded == [][EndedRowsKept]_vars

\* A scan that has still to store its row holds an identifier that no other
\* scan and no row has.
GrantsAreFresh ==
    /\ \A x \in Sessions : start[x] = Never =>
           db[x] = "absent" /\ \A s \in Scans : sid[s] # x
    /\ \A r, s \in Scans : sid[r] = sid[s] /\ sid[r] # NoSession => r = s
    /\ \A s \in Scans :
           pc[s] \in {"answered", "granted", "cleared"} => sid[s] # NoSession
    /\ \A s \in Scans :
           sid[s] # NoSession /\ pc[s] \notin {"stored", "declared"}
           => db[sid[s]] = "absent"

\* Whatever is on its way to the memory has a row.
ComingIsStored ==
    /\ \A s \in Scans : pc[s] \in {"stored", "declared"} =>
           sid[s] # NoSession /\ db[sid[s]] # "absent"
    /\ \A y \in Syncs : pc[y] \in {"row", "memory"} =>
           seen[y].sid # NoSession /\ db[seen[y].sid] # "absent"
    /\ stored # NoSession => db[stored] # "absent"

\* The inductive invariant: the identifiers that scans, reconciliations and a
\* restoration carry across their suspensions stay those of stored rows.
Inv == /\ TypeOK
       /\ GrantsAreFresh /\ ComingIsStored
       /\ UsableHasSession /\ SessionWasStored

\* With a depot stored, a session granted before a lock instant does not leave
\* the phone usable longer than one period of LockCheckWorker after that
\* instant, even when the alarm is lost or races with the answer to a scan.
LockedInTime ==
    hasDepot /\ ctx.state \in Usable =>
        \A t \in LockTimes : start[ctx.sid] < t => now <= t + CheckPeriod

\* Of a session past its expiry, LockCheckWorker leaves the phone usable one
\* period at most.  It looks at the expiry only where a depot is stored.
UsableInTime == ctx.state \in Usable => now <= Expiry(ctx.sid) + CheckPeriod
ExpiredInTime == hasDepot => UsableInTime

\* Without a process nothing runs; without the interface, or while a restoration has the
\* mutex, no scan goes on.
LifeAgrees ==
    /\ (ui => up) /\ (up => power)
    /\ ~up => /\ ctx = LockedContext /\ restorer = "nobody" /\ ~decision.pending
              /\ \A t \in Threads : pc[t] = "idle"
    /\ ~ui \/ restorer # "nobody" => \A s \in Scans : pc[s] = "idle"

\* A session granted is stored and dispatched within the quarter or the next.
GrantsInTime ==
    \A s \in Scans : pc[s] \in {"answered", "granted", "cleared", "stored", "declared"} =>
        now <= start[sid[s]] + 1

\* The worker has run within its period.
CheckedInTime ==
    /\ pc[Worker] \in {"idle"} \cup LockPoints
    /\ lastCheck <= now /\ (power => now <= lastCheck + CheckPeriod)

ProcessAgrees == LifeAgrees /\ GrantsInTime /\ CheckedInTime

\* With one scan at a time and no pull: a session is in memory in a usable or a locking
\* phone only, and while no scan goes on.
OneHolder ==
    ctx.sid # NoSession =>
        ctx.state \in Usable \cup {"LOCKING"} /\ \A s \in Scans : pc[s] = "idle"

WorkerLocks == pc[Worker] \in {"enter", "end", "request", "apply"}

\* Where a depot is stored, the worker last ran before the session expired, or is
\* about to lock.
ExpiryWatched ==
    hasDepot /\ ctx.sid # NoSession =>
        /\ now <= Expiry(ctx.sid) + CheckPeriod
        /\ \/ lastCheck <= Expiry(ctx.sid) \/ WorkerLocks
           \/ pc[Worker] = "after" /\ expired

\* Where a depot is stored, the worker last ran before each lock instant that follows
\* the grant, or is locking.
LocksWatched ==
    hasDepot /\ ctx.sid # NoSession =>
        \A t \in LockTimes : start[ctx.sid] < t =>
            now <= t + CheckPeriod /\ (lastCheck <= t \/ WorkerLocks)

\* As long as the process and the interface live, no restoration finds a row.
NothingRestored ==
    /\ power /\ stored = NoSession
    /\ ~ui => \A x \in Sessions : db[x] = "absent"

\* On a phone with its depot, a session ends with its duration, whatever dies or
\* restarts; before the night, when nothing dies.
ExpiryInv == ProcessAgrees /\ OneHolder /\ ExpiryWatched /\ ExpiredInTime
ScheduleInv == ProcessAgrees /\ OneHolder /\ NothingRestored /\ LocksWatched /\ LockedInTime

\* A usable phone whose session is not the server's gets locked, or the two
\* sessions agree again.
Diverges == ctx.state \in Usable /\ srv.sid # ctx.sid
DivergenceResolved == Diverges ~> ~Diverges

\* Threads that have begun go on; a pull does not lose its answer for ever.
ThreadFairness ==
    /\ \A s \in Scans : WF_vars(ClearRows(s) \/ StoreRow(s)
                                \/ DeclareOfflineScan(s) \/ DispatchGranted(s)
                                \/ DispatchDenied(s))
    /\ \A t \in Lockers : WF_vars(LockStep(t))
    /\ WF_vars(AlarmReschedules) /\ WF_vars(CheckExpiry \/ CheckReschedules)
    /\ WF_vars(RestoreApplies)
    /\ \A y \in Syncs :
          /\ SF_vars(ReconcileNothing(y) \/ ReconcileDiverges(y)
                     \/ ReconcileMatches(y))
          /\ WF_vars(ReconcileRow(y) \/ ReconcileMemory(y) \/ SyncEnds(y))

\* A pull is tried again for ever.
Fairness == ThreadFairness /\ \A y \in Syncs : WF_vars(PullAnswered(y))

FairSpec == Spec /\ Fairness

-----------------------------------------------------------------------------
(* Expected of the code, and not held by it: README.md tells which constants   *)
(* show it.                                                                    *)

\* An offline session in memory is declared in the event queue, or is about to
\* be: a process that ends between its row and its event leaves it unknown.
OfflineIsDeclared ==
    ctx.sid \in OfflineSessions =>
        \/ ctx.sid \in logged
        \/ \E s \in Scans : pc[s] = "stored" /\ sid[s] = ctx.sid

\* The alarm's receiver, once called, ends (under FairSpec): it waits on the
\* main thread for a mutex that a restoration may hold to wait for this thread.
AlarmCompletes == (pc[Alarm] # "idle") ~> (pc[Alarm] = "idle")

\* UsableInTime, above, is not held by a phone that has no depot.

\* A locked phone keeps no session: what a late geofence or a late answer of
\* the server finds in memory cannot open it again.
LockedHasNoSession == ctx.state = "LOCKED" => ctx.sid = NoSession

\* The location service runs in a process only while there is a session in
\* memory, or an open row the next restoration will find: outside a session no
\* position is collected.
TrackingOnlyInSession ==
    up /\ tracking => ctx.sid # NoSession \/ CurrentRow # {}

\* A pull does not lock the phone out of a session opened offline: the network
\* coming back confirms the session instead.
OfflineSessionConfirmed ==
    [][\A y \in Syncs : pc[y] = "response" /\ pc'[y] = "enter"
                          => ctx.sid \notin OfflineSessions]_vars

=============================================================================
