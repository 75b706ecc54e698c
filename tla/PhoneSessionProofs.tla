------------------------- MODULE PhoneSessionProofs -------------------------
(***************************************************************************)
(* Proofs about the driver session, for every set of sessions, scans and   *)
(* synchronisations, every schedule and every fault; the theorems about    *)
(* deadlines, at the end, name what they exclude.                          *)
(***************************************************************************)
EXTENDS PhoneSession, FiniteSetTheorems, WellFoundedInduction, TLAPS

-----------------------------------------------------------------------------
(* The schedule *)

\* The next lock instant exists as soon as one follows, and it is the first.
LEMMA NextLockIsFirst ==
    ASSUME NEW from \in Int
    PROVE  \/ NextLock(from) = Never /\ \A t \in LockTimes : t <= from
           \/ /\ NextLock(from) \in LockTimes
              /\ NextLock(from) > from
              /\ \A t \in LockTimes : t > from => NextLock(from) <= t
<1>1. LockTimes \subseteq Nat
  BY TimeAssumption
<1>2. CASE \A t \in LockTimes : ~(t > from)
  BY <1>1, <1>2 DEF NextLock
<1>3. CASE \E t \in LockTimes : t > from
  <2> DEFINE later == {t \in LockTimes : t > from}
             upTo == {0..t : t \in later}
  <2>1. later \subseteq Nat /\ later # {}
    BY <1>1, <1>3
  <2>2. upTo \subseteq FiniteSubsetsOf(Nat) /\ upTo # {}
    <3>1. \A t \in later : 0..t \subseteq Nat /\ IsFiniteSet(0..t)
      BY <2>1, FS_Interval
    <3> QED
      BY <2>1, <3>1 DEF FiniteSubsetsOf
  <2>3. PICK least \in upTo :
            \A u \in upTo : <<u, least>> \notin StrictSubsetOrdering(Nat)
    BY <2>2, FS_StrictSubsetOrderingWellFounded, WFMin
  <2>4. PICK first \in later : least = 0..first
    OBVIOUS
  <2>5. ASSUME NEW t \in later
        PROVE  first <= t
    <3>1. <<0..t, 0..first>> \notin StrictSubsetOrdering(Nat)
      BY <2>3, <2>4
    <3>2. 0..t \in SUBSET Nat /\ 0..first \in SUBSET Nat
      BY <2>1
    <3>3. ~(0..t \subseteq 0..first /\ 0..t # 0..first)
      BY <3>1, <3>2 DEF StrictSubsetOrdering
    <3>4. t < first => 0..t \subseteq 0..first /\ first \notin 0..t /\ first \in 0..first
      BY <2>1
    <3> QED
      BY <2>1, <3>3, <3>4
  <2>6. first \in LockTimes /\ first > from
        /\ \A t \in LockTimes : t > from => first <= t
    BY <2>5
  <2> QED
    BY <1>3, <2>6 DEF NextLock
<1> QED
  BY <1>2, <1>3

-----------------------------------------------------------------------------
(* Types *)

\* Planning the alarm again leaves it within the bounds of the clock.
LEMMA ScheduleType ==
    ASSUME TypeOK, Schedule
    PROVE  alarm' \in {Never} \cup 0..MaxTime
<1>1. now \in Int
  BY TimeAssumption DEF TypeOK
<1> QED
  <2>1. CASE hasDepot
    BY <1>1, <2>1, NextLockIsFirst, TimeAssumption DEF Schedule
  <2>2. CASE ~hasDepot
    BY <2>2 DEF Schedule, TypeOK
  <2> QED
    BY <2>1, <2>2

\* Every step of the phone, of the server and of the clock keeps the types.
LEMMA TypeStep ==
    ASSUME TypeOK, ComingIsStored, [Next]_vars
    PROVE  TypeOK'
<1> USE SessionAssumption, ThreadAssumption, TimeAssumption
<1> USE DEF TypeOK, Context, Decision, ServerSession, DeviceState, Usable,
            Sessions, Threads, Lockers, LockPoints, ScanPoints, SyncPoints,
            Never, env, rows, grants, check, restore
<1>1. ASSUME RequestScan
      PROVE  TypeOK'
  <2>1. ctx' \in Context
    BY <1>1 DEF RequestScan, ScanRequested
  <2> QED
    BY <1>1, <2>1 DEF RequestScan
<1>2. ASSUME CancelScan
      PROVE  TypeOK'
  BY <1>2 DEF CancelScan, ScanCancelled
<1>3. ASSUME NEW s \in Scans, ScanStep(s)
      PROVE  TypeOK'
  <2>1. ASSUME SubmitBarcode(s)
        PROVE  TypeOK'
    BY <2>1 DEF SubmitBarcode, Goto, BarcodeCaptured
  <2>2. ASSUME Refuse(s)
        PROVE  TypeOK'
    BY <2>2 DEF Refuse, Goto
  <2>3. ASSUME DispatchDenied(s)
        PROVE  TypeOK'
    BY <2>3 DEF DispatchDenied, Goto, AccessDenied, ScanDone
  <2>4. ASSUME FallBackOffline(s)
        PROVE  TypeOK'
    BY <2>4 DEF FallBackOffline, Goto
  <2>5. ASSUME ClearRows(s)
        PROVE  TypeOK'
    BY <2>5 DEF ClearRows, Goto, EndAll
  <2>6. ASSUME StoreRow(s)
        PROVE  TypeOK'
    <3>1. db' \in [Sessions -> {"absent", "open", "ended"}]
      BY <2>6 DEF StoreRow
    <3>2. dbState' \in [Sessions -> Usable] /\ dbReturned' \in [Sessions -> BOOLEAN]
      BY <2>6 DEF StoreRow
    <3>3. pc' \in [Threads -> {"idle"} \cup LockPoints \cup ScanPoints \cup SyncPoints]
      BY <2>6 DEF StoreRow, Goto
    <3> QED
      BY <2>6, <3>1, <3>2, <3>3 DEF StoreRow
  <2>7. ASSUME DeclareOfflineScan(s)
        PROVE  TypeOK'
    <3>1. sid[s] \in Sessions
      BY <2>7 DEF DeclareOfflineScan, OnMain, At, ComingIsStored
    <3> QED
      BY <2>7, <3>1 DEF DeclareOfflineScan, Goto
  <2>8. ASSUME DispatchGranted(s)
        PROVE  TypeOK'
    BY <2>8, ScheduleType DEF DispatchGranted, Goto, AccessGranted, ScanDone, StartTracking
  <2>9. ASSUME NEW new \in OnlineSessions, ServerGrants(s, new)
        PROVE  TypeOK'
    BY <2>9 DEF ServerGrants, Goto
  <2>10. ASSUME NEW new \in OfflineSessions, OfflineGrants(s, new)
        PROVE  TypeOK'
    BY <2>10 DEF OfflineGrants, Goto
  <2> QED
    BY <1>3, <2>1, <2>2, <2>3, <2>4, <2>5, <2>6, <2>7, <2>8, <2>9, <2>10 DEF ScanStep
<1>4. ASSUME NEW t \in Lockers, LockStep(t)
      PROVE  TypeOK'
  <2>1. ASSUME LockEnter(t)
        PROVE  TypeOK'
    BY <2>1 DEF LockEnter, Goto
  <2>2. ASSUME LockEnd(t)
        PROVE  TypeOK'
    BY <2>2 DEF LockEnd, Goto, EndAll
  <2>3. ASSUME LockRequest(t)
        PROVE  TypeOK'
    <3>1. ctx' \in Context
      BY <2>3 DEF LockRequest, LockRequested
    <3>2. tracking' \in BOOLEAN
      BY <2>3 DEF LockRequest, StopTracking
    <3>3. pc' \in [Threads -> {"idle"} \cup LockPoints \cup ScanPoints \cup SyncPoints]
      BY <2>3 DEF LockRequest, Goto
    <3> QED
      BY <2>3, <3>1, <3>2, <3>3 DEF LockRequest
  <2>4. ASSUME LockApply(t)
        PROVE  TypeOK'
    BY <2>4 DEF LockApply, Goto, LockApplied, LockedContext
  <2> QED
    BY <1>4, <2>1, <2>2, <2>3, <2>4 DEF LockStep
<1>5. ASSUME AlarmFires
      PROVE  TypeOK'
  BY <1>5 DEF AlarmFires, Goto
<1>6. ASSUME AlarmReschedules
      PROVE  TypeOK'
  BY <1>6, ScheduleType DEF AlarmReschedules, Goto
<1>7. ASSUME CheckStarts
      PROVE  TypeOK'
  <2>1. expired' \in BOOLEAN /\ second' \in BOOLEAN
    <3>1. (Expiry(ctx.sid) < now) \in BOOLEAN /\ LockMissed \in BOOLEAN
      BY DEF LockMissed
    <3>2. \/ UNCHANGED <<expired, second>>
          \/ expired' = (Expiry(ctx.sid) < now) /\ second' = ~LockMissed
      BY <1>7, Zenon DEF CheckStarts
    <3> QED
      BY <3>1, <3>2, Zenon
  <2>2. pc' \in [Threads -> {"idle"} \cup LockPoints \cup ScanPoints \cup SyncPoints]
    BY <1>7 DEF CheckStarts, Goto
  <2> QED
    BY <1>7, <2>1, <2>2 DEF CheckStarts
<1>8. ASSUME CheckExpiry
      PROVE  TypeOK'
  <2>1. pc' \in [Threads -> {"idle"} \cup LockPoints \cup ScanPoints \cup SyncPoints]
    BY <1>8 DEF CheckExpiry, Goto
  <2>2. expired' \in BOOLEAN /\ second' \in BOOLEAN
    BY <1>8, Zenon DEF CheckExpiry
  <2> QED
    BY <1>8, <2>1, <2>2 DEF CheckExpiry
<1>9. ASSUME CheckReschedules
      PROVE  TypeOK'
  BY <1>9, ScheduleType DEF CheckReschedules, Goto
<1>10. ASSUME NEW y \in Syncs, SyncStep(y)
      PROVE  TypeOK'
  <2>1. ASSUME CommandLocks(y)
        PROVE  TypeOK'
    BY <2>1 DEF CommandLocks, Goto
  <2>2. ASSUME PullAnswered(y)
        PROVE  TypeOK'
    BY <2>2 DEF PullAnswered, Goto
  <2>3. ASSUME PullLost(y)
        PROVE  TypeOK'
    BY <2>3 DEF PullLost, Goto, SyncDone, NoServerSession
  <2>4. ASSUME ReconcileNothing(y)
        PROVE  TypeOK'
    BY <2>4 DEF ReconcileNothing, Goto, SyncDone, NoServerSession
  <2>5. ASSUME ReconcileDiverges(y)
        PROVE  TypeOK'
    BY <2>5 DEF ReconcileDiverges, Goto
  <2>6. ASSUME ReconcileMatches(y)
        PROVE  TypeOK'
    BY <2>6 DEF ReconcileMatches, Goto
  <2>7. ASSUME ReconcileRow(y)
        PROVE  TypeOK'
    <3>1. dbState' \in [Sessions -> Usable]
      BY <2>7 DEF ReconcileRow
    <3>2. dbReturned' \in [Sessions -> BOOLEAN]
      BY <2>7 DEF ReconcileRow
    <3>3. pc' \in [Threads -> {"idle"} \cup LockPoints \cup ScanPoints \cup SyncPoints]
      BY <2>7 DEF ReconcileRow, Goto
    <3> QED
      BY <2>7, <3>1, <3>2, <3>3 DEF ReconcileRow
  <2>8. ASSUME ReconcileMemory(y)
        PROVE  TypeOK'
    BY <2>8 DEF ReconcileMemory, Goto, SyncDone, NoServerSession
  <2>9. ASSUME SyncEnds(y)
        PROVE  TypeOK'
    BY <2>9 DEF SyncEnds, Goto, SyncDone, NoServerSession
  <2>10. ASSUME SyncCancelled(y)
        PROVE  TypeOK'
    BY <2>10 DEF SyncCancelled, Goto, SyncDone, NoServerSession
  <2>11. ASSUME DepotStored(y)
        PROVE  TypeOK'
    BY <2>11 DEF DepotStored
  <2> QED
    BY <1>10, <2>1, <2>2, <2>3, <2>4, <2>5, <2>6, <2>7, <2>8, <2>9, <2>10, <2>11
    DEF SyncStep
<1>11. ASSUME GeofenceDecides
      PROVE  TypeOK'
  <2>1. decision' \in Decisions
    BY <1>11 DEF GeofenceDecides
  <2>2. PICK next \in Usable, mark \in BOOLEAN :
            decision' = [pending |-> TRUE, next |-> next, mark |-> mark]
    <3>1. CASE decision' = [pending |-> TRUE, mark |-> FALSE,
                            next |-> IF ctx.returned THEN "RETURNED" ELSE "ACTIVE"]
      BY <3>1
    <3>2. CASE decision' = [pending |-> TRUE, next |-> "RETURNED", mark |-> ~ctx.returned]
      <4>1. (~ctx.returned) \in BOOLEAN /\ "RETURNED" \in Usable
        OBVIOUS
      <4> QED
        BY <3>2, <4>1, Zenon
    <3>3. CASE decision' = [pending |-> TRUE, next |-> "ACTIVE", mark |-> FALSE]
      BY <3>3
    <3> QED
      BY <2>1, <3>1, <3>2, <3>3 DEF Decisions
  <2>3. decision' \in Decision
    BY <2>2
  <2> QED
    BY <1>11, <2>3 DEF GeofenceDecides
<1>12. ASSUME GeofenceDispatches
      PROVE  TypeOK'
  BY <1>12 DEF GeofenceDispatches, GeofenceConfirmed, NoDecision
<1>13. ASSUME OpenUI
      PROVE  TypeOK'
  BY <1>13 DEF OpenUI, RestoreReads, CurrentRow
<1>14. ASSUME Boot
      PROVE  TypeOK'
  BY <1>14 DEF Boot, RestoreReads, CurrentRow
<1>15. ASSUME RestoreApplies
      PROVE  TypeOK'
  <2>1. ctx' \in Context
    <3>1. CASE ctx' = LockedContext
      BY <3>1 DEF LockedContext
    <3>2. CASE /\ stored # NoSession
               /\ ctx' = [state |-> dbState[stored], sid |-> stored,
                          returned |-> dbReturned[stored]]
      <4>1. /\ dbState[stored] \in Usable /\ stored \in Sessions
            /\ dbReturned[stored] \in BOOLEAN
        BY <3>2
      <4> QED
        BY <3>2, <4>1
    <3> QED
      BY <1>15, <3>1, <3>2 DEF RestoreApplies
  <2>2. db' \in [Sessions -> {"absent", "open", "ended"}]
    BY <1>15 DEF RestoreApplies, EndAll
  <2>3. tracking' \in BOOLEAN
    BY <1>15 DEF RestoreApplies, StartTracking
  <2>4. alarm' \in {Never} \cup 0..MaxTime
    BY <1>15, ScheduleType DEF RestoreApplies
  <2> QED
    BY <1>15, <2>1, <2>2, <2>3, <2>4 DEF RestoreApplies
<1>16. ASSUME ServiceRestarts
      PROVE  TypeOK'
  BY <1>16 DEF ServiceRestarts
<1>17. ASSUME Kill
      PROVE  TypeOK'
  BY <1>17 DEF Kill, ProcessEnds, LockedContext, NoDecision, NoServerSession
<1>18. ASSUME PowerOff
      PROVE  TypeOK'
  BY <1>18 DEF PowerOff, ProcessEnds, LockedContext, NoDecision, NoServerSession
<1>19. ASSUME CloseUI
      PROVE  TypeOK'
  <2>1. pc' \in [Threads -> {"idle"} \cup LockPoints \cup ScanPoints \cup SyncPoints]
    BY <1>19 DEF CloseUI
  <2>2. restorer' \in {"nobody", "ui", "boot"} /\ stored' \in Sessions \cup {NoSession}
    BY <1>19 DEF CloseUI
  <2>3. sid' \in [Scans -> Sessions \cup {NoSession}]
    BY <1>19 DEF CloseUI
  <2>4. ui' \in BOOLEAN
    BY <1>19 DEF CloseUI
  <2> QED
    BY <1>19, <2>1, <2>2, <2>3, <2>4 DEF CloseUI
<1>20. ASSUME LoseAlarm
      PROVE  TypeOK'
  BY <1>20 DEF LoseAlarm
<1>21. ASSUME ServerEnds
      PROVE  TypeOK'
  BY <1>21 DEF ServerEnds, NoServerSession
<1>22. ASSUME NEW state \in Usable, NEW returned \in BOOLEAN,
             ServerReturns(state, returned)
      PROVE  TypeOK'
  <2>1. srv' \in ServerSession
    BY <1>22 DEF ServerReturns
  <2> QED
    BY <1>22, <2>1 DEF ServerReturns
<1>23. ASSUME Tick
      PROVE  TypeOK'
  BY <1>23 DEF Tick
<1>24. CASE UNCHANGED vars
  BY <1>24 DEF vars
<1> HIDE DEF TypeOK, Context, Decision, ServerSession, DeviceState, Usable,
             Sessions, Threads, Lockers, LockPoints, ScanPoints, SyncPoints,
             Never, env, rows, grants, check, restore
<1> QED
  BY <1>1, <1>2, <1>3, <1>4, <1>5, <1>6, <1>7, <1>8, <1>9, <1>10, <1>11, <1>12, <1>13, <1>14, <1>15, <1>16, <1>17, <1>18, <1>19, <1>20, <1>21, <1>22, <1>23, <1>24
  DEF Next, CheckStep, ProcessStep

\* The initial state has the types.
LEMMA TypeInit == Init => TypeOK
<1> SUFFICES ASSUME Init
             PROVE  TypeOK
  OBVIOUS
<1> USE DEF Init, DeviceState, Usable, Sessions, LockedContext, NoDecision,
            NoServerSession, Never
<1>1. ctx \in Context
  BY DEF Context
<1>2. decision \in Decision
  BY DEF Decision
<1>3. srv \in ServerSession /\ seen \in [Syncs -> ServerSession]
  BY DEF ServerSession
<1>4. /\ power \in BOOLEAN /\ up \in BOOLEAN /\ ui \in BOOLEAN
      /\ expired \in BOOLEAN /\ second \in BOOLEAN /\ tracking \in BOOLEAN
  OBVIOUS
<1>5. now \in 0..MaxTime /\ lastCheck \in 0..MaxTime
  BY TimeAssumption
<1>6. hasDepot \in BOOLEAN
  BY DepotAssumption, Zenon
<1>7. /\ db \in [Sessions -> {"absent", "open", "ended"}]
      /\ dbState \in [Sessions -> Usable]
      /\ dbReturned \in [Sessions -> BOOLEAN]
      /\ start \in [Sessions -> {Never} \cup 0..MaxTime]
      /\ alarm \in {Never} \cup 0..MaxTime
      /\ logged \subseteq Sessions
      /\ ctx \in Context
  BY <1>1
<1>8. /\ pc \in [Threads -> {"idle"} \cup LockPoints \cup ScanPoints \cup SyncPoints]
      /\ sid \in [Scans -> Sessions \cup {NoSession}]
      /\ restorer \in {"nobody", "ui", "boot"}
      /\ stored \in Sessions \cup {NoSession}
  OBVIOUS
<1> HIDE DEF Init, DeviceState, Usable, Sessions, LockedContext, NoDecision,
             NoServerSession, Never
<1> QED
  BY <1>2, <1>3, <1>4, <1>5, <1>6, <1>7, <1>8, Zenon DEF TypeOK

-----------------------------------------------------------------------------
(* The rows *)

\* Only three things happen to the rows.
LEMMA RowsStep ==
    ASSUME [Next]_vars
    PROVE  UNCHANGED db \/ EndAll \/ \E s \in Scans : StoreRow(s)
<1> USE DEF rows
<1>1. ASSUME NEW s \in Scans, ScanStep(s)
      PROVE  UNCHANGED db \/ EndAll \/ StoreRow(s)
  BY <1>1
  DEF ScanStep, SubmitBarcode, ServerGrants, OfflineGrants, Refuse,
      DispatchDenied, FallBackOffline, ClearRows, DeclareOfflineScan,
      DispatchGranted
<1>2. ASSUME NEW t \in Lockers, LockStep(t)
      PROVE  UNCHANGED db \/ EndAll
  BY <1>2 DEF LockStep, LockEnter, LockEnd, LockRequest, LockApply
<1>3. ASSUME NEW y \in Syncs, SyncStep(y)
      PROVE  UNCHANGED db
  BY <1>3
  DEF SyncStep, DepotStored, CommandLocks, PullAnswered, PullLost, ReconcileNothing,
      ReconcileDiverges, ReconcileMatches, ReconcileRow, ReconcileMemory,
      SyncEnds, SyncCancelled
<1>4. ASSUME ProcessStep
      PROVE  UNCHANGED db \/ EndAll
  BY <1>4
  DEF ProcessStep, OpenUI, Boot, RestoreApplies, ServiceRestarts, Kill,
      PowerOff, ProcessEnds, CloseUI, LoseAlarm
<1>5. ASSUME \/ RequestScan \/ CancelScan
             \/ AlarmFires \/ AlarmReschedules \/ CheckStep
             \/ GeofenceDecides \/ GeofenceDispatches
             \/ ServerEnds \/ Tick \/ UNCHANGED vars
             \/ \E state \in Usable, returned \in BOOLEAN :
                    ServerReturns(state, returned)
      PROVE  UNCHANGED db
  BY <1>5
  DEF RequestScan, CancelScan, AlarmFires, AlarmReschedules, CheckStep,
      CheckStarts, CheckExpiry, CheckReschedules, GeofenceDecides,
      GeofenceDispatches, ServerEnds, ServerReturns, Tick, vars
<1> QED
  BY <1>1, <1>2, <1>3, <1>4, <1>5 DEF Next

\* No row is deleted, and a row that was ended stays ended: the scan that
\* stores a row has an identifier that no row has yet.
LEMMA RowsKept ==
    ASSUME Inv, [Next]_vars
    PROVE  \A x \in Sessions : /\ db[x] # "absent" => db'[x] # "absent"
                               /\ db[x] = "ended" => db'[x] = "ended"
<1> USE DEF Inv, TypeOK
<1>1. CASE UNCHANGED db
  BY <1>1
<1>2. CASE EndAll
  BY <1>2 DEF EndAll
<1>3. ASSUME NEW s \in Scans, StoreRow(s)
      PROVE  \A x \in Sessions : /\ db[x] # "absent" => db'[x] # "absent"
                                 /\ db[x] = "ended" => db'[x] = "ended"
  <2>1. sid[s] \in Sessions /\ db[sid[s]] = "absent"
    BY <1>3 DEF StoreRow, OnMain, At, GrantsAreFresh
  <2> QED
    BY <1>3, <2>1 DEF StoreRow
<1> QED
  BY <1>1, <1>2, <1>3, RowsStep

-----------------------------------------------------------------------------
(* The session in memory *)

\* Whatever writes the context writes a session that has a row.
LEMMA ContextStep ==
    ASSUME Inv, [Next]_vars
    PROVE  UsableHasSession' /\ SessionWasStored'
<1> USE DEF UsableHasSession, SessionWasStored, Usable, env, rows, grants,
            check, restore
<1>1. TypeOK' /\ TypeOK
  BY TypeStep DEF Inv
<1>2. /\ ctx.sid \in Sessions \cup {NoSession}
      /\ ctx.sid # NoSession => db'[ctx.sid] # "absent"
      /\ ctx.state \in Usable => ctx.sid # NoSession
  BY RowsKept DEF Inv, TypeOK, Context
<1>3. ASSUME \/ UNCHANGED ctx \/ ctx' = LockedContext
             \/ ctx' = ScanRequested(ctx) \/ ctx' = ScanCancelled(ctx)
             \/ ctx' = BarcodeCaptured(ctx) \/ ctx' = AccessDenied(ctx)
             \/ ctx' = LockRequested(ctx) \/ ctx' = LockApplied(ctx)
             \/ ctx' = GeofenceConfirmed(ctx, decision.next, decision.mark)
      PROVE  UsableHasSession' /\ SessionWasStored'
  <2>1. /\ ctx'.sid \in {ctx.sid, NoSession}
        /\ ctx'.state \in Usable => ctx'.sid = ctx.sid /\ ctx.sid # NoSession
    BY <1>1, <1>2, <1>3
    DEF TypeOK, Context, LockedContext, ScanRequested, ScanCancelled,
        BarcodeCaptured, AccessDenied, LockRequested, LockApplied,
        GeofenceConfirmed
  <2> QED
    BY <1>2, <2>1
<1>4. ASSUME NEW x \in Sessions, db[x] # "absent", ctx'.sid = x
      PROVE  UsableHasSession' /\ SessionWasStored'
  BY <1>4, RowsKept, SessionAssumption
<1>5. ASSUME NEW s \in Scans, ScanStep(s)
      PROVE  UsableHasSession' /\ SessionWasStored'
  <2>1. CASE DispatchGranted(s)
    <3>1. sid[s] \in Sessions /\ db[sid[s]] # "absent"
      BY <2>1 DEF DispatchGranted, OnMain, At, Inv, ComingIsStored, TypeOK
    <3> QED
      BY <1>4, <2>1, <3>1 DEF DispatchGranted, AccessGranted
  <2>2. CASE ~DispatchGranted(s)
    BY <1>3, <1>5, <2>2
    DEF ScanStep, SubmitBarcode, ServerGrants, OfflineGrants, Refuse,
        DispatchDenied, FallBackOffline, ClearRows, StoreRow,
        DeclareOfflineScan
  <2> QED
    BY <2>1, <2>2
<1>6. ASSUME NEW t \in Lockers, LockStep(t)
      PROVE  UsableHasSession' /\ SessionWasStored'
  BY <1>3, <1>6 DEF LockStep, LockEnter, LockEnd, LockRequest, LockApply
<1>7. ASSUME NEW y \in Syncs, SyncStep(y)
      PROVE  UsableHasSession' /\ SessionWasStored'
  <2>1. CASE ReconcileMemory(y)
    <3>1. seen[y].sid \in Sessions /\ db[seen[y].sid] # "absent"
      BY <2>1
      DEF ReconcileMemory, At, Inv, ComingIsStored, TypeOK, ServerSession,
          Sessions
    <3> QED
      BY <1>4, <2>1, <3>1 DEF ReconcileMemory
  <2>2. CASE ~ReconcileMemory(y)
    BY <1>3, <1>7, <2>2
    DEF SyncStep, DepotStored, CommandLocks, PullAnswered, PullLost, ReconcileNothing,
        ReconcileDiverges, ReconcileMatches, ReconcileRow, SyncEnds,
        SyncCancelled
  <2> QED
    BY <2>1, <2>2
<1>8. ASSUME ProcessStep
      PROVE  UsableHasSession' /\ SessionWasStored'
  <2>1. ASSUME RestoreApplies, ctx' # LockedContext
        PROVE  UsableHasSession' /\ SessionWasStored'
    <3>1. stored \in Sessions /\ db[stored] # "absent" /\ ctx'.sid = stored
      BY <2>1 DEF RestoreApplies, Inv, ComingIsStored, TypeOK
    <3> QED
      BY <1>4, <3>1
  <2>2. CASE ~RestoreApplies
    BY <1>3, <1>8, <2>2
    DEF ProcessStep, OpenUI, Boot, ServiceRestarts, Kill, PowerOff,
        ProcessEnds, CloseUI, LoseAlarm
  <2> QED
    BY <1>3, <2>1, <2>2
<1>9. ASSUME \/ RequestScan \/ CancelScan
             \/ AlarmFires \/ AlarmReschedules \/ CheckStep
             \/ GeofenceDecides \/ GeofenceDispatches
             \/ ServerEnds \/ Tick \/ UNCHANGED vars
             \/ \E state \in Usable, returned \in BOOLEAN :
                    ServerReturns(state, returned)
      PROVE  UsableHasSession' /\ SessionWasStored'
  BY <1>3, <1>9
  DEF RequestScan, CancelScan, AlarmFires, AlarmReschedules, CheckStep,
      CheckStarts, CheckExpiry, CheckReschedules, GeofenceDecides,
      GeofenceDispatches, ServerEnds, ServerReturns, Tick, vars
<1> QED
  BY <1>5, <1>6, <1>7, <1>8, <1>9 DEF Next

-----------------------------------------------------------------------------
(* What the threads carry across their suspensions *)

\* A scan about to hand its session over has just stored the row, or still
\* carries the same one.
LEMMA ScanMoves ==
    ASSUME TypeOK, [Next]_vars, NEW s \in Scans, pc'[s] \in {"stored", "declared"}
    PROVE  \/ StoreRow(s)
           \/ pc[s] \in {"stored", "declared"} /\ sid'[s] = sid[s]
<1> USE ThreadAssumption
<1> USE DEF TypeOK, Threads, Lockers, Goto, grants
<1>1. ASSUME NEW r \in Scans, ScanStep(r)
      PROVE  \/ StoreRow(s)
             \/ pc[s] \in {"stored", "declared"} /\ sid'[s] = sid[s]
  <2>1. CASE StoreRow(r)
    BY <2>1 DEF StoreRow
  <2>2. CASE ~StoreRow(r)
    BY <1>1, <2>2
    DEF ScanStep, SubmitBarcode, ServerGrants, OfflineGrants, Refuse,
        DispatchDenied, FallBackOffline, ClearRows, DeclareOfflineScan,
        DispatchGranted, ScanDone, OnMain, At
  <2> QED
    BY <2>1, <2>2
<1>2. ASSUME NEW t \in Lockers, LockStep(t)
      PROVE  pc'[s] = pc[s] /\ sid'[s] = sid[s]
  BY <1>2 DEF LockStep, LockEnter, LockEnd, LockRequest, LockApply
<1>3. ASSUME NEW y \in Syncs, SyncStep(y)
      PROVE  pc'[s] = pc[s] /\ sid'[s] = sid[s]
  BY <1>3
  DEF SyncStep, DepotStored, CommandLocks, PullAnswered, PullLost, ReconcileNothing,
      ReconcileDiverges, ReconcileMatches, ReconcileRow, ReconcileMemory,
      SyncEnds, SyncCancelled, SyncDone
<1>4. ASSUME ProcessStep
      PROVE  pc'[s] = pc[s] /\ sid'[s] = sid[s]
  BY <1>4
  DEF ProcessStep, OpenUI, Boot, RestoreApplies, ServiceRestarts, Kill,
      PowerOff, ProcessEnds, CloseUI, LoseAlarm
<1>5. ASSUME \/ RequestScan \/ CancelScan
             \/ AlarmFires \/ AlarmReschedules \/ CheckStep
             \/ GeofenceDecides \/ GeofenceDispatches
             \/ ServerEnds \/ Tick \/ UNCHANGED vars
             \/ \E state \in Usable, returned \in BOOLEAN :
                    ServerReturns(state, returned)
      PROVE  pc'[s] = pc[s] /\ sid'[s] = sid[s]
  BY <1>5
  DEF RequestScan, CancelScan, AlarmFires, AlarmReschedules, CheckStep,
      CheckStarts, CheckExpiry, CheckReschedules, GeofenceDecides,
      GeofenceDispatches, ServerEnds, ServerReturns, Tick, vars
<1> QED
  BY <1>1, <1>2, <1>3, <1>4, <1>5 DEF Next

\* A reconciliation that goes on to write has just found the server's session
\* in memory, or still carries the same answer.
LEMMA SyncMoves ==
    ASSUME TypeOK, [Next]_vars, NEW y \in Syncs, pc'[y] \in {"row", "memory"}
    PROVE  seen'[y] = seen[y]
           /\ (ReconcileMatches(y) \/ pc[y] \in {"row", "memory"})
<1> USE ThreadAssumption
<1> USE DEF TypeOK, Threads, Lockers, Goto
<1>1. ASSUME NEW s \in Scans, ScanStep(s)
      PROVE  pc'[y] = pc[y] /\ seen'[y] = seen[y]
  BY <1>1
  DEF ScanStep, SubmitBarcode, ServerGrants, OfflineGrants, Refuse,
      DispatchDenied, FallBackOffline, ClearRows, StoreRow,
      DeclareOfflineScan, DispatchGranted, ScanDone
<1>2. ASSUME NEW t \in Lockers, LockStep(t)
      PROVE  pc'[y] = pc[y] /\ seen'[y] = seen[y]
  BY <1>2 DEF LockStep, LockEnter, LockEnd, LockRequest, LockApply
<1>3. ASSUME NEW z \in Syncs, SyncStep(z)
      PROVE  seen'[y] = seen[y]
             /\ (ReconcileMatches(y) \/ pc[y] \in {"row", "memory"})
  <2>1. CASE ReconcileMatches(z)
    BY <2>1 DEF ReconcileMatches
  <2>2. CASE ~ReconcileMatches(z)
    BY <1>3, <2>2
    DEF SyncStep, DepotStored, CommandLocks, PullAnswered, PullLost, ReconcileNothing,
        ReconcileDiverges, ReconcileRow, ReconcileMemory, SyncEnds,
        SyncCancelled, SyncDone, At
  <2> QED
    BY <2>1, <2>2
<1>4. ASSUME ProcessStep
      PROVE  pc'[y] = pc[y] /\ seen'[y] = seen[y]
  BY <1>4
  DEF ProcessStep, OpenUI, Boot, RestoreApplies, ServiceRestarts, Kill,
      PowerOff, ProcessEnds, CloseUI, LoseAlarm
<1>5. ASSUME \/ RequestScan \/ CancelScan
             \/ AlarmFires \/ AlarmReschedules \/ CheckStep
             \/ GeofenceDecides \/ GeofenceDispatches
             \/ ServerEnds \/ Tick \/ UNCHANGED vars
             \/ \E state \in Usable, returned \in BOOLEAN :
                    ServerReturns(state, returned)
      PROVE  pc'[y] = pc[y] /\ seen'[y] = seen[y]
  BY <1>5
  DEF RequestScan, CancelScan, AlarmFires, AlarmReschedules, CheckStep,
      CheckStarts, CheckExpiry, CheckReschedules, GeofenceDecides,
      GeofenceDispatches, ServerEnds, ServerReturns, Tick, vars
<1> QED
  BY <1>1, <1>2, <1>3, <1>4, <1>5 DEF Next

\* A restoration carries the row it has just read, or the same as before.
LEMMA RestoreMoves ==
    ASSUME [Next]_vars
    PROVE  stored' \in {stored, NoSession} \cup CurrentRow
<1> USE DEF restore
<1>1. ASSUME NEW s \in Scans, ScanStep(s)
      PROVE  UNCHANGED stored
  BY <1>1
  DEF ScanStep, SubmitBarcode, ServerGrants, OfflineGrants, Refuse,
      DispatchDenied, FallBackOffline, ClearRows, StoreRow,
      DeclareOfflineScan, DispatchGranted
<1>2. ASSUME NEW t \in Lockers, LockStep(t)
      PROVE  UNCHANGED stored
  BY <1>2 DEF LockStep, LockEnter, LockEnd, LockRequest, LockApply
<1>3. ASSUME NEW y \in Syncs, SyncStep(y)
      PROVE  UNCHANGED stored
  BY <1>3
  DEF SyncStep, DepotStored, CommandLocks, PullAnswered, PullLost, ReconcileNothing,
      ReconcileDiverges, ReconcileMatches, ReconcileRow, ReconcileMemory,
      SyncEnds, SyncCancelled
<1>4. ASSUME ProcessStep
      PROVE  stored' \in {stored, NoSession} \cup CurrentRow
  BY <1>4
  DEF ProcessStep, OpenUI, Boot, RestoreReads, RestoreApplies,
      ServiceRestarts, Kill, PowerOff, ProcessEnds, CloseUI, LoseAlarm
<1>5. ASSUME \/ RequestScan \/ CancelScan
             \/ AlarmFires \/ AlarmReschedules \/ CheckStep
             \/ GeofenceDecides \/ GeofenceDispatches
             \/ ServerEnds \/ Tick \/ UNCHANGED vars
             \/ \E state \in Usable, returned \in BOOLEAN :
                    ServerReturns(state, returned)
      PROVE  UNCHANGED stored
  BY <1>5
  DEF RequestScan, CancelScan, AlarmFires, AlarmReschedules, CheckStep,
      CheckStarts, CheckExpiry, CheckReschedules, GeofenceDecides,
      GeofenceDispatches, ServerEnds, ServerReturns, Tick, vars
<1> QED
  BY <1>1, <1>2, <1>3, <1>4, <1>5 DEF Next

\* What scans, reconciliations and a restoration are about to write has a row.
LEMMA ComingStep ==
    ASSUME Inv, [Next]_vars
    PROVE  ComingIsStored'
<1> USE DEF Inv
<1>1. ASSUME NEW s \in Scans, pc'[s] \in {"stored", "declared"}
      PROVE  sid'[s] # NoSession /\ db'[sid'[s]] # "absent"
  <2>1. CASE StoreRow(s)
    <3>1. sid[s] \in Sessions /\ sid'[s] = sid[s]
      BY <2>1 DEF StoreRow, OnMain, At, GrantsAreFresh, TypeOK, grants
    <3> QED
      BY <2>1, <3>1, SessionAssumption DEF StoreRow, TypeOK
  <2>2. CASE pc[s] \in {"stored", "declared"} /\ sid'[s] = sid[s]
    BY <2>2, RowsKept DEF ComingIsStored, TypeOK
  <2> QED
    BY <1>1, <2>1, <2>2, ScanMoves
<1>2. ASSUME NEW y \in Syncs, pc'[y] \in {"row", "memory"}
      PROVE  seen'[y].sid # NoSession /\ db'[seen'[y].sid] # "absent"
  <2>1. seen[y].sid \in Sessions \cup {NoSession} /\ seen'[y] = seen[y]
    BY <1>2, SyncMoves DEF TypeOK, ServerSession, Sessions
  <2>2. seen[y].sid # NoSession /\ db[seen[y].sid] # "absent"
    <3>1. CASE ReconcileMatches(y)
      BY <3>1 DEF ReconcileMatches, SessionWasStored
    <3>2. CASE pc[y] \in {"row", "memory"}
      BY <3>2 DEF ComingIsStored
    <3> QED
      BY <1>2, <3>1, <3>2, SyncMoves
  <2> QED
    BY <2>1, <2>2, RowsKept
<1>3. stored' # NoSession => db'[stored'] # "absent"
  <2>1. \A x \in CurrentRow : x \in Sessions /\ db[x] # "absent"
    BY DEF CurrentRow
  <2>2. stored \in Sessions \cup {NoSession}
        /\ (stored # NoSession => db[stored] # "absent")
    BY DEF TypeOK, ComingIsStored
  <2> QED
    BY <2>1, <2>2, RestoreMoves, RowsKept
<1> QED
  BY <1>1, <1>2, <1>3 DEF ComingIsStored

\* The identifiers of the scans stay fresh until their rows are stored.
LEMMA FreshStep ==
    ASSUME Inv, [Next]_vars
    PROVE  GrantsAreFresh'
<1> USE SessionAssumption, ThreadAssumption
<1> USE DEF Inv, TypeOK, GrantsAreFresh, Threads, Lockers, Sessions, rows,
            grants, check, Goto
\* a step that leaves the identifiers alone and stores nothing;
<1>1. ASSUME UNCHANGED grants, UNCHANGED db \/ EndAll,
             \A r \in Scans :
                /\ pc'[r] \in {"answered", "granted", "cleared"}
                      => pc[r] \in {"answered", "granted", "cleared"}
                /\ pc[r] \in {"stored", "declared"}
                      => pc'[r] \in {"stored", "declared"}
      PROVE  GrantsAreFresh'
  <2>1. \A x \in Sessions : db[x] = "absent" => db'[x] = "absent"
    BY <1>1 DEF EndAll
  <2> QED
    BY <1>1, <2>1
\* a step that drops identifiers and touches no row;
<1>2. ASSUME UNCHANGED <<start, db>>,
             \A r \in Scans : \/ sid'[r] = sid[r] /\ pc'[r] = pc[r]
                              \/ sid'[r] = NoSession /\ pc'[r] = "idle"
      PROVE  GrantsAreFresh'
  BY <1>2
\* a grant.
<1>3. ASSUME NEW s \in Scans, NEW new \in Sessions, start[new] = Never,
             start'[new] # Never, UNCHANGED db,
             start' = [start EXCEPT ![new] = now],
             sid' = [sid EXCEPT ![s] = new],
             \A r \in Scans : r # s => pc'[r] = pc[r],
             pc'[s] \in {"answered", "granted"}
      PROVE  GrantsAreFresh'
  BY <1>3
<1>4. now # Never
  BY TimeAssumption DEF Never
<1>5. ASSUME NEW s \in Scans, ScanStep(s)
      PROVE  GrantsAreFresh'
  <2>1. ASSUME NEW new \in OnlineSessions, ServerGrants(s, new)
        PROVE  GrantsAreFresh'
    BY <1>3, <1>4, <2>1 DEF ServerGrants
  <2>2. ASSUME NEW new \in OfflineSessions, OfflineGrants(s, new)
        PROVE  GrantsAreFresh'
    BY <1>3, <1>4, <2>2 DEF OfflineGrants
  <2>3. CASE StoreRow(s)
    <3>1. /\ sid[s] \in Sessions /\ start[sid[s]] # Never
          /\ pc'[s] \in {"stored", "declared"}
          /\ \A r \in Scans : r # s => pc'[r] = pc[r] /\ sid[r] # sid[s]
          /\ UNCHANGED grants
      BY <2>3 DEF StoreRow, OnMain, At
    <3>2. \A x \in Sessions : x # sid[s] => db'[x] = db[x]
      BY <2>3 DEF StoreRow
    <3> QED
      BY <3>1, <3>2
  <2>4. CASE DispatchDenied(s) \/ DispatchGranted(s)
    BY <1>2, <2>4 DEF DispatchDenied, DispatchGranted, ScanDone
  <2>5. CASE \/ SubmitBarcode(s) \/ Refuse(s) \/ FallBackOffline(s)
             \/ ClearRows(s) \/ DeclareOfflineScan(s)
    BY <1>1, <2>5
    DEF SubmitBarcode, Refuse, FallBackOffline, ClearRows,
        DeclareOfflineScan, OnMain, At
  <2> QED
    BY <1>5, <2>1, <2>2, <2>3, <2>4, <2>5 DEF ScanStep
<1>6. ASSUME NEW t \in Lockers, LockStep(t)
      PROVE  GrantsAreFresh'
  BY <1>1, <1>6 DEF LockStep, LockEnter, LockEnd, LockRequest, LockApply
<1>7. ASSUME NEW y \in Syncs, SyncStep(y)
      PROVE  GrantsAreFresh'
  BY <1>1, <1>7
  DEF SyncStep, DepotStored, CommandLocks, PullAnswered, PullLost, ReconcileNothing,
      ReconcileDiverges, ReconcileMatches, ReconcileRow, ReconcileMemory,
      SyncEnds, SyncCancelled, SyncDone
<1>8. ASSUME ProcessStep
      PROVE  GrantsAreFresh'
  <2>1. CASE Kill \/ PowerOff \/ CloseUI
    BY <1>2, <2>1 DEF Kill, PowerOff, ProcessEnds, CloseUI
  <2>2. CASE OpenUI \/ Boot \/ RestoreApplies \/ ServiceRestarts \/ LoseAlarm
    BY <1>1, <2>2 DEF OpenUI, Boot, RestoreApplies, ServiceRestarts, LoseAlarm
  <2> QED
    BY <1>8, <2>1, <2>2 DEF ProcessStep
<1>9. ASSUME \/ RequestScan \/ CancelScan
             \/ AlarmFires \/ AlarmReschedules \/ CheckStep
             \/ GeofenceDecides \/ GeofenceDispatches
             \/ ServerEnds \/ Tick \/ UNCHANGED vars
             \/ \E state \in Usable, returned \in BOOLEAN :
                    ServerReturns(state, returned)
      PROVE  GrantsAreFresh'
  <2>1. CASE AlarmFires \/ AlarmReschedules
    BY <1>1, <2>1 DEF AlarmFires, AlarmReschedules
  <2>2. CASE CheckStep
    BY <1>1, <2>2 DEF CheckStep, CheckStarts, CheckExpiry, CheckReschedules
  <2>3. CASE \/ RequestScan \/ CancelScan \/ GeofenceDecides
             \/ GeofenceDispatches \/ ServerEnds \/ Tick \/ UNCHANGED vars
             \/ \E state \in Usable, returned \in BOOLEAN :
                    ServerReturns(state, returned)
    <3>1. UNCHANGED <<db, start, sid, pc>>
      BY <2>3
      DEF RequestScan, CancelScan, GeofenceDecides, GeofenceDispatches,
          ServerEnds, ServerReturns, Tick, vars
    <3> QED
      BY <1>1, <3>1
  <2> QED
    BY <1>9, <2>1, <2>2, <2>3
<1> QED
  BY <1>5, <1>6, <1>7, <1>8, <1>9 DEF Next

-----------------------------------------------------------------------------
(* The theorems *)

\* The inductive invariant holds: what scans, reconciliations and a
\* restoration carry across their suspensions is never lost or given twice.
THEOREM InvHolds == Spec => []Inv
<1>1. Init => Inv
  <2> SUFFICES ASSUME Init
               PROVE  Inv
    OBVIOUS
  <2>1. TypeOK
    BY TypeInit
  <2>2. GrantsAreFresh
    BY SessionAssumption DEF Init, GrantsAreFresh, Threads
  <2>3. ComingIsStored
    BY ThreadAssumption DEF Init, ComingIsStored, Threads, Lockers
  <2>4. UsableHasSession /\ SessionWasStored
    BY DEF Init, UsableHasSession, SessionWasStored, LockedContext, Usable
  <2> QED
    BY <2>1, <2>2, <2>3, <2>4 DEF Inv
<1>2. Inv /\ [Next]_vars => Inv'
  <2> SUFFICES ASSUME Inv, [Next]_vars
               PROVE  Inv'
    OBVIOUS
  <2>1. TypeOK'
    BY TypeStep DEF Inv
  <2> QED
    BY <2>1, FreshStep, ComingStep, ContextStep DEF Inv
<1> QED
  BY <1>1, <1>2, PTL DEF Spec

\* The types of every variable, for every value of the constants.
THEOREM TypeCorrect == Spec => []TypeOK
<1>1. Inv => TypeOK
  BY DEF Inv
<1> QED
  BY <1>1, InvHolds, PTL

\* The kiosk never opens for nobody: no interleaving of scans, locks,
\* reconciliations, geofence decisions, restorations and crashes leaves the
\* phone usable without a session.
THEOREM NeverOpenForNobody == Spec => []UsableHasSession
<1>1. Inv => UsableHasSession
  BY DEF Inv
<1> QED
  BY <1>1, InvHolds, PTL

\* The session in memory always has a row in the database.
THEOREM NeverOpenUnstored == Spec => []SessionWasStored
<1>1. Inv => SessionWasStored
  BY DEF Inv
<1> QED
  BY <1>1, InvHolds, PTL

\* An ended row is never opened again.
THEOREM EndedForEver == Spec => EndedStaysEnded
<1>1. Inv /\ [Next]_vars => [EndedRowsKept]_vars
  BY RowsKept DEF EndedRowsKept
<1> QED
  BY <1>1, InvHolds, PTL DEF Spec, EndedStaysEnded

-----------------------------------------------------------------------------
(* Time *)

\* The session of the memory, and those the scans carry, keep the instant of
\* their grant: the server and the phone grant an identifier once.
LEMMA GrantsKeepStart ==
    ASSUME Inv, [Next]_vars
    PROVE  \A x \in Sessions : start[x] # Never => start'[x] = start[x]
<1> USE DEF Inv, TypeOK, Sessions, env, rows, grants, check, restore
<1>1. ASSUME NEW s \in Scans, ScanStep(s)
      PROVE  \A x \in Sessions : start[x] # Never => start'[x] = start[x]
  BY <1>1
  DEF ScanStep, SubmitBarcode, ServerGrants, OfflineGrants, Refuse,
      DispatchDenied, FallBackOffline, ClearRows, StoreRow,
      DeclareOfflineScan, DispatchGranted
<1>2. ASSUME NEW t \in Lockers, LockStep(t)
      PROVE  UNCHANGED start
  BY <1>2 DEF LockStep, LockEnter, LockEnd, LockRequest, LockApply
<1>3. ASSUME NEW y \in Syncs, SyncStep(y)
      PROVE  UNCHANGED start
  BY <1>3
  DEF SyncStep, DepotStored, CommandLocks, PullAnswered, PullLost, ReconcileNothing,
      ReconcileDiverges, ReconcileMatches, ReconcileRow, ReconcileMemory,
      SyncEnds, SyncCancelled
<1>4. ASSUME ProcessStep
      PROVE  UNCHANGED start
  BY <1>4
  DEF ProcessStep, OpenUI, Boot, RestoreApplies, ServiceRestarts, Kill,
      PowerOff, ProcessEnds, CloseUI, LoseAlarm
<1>5. ASSUME \/ RequestScan \/ CancelScan
             \/ AlarmFires \/ AlarmReschedules \/ CheckStep
             \/ GeofenceDecides \/ GeofenceDispatches
             \/ ServerEnds \/ Tick \/ UNCHANGED vars
             \/ \E state \in Usable, returned \in BOOLEAN :
                    ServerReturns(state, returned)
      PROVE  UNCHANGED start
  BY <1>5
  DEF RequestScan, CancelScan, AlarmFires, AlarmReschedules, CheckStep,
      CheckStarts, CheckExpiry, CheckReschedules, GeofenceDecides,
      GeofenceDispatches, ServerEnds, ServerReturns, Tick, vars
<1> QED
  BY <1>1, <1>2, <1>3, <1>4, <1>5 DEF Next

\* The session of the memory was granted, and so were those of the scans.
LEMMA CarriedWereGranted ==
    ASSUME Inv
    PROVE  /\ ctx.sid # NoSession => ctx.sid \in Sessions /\ start[ctx.sid] \in 0..MaxTime
           /\ \A s \in Scans :
                 /\ sid[s] # NoSession => sid[s] \in Sessions /\ start[sid[s]] \in 0..MaxTime
                 /\ pc[s] \in {"answered", "granted", "cleared", "stored", "declared"}
                       => sid[s] # NoSession
           /\ \A x \in Sessions : db[x] # "absent" => start[x] \in 0..MaxTime
BY DEF Inv, TypeOK, Context, GrantsAreFresh, ComingIsStored, SessionWasStored

\* Without a process nothing runs, and without an interface no scan.
LEMMA LifeStep ==
    ASSUME Inv, LifeAgrees, [Next]_vars
    PROVE  LifeAgrees'
<1> USE ThreadAssumption
<1> USE DEF LifeAgrees, Inv, TypeOK, Threads, Lockers, Goto, At, OnMain, env,
            rows, grants, check, restore, MutexFree
<1>1. ASSUME NEW s \in Scans, ScanStep(s)
      PROVE  LifeAgrees'
  <2>1. pc[s] # "idle" \/ (ui /\ MutexFree)
    BY <1>1
    DEF ScanStep, SubmitBarcode, ServerGrants, OfflineGrants, Refuse,
        DispatchDenied, FallBackOffline, ClearRows, StoreRow,
        DeclareOfflineScan, DispatchGranted
  <2>2. ui /\ up /\ power /\ restorer = "nobody"
    BY <2>1
  <2>3. UNCHANGED <<ui, up, power, restorer>>
    BY <1>1
    DEF ScanStep, SubmitBarcode, ServerGrants, OfflineGrants, Refuse,
        DispatchDenied, FallBackOffline, ClearRows, StoreRow,
        DeclareOfflineScan, DispatchGranted
  <2> QED
    BY <2>2, <2>3
\* a step of another thread, in a process that runs after it;
<1>2. ASSUME up', power', ui' => ui, UNCHANGED restorer,
             \A s \in Scans : pc'[s] = pc[s] \/ pc'[s] = "idle", ui => ui'
      PROVE  LifeAgrees'
  BY <1>2
<1>3. ASSUME NEW t \in Lockers, LockStep(t)
      PROVE  LifeAgrees'
  BY <1>2, <1>3 DEF LockStep, LockEnter, LockEnd, LockRequest, LockApply
<1>4. ASSUME NEW y \in Syncs, SyncStep(y)
      PROVE  LifeAgrees'
  BY <1>2, <1>4
  DEF SyncStep, DepotStored, CommandLocks, PullAnswered, PullLost, ReconcileNothing,
      ReconcileDiverges, ReconcileMatches, ReconcileRow, ReconcileMemory,
      SyncEnds, SyncCancelled, SyncDone
<1>5. ASSUME ProcessStep
      PROVE  LifeAgrees'
  <2>1. CASE OpenUI
    BY <2>1 DEF OpenUI, RestoreReads
  <2>2. CASE Boot
    BY <2>2 DEF Boot, RestoreReads
  <2>3. CASE RestoreApplies
    BY <2>3 DEF RestoreApplies
  <2>4. CASE ServiceRestarts
    BY <2>4 DEF ServiceRestarts
  <2>5. CASE Kill \/ PowerOff
    BY <2>5 DEF Kill, PowerOff, ProcessEnds, NoDecision
  <2>6. CASE CloseUI
    BY <2>6 DEF CloseUI
  <2>7. CASE LoseAlarm
    BY <2>7 DEF LoseAlarm
  <2> QED
    BY <1>5, <2>1, <2>2, <2>3, <2>4, <2>5, <2>6, <2>7 DEF ProcessStep
<1>6. ASSUME AlarmFires \/ AlarmReschedules \/ CheckStep
      PROVE  LifeAgrees'
  BY <1>2, <1>6
  DEF AlarmFires, AlarmReschedules, CheckStep, CheckStarts, CheckExpiry, CheckReschedules
<1>7. ASSUME \/ RequestScan \/ CancelScan
             \/ GeofenceDecides \/ GeofenceDispatches
             \/ ServerEnds \/ Tick \/ UNCHANGED vars
             \/ \E state \in Usable, returned \in BOOLEAN :
                    ServerReturns(state, returned)
      PROVE  LifeAgrees'
  <2>1. UNCHANGED <<power, up, ui, pc, restorer>>
        /\ (up \/ UNCHANGED <<ctx, decision>>)
    BY <1>7
    DEF RequestScan, CancelScan, GeofenceDecides, GeofenceDispatches,
        ServerEnds, ServerReturns, Tick, vars
  <2> QED
    BY <2>1
<1> QED
  BY <1>1, <1>3, <1>4, <1>5, <1>6, <1>7 DEF Next

\* A session granted is dispatched before the next quarter ends: time does not pass
\* while a scan has a row to store.
LEMMA GrantsStep ==
    ASSUME Inv, LifeAgrees, GrantsInTime, [Next]_vars
    PROVE  GrantsInTime'
<1> USE ThreadAssumption, SessionAssumption, TimeAssumption
<1> DEFINE carrying == {"answered", "granted", "cleared", "stored", "declared"}
<1> USE DEF Threads, Lockers, Goto, At, OnMain, env, rows, grants, check, restore
<1>1. now \in Nat /\ sid \in [Scans -> Sessions \cup {NoSession}]
      /\ pc \in [Threads -> {"idle"} \cup LockPoints \cup ScanPoints \cup SyncPoints]
      /\ start \in [Sessions -> {Never} \cup 0..MaxTime]
  BY DEF Inv, TypeOK
\* a scan that goes on with the session it has;
<1>2. ASSUME UNCHANGED now,
             \A r \in Scans : pc'[r] \in carrying => pc[r] \in carrying /\ sid'[r] = sid[r]
      PROVE  GrantsInTime'
  <2>1. ASSUME NEW r \in Scans, pc'[r] \in carrying
        PROVE  now' <= start'[sid'[r]] + 1
    <3>1. pc[r] \in carrying /\ sid'[r] = sid[r] /\ now' = now
      BY <1>2, <2>1
    <3>2. sid[r] \in Sessions /\ start[sid[r]] # Never
      BY <3>1, CarriedWereGranted DEF Never
    <3>3. start'[sid[r]] = start[sid[r]]
      BY <3>2, GrantsKeepStart
    <3> QED
      BY <3>1, <3>3 DEF GrantsInTime
  <2> QED
    BY <2>1 DEF GrantsInTime
\* a grant;
<1>3. ASSUME NEW s \in Scans, NEW new \in Sessions,
             ServerGrants(s, new) \/ OfflineGrants(s, new)
      PROVE  GrantsInTime'
  <2>1. ASSUME NEW r \in Scans, pc'[r] \in carrying
        PROVE  now' <= start'[sid'[r]] + 1
    <3>1. CASE r = s
      <4>1. sid'[s] = new /\ start'[new] = now /\ now' = now
        BY <1>1, <1>3 DEF ServerGrants, OfflineGrants
      <4> QED
        BY <1>1, <3>1, <4>1
    <3>2. CASE r # s
      <4>1. pc'[r] = pc[r] /\ sid'[r] = sid[r] /\ now' = now
        BY <1>1, <1>3, <3>2 DEF ServerGrants, OfflineGrants
      <4>2. sid[r] \in Sessions /\ start[sid[r]] # Never
        BY <2>1, <4>1, CarriedWereGranted DEF Never
      <4>3. start'[sid[r]] = start[sid[r]]
        BY <4>2, GrantsKeepStart
      <4> QED
        BY <2>1, <4>1, <4>3 DEF GrantsInTime
    <3> QED
      BY <3>1, <3>2
  <2> QED
    BY <2>1 DEF GrantsInTime
\* the clock.
<1>4. ASSUME Tick
      PROVE  GrantsInTime'
  <2>1. ASSUME NEW r \in Scans, pc'[r] \in carrying
        PROVE  now' <= start'[sid'[r]] + 1
    <3>1. /\ now' = now + 1 /\ sid'[r] = sid[r] /\ start' = start
          /\ pc[r] \in carrying /\ start[sid[r]] = now
      BY <1>1, <1>4, <2>1 DEF Tick, Settled
    <3> QED
      BY <1>1, <3>1
  <2> QED
    BY <2>1 DEF GrantsInTime
<1>5. ASSUME NEW s \in Scans, ScanStep(s)
      PROVE  GrantsInTime'
  <2>1. CASE \/ \E new \in OnlineSessions : ServerGrants(s, new)
             \/ \E new \in OfflineSessions : OfflineGrants(s, new)
    BY <1>3, <2>1 DEF Sessions
  <2>2. CASE \/ SubmitBarcode(s) \/ Refuse(s) \/ FallBackOffline(s) \/ ClearRows(s)
             \/ StoreRow(s) \/ DeclareOfflineScan(s)
    BY <1>1, <1>2, <2>2
    DEF SubmitBarcode, Refuse, FallBackOffline, ClearRows, StoreRow, DeclareOfflineScan
  <2>3. CASE DispatchDenied(s) \/ DispatchGranted(s)
    BY <1>1, <1>2, <2>3 DEF DispatchDenied, DispatchGranted, ScanDone
  <2> QED
    BY <1>5, <2>1, <2>2, <2>3 DEF ScanStep
<1>6. ASSUME NEW t \in Lockers, LockStep(t)
      PROVE  GrantsInTime'
  BY <1>1, <1>2, <1>6 DEF LockStep, LockEnter, LockEnd, LockRequest, LockApply
<1>7. ASSUME NEW y \in Syncs, SyncStep(y)
      PROVE  GrantsInTime'
  BY <1>1, <1>2, <1>7
  DEF SyncStep, DepotStored, CommandLocks, PullAnswered, PullLost, ReconcileNothing,
      ReconcileDiverges, ReconcileMatches, ReconcileRow, ReconcileMemory,
      SyncEnds, SyncCancelled, SyncDone
<1>8. ASSUME ProcessStep
      PROVE  GrantsInTime'
  <2>1. UNCHANGED now /\ \A r \in Scans : pc'[r] = "idle" \/ (pc'[r] = pc[r] /\ sid'[r] = sid[r])
    BY <1>1, <1>8
    DEF ProcessStep, OpenUI, Boot, RestoreApplies, ServiceRestarts, Kill,
        PowerOff, ProcessEnds, CloseUI, LoseAlarm
  <2> QED
    BY <1>2, <2>1
<1>9. ASSUME \/ RequestScan \/ CancelScan
             \/ AlarmFires \/ AlarmReschedules \/ CheckStep
             \/ GeofenceDecides \/ GeofenceDispatches
             \/ ServerEnds \/ UNCHANGED vars
             \/ \E state \in Usable, returned \in BOOLEAN :
                    ServerReturns(state, returned)
      PROVE  GrantsInTime'
  <2>1. UNCHANGED now /\ \A r \in Scans : pc'[r] = pc[r] /\ sid'[r] = sid[r]
    BY <1>1, <1>9
    DEF RequestScan, CancelScan, AlarmFires, AlarmReschedules, CheckStep,
        CheckStarts, CheckExpiry, CheckReschedules, GeofenceDecides,
        GeofenceDispatches, ServerEnds, ServerReturns, vars
  <2> QED
    BY <1>2, <2>1
<1> QED
  BY <1>4, <1>5, <1>6, <1>7, <1>8, <1>9 DEF Next

\* A step moves the worker only within its check and its lock.
LEMMA WorkerMoves ==
    ASSUME Inv, LifeAgrees, CheckedInTime, [Next]_vars
    PROVE  \/ pc'[Worker] = pc[Worker] /\ expired' = expired
           \/ pc'[Worker] = "idle" /\ ctx' = LockedContext
           \/ LockStep(Worker) \/ CheckStep
<1> USE ThreadAssumption
<1> USE DEF Inv, TypeOK, Threads, Lockers, Goto, At, OnMain, env, rows, grants, check, restore
<1>1. ASSUME NEW s \in Scans, ScanStep(s)
      PROVE  pc'[Worker] = pc[Worker] /\ expired' = expired
  BY <1>1
  DEF ScanStep, SubmitBarcode, ServerGrants, OfflineGrants, Refuse,
      DispatchDenied, FallBackOffline, ClearRows, StoreRow,
      DeclareOfflineScan, DispatchGranted, ScanDone
<1>2. ASSUME NEW t \in Lockers, LockStep(t), t # Worker
      PROVE  pc'[Worker] = pc[Worker] /\ expired' = expired
  BY <1>2 DEF LockStep, LockEnter, LockEnd, LockRequest, LockApply
<1>3. ASSUME NEW y \in Syncs, SyncStep(y)
      PROVE  pc'[Worker] = pc[Worker] /\ expired' = expired
  BY <1>3
  DEF SyncStep, DepotStored, CommandLocks, PullAnswered, PullLost, ReconcileNothing,
      ReconcileDiverges, ReconcileMatches, ReconcileRow, ReconcileMemory,
      SyncEnds, SyncCancelled, SyncDone
<1>4. ASSUME ProcessStep
      PROVE  \/ pc'[Worker] = pc[Worker] /\ expired' = expired
             \/ pc'[Worker] = "idle" /\ ctx' = LockedContext
  BY <1>4
  DEF ProcessStep, OpenUI, Boot, RestoreApplies, ServiceRestarts, Kill,
      PowerOff, ProcessEnds, CloseUI, LoseAlarm
<1>5. ASSUME \/ RequestScan \/ CancelScan
             \/ AlarmFires \/ AlarmReschedules
             \/ GeofenceDecides \/ GeofenceDispatches
             \/ ServerEnds \/ Tick \/ UNCHANGED vars
             \/ \E state \in Usable, returned \in BOOLEAN :
                    ServerReturns(state, returned)
      PROVE  pc'[Worker] = pc[Worker] /\ expired' = expired
  BY <1>5
  DEF RequestScan, CancelScan, AlarmFires, AlarmReschedules, GeofenceDecides,
      GeofenceDispatches, ServerEnds, ServerReturns, Tick, vars
<1> QED
  BY <1>1, <1>2, <1>3, <1>4, <1>5 DEF Next

\* The clock, the switch and the worker's last run.
LEMMA ClockMoves ==
    ASSUME [Next]_vars
    PROVE  \/ UNCHANGED <<now, lastCheck, power>>
           \/ Tick \/ CheckStarts \/ Boot
           \/ UNCHANGED <<now, lastCheck>> /\ ~power'
<1> USE DEF env
<1>1. ASSUME NEW s \in Scans, ScanStep(s)
      PROVE  UNCHANGED <<now, lastCheck, power>>
  BY <1>1
  DEF ScanStep, SubmitBarcode, ServerGrants, OfflineGrants, Refuse,
      DispatchDenied, FallBackOffline, ClearRows, StoreRow,
      DeclareOfflineScan, DispatchGranted
<1>2. ASSUME NEW t \in Lockers, LockStep(t)
      PROVE  UNCHANGED <<now, lastCheck, power>>
  BY <1>2 DEF LockStep, LockEnter, LockEnd, LockRequest, LockApply
<1>3. ASSUME NEW y \in Syncs, SyncStep(y)
      PROVE  UNCHANGED <<now, lastCheck, power>>
  BY <1>3
  DEF SyncStep, DepotStored, CommandLocks, PullAnswered, PullLost, ReconcileNothing,
      ReconcileDiverges, ReconcileMatches, ReconcileRow, ReconcileMemory,
      SyncEnds, SyncCancelled
<1>4. ASSUME ProcessStep, ~Boot
      PROVE  UNCHANGED <<now, lastCheck>> /\ (UNCHANGED power \/ ~power')
  BY <1>4
  DEF ProcessStep, OpenUI, RestoreApplies, ServiceRestarts, Kill,
      PowerOff, ProcessEnds, CloseUI, LoseAlarm
<1>5. ASSUME \/ RequestScan \/ CancelScan
             \/ AlarmFires \/ AlarmReschedules
             \/ CheckExpiry \/ CheckReschedules
             \/ GeofenceDecides \/ GeofenceDispatches
             \/ ServerEnds \/ UNCHANGED vars
             \/ \E state \in Usable, returned \in BOOLEAN :
                    ServerReturns(state, returned)
      PROVE  UNCHANGED <<now, lastCheck, power>>
  BY <1>5
  DEF RequestScan, CancelScan, AlarmFires, AlarmReschedules,
      CheckExpiry, CheckReschedules, GeofenceDecides,
      GeofenceDispatches, ServerEnds, ServerReturns, vars
<1> QED
  BY <1>1, <1>2, <1>3, <1>4, <1>5 DEF Next, CheckStep

\* The worker runs within its period as long as the phone is on.
LEMMA CheckedStep ==
    ASSUME Inv, LifeAgrees, CheckedInTime, [Next]_vars
    PROVE  CheckedInTime'
<1> USE TimeAssumption, ThreadAssumption
<1>1. now \in Nat /\ lastCheck \in Nat
      /\ pc \in [Threads -> {"idle"} \cup LockPoints \cup ScanPoints \cup SyncPoints]
      /\ Worker \in Threads
  BY DEF Inv, TypeOK, Threads, Lockers
<1>2. pc'[Worker] \in {"idle"} \cup LockPoints
  <2>1. CASE LockStep(Worker) \/ CheckStep
    BY <1>1, <2>1
    DEF CheckedInTime, LockStep, LockEnter, LockEnd, LockRequest, LockApply, CheckStep,
        CheckStarts, CheckExpiry, CheckReschedules, Goto, LockPoints
  <2> QED
    BY <2>1, WorkerMoves DEF CheckedInTime
<1>3. lastCheck' <= now' /\ (power' => now' <= lastCheck' + CheckPeriod)
  <2>1. CASE Tick
    BY <1>1, <2>1 DEF Tick, CheckedInTime
  <2>2. CASE CheckStarts
    BY <1>1, <2>2 DEF CheckStarts
  <2>3. CASE Boot
    BY <1>1, <2>3 DEF Boot
  <2> QED
    BY <2>1, <2>2, <2>3, ClockMoves DEF CheckedInTime
<1> QED
  BY <1>2, <1>3 DEF CheckedInTime

\* The agreement of the threads and of the process is kept by every step.
LEMMA AgreesStep ==
    ASSUME Inv, ProcessAgrees, [Next]_vars
    PROVE  ProcessAgrees'
BY LifeStep, GrantsStep, CheckedStep DEF ProcessAgrees

LEMMA AgreesInit ==
    ASSUME Init
    PROVE  ProcessAgrees
BY ThreadAssumption, TimeAssumption
DEF Init, ProcessAgrees, LifeAgrees, GrantsInTime, CheckedInTime, Threads, Lockers,
    NoDecision

\* A session comes into memory from a scan, a reconciliation or a restoration.
LEMMA HolderMoves ==
    ASSUME Inv, [Next]_vars
    PROVE  \/ ctx'.sid \in {ctx.sid, NoSession}
           \/ \E s \in Scans : DispatchGranted(s)
           \/ \E y \in Syncs : ReconcileMemory(y)
           \/ RestoreApplies /\ ctx'.sid = stored /\ now < Expiry(stored)
              /\ stored \in Sessions /\ ctx'.state \in Usable
<1> USE DEF env, rows, grants, check, restore
<1>1. ASSUME \/ UNCHANGED ctx \/ ctx' = LockedContext
             \/ ctx' = ScanRequested(ctx) \/ ctx' = ScanCancelled(ctx)
             \/ ctx' = BarcodeCaptured(ctx) \/ ctx' = AccessDenied(ctx)
             \/ ctx' = LockRequested(ctx) \/ ctx' = LockApplied(ctx)
             \/ ctx' = GeofenceConfirmed(ctx, decision.next, decision.mark)
      PROVE  ctx'.sid \in {ctx.sid, NoSession}
  BY <1>1
  DEF Inv, TypeOK, Context, LockedContext, ScanRequested, ScanCancelled, BarcodeCaptured,
      AccessDenied, LockRequested, LockApplied, GeofenceConfirmed
<1>2. ASSUME NEW s \in Scans, ScanStep(s), ~DispatchGranted(s)
      PROVE  ctx'.sid \in {ctx.sid, NoSession}
  BY <1>1, <1>2
  DEF ScanStep, SubmitBarcode, ServerGrants, OfflineGrants, Refuse, DispatchDenied,
      FallBackOffline, ClearRows, StoreRow, DeclareOfflineScan
<1>3. ASSUME NEW t \in Lockers, LockStep(t)
      PROVE  ctx'.sid \in {ctx.sid, NoSession}
  BY <1>1, <1>3 DEF LockStep, LockEnter, LockEnd, LockRequest, LockApply
<1>4. ASSUME NEW y \in Syncs, SyncStep(y), ~ReconcileMemory(y)
      PROVE  ctx'.sid \in {ctx.sid, NoSession}
  BY <1>1, <1>4
  DEF SyncStep, DepotStored, CommandLocks, PullAnswered, PullLost, ReconcileNothing, ReconcileDiverges,
      ReconcileMatches, ReconcileRow, SyncEnds, SyncCancelled
<1>5. ASSUME ProcessStep, ctx'.sid \notin {ctx.sid, NoSession}
      PROVE  RestoreApplies /\ ctx'.sid = stored /\ now < Expiry(stored)
             /\ stored \in Sessions /\ ctx'.state \in Usable
  <2>1. RestoreApplies
    BY <1>1, <1>5
    DEF ProcessStep, OpenUI, Boot, ServiceRestarts, Kill, PowerOff, ProcessEnds, CloseUI,
        LoseAlarm
  <2>2. ctx' # LockedContext
    BY <1>5 DEF LockedContext
  <2>3. /\ stored # NoSession /\ ~(Expiry(stored) <= now)
        /\ ctx' = [state |-> dbState[stored], sid |-> stored, returned |-> dbReturned[stored]]
    BY <2>1, <2>2 DEF RestoreApplies
  <2>4. stored \in Sessions /\ dbState[stored] \in Usable
    BY <2>3 DEF Inv, TypeOK
  <2>5. start[stored] \in Int /\ now \in Int
    BY <2>4, TimeAssumption DEF Inv, TypeOK, Never
  <2> QED
    BY <2>1, <2>3, <2>4, <2>5, TimeAssumption DEF Expiry
<1>6. ASSUME \/ RequestScan \/ CancelScan
             \/ AlarmFires \/ AlarmReschedules \/ CheckStep
             \/ GeofenceDecides \/ GeofenceDispatches
             \/ ServerEnds \/ Tick \/ UNCHANGED vars
             \/ \E state \in Usable, returned \in BOOLEAN :
                    ServerReturns(state, returned)
      PROVE  ctx'.sid \in {ctx.sid, NoSession}
  BY <1>1, <1>6
  DEF RequestScan, CancelScan, AlarmFires, AlarmReschedules, CheckStep,
      CheckStarts, CheckExpiry, CheckReschedules, GeofenceDecides,
      GeofenceDispatches, ServerEnds, ServerReturns, Tick, vars
<1> QED
  BY <1>2, <1>3, <1>4, <1>5, <1>6, Zenon DEF Next

\* With one scan at a time and no pull, a session in memory is the one the driver works
\* with: no scan goes on beside it.
LEMMA HolderStep ==
    ASSUME NEW s, Scans = {s}, Syncs = {},
           Inv, ProcessAgrees, OneHolder, [Next]_vars
    PROVE  OneHolder'
<1> USE ThreadAssumption, SessionAssumption
<1> USE DEF OneHolder, Usable, Threads, Lockers, Goto, At, OnMain, env, rows, grants, check,
            restore
<1>1. /\ pc \in [Threads -> {"idle"} \cup LockPoints \cup ScanPoints \cup SyncPoints]
      /\ ctx \in Context /\ ctx' \in Context
  BY TypeStep DEF Inv, TypeOK
<1> USE DEF Context
<1>2. ASSUME NEW r \in Scans, ScanStep(r)
      PROVE  OneHolder'
  <2>1. r = s
    BY <1>2
  <2>2. CASE SubmitBarcode(s)
    BY <1>1, <2>2 DEF SubmitBarcode, BarcodeCaptured
  <2>3. CASE DispatchGranted(s)
    BY <1>1, <2>3 DEF DispatchGranted, AccessGranted, ScanDone
  <2>4. CASE DispatchDenied(s)
    BY <1>1, <2>4 DEF DispatchDenied, AccessDenied, ScanDone
  <2>5. CASE ~SubmitBarcode(s) /\ ~DispatchGranted(s) /\ ~DispatchDenied(s)
    <3>1. pc[s] # "idle" /\ UNCHANGED ctx
      BY <1>2, <2>1, <2>5
      DEF ScanStep, ServerGrants, OfflineGrants, Refuse,
          FallBackOffline, ClearRows, StoreRow, DeclareOfflineScan
    <3> QED
      BY <3>1
  <2> QED
    BY <2>2, <2>3, <2>4, <2>5
\* a step that leaves the scans where they are, or ends them.
<1>3. ASSUME \A r \in Scans : pc'[r] = pc[r] \/ pc'[r] = "idle",
             \/ ctx' = ctx \/ ctx'.sid = NoSession
             \/ ctx'.sid = ctx.sid /\ ctx'.state \in Usable \cup {"LOCKING"}
      PROVE  OneHolder'
  BY <1>3
<1>4. ASSUME NEW t \in Lockers, LockStep(t)
      PROVE  OneHolder'
  <2>1. \A r \in Scans : pc'[r] = pc[r]
    BY <1>1, <1>4 DEF LockStep, LockEnter, LockEnd, LockRequest, LockApply
  <2>2. \/ ctx' = ctx \/ ctx'.sid = NoSession
        \/ ctx'.sid = ctx.sid /\ ctx'.state \in Usable \cup {"LOCKING"}
    BY <1>1, <1>4
    DEF LockStep, LockEnter, LockEnd, LockRequest, LockApply, LockRequested, LockApplied,
        LockedContext
  <2> QED
    BY <1>3, <2>1, <2>2
<1>5. ASSUME ProcessStep
      PROVE  OneHolder'
  <2>1. CASE RestoreApplies
    <3>1. \A r \in Scans : pc[r] = "idle" /\ pc'[r] = "idle"
      BY <2>1 DEF RestoreApplies, MutexFree, ProcessAgrees, LifeAgrees
    <3>2. ctx' = LockedContext \/ ctx'.state \in Usable
      BY <2>1 DEF RestoreApplies, Inv, TypeOK
    <3> QED
      BY <3>1, <3>2 DEF LockedContext
  <2>2. CASE ~RestoreApplies
    <3>1. \A r \in Scans : pc'[r] = pc[r] \/ pc'[r] = "idle"
      BY <1>1, <1>5, <2>2
      DEF ProcessStep, OpenUI, Boot, ServiceRestarts, Kill,
          PowerOff, ProcessEnds, CloseUI, LoseAlarm
    <3>2. ctx' = ctx \/ ctx'.sid = NoSession
      BY <1>5, <2>2
      DEF ProcessStep, OpenUI, Boot, ServiceRestarts, Kill,
          PowerOff, ProcessEnds, CloseUI, LoseAlarm, LockedContext
    <3> QED
      BY <1>3, <3>1, <3>2
  <2> QED
    BY <2>1, <2>2
<1>6. ASSUME \/ RequestScan \/ CancelScan
             \/ AlarmFires \/ AlarmReschedules \/ CheckStep
             \/ GeofenceDecides \/ GeofenceDispatches
             \/ ServerEnds \/ Tick \/ UNCHANGED vars
             \/ \E state \in Usable, returned \in BOOLEAN :
                    ServerReturns(state, returned)
      PROVE  OneHolder'
  <2>1. \A r \in Scans : pc'[r] = pc[r]
    BY <1>1, <1>6
    DEF RequestScan, CancelScan, AlarmFires, AlarmReschedules, CheckStep,
        CheckStarts, CheckExpiry, CheckReschedules, GeofenceDecides,
        GeofenceDispatches, ServerEnds, ServerReturns, Tick, vars
  <2>2. CASE RequestScan \/ CancelScan
    BY <1>1, <1>3, <2>1, <2>2 DEF RequestScan, CancelScan, ScanRequested, ScanCancelled
  <2>3. CASE GeofenceDispatches
    BY <1>1, <1>3, <2>1, <2>3 DEF GeofenceDispatches, GeofenceConfirmed
  <2>4. CASE ~RequestScan /\ ~CancelScan /\ ~GeofenceDispatches
    BY <1>3, <1>6, <2>1, <2>4
    DEF AlarmFires, AlarmReschedules, CheckStep, CheckStarts, CheckExpiry, CheckReschedules,
        GeofenceDecides, ServerEnds, ServerReturns, Tick, vars
  <2> QED
    BY <2>2, <2>3, <2>4
<1> QED
  BY <1>2, <1>4, <1>5, <1>6, Zenon DEF Next

\* A deadline of the session in memory stays watched: whatever else happens, the clock
\* passes it by no more than a period of the worker, which has run before it or locks.
LEMMA WatchKept ==
    ASSUME Inv, ProcessAgrees, OneHolder, [Next]_vars, ~CheckStep, NEW d \in Int,
           ctx.sid # NoSession, ctx'.sid # NoSession,
           now <= d + CheckPeriod, lastCheck <= d \/ WorkerLocks
    PROVE  now' <= d + CheckPeriod /\ (lastCheck' <= d \/ WorkerLocks')
<1> USE TimeAssumption, ThreadAssumption
<1>1. /\ now \in Nat /\ lastCheck \in Nat /\ up /\ power
      /\ pc \in [Threads -> {"idle"} \cup LockPoints \cup ScanPoints \cup SyncPoints]
      /\ Worker \in Threads
  BY DEF Inv, TypeOK, Threads, Lockers, ProcessAgrees, LifeAgrees, LockedContext
<1>2. CASE Tick
  <2>1. pc[Worker] = "idle"
    BY <1>1, <1>2 DEF Tick, Settled, ProcessAgrees, CheckedInTime, LockPoints
  <2>2. lastCheck <= d
    BY <2>1 DEF WorkerLocks
  <2> QED
    BY <1>1, <1>2, <2>2 DEF Tick
<1>3. CASE ~Tick
  <2>1. now' = now /\ lastCheck' = lastCheck
    BY <1>1, <1>3, ClockMoves DEF CheckStep, Boot
  <2>2. WorkerLocks => WorkerLocks'
    <3>1. CASE LockStep(Worker)
      BY <1>1, <3>1
      DEF LockStep, LockEnter, LockEnd, LockRequest, LockApply, LockApplied, LockedContext,
          Goto, At, WorkerLocks, OneHolder, Usable
    <3>2. CASE ~LockStep(Worker)
      BY <3>2, WorkerMoves DEF ProcessAgrees, WorkerLocks, LockedContext
    <3> QED
      BY <3>1, <3>2
  <2> QED
    BY <2>1, <2>2
<1> QED
  BY <1>2, <1>3

\* Only a pull brings a depot.
LEMMA DepotKept ==
    ASSUME Syncs = {}, [Next]_vars
    PROVE  hasDepot' = hasDepot
<1>1. ASSUME NEW s \in Scans, ScanStep(s)
      PROVE  hasDepot' = hasDepot
  BY <1>1
  DEF ScanStep, SubmitBarcode, ServerGrants, OfflineGrants, Refuse,
      DispatchDenied, FallBackOffline, ClearRows, StoreRow,
      DeclareOfflineScan, DispatchGranted
<1>2. ASSUME NEW t \in Lockers, LockStep(t)
      PROVE  hasDepot' = hasDepot
  BY <1>2 DEF LockStep, LockEnter, LockEnd, LockRequest, LockApply
<1>3. ASSUME ProcessStep
      PROVE  hasDepot' = hasDepot
  BY <1>3
  DEF ProcessStep, OpenUI, Boot, RestoreApplies, ServiceRestarts, Kill, PowerOff,
      ProcessEnds, CloseUI, LoseAlarm
<1>4. ASSUME \/ RequestScan \/ CancelScan
             \/ AlarmFires \/ AlarmReschedules \/ CheckStep
             \/ GeofenceDecides \/ GeofenceDispatches
             \/ ServerEnds \/ Tick \/ UNCHANGED vars
             \/ \E state \in Usable, returned \in BOOLEAN :
                    ServerReturns(state, returned)
      PROVE  hasDepot' = hasDepot
  BY <1>4
  DEF RequestScan, CancelScan, AlarmFires, AlarmReschedules, CheckStep,
      CheckStarts, CheckExpiry, CheckReschedules, GeofenceDecides,
      GeofenceDispatches, ServerEnds, ServerReturns, Tick, vars
<1> QED
  BY <1>1, <1>2, <1>3, <1>4 DEF Next

\* What the phone is granted, restored or keeps expires under watch.
LEMMA ExpiryWatchStep ==
    ASSUME NEW s, Scans = {s}, Syncs = {},
           Inv, ProcessAgrees, OneHolder, ExpiryWatched, [Next]_vars
    PROVE  ExpiryWatched'
<1> USE TimeAssumption, ThreadAssumption
<1> SUFFICES ASSUME ctx'.sid # NoSession, hasDepot'
             PROVE  ExpiryWatched'
  BY DEF ExpiryWatched
<1>0. hasDepot
  BY DepotKept
<1> DEFINE limit == Expiry(ctx'.sid)
<1>1. /\ now \in Nat /\ lastCheck \in Nat /\ lastCheck <= now
      /\ pc \in [Threads -> {"idle"} \cup LockPoints \cup ScanPoints \cup SyncPoints]
      /\ Worker \in Threads
  BY DEF Inv, TypeOK, Threads, Lockers, ProcessAgrees, CheckedInTime
<1>2. CASE ctx'.sid = ctx.sid
  <2>1. limit \in Int /\ Expiry(ctx.sid)' = limit /\ limit = Expiry(ctx.sid)
    <3>1. ctx.sid \in Sessions /\ start[ctx.sid] \in 0..MaxTime
      BY <1>2, CarriedWereGranted
    <3>2. start'[ctx.sid] = start[ctx.sid]
      BY <3>1, GrantsKeepStart DEF Never
    <3> QED
      BY <1>2, <3>1, <3>2 DEF Expiry
  <2>2. power /\ up
    BY <1>2 DEF ProcessAgrees, LifeAgrees, LockedContext
  <2> HIDE DEF limit
  <2>3. /\ now <= limit + CheckPeriod
        /\ lastCheck <= limit \/ WorkerLocks \/ (pc[Worker] = "after" /\ expired)
    BY <1>0, <1>2, <2>1 DEF ExpiryWatched
  <2>4. SUFFICES /\ now' <= limit + CheckPeriod
                 /\ \/ lastCheck' <= limit \/ WorkerLocks'
                    \/ pc'[Worker] = "after" /\ expired'
    BY <2>1, <1>2 DEF ExpiryWatched
  <2>5. CASE CheckStarts
    <3>1. /\ now' = now /\ lastCheck' = now
          /\ pc'[Worker] = IF LockMissed THEN "enter" ELSE "after"
      BY <1>0, <1>1, <1>2, <2>5 DEF CheckStarts, Goto
    <3>2. expired' = (limit < now)
      BY <1>0, <1>2, <2>1, <2>5, Zenon DEF CheckStarts
    <3>3. CASE LockMissed
      BY <2>3, <3>1, <3>3 DEF WorkerLocks
    <3>4. CASE ~LockMissed
      <4>1. CASE limit < now
        <5>1. expired'
          BY <3>2, <4>1, Zenon
        <5> QED
          BY <2>3, <3>1, <3>4, <5>1
      <4>2. CASE ~(limit < now)
        BY <1>1, <2>1, <2>3, <3>1, <4>2
      <4> QED
        BY <4>1, <4>2
    <3> QED
      BY <3>3, <3>4
  <2>6. CASE CheckExpiry
    <3>1. UNCHANGED <<now, lastCheck>>
      BY <2>6 DEF CheckExpiry, env
    <3>2. pc[Worker] = "after" /\ pc'[Worker] = IF expired THEN "enter" ELSE "after"
      BY <1>1, <2>6 DEF CheckExpiry, Goto, At
    <3> QED
      BY <2>3, <3>1, <3>2 DEF WorkerLocks
  <2>7. CASE CheckReschedules
    BY <1>1, <2>3, <2>7 DEF CheckReschedules, At, WorkerLocks
  <2>8. CASE ~CheckStep
    <3>1. CASE lastCheck <= limit \/ WorkerLocks
      BY <1>2, <2>1, <2>3, <2>8, <3>1, WatchKept
    <3>2. CASE pc[Worker] = "after" /\ expired
      <4>1. ~LockStep(Worker)
        BY <3>2 DEF LockStep, LockEnter, LockEnd, LockRequest, LockApply, At
      <4>2. pc'[Worker] = "after" /\ expired'
        <5>1. ctx' # LockedContext
          BY DEF LockedContext
        <5>2. pc'[Worker] = pc[Worker] /\ expired' = expired
          BY <2>8, <4>1, <5>1, WorkerMoves, Zenon DEF ProcessAgrees
        <5> QED
          BY <3>2, <5>2, Zenon
      <4>3. ~Tick
        BY <1>1, <3>2 DEF Tick, Settled
      <4>4. now' = now
        BY <2>2, <2>8, <4>3, ClockMoves DEF Boot, CheckStep
      <4> QED
        BY <2>3, <4>2, <4>4
    <3> QED
      BY <2>3, <3>1, <3>2
  <2> QED
    BY <2>5, <2>6, <2>7, <2>8 DEF CheckStep
<1>3. CASE DispatchGranted(s)
  <2>1. /\ pc[s] = "declared" /\ ctx'.sid = sid[s]
        /\ UNCHANGED <<now, lastCheck, start>>
    BY <1>3 DEF DispatchGranted, OnMain, At, AccessGranted
  <2>2. start[sid[s]] \in 0..MaxTime /\ now <= start[sid[s]] + 1
    BY <2>1, CarriedWereGranted DEF ProcessAgrees, GrantsInTime
  <2>3. now <= limit
    BY <1>1, <2>1, <2>2 DEF Expiry
  <2> QED
    BY <1>1, <2>1, <2>2, <2>3 DEF ExpiryWatched, Expiry
<1>4. CASE RestoreApplies /\ ctx'.sid = stored /\ now < Expiry(stored) /\ stored \in Sessions
  <2>1. UNCHANGED <<now, lastCheck, start>>
    BY <1>4 DEF RestoreApplies, grants
  <2>2. start[stored] \in 0..MaxTime
    BY <1>4, CarriedWereGranted, SessionAssumption DEF Inv, ComingIsStored, Sessions
  <2> QED
    BY <1>1, <1>4, <2>1, <2>2 DEF ExpiryWatched, Expiry
<1> QED
  BY <1>2, <1>3, <1>4, HolderMoves

\* Whatever dies or restarts, and whatever the alarm does, a phone that has its depot, on
\* which one driver scans at a time and no pull interferes, is never usable longer than
\* one period of LockCheckWorker after the session's duration.  (Without a depot the
\* worker looks at nothing: UsableInTime is not held.)
THEOREM ExpiredOnTime ==
    ASSUME NEW s, Scans = {s}, Syncs = {}
    PROVE  Spec => []ExpiryInv
<1>1. Init => ProcessAgrees /\ OneHolder /\ ExpiryWatched
  <2> SUFFICES ASSUME Init
               PROVE  ProcessAgrees /\ OneHolder /\ ExpiryWatched
    OBVIOUS
  <2> QED
    BY AgreesInit DEF Init, OneHolder, ExpiryWatched, LockedContext
<1>2. /\ ProcessAgrees /\ OneHolder /\ ExpiryWatched
      /\ Inv /\ [Next]_vars
      => (ProcessAgrees /\ OneHolder /\ ExpiryWatched)'
  BY AgreesStep, HolderStep, ExpiryWatchStep
<1>3. Inv /\ ProcessAgrees /\ OneHolder /\ ExpiryWatched => ExpiryInv
  BY DEF ExpiryInv, ExpiredInTime, UsableInTime, ExpiryWatched, Inv, UsableHasSession
<1> QED
  BY <1>1, <1>2, <1>3, InvHolds, PTL DEF Spec

\* While the process and the interface live, a restoration finds no row: the first scan
\* comes after it.
LEMMA NothingRestoredStep ==
    ASSUME {"kill", "powerOff", "closeUI"} \cap Faults = {},
           Inv, ProcessAgrees, NothingRestored, [Next]_vars
    PROVE  NothingRestored'
<1> USE DEF env, rows, grants, check, restore
<1>1. UNCHANGED <<power, ui, stored>> \/ OpenUI \/ RestoreApplies
  <2>1. ASSUME NEW s \in Scans, ScanStep(s)
        PROVE  UNCHANGED <<power, ui, stored>>
    BY <2>1
    DEF ScanStep, SubmitBarcode, ServerGrants, OfflineGrants, Refuse,
        DispatchDenied, FallBackOffline, ClearRows, StoreRow,
        DeclareOfflineScan, DispatchGranted
  <2>2. ASSUME NEW t \in Lockers, LockStep(t)
        PROVE  UNCHANGED <<power, ui, stored>>
    BY <2>2 DEF LockStep, LockEnter, LockEnd, LockRequest, LockApply
  <2>3. ASSUME NEW y \in Syncs, SyncStep(y)
        PROVE  UNCHANGED <<power, ui, stored>>
    BY <2>3
    DEF SyncStep, DepotStored, CommandLocks, PullAnswered, PullLost, ReconcileNothing,
        ReconcileDiverges, ReconcileMatches, ReconcileRow, ReconcileMemory,
        SyncEnds, SyncCancelled
  <2>4. ASSUME ProcessStep, ~OpenUI, ~RestoreApplies
        PROVE  UNCHANGED <<power, ui, stored>>
    BY <2>4
    DEF NothingRestored, ProcessStep, Boot, ServiceRestarts, Kill, PowerOff, CloseUI,
        LoseAlarm
  <2>5. ASSUME \/ RequestScan \/ CancelScan
               \/ AlarmFires \/ AlarmReschedules \/ CheckStep
               \/ GeofenceDecides \/ GeofenceDispatches
               \/ ServerEnds \/ Tick \/ UNCHANGED vars
               \/ \E state \in Usable, returned \in BOOLEAN :
                      ServerReturns(state, returned)
        PROVE  UNCHANGED <<power, ui, stored>>
    BY <2>5
    DEF RequestScan, CancelScan, AlarmFires, AlarmReschedules, CheckStep,
        CheckStarts, CheckExpiry, CheckReschedules, GeofenceDecides,
        GeofenceDispatches, ServerEnds, ServerReturns, Tick, vars
  <2> QED
    BY <2>1, <2>2, <2>3, <2>4, <2>5 DEF Next
<1>2. power' /\ stored' = NoSession /\ (~ui' => ~ui)
  <2>1. CASE OpenUI
    <3>1. CurrentRow = {}
      BY <2>1 DEF OpenUI, NothingRestored, CurrentRow
    <3> QED
      BY <2>1, <3>1 DEF OpenUI, RestoreReads, NothingRestored
  <2>2. CASE RestoreApplies
    BY <2>2 DEF RestoreApplies, NothingRestored
  <2>3. CASE UNCHANGED <<power, ui, stored>>
    BY <2>3, Zenon DEF NothingRestored
  <2> QED
    BY <1>1, <2>1, <2>2, <2>3
<1>3. ~ui => \A x \in Sessions : db'[x] = "absent"
  <2>1. ASSUME NEW s \in Scans, StoreRow(s)
        PROVE  ui
    BY <2>1 DEF StoreRow, OnMain, At, ProcessAgrees, LifeAgrees
  <2>2. CASE UNCHANGED db
    BY <2>2 DEF NothingRestored
  <2>3. CASE EndAll
    BY <2>3 DEF EndAll, NothingRestored
  <2> QED
    BY <2>1, <2>2, <2>3, RowsStep
<1> QED
  BY <1>2, <1>3 DEF NothingRestored

\* The catch-up window of the worker reaches back further than its period: a lock
\* instant that passed since its last run is still in it.
LEMMA MissedIsSeen ==
    ASSUME TypeOK, CheckPeriod < Window, now <= lastCheck + CheckPeriod,
           NEW t \in LockTimes, lastCheck <= t, t < now
    PROVE  LockMissed
<1> DEFINE from == now - Window
<1>1. from \in Int /\ t \in Nat /\ t > from /\ LockTimes \subseteq Nat /\ now \in Nat
  BY TimeAssumption DEF TypeOK
<1> HIDE DEF from
<1>2. /\ NextLock(from) \in LockTimes
      /\ NextLock(from) <= t
  BY <1>1, NextLockIsFirst
<1>3. NextLock(from) \in Nat /\ NextLock(from) <= now
  <2>1. NextLock(from) \in Nat /\ NextLock(from) <= t
    BY <1>1, <1>2
  <2> QED
    BY <1>1, <2>1
<1>4. NextLock(now - Window) \in Nat /\ NextLock(now - Window) <= now
  BY <1>3 DEF from
<1> QED
  BY <1>4 DEF LockMissed, Never

\* A session granted before a lock instant is under watch until the phone is locked.
LEMMA LocksWatchStep ==
    ASSUME NEW s, Scans = {s}, Syncs = {}, CheckPeriod < Window,
           Inv, ProcessAgrees, OneHolder, NothingRestored, LocksWatched, [Next]_vars
    PROVE  LocksWatched'
<1> USE TimeAssumption, ThreadAssumption
<1> SUFFICES ASSUME ctx'.sid # NoSession, hasDepot', NEW t \in LockTimes, start'[ctx'.sid] < t
             PROVE  now' <= t + CheckPeriod /\ (lastCheck' <= t \/ WorkerLocks')
  BY DEF LocksWatched
<1>0. hasDepot
  BY DepotKept
<1>1. /\ now \in Nat /\ lastCheck \in Nat /\ lastCheck <= now /\ t \in Nat
      /\ pc \in [Threads -> {"idle"} \cup LockPoints \cup ScanPoints \cup SyncPoints]
      /\ Worker \in Threads
  BY DEF Inv, TypeOK, Threads, Lockers, ProcessAgrees, CheckedInTime
<1>2. CASE ctx'.sid = ctx.sid
  <2>1. start[ctx.sid] < t
    <3>1. ctx.sid \in Sessions /\ start[ctx.sid] \in 0..MaxTime
      BY <1>2, CarriedWereGranted
    <3> QED
      BY <1>2, <3>1, GrantsKeepStart DEF Never
  <2>2. now <= t + CheckPeriod /\ (lastCheck <= t \/ WorkerLocks)
    BY <1>0, <1>2, <2>1 DEF LocksWatched
  <2>3. CASE CheckStarts
    <3>1. /\ now' = now /\ lastCheck' = now /\ power /\ pc[Worker] = "idle"
          /\ pc'[Worker] = IF LockMissed THEN "enter" ELSE "after"
      BY <1>0, <1>1, <1>2, <2>3 DEF CheckStarts, Goto
    <3>2. now <= lastCheck + CheckPeriod /\ lastCheck <= t
      BY <2>2, <3>1 DEF ProcessAgrees, CheckedInTime, WorkerLocks
    <3>3. t < now => LockMissed
      BY <3>2, MissedIsSeen DEF Inv
    <3> QED
      BY <1>1, <2>2, <3>1, <3>3 DEF WorkerLocks
  <2>4. CASE CheckExpiry
    <3>1. UNCHANGED <<now, lastCheck>> /\ pc[Worker] = "after"
      BY <2>4 DEF CheckExpiry, env, At
    <3> QED
      BY <2>2, <3>1 DEF WorkerLocks
  <2>5. CASE CheckReschedules
    BY <2>2, <2>5 DEF CheckReschedules, At, WorkerLocks
  <2>6. CASE ~CheckStep
    BY <1>1, <1>2, <2>2, <2>6, WatchKept
  <2> QED
    BY <2>3, <2>4, <2>5, <2>6 DEF CheckStep
<1>3. CASE DispatchGranted(s)
  <2>1. /\ pc[s] = "declared" /\ ctx'.sid = sid[s]
        /\ UNCHANGED <<now, lastCheck, start>>
    BY <1>3 DEF DispatchGranted, OnMain, At, AccessGranted
  <2>2. start[sid[s]] \in 0..MaxTime /\ now <= start[sid[s]] + 1
    BY <2>1, CarriedWereGranted DEF ProcessAgrees, GrantsInTime
  <2>3. now <= t
    BY <1>1, <2>1, <2>2
  <2> QED
    BY <1>1, <2>1, <2>3
<1>4. ~(RestoreApplies /\ ctx'.sid = stored)
  BY DEF NothingRestored
<1> QED
  BY <1>2, <1>3, <1>4, HolderMoves

\* A phone that has its depot is locked for the night: while the process and the interface live, even if
\* the system loses the exact alarm, a session granted before a lock instant does not
\* leave the phone usable longer than one period of the worker after it, as long as the
\* window in which the worker catches an instant up is longer than its period.
THEOREM LockedOnTime ==
    ASSUME NEW s, Scans = {s}, Syncs = {}, CheckPeriod < Window,
           {"kill", "powerOff", "closeUI"} \cap Faults = {}
    PROVE  Spec => []ScheduleInv
<1> DEFINE I == ProcessAgrees /\ OneHolder /\ NothingRestored /\ LocksWatched
<1>1. Init => I
  <2> SUFFICES ASSUME Init
               PROVE  I
    OBVIOUS
  <2> QED
    BY AgreesInit DEF Init, OneHolder, NothingRestored, LocksWatched, LockedContext
<1>2. I /\ Inv /\ [Next]_vars => I'
  BY AgreesStep, HolderStep, NothingRestoredStep, LocksWatchStep
<1>3. Inv /\ I => ScheduleInv
  BY DEF ScheduleInv, LockedInTime, LocksWatched, Inv, UsableHasSession
<1> QED
  BY <1>1, <1>2, <1>3, InvHolds, PTL DEF Spec
=============================================================================
