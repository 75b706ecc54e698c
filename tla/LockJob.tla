------------------------------ MODULE LockJob ------------------------------
(***************************************************************************)
(* The job that orders the phones of each depot to lock.  It runs each     *)
(* minute (one slot), under a lock of Redis, and looks back over a window  *)
(* of Window slots, so that a worker that misses some minutes misses no    *)
(* lock.  Administrators change the schedule of a depot meanwhile.         *)
(***************************************************************************)
EXTENDS DepotRules

CONSTANTS
    Depots,         \* numbered in the order in which the job reads them
    Schedules,
    Terminals,      \* enrolled phones
    Instances,      \* processes of the worker
    Window,         \* slots the job looks back
    MaxOutage,      \* bound: slots in a row without a complete pass
    OrderTTL,       \* life of an order, in slots
    LastSlot        \* bound of the clock

VARIABLES
    slotNow,
    home,       \* devices.depotId
    rules,      \* the schedule of each depot
    changed,    \* when it was last changed
    pass,       \* the pass each instance runs
    leader,     \* lock:job:lock-scheduler is taken, for this slot
    fired,      \* instances whose cron has run in this slot
    complete,   \* a pass of this slot went through every depot
    outage,     \* slots in a row without one
    ordered     \* the orders: phone, instant, expiry

lockJobVars == <<slotNow, home, rules, changed, pass, leader, fired, complete, outage, ordered>>

ASSUME LockJobAssumption ==
    /\ Window \in Nat /\ MaxOutage \in Nat /\ OrderTTL \in Nat /\ LastSlot \in Nat
    /\ MaxOutage < Window /\ Window <= DaySlots /\ Depots \subseteq Nat

\* An override whose time is not a time: parseTime throws.
Broken == [kind |-> "broken"]
NotAtWork == [pc |-> "rest"]
Horizon == 2

\* The days a pass may look at, and the lock instant of each.
Days == -2 .. LastSlot \div DaySlots + Horizon
LocksOn(s, d) == resolveDayRules(s, d).lockTime # Off
LockAt(s, d) == instantForLocalTime(s, d, resolveDayRules(s, d).lockTime)

\* The times of a schedule are times of a day.
ASSUME ScheduleAssumption ==
    /\ Broken \notin Schedules
    /\ \A s \in Schedules :
           /\ s.start \in 0 .. DaySlots - 1
           /\ \A d \in Days : LocksOn(s, d) => resolveDayRules(s, d).lockTime \in 0 .. DaySlots - 1

JobPasses == {NotAtWork} \cup
    [pc : {"depots"}, todo : SUBSET Depots, sound : BOOLEAN] \cup
    [pc : {"phones"}, todo : SUBSET Depots, sound : BOOLEAN, depot : Depots, due : Int,
     left : SUBSET Terminals]

LockJobTypeOK ==
    /\ slotNow \in 0..LastSlot /\ home \in [Terminals -> Depots]
    /\ rules \in [Depots -> Schedules \cup {Broken}] /\ changed \in [Depots -> Int]
    /\ pass \in [Instances -> JobPasses]
    /\ leader \in BOOLEAN /\ fired \subseteq Instances /\ complete \in BOOLEAN
    /\ outage \in 0..MaxOutage
    /\ ordered \subseteq [phone : Terminals, at : Int, until : Int]

LockJobInit ==
    /\ slotNow = 0 /\ home \in [Terminals -> Depots]
    /\ rules \in [Depots -> Schedules] /\ changed = [d \in Depots |-> -1]
    /\ pass = [w \in Instances |-> NotAtWork]
    /\ leader = FALSE /\ fired = {}
    /\ complete = FALSE /\ outage = 0 /\ ordered = {}

-----------------------------------------------------------------------------
(* The pass: lock-scheduler.job.ts, leader-lock.ts *)

Pass(w, r) == pass' = [pass EXCEPT ![w] = r]

\* The cron of an instance, once a slot.  SET NX; a Redis that does not answer
\* lets the pass run.
Trigger(w) ==
    /\ pass[w] = NotAtWork /\ w \notin fired
    /\ fired' = fired \cup {w}
    /\ \/ ~leader /\ leader' = TRUE
          /\ Pass(w, [pc |-> "depots", todo |-> Depots, sound |-> TRUE])
       \/ leader /\ UNCHANGED <<leader, pass>>
       \/ UNCHANGED leader /\ Pass(w, [pc |-> "depots", todo |-> Depots, sound |-> TRUE])
    /\ UNCHANGED <<slotNow, rules, changed, complete, outage, ordered, home>>

Due(d) == nextLockInstant(rules[d], slotNow - Window, Horizon)

\* Mutant: a depot whose schedule cannot be read ends the pass.
OpenDepotOrStop(w, d) ==
    /\ pass[w].pc = "depots" /\ pass[w].todo # {} /\ d = Min(pass[w].todo)
    /\ LET rest == [pass[w] EXCEPT !.todo = @ \ {d}]
       IN  Pass(w, IF rules[d] = Broken THEN [pass[w] EXCEPT !.todo = {}]
                   ELSE IF Due(d) = Never \/ Due(d) > slotNow THEN rest
                   ELSE [pc |-> "phones", todo |-> rest.todo, sound |-> rest.sound, depot |-> d,
                         due |-> Due(d), left |-> {t \in Terminals : home[t] = d}])
    /\ UNCHANGED <<slotNow, rules, changed, leader, fired, complete, outage, ordered, home>>

\* handleDepot: a schedule that cannot be read costs its depot only.
OpenDepot(w, d) ==
    /\ pass[w].pc = "depots" /\ pass[w].todo # {} /\ d = Min(pass[w].todo)
    /\ LET rest == [pass[w] EXCEPT !.todo = @ \ {d}]
       IN  Pass(w, IF rules[d] = Broken \/ Due(d) = Never \/ Due(d) > slotNow THEN rest
                   ELSE [pc |-> "phones", todo |-> rest.todo, sound |-> rest.sound, depot |-> d,
                         due |-> Due(d), left |-> {t \in Terminals : home[t] = d}])
    /\ UNCHANGED <<slotNow, rules, changed, leader, fired, complete, outage, ordered, home>>

\* enqueue: the key of idempotency is the lock instant.
OrderLock(w, t) ==
    /\ pass[w].pc = "phones" /\ t \in pass[w].left
    /\ ordered' = IF \E o \in ordered : o.phone = t /\ o.at = pass[w].due THEN ordered
                  ELSE ordered \cup {[phone |-> t, at |-> pass[w].due, until |-> slotNow + OrderTTL]}
    /\ Pass(w, [pass[w] EXCEPT !.left = @ \ {t}])
    /\ UNCHANGED <<slotNow, rules, changed, leader, fired, complete, outage, home>>

\* An enqueue that fails ends its depot; the next pass tries again.
\* Bound: MaxOutage slots in a row.
OrderFails(w) ==
    /\ pass[w].pc = "phones" /\ pass[w].left # {} /\ outage < MaxOutage
    /\ Pass(w, [pc |-> "depots", todo |-> pass[w].todo, sound |-> FALSE])
    /\ UNCHANGED <<slotNow, rules, changed, leader, fired, complete, outage, ordered, home>>

\* Then the sessions that never came back are reported (AlertQueue).
EndDepot(w) ==
    /\ pass[w].pc = "phones" /\ pass[w].left = {}
    /\ Pass(w, [pc |-> "depots", todo |-> pass[w].todo, sound |-> pass[w].sound])
    /\ UNCHANGED <<slotNow, home, rules, changed, leader, fired, complete, outage, ordered>>

\* The sessions that have run out are expired then (ServerSessions).
EndPass(w) ==
    /\ pass[w].pc = "depots" /\ pass[w].todo = {}
    /\ complete' = (complete \/ pass[w].sound)
    /\ Pass(w, NotAtWork)
    /\ UNCHANGED <<slotNow, rules, changed, leader, fired, outage, ordered, home>>

-----------------------------------------------------------------------------
(* Around it *)

\* Bound: MaxOutage slots in a row without a complete pass.
NextSlot ==
    /\ slotNow < LastSlot
    /\ \A w \in Instances : pass[w] = NotAtWork
    /\ slotNow' = slotNow + 1
    /\ outage' = IF complete THEN 0 ELSE outage + 1
    /\ outage' <= MaxOutage
    /\ complete' = FALSE /\ leader' = FALSE /\ fired' = {}
    /\ UNCHANGED <<rules, changed, pass, ordered, home>>

\* DepotsService.update; the overrides are stored as they are.  Bound: one change.
ChangeSchedule(d, s) ==
    /\ \A e \in Depots : changed[e] = -1
    /\ rules' = [rules EXCEPT ![d] = s] /\ changed' = [changed EXCEPT ![d] = slotNow]
    /\ UNCHANGED <<slotNow, pass, leader, fired, complete, outage, ordered, home>>

\* findOne resolves the rules of the day and changes nothing.
ShowDepot(d) ==
    /\ rules[d] # Broken
    /\ UNCHANGED lockJobVars

-----------------------------------------------------------------------------

LockJobNext ==
    \/ \E w \in Instances :
           \/ Trigger(w) \/ OrderFails(w) \/ EndDepot(w) \/ EndPass(w)
           \/ \E d \in Depots : OpenDepot(w, d)
           \/ \E t \in Terminals : OrderLock(w, t)
    \/ \E d \in Depots, s \in Schedules \cup {Broken} : ChangeSchedule(d, s)
    \/ \E d \in Depots : ShowDepot(d)
    \/ NextSlot

LockJobSpec == LockJobInit /\ [][LockJobNext]_lockJobVars

-----------------------------------------------------------------------------
(* Properties *)

\* The lock instants of a schedule, by definition.
LockInstants(s) ==
    {LockAt(s, d) : d \in {e \in -1..(LastSlot \div DaySlots) : LocksOn(s, e)}}

\* The instants of a schedule are further apart than the slots a worker may miss: within
\* the window an instant hides the next one.
Spaced ==
    \A s \in Schedules : \A d, e \in Days :
        d < e /\ LocksOn(s, d) /\ LocksOn(s, e) => LockAt(s, d) + MaxOutage < LockAt(s, e)

IsOrdered(t, i) == \E o \in ordered : o.phone = t /\ o.at = i

\* Whatever the worker misses within its window, and whatever the other depots do,
\* each lock instant of a schedule gives each phone of the depot an order, if Spaced.
LockOrdered ==
    \A t \in Terminals :
        LET d == home[t]
        IN  rules[d] # Broken =>
                \A i \in 0..(slotNow - Window) :
                    i > changed[d] + Window /\ i \in LockInstants(rules[d])
                    => IsOrdered(t, i)

\* Passes that overlap, and the passes of a window, give one order by instant.
OneOrderByInstant ==
    \A o, p \in ordered : o.phone = p.phone /\ o.at = p.at => o = p

\* A schedule that holds since an earlier slot, due in this one, has given its orders.
Served(d) ==
    rules[d] # Broken /\ changed[d] < slotNow /\ Due(d) # Never /\ Due(d) <= slotNow
    => \A t \in Terminals : home[t] = d => IsOrdered(t, Due(d))

\* A pass that meets no failure serves the depots it leaves behind, and in the one it is
\* at the phones it leaves behind.
PassServes(r) ==
    /\ r # NotAtWork /\ r.sound =>
           \A d \in Depots \ r.todo : Served(d) \/ (r.pc = "phones" /\ d = r.depot)
    /\ r.pc = "phones" =>
           /\ rules[r.depot] # Broken /\ changed[r.depot] < slotNow => r.due = Due(r.depot)
           /\ \A t \in Terminals \ r.left : home[t] = r.depot => IsOrdered(t, r.due)

PassesServe == \A w \in Instances : PassServes(pass[w])

CompleteServes == complete => \A d \in Depots : Served(d)

\* i is the first lock instant of a schedule after a slot.
FirstAfter(s, from, i) ==
    /\ from < i /\ \E d \in Days : LocksOn(s, d) /\ LockAt(s, d) = i
    /\ \A d \in Days : LocksOn(s, d) => ~(from < LockAt(s, d) /\ LockAt(s, d) < i)

\* An instant of the window that has given no order was due for the slots of the outage
\* at most.
MissedIsRecent ==
    \A t \in Terminals : rules[home[t]] # Broken =>
        \A u \in 0..slotNow : \A i \in 0..u :
            changed[home[t]] < u /\ slotNow - Window < i /\ FirstAfter(rules[home[t]], u - Window, i)
            => IsOrdered(t, i) \/ slotNow - u <= outage

LockJobInv ==
    /\ LockJobTypeOK /\ OneOrderByInstant /\ PassesServe /\ CompleteServes /\ MissedIsRecent
    /\ Spaced => LockOrdered

-----------------------------------------------------------------------------
(* Expected of the code, and not held by it *)

\* "Une commande de verrouillage n'a plus de sens le lendemain matin": no order can
\* still be delivered in a later operational day than the one of its instant.
LockedTheSameDay ==
    \A o \in ordered :
        LET s == rules[home[o.phone]]
        IN  s # Broken /\ slotNow < o.until => operationalDayOf(s, slotNow) = operationalDayOf(s, o.at)

\* "Priorité : special > holidays > weekdays > colonnes du dépôt."
SpecialPrevails ==
    \A d \in Depots, day \in 0..(LastSlot \div DaySlots) :
        LET s == rules[d]
        IN  s # Broken /\ s.special[day].kind = "rules" /\ s.special[day].lockTime # Unset
            => resolveDayRules(s, day).lockTime = s.special[day].lockTime
=============================================================================
