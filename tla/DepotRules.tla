----------------------------- MODULE DepotRules -----------------------------
(***************************************************************************)
(* The rules of a depot as functions of its schedule: which return and     *)
(* lock times hold on an operational day, the instants they fall on, and   *)
(* what a transition at the depot means.  A day has DaySlots slots; an     *)
(* instant is the number of slots since the midnight that begins day 0 in  *)
(* the zone of the depot (the zone itself, and its clock changes, are left *)
(* to luxon).                                                              *)
(***************************************************************************)
EXTENDS Integers, FiniteSetsExt

CONSTANT DaySlots

ASSUME DaySlotsAssumption == DaySlots \in Nat \ {0}

Off == -1      \* null: no rule that day
Unset == -2    \* undefined: the level below decides
Absent == [kind |-> "absent"]
Closed == [kind |-> "closed"]
Override(ret, lock) == [kind |-> "rules", returnTime |-> ret, lockTime |-> lock]
NoRules == [returnTime |-> Off, lockTime |-> Off]

Overriding(rule, below) ==
    IF rule.kind = "absent" THEN below
    ELSE [f \in {"returnTime", "lockTime"} |->
             IF rule[f] = Unset THEN below[f] ELSE rule[f]]

\* A closed weekday or a holiday without rules decides at once.
resolveDayRules(s, day) ==
    LET base == [returnTime |-> s.returnTime, lockTime |-> s.lockTime]
    IN  IF Closed \in {s.weekday[day], s.holiday[day]} THEN NoRules
        ELSE Overriding(s.special[day],
                 Overriding(s.holiday[day], Overriding(s.weekday[day], base)))

operationalDayOf(s, at) ==
    at \div DaySlots - (IF at % DaySlots < s.start THEN 1 ELSE 0)

\* A time before the start of the operational day is one of the next morning.
instantForLocalTime(s, day, time) ==
    (day + (IF time < s.start THEN 1 ELSE 0)) * DaySlots + time

isAfterReturnTime(s, at) ==
    LET day == operationalDayOf(s, at)
        time == resolveDayRules(s, day).returnTime
    IN  time # Off /\ at >= instantForLocalTime(s, day, time)

Never == -1

\* The first day, from the operational day of `from`, whose lock instant is later.
nextLockInstant(s, from, horizon) ==
    LET first == operationalDayOf(s, from)
        days == {d \in first..(first + horizon) :
                    /\ resolveDayRules(s, d).lockTime # Off
                    /\ instantForLocalTime(s, d, resolveDayRules(s, d).lockTime) > from}
    IN  IF days = {} THEN Never
        ELSE instantForLocalTime(s, Min(days), resolveDayRules(s, Min(days)).lockTime)

\* What the server makes of a transition: the state of the session afterwards,
\* whether the return is dated, whether an alert is raised.
evaluateGeofenceTransition(transition, at, s, state) ==
    [next |-> IF transition = "ENTER" /\ isAfterReturnTime(s, at) THEN "RETURNED"
              ELSE IF transition = "EXIT" /\ state = "RETURNED" THEN "ACTIVE"
              ELSE state,
     markReturned |-> /\ transition = "ENTER" /\ isAfterReturnTime(s, at)
                      /\ state # "RETURNED",
     alert |-> transition = "EXIT" /\ state = "RETURNED"]
=============================================================================
