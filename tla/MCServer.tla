------------------------------ MODULE MCServer ------------------------------
(***************************************************************************)
(* Model checking of the server: its queue of commands, the badges of the  *)
(* drivers, the alerts of silent phones, the job that locks the depots,    *)
(* the wake-up pushes, the records of several companies.  They share no    *)
(* state here: a behaviour is one of them (scene), chosen at the start,    *)
(* and the variables of the others rest.                                   *)
(***************************************************************************)
EXTENDS CommandQueue, BadgeScan, AlertQueue, LockJob, WakePush, TenantIsolation

CONSTANTS k1, k2, b1, b2

VARIABLE scene

Scenes == {"commands", "tenants", "badges", "alerts", "lockJob", "wake"}
serverVars == <<scene, vars, badgeVars, alertVars, lockJobVars, wakeVars, isolationVars>>

\* An administrator, a phone of another company, and an operator of the platform.
MCBearers ==
    [b \in Bearers |->
        CASE b = b1 -> [kind |-> "admin", company |-> k1, active |-> TRUE]
          [] b = b2 -> [kind |-> "device", company |-> k2, active |-> TRUE]
          [] OTHER -> [kind |-> "super", company |-> NoFirm, active |-> TRUE]]

\* A part that rests starts in one state.
ServerInit ==
    /\ scene \in Scenes
    /\ Init
    /\ BadgeInit /\ (scene # "badges" => nominative)
    /\ AlertInit /\ (scene # "alerts" => silent = {})
    /\ scene # "lockJob" =>
           /\ home = [t \in Terminals |-> CHOOSE d \in Depots : TRUE]
           /\ rules = [d \in Depots |-> CHOOSE s \in Schedules : TRUE]
    /\ LockJobInit
    /\ bearer = MCBearers /\ owner = [r \in Records |-> k1]
    /\ scene # "tenants" => listed = {}
    /\ IsolationInit
    /\ listed = {} \/ (CHOOSE r \in Records : TRUE) \in listed
    /\ WakeInit /\ (scene # "wake" => serviceAccount = "absent" /\ ~fcmToken)

PartsAtRest ==
    /\ scene # "commands" => UNCHANGED vars
    /\ scene # "badges" => UNCHANGED badgeVars
    /\ scene # "alerts" => UNCHANGED alertVars
    /\ scene # "lockJob" => UNCHANGED lockJobVars
    /\ scene # "wake" => UNCHANGED wakeVars
    /\ scene # "tenants" => UNCHANGED isolationVars

\* Commands are alike, badges, records, monitors, and instances in each slot: a first
\* one comes first.
FirstCommand ==
    LET first == CHOOSE c \in Commands : TRUE
    IN  status'[first] = "none" => \A c \in Commands : status'[c] = "none"
FirstBadge ==
    LET first == CHOOSE b \in Badges : TRUE
    IN  badge'[first] = NoRow => \A b \in Badges : badge'[b] = NoRow
FirstMonitor ==
    LET first == CHOOSE m \in Monitors : TRUE
    IN  (\A m \in Monitors : watch[m] = Resting) =>
            (watch'[first] = Resting => watch' = watch)
FirstInstance == fired' = {} \/ (CHOOSE w \in Instances : TRUE) \in fired'

\* Where the bounds stop what the code does not.
Bounded == scene # "commands" /\ UNCHANGED serverVars

ServerNext ==
    \/ /\ UNCHANGED scene
       /\ \/ scene = "commands" /\ Next /\ FirstCommand
          \/ scene = "badges" /\ BadgeNext /\ FirstBadge
          \/ scene = "alerts" /\ AlertNext /\ FirstMonitor
          \/ scene = "lockJob" /\ LockJobNext /\ FirstInstance
          \/ scene = "wake" /\ WakeNext
          \/ scene = "tenants" /\ IsolationNext
       /\ PartsAtRest
    \/ Bounded

ServerSpec == ServerInit /\ [][ServerNext]_serverVars

\* What the server does by itself reaches the phones: the evening's orders, one by
\* instant, and the pushes, with a token Google accepts.
OrdersInv == LockJobInv /\ WakeInv

-----------------------------------------------------------------------------
(* Lock times of the depots of the job, in slots of DaySlots a day *)

OnDayOne(x) == [d \in -3..5 |-> IF d = 1 THEN x ELSE Absent]
Opens(hour, special) ==
    [start |-> 0, returnTime |-> 1, lockTime |-> hour, weekday |-> OnDayOne(Absent),
     holiday |-> OnDayOne(Absent), special |-> OnDayOne(special)]

\* One locks in the evening; one at midnight, but for a day that locks two slots later.
MCSchedules == {Opens(2, Absent), Opens(0, Override(Unset, 2))}
=============================================================================
