----------------------------- MODULE AlertQueue -----------------------------
(***************************************************************************)
(* The alerts: what they warn of, and when they close.  The health monitor *)
(* raises and closes those of the phones that are silent, the heartbeats   *)
(* those of the battery; administrators acknowledge and resolve them.      *)
(* Notifications says whom a new alert reaches.                            *)
(***************************************************************************)
EXTENDS Integers, Sequences, FiniteSetsExt

CONSTANTS
    Handhelds,
    Monitors,       \* passes of the health monitor that may run at once
    MaxAlerts       \* bound of the rows of `alerts`

VARIABLES
    silent,     \* phones not seen since the threshold
    lowBattery, \* phones whose battery is below the threshold
    alerts,     \* the rows of `alerts`, in order of creation
    watch,      \* the pass of each monitor
    beat        \* the heartbeat of each phone the server handles

alertVars == <<silent, lowBattery, alerts, watch, beat>>

ASSUME AlertAssumption == MaxAlerts \in Nat

Keys == {"offline", "battery"} \X Handhelds
Alerts == DOMAIN alerts
OpenAlerts(key) == {i \in Alerts : alerts[i].key = key /\ alerts[i].status = "OPEN"}
Statuses4 == {"OPEN", "ACKNOWLEDGED", "RESOLVED", "AUTO_CLOSED"}
Resting == [pc |-> "idle"]

\* What a pass of the monitor has read, and what it has still to do.
Starts == [silent : SUBSET Handhelds, alone : BOOLEAN, handled : SUBSET (1..MaxAlerts)]
Passes ==
         {Resting}
    \cup [pc : {"raise"}, left : SUBSET Handhelds, start : Starts]
    \cup [pc : {"insert", "conflict"}, phone : Handhelds, left : SUBSET Handhelds, start : Starts]
    \cup [pc : {"write"}, close : SUBSET (1..MaxAlerts), start : Starts]
    \cup [pc : {"done"}, start : Starts]

AlertTypeOK ==
    /\ silent \subseteq Handhelds /\ lowBattery \subseteq Handhelds
    /\ alerts \in Seq([key : Keys, status : Statuses4]) /\ Len(alerts) <= MaxAlerts
    /\ watch \in [Monitors -> Passes]
    /\ beat \in [Handhelds -> {Resting, [pc |-> "raise"], [pc |-> "close"]}]

AlertInit ==
    /\ silent \in SUBSET Handhelds /\ lowBattery = {}
    /\ alerts = <<>> /\ watch = [m \in Monitors |-> Resting]
    /\ beat = [p \in Handhelds |-> Resting]

-----------------------------------------------------------------------------
(* alerts.service.ts *)

\* raise: the partial unique index lets one alert be open by key.  Bound: MaxAlerts.
Create(key) ==
    /\ OpenAlerts(key) = {} /\ Len(alerts) < MaxAlerts
    /\ alerts' = Append(alerts, [key |-> key, status |-> "OPEN"])

Raise(key) == IF OpenAlerts(key) # {} THEN UNCHANGED alerts ELSE Create(key)

SetStatus(i, status) == alerts' = [alerts EXCEPT ![i].status = status]

\* acknowledge and resolve: whatever the alert is.
Acknowledge(i) ==
    /\ i \in Alerts /\ SetStatus(i, "ACKNOWLEDGED")
    /\ UNCHANGED <<silent, lowBattery, watch, beat>>

Resolve(i) ==
    /\ i \in Alerts /\ SetStatus(i, "RESOLVED")
    /\ UNCHANGED <<silent, lowBattery, watch, beat>>

-----------------------------------------------------------------------------
(* health-monitor.job.ts.  A phone falls silent after a delay that no pass     *)
(* lasts; it may come back at any time.                                        *)

FallSilent(p) ==
    /\ p \notin silent /\ beat[p] = Resting /\ \A m \in Monitors : watch[m] = Resting
    /\ silent' = silent \cup {p}
    /\ UNCHANGED <<lowBattery, alerts, watch, beat>>

Watch(m, r) == watch' = [watch EXCEPT ![m] = r]
Others == <<silent, lowBattery, beat>>

\* checkCompany reads the phones that are silent.  `start` remembers them, the alerts
\* handled before, and whether no other pass has run meanwhile.
StartWatch(m) ==
    /\ watch[m] = Resting
    /\ LET others == {n \in Monitors : watch[n] # Resting}
           start == [silent |-> silent, alone |-> others = {},
                     handled |-> {i \in Alerts : alerts[i].status # "OPEN"}]
       IN  watch' = [n \in Monitors |->
                        IF n = m THEN [pc |-> "raise", left |-> silent, start |-> start]
                        ELSE IF n \in others THEN [watch[n] EXCEPT !.start.alone = FALSE]
                        ELSE Resting]
    /\ UNCHANGED <<Others, alerts>>

\* raise, in steps: an alert that is open already is left,
LookForAlert(m, p) ==
    /\ watch[m].pc = "raise" /\ p \in watch[m].left
    /\ Watch(m, IF OpenAlerts(<<"offline", p>>) # {} THEN [watch[m] EXCEPT !.left = @ \ {p}]
                ELSE [pc |-> "insert", phone |-> p, left |-> watch[m].left \ {p},
                      start |-> watch[m].start])
    /\ UNCHANGED <<Others, alerts>>

NextPhone(m) == [pc |-> "raise", left |-> watch[m].left, start |-> watch[m].start]

\* else one is created, unless another pass has just done so;
InsertAlert(m) ==
    /\ watch[m].pc = "insert"
    /\ LET key == <<"offline", watch[m].phone>>
       IN  \/ Create(key) /\ Watch(m, NextPhone(m))
           \/ /\ OpenAlerts(key) # {}
              /\ Watch(m, [watch[m] EXCEPT !.pc = "conflict"])
              /\ UNCHANGED alerts
    /\ UNCHANGED Others

\* an alert closed between the conflict and the second look makes the pass throw.
LookAgain(m) ==
    /\ watch[m].pc = "conflict"
    /\ Watch(m, IF OpenAlerts(<<"offline", watch[m].phone>>) # {} THEN NextPhone(m) ELSE Resting)
    /\ UNCHANGED <<Others, alerts>>

\* Mutant: any open alert of a phone is closed.
ReadRecoveredAll(m) ==
    /\ watch[m].pc = "raise" /\ watch[m].left = {}
    /\ Watch(m, [pc |-> "write", start |-> watch[m].start,
                 close |-> UNION {OpenAlerts(<<"offline", p>>) : p \in Handhelds}])
    /\ UNCHANGED <<Others, alerts>>

\* closeRecoveredAlerts reads the alerts of the phones that are back,
ReadRecovered(m) ==
    /\ watch[m].pc = "raise" /\ watch[m].left = {}
    /\ Watch(m, [pc |-> "write", start |-> watch[m].start,
                 close |-> UNION {OpenAlerts(<<"offline", p>>) : p \in Handhelds \ silent}])
    /\ UNCHANGED <<Others, alerts>>

\* then closes them by id, whatever they have become.
CloseRecovered(m) ==
    /\ watch[m].pc = "write"
    /\ alerts' = [i \in Alerts |-> IF i \in watch[m].close
                                   THEN [alerts[i] EXCEPT !.status = "AUTO_CLOSED"] ELSE alerts[i]]
    /\ Watch(m, [pc |-> "done", start |-> watch[m].start])
    /\ UNCHANGED Others

EndWatch(m) ==
    /\ watch[m].pc = "done" /\ Watch(m, Resting)
    /\ UNCHANGED <<Others, alerts>>

-----------------------------------------------------------------------------
(* devices.service.ts: the heartbeat of a phone, one at a time *)

Heartbeat(p, low) ==
    /\ beat[p] = Resting
    /\ silent' = silent \ {p}
    /\ lowBattery' = IF low THEN lowBattery \cup {p} ELSE lowBattery \ {p}
    /\ beat' = [beat EXCEPT ![p] = [pc |-> IF low THEN "raise" ELSE "close"]]
    /\ UNCHANGED <<alerts, watch>>

\* checkHealthAlerts: raise, or autoClose.
CheckHealth(p) ==
    /\ beat[p] # Resting /\ beat' = [beat EXCEPT ![p] = Resting]
    /\ IF beat[p].pc = "raise" THEN Raise(<<"battery", p>>)
       ELSE alerts' = [i \in Alerts |-> IF i \in OpenAlerts(<<"battery", p>>)
                                           THEN [alerts[i] EXCEPT !.status = "AUTO_CLOSED"]
                                           ELSE alerts[i]]
    /\ UNCHANGED <<silent, lowBattery, watch>>

-----------------------------------------------------------------------------

AlertNext ==
    \/ \E p \in Handhelds :
           \/ FallSilent(p) \/ CheckHealth(p)
           \/ \E low \in BOOLEAN : Heartbeat(p, low)
    \/ \E m \in Monitors :
           \/ StartWatch(m) \/ InsertAlert(m) \/ LookAgain(m)
           \/ ReadRecovered(m) \/ CloseRecovered(m) \/ EndWatch(m)
           \/ \E p \in Handhelds : LookForAlert(m, p)
    \/ \E i \in 1..MaxAlerts : Acknowledge(i) \/ Resolve(i)

AlertSpec == AlertInit /\ [][AlertNext]_alertVars

-----------------------------------------------------------------------------
(* Properties *)

\* A phone that was silent when the pass began has an alert, open or handled since, or
\* has come back.
Warned(m, p) ==
    p \in silent =>
        \E i \in Alerts \ watch[m].start.handled :
            alerts[i].key = <<"offline", p>> /\ alerts[i].status # "AUTO_CLOSED"

\* When a pass of the monitor ends that no other overlapped, every phone that was
\* silent all along has an alert, open or handled meanwhile, and no phone that was
\* seen all along has an open one.
SilenceWatched ==
    \A m \in Monitors : watch[m].pc = "done" /\ watch[m].start.alone =>
        \A p \in Handhelds :
            IF p \in watch[m].start.silent THEN Warned(m, p) ELSE OpenAlerts(<<"offline", p>>) = {}

\* A pass that is alone: the phones it has dealt with are warned of; what it is about to
\* close is of phones that are back, and whole; no phone falls silent behind it, and what
\* was handled is not open again.
PassesAgree ==
    \A m \in Monitors : watch[m] # Resting =>
        /\ silent \subseteq watch[m].start.silent
        /\ \A i \in watch[m].start.handled : i \in Alerts /\ alerts[i].status # "OPEN"
        /\ watch[m].pc = "write" => \A i \in watch[m].close :
               i \in Alerts /\ alerts[i].key \in {"offline"} \X (Handhelds \ silent)
        /\ watch[m].start.alone =>
               /\ \A n \in Monitors \ {m} : watch[n] = Resting
               /\ \A p \in watch[m].start.silent :
                      \/ watch[m].pc \in {"raise", "insert", "conflict"} /\ p \in watch[m].left
                      \/ watch[m].pc \in {"insert", "conflict"} /\ p = watch[m].phone
                      \/ Warned(m, p)
               /\ watch[m].pc = "write" =>
                      \A p \in Handhelds \ watch[m].start.silent :
                          OpenAlerts(<<"offline", p>>) \subseteq watch[m].close

\* Once the server has handled the heartbeat of a phone, its battery is not said to
\* be low unless it is.
BatteryAlertTrue ==
    \A p \in Handhelds :
        beat[p] = Resting /\ p \notin lowBattery => OpenAlerts(<<"battery", p>>) = {}

\* What a heartbeat has still to do is what the phone's last battery calls for.
BeatsAgree ==
    \A p \in Handhelds : beat[p] # Resting => (beat[p].pc = "raise" <=> p \in lowBattery)

\* The open alerts say how the phones are.
AlertInv == AlertTypeOK /\ PassesAgree /\ SilenceWatched /\ BeatsAgree /\ BatteryAlertTrue

-----------------------------------------------------------------------------
(* Expected of the code, and not held by it *)

\* What an administrator has closed is not closed again by the monitor.
HandledIsKept ==
    [][\A i \in Alerts : alerts[i].status \in {"ACKNOWLEDGED", "RESOLVED"}
                         => alerts'[i].status # "AUTO_CLOSED"]_alertVars
=============================================================================
