----------------------------- MODULE FleetConfig -----------------------------
(***************************************************************************)
(* What a company configures reaches its phones: the policy of             *)
(* applications, the depot and the list of the badges of a phone.  The     *)
(* server answers a pull in several reads; the phone stores the answer     *)
(* piece by piece, in its database, its secure store and the system, and   *)
(* reports what it hid.  The settings and the depot are sent when the      *)
(* version of the settings differs from the one the phone knows.           *)
(*                                                                         *)
(* The periodic work and the immediate one pull together, under no mutex.  *)
(***************************************************************************)
EXTENDS Integers

CONSTANTS
    Packages,       \* applications the policy may block
    Badges,         \* badges of the drivers assigned to the phone
    Works,          \* works of WorkManager that synchronise
    MaxEdits,       \* bound of the changes an administrator makes
    MaxMishaps      \* bound of the messages lost and of the ends of the process

ASSUME FleetAssumption == MaxEdits \in Nat /\ MaxMishaps \in Nat

VARIABLES
    row,        \* device_settings of the company
    edits,      \* changes made, which date the depot
    depotRow,   \* the depot: the change it dates from
    listed,     \* badges that are active
    report,     \* devices.appPolicyReport: what is hidden
    kept,       \* settings and configVersion of the phone
    site,       \* its depot
    offline,    \* its offline badges
    hidden,     \* what the system hides
    owner,      \* the application is Device Owner
    enforced,   \* AppPolicyController.lastApplyEnforced, in memory
    pull,       \* the synchronisation of each work
    crossed,    \* history: settings were stored over those of another pull
    mishaps     \* messages lost, works and processes ended

fleetVars == <<row, edits, depotRow, listed, report,
               kept, site, offline, hidden, owner, enforced, pull,
               crossed, mishaps>>
company == <<row, edits, depotRow, listed>>
phone == <<kept, site, offline, hidden, owner, enforced>>

NoPull == [at |-> "none"]
Unknown == -1

Known == {Unknown} \cup 1..(MaxEdits + 1)
Stores == {"answer", "version", "plan", "apply", "report", "depot", "badges"}
Settings == [blocked : SUBSET Packages, version : 1..(MaxEdits + 1)]
Pull ==
    {NoPull}
    \cup [at : {"device"}, known : Known, depot : 0..MaxEdits]
    \cup [at : {"settings"}, known : Known, depot : 0..MaxEdits, got : Settings]
    \cup [at : Stores, known : Known, depot : 0..MaxEdits, got : Settings,
          new : BOOLEAN, badges : SUBSET Badges, plan : SUBSET Packages]

FleetTypeOK ==
    /\ row \in Settings
    /\ edits \in 0..MaxEdits /\ depotRow \in 0..MaxEdits /\ listed \subseteq Badges
    /\ report \in (SUBSET Packages) \cup {{"none"}}
    /\ kept \in [blocked : SUBSET Packages, version : Known]
    /\ site \in 0..MaxEdits /\ offline \subseteq Badges /\ hidden \subseteq Packages
    /\ owner \in BOOLEAN /\ enforced \in BOOLEAN /\ mishaps \in 0..MaxMishaps
    /\ pull \in [Works -> Pull] /\ crossed \in BOOLEAN

\* Enrolled: the depot and the settings of that moment, no version, no badge.
FleetInit ==
    /\ row = [blocked |-> {}, version |-> 1] /\ edits = 0 /\ depotRow = 0 /\ listed = Badges
    /\ report = {"none"} /\ kept = [blocked |-> {}, version |-> Unknown] /\ site = 0
    /\ offline = {} /\ hidden = {} /\ enforced = FALSE
    /\ pull = [w \in Works |-> NoPull] /\ crossed = FALSE
    /\ owner \in BOOLEAN /\ mishaps = 0

\* Bound: MaxMishaps.
Mishap == mishaps < MaxMishaps /\ mishaps' = mishaps + 1

-----------------------------------------------------------------------------
(* The administrator *)

\* AppPolicyController.replace: the whole policy, and the next version.  Bound: MaxEdits.
ReplacePolicy(blocked) ==
    /\ edits < MaxEdits /\ edits' = edits + 1
    /\ row' = [blocked |-> blocked, version |-> row.version + 1]
    /\ UNCHANGED <<depotRow, listed, report, phone, pull, crossed, mishaps>>

\* DepotsService.update: the depot and its geofence, and no version.
UpdateDepot ==
    /\ edits < MaxEdits /\ edits' = edits + 1 /\ depotRow' = edits'
    /\ UNCHANGED <<row, listed, report, phone, pull, crossed, mishaps>>

\* A badge is revoked or lost.
RevokeBadge(b) ==
    /\ b \in listed /\ listed' = listed \ {b}
    /\ UNCHANGED <<row, edits, depotRow, report, phone, pull, crossed, mishaps>>

-----------------------------------------------------------------------------
(* The pull, on the server: the phone with its depot, the settings, the badges *)

\* The request carries the version the phone knows.
ReadDevice(w) ==
    /\ pull[w] = NoPull
    /\ pull' = [pull EXCEPT ![w] =
                   [at |-> "device", known |-> kept.version, depot |-> depotRow]]
    /\ UNCHANGED <<company, report, phone, crossed, mishaps>>

\* resolve: the row of the company, the only level anything writes.
ReadSettings(w) ==
    /\ pull[w].at = "device"
    /\ pull' = [pull EXCEPT ![w] = [at |-> "settings", known |-> @.known,
                                    depot |-> @.depot, got |-> row]]
    /\ UNCHANGED <<company, report, phone, crossed, mishaps>>

\* buildOfflineBadgeList, then the answer: the settings if their version is another.
AnswerPull(w) ==
    /\ pull[w].at = "settings"
    /\ pull' = [pull EXCEPT ![w] =
                   [at |-> "answer", known |-> @.known, depot |-> @.depot, got |-> @.got,
                    new |-> @.known # @.got.version, badges |-> listed, plan |-> {}]]
    /\ UNCHANGED <<company, report, phone, crossed, mishaps>>

\* Between the settings in the database and the policy applied from the answer, the
\* code does not suspend.
Suspended(w) ==
    \/ pull[w].at \in {"device", "settings", "answer", "version", "report", "depot", "badges"}
    \/ pull[w].at = "plan" /\ ~pull[w].new

\* A message is lost, or syncNow replaces the immediate work, which is cancelled
\* where it is suspended.
LosePull(w) ==
    /\ Mishap /\ Suspended(w)
    /\ pull' = [pull EXCEPT ![w] = NoPull]
    /\ UNCHANGED <<company, report, phone, crossed>>

-----------------------------------------------------------------------------
(* The phone: SyncEngine.pull *)

Goes(w, from, to) == pull[w].at = from /\ pull' = [pull EXCEPT ![w].at = to]

\* Between its settings and the system's.
Storing(w) == pull[w].at \in {"version", "plan", "apply"}

\* w stores its settings though the phone has another version since w asked, or while
\* another pull is storing other settings.
Crosses(w) ==
    \/ pull[w].new /\ kept.version # pull[w].known
    \/ \E v \in Works \ {w} : Storing(v) /\ pull[v].got # pull[w].got

\* Mutant: the version is stored first.
StoreVersionFirst(w) ==
    /\ Goes(w, "answer", "version")
    /\ kept' = IF pull[w].new THEN [kept EXCEPT !.version = pull[w].got.version] ELSE kept
    /\ crossed' = (crossed \/ Crosses(w))
    /\ UNCHANGED <<company, report, site, offline, hidden, owner, enforced, mishaps>>

StoreSettings(w) ==
    /\ Goes(w, "answer", "version")
    /\ kept' = IF pull[w].new THEN [kept EXCEPT !.blocked = pull[w].got.blocked] ELSE kept
    /\ crossed' = (crossed \/ Crosses(w))
    /\ UNCHANGED <<company, report, site, offline, hidden, owner, enforced, mishaps>>

StoreVersion(w) ==
    /\ Goes(w, "version", "plan")
    /\ kept' = IF pull[w].new THEN [kept EXCEPT !.version = pull[w].got.version] ELSE kept
    /\ UNCHANGED <<company, report, site, offline, hidden, owner, enforced, crossed,
                   mishaps>>

\* Mutant: the policy is replayed for a new configuration only.
PlanNewPolicy(w) ==
    /\ pull[w].at = "plan"
    /\ pull' = [pull EXCEPT ![w].at = IF pull[w].new THEN "apply" ELSE "depot",
                            ![w].plan = IF pull[w].new THEN pull[w].got.blocked ELSE {}]
    /\ UNCHANGED <<company, report, phone, crossed, mishaps>>

\* applyAppPolicy, for a new configuration, and as long as it could not be enforced: the
\* policy of the answer, else the one of the database.
PlanPolicy(w) ==
    /\ pull[w].at = "plan"
    /\ pull' = [pull EXCEPT
           ![w].at = IF pull[w].new \/ ~enforced THEN "apply" ELSE "depot",
           ![w].plan = IF pull[w].new THEN pull[w].got.blocked
                       ELSE IF ~enforced THEN kept.blocked ELSE {}]
    /\ UNCHANGED <<company, report, phone, crossed, mishaps>>

\* AppPolicyController.apply: hides what is blocked and shows the rest.
ApplyPolicy(w) ==
    /\ Goes(w, "apply", "report")
    /\ enforced' = owner
    /\ hidden' = IF owner THEN pull[w].plan ELSE hidden
    /\ UNCHANGED <<company, report, kept, site, offline, owner, crossed, mishaps>>

\* reportAppPolicy: what the system hides, read again.
ReportPolicy(w) ==
    /\ Goes(w, "report", "depot")
    /\ report' = IF owner THEN hidden ELSE {}
    /\ UNCHANGED <<company, phone, crossed, mishaps>>

LoseReport(w) ==
    /\ Mishap /\ Goes(w, "report", "depot")
    /\ UNCHANGED <<company, report, phone, crossed>>

StoreDepot(w) ==
    /\ Goes(w, "depot", "badges")
    /\ site' = IF pull[w].new THEN pull[w].depot ELSE site
    /\ UNCHANGED <<company, report, kept, offline, hidden, owner, enforced, crossed,
                   mishaps>>

\* Mutant: the list is merged with the one of the phone.
MergeBadges(w) ==
    /\ pull[w].at = "badges" /\ pull' = [pull EXCEPT ![w] = NoPull]
    /\ offline' = offline \cup pull[w].badges
    /\ UNCHANGED <<company, report, kept, site, hidden, owner, enforced, crossed, mishaps>>

\* The list replaces the one of the phone, unless it is empty and nothing else is new.
ReplaceBadges(w) ==
    /\ pull[w].at = "badges" /\ pull' = [pull EXCEPT ![w] = NoPull]
    /\ offline' = IF pull[w].badges # {} \/ pull[w].new THEN pull[w].badges ELSE offline
    /\ UNCHANGED <<company, report, kept, site, hidden, owner, enforced, crossed, mishaps>>

\* The process ends anywhere; what is in memory goes.
KillPhone ==
    /\ Mishap
    /\ pull' = [w \in Works |-> NoPull] /\ enforced' = FALSE
    /\ UNCHANGED <<company, report, kept, site, offline, hidden, owner, crossed>>

\* The privilege is given at the provisioning, which may end after the enrolment.
BecomeOwner ==
    /\ ~owner /\ owner' = TRUE
    /\ UNCHANGED <<company, report, kept, site, offline, hidden, enforced, pull, crossed,
                   mishaps>>

-----------------------------------------------------------------------------

PullStep(w) ==
    \/ ReadDevice(w) \/ ReadSettings(w) \/ AnswerPull(w) \/ StoreSettings(w)
    \/ StoreVersion(w) \/ PlanPolicy(w) \/ ApplyPolicy(w) \/ ReportPolicy(w)
    \/ StoreDepot(w) \/ ReplaceBadges(w)

FleetNext ==
    \/ \E blocked \in SUBSET Packages : ReplacePolicy(blocked)
    \/ UpdateDepot \/ \E b \in Badges : RevokeBadge(b)
    \/ \E w \in Works : PullStep(w) \/ LosePull(w) \/ LoseReport(w)
    \/ KillPhone \/ BecomeOwner

FleetSpec == FleetInit /\ [][FleetNext]_fleetVars

\* The works of the phone come back, and the provisioning ends.
FleetFairness ==
    (\A w \in Works : WF_fleetVars(PullStep(w))) /\ WF_fleetVars(BecomeOwner)

FleetFairSpec == FleetSpec /\ FleetFairness

-----------------------------------------------------------------------------
(* Properties *)

\* A phone that knows the version of the settings holds these settings, wherever its
\* works were interrupted or met, unless one stored its settings over another's:
\* otherwise nothing would ever correct it.
VersionTold == kept.version = row.version => kept.blocked = row.blocked
KnownIsHeld == ~crossed => VersionTold

\* "le telephone resterait indefiniment sans politique": once the administrator leaves
\* the policy alone, the phone hides what it blocks and nothing else, unless two pulls
\* stored their settings over one another.
PolicyReaches == <>[](~crossed => hidden = row.blocked)

\* "un badge révoqué doit DISPARAÎTRE, pas survivre à une fusion", as long as a badge
\* remains to be listed, whatever pulls meet.
ListFollowsBadges == <>[](listed # {} => offline = listed)

\* An answer under way is not newer than the row and not older than what its request
\* knew; the settings of the current version are those of the row; and the settings a
\* pull stored last are its own until it has stored their version.
WorkAgrees(w) ==
    /\ pull[w] # NoPull => pull[w].known <= row.version
    /\ pull[w].at \in {"settings"} \cup Stores =>
           /\ pull[w].known <= pull[w].got.version
           /\ pull[w].got.version <= row.version
           /\ pull[w].got.version = row.version => pull[w].got.blocked = row.blocked
    /\ pull[w].at \in Stores => (pull[w].new <=> pull[w].known # pull[w].got.version)
    /\ ~crossed /\ pull[w].at = "version" /\ pull[w].new => kept.blocked = pull[w].got.blocked

PullAgrees ==
    /\ row.version <= edits + 1 /\ kept.version <= row.version
    /\ \A w \in Works : WorkAgrees(w)

\* Types, what a known version stands for, and what the pulls under way carry.
FleetInv == FleetTypeOK /\ PullAgrees /\ KnownIsHeld

-----------------------------------------------------------------------------
(* Expected of the code, and not held by it *)

\* VersionTold, above, whatever pulls cross; and the policy, however they do.
PolicyReachesAnyway == <>[](hidden = row.blocked)

\* "Les téléphones appliqueront les nouvelles règles à leur prochaine synchronisation":
\* the depot is sent with the settings, and its changes have no version.
DepotReaches == <>[](site = depotRow)

\* "Badge révoqué. Il [...] disparaîtra des listes hors ligne à la prochaine
\* synchronisation des téléphones": the last badge of a phone stays.
RevokedLeavesList == <>[](offline \subseteq listed)

\* "Un constat perdu n'est pas rejoue : il sera renvoye au prochain cycle": the next
\* cycle has nothing to apply, and reports nothing.
ReportReaches == <>[](report = hidden)
=============================================================================
