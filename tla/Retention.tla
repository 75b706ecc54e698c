----------------------------- MODULE Retention -----------------------------
(***************************************************************************)
(* What the nightly maintenance erases: the positions, stored in one       *)
(* partition a month with a default one behind, and the events, stored in  *)
(* plain tables.  How long each company keeps them is set on a page of the *)
(* dashboard, while the phones go on sending what they recorded.           *)
(***************************************************************************)
EXTENDS Integers, FiniteSets

CONSTANTS
    Keepers,        \* companies
    Tracks,         \* positions the phones may send
    Facts,          \* events of security the phones may send
    Terms,          \* the durations that may be chosen, in days
    MonthDays,      \* days of a month
    Ahead,          \* months whose partition is created in advance
    LastDay,        \* bound of the calendar
    Lot,            \* rows erased by one DELETE
    MaxSaves        \* bound of the edits of the form

VARIABLES
    day,
    policy,     \* retention_policies: days of positions and of events, by company
    months,     \* the months that have a partition
    rows,       \* the rows of both tables
    night,      \* where the pass is, with what it read
    tried,      \* the pass of the day has begun
    settings,   \* the settings page: the company shown, the form
    firstName,  \* the company whose name comes first
    saves

retentionVars == <<day, policy, months, rows, night, tried, settings, firstName, saves>>
pageVars == <<policy, settings, firstName, saves>>

ASSUME RetentionAssumption ==
    /\ IsFiniteSet(Keepers) /\ IsFiniteSet(Tracks) /\ IsFiniteSet(Facts)
    /\ Terms \subseteq Nat \ {0}
    /\ MonthDays \in Nat \ {0} /\ Ahead \in Nat /\ LastDay \in Nat
    /\ Lot \in Nat \ {0} /\ MaxSaves \in Nat

Kinds == {"track", "fact"}
Policies == [Kinds -> Terms]
Nowhere == -1
Unfilled == [k \in Kinds |-> 0]
NotYet == "none"
Daytime == [pc |-> "idle"]
NightAt(s) == night.pc = s
KindOf(r) == IF r.id \in Tracks THEN "track" ELSE "fact"
MonthOf(d) == d \div MonthDays
EndOfMonth(m) == (m + 1) * MonthDays
Rows == [id : Tracks \cup Facts, keeper : Keepers, day : 0..LastDay,
         home : Nowhere..MonthOf(LastDay)]

Evenings == {Daytime} \cup [pc : {"partitions", "read", "failed"}, present : SUBSET Rows]
Purges == [pc : {"drop", "stricter", "events", "done"}, present : SUBSET Rows,
           read : [Keepers -> Policies], left : SUBSET Keepers]

RetentionTypeOK ==
    /\ day \in 0..LastDay
    /\ policy \in [Keepers -> Policies]
    /\ months \subseteq 0..(MonthOf(LastDay) + Ahead)
    /\ rows \subseteq Rows
    /\ night \in Evenings \/ night \in Purges
    /\ tried \in BOOLEAN
    /\ settings \in [shown : Keepers \cup {NotYet}, form : Policies \cup {Unfilled}]
    /\ firstName \in Keepers
    /\ saves \in 0..MaxSaves

RetentionInit ==
    /\ day = 0 /\ policy \in [Keepers -> Policies]
    /\ months = 0..Ahead
    /\ rows = {} /\ night = Daytime /\ tried = FALSE
    /\ settings = [shown |-> NotYet, form |-> Unfilled]
    /\ firstName \in Keepers /\ saves = 0

-----------------------------------------------------------------------------
(* The phones: insertLocations, recordSecurityEvent *)

HomeOf(t, d) == IF t \in Tracks /\ MonthOf(d) \in months THEN MonthOf(d) ELSE Nowhere

\* A row is dated by the phone, whose clock may be late or ahead: it is kept, in the
\* partition of its month or in the default one.  A row that is there is not doubled.
insertRow(t, c, d) ==
    /\ \A r \in rows : r.id # t
    /\ rows' = rows \cup {[id |-> t, keeper |-> c, day |-> d, home |-> HomeOf(t, d)]}
    /\ UNCHANGED <<day, months, night, tried, pageVars>>

-----------------------------------------------------------------------------
(* MaintenanceJob *)

\* Once a day: the lock of the job outlives the pass.
handle ==
    /\ NightAt("idle") /\ ~tried
    /\ tried' = TRUE
    /\ night' = [pc |-> "partitions", present |-> rows]
    /\ UNCHANGED <<day, months, rows, pageVars>>

\* A partition is refused while the default one holds rows of its month.
Refused(m) ==
    /\ m \notin months
    /\ \E r \in rows : r.id \in Tracks /\ r.home = Nowhere /\ MonthOf(r.day) = m

\* One month after the other: the first that is refused ends the pass.
ensurePartitions ==
    /\ NightAt("partitions")
    /\ LET wanted == MonthOf(day)..(MonthOf(day) + Ahead)
           made == {m \in wanted : \A n \in wanted : Refused(n) => m < n}
       IN /\ months' = months \cup made
          /\ night' = [night EXCEPT !.pc = IF made = wanted THEN "read" ELSE "failed"]
    /\ UNCHANGED <<day, rows, tried, pageVars>>

Longest == CHOOSE n \in Terms :
               /\ \E c \in Keepers : night.read[c]["track"] = n
               /\ \A c \in Keepers : night.read[c]["track"] <= n

\* After expireCommands: the policies and the clock are read once for the pass.
applyRetention ==
    /\ NightAt("read")
    /\ night' = [pc |-> "drop", present |-> night.present, read |-> policy, left |-> {}]
    /\ UNCHANGED <<day, months, rows, tried, pageVars>>

\* The pass goes on without the rows it erased.
Erase(gone, next) ==
    /\ rows' = rows \ gone
    /\ night' = [next EXCEPT !.present = @ \ gone]

\* Mutant: the start of the month is compared.
DroppableEarly(m) == m * MonthDays <= day - Longest

\* The whole month is older than the longest duration.
Droppable(m) == EndOfMonth(m) <= day - Longest

\* Partition after partition, from the oldest.
dropOldLocationPartitions ==
    /\ NightAt("drop")
    /\ IF \E m \in months : Droppable(m)
       THEN \E m \in months :
              /\ Droppable(m) /\ \A n \in months : Droppable(n) => m <= n
              /\ months' = months \ {m}
              /\ Erase({r \in rows : r.home = m}, night)
       ELSE /\ Erase({}, [night EXCEPT !.pc = "stricter",
                              !.left = {c \in Keepers : night.read[c]["track"] < Longest}])
            /\ UNCHANGED months
    /\ UNCHANGED <<day, tried, pageVars>>

Outlived(c, k) ==
    {r \in rows : r.keeper = c /\ KindOf(r) = k /\ r.day < day - night.read[c][k]}

\* Mutant: one lot by company.
purgeStricterOnce(c) ==
    /\ NightAt("stricter") /\ c \in night.left
    /\ \E lot \in SUBSET Outlived(c, "track") :
         /\ Cardinality(lot) <= Lot
         /\ lot = Outlived(c, "track") \/ Cardinality(lot) = Lot
         /\ Erase(lot, [night EXCEPT !.left = @ \ {c}])
    /\ UNCHANGED <<day, months, tried, pageVars>>

\* purgeLocationsDesEntreprisesPlusStrictes: lot after lot, until one is not full.
purgeStricter(c) ==
    /\ NightAt("stricter") /\ c \in night.left
    /\ \E lot \in SUBSET Outlived(c, "track") :
         /\ Cardinality(lot) <= Lot
         /\ lot = Outlived(c, "track") \/ Cardinality(lot) = Lot
         /\ Erase(lot, IF Cardinality(lot) < Lot THEN [night EXCEPT !.left = @ \ {c}] ELSE night)
    /\ UNCHANGED <<day, months, tried, pageVars>>

\* Then the events of every company.
startEvents ==
    /\ NightAt("stricter") /\ night.left = {}
    /\ night' = [night EXCEPT !.pc = "events", !.left = Keepers]
    /\ UNCHANGED <<day, months, rows, tried, pageVars>>

purgeEvents(c) ==
    /\ NightAt("events") /\ c \in night.left
    /\ Erase(Outlived(c, "fact"),
             [night EXCEPT !.left = @ \ {c}, !.pc = IF night.left = {c} THEN "done" ELSE @])
    /\ UNCHANGED <<day, months, tried, pageVars>>

\* External: the worker dies, its pass of the day is lost.
dieAtNight ==
    /\ night.pc \notin {"idle", "done", "failed"}
    /\ night' = Daytime
    /\ UNCHANGED <<day, months, rows, tried, pageVars>>

\* External: time.  Bound: LastDay.
nextDay ==
    /\ day < LastDay /\ night.pc \in {"idle", "done", "failed"}
    /\ day' = day + 1 /\ tried' = FALSE /\ night' = Daytime
    /\ UNCHANGED <<months, rows, pageVars>>

-----------------------------------------------------------------------------
(* settings/page.tsx, updateRetention *)

\* The queries: the companies by name, then the first of them.  The form takes the
\* durations of the first company it meets.
loadPage ==
    /\ settings' = [shown |-> firstName,
                    form |-> IF settings.form = Unfilled THEN policy[firstName]
                             ELSE settings.form]
    /\ UNCHANGED <<day, months, rows, night, tried, policy, firstName, saves>>

\* Bound: MaxSaves.
editForm(k, n) ==
    /\ settings.form # Unfilled /\ saves < MaxSaves
    /\ settings' = [settings EXCEPT !.form[k] = n]
    /\ saves' = saves + 1
    /\ UNCHANGED <<day, months, rows, night, tried, policy, firstName>>

\* The whole form is sent, what was edited and what was not.
Body == [k \in Kinds |-> settings.form[k]]

\* To the company that is shown.
updateRetention ==
    /\ settings.form # Unfilled
    /\ policy' = [policy EXCEPT ![settings.shown] = Body]
    /\ UNCHANGED <<day, months, rows, night, tried, settings, firstName, saves>>

\* External: a company is created, or another renamed.
rename(c) ==
    /\ firstName' = c
    /\ UNCHANGED <<day, months, rows, night, tried, policy, settings, saves>>

-----------------------------------------------------------------------------
RetentionNext ==
    \/ \E t \in Tracks \cup Facts, c \in Keepers, d \in 0..LastDay : insertRow(t, c, d)
    \/ handle \/ ensurePartitions \/ applyRetention \/ dropOldLocationPartitions
    \/ startEvents \/ dieAtNight \/ nextDay
    \/ \E c \in Keepers : purgeStricter(c) \/ purgeEvents(c) \/ rename(c)
    \/ loadPage \/ updateRetention
    \/ \E k \in Kinds, n \in Terms : editForm(k, n)

RetentionSpec == RetentionInit /\ [][RetentionNext]_retentionVars

-----------------------------------------------------------------------------
(* Nothing is erased before the duration its own company had when the pass read it:   *)
(* dropping a partition takes the rows of every company (maintenance.job.ts:85-88).   *)
NoneLostEarly ==
    [][\A r \in rows \ rows' : r.day < day - night.read[r.keeper][KindOf(r)]]_retentionVars

(* A pass that ends has erased what was too old when it began: the positions of the   *)
(* companies stricter than the longest duration, and the events of all.  Rows come    *)
(* in meanwhile, and the form may change the durations (maintenance.job.ts:92-102).   *)
PassHolds ==
    NightAt("done") =>
        \A r \in night.present \cap rows :
            \/ r.day >= day - night.read[r.keeper][KindOf(r)]
            \/ KindOf(r) = "track" /\ night.read[r.keeper]["track"] = Longest

\* A partition holds positions of its month.
HomesAgree == \A r \in rows : r.home # Nowhere => r.id \in Tracks /\ r.home = MonthOf(r.day)

\* What a row of the pass was kept for, with what the pass read.
KeptRightly(r) ==
    \/ r.day >= day - night.read[r.keeper][KindOf(r)]
    \/ KindOf(r) = "track" /\ night.read[r.keeper]["track"] = Longest

\* The pass forgets the rows it erases; it has dealt with the positions but those of the
\* companies left, then with the events but those of the companies left.
PassAgrees ==
    /\ night # Daytime => night.present \subseteq rows
    /\ NightAt("stricter") =>
           \A r \in night.present : KeptRightly(r) \/ KindOf(r) = "fact" \/ r.keeper \in night.left
    /\ NightAt("events") =>
           \A r \in night.present : KeptRightly(r) \/ (KindOf(r) = "fact" /\ r.keeper \in night.left)
    /\ NightAt("done") => \A r \in night.present : KeptRightly(r)

RetentionInv == RetentionTypeOK /\ HomesAgree /\ PassAgrees /\ PassHolds

(* Not held: a position outlives its duration by a month at most                       *)
(* (docs/03-modele-de-donnees.md:324-325).                                             *)
MonthAtMost ==
    night.pc \in {"done", "failed"} =>
        \A r \in night.present \cap rows :
            KindOf(r) = "track" => day - r.day <= policy[r.keeper]["track"] + MonthDays

(* Not held: the durations on the page are those of the company on the page, as long  *)
(* as nobody has edited them (settings/page.tsx:77-81).                                *)
FormOfItsCompany ==
    settings.form # Unfilled /\ saves = 0 => settings.form = policy[settings.shown]
=============================================================================
