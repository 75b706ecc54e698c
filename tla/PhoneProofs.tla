----------------------------- MODULE PhoneProofs -----------------------------
(***************************************************************************)
(* Proofs about the phone and what it exchanges with the server, for every *)
(* set of phones, applications, administrators and requests: the settings  *)
(* it pulls, the screen it shows and the applications it installs.         *)
(***************************************************************************)
EXTENDS FleetConfig, ScreenShare, AppDeployment, FiniteSetTheorems, TLAPS

-----------------------------------------------------------------------------
(* The settings a phone pulls *)

\* What a pull carries, at each of its steps.
LEMMA PullCarries ==
    ASSUME FleetTypeOK, NEW w \in Works
    PROVE  /\ pull[w] \in Pull
           /\ pull[w] # NoPull => pull[w].at # "none" /\ pull[w].known \in Known
                                  /\ pull[w].depot \in 0..MaxEdits
           /\ pull[w].at \in {"settings"} \cup Stores => pull[w].got \in Settings
           /\ pull[w].at \in Stores =>
                  pull[w] \in [at : Stores, known : Known, depot : 0..MaxEdits, got : Settings,
                               new : BOOLEAN, badges : SUBSET Badges, plan : SUBSET Packages]
<1>1. pull[w] \in Pull
  BY DEF FleetTypeOK
<1> QED
  BY <1>1 DEF Pull, NoPull, Stores

\* A work that goes on leaves the others alone.
LEMMA OneWorkMoves ==
    ASSUME FleetTypeOK, NEW w \in Works, NEW p, pull' = [pull EXCEPT ![w] = p]
    PROVE  /\ pull'[w] = p /\ \A v \in Works \ {w} : pull'[v] = pull[v]
           /\ p \in Pull => pull' \in [Works -> Pull]
BY DEF FleetTypeOK

\* The next step of the storing of an answer.
LEMMA PullMoves ==
    ASSUME FleetTypeOK, NEW w \in Works, NEW from \in Stores, NEW to \in Stores,
           Goes(w, from, to)
    PROVE  /\ pull' \in [Works -> Pull] /\ \A v \in Works \ {w} : pull'[v] = pull[v]
           /\ pull[w].at \in Stores /\ pull'[w].at = to
           /\ pull'[w] # NoPull /\ pull[w] # NoPull
           /\ pull'[w].got = pull[w].got /\ pull'[w].known = pull[w].known
           /\ pull'[w].new = pull[w].new
<1> DEFINE p == [pull[w] EXCEPT !.at = to]
<1>1. /\ pull[w].at = from
      /\ pull[w] \in [at : Stores, known : Known, depot : 0..MaxEdits, got : Settings,
                      new : BOOLEAN, badges : SUBSET Badges, plan : SUBSET Packages]
  BY PullCarries DEF Goes
<1>2. pull' = [pull EXCEPT ![w] = p]
  BY DEF Goes
<1>3. /\ p \in [at : Stores, known : Known, depot : 0..MaxEdits, got : Settings,
                new : BOOLEAN, badges : SUBSET Badges, plan : SUBSET Packages]
      /\ p.at = to /\ p.got = pull[w].got /\ p.known = pull[w].known /\ p.new = pull[w].new
  BY <1>1
<1>4. p \in Pull
  BY <1>3 DEF Pull
<1>5. p # NoPull /\ pull[w] # NoPull
  BY <1>1, <1>3 DEF NoPull, Stores
<1> HIDE DEF p
<1>6. pull'[w] = p /\ (\A v \in Works \ {w} : pull'[v] = pull[v]) /\ pull' \in [Works -> Pull]
  BY <1>2, <1>4, OneWorkMoves
<1> QED
  BY <1>1, <1>3, <1>5, <1>6

\* The plan of a policy moves a pull alone.
LEMMA PlanMoves ==
    ASSUME FleetTypeOK, NEW w \in Works, PlanPolicy(w)
    PROVE  /\ pull' \in [Works -> Pull] /\ \A v \in Works \ {w} : pull'[v] = pull[v]
           /\ pull[w].at \in Stores /\ pull'[w].at \in {"apply", "depot"}
           /\ pull'[w] # NoPull /\ pull[w] # NoPull
           /\ pull'[w].got = pull[w].got /\ pull'[w].known = pull[w].known
           /\ pull'[w].new = pull[w].new
<1> DEFINE to == IF pull[w].new \/ ~enforced THEN "apply" ELSE "depot"
           plan == IF pull[w].new THEN pull[w].got.blocked
                   ELSE IF ~enforced THEN kept.blocked ELSE {}
           p == [pull[w] EXCEPT !.at = to, !.plan = plan]
<1>1. /\ pull[w].at = "plan"
      /\ pull[w] \in [at : Stores, known : Known, depot : 0..MaxEdits, got : Settings,
                      new : BOOLEAN, badges : SUBSET Badges, plan : SUBSET Packages]
  BY PullCarries DEF PlanPolicy, Stores
<1>2. pull' = [pull EXCEPT ![w] = p]
  BY <1>1 DEF PlanPolicy, FleetTypeOK
<1>3. to \in {"apply", "depot"} /\ plan \in SUBSET Packages
  BY <1>1 DEF FleetTypeOK, Settings
<1> HIDE DEF to, plan
<1>4. /\ p \in [at : Stores, known : Known, depot : 0..MaxEdits, got : Settings,
                new : BOOLEAN, badges : SUBSET Badges, plan : SUBSET Packages]
      /\ p.at = to /\ p.got = pull[w].got /\ p.known = pull[w].known /\ p.new = pull[w].new
  BY <1>1, <1>3 DEF Stores
<1>5. p \in Pull
  BY <1>4 DEF Pull
<1>6. p # NoPull /\ pull[w] # NoPull
  BY <1>1, <1>3, <1>4 DEF NoPull, Stores
<1> HIDE DEF p
<1>7. pull'[w] = p /\ (\A v \in Works \ {w} : pull'[v] = pull[v]) /\ pull' \in [Works -> Pull]
  BY <1>2, <1>5, OneWorkMoves
<1> QED
  BY <1>1, <1>3, <1>4, <1>6, <1>7 DEF Stores

\* Every variable of the settings keeps its type.
LEMMA FleetTypesHold ==
    ASSUME FleetInv, [FleetNext]_fleetVars
    PROVE  FleetTypeOK'
<1> USE FleetAssumption DEF FleetInv, FleetTypeOK, company, phone
<1>0. NoPull \in Pull
  BY DEF Pull
<1>1. ASSUME NEW blocked \in SUBSET Packages, ReplacePolicy(blocked)
      PROVE  FleetTypeOK'
  BY <1>1 DEF ReplacePolicy, PullAgrees, Settings
<1>2. CASE UpdateDepot
  BY <1>2 DEF UpdateDepot
<1>3. ASSUME NEW b \in Badges, RevokeBadge(b)
      PROVE  FleetTypeOK'
  BY <1>3 DEF RevokeBadge
<1>4. ASSUME NEW w \in Works, ReadDevice(w)
      PROVE  FleetTypeOK'
  <2>1. [at |-> "device", known |-> kept.version, depot |-> depotRow] \in Pull
    BY DEF Pull
  <2>2. pull' \in [Works -> Pull]
    BY <1>4, <2>1, OneWorkMoves DEF ReadDevice
  <2> QED
    BY <1>4, <2>2 DEF ReadDevice
<1>5. ASSUME NEW w \in Works, ReadSettings(w)
      PROVE  FleetTypeOK'
  <2>1. pull[w].known \in Known /\ pull[w].depot \in 0..MaxEdits
    BY <1>5, PullCarries DEF ReadSettings, NoPull
  <2>2. [at |-> "settings", known |-> pull[w].known, depot |-> pull[w].depot, got |-> row]
            \in Pull
    BY <2>1 DEF Pull
  <2>3. pull' \in [Works -> Pull]
    BY <1>5, <2>2 DEF ReadSettings
  <2> QED
    BY <1>5, <2>3 DEF ReadSettings
<1>6. ASSUME NEW w \in Works, AnswerPull(w)
      PROVE  FleetTypeOK'
  <2>1. /\ pull[w].known \in Known /\ pull[w].depot \in 0..MaxEdits
        /\ pull[w].got \in Settings
    BY <1>6, PullCarries DEF AnswerPull, NoPull
  <2>2. [at |-> "answer", known |-> pull[w].known, depot |-> pull[w].depot,
         got |-> pull[w].got, new |-> pull[w].known # pull[w].got.version,
         badges |-> listed, plan |-> {}] \in Pull
    BY <2>1 DEF Pull, Stores
  <2>3. pull' \in [Works -> Pull]
    BY <1>6, <2>2 DEF AnswerPull
  <2> QED
    BY <1>6, <2>3 DEF AnswerPull
<1>7. ASSUME NEW w \in Works, StoreSettings(w)
      PROVE  FleetTypeOK'
  <2>1. pull' \in [Works -> Pull] /\ pull[w].got \in Settings
    BY <1>7, PullMoves, PullCarries DEF StoreSettings, Stores
  <2>2. kept' \in [blocked : SUBSET Packages, version : Known]
    BY <1>7, <2>1 DEF StoreSettings, Settings
  <2>3. crossed' \in BOOLEAN
    BY <1>7 DEF StoreSettings
  <2> QED
    BY <1>7, <2>1, <2>2, <2>3 DEF StoreSettings
<1>8. ASSUME NEW w \in Works, StoreVersion(w)
      PROVE  FleetTypeOK'
  <2>1. pull' \in [Works -> Pull] /\ pull[w].got \in Settings
    BY <1>8, PullMoves, PullCarries DEF StoreVersion, Stores
  <2>2. kept' \in [blocked : SUBSET Packages, version : Known]
    BY <1>8, <2>1 DEF StoreVersion, Settings, Known
  <2> QED
    BY <1>8, <2>1, <2>2 DEF StoreVersion
<1>9. ASSUME NEW w \in Works, PlanPolicy(w)
      PROVE  FleetTypeOK'
  <2>1. pull' \in [Works -> Pull]
    BY <1>9, PlanMoves
  <2> QED
    BY <1>9, <2>1 DEF PlanPolicy
<1>10. ASSUME NEW w \in Works, ApplyPolicy(w)
       PROVE  FleetTypeOK'
  <2>1. pull' \in [Works -> Pull] /\ pull[w].plan \in SUBSET Packages
    BY <1>10, PullMoves, PullCarries DEF ApplyPolicy, Goes, Stores
  <2> QED
    BY <1>10, <2>1 DEF ApplyPolicy
<1>11. ASSUME NEW w \in Works, ReportPolicy(w)
       PROVE  FleetTypeOK'
  <2>1. pull' \in [Works -> Pull]
    BY <1>11, PullMoves DEF ReportPolicy, Stores
  <2> QED
    BY <1>11, <2>1 DEF ReportPolicy
<1>12. ASSUME NEW w \in Works, StoreDepot(w)
       PROVE  FleetTypeOK'
  <2>1. pull' \in [Works -> Pull] /\ pull[w].depot \in 0..MaxEdits
    BY <1>12, PullMoves, PullCarries DEF StoreDepot, Goes, Stores
  <2> QED
    BY <1>12, <2>1 DEF StoreDepot
<1>13. ASSUME NEW w \in Works, ReplaceBadges(w)
       PROVE  FleetTypeOK'
  <2>1. pull' \in [Works -> Pull] /\ pull[w].badges \in SUBSET Badges
    BY <1>0, <1>13, PullCarries DEF ReplaceBadges, Stores
  <2> QED
    BY <1>13, <2>1 DEF ReplaceBadges
<1>14. ASSUME NEW w \in Works, LosePull(w)
       PROVE  FleetTypeOK'
  <2>1. pull' \in [Works -> Pull]
    BY <1>0, <1>14 DEF LosePull
  <2>2. mishaps' \in 0..MaxMishaps
    BY <1>14 DEF LosePull, Mishap
  <2> QED
    BY <1>14, <2>1, <2>2 DEF LosePull
<1>15. ASSUME NEW w \in Works, LoseReport(w)
       PROVE  FleetTypeOK'
  <2>1. pull' \in [Works -> Pull]
    BY <1>15, PullMoves DEF LoseReport, Stores
  <2>2. mishaps' \in 0..MaxMishaps
    BY <1>15 DEF LoseReport, Mishap
  <2> QED
    BY <1>15, <2>1, <2>2 DEF LoseReport
<1>16. CASE KillPhone
  <2>1. mishaps' \in 0..MaxMishaps
    BY <1>16 DEF KillPhone, Mishap
  <2>2. enforced' \in BOOLEAN /\ pull' \in [Works -> Pull]
    BY <1>0, <1>16 DEF KillPhone
  <2> QED
    BY <1>16, <2>1, <2>2 DEF KillPhone
<1>17. CASE BecomeOwner
  BY <1>17 DEF BecomeOwner
<1>18. CASE UNCHANGED fleetVars
  BY <1>18 DEF fleetVars
<1> QED
  BY <1>1, <1>2, <1>3, <1>4, <1>5, <1>6, <1>7, <1>8, <1>9, <1>10, <1>11, <1>12, <1>13, <1>14,
     <1>15, <1>16, <1>17, <1>18 DEF FleetNext, PullStep

\* The versions, as numbers.
LEMMA VersionsAreNumbers ==
    ASSUME FleetTypeOK
    PROVE  /\ row.version \in Int /\ kept.version \in Int /\ edits \in Int
           /\ row = [blocked |-> row.blocked, version |-> row.version]
           /\ \A w \in Works : pull[w] # NoPull => pull[w].known \in Int
           /\ \A w \in Works : pull[w].at \in {"settings"} \cup Stores =>
                  pull[w].got.version \in Int
<1>1. \A w \in Works : pull[w] # NoPull => pull[w].known \in Int
  BY PullCarries, FleetAssumption DEF Known, Unknown
<1>2. \A w \in Works : pull[w].at \in {"settings"} \cup Stores => pull[w].got.version \in Int
  BY PullCarries, FleetAssumption DEF Settings
<1> QED
  BY <1>1, <1>2, FleetAssumption DEF FleetTypeOK, Settings, Known, Unknown

\* A pull that does not move agrees still, while the row and the settings of the phone stay.
LEMMA RestingAgrees ==
    ASSUME NEW w \in Works, WorkAgrees(w), pull'[w] = pull[w] \/ pull'[w] = NoPull,
           row' = row, crossed' = crossed, kept'.blocked = kept.blocked
    PROVE  WorkAgrees(w)'
BY DEF WorkAgrees, NoPull, Stores

\* A step of the storing after the version, or that ends, leaves what is agreed.
LEMMA StoringAgrees ==
    ASSUME FleetInv, NEW w \in Works,
           UNCHANGED <<row, edits, kept, crossed>>,
           \A v \in Works \ {w} : pull'[v] = pull[v],
           \/ pull'[w] = NoPull
           \/ /\ pull'[w].at \in Stores \ {"version"} /\ pull[w].at \in Stores
              /\ pull[w] # NoPull
              /\ pull'[w].got = pull[w].got /\ pull'[w].known = pull[w].known
              /\ pull'[w].new = pull[w].new
    PROVE  (PullAgrees /\ KnownIsHeld)'
<1>1. \A v \in Works : WorkAgrees(v)
  BY DEF FleetInv, PullAgrees
<1>2. \A v \in Works \ {w} : WorkAgrees(v)'
  BY <1>1, RestingAgrees
<1>3. CASE pull'[w] = NoPull
  <2>1. WorkAgrees(w)'
    BY <1>1, <1>3, RestingAgrees
  <2> QED
    BY <1>2, <2>1 DEF FleetInv, PullAgrees, KnownIsHeld, VersionTold
<1>4. CASE pull'[w] # NoPull
  <2>1. WorkAgrees(w)'
    BY <1>1, <1>4 DEF WorkAgrees
  <2> QED
    BY <1>2, <2>1 DEF FleetInv, PullAgrees, KnownIsHeld, VersionTold
<1> QED
  BY <1>3, <1>4

\* A pull stays true to what the server and the phone hold.
LEMMA PullStaysAgreed ==
    ASSUME FleetInv, [FleetNext]_fleetVars
    PROVE  (PullAgrees /\ KnownIsHeld)'
<1> USE DEF FleetInv, company, phone
<1>0. /\ row.version \in Int /\ kept.version \in Int /\ edits \in Int
      /\ \A w \in Works : pull[w] # NoPull => pull[w].known \in Int
      /\ \A w \in Works : pull[w].at \in {"settings"} \cup Stores => pull[w].got.version \in Int
  BY VersionsAreNumbers
<1>a. \A w \in Works : WorkAgrees(w)
  BY DEF PullAgrees
<1>b. row.version <= edits + 1 /\ kept.version <= row.version
  BY DEF PullAgrees
<1>1. ASSUME NEW blocked \in SUBSET Packages, ReplacePolicy(blocked)
      PROVE  (PullAgrees /\ KnownIsHeld)'
  <2>1. /\ row'.version = row.version + 1 /\ edits' = edits + 1 /\ pull' = pull /\ kept' = kept
        /\ crossed' = crossed
    BY <1>1 DEF ReplacePolicy
  <2>2. \A w \in Works : WorkAgrees(w)'
    BY <1>0, <1>a, <2>1 DEF WorkAgrees, NoPull
  <2> QED
    BY <1>0, <1>b, <2>1, <2>2 DEF PullAgrees, KnownIsHeld, VersionTold
<1>2. CASE UpdateDepot
  <2>1. /\ UNCHANGED <<row, kept, pull, crossed>> /\ edits' = edits + 1
    BY <1>2 DEF UpdateDepot
  <2>2. \A w \in Works : WorkAgrees(w)'
    BY <1>a, <2>1 DEF WorkAgrees
  <2> QED
    BY <1>0, <1>b, <2>1, <2>2 DEF PullAgrees, KnownIsHeld, VersionTold
<1>3. ASSUME UNCHANGED <<row, edits, kept, pull, crossed>>
      PROVE  (PullAgrees /\ KnownIsHeld)'
  BY <1>3 DEF PullAgrees, WorkAgrees, KnownIsHeld, VersionTold
<1>4. ASSUME NEW w \in Works, ReadDevice(w)
      PROVE  (PullAgrees /\ KnownIsHeld)'
  <2>1. /\ UNCHANGED <<row, edits, kept, crossed>>
        /\ \A v \in Works \ {w} : pull'[v] = pull[v]
        /\ pull'[w] = [at |-> "device", known |-> kept.version, depot |-> depotRow]
    BY <1>4, OneWorkMoves DEF ReadDevice
  <2>2. \A v \in Works \ {w} : WorkAgrees(v)'
    BY <1>a, <2>1, RestingAgrees
  <2>3. WorkAgrees(w)'
    BY <1>b, <2>1 DEF WorkAgrees, Stores
  <2> QED
    BY <1>b, <2>1, <2>2, <2>3 DEF PullAgrees, KnownIsHeld, VersionTold
<1>5. ASSUME NEW w \in Works, ReadSettings(w)
      PROVE  (PullAgrees /\ KnownIsHeld)'
  <2>1. /\ UNCHANGED <<row, edits, kept, crossed>>
        /\ \A v \in Works \ {w} : pull'[v] = pull[v]
        /\ pull'[w] = [at |-> "settings", known |-> pull[w].known, depot |-> pull[w].depot,
                       got |-> row]
    BY <1>5, OneWorkMoves DEF ReadSettings, FleetTypeOK
  <2>2. \A v \in Works \ {w} : WorkAgrees(v)'
    BY <1>a, <2>1, RestingAgrees
  <2>3. pull[w].known <= row.version
    BY <1>5, <1>a DEF ReadSettings, WorkAgrees, NoPull
  <2>4. WorkAgrees(w)'
    BY <1>0, <2>1, <2>3 DEF WorkAgrees, Stores
  <2> QED
    BY <1>b, <2>1, <2>2, <2>4 DEF PullAgrees, KnownIsHeld, VersionTold
<1>6. ASSUME NEW w \in Works, AnswerPull(w)
      PROVE  (PullAgrees /\ KnownIsHeld)'
  <2>1. /\ UNCHANGED <<row, edits, kept, crossed>>
        /\ \A v \in Works \ {w} : pull'[v] = pull[v]
        /\ pull'[w] = [at |-> "answer", known |-> pull[w].known, depot |-> pull[w].depot,
                       got |-> pull[w].got, new |-> pull[w].known # pull[w].got.version,
                       badges |-> listed, plan |-> {}]
    BY <1>6, OneWorkMoves DEF AnswerPull, FleetTypeOK
  <2>2. \A v \in Works \ {w} : WorkAgrees(v)'
    BY <1>a, <2>1, RestingAgrees
  <2>3. /\ pull[w].known <= row.version /\ pull[w].known <= pull[w].got.version
        /\ pull[w].got.version <= row.version
        /\ pull[w].got.version = row.version => pull[w].got.blocked = row.blocked
    BY <1>6, <1>a DEF AnswerPull, WorkAgrees, NoPull
  <2>4. /\ pull'[w].at = "answer" /\ pull'[w].known = pull[w].known
        /\ pull'[w].got = pull[w].got
        /\ pull'[w].new <=> pull[w].known # pull[w].got.version
    <3>1. PICK b \in BOOLEAN : b <=> pull[w].known # pull[w].got.version
      OBVIOUS
    <3>2. b = (pull[w].known # pull[w].got.version)
      BY <3>1, Zenon
    <3>3. pull'[w] = [at |-> "answer", known |-> pull[w].known, depot |-> pull[w].depot,
                      got |-> pull[w].got, new |-> b, badges |-> listed, plan |-> {}]
      BY <2>1, <3>2, Zenon
    <3> QED
      BY <3>1, <3>3
  <2>5. WorkAgrees(w)'
    BY <2>1, <2>3, <2>4 DEF WorkAgrees, Stores
  <2> QED
    BY <1>b, <2>1, <2>2, <2>5 DEF PullAgrees, KnownIsHeld, VersionTold
<1>7. ASSUME NEW w \in Works, StoreSettings(w)
      PROVE  (PullAgrees /\ KnownIsHeld)'
  <2>1. /\ UNCHANGED <<row, edits>> /\ kept'.version = kept.version
        /\ \A v \in Works \ {w} : pull'[v] = pull[v]
        /\ pull[w].at = "answer" /\ pull[w] # NoPull
        /\ pull'[w].at = "version" /\ pull'[w] # NoPull
        /\ pull'[w].got = pull[w].got /\ pull'[w].known = pull[w].known
        /\ pull'[w].new = pull[w].new
    BY <1>7, PullMoves DEF StoreSettings, Goes, Stores, FleetTypeOK
  <2>2. /\ pull[w].new => kept'.blocked = pull[w].got.blocked
        /\ ~pull[w].new => kept' = kept
    BY <1>7 DEF StoreSettings, FleetTypeOK
  <2>3. crossed' = (crossed \/ Crosses(w))
    BY <1>7 DEF StoreSettings
  <2>4. /\ pull[w].known <= row.version /\ pull[w].known <= pull[w].got.version
        /\ pull[w].got.version <= row.version
        /\ pull[w].got.version = row.version => pull[w].got.blocked = row.blocked
        /\ pull[w].new <=> pull[w].known # pull[w].got.version
    BY <1>a, <2>1 DEF WorkAgrees, Stores
  <2>5. WorkAgrees(w)'
    BY <2>1, <2>2, <2>4 DEF WorkAgrees, Stores
  <2>6. ASSUME NEW v \in Works \ {w}
        PROVE  WorkAgrees(v)'
    <3>1. WorkAgrees(v) /\ pull'[v] = pull[v]
      BY <1>a, <2>1
    <3>2. ~crossed' /\ pull[v].at = "version" /\ pull[v].new => kept'.blocked = pull[v].got.blocked
      <4>1. SUFFICES ASSUME ~crossed', pull[v].at = "version", pull[v].new
                     PROVE  kept'.blocked = pull[v].got.blocked
        OBVIOUS
      <4>2. ~crossed /\ ~Crosses(w)
        BY <2>3, <4>1
      <4>3. pull[v].got = pull[w].got
        BY <4>1, <4>2 DEF Crosses, Storing
      <4>4. kept.blocked = pull[v].got.blocked
        BY <3>1, <4>1, <4>2 DEF WorkAgrees
      <4> QED
        BY <2>2, <4>3, <4>4
    <3> QED
      BY <2>1, <3>1, <3>2 DEF WorkAgrees
  <2>7. KnownIsHeld'
    <3>1. SUFFICES ASSUME ~crossed', kept'.version = row'.version
                   PROVE  kept'.blocked = row'.blocked
      BY DEF KnownIsHeld, VersionTold
    <3>2. ~crossed /\ ~Crosses(w)
      BY <2>3, <3>1
    <3>3. ~pull[w].new
      <4>1. SUFFICES ASSUME pull[w].new
                     PROVE  FALSE
        OBVIOUS
      <4>2. kept.version = pull[w].known /\ kept.version = row.version
        BY <2>1, <3>1, <3>2, <4>1 DEF Crosses
      <4>3. pull[w].known # pull[w].got.version
        BY <2>4, <4>1
      <4>4. pull[w].got.version \in Int /\ pull[w].known \in Int
        BY <1>0, <2>1 DEF Stores
      <4> QED
        BY <1>0, <2>4, <4>2, <4>3, <4>4
    <3> QED
      BY <2>1, <2>2, <3>1, <3>2, <3>3 DEF KnownIsHeld, VersionTold
  <2> QED
    BY <1>b, <2>1, <2>5, <2>6, <2>7 DEF PullAgrees
<1>8. ASSUME NEW w \in Works, StoreVersion(w)
      PROVE  (PullAgrees /\ KnownIsHeld)'
  <2>1. /\ UNCHANGED <<row, edits, crossed>> /\ kept'.blocked = kept.blocked
        /\ \A v \in Works \ {w} : pull'[v] = pull[v]
        /\ pull[w].at = "version" /\ pull[w] # NoPull
        /\ pull'[w].at = "plan" /\ pull'[w] # NoPull
        /\ pull'[w].got = pull[w].got /\ pull'[w].known = pull[w].known
        /\ pull'[w].new = pull[w].new
    BY <1>8, PullMoves DEF StoreVersion, Goes, Stores, FleetTypeOK
  <2>2. /\ pull[w].new => kept'.version = pull[w].got.version
        /\ ~pull[w].new => kept' = kept
    BY <1>8 DEF StoreVersion, FleetTypeOK
  <2>3. \A v \in Works \ {w} : WorkAgrees(v)'
    BY <1>a, <2>1, RestingAgrees
  <2>4. WorkAgrees(w)'
    BY <1>a, <2>1 DEF WorkAgrees, Stores
  <2>5. /\ pull[w].got.version <= row.version
        /\ pull[w].got.version = row.version => pull[w].got.blocked = row.blocked
        /\ ~crossed /\ pull[w].new => kept.blocked = pull[w].got.blocked
    BY <1>a, <2>1 DEF WorkAgrees, Stores
  <2>6. kept'.version <= row'.version
    BY <1>b, <2>1, <2>2, <2>5
  <2>7. KnownIsHeld'
    BY <2>1, <2>2, <2>5 DEF KnownIsHeld, VersionTold
  <2> QED
    BY <1>b, <2>1, <2>3, <2>4, <2>6, <2>7 DEF PullAgrees
<1>9. ASSUME NEW w \in Works, PlanPolicy(w)
      PROVE  (PullAgrees /\ KnownIsHeld)'
  <2>1. UNCHANGED <<row, edits, kept, crossed>>
    BY <1>9 DEF PlanPolicy
  <2> QED
    BY <1>9, <2>1, PlanMoves, StoringAgrees DEF Stores
<1>10. ASSUME NEW w \in Works, NEW to \in {"report", "depot", "badges"}, NEW from \in Stores,
              Goes(w, from, to), UNCHANGED <<row, edits, kept, crossed>>
       PROVE  (PullAgrees /\ KnownIsHeld)'
  BY <1>10, PullMoves, StoringAgrees DEF Stores
<1>11. ASSUME NEW w \in Works, pull' = [pull EXCEPT ![w] = NoPull],
              UNCHANGED <<row, edits, kept, crossed>>
       PROVE  (PullAgrees /\ KnownIsHeld)'
  BY <1>11, OneWorkMoves, StoringAgrees
<1>12. CASE KillPhone
  <2>1. UNCHANGED <<row, edits, kept, crossed>> /\ \A w \in Works : pull'[w] = NoPull
    BY <1>12 DEF KillPhone
  <2>2. \A w \in Works : WorkAgrees(w)'
    BY <1>a, <2>1, RestingAgrees
  <2> QED
    BY <1>b, <2>1, <2>2 DEF PullAgrees, KnownIsHeld, VersionTold
<1>13. ASSUME NEW w \in Works, PullStep(w)
       PROVE  (PullAgrees /\ KnownIsHeld)'
  <2>1. CASE ApplyPolicy(w)
    BY <1>10, <2>1 DEF ApplyPolicy, Stores
  <2>2. CASE ReportPolicy(w)
    BY <1>10, <2>2 DEF ReportPolicy, Stores
  <2>3. CASE StoreDepot(w)
    BY <1>10, <2>3 DEF StoreDepot, Stores
  <2>4. CASE ReplaceBadges(w)
    BY <1>11, <2>4 DEF ReplaceBadges
  <2> QED
    BY <1>4, <1>5, <1>6, <1>7, <1>8, <1>9, <1>13, <2>1, <2>2, <2>3, <2>4 DEF PullStep
<1>14. ASSUME NEW w \in Works, LosePull(w) \/ LoseReport(w)
       PROVE  (PullAgrees /\ KnownIsHeld)'
  <2>1. CASE LosePull(w)
    BY <1>11, <2>1 DEF LosePull
  <2>2. CASE LoseReport(w)
    BY <1>10, <2>2 DEF LoseReport, Stores
  <2> QED
    BY <1>14, <2>1, <2>2
<1>15. ASSUME \/ \E b \in Badges : RevokeBadge(b)
              \/ BecomeOwner \/ UNCHANGED fleetVars
       PROVE  UNCHANGED <<row, edits, kept, pull, crossed>>
  BY <1>15 DEF RevokeBadge, BecomeOwner, fleetVars
<1> QED
  BY <1>1, <1>2, <1>3, <1>12, <1>13, <1>14, <1>15 DEF FleetNext

\* A fleet that has pulled nothing is in that state.
LEMMA FleetStarts == FleetInit => FleetInv
<1> SUFFICES ASSUME FleetInit
             PROVE  FleetInv
  OBVIOUS
<1> USE FleetAssumption DEF FleetInit
<1>1. row \in Settings
  BY DEF Settings
<1>2. kept \in [blocked : SUBSET Packages, version : Known]
  BY DEF Known
<1>3. FleetTypeOK
  <2>1. /\ edits \in 0..MaxEdits /\ depotRow \in 0..MaxEdits /\ site \in 0..MaxEdits
        /\ mishaps \in 0..MaxMishaps
    OBVIOUS
  <2>2. /\ listed \subseteq Badges /\ offline \subseteq Badges /\ hidden \subseteq Packages
        /\ report \in (SUBSET Packages) \cup {{"none"}} /\ enforced \in BOOLEAN
        /\ crossed \in BOOLEAN
    OBVIOUS
  <2>3. pull \in [Works -> Pull]
    BY DEF Pull
  <2> QED
    BY <1>1, <1>2, <2>1, <2>2, <2>3 DEF FleetTypeOK
<1>4. \A w \in Works : pull[w] = NoPull /\ pull[w].at \notin {"settings"} \cup Stores
  BY DEF NoPull, Stores
<1>5. row.version = 1 /\ kept.version = -1 /\ edits = 0
  BY DEF Unknown
<1>6. \A w \in Works : WorkAgrees(w)
  BY <1>4 DEF WorkAgrees, Stores
<1>7. PullAgrees /\ KnownIsHeld
  BY <1>5, <1>6 DEF PullAgrees, KnownIsHeld, VersionTold
<1> QED
  BY <1>3, <1>7 DEF FleetInv

\* Every step keeps it.
LEMMA FleetStays == FleetInv /\ [FleetNext]_fleetVars => FleetInv'
BY FleetTypesHold, PullStaysAgreed DEF FleetInv

\* A phone that shows the server the version of the settings holds these settings, wherever
\* a pull was interrupted, however many changes and pulls there were and whichever works
\* pulled together (SyncEngine.pull stores the settings before the version), as long as none
\* stored its settings over another's: otherwise no later pull would correct it.
THEOREM VersionToldTheTruth == FleetSpec => []FleetInv
BY FleetStarts, FleetStays, PTL DEF FleetSpec

-----------------------------------------------------------------------------
(* The screen of a phone *)

\* What each call carries.
LEMMA CallCarries ==
    ASSUME ShareTypeOK, NEW c \in calls
    PROVE  /\ c.op \in {"create", "expire", "write", "relay", "tell", "show"}
           /\ c.op = "create" => c.by \in Viewers
           /\ c.op \in {"expire", "write", "relay", "show"} => c.share \in Shares
           /\ c.op \in {"expire", "write"} => c.by \in Viewers \cup {"phone"}
           /\ c.op = "write" => c.to \in LiveStates \cup EndStates
           /\ c.op = "relay" => c.at \in 0..MaxHour
           /\ c.op = "tell" => c.view \in View \cup {NoShare}
           /\ c.op = "show" => c.state \in LiveStates \cup EndStates /\ c.to \in Viewers
<1>1. c \in ShareCalls
  BY DEF ShareTypeOK
<1> QED
  BY <1>1 DEF ShareCalls

\* The live share that was requested last is a live share.
LEMMA CandidateIsLive ==
    ASSUME ShareTypeOK, LiveShares # {}
    PROVE  Candidate \in LiveShares /\ Candidate \in Shares
<1> DEFINE later(s) == s..MaxShares
           above == {later(s) : s \in LiveShares}
<1>1. LiveShares \subseteq Shares /\ Shares \subseteq Nat
  BY ShareAssumption DEF LiveShares, Shares
<1>2. above \subseteq FiniteSubsetsOf(Nat) /\ above # {}
  <2>1. \A s \in LiveShares : later(s) \subseteq Nat /\ IsFiniteSet(later(s))
    BY <1>1, ShareAssumption, FS_Interval
  <2> QED
    BY <2>1 DEF FiniteSubsetsOf
<1>3. PICK least \in above : \A u \in above : <<u, least>> \notin StrictSubsetOrdering(Nat)
  <2>1. IsWellFoundedOn(StrictSubsetOrdering(Nat), FiniteSubsetsOf(Nat))
    BY FS_StrictSubsetOrderingWellFounded
  <2> HIDE DEF above
  <2> QED
    BY <1>2, <2>1, WFMin
<1>4. PICK last \in LiveShares : least = later(last)
  OBVIOUS
<1>5. ASSUME NEW t \in LiveShares
      PROVE  t <= last
  <2>1. <<later(t), later(last)>> \notin StrictSubsetOrdering(Nat)
    BY <1>3, <1>4
  <2>2. later(t) \in SUBSET Nat /\ later(last) \in SUBSET Nat
    BY <1>1, ShareAssumption
  <2>3. ~(later(t) \subseteq later(last) /\ later(t) # later(last))
    BY <2>1, <2>2 DEF StrictSubsetOrdering
  <2>4. last < t => /\ later(t) \subseteq later(last)
                    /\ last \notin later(t) /\ last \in later(last)
    BY <1>1, ShareAssumption DEF Shares
  <2>5. ~(last < t)
    <3> HIDE DEF later
    <3> QED
      BY <2>3, <2>4
  <2>6. last \in Int /\ t \in Int
    BY <1>1
  <2> QED
    BY <2>5, <2>6
<1>6. Candidate \in LiveShares
  BY <1>4, <1>5 DEF Candidate
<1> QED
  BY <1>1, <1>6

\* An answer, as a call that may be on its way: its kind, and what it stands for.
SoundCall(c) ==
    /\ c \in ShareCalls
    /\ c.op = "relay" => AgreedUntil(c.share, c.at + 1)
    /\ c.op = "tell" /\ c.view.state = "ACCEPTED" => AgreedUntil(c.view.share, c.view.until)
    /\ c.op = "show" => shares[c.share].state # "none"

\* What a call carries is true of its session.
LEMMA CallsAreSound ==
    ASSUME ShareInv
    PROVE  \A c \in calls : SoundCall(c)
BY DEF ShareInv, ShareTypeOK, WritingsAgree, SoundCall

\* What the server answers a phone that asks for its share.
LEMMA CurrentIsSound ==
    ASSUME ShareInv
    PROVE  SoundCall(Current)
<1> USE DEF ShareInv
<1>1. CASE LiveShares = {}
  BY <1>1 DEF Current, SoundCall, ShareCalls, NoShare
<1>2. CASE LiveShares # {}
  <2>1. Candidate \in Shares /\ shares[Candidate].state \in LiveStates
    BY <1>2, CandidateIsLive DEF LiveShares
  <2>2. shares[Candidate] \in Row
    BY <2>1 DEF ShareTypeOK
  <2>3. CASE hour < shares[Candidate].until
    <3> DEFINE c == [op |-> "tell", view |-> NowViewOf(Candidate)]
    <3>1. NowViewOf(Candidate) \in View
      BY <2>1, <2>2 DEF NowViewOf, View, Row
    <3>2. c \in ShareCalls
      BY <3>1 DEF ShareCalls
    <3>3. c.view.state = "ACCEPTED" => AgreedUntil(c.view.share, c.view.until)
      BY <2>1 DEF NowViewOf, WritingsAgree
    <3>4. c.op = "tell"
      OBVIOUS
    <3>5. Current = c
      BY <1>2, <2>3 DEF Current
    <3> HIDE DEF c
    <3> QED
      BY <3>2, <3>3, <3>4, <3>5 DEF SoundCall
  <2>4. CASE ~(hour < shares[Candidate].until)
    BY <1>2, <2>1, <2>4 DEF Current, SoundCall, ShareCalls
  <2> QED
    BY <2>3, <2>4
<1> QED
  BY <1>1, <1>2

\* A handler that has judged an event has a write to make, or answers a refusal.
LEMMA JudgedIsSound ==
    ASSUME ShareInv, NEW s \in Shares, NEW event \in LiveStates \cup EndStates,
           NEW by \in Viewers \cup {"phone"}, NEW refusal, \A c \in refusal : SoundCall(c),
           Judged(s, event, by, refusal)
    PROVE  \A c \in calls' : SoundCall(c)
<1> DEFINE write == [op |-> "write", share |-> s, to |-> event, by |-> by]
<1>1. SoundCall(write)
  BY DEF SoundCall, ShareCalls
<1>2. calls' \subseteq calls \cup {write} \cup refusal
  BY DEF Judged
<1> QED
  BY <1>1, <1>2, CallsAreSound

\* What the driver answers, or what goes wrong on his phone, leaves sound calls.
LEMMA PhoneJudges ==
    ASSUME ShareInv,
           (\E answer \in {"ACCEPTED", "REFUSED"} : Respond(answer)) \/ CaptureFailed \/ DriverStops
    PROVE  \A c \in calls' : SoundCall(c)
<1> USE DEF ShareInv
<1>s. snapshot.share = 0 \/ snapshot.share \in Shares
  BY DEF ShareTypeOK, View, NoShare
<1>1. ASSUME NEW answer \in {"ACCEPTED", "REFUSED"}, Respond(answer)
      PROVE  \A c \in calls' : SoundCall(c)
  <2>1. snapshot.share \in Shares
    BY <1>1 DEF Respond, ShareTypeOK, View, NoShare
  <2>2. Judged(snapshot.share, answer, "phone", {Current})
    BY <1>1 DEF Respond
  <2>3. answer \in LiveStates \cup EndStates /\ \A c \in {Current} : SoundCall(c)
    BY CurrentIsSound DEF LiveStates, EndStates
  <2> QED
    BY <2>1, <2>2, <2>3, JudgedIsSound
<1>2. CASE CaptureFailed
  <2>1. CASE snapshot.share = 0
    BY <1>2, <2>1, CallsAreSound DEF CaptureFailed
  <2>2. CASE snapshot.share # 0
    <3>1. Judged(snapshot.share, "FAILED", "phone", {})
      BY <1>2, <2>2 DEF CaptureFailed
    <3>2. "FAILED" \in LiveStates \cup EndStates /\ snapshot.share \in Shares
      BY <1>s, <2>2 DEF EndStates
    <3> DEFINE refusal == {}
    <3>3. Judged(snapshot.share, "FAILED", "phone", refusal) /\ \A c \in refusal : SoundCall(c)
      BY <3>1
    <3> HIDE DEF refusal
    <3> QED
      BY <3>2, <3>3, JudgedIsSound
  <2> QED
    BY <2>1, <2>2
<1>3. CASE DriverStops
  <2> DEFINE telling == [op |-> "tell", view |-> NoShare]
  <2>1. snapshot.share \in Shares
    BY <1>3 DEF DriverStops, ShareTypeOK, View, NoShare
  <2>2. SoundCall(telling)
    BY DEF SoundCall, ShareCalls, NoShare
  <2>3. Judged(snapshot.share, "ENDED_BY_DRIVER", "phone", {telling})
    BY <1>3 DEF DriverStops
  <2>4. "ENDED_BY_DRIVER" \in LiveStates \cup EndStates
    BY DEF EndStates
  <2> HIDE DEF telling
  <2> QED
    BY <2>1, <2>2, <2>3, <2>4, JudgedIsSound
<1> QED
  BY <1>1, <1>2, <1>3

\* What the panels do of an event: the share they show stays, its image stays or goes.
LEMMA BroadcastPanels ==
    ASSUME ShareTypeOK, NEW s \in Shares, NEW state \in LiveStates \cup EndStates,
           Broadcast(s, state)
    PROVE  /\ panels' \in [Viewers -> Panel]
           /\ \A a \in Viewers :
                  /\ panels'[a].share = panels[a].share
                  /\ panels'[a].state = IF panels[a].share = s THEN state ELSE panels[a].state
                  /\ panels'[a].frame \in {panels[a].frame, NoFrame}
<1>1. panels' = [a \in Viewers |-> panels'[a]]
  BY DEF Broadcast
<1>2. ASSUME NEW a \in Viewers
      PROVE  /\ panels'[a] \in Panel /\ panels'[a].share = panels[a].share
             /\ panels'[a].state = IF panels[a].share = s THEN state ELSE panels[a].state
             /\ panels'[a].frame \in {panels[a].frame, NoFrame}
  <2>1. panels[a] \in Panel
    BY DEF ShareTypeOK
  <2>2. NoFrame \in [share : {0} \cup Shares, at : 0..MaxHour]
    BY ShareAssumption DEF NoFrame
  <2>3. CASE panels[a].share # s
    BY <2>1, <2>3 DEF Broadcast
  <2>4. CASE panels[a].share = s
    <3>1. \E frame \in {panels[a].frame, NoFrame} :
              panels'[a] = [panels[a] EXCEPT !.state = state, !.frame = frame]
      BY <2>4 DEF Broadcast
    <3> QED
      BY <2>1, <2>2, <2>4, <3>1 DEF Panel
  <2> QED
    BY <2>3, <2>4
<1> QED
  BY <1>1, <1>2

\* Every variable of the sharing keeps its type.
LEMMA ShareTypesHold ==
    ASSUME ShareInv, [ShareNext]_shareVars
    PROVE  ShareTypeOK'
<1> USE ShareAssumption DEF ShareInv
<1>0. ShareTypeOK /\ \A c \in calls : SoundCall(c)
  BY CallsAreSound
<1>1. ASSUME NEW a \in Viewers, Ask(a)
      PROVE  ShareTypeOK'
  <2>1. LiveShares # {} => Candidate \in Shares
    BY CandidateIsLive
  <2>2. calls' \subseteq ShareCalls
    <3>1. [op |-> "create", by |-> a] \in ShareCalls
      BY DEF ShareCalls
    <3>2. Candidate \in Shares => [op |-> "expire", share |-> Candidate, by |-> a] \in ShareCalls
      BY DEF ShareCalls
    <3> QED
      BY <1>0, <1>1, <2>1, <3>1, <3>2 DEF Ask, ShareTypeOK
  <2> QED
    BY <1>1, <2>2 DEF Ask, ShareTypeOK
<1>2. ASSUME NEW a \in Viewers, AdminStops(a)
      PROVE  ShareTypeOK'
  <2>1. panels[a].share \in Shares /\ shares[panels[a].share].state \in LiveStates \cup EndStates
    <3>1. panels[a].share \in {0} \cup Shares /\ panels[a].share # 0
      BY <1>2 DEF AdminStops, LiveStates, WritingsAgree, ShareTypeOK, Panel
    <3>2. shares[panels[a].share].state # "none"
      BY <1>2 DEF AdminStops, LiveStates, WritingsAgree
    <3> QED
      BY <3>1, <3>2 DEF ShareTypeOK, Row
  <2>2. calls' \subseteq ShareCalls
    <3> DEFINE s == panels[a].share
               answer == [op |-> "show", share |-> s, state |-> shares[s].state, to |-> a]
    <3>1. answer \in ShareCalls /\ [op |-> "write", share |-> s, to |-> "ENDED_BY_ADMIN", by |-> a] \in ShareCalls
      BY <2>1 DEF ShareCalls, EndStates
    <3>2. Judged(s, "ENDED_BY_ADMIN", a, {answer})
      BY <1>2 DEF AdminStops
    <3> HIDE DEF answer, s
    <3> QED
      BY <1>0, <3>1, <3>2 DEF Judged, ShareTypeOK
  <2> QED
    BY <1>2, <2>2 DEF AdminStops, ShareTypeOK
<1>3. ASSUME NEW c \in calls, CloseOverdue(c)
      PROVE  ShareTypeOK'
  <2>1. c.share \in Shares /\ c.by \in Viewers \cup {"phone"}
    BY <1>3, CallCarries DEF CloseOverdue
  <2>2. shares' \in [Shares -> Row]
    BY <1>3, <2>1 DEF CloseOverdue, ShareTypeOK, Row, EndStates
  <2>3. panels' \in [Viewers -> Panel]
    BY <1>3, <2>1, BroadcastPanels DEF CloseOverdue, EndStates
  <2>4. calls' \subseteq ShareCalls
    BY <1>3, <2>1 DEF CloseOverdue, ShareTypeOK, ShareCalls
  <2> QED
    BY <1>3, <2>2, <2>3, <2>4 DEF CloseOverdue, ShareTypeOK
<1>4. ASSUME NEW c \in calls, CreateShare(c)
      PROVE  ShareTypeOK'
  <2>1. c.by \in Viewers
    BY <1>4, CallCarries DEF CreateShare
  <2>2. PICK s \in Shares :
            /\ shares' = [shares EXCEPT ![s] = [state |-> "REQUESTED", until |-> hour + AnswerTime,
                                                by |-> c.by, startedAt |-> NoTime]]
            /\ calls' = (calls \ {c}) \cup
                   {[op |-> "show", share |-> s, state |-> "REQUESTED", to |-> c.by]}
    BY <1>4 DEF CreateShare
  <2>3. hour + AnswerTime \in Hours /\ NoTime \in 0..NoTime
    BY DEF ShareTypeOK, Hours, NoTime
  <2>4. shares' \in [Shares -> Row]
    BY <2>1, <2>2, <2>3 DEF ShareTypeOK, Row, LiveStates
  <2>5. calls' \subseteq ShareCalls
    BY <2>1, <2>2 DEF ShareTypeOK, ShareCalls, LiveStates
  <2> QED
    BY <1>4, <2>4, <2>5 DEF CreateShare, ShareTypeOK
<1>5. ASSUME NEW c \in calls, Write(c)
      PROVE  ShareTypeOK'
  <2>1. /\ c.share \in Shares /\ c.by \in Viewers \cup {"phone"}
        /\ c.to \in LiveStates \cup EndStates
    BY <1>5, CallCarries DEF Write
  <2>2. hour + ShareTime \in Hours /\ hour \in 0..NoTime
    BY DEF ShareTypeOK, Hours, NoTime
  <2>3. shares' \in [Shares -> Row]
    BY <1>5, <2>1, <2>2, ZenonT(30) DEF Write, ShareTypeOK, Row
  <2>4. panels' \in [Viewers -> Panel]
    BY <1>5, <2>1, BroadcastPanels DEF Write
  <2>5. calls' \subseteq ShareCalls
    <3>1. c.to = "ACCEPTED" => ViewOf(c.share) \in View
      <4>1. shares'[c.share] \in Row
        BY <2>1, <2>3
      <4>2. c.to = "ACCEPTED" => shares'[c.share].state = "ACCEPTED"
        BY <1>5, <2>1 DEF Write, ShareTypeOK, Row
      <4> QED
        BY <2>1, <4>1, <4>2 DEF ViewOf, View, Row, LiveStates
    <3>2. c.by # "phone" => [op |-> "show", share |-> c.share, state |-> c.to, to |-> c.by] \in ShareCalls
      BY <2>1 DEF ShareCalls
    <3>3. [op |-> "tell", view |-> IF c.to = "ACCEPTED" THEN ViewOf(c.share) ELSE NoShare] \in ShareCalls
      BY <3>1 DEF ShareCalls
    <3> QED
      BY <1>0, <1>5, <3>2, <3>3 DEF Write, ShareTypeOK
  <2> QED
    BY <1>5, <2>3, <2>4, <2>5 DEF Write, ShareTypeOK
<1>6. ASSUME NEW c \in calls, Relay(c)
      PROVE  ShareTypeOK'
  <2>1. c.share \in Shares /\ c.at \in 0..MaxHour
    BY <1>6, CallCarries DEF Relay
  <2>2. panels' \in [Viewers -> Panel]
    BY <1>6, <2>1 DEF Relay, ShareTypeOK, Panel
  <2> QED
    BY <1>6, <2>2 DEF Relay, ShareTypeOK
<1>7. ASSUME NEW c \in calls, Hear(c)
      PROVE  ShareTypeOK'
  <2>1. c.view \in View \cup {NoShare}
    BY <1>7, CallCarries DEF Hear
  <2> QED
    BY <1>7, <2>1 DEF Hear, ShareTypeOK
<1>8. ASSUME NEW c \in calls, LoseTell(c)
      PROVE  ShareTypeOK'
  BY <1>8 DEF LoseTell, ShareTypeOK
<1>9. ASSUME NEW c \in calls, ShowShare(c)
      PROVE  ShareTypeOK'
  <2>1. c.share \in Shares /\ c.state \in LiveStates \cup EndStates /\ c.to \in Viewers
    BY <1>9, CallCarries DEF ShowShare
  <2>2. panels' \in [Viewers -> Panel]
    BY <1>9, <2>1 DEF ShowShare, ShareTypeOK, Panel, NoFrame
  <2> QED
    BY <1>9, <2>2 DEF ShowShare, ShareTypeOK
<1>10. CASE RefreshShare
  BY <1>10, CurrentIsSound DEF RefreshShare, ShareTypeOK, SoundCall
<1>11. ASSUME NEW answer \in {"ACCEPTED", "REFUSED"}, Respond(answer)
       PROVE  ShareTypeOK'
  <2>1. \A c \in calls' : SoundCall(c)
    BY <1>11, PhoneJudges
  <2> QED
    BY <1>11, <2>1 DEF Respond, ShareTypeOK, SoundCall
<1>12. CASE Confirm
  BY <1>12 DEF Confirm, ShareTypeOK
<1>13. CASE CaptureFailed
  <2>1. \A c \in calls' : SoundCall(c)
    BY <1>13, PhoneJudges
  <2> QED
    BY <1>13, <2>1 DEF CaptureFailed, ShareTypeOK, SoundCall
<1>14. CASE DriverStops
  <2>1. \A c \in calls' : SoundCall(c)
    BY <1>14, PhoneJudges
  <2> QED
    BY <1>14, <2>1 DEF DriverStops, ShareTypeOK, SoundCall
<1>15. CASE DriverStopsAlone
  BY <1>15 DEF DriverStopsAlone, ShareTypeOK
<1>16. CASE Grab
  <2>1. snapshot.share \in Shares
    BY <1>16 DEF Grab, ShareTypeOK, View, NoShare
  <2> QED
    BY <1>16, <2>1 DEF Grab, ShareTypeOK, ShareCalls
<1>17. CASE EndCapture
  BY <1>17 DEF EndCapture, ShareTypeOK
<1>18. CASE ShareClock
  BY <1>18 DEF ShareClock, ShareTypeOK
<1>19. CASE UNCHANGED shareVars
  BY <1>19 DEF shareVars, ShareTypeOK
<1> QED
  BY <1>1, <1>2, <1>3, <1>4, <1>5, <1>6, <1>7, <1>8, <1>9, <1>10, <1>11, <1>12, <1>13, <1>14,
     <1>15, <1>16, <1>17, <1>18, <1>19 DEF ShareNext

\* A row that was requested stays, with who asked; an agreement stays, or a later one
\* replaces it; and what a row says of an agreement stays true.
LEMMA RowsMove ==
    ASSUME ShareInv, [ShareNext]_shareVars
    PROVE  \A s \in Shares :
               /\ shares[s].state # "none" => shares'[s].state # "none" /\ shares'[s].by = shares[s].by
               /\ shares[s].startedAt # NoTime => shares'[s].startedAt # NoTime
                                                  /\ shares[s].startedAt <= shares'[s].startedAt
               /\ shares'[s].startedAt # NoTime => shares'[s].startedAt <= hour'
                                                   /\ shares'[s].state # "none"
               /\ shares'[s].state = "ACCEPTED" => AgreedUntil(s, shares[s].until)'
<1> USE ShareAssumption DEF ShareInv
<1>0. /\ \A s \in Shares : shares[s] \in Row /\ shares'[s] \in Row /\ shares[s].startedAt \in Int
      /\ hour \in Int /\ hour <= MaxHour /\ DOMAIN shares = Shares
  BY ShareTypesHold DEF ShareTypeOK, Row, NoTime
<1>1. CASE UNCHANGED shares /\ hour' \in {hour, hour + 1}
  BY <1>0, <1>1 DEF WritingsAgree, AgreedUntil
<1>2. ASSUME NEW c \in calls, CloseOverdue(c), NEW s \in Shares
      PROVE  /\ shares'[s].by = shares[s].by /\ shares'[s].startedAt = shares[s].startedAt
             /\ shares'[s].until = shares[s].until
             /\ shares'[s].state \in {shares[s].state, "EXPIRED"} /\ hour' = hour
  <2>1. shares' = [shares EXCEPT ![c.share].state = "EXPIRED"] /\ hour' = hour
    BY <1>2 DEF CloseOverdue
  <2>2. shares[s] \in Row /\ s \in DOMAIN shares
    BY <1>0
  <2> QED
    BY <2>1, <2>2 DEF Row
<1>3. ASSUME NEW c \in calls, CreateShare(c), NEW s \in Shares
      PROVE  /\ hour' = hour
             /\ \/ shares'[s] = shares[s]
                \/ /\ shares[s].state = "none"
                   /\ shares'[s].startedAt = NoTime /\ shares'[s].state = "REQUESTED"
  BY <1>0, <1>3 DEF CreateShare
<1>4. ASSUME NEW c \in calls, Write(c), NEW s \in Shares
      PROVE  /\ hour' = hour
             /\ \/ shares'[s] = shares[s]
                \/ /\ shares'[s].by = shares[s].by /\ shares'[s].state # "none"
                   /\ shares'[s].state # "ACCEPTED" /\ shares'[s].startedAt = shares[s].startedAt
                \/ /\ shares'[s].by = shares[s].by /\ shares'[s].state = "ACCEPTED"
                   /\ shares'[s].startedAt = hour /\ shares'[s].until = hour + ShareTime
  <2>1. c.to \in LiveStates \cup EndStates /\ c.to # "none"
    BY <1>4, CallCarries DEF Write, LiveStates, EndStates
  <2>2. shares[s] \in Row /\ s \in DOMAIN shares
    BY <1>0
  <2>3. CASE c.to = "ACCEPTED"
    BY <1>4, <2>1, <2>2, <2>3 DEF Write, Row
  <2>4. CASE c.to # "ACCEPTED"
    BY <1>4, <2>1, <2>2, <2>4 DEF Write, Row
  <2> QED
    BY <2>3, <2>4
<1>5. CASE \E c \in calls : CloseOverdue(c)
  BY <1>0, <1>2, <1>5 DEF WritingsAgree, AgreedUntil
<1>6. CASE \E c \in calls : CreateShare(c)
  BY <1>0, <1>3, <1>6 DEF WritingsAgree, AgreedUntil
<1>7. CASE \E c \in calls : Write(c)
  <2>1. MaxHour < NoTime
    BY DEF NoTime
  <2> QED
    BY <1>0, <1>4, <1>7, <2>1 DEF WritingsAgree, AgreedUntil
<1> QED
  BY <1>1, <1>5, <1>6, <1>7
  DEF ShareNext, shareVars, Ask, AdminStops, Relay, Hear, LoseTell, ShowShare, RefreshShare, Respond,
      Confirm, CaptureFailed, DriverStops, DriverStopsAlone, Grab, EndCapture, ShareClock

\* What was agreed to stays agreed to.
LEMMA AgreementsStay ==
    ASSUME ShareInv, [ShareNext]_shareVars, NEW s \in Shares, NEW until \in Int, AgreedUntil(s, until)
    PROVE  shares'[s].startedAt # NoTime /\ until <= shares'[s].startedAt + ShareTime
<1>1. shares[s].startedAt \in Int /\ shares'[s].startedAt \in Int /\ ShareTime \in Int
  BY ShareTypesHold, ShareAssumption DEF ShareInv, ShareTypeOK, Row, NoTime
<1> QED
  BY <1>1, RowsMove DEF AgreedUntil

\* A call that was sound stays so.
LEMMA SoundStays ==
    ASSUME ShareInv, [ShareNext]_shareVars, NEW c, SoundCall(c)
    PROVE  SoundCall(c)'
<1>1. c \in ShareCalls
  BY DEF SoundCall
<1>2. CASE c.op = "relay"
  <2>1. c.share \in Shares /\ c.at + 1 \in Int
    BY <1>1, <1>2, ShareAssumption DEF ShareCalls
  <2> QED
    BY <1>1, <1>2, <2>1, AgreementsStay DEF SoundCall, AgreedUntil
<1>3. CASE c.op = "tell"
  <2>1. c.view.state = "ACCEPTED" => c.view.share \in Shares /\ c.view.until \in Int
    BY <1>1, <1>3, ShareAssumption DEF ShareCalls, View, NoShare, Hours
  <2> QED
    BY <1>1, <1>3, <2>1, AgreementsStay DEF SoundCall, AgreedUntil
<1>4. CASE c.op = "show"
  <2>1. c.share \in Shares
    BY <1>1, <1>4 DEF ShareCalls
  <2> QED
    BY <1>1, <1>4, <2>1, RowsMove DEF SoundCall
<1>5. CASE c.op \notin {"relay", "tell", "show"}
  BY <1>1, <1>5 DEF SoundCall
<1> QED
  BY <1>2, <1>3, <1>4, <1>5

\* No step makes it false.
LEMMA CallsStaySound ==
    ASSUME ShareInv, [ShareNext]_shareVars
    PROVE  \A c \in calls' : SoundCall(c)'
<1> USE ShareAssumption DEF ShareInv
<1>0. \A c \in calls : SoundCall(c) /\ SoundCall(c)'
  BY CallsAreSound, SoundStays
<1>a. ASSUME NEW new, SoundCall(new), calls' \subseteq calls \cup {new}
      PROVE  \A c \in calls' : SoundCall(c)'
  BY <1>0, <1>a, SoundStays
<1>b. ASSUME \A c \in calls' : SoundCall(c)
      PROVE  \A c \in calls' : SoundCall(c)'
  BY <1>b, SoundStays
<1>c. ASSUME NEW new, SoundCall(new)', NEW old, calls' = (calls \ {old}) \cup {new}
      PROVE  \A c \in calls' : SoundCall(c)'
  BY <1>0, <1>c
<1>1. ASSUME NEW a \in Viewers, Ask(a)
      PROVE  \A c \in calls' : SoundCall(c)'
  <2> DEFINE new == IF LiveShares = {} THEN [op |-> "create", by |-> a]
                    ELSE [op |-> "expire", share |-> Candidate, by |-> a]
  <2>1. SoundCall(new)
    BY CandidateIsLive DEF SoundCall, ShareCalls
  <2>2. calls' \subseteq calls \cup {new}
    BY <1>1 DEF Ask
  <2> HIDE DEF new
  <2> QED
    BY <2>1, <2>2, <1>a
<1>2. ASSUME NEW a \in Viewers, AdminStops(a)
      PROVE  \A c \in calls' : SoundCall(c)'
  <2> DEFINE s == panels[a].share
             answer == [op |-> "show", share |-> s, state |-> shares[s].state, to |-> a]
  <2>1. s \in Shares /\ shares[s].state \in LiveStates \cup EndStates
    <3>1. s \in {0} \cup Shares /\ s # 0
      BY <1>2 DEF AdminStops, LiveStates, WritingsAgree, ShareTypeOK, Panel
    <3>2. shares[s].state # "none"
      BY <1>2 DEF AdminStops, LiveStates, WritingsAgree
    <3> QED
      BY <3>1, <3>2 DEF ShareTypeOK, Row
  <2>2. SoundCall(answer)
    BY <2>1 DEF SoundCall, ShareCalls, LiveStates, EndStates
  <2>3. Judged(s, "ENDED_BY_ADMIN", a, {answer})
    BY <1>2 DEF AdminStops
  <2> HIDE DEF answer, s
  <2>4. \A c \in calls' : SoundCall(c)
    BY <2>1, <2>2, <2>3, JudgedIsSound DEF EndStates
  <2> QED
    BY <2>4, <1>b
<1>3. ASSUME NEW c \in calls, CloseOverdue(c)
      PROVE  \A d \in calls' : SoundCall(d)'
  <2> DEFINE new == IF c.by = "phone" THEN [op |-> "tell", view |-> NoShare]
                    ELSE [op |-> "create", by |-> c.by]
  <2>1. c.by \in Viewers \cup {"phone"}
    BY <1>3, CallCarries DEF CloseOverdue
  <2>2. SoundCall(new)
    BY <2>1 DEF SoundCall, ShareCalls, NoShare
  <2>3. calls' \subseteq calls \cup {new}
    BY <1>3 DEF CloseOverdue
  <2> HIDE DEF new
  <2> QED
    BY <2>2, <2>3, <1>a
<1>4. ASSUME NEW c \in calls, CreateShare(c)
      PROVE  \A d \in calls' : SoundCall(d)'
  <2>1. c.by \in Viewers
    BY <1>4, CallCarries DEF CreateShare
  <2>2. PICK s \in Shares :
            /\ shares' = [shares EXCEPT ![s] = [state |-> "REQUESTED", until |-> hour + AnswerTime,
                                                by |-> c.by, startedAt |-> NoTime]]
            /\ calls' = (calls \ {c}) \cup
                   {[op |-> "show", share |-> s, state |-> "REQUESTED", to |-> c.by]}
    BY <1>4 DEF CreateShare
  <2> DEFINE new == [op |-> "show", share |-> s, state |-> "REQUESTED", to |-> c.by]
  <2>3. shares'[s].state # "none"
    BY <2>2 DEF ShareTypeOK
  <2>4. SoundCall(new)'
    BY <2>1, <2>3 DEF SoundCall, ShareCalls, LiveStates
  <2>5. calls' = (calls \ {c}) \cup {new}
    BY <2>2
  <2> HIDE DEF new
  <2> QED
    BY <2>4, <2>5, <1>c
<1>5. ASSUME NEW c \in calls, Write(c)
      PROVE  \A d \in calls' : SoundCall(d)'
  <2>1. c.share \in Shares /\ c.by \in Viewers \cup {"phone"} /\ c.to \in LiveStates \cup EndStates
    BY <1>5, CallCarries DEF Write
  <2>2. shares'[c.share] \in Row
    BY <2>1, ShareTypesHold DEF ShareTypeOK
  <2>3. shares'[c.share].state = c.to
    BY <1>5, <2>1 DEF Write, ShareTypeOK, Row
  <2>4. CASE c.by # "phone"
    <3> DEFINE show == [op |-> "show", share |-> c.share, state |-> c.to, to |-> c.by]
    <3>1. SoundCall(show)'
      BY <2>1, <2>3, <2>4 DEF SoundCall, ShareCalls, LiveStates, EndStates
    <3>2. calls' = (calls \ {c}) \cup {show}
      BY <1>5, <2>4 DEF Write
    <3> HIDE DEF show
    <3> QED
      BY <3>1, <3>2, <1>c
  <2>5. CASE c.by = "phone"
    <3>1. PICK view : /\ view = IF c.to = "ACCEPTED" THEN ViewOf(c.share) ELSE NoShare
                      /\ calls' = (calls \ {c}) \cup {[op |-> "tell", view |-> view]}
      BY <1>5, <2>5 DEF Write
    <3>2. view \in View \cup {NoShare}
      BY <2>1, <2>2, <2>3, <3>1 DEF ViewOf, View, Row, LiveStates
    <3>3. view.state = "ACCEPTED" => /\ view.share = c.share /\ view.until = shares'[c.share].until
                                    /\ shares'[c.share].state = "ACCEPTED"
      BY <2>1, <2>3, <3>1 DEF NoShare, ViewOf
    <3>4. view.state = "ACCEPTED" => AgreedUntil(view.share, view.until)'
      BY <2>1, <3>3, RowsMove DEF AgreedUntil
    <3> DEFINE tell == [op |-> "tell", view |-> view]
    <3>5. tell \in ShareCalls /\ tell.op = "tell" /\ tell.view = view
      BY <3>2 DEF ShareCalls
    <3> HIDE DEF tell
    <3>6. SoundCall(tell)'
      BY <3>4, <3>5 DEF SoundCall
    <3> QED
      BY <3>1, <3>6, <1>c DEF tell
  <2> QED
    BY <2>4, <2>5
<1>6. CASE RefreshShare
  BY <1>6, <1>a, CurrentIsSound DEF RefreshShare
<1>7. ASSUME NEW answer \in {"ACCEPTED", "REFUSED"}, Respond(answer)
      PROVE  \A c \in calls' : SoundCall(c)'
  BY <1>7, <1>b, PhoneJudges
<1>8. CASE CaptureFailed
  BY <1>8, <1>b, PhoneJudges
<1>9. CASE DriverStops
  BY <1>9, <1>b, PhoneJudges
<1>10. CASE Grab
  <2> DEFINE s == snapshot.share
             new == IF TakesFrames(s) THEN [op |-> "relay", share |-> s, at |-> hour]
                    ELSE [op |-> "tell", view |-> NoShare]
  <2>1. s \in Shares
    BY <1>10 DEF Grab, ShareTypeOK, View, NoShare
  <2>2. calls' \subseteq calls \cup {new}
    BY <1>10 DEF Grab
  <2>3. TakesFrames(s) => AgreedUntil(s, hour + 1)
    <3>1. /\ hour \in Int /\ shares[s].until \in Int /\ shares[s].startedAt \in Int
      BY <2>1 DEF ShareTypeOK, Row, Hours, NoTime
    <3>2. TakesFrames(s) => AgreedUntil(s, shares[s].until) /\ hour < shares[s].until
      BY <2>1 DEF TakesFrames, WritingsAgree
    <3> QED
      BY <3>1, <3>2 DEF AgreedUntil
  <2>4. SoundCall(new)
    <3>1. CASE TakesFrames(s)
      <4>1. new = [op |-> "relay", share |-> s, at |-> hour] /\ hour \in 0..MaxHour
        BY <3>1 DEF ShareTypeOK
      <4> QED
        BY <2>1, <2>3, <3>1, <4>1 DEF SoundCall, ShareCalls
    <3>2. CASE ~TakesFrames(s)
      BY <3>2 DEF SoundCall, ShareCalls, NoShare
    <3> QED
      BY <3>1, <3>2
  <2> HIDE DEF new
  <2> QED
    BY <2>2, <2>4, <1>a
<1>11. ASSUME calls' \subseteq calls
       PROVE  \A c \in calls' : SoundCall(c)'
  BY <1>0, <1>11
<1> QED
  BY <1>1, <1>2, <1>3, <1>4, <1>5, <1>6, <1>7, <1>8, <1>9, <1>10, <1>11
  DEF ShareNext, shareVars, Relay, Hear, LoseTell, ShowShare, Confirm, DriverStopsAlone,
      EndCapture, ShareClock

\* What a panel shows: a share that was requested, and an image of it as it was agreed to.
SoundPanel(a) ==
    /\ panels[a].state # "none" => /\ panels[a].share # 0
                                   /\ shares[panels[a].share].state # "none"
    /\ panels[a].frame.share # 0 =>
           /\ AgreedUntil(panels[a].frame.share, panels[a].frame.at + 1)
           /\ panels[a].frame.share = panels[a].share
           /\ shares[panels[a].frame.share].by = a

\* What the invariant says of the panels, one by one.
LEMMA PanelsAreSound ==
    ASSUME ShareTypeOK
    PROVE  (\A a \in Viewers : SoundPanel(a)) <=>
               /\ \A a \in Viewers : panels[a].state # "none" =>
                      panels[a].share # 0 /\ shares[panels[a].share].state # "none"
               /\ SeenAsAgreed /\ ShownToWhoAsked
<1>1. ASSUME NEW a \in Viewers, panels[a].frame.share # 0
      PROVE  AgreedUntil(panels[a].frame.share, panels[a].frame.at + 1) <=>
                 /\ shares[panels[a].frame.share].startedAt # NoTime
                 /\ panels[a].frame.at < shares[panels[a].frame.share].startedAt + ShareTime
  <2>1. panels[a].frame.share \in Shares /\ panels[a].frame.at \in Int
    BY <1>1, ShareAssumption DEF ShareTypeOK, Panel
  <2>2. shares[panels[a].frame.share].startedAt \in Int
    BY <2>1, ShareAssumption DEF ShareTypeOK, Row, NoTime
  <2> QED
    BY <2>1, <2>2, ShareAssumption DEF AgreedUntil
<1> QED
  BY <1>1 DEF SoundPanel, SeenAsAgreed, ShownToWhoAsked

\* No step makes a panel wrong.
LEMMA PanelsStaySound ==
    ASSUME ShareInv, [ShareNext]_shareVars
    PROVE  \A a \in Viewers : SoundPanel(a)'
<1> USE ShareAssumption DEF ShareInv
<1>0. \A a \in Viewers : SoundPanel(a) /\ panels[a] \in Panel
  BY PanelsAreSound DEF WritingsAgree, ShareTypeOK
<1>1. ASSUME NEW a \in Viewers,
             panels'[a].share = panels[a].share,
             \/ panels'[a].state = panels[a].state
             \/ shares'[panels[a].share].state # "none" /\ panels[a].share # 0,
             panels'[a].frame \in {panels[a].frame, NoFrame}
      PROVE  SoundPanel(a)'
  <2>1. panels[a].share \in {0} \cup Shares /\ panels[a].frame.share \in {0} \cup Shares
        /\ panels[a].frame.at + 1 \in Int
    BY <1>0 DEF Panel
  <2>2. panels'[a].state # "none" => /\ panels'[a].share # 0
                                    /\ shares'[panels'[a].share].state # "none"
    BY <1>0, <1>1, <2>1, RowsMove DEF SoundPanel
  <2>3. CASE panels'[a].frame = NoFrame
    BY <2>2, <2>3 DEF SoundPanel, NoFrame
  <2>4. CASE panels'[a].frame = panels[a].frame /\ panels[a].frame.share # 0
    <3>1. AgreedUntil(panels[a].frame.share, panels[a].frame.at + 1)'
      BY <1>0, <2>1, <2>4, AgreementsStay DEF SoundPanel, AgreedUntil
    <3>2. shares'[panels[a].frame.share].by = a
      <4>1. shares[panels[a].frame.share].state # "none"
        BY <1>0, <2>1, <2>4 DEF SoundPanel, WritingsAgree, AgreedUntil
      <4> QED
        BY <1>0, <2>1, <2>4, <4>1, RowsMove DEF SoundPanel
    <3> QED
      BY <1>0, <1>1, <2>2, <2>4, <3>1, <3>2 DEF SoundPanel
  <2>5. CASE panels'[a].frame = panels[a].frame /\ panels[a].frame.share = 0
    BY <2>2, <2>5 DEF SoundPanel
  <2> QED
    BY <1>1, <2>3, <2>4, <2>5
<1>2. ASSUME NEW s \in Shares, NEW state \in LiveStates \cup EndStates, Broadcast(s, state),
             shares'[s].state # "none"
      PROVE  \A a \in Viewers : SoundPanel(a)'
  <2>1. 0 \notin Shares
    BY DEF Shares
  <2> QED
    BY <1>1, <1>2, <2>1, BroadcastPanels
<1>3. ASSUME NEW c \in calls, CloseOverdue(c)
      PROVE  \A a \in Viewers : SoundPanel(a)'
  <2>1. c.share \in Shares
    BY <1>3, CallCarries DEF CloseOverdue
  <2>2. shares'[c.share].state # "none"
    BY <1>3, <2>1 DEF CloseOverdue, ShareTypeOK, Row
  <2> QED
    BY <1>2, <1>3, <2>1, <2>2 DEF CloseOverdue, EndStates
<1>4. ASSUME NEW c \in calls, Write(c)
      PROVE  \A a \in Viewers : SoundPanel(a)'
  <2>1. c.share \in Shares /\ c.to \in LiveStates \cup EndStates
    BY <1>4, CallCarries DEF Write
  <2>2. shares'[c.share].state = c.to
    BY <1>4, <2>1 DEF Write, ShareTypeOK, Row
  <2> QED
    BY <1>2, <1>4, <2>1, <2>2 DEF Write, EndStates, LiveStates
<1>5. ASSUME NEW c \in calls, Relay(c)
      PROVE  \A a \in Viewers : SoundPanel(a)'
  <2>1. c.share \in Shares /\ AgreedUntil(c.share, c.at + 1) /\ shares' = shares
    BY <1>5, CallCarries DEF Relay, WritingsAgree
  <2>2. ASSUME NEW a \in Viewers, a = shares[c.share].by, panels[a].share = c.share
        PROVE  SoundPanel(a)'
    <3>1. panels'[a] = [panels[a] EXCEPT !.frame = [share |-> c.share, at |-> c.at]]
      BY <1>5, <2>2 DEF Relay
    <3>2. /\ panels'[a].share = panels[a].share /\ panels'[a].state = panels[a].state
          /\ panels'[a].frame = [share |-> c.share, at |-> c.at]
      BY <1>0, <3>1 DEF Panel
    <3> QED
      BY <1>0, <2>1, <2>2, <3>2 DEF SoundPanel, AgreedUntil
  <2>3. ASSUME NEW a \in Viewers, ~(a = shares[c.share].by /\ panels[a].share = c.share)
        PROVE  SoundPanel(a)'
    <3>1. panels'[a] = panels[a]
      BY <1>5, <2>3 DEF Relay
    <3> QED
      BY <1>1, <3>1
  <2> QED
    BY <2>2, <2>3
<1>6. ASSUME NEW c \in calls, ShowShare(c)
      PROVE  \A a \in Viewers : SoundPanel(a)'
  <2>1. c.share \in Shares /\ c.to \in Viewers /\ shares'[c.share].state # "none" /\ 0 \notin Shares
    BY <1>6, CallCarries DEF ShowShare, WritingsAgree, Shares
  <2>2. ASSUME NEW a \in Viewers, a # c.to
        PROVE  SoundPanel(a)'
    <3>1. panels'[a] = panels[a]
      BY <1>6, <2>2 DEF ShowShare, ShareTypeOK
    <3> QED
      BY <1>1, <3>1
  <2>3. SoundPanel(c.to)'
    <3>1. panels'[c.to] = [share |-> c.share, state |-> c.state, frame |-> NoFrame]
      BY <1>6, <2>1 DEF ShowShare, ShareTypeOK
    <3> QED
      BY <2>1, <3>1 DEF SoundPanel, NoFrame
  <2> QED
    BY <2>2, <2>3
<1>7. CASE UNCHANGED panels
  BY <1>1, <1>7
<1> QED
  BY <1>3, <1>4, <1>5, <1>6, <1>7
  DEF ShareNext, shareVars, Ask, AdminStops, CreateShare, Hear, LoseTell, RefreshShare, Respond,
      Confirm, CaptureFailed, DriverStops, DriverStopsAlone, Grab, EndCapture, ShareClock

\* The capture runs for a session that was agreed to.
LEMMA CaptureStaysAgreed ==
    ASSUME ShareInv, [ShareNext]_shareVars
    PROVE  CapturedAsAgreed'
<1> USE DEF ShareInv
<1>1. ASSUME NEW view \in View \cup {NoShare}, view.state = "ACCEPTED",
             AgreedUntil(view.share, view.until)
      PROVE  AgreedUntil(view.share, view.until)'
  <2>1. view.share \in Shares /\ view.until \in Int
    BY <1>1, ShareAssumption DEF View, NoShare, Hours
  <2> QED
    BY <1>1, <2>1, AgreementsStay DEF AgreedUntil
<1>2. CASE snapshot' = snapshot
  <2>1. snapshot.state = "ACCEPTED" => AgreedUntil(snapshot.share, snapshot.until)
    BY DEF CapturedAsAgreed, AgreedUntil
  <2> QED
    BY <1>1, <1>2, <2>1 DEF CapturedAsAgreed, AgreedUntil, ShareTypeOK
<1>3. CASE snapshot' = NoShare
  BY <1>3 DEF CapturedAsAgreed, NoShare
<1>4. ASSUME NEW c \in calls, Hear(c), snapshot' = c.view
      PROVE  CapturedAsAgreed'
  <2>1. c.view \in View \cup {NoShare}
    BY <1>4, CallCarries DEF Hear
  <2>2. c.view.state = "ACCEPTED" => AgreedUntil(c.view.share, c.view.until)
    BY <1>4 DEF Hear, WritingsAgree
  <2> QED
    BY <1>1, <1>4, <2>1, <2>2 DEF CapturedAsAgreed, AgreedUntil
<1>5. snapshot' = snapshot \/ snapshot' = NoShare \/ \E c \in calls : Hear(c) /\ snapshot' = c.view
  BY DEF ShareNext, shareVars, Ask, AdminStops, CloseOverdue, CreateShare, Write, Relay, Hear, LoseTell,
     ShowShare, RefreshShare, Respond, Confirm, CaptureFailed, DriverStops, DriverStopsAlone,
     Grab, EndCapture, ShareClock
<1> QED
  BY <1>2, <1>3, <1>4, <1>5

\* Every step keeps the invariant.
LEMMA ShareStays == ShareInv /\ [ShareNext]_shareVars => ShareInv'
<1> SUFFICES ASSUME ShareInv, [ShareNext]_shareVars
             PROVE  ShareInv'
  OBVIOUS
<1>1. ShareTypeOK'
  BY ShareTypesHold
<1>2. (\A a \in Viewers : SoundPanel(a))'
  BY PanelsStaySound
<1>3. (/\ \A a \in Viewers : panels[a].state # "none" =>
             panels[a].share # 0 /\ shares[panels[a].share].state # "none"
       /\ SeenAsAgreed /\ ShownToWhoAsked)'
  BY <1>1, <1>2, PanelsAreSound, PTL
<1>4. \A c \in calls' :
          /\ c.op = "relay" => AgreedUntil(c.share, c.at + 1)'
          /\ c.op = "tell" /\ c.view.state = "ACCEPTED" => AgreedUntil(c.view.share, c.view.until)'
          /\ c.op = "show" => shares'[c.share].state # "none"
  BY CallsStaySound DEF SoundCall
<1>5. \A s \in Shares :
          /\ shares'[s].startedAt # NoTime => shares'[s].startedAt <= hour' /\ shares'[s].state # "none"
          /\ shares'[s].state = "ACCEPTED" => AgreedUntil(s, shares[s].until)'
  BY RowsMove
<1>6. WritingsAgree'
  BY <1>3, <1>4, <1>5 DEF WritingsAgree
<1> QED
  BY <1>1, <1>3, <1>6, CaptureStaysAgreed DEF ShareInv

\* It holds at the start.
LEMMA ShareStarts == ShareInit => ShareInv
<1> SUFFICES ASSUME ShareInit
             PROVE  ShareInv
  OBVIOUS
<1> USE ShareAssumption DEF ShareInit
<1>1. /\ \A s \in Shares : /\ shares[s].state = "none" /\ shares[s].startedAt = NoTime
                           /\ shares[s] \in Row
      /\ \A a \in Viewers : /\ panels[a].state = "none" /\ panels[a].frame.share = 0
                            /\ panels[a] \in Panel
      /\ calls = {} /\ snapshot.state = "none"
  BY DEF NoFrame, NoShare, Row, Panel, Hours, NoTime
<1>2. ShareTypeOK
  BY <1>1 DEF ShareTypeOK, NoShare
<1> QED
  BY <1>1, <1>2 DEF ShareInv, WritingsAgree, SeenAsAgreed, CapturedAsAgreed, ShownToWhoAsked

\* An image is seen, and a screen captured, only for a share the driver agreed to, within
\* its duration since his agreement, and by the administrator who asked for that share,
\* whatever order the handlers of ScreenShareService, the answers and the events come in.
THEOREM SeenByConsent == ShareSpec => []ShareInv
BY ShareStarts, ShareStays, PTL DEF ShareSpec

-----------------------------------------------------------------------------
(* The applications of the phones *)

\* What an administrator's request, and a job, carry at each of their steps.
LEMMA DeskCarries ==
    ASSUME AppTypeOK, NEW d \in Desks
    PROVE  /\ desk[d].pc \in {"store", "create", "retire"} => desk[d].apk \in Apks
           /\ desk[d].pc = "deploy" =>
                  desk[d] \in [pc : {"deploy"}, apk : Apks, name : Names, left : SUBSET Units]
BY DEF AppTypeOK, AtRest

\* What a job of the phone carries at each of its points.
LEMMA JobCarries ==
    ASSUME AppTypeOK, NEW k \in Units \X Jobs
    PROVE  /\ job[k] # AtRest => job[k].apk \in Apks
           /\ job[k].pc \in {"rest", "download", "decide", "commit", "report", "ack"}
           /\ job[k].pc = "rest" <=> job[k] = AtRest
           /\ job[k].pc = "decide" => job[k].read \in Copies
           /\ job[k].pc = "report" => job[k].name \in Names
           /\ job[k].pc = "ack" => job[k].ok \in BOOLEAN
BY DEF AppTypeOK, AtRest

JobSteps ==
    {AtRest} \cup [pc : {"download", "commit"}, apk : Apks]
             \cup [pc : {"decide"}, apk : Apks, read : Copies]
             \cup [pc : {"report"}, apk : Apks, name : Names]
             \cup [pc : {"ack"}, apk : Apks, ok : BOOLEAN]
DeskSteps ==
    {AtRest} \cup [pc : {"store", "create", "retire"}, apk : Apks]
             \cup [pc : {"deploy"}, apk : Apks, name : Names, left : SUBSET Units]

\* A job that makes a step, the others standing still.
LEMMA OneJobMoves ==
    ASSUME AppTypeOK, NEW u \in Units, NEW j \in Jobs, NEW step \in JobSteps, Run(u, j, step)
    PROVE  /\ job' \in [Units \X Jobs -> JobSteps]
           /\ job'[<<u, j>>] = step
           /\ \A k \in Units \X Jobs : k # <<u, j>> => job'[k] = job[k]
<1>1. job \in [Units \X Jobs -> JobSteps] /\ <<u, j>> \in Units \X Jobs
  BY DEF AppTypeOK, JobSteps
<1>2. job' = [job EXCEPT ![<<u, j>>] = step]
  BY DEF Run
<1> QED
  BY <1>1, <1>2

\* A step of a desk moves this desk alone,
LEMMA OneDeskMoves ==
    ASSUME AppTypeOK, NEW d \in Desks, NEW step \in DeskSteps, DeskAt(d, step)
    PROVE  /\ desk' \in [Desks -> DeskSteps]
           /\ desk'[d] = step
           /\ \A e \in Desks : e # d => desk'[e] = desk[e]
<1>1. desk \in [Desks -> DeskSteps]
  BY DEF AppTypeOK, DeskSteps
<1> QED
  BY <1>1 DEF DeskAt

\* and to the next of its points.
LEMMA DeskGoes ==
    ASSUME AppTypeOK, NEW d \in Desks, NEW p \in Apks, NEW pc \in {"store", "create", "retire"},
           DeskAt(d, [pc |-> pc, apk |-> p])
    PROVE  /\ desk'[d].pc = pc /\ desk'[d].apk = p
           /\ \A e \in Desks : e # d => desk'[e] = desk[e]
<1>1. [pc |-> pc, apk |-> p] \in DeskSteps
  BY DEF DeskSteps
<1>2. desk'[d] = [pc |-> pc, apk |-> p] /\ \A e \in Desks : e # d => desk'[e] = desk[e]
  BY <1>1, OneDeskMoves
<1> QED
  BY <1>2

\* The types, with the steps named.
AppTypes ==
    /\ unstable \in BOOLEAN /\ owners \subseteq Units
    /\ content \in [Apks -> Builds]
    /\ catalog \in [Apks -> [row : {"absent", "offered", "retired"}, name : Names]]
    /\ disk \in [Apks -> Stored]
    /\ desk \in [Desks -> DeskSteps]
    /\ install \in [Units \X Apks -> {"none", "pending", "executed", "failed", "expired"}]
    /\ told \in [Units \X Apks -> Names]
    /\ removal \in [Units -> {"none", "pending", "executed", "failed"}]
    /\ app \in [Units -> {NoApp} \cup Builds]
    /\ cache \in [Units \X Apks -> Copies]
    /\ job \in [Units \X Jobs -> JobSteps]
    /\ had \in [Units -> SUBSET Builds]

\* The type invariant, part by part.
LEMMA AppTypesNamed == AppTypeOK <=> AppTypes
BY DEF AppTypeOK, AppTypes, DeskSteps, JobSteps

\* The steps of the server keep the types.
LEMMA AppTypesOfServer ==
    ASSUME AppTypeOK, NEW d \in Desks,
           \/ \E p \in Apks : StartUpload(d, p) \/ Deploy(d, p) \/ RetireFile(d, p)
           \/ \E u \in Units : DeployTo(d, u) \/ Uninstall(d, u)
           \/ StoreUploadedApk(d) \/ CreateRow(d) \/ RetireRow(d) \/ StopServer(d)
    PROVE  AppTypes'
<1> USE AppTypesNamed DEF AppTypes, OnServer, OnPhones, orders
<1>0. AtRest \in DeskSteps /\ \A p \in Apks : \A pc \in {"store", "create", "retire"} :
                                 [pc |-> pc, apk |-> p] \in DeskSteps
  BY DEF DeskSteps
<1>1. ASSUME NEW p \in Apks, StartUpload(d, p)
      PROVE  AppTypes'
  BY <1>0, <1>1, OneDeskMoves DEF StartUpload, Stored
<1>2. ASSUME NEW p \in Apks, Deploy(d, p)
      PROVE  AppTypes'
  <2>1. [pc |-> "deploy", apk |-> p, name |-> catalog[p].name, left |-> Units] \in DeskSteps
    BY DEF DeskSteps
  <2> QED
    BY <1>2, <2>1, OneDeskMoves DEF Deploy
<1>3. ASSUME NEW p \in Apks, RetireFile(d, p)
      PROVE  AppTypes'
  BY <1>0, <1>3, OneDeskMoves DEF RetireFile, Stored
<1>4. ASSUME NEW u \in Units, DeployTo(d, u)
      PROVE  AppTypes'
  <2>1. desk[d] \in [pc : {"deploy"}, apk : Apks, name : Names, left : SUBSET Units]
    BY <1>4, DeskCarries DEF DeployTo
  <2>2. \E step \in DeskSteps : DeskAt(d, step)
    <3> DEFINE rest == desk[d].left \ {u}
               step == IF rest = {} THEN AtRest ELSE [desk[d] EXCEPT !.left = rest]
    <3>1. step \in DeskSteps
      BY <2>1 DEF DeskSteps
    <3>2. DeskAt(d, step)
      BY <1>4 DEF DeployTo
    <3> HIDE DEF step
    <3> QED
      BY <3>1, <3>2
  <2>3. desk' \in [Desks -> DeskSteps]
    BY <2>2, OneDeskMoves
  <2>4. /\ install' \in [Units \X Apks -> {"none", "pending", "executed", "failed", "expired"}]
        /\ told' \in [Units \X Apks -> Names]
    <3>1. <<u, desk[d].apk>> \in Units \X Apks /\ desk[d].name \in Names
      BY <2>1
    <3> QED
      BY <1>4, <3>1 DEF DeployTo
  <2> QED
    BY <1>4, <2>3, <2>4 DEF DeployTo
<1>5. ASSUME NEW u \in Units, Uninstall(d, u)
      PROVE  AppTypes'
  BY <1>5 DEF Uninstall
<1>6. CASE StoreUploadedApk(d)
  <2>1. desk[d].apk \in Apks
    BY <1>6, DeskCarries DEF StoreUploadedApk
  <2>2. \E step \in DeskSteps : DeskAt(d, step)
    BY <1>0, <1>6, <2>1 DEF StoreUploadedApk
  <2>3. disk' \in [Apks -> Stored] /\ UNCHANGED catalog
    BY <1>6, <2>1 DEF StoreUploadedApk, Stored
  <2> QED
    BY <1>6, <2>2, <2>3, OneDeskMoves DEF StoreUploadedApk
<1>7. CASE CreateRow(d)
  <2>1. desk[d].apk \in Apks
    BY <1>7, DeskCarries DEF CreateRow
  <2>2. \E step \in DeskSteps : DeskAt(d, step)
    BY <1>0, <1>7, <2>1 DEF CreateRow
  <2>3. /\ disk' \in [Apks -> Stored]
        /\ catalog' \in [Apks -> [row : {"absent", "offered", "retired"}, name : Names]]
    BY <1>7, <2>1 DEF CreateRow, Stored
  <2> QED
    BY <1>7, <2>2, <2>3, OneDeskMoves DEF CreateRow
<1>8. CASE RetireRow(d)
  <2>1. desk[d].apk \in Apks
    BY <1>8, DeskCarries DEF RetireRow
  <2>2. \E step \in DeskSteps : DeskAt(d, step)
    BY <1>0, <1>8, <2>1 DEF RetireRow
  <2>3. /\ UNCHANGED disk
        /\ catalog' \in [Apks -> [row : {"absent", "offered", "retired"}, name : Names]]
    BY <1>8, <2>1 DEF RetireRow
  <2> QED
    BY <1>8, <2>2, <2>3, OneDeskMoves DEF RetireRow
<1>9. CASE StopServer(d)
  BY <1>0, <1>9, OneDeskMoves DEF StopServer
<1> QED
  BY <1>1, <1>2, <1>3, <1>4, <1>5, <1>6, <1>7, <1>8, <1>9

\* The steps of the phone keep the types.
LEMMA AppTypesOfPhone ==
    ASSUME AppTypeOK, NEW u \in Units,
           \/ \E p \in Apks : OrderExpires(u, p)
           \/ \E j \in Jobs :
                  \/ \E p \in Apks : StartInstall(u, j, p)
                  \/ Download(u, j) \/ DownloadFails(u, j) \/ Decide(u, j)
                  \/ Commit(u, j) \/ CommitFails(u, j) \/ ReportInstalled(u, j)
                  \/ ReportResult(u, j) \/ KillJob(u, j) \/ RunRemoval(u, j)
    PROVE  AppTypes'
<1> USE AppTypesNamed DEF AppTypes, Unordered, orders, server
<1>0. /\ AtRest \in JobSteps
      /\ \A p \in Apks : /\ \A ok \in BOOLEAN : Ack(p, ok) \in JobSteps
                         /\ \A pc \in {"download", "commit"} : [pc |-> pc, apk |-> p] \in JobSteps
                         /\ \A read \in Copies : [pc |-> "decide", apk |-> p, read |-> read] \in JobSteps
                         /\ \A name \in Names : [pc |-> "report", apk |-> p, name |-> name] \in JobSteps
                         /\ <<u, p>> \in Units \X Apks
  BY DEF JobSteps, Ack
<1>1. ASSUME NEW p \in Apks, OrderExpires(u, p)
      PROVE  AppTypes'
  BY <1>0, <1>1 DEF OrderExpires
<1>2. ASSUME NEW j \in Jobs, NEW p \in Apks, StartInstall(u, j, p)
      PROVE  AppTypes'
  BY <1>0, <1>2, OneJobMoves DEF StartInstall
<1>3. ASSUME NEW j \in Jobs, Download(u, j)
      PROVE  AppTypes'
  <2>1. job[<<u, j>>].apk \in Apks
    BY <1>3, JobCarries DEF Download
  <2>2. PICK copy \in {"whole", "other"} :
            /\ cache' = [cache EXCEPT ![<<u, job[<<u, j>>].apk>>] = copy]
            /\ Run(u, j, [pc |-> "decide", apk |-> job[<<u, j>>].apk, read |-> copy])
    BY <1>3 DEF Download
  <2> QED
    BY <1>0, <1>3, <2>1, <2>2, OneJobMoves DEF Download, Copies
<1>4. ASSUME NEW j \in Jobs, DownloadFails(u, j)
      PROVE  AppTypes'
  BY <1>0, <1>4, OneJobMoves, JobCarries DEF DownloadFails, Copies
<1>5. ASSUME NEW j \in Jobs, Decide(u, j)
      PROVE  AppTypes'
  <2>1. job[<<u, j>>].apk \in Apks
    BY <1>5, JobCarries DEF Decide
  <2>2. \E step \in JobSteps : Run(u, j, step)
    BY <1>0, <1>5, <2>1 DEF Decide, AckRefusal
  <2>3. cache' \in [Units \X Apks -> Copies]
    BY <1>0, <1>5, <2>1 DEF Decide, AckRefusal, Copies
  <2> QED
    BY <1>5, <2>2, <2>3, OneJobMoves DEF Decide
<1>6. ASSUME NEW j \in Jobs, Commit(u, j)
      PROVE  AppTypes'
  <2>1. job[<<u, j>>].apk \in Apks
    BY <1>6, JobCarries DEF Commit
  <2>2. \E step \in JobSteps : Run(u, j, step)
    <3>1. NameRead(u, job[<<u, j>>].apk) \in Names
      BY DEF NameRead, Names
    <3> QED
      BY <1>0, <1>6, <2>1, <3>1 DEF Commit
  <2>3. app' \in [Units -> {NoApp} \cup Builds] /\ had' \in [Units -> SUBSET Builds]
    <3>1. content[job[<<u, j>>].apk] \in Builds
      BY <2>1
    <3>2. \/ UNCHANGED <<app, had>>
          \/ /\ app' = [app EXCEPT ![u] = content[job[<<u, j>>].apk]]
             /\ had' = [had EXCEPT ![u] = @ \cup {content[job[<<u, j>>].apk]}]
      <4>1. CASE cache[<<u, job[<<u, j>>].apk>>] = "whole"
        BY <1>6, <4>1 DEF Commit
      <4>2. CASE cache[<<u, job[<<u, j>>].apk>>] # "whole"
        BY <1>6, <4>2 DEF Commit
      <4> QED
        BY <4>1, <4>2
    <3>3. PICK build \in Builds : \/ UNCHANGED <<app, had>>
                                 \/ /\ app' = [app EXCEPT ![u] = build]
                                    /\ had' = [had EXCEPT ![u] = @ \cup {build}]
      BY <3>1, <3>2
    <3>4. app \in [Units -> {NoApp} \cup Builds] /\ had \in [Units -> SUBSET Builds]
      OBVIOUS
    <3>5. app' \in [Units -> {NoApp} \cup Builds]
      BY ONLY <3>3, <3>4
    <3> QED
      BY ONLY <3>3, <3>4, <3>5
  <2> QED
    BY <1>6, <2>2, <2>3, OneJobMoves DEF Commit
<1>7. ASSUME NEW j \in Jobs, CommitFails(u, j)
      PROVE  AppTypes'
  BY <1>0, <1>7, OneJobMoves, JobCarries DEF CommitFails, Copies
<1>8. ASSUME NEW j \in Jobs, ReportInstalled(u, j)
      PROVE  AppTypes'
  <2>1. job[<<u, j>>].apk \in Apks /\ job[<<u, j>>].name \in Names
    BY <1>8, JobCarries DEF ReportInstalled
  <2>2. catalog' \in [Apks -> [row : {"absent", "offered", "retired"}, name : Names]]
    <3>1. \/ UNCHANGED catalog
          \/ \E name \in Names : catalog' = [catalog EXCEPT ![job[<<u, j>>].apk].name = name]
      <4> DEFINE p == job[<<u, j>>].apk
                 name == IF catalog[p].name = "unknown" THEN job[<<u, j>>].name ELSE catalog[p].name
      <4>1. name \in Names
        BY <2>1
      <4>2. UNCHANGED catalog \/ catalog' = [catalog EXCEPT ![p].name = name]
        BY <1>8, <2>1 DEF ReportInstalled
      <4> HIDE DEF p, name
      <4> QED
        BY <4>1, <4>2 DEF p
    <3>2. catalog \in [Apks -> [row : {"absent", "offered", "retired"}, name : Names]]
      OBVIOUS
    <3> QED
      BY ONLY <2>1, <3>1, <3>2
  <2> QED
    BY <1>0, <1>8, <2>1, <2>2, OneJobMoves DEF ReportInstalled, Copies
<1>9. ASSUME NEW j \in Jobs, ReportResult(u, j)
      PROVE  AppTypes'
  BY <1>0, <1>9, OneJobMoves, JobCarries DEF ReportResult
<1>10. ASSUME NEW j \in Jobs, KillJob(u, j)
       PROVE  AppTypes'
  BY <1>0, <1>10, OneJobMoves DEF KillJob
<1>11. ASSUME NEW j \in Jobs, RunRemoval(u, j)
       PROVE  AppTypes'
  BY <1>11, ZenonT(30) DEF RunRemoval
<1> QED
  BY <1>1, <1>2, <1>3, <1>4, <1>5, <1>6, <1>7, <1>8, <1>9, <1>10, <1>11

\* Every variable of the deployment keeps its type.
LEMMA AppTypesHold ==
    ASSUME AppTypeOK, [AppNext]_appVars
    PROVE  AppTypeOK'
<1>1. CASE UNCHANGED appVars
  BY <1>1 DEF appVars, AppTypeOK
<1>2. CASE AppNext
  <2>1. AppTypes'
    BY <1>2, AppTypesOfServer, AppTypesOfPhone DEF AppNext
  <2> QED
    BY <2>1, AppTypesNamed, PTL
<1> QED
  BY <1>1, <1>2

\* The steps of the phones leave the files, the requests and the rows alone, but for the
\* name a phone reports.
LEMMA PhonesLeaveUploads ==
    ASSUME AppTypeOK, NEW u \in Units,
           \/ \E p \in Apks : OrderExpires(u, p)
           \/ \E j \in Jobs :
                  \/ \E p \in Apks : StartInstall(u, j, p)
                  \/ Download(u, j) \/ DownloadFails(u, j) \/ Decide(u, j)
                  \/ Commit(u, j) \/ CommitFails(u, j) \/ ReportInstalled(u, j)
                  \/ ReportResult(u, j) \/ KillJob(u, j) \/ RunRemoval(u, j)
    PROVE  /\ UNCHANGED <<unstable, content, disk, desk>>
           /\ \A p \in Apks :
                  /\ catalog'[p].row = catalog[p].row
                  /\ \/ catalog'[p].name = catalog[p].name
                     \/ \E j \in Jobs : job[<<u, j>>].pc = "report" /\ catalog'[p].name = job[<<u, j>>].name
<1>1. ASSUME NEW j \in Jobs, ReportInstalled(u, j)
      PROVE  /\ UNCHANGED <<unstable, content, disk, desk>>
             /\ \A p \in Apks :
                    /\ catalog'[p].row = catalog[p].row
                    /\ \/ catalog'[p].name = catalog[p].name
                       \/ job[<<u, j>>].pc = "report" /\ catalog'[p].name = job[<<u, j>>].name
  <2>1. UNCHANGED <<unstable, content, disk, desk>> /\ job[<<u, j>>].pc = "report"
    BY <1>1 DEF ReportInstalled
  <2> DEFINE told1 == job[<<u, j>>].name
             q == job[<<u, j>>].apk
  <2>2. \/ UNCHANGED catalog
        \/ \E name \in {catalog[q].name, told1} : catalog' = [catalog EXCEPT ![q].name = name]
    BY <1>1, JobCarries DEF ReportInstalled, AppTypeOK, AtRest
  <2>3. catalog \in [Apks -> [row : {"absent", "offered", "retired"}, name : Names]]
    BY DEF AppTypeOK
  <2> HIDE DEF told1, q
  <2>4. \A p \in Apks : /\ catalog'[p].row = catalog[p].row
                        /\ catalog'[p].name \in {catalog[p].name, told1}
    BY <2>2, <2>3
  <2> QED
    BY <2>1, <2>4 DEF told1
<1>2. CASE UNCHANGED <<unstable, content, catalog, disk, desk>>
  BY <1>2
<1>3. UNCHANGED <<unstable, content, catalog, disk, desk>> \/ \E j \in Jobs : ReportInstalled(u, j)
  BY DEF OrderExpires, StartInstall, Download, DownloadFails, Decide, Commit, CommitFails, ReportResult,
         KillJob, RunRemoval, server
<1> QED
  BY <1>1, <1>2, <1>3

\* The steps of the server leave what the phones do and have alone.
LEMMA ServerLeavesPhones ==
    ASSUME NEW d \in Desks,
           \/ \E p \in Apks : StartUpload(d, p) \/ Deploy(d, p) \/ RetireFile(d, p)
           \/ \E u \in Units : DeployTo(d, u) \/ Uninstall(d, u)
           \/ StoreUploadedApk(d) \/ CreateRow(d) \/ RetireRow(d) \/ StopServer(d)
    PROVE  UNCHANGED <<unstable, content, app, cache, job, had>>
BY DEF StartUpload, Deploy, RetireFile, DeployTo, Uninstall, StoreUploadedApk, CreateRow, RetireRow,
       StopServer, OnServer, OnPhones

Uploading(d) == desk[d].pc \in {"store", "create"}

\* What an administrator's request relies on.
SoundDesk(d) ==
    /\ desk[d].pc = "store" => /\ disk[desk[d].apk] = "partial"
                               /\ catalog[desk[d].apk].row = "absent"
    /\ desk[d].pc = "create" => /\ disk[desk[d].apk] = "whole"
                                /\ catalog[desk[d].apk].row = "absent"
    /\ desk[d].pc = "retire" => catalog[desk[d].apk].row # "absent"

\* A request that makes a step: the others are not about the upload it changes.
LEMMA OneDeskActs ==
    ASSUME AppInv, NEW d \in Desks, NEW step \in DeskSteps, NEW p \in Apks, DeskAt(d, step),
           \A q \in Apks : q # p => disk'[q] = disk[q] /\ catalog'[q].row = catalog[q].row,
           catalog[p].row # "absent" => catalog'[p].row # "absent",
           \/ disk'[p] = disk[p] /\ catalog'[p].row = catalog[p].row
           \/ Uploading(d) /\ desk[d].apk = p
           \/ disk[p] = "none" /\ catalog'[p].row = catalog[p].row
           \/ catalog[p].row # "absent",
           step.pc \in {"store", "create"} =>
               /\ step.apk = p
               /\ (Uploading(d) /\ desk[d].apk = p) \/ disk[p] = "none",
           SoundDesk(d)'
    PROVE  UploadsAgree'
<1>0. /\ \A e \in Desks : SoundDesk(e)
      /\ \A e, f \in Desks : Uploading(e) /\ Uploading(f) /\ desk[e].apk = desk[f].apk => e = f
      /\ \A e \in Desks : desk[e].pc \in {"store", "create", "retire"} => desk[e].apk \in Apks
  BY DeskCarries DEF AppInv, UploadsAgree, SoundDesk, Uploading
<1>1. desk'[d] = step /\ \A e \in Desks : e # d => desk'[e] = desk[e]
  BY OneDeskMoves DEF AppInv
<1>2. ASSUME NEW e \in Desks, e # d, Uploading(e), desk[e].apk = p
      PROVE  disk'[p] = disk[p] /\ catalog'[p].row = catalog[p].row
  BY <1>0, <1>2 DEF SoundDesk, Uploading
<1>3. ASSUME NEW e \in Desks, e # d
      PROVE  SoundDesk(e)'
  BY <1>0, <1>1, <1>2, <1>3 DEF SoundDesk, Uploading
<1>4. ASSUME NEW e \in Desks, e # d, Uploading(e), step.pc \in {"store", "create"}
      PROVE  desk[e].apk # p
  BY <1>0, <1>4 DEF SoundDesk, Uploading
<1>5. \A e, f \in Desks : /\ desk'[e].pc \in {"store", "create"} /\ desk'[f].pc \in {"store", "create"}
                          /\ desk'[e].apk = desk'[f].apk
                          => e = f
  BY <1>0, <1>1, <1>4 DEF Uploading
<1>6. \A e \in Desks : SoundDesk(e)'
  BY <1>3
<1> QED
  BY <1>5, <1>6 DEF UploadsAgree, SoundDesk

\* What is written of a file is what its upload brought.
LEMMA UploadsStay ==
    ASSUME AppInv, [AppNext]_appVars
    PROVE  UploadsAgree'
<1> USE AppTypesNamed DEF AppInv, AppTypes
<1>0. AtRest \in DeskSteps /\ AtRest.pc = "rest"
      /\ \A p \in Apks : \A pc \in {"store", "create", "retire"} : [pc |-> pc, apk |-> p] \in DeskSteps
  BY DEF DeskSteps, AtRest
<1>1. ASSUME NEW d \in Desks, NEW p \in Apks, StartUpload(d, p)
      PROVE  UploadsAgree'
  <2>1. disk' = [disk EXCEPT ![p] = "partial"] /\ catalog' = catalog /\ disk[p] = "none"
        /\ catalog[p].row = "absent" /\ DeskAt(d, [pc |-> "store", apk |-> p])
    BY <1>1 DEF StartUpload
  <2>2. SoundDesk(d)'
    <3>1. desk'[d].pc = "store" /\ desk'[d].apk = p
      BY <2>1, DeskGoes
    <3> QED
      BY <2>1, <3>1 DEF SoundDesk
  <2> QED
    BY <1>0, <2>1, <2>2, OneDeskActs
<1>2. ASSUME NEW d \in Desks, StoreUploadedApk(d)
      PROVE  UploadsAgree'
  <2> DEFINE p == desk[d].apk
  <2>1. p \in Apks /\ Uploading(d) /\ catalog' = catalog /\ catalog[p].row = "absent"
    BY <1>2, DeskCarries DEF StoreUploadedApk, Uploading, UploadsAgree
  <2>2. CASE disk' = [disk EXCEPT ![p] = "whole"] /\ DeskAt(d, [pc |-> "create", apk |-> p])
    <3>1. SoundDesk(d)'
      <4>1. desk'[d].pc = "create" /\ desk'[d].apk = p
        BY <2>1, <2>2, DeskGoes
      <4> QED
        BY <2>1, <2>2, <4>1 DEF SoundDesk
    <3> HIDE DEF p
    <3> QED
      BY <1>0, <2>1, <2>2, <3>1, OneDeskActs DEF p
  <2>3. CASE disk' = [disk EXCEPT ![p] = "none"] /\ DeskAt(d, AtRest)
    <3>1. SoundDesk(d)'
      BY <1>0, <2>1, <2>3, OneDeskMoves DEF SoundDesk
    <3> HIDE DEF p
    <3> QED
      BY <1>0, <2>1, <2>3, <3>1, OneDeskActs DEF p
  <2> QED
    BY <1>2, <2>2, <2>3 DEF StoreUploadedApk
<1>3. ASSUME NEW d \in Desks, CreateRow(d)
      PROVE  UploadsAgree'
  <2> DEFINE p == desk[d].apk
  <2>1. p \in Apks /\ Uploading(d) /\ DeskAt(d, AtRest) /\ catalog[p].row = "absent"
    BY <1>3, DeskCarries DEF CreateRow, Uploading, UploadsAgree
  <2>2. SoundDesk(d)'
    BY <1>0, <2>1, OneDeskMoves DEF SoundDesk
  <2>3. \A q \in Apks : q # p => disk'[q] = disk[q] /\ catalog'[q].row = catalog[q].row
    BY <1>3, <2>1 DEF CreateRow
  <2> HIDE DEF p
  <2> QED
    BY <1>0, <2>1, <2>2, <2>3, OneDeskActs DEF p
<1>4. ASSUME NEW d \in Desks, NEW p \in Apks, Deploy(d, p)
      PROVE  UploadsAgree'
  <2> DEFINE step == [pc |-> "deploy", apk |-> p, name |-> catalog[p].name, left |-> Units]
  <2>1. step \in DeskSteps /\ step.pc = "deploy" /\ DeskAt(d, step) /\ UNCHANGED <<catalog, disk>>
    BY <1>4 DEF Deploy, DeskSteps
  <2> HIDE DEF step
  <2>2. SoundDesk(d)'
    BY <2>1, OneDeskMoves DEF SoundDesk
  <2> QED
    BY <2>1, <2>2, OneDeskActs
<1>5. ASSUME NEW d \in Desks, NEW u \in Units, DeployTo(d, u)
      PROVE  UploadsAgree'
  <2> DEFINE rest == desk[d].left \ {u}
             step == IF rest = {} THEN AtRest ELSE [desk[d] EXCEPT !.left = rest]
  <2>1. desk[d] \in [pc : {"deploy"}, apk : Apks, name : Names, left : SUBSET Units]
    BY <1>5, DeskCarries DEF DeployTo
  <2>2. step \in DeskSteps /\ step.pc \in {"rest", "deploy"}
    BY <1>0, <2>1 DEF DeskSteps
  <2>3. DeskAt(d, step) /\ UNCHANGED <<catalog, disk>> /\ desk[d].apk \in Apks
    BY <1>5, <2>1 DEF DeployTo
  <2> HIDE DEF step
  <2>4. SoundDesk(d)'
    BY <2>2, <2>3, OneDeskMoves DEF SoundDesk
  <2> QED
    BY <2>2, <2>3, <2>4, OneDeskActs
<1>6. ASSUME NEW d \in Desks, NEW u \in Units, Uninstall(d, u)
      PROVE  UploadsAgree'
  BY <1>6 DEF Uninstall, OnServer, UploadsAgree
<1>7. ASSUME NEW d \in Desks, NEW p \in Apks, RetireFile(d, p)
      PROVE  UploadsAgree'
  <2>1. disk' = [disk EXCEPT ![p] = "none"] /\ catalog' = catalog /\ catalog[p].row # "absent"
        /\ DeskAt(d, [pc |-> "retire", apk |-> p])
    BY <1>7 DEF RetireFile
  <2>2. SoundDesk(d)'
    <3>1. desk'[d].pc = "retire" /\ desk'[d].apk = p
      BY <2>1, DeskGoes
    <3> QED
      BY <2>1, <3>1 DEF SoundDesk
  <2> QED
    BY <1>0, <2>1, <2>2, OneDeskActs
<1>8. ASSUME NEW d \in Desks, RetireRow(d)
      PROVE  UploadsAgree'
  <2> DEFINE p == desk[d].apk
  <2>1. p \in Apks /\ catalog[p].row # "absent" /\ DeskAt(d, AtRest) /\ disk' = disk
        /\ catalog' = [catalog EXCEPT ![p].row = "retired"]
    BY <1>8, DeskCarries DEF RetireRow, UploadsAgree
  <2>2. SoundDesk(d)'
    BY <1>0, <2>1, OneDeskMoves DEF SoundDesk
  <2>3. /\ \A q \in Apks : q # p => catalog'[q].row = catalog[q].row
        /\ catalog'[p].row = "retired"
    BY <2>1
  <2> HIDE DEF p
  <2> QED
    BY <1>0, <2>1, <2>2, <2>3, OneDeskActs
<1>9. ASSUME NEW d \in Desks, StopServer(d)
      PROVE  UploadsAgree'
  <2>1. DeskAt(d, AtRest) /\ UNCHANGED <<catalog, disk>>
    BY <1>9 DEF StopServer
  <2>2. desk'[d].pc = "rest" /\ \A e \in Desks : e # d => desk'[e] = desk[e]
    BY <1>0, <2>1, OneDeskMoves
  <2>3. \A e \in Desks : desk'[e].pc # "rest" => desk'[e] = desk[e]
    BY <2>2
  <2>4. \A e \in Desks : SoundDesk(e)'
    <3>1. ASSUME NEW e \in Desks
          PROVE  SoundDesk(e)'
      <4>1. CASE desk'[e].pc = "rest"
        BY <4>1 DEF SoundDesk
      <4>2. CASE desk'[e] = desk[e]
        BY <2>1, <4>2 DEF SoundDesk, UploadsAgree
      <4> QED
        BY <2>3, <4>1, <4>2
    <3> QED
      BY <3>1
  <2>5. \A e, f \in Desks :
            /\ desk'[e].pc \in {"store", "create"} /\ desk'[f].pc \in {"store", "create"}
            /\ desk'[e].apk = desk'[f].apk
            => e = f
    BY <2>3 DEF UploadsAgree
  <2> QED
    BY <2>4, <2>5 DEF UploadsAgree, SoundDesk
<1>10. CASE UNCHANGED <<disk, desk>> /\ \A p \in Apks : catalog'[p].row = catalog[p].row
  BY <1>10, DeskCarries DEF UploadsAgree
<1> QED
  BY <1>1, <1>2, <1>3, <1>4, <1>5, <1>6, <1>7, <1>8, <1>9, <1>10, PhonesLeaveUploads
  DEF AppNext, appVars

\* The last step of a retirement, and the first, are the only ones that touch an offered file.
LEMMA OfferedStays ==
    ASSUME AppInv, [AppNext]_appVars
    PROVE  OfferedHasFile'
<1> USE AppTypesNamed DEF AppInv, AppTypes
<1> SUFFICES ASSUME ~unstable, NEW p \in Apks, catalog'[p].row = "offered"
             PROVE  \/ disk'[p] = "whole"
                    \/ \E d \in Desks : desk'[d].pc = "retire" /\ desk'[d].apk = p
  <2>1. unstable' = unstable
    BY PhonesLeaveUploads, ServerLeavesPhones DEF AppNext, appVars
  <2> QED
    BY <2>1 DEF OfferedHasFile
<1> DEFINE Kept == \/ disk'[p] = "whole"
                   \/ \E d \in Desks : desk'[d].pc = "retire" /\ desk'[d].apk = p
<1>0. AtRest \in DeskSteps /\ AtRest.pc = "rest"
      /\ \A q \in Apks : \A pc \in {"store", "create", "retire"} : [pc |-> pc, apk |-> q] \in DeskSteps
  BY DEF DeskSteps, AtRest
<1>1. ASSUME NEW d \in Desks, NEW step \in DeskSteps, DeskAt(d, step), catalog[p].row = "offered",
             disk'[p] = disk[p], ~(desk[d].pc = "retire" /\ desk[d].apk = p)
      PROVE  Kept
  <2>1. \A e \in Desks : e # d => desk'[e] = desk[e]
    BY <1>1, OneDeskMoves
  <2>2. CASE disk[p] = "whole"
    BY <1>1, <2>2
  <2>3. ASSUME NEW e \in Desks, desk[e].pc = "retire", desk[e].apk = p
        PROVE  Kept
    BY <1>1, <2>1, <2>3
  <2> QED
    BY <1>1, <2>2, <2>3 DEF OfferedHasFile
<1>2. ASSUME NEW d \in Desks, NEW q \in Apks, StartUpload(d, q)
      PROVE  Kept
  <2>1. /\ disk' = [disk EXCEPT ![q] = "partial"] /\ catalog' = catalog /\ catalog[q].row = "absent"
        /\ DeskAt(d, [pc |-> "store", apk |-> q]) /\ desk[d] = AtRest
    BY <1>2 DEF StartUpload
  <2> QED
    BY <1>0, <1>1, <2>1
<1>3. ASSUME NEW d \in Desks, StoreUploadedApk(d)
      PROVE  Kept
  <2>1. /\ desk[d].apk \in Apks /\ catalog' = catalog /\ catalog[desk[d].apk].row = "absent"
        /\ desk[d].pc = "store"
    BY <1>3, DeskCarries DEF StoreUploadedApk, UploadsAgree
  <2>2. \E step \in DeskSteps : DeskAt(d, step)
    BY <1>0, <1>3, <2>1 DEF StoreUploadedApk
  <2>3. disk'[p] = disk[p]
    BY <1>3, <2>1 DEF StoreUploadedApk
  <2> QED
    BY <1>1, <2>1, <2>2, <2>3
<1>4. ASSUME NEW d \in Desks, CreateRow(d)
      PROVE  Kept
  <2>1. /\ desk[d].apk \in Apks /\ catalog[desk[d].apk].row = "absent" /\ desk[d].pc = "create"
        /\ disk[desk[d].apk] = "whole" /\ DeskAt(d, AtRest)
    BY <1>4, DeskCarries DEF CreateRow, UploadsAgree
  <2>2. CASE p = desk[d].apk
    <3>1. UNCHANGED disk
      BY <1>4, <2>1, <2>2 DEF CreateRow
    <3> QED
      BY <2>1, <2>2, <3>1
  <2>3. CASE p # desk[d].apk
    <3>1. catalog'[p] = catalog[p] /\ disk'[p] = disk[p]
      BY <1>4, <2>1, <2>3 DEF CreateRow
    <3> QED
      BY <1>0, <1>1, <2>1, <3>1
  <2> QED
    BY <2>2, <2>3
<1>5. ASSUME NEW d \in Desks, NEW q \in Apks, Deploy(d, q)
      PROVE  Kept
  <2>1. \E step \in DeskSteps : DeskAt(d, step)
    <3>1. [pc |-> "deploy", apk |-> q, name |-> catalog[q].name, left |-> Units] \in DeskSteps
      BY DEF DeskSteps
    <3> QED
      BY <1>5, <3>1 DEF Deploy
  <2> QED
    BY <1>0, <1>1, <1>5, <2>1 DEF Deploy
<1>6. ASSUME NEW d \in Desks, NEW u \in Units, DeployTo(d, u)
      PROVE  Kept
  <2>1. desk[d] \in [pc : {"deploy"}, apk : Apks, name : Names, left : SUBSET Units]
    BY <1>6, DeskCarries DEF DeployTo
  <2>2. \E step \in DeskSteps : DeskAt(d, step)
    <3> DEFINE rest == desk[d].left \ {u}
               step == IF rest = {} THEN AtRest ELSE [desk[d] EXCEPT !.left = rest]
    <3>1. step \in DeskSteps
      BY <1>0, <2>1 DEF DeskSteps
    <3>2. DeskAt(d, step)
      BY <1>6 DEF DeployTo
    <3> HIDE DEF step
    <3> QED
      BY <3>1, <3>2
  <2> QED
    BY <1>1, <1>6, <2>1, <2>2 DEF DeployTo
<1>7. ASSUME NEW d \in Desks, NEW q \in Apks, RetireFile(d, q)
      PROVE  Kept
  <2>1. /\ disk' = [disk EXCEPT ![q] = "none"] /\ catalog' = catalog /\ desk[d] = AtRest
        /\ DeskAt(d, [pc |-> "retire", apk |-> q])
    BY <1>7 DEF RetireFile
  <2>2. desk'[d].pc = "retire" /\ desk'[d].apk = q
    BY <2>1, DeskGoes
  <2>3. CASE p # q
    BY <1>0, <1>1, <2>1, <2>3
  <2> QED
    BY <2>2, <2>3
<1>8. ASSUME NEW d \in Desks, RetireRow(d)
      PROVE  Kept
  <2>1. /\ desk[d].apk \in Apks /\ DeskAt(d, AtRest) /\ disk' = disk /\ desk[d].pc = "retire"
        /\ catalog' = [catalog EXCEPT ![desk[d].apk].row = "retired"]
    BY <1>8, DeskCarries DEF RetireRow
  <2>2. p # desk[d].apk /\ catalog'[p] = catalog[p]
    BY <2>1
  <2> QED
    BY <1>0, <1>1, <2>1, <2>2
<1>9. ASSUME NEW d \in Desks, StopServer(d)
      PROVE  Kept
  BY <1>9 DEF StopServer
<1>10. ASSUME UNCHANGED <<disk, desk>>, catalog'[p].row = catalog[p].row
       PROVE  Kept
  BY <1>10 DEF OfferedHasFile
<1>11. ASSUME NEW d \in Desks, NEW u \in Units, Uninstall(d, u)
       PROVE  Kept
  BY <1>10, <1>11 DEF Uninstall
<1> QED
  BY <1>2, <1>3, <1>4, <1>5, <1>6, <1>7, <1>8, <1>9, <1>10, <1>11, PhonesLeaveUploads
  DEF AppNext, appVars

\* What a job relies on.
SoundJob(k) ==
    /\ job[k].pc = "decide" => cache[<<k[1], job[k].apk>>] = job[k].read
    /\ job[k].pc = "commit" => cache[<<k[1], job[k].apk>>] = "whole"
    /\ job[k].pc = "report" => job[k].name = "app" /\ content[job[k].apk] \in had[k[1]]
    /\ job[k].pc = "ack" /\ job[k].ok => content[job[k].apk] \in had[k[1]]

\* An application that is judged up to date is the one that was uploaded.
LEMMA UpToDateIsInstalled ==
    ASSUME AppTypeOK, NEW u \in Units, NEW p \in Apks, cache[<<u, p>>] = "whole",
           Verdict(u, p, "whole") = "upToDate"
    PROVE  app[u] # NoApp /\ app[u] = content[p]
<1>1. Build(u, p) = content[p] /\ NameRead(u, p) = "app"
  BY DEF Build, NameRead
<1>2. /\ app[u] # NoApp
      /\ app[u].signer = content[p].signer /\ app[u].version = content[p].version
  BY <1>1 DEF Verdict
<1>3. app[u] \in Builds /\ content[p] \in Builds
  BY <1>2 DEF AppTypeOK
<1>4. \A b \in Builds : b = [version |-> b.version, signer |-> b.signer]
  BY DEF Builds
<1> QED
  BY <1>2, <1>3, <1>4

\* A phone installs, or is done with, a file it has read whole.
LEMMA ReadWhole ==
    ASSUME NEW u, NEW p, NEW read, Verdict(u, p, read) \in {"install", "upToDate"}
    PROVE  read = "whole"
BY DEF Verdict

\* A phone with one job that makes a step: the others, on other phones, are not about it.
LEMMA OneJobActs ==
    ASSUME AppInv, NEW u \in Units, NEW j, Jobs = {j}, NEW step \in JobSteps, Run(u, j, step),
           content' = content,
           \A v \in Units : had[v] \subseteq had'[v],
           \A v \in Units, q \in Apks : v # u => cache'[<<v, q>>] = cache[<<v, q>>],
           \A v \in Units : app'[v] \in {app[v], NoApp} \/ app'[v] \in had'[v],
           SoundJob(<<u, j>>)'
    PROVE  InstallsAgree'
<1>0. \A k \in Units \X Jobs : /\ SoundJob(k) /\ k[1] \in Units
                               /\ k = <<u, j>> \/ k[1] # u
                               /\ job[k].pc # "rest" => job[k].apk \in Apks
  BY JobCarries DEF AppInv, InstallsAgree, SoundJob
<1>1. /\ job'[<<u, j>>] = step
      /\ \A k \in Units \X Jobs : k # <<u, j>> => job'[k] = job[k]
  BY OneJobMoves DEF AppInv
<1>2. ASSUME NEW k \in Units \X Jobs, k # <<u, j>>
      PROVE  SoundJob(k)'
  <2>1. job'[k] = job[k] /\ k[1] \in Units /\ k[1] # u
    BY <1>0, <1>1, <1>2
  <2>2. \A q \in Apks : cache'[<<k[1], q>>] = cache[<<k[1], q>>]
    BY <2>1
  <2>3. had[k[1]] \subseteq had'[k[1]]
    BY <2>1
  <2>4. SoundJob(k) /\ (job[k].pc # "rest" => job[k].apk \in Apks)
    BY <1>0
  <2> QED
    BY <2>1, <2>2, <2>3, <2>4 DEF SoundJob
<1>3. \A k \in Units \X Jobs : SoundJob(k)'
  BY <1>2
<1>4. \A v \in Units : app'[v] # NoApp => app'[v] \in had'[v]
  BY DEF AppInv, InstallsAgree
<1> QED
  BY <1>3, <1>4 DEF InstallsAgree, SoundJob

\* What a phone installs is what was read for it.
LEMMA InstallsStay ==
    ASSUME NEW j, Jobs = {j}, AppInv, [AppNext]_appVars
    PROVE  InstallsAgree'
<1> USE DEF AppInv
<1>0. /\ AtRest \in JobSteps /\ AtRest.pc = "rest" /\ j \in Jobs
      /\ \A p \in Apks : /\ \A ok \in BOOLEAN : Ack(p, ok) \in JobSteps
                         /\ \A pc \in {"download", "commit"} : [pc |-> pc, apk |-> p] \in JobSteps
                         /\ \A read \in Copies : [pc |-> "decide", apk |-> p, read |-> read] \in JobSteps
                         /\ \A name \in Names : [pc |-> "report", apk |-> p, name |-> name] \in JobSteps
  BY DEF JobSteps, Ack, AtRest
<1>t. /\ content \in [Apks -> Builds] /\ app \in [Units -> {NoApp} \cup Builds]
      /\ cache \in [Units \X Apks -> Copies] /\ had \in [Units -> SUBSET Builds]
  BY DEF AppTypeOK
<1>a. ASSUME NEW u \in Units, NEW step \in JobSteps, Run(u, j, step), SoundJob(<<u, j>>)',
             UNCHANGED <<content, app, had>>,
             \/ UNCHANGED cache
             \/ \E q \in Apks, copy \in Copies : cache' = [cache EXCEPT ![<<u, q>>] = copy]
      PROVE  InstallsAgree'
  <2>1. \A v \in Units, q \in Apks : v # u => cache'[<<v, q>>] = cache[<<v, q>>]
    BY <1>t, <1>a
  <2> QED
    BY <1>a, <2>1, OneJobActs
<1>b. ASSUME NEW u \in Units, NEW p \in Apks, NEW ok \in BOOLEAN, Run(u, j, Ack(p, ok)),
             ok => content'[p] \in had'[u]
      PROVE  Ack(p, ok) \in JobSteps /\ SoundJob(<<u, j>>)'
  <2>1. Ack(p, ok) \in JobSteps
    BY <1>0
  <2>2. job'[<<u, j>>] = Ack(p, ok)
    BY <1>0, <1>b, <2>1, OneJobMoves
  <2>3. /\ job'[<<u, j>>].pc = "ack" /\ job'[<<u, j>>].apk = p
        /\ job'[<<u, j>>].ok <=> ok
    BY <2>2 DEF Ack
  <2> QED
    BY <1>b, <2>1, <2>3 DEF SoundJob
<1>c. ASSUME NEW u \in Units, Run(u, j, AtRest)
      PROVE  SoundJob(<<u, j>>)'
  BY <1>0, <1>c, OneJobMoves DEF SoundJob
<1>d. \A k \in Units \X Jobs : SoundJob(k)
  BY DEF InstallsAgree, SoundJob
<1>1. ASSUME NEW u \in Units, NEW p \in Apks, StartInstall(u, j, p)
      PROVE  InstallsAgree'
  <2>1. UNCHANGED <<content, app, had, cache>>
    BY <1>1 DEF StartInstall, server
  <2>2. CASE Run(u, j, [pc |-> "download", apk |-> p])
    <3>1. [pc |-> "download", apk |-> p] \in JobSteps
      BY <1>0
    <3>2. job'[<<u, j>>].pc = "download"
      BY <1>0, <2>2, <3>1, OneJobMoves
    <3>3. SoundJob(<<u, j>>)'
      BY <3>2 DEF SoundJob
    <3> QED
      BY <1>a, <2>1, <2>2, <3>1, <3>3
  <2>3. CASE Run(u, j, Ack(p, FALSE))
    BY <1>a, <1>b, <2>1, <2>3
  <2> QED
    BY <1>1, <2>2, <2>3 DEF StartInstall
<1>2. ASSUME NEW u \in Units, Download(u, j)
      PROVE  InstallsAgree'
  <2> DEFINE p == job[<<u, j>>].apk
  <2>1. p \in Apks /\ UNCHANGED <<content, app, had>>
    BY <1>0, <1>2, JobCarries DEF Download, server
  <2>2. PICK copy \in {"whole", "other"} :
            /\ cache' = [cache EXCEPT ![<<u, p>>] = copy]
            /\ Run(u, j, [pc |-> "decide", apk |-> p, read |-> copy])
    BY <1>2 DEF Download
  <2> HIDE DEF p
  <2>3. copy \in Copies
    BY DEF Copies
  <2> DEFINE step == [pc |-> "decide", apk |-> p, read |-> copy]
  <2>4. step \in JobSteps
    BY <1>0, <2>1, <2>3
  <2>5. job'[<<u, j>>] = step
    BY <1>0, <2>2, <2>4, OneJobMoves
  <2>6. SoundJob(<<u, j>>)'
    <3>1. cache'[<<u, p>>] = copy
      BY <1>t, <2>1, <2>2
    <3> QED
      BY <2>5, <3>1 DEF SoundJob
  <2> HIDE DEF step
  <2> QED
    BY <1>a, <2>1, <2>2, <2>3, <2>4, <2>6 DEF step
<1>3. ASSUME NEW u \in Units, DownloadFails(u, j) \/ CommitFails(u, j)
      PROVE  InstallsAgree'
  <2> DEFINE p == job[<<u, j>>].apk
  <2>1. p \in Apks /\ UNCHANGED <<content, app, had>>
    BY <1>0, <1>3, JobCarries DEF DownloadFails, CommitFails, server
  <2>2. cache' = [cache EXCEPT ![<<u, p>>] = "none"] /\ Run(u, j, Ack(p, FALSE)) /\ "none" \in Copies
    BY <1>3 DEF DownloadFails, CommitFails, Copies
  <2> HIDE DEF p
  <2> QED
    BY <1>a, <1>b, <2>1, <2>2
<1>4. ASSUME NEW u \in Units, Decide(u, j)
      PROVE  InstallsAgree'
  <2> DEFINE p == job[<<u, j>>].apk
             verdict == Verdict(u, p, job[<<u, j>>].read)
  <2>1. p \in Apks /\ UNCHANGED <<content, app, had>> /\ cache[<<u, p>>] = job[<<u, j>>].read
    BY <1>0, <1>4, <1>d, JobCarries DEF Decide, server, SoundJob
  <2>2. verdict \in {"install", "upToDate"} => cache[<<u, p>>] = "whole"
    BY <2>1, ReadWhole
  <2>3. verdict = "upToDate" => content[p] \in had[u]
    <3>1. ASSUME verdict = "upToDate"
          PROVE  content[p] \in had[u]
      <4>1. job[<<u, j>>].read = "whole" /\ cache[<<u, p>>] = "whole"
        BY <2>1, <3>1, ReadWhole
      <4>2. app[u] # NoApp /\ app[u] = content[p]
        BY <2>1, <3>1, <4>1, UpToDateIsInstalled
      <4> QED
        BY <4>2 DEF InstallsAgree
    <3> QED
      BY <3>1
  <2>4. \/ Run(u, j, Ack(p, FALSE)) /\ UNCHANGED cache
        \/ verdict = "install" /\ Run(u, j, [pc |-> "commit", apk |-> p]) /\ UNCHANGED cache
        \/ AckRefusal(u, j, p, verdict)
    BY <1>4 DEF Decide
  <2> HIDE DEF p, verdict
  <2>5. CASE Run(u, j, Ack(p, FALSE)) /\ UNCHANGED cache
    BY <1>a, <1>b, <2>1, <2>5
  <2>6. CASE verdict = "install" /\ Run(u, j, [pc |-> "commit", apk |-> p]) /\ UNCHANGED cache
    <3> DEFINE step == [pc |-> "commit", apk |-> p]
    <3>1. step \in JobSteps
      BY <1>0, <2>1
    <3>2. job'[<<u, j>>] = step
      BY <1>0, <2>6, <3>1, OneJobMoves
    <3>3. SoundJob(<<u, j>>)'
      BY <2>2, <2>6, <3>2 DEF SoundJob
    <3> HIDE DEF step
    <3> QED
      BY <1>a, <2>1, <2>6, <3>1, <3>3 DEF step
  <2>7. CASE AckRefusal(u, j, p, verdict)
    <3>1. Run(u, j, Ack(p, verdict = "upToDate")) /\ cache' = [cache EXCEPT ![<<u, p>>] = "none"]
          /\ "none" \in Copies
      BY <2>7 DEF AckRefusal, Copies
    <3>2. CASE verdict = "upToDate"
      <4>1. Run(u, j, Ack(p, TRUE))
        BY <3>1, <3>2
      <4> QED
        BY <1>a, <1>b, <2>1, <2>3, <3>1, <3>2, <4>1
    <3>3. CASE verdict # "upToDate"
      <4>1. Run(u, j, Ack(p, FALSE))
        BY <3>1, <3>3
      <4> QED
        BY <1>a, <1>b, <2>1, <3>1, <4>1
    <3> QED
      BY <3>2, <3>3
  <2> QED
    BY <2>4, <2>5, <2>6, <2>7
<1>5. ASSUME NEW u \in Units, Commit(u, j)
      PROVE  InstallsAgree'
  <2> DEFINE p == job[<<u, j>>].apk
  <2>1. p \in Apks /\ content' = content /\ cache' = cache /\ cache[<<u, p>>] = "whole"
    BY <1>0, <1>5, <1>d, JobCarries DEF Commit, server, SoundJob
  <2>2. /\ app' = [app EXCEPT ![u] = content[p]]
        /\ had' = [had EXCEPT ![u] = @ \cup {content[p]}]
        /\ \/ Run(u, j, [pc |-> "report", apk |-> p, name |-> "app"])
           \/ Run(u, j, Ack(p, FALSE))
    BY <1>5, <2>1 DEF Commit, NameRead
  <2> HIDE DEF p
  <2>3. /\ content[p] \in had'[u]
        /\ \A v \in Units : /\ had[v] \subseteq had'[v]
                            /\ app'[v] \in {app[v], NoApp} \/ app'[v] \in had'[v]
    BY <1>t, <2>2
  <2>4. \E step \in JobSteps : Run(u, j, step) /\ SoundJob(<<u, j>>)'
    <3>1. CASE Run(u, j, [pc |-> "report", apk |-> p, name |-> "app"])
      <4> DEFINE step == [pc |-> "report", apk |-> p, name |-> "app"]
      <4>1. step \in JobSteps
        BY <1>0, <2>1 DEF Names
      <4>2. job'[<<u, j>>] = step
        BY <1>0, <3>1, <4>1, OneJobMoves
      <4>3. SoundJob(<<u, j>>)'
        BY <2>1, <2>3, <4>2 DEF SoundJob
      <4> HIDE DEF step
      <4> QED
        BY <3>1, <4>1, <4>3 DEF step
    <3>2. CASE Run(u, j, Ack(p, FALSE))
      BY <1>b, <2>1, <3>2
    <3> QED
      BY <2>2, <3>1, <3>2
  <2> QED
    BY <2>1, <2>3, <2>4, OneJobActs
<1>6. ASSUME NEW u \in Units, ReportInstalled(u, j)
      PROVE  InstallsAgree'
  <2> DEFINE p == job[<<u, j>>].apk
  <2>1. /\ p \in Apks /\ UNCHANGED <<content, app, had>> /\ content[p] \in had[u]
        /\ "none" \in Copies
    BY <1>0, <1>6, <1>d, JobCarries DEF ReportInstalled, SoundJob, Copies
  <2>2. Run(u, j, Ack(p, TRUE)) /\ cache' = [cache EXCEPT ![<<u, p>>] = "none"]
    BY <1>6 DEF ReportInstalled
  <2> HIDE DEF p
  <2> QED
    BY <1>a, <1>b, <2>1, <2>2
<1>7. ASSUME NEW u \in Units, ReportResult(u, j) \/ KillJob(u, j)
      PROVE  InstallsAgree'
  <2>1. Run(u, j, AtRest) /\ UNCHANGED <<content, app, had, cache>>
    BY <1>7 DEF ReportResult, KillJob, server
  <2> QED
    BY <1>0, <1>a, <1>c, <2>1
<1>8. ASSUME NEW u \in Units, RunRemoval(u, j)
      PROVE  InstallsAgree'
  <2>1. UNCHANGED <<content, cache, job, had>> /\ \A v \in Units : app'[v] \in {app[v], NoApp}
    BY <1>8, <1>t DEF RunRemoval, server
  <2> QED
    BY <2>1 DEF InstallsAgree
<1>9. CASE UNCHANGED <<content, app, cache, job, had>>
  BY <1>9 DEF InstallsAgree
<1>10. ASSUME NEW u \in Units, NEW p \in Apks, OrderExpires(u, p)
       PROVE  InstallsAgree'
  BY <1>9, <1>10 DEF OrderExpires, server
<1> QED
  BY <1>1, <1>2, <1>3, <1>4, <1>5, <1>6, <1>7, <1>8, <1>9, <1>10, ServerLeavesPhones
  DEF AppNext, appVars

\* The name of the catalog, and the outcome of an order, follow what the jobs rely on.
LEMMA ShownStays ==
    ASSUME AppInv, [AppNext]_appVars, \A k \in Units \X Jobs : SoundJob(k)
    PROVE  (NameIsOfTheFile /\ ExecutedWasInstalled)'
<1> USE DEF AppInv
<1>t. /\ catalog \in [Apks -> [row : {"absent", "offered", "retired"}, name : Names]]
      /\ install \in [Units \X Apks -> {"none", "pending", "executed", "failed", "expired"}]
      /\ had \in [Units -> SUBSET Builds]
  BY DEF AppTypeOK
<1>1. NameIsOfTheFile'
  <2>1. ASSUME NEW d \in Desks, CreateRow(d) \/ RetireRow(d), NEW p \in Apks
        PROVE  catalog'[p].name = catalog[p].name
    <3>1. desk[d].apk \in Apks
      BY <2>1, DeskCarries DEF CreateRow, RetireRow
    <3>2. catalog' = catalog \/ \E mark \in {"offered", "retired"} :
                                    catalog' = [catalog EXCEPT ![desk[d].apk].row = mark]
      BY <2>1 DEF CreateRow, RetireRow
    <3> QED
      BY <1>t, <3>1, <3>2
  <2>2. ASSUME NEW u \in Units, NEW j \in Jobs, job[<<u, j>>].pc = "report"
        PROVE  job[<<u, j>>].name = "app"
    BY <2>2 DEF SoundJob
  <2>3. CASE catalog' = catalog
    BY <2>3 DEF NameIsOfTheFile
  <2>4. catalog' = catalog \/ (\E d \in Desks : CreateRow(d) \/ RetireRow(d))
        \/ \E u \in Units :
               \/ \E p \in Apks : OrderExpires(u, p)
               \/ \E j \in Jobs :
                      \/ \E p \in Apks : StartInstall(u, j, p)
                      \/ Download(u, j) \/ DownloadFails(u, j) \/ Decide(u, j)
                      \/ Commit(u, j) \/ CommitFails(u, j) \/ ReportInstalled(u, j)
                      \/ ReportResult(u, j) \/ KillJob(u, j) \/ RunRemoval(u, j)
    BY DEF AppNext, appVars, StartUpload, Deploy, RetireFile, DeployTo, Uninstall, StoreUploadedApk,
           StopServer
  <2> QED
    BY <2>1, <2>2, <2>3, <2>4, PhonesLeaveUploads DEF NameIsOfTheFile
<1>2. ExecutedWasInstalled'
  <2>1. content' = content
    BY PhonesLeaveUploads, ServerLeavesPhones DEF AppNext, appVars
  <2>2. ASSUME NEW u \in Units
        PROVE  had[u] \subseteq had'[u]
    <3>1. ASSUME NEW v \in Units, NEW j \in Jobs, Commit(v, j)
          PROVE  had[u] \subseteq had'[u]
      BY <1>t, <3>1 DEF Commit
    <3>2. UNCHANGED had \/ \E v \in Units, j \in Jobs : Commit(v, j)
      <4>1. ASSUME NEW v \in Units, NEW j \in Jobs,
                   \/ \E p \in Apks : StartInstall(v, j, p)
                   \/ Download(v, j) \/ DownloadFails(v, j) \/ Decide(v, j)
                   \/ CommitFails(v, j) \/ ReportInstalled(v, j)
                   \/ ReportResult(v, j) \/ KillJob(v, j) \/ RunRemoval(v, j)
            PROVE  UNCHANGED had
        BY <4>1 DEF StartInstall, Download, DownloadFails, Decide, CommitFails, ReportInstalled,
                    ReportResult, KillJob, RunRemoval
      <4>2. ASSUME NEW v \in Units, NEW p \in Apks, OrderExpires(v, p)
            PROVE  UNCHANGED had
        BY <4>2 DEF OrderExpires
      <4>3. CASE UNCHANGED appVars
        BY <4>3 DEF appVars
      <4> QED
        BY <4>1, <4>2, <4>3, ServerLeavesPhones DEF AppNext
    <3> QED
      BY <3>1, <3>2
  <2>3. ASSUME NEW u \in Units, NEW p \in Apks, install'[<<u, p>>] = "executed",
               install[<<u, p>>] # "executed"
        PROVE  content[p] \in had[u]
    <3>1. ASSUME NEW v \in Units, NEW q \in Apks, OrderExpires(v, q)
          PROVE  FALSE
      BY <1>t, <2>3, <3>1 DEF OrderExpires
    <3>2. ASSUME NEW d \in Desks, NEW v \in Units, DeployTo(d, v)
          PROVE  FALSE
      <4>1. install' = install \/ \E k \in Units \X Apks : install' = [install EXCEPT ![k] = "pending"]
        <5>1. desk[d].apk \in Apks
          BY <3>2, DeskCarries DEF DeployTo
        <5> QED
          BY <3>2, <5>1 DEF DeployTo, orders
      <4> QED
        BY <1>t, <2>3, <4>1
    <3>3. ASSUME NEW v \in Units, NEW j \in Jobs, ReportResult(v, j)
          PROVE  content[p] \in had[u]
      <4> DEFINE q == job[<<v, j>>].apk
      <4>1. q \in Apks /\ SoundJob(<<v, j>>) /\ job[<<v, j>>].pc = "ack"
        BY <3>3, JobCarries DEF ReportResult, AtRest
      <4>2. job[<<v, j>>].ok => content[q] \in had[v]
        BY <4>1 DEF SoundJob
      <4>3. install' = [install EXCEPT ![<<v, q>>] =
                           IF @ = "executed" \/ job[<<v, j>>].ok THEN "executed" ELSE "failed"]
        BY <3>3 DEF ReportResult
      <4> HIDE DEF q
      <4>4. u = v /\ p = q /\ job[<<v, j>>].ok
        BY <1>t, <2>3, <4>1, <4>3
      <4> QED
        BY <4>2, <4>4
    <3>4. \/ UNCHANGED install
          \/ \E v \in Units, q \in Apks : OrderExpires(v, q)
          \/ \E d \in Desks, v \in Units : DeployTo(d, v)
          \/ \E v \in Units, j \in Jobs : ReportResult(v, j)
      <4>1. ASSUME NEW v \in Units, NEW j \in Jobs,
                   \/ \E r \in Apks : StartInstall(v, j, r)
                   \/ Download(v, j) \/ DownloadFails(v, j) \/ Decide(v, j)
                   \/ Commit(v, j) \/ CommitFails(v, j) \/ ReportInstalled(v, j)
                   \/ KillJob(v, j) \/ RunRemoval(v, j)
            PROVE  UNCHANGED install
        BY <4>1 DEF StartInstall, Download, DownloadFails, Decide, Commit, CommitFails, ReportInstalled,
                    KillJob, RunRemoval, Unordered, orders
      <4>2. ASSUME NEW d \in Desks,
                   \/ \E r \in Apks : StartUpload(d, r) \/ Deploy(d, r) \/ RetireFile(d, r)
                   \/ \E v \in Units : Uninstall(d, v)
                   \/ StoreUploadedApk(d) \/ CreateRow(d) \/ RetireRow(d) \/ StopServer(d)
            PROVE  UNCHANGED install
        BY <4>2 DEF StartUpload, Deploy, RetireFile, Uninstall, StoreUploadedApk, CreateRow, RetireRow,
                    StopServer, orders
      <4>3. CASE UNCHANGED appVars
        BY <4>3 DEF appVars
      <4> QED
        BY <4>1, <4>2, <4>3 DEF AppNext
    <3> QED
      BY <2>3, <3>1, <3>2, <3>3, <3>4
  <2> QED
    BY <2>1, <2>2, <2>3 DEF ExecutedWasInstalled
<1> QED
  BY <1>1, <1>2

\* Every step keeps the invariant.
LEMMA AppStays ==
    ASSUME NEW j, Jobs = {j}
    PROVE  AppInv /\ [AppNext]_appVars => AppInv'
<1> SUFFICES ASSUME AppInv, [AppNext]_appVars
             PROVE  AppInv'
  OBVIOUS
<1>1. AppTypeOK'
  BY AppTypesHold DEF AppInv
<1>2. \A k \in Units \X Jobs : SoundJob(k)
  BY DEF AppInv, InstallsAgree, SoundJob
<1>3. (NameIsOfTheFile /\ ExecutedWasInstalled)'
  BY <1>2, ShownStays
<1> QED
  BY <1>1, <1>3, UploadsStay, InstallsStay, OfferedStays DEF AppInv

\* It holds at the start.
LEMMA AppStarts == AppInit => AppInv
<1> SUFFICES ASSUME AppInit
             PROVE  AppInv
  OBVIOUS
<1> USE DEF AppInit
<1>1. AppTypeOK
  BY DEF AppTypeOK, Stored, Copies, Names
<1>2. /\ \A d \in Desks : desk[d].pc = "rest"
      /\ \A k \in Units \X Jobs : job[k].pc = "rest"
      /\ \A u \in Units : app[u] = NoApp
      /\ \A p \in Apks : catalog[p].row = "absent" /\ catalog[p].name = "unknown"
      /\ \A u \in Units, p \in Apks : install[<<u, p>>] = "none"
  BY DEF AtRest
<1> QED
  BY <1>1, <1>2 DEF AppInv, UploadsAgree, InstallsAgree, OfferedHasFile, NameIsOfTheFile,
                    ExecutedWasInstalled

\* An offered application has its file while the server runs, the catalog shows the name the
\* uploaded file declares, and an installation shown as executed is one the phone has had,
\* whatever the administrators upload, deploy, retire and remove at once and whatever comes
\* through the network, as long as one job of a phone runs its orders (AppInstaller keeps one
\* file by package: a second job would replace it between the check and the installation).
THEOREM InstalledAsUploaded ==
    ASSUME NEW j, Jobs = {j}
    PROVE  AppSpec => []AppInv
BY AppStarts, AppStays, PTL DEF AppSpec
=============================================================================
