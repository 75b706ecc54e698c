---------------------------- MODULE OfficeProofs ----------------------------
(***************************************************************************)
(* Proofs about what is kept for a company and about the ways a phone is   *)
(* put into service.  Each part starts and stays in its invariant; the     *)
(* theorems at the end join the parts.                                     *)
(***************************************************************************)
EXTENDS MCOffice, FiniteSetTheorems, SequenceTheorems, WellFoundedInduction, TLAPS

-----------------------------------------------------------------------------
(* Numbers *)

\* Of finitely many numbers, one is the largest.
LEMMA LargestExists ==
    ASSUME NEW K, IsFiniteSet(K), K # {}, NEW f \in [K -> Int]
    PROVE  \E k \in K : \A j \in K : f[j] <= f[k]
<1> DEFINE Above(k) == {j \in K : f[j] > f[k]}
           Choice == {Above(k) : k \in K}
<1>1. Choice # {} /\ Choice \subseteq FiniteSubsetsOf(K)
  <2>1. Choice # {} /\ Choice \subseteq SUBSET K
    <3>1. \A k \in K : Above(k) \subseteq K
      OBVIOUS
    <3>2. QED
      BY <3>1
  <2>2. FiniteSubsetsOf(K) = SUBSET K
    BY FS_FiniteSubsetsOfFinite
  <2>3. QED
    BY <2>1, <2>2
<1>2. IsWellFoundedOn(StrictSubsetOrdering(K), FiniteSubsetsOf(K))
  BY FS_StrictSubsetOrderingWellFounded
<1>3. PICK A \in Choice : \A B \in Choice : ~ (<<B, A>> \in StrictSubsetOrdering(K))
  <2> HIDE DEF Choice
  <2>1. QED
    BY <1>1, <1>2, WFMin
<1>4. PICK k \in K : A = Above(k)
  BY <1>3
<1>5. ASSUME NEW j \in K, f[j] > f[k] PROVE FALSE
  <2>1. Above(j) \subseteq Above(k) /\ j \in Above(k) /\ j \notin Above(j)
    BY <1>5
  <2>2. <<Above(j), Above(k)>> \in StrictSubsetOrdering(K)
    BY <2>1 DEF StrictSubsetOrdering
  <2>3. QED
    BY <1>3, <1>4, <2>2
<1>6. QED
  BY <1>5

\* So a finite set of numbers has its least and its greatest.
LEMMA Extremes ==
    ASSUME NEW S, IsFiniteSet(S), S # {}, S \subseteq Int
    PROVE  /\ \E m \in S : \A x \in S : x <= m
           /\ \E m \in S : \A x \in S : m <= x
           /\ Max(S) \in S /\ \A x \in S : x <= Max(S)
           /\ Min(S) \in S /\ \A x \in S : Min(S) <= x
<1> DEFINE up == [x \in S |-> x]
           down == [x \in S |-> -x]
<1>1. up \in [S -> Int] /\ down \in [S -> Int]
  OBVIOUS
<1>2. \E m \in S : \A x \in S : x <= m
  <2>1. \A x \in S : up[x] = x
    OBVIOUS
  <2> HIDE DEF up
  <2>2. PICK m \in S : \A x \in S : up[x] <= up[m]
    BY <1>1, LargestExists
  <2>3. QED
    BY <2>1, <2>2
<1>3. \E m \in S : \A x \in S : m <= x
  <2>1. \A x \in S : down[x] = -x
    OBVIOUS
  <2> HIDE DEF down
  <2>2. PICK m \in S : \A x \in S : down[x] <= down[m]
    BY <1>1, LargestExists
  <2>3. \A x \in S : m <= x
    BY <2>1, <2>2
  <2>4. QED
    BY <2>3
<1>4. Max(S) \in S /\ \A x \in S : x <= Max(S)
  BY <1>2 DEF Max
<1>5. Min(S) \in S /\ \A x \in S : Min(S) <= x
  BY <1>3 DEF Min
<1>6. QED
  BY <1>2, <1>3, <1>4, <1>5

-----------------------------------------------------------------------------
(* What is invoiced *)

LEMMA WindowBounds ==
    ASSUME NEW d \in Nat
    PROVE  /\ WindowOf(d) \in Nat
           /\ From(WindowOf(d)) <= d /\ d < Until(WindowOf(d))
  BY BillingAssumption DEF WindowOf, From, Until

LEMMA BillingStarts == BillingInit => BillingInv
<1> SUFFICES ASSUME BillingInit PROVE BillingInv
  OBVIOUS
<1>1. BillingTypeOK /\ EnrolmentsAgree
  BY BillingAssumption DEF BillingInit, BillingTypeOK, EnrolmentsAgree, NoDay
<1>2. OccupiedIsBilled
  BY DEF BillingInit, OccupiedIsBilled
<1>3. QED
  BY <1>1, <1>2 DEF BillingInv

\* The phone of a day of its present enrolment is still enrolled, or was removed later.
LEMMA OccupiedIsInTheAnswer == BillingTypeOK /\ EnrolmentsAgree => OccupiedIsBilled
<1> SUFFICES ASSUME BillingTypeOK, EnrolmentsAgree, NEW w \in Windows, NEW p \in Rented,
                    From(w) <= today,
                    NEW d \in occupied[p], WindowOf(d) = w, d >= enrolment[p].enrolledAt
             PROVE  p \in appareilsFactures(w)
  BY Zenon DEF OccupiedIsBilled
<1>1. d \in Nat /\ d \in 0..EndDay
  BY BillingAssumption DEF BillingTypeOK
<1>2. From(w) <= d /\ d < Until(w) /\ From(w) \in Nat /\ Until(w) \in Nat
  BY <1>1, WindowBounds, BillingAssumption DEF From, Until
<1>3. enrolment[p].enrolledAt \in Nat /\ enrolment[p].enrolledAt \in 0..(Until(w) - 1)
  BY <1>1, <1>2 DEF EnrolmentsAgree
<1>4. enrolment[p].status = "ENROLLED" \/ enrolment[p].revokedAt >= From(w)
  <2>1. enrolment[p].revokedAt \in Int
    BY BillingAssumption DEF BillingTypeOK, NoDay
  <2>2. QED
    BY <1>1, <1>2, <2>1 DEF BillingTypeOK, EnrolmentsAgree
<1>5. QED
  BY <1>3, <1>4 DEF appareilsFactures

LEMMA OccupiedIsInTheAnswerNext == BillingTypeOK' /\ EnrolmentsAgree' => OccupiedIsBilled'
  BY OccupiedIsInTheAnswer, PTL

LEMMA BillingStays == BillingInv /\ [BillingNext]_billingVars => BillingInv'
<1> SUFFICES ASSUME BillingInv, [BillingNext]_billingVars PROVE BillingInv'
  OBVIOUS
<1> DEFINE Kept == BillingTypeOK /\ EnrolmentsAgree
<1>1. BillingTypeOK /\ EnrolmentsAgree
  BY DEF BillingInv
<1> USE BillingAssumption DEF BillingTypeOK, EnrolmentsAgree, NoDay
<1>2. ASSUME NEW p \in Rented, EnrolPhone(p) PROVE Kept'
  <2> DEFINE row == [status |-> "ENROLLED", enrolledAt |-> today, revokedAt |-> NoDay]
  <2>1. enrolment' = [enrolment EXCEPT ![p] = row] /\ occupied' = [occupied EXCEPT ![p] = @ \cup {today}]
        /\ today' = today /\ frozen' = frozen
    BY <1>2 DEF EnrolPhone
  <2>2. \A q \in Rented : enrolment'[q] = (IF q = p THEN row ELSE enrolment[q])
                       /\ occupied'[q] = (IF q = p THEN occupied[p] \cup {today} ELSE occupied[q])
    BY <1>1, <2>1
  <2>3. BillingTypeOK'
    BY <1>1, <2>1
  <2>4. EnrolmentsAgree'
    BY <1>1, <2>1, <2>2
  <2>5. QED
    BY <2>3, <2>4
<1>3. ASSUME NEW p \in Rented, RevokePhone(p) PROVE Kept'
  <2>1. /\ enrolment' = [enrolment EXCEPT ![p].status = "REVOKED", ![p].revokedAt = today]
        /\ occupied' = occupied /\ today' = today /\ frozen' = frozen
    BY <1>3 DEF RevokePhone
  <2> DEFINE Enrolments == [status : {"PENDING", "ENROLLED", "REVOKED"},
                      enrolledAt : NoDay..EndDay, revokedAt : NoDay..EndDay]
             ended == [enrolment[p] EXCEPT !.status = "REVOKED"]
             row == [ended EXCEPT !.revokedAt = today]
  <2>2. enrolment' = [enrolment EXCEPT ![p] = row]
    BY <2>1
  <2>3. /\ row \in Enrolments /\ row.status = "REVOKED" /\ row.revokedAt = today
        /\ row.enrolledAt = enrolment[p].enrolledAt
    <3>1. enrolment[p] \in Enrolments
      BY <1>1
    <3>2. ended \in Enrolments /\ ended.status = "REVOKED" /\ ended.enrolledAt = enrolment[p].enrolledAt
      BY <3>1
    <3> HIDE DEF ended
    <3>3. QED
      BY <1>1, <3>2
  <2> HIDE DEF row
  <2>4. \A q \in Rented : enrolment'[q] = IF q = p THEN row ELSE enrolment[q]
    BY <1>1, <2>2
  <2>5. BillingTypeOK'
    BY <1>1, <2>1, <2>2, <2>3
  <2>6. EnrolmentsAgree'
    BY <1>1, <2>1, <2>3, <2>4
  <2>7. QED
    BY <2>5, <2>6
<1>4. ASSUME NEW w \in Windows, Freeze(w) PROVE Kept'
  BY <1>1, <1>4 DEF Freeze, appareilsFactures
<1>5. PassDay => Kept'
  BY <1>1 DEF PassDay
<1>6. UNCHANGED billingVars => Kept'
  BY <1>1 DEF billingVars
<1>7. Kept'
  BY <1>2, <1>3, <1>4, <1>5, <1>6, Zenon DEF BillingNext
<1> HIDE DEF BillingTypeOK, EnrolmentsAgree
<1>8. QED
  BY <1>7, OccupiedIsInTheAnswerNext DEF BillingInv

-----------------------------------------------------------------------------
(* What is kept, and for how long *)

\* The longest duration is one of those read, and the others are not longer.
LEMMA LongestRead ==
    ASSUME RetentionTypeOK, night \in Purges
    PROVE  /\ Longest \in Terms /\ Longest \in Nat
           /\ \A c \in Keepers : night.read[c]["track"] \in Nat /\ night.read[c]["track"] <= Longest
<1> DEFINE f == [c \in Keepers |-> night.read[c]["track"]]
<1>1. \A c \in Keepers : night.read[c]["track"] \in Terms /\ night.read[c]["track"] \in Nat
  <2>1. night.read \in [Keepers -> [Kinds -> Terms]]
    BY DEF Purges, Policies
  <2>2. QED
    BY <2>1, RetentionAssumption DEF Kinds
<1>2. f \in [Keepers -> Int] /\ Keepers # {}
  BY <1>1 DEF RetentionTypeOK
<1> HIDE DEF f
<1>3. PICK c \in Keepers : \A k \in Keepers : f[k] <= f[c]
  BY <1>2, LargestExists, RetentionAssumption
<1> USE DEF f
<1>4. \E n \in Terms : /\ \E k \in Keepers : night.read[k]["track"] = n
                       /\ \A k \in Keepers : night.read[k]["track"] <= n
  BY <1>1, <1>3
<1>5. Longest \in Terms /\ \A k \in Keepers : night.read[k]["track"] <= Longest
  BY <1>4, Zenon DEF Longest
<1>6. QED
  BY <1>1, <1>5, RetentionAssumption

LEMMA MonthBounds ==
    ASSUME NEW d \in Nat
    PROVE  MonthOf(d) \in Nat /\ d < EndOfMonth(MonthOf(d))
  BY RetentionAssumption DEF MonthOf, EndOfMonth

\* A row that a dropped partition takes was older than any duration.
LEMMA DroppedIsOld ==
    ASSUME RetentionTypeOK, HomesAgree, NightAt("drop"), NEW m \in months, Droppable(m),
           NEW r \in rows, r.home = m
    PROVE  r.day < day - night.read[r.keeper][KindOf(r)]
<1>1. r \in Rows /\ m \in Nat /\ day \in Nat
  BY RetentionAssumption DEF RetentionTypeOK, MonthOf
<1>2. r.id \in Tracks /\ m = MonthOf(r.day) /\ r.day \in Nat /\ r.keeper \in Keepers
  BY <1>1, RetentionAssumption DEF HomesAgree, Nowhere, Rows
<1>3. night \in Purges
  BY DEF RetentionTypeOK, NightAt, Evenings, Daytime
<1>4. /\ Longest \in Nat /\ night.read[r.keeper]["track"] \in Nat
      /\ night.read[r.keeper]["track"] <= Longest
  BY <1>2, <1>3, LongestRead
<1>5. r.day < EndOfMonth(m) /\ EndOfMonth(m) \in Nat
  BY <1>1, <1>2, MonthBounds, RetentionAssumption DEF EndOfMonth
<1>6. QED
  BY <1>1, <1>2, <1>4, <1>5 DEF Droppable, KindOf

LEMMA RetentionStarts == RetentionInit => RetentionInv
<1> SUFFICES ASSUME RetentionInit PROVE RetentionInv
  OBVIOUS
<1>1. MonthOf(LastDay) \in Nat
  BY MonthBounds, RetentionAssumption
<1>2. RetentionTypeOK
  <2>1. tried \in BOOLEAN
    BY Zenon DEF RetentionInit
  <2>2. settings \in [shown : Keepers \cup {NotYet}, form : Policies \cup {Unfilled}]
    BY DEF RetentionInit
  <2>3. months \subseteq 0..(MonthOf(LastDay) + Ahead)
    BY <1>1, RetentionAssumption DEF RetentionInit
  <2>4. QED
    BY <2>1, <2>2, <2>3, RetentionAssumption DEF RetentionInit, RetentionTypeOK, Evenings
<1>3. HomesAgree /\ PassAgrees /\ PassHolds
  BY DEF RetentionInit, HomesAgree, PassAgrees, PassHolds, NightAt, Daytime
<1>4. QED
  BY <1>2, <1>3 DEF RetentionInv

\* A row that comes in is where its month is kept.
LEMMA InsertStays ==
    ASSUME RetentionInv, NEW t \in Tracks \cup Facts, NEW c \in Keepers, NEW d \in 0..LastDay,
           insertRow(t, c, d)
    PROVE  RetentionInv'
<1> DEFINE r == [id |-> t, keeper |-> c, day |-> d, home |-> HomeOf(t, d)]
<1>1. RetentionTypeOK /\ HomesAgree /\ PassAgrees /\ PassHolds
  BY DEF RetentionInv
<1>2. /\ rows' = rows \cup {r} /\ day' = day /\ months' = months /\ night' = night
      /\ tried' = tried /\ policy' = policy /\ settings' = settings /\ firstName' = firstName
      /\ saves' = saves
  BY DEF insertRow, pageVars
<1>3. r \in Rows
  <2>1. MonthOf(d) \in 0..MonthOf(LastDay)
    BY RetentionAssumption DEF MonthOf
  <2>2. MonthOf(LastDay) \in Nat
    BY MonthBounds, RetentionAssumption
  <2>3. HomeOf(t, d) \in Nowhere..MonthOf(LastDay)
    BY <2>1, <2>2 DEF HomeOf, Nowhere
  <2>4. QED
    BY <2>3 DEF Rows
<1>4. RetentionTypeOK'
  BY <1>1, <1>2, <1>3 DEF RetentionTypeOK
<1>5. HomesAgree'
  BY <1>1, <1>2 DEF HomesAgree, HomeOf, Nowhere
<1>6. Longest' = Longest
  BY <1>2 DEF Longest
<1>7. PassAgrees'
  BY <1>1, <1>2, <1>6, Zenon DEF PassAgrees, NightAt, KeptRightly, KindOf
<1>8. PassHolds'
  BY <1>7 DEF PassAgrees, PassHolds, KeptRightly
<1>9. QED
  BY <1>4, <1>5, <1>7, <1>8 DEF RetentionInv

\* The page and the calendar leave the rows and what the pass holds as they are.
LEMMA OthersStay ==
    ASSUME RetentionInv,
           \/ loadPage \/ updateRetention \/ (\E c \in Keepers : rename(c))
           \/ (\E k \in Kinds, n \in Terms : editForm(k, n))
           \/ nextDay \/ dieAtNight \/ handle \/ UNCHANGED retentionVars
    PROVE  RetentionInv'
<1>1. RetentionTypeOK /\ HomesAgree /\ PassAgrees /\ PassHolds
  BY DEF RetentionInv
<1>2. ASSUME UNCHANGED <<day, months, rows, night, tried>>,
             policy' \in [Keepers -> Policies], firstName' \in Keepers, saves' \in 0..MaxSaves,
             settings' \in [shown : Keepers \cup {NotYet}, form : Policies \cup {Unfilled}]
      PROVE  RetentionInv'
  <2>1. RetentionTypeOK'
    BY <1>1, <1>2 DEF RetentionTypeOK
  <2>2. Longest' = Longest
    BY <1>2 DEF Longest
  <2>3. HomesAgree' /\ PassAgrees' /\ PassHolds'
    BY <1>1, <1>2, <2>2 DEF HomesAgree, PassAgrees, PassHolds, NightAt, KeptRightly, KindOf
  <2>4. QED
    BY <2>1, <2>3 DEF RetentionInv
<1>3. ASSUME UNCHANGED <<months, rows, policy, settings, firstName, saves>>, night' \in Evenings,
             night'.pc \in {"idle", "partitions"},
             night' # Daytime => night'.present \subseteq rows,
             day' \in 0..LastDay, tried' \in BOOLEAN
      PROVE  RetentionInv'
  <2>1. RetentionTypeOK'
    BY <1>1, <1>3 DEF RetentionTypeOK
  <2>2. HomesAgree' /\ PassAgrees' /\ PassHolds'
    BY <1>1, <1>3 DEF HomesAgree, PassAgrees, PassHolds, NightAt
  <2>3. QED
    BY <2>1, <2>2 DEF RetentionInv
<1>4. loadPage => RetentionInv'
  <2>1. loadPage => settings' \in [shown : Keepers \cup {NotYet}, form : Policies \cup {Unfilled}]
    BY <1>1 DEF loadPage, RetentionTypeOK
  <2>2. QED
    BY <1>1, <1>2, <2>1 DEF loadPage, RetentionTypeOK
<1>5. updateRetention => RetentionInv'
  <2>1. updateRetention => settings.form \in Policies /\ Body = settings.form
    BY <1>1 DEF updateRetention, RetentionTypeOK, Body, Policies
  <2>2. updateRetention => policy' \in [Keepers -> Policies]
    BY <1>1, <2>1 DEF updateRetention, RetentionTypeOK
  <2>3. QED
    BY <1>1, <1>2, <2>2 DEF updateRetention, RetentionTypeOK
<1>6. ASSUME NEW c \in Keepers, rename(c) PROVE RetentionInv'
  BY <1>1, <1>2, <1>6 DEF rename, RetentionTypeOK
<1>7. ASSUME NEW k \in Kinds, NEW n \in Terms, editForm(k, n) PROVE RetentionInv'
  <2>1. settings.form \in Policies /\ settings' = [settings EXCEPT !.form = [settings.form EXCEPT ![k] = n]]
    BY <1>1, <1>7 DEF editForm, RetentionTypeOK
  <2>2. [settings.form EXCEPT ![k] = n] \in Policies
    BY <2>1 DEF Policies
  <2>3. settings' \in [shown : Keepers \cup {NotYet}, form : Policies \cup {Unfilled}]
    BY <1>1, <2>1, <2>2 DEF RetentionTypeOK
  <2>4. saves' \in 0..MaxSaves
    BY <1>1, <1>7, RetentionAssumption DEF editForm, RetentionTypeOK
  <2>5. QED
    BY <1>1, <1>2, <1>7, <2>3, <2>4 DEF editForm, RetentionTypeOK
<1>8. nextDay \/ dieAtNight \/ handle => RetentionInv'
  <2>1. Daytime \in Evenings /\ [pc |-> "partitions", present |-> rows] \in Evenings
    BY <1>1 DEF Evenings, RetentionTypeOK
  <2>2. nextDay => RetentionInv'
    <3>1. nextDay => day' \in 0..LastDay
      BY <1>1, RetentionAssumption DEF nextDay, RetentionTypeOK
    <3>2. nextDay => tried' \in BOOLEAN
      BY Zenon DEF nextDay
    <3>3. QED
      BY <1>3, <2>1, <3>1, <3>2 DEF nextDay, pageVars, Daytime
  <2>3. dieAtNight => RetentionInv'
    <3>1. dieAtNight => day' \in 0..LastDay /\ tried' \in BOOLEAN
      BY <1>1, Zenon DEF dieAtNight, RetentionTypeOK
    <3>2. QED
      BY <1>3, <2>1, <3>1 DEF dieAtNight, pageVars, Daytime
  <2>4. handle => RetentionInv'
    <3>1. handle => day' \in 0..LastDay /\ tried' \in BOOLEAN
      BY <1>1, Zenon DEF handle, RetentionTypeOK
    <3>2. QED
      BY <1>3, <2>1, <3>1 DEF handle, pageVars
  <2>5. QED
    BY <2>2, <2>3, <2>4
<1>9. UNCHANGED retentionVars => RetentionInv'
  BY <1>1, <1>2 DEF retentionVars, RetentionTypeOK
<1>10. QED
  BY <1>4, <1>5, <1>6, <1>7, <1>8, <1>9

\* What the pass becomes when it erases rows.
LEMMA EraseLeaves ==
    ASSUME RetentionInv, NEW gone \in SUBSET rows, NEW next \in Purges,
           Erase(gone, next), next.present = night.present, next.read = night.read,
           night \in Purges, UNCHANGED <<day, tried, pageVars>>, months' \subseteq months,
           next.pc = "stricter" =>
               \A r \in night.present \ gone :
                   KeptRightly(r) \/ KindOf(r) = "fact" \/ r.keeper \in next.left,
           next.pc = "events" =>
               \A r \in night.present \ gone :
                   KeptRightly(r) \/ (KindOf(r) = "fact" /\ r.keeper \in next.left),
           next.pc = "done" => \A r \in night.present \ gone : KeptRightly(r)
    PROVE  RetentionInv'
<1>1. RetentionTypeOK /\ HomesAgree /\ PassAgrees /\ PassHolds
  BY DEF RetentionInv
<1>2. /\ rows' = rows \ gone /\ night' = [next EXCEPT !.present = next.present \ gone]
      /\ day' = day /\ tried' = tried /\ policy' = policy /\ settings' = settings
      /\ firstName' = firstName /\ saves' = saves
  BY DEF Erase, pageVars
<1>3. /\ night' \in Purges /\ night'.pc = next.pc /\ night'.read = night.read
      /\ night'.left = next.left /\ night'.present = night.present \ gone
  BY <1>2 DEF Purges
<1>4. night # Daytime
  BY DEF Purges, Daytime
<1>5. RetentionTypeOK'
  BY <1>1, <1>2, <1>3 DEF RetentionTypeOK
<1>6. HomesAgree'
  BY <1>1, <1>2 DEF HomesAgree
<1>7. \A r : KeptRightly(r)' <=> KeptRightly(r)
  BY <1>2, <1>3 DEF KeptRightly, Longest, KindOf
<1>8. PassAgrees'
  <2>1. \A r : KindOf(r)' = KindOf(r)
    BY DEF KindOf
  <2>2. night.present \ gone \subseteq rows \ gone
    BY <1>1, <1>4 DEF PassAgrees
  <2>3. QED
    BY <1>2, <1>3, <1>7, <2>1, <2>2 DEF PassAgrees, NightAt
<1>9. PassHolds'
  BY <1>8 DEF PassAgrees, PassHolds, KeptRightly
<1>10. QED
  BY <1>5, <1>6, <1>8, <1>9 DEF RetentionInv

\* The months, then the durations, are read before anything is erased.
LEMMA BeginningStays ==
    ASSUME RetentionInv, ensurePartitions \/ applyRetention
    PROVE  RetentionInv'
<1>1. RetentionTypeOK /\ HomesAgree /\ PassAgrees /\ PassHolds
  BY DEF RetentionInv
<1>2. ASSUME UNCHANGED <<day, rows, tried, pageVars>>,
             months' \subseteq 0..(MonthOf(LastDay) + Ahead),
             night' \in Evenings \/ night' \in Purges,
             night'.pc \in {"read", "failed", "drop"}, night'.present = night.present,
             night # Daytime
      PROVE  RetentionInv'
  <2>1. RetentionTypeOK'
    BY <1>1, <1>2 DEF RetentionTypeOK, pageVars
  <2>2. HomesAgree' /\ PassAgrees' /\ PassHolds'
    BY <1>1, <1>2 DEF HomesAgree, PassAgrees, PassHolds, NightAt
  <2>3. QED
    BY <2>1, <2>2 DEF RetentionInv
<1>3. ensurePartitions => RetentionInv'
  <2> SUFFICES ASSUME ensurePartitions PROVE RetentionInv'
    OBVIOUS
  <2> DEFINE wanted == MonthOf(day)..(MonthOf(day) + Ahead)
             made == {m \in wanted : \A n \in wanted : Refused(n) => m < n}
             next == [night EXCEPT !.pc = IF made = wanted THEN "read" ELSE "failed"]
  <2>1. /\ night.pc = "partitions" /\ months' = months \cup made /\ night' = next
        /\ UNCHANGED <<day, rows, tried, pageVars>>
    BY DEF ensurePartitions, NightAt
  <2>2. made \subseteq 0..(MonthOf(LastDay) + Ahead)
    <3>1. MonthOf(day) \in 0..MonthOf(LastDay) /\ MonthOf(LastDay) \in Nat
      BY <1>1, RetentionAssumption DEF RetentionTypeOK, MonthOf
    <3>2. wanted \subseteq 0..(MonthOf(LastDay) + Ahead)
      BY <3>1, RetentionAssumption
    <3>3. QED
      BY <3>2
  <2> HIDE DEF made, wanted
  <2>3. night \in Evenings /\ night # Daytime
    BY <1>1, <2>1 DEF RetentionTypeOK, Purges, Daytime
  <2>4. next \in Evenings /\ next.pc \in {"read", "failed"} /\ next.present = night.present
    BY <2>3 DEF Evenings
  <2>5. QED
    BY <1>1, <1>2, <2>1, <2>2, <2>3, <2>4 DEF RetentionTypeOK
<1>4. applyRetention => RetentionInv'
  <2> SUFFICES ASSUME applyRetention PROVE RetentionInv'
    OBVIOUS
  <2>1. night \in Evenings /\ night # Daytime
    BY <1>1 DEF applyRetention, NightAt, RetentionTypeOK, Purges, Daytime
  <2>2. night' \in Purges
    BY <1>1, <2>1 DEF applyRetention, Purges, Evenings, RetentionTypeOK
  <2>3. QED
    BY <1>1, <1>2, <2>1, <2>2 DEF applyRetention, RetentionTypeOK
<1>5. QED
  BY <1>3, <1>4

\* Month after month, then the companies whose duration is not the longest.
LEMMA DropStays ==
    ASSUME RetentionInv, dropOldLocationPartitions
    PROVE  RetentionInv'
<1>1. RetentionTypeOK /\ PassAgrees
  BY DEF RetentionInv
<1>2. night \in Purges /\ night.pc = "drop" /\ UNCHANGED <<day, tried, pageVars>>
  BY <1>1 DEF dropOldLocationPartitions, RetentionTypeOK, NightAt, Evenings, Daytime
<1>3. CASE \E m \in months : Droppable(m)
  <2>1. PICK m \in months : /\ months' = months \ {m}
                            /\ Erase({r \in rows : r.home = m}, night)
    BY <1>3 DEF dropOldLocationPartitions
  <2> DEFINE gone == {r \in rows : r.home = m}
  <2>2. gone \in SUBSET rows /\ Erase(gone, night)
    BY <2>1
  <2> HIDE DEF gone
  <2>3. QED
    BY <1>2, <2>1, <2>2, EraseLeaves
<1>4. CASE ~ \E m \in months : Droppable(m)
  <2> DEFINE stricter == {c \in Keepers : night.read[c]["track"] < Longest}
             next == [night EXCEPT !.pc = "stricter", !.left = stricter]
             next1 == [night EXCEPT !.pc = "stricter"]
  <2>1. Erase({}, next) /\ UNCHANGED months
    BY <1>4 DEF dropOldLocationPartitions
  <2>2. next1 \in Purges /\ next1.pc = "stricter" /\ next1.read = night.read
        /\ next1.present = night.present
    BY <1>2 DEF Purges
  <2>3. next = [next1 EXCEPT !.left = stricter]
    OBVIOUS
  <2>4. stricter \in SUBSET Keepers
    OBVIOUS
  <2> HIDE DEF next1
  <2>5. next \in Purges /\ next.pc = "stricter" /\ next.read = night.read
        /\ next.present = night.present /\ next.left = stricter
    BY <2>2, <2>3, <2>4 DEF Purges
  <2>6. ASSUME NEW r \in night.present, r.keeper \notin stricter, KindOf(r) # "fact"
        PROVE  KeptRightly(r)
    <3>1. r.keeper \in Keepers /\ KindOf(r) = "track"
      BY <1>2, <2>6 DEF Purges, Rows, KindOf
    <3>2. night.read[r.keeper]["track"] = Longest
      BY <1>1, <1>2, <2>6, <3>1, LongestRead
    <3>3. QED
      BY <3>1, <3>2 DEF KeptRightly
  <2> HIDE DEF next, stricter
  <2>7. QED
    BY <1>2, <2>1, <2>5, <2>6, EraseLeaves
<1>5. QED
  BY <1>3, <1>4

\* What a company is not owed any more, by what the pass read.
LEMMA OutlivedIsOld ==
    ASSUME RetentionInv, night \in Purges, NEW c \in Keepers, NEW k \in Kinds
    PROVE  /\ Outlived(c, k) \in SUBSET rows
           /\ \A r \in Outlived(c, k) : r.day < day - night.read[r.keeper][KindOf(r)]
           /\ \A r \in rows \ Outlived(c, k) : r.keeper = c /\ KindOf(r) = k => KeptRightly(r)
<1>1. \A r \in rows : r.day \in Int
  BY DEF RetentionInv, RetentionTypeOK, Rows
<1>2. night.read[c][k] \in Nat /\ day \in Int
  <2>1. night.read \in [Keepers -> [Kinds -> Terms]]
    BY DEF Purges, Policies
  <2>2. night.read[c][k] \in Terms
    BY <2>1
  <2>3. day \in Int
    BY RetentionAssumption DEF RetentionInv, RetentionTypeOK
  <2>4. QED
    BY <2>2, <2>3, RetentionAssumption
<1>3. QED
  BY <1>1, <1>2 DEF Outlived, KeptRightly

\* A company is done with when its last lot, which is not full, is all that it had left.
LEMMA StricterStays ==
    ASSUME RetentionInv, NEW c \in Keepers, purgeStricter(c)
    PROVE  RetentionInv'
<1> DEFINE all == Outlived(c, "track")
<1>1. RetentionTypeOK /\ PassAgrees
  BY DEF RetentionInv
<1>2. night \in Purges /\ night.pc = "stricter" /\ UNCHANGED <<day, months, tried, pageVars>>
  BY <1>1 DEF purgeStricter, RetentionTypeOK, NightAt, Evenings, Daytime
<1>3. PICK lot \in SUBSET all :
          /\ lot = all \/ Cardinality(lot) = Lot
          /\ Erase(lot, IF Cardinality(lot) < Lot THEN [night EXCEPT !.left = night.left \ {c}] ELSE night)
  BY DEF purgeStricter
<1>4. all \in SUBSET rows /\ \A r \in rows \ all : r.keeper = c /\ KindOf(r) = "track" => KeptRightly(r)
  BY <1>2, OutlivedIsOld DEF Kinds
<1>5. lot \in SUBSET rows
  BY <1>3, <1>4
<1>6. \A r \in night.present : KeptRightly(r) \/ KindOf(r) = "fact" \/ r.keeper \in night.left
  BY <1>1, <1>2 DEF PassAgrees, NightAt
<1> HIDE DEF all
<1>7. CASE Cardinality(lot) < Lot
  <2> DEFINE next == [night EXCEPT !.left = night.left \ {c}]
  <2>1. lot = all
    BY <1>3, <1>7, RetentionAssumption
  <2>2. next \in Purges /\ next.pc = "stricter" /\ next.read = night.read
        /\ next.present = night.present /\ next.left = night.left \ {c}
    BY <1>2 DEF Purges
  <2>3. night.present \subseteq rows
    BY <1>1, <1>2 DEF PassAgrees, Daytime
  <2>4. \A r \in night.present \ lot :
            KeptRightly(r) \/ KindOf(r) = "fact" \/ r.keeper \in next.left
    BY <1>4, <1>6, <2>1, <2>2, <2>3 DEF KindOf
  <2>5. Erase(lot, next)
    BY <1>3, <1>7
  <2> HIDE DEF next
  <2>6. QED
    BY <1>2, <1>5, <2>2, <2>4, <2>5, EraseLeaves
<1>8. CASE ~(Cardinality(lot) < Lot)
  <2>1. Erase(lot, night)
    BY <1>3, <1>8
  <2>2. QED
    BY <1>2, <1>5, <1>6, <2>1, EraseLeaves
<1>9. QED
  BY <1>7, <1>8

LEMMA EventsStay ==
    ASSUME RetentionInv, startEvents
    PROVE  RetentionInv'
<1>1. RetentionTypeOK /\ HomesAgree /\ PassAgrees /\ PassHolds
  BY DEF RetentionInv
<1>2. /\ night \in Purges /\ night.pc = "stricter" /\ night.left = {}
      /\ UNCHANGED <<day, months, rows, tried, pageVars>>
  BY <1>1 DEF startEvents, RetentionTypeOK, NightAt, Evenings, Daytime
<1> DEFINE next1 == [night EXCEPT !.pc = "events"]
           next == [next1 EXCEPT !.left = Keepers]
<1>3. night' = next
  BY DEF startEvents
<1>4. next1 \in Purges /\ next1.pc = "events" /\ next1.read = night.read
      /\ next1.present = night.present
  BY <1>2 DEF Purges
<1> HIDE DEF next1
<1>5. next \in Purges /\ next.pc = "events" /\ next.read = night.read
      /\ next.present = night.present /\ next.left = Keepers
  BY <1>4 DEF Purges
<1>6. \A r \in night.present : (KeptRightly(r) \/ KindOf(r) = "fact") /\ r.keeper \in Keepers
  BY <1>1, <1>2 DEF PassAgrees, NightAt, Purges, Rows
<1>7. Longest' = Longest
  BY <1>3, <1>5 DEF Longest
<1>8. RetentionTypeOK' /\ HomesAgree'
  BY <1>1, <1>2, <1>3, <1>5 DEF RetentionTypeOK, HomesAgree, pageVars
<1>9. PassAgrees' /\ PassHolds'
  BY <1>1, <1>2, <1>3, <1>5, <1>6, <1>7
     DEF PassAgrees, PassHolds, NightAt, KeptRightly, KindOf, Daytime
<1>10. QED
  BY <1>8, <1>9 DEF RetentionInv

\* The last company that is dealt with ends the pass.
LEMMA PurgeEventsStays ==
    ASSUME RetentionInv, NEW c \in Keepers, purgeEvents(c)
    PROVE  RetentionInv'
<1> DEFINE all == Outlived(c, "fact")
<1>1. RetentionTypeOK /\ PassAgrees
  BY DEF RetentionInv
<1>2. /\ night \in Purges /\ night.pc = "events" /\ c \in night.left
      /\ UNCHANGED <<day, months, tried, pageVars>>
  BY <1>1 DEF purgeEvents, RetentionTypeOK, NightAt, Evenings, Daytime
<1> DEFINE next1 == [night EXCEPT !.left = night.left \ {c}]
           next == [next1 EXCEPT !.pc = IF night.left = {c} THEN "done" ELSE night.pc]
<1>3. Erase(all, next)
  BY DEF purgeEvents
<1>4. next1 \in Purges /\ next1.pc = "events" /\ next1.read = night.read
      /\ next1.present = night.present /\ next1.left = night.left \ {c}
  BY <1>2 DEF Purges
<1> HIDE DEF next1
<1>5. /\ next \in Purges /\ next.pc = (IF night.left = {c} THEN "done" ELSE "events")
      /\ next.read = night.read /\ next.present = night.present /\ next.left = night.left \ {c}
  BY <1>2, <1>4 DEF Purges
<1>6. all \in SUBSET rows /\ \A r \in rows \ all : r.keeper = c /\ KindOf(r) = "fact" => KeptRightly(r)
  BY <1>2, OutlivedIsOld DEF Kinds
<1>7. /\ \A r \in night.present : KeptRightly(r) \/ (KindOf(r) = "fact" /\ r.keeper \in night.left)
      /\ night.present \subseteq rows
  BY <1>1, <1>2 DEF PassAgrees, NightAt, Daytime
<1> HIDE DEF all, next
<1>8. \A r \in night.present \ all : KeptRightly(r) \/ (KindOf(r) = "fact" /\ r.keeper \in night.left \ {c})
  BY <1>6, <1>7
<1>9. QED
  BY <1>2, <1>3, <1>5, <1>6, <1>8, EraseLeaves

LEMMA RetentionStays == RetentionInv /\ [RetentionNext]_retentionVars => RetentionInv'
  BY InsertStays, OthersStay, BeginningStays, DropStays, StricterStays, EventsStay,
     PurgeEventsStays, Zenon DEF RetentionNext

-----------------------------------------------------------------------------
(* Nothing before its term *)

LEMMA NoneLostByStep ==
    ASSUME RetentionInv, [RetentionNext]_retentionVars, NEW r \in rows \ rows'
    PROVE  r.day < day - night.read[r.keeper][KindOf(r)]
<1>1. RetentionTypeOK /\ HomesAgree
  BY DEF RetentionInv
<1>2. ASSUME NEW t \in Tracks \cup Facts, NEW c \in Keepers, NEW d \in 0..LastDay, insertRow(t, c, d)
      PROVE  FALSE
  BY <1>2 DEF insertRow
<1>3. dropOldLocationPartitions => r.day < day - night.read[r.keeper][KindOf(r)]
  <2> SUFFICES ASSUME dropOldLocationPartitions PROVE r.day < day - night.read[r.keeper][KindOf(r)]
    OBVIOUS
  <2>1. PICK m \in months : Droppable(m) /\ r.home = m
    BY DEF dropOldLocationPartitions, Erase
  <2>2. QED
    BY <1>1, <2>1, DroppedIsOld DEF dropOldLocationPartitions
<1>4. ASSUME NEW c \in Keepers, purgeStricter(c)
      PROVE  r.day < day - night.read[r.keeper][KindOf(r)]
  <2>1. night \in Purges
    BY <1>1, <1>4 DEF purgeStricter, RetentionTypeOK, NightAt, Evenings, Daytime
  <2>2. r \in Outlived(c, "track")
    BY <1>4 DEF purgeStricter, Erase
  <2>3. QED
    BY <2>1, <2>2, OutlivedIsOld DEF Kinds
<1>5. ASSUME NEW c \in Keepers, purgeEvents(c)
      PROVE  r.day < day - night.read[r.keeper][KindOf(r)]
  <2>1. night \in Purges
    BY <1>1, <1>5 DEF purgeEvents, RetentionTypeOK, NightAt, Evenings, Daytime
  <2>2. r \in Outlived(c, "fact")
    BY <1>5 DEF purgeEvents, Erase
  <2>3. QED
    BY <2>1, <2>2, OutlivedIsOld DEF Kinds
<1>6. ASSUME \/ handle \/ ensurePartitions \/ applyRetention \/ startEvents \/ dieAtNight \/ nextDay
             \/ loadPage \/ updateRetention \/ (\E c \in Keepers : rename(c))
             \/ (\E k \in Kinds, n \in Terms : editForm(k, n)) \/ UNCHANGED retentionVars
      PROVE  FALSE
  BY <1>6 DEF handle, ensurePartitions, applyRetention, startEvents, dieAtNight, nextDay, loadPage,
     updateRetention, rename, editForm, retentionVars
<1>7. QED
  BY <1>2, <1>3, <1>4, <1>5, <1>6, Zenon DEF RetentionNext

-----------------------------------------------------------------------------
(* Transitions *)

\* What the server makes of a transition.
LEMMA Decided ==
    ASSUME NEW kind, NEW at, NEW s, NEW state \in {"ACTIVE", "RETURNED"}
    PROVE  LET d == evaluateGeofenceTransition(kind, at, s, state)
               back == kind = "ENTER" /\ isAfterReturnTime(s, at)
           IN  /\ d.next \in {"ACTIVE", "RETURNED"}
               /\ d.alert <=> (kind = "EXIT" /\ state = "RETURNED")
               /\ back => d.next = "RETURNED"
               /\ kind = "EXIT" => d.next = "ACTIVE"
               /\ ~back /\ kind # "EXIT" => d.next = state
<1> DEFINE back == kind = "ENTER" /\ isAfterReturnTime(s, at)
<1>1. back \in BOOLEAN
  BY Zenon
<1> HIDE DEF back
<1>2. evaluateGeofenceTransition(kind, at, s, state).next =
          IF back THEN "RETURNED" ELSE IF kind = "EXIT" /\ state = "RETURNED" THEN "ACTIVE" ELSE state
  BY Zenon DEF evaluateGeofenceTransition, back
<1>3. evaluateGeofenceTransition(kind, at, s, state).alert <=> (kind = "EXIT" /\ state = "RETURNED")
  BY Zenon DEF evaluateGeofenceTransition
<1>4. back => kind = "ENTER"
  BY DEF back
<1> DEFINE d == evaluateGeofenceTransition(kind, at, s, state)
<1> HIDE DEF d
<1>5. /\ d.next = IF back THEN "RETURNED"
                  ELSE IF kind = "EXIT" /\ state = "RETURNED" THEN "ACTIVE" ELSE state
      /\ d.alert <=> (kind = "EXIT" /\ state = "RETURNED")
  BY <1>2, <1>3 DEF d
<1>6. /\ d.next \in {"ACTIVE", "RETURNED"}
      /\ back => d.next = "RETURNED"
      /\ kind = "EXIT" => d.next = "ACTIVE"
      /\ ~back /\ kind # "EXIT" => d.next = state
  BY <1>4, <1>5
<1>7. QED
  BY <1>5, <1>6 DEF d, back

LEMMA ByNumber ==
    ASSUME NEW S, NEW s \in Seq(S)
    PROVE  DOMAIN s = 1..Len(s) /\ Len(s) \in Nat /\ \A i \in DOMAIN s : s[i] \in S
  OBVIOUS

\* The transitions are numbered in their order, and those that are there stay.
LEMMA MovesByNumber ==
    ASSUME ReturnTypeOK
    PROVE  /\ DOMAIN moves = 1..Len(moves) /\ Len(moves) \in Nat /\ DOMAIN moves \subseteq Numbers
           /\ \A n \in DOMAIN moves : moves[n] \in [kind : Transitions, at : 0..LastHour]
           /\ DOMAIN written = 1..Len(written) /\ Len(written) \in Nat
           /\ \A i \in DOMAIN written :
                 written[i] \in [n : Numbers, outing : Outings \cup {NoOuting}]
<1>1. /\ moves \in Seq([kind : Transitions, at : 0..LastHour]) /\ Len(moves) <= MaxMoves
      /\ written \in Seq([n : Numbers, outing : Outings \cup {NoOuting}])
  BY DEF ReturnTypeOK
<1> DEFINE move == [kind : Transitions, at : 0..LastHour]
           row == [n : Numbers, outing : Outings \cup {NoOuting}]
<1>2. DOMAIN moves = 1..Len(moves) /\ Len(moves) \in Nat
      /\ \A n \in DOMAIN moves : moves[n] \in move
  BY <1>1, ByNumber
<1>3. DOMAIN written = 1..Len(written) /\ Len(written) \in Nat
      /\ \A i \in DOMAIN written : written[i] \in row
  BY <1>1, ByNumber
<1>4. DOMAIN moves \subseteq Numbers
  BY <1>1, <1>2, ReturnAssumption DEF Numbers
<1>5. QED
  BY <1>2, <1>3, <1>4

\* A push that handles: its row, and the transition in hand.
LEMMA InHandKnown ==
    ASSUME ReturnTypeOK, HandlingAgrees, NEW h \in Handlers, handling[h] # IdlePush,
           handling[h].todo # {}
    PROVE  /\ InHand(h) \in handling[h].todo /\ InHand(h) \in DOMAIN moves /\ InHand(h) \in Numbers
<1>1. handling[h].todo \subseteq DOMAIN moves /\ handling[h].todo \in SUBSET (1..MaxMoves)
  BY DEF ReturnTypeOK, HandlingAgrees, HandlerAgrees, Handlings, Numbers
<1>2. IsFiniteSet(1..MaxMoves)
  BY FS_Interval, ReturnAssumption
<1>3. IsFiniteSet(handling[h].todo)
  BY <1>1, <1>2, FS_Subset
<1>4. handling[h].todo \subseteq Int
  BY <1>1
<1>5. InHand(h) \in handling[h].todo
  BY <1>3, <1>4, Extremes DEF InHand
<1>6. QED
  BY <1>1, <1>5 DEF Numbers

LEMMA HandlingRow ==
    ASSUME ReturnTypeOK, NEW h \in Handlers, handling[h] # IdlePush
    PROVE  /\ handling[h] \in [pc : {"next", "alert", "write"}, todo : SUBSET Numbers,
                               done : SUBSET Numbers, read : Outings \cup {NoOuting},
                               state : {"ACTIVE", "RETURNED"}]
           /\ handling \in [Handlers -> Handlings]
  BY DEF ReturnTypeOK, Handlings

\* A transition is left behind.
LEMMA Dropped ==
    ASSUME ReturnTypeOK, HandlingAgrees, NEW h \in Handlers, handling[h] # IdlePush,
           handling[h].todo # {}, NEW acked \in BOOLEAN, Drop(h, acked)
    PROVE  /\ handling' \in [Handlers -> Handlings]
           /\ \A g \in Handlers \ {h} : handling'[g] = handling[g]
           /\ handling'[h].pc = "next"
           /\ handling'[h].todo \cup handling'[h].done \subseteq DOMAIN moves
<1> DEFINE row == [pc : {"next", "alert", "write"}, todo : SUBSET Numbers, done : SUBSET Numbers,
                   read : Outings \cup {NoOuting}, state : {"ACTIVE", "RETURNED"}]
           rest == handling[h].todo \ {InHand(h)}
           done == IF acked THEN handling[h].done \cup {InHand(h)} ELSE handling[h].done
           r1 == [handling[h] EXCEPT !.pc = "next"]
           r2 == [r1 EXCEPT !.todo = rest]
           r3 == [r2 EXCEPT !.done = done]
<1>1. handling[h] \in row /\ handling \in [Handlers -> Handlings]
  BY HandlingRow
<1>2. InHand(h) \in DOMAIN moves /\ InHand(h) \in Numbers
  BY InHandKnown
<1>3. handling[h].todo \cup handling[h].done \subseteq DOMAIN moves
  BY DEF HandlingAgrees, HandlerAgrees
<1>4. /\ rest \in SUBSET Numbers /\ done \in SUBSET Numbers
      /\ rest \cup done \subseteq DOMAIN moves
  BY <1>1, <1>2, <1>3
<1>5. handling' = [handling EXCEPT ![h] = r3]
  BY DEF Drop
<1> HIDE DEF rest, done
<1>6. r1 \in row /\ r1.pc = "next"
  BY <1>1
<1> HIDE DEF r1
<1>7. r2 \in row /\ r2.pc = "next" /\ r2.todo = rest
  BY <1>4, <1>6
<1> HIDE DEF r2
<1>8. r3 \in row /\ r3.pc = "next" /\ r3.todo = rest /\ r3.done = done
  BY <1>4, <1>7
<1> HIDE DEF r3
<1>9. r3 \in Handlings
  BY <1>8 DEF Handlings
<1>10. QED
  BY <1>1, <1>4, <1>5, <1>8, <1>9

-----------------------------------------------------------------------------
(* What was written *)

\* The rows stay, and their transitions.
LEMMA BackStays ==
    ASSUME UNCHANGED written, \A i \in DOMAIN written : moves'[written[i].n] = moves[written[i].n]
    PROVE  /\ \A o, i : BackBefore(o, i)' <=> BackBefore(o, i)
           /\ \A o : Of(o)' = Of(o)
           /\ \A i \in DOMAIN written : Kind(i)' = Kind(i)
<1>1. \A o : Of(o)' = Of(o) /\ Of(o) \subseteq DOMAIN written
  BY DEF Of
<1>2. \A i \in DOMAIN written : Kind(i)' = Kind(i) /\ (IsReturn(i)' <=> IsReturn(i))
  BY DEF Kind, IsReturn
<1>3. ASSUME NEW o, NEW i PROVE BackBefore(o, i)' <=> BackBefore(o, i)
  BY <1>1, <1>2, Zenon DEF BackBefore
<1>4. QED
  BY <1>1, <1>2, <1>3

\* So do the properties, when no session changes its state and no alert disappears.
LEMMA FollowsStays ==
    ASSUME UNCHANGED written, \A i \in DOMAIN written : moves'[written[i].n] = moves[written[i].n],
           \A o \in Outings : outing'[o].state = outing[o].state,
           \A o \in Outings : raised[o] # "none" => raised'[o] # "none",
           StateFollows, ExitIsTold
    PROVE  StateFollows' /\ ExitIsTold'
<1>1. /\ \A o, i : BackBefore(o, i)' <=> BackBefore(o, i)
      /\ \A o : Of(o)' = Of(o)
      /\ \A i \in DOMAIN written : Kind(i)' = Kind(i)
  BY BackStays
<1>2. ASSUME NEW o \in Outings
      PROVE  outing'[o].state = "RETURNED" <=> BackBefore(o, Len(written) + 1)'
  BY <1>1, <1>2 DEF StateFollows
<1>3. StateFollows'
  <2>1. \A o \in Outings : (outing[o].state = "RETURNED" <=> BackBefore(o, Len(written) + 1))'
    BY <1>2
  <2>2. QED
    BY <2>1 DEF StateFollows
<1>4. ASSUME NEW o \in Outings, NEW i \in Of(o)', Kind(i)' = "EXIT", BackBefore(o, i)'
      PROVE  raised'[o] # "none"
  <2>1. i \in Of(o) /\ i \in DOMAIN written
    BY <1>1, <1>4 DEF Of
  <2>2. Kind(i) = "EXIT" /\ BackBefore(o, i)
    BY <1>1, <1>4, <2>1
  <2>3. QED
    BY <2>1, <2>2 DEF ExitIsTold
<1>5. ExitIsTold'
  BY <1>4 DEF ExitIsTold
<1>6. QED
  BY <1>3, <1>5

LEMMA ReturnStarts == ReturnInit => ReturnInv
<1> SUFFICES ASSUME ReturnInit PROVE ReturnInv
  OBVIOUS
<1>1. ReturnTypeOK
  <2>1. Unopened \in Outed /\ 0 \in 0..LastHour
    BY ReturnAssumption DEF Unopened, Outed, Off
  <2>2. moves \in Seq([kind : Transitions, at : 0..LastHour]) /\ Len(moves) <= MaxMoves
        /\ written \in Seq([n : Numbers, outing : Outings \cup {NoOuting}])
    BY ReturnAssumption DEF ReturnInit
  <2>3. QED
    BY <2>1, <2>2 DEF ReturnInit, ReturnTypeOK, Handlings
<1>2. DOMAIN written = {}
  BY DEF ReturnInit
<1>3. HandlingAgrees
  BY <1>2 DEF ReturnInit, HandlingAgrees, HandlerAgrees
<1>4. \A o, i : Of(o) = {} /\ ~BackBefore(o, i)
  BY <1>2 DEF Of, BackBefore
<1>5. \A o \in Outings : outing[o].state = "ACTIVE"
  BY DEF ReturnInit, Unopened
<1>6. StateFollows
  BY <1>4, <1>5 DEF StateFollows
<1>7. ExitIsTold
  BY <1>4 DEF ExitIsTold
<1>8. QED
  BY <1>1, <1>3, <1>6, <1>7 DEF ReturnInv

\* A handler that is left alone.
LEMMA HandlerStays ==
    ASSUME ReturnTypeOK, HandlingAgrees, NEW g \in Handlers, handling'[g] = handling[g],
           \A n \in DOMAIN moves : n \in DOMAIN moves' /\ moves'[n] = moves[n],
           \A o \in Outings : raised[o] # "none" => raised'[o] # "none",
           \/ Overlap
           \/ handling[g] = IdlePush
           \/ /\ \A k \in Handlers : handling'[k] # IdlePush => handling[k] # IdlePush
              /\ \A o \in Outings : outing'[o].state = outing[o].state
    PROVE  HandlerAgrees(g)'
<1> SUFFICES ASSUME handling[g] # IdlePush PROVE HandlerAgrees(g)'
  BY DEF HandlerAgrees
<1>1. HandlerAgrees(g)
  BY DEF HandlingAgrees
<1>2. /\ handling[g].read \in Outings \cup {NoOuting} /\ handling[g].pc \in {"next", "alert", "write"}
  BY HandlingRow
<1>3. ASSUME handling[g].pc # "next" PROVE DecisionOf(g)' = DecisionOf(g)
  <2>1. handling[g].todo # {}
    BY <1>1, <1>3 DEF HandlerAgrees
  <2>2. InHand(g) \in DOMAIN moves /\ InHand(g)' = InHand(g)
    BY <2>1, InHandKnown DEF InHand
  <2>3. moves'[InHand(g)'] = moves[InHand(g)]
    BY <2>2
  <2>4. QED
    BY <2>3 DEF DecisionOf
<1>4. handling[g].todo \cup handling[g].done \subseteq DOMAIN moves'
  BY <1>1 DEF HandlerAgrees
<1>5. handling[g].pc = "write" /\ DecisionOf(g)'.alert =>
          handling[g].read # NoOuting /\ raised'[handling[g].read] # "none"
  BY <1>1, <1>2, <1>3 DEF HandlerAgrees
<1>6. ~Overlap =>
          /\ \A k \in Handlers : handling'[k] # IdlePush => k = g
          /\ handling[g].pc # "next" /\ handling[g].read # NoOuting =>
                 handling[g].state = outing'[handling[g].read].state
  BY <1>1, <1>2 DEF HandlerAgrees
<1>7. QED
  BY <1>1, <1>4, <1>5, <1>6 DEF HandlerAgrees

\* A step outside the handlers.
LEMMA OutsideStep ==
    ASSUME ReturnInv, ReturnTypeOK', UNCHANGED <<handling, written>>,
           \A n \in DOMAIN moves : n \in DOMAIN moves' /\ moves'[n] = moves[n],
           \A o \in Outings : raised[o] # "none" => raised'[o] # "none",
           \A o \in Outings : outing'[o].state = outing[o].state
    PROVE  ReturnInv'
<1>1. ReturnTypeOK /\ HandlingAgrees /\ (~Overlap => StateFollows /\ ExitIsTold)
  BY DEF ReturnInv
<1>2. \A g \in Handlers : HandlerAgrees(g)'
  BY <1>1, HandlerStays
<1>3. \A i \in DOMAIN written : written[i].n \in DOMAIN moves' /\ moves'[written[i].n] = moves[written[i].n]
  BY <1>1 DEF HandlingAgrees
<1>4. HandlingAgrees'
  BY <1>2, <1>3 DEF HandlingAgrees
<1>5. ~Overlap => StateFollows' /\ ExitIsTold'
  BY <1>1, <1>3, FollowsStays
<1>6. QED
  BY <1>4, <1>5 DEF ReturnInv

\* A step of a handler, of which the others are left alone.
LEMMA HandlerStep ==
    ASSUME ReturnInv, NEW h \in Handlers, UNCHANGED moves,
           \A g \in Handlers \ {h} : handling'[g] = handling[g],
           Overlap \/ \A g \in Handlers \ {h} : handling[g] = IdlePush,
           \A o \in Outings : raised[o] # "none" => raised'[o] # "none",
           \A i \in DOMAIN written' : written'[i].n \in DOMAIN moves,
           handling'[h] # IdlePush =>
               /\ handling'[h].todo \cup handling'[h].done \subseteq DOMAIN moves
               /\ handling'[h].pc # "next" => handling'[h].todo # {}
               /\ handling'[h].pc = "alert" => handling'[h].read # NoOuting
               /\ handling'[h].pc = "write" /\ DecisionOf(h)'.alert =>
                      handling'[h].read # NoOuting /\ raised'[handling'[h].read] # "none"
               /\ ~Overlap /\ handling'[h].pc # "next" /\ handling'[h].read # NoOuting =>
                      handling'[h].state = outing'[handling'[h].read].state
    PROVE  HandlingAgrees'
<1>1. ReturnTypeOK /\ HandlingAgrees
  BY DEF ReturnInv
<1>2. ASSUME NEW g \in Handlers, g # h PROVE HandlerAgrees(g)'
  BY <1>1, <1>2, HandlerStays
<1>3. HandlerAgrees(h)'
  BY DEF HandlerAgrees
<1>4. QED
  BY <1>2, <1>3 DEF HandlingAgrees

\* Without overlap, a handler at work is the only one.
LEMMA HandlerAlone ==
    ASSUME ReturnInv, NEW h \in Handlers, handling[h] # IdlePush
    PROVE  Overlap \/ \A g \in Handlers \ {h} : handling[g] = IdlePush
  BY DEF ReturnInv, HandlingAgrees, HandlerAgrees

\* The session that is read, with its state.
LEMMA SessionRead ==
    ASSUME ReturnTypeOK
    PROVE  /\ ReadOuting \in Outings \cup {NoOuting} /\ StateRead \in {"ACTIVE", "RETURNED"}
           /\ ReadOuting # NoOuting => StateRead = outing[ReadOuting].state
           /\ StateRead = "RETURNED" => ReadOuting # NoOuting
<1>1. CASE ActiveOutings = {}
  BY <1>1 DEF ReadOuting, StateRead
<1>2. CASE ActiveOutings # {}
  <2>1. ReadOuting \in ActiveOutings
    BY <1>2 DEF ReadOuting
  <2>2. ReadOuting \in Outings
    BY <2>1 DEF ActiveOutings
  <2>3. StateRead = outing[ReadOuting].state
    BY <1>2 DEF StateRead
  <2>4. outing[ReadOuting] \in Outed
    BY <2>2 DEF ReturnTypeOK
  <2>5. QED
    BY <2>2, <2>3, <2>4, ReturnAssumption DEF Outed
<1>3. QED
  BY <1>1, <1>2

-----------------------------------------------------------------------------
(* The steps outside the handlers *)

LEMMA OutsideStays ==
    ASSUME ReturnInv,
           \/ PassHour
           \/ \E kind \in Transitions : RecordMove(kind)
           \/ \E o \in Outings : OpenOuting(o) \/ EndOuting(o) \/ TakeAlert(o)
    PROVE  ReturnInv'
<1>1. ReturnTypeOK /\ outing \in [Outings -> Outed] /\ hourNow \in 0..LastHour
      /\ raised \in [Outings -> {"none", "OPEN", "HANDLED"}]
  BY DEF ReturnInv, ReturnTypeOK
<1>2. PassHour => ReturnInv'
  <2> SUFFICES ASSUME PassHour PROVE ReturnInv'
    OBVIOUS
  <2>1. hourNow' \in 0..LastHour
    BY <1>1, ReturnAssumption DEF PassHour
  <2>2. UNCHANGED <<outing, unitState, moves, known, written, raised, handling>>
    BY DEF PassHour
  <2>3. ReturnTypeOK'
    BY <1>1, <2>1, <2>2 DEF ReturnTypeOK
  <2>4. QED
    BY <2>2, <2>3, OutsideStep
<1>3. ASSUME NEW kind \in Transitions, RecordMove(kind) PROVE ReturnInv'
  <2> DEFINE move == [kind |-> kind, at |-> hourNow]
             row == [kind : Transitions, at : 0..LastHour]
  <2>1. /\ Len(moves) < MaxMoves /\ moves' = Append(moves, move)
        /\ UNCHANGED <<hourNow, outing, unitState, known, written, raised, handling>>
    BY <1>3 DEF RecordMove
  <2>2. move \in row /\ moves \in Seq(row)
    BY <1>1 DEF ReturnTypeOK
  <2> HIDE DEF move, row
  <2>3. /\ moves' \in Seq(row) /\ Len(moves') = Len(moves) + 1 /\ Len(moves) \in Nat
        /\ DOMAIN moves' = 1..(Len(moves) + 1) /\ DOMAIN moves = 1..Len(moves)
        /\ \A n \in DOMAIN moves : moves'[n] = moves[n]
    BY <2>1, <2>2
  <2>4. Len(moves') <= MaxMoves /\ DOMAIN moves \subseteq DOMAIN moves'
    BY <2>1, <2>3, ReturnAssumption
  <2>5. ReturnTypeOK'
    BY <1>1, <2>1, <2>3, <2>4 DEF ReturnTypeOK, row
  <2>6. QED
    BY <2>1, <2>3, <2>4, <2>5, OutsideStep
<1>4. ASSUME NEW o \in Outings, OpenOuting(o) PROVE ReturnInv'
  <2> DEFINE n1 == [Unopened EXCEPT !.status = "ACTIVE"]
             new == [n1 EXCEPT !.since = hourNow]
  <2>1. /\ outing[o] = Unopened /\ outing' = [outing EXCEPT ![o] = new] /\ unitState' = "ACTIVE"
        /\ UNCHANGED <<hourNow, moves, known, written, raised, handling>>
    BY <1>4 DEF OpenOuting
  <2>2. n1 \in Outed /\ n1.state = "ACTIVE"
    BY ReturnAssumption DEF Unopened, Outed, Off
  <2> HIDE DEF n1
  <2>3. new \in Outed /\ new.state = "ACTIVE"
    BY <1>1, <2>2 DEF Outed
  <2> HIDE DEF new
  <2>4. Unopened.state = "ACTIVE"
    BY DEF Unopened
  <2>5. ReturnTypeOK'
    BY <1>1, <2>1, <2>3 DEF ReturnTypeOK
  <2>6. \A u \in Outings : outing'[u].state = outing[u].state
    BY <1>1, <2>1, <2>3, <2>4
  <2>7. QED
    BY <2>1, <2>5, <2>6, OutsideStep
<1>5. ASSUME NEW o \in Outings, EndOuting(o) PROVE ReturnInv'
  <2> DEFINE new == [outing[o] EXCEPT !.status = "ENDED"]
  <2>1. /\ outing' = [outing EXCEPT ![o] = new] /\ unitState' = "LOCKED"
        /\ UNCHANGED <<hourNow, moves, known, written, raised, handling>>
    BY <1>5 DEF EndOuting
  <2>2. new \in Outed /\ new.state = outing[o].state
    BY <1>1 DEF Outed
  <2> HIDE DEF new
  <2>3. ReturnTypeOK'
    BY <1>1, <2>1, <2>2 DEF ReturnTypeOK
  <2>4. \A u \in Outings : outing'[u].state = outing[u].state
    BY <1>1, <2>1, <2>2
  <2>5. QED
    BY <2>1, <2>3, <2>4, OutsideStep
<1>6. ASSUME NEW o \in Outings, TakeAlert(o) PROVE ReturnInv'
  <2>1. /\ raised' = [raised EXCEPT ![o] = "HANDLED"]
        /\ UNCHANGED <<hourNow, outing, unitState, moves, known, written, handling>>
    BY <1>6 DEF TakeAlert
  <2>2. ReturnTypeOK' /\ \A u \in Outings : raised[u] # "none" => raised'[u] # "none"
    BY <1>1, <2>1 DEF ReturnTypeOK
  <2>3. QED
    BY <2>1, <2>2, OutsideStep
<1>7. QED
  BY <1>2, <1>3, <1>4, <1>5, <1>6

-----------------------------------------------------------------------------
(* The steps of the handlers *)

\* What was written does not change.
LEMMA FollowsKept ==
    ASSUME ReturnInv, UNCHANGED <<written, moves, outing>>,
           \A o \in Outings : raised[o] # "none" => raised'[o] # "none"
    PROVE  ~Overlap => StateFollows' /\ ExitIsTold'
  BY FollowsStays DEF ReturnInv

LEMMA TakeStep ==
    ASSUME ReturnInv, NEW h \in Handlers, TakeMoves(h)
    PROVE  ReturnInv'
<1> DEFINE new == [pc |-> "next", todo |-> DOMAIN moves \ known, done |-> {},
                   read |-> NoOuting, state |-> "ACTIVE"]
<1>1. ReturnTypeOK /\ HandlingAgrees /\ handling \in [Handlers -> Handlings]
  BY DEF ReturnInv, ReturnTypeOK
<1>2. /\ handling[h] = IdlePush /\ (Overlap \/ \A g \in Handlers : handling[g] = IdlePush)
      /\ handling' = [handling EXCEPT ![h] = new]
      /\ UNCHANGED <<hourNow, outing, unitState, moves, known, written, raised>>
  BY DEF TakeMoves
<1>3. DOMAIN moves \subseteq Numbers
  BY <1>1, MovesByNumber
<1>4. /\ new \in Handlings /\ new.pc = "next"
      /\ new.todo \cup new.done \subseteq DOMAIN moves
  BY <1>3 DEF Handlings
<1> HIDE DEF new
<1>5. /\ \A g \in Handlers \ {h} : handling'[g] = handling[g]
      /\ handling'[h] = new
  BY <1>1, <1>2
<1>6. ReturnTypeOK'
  BY <1>1, <1>2, <1>4 DEF ReturnTypeOK
<1>7. \A i \in DOMAIN written' : written'[i].n \in DOMAIN moves
  BY <1>1, <1>2 DEF HandlingAgrees
<1>8. HandlingAgrees'
  BY <1>2, <1>4, <1>5, <1>7, HandlerStep
<1>9. ~Overlap => StateFollows' /\ ExitIsTold'
  BY <1>2, FollowsKept
<1>10. QED
  BY <1>6, <1>8, <1>9 DEF ReturnInv

\* A transition is left behind, without being written.
LEMMA DropStep ==
    ASSUME ReturnInv, NEW h \in Handlers, handling[h] # IdlePush, handling[h].todo # {},
           NEW acked \in BOOLEAN, Drop(h, acked),
           UNCHANGED <<hourNow, outing, unitState, moves, known, written, raised>>
    PROVE  ReturnInv'
<1>1. ReturnTypeOK /\ HandlingAgrees
  BY DEF ReturnInv
<1>2. /\ handling' \in [Handlers -> Handlings]
      /\ \A g \in Handlers \ {h} : handling'[g] = handling[g]
      /\ handling'[h].pc = "next"
      /\ handling'[h].todo \cup handling'[h].done \subseteq DOMAIN moves
  BY <1>1, Dropped
<1>3. Overlap \/ \A g \in Handlers \ {h} : handling[g] = IdlePush
  BY HandlerAlone
<1>4. \A i \in DOMAIN written' : written'[i].n \in DOMAIN moves
  BY <1>1 DEF HandlingAgrees
<1>5. HandlingAgrees'
  BY <1>2, <1>3, <1>4, HandlerStep
<1>6. ReturnTypeOK'
  BY <1>1, <1>2 DEF ReturnTypeOK
<1>7. ~Overlap => StateFollows' /\ ExitIsTold'
  BY FollowsKept
<1>8. QED
  BY <1>5, <1>6, <1>7 DEF ReturnInv

LEMMA ReadStep ==
    ASSUME ReturnInv, NEW h \in Handlers, ReadSession(h)
    PROVE  ReturnInv'
<1> DEFINE row == [pc : {"next", "alert", "write"}, todo : SUBSET Numbers, done : SUBSET Numbers,
                   read : Outings \cup {NoOuting}, state : {"ACTIVE", "RETURNED"}]
           n1 == [handling[h] EXCEPT !.read = ReadOuting]
           n2 == [n1 EXCEPT !.state = StateRead]
           m == moves[InHand(h)]
           told == evaluateGeofenceTransition(m.kind, m.at, Timetable, n2.state).alert
           pc == IF told THEN "alert" ELSE "write"
           new == [n2 EXCEPT !.pc = pc]
<1>1. ReturnTypeOK /\ HandlingAgrees
  BY DEF ReturnInv
<1>2. /\ handling[h].pc = "next" /\ handling[h].todo # {}
      /\ handling' = [handling EXCEPT ![h] = new]
      /\ UNCHANGED <<hourNow, outing, unitState, moves, known, written, raised>>
  BY DEF ReadSession
<1>3. handling[h] # IdlePush
  BY <1>2 DEF IdlePush
<1>4. handling[h] \in row /\ handling \in [Handlers -> Handlings]
  BY <1>1, <1>3, HandlingRow
<1>5. /\ ReadOuting \in Outings \cup {NoOuting} /\ StateRead \in {"ACTIVE", "RETURNED"}
      /\ ReadOuting # NoOuting => StateRead = outing[ReadOuting].state
      /\ StateRead = "RETURNED" => ReadOuting # NoOuting
  BY <1>1, SessionRead
<1>6. n1 \in row /\ n1.read = ReadOuting /\ n1.todo = handling[h].todo /\ n1.done = handling[h].done
  BY <1>4, <1>5
<1> HIDE DEF n1
<1>7. /\ n2 \in row /\ n2.read = ReadOuting /\ n2.state = StateRead
      /\ n2.todo = handling[h].todo /\ n2.done = handling[h].done
  BY <1>5, <1>6
<1> HIDE DEF n2
<1>8. told <=> (m.kind = "EXIT" /\ StateRead = "RETURNED")
  BY <1>5, <1>7, Decided
<1> HIDE DEF m, told
<1>9. pc \in {"alert", "write"} /\ (pc = "alert" <=> told)
  OBVIOUS
<1> HIDE DEF pc
<1>10. /\ new \in row /\ new.pc = pc /\ new.read = ReadOuting /\ new.state = StateRead
       /\ new.todo = handling[h].todo /\ new.done = handling[h].done
  BY <1>7, <1>9
<1> HIDE DEF new
<1>11. /\ \A g \in Handlers \ {h} : handling'[g] = handling[g]
       /\ handling'[h] = new
  BY <1>2, <1>4
<1>12. ReturnTypeOK'
  <2>1. new \in Handlings
    BY <1>10 DEF Handlings
  <2>2. QED
    BY <1>1, <1>2, <1>4, <2>1 DEF ReturnTypeOK
<1>13. DecisionOf(h)'.alert <=> told
  <2>1. InHand(h)' = InHand(h) /\ moves' = moves /\ handling'[h].state = n2.state
    BY <1>2, <1>7, <1>10, <1>11 DEF InHand
  <2>2. QED
    BY <2>1 DEF DecisionOf, told, m
<1>14. pc = "write" => ~DecisionOf(h)'.alert
  BY <1>9, <1>13
<1>15. pc = "alert" => ReadOuting # NoOuting
  BY <1>5, <1>8, <1>9
<1>16. handling[h].todo \cup handling[h].done \subseteq DOMAIN moves
  BY <1>1, <1>3 DEF HandlingAgrees, HandlerAgrees
<1>17. Overlap \/ \A g \in Handlers \ {h} : handling[g] = IdlePush
  BY <1>3, HandlerAlone
<1>18. \A i \in DOMAIN written' : written'[i].n \in DOMAIN moves
  BY <1>1, <1>2 DEF HandlingAgrees
<1>19. HandlingAgrees'
  BY <1>2, <1>5, <1>10, <1>11, <1>14, <1>15, <1>16, <1>17, <1>18, HandlerStep
<1>20. ~Overlap => StateFollows' /\ ExitIsTold'
  BY <1>2, FollowsKept
<1>21. QED
  BY <1>12, <1>19, <1>20 DEF ReturnInv

LEMMA RaiseStep ==
    ASSUME ReturnInv, NEW h \in Handlers, RaiseAfterReturn(h)
    PROVE  ReturnInv'
<1> DEFINE row == [pc : {"next", "alert", "write"}, todo : SUBSET Numbers, done : SUBSET Numbers,
                   read : Outings \cup {NoOuting}, state : {"ACTIVE", "RETURNED"}]
           new == [handling[h] EXCEPT !.pc = "write"]
<1>1. ReturnTypeOK /\ HandlingAgrees /\ raised \in [Outings -> {"none", "OPEN", "HANDLED"}]
  BY DEF ReturnInv, ReturnTypeOK
<1>2. /\ handling[h].pc = "alert" /\ handling' = [handling EXCEPT ![h] = new]
      /\ raised' = [raised EXCEPT ![handling[h].read] = "OPEN"]
      /\ UNCHANGED <<hourNow, outing, unitState, moves, known, written>>
  BY DEF RaiseAfterReturn
<1>3. handling[h] # IdlePush
  BY <1>2 DEF IdlePush
<1>4. handling[h] \in row /\ handling \in [Handlers -> Handlings]
  BY <1>1, <1>3, HandlingRow
<1>5. /\ handling[h].todo \cup handling[h].done \subseteq DOMAIN moves /\ handling[h].todo # {}
      /\ handling[h].read # NoOuting
      /\ ~Overlap => handling[h].state = outing[handling[h].read].state
  BY <1>1, <1>2, <1>3 DEF HandlingAgrees, HandlerAgrees
<1>6. /\ new \in row /\ new.pc = "write" /\ new.read = handling[h].read
      /\ new.todo = handling[h].todo /\ new.done = handling[h].done /\ new.state = handling[h].state
  BY <1>4
<1> HIDE DEF new
<1>7. /\ \A g \in Handlers \ {h} : handling'[g] = handling[g]
      /\ handling'[h] = new
  BY <1>2, <1>4
<1>8. /\ raised' \in [Outings -> {"none", "OPEN", "HANDLED"}]
      /\ \A o \in Outings : raised[o] # "none" => raised'[o] # "none"
      /\ raised'[handling[h].read] = "OPEN"
  BY <1>1, <1>2, <1>4, <1>5
<1>9. ReturnTypeOK'
  <2>1. new \in Handlings
    BY <1>6 DEF Handlings
  <2>2. QED
    BY <1>1, <1>2, <1>4, <1>8, <2>1 DEF ReturnTypeOK
<1>10. Overlap \/ \A g \in Handlers \ {h} : handling[g] = IdlePush
  BY <1>3, HandlerAlone
<1>11. \A i \in DOMAIN written' : written'[i].n \in DOMAIN moves
  BY <1>1, <1>2 DEF HandlingAgrees
<1>12. HandlingAgrees'
  BY <1>2, <1>5, <1>6, <1>7, <1>8, <1>10, <1>11, HandlerStep
<1>13. ~Overlap => StateFollows' /\ ExitIsTold'
  BY <1>2, <1>8, FollowsKept
<1>14. QED
  BY <1>9, <1>12, <1>13 DEF ReturnInv

LEMMA LeaveStep ==
    ASSUME ReturnInv, NEW h \in Handlers, AnswerPush(h) \/ StopHandler(h)
    PROVE  ReturnInv'
<1>1. ReturnTypeOK /\ HandlingAgrees /\ handling \in [Handlers -> Handlings]
  BY DEF ReturnInv, ReturnTypeOK
<1>2. /\ handling[h] # IdlePush /\ handling' = [handling EXCEPT ![h] = IdlePush]
      /\ UNCHANGED <<hourNow, outing, unitState, moves, written, raised>>
  BY DEF AnswerPush, StopHandler, IdlePush
<1>3. handling[h].done \subseteq DOMAIN moves
  BY <1>1, <1>2 DEF HandlingAgrees, HandlerAgrees
<1>4. known' \subseteq DOMAIN moves
  BY <1>1, <1>3 DEF AnswerPush, StopHandler, ReturnTypeOK
<1>5. ReturnTypeOK'
  BY <1>1, <1>2, <1>4 DEF ReturnTypeOK, Handlings
<1>6. /\ \A g \in Handlers \ {h} : handling'[g] = handling[g]
      /\ handling'[h] = IdlePush
  BY <1>1, <1>2
<1>7. Overlap \/ \A g \in Handlers \ {h} : handling[g] = IdlePush
  BY <1>2, HandlerAlone
<1>8. \A i \in DOMAIN written' : written'[i].n \in DOMAIN moves
  BY <1>1, <1>2 DEF HandlingAgrees
<1>9. HandlingAgrees'
  BY <1>2, <1>6, <1>7, <1>8, HandlerStep
<1>10. ~Overlap => StateFollows' /\ ExitIsTold'
  BY <1>2, FollowsKept
<1>11. QED
  BY <1>5, <1>9, <1>10 DEF ReturnInv

-----------------------------------------------------------------------------
(* The transition is written *)

\* A row more, for o: the others keep what was written for them, and o is back or
\* not according to the last.
LEMMA RowWritten ==
    ASSUME ReturnTypeOK, NEW o \in Outings \cup {NoOuting}, NEW n \in Numbers, UNCHANGED moves,
           written' = Append(written, [n |-> n, outing |-> o]),
           NEW last \in Nat, last = Len(written) + 1
    PROVE  /\ written' \in Seq([n : Numbers, outing : Outings \cup {NoOuting}])
           /\ Len(written') = last /\ DOMAIN written' = 1..last /\ DOMAIN written = 1..Len(written)
           /\ Len(written) \in Nat
           /\ \A i \in DOMAIN written : written'[i] = written[i]
           /\ written'[last] = [n |-> n, outing |-> o]
           /\ Kind(last)' = moves[n].kind
           /\ IsReturn(last)' <=> (moves[n].kind = "ENTER" /\ isAfterReturnTime(Timetable, moves[n].at))
           /\ \A i \in DOMAIN written : Kind(i)' = Kind(i) /\ (IsReturn(i)' <=> IsReturn(i))
           /\ \A x : Of(x)' = IF x = o THEN Of(x) \cup {last} ELSE Of(x)
<1> DEFINE row == [n : Numbers, outing : Outings \cup {NoOuting}]
           new == [n |-> n, outing |-> o]
<1>1. written \in Seq(row) /\ new \in row /\ new.n = n /\ new.outing = o
  BY DEF ReturnTypeOK
<1>2. written' = Append(written, new)
  OBVIOUS
<1> HIDE DEF row, new
<1>3. /\ written' \in Seq(row) /\ Len(written') = last /\ DOMAIN written' = 1..last
      /\ DOMAIN written = 1..Len(written) /\ Len(written) \in Nat
      /\ \A i \in DOMAIN written : written'[i] = written[i]
      /\ written'[last] = new
  BY <1>1, <1>2
<1>4. Kind(last)' = moves[n].kind
  BY <1>1, <1>3 DEF Kind
<1>5. IsReturn(last)' <=> (moves[n].kind = "ENTER" /\ isAfterReturnTime(Timetable, moves[n].at))
  <2>1. written'[last].n = n
    BY <1>1, <1>3
  <2>2. IsReturn(last)' <=> (Kind(last)' = "ENTER" /\ isAfterReturnTime(Timetable, moves'[written'[last].n].at))
    BY DEF IsReturn
  <2>3. QED
    BY <1>4, <2>1, <2>2
<1>6. \A i \in DOMAIN written : Kind(i)' = Kind(i) /\ (IsReturn(i)' <=> IsReturn(i))
  BY <1>3 DEF Kind, IsReturn
<1>7. \A x : Of(x)' = IF x = o THEN Of(x) \cup {last} ELSE Of(x)
  BY <1>1, <1>3 DEF Of
<1>8. QED
  BY <1>3, <1>4, <1>5, <1>6, <1>7 DEF row, new

\* Back or not, after one row more.
LEMMA BackAfter ==
    ASSUME ReturnTypeOK, NEW o \in Outings \cup {NoOuting}, NEW n \in Numbers, UNCHANGED moves,
           written' = Append(written, [n |-> n, outing |-> o]),
           moves[n].kind \in Transitions,
           NEW last \in Nat, last = Len(written) + 1
    PROVE  LET back == moves[n].kind = "ENTER" /\ isAfterReturnTime(Timetable, moves[n].at)
           IN  /\ \A x, i : i \in 1..last => (BackBefore(x, i)' <=> BackBefore(x, i))
               /\ \A x : x # o => (BackBefore(x, last + 1)' <=> BackBefore(x, last))
               /\ back => BackBefore(o, last + 1)'
               /\ moves[n].kind = "EXIT" => ~BackBefore(o, last + 1)'
               /\ ~back /\ moves[n].kind # "EXIT" => (BackBefore(o, last + 1)' <=> BackBefore(o, last))
<1> DEFINE back == moves[n].kind = "ENTER" /\ isAfterReturnTime(Timetable, moves[n].at)
<1>1. /\ DOMAIN written = 1..Len(written) /\ Len(written) \in Nat
      /\ Kind(last)' = moves[n].kind /\ (IsReturn(last)' <=> back)
      /\ \A i \in DOMAIN written : Kind(i)' = Kind(i) /\ (IsReturn(i)' <=> IsReturn(i))
      /\ \A x : Of(x)' = IF x = o THEN Of(x) \cup {last} ELSE Of(x)
  BY RowWritten
<1>2. \A x : Of(x) \subseteq 1..Len(written)
  BY <1>1 DEF Of
<1>3. back => moves[n].kind = "ENTER"
  OBVIOUS
<1>4. \A j : IsReturn(j) => Kind(j) = "ENTER"
  BY DEF IsReturn
<1> HIDE DEF back
<1> DEFINE Ret(j) == IsReturn(j)
           NewRet(j) == IsReturn(j)'
           NewKind(j) == Kind(j)'
           NewOf(x) == Of(x)'
<1>5. /\ \A x, i : BackBefore(x, i) <=>
             \E j \in Of(x) : j < i /\ Ret(j) /\ \A k \in Of(x) : k \in j..(i - 1) => Kind(k) = "ENTER"
      /\ \A x, i : BackBefore(x, i)' <=>
             \E j \in NewOf(x) : j < i /\ NewRet(j) /\ \A k \in NewOf(x) : k \in j..(i - 1) => NewKind(k) = "ENTER"
  BY Zenon DEF BackBefore
<1>6. /\ \A i \in 1..Len(written) : NewKind(i) = Kind(i) /\ (NewRet(i) <=> Ret(i))
      /\ NewKind(last) = moves[n].kind /\ (NewRet(last) <=> back)
      /\ \A x : NewOf(x) = IF x = o THEN Of(x) \cup {last} ELSE Of(x)
  BY <1>1
<1> HIDE DEF Ret, NewRet, NewKind, NewOf
<1>7. ASSUME NEW x, NEW i \in 1..last PROVE BackBefore(x, i)' <=> BackBefore(x, i)
  <2>1. ASSUME NEW j \in Of(x), j < i, Ret(j), \A k \in Of(x) : k \in j..(i - 1) => Kind(k) = "ENTER"
        PROVE  BackBefore(x, i)'
    <3>1. j \in NewOf(x) /\ NewRet(j) /\ j \in 1..Len(written)
      BY <1>2, <1>6, <2>1
    <3>2. ASSUME NEW k \in NewOf(x), k \in j..(i - 1) PROVE NewKind(k) = "ENTER"
      <4>1. k \in Of(x) /\ k \in 1..Len(written)
        BY <1>1, <1>2, <1>6, <3>1, <3>2
      <4>2. QED
        BY <1>6, <2>1, <3>2, <4>1
    <3>3. QED
      BY <1>5, <2>1, <3>1, <3>2
  <2>2. ASSUME NEW j \in NewOf(x), j < i, NewRet(j),
               \A k \in NewOf(x) : k \in j..(i - 1) => NewKind(k) = "ENTER"
        PROVE  BackBefore(x, i)
    <3>1. j \in Of(x) /\ j \in 1..Len(written)
      BY <1>1, <1>2, <1>6, <2>2
    <3>2. Ret(j)
      BY <1>6, <2>2, <3>1
    <3>3. ASSUME NEW k \in Of(x), k \in j..(i - 1) PROVE Kind(k) = "ENTER"
      <4>1. k \in NewOf(x) /\ k \in 1..Len(written)
        BY <1>2, <1>6, <3>3
      <4>2. QED
        BY <1>6, <2>2, <3>3, <4>1
    <3>4. QED
      BY <1>5, <2>2, <3>1, <3>2, <3>3
  <2>3. QED
    BY <1>5, <2>1, <2>2, Zenon
<1>8. ASSUME NEW x, x # o PROVE BackBefore(x, last + 1)' <=> BackBefore(x, last)
  <2>1. NewOf(x) = Of(x) /\ Of(x) \subseteq 1..Len(written)
    BY <1>2, <1>6, <1>8
  <2>2. \A j \in Of(x) : /\ j < last + 1 /\ j < last /\ (NewRet(j) <=> Ret(j)) /\ NewKind(j) = Kind(j)
                         /\ \A k \in Of(x) : k \in j..(last + 1 - 1) <=> k \in j..(last - 1)
    BY <1>1, <1>6, <2>1
  <2>3. QED
    BY <1>5, <2>1, <2>2
<1>9. ASSUME back PROVE BackBefore(o, last + 1)'
  <2>1. last \in NewOf(o) /\ last < last + 1 /\ NewRet(last) /\ NewKind(last) = "ENTER"
    BY <1>1, <1>3, <1>6, <1>9
  <2>2. \A k \in NewOf(o) : k \in last..(last + 1 - 1) => k = last
    BY <1>1
  <2>3. QED
    BY <1>5, <2>1, <2>2
<1>10. ASSUME moves[n].kind = "EXIT" PROVE ~BackBefore(o, last + 1)'
  <2> SUFFICES ASSUME NEW j \in NewOf(o), j < last + 1, NewRet(j),
                      \A k \in NewOf(o) : k \in j..(last + 1 - 1) => NewKind(k) = "ENTER"
               PROVE  FALSE
    BY <1>5
  <2>1. last \in NewOf(o) /\ NewKind(last) = "EXIT"
    BY <1>6, <1>10
  <2>2. j \in 1..last
    BY <1>1, <1>2, <1>6
  <2>3. last \in j..(last + 1 - 1)
    BY <1>1, <2>2
  <2>4. QED
    BY <2>1, <2>3
<1>11. ASSUME ~back, moves[n].kind # "EXIT" PROVE BackBefore(o, last + 1)' <=> BackBefore(o, last)
  <2>1. NewKind(last) = "ENTER" /\ ~NewRet(last) /\ NewOf(o) = Of(o) \cup {last}
    BY <1>6, <1>11 DEF Transitions
  <2>2. ASSUME NEW j \in Of(o), j < last, Ret(j), \A k \in Of(o) : k \in j..(last - 1) => Kind(k) = "ENTER"
        PROVE  BackBefore(o, last + 1)'
    <3>1. j \in NewOf(o) /\ NewRet(j) /\ j \in 1..Len(written) /\ j < last + 1
      BY <1>1, <1>2, <1>6, <2>1, <2>2
    <3>2. ASSUME NEW k \in NewOf(o), k \in j..(last + 1 - 1) PROVE NewKind(k) = "ENTER"
      <4>1. CASE k = last
        BY <2>1, <4>1
      <4>2. CASE k # last
        <5>1. k \in Of(o) /\ k \in 1..Len(written)
          BY <1>2, <2>1, <4>2
        <5>2. k \in j..(last - 1)
          BY <1>1, <3>1, <3>2, <5>1
        <5>3. QED
          BY <1>6, <2>2, <5>1, <5>2
      <4>3. QED
        BY <4>1, <4>2
    <3>3. QED
      BY <1>5, <3>1, <3>2
  <2>3. ASSUME NEW j \in NewOf(o), j < last + 1, NewRet(j),
               \A k \in NewOf(o) : k \in j..(last + 1 - 1) => NewKind(k) = "ENTER"
        PROVE  BackBefore(o, last)
    <3>1. j \in Of(o) /\ j \in 1..Len(written)
      BY <1>2, <2>1, <2>3
    <3>2. Ret(j) /\ j < last
      BY <1>1, <1>6, <2>3, <3>1
    <3>3. ASSUME NEW k \in Of(o), k \in j..(last - 1) PROVE Kind(k) = "ENTER"
      <4>1. k \in NewOf(o) /\ k \in 1..Len(written)
        BY <1>2, <1>6, <3>3
      <4>2. k \in j..(last + 1 - 1)
        BY <1>1, <3>1, <3>3, <4>1
      <4>3. QED
        BY <1>6, <2>3, <4>1, <4>2
    <3>4. QED
      BY <1>5, <3>1, <3>2, <3>3
  <2>4. BackBefore(o, last) => BackBefore(o, last + 1)'
    BY <1>5, <2>2
  <2>5. BackBefore(o, last + 1)' => BackBefore(o, last)
    BY <1>5, <2>3
  <2>6. QED
    BY <2>4, <2>5, Zenon
<1>12. QED
  BY <1>7, <1>8, <1>9, <1>10, <1>11 DEF back

LEMMA WriteStep ==
    ASSUME ReturnInv, NEW h \in Handlers, WriteMove(h)
    PROVE  ReturnInv'
<1>1. /\ ReturnTypeOK /\ HandlingAgrees /\ (~Overlap => StateFollows /\ ExitIsTold)
      /\ outing \in [Outings -> Outed]
  BY DEF ReturnInv, ReturnTypeOK
<1>2. handling[h].pc = "write" /\ handling[h] # IdlePush
  BY DEF WriteMove, IdlePush
<1>3. handling[h].todo # {} /\ handling[h].read \in Outings \cup {NoOuting}
  BY <1>1, <1>2, HandlingRow DEF HandlingAgrees, HandlerAgrees
<1> PICK o \in Outings \cup {NoOuting} : o = handling[h].read
  BY <1>3
<1> PICK n \in Numbers : n = InHand(h) /\ n \in DOMAIN moves
  BY <1>1, <1>2, <1>3, InHandKnown
<1> DEFINE back == moves[n].kind = "ENTER" /\ isAfterReturnTime(Timetable, moves[n].at)
           next == NextState(h)
           hour == IF DecisionOf(h).markReturned THEN moves[n].at ELSE outing[o].returnedAt
           s1 == [outing[o] EXCEPT !.state = next]
           s2 == [s1 EXCEPT !.returnedAt = hour]
<1>4. /\ Drop(h, TRUE)
      /\ written' = Append(written, [n |-> n, outing |-> o])
      /\ outing' = IF o = NoOuting THEN outing ELSE [outing EXCEPT ![o] = s2]
      /\ unitState' = IF o = NoOuting THEN unitState ELSE next
      /\ UNCHANGED <<hourNow, moves, known, raised>>
  BY DEF WriteMove
<1>5. /\ handling[h].state \in {"ACTIVE", "RETURNED"}
      /\ DecisionOf(h).alert => o # NoOuting /\ raised[o] # "none"
      /\ ~Overlap /\ o # NoOuting => handling[h].state = outing[o].state
  BY <1>1, <1>2, HandlingRow DEF HandlingAgrees, HandlerAgrees
<1>6. moves[n] \in [kind : Transitions, at : 0..LastHour]
  BY <1>1, MovesByNumber
<1>7. /\ next \in {"ACTIVE", "RETURNED"}
      /\ DecisionOf(h).alert <=> (moves[n].kind = "EXIT" /\ handling[h].state = "RETURNED")
      /\ back => next = "RETURNED"
      /\ moves[n].kind = "EXIT" => next = "ACTIVE"
      /\ ~back /\ moves[n].kind # "EXIT" => next = handling[h].state
  BY <1>5, Decided DEF NextState, DecisionOf
<1> HIDE DEF next
<1>8. /\ handling' \in [Handlers -> Handlings]
      /\ \A g \in Handlers \ {h} : handling'[g] = handling[g]
      /\ handling'[h].pc = "next"
      /\ handling'[h].todo \cup handling'[h].done \subseteq DOMAIN moves
  BY <1>1, <1>2, <1>3, <1>4, Dropped
<1> HIDE DEF back
<1>9. PICK last \in Nat : last = Len(written) + 1
  BY <1>1, MovesByNumber
<1>10. /\ written' \in Seq([n : Numbers, outing : Outings \cup {NoOuting}])
       /\ Len(written') = last /\ DOMAIN written' = 1..last /\ DOMAIN written = 1..Len(written)
       /\ Len(written) \in Nat
       /\ \A i \in DOMAIN written : written'[i] = written[i]
       /\ written'[last] = [n |-> n, outing |-> o]
       /\ Kind(last)' = moves[n].kind
       /\ IsReturn(last)' <=> (moves[n].kind = "ENTER" /\ isAfterReturnTime(Timetable, moves[n].at))
       /\ \A i \in DOMAIN written : Kind(i)' = Kind(i) /\ (IsReturn(i)' <=> IsReturn(i))
       /\ \A x : Of(x)' = IF x = o THEN Of(x) \cup {last} ELSE Of(x)
  <2>1. written' = Append(written, [n |-> n, outing |-> o]) /\ UNCHANGED moves /\ ReturnTypeOK
    BY <1>1, <1>4
  <2>0. o \in Outings \cup {NoOuting} /\ n \in Numbers /\ last \in Nat /\ last = Len(written) + 1
    BY <1>9
  <2>2. written' \in Seq([n : Numbers, outing : Outings \cup {NoOuting}])
    BY <2>0, <2>1, RowWritten
  <2>3. Len(written') = last /\ DOMAIN written' = 1..last /\ DOMAIN written = 1..Len(written)
       /\ Len(written) \in Nat
       /\ \A i \in DOMAIN written : written'[i] = written[i]
    BY <2>0, <2>1, RowWritten
  <2>4. written'[last] = [n |-> n, outing |-> o]
    BY <2>0, <2>1, RowWritten
  <2>5. Kind(last)' = moves[n].kind
       /\ (IsReturn(last)' <=> (moves[n].kind = "ENTER" /\ isAfterReturnTime(Timetable, moves[n].at)))
    BY <2>0, <2>1, RowWritten
  <2>6. \A i \in DOMAIN written : Kind(i)' = Kind(i) /\ (IsReturn(i)' <=> IsReturn(i))
    BY <2>0, <2>1, RowWritten
  <2>7. \A x : Of(x)' = IF x = o THEN Of(x) \cup {last} ELSE Of(x)
    BY <2>0, <2>1, RowWritten
  <2>8. QED
    BY <2>2, <2>3, <2>4, <2>5, <2>6, <2>7
<1>11. /\ \A x, i : i \in 1..last => (BackBefore(x, i)' <=> BackBefore(x, i))
       /\ \A x : x # o => (BackBefore(x, last + 1)' <=> BackBefore(x, last))
       /\ back => BackBefore(o, last + 1)'
       /\ moves[n].kind = "EXIT" => ~BackBefore(o, last + 1)'
       /\ ~back /\ moves[n].kind # "EXIT" => (BackBefore(o, last + 1)' <=> BackBefore(o, last))
  BY <1>1, <1>4, <1>6, <1>9, BackAfter DEF back
<1>12. ASSUME o # NoOuting
       PROVE  /\ outing' \in [Outings -> Outed] /\ outing'[o].state = next
              /\ \A x \in Outings \ {o} : outing'[x] = outing[x]
  <2>1. o \in Outings /\ outing[o] \in Outed
    BY <1>1, <1>12
  <2>2. hour \in Off..LastHour
    <3>1. moves[n].at \in 0..LastHour /\ outing[o].returnedAt \in Off..LastHour
      BY <1>6, <2>1 DEF Outed
    <3>2. moves[n].at \in Off..LastHour
      BY <3>1, ReturnAssumption DEF Off
    <3>3. QED
      BY <3>1, <3>2
  <2> HIDE DEF hour
  <2>3. s1 \in Outed /\ s1.state = next
    BY <1>7, <2>1 DEF Outed
  <2> HIDE DEF s1
  <2>4. s2 \in Outed /\ s2.state = next
    BY <2>2, <2>3 DEF Outed
  <2> HIDE DEF s2
  <2>5. outing' = [outing EXCEPT ![o] = s2]
    BY <1>4, <1>12
  <2>6. QED
    BY <1>1, <2>1, <2>4, <2>5
<1>13. ReturnTypeOK'
  <2>1. outing' \in [Outings -> Outed]
    BY <1>1, <1>4, <1>12
  <2>2. unitState' \in {"LOCKED", "ACTIVE", "RETURNED"}
    BY <1>1, <1>4, <1>7 DEF ReturnTypeOK
  <2>3. QED
    BY <1>1, <1>4, <1>8, <1>10, <2>1, <2>2 DEF ReturnTypeOK
<1>14. \A i \in DOMAIN written' : written'[i].n \in DOMAIN moves
  <2>1. \A i \in DOMAIN written : written[i].n \in DOMAIN moves
    BY <1>1 DEF HandlingAgrees
  <2>2. \A i \in DOMAIN written' : i \in DOMAIN written \/ i = last
    BY <1>9, <1>10
  <2>3. QED
    BY <1>10, <2>1, <2>2
<1>15. Overlap \/ \A g \in Handlers \ {h} : handling[g] = IdlePush
  BY <1>2, HandlerAlone
<1>16. HandlingAgrees'
  BY <1>4, <1>8, <1>14, <1>15, HandlerStep
<1>17. ASSUME ~Overlap PROVE StateFollows'
  <2>1. \A x \in Outings : outing[x].state = "RETURNED" <=> BackBefore(x, last)
    BY <1>1, <1>9, <1>17 DEF StateFollows
  <2>2. ASSUME NEW x \in Outings
        PROVE  outing'[x].state = "RETURNED" <=> BackBefore(x, last + 1)'
    <3>1. CASE x # o
      <4>1. outing'[x] = outing[x]
        BY <1>4, <1>12, <3>1
      <4>2. outing[x].state = "RETURNED" <=> BackBefore(x, last + 1)'
        BY <1>11, <2>1, <3>1, Zenon
      <4>3. QED
        BY <4>1, <4>2
    <3>2. CASE x = o
      <4>1. o # NoOuting /\ o \in Outings
        BY <3>2, ReturnAssumption
      <4>2. outing'[o].state = next /\ handling[h].state = outing[o].state
        BY <1>5, <1>12, <1>17, <4>1
      <4>3. back => BackBefore(o, last + 1)' /\ next = "RETURNED"
        BY <1>7, <1>11 DEF back
      <4>4. moves[n].kind = "EXIT" => ~BackBefore(o, last + 1)' /\ next = "ACTIVE"
        BY <1>7, <1>11
      <4>5. ~back /\ moves[n].kind # "EXIT" =>
                (BackBefore(o, last + 1)' <=> BackBefore(o, last)) /\ next = outing[o].state
        BY <1>7, <1>11, <4>2 DEF back
      <4>6. outing[o].state = "RETURNED" <=> BackBefore(o, last)
        BY <2>1, <4>1
      <4>7. next = "RETURNED" <=> BackBefore(o, last + 1)'
        BY <4>3, <4>4, <4>5, <4>6
      <4>8. BackBefore(o, last + 1)' <=> BackBefore(x, last + 1)'
        BY <3>2
      <4>9. QED
        BY <3>2, <4>2, <4>7, <4>8
    <3>3. QED
      BY <3>1, <3>2
  <2>3. Len(written') + 1 = last + 1
    BY <1>10
  <2>4. \A x \in Outings : (outing[x].state = "RETURNED" <=> BackBefore(x, Len(written) + 1))'
    <3>1. ASSUME NEW x \in Outings
          PROVE  BackBefore(x, Len(written) + 1)' <=> BackBefore(x, last + 1)'
      BY <2>3 DEF BackBefore
    <3>2. QED
      BY <2>2, <3>1
  <2>5. QED
    BY <2>4 DEF StateFollows
<1>18. ASSUME ~Overlap PROVE ExitIsTold'
  <2> SUFFICES ASSUME NEW x \in Outings, NEW i \in Of(x)', Kind(i)' = "EXIT", BackBefore(x, i)'
               PROVE  raised'[x] # "none"
    BY DEF ExitIsTold
  <2>1. i \in 1..last /\ raised' = raised
    BY <1>4, <1>10 DEF Of
  <2>2. BackBefore(x, i)
    BY <1>11, <2>1
  <2>3. CASE i \in DOMAIN written
    <3>1. i # last
      BY <1>9, <1>10, <2>3
    <3>2. i \in Of(x) /\ Kind(i) = "EXIT"
      BY <1>10, <2>3, <3>1
    <3>3. QED
      BY <1>1, <1>18, <2>1, <2>2, <3>2 DEF ExitIsTold
  <2>4. CASE i \notin DOMAIN written
    <3>1. i = last
      BY <1>9, <1>10, <2>1, <2>4
    <3>2. x = o
      BY <1>10, <2>4, <3>1 DEF Of
    <3>3. moves[n].kind = "EXIT"
      BY <1>10, <3>1
    <3>4. o # NoOuting
      BY <3>2, ReturnAssumption
    <3>5. BackBefore(o, Len(written) + 1)
      BY <1>9, <2>2, <3>1, <3>2
    <3>6. outing[o].state = "RETURNED"
      BY <1>1, <1>18, <3>2, <3>5 DEF StateFollows
    <3>7. DecisionOf(h).alert
      BY <1>5, <1>7, <1>18, <3>3, <3>4, <3>6
    <3>8. QED
      BY <1>5, <2>1, <3>2, <3>4, <3>7
  <2>5. QED
    BY <2>3, <2>4
<1>19. QED
  BY <1>13, <1>16, <1>17, <1>18 DEF ReturnInv

LEMMA PassOverStep ==
    ASSUME ReturnInv, NEW h \in Handlers, SkipStored(h) \/ RejectMove(h)
    PROVE  ReturnInv'
<1>1. ReturnTypeOK /\ HandlingAgrees
  BY DEF ReturnInv
<1>2. /\ handling[h].pc \in {"next", "alert", "write"}
      /\ handling[h].pc = "next" => handling[h].todo # {}
      /\ Drop(h, TRUE) \/ Drop(h, FALSE)
      /\ UNCHANGED <<hourNow, outing, unitState, moves, known, written, raised>>
  BY DEF SkipStored, RejectMove
<1>3. handling[h] # IdlePush
  BY <1>2 DEF IdlePush
<1>4. handling[h].todo # {}
  BY <1>1, <1>2, <1>3 DEF HandlingAgrees, HandlerAgrees
<1>5. QED
  BY <1>2, <1>3, <1>4, DropStep

LEMMA ReturnStays ==
    ASSUME ReturnInv, [ReturnNext]_returnVars
    PROVE  ReturnInv'
<1>1. CASE \/ PassHour
           \/ \E kind \in Transitions : RecordMove(kind)
           \/ \E o \in Outings : OpenOuting(o) \/ EndOuting(o) \/ TakeAlert(o)
  BY <1>1, OutsideStays
<1>2. ASSUME NEW h \in Handlers,
             \/ TakeMoves(h) \/ SkipStored(h) \/ ReadSession(h) \/ RaiseAfterReturn(h)
             \/ WriteMove(h) \/ RejectMove(h) \/ AnswerPush(h) \/ StopHandler(h)
      PROVE  ReturnInv'
  BY <1>2, TakeStep, PassOverStep, ReadStep, RaiseStep, WriteStep, LeaveStep, Zenon
<1>3. CASE UNCHANGED returnVars
  <2>1. /\ UNCHANGED <<hourNow, outing, unitState, moves, known, written, raised>>
        /\ UNCHANGED handling
    BY <1>3 DEF returnVars
  <2>2. ReturnTypeOK'
    BY <2>1 DEF ReturnInv, ReturnTypeOK
  <2>3. QED
    BY <2>1, <2>2, OutsideStep
<1>4. QED
  BY <1>1, <1>2, <1>3, Zenon DEF ReturnNext

-----------------------------------------------------------------------------
(* The page of a depot *)

\* What a page becomes.
LEMMA TabForm ==
    ASSUME NEW t \in Tabs, tab \in [Tabs -> TabStates], tab[t].pc # "shut"
    PROVE  /\ tab[t].form \in Sites /\ tab[t].base \in Sites
           /\ tab[t].pc \in {"form", "sent", "read", "row", "fence"}
           /\ [pc |-> "form", form |-> tab[t].form, base |-> tab[t].base] \in TabStates
           /\ \A body \in Bodies :
                  /\ [pc |-> "sent", form |-> tab[t].form, base |-> tab[t].base,
                      body |-> body] \in TabStates
                  /\ \A before \in Sites :
                       [pc |-> "read", form |-> tab[t].form, base |-> tab[t].base,
                        body |-> body, before |-> before] \in TabStates
           /\ tab[t].pc # "form" => tab[t].body \in Bodies
           /\ tab[t].pc \notin {"form", "sent"} => tab[t].before \in Sites
  BY DEF TabStates, Shut

\* A page whose step of the transaction is another.
LEMMA TabMoves ==
    ASSUME NEW t \in Tabs, tab \in [Tabs -> TabStates], tab[t].pc \in {"read", "row", "fence"},
           NEW to \in {"row", "fence"}
    PROVE  /\ [tab[t] EXCEPT !.pc = to] \in TabStates
           /\ [tab[t] EXCEPT !.pc = to].pc = to
           /\ [tab[t] EXCEPT !.pc = to].body = tab[t].body
<1> DEFINE row == [pc : {"read", "row", "fence"}, form : Sites, base : Sites, body : Bodies,
                   before : Sites]
<1>1. tab[t] \in row
  BY DEF TabStates, Shut
<1>2. [tab[t] EXCEPT !.pc = to] \in row
  BY <1>1
<1>3. QED
  BY <1>1, <1>2 DEF TabStates

\* A field of the form is typed.
LEMMA TabTyped ==
    ASSUME NEW t \in Tabs, tab \in [Tabs -> TabStates], tab[t].pc # "shut",
           NEW f \in Fields, NEW v \in Values
    PROVE  /\ [tab[t] EXCEPT !.form[f] = v] \in TabStates
           /\ [tab[t] EXCEPT !.form[f] = v].pc = tab[t].pc
           /\ tab[t].pc # "form" => [tab[t] EXCEPT !.form[f] = v].body = tab[t].body
<1> DEFINE filled == [tab[t].form EXCEPT ![f] = v]
           new == [tab[t] EXCEPT !.form = filled]
<1>1. filled \in Sites
  BY TabForm DEF Sites
<1>2. new = [tab[t] EXCEPT !.form[f] = v]
  BY Zenon
<1> HIDE DEF filled
<1>3. tab[t] \in TabStates /\ tab[t] # Shut
  BY DEF Shut
<1>4. new \in TabStates /\ new.pc = tab[t].pc /\ (tab[t].pc # "form" => new.body = tab[t].body)
  <2>1. CASE tab[t] \in [pc : {"form"}, form : Sites, base : Sites]
    <3>1. new \in [pc : {"form"}, form : Sites, base : Sites] /\ new.pc = tab[t].pc /\ tab[t].pc = "form"
      BY <1>1, <2>1
    <3>2. QED
      BY <3>1 DEF TabStates
  <2>2. CASE tab[t] \in [pc : {"sent"}, form : Sites, base : Sites, body : Bodies]
    <3>1. /\ new \in [pc : {"sent"}, form : Sites, base : Sites, body : Bodies]
          /\ new.pc = tab[t].pc /\ new.body = tab[t].body
      BY <1>1, <2>2
    <3>2. QED
      BY <3>1 DEF TabStates
  <2>3. CASE tab[t] \in [pc : {"read", "row", "fence"}, form : Sites, base : Sites, body : Bodies,
                         before : Sites]
    <3>1. /\ new \in [pc : {"read", "row", "fence"}, form : Sites, base : Sites, body : Bodies,
                      before : Sites]
          /\ new.pc = tab[t].pc /\ new.body = tab[t].body
      BY <1>1, <2>3
    <3>2. QED
      BY <3>1 DEF TabStates
  <2>4. QED
    BY <1>3, <2>1, <2>2, <2>3 DEF TabStates
<1> HIDE DEF new
<1>5. QED
  BY <1>2, <1>4

LEMMA OverSites ==
    ASSUME NEW body \in Bodies, NEW row \in Sites
    PROVE  /\ Over(body, row) \in Sites /\ Fence(Over(body, row)) \in [Geometry -> Values]
           /\ DOMAIN body \cap Geometry = {} => Fence(Over(body, row)) = Fence(row)
<1>1. PICK some \in SUBSET Fields : body \in [some -> Values]
  BY DEF Bodies
<1>2. Over(body, row) \in Sites
  BY <1>1 DEF Over, Sites
<1>3. \A s \in Sites : Fence(s) \in [Geometry -> Values]
  BY DEF Fence, Sites, Geometry, Fields
<1>4. DOMAIN body \cap Geometry = {} => Fence(Over(body, row)) = Fence(row)
  BY DEF Fence, Over, Geometry, Fields
<1>5. QED
  BY <1>2, <1>3, <1>4

LEMMA DepotPageStarts == DepotPageInit => DepotPageInv
<1> SUFFICES ASSUME DepotPageInit PROVE DepotPageInv
  OBVIOUS
<1>1. site \in Sites /\ fence = Fence(site) /\ fence \in [Geometry -> Values]
  BY DEF DepotPageInit, Sites, Fence, Geometry, Fields
<1>2. tab \in [Tabs -> TabStates] /\ \A t \in Tabs : tab[t].pc = "shut"
  BY DEF DepotPageInit, TabStates, Shut
<1>3. QED
  BY <1>1, <1>2, DepotPageAssumption DEF DepotPageInit, DepotPageInv, DepotPageTypeOK,
     FenceIsTheDepot, DraftAgrees

LEMMA DepotPageStays == DepotPageInv /\ [DepotPageNext]_depotPageVars => DepotPageInv'
<1> SUFFICES ASSUME DepotPageInv, [DepotPageNext]_depotPageVars PROVE DepotPageInv'
  OBVIOUS
<1>1. DepotPageTypeOK /\ FenceIsTheDepot /\ DraftAgrees /\ tab \in [Tabs -> TabStates]
  BY DEF DepotPageInv, DepotPageTypeOK
\* A page that is not in a transaction, before and after.
<1>2. ASSUME NEW t \in Tabs, NEW new \in TabStates, tab' = [tab EXCEPT ![t] = new],
             new.pc \notin {"row", "fence"}, tab[t].pc \notin {"row", "fence"},
             UNCHANGED <<site, fence, holder, draft>>, typed' \in 0..MaxTyped
      PROVE  DepotPageInv'
  <2>1. DraftAgrees'
    <3> SUFFICES ASSUME NEW u \in Tabs
                 PROVE  /\ holder' = u <=> tab'[u].pc \in {"row", "fence"}
                        /\ tab'[u].pc = "row" =>
                              draft' = [row |-> Over(tab'[u].body, site'), fence |-> fence']
                        /\ tab'[u].pc = "fence" => draft'.fence = Fence(draft'.row)
      BY DEF DraftAgrees, Over, Fence
    <3>1. CASE u = t
      BY <1>1, <1>2, <3>1 DEF DraftAgrees
    <3>2. CASE u # t
      BY <1>1, <1>2, <3>2 DEF DraftAgrees
    <3>3. QED
      BY <3>1, <3>2
  <2>2. DepotPageTypeOK'
    BY <1>1, <1>2 DEF DepotPageTypeOK
  <2>3. FenceIsTheDepot'
    BY <1>1, <1>2 DEF FenceIsTheDepot, Fence
  <2>4. QED
    BY <2>1, <2>2, <2>3 DEF DepotPageInv
<1>3. ASSUME NEW t \in Tabs PROVE OpenPage(t) \/ LeavePage(t) => DepotPageInv'
  <2>1. [pc |-> "form", form |-> site, base |-> site] \in TabStates /\ Shut \in TabStates
        /\ Shut.pc = "shut" /\ typed \in 0..MaxTyped
    BY <1>1 DEF TabStates, Shut, DepotPageTypeOK
  <2>2. OpenPage(t) => DepotPageInv'
    BY <1>2, <2>1 DEF OpenPage
  <2>3. LeavePage(t) => DepotPageInv'
    BY <1>2, <2>1 DEF LeavePage
  <2>4. QED
    BY <2>2, <2>3
<1>4. ASSUME NEW t \in Tabs, NEW body \in Bodies, Send(t, body) PROVE DepotPageInv'
  <2>1. tab[t].pc = "form" /\ UNCHANGED <<site, fence, holder, draft, typed>>
        /\ tab' = [tab EXCEPT ![t] = [pc |-> "sent", form |-> tab[t].form, base |-> tab[t].base,
                                      body |-> body]]
    BY <1>4 DEF Send
  <2>2. [pc |-> "sent", form |-> tab[t].form, base |-> tab[t].base, body |-> body] \in TabStates
    BY <1>1, <2>1, TabForm
  <2>3. QED
    BY <1>1, <1>2, <2>1, <2>2 DEF DepotPageTypeOK
<1>5. ASSUME NEW t \in Tabs, Save(t) \/ \E some \in SUBSET Fields : Patch(t, some)
      PROVE DepotPageInv'
  <2>1. tab[t].pc = "form"
    BY <1>5 DEF Save, Patch, Send
  <2>2. tab[t].form \in Sites
    BY <1>1, <2>1, TabForm
  <2>3. /\ tab[t].form \in Bodies
        /\ \A some \in SUBSET Fields : [f \in some |-> tab[t].form[f]] \in Bodies
    BY <2>2 DEF Sites, Bodies
  <2>4. QED
    BY <1>4, <1>5, <2>3 DEF Save, Patch
<1>6. ASSUME NEW t \in Tabs, Fail(t) PROVE DepotPageInv'
  <2>1. tab[t].pc \in {"sent", "read"} /\ UNCHANGED <<site, fence, holder, draft, typed>>
        /\ tab' = [tab EXCEPT ![t] = [pc |-> "form", form |-> tab[t].form, base |-> tab[t].base]]
    BY <1>6 DEF Fail, AnswerTab
  <2>2. [pc |-> "form", form |-> tab[t].form, base |-> tab[t].base] \in TabStates
    BY <1>1, <2>1, TabForm
  <2>3. QED
    BY <1>1, <1>2, <2>1, <2>2 DEF DepotPageTypeOK
<1>7. ASSUME NEW t \in Tabs, ReadBefore(t) PROVE DepotPageInv'
  <2> DEFINE new == [pc |-> "read", form |-> tab[t].form, base |-> tab[t].base,
                     body |-> tab[t].body, before |-> site]
  <2>1. tab[t].pc = "sent" /\ UNCHANGED <<site, fence, holder, draft, typed>>
        /\ tab' = [tab EXCEPT ![t] = new]
    BY <1>7 DEF ReadBefore
  <2>2. tab[t].body \in Bodies /\ site \in Sites
    BY <1>1, <2>1, TabForm DEF DepotPageTypeOK
  <2>3. new \in TabStates /\ new.pc = "read"
    BY <1>1, <2>1, <2>2, TabForm
  <2> HIDE DEF new
  <2>4. QED
    BY <1>1, <1>2, <2>1, <2>3 DEF DepotPageTypeOK
<1>8. ASSUME NEW t \in Tabs, NEW f \in Fields, NEW v \in Values, Type(t, f, v)
      PROVE  DepotPageInv'
  <2> DEFINE new == [tab[t] EXCEPT !.form[f] = v]
  <2>1. tab[t].pc # "shut" /\ UNCHANGED <<site, fence, holder, draft>>
        /\ tab' = [tab EXCEPT ![t] = new] /\ typed' \in 0..MaxTyped
    BY <1>1, <1>8, DepotPageAssumption DEF Type, DepotPageTypeOK
  <2>2. new \in TabStates /\ new.pc = tab[t].pc /\ (tab[t].pc # "form" => new.body = tab[t].body)
    BY <1>1, <2>1, TabTyped
  <2> HIDE DEF new
  <2>3. \A u \in Tabs : /\ tab'[u].pc = tab[u].pc
                        /\ tab[u].pc \in {"row", "fence"} => tab'[u].body = tab[u].body
    BY <1>1, <2>1, <2>2
  <2>4. DraftAgrees'
    BY <1>1, <2>1, <2>3 DEF DraftAgrees, Over, Fence
  <2>5. DepotPageTypeOK'
    BY <1>1, <2>1, <2>2 DEF DepotPageTypeOK
  <2>6. FenceIsTheDepot'
    BY <1>1, <2>1 DEF FenceIsTheDepot, Fence
  <2>7. QED
    BY <2>4, <2>5, <2>6 DEF DepotPageInv
<1>9. ASSUME NEW t \in Tabs, UpdateRow(t) PROVE DepotPageInv'
  <2>1. /\ tab[t].pc = "read" /\ holder = NoTab /\ holder' = t
        /\ draft' = [row |-> Over(tab[t].body, site), fence |-> fence]
        /\ tab' = [tab EXCEPT ![t] = [tab[t] EXCEPT !.pc = "row"]]
        /\ UNCHANGED <<site, fence, typed>>
    BY <1>9 DEF UpdateRow
  <2> DEFINE new == [tab[t] EXCEPT !.pc = "row"]
  <2>2. new \in TabStates /\ new.pc = "row" /\ new.body = tab[t].body
    BY <1>1, <2>1, TabMoves
  <2>3. tab[t].body \in Bodies
    BY <1>1, <2>1, TabForm
  <2> HIDE DEF new
  <2>4. \A u \in Tabs : u # t => tab'[u] = tab[u] /\ tab[u].pc \notin {"row", "fence"}
    BY <1>1, <2>1, DepotPageAssumption DEF DraftAgrees
  <2>5. tab' = [tab EXCEPT ![t] = new]
    BY <2>1 DEF new
  <2>6. draft'.row \in Sites /\ draft'.fence = fence
    BY <1>1, <2>1, <2>3, OverSites DEF DepotPageTypeOK
  <2>7. DepotPageTypeOK'
    BY <1>1, <2>1, <2>2, <2>5, <2>6 DEF DepotPageTypeOK
  <2>8. DraftAgrees'
    BY <1>1, <2>1, <2>2, <2>4, <2>5 DEF DraftAgrees, Over, Fence
  <2>9. FenceIsTheDepot'
    BY <1>1, <2>1 DEF FenceIsTheDepot, Fence
  <2>10. QED
    BY <2>7, <2>8, <2>9 DEF DepotPageInv
<1>10. ASSUME NEW t \in Tabs, UpdateFence(t) PROVE DepotPageInv'
  <2>1. /\ tab[t].pc = "row" /\ UNCHANGED <<site, fence, holder, typed>>
        /\ draft' = IF DOMAIN tab[t].body \cap Geometry # {}
                    THEN [draft EXCEPT !.fence = Fence(draft.row)]
                    ELSE draft
        /\ tab' = [tab EXCEPT ![t] = [tab[t] EXCEPT !.pc = "fence"]]
    BY <1>10 DEF UpdateFence
  <2> DEFINE new == [tab[t] EXCEPT !.pc = "fence"]
  <2>2. new \in TabStates /\ new.pc = "fence"
    BY <1>1, <2>1, TabMoves
  <2>3. tab' = [tab EXCEPT ![t] = new]
    BY <2>1
  <2> HIDE DEF new
  <2>4. /\ tab[t].body \in Bodies /\ site \in Sites /\ fence = Fence(site)
        /\ draft \in [row : Sites, fence : [Geometry -> Values]]
    BY <1>1, <2>1, TabForm DEF DepotPageTypeOK, FenceIsTheDepot
  <2>5. draft = [row |-> Over(tab[t].body, site), fence |-> fence] /\ holder = t
    BY <1>1, <2>1 DEF DraftAgrees
  <2>6. /\ Fence(draft.row) \in [Geometry -> Values]
        /\ DOMAIN tab[t].body \cap Geometry = {} => Fence(draft.row) = draft.fence
    BY <2>4, <2>5, OverSites
  <2>7. draft' \in [row : Sites, fence : [Geometry -> Values]] /\ draft'.fence = Fence(draft'.row)
    BY <2>1, <2>4, <2>6
  <2>8. \A u \in Tabs : u # t => tab'[u] = tab[u] /\ tab[u].pc \notin {"row", "fence"}
    BY <1>1, <2>3, <2>5 DEF DraftAgrees
  <2>9. DepotPageTypeOK'
    BY <1>1, <2>1, <2>2, <2>3, <2>7 DEF DepotPageTypeOK
  <2>10. DraftAgrees'
    BY <1>1, <2>1, <2>2, <2>3, <2>5, <2>7, <2>8 DEF DraftAgrees, Fence
  <2>11. FenceIsTheDepot'
    BY <1>1, <2>1 DEF FenceIsTheDepot, Fence
  <2>12. QED
    BY <2>9, <2>10, <2>11 DEF DepotPageInv
<1>11. ASSUME NEW t \in Tabs, Commit(t) \/ Undo(t) PROVE DepotPageInv'
  <2> DEFINE new == [pc |-> "form", form |-> tab[t].form, base |-> tab[t].base]
  <2>1. /\ tab[t].pc \in {"row", "fence"} /\ holder' = NoTab /\ tab' = [tab EXCEPT ![t] = new]
        /\ UNCHANGED typed
    BY <1>11 DEF Commit, Undo, AnswerTab
  <2>2. new \in TabStates /\ new.pc = "form"
    BY <1>1, <2>1, TabForm
  <2> HIDE DEF new
  <2>3. holder = t /\ \A u \in Tabs : u # t => tab'[u] = tab[u] /\ tab[u].pc \notin {"row", "fence"}
    BY <1>1, <2>1 DEF DraftAgrees
  <2>4. DraftAgrees'
    BY <1>1, <2>1, <2>2, <2>3, DepotPageAssumption DEF DraftAgrees
  <2>5. CASE Commit(t)
    <3>1. tab[t].pc = "fence" /\ site' = draft.row /\ fence' = draft.fence /\ UNCHANGED draft
      BY <2>5 DEF Commit
    <3>2. draft.fence = Fence(draft.row)
      BY <1>1, <3>1 DEF DraftAgrees
    <3>3. FenceIsTheDepot'
      BY <3>1, <3>2 DEF FenceIsTheDepot, Fence
    <3>4. DepotPageTypeOK'
      BY <1>1, <2>1, <2>2, <3>1 DEF DepotPageTypeOK
    <3>5. QED
      BY <2>4, <3>3, <3>4 DEF DepotPageInv
  <2>6. CASE Undo(t)
    <3>1. draft' = [row |-> site, fence |-> fence] /\ UNCHANGED <<site, fence>>
      BY <2>6 DEF Undo
    <3>2. FenceIsTheDepot'
      BY <1>1, <3>1 DEF FenceIsTheDepot, Fence
    <3>3. DepotPageTypeOK'
      BY <1>1, <2>1, <2>2, <3>1 DEF DepotPageTypeOK
    <3>4. QED
      BY <2>4, <3>2, <3>3 DEF DepotPageInv
  <2>7. QED
    BY <1>11, <2>5, <2>6
<1>12. CASE UNCHANGED depotPageVars
  BY <1>1, <1>12 DEF depotPageVars, DepotPageInv, DepotPageTypeOK, FenceIsTheDepot, DraftAgrees,
     Over, Fence
<1>13. QED
  BY <1>3, <1>5, <1>6, <1>7, <1>8, <1>9, <1>10, <1>11, <1>12, Zenon DEF DepotPageNext

-----------------------------------------------------------------------------
(* The last position, the trace *)

\* The first n points are all of them, or n.
LEMMA FirstOrAll ==
    ASSUME NEW n \in Nat \ {0}, NEW s, IsFiniteSet(s), s \subseteq Int
    PROVE  /\ FirstPoints(n, s) \subseteq s
           /\ FirstPoints(n, s) = s \/ Cardinality(FirstPoints(n, s)) = n
<1> DEFINE Before(t) == {u \in s : u < t}
           first == FirstPoints(n, s)
           after == s \ first
<1>1. \A t \in s : (t \in first <=> Cardinality(Before(t)) < n) /\ first \subseteq s
  BY DEF FirstPoints
<1>2. \A t \in s : IsFiniteSet(Before(t)) /\ Cardinality(Before(t)) \in Nat
  <2> SUFFICES ASSUME NEW t \in s
               PROVE  IsFiniteSet(Before(t)) /\ Cardinality(Before(t)) \in Nat
    OBVIOUS
  <2>1. Before(t) \in SUBSET s
    OBVIOUS
  <2> HIDE DEF Before
  <2>2. QED
    BY <2>1, FS_Subset, FS_CardinalityType
<1>3. first \subseteq s
  BY DEF FirstPoints
<1> HIDE DEF first
<1>4. ASSUME after # {} PROVE Cardinality(first) = n
  <2>1. IsFiniteSet(after) /\ after \subseteq Int
    <3>1. after \in SUBSET s
      OBVIOUS
    <3>2. QED
      BY <3>1, FS_Subset
  <2>2. PICK t \in after : \A x \in after : t <= x
    <3> HIDE DEF after
    <3>1. QED
      BY <1>4, <2>1, Extremes
  <2>3. first = Before(t)
    <3>1. \A u \in Before(t) : u \in first
      BY <2>2
    <3>2. ASSUME NEW u \in first PROVE u < t
      <4>1. CASE u >= t
        <5>1. Before(t) \subseteq Before(u)
          <6>1. t \in Int /\ u \in Int /\ \A x \in s : x \in Int
            BY <1>3, <2>2
          <6>2. \A x \in s : x < t => x < u
            BY <4>1, <6>1
          <6>3. QED
            BY <6>2
        <5>2. Before(t) \in SUBSET Before(u) /\ IsFiniteSet(Before(u))
          <6>1. u \in s
            BY <1>3
          <6> HIDE DEF Before
          <6>2. QED
            BY <1>2, <5>1, <6>1
        <5>3. Cardinality(Before(t)) <= Cardinality(Before(u))
          <6> HIDE DEF Before
          <6>1. QED
            BY <5>2, FS_Subset
        <5>4. Cardinality(Before(u)) < n /\ ~(Cardinality(Before(t)) < n)
          BY <1>1, <1>3, <2>2
        <5>5. Cardinality(Before(u)) \in Nat /\ Cardinality(Before(t)) \in Nat
          BY <1>2, <1>3, <2>2
        <5> HIDE DEF Before
        <5>6. QED
          BY <5>3, <5>4, <5>5
      <4>2. QED
        BY <1>3, <2>2, <4>1
    <3>3. QED
      BY <1>3, <3>1, <3>2
  <2>4. Cardinality(first) >= n /\ IsFiniteSet(first) /\ Cardinality(first) \in Nat
    <3>1. ~(Cardinality(Before(t)) < n) /\ Cardinality(Before(t)) \in Nat /\ IsFiniteSet(Before(t))
      BY <1>1, <1>2, <2>2
    <3> HIDE DEF Before
    <3>2. QED
      BY <2>3, <3>1
  <2>5. first # {}
    BY <2>4, FS_EmptySet
  <2>6. PICK m \in first : \A x \in first : x <= m
    BY <1>3, <2>4, <2>5, Extremes
  <2>7. first \subseteq Before(m) \cup {m} /\ m \notin Before(m) /\ m \in s
    BY <1>3, <2>6
  <2>8. Cardinality(Before(m)) < n /\ IsFiniteSet(Before(m)) /\ Cardinality(Before(m)) \in Nat
    BY <1>1, <1>2, <2>6, <2>7
  <2> HIDE DEF Before
  <2>9. /\ Cardinality(Before(m) \cup {m}) = Cardinality(Before(m)) + 1
        /\ IsFiniteSet(Before(m) \cup {m})
    BY <2>7, <2>8, FS_AddElement
  <2>10. Cardinality(first) <= Cardinality(Before(m) \cup {m})
    BY <2>7, <2>9, FS_Subset
  <2>11. QED
    BY <2>4, <2>8, <2>9, <2>10
<1>5. QED
  BY <1>3, <1>4 DEF first

LEMMA PositionStarts == PositionInit => PositionInv
<1> SUFFICES ASSUME PositionInit PROVE PositionInv
  OBVIOUS
<1>1. trace \in [to : Nat, points : SUBSET Dates, all : SUBSET Dates, truncated : BOOLEAN]
  <2>1. FALSE \in BOOLEAN
    BY Zenon
  <2>2. QED
    BY <2>1 DEF PositionInit, NoTrace
<1>2. UncutIsWhole
  BY DEF PositionInit, UncutIsWhole, NoTrace
<1>3. QED
  BY <1>1, <1>2 DEF PositionInit, PositionInv, PositionTypeOK, PushesAgree, SettledIsShown

\* The latest point of a push.
LEMMA LatestPoint ==
    ASSUME PositionInv, NEW p \in Pushes, push[p] # Unpushed
    PROVE  /\ Max(push[p].points) \in push[p].points /\ push[p].points \subseteq Dates
           /\ Max(push[p].points) \in Nat
           /\ \A t \in push[p].points : t \in Nat /\ t <= Max(push[p].points)
<1>1. push[p].points \in SUBSET Dates /\ push[p].points # {}
  BY DEF PositionInv, PositionTypeOK, PushesAgree
<1>2. IsFiniteSet(push[p].points) /\ push[p].points \subseteq Int
  BY <1>1, PositionAssumption, FS_Subset
<1>3. QED
  BY <1>1, <1>2, Extremes, PositionAssumption

LEMMA PositionStays == PositionInv /\ [PositionNext]_positionVars => PositionInv'
<1> SUFFICES ASSUME PositionInv, [PositionNext]_positionVars PROVE PositionInv'
  OBVIOUS
<1> DEFINE Under == [pc : {"insert", "last"}, points : SUBSET Dates, before : Dates \cup {0}]
<1>1. /\ PositionTypeOK /\ PushesAgree /\ UncutIsWhole /\ (~Together => SettledIsShown)
      /\ push \in [Pushes -> {Unpushed} \cup Under]
  BY DEF PositionInv, PositionTypeOK
<1>2. ASSUME NEW p \in Pushes, NEW points \in SUBSET (Dates \ settled), LoadDevice(p, points)
      PROVE  PositionInv'
  <2> DEFINE new == [pc |-> "insert", points |-> points, before |-> lastShown]
  <2>1. /\ push[p] = Unpushed /\ points # {} /\ push' = [push EXCEPT ![p] = new]
        /\ Together \/ \A q \in Pushes : push[q] = Unpushed
        /\ UNCHANGED <<kept, lastShown, settled, trace>>
    BY <1>2 DEF LoadDevice
  <2>2. new \in Under /\ new.points = points /\ new.before = lastShown /\ new.pc = "insert"
    BY <1>1 DEF PositionTypeOK
  <2> HIDE DEF new
  <2>3. PositionTypeOK'
    BY <1>1, <2>1, <2>2 DEF PositionTypeOK
  <2>4. PushesAgree'
    BY <1>1, <2>1, <2>2 DEF PushesAgree
  <2>5. UncutIsWhole' /\ (~Together => SettledIsShown')
    BY <1>1, <2>1 DEF UncutIsWhole, SettledIsShown
  <2>6. QED
    BY <2>3, <2>4, <2>5 DEF PositionInv
<1>3. ASSUME NEW p \in Pushes, InsertPoints(p) PROVE PositionInv'
  <2> DEFINE new == [push[p] EXCEPT !.pc = "last"]
  <2>1. /\ push[p].pc = "insert" /\ push' = [push EXCEPT ![p] = new]
        /\ kept' = kept \cup push[p].points
        /\ UNCHANGED <<lastShown, settled, trace>>
    BY <1>3 DEF InsertPoints
  <2>2. push[p] \in Under /\ push[p] # Unpushed
    BY <1>1, <2>1 DEF Unpushed
  <2>3. new \in Under /\ new.points = push[p].points /\ new.before = push[p].before /\ new.pc = "last"
        /\ new # Unpushed
    BY <2>2 DEF Unpushed
  <2> HIDE DEF new
  <2>4. PositionTypeOK'
    BY <1>1, <2>1, <2>2, <2>3 DEF PositionTypeOK
  <2>5. PushesAgree'
    BY <1>1, <2>1, <2>2, <2>3 DEF PushesAgree
  <2>6. UncutIsWhole' /\ (~Together => SettledIsShown')
    BY <1>1, <2>1 DEF UncutIsWhole, SettledIsShown
  <2>7. QED
    BY <2>4, <2>5, <2>6 DEF PositionInv
<1>4. ASSUME NEW p \in Pushes, MoveLast(p) PROVE PositionInv'
  <2> DEFINE latest == Max(push[p].points)
  <2>1. /\ push[p].pc = "last" /\ push' = [push EXCEPT ![p] = Unpushed]
        /\ lastShown' = IF latest > push[p].before THEN latest ELSE lastShown
        /\ settled' = settled \/ settled' = settled \cup push[p].points
        /\ UNCHANGED <<kept, trace>>
    BY <1>4 DEF MoveLast
  <2>2. push[p] \in Under /\ push[p] # Unpushed
    BY <1>1, <2>1 DEF Unpushed
  <2>3. /\ latest \in Dates /\ latest \in Nat
        /\ \A t \in push[p].points : t \in Nat /\ t <= latest
    BY <2>2, LatestPoint
  <2> HIDE DEF latest
  <2>4. lastShown \in Nat
    BY <1>1, PositionAssumption DEF PositionTypeOK
  <2>5. PositionTypeOK'
    BY <1>1, <2>1, <2>2, <2>3 DEF PositionTypeOK, PushesAgree
  <2>6. PushesAgree'
    BY <1>1, <2>1, <2>2 DEF PushesAgree
  <2>7. ~Together => SettledIsShown'
    <3> SUFFICES ASSUME ~Together, NEW t \in settled' PROVE t <= lastShown'
      BY DEF SettledIsShown
    <3>1. push[p].before = lastShown
      BY <1>1, <2>2 DEF PushesAgree
    <3>2. lastShown' \in Nat /\ lastShown <= lastShown' /\ latest <= lastShown'
      BY <2>1, <2>3, <2>4, <3>1
    <3>3. CASE t \in settled
      <4>1. t <= lastShown /\ t \in Nat
        BY <1>1, <3>3, PositionAssumption DEF SettledIsShown, PositionTypeOK
      <4>2. QED
        BY <2>4, <3>2, <4>1
    <3>4. CASE t \in push[p].points
      BY <2>3, <3>2, <3>4
    <3>5. QED
      BY <2>1, <3>3, <3>4
  <2>8. UncutIsWhole'
    BY <1>1, <2>1 DEF UncutIsWhole
  <2>9. QED
    BY <2>5, <2>6, <2>7, <2>8 DEF PositionInv
<1>5. ASSUME NEW p \in Pushes, StopPush(p) PROVE PositionInv'
  <2>1. push' = [push EXCEPT ![p] = Unpushed] /\ UNCHANGED <<kept, lastShown, settled, trace>>
    BY <1>5 DEF StopPush
  <2>2. PositionTypeOK' /\ PushesAgree'
    BY <1>1, <2>1 DEF PositionTypeOK, PushesAgree
  <2>3. UncutIsWhole' /\ (~Together => SettledIsShown')
    BY <1>1, <2>1 DEF UncutIsWhole, SettledIsShown
  <2>4. QED
    BY <2>2, <2>3 DEF PositionInv
<1>6. ASSUME NEW from \in Dates, NEW to \in Dates, history(from, to) PROVE PositionInv'
  <2> DEFINE end == IF to - from > Span THEN from + Span ELSE to
             all == {t \in kept : from <= t /\ t <= end}
             first == FirstPoints(TracePoints, all)
             cut == (Cardinality(first) = TracePoints)
  <2>1. /\ trace' = [to |-> end, points |-> first, all |-> all, truncated |-> cut]
        /\ UNCHANGED <<kept, lastShown, push, settled>>
    BY <1>6 DEF history
  <2>2. end \in Nat
    BY PositionAssumption
  <2>3. all \in SUBSET Dates
    BY <1>1 DEF PositionTypeOK
  <2> HIDE DEF end, all
  <2>4. IsFiniteSet(all) /\ all \subseteq Int
    <3>1. IsFiniteSet(all)
      BY <2>3, PositionAssumption, FS_Subset
    <3>2. QED
      BY <2>3, <3>1, PositionAssumption
  <2>5. first \subseteq all /\ (first = all \/ Cardinality(first) = TracePoints)
    BY <2>4, FirstOrAll, PositionAssumption
  <2> HIDE DEF first
  <2>6. cut \in BOOLEAN
    BY Zenon
  <2>7. first = all \/ cut
    BY <2>5
  <2> HIDE DEF cut
  <2>8. trace' \in [to : Nat, points : SUBSET Dates, all : SUBSET Dates, truncated : BOOLEAN]
    BY <2>1, <2>2, <2>3, <2>5, <2>6
  <2>9. trace'.truncated = cut /\ trace'.points = first /\ trace'.all = all
    BY <2>1
  <2>10. UncutIsWhole'
    BY <2>7, <2>9, Zenon DEF UncutIsWhole
  <2>11. PositionTypeOK' /\ PushesAgree' /\ (~Together => SettledIsShown')
    BY <1>1, <2>1, <2>8 DEF PositionTypeOK, PushesAgree, SettledIsShown
  <2>12. QED
    BY <2>10, <2>11 DEF PositionInv
<1>7. CASE UNCHANGED positionVars
  BY <1>1, <1>7 DEF positionVars, PositionInv, PositionTypeOK, PushesAgree, UncutIsWhole, SettledIsShown
<1>8. QED
  BY <1>2, <1>3, <1>4, <1>5, <1>6, <1>7, Zenon DEF PositionNext

-----------------------------------------------------------------------------
(* Labels *)

LEMMA TokensGrow ==
    ASSUME NEW s \in Seq(Tags), NEW t \in Tags
    PROVE  /\ Append(s, t) \in Seq(Tags) /\ Len(Append(s, t)) = Len(s) + 1
           /\ DOMAIN s = 1..Len(s) /\ DOMAIN Append(s, t) = 1..(Len(s) + 1)
           /\ \A n \in DOMAIN s : Append(s, t)[n] = s[n]
           /\ Append(s, t)[Len(s) + 1] = t
           /\ Len(s) \in Nat /\ Append(s, t) # <<>>
  OBVIOUS

LEMMA SownMore ==
    ASSUME NEW s \in Seq(Tags), NEW t \in Tags, NEW labels \in SUBSET Labels, Sown(labels, s)
    PROVE  /\ Sown(labels, Append(s, t))
           /\ Sown(labels \cup {[tag |-> t, token |-> Len(s) + 1]}, Append(s, t))
<1> DEFINE new == [tag |-> t, token |-> Len(s) + 1]
           more == Append(s, t)
<1>1. /\ DOMAIN s = 1..Len(s) /\ DOMAIN more = 1..(Len(s) + 1) /\ Len(s) \in Nat
      /\ \A n \in DOMAIN s : more[n] = s[n]
      /\ more[Len(s) + 1] = t
  BY TokensGrow
<1> HIDE DEF more
<1>2. \A l \in labels : /\ l.token \in 1..Len(s) /\ s[l.token] = l.tag
                        /\ l.token \in DOMAIN more /\ more[l.token] = l.tag
                        /\ l.token # Len(s) + 1
  BY <1>1 DEF Sown
<1>3. new.token = Len(s) + 1 /\ new.tag = t
  OBVIOUS
<1> HIDE DEF new
<1>4. Sown(labels, more)
  BY <1>2 DEF Sown
<1>5. Sown(labels \cup {new}, more)
  BY <1>1, <1>2, <1>3 DEF Sown
<1>6. QED
  BY <1>4, <1>5 DEF new, more

\* A label more, a phone less.
LEMMA OngoingStep ==
    ASSUME NEW s \in Seq(Tags), NEW t \in Tags, NEW labels \in SUBSET Labels, NEW for, NEW left,
           Ongoing(for, left, labels, s)
    PROVE  /\ Ongoing(for, left, labels, Append(s, t))
           /\ t \in left => Ongoing(for, left \ {t}, labels \cup {[tag |-> t, token |-> Len(s) + 1]},
                                    Append(s, t))
<1> DEFINE new == [tag |-> t, token |-> Len(s) + 1]
<1>1. Sown(labels, Append(s, t)) /\ Sown(labels \cup {new}, Append(s, t))
  BY SownMore DEF Ongoing
<1>2. new.tag = t
  OBVIOUS
<1> HIDE DEF new
<1>3. {l.tag : l \in labels \cup {new}} = {l.tag : l \in labels} \cup {t}
  BY <1>2
<1>4. for = left \cup {l.tag : l \in labels}
  BY DEF Ongoing
<1>5. t \in left => for = (left \ {t}) \cup {l.tag : l \in labels \cup {new}}
  BY <1>3, <1>4
<1>6. QED
  BY <1>1, <1>4, <1>5 DEF Ongoing, new

LEMMA OngoingDone ==
    ASSUME NEW s \in Seq(Tags), NEW f, Ongoing(f.for, {}, f.labels, s), s = issued
    PROVE  Complete(f)
  BY DEF Ongoing, Sown, Complete

-----------------------------------------------------------------------------
(* Payloads *)

LEMMA ProfileFields ==
    profile \in Profiles => /\ profile.download \in {"absent", "https", "http", "garbled"}
                            /\ profile.wifi \in {"NONE", "WEP", "WPA", "EAP", "absent"}
<1>1. profile \in Profiles => profile.download \in {"absent", "https", "http", "garbled"}
  BY DEF Profiles
<1>2. profile \in Profiles => profile.wifi \in {"NONE", "WEP", "WPA", "EAP", "absent"}
  BY DEF Profiles, Securities
<1>3. QED
  BY <1>1, <1>2

\* A configuration the check lets through provisions its phone.
LEMMA SoundProvisions == profile \in Profiles => AcceptedProvisions
<1> SUFFICES ASSUME profile \in Profiles, Sound,
                    "no certificate" \notin Warnings(buildPayload(profile, "issued"))
             PROVE  LET content == buildPayload(profile, "issued")
                    IN  Provisions(content, "nothing to download" \in Warnings(content))
  BY DEF AcceptedProvisions
<1> DEFINE c == buildPayload(profile, "issued")
           d == buildPayload(profile, "dummy")
<1>1. /\ d.component = profile.component /\ c.component = profile.component
      /\ d.checksum = profile.checksum /\ c.checksum = profile.checksum
      /\ d.download = profile.download /\ c.download = profile.download
      /\ d.security = profile.wifi /\ c.security = profile.wifi
      /\ d.password = c.password
      /\ d.server = profile.server /\ c.server = profile.server
      /\ c.token = "issued"
  BY DEF buildPayload
<1> HIDE DEF c, d
<1>2. \A b, n : When(b, n) = {} => ~b
  BY DEF When
<1>3. /\ When(d.component # "ours", "component") = {} /\ When(d.checksum # "sha256", "checksum") = {}
      /\ When(d.download = "garbled" \/ (d.download = "http" /\ ~profile.allowInsecure), "download") = {}
      /\ WifiErrors(d) = {} /\ ExtrasErrors(d) = {}
  BY DEF Sound, Errors, d
<1>4. /\ d.component = "ours" /\ d.checksum = "sha256" /\ d.download # "garbled"
      /\ (d.security \in {"absent", "NONE"} \/ d.password) /\ d.server # "garbled"
  BY <1>3 DEF WifiErrors, ExtrasErrors, When
<1>5. c.security # "EAP"
  <2>1. "no certificate" \notin Warnings(c)
    BY DEF c
  <2>2. When(c.security = "EAP", "no certificate") \subseteq Warnings(c)
    BY DEF Warnings
  <2>3. QED
    BY <2>1, <2>2 DEF When
<1>6. profile.download = "absent" => "nothing to download" \in Warnings(c)
  <2>1. When(c.download = "absent", "nothing to download") \subseteq Warnings(c)
    BY DEF Warnings
  <2>2. QED
    BY <1>1, <2>1 DEF When
<1>7. /\ profile.download \in {"absent", "https", "http", "garbled"}
      /\ profile.wifi \in {"NONE", "WEP", "WPA", "EAP", "absent"}
  BY ProfileFields
<1>8. Joins(c) /\ Enrols(c) /\ Installs(c, "nothing to download" \in Warnings(c))
  BY <1>1, <1>4, <1>5, <1>6, <1>7 DEF Joins, Installs, Enrols
<1>9. QED
  BY <1>8 DEF Provisions, c

-----------------------------------------------------------------------------
(* Putting phones into service *)

LEMMA CommissionStarts == CommissionInit => CommissionInv
<1> SUFFICES ASSUME CommissionInit PROVE CommissionInv
  OBVIOUS
<1>1. CommissionTypeOK
  <2>1. cookies \in [refresh : Nat, access : BOOLEAN] /\ open \in BOOLEAN
    <3>1. TRUE \in BOOLEAN
      BY Zenon
    <3>2. QED
      BY <3>1 DEF CommissionInit
  <2>2. issued \in Seq(Tags) /\ Len(issued) <= MaxTokens
    BY CommissionAssumption DEF CommissionInit
  <2>3. {sheet, shown} \subseteq [for : SUBSET Tags, labels : SUBSET Labels]
    BY DEF CommissionInit, BlankForm
  <2>4. QED
    BY <2>1, <2>2, <2>3, CommissionAssumption DEF CommissionInit, CommissionTypeOK, Campaigns, Forms
<1>2. RequestsAgree
  <2>1. Ongoing({}, {}, {}, issued)
    BY DEF Ongoing, Sown
  <2>2. QED
    BY <2>1 DEF CommissionInit, RequestsAgree, Nobody, BlankForm
<1>3. CheckedFirst /\ CookiesAgree /\ ConfigurationFirst
  BY DEF CommissionInit, CheckedFirst, CookiesAgree, ConfigurationFirst, Nobody
<1>4. LabelsComplete
  BY <1>1, <1>2, OngoingDone DEF RequestsAgree, LabelsComplete, CommissionTypeOK
<1>5. AcceptedProvisions
  BY SoundProvisions DEF CommissionInit
<1>6. QED
  BY <1>1, <1>2, <1>3, <1>4, <1>5 DEF CommissionInv

\* What follows from the rest, after a step as before.
LEMMA CommissionFollows ==
    CommissionTypeOK /\ RequestsAgree /\ CheckedFirst
    => LabelsComplete /\ ConfigurationFirst /\ AcceptedProvisions
<1> SUFFICES ASSUME CommissionTypeOK, RequestsAgree, CheckedFirst
             PROVE  LabelsComplete /\ ConfigurationFirst /\ AcceptedProvisions
  OBVIOUS
<1>1. LabelsComplete
  BY OngoingDone DEF RequestsAgree, LabelsComplete, CommissionTypeOK
<1>2. QED
  BY <1>1, SoundProvisions DEF CommissionTypeOK, CheckedFirst, ConfigurationFirst

LEMMA CommissionFollowsNext ==
    CommissionTypeOK' /\ RequestsAgree' /\ CheckedFirst'
    => LabelsComplete' /\ ConfigurationFirst' /\ AcceptedProvisions'
  BY CommissionFollows, PTL

\* Issuing, as both do it.
LEMMA IssueGrows ==
    ASSUME CommissionInv, NEW t \in Tags, Issue(t)
    PROVE  /\ issued' \in Seq(Tags) /\ Len(issued') <= MaxTokens /\ issued' # <<>>
           /\ Label(t) \in Labels
           /\ issued' = Append(issued, t) /\ issued \in Seq(Tags)
           /\ Ongoing(sheet.for, {}, sheet.labels, issued')
           /\ Ongoing(shown.for, {}, shown.labels, issued')
           /\ campaign.pc = "issue" =>
                  Ongoing(campaign.fleet, campaign.left, campaign.labels, issued')
           /\ form.pc = "issue" => Ongoing(form.for, form.left, form.labels, issued')
<1>1. issued \in Seq(Tags) /\ issued' = Append(issued, t) /\ Len(issued) < MaxTokens
  BY DEF CommissionInv, CommissionTypeOK, Issue
<1>2. /\ issued' \in Seq(Tags) /\ Len(issued') = Len(issued) + 1 /\ Len(issued) \in Nat
      /\ issued' # <<>>
  BY <1>1, TokensGrow
<1>3. Label(t) \in Labels
  BY <1>1, <1>2, CommissionAssumption DEF Label, Labels
<1>4. /\ sheet.labels \in SUBSET Labels /\ shown.labels \in SUBSET Labels
      /\ campaign.pc = "issue" => campaign.labels \in SUBSET Labels
      /\ form.pc = "issue" => form.labels \in SUBSET Labels
  <2>1. sheet.labels \in SUBSET Labels /\ shown.labels \in SUBSET Labels
    BY DEF CommissionInv, CommissionTypeOK
  <2>2. campaign.pc = "issue" => campaign.labels \in SUBSET Labels
    BY DEF CommissionInv, CommissionTypeOK, Campaigns, Nobody
  <2>3. form.pc = "issue" => form.labels \in SUBSET Labels
    BY DEF CommissionInv, CommissionTypeOK, Forms, Nobody
  <2>4. QED
    BY <2>1, <2>2, <2>3
<1>5. RequestsAgree
  BY DEF CommissionInv
<1>6. ASSUME NEW labels \in SUBSET Labels, NEW for, NEW left, Ongoing(for, left, labels, issued)
      PROVE  Ongoing(for, left, labels, issued')
  BY <1>1, <1>6, OngoingStep
<1>7. QED
  <2>1. Len(issued') <= MaxTokens
    BY <1>1, <1>2, CommissionAssumption
  <2>2. Ongoing(sheet.for, {}, sheet.labels, issued') /\ Ongoing(shown.for, {}, shown.labels, issued')
    BY <1>4, <1>5, <1>6 DEF RequestsAgree
  <2>3. campaign.pc = "issue" => Ongoing(campaign.fleet, campaign.left, campaign.labels, issued')
    BY <1>4, <1>5, <1>6 DEF RequestsAgree
  <2>4. form.pc = "issue" => Ongoing(form.for, form.left, form.labels, issued')
    BY <1>4, <1>5, <1>6 DEF RequestsAgree
  <2>5. QED
    BY <1>1, <1>2, <1>3, <2>1, <2>2, <2>3, <2>4

LEMMA SoundStays == UNCHANGED profile => (Sound' <=> Sound)
  BY DEF Sound

\* The rows of the two requests that issue.
LEMMA CampaignRows ==
    ASSUME CommissionTypeOK, NEW left \in SUBSET Tags, NEW labels \in SUBSET Labels,
           campaign.pc = "issue", campaign' = [campaign EXCEPT !.left = left, !.labels = labels]
    PROVE  /\ campaign' \in Campaigns /\ campaign'.pc = "issue" /\ campaign'.fleet = campaign.fleet
           /\ campaign'.left = left /\ campaign'.labels = labels
<1> DEFINE row == [pc : {"issue"}, fleet : Fleets, known : SUBSET Tags, left : SUBSET Tags,
                   labels : SUBSET Labels]
           c1 == [campaign EXCEPT !.left = left]
<1>1. campaign \in row
  BY DEF CommissionTypeOK, Campaigns, Nobody
<1>2. c1 \in row /\ c1.pc = "issue" /\ c1.fleet = campaign.fleet /\ c1.left = left
  BY <1>1
<1>3. campaign' = [c1 EXCEPT !.labels = labels]
  OBVIOUS
<1> HIDE DEF c1
<1>4. campaign' \in row /\ campaign'.pc = "issue" /\ campaign'.fleet = campaign.fleet
      /\ campaign'.left = left /\ campaign'.labels = labels
  BY <1>2, <1>3
<1>5. QED
  BY <1>4 DEF Campaigns

LEMMA FormRows ==
    ASSUME CommissionTypeOK, NEW left \in SUBSET Tags, NEW labels \in SUBSET Labels,
           form.pc = "issue", form' = [form EXCEPT !.left = left, !.labels = labels]
    PROVE  /\ form' \in Forms /\ form'.pc = "issue" /\ form'.for = form.for
           /\ form'.left = left /\ form'.labels = labels
           /\ form'.access = form.access /\ form'.rotated = form.rotated
<1> DEFINE row == [pc : {"issue"}, for : Fleets, left : SUBSET Tags, labels : SUBSET Labels,
                   access : BOOLEAN, rotated : Nat]
           f1 == [form EXCEPT !.left = left]
<1>1. form \in row
  BY DEF CommissionTypeOK, Forms, Nobody
<1>2. f1 \in row /\ f1.pc = "issue" /\ f1.for = form.for /\ f1.left = left
      /\ f1.access = form.access /\ f1.rotated = form.rotated
  BY <1>1
<1>3. form' = [f1 EXCEPT !.labels = labels]
  OBVIOUS
<1> HIDE DEF f1
<1>4. form' \in row /\ form'.pc = "issue" /\ form'.for = form.for
      /\ form'.left = left /\ form'.labels = labels
      /\ form'.access = form.access /\ form'.rotated = form.rotated
  BY <1>2, <1>3
<1>5. QED
  BY <1>4 DEF Forms

\* The type of every variable but the token list and the two requests, unchanged.
LEMMA ToolStays ==
    ASSUME CommissionInv, UNCHANGED <<profile, issued, formVars>>,
           declared' \subseteq Tags, campaign' \in Campaigns,
           sheet' \in [for : SUBSET Tags, labels : SUBSET Labels],
           campaign'.pc = "issue" =>
               Ongoing(campaign'.fleet, campaign'.left, campaign'.labels, issued),
           Ongoing(sheet'.for, {}, sheet'.labels, issued),
           campaign' # Nobody => Sound
    PROVE  CommissionInv'
<1>1. CommissionTypeOK /\ RequestsAgree /\ CheckedFirst /\ CookiesAgree
  BY DEF CommissionInv
<1>2. CommissionTypeOK'
  BY <1>1 DEF CommissionTypeOK, formVars
<1>3. RequestsAgree'
  BY <1>1 DEF RequestsAgree, formVars
<1>4. CheckedFirst' /\ CookiesAgree'
  BY <1>1, SoundStays DEF CheckedFirst, CookiesAgree, formVars
<1>5. QED
  BY <1>2, <1>3, <1>4, CommissionFollowsNext DEF CommissionInv

LEMMA ToolStep ==
    ASSUME CommissionInv,
           \/ ListDevices \/ WriteArtifacts \/ WriteFails
           \/ (\E fleet \in Fleets : RunBatch(fleet)) \/ (\E t \in Tags : Declare(t))
    PROVE  CommissionInv'
<1>1. CommissionTypeOK /\ RequestsAgree /\ CheckedFirst
  BY DEF CommissionInv
<1>2. /\ sheet \in [for : SUBSET Tags, labels : SUBSET Labels]
      /\ Ongoing(sheet.for, {}, sheet.labels, issued) /\ Nobody \in Campaigns
      /\ Nobody.pc # "issue"
  BY <1>1 DEF CommissionTypeOK, RequestsAgree, Campaigns, Nobody
<1>3. ASSUME NEW fleet \in Fleets, RunBatch(fleet) PROVE CommissionInv'
  <2>1. campaign' \in Campaigns
    BY <1>3 DEF RunBatch, Campaigns
  <2>2. QED
    BY <1>1, <1>2, <1>3, <2>1, ToolStays DEF RunBatch, CommissionTypeOK
<1>4. ASSUME NEW t \in Tags, Declare(t) PROVE CommissionInv'
  BY <1>1, <1>2, <1>4, ToolStays DEF Declare, toolVars, CommissionTypeOK, RequestsAgree, CheckedFirst
<1>5. ListDevices => CommissionInv'
  <2> SUFFICES ASSUME ListDevices PROVE CommissionInv'
    OBVIOUS
  <2> DEFINE page == Page(campaign.skip)
             seen == campaign.known \cup page
             skip == campaign.skip + Cardinality(page)
             listing == [pc : {"list"}, fleet : Fleets, known : SUBSET Tags, skip : Nat]
  <2>1. campaign \in listing /\ campaign # Nobody
    BY <1>1 DEF ListDevices, CommissionTypeOK, Campaigns, Nobody
  <2>2. page \subseteq Tags /\ Cardinality(page) \in Nat
    <3>1. page \subseteq Tags
      BY <1>1 DEF Page, CommissionTypeOK
    <3> HIDE DEF page
    <3>2. QED
      BY <3>1, FS_Subset, FS_CardinalityType, CommissionAssumption
  <2> HIDE DEF page
  <2>3. seen \in SUBSET Tags /\ skip \in Nat
    BY <2>1, <2>2
  <2> DEFINE ready == [pc |-> "issue", fleet |-> campaign.fleet, known |-> seen,
                       left |-> campaign.fleet, labels |-> {}]
             next1 == [campaign EXCEPT !.known = seen]
             next == [next1 EXCEPT !.skip = skip]
  <2>4. campaign' = ready \/ campaign' = next
    BY DEF ListDevices, page
  <2>5. UNCHANGED <<profile, declared, issued, sheet, formVars>>
    BY DEF ListDevices
  <2> HIDE DEF seen, skip
  <2>6. ready \in Campaigns /\ Ongoing(ready.fleet, ready.left, ready.labels, issued)
    BY <2>1, <2>3 DEF Campaigns, Fleets, Ongoing, Sown
  <2>7. next1 \in listing
    BY <2>1, <2>3
  <2> HIDE DEF next1
  <2>8. next \in Campaigns /\ next.pc = "list"
    BY <2>3, <2>7 DEF Campaigns
  <2> HIDE DEF next, ready
  <2>9. Sound
    BY <1>1, <2>1 DEF CheckedFirst
  <2>10. QED
    BY <1>1, <1>2, <2>4, <2>5, <2>6, <2>8, <2>9, ToolStays DEF CommissionTypeOK
<1>6. WriteArtifacts => CommissionInv'
  <2> SUFFICES ASSUME WriteArtifacts PROVE CommissionInv'
    OBVIOUS
  <2>1. /\ campaign.pc = "issue" /\ campaign.left = {} /\ campaign' = Nobody
        /\ sheet' = [for |-> campaign.fleet, labels |-> campaign.labels]
        /\ UNCHANGED <<profile, declared, issued, formVars>>
    BY DEF WriteArtifacts
  <2>2. campaign.fleet \in SUBSET Tags /\ campaign.labels \in SUBSET Labels
    BY <1>1, <2>1 DEF CommissionTypeOK, Campaigns, Nobody, Fleets
  <2>3. Ongoing(sheet'.for, {}, sheet'.labels, issued)
    BY <1>1, <2>1 DEF RequestsAgree
  <2>4. QED
    BY <1>1, <1>2, <2>1, <2>2, <2>3, ToolStays DEF CommissionTypeOK
<1>7. WriteFails => CommissionInv'
  BY <1>1, <1>2, ToolStays DEF WriteFails, CommissionTypeOK
<1>8. QED
  BY <1>3, <1>4, <1>5, <1>6, <1>7

\* A row of the tool: its token is issued, or a call of it fails.
LEMMA RowStep ==
    ASSUME CommissionInv, CallFails \/ (\E t \in Tags : IssueToken(t))
    PROVE  CommissionInv'
<1>1. CommissionTypeOK /\ RequestsAgree /\ CheckedFirst /\ CookiesAgree
  BY DEF CommissionInv
<1>2. ASSUME NEW t \in Tags, Issue(t), UNCHANGED <<profile, sheet, formVars>>,
             declared' \subseteq Tags, campaign' \in Campaigns, Sound,
             campaign'.pc = "issue" =>
                 Ongoing(campaign'.fleet, campaign'.left, campaign'.labels, issued')
      PROVE  CommissionInv'
  <2>1. CommissionTypeOK'
    BY <1>1, <1>2, IssueGrows DEF CommissionTypeOK, formVars
  <2>2. RequestsAgree'
    BY <1>2, IssueGrows DEF RequestsAgree, formVars
  <2>3. CheckedFirst' /\ CookiesAgree'
    BY <1>1, <1>2, SoundStays DEF CheckedFirst, CookiesAgree, formVars
  <2>4. QED
    BY <2>1, <2>2, <2>3, CommissionFollowsNext DEF CommissionInv
<1>3. ASSUME NEW t \in Tags, IssueToken(t) PROVE CommissionInv'
  <2> DEFINE rest == campaign.left \ {t}
             all == campaign.labels \cup {Label(t)}
  <2>1. campaign.pc = "issue" /\ t \in campaign.left /\ Issue(t) /\ declared' = declared \cup {t}
        /\ campaign' = [campaign EXCEPT !.left = rest, !.labels = all]
        /\ UNCHANGED <<profile, sheet, formVars>>
    BY <1>3 DEF IssueToken
  <2>2. campaign.left \subseteq Tags /\ campaign.labels \subseteq Labels /\ campaign # Nobody
    BY <1>1, <2>1 DEF CommissionTypeOK, Campaigns, Nobody
  <2>3. rest \in SUBSET Tags /\ all \in SUBSET Labels
    BY <2>1, <2>2, IssueGrows
  <2>4. Ongoing(campaign.fleet, rest, all, issued')
    <3>1. Ongoing(campaign.fleet, campaign.left, campaign.labels, issued)
      BY <1>1, <2>1 DEF RequestsAgree
    <3>2. issued \in Seq(Tags) /\ issued' = Append(issued, t)
      BY <2>1, IssueGrows
    <3>3. QED
      BY <2>1, <2>2, <3>1, <3>2, OngoingStep DEF Label
  <2> HIDE DEF rest, all
  <2>5. /\ campaign' \in Campaigns /\ campaign'.pc = "issue" /\ campaign'.fleet = campaign.fleet
        /\ campaign'.left = rest /\ campaign'.labels = all
    <3>1. CommissionTypeOK /\ campaign.pc = "issue"
          /\ campaign' = [campaign EXCEPT !.left = rest, !.labels = all]
      BY <1>1, <2>1
    <3>2. rest \in SUBSET Tags /\ all \in SUBSET Labels
      BY <2>3
    <3>3. QED
      BY <3>1, <3>2, CampaignRows
  <2>6. Sound /\ declared' \subseteq Tags
    BY <1>1, <2>1, <2>2 DEF CheckedFirst, CommissionTypeOK
  <2>7. QED
    BY <1>2, <2>1, <2>4, <2>5, <2>6
<1>4. CallFails => CommissionInv'
  <2> SUFFICES ASSUME CallFails PROVE CommissionInv'
    OBVIOUS
  <2>1. /\ campaign' = Nobody /\ Nobody \in Campaigns /\ Nobody.pc # "issue"
        /\ campaign # Nobody /\ UNCHANGED <<profile, sheet, formVars>>
    BY DEF CallFails, Nobody, Campaigns
  <2>2. Sound
    BY <1>1, <2>1 DEF CheckedFirst
  <2>3. CASE UNCHANGED <<declared, issued>>
    BY <1>1, <2>1, <2>3, ToolStays DEF CommissionTypeOK, RequestsAgree
  <2>4. CASE campaign.pc = "issue" /\ \E t \in campaign.left : Served(t)
    <3>1. campaign.left \subseteq Tags
      BY <1>1, <2>4 DEF CommissionTypeOK, Campaigns, Nobody
    <3>2. PICK t \in Tags : Served(t)
      BY <2>4, <3>1
    <3>3. declared' \subseteq Tags
      BY <1>1, <3>2 DEF Served, CommissionTypeOK
    <3>4. CASE Issue(t)
      BY <1>2, <2>1, <2>2, <3>3, <3>4
    <3>5. CASE UNCHANGED issued
      BY <1>1, <2>1, <3>3, <3>5, ToolStays DEF CommissionTypeOK, RequestsAgree
    <3>6. QED
      BY <3>2, <3>4, <3>5 DEF Served
  <2>5. QED
    BY <2>3, <2>4 DEF CallFails
<1>5. QED
  BY <1>3, <1>4

\* A step of the page, which leaves the tool alone.
LEMMA PageStays ==
    ASSUME CommissionInv, UNCHANGED <<profile, declared, toolVars>>,
           UNCHANGED issued \/ \E t \in Tags : Issue(t),
           form' \in Forms, shown' \in [for : SUBSET Tags, labels : SUBSET Labels],
           cookies' \in [refresh : Nat, access : BOOLEAN], newest' \in Nat, open' \in BOOLEAN,
           expiries' \in 0..MaxExpiries,
           form'.pc = "issue" => Ongoing(form'.for, form'.left, form'.labels, issued'),
           UNCHANGED shown \/ Ongoing(shown'.for, {}, shown'.labels, issued'),
           form' # Nobody \/ issued' # issued => Sound,
           CookiesAgree'
    PROVE  CommissionInv'
<1>1. CommissionTypeOK /\ RequestsAgree /\ CheckedFirst
  BY DEF CommissionInv
<1>2. /\ issued' \in Seq(Tags) /\ Len(issued') <= MaxTokens
      /\ Ongoing(sheet.for, {}, sheet.labels, issued')
      /\ Ongoing(shown.for, {}, shown.labels, issued')
      /\ campaign.pc = "issue" => Ongoing(campaign.fleet, campaign.left, campaign.labels, issued')
  <2>1. CASE UNCHANGED issued
    BY <1>1, <2>1 DEF CommissionTypeOK, RequestsAgree
  <2>2. CASE \E t \in Tags : Issue(t)
    BY <2>2, IssueGrows
  <2>3. QED
    BY <2>1, <2>2
<1>3. CommissionTypeOK'
  BY <1>1, <1>2 DEF CommissionTypeOK, toolVars
<1>4. RequestsAgree'
  BY <1>2 DEF RequestsAgree, toolVars
<1>5. CheckedFirst'
  BY <1>1, SoundStays DEF CheckedFirst, toolVars
<1>6. QED
  BY <1>3, <1>4, <1>5, CommissionFollowsNext DEF CommissionInv

\* The request of the page, of a known form.
LEMMA FormFields ==
    ASSUME CommissionTypeOK
    PROVE  /\ Nobody \in Forms /\ Nobody.pc # "issue"
           /\ form.pc = "issue" =>
                  /\ form # Nobody /\ form.left \subseteq Tags /\ form.labels \subseteq Labels
                  /\ form.for \in Fleets /\ form.rotated \in Nat
           /\ form # Nobody => form.pc = "issue"
           /\ cookies.refresh \in Nat /\ newest \in Nat
  BY DEF CommissionTypeOK, Forms, Nobody

LEMMA FormAccess ==
    ASSUME CommissionTypeOK, form.pc = "issue"
    PROVE  form.access \in BOOLEAN
  BY DEF CommissionTypeOK, Forms, Nobody

LEMMA CookieAccess == CommissionTypeOK => cookies.access \in BOOLEAN
  BY DEF CommissionTypeOK

\* The steps of the page that rotate nothing.
LEMMA LabelStep ==
    ASSUME CommissionInv,
           \/ IssueFails \/ Replayed
           \/ (\E fleet \in Fleets : Generate(fleet)) \/ (\E t \in Tags : IssueLabel(t))
    PROVE  CommissionInv'
<1>1. CommissionTypeOK /\ RequestsAgree /\ CheckedFirst /\ CookiesAgree
  BY DEF CommissionInv
<1>2. /\ shown \in [for : SUBSET Tags, labels : SUBSET Labels]
      /\ cookies \in [refresh : Nat, access : BOOLEAN] /\ newest \in Nat
      /\ open \in BOOLEAN /\ FALSE \in BOOLEAN /\ expiries \in 0..MaxExpiries
  <2>1. FALSE \in BOOLEAN
    BY Zenon
  <2>2. QED
    BY <1>1, <2>1 DEF CommissionTypeOK
<1>3. /\ Nobody \in Forms /\ Nobody.pc # "issue"
      /\ form.pc = "issue" => /\ form # Nobody /\ form.left \subseteq Tags
                              /\ form.labels \subseteq Labels
      /\ cookies.refresh \in Nat /\ newest \in Nat
  BY <1>1, FormFields
<1>4. ASSUME NEW fleet \in Fleets, Generate(fleet) PROVE CommissionInv'
  <2>1. /\ Sound /\ UNCHANGED <<profile, declared, issued, toolVars, shown, cookies, newest, open, expiries>>
        /\ form' = [pc |-> "issue", for |-> fleet, left |-> fleet, labels |-> {},
                    access |-> cookies.access, rotated |-> 0]
    BY <1>4 DEF Generate
  <2>2. form' \in Forms
    <3>1. cookies.access \in BOOLEAN
      BY <1>1, CookieAccess
    <3>2. fleet \in SUBSET Tags /\ 0 \in Nat
      BY DEF Fleets
    <3>3. QED
      BY <2>1, <3>1, <3>2 DEF Forms
  <2>3. /\ form'.pc = "issue" /\ form'.rotated = 0 /\ form'.left = form'.for
        /\ form'.labels = {}
    BY <2>1
  <2>4. form'.access <=> cookies.access
    BY <2>1
  <2>5. CookiesAgree'
    BY <1>1, <2>1, <2>3, <2>4 DEF CookiesAgree
  <2>6. Ongoing(form'.for, form'.left, form'.labels, issued')
    BY <2>3 DEF Ongoing, Sown
  <2>7. QED
    BY <1>2, <2>1, <2>2, <2>5, <2>6, PageStays
<1>5. ASSUME NEW t \in Tags, IssueLabel(t) PROVE CommissionInv'
  <2> DEFINE rest == form.left \ {t}
             all == form.labels \cup {Label(t)}
  <2>1. /\ form.pc = "issue" /\ form.access /\ t \in form.left /\ Issue(t)
        /\ \/ form' = [form EXCEPT !.left = rest, !.labels = all]
           \/ form' = Nobody
        /\ UNCHANGED <<profile, declared, toolVars, shown, cookies, newest, open, expiries>>
    BY <1>5 DEF IssueLabel
  <2>2. Sound
    BY <1>1, <1>3, <2>1 DEF CheckedFirst
  <2>3. CASE form' = Nobody
    <3>1. CookiesAgree'
      BY <1>1, <1>3, <2>1, <2>3 DEF CookiesAgree
    <3>2. QED
      BY <1>2, <1>3, <2>1, <2>2, <2>3, <3>1, PageStays
  <2>4. CASE form' = [form EXCEPT !.left = rest, !.labels = all]
    <3>1. rest \in SUBSET Tags /\ all \in SUBSET Labels
      BY <1>3, <2>1, IssueGrows
    <3>2. Ongoing(form.for, rest, all, issued')
      <4>1. Ongoing(form.for, form.left, form.labels, issued)
        BY <1>1, <2>1 DEF RequestsAgree
      <4>2. issued \in Seq(Tags) /\ issued' = Append(issued, t)
        BY <2>1, IssueGrows
      <4>3. QED
        BY <1>3, <2>1, <4>1, <4>2, OngoingStep DEF Label
    <3> HIDE DEF rest, all
    <3>3. /\ form' \in Forms /\ form'.pc = "issue" /\ form'.for = form.for /\ form'.left = rest
          /\ form'.labels = all /\ form'.rotated = form.rotated /\ form'.access = form.access
      BY <1>1, <2>1, <2>4, <3>1, FormRows
    <3>4. form'.access
      BY <2>1, <3>3, Zenon
    <3>5. CookiesAgree'
      BY <1>1, <2>1, <3>3, <3>4 DEF CookiesAgree
    <3>6. QED
      BY <1>2, <2>1, <2>2, <3>2, <3>3, <3>5, PageStays
  <2>5. QED
    BY <2>1, <2>3, <2>4
<1>6. IssueFails => CommissionInv'
  <2> SUFFICES ASSUME IssueFails PROVE CommissionInv'
    OBVIOUS
  <2>1. /\ form.pc = "issue" /\ form' = Nobody
        /\ UNCHANGED <<profile, declared, toolVars, shown, cookies, open, expiries>>
        /\ \/ UNCHANGED <<issued, newest>>
           \/ UNCHANGED newest /\ \E t \in form.left : Issue(t)
           \/ ~form.access /\ newest' = newest + 1 /\ UNCHANGED issued
    BY DEF IssueFails
  <2>2. Sound
    BY <1>1, <1>3, <2>1 DEF CheckedFirst
  <2>3. CookiesAgree'
    BY <1>1, <1>3, <2>1 DEF CookiesAgree
  <2>4. newest' \in Nat /\ (UNCHANGED issued \/ \E t \in Tags : Issue(t))
    BY <1>3, <2>1
  <2>5. QED
    BY <1>2, <1>3, <2>1, <2>2, <2>3, <2>4, PageStays
<1>7. Replayed => CommissionInv'
  <2> SUFFICES ASSUME Replayed PROVE CommissionInv'
    OBVIOUS
  <2>1. /\ form' = Nobody /\ open' = FALSE
        /\ UNCHANGED <<profile, declared, issued, toolVars, shown, cookies, newest, expiries>>
    BY DEF Replayed
  <2>2. CookiesAgree'
    BY <1>1, <1>3, <2>1 DEF CookiesAgree
  <2>3. QED
    BY <1>2, <1>3, <2>1, <2>2, PageStays
<1>8. QED
  BY <1>4, <1>5, <1>6, <1>7

\* The refresh token is exchanged for the next.
LEMMA RotateStep == CommissionInv /\ Rotate => CommissionInv'
<1> SUFFICES ASSUME CommissionInv, Rotate PROVE CommissionInv'
  OBVIOUS
<1>1. CommissionTypeOK /\ RequestsAgree /\ CheckedFirst /\ CookiesAgree
  BY DEF CommissionInv
<1> DEFINE row == [pc : {"issue"}, for : Fleets, left : SUBSET Tags, labels : SUBSET Labels,
                   access : BOOLEAN, rotated : Nat]
           f1 == [form EXCEPT !.access = TRUE]
<1>2. /\ form.pc = "issue" /\ ~form.access /\ newest' = newest + 1
      /\ form' = [f1 EXCEPT !.rotated = newest + 1]
      /\ UNCHANGED <<profile, declared, issued, toolVars, shown, cookies, open, expiries>>
  BY DEF Rotate
<1>3. form \in row
  BY <1>1, <1>2 DEF CommissionTypeOK, Forms, Nobody
<1>4. TRUE \in BOOLEAN
  BY Zenon
<1>5. f1 \in row /\ f1.for = form.for /\ f1.left = form.left /\ f1.labels = form.labels
  BY <1>3, <1>4
<1>6. newest' \in Nat /\ newest' # 0
  BY <1>1, <1>2, FormFields
<1>7. f1.access
  BY <1>3, Zenon
<1> HIDE DEF f1
<1>8. form' \in row /\ form'.for = form.for /\ form'.left = form.left /\ form'.labels = form.labels
      /\ form'.rotated = newest'
  BY <1>2, <1>5, <1>6
<1>9. form'.access
  <2>1. form'.access = f1.access
    BY <1>2, <1>5
  <2>2. QED
    BY <1>7, <2>1, Zenon
<1>10. ~cookies.access
  BY <1>1, <1>2 DEF CookiesAgree
<1>11. CookiesAgree'
  BY <1>2, <1>6, <1>8, <1>9, <1>10 DEF CookiesAgree
<1>12. Sound /\ Ongoing(form'.for, form'.left, form'.labels, issued')
  BY <1>1, <1>2, <1>8 DEF RequestsAgree, CheckedFirst, Nobody
<1>13. form' \in Forms
  BY <1>8 DEF Forms
<1>14. QED
  BY <1>1, <1>2, <1>6, <1>11, <1>12, <1>13, PageStays DEF CommissionTypeOK

\* The cookies of the answer hold the refresh token not yet used.
LEMMA AnswerKept ==
    ASSUME CommissionInv, AnswerLabels
    PROVE  cookies'.refresh = newest' /\ cookies' \in [refresh : Nat, access : BOOLEAN]
<1>1. CommissionTypeOK /\ CookiesAgree
  BY DEF CommissionInv
<1>2. /\ form.pc = "issue" /\ form.left = {} /\ UNCHANGED newest
      /\ cookies' = IF form.rotated = 0 THEN cookies
                    ELSE [refresh |-> form.rotated, access |-> form.access]
  BY DEF AnswerLabels
<1>3. form.for \in Fleets /\ form.rotated \in Nat /\ form.access \in BOOLEAN
  BY <1>1, <1>2, FormFields, FormAccess
<1>4. cookies' \in [refresh : Nat, access : BOOLEAN]
  <2>1. CASE form.rotated = 0
    BY <1>1, <1>2, <2>1 DEF CommissionTypeOK
  <2>2. CASE form.rotated # 0
    BY <1>2, <1>3, <2>2
  <2>3. QED
    BY <2>1, <2>2
<1>5. form.left # form.for
  BY <1>2, <1>3 DEF Fleets
<1>6. cookies'.refresh = newest
  <2>1. CASE form.rotated = 0
    <3>1. cookies.refresh = newest
      BY <1>1, <1>2, <1>5, <2>1 DEF CookiesAgree
    <3>2. QED
      BY <1>2, <2>1, <3>1
  <2>2. CASE form.rotated # 0
    <3>1. form.rotated = newest
      BY <1>1, <1>2, <2>2 DEF CookiesAgree
    <3>2. QED
      BY <1>2, <2>2, <3>1
  <2>3. QED
    BY <2>1, <2>2
<1>7. QED
  BY <1>2, <1>4, <1>6

LEMMA AnswerStep == CommissionInv /\ AnswerLabels => CommissionInv'
<1> SUFFICES ASSUME CommissionInv, AnswerLabels PROVE CommissionInv'
  OBVIOUS
<1>1. CommissionTypeOK /\ RequestsAgree
  BY DEF CommissionInv
<1>2. /\ form.pc = "issue" /\ form.left = {} /\ form' = Nobody
      /\ shown' = [for |-> form.for, labels |-> form.labels]
      /\ UNCHANGED <<profile, declared, issued, toolVars, newest, open, expiries>>
  BY DEF AnswerLabels
<1>3. /\ Nobody \in Forms /\ Nobody.pc # "issue" /\ newest \in Nat
      /\ form.for \in Fleets /\ form.labels \subseteq Labels
  BY <1>1, <1>2, FormFields
<1>4. shown' \in [for : SUBSET Tags, labels : SUBSET Labels]
  BY <1>2, <1>3 DEF Fleets
<1>5. Ongoing(shown'.for, {}, shown'.labels, issued')
  BY <1>1, <1>2 DEF RequestsAgree
<1>6. cookies'.refresh = newest' /\ cookies' \in [refresh : Nat, access : BOOLEAN]
  BY AnswerKept
<1>7. CookiesAgree'
  BY <1>2, <1>3, <1>6 DEF CookiesAgree
<1>8. open' \in BOOLEAN /\ expiries' \in 0..MaxExpiries /\ newest' \in Nat
  BY <1>1, <1>2 DEF CommissionTypeOK
<1>9. QED
  BY <1>2, <1>3, <1>4, <1>5, <1>6, <1>7, <1>8, PageStays

LEMMA AccessEndsStep == CommissionInv /\ AccessEnds => CommissionInv'
<1> SUFFICES ASSUME CommissionInv, AccessEnds PROVE CommissionInv'
  OBVIOUS
<1>1. CommissionTypeOK /\ RequestsAgree /\ CheckedFirst /\ CookiesAgree
  BY DEF CommissionInv
<1>2. /\ expiries < MaxExpiries /\ expiries' = expiries + 1
      /\ cookies' = [cookies EXCEPT !.access = FALSE]
      /\ form' = IF form = Nobody THEN form ELSE [form EXCEPT !.access = FALSE]
      /\ UNCHANGED <<profile, declared, issued, toolVars, shown, newest, open>>
  BY DEF AccessEnds
<1>3. FALSE \in BOOLEAN
  BY Zenon
<1>4. cookies \in [refresh : Nat, access : BOOLEAN]
  BY <1>1 DEF CommissionTypeOK
<1>5. cookies' \in [refresh : Nat, access : BOOLEAN] /\ cookies'.refresh = cookies.refresh
  BY <1>2, <1>3, <1>4
<1>6. ~cookies'.access
  BY <1>2, <1>4, Zenon
<1>7. expiries' \in 0..MaxExpiries
  BY <1>1, <1>2, CommissionAssumption DEF CommissionTypeOK
<1>8. newest' \in Nat /\ open' \in BOOLEAN
  BY <1>1, <1>2 DEF CommissionTypeOK
<1>9. shown' \in [for : SUBSET Tags, labels : SUBSET Labels]
  BY <1>1, <1>2 DEF CommissionTypeOK
<1>10. /\ Nobody \in Forms /\ Nobody.pc # "issue"
       /\ form # Nobody => form.pc = "issue"
  BY <1>1, FormFields
<1>11. CASE form = Nobody
  <2>1. form' = Nobody
    BY <1>2, <1>11
  <2>2. CookiesAgree'
    BY <1>6, <1>10, <2>1 DEF CookiesAgree
  <2>3. QED
    BY <1>2, <1>5, <1>7, <1>8, <1>9, <1>10, <2>1, <2>2, PageStays
<1>12. CASE form # Nobody
  <2> DEFINE row == [pc : {"issue"}, for : Fleets, left : SUBSET Tags, labels : SUBSET Labels,
                     access : BOOLEAN, rotated : Nat]
  <2>1. form \in row /\ form.pc = "issue"
    BY <1>1, <1>12 DEF CommissionTypeOK, Forms
  <2>2. form' = [form EXCEPT !.access = FALSE]
    BY <1>2, <1>12
  <2>3. /\ form' \in row /\ form'.for = form.for /\ form'.left = form.left
        /\ form'.labels = form.labels /\ form'.rotated = form.rotated
    BY <1>3, <2>1, <2>2
  <2>4. ~form'.access
    BY <2>1, <2>2, Zenon
  <2>5. CookiesAgree'
    BY <1>1, <1>2, <1>5, <1>6, <2>1, <2>3, <2>4 DEF CookiesAgree
  <2>6. Sound /\ Ongoing(form'.for, form'.left, form'.labels, issued')
    BY <1>1, <1>2, <1>12, <2>1, <2>3 DEF RequestsAgree, CheckedFirst
  <2>7. form' \in Forms
    BY <2>3 DEF Forms
  <2>8. QED
    BY <1>2, <1>5, <1>7, <1>8, <1>9, <2>5, <2>6, <2>7, PageStays
<1>13. QED
  BY <1>11, <1>12

LEMMA CommissionStays == CommissionInv /\ [CommissionNext]_commissionVars => CommissionInv'
<1> SUFFICES ASSUME CommissionInv, [CommissionNext]_commissionVars PROVE CommissionInv'
  OBVIOUS
<1>1. CASE UNCHANGED commissionVars
  BY <1>1, SoundStays DEF commissionVars, CommissionInv, CommissionTypeOK, RequestsAgree, CheckedFirst,
     CookiesAgree, LabelsComplete, Complete, ConfigurationFirst, AcceptedProvisions
<1>2. CASE CommissionNext
  BY <1>2, ToolStep, RowStep, LabelStep, RotateStep, AnswerStep, AccessEndsStep, Zenon
     DEF CommissionNext
<1>3. QED
  BY <1>1, <1>2

\* Only an answer changes what the page shows.
LEMMA RotationStep ==
    CommissionInv /\ [CommissionNext]_commissionVars /\ shown' # shown
    => cookies'.refresh = newest'
<1> SUFFICES ASSUME CommissionInv, [CommissionNext]_commissionVars, shown' # shown
             PROVE  AnswerLabels
  BY AnswerKept
<1>1. CommissionNext
  BY DEF commissionVars
<1>2. QED
  BY <1>1 DEF CommissionNext, RunBatch, Generate, IssueToken, Declare, IssueLabel, ListDevices,
     CallFails, WriteArtifacts, WriteFails, Rotate, Replayed, IssueFails, AccessEnds, formVars

-----------------------------------------------------------------------------
(* By cable *)

LEMMA OnlyOne ==
    ASSUME NEW s \in SUBSET Handhelds, Cardinality(s) = 1
    PROVE  Only(s) \in Handhelds
<1>1. IsFiniteSet(s)
  BY FS_Subset, BenchAssumption
<1>2. s # {}
  BY <1>1, FS_EmptySet
<1>3. Only(s) \in s
  BY <1>2 DEF Only
<1>4. QED
  BY <1>3

LEMMA SomeTarget ==
    ASSUME NEW serial \in Targets, NEW devices
    PROVE  TargetOf(serial, devices) \in Targets
<1>1. UsableByUsb(devices) \in SUBSET Handhelds
  BY DEF UsableByUsb
<1>2. QED
  BY <1>1, OnlyOne DEF TargetOf, Targets

\* What people and dpm change inside a phone.
LEMMA InsideChanges ==
    ASSUME inside \in [Handhelds -> Insides], NEW h \in Handhelds
    PROVE  /\ [inside EXCEPT ![h].owner = "ours"] \in [Handhelds -> Insides]
           /\ [inside EXCEPT ![h].account = ~@] \in [Handhelds -> Insides]
           /\ [inside EXCEPT ![h].installed = TRUE] \in [Handhelds -> Insides]
<1>1. inside[h] \in Insides
  OBVIOUS
<1>2. [inside[h] EXCEPT !.owner = "ours"] \in Insides
  BY <1>1 DEF Insides
<1>3. [inside[h] EXCEPT !.account = ~inside[h].account] \in Insides
  <2>1. inside[h].account \in BOOLEAN
    BY <1>1 DEF Insides
  <2>2. (~inside[h].account) \in BOOLEAN
    BY <2>1, Zenon
  <2> DEFINE b == ~inside[h].account
  <2>3. b \in BOOLEAN
    BY <2>2
  <2> HIDE DEF b
  <2>4. [inside[h] EXCEPT !.account = b] \in Insides
    BY <1>1, <2>3 DEF Insides
  <2>5. QED
    BY <2>4 DEF b
<1>4. [inside[h] EXCEPT !.installed = TRUE] \in Insides
  <2>1. TRUE \in BOOLEAN
    BY Zenon
  <2> DEFINE b == TRUE
  <2>2. b \in BOOLEAN
    BY <2>1
  <2> HIDE DEF b
  <2>3. [inside[h] EXCEPT !.installed = b] \in Insides
    BY <1>1, <2>2 DEF Insides
  <2>4. QED
    BY <2>3 DEF b
<1> DEFINE o == [inside[h] EXCEPT !.owner = "ours"]
           a == [inside[h] EXCEPT !.account = ~inside[h].account]
           i == [inside[h] EXCEPT !.installed = TRUE]
<1>5. /\ [inside EXCEPT ![h].owner = "ours"] = [inside EXCEPT ![h] = o]
      /\ [inside EXCEPT ![h].account = ~@] = [inside EXCEPT ![h] = a]
      /\ [inside EXCEPT ![h].installed = TRUE] = [inside EXCEPT ![h] = i]
  BY Zenon
<1>6. o \in Insides /\ a \in Insides /\ i \in Insides
  BY <1>2, <1>3, <1>4
<1> HIDE DEF o, a, i
<1>7. QED
  BY <1>5, <1>6

LEMMA UsbStarts == UsbInit => UsbInv
<1> SUFFICES ASSUME UsbInit PROVE UsbInv
  OBVIOUS
<1>1. inside \in [Handhelds -> Insides]
  BY DEF UsbInit, Insides
<1>2. QED
  BY <1>1, BenchAssumption DEF UsbInit, UsbInv, UsbTypeOK, RoleOfTheExamined

LEMMA UsbStays == UsbInv /\ [UsbNext]_usbVars => UsbInv'
<1> SUFFICES ASSUME UsbInv, [UsbNext]_usbVars PROVE UsbInv'
  OBVIOUS
<1> DEFINE Asked == [phone : Handhelds, target : Handhelds, seen : Insides, now : Insides]
           Looks == [pc : {"checked"}, serial : Targets, target : Targets, seen : Insides,
                     devices : [Handhelds -> States]]
<1>1. /\ bench \in [Handhelds -> States] /\ inside \in [Handhelds -> Insides]
      /\ usb = Resting \/ usb \in Looks
      /\ roles \subseteq Asked /\ gestures \in 0..MaxHandling
      /\ RoleOfTheExamined
  BY DEF UsbInv, UsbTypeOK
<1>2. ASSUME UNCHANGED roles, usb' = Resting \/ usb' \in Looks, UNCHANGED <<bench, inside, gestures>>
      PROVE  UsbInv'
  BY <1>1, <1>2 DEF UsbInv, UsbTypeOK, RoleOfTheExamined
<1>3. ASSUME NEW s \in Targets, InspectDevice(s) PROVE UsbInv'
  <2> DEFINE target == TargetOf(s, bench)
             seen == IF target # None /\ bench[target] = "device" THEN inside[target] ELSE Unseen
  <2>1. target \in Targets
    BY SomeTarget
  <2>2. Unseen \in Insides
    <3>1. FALSE \in BOOLEAN
      BY Zenon
    <3>2. QED
      BY <3>1 DEF Unseen, Insides
  <2>3. seen \in Insides
    BY <1>1, <2>1, <2>2 DEF Targets
  <2>4. usb' = [pc |-> "checked", serial |-> s, target |-> target, devices |-> bench, seen |-> seen]
        /\ UNCHANGED <<bench, inside, roles, gestures>>
    BY <1>3 DEF InspectDevice
  <2> HIDE DEF target, seen
  <2>5. usb' \in Looks
    BY <1>1, <2>1, <2>3, <2>4
  <2>6. QED
    BY <1>2, <2>4, <2>5
<1>4. RefuseUnit \/ ShowCommand => UsbInv'
  BY <1>2 DEF RefuseUnit, ShowCommand
<1>5. SetDeviceOwner => UsbInv'
  <2> SUFFICES ASSUME SetDeviceOwner PROVE UsbInv'
    OBVIOUS
  <2>1. usb.pc = "checked" /\ ~Blocking(usb) /\ usb' = Resting /\ UNCHANGED <<bench, gestures>>
    BY DEF SetDeviceOwner
  <2>2. CASE UNCHANGED <<inside, roles>>
    BY <1>2, <2>1, <2>2
  <2>3. CASE \E h \in Reached(usb.target) : Dpm(h)
    <3>1. PICK h \in Reached(usb.target) : Dpm(h)
      BY <2>3
    <3>2. usb \in Looks
      BY <1>1, <2>1 DEF Resting
    <3>3. usb.target # None /\ usb.seen.installed /\ ~usb.seen.account /\ usb.seen.owner = "none"
      BY <2>1 DEF Blocking
    <3>4. h = usb.target /\ h \in Handhelds
      BY <3>1, <3>3 DEF Reached, UsableByUsb
    <3>5. usb.seen = [account |-> FALSE, installed |-> TRUE, owner |-> "none"]
      <4>1. usb.seen \in Insides
        BY <3>2
      <4>2. /\ usb.seen.account \in BOOLEAN /\ usb.seen.installed \in BOOLEAN
            /\ usb.seen = [account |-> usb.seen.account, installed |-> usb.seen.installed,
                           owner |-> usb.seen.owner]
        BY <4>1 DEF Insides
      <4>3. usb.seen.account = FALSE /\ usb.seen.installed = TRUE
        BY <3>3, <4>2, Zenon
      <4>4. QED
        BY <3>3, <4>2, <4>3
    <3> DEFINE asked == [phone |-> h, target |-> usb.target, seen |-> usb.seen, now |-> inside[h]]
    <3>6. asked \in Asked /\ asked.phone = asked.target /\ asked.seen = usb.seen
      BY <1>1, <3>2, <3>4
    <3>7. roles' = roles \cup {asked}
      BY <3>1 DEF Dpm
    <3> HIDE DEF asked
    <3>8. RoleOfTheExamined' /\ roles' \subseteq Asked
      BY <1>1, <3>5, <3>6, <3>7 DEF RoleOfTheExamined
    <3>9. inside' \in [Handhelds -> Insides]
      BY <1>1, <3>1, <3>4, InsideChanges DEF Dpm
    <3>10. QED
      BY <1>1, <2>1, <3>8, <3>9 DEF UsbInv, UsbTypeOK
  <2>4. QED
    BY <2>2, <2>3 DEF SetDeviceOwner
<1>6. ASSUME NEW h \in Handhelds, Handle(h) PROVE UsbInv'
  <2>1. bench' \in [Handhelds -> States] /\ inside' \in [Handhelds -> Insides]
    BY <1>1, <1>6, InsideChanges DEF Handle
  <2>2. gestures' \in 0..MaxHandling /\ UNCHANGED <<usb, roles>>
    BY <1>1, <1>6, BenchAssumption DEF Handle
  <2>3. QED
    BY <1>1, <2>1, <2>2 DEF UsbInv, UsbTypeOK, RoleOfTheExamined
<1>7. CASE UNCHANGED usbVars
  BY <1>1, <1>2, <1>7 DEF usbVars
<1>8. QED
  BY <1>3, <1>4, <1>5, <1>6, <1>7 DEF UsbNext

-----------------------------------------------------------------------------
(* The theorems *)

\* Whatever the interleaving of the jobs, the pages and the phones, what is kept of a
\* company is right: a phone that occupied a window is on its invoice, a pass of the night
\* leaves no row past its term, a fence is the one of the depot's row, and, when the pushes
\* of a phone do not overlap, the state of a session follows the transitions written for
\* it, no late departure is silent, and the last position is that of the latest point.
THEOREM KeptForTheCompany ==
    BillingSpec /\ RetentionSpec /\ ReturnSpec /\ DepotPageSpec /\ PositionSpec => []KeptInv
<1>1. BillingSpec => []BillingInv
  BY BillingStarts, BillingStays, PTL DEF BillingSpec
<1>2. RetentionSpec => []RetentionInv
  BY RetentionStarts, RetentionStays, PTL DEF RetentionSpec
<1>3. ReturnSpec => []ReturnInv
  <2>1. ReturnInv /\ [ReturnNext]_returnVars => ReturnInv'
    BY ReturnStays
  <2>2. QED
    BY <2>1, ReturnStarts, PTL DEF ReturnSpec
<1>4. DepotPageSpec => []DepotPageInv
  BY DepotPageStarts, DepotPageStays, PTL DEF DepotPageSpec
<1>5. PositionSpec => []PositionInv
  BY PositionStarts, PositionStays, PTL DEF PositionSpec
<1>6. BillingInv /\ RetentionInv /\ ReturnInv /\ DepotPageInv /\ PositionInv => KeptInv
  BY DEF KeptInv
<1>7. QED
  BY <1>1, <1>2, <1>3, <1>4, <1>5, <1>6, PTL

\* A sheet of labels holds one label by phone asked for, each with its own token, issued
\* for that phone, of a configuration that was accepted and that provisions it; the role
\* of owner is asked by cable of the phone that was examined.
THEOREM PutInService == CommissionSpec /\ UsbSpec => []InServiceInv
<1>1. CommissionSpec => []CommissionInv
  BY CommissionStarts, CommissionStays, PTL DEF CommissionSpec
<1>2. UsbSpec => []UsbInv
  BY UsbStarts, UsbStays, PTL DEF UsbSpec
<1>3. CommissionInv /\ UsbInv => InServiceInv
  BY DEF InServiceInv
<1>4. QED
  BY <1>1, <1>2, <1>3, PTL

\* No step of a night erases a row before the term its company had when the pass read it,
\* and no answer leaves a page with a refresh token that was used.
THEOREM OfficeStepsHold == RetentionSpec /\ CommissionSpec => OfficeSteps
<1>1. RetentionInv /\ [RetentionNext]_retentionVars =>
          [\A r \in rows \ rows' : r.day < day - night.read[r.keeper][KindOf(r)]]_retentionVars
  BY NoneLostByStep
<1>2. RetentionSpec => NoneLostEarly
  BY <1>1, RetentionStarts, RetentionStays, PTL DEF RetentionSpec, NoneLostEarly
<1>3. CommissionInv /\ [CommissionNext]_commissionVars =>
          [shown' # shown => cookies'.refresh = newest']_commissionVars
  BY RotationStep
<1>4. CommissionSpec => RotationKept
  BY <1>3, CommissionStarts, CommissionStays, PTL DEF CommissionSpec, RotationKept
<1>5. QED
  BY <1>2, <1>4, PTL DEF OfficeSteps
=============================================================================
