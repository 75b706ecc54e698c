------------------------------ MODULE Billing ------------------------------
(***************************************************************************)
(* What Trajelys is told to invoice: the phones enrolled now, or removed   *)
(* since the start of the window, read on rows that keep one enrolment     *)
(* only.                                                                   *)
(***************************************************************************)
EXTENDS Integers, FiniteSets

CONSTANTS
    Rented,         \* phones of the company
    WindowDays,     \* days of a window
    EndDay          \* bound of the calendar

VARIABLES
    today,
    enrolment,  \* devices: status, enrolledAt, revokedAt
    occupied,   \* history: the days each phone was under management
    frozen      \* external: what Trajelys keeps, by window

billingVars == <<today, enrolment, occupied, frozen>>

ASSUME BillingAssumption ==
    IsFiniteSet(Rented) /\ WindowDays \in Nat \ {0} /\ EndDay \in Nat

NoDay == -1
WindowOf(d) == d \div WindowDays
Windows == 0..WindowOf(EndDay)
From(w) == w * WindowDays
Until(w) == (w + 1) * WindowDays

BillingTypeOK ==
    /\ today \in 0..EndDay
    /\ enrolment \in [Rented -> [status : {"PENDING", "ENROLLED", "REVOKED"},
                                 enrolledAt : NoDay..EndDay, revokedAt : NoDay..EndDay]]
    /\ occupied \in [Rented -> SUBSET (0..EndDay)]
    /\ frozen \in [Windows -> SUBSET Rented]

BillingInit ==
    /\ today = 0
    /\ enrolment = [p \in Rented |-> [status |-> "PENDING", enrolledAt |-> NoDay, revokedAt |-> NoDay]]
    /\ occupied = [p \in Rented |-> {}]
    /\ frozen = [w \in Windows |-> {}]

\* The transaction of enroll: an enrolment takes the place of the one before.
EnrolPhone(p) ==
    /\ enrolment' = [enrolment EXCEPT ![p] =
                        [status |-> "ENROLLED", enrolledAt |-> today, revokedAt |-> NoDay]]
    /\ occupied' = [occupied EXCEPT ![p] = @ \cup {today}]
    /\ UNCHANGED <<today, frozen>>

\* The transaction of revokeDevice, whatever the status.
RevokePhone(p) ==
    /\ enrolment' = [enrolment EXCEPT ![p].status = "REVOKED", ![p].revokedAt = today]
    /\ UNCHANGED <<today, occupied, frozen>>

appareilsFactures(w) ==
    {p \in Rented :
        /\ enrolment[p].enrolledAt \in 0..(Until(w) - 1)
        /\ enrolment[p].status = "ENROLLED" \/ enrolment[p].revokedAt >= From(w)}

\* External: Trajelys asks for a window that has begun and adds the answer.
Freeze(w) ==
    /\ From(w) <= today
    /\ frozen' = [frozen EXCEPT ![w] = @ \cup appareilsFactures(w)]
    /\ UNCHANGED <<today, enrolment, occupied>>

\* External: time.  Bound: EndDay.
PassDay ==
    /\ today < EndDay
    /\ today' = today + 1
    /\ occupied' = [p \in Rented |-> IF enrolment[p].status = "ENROLLED"
                                     THEN occupied[p] \cup {today'} ELSE occupied[p]]
    /\ UNCHANGED <<enrolment, frozen>>

BillingNext ==
    \/ \E p \in Rented : EnrolPhone(p) \/ RevokePhone(p)
    \/ \E w \in Windows : Freeze(w)
    \/ PassDay

BillingSpec == BillingInit /\ [][BillingNext]_billingVars

Occupies(p, w) == \E d \in occupied[p] : WindowOf(d) = w

(* A phone that was under management in a window during its present enrolment is in   *)
(* the answer for that window, whenever it is asked and whatever was done to the phone *)
(* since (trajelys-integration.service.ts:176-187).                                    *)
OccupiedIsBilled ==
    \A w \in Windows, p \in Rented :
        From(w) <= today /\ (\E d \in occupied[p] : WindowOf(d) = w /\ d >= enrolment[p].enrolledAt)
            => p \in appareilsFactures(w)

\* A phone enrolled was so by its present enrolment; one removed was not after.
EnrolmentsAgree ==
    \A p \in Rented :
        /\ occupied[p] \subseteq 0..today
        /\ enrolment[p].status = "PENDING" => occupied[p] = {}
        /\ occupied[p] # {} => enrolment[p].enrolledAt \in Nat
        /\ enrolment[p].status = "ENROLLED" => enrolment[p].enrolledAt \in Nat
        /\ enrolment[p].status = "REVOKED" =>
               \A d \in occupied[p] : d >= enrolment[p].enrolledAt => d <= enrolment[p].revokedAt

BillingInv == BillingTypeOK /\ EnrolmentsAgree /\ OccupiedIsBilled

(* Not held: a phone is frozen in a window it was under management in                  *)
(* (trajelys-integration.service.ts:176-178): revoked again later, it is counted again. *)
BilledIsOccupied == \A w \in Windows : \A p \in frozen[w] : Occupies(p, w)
=============================================================================
