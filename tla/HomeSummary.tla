---------------------------- MODULE HomeSummary ----------------------------
(***************************************************************************)
(* The figures of the home page: some sixteen counts asked for together    *)
(* and answered one by one, the "not returned" drawn from two of them, and *)
(* the graph of the last days.                                             *)
(***************************************************************************)
EXTENDS Integers, FiniteSets

CONSTANTS
    Trips,          \* sessions
    Fleet,         \* phones
    GraphDays,      \* days of the graph
    FinalDay        \* bound of the calendar

VARIABLES
    date,
    trip,       \* sessions: status, state, day of the start
    unitStatus,      \* devices.enrollmentStatus
    ask,        \* the summary being answered: the counts made so far
    calm,      \* history: nothing has changed since it was asked
    graph       \* the graph: its first and last day, its buckets

summaryVars == <<date, trip, unitStatus, ask, calm, graph>>

ASSUME SummaryAssumption ==
    /\ IsFiniteSet(Trips) /\ IsFiniteSet(Fleet)
    /\ GraphDays \in Nat \ {0} /\ FinalDay \in Nat

NoTrip == [status |-> "none", state |-> "none", day |-> 0]
Queries == {"total", "enrolled", "pending", "active", "returned"}
NoGraph == [asked |-> 0, count |-> [d \in {} |-> 0]]
Asked == ask.pc = "counting"

SummaryTypeOK ==
    /\ date \in 0..FinalDay
    /\ trip \in [Trips -> [status : {"none", "ACTIVE", "ENDED"},
                           state : {"none", "ACTIVE", "RETURNED"}, day : 0..FinalDay]]
    /\ unitStatus \in [Fleet -> {"PENDING", "ENROLLED", "REVOKED"}]
    /\ ask = [pc |-> ask.pc, got |-> ask.got] /\ ask.pc \in {"idle", "counting"}
    /\ DOMAIN ask.got \subseteq Queries /\ ask.got \in [DOMAIN ask.got -> Nat]
    /\ calm \in BOOLEAN
    /\ graph.asked \in 0..FinalDay /\ \A d \in DOMAIN graph.count : graph.count[d] \in Nat

SummaryInit ==
    /\ date = 0
    /\ trip = [t \in Trips |-> NoTrip] /\ unitStatus = [u \in Fleet |-> "PENDING"]
    /\ ask = [pc |-> "idle", got |-> [q \in {} |-> 0]] /\ calm = TRUE
    /\ graph = NoGraph

-----------------------------------------------------------------------------
(* What the others do meanwhile *)

\* External: a session opens, its phone is back, it ends; its state stays.
OpenTrip(t) ==
    /\ trip[t] = NoTrip
    /\ trip' = [trip EXCEPT ![t] = [status |-> "ACTIVE", state |-> "ACTIVE", day |-> date]]
    /\ calm' = FALSE /\ UNCHANGED <<date, unitStatus, ask, graph>>
ReturnTrip(t) ==
    /\ trip[t].status = "ACTIVE" /\ trip' = [trip EXCEPT ![t].state = "RETURNED"]
    /\ calm' = FALSE /\ UNCHANGED <<date, unitStatus, ask, graph>>
EndTrip(t) ==
    /\ trip[t].status = "ACTIVE" /\ trip' = [trip EXCEPT ![t].status = "ENDED"]
    /\ calm' = FALSE /\ UNCHANGED <<date, unitStatus, ask, graph>>
SetUnit(u, s) ==
    /\ unitStatus' = [unitStatus EXCEPT ![u] = s]
    /\ calm' = FALSE /\ UNCHANGED <<date, trip, ask, graph>>
PassMidnight ==
    /\ date < FinalDay /\ date' = date + 1
    /\ UNCHANGED <<trip, unitStatus, ask, calm, graph>>

-----------------------------------------------------------------------------
(* DashboardService *)

StatusIs(s) == Cardinality({u \in Fleet : unitStatus[u] = s})

ReturnedNow == Cardinality({t \in Trips : trip[t].status = "ACTIVE" /\ trip[t].state = "RETURNED"})
ActiveNow == Cardinality({t \in Trips : trip[t].status = "ACTIVE"})

CountOf(q) ==
    CASE q = "total" -> Cardinality(Fleet)
      [] q = "enrolled" -> StatusIs("ENROLLED")
      [] q = "pending" -> StatusIs("PENDING")
      [] q = "active" -> ActiveNow
      [] q = "returned" -> ReturnedNow

\* summary: the counts leave together.
AskSummary ==
    /\ ~Asked
    /\ ask' = [pc |-> "counting", got |-> [q \in {} |-> 0]] /\ calm' = TRUE
    /\ UNCHANGED <<date, trip, unitStatus, graph>>

\* Each on a connection of its own, at its own time.
AnswerCount(q) ==
    /\ Asked /\ q \notin DOMAIN ask.got
    /\ ask' = [ask EXCEPT !.got = [x \in DOMAIN @ \cup {q} |-> IF x = q THEN CountOf(q) ELSE @[x]]]
    /\ UNCHANGED <<date, trip, unitStatus, calm, graph>>

AnswerSummary ==
    /\ Asked /\ DOMAIN ask.got = Queries
    /\ ask' = [ask EXCEPT !.pc = "idle"]
    /\ UNCHANGED <<date, trip, unitStatus, calm, graph>>

NotReturned == ask.got["active"] - ask.got["returned"]

Since(today) == today - (GraphDays - 1)

\* activity: one bucket a day from the first; a row of another day is left out.
AskActivity ==
    /\ graph' = [asked |-> date,
                 count |-> [d \in Since(date)..(Since(date) + GraphDays - 1) |->
                     Cardinality({t \in Trips : trip[t] # NoTrip /\ trip[t].day = d})]]
    /\ UNCHANGED <<date, trip, unitStatus, ask, calm>>

-----------------------------------------------------------------------------
SummaryNext ==
    \/ \E t \in Trips : OpenTrip(t) \/ ReturnTrip(t) \/ EndTrip(t)
    \/ \E u \in Fleet, s \in {"ENROLLED", "REVOKED"} : SetUnit(u, s)
    \/ PassMidnight \/ AskSummary \/ AnswerSummary \/ AskActivity
    \/ \E q \in Queries : AnswerCount(q)

SummarySpec == SummaryInit /\ [][SummaryNext]_summaryVars

AllCounted == DOMAIN ask.got = Queries

(* When nothing changed between the counts, the figures agree with each other: the      *)
(* not returned are the open sessions that are not back (dashboard.service.ts:149-151). *)
QuietIsExact ==
    AllCounted /\ calm =>
        /\ NotReturned = Cardinality({t \in Trips : trip[t].status = "ACTIVE" /\ trip[t].state = "ACTIVE"})
        /\ ask.got["enrolled"] + ask.got["pending"] + StatusIs("REVOKED") = ask.got["total"]

(* The graph ends with the day it was asked (dashboard.service.ts:160-165).             *)
TodayIsInGraph == graph # NoGraph => graph.asked \in DOMAIN graph.count

\* While nothing changes, what was counted is what would be counted now.
CountsAgree ==
    /\ calm => \A q \in DOMAIN ask.got : ask.got[q] = CountOf(q)
    /\ \A t \in Trips : trip[t].status = "ACTIVE" => trip[t].state # "none"

SummaryInv == SummaryTypeOK /\ CountsAgree /\ QuietIsExact /\ TodayIsInGraph

(* Not held: the figures make sense when the fleet moves between two counts.            *)
NeverNegative == AllCounted => NotReturned >= 0
=============================================================================
