---------------------------- MODULE DepotReturn ----------------------------
(***************************************************************************)
(* What the server makes of the transitions a phone sends: they arrive     *)
(* late, again, or while an administrator ends the session; each is judged *)
(* on the schedule of the depot and on the session that is active when it  *)
(* is handled, then written with the state of the session, after the alert *)
(* it may raise.                                                           *)
(***************************************************************************)
EXTENDS DepotRules, SequencesExt

CONSTANTS
    Outings,        \* sessions of the phone
    Handlers,       \* pushes of the phone the server handles
    Timetable,      \* schedule of the depot
    MaxMoves,       \* bound of the transitions
    LastHour,       \* bound of the clock
    Overlap         \* TRUE when two pushes may be handled at once

VARIABLES
    hourNow,
    outing,     \* sessions: status, state, start, returnedAt
    unitState,  \* devices.state
    moves,      \* the transitions the phone recorded, in order
    known,      \* those it knows to be stored
    written,    \* geofence_events, in the order they were written
    raised,     \* the alert of each session
    handling    \* each push: its transitions, the one in hand, what was read for it

returnVars == <<hourNow, outing, unitState, moves, known, written, raised, handling>>

NoOuting == "none"

ASSUME ReturnAssumption ==
    /\ IsFiniteSet(Outings) /\ NoOuting \notin Outings /\ IsFiniteSet(Handlers)
    /\ MaxMoves \in Nat /\ LastHour \in Nat /\ Overlap \in BOOLEAN

Unopened == [status |-> "none", state |-> "ACTIVE", since |-> 0, returnedAt |-> Off]
IdlePush == [pc |-> "idle"]
Numbers == 1..MaxMoves
Transitions == {"ENTER", "EXIT"}
Outed == [status : {"none", "ACTIVE", "ENDED"}, state : {"ACTIVE", "RETURNED"},
          since : 0..LastHour, returnedAt : Off..LastHour]
Handlings == {IdlePush} \cup
    [pc : {"next", "alert", "write"}, todo : SUBSET Numbers, done : SUBSET Numbers,
     read : Outings \cup {NoOuting}, state : {"ACTIVE", "RETURNED"}]

ReturnTypeOK ==
    /\ hourNow \in 0..LastHour
    /\ outing \in [Outings -> Outed]
    /\ unitState \in {"LOCKED", "ACTIVE", "RETURNED"}
    /\ moves \in Seq([kind : Transitions, at : 0..LastHour]) /\ Len(moves) <= MaxMoves
    /\ known \subseteq DOMAIN moves
    /\ written \in Seq([n : Numbers, outing : Outings \cup {NoOuting}])
    /\ raised \in [Outings -> {"none", "OPEN", "HANDLED"}]
    /\ handling \in [Handlers -> Handlings]

ReturnInit ==
    /\ hourNow = 0
    /\ outing = [o \in Outings |-> Unopened] /\ unitState = "LOCKED"
    /\ moves = <<>> /\ known = {} /\ written = <<>>
    /\ raised = [o \in Outings |-> "none"]
    /\ handling = [h \in Handlers |-> IdlePush]

IsStored(n) == \E i \in DOMAIN written : written[i].n = n
ActiveOutings == {o \in Outings : outing[o].status = "ACTIVE"}
ReadOuting == IF ActiveOutings = {} THEN NoOuting ELSE CHOOSE o \in ActiveOutings : TRUE
StateRead == IF ActiveOutings = {} THEN "ACTIVE" ELSE outing[ReadOuting].state

-----------------------------------------------------------------------------
(* Sessions *)

OpenOuting(o) ==
    /\ outing[o] = Unopened /\ ActiveOutings = {}
    /\ outing' = [outing EXCEPT ![o] = [Unopened EXCEPT !.status = "ACTIVE", !.since = hourNow]]
    /\ unitState' = "ACTIVE"
    /\ UNCHANGED <<hourNow, moves, known, written, raised, handling>>

\* SessionsService.end
EndOuting(o) ==
    /\ o \in ActiveOutings
    /\ outing' = [outing EXCEPT ![o].status = "ENDED"]
    /\ unitState' = "LOCKED"
    /\ UNCHANGED <<hourNow, moves, known, written, raised, handling>>

\* acknowledge, resolve
TakeAlert(o) ==
    /\ raised[o] = "OPEN"
    /\ raised' = [raised EXCEPT ![o] = "HANDLED"]
    /\ UNCHANGED <<hourNow, outing, unitState, moves, known, written, handling>>

-----------------------------------------------------------------------------
(* The phone *)

\* External: the engine confirms a transition.  Bound: MaxMoves.
RecordMove(kind) ==
    /\ Len(moves) < MaxMoves
    /\ moves' = Append(moves, [kind |-> kind, at |-> hourNow])
    /\ UNCHANGED <<hourNow, outing, unitState, known, written, raised, handling>>

\* A push takes the transitions the phone does not know to be stored.
TakeMoves(h) ==
    /\ handling[h] = IdlePush /\ DOMAIN moves \ known # {}
    /\ Overlap \/ \A g \in Handlers : handling[g] = IdlePush
    /\ handling' = [handling EXCEPT ![h] = [pc |-> "next", todo |-> DOMAIN moves \ known,
                        done |-> {}, read |-> NoOuting, state |-> "ACTIVE"]]
    /\ UNCHANGED <<hourNow, outing, unitState, moves, known, written, raised>>

\* External: time.  Bound: LastHour.
PassHour ==
    /\ hourNow < LastHour /\ hourNow' = hourNow + 1
    /\ UNCHANGED <<outing, unitState, moves, known, written, raised, handling>>

-----------------------------------------------------------------------------
(* handleGeofence *)

InHand(h) == Min(handling[h].todo)
DecisionOf(h) ==
    evaluateGeofenceTransition(moves[InHand(h)].kind, moves[InHand(h)].at, Timetable,
                               handling[h].state)
Drop(h, acked) ==
    handling' = [handling EXCEPT ![h] = [handling[h] EXCEPT
                     !.pc = "next", !.todo = @ \ {InHand(h)}, !.done = IF acked THEN @ \cup {InHand(h)} ELSE @]]

\* In the order of the numbers: what is stored is acknowledged at once.
SkipStored(h) ==
    /\ handling[h].pc = "next" /\ handling[h].todo # {} /\ IsStored(InHand(h))
    /\ Drop(h, TRUE)
    /\ UNCHANGED <<hourNow, outing, unitState, moves, known, written, raised>>

\* The session that is active now, whichever the transition belonged to.
ReadSession(h) ==
    /\ handling[h].pc = "next" /\ handling[h].todo # {} /\ ~IsStored(InHand(h))
    /\ LET n == [handling[h] EXCEPT !.read = ReadOuting, !.state = StateRead]
           told == evaluateGeofenceTransition(moves[InHand(h)].kind, moves[InHand(h)].at,
                                              Timetable, n.state).alert
       IN handling' = [handling EXCEPT ![h] = [n EXCEPT !.pc = IF told THEN "alert" ELSE "write"]]
    /\ UNCHANGED <<hourNow, outing, unitState, moves, known, written, raised>>

\* raise: one open alert by session, before the transition is written.
RaiseAfterReturn(h) ==
    /\ handling[h].pc = "alert"
    /\ raised' = [raised EXCEPT ![handling[h].read] = "OPEN"]
    /\ handling' = [handling EXCEPT ![h].pc = "write"]
    /\ UNCHANGED <<hourNow, outing, unitState, moves, known, written>>

\* Mutant: a departure leaves the state of the session as it is.
NextStateKept(h) == IF DecisionOf(h).alert THEN handling[h].state ELSE DecisionOf(h).next

NextState(h) == DecisionOf(h).next

\* The transaction: the transition, the session that was read, even ended since, the
\* phone.  A transition another push has written is refused by its unique index.
WriteMove(h) ==
    /\ handling[h].pc = "write" /\ ~IsStored(InHand(h))
    /\ LET o == handling[h].read IN
       /\ written' = Append(written, [n |-> InHand(h), outing |-> o])
       /\ outing' = IF o = NoOuting THEN outing
                    ELSE [outing EXCEPT ![o] = [outing[o] EXCEPT
                              !.state = NextState(h),
                              !.returnedAt = IF DecisionOf(h).markReturned
                                             THEN moves[InHand(h)].at ELSE @]]
       /\ unitState' = IF o = NoOuting THEN unitState ELSE NextState(h)
    /\ Drop(h, TRUE)
    /\ UNCHANGED <<hourNow, moves, known, raised>>

\* The unique index, or any error: the transition is rejected, the next is handled.
RejectMove(h) ==
    /\ handling[h].pc \in {"alert", "write"}
    /\ Drop(h, FALSE)
    /\ UNCHANGED <<hourNow, outing, unitState, moves, known, written, raised>>

\* The answer, which may be lost.
AnswerPush(h) ==
    /\ handling[h].pc = "next" /\ handling[h].todo = {}
    /\ known' \in {known, known \cup handling[h].done}
    /\ handling' = [handling EXCEPT ![h] = IdlePush]
    /\ UNCHANGED <<hourNow, outing, unitState, moves, written, raised>>

\* External: the API stops.
StopHandler(h) ==
    /\ handling[h] # IdlePush
    /\ handling' = [handling EXCEPT ![h] = IdlePush]
    /\ UNCHANGED <<hourNow, outing, unitState, moves, known, written, raised>>

-----------------------------------------------------------------------------
ReturnNext ==
    \/ PassHour
    \/ \E kind \in Transitions : RecordMove(kind)
    \/ \E o \in Outings : OpenOuting(o) \/ EndOuting(o) \/ TakeAlert(o)
    \/ \E h \in Handlers :
         \/ TakeMoves(h) \/ SkipStored(h) \/ ReadSession(h) \/ RaiseAfterReturn(h)
         \/ WriteMove(h) \/ RejectMove(h) \/ AnswerPush(h) \/ StopHandler(h)

ReturnSpec == ReturnInit /\ [][ReturnNext]_returnVars

-----------------------------------------------------------------------------
Kind(i) == moves[written[i].n].kind
IsReturn(i) == Kind(i) = "ENTER" /\ isAfterReturnTime(Timetable, moves[written[i].n].at)
Of(o) == {i \in DOMAIN written : written[i].outing = o}

\* The transitions that were written say the phone is back, before the i-th.
BackBefore(o, i) ==
    \E j \in Of(o) : j < i /\ IsReturn(j) /\ \A k \in Of(o) : k \in j..(i - 1) => Kind(k) = "ENTER"

(* A session is returned exactly when the transitions written for it say so, through   *)
(* errors, answers lost and stops of the API, as long as the pushes of the phone do     *)
(* not overlap (sync.service.ts:281-285).                                             *)
StateFollows ==
    \A o \in Outings : outing[o].state = "RETURNED" <=> BackBefore(o, Len(written) + 1)

(* No departure after the return is written without the alert of its session having     *)
(* been raised (sync.service.ts:338-363); again without overlap.                       *)
ExitIsTold ==
    \A o \in Outings : \A i \in Of(o) :
        Kind(i) = "EXIT" /\ BackBefore(o, i) => raised[o] # "none"

(* A push handles transitions of the phone; it raised the alert of those it writes, and *)
(* what it read of the session still holds when no other push ran meanwhile.            *)
HandlerAgrees(h) ==
    handling[h] # IdlePush =>
        /\ handling[h].todo \cup handling[h].done \subseteq DOMAIN moves
        /\ handling[h].pc # "next" => handling[h].todo # {}
        /\ handling[h].pc = "alert" => handling[h].read # NoOuting
        /\ handling[h].pc = "write" /\ DecisionOf(h).alert =>
               handling[h].read # NoOuting /\ raised[handling[h].read] # "none"
        /\ ~Overlap =>
               /\ \A g \in Handlers : handling[g] # IdlePush => g = h
               /\ handling[h].pc # "next" /\ handling[h].read # NoOuting =>
                      handling[h].state = outing[handling[h].read].state

HandlingAgrees ==
    /\ \A i \in DOMAIN written : written[i].n \in DOMAIN moves
    /\ \A h \in Handlers : HandlerAgrees(h)

ReturnInv == ReturnTypeOK /\ HandlingAgrees /\ (~Overlap => StateFollows /\ ExitIsTold)

(* Not held: a session is marked returned at an instant that is in it: a transition    *)
(* sent late marks the session of the next day.                                        *)
ReturnedInSession ==
    \A o \in Outings : outing[o].returnedAt # Off => outing[o].returnedAt >= outing[o].since

(* Not held: a phone without a session is locked for the server: a transition that was *)
(* being handled when the session ended sets the phone active again.                   *)
ClosedIsLocked == ActiveOutings = {} => unitState = "LOCKED"
=============================================================================
