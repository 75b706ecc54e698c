---------------------------- MODULE LastPosition ----------------------------
(***************************************************************************)
(* The last position of a phone, kept apart on its row for the map: each   *)
(* push loads the row first, inserts its points, then moves the last       *)
(* position forward.  The trace of the phone is read on the points.        *)
(***************************************************************************)
EXTENDS Naturals, FiniteSets, FiniteSetsExt

CONSTANTS
    Dates,          \* the dates of the points the phone recorded
    Pushes,         \* pushes the server handles at once
    Span,           \* longest trace
    TracePoints,          \* points of a trace at most
    Together        \* TRUE when two pushes of the phone may overlap

VARIABLES
    kept,       \* location_events
    lastShown,      \* devices.lastLocationAt, 0 for none
    push,       \* each push: its points, the last position it loaded
    settled,    \* the points the phone knows to be stored
    trace       \* the last trace that was read, with what there was to read

positionVars == <<kept, lastShown, push, settled, trace>>

ASSUME PositionAssumption ==
    /\ IsFiniteSet(Dates) /\ Dates \subseteq Nat \ {0} /\ IsFiniteSet(Pushes)
    /\ Span \in Nat /\ TracePoints \in Nat \ {0} /\ Together \in BOOLEAN

Unpushed == [pc |-> "idle"]
NoTrace == [to |-> 0, points |-> {}, all |-> {}, truncated |-> FALSE]

PositionTypeOK ==
    /\ kept \subseteq Dates /\ settled \subseteq kept
    /\ lastShown \in Dates \cup {0}
    /\ push \in [Pushes -> {Unpushed} \cup
           [pc : {"insert", "last"}, points : SUBSET Dates, before : Dates \cup {0}]]
    /\ trace \in [to : Nat, points : SUBSET Dates, all : SUBSET Dates, truncated : BOOLEAN]

PositionInit ==
    /\ kept = {} /\ lastShown = 0 /\ settled = {}
    /\ push = [p \in Pushes |-> Unpushed]
    /\ trace = NoTrace

\* The points the phone does not know to be stored, and the row of the phone.
LoadDevice(p, points) ==
    /\ push[p] = Unpushed /\ points # {}
    /\ Together \/ \A q \in Pushes : push[q] = Unpushed
    /\ push' = [push EXCEPT ![p] = [pc |-> "insert", points |-> points, before |-> lastShown]]
    /\ UNCHANGED <<kept, lastShown, settled, trace>>

\* createMany skips the points that are there.
InsertPoints(p) ==
    /\ push[p].pc = "insert"
    /\ kept' = kept \cup push[p].points
    /\ push' = [push EXCEPT ![p].pc = "last"]
    /\ UNCHANGED <<lastShown, settled, trace>>

\* The latest point of the batch, compared with the row as it was loaded.  The answer
\* acknowledges every point of the batch; it may be lost.
MoveLast(p) ==
    /\ push[p].pc = "last"
    /\ lastShown' = IF Max(push[p].points) > push[p].before THEN Max(push[p].points) ELSE lastShown
    /\ push' = [push EXCEPT ![p] = Unpushed]
    /\ settled' \in {settled, settled \cup push[p].points}
    /\ UNCHANGED <<kept, trace>>

\* External: the API stops.
StopPush(p) ==
    /\ push[p] # Unpushed
    /\ push' = [push EXCEPT ![p] = Unpushed]
    /\ UNCHANGED <<kept, lastShown, settled, trace>>

FirstPoints(n, s) == {t \in s : Cardinality({u \in s : u < t}) < n}

\* Cut to Span, then to the first points.
history(from, to) ==
    LET end == IF to - from > Span THEN from + Span ELSE to
        all == {t \in kept : from <= t /\ t <= end}
    IN /\ trace' = [to |-> end, points |-> FirstPoints(TracePoints, all), all |-> all,
                    truncated |-> Cardinality(FirstPoints(TracePoints, all)) = TracePoints]
       /\ UNCHANGED <<kept, lastShown, push, settled>>

PositionNext ==
    \/ \E p \in Pushes :
         \/ \E points \in SUBSET (Dates \ settled) : LoadDevice(p, points)
         \/ InsertPoints(p) \/ MoveLast(p) \/ StopPush(p)
    \/ \E from, to \in Dates : from <= to /\ history(from, to)

PositionSpec == PositionInit /\ [][PositionNext]_positionVars

(* The last position is never before a point the phone was told is stored, through      *)
(* stops of the API and answers lost, as long as its pushes do not overlap              *)
(* (sync.service.ts:240-260).                                                          *)
SettledIsShown == \A t \in settled : t <= lastShown

(* A trace that is not said to be cut has every point of its interval                   *)
(* (locations.service.ts:143-148).                                                     *)
UncutIsWhole == trace.truncated \/ trace.points = trace.all

(* A push inserts its points before it moves the last position, which is the one it     *)
(* loaded when no other push ran meanwhile.                                             *)
PushesAgree ==
    \A p \in Pushes : push[p] # Unpushed =>
        /\ push[p].points # {}
        /\ push[p].pc = "last" => push[p].points \subseteq kept
        /\ ~Together => /\ push[p].before = lastShown
                        /\ \A q \in Pushes : push[q] # Unpushed => q = p

PositionInv == PositionTypeOK /\ PushesAgree /\ UncutIsWhole /\ (~Together => SettledIsShown)

(* Not held: a trace said to be cut lacks a point.                                      *)
CutLacks == trace.truncated => trace.points # trace.all
=============================================================================
