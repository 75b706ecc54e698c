----------------------------- MODULE EventQueue -----------------------------
(***************************************************************************)
(* The queue of events of one phone (`pending_events`) and its delivery to *)
(* the server.  A recorder numbers an event, inserts its row, then looks   *)
(* at the size of the queue.  A SyncWorker sends batches and deletes what  *)
(* the server acknowledges; the periodic job and the immediate one may     *)
(* push together, and the server goes on serving a request nobody waits    *)
(* for.                                                                    *)
(*                                                                         *)
(* A definition commented "Mutant" is a plausible fault of the operator    *)
(* that follows it; it is used by no action.                               *)
(***************************************************************************)
EXTENDS Integers, FiniteSets

CONSTANTS
    Alerts,      \* the events of each kind: SECURITY,
    Geofences,   \* GEOFENCE,
    Scans,       \* BARCODE_SCAN
    Locations,   \* and LOCATION
    Orphans,     \* the alerts that name a session the server does not have
    Workers,     \* SyncWorker jobs
    BatchSize,   \* BATCH_SIZE
    Rounds,      \* MAX_BATCHES_PER_RUN
    Cap,         \* maxStoredEvents
    DropBatch,   \* dropBatch
    Faults       \* what may go wrong, a subset of AllFaults

AllFaults ==
    {"lost",     \* a request or its answer is lost
     "late",     \* the phone gives up while the server still serves
     "error",    \* a statement of the server fails
     "cancel",   \* a job is cancelled
     "kill",     \* Android ends the process
     "detached"} \* the device has no depot on the server

Urgent == Alerts \cup Geofences \cup Scans
Events == Urgent \cup Locations

ASSUME EventAssumption ==
    /\ IsFiniteSet(Events)
    /\ Orphans \subseteq Alerts
    /\ Alerts \cap (Geofences \cup Scans \cup Locations) = {}
    /\ Geofences \cap (Scans \cup Locations) = {}
    /\ Scans \cap Locations = {}
    /\ BatchSize \in Nat \ {0} /\ Rounds \in Nat \ {0}
    /\ Cap \in Nat /\ DropBatch \in Nat \ {0}
    /\ Faults \subseteq AllFaults

VARIABLES
    counter,    \* last number given, -1 in a new process
    seq,        \* number of each event
    place,      \* where each event is
    checking,   \* recorders that have still to look at the size of the queue
    sending,    \* rows marked SENDING
    pc,         \* where each worker is
    round,      \* batches of its run
    batch,      \* events of its last request
    handler,    \* where the server is with that request
    todo,       \* events of the request it has still to handle
    acked,      \* events it acknowledges
    bare,       \* requests that have read a device without a depot
    stored,     \* rows of the server for each event
    ignored     \* history: transitions acknowledged without a row

recorder == <<counter, seq, checking>>
worker == <<pc, round, batch>>
request == <<handler, todo, acked, bare>>
tables == <<stored, ignored>>
phone == <<recorder, place, sending, worker>>
vars == <<counter, seq, place, checking, sending, pc, round, batch, handler,
          todo, acked, bare, stored, ignored>>

TypeOK ==
    /\ counter \in -1..Cardinality(Events)
    /\ seq \in [Events -> 0..Cardinality(Events)]
    /\ place \in [Events -> {"new", "numbered", "row", "gone"}]
    /\ checking \subseteq Events /\ sending \subseteq Events
    /\ pc \in [Workers -> {"idle", "taking", "sent"}]
    /\ round \in [Workers -> 1..Rounds]
    /\ batch \in [Workers -> SUBSET Events]
    /\ handler \in [Workers -> {"none", "next", "commit", "answer", "failed"}]
    /\ todo \in [Workers -> SUBSET Events]
    /\ acked \in [Workers -> SUBSET Events]
    /\ bare \subseteq Workers /\ ignored \subseteq Geofences
    /\ stored \in [Events -> 0..2]

Init ==
    /\ counter = -1
    /\ seq = [e \in Events |-> 0]
    /\ place = [e \in Events |-> "new"]
    /\ checking = {} /\ sending = {}
    /\ pc = [w \in Workers |-> "idle"]
    /\ round = [w \in Workers |-> 1]
    /\ batch = [w \in Workers |-> {}]
    /\ handler = [w \in Workers |-> "none"]
    /\ todo = [w \in Workers |-> {}]
    /\ acked = [w \in Workers |-> {}]
    /\ bare = {} /\ ignored = {}
    /\ stored = [e \in Events |-> 0]

Rows == {e \in Events : place[e] = "row"}
Goto(w, point) == pc' = [pc EXCEPT ![w] = point]
Serve(w, point) == handler' = [handler EXCEPT ![w] = point]

\* Rows are deleted, others are PENDING again.
Leave(S, back) ==
    /\ place' = [e \in Events |-> IF e \in S \cap Rows THEN "gone" ELSE place[e]]
    /\ sending' = sending \ (S \cup back)

\* The worker and the server have done with a request.
EndRun(w) ==
    /\ Goto(w, "idle")
    /\ batch' = [batch EXCEPT ![w] = {}]
    /\ round' = [round EXCEPT ![w] = 1]

EndRequest(w) ==
    /\ Serve(w, "none")
    /\ todo' = [todo EXCEPT ![w] = {}]
    /\ acked' = [acked EXCEPT ![w] = {}]
    /\ bare' = bare \ {w}

-----------------------------------------------------------------------------
(* The recorders: EventRecorder.kt *)

\* Mutant: a new process starts from 0.
LastSeqForgotten == IF counter >= 0 THEN counter ELSE 0

\* The last number given; a new process reads the greatest one of the rows.
LastSeq ==
    IF counter >= 0 THEN counter
    ELSE CHOOSE n \in {0} \cup {seq[e] : e \in Rows} :
             \A e \in Rows : seq[e] <= n

\* nextSeq.  Geofences are recorded one at a time, under the mutex of the
\* coordinator; the other recorders run concurrently.
Number(e) ==
    /\ place[e] = "new"
    /\ e \in Geofences =>
           \A g \in Geofences : place[g] # "numbered" /\ g \notin checking
    /\ counter' = LastSeq + 1
    /\ seq' = [seq EXCEPT ![e] = LastSeq + 1]
    /\ place' = [place EXCEPT ![e] = "numbered"]
    /\ UNCHANGED <<checking, sending, worker, request, tables>>

Insert(e) ==
    /\ place[e] = "numbered"
    /\ place' = [place EXCEPT ![e] = "row"]
    /\ checking' = checking \cup {e}
    /\ UNCHANGED <<counter, seq, sending, worker, request, tables>>

\* dropOldestLocations.
Oldest ==
    LET fixes == Rows \cap Locations
    IN  {e \in fixes : Cardinality({d \in fixes : seq[d] < seq[e]}) < DropBatch}

CheckCap(e) ==
    /\ e \in checking
    /\ checking' = checking \ {e}
    /\ Leave(IF Cardinality(Rows) > Cap THEN Oldest ELSE {}, {})
    /\ UNCHANGED <<counter, seq, worker, request, tables>>

-----------------------------------------------------------------------------
(* The push: SyncEngine.kt *)

Rank(e) == CASE e \in Alerts -> 0
             [] e \in Geofences -> 1
             [] e \in Scans -> 2
             [] e \in Locations -> 3

Before(d, e) == \/ Rank(d) < Rank(e)
                \/ Rank(d) = Rank(e) /\ seq[d] < seq[e]

\* Mutant: the rows marked SENDING are left to the job that sends them.
NextBatchPending ==
    {e \in Rows \ sending :
        Cardinality({d \in Rows \ sending : Before(d, e)}) < BatchSize}

\* nextBatch takes the rows another job, or an interrupted one, is sending.
NextBatch ==
    {e \in Rows : Cardinality({d \in Rows : Before(d, e)}) < BatchSize}

\* Bound: a job has one request at a time on the server, the abandoned one
\* included.
StartPush(w) ==
    /\ pc[w] = "idle" /\ handler[w] = "none"
    /\ Goto(w, "taking")
    /\ UNCHANGED <<recorder, place, sending, round, batch, request, tables>>

\* push: the server reads the device, and its depot, once for the request; only the
\* transitions look at it.  An enrolment anew may have left it without one, while the
\* phone keeps its own.
ReadDevice(w) ==
    \/ UNCHANGED bare
    \/ "detached" \in Faults /\ NextBatch \cap Geofences # {} /\ bare' = bare \cup {w}

TakeBatch(w) ==
    /\ pc[w] = "taking"
    /\ IF NextBatch = {}
       THEN EndRun(w) /\ UNCHANGED <<sending, request>>
       ELSE /\ Goto(w, "sent")
            /\ sending' = sending \cup NextBatch
            /\ batch' = [batch EXCEPT ![w] = NextBatch]
            /\ Serve(w, "next")
            /\ todo' = [todo EXCEPT ![w] = NextBatch]
            /\ ReadDevice(w)
            /\ UNCHANGED <<round, acked>>
    /\ UNCHANGED <<recorder, place, tables>>

\* Mutant: the whole batch is deleted.
AnsweredAll(w) ==
    /\ pc[w] = "sent" /\ handler[w] = "answer"
    /\ Leave(batch[w], batch[w])
    /\ EndRequest(w) /\ EndRun(w)
    /\ UNCHANGED <<recorder, tables>>

\* deleteAcked; the rest of the batch is PENDING again.  A full batch is
\* followed by another one.
Answered(w) ==
    /\ pc[w] = "sent" /\ handler[w] = "answer"
    /\ Leave(acked[w], batch[w])
    /\ EndRequest(w)
    /\ IF Cardinality(batch[w]) = BatchSize /\ round[w] < Rounds
       THEN /\ Goto(w, "taking")
            /\ batch' = [batch EXCEPT ![w] = {}]
            /\ round' = [round EXCEPT ![w] = @ + 1]
       ELSE EndRun(w)
    /\ UNCHANGED <<recorder, tables>>

\* The server answers with an error status.
ErrorStatus(w) ==
    /\ pc[w] = "sent" /\ handler[w] = "failed"
    /\ Leave({}, batch[w])
    /\ EndRequest(w) /\ EndRun(w)
    /\ UNCHANGED <<recorder, tables>>

\* No answer: the exception leaves the rows SENDING.
PushFails(w) ==
    /\ pc[w] = "sent"
    /\ \/ /\ "lost" \in Faults
          /\ \/ handler[w] \in {"answer", "failed"}
             \/ handler[w] = "next" /\ todo[w] = batch[w]
          /\ EndRequest(w)
       \/ /\ "late" \in Faults
          /\ UNCHANGED request
    /\ EndRun(w)
    /\ UNCHANGED <<recorder, place, sending, tables>>

Cancel(w) ==
    /\ "cancel" \in Faults /\ pc[w] # "idle"
    /\ EndRun(w)
    /\ UNCHANGED <<recorder, place, sending, request, tables>>

\* What was numbered and not inserted is lost with the process.
Kill ==
    /\ "kill" \in Faults /\ counter # -1
    /\ counter' = -1
    /\ place' = [e \in Events |-> IF place[e] = "numbered" THEN "gone" ELSE place[e]]
    /\ checking' = {}
    /\ pc' = [w \in Workers |-> "idle"]
    /\ batch' = [w \in Workers |-> {}]
    /\ round' = [w \in Workers |-> 1]
    /\ UNCHANGED <<seq, sending, request, tables>>

-----------------------------------------------------------------------------
(* The server: sync.service.ts *)

\* The event the loop is at: locations are left for the end.
First(w, e) ==
    /\ e \in todo[w] \ Locations
    /\ \A d \in todo[w] \ Locations : d = e \/ Before(e, d)

Handled(w, e, ack) ==
    /\ todo' = [todo EXCEPT ![w] = @ \ {e}]
    /\ acked' = [acked EXCEPT ![w] = IF ack THEN @ \cup {e} ELSE @]
    /\ Serve(w, "next")

\* skipDuplicates.
StoreOnce(S) ==
    stored' = [e \in Events |-> IF e \in S /\ stored[e] = 0 THEN 1 ELSE stored[e]]

\* handleSecurity and handleOfflineScan: recordSecurity always gives the type without
\* which handleSecurity returns.  The foreign key of security_events.session_id
\* refuses an orphan.
HandleSingle(w, e) ==
    /\ handler[w] = "next" /\ First(w, e) /\ e \in Alerts \cup Scans
    /\ IF e \in Orphans
       THEN UNCHANGED stored /\ Handled(w, e, FALSE)
       ELSE StoreOnce({e}) /\ Handled(w, e, TRUE)
    /\ UNCHANGED <<phone, bare, ignored>>

\* handleGeofence looks for the event first; a device without a depot makes it return,
\* and what returns is acknowledged,
GeofenceCheck(w, e) ==
    /\ handler[w] = "next" /\ First(w, e) /\ e \in Geofences
    /\ \/ stored[e] > 0 /\ Handled(w, e, TRUE) /\ UNCHANGED ignored
       \/ /\ stored[e] = 0 /\ w \in bare
          /\ Handled(w, e, TRUE) /\ ignored' = ignored \cup {e}
       \/ /\ stored[e] = 0 /\ w \notin bare
          /\ Serve(w, "commit") /\ UNCHANGED <<todo, acked, ignored>>
    /\ UNCHANGED <<phone, bare, stored>>

\* Mutant: no unique index on the identifier of the event.
GeofenceCommitTwice(w, e) ==
    /\ handler[w] = "commit" /\ First(w, e)
    /\ stored' = [stored EXCEPT ![e] = IF @ = 2 THEN 2 ELSE @ + 1]
    /\ Handled(w, e, TRUE)
    /\ UNCHANGED <<phone, bare, ignored>>

\* then commits: the unique index refuses a second row.
GeofenceCommit(w, e) ==
    /\ handler[w] = "commit" /\ First(w, e)
    /\ StoreOnce({e})
    /\ Handled(w, e, stored[e] = 0)
    /\ UNCHANGED <<phone, bare, ignored>>

\* Mutant: the event is acknowledged before it is handled.
EventFailsAcked(w, e) ==
    /\ "error" \in Faults
    /\ handler[w] \in {"next", "commit"} /\ First(w, e)
    /\ UNCHANGED stored
    /\ Handled(w, e, TRUE)
    /\ UNCHANGED <<phone, bare, ignored>>

\* A statement fails, before or after the row was stored.
EventFails(w, e) ==
    /\ "error" \in Faults
    /\ handler[w] \in {"next", "commit"} /\ First(w, e)
    /\ \/ UNCHANGED stored
       \/ e \in (Alerts \cup Scans) \ Orphans /\ StoreOnce({e})
    /\ Handled(w, e, FALSE)
    /\ UNCHANGED <<phone, bare, ignored>>

InsertLocations(w) ==
    /\ handler[w] = "next" /\ todo[w] \subseteq Locations
    /\ StoreOnce(todo[w])
    /\ acked' = [acked EXCEPT ![w] = @ \cup todo[w]]
    /\ todo' = [todo EXCEPT ![w] = {}]
    /\ Serve(w, "answer")
    /\ UNCHANGED <<phone, bare, ignored>>

\* The insertion of the locations, or what follows it, fails.
RequestFails(w) ==
    /\ "error" \in Faults
    /\ handler[w] = "next" /\ todo[w] \subseteq Locations
    /\ UNCHANGED stored \/ StoreOnce(todo[w])
    /\ todo' = [todo EXCEPT ![w] = {}]
    /\ acked' = [acked EXCEPT ![w] = {}]
    /\ Serve(w, "failed")
    /\ UNCHANGED <<phone, bare, ignored>>

AnswerNobody(w) ==
    /\ handler[w] \in {"answer", "failed"} /\ pc[w] = "idle"
    /\ EndRequest(w)
    /\ UNCHANGED <<phone, tables>>

-----------------------------------------------------------------------------

RecorderStep(e) == Number(e) \/ Insert(e) \/ CheckCap(e)

PushStep(w) == \/ StartPush(w) \/ TakeBatch(w) \/ Answered(w) \/ ErrorStatus(w)
               \/ PushFails(w) \/ Cancel(w)

\* The handler goes on without a fault.
Progress(w) ==
    \/ \E e \in Urgent :
           HandleSingle(w, e) \/ GeofenceCheck(w, e) \/ GeofenceCommit(w, e)
    \/ InsertLocations(w) \/ AnswerNobody(w)

ServerStep(w) == \/ Progress(w) \/ RequestFails(w)
                 \/ \E e \in Urgent : EventFails(w, e)

Next == \/ Kill
        \/ \E e \in Events : RecorderStep(e)
        \/ \E w \in Workers : PushStep(w) \/ ServerStep(w)

Spec == Init /\ [][Next]_vars

\* The jobs are run again and again, their requests and answers do not get lost
\* for ever, and the server serves what it receives.
Fairness ==
    \A w \in Workers :
        /\ WF_vars(StartPush(w)) /\ SF_vars(TakeBatch(w)) /\ SF_vars(Answered(w))
        /\ WF_vars(ErrorStatus(w)) /\ SF_vars(Progress(w))

FairSpec == Spec /\ Fairness

-----------------------------------------------------------------------------
(* Properties *)

\* A batch sent again, by the next run or by two jobs at once, or handled
\* twice by the server, stores no event twice.
ExactlyOnce == \A e \in Events : stored[e] <= 1

UrgentKept ==
    \A e \in Urgent :
        place[e] = "row" /\ place'[e] = "gone" => stored[e] > 0 \/ e \in ignored

\* Whatever is lost, killed or full, a security event, a transition or a scan
\* leaves the queue only once the server has it, or has ignored a transition because
\* the device had no depot.
NothingLost == [][UrgentKept]_vars

NumberedLast ==
    \A e \in Events :
        place[e] = "new" /\ place'[e] = "numbered"
            => \A d \in Events : place[d] \in {"numbered", "row"}
                                     => seq[d] < seq'[e]

\* An event is numbered after every event still on the phone, in the next
\* process too.
OrderKept == [][NumberedLast]_vars

GeofenceInOrder ==
    \A g \in Geofences :
        stored'[g] > stored[g] /\ place[g] = "row"
            => \A h \in Geofences : place[h] = "row" /\ seq[h] < seq[g]
                                        => stored[h] > 0

\* Two jobs, lost answers and restarts do not change the order in which the
\* server applies the transitions.  (One that was ignored, has left the phone and is
\* stored by another request is not compared: its number may be given again.)
GeofencesInOrder == [][GeofenceInOrder]_vars

\* While the orphans do not fill a batch, every other urgent event of the queue
\* reaches the server, and stays there but for a transition ignored without a depot.
HealthyDelivered ==
    \A e \in Urgent \ Orphans : place[e] = "row" ~> stored[e] > 0 \/ e \in ignored

-----------------------------------------------------------------------------
(* Invariants the properties rest on *)

Given == {e \in Events : place[e] # "new"}

\* As many numbers are given as there are events.
NumbersFit == /\ counter <= Cardinality(Given)
              /\ \A e \in Events : seq[e] <= Cardinality(Given)

\* The counter is that of the events on the phone; a new process, which has not
\* read it yet, holds no event that is not a row.
CounterBounds ==
    /\ counter = -1 => \A e \in Events : place[e] # "numbered"
    /\ counter # -1 => \A e \in Events : place[e] \in {"numbered", "row"}
                                           => seq[e] <= counter

AckedStored == \A w \in Workers : \A e \in acked[w] : stored[e] > 0 \/ e \in ignored

\* The queue of the phone and the tables of the server agree: the counter
\* covers what the phone holds, and the server acknowledges what it has stored, or
\* ignored.
Inv == NumbersFit /\ CounterBounds /\ AckedStored

\* An urgent event the server has still to handle is on the phone, or the server has
\* stored or ignored it.
SentKept ==
    \A w \in Workers : \A e \in todo[w] \cap Urgent :
        \/ place[e] = "row"
        \/ place[e] = "gone" /\ (stored[e] > 0 \/ e \in ignored)

\* Transitions become rows in the order of their numbers.
InsertedInOrder ==
    \A g, h \in Geofences :
        place[g] = "numbered"
            => /\ place[h] = "row" => seq[h] < seq[g]
               /\ place[h] = "numbered" => h = g

\* A request whose device has a depot carries a transition only with those that precede
\* it and that the server does not have.
SentInOrder ==
    \A w \in Workers \ bare : \A g \in todo[w] \cap Geofences :
        stored[g] = 0 /\ place[g] = "row"
            => \A h \in Geofences :
                   place[h] = "row" /\ stored[h] = 0 /\ seq[h] < seq[g]
                       => h \in todo[w]

CommitsWithDepot == \A w \in Workers : handler[w] = "commit" => w \notin bare

\* The requests under way, as long as no statement of the server fails.
OrderInv == SentKept /\ InsertedInOrder /\ SentInOrder /\ CommitsWithDepot

-----------------------------------------------------------------------------
(* Expected of the code, and not held by it: README.md tells which constants   *)
(* show it.                                                                    *)

\* "une répétition, jamais une donnée": an urgent event that leaves the queue is stored.
UrgentStored ==
    [][\A e \in Urgent : place[e] = "row" /\ place'[e] = "gone" => stored[e] > 0]_vars

\* An event recorded offline reaches the server, later.
OfflineLikeOnline == \A e \in Urgent : place[e] = "row" ~> stored[e] > 0

\* An event has a greater number than those the server has received before.
SeqMonotone ==
    [][\A e \in Events : place[e] = "new" /\ place'[e] = "numbered"
           => \A d \in Events : stored[d] > 0 => seq[d] < seq'[e]]_vars

=============================================================================
