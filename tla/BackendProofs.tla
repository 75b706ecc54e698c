---------------------------- MODULE BackendProofs ----------------------------
(***************************************************************************)
(* Proofs about the queue of events of a phone (EventQueue), from the      *)
(* phone to the rows of the server, then about what administrators are     *)
(* told: the routing of alerts, the live feed, the home page.              *)
(***************************************************************************)
EXTENDS MCBackend, FiniteSetTheorems, WellFoundedInduction, TLAPS

-----------------------------------------------------------------------------
(* Events and numbers *)

\* An event is numbered, becomes a row, leaves, or stays as it is.
LEMMA EventStep ==
    ASSUME TypeOK, [Next]_vars, NEW e \in Events
    PROVE  \/ Number(e)
           \/ /\ seq'[e] = seq[e]
              /\ Insert(e) \/ place'[e] \in {place[e], "gone"}
<1> USE DEF TypeOK
<1>1. ASSUME NEW d \in Events, RecorderStep(d), ~ Number(e), ~ Insert(e)
      PROVE  seq'[e] = seq[e] /\ place'[e] \in {place[e], "gone"}
  <2>1. CASE Number(d) \/ Insert(d)
    <3>1. e # d
      BY <1>1, <2>1
    <3> QED
      BY <2>1, <3>1 DEF Number, Insert
  <2>2. CASE CheckCap(d)
    BY <2>2 DEF CheckCap, Leave
  <2> QED
    BY <1>1, <2>1, <2>2 DEF RecorderStep
<1>2. ASSUME NEW d \in Events, RecorderStep(d), Insert(e)
      PROVE  Number(e) \/ seq'[e] = seq[e]
  BY <1>2 DEF Insert
<1>3. CASE Kill \/ UNCHANGED vars
  BY <1>3 DEF Kill, vars
<1>4. ASSUME NEW w \in Workers, PushStep(w)
      PROVE  seq'[e] = seq[e] /\ place'[e] \in {place[e], "gone"}
  <2>1. UNCHANGED seq
    BY <1>4 DEF PushStep, recorder, StartPush, TakeBatch, Answered, ErrorStatus,
       PushFails, Cancel
  <2>2. UNCHANGED place \/ \E S, back : Leave(S, back)
    BY <1>4 DEF PushStep, StartPush, TakeBatch, Answered, ErrorStatus, PushFails,
       Cancel
  <2> QED
    BY <2>1, <2>2 DEF Leave
<1>5. ASSUME NEW w \in Workers, ServerStep(w)
      PROVE  UNCHANGED <<seq, place>>
  BY <1>5 DEF ServerStep, Progress, phone, recorder, HandleSingle, GeofenceCheck,
     GeofenceCommit, EventFails, InsertLocations, RequestFails, AnswerNobody
<1> QED
  BY <1>1, <1>2, <1>3, <1>4, <1>5 DEF Next

\* If there is a row, one has the greatest number.
LEMMA GreatestNumber ==
    ASSUME TypeOK, Rows # {}
    PROVE  \E e \in Rows : \A d \in Rows : seq[d] <= seq[e]
<1> DEFINE Above(e) == {d \in Rows : seq[d] > seq[e]}
           Choice == {Above(e) : e \in Rows}
<1>1. Rows \subseteq Events /\ IsFiniteSet(Rows)
  BY EventAssumption, FS_Subset DEF Rows
<1>2. \A e \in Rows : seq[e] \in Int
  BY EventAssumption, FS_CardinalityType DEF TypeOK, Rows
<1>3. Choice # {} /\ Choice \subseteq FiniteSubsetsOf(Rows)
  <2>1. Choice # {} /\ Choice \subseteq SUBSET Rows
    <3>1. \A e \in Rows : Above(e) \subseteq Rows
      OBVIOUS
    <3> QED
      BY <3>1
  <2>2. FiniteSubsetsOf(Rows) = SUBSET Rows
    BY <1>1, FS_FiniteSubsetsOfFinite
  <2> QED
    BY <2>1, <2>2
<1>4. IsWellFoundedOn(StrictSubsetOrdering(Rows), FiniteSubsetsOf(Rows))
  BY FS_StrictSubsetOrderingWellFounded
<1>5. PICK A \in Choice : \A B \in Choice :
                              ~ (<<B, A>> \in StrictSubsetOrdering(Rows))
  <2> HIDE DEF Choice
  <2> QED
    BY <1>3, <1>4, WFMin
<1>6. PICK e \in Rows : A = Above(e)
  BY <1>5
<1>7. ASSUME NEW d \in Rows, seq[d] > seq[e]
      PROVE  FALSE
  <2>1. Above(d) \subseteq Above(e) /\ d \in Above(e) /\ d \notin Above(d)
    BY <1>2, <1>7
  <2>2. <<Above(d), Above(e)>> \in StrictSubsetOrdering(Rows)
    BY <2>1 DEF StrictSubsetOrdering
  <2> QED
    BY <1>5, <1>6, <2>2
<1> QED
  BY <1>2, <1>7

\* The number a recorder adds one to is a number already given, and at least
\* that of every row when the process is new.
LEMMA LastSeqBounds ==
    ASSUME TypeOK, NumbersFit
    PROVE  /\ LastSeq \in Nat
           /\ LastSeq <= Cardinality(Given)
           /\ counter >= 0 => LastSeq = counter
           /\ counter = -1 => \A e \in Rows : seq[e] <= LastSeq
<1> USE DEF TypeOK
<1> DEFINE Numbers == {0} \cup {seq[e] : e \in Rows}
<1>1. Cardinality(Given) \in Nat /\ Cardinality(Events) \in Nat
  BY EventAssumption, FS_Subset, FS_CardinalityType DEF Given
<1>2. CASE counter >= 0
  BY <1>1, <1>2 DEF LastSeq, NumbersFit
<1>3. CASE counter = -1
  <2>1. \E n \in Numbers : \A e \in Rows : seq[e] <= n
    <3>1. CASE Rows = {}
      BY <3>1
    <3>2. CASE Rows # {}
      BY <3>2, GreatestNumber
    <3> QED
      BY <3>1, <3>2
  <2>2. /\ LastSeq \in Numbers
        /\ \A e \in Rows : seq[e] <= LastSeq
    <3>1. LastSeq = CHOOSE n \in Numbers : \A e \in Rows : seq[e] <= n
      BY <1>3 DEF LastSeq
    <3> HIDE DEF Numbers
    <3> QED
      BY <2>1, <3>1
  <2>3. LastSeq \in Nat /\ LastSeq <= Cardinality(Given)
    BY <2>2, <1>1 DEF NumbersFit, Rows
  <2> QED
    BY <1>3, <2>2, <2>3
<1>4. counter = -1 \/ counter >= 0
  BY <1>1
<1> QED
  BY <1>2, <1>3, <1>4

\* A number more than those given fits as soon as its event is counted.
LEMMA GivenGrows ==
    ASSUME TypeOK, NEW e \in Events, Number(e)
    PROVE  Cardinality(Given') = Cardinality(Given) + 1
<1>1. Given' = Given \cup {e} /\ e \notin Given
  BY DEF TypeOK, Number, Given
<1>2. IsFiniteSet(Given)
  BY EventAssumption, FS_Subset DEF Given
<1> QED
  BY <1>1, <1>2, FS_AddElement
-----------------------------------------------------------------------------
(* Types *)

\* The state begins with legal values and no number.
LEMMA TypeInit ==
    ASSUME Init
    PROVE  TypeOK /\ NumbersFit
<1>1. Cardinality(Events) \in Nat /\ Cardinality(Given) = 0
  BY EventAssumption, FS_CardinalityType, FS_EmptySet DEF Init, Given
<1> QED
  BY <1>1, EventAssumption DEF Init, TypeOK, NumbersFit

\* No step gives a number greater than that of the events numbered so far.
LEMMA NumbersStep ==
    ASSUME TypeOK, NumbersFit, [Next]_vars
    PROVE  /\ NumbersFit'
           /\ counter' \in -1..Cardinality(Events)
           /\ seq' \in [Events -> 0..Cardinality(Events)]
<1> USE DEF TypeOK
<1>1. /\ Cardinality(Given) \in Nat /\ Cardinality(Events) \in Nat
      /\ Cardinality(Given') \in Nat /\ Cardinality(Given') <= Cardinality(Events)
  BY EventAssumption, FS_Subset, FS_CardinalityType DEF Given
<1>2. ASSUME NEW e \in Events, Number(e)
      PROVE  /\ NumbersFit'
             /\ counter' \in -1..Cardinality(Events)
             /\ seq' \in [Events -> 0..Cardinality(Events)]
  <2>1. counter' = LastSeq + 1 /\ seq' = [seq EXCEPT ![e] = LastSeq + 1]
    BY <1>2 DEF Number
  <2>2. LastSeq \in Nat /\ LastSeq + 1 <= Cardinality(Given')
    BY <1>1, <1>2, GivenGrows, LastSeqBounds
  <2>3. counter' \in Nat /\ counter' <= Cardinality(Given')
    BY <2>1, <2>2
  <2>4. \A d \in Events : seq'[d] \in Nat /\ seq'[d] <= Cardinality(Given')
    BY <1>1, <1>2, <2>1, <2>2, GivenGrows DEF NumbersFit
  <2> QED
    BY <1>1, <2>1, <2>3, <2>4 DEF NumbersFit
<1>3. ASSUME counter' \in {-1, counter}, UNCHANGED seq,
             \A d \in Events : place[d] # "new" => place'[d] # "new"
      PROVE  /\ NumbersFit'
             /\ counter' \in -1..Cardinality(Events)
             /\ seq' \in [Events -> 0..Cardinality(Events)]
  <2>1. Cardinality(Given) <= Cardinality(Given')
    <3>1. Given \subseteq Given' /\ IsFiniteSet(Given')
      BY <1>3, EventAssumption, FS_Subset DEF Given
    <3> QED
      BY <3>1, FS_Subset
  <2> QED
    BY <1>1, <1>3, <2>1 DEF NumbersFit
<1>4. CASE ~ \E e \in Events : Number(e)
  <2>1. counter' \in {-1, counter} /\ UNCHANGED seq
    BY <1>4 DEF Next, RecorderStep, PushStep, ServerStep, Progress, vars, phone, recorder,
       Kill, Insert, CheckCap, StartPush, TakeBatch, Answered, ErrorStatus,
       PushFails, Cancel, HandleSingle, GeofenceCheck, GeofenceCommit,
       EventFails, InsertLocations, RequestFails, AnswerNobody
  <2>2. \A d \in Events : place[d] # "new" => place'[d] # "new"
    BY <1>4, EventStep DEF Insert
  <2> QED
    BY <1>3, <2>1, <2>2
<1> QED
  BY <1>2, <1>4

\* What StoreOnce does to the tables of the server.
LEMMA StoreOnceType ==
    ASSUME TypeOK, NEW S, StoreOnce(S)
    PROVE  /\ stored' \in [Events -> 0..2]
           /\ \A e \in Events : /\ stored[e] > 0 => stored'[e] = stored[e]
                                /\ stored'[e] # stored[e] => stored'[e] = 1
                                /\ e \in S => stored'[e] > 0
BY DEF TypeOK, StoreOnce

\* Every step keeps the types.
LEMMA TypeStep ==
    ASSUME TypeOK, NumbersFit, [Next]_vars
    PROVE  TypeOK'
<1> USE EventAssumption
<1> USE DEF TypeOK, phone, tables, recorder, worker, request, Goto, Serve, Leave, EndRun,
            EndRequest, Handled
<1>1. /\ counter' \in -1..Cardinality(Events)
      /\ seq' \in [Events -> 0..Cardinality(Events)]
  BY NumbersStep
<1>2. ASSUME NEW e \in Events, RecorderStep(e)
      PROVE  TypeOK'
  BY <1>1, <1>2 DEF RecorderStep, Number, Insert, CheckCap
<1>3. CASE Kill
  BY <1>1, <1>3 DEF Kill
<1>4. ASSUME NEW w \in Workers, PushStep(w)
      PROVE  TypeOK'
  <2>1. CASE StartPush(w)
    BY <1>1, <2>1 DEF StartPush
  <2>2. CASE TakeBatch(w)
    <3>1. NextBatch \subseteq Events
      BY DEF NextBatch, Rows
    <3> QED
      BY <1>1, <2>2, <3>1 DEF TakeBatch, ReadDevice
  <2>3. CASE Answered(w)
    BY <1>1, <2>3 DEF Answered
  <2>4. CASE ErrorStatus(w)
    BY <1>1, <2>4 DEF ErrorStatus
  <2>5. CASE PushFails(w)
    BY <1>1, <2>5 DEF PushFails
  <2>6. CASE Cancel(w)
    BY <1>1, <2>6 DEF Cancel
  <2> QED
    BY <1>4, <2>1, <2>2, <2>3, <2>4, <2>5, <2>6 DEF PushStep
<1>5. ASSUME NEW w \in Workers, ServerStep(w)
      PROVE  TypeOK'
  <2>1. stored' \in [Events -> 0..2]
    BY <1>5, StoreOnceType DEF ServerStep, Progress, HandleSingle, GeofenceCheck,
       GeofenceCommit, EventFails, InsertLocations, RequestFails, AnswerNobody
  <2>2. ASSUME NEW e \in Urgent,
               \/ HandleSingle(w, e) \/ GeofenceCheck(w, e)
               \/ GeofenceCommit(w, e) \/ EventFails(w, e)
        PROVE  TypeOK'
    <3>1. e \in Events
      BY DEF Events
    <3> QED
      BY <1>1, <2>1, <2>2, <3>1 DEF HandleSingle, GeofenceCheck, GeofenceCommit,
         EventFails
  <2>3. CASE InsertLocations(w)
    BY <1>1, <2>1, <2>3 DEF InsertLocations
  <2>4. CASE RequestFails(w)
    BY <1>1, <2>1, <2>4 DEF RequestFails
  <2>5. CASE AnswerNobody(w)
    BY <1>1, <2>1, <2>5 DEF AnswerNobody
  <2> QED
    BY <1>5, <2>2, <2>3, <2>4, <2>5 DEF ServerStep, Progress
<1>6. CASE UNCHANGED vars
  BY <1>6 DEF vars
<1> QED
  BY <1>2, <1>3, <1>4, <1>5, <1>6 DEF Next

\* The state of the recorders, of the jobs and of the server is always legal,
\* and no number exceeds the count of the events.
THEOREM TypeCorrect == Spec => [](TypeOK /\ NumbersFit)
<1>1. Init => TypeOK /\ NumbersFit
  BY TypeInit
<1>2. TypeOK /\ NumbersFit /\ [Next]_vars => (TypeOK /\ NumbersFit)'
  BY TypeStep, NumbersStep
<1> QED
  BY <1>1, <1>2, PTL DEF Spec

-----------------------------------------------------------------------------
(* No event is stored twice *)

\* A step of the server stores at most once, no other step stores at all.
LEMMA StoredStep ==
    ASSUME TypeOK, [Next]_vars
    PROVE  \/ UNCHANGED stored
           \/ \E S \in SUBSET Events : StoreOnce(S)
<1>1. ASSUME NEW w \in Workers, ServerStep(w)
      PROVE  UNCHANGED stored \/ \E S \in SUBSET Events : StoreOnce(S)
  <2>1. todo[w] \subseteq Events
    BY DEF TypeOK
  <2>2. ASSUME NEW e \in Urgent,
               \/ HandleSingle(w, e) \/ GeofenceCheck(w, e)
               \/ GeofenceCommit(w, e) \/ EventFails(w, e)
        PROVE  UNCHANGED stored \/ StoreOnce({e})
    BY <2>2 DEF HandleSingle, GeofenceCheck, GeofenceCommit, EventFails
  <2>3. CASE InsertLocations(w) \/ RequestFails(w) \/ AnswerNobody(w)
    BY <2>1, <2>3 DEF InsertLocations, RequestFails, AnswerNobody, tables
  <2> QED
    BY <1>1, <2>2, <2>3 DEF ServerStep, Progress, Events
<1> QED
  BY <1>1 DEF Next, RecorderStep, PushStep, vars, tables, Kill, Number, Insert, CheckCap,
     StartPush, TakeBatch, Answered, ErrorStatus, PushFails, Cancel

\* An event sent again, by another job or after a lost answer, is stored once.
THEOREM StoredOnce == Spec => []ExactlyOnce
<1>1. Init => ExactlyOnce
  BY DEF Init, ExactlyOnce
<1>2. TypeOK /\ ExactlyOnce /\ [Next]_vars => ExactlyOnce'
  <2> SUFFICES ASSUME TypeOK, ExactlyOnce, [Next]_vars
               PROVE  ExactlyOnce'
    OBVIOUS
  <2>1. CASE UNCHANGED stored
    BY <2>1 DEF ExactlyOnce
  <2>2. ASSUME NEW S \in SUBSET Events, StoreOnce(S)
        PROVE  ExactlyOnce'
    BY <2>2 DEF ExactlyOnce, StoreOnce, TypeOK
  <2> QED
    BY <2>1, <2>2, StoredStep
<1> QED
  BY <1>1, <1>2, TypeCorrect, PTL DEF Spec

-----------------------------------------------------------------------------
(* Nothing urgent is lost *)

\* The four kinds of events do not meet: dropping locations drops nothing urgent.
LEMMA KindsDisjoint == Urgent \cap Locations = {}
BY EventAssumption DEF Urgent

\* The tables of the server only grow.
LEMMA StoredGrows ==
    ASSUME TypeOK, [Next]_vars
    PROVE  \A e \in Events : stored[e] > 0 => stored'[e] > 0
<1>1. CASE UNCHANGED stored
  BY <1>1
<1>2. ASSUME NEW S \in SUBSET Events, StoreOnce(S)
      PROVE  \A e \in Events : stored[e] > 0 => stored'[e] > 0
  BY <1>2, StoreOnceType DEF TypeOK
<1> QED
  BY <1>1, <1>2, StoredStep

\* The server never takes back that it has ignored a transition.
LEMMA IgnoredGrows ==
    ASSUME [Next]_vars
    PROVE  ignored \subseteq ignored'
  BY DEF Next, RecorderStep, PushStep, ServerStep, Progress, vars, tables, Kill, Number,
     Insert, CheckCap, StartPush, TakeBatch, Answered, ErrorStatus, PushFails, Cancel,
     HandleSingle, GeofenceCheck, GeofenceCommit, EventFails, InsertLocations,
     RequestFails, AnswerNobody

\* What the server acknowledges in a step, it has stored or ignored.
LEMMA AckedStep ==
    ASSUME TypeOK, AckedStored, [Next]_vars
    PROVE  AckedStored'
<1> USE DEF TypeOK
<1>1. ASSUME NEW w \in Workers, NEW e \in acked'[w], e \notin acked[w]
      PROVE  e \in Events /\ (stored'[e] > 0 \/ e \in ignored')
  <2>1. \E v \in Workers : ServerStep(v)
    BY <1>1 DEF Next, RecorderStep, PushStep, vars, Kill, Number, Insert, CheckCap,
       StartPush, TakeBatch, Answered, ErrorStatus, PushFails, Cancel, request,
       EndRequest
  <2>2. PICK v \in Workers : ServerStep(v)
    BY <2>1
  <2>3. ASSUME NEW d \in Urgent,
               \/ HandleSingle(v, d) \/ GeofenceCheck(v, d)
               \/ GeofenceCommit(v, d) \/ EventFails(v, d)
        PROVE  e \in Events /\ (stored'[e] > 0 \/ e \in ignored')
    <3>1. d \in Events
      BY DEF Events
    <3>2. /\ e = d
          /\ \/ StoreOnce({d})
             \/ stored[d] > 0 /\ UNCHANGED stored
             \/ d \in ignored'
      BY <1>1, <2>3, <3>1 DEF HandleSingle, GeofenceCheck, GeofenceCommit,
         EventFails, Handled, Serve
    <3> QED
      BY <3>1, <3>2, StoreOnceType
  <2>4. CASE InsertLocations(v)
    <3>1. e \in todo[v] /\ StoreOnce(todo[v])
      BY <1>1, <2>4 DEF InsertLocations
    <3> QED
      BY <3>1, StoreOnceType
  <2>5. CASE RequestFails(v) \/ AnswerNobody(v)
    BY <1>1, <2>5 DEF RequestFails, AnswerNobody, EndRequest
  <2> QED
    BY <2>2, <2>3, <2>4, <2>5 DEF ServerStep, Progress
<1>2. ASSUME NEW w \in Workers, NEW e \in acked'[w], e \in acked[w]
      PROVE  stored'[e] > 0 \/ e \in ignored'
  BY <1>2, StoredGrows, IgnoredGrows DEF AckedStored
<1> QED
  BY <1>1, <1>2 DEF AckedStored

\* The counter covers the events on the phone after each step.
LEMMA CounterStep ==
    ASSUME TypeOK, NumbersFit, CounterBounds, [Next]_vars
    PROVE  CounterBounds'
<1> USE DEF TypeOK
<1>1. Cardinality(Events) \in Nat
  BY EventAssumption, FS_CardinalityType
<1>2. ASSUME NEW e \in Events, Number(e)
      PROVE  CounterBounds'
  <2>1. /\ counter' = LastSeq + 1 /\ seq' = [seq EXCEPT ![e] = LastSeq + 1]
        /\ place' = [place EXCEPT ![e] = "numbered"]
    BY <1>2 DEF Number
  <2>2. /\ LastSeq \in Nat
        /\ \A d \in Events : place[d] \in {"numbered", "row"} => seq[d] <= LastSeq
    BY <1>1, LastSeqBounds DEF CounterBounds, Rows
  <2> QED
    BY <1>1, <2>1, <2>2 DEF CounterBounds
<1>3. CASE Kill
  BY <1>3 DEF Kill, CounterBounds
<1>4. ASSUME NEW e \in Events, Insert(e)
      PROVE  CounterBounds'
  BY <1>4 DEF Insert, CounterBounds
<1>5. ASSUME UNCHANGED <<counter, seq>>,
             \A d \in Events : place'[d] \in {place[d], "gone"}
      PROVE  CounterBounds'
  BY <1>5 DEF CounterBounds
<1>6. CASE ~ Kill /\ ~ \E e \in Events : Number(e) \/ Insert(e)
  <2>1. UNCHANGED <<counter, seq>>
    BY <1>6 DEF Next, RecorderStep, PushStep, ServerStep, Progress, vars, phone, recorder,
       CheckCap, StartPush, TakeBatch, Answered, ErrorStatus,
       PushFails, Cancel, HandleSingle, GeofenceCheck, GeofenceCommit,
       EventFails, InsertLocations, RequestFails, AnswerNobody
  <2>2. \A d \in Events : place'[d] \in {place[d], "gone"}
    BY <1>6, EventStep
  <2> QED
    BY <1>5, <2>1, <2>2
<1> QED
  BY <1>2, <1>3, <1>4, <1>6

\* The phone and the server agree at every moment.
THEOREM QueueAgrees == Spec => []Inv
<1>1. Init => Inv
  BY TypeInit DEF Init, Inv, CounterBounds, AckedStored
<1>2. TypeOK /\ Inv /\ [Next]_vars => Inv'
  BY NumbersStep, CounterStep, AckedStep DEF Inv
<1> QED
  BY <1>1, <1>2, TypeCorrect, PTL DEF Spec

\* A security event, a transition or a scan leaves the queue of the phone only
\* once the server has stored it, or has ignored a transition because the device had no
\* depot, whatever is lost, killed or full.
THEOREM NothingUrgentLost == Spec => NothingLost
<1>1. TypeOK /\ Inv /\ [Next]_vars => UrgentKept
  <2> SUFFICES ASSUME TypeOK, AckedStored, [Next]_vars, NEW e \in Urgent,
                      place[e] = "row", place'[e] = "gone"
               PROVE  stored[e] > 0 \/ e \in ignored
    BY DEF Inv, UrgentKept
  <2> USE DEF TypeOK
  <2>1. e \in Events /\ e \notin Locations
    BY KindsDisjoint DEF Events
  <2>2. \/ \E w \in Workers : Answered(w) \/ ErrorStatus(w)
        \/ \E d \in Events : CheckCap(d)
    BY <2>1 DEF Next, RecorderStep, PushStep, ServerStep, Progress, vars, phone, Kill,
       Number, Insert, StartPush, TakeBatch, PushFails, Cancel, HandleSingle,
       GeofenceCheck, GeofenceCommit, EventFails, InsertLocations, RequestFails,
       AnswerNobody
  <2>3. ASSUME NEW d \in Events, CheckCap(d)
        PROVE  FALSE
    BY <2>1, <2>3 DEF CheckCap, Leave, Oldest
  <2>4. ASSUME NEW w \in Workers, ErrorStatus(w)
        PROVE  FALSE
    BY <2>1, <2>4 DEF ErrorStatus, Leave
  <2>5. ASSUME NEW w \in Workers, Answered(w)
        PROVE  e \in acked[w]
    BY <2>1, <2>5 DEF Answered, Leave
  <2> QED
    BY <2>2, <2>3, <2>4, <2>5 DEF AckedStored
<1>2. (TypeOK /\ Inv) /\ [Next]_vars => [UrgentKept]_vars
  BY <1>1
<1> QED
  BY <1>2, TypeCorrect, QueueAgrees, PTL DEF Spec, NothingLost

\* A recorder numbers after every event still on the phone.
LEMMA NumberedLastStep ==
    ASSUME TypeOK, Inv, [Next]_vars
    PROVE  NumberedLast
<1> SUFFICES ASSUME NEW e \in Events, place[e] = "new", place'[e] = "numbered",
                    NEW d \in Events, place[d] \in {"numbered", "row"}
             PROVE  seq[d] < seq'[e]
  BY DEF NumberedLast
<1> USE DEF TypeOK
<1>1. Number(e)
  BY EventStep DEF Insert
<1>2. LastSeq \in Nat /\ seq[d] \in Int /\ counter \in Int
  BY EventAssumption, FS_CardinalityType, LastSeqBounds DEF Inv
<1>3. seq[d] <= LastSeq
  BY LastSeqBounds, <1>2, EventAssumption, FS_CardinalityType
  DEF Inv, CounterBounds, Rows
<1> QED
  BY <1>1, <1>2, <1>3 DEF Number

\* An event gets a greater number than every event still on the phone, in a
\* new process too.
THEOREM NumberedAfterAll == Spec => OrderKept
<1>1. (TypeOK /\ Inv) /\ [Next]_vars => [NumberedLast]_vars
  BY NumberedLastStep
<1> QED
  BY <1>1, TypeCorrect, QueueAgrees, PTL DEF Spec, OrderKept

-----------------------------------------------------------------------------
(* Transitions are applied in order *)

\* Transitions are ranked together.
LEMMA GeofenceRank == \A g \in Geofences : Rank(g) = 1
BY EventAssumption DEF Rank

\* A batch takes, with a transition, all the rows of those that precede it.
LEMMA BatchInOrder ==
    ASSUME TypeOK, NEW g \in NextBatch \cap Geofences,
           NEW h \in Rows \cap Geofences, seq[h] < seq[g]
    PROVE  h \in NextBatch
<1> DEFINE Ahead(e) == {d \in Rows : Before(d, e)}
<1>1. IsFiniteSet(Rows)
  BY EventAssumption, FS_Subset DEF Rows
<1>2. Ahead(h) \subseteq Ahead(g)
  <2>1. ASSUME NEW d \in Rows, Before(d, h)
        PROVE  Before(d, g)
    <3>1. seq[d] \in Int /\ seq[h] \in Int /\ seq[g] \in Int
      BY EventAssumption, FS_CardinalityType DEF TypeOK, Rows, NextBatch
    <3> QED
      BY <2>1, <3>1, GeofenceRank DEF Before
  <2> QED
    BY <2>1
<1>3. /\ Cardinality(Ahead(h)) <= Cardinality(Ahead(g))
      /\ Cardinality(Ahead(h)) \in Nat /\ Cardinality(Ahead(g)) \in Nat
  <2>1. IsFiniteSet(Ahead(g))
    BY <1>1, FS_Subset
  <2> HIDE DEF Ahead
  <2> QED
    BY <1>2, <2>1, FS_Subset, FS_CardinalityType
<1>4. Cardinality(Ahead(g)) < BatchSize /\ BatchSize \in Nat
  BY EventAssumption DEF NextBatch
<1> QED
  BY <1>3, <1>4 DEF NextBatch

\* A transition leaves a request that has done with it.
Passed(w, g) == stored'[g] > 0 \/ (w \in bare /\ g \in ignored')

\* A request is a batch just taken, is over, or loses a transition only when
\* the server has it, or ignores it because the device has no depot.
LEMMA RequestStep ==
    ASSUME TypeOK, [Next]_vars, "error" \notin Faults, NEW w \in Workers
    PROVE  \/ todo'[w] = {}
           \/ todo'[w] = NextBatch /\ UNCHANGED <<seq, place, stored>>
           \/ /\ todo'[w] \subseteq todo[w] /\ (w \in bare' <=> w \in bare)
              /\ \A g \in (todo[w] \ todo'[w]) \cap Geofences : Passed(w, g)
<1> USE DEF TypeOK
<1>1. ASSUME NEW v \in Workers, NEW e \in Urgent,
             \/ HandleSingle(v, e) \/ GeofenceCheck(v, e)
             \/ GeofenceCommit(v, e)
      PROVE  /\ todo'[w] \subseteq todo[w] /\ UNCHANGED bare
             /\ \A g \in (todo[w] \ todo'[w]) \cap Geofences : Passed(w, g)
  <2>1. e \in Events
    BY DEF Events
  <2>2. UNCHANGED todo \/ todo' = [todo EXCEPT ![v] = @ \ {e}]
    BY <1>1 DEF HandleSingle, GeofenceCheck, GeofenceCommit, Handled
  <2>3. ASSUME NEW g \in (todo[w] \ todo'[w]) \cap Geofences
        PROVE  Passed(w, g)
    <3>1. v = w /\ g = e /\ todo'[v] = todo[v] \ {e} /\ todo' # todo
      BY <2>2
    <3>2. e \notin Alerts \cup Scans
      BY <3>1, EventAssumption
    <3>3. \/ StoreOnce({e})
          \/ UNCHANGED stored /\ stored[e] > 0
          \/ v \in bare /\ e \in ignored'
      BY <1>1, <3>1, <3>2 DEF HandleSingle, GeofenceCheck, GeofenceCommit
    <3> QED
      BY <2>1, <3>1, <3>3, StoreOnceType DEF Passed
  <2>4. UNCHANGED bare
    BY <1>1 DEF HandleSingle, GeofenceCheck, GeofenceCommit
  <2> QED
    BY <2>2, <2>3, <2>4
<1>2. ASSUME NEW v \in Workers, PushStep(v)
      PROVE  \/ todo'[w] = {}
             \/ todo'[w] = NextBatch /\ UNCHANGED <<seq, place, stored>>
             \/ todo'[w] = todo[w] /\ (w \in bare' <=> w \in bare)
  BY <1>2 DEF PushStep, request, tables, recorder, EndRequest, StartPush, TakeBatch,
     ReadDevice, Answered, ErrorStatus, PushFails, Cancel
<1>3. ASSUME NEW v \in Workers, InsertLocations(v) \/ AnswerNobody(v)
      PROVE  \/ todo'[w] = {}
             \/ todo'[w] = todo[w] /\ (w \in bare' <=> w \in bare)
  BY <1>3 DEF InsertLocations, AnswerNobody, EndRequest
<1>4. ASSUME UNCHANGED <<todo, bare>>
      PROVE  /\ todo'[w] \subseteq todo[w] /\ (w \in bare' <=> w \in bare)
             /\ \A g \in (todo[w] \ todo'[w]) \cap Geofences : Passed(w, g)
  BY <1>4
<1>5. CASE Kill \/ UNCHANGED vars \/ \E e \in Events : RecorderStep(e)
  <2>1. UNCHANGED <<todo, bare>>
    BY <1>5 DEF Kill, vars, request, RecorderStep, Number, Insert, CheckCap
  <2> QED
    BY <1>4, <2>1
<1>6. ASSUME NEW v \in Workers, ServerStep(v)
      PROVE  \/ todo'[w] = {}
             \/ /\ todo'[w] \subseteq todo[w] /\ (w \in bare' <=> w \in bare)
                /\ \A g \in (todo[w] \ todo'[w]) \cap Geofences : Passed(w, g)
  <2>1. Progress(v)
    BY <1>6 DEF ServerStep, RequestFails, EventFails
  <2> QED
    BY <1>1, <1>3, <2>1 DEF Progress
<1> QED
  BY <1>2, <1>5, <1>6 DEF Next

\* A transition is committed for a request whose device has a depot.
LEMMA CommitStep ==
    ASSUME TypeOK, CommitsWithDepot, [Next]_vars
    PROVE  CommitsWithDepot'
<1> SUFFICES ASSUME NEW w \in Workers, handler'[w] = "commit" PROVE w \notin bare'
  BY DEF CommitsWithDepot
<1> USE DEF TypeOK, Serve
<1>1. CASE Kill \/ UNCHANGED vars \/ \E e \in Events : RecorderStep(e)
  BY <1>1 DEF Kill, vars, request, RecorderStep, Number, Insert, CheckCap, CommitsWithDepot
<1>2. ASSUME NEW v \in Workers, PushStep(v) PROVE w \notin bare'
  <2>1. \/ UNCHANGED <<handler, bare>>
        \/ handler' = [handler EXCEPT ![v] = "none"] /\ bare' = bare \ {v}
        \/ handler' = [handler EXCEPT ![v] = "next"] /\ bare' \subseteq bare \cup {v}
    BY <1>2 DEF PushStep, request, EndRequest, StartPush, TakeBatch, ReadDevice, Answered,
       ErrorStatus, PushFails, Cancel
  <2>2. QED
    BY <2>1 DEF CommitsWithDepot
<1>3. ASSUME NEW v \in Workers, ServerStep(v) PROVE w \notin bare'
  <2>1. CASE AnswerNobody(v)
    BY <2>1 DEF AnswerNobody, EndRequest, CommitsWithDepot
  <2>2. CASE InsertLocations(v) \/ RequestFails(v)
    BY <2>2 DEF InsertLocations, RequestFails, CommitsWithDepot
  <2>3. ASSUME NEW e \in Urgent,
               \/ HandleSingle(v, e) \/ GeofenceCheck(v, e)
               \/ GeofenceCommit(v, e) \/ EventFails(v, e)
        PROVE  w \notin bare'
    BY <2>3 DEF HandleSingle, GeofenceCheck, GeofenceCommit, EventFails, Handled,
       CommitsWithDepot
  <2>4. QED
    BY <1>3, <2>1, <2>2, <2>3 DEF ServerStep, Progress
<1>4. QED
  BY <1>1, <1>2, <1>3 DEF Next

\* One step keeps the requests in order.
LEMMA OrderStep ==
    ASSUME TypeOK, Inv, OrderInv, UrgentKept, [Next]_vars, "error" \notin Faults
    PROVE  OrderInv'
<1> USE DEF TypeOK
<1>1. /\ \A e \in Events : seq[e] \in Int /\ seq'[e] \in Int
      /\ TypeOK'
  BY TypeStep, EventAssumption, FS_CardinalityType DEF Inv
<1>2. Urgent \subseteq Events /\ Geofences \subseteq Urgent
  BY DEF Events, Urgent
<1>3. SentKept'
  <2> SUFFICES ASSUME NEW w \in Workers, NEW e \in todo'[w] \cap Urgent,
                      ~ (place'[e] = "gone" /\ (stored'[e] > 0 \/ e \in ignored'))
               PROVE  place'[e] = "row"
    BY DEF SentKept
  <2>1. CASE todo'[w] = NextBatch /\ UNCHANGED <<seq, place, stored>>
    BY <2>1 DEF NextBatch, Rows
  <2>2. CASE todo'[w] \subseteq todo[w]
    <3>1. \/ place[e] = "row"
          \/ place[e] = "gone" /\ (stored[e] > 0 \/ e \in ignored)
      BY <2>2 DEF OrderInv, SentKept
    <3>2. place'[e] \in {place[e], "gone"}
      BY <1>2, <3>1, EventStep DEF Number, Insert
    <3> QED
      BY <1>2, <3>1, <3>2, StoredGrows, IgnoredGrows DEF UrgentKept
  <2> QED
    BY <2>1, <2>2, RequestStep
<1>4. InsertedInOrder'
  <2> SUFFICES ASSUME NEW g \in Geofences, NEW h \in Geofences,
                      place'[g] = "numbered"
               PROVE  /\ place'[h] = "row" => seq'[h] < seq'[g]
                      /\ place'[h] = "numbered" => h = g
    BY DEF InsertedInOrder
  <2>1. CASE Number(g)
    <3>1. place'[h] = place[h] \/ h = g
      BY <1>2, <2>1 DEF Number
    <3>2. place[h] # "numbered" /\ place[g] = "new"
      BY <2>1 DEF Number
    <3>3. place'[h] = "row" => seq'[h] = seq[h] /\ place[h] = "row"
      BY <1>2, <2>1, <3>1 DEF Number
    <3>4. NumberedLast
      BY NumberedLastStep
    <3> QED
      BY <1>2, <3>1, <3>2, <3>3, <3>4 DEF NumberedLast
  <2>2. CASE ~ Number(g)
    <3>1. place[g] = "numbered" /\ seq'[g] = seq[g]
      BY <1>2, <2>2, EventStep DEF Insert
    <3>2. ~ Number(h)
      BY <3>1 DEF Number
    <3>3. CASE Insert(h)
      <4>1. h = g
        BY <3>1, <3>3 DEF OrderInv, InsertedInOrder, Insert
      <4> QED
        BY <1>2, <3>3, <4>1 DEF Insert
    <3>4. CASE place'[h] \in {place[h], "gone"} /\ seq'[h] = seq[h]
      BY <3>1, <3>4 DEF OrderInv, InsertedInOrder
    <3> QED
      BY <1>2, <3>2, <3>3, <3>4, EventStep
  <2> QED
    BY <2>1, <2>2
<1>5. SentInOrder'
  <2> SUFFICES ASSUME NEW w \in Workers, w \notin bare', NEW g \in todo'[w] \cap Geofences,
                      stored'[g] = 0, place'[g] = "row", NEW h \in Geofences,
                      place'[h] = "row", stored'[h] = 0, seq'[h] < seq'[g]
               PROVE  h \in todo'[w]
    BY DEF SentInOrder
  <2>1. CASE todo'[w] = NextBatch /\ UNCHANGED <<seq, place, stored>>
    BY <1>2, <2>1, BatchInOrder DEF Rows
  <2>2. CASE /\ todo'[w] \subseteq todo[w] /\ (w \in bare' <=> w \in bare)
             /\ \A e \in (todo[w] \ todo'[w]) \cap Geofences : Passed(w, e)
    <3>1. stored[g] = 0 /\ stored[h] = 0 /\ w \notin bare
      BY <1>2, <2>2, StoredGrows
    <3>2. place[g] = "row"
      <4>1. place[g] \in {"row", "gone"}
        BY <1>2, <2>2 DEF OrderInv, SentKept
      <4> QED
        BY <1>2, <4>1, EventStep DEF Number, Insert
    <3>3. seq'[g] = seq[g] /\ seq'[h] = seq[h]
      BY <1>2, <3>2, EventStep DEF Number
    <3>4. CASE place[h] = "row"
      <4>1. h \in todo[w]
        BY <2>2, <3>1, <3>2, <3>3, <3>4 DEF OrderInv, SentInOrder
      <4> QED
        BY <2>2, <3>1, <4>1 DEF Passed
    <3>5. CASE Insert(h)
      <4>1. seq[g] < seq[h]
        BY <3>2, <3>5 DEF OrderInv, InsertedInOrder, Insert
      <4> QED
        BY <1>1, <1>2, <3>3, <4>1
    <3> QED
      BY <1>2, <3>4, <3>5, EventStep DEF Number
  <2> QED
    BY <2>1, <2>2, RequestStep
<1>6. CommitsWithDepot'
  BY CommitStep DEF OrderInv
<1> QED
  BY <1>3, <1>4, <1>5, <1>6 DEF OrderInv

\* One step applies a transition after those that precede it.
LEMMA AppliedInOrder ==
    ASSUME TypeOK, OrderInv, [Next]_vars, "error" \notin Faults
    PROVE  GeofenceInOrder
<1> SUFFICES ASSUME NEW g \in Geofences, stored'[g] > stored[g], place[g] = "row",
                    NEW h \in Geofences, place[h] = "row", seq[h] < seq[g]
             PROVE  stored[h] > 0
  BY DEF GeofenceInOrder
<1> USE DEF TypeOK
<1>1. g \in Events /\ h \in Events /\ g \notin Alerts \cup Scans \cup Locations
  BY EventAssumption DEF Events, Urgent
<1>2. PICK w \in Workers : ServerStep(w)
  BY <1>1 DEF Next, RecorderStep, PushStep, vars, tables, Kill, Number, Insert, CheckCap,
     StartPush, TakeBatch, Answered, ErrorStatus, PushFails, Cancel
<1>3. GeofenceCommit(w, g) /\ stored[g] = 0
  <2>1. ASSUME NEW S, StoreOnce(S)
        PROVE  g \in S /\ stored[g] = 0
    BY <1>1, <2>1 DEF StoreOnce
  <2>2. ~ (InsertLocations(w) \/ AnswerNobody(w))
    BY <1>1, <2>1 DEF InsertLocations, AnswerNobody, tables
  <2>3. PICK e \in Urgent : \/ HandleSingle(w, e) \/ GeofenceCheck(w, e)
                            \/ GeofenceCommit(w, e)
    BY <1>2, <2>2 DEF ServerStep, Progress, RequestFails, EventFails
  <2>4. StoreOnce({e}) /\ ~ GeofenceCheck(w, e)
    <3>1. stored' # stored
      BY <1>1
    <3> QED
      BY <2>3, <3>1 DEF HandleSingle, GeofenceCheck, GeofenceCommit
  <2>5. e = g /\ stored[g] = 0
    BY <2>1, <2>4
  <2> QED
    BY <1>1, <2>3, <2>4, <2>5 DEF HandleSingle
<1>4. SUFFICES ASSUME stored[h] = 0
               PROVE  FALSE
  BY <1>1
<1>5. h \in todo[w] \ Locations /\ h # g
  <2>1. g \in todo[w] /\ w \notin bare
    BY <1>3 DEF GeofenceCommit, First, OrderInv, CommitsWithDepot
  <2>2. h \in todo[w]
    BY <1>3, <1>4, <2>1 DEF OrderInv, SentInOrder
  <2>3. h # g
    BY <1>1, EventAssumption, FS_CardinalityType
  <2> QED
    BY <2>2, <2>3, EventAssumption
<1>6. seq[g] < seq[h]
  BY <1>3, <1>5, GeofenceRank DEF GeofenceCommit, First, Before
<1> QED
  BY <1>1, <1>6, EventAssumption, FS_CardinalityType

\* As long as no statement of the server fails, the server applies the
\* transitions in their order, whatever is lost, late, cancelled or killed.
THEOREM TransitionsInOrder ==
    ASSUME "error" \notin Faults
    PROVE  Spec => GeofencesInOrder
<1>1. Init => OrderInv
  <2>1. Geofences \subseteq Events
    BY DEF Events, Urgent
  <2> QED
    BY <2>1 DEF Init, OrderInv, SentKept, InsertedInOrder, SentInOrder, CommitsWithDepot
<1>2. TypeOK /\ Inv /\ OrderInv /\ [UrgentKept]_vars /\ [Next]_vars => OrderInv'
  <2>1. CASE UrgentKept
    BY <2>1, OrderStep
  <2>2. CASE UNCHANGED vars
    <3>1. UrgentKept
      BY <2>2 DEF vars, UrgentKept
    <3> QED
      BY <3>1, OrderStep
  <2> QED
    BY <2>1, <2>2
<1>3. TypeOK /\ OrderInv /\ [Next]_vars => [GeofenceInOrder]_vars
  BY AppliedInOrder
<1> QED
  BY <1>1, <1>2, <1>3, TypeCorrect, QueueAgrees, NothingUrgentLost, PTL
  DEF Spec, NothingLost, GeofencesInOrder

-----------------------------------------------------------------------------
(* Whom an alert reaches *)

\* What a company has configured accepts or not, and nobody is asked but who accepts.
LEMMA RoutesAccept ==
    ASSUME RoutingTypeOK, NEW n \in News, NEW s
    PROVE  /\ routeAlert(news[n], s) \in SUBSET Channels
           /\ SeverityRank(news[n]) = Critical /\ setup.valid
              => routeAlert(news[n], s) = {c \in Channels : Accepts(c, news[n])}
  BY DEF RoutingTypeOK, routeAlert, SeverityRank, Critical, Invalid, Kinds

LEMMA RoutingStarts == RoutingInit => RoutingInv
<1> SUFFICES ASSUME RoutingInit PROVE RoutingInv
  OBVIOUS
<1>1. RoutingTypeOK
  <2>1. setup \in {Invalid} \cup [valid : {TRUE}, min : [Channels -> {1, Critical}],
                                 kinds : [Channels -> SUBSET Kinds]]
    <3>1. {{}, {"DEVICE_OFFLINE"}} \subseteq SUBSET Kinds
      BY DEF Kinds
    <3>2. [Channels -> {{}, {"DEVICE_OFFLINE"}}] \subseteq [Channels -> SUBSET Kinds]
      BY <3>1
    <3>3. QED
      BY <3>2 DEF RoutingInit
  <2>2. QED
    BY <2>1 DEF RoutingInit, RoutingTypeOK, Dispatches
<1>2. DispatchesAgree /\ CriticalReachesAll
  BY DEF RoutingInit, DispatchesAgree, CriticalReachesAll, Ended
<1>3. QED
  BY <1>1, <1>2 DEF RoutingInv

\* A step of one dispatch leaves the others as they are.
LEMMA OneDispatch ==
    ASSUME RoutingInv, NEW n \in News,
           NEW d \in Dispatches,
           Set(n, d), UNCHANGED <<Same, quiet>>,
           d.pc \in {"none", "decide"} => d.left = {} /\ d.tried = {},
           d.pc \in {"dated", "silent", "failed"} => d.left = {},
           d.pc \in {"send", "dated", "silent", "failed"} /\ (d.pc = "failed" => d.tried # {})
               /\ SeverityRank(news[n]) = Critical /\ setup.valid
               => d.tried \cup d.left = {c \in Channels : Accepts(c, news[n])}
    PROVE  RoutingInv'
<1>1. dispatch' = [dispatch EXCEPT ![n] = d] /\ setup' = setup /\ ready' = ready
      /\ news' = news /\ quiet' = quiet
  BY DEF Set, Same
<1>2. RoutingTypeOK'
  BY <1>1 DEF RoutingInv, RoutingTypeOK
<1>3. \A m \in News : dispatch'[m] = IF m = n THEN d ELSE dispatch[m]
  BY <1>1 DEF RoutingInv, RoutingTypeOK
<1>4. \A m \in News : \A c \in Channels : Accepts(c, news[m])' <=> Accepts(c, news[m])
  BY <1>1 DEF Accepts
<1>5. \A m \in News : {c \in Channels : Accepts(c, news[m])}' = {c \in Channels : Accepts(c, news[m])}
  BY <1>4
<1>6. DispatchesAgree'
  BY <1>1, <1>3, <1>5 DEF RoutingInv, DispatchesAgree, SeverityRank, Ended
<1>7. CriticalReachesAll'
  BY <1>1, <1>3, <1>5, <1>6 DEF CriticalReachesAll, DispatchesAgree, Ended
<1>8. QED
  BY <1>2, <1>6, <1>7 DEF RoutingInv

LEMMA RoutingStays == RoutingInv /\ [RoutingNext]_routingVars => RoutingInv'
<1> SUFFICES ASSUME RoutingInv, [RoutingNext]_routingVars PROVE RoutingInv'
  OBVIOUS
<1> USE DEF RoutingInv, RoutingTypeOK, DispatchesAgree, Ended
<1>1. ASSUME NEW n \in News, Raised(n) PROVE RoutingInv'
  <2> DEFINE d == [dispatch[n] EXCEPT !.pc = "decide"]
  <2>1. dispatch[n] \in Dispatches
    BY DEF Dispatches
  <2>2. d \in Dispatches
    BY <2>1, <1>1 DEF Dispatches, Raised
  <2>3. Set(n, d) /\ UNCHANGED <<Same, quiet>>
    BY <1>1 DEF Raised
  <2>4. /\ d.pc \in {"none", "decide"} => d.left = {} /\ d.tried = {}
        /\ d.pc \in {"dated", "silent", "failed"} => d.left = {}
        /\ d.pc \in {"send", "dated", "silent", "failed"} /\ (d.pc = "failed" => d.tried # {})
           /\ SeverityRank(news[n]) = Critical /\ setup.valid
           => d.tried \cup d.left = {c \in Channels : Accepts(c, news[n])}
    BY <2>1, <1>1 DEF Raised, Dispatches
  <2>5. QED
    BY <2>2, <2>3, <2>4, OneDispatch
<1>2. ASSUME NEW n \in News, Decide(n) PROVE RoutingInv'
  <2> DEFINE to == routeAlert(news[n], Sent)
             d == [dispatch[n] EXCEPT !.pc = IF to = {} THEN "silent" ELSE "send", !.left = to]
  <2>1. to \in SUBSET Channels /\ (SeverityRank(news[n]) = Critical /\ setup.valid
              => to = {c \in Channels : Accepts(c, news[n])})
    BY RoutesAccept
  <2>2. Set(n, d) /\ UNCHANGED <<Same, quiet>> /\ dispatch[n].pc = "decide"
    BY <1>2 DEF Decide
  <2>3. dispatch[n] \in Dispatches /\ dispatch[n].tried = {}
    BY <2>2 DEF Dispatches
  <2> HIDE DEF to
  <2>4. d \in Dispatches
    BY <2>1, <2>3 DEF Dispatches
  <2>5. /\ d.pc = (IF to = {} THEN "silent" ELSE "send") /\ d.left = to /\ d.tried = {}
    BY <2>3 DEF Dispatches
  <2> HIDE DEF d
  <2>6. QED
    BY <2>1, <2>2, <2>4, <2>5, OneDispatch
<1>3. ASSUME NEW n \in News, DateAlert(n) PROVE RoutingInv'
  <2> DEFINE d == [dispatch[n] EXCEPT !.pc = IF dispatch[n].reached # {} THEN "dated" ELSE "silent"]
  <2>1. dispatch[n] \in Dispatches
    BY DEF Dispatches
  <2>2. d \in Dispatches
    BY <2>1, <1>3 DEF Dispatches, DateAlert
  <2>3. Set(n, d) /\ UNCHANGED <<Same, quiet>>
    BY <1>3 DEF DateAlert
  <2>4. /\ d.pc \in {"none", "decide"} => d.left = {} /\ d.tried = {}
        /\ d.pc \in {"dated", "silent", "failed"} => d.left = {}
        /\ d.pc \in {"send", "dated", "silent", "failed"} /\ (d.pc = "failed" => d.tried # {})
           /\ SeverityRank(news[n]) = Critical /\ setup.valid
           => d.tried \cup d.left = {c \in Channels : Accepts(c, news[n])}
    BY <2>1, <1>3 DEF DateAlert, Dispatches
  <2>5. QED
    BY <2>2, <2>3, <2>4, OneDispatch
<1>4. ASSUME NEW n \in News, NEW k \in Channels, Reaches(n, k) PROVE RoutingInv'
  <2> DEFINE d == [dispatch[n] EXCEPT !.left = @ \ {k}, !.tried = @ \cup {k}, !.reached = @ \cup {k}]
  <2>1. dispatch[n] \in Dispatches
    BY DEF Dispatches
  <2>2. d \in Dispatches
    BY <2>1, <1>4 DEF Dispatches, Reaches
  <2>3. Set(n, d) /\ UNCHANGED <<Same, quiet>>
    BY <1>4 DEF Reaches
  <2>4. /\ d.pc \in {"none", "decide"} => d.left = {} /\ d.tried = {}
        /\ d.pc \in {"dated", "silent", "failed"} => d.left = {}
        /\ d.pc \in {"send", "dated", "silent", "failed"} /\ (d.pc = "failed" => d.tried # {})
           /\ SeverityRank(news[n]) = Critical /\ setup.valid
           => d.tried \cup d.left = {c \in Channels : Accepts(c, news[n])}
    BY <2>1, <1>4 DEF Reaches, Dispatches
  <2>5. QED
    BY <2>2, <2>3, <2>4, OneDispatch
<1>5. ASSUME NEW n \in News, NEW k \in Channels, Misses(n, k) PROVE RoutingInv'
  <2> DEFINE d == [dispatch[n] EXCEPT !.left = @ \ {k}, !.tried = @ \cup {k}]
  <2>1. dispatch[n] \in Dispatches
    BY DEF Dispatches
  <2>2. d \in Dispatches
    BY <2>1, <1>5 DEF Dispatches, Misses
  <2>3. Set(n, d) /\ UNCHANGED <<Same, quiet>>
    BY <1>5 DEF Misses
  <2>4. /\ d.pc \in {"none", "decide"} => d.left = {} /\ d.tried = {}
        /\ d.pc \in {"dated", "silent", "failed"} => d.left = {}
        /\ d.pc \in {"send", "dated", "silent", "failed"} /\ (d.pc = "failed" => d.tried # {})
           /\ SeverityRank(news[n]) = Critical /\ setup.valid
           => d.tried \cup d.left = {c \in Channels : Accepts(c, news[n])}
    BY <2>1, <1>5 DEF Misses, Dispatches
  <2>5. QED
    BY <2>2, <2>3, <2>4, OneDispatch
<1>6. ASSUME QuietHours \/ UNCHANGED routingVars PROVE RoutingInv'
  <2>1. setup' = setup /\ ready' = ready /\ news' = news /\ dispatch' = dispatch
    BY <1>6 DEF QuietHours, routingVars, Same
  <2>2. quiet' \in BOOLEAN
    BY <1>6, Zenon DEF QuietHours, routingVars, Same
  <2>3. QED
    BY <2>1, <2>2 DEF CriticalReachesAll, Accepts
<1>7. ASSUME NEW n \in News, Fails(n) PROVE RoutingInv'
  <2> DEFINE d == [dispatch[n] EXCEPT !.pc = "failed"]
  <2>1. dispatch[n] \in Dispatches
    BY DEF Dispatches
  <2>2. d \in Dispatches
    BY <2>1, <1>7 DEF Dispatches, Fails
  <2>3. Set(n, d) /\ UNCHANGED <<Same, quiet>>
    BY <1>7 DEF Fails
  <2>4. /\ d.pc \in {"none", "decide"} => d.left = {} /\ d.tried = {}
        /\ d.pc \in {"dated", "silent", "failed"} => d.left = {}
        /\ d.pc \in {"send", "dated", "silent", "failed"} /\ (d.pc = "failed" => d.tried # {})
           /\ SeverityRank(news[n]) = Critical /\ setup.valid
           => d.tried \cup d.left = {c \in Channels : Accepts(c, news[n])}
    BY <2>1, <1>7 DEF Fails, Dispatches
  <2>5. QED
    BY <2>2, <2>3, <2>4, OneDispatch
<1>8. QED
  BY <1>1, <1>2, <1>3, <1>4, <1>5, <1>6, <1>7 DEF RoutingNext

-----------------------------------------------------------------------------
(* The live feed *)

LEMMA FeedStarts == FeedInit => FeedInv
<1>1. FeedInit => FeedTypeOK
  <2>1. FeedInit => barredUser \in BOOLEAN /\ panel \in BOOLEAN /\ known \in BOOLEAN /\ filled \in BOOLEAN
    BY Zenon DEF FeedInit
  <2>2. 0 \in 0..MaxWrites /\ 0 \in 0..MaxWired
    BY FeedAssumption
  <2>3. QED
    BY <2>1, <2>2, Zenon DEF FeedInit, FeedTypeOK
<1>2. FeedInit => ReadsAgree /\ PanelsAgree /\ ListFollows /\ PanelIsWired
  BY DEF FeedInit, ReadsAgree, PanelsAgree, ListFollows, PanelIsWired, NoRead
<1>3. QED
  BY <1>1, <1>2 DEF FeedInv

LEMMA MoreWires ==
    ASSUME FeedTypeOK
    PROVE  /\ Resubscribed \in 0..MaxWired /\ More(wired) \in 0..MaxWired
           /\ More(wired) > 0 /\ (wired > 0 => Resubscribed > 0)
  BY FeedAssumption DEF More, Resubscribed, FeedTypeOK

\* The flags of the feed, and the rest.
LEMMA FlagsTyped ==
    FeedTypeOK /\ [FeedNext]_feedVars =>
        barredUser' \in BOOLEAN /\ panel' \in BOOLEAN /\ known' \in BOOLEAN /\ filled' \in BOOLEAN
<1> DEFINE Flags == barredUser \in BOOLEAN /\ panel \in BOOLEAN /\ known \in BOOLEAN /\ filled \in BOOLEAN
<1> SUFFICES ASSUME Flags, [FeedNext]_feedVars PROVE Flags'
  BY Zenon DEF FeedTypeOK
<1> USE DEF server, list
<1>1. Change => Flags'
  BY Zenon DEF Change
<1>2. Handshake => Flags'
  BY Zenon DEF Handshake
<1>3. Bar => Flags'
  BY Zenon DEF Bar
<1>4. ReadToken => Flags'
  BY Zenon DEF ReadToken
<1>5. Connect => Flags'
  BY Zenon DEF Connect
<1>6. TokenRunsOut => Flags'
  BY Zenon DEF TokenRunsOut
<1>7. Cut => Flags'
  BY Zenon DEF Cut
<1>8. Reconnect => Flags'
  BY Zenon DEF Reconnect
<1>9. Subscribe => Flags'
  BY Zenon DEF Subscribe
<1>10. Unsubscribe => Flags'
  BY Zenon DEF Unsubscribe
<1>11. ReadList => Flags'
  BY Zenon DEF ReadList
<1>12. ShowList => Flags'
  BY Zenon DEF ShowList
<1>13. Reload => Flags'
  BY Zenon DEF Reload
<1>14. ASSUME NEW created \in BOOLEAN, Publish(created) PROVE Flags'
  BY <1>14, Zenon DEF Publish
<1>15. UNCHANGED feedVars => Flags'
  BY Zenon DEF feedVars
<1>16. Filter => Flags'
  BY Zenon DEF Filter
<1>17. QED
  BY <1>1, <1>2, <1>3, <1>4, <1>5, <1>6, <1>7, <1>8, <1>9, <1>10, <1>11, <1>12, <1>13, <1>14, <1>15, <1>16, Zenon DEF FeedNext

LEMMA FeedTyped == FeedInv /\ [FeedNext]_feedVars => FeedTypeOK'
<1> SUFFICES ASSUME FeedInv, [FeedNext]_feedVars PROVE FeedTypeOK'
  OBVIOUS
<1> DEFINE Rest ==
        /\ saved \in 0..MaxWrites /\ unsent \in 0..MaxWrites /\ view \in 0..MaxWrites
        /\ gap \in {"none", "unheard", "passed"}
        /\ token \in {"none", "live", "old", "absent"}
        /\ channel \in {"none", "opening", "joined", "down", "closed"}
        /\ wired \in 0..MaxWired
        /\ reading \in {NoRead, [pc |-> "asked"]} \cup [pc : {"read"}, got : 0..MaxWrites]
<1> USE FeedAssumption DEF server, list, NoRead
<1>1. Rest /\ unsent <= saved /\ Resubscribed \in 0..MaxWired /\ More(wired) \in 0..MaxWired
  BY MoreWires DEF FeedInv, FeedTypeOK, ReadsAgree
<1>2. Change => Rest'
  BY <1>1 DEF Change
<1>3. Handshake => Rest'
  BY <1>1 DEF Handshake
<1>4. Bar => Rest'
  BY <1>1 DEF Bar
<1>5. ReadToken => Rest'
  BY <1>1 DEF ReadToken
<1>6. Connect => Rest'
  BY <1>1 DEF Connect
<1>7. TokenRunsOut => Rest'
  BY <1>1 DEF TokenRunsOut
<1>8. Cut => Rest'
  BY <1>1 DEF Cut
<1>9. Reconnect => Rest'
  BY <1>1 DEF Reconnect
<1>10. Subscribe => Rest'
  BY <1>1 DEF Subscribe
<1>11. Unsubscribe => Rest'
  BY <1>1 DEF Unsubscribe
<1>12. ReadList => Rest'
  BY <1>1 DEF ReadList
<1>13. ShowList => Rest'
  BY <1>1 DEF ShowList
<1>14. Reload => Rest'
  BY <1>1 DEF Reload
<1>15. ASSUME NEW created \in BOOLEAN, Publish(created) PROVE Rest'
  BY <1>15, <1>1 DEF Publish, Invalidate
<1>16. UNCHANGED feedVars => Rest'
  BY <1>1 DEF feedVars
<1>17. Filter => Rest'
  BY <1>1 DEF Filter
<1>18. QED
  <2>1. Rest'
    BY <1>2, <1>3, <1>4, <1>5, <1>6, <1>7, <1>8, <1>9, <1>10, <1>11, <1>12, <1>13, <1>14, <1>15, <1>16, <1>17, Zenon DEF FeedNext
  <2>2. QED
    BY <2>1, FlagsTyped, Zenon DEF FeedTypeOK, FeedInv

\* Only a change puts the list out of date, and its event is then to be sent.
LEMMA ListStays == FeedInv /\ [FeedNext]_feedVars => ReadsAgree' /\ ListFollows'
<1> SUFFICES ASSUME FeedInv, [FeedNext]_feedVars PROVE ReadsAgree' /\ ListFollows'
  OBVIOUS
<1> USE FeedAssumption DEF FeedInv, FeedTypeOK, ReadsAgree, ListFollows, server, list, NoRead
<1>1. Change => ReadsAgree' /\ ListFollows'
  BY DEF Change
<1>2. Handshake => ReadsAgree' /\ ListFollows'
  BY DEF Handshake
<1>3. Bar => ReadsAgree' /\ ListFollows'
  BY DEF Bar
<1>4. ReadToken => ReadsAgree' /\ ListFollows'
  BY DEF ReadToken
<1>5. Connect => ReadsAgree' /\ ListFollows'
  BY DEF Connect
<1>6. TokenRunsOut => ReadsAgree' /\ ListFollows'
  BY DEF TokenRunsOut
<1>7. Cut => ReadsAgree' /\ ListFollows'
  BY DEF Cut
<1>8. Reconnect => ReadsAgree' /\ ListFollows'
  BY DEF Reconnect
<1>9. Subscribe => ReadsAgree' /\ ListFollows'
  BY DEF Subscribe
<1>10. Unsubscribe => ReadsAgree' /\ ListFollows'
  BY DEF Unsubscribe
<1>11. ReadList => ReadsAgree' /\ ListFollows'
  BY DEF ReadList
<1>12. ShowList => ReadsAgree' /\ ListFollows'
  BY DEF ShowList
<1>13. Reload => ReadsAgree' /\ ListFollows'
  BY DEF Reload
<1>14. ASSUME NEW created \in BOOLEAN, Publish(created) PROVE ReadsAgree' /\ ListFollows'
  BY <1>14 DEF Publish, Invalidate
<1>15. UNCHANGED feedVars => ReadsAgree' /\ ListFollows'
  BY DEF feedVars
<1>16. Filter => ReadsAgree' /\ ListFollows'
  BY DEF Filter
<1>17. QED
  BY <1>1, <1>2, <1>3, <1>4, <1>5, <1>6, <1>7, <1>8, <1>9, <1>10, <1>11, <1>12, <1>13, <1>14, <1>15, <1>16, Zenon DEF FeedNext

\* A listener is never taken away but with the socket.
LEMMA PanelsStay == FeedInv /\ [FeedNext]_feedVars => PanelsAgree' /\ PanelIsWired'
<1> SUFFICES ASSUME FeedInv, [FeedNext]_feedVars PROVE PanelsAgree'
  BY DEF PanelsAgree, PanelIsWired
<1> USE DEF server, list
<1>1. /\ PanelsAgree /\ FeedTypeOK
      /\ More(wired) > 0 /\ (wired > 0 => Resubscribed > 0)
  BY MoreWires DEF FeedInv
<1>2. Change => PanelsAgree'
  BY <1>1 DEF Change, PanelsAgree, FeedTypeOK
<1>3. Handshake => PanelsAgree'
  BY <1>1 DEF Handshake, PanelsAgree, FeedTypeOK
<1>4. Bar => PanelsAgree'
  BY <1>1 DEF Bar, PanelsAgree, FeedTypeOK
<1>5. ReadToken => PanelsAgree'
  BY <1>1 DEF ReadToken, PanelsAgree, FeedTypeOK
<1>6. Connect => PanelsAgree'
  BY <1>1 DEF Connect, PanelsAgree, FeedTypeOK
<1>7. TokenRunsOut => PanelsAgree'
  BY <1>1 DEF TokenRunsOut, PanelsAgree, FeedTypeOK
<1>8. Cut => PanelsAgree'
  BY <1>1 DEF Cut, PanelsAgree, FeedTypeOK
<1>9. Reconnect => PanelsAgree'
  BY <1>1 DEF Reconnect, PanelsAgree, FeedTypeOK
<1>10. Subscribe => PanelsAgree'
  BY <1>1 DEF Subscribe, PanelsAgree, FeedTypeOK
<1>11. Unsubscribe => PanelsAgree'
  BY <1>1 DEF Unsubscribe, PanelsAgree, FeedTypeOK
<1>12. ReadList => PanelsAgree'
  BY <1>1 DEF ReadList, PanelsAgree, FeedTypeOK
<1>13. ShowList => PanelsAgree'
  BY <1>1 DEF ShowList, PanelsAgree, FeedTypeOK
<1>14. Reload => PanelsAgree'
  BY <1>1 DEF Reload, PanelsAgree, FeedTypeOK
<1>15. ASSUME NEW created \in BOOLEAN, Publish(created) PROVE PanelsAgree'
  BY <1>15, <1>1 DEF Publish, PanelsAgree, FeedTypeOK
<1>16. UNCHANGED feedVars => PanelsAgree'
  BY <1>1 DEF feedVars, PanelsAgree, FeedTypeOK
<1>17. Filter => PanelsAgree'
  BY <1>1 DEF Filter, PanelsAgree, FeedTypeOK
<1>18. QED
  BY <1>2, <1>3, <1>4, <1>5, <1>6, <1>7, <1>8, <1>9, <1>10, <1>11, <1>12, <1>13, <1>14, <1>15, <1>16, <1>17, Zenon DEF FeedNext

LEMMA FeedStays == FeedInv /\ [FeedNext]_feedVars => FeedInv'
  BY FeedTyped, ListStays, PanelsStay DEF FeedInv

-----------------------------------------------------------------------------
(* The figures of the home page *)

LEMMA CountsAreNumbers ==
    /\ \A q \in Queries : CountOf(q) \in Nat
    /\ \A s : StatusIs(s) \in Nat
    /\ \A s \in SUBSET Trips : IsFiniteSet(s) /\ Cardinality(s) \in Nat
    /\ \A s \in SUBSET Fleet : IsFiniteSet(s) /\ Cardinality(s) \in Nat
<1>1. \A s \in SUBSET Trips : IsFiniteSet(s) /\ Cardinality(s) \in Nat
  BY FS_Subset, FS_CardinalityType, SummaryAssumption
<1>2. \A s \in SUBSET Fleet : IsFiniteSet(s) /\ Cardinality(s) \in Nat
  BY FS_Subset, FS_CardinalityType, SummaryAssumption
<1>3. \A s : StatusIs(s) \in Nat
  BY <1>2 DEF StatusIs
<1>4. ActiveNow \in Nat /\ ReturnedNow \in Nat
  BY <1>1 DEF ActiveNow, ReturnedNow
<1>5. Cardinality(Fleet) \in Nat
  BY <1>2
<1>6. QED
  BY <1>1, <1>2, <1>3, <1>4, <1>5 DEF CountOf, Queries

\* Two parts that share nothing and make the whole are counted apart.
LEMMA Parts ==
    ASSUME NEW U, IsFiniteSet(U), NEW V, IsFiniteSet(V), U \cap V = {}
    PROVE  Cardinality(U \cup V) = Cardinality(U) + Cardinality(V)
<1>1. Cardinality(U) \in Nat /\ Cardinality(V) \in Nat
  BY FS_CardinalityType
<1>2. Cardinality(U \cup V) = Cardinality(U) + Cardinality(V) - Cardinality(U \cap V)
  BY FS_Union
<1>3. Cardinality(U \cap V) = 0
  BY FS_EmptySet
<1>4. QED
  BY <1>1, <1>2, <1>3

\* The figures agree whenever they are counts of one moment.
LEMMA FiguresAgree == SummaryTypeOK /\ CountsAgree => QuietIsExact
<1> SUFFICES ASSUME SummaryTypeOK, CountsAgree, AllCounted, calm
             PROVE  /\ NotReturned = Cardinality({t \in Trips :
                                trip[t].status = "ACTIVE" /\ trip[t].state = "ACTIVE"})
                    /\ ask.got["enrolled"] + ask.got["pending"] + StatusIs("REVOKED")
                       = ask.got["total"]
  BY DEF QuietIsExact
<1> DEFINE out == {t \in Trips : trip[t].status = "ACTIVE" /\ trip[t].state = "ACTIVE"}
           back == {t \in Trips : trip[t].status = "ACTIVE" /\ trip[t].state = "RETURNED"}
           active == {t \in Trips : trip[t].status = "ACTIVE"}
           Units(s) == {u \in Fleet : unitStatus[u] = s}
<1>1. /\ ask.got["active"] = Cardinality(active) /\ ask.got["returned"] = Cardinality(back)
      /\ ask.got["enrolled"] = Cardinality(Units("ENROLLED"))
      /\ ask.got["pending"] = Cardinality(Units("PENDING"))
      /\ ask.got["total"] = Cardinality(Fleet)
  BY DEF AllCounted, CountsAgree, Queries, CountOf, ActiveNow, ReturnedNow, StatusIs
<1>2. active = out \cup back /\ out \cap back = {}
  BY DEF SummaryTypeOK, CountsAgree
<1>3. out \in SUBSET Trips /\ back \in SUBSET Trips
  OBVIOUS
<1>4. /\ IsFiniteSet(out) /\ IsFiniteSet(back)
      /\ Cardinality(out) \in Nat /\ Cardinality(back) \in Nat
  BY <1>3, CountsAreNumbers
<1> HIDE DEF out, back, active
<1>5. Cardinality(active) = Cardinality(out) + Cardinality(back)
  BY <1>2, <1>4, Parts
<1>6. NotReturned = Cardinality(out)
  BY <1>1, <1>4, <1>5 DEF NotReturned
<1>7. /\ Fleet = (Units("ENROLLED") \cup Units("PENDING")) \cup Units("REVOKED")
      /\ Units("ENROLLED") \cap Units("PENDING") = {}
      /\ (Units("ENROLLED") \cup Units("PENDING")) \cap Units("REVOKED") = {}
      /\ Units("ENROLLED") \cup Units("PENDING") \in SUBSET Fleet
      /\ \A s : Units(s) \in SUBSET Fleet
  BY DEF SummaryTypeOK
<1>8. \A s : IsFiniteSet(Units(s)) /\ Cardinality(Units(s)) \in Nat
  BY <1>7, CountsAreNumbers
<1>9. IsFiniteSet(Units("ENROLLED") \cup Units("PENDING"))
  BY <1>7, CountsAreNumbers
<1>10. StatusIs("REVOKED") = Cardinality(Units("REVOKED"))
  BY DEF StatusIs
<1> HIDE DEF Units
<1>11. Cardinality(Units("ENROLLED") \cup Units("PENDING"))
       = Cardinality(Units("ENROLLED")) + Cardinality(Units("PENDING"))
  BY <1>7, <1>8, Parts
<1>12. Cardinality(Fleet) = Cardinality(Units("ENROLLED") \cup Units("PENDING")) + Cardinality(Units("REVOKED"))
  BY <1>7, <1>8, <1>9, Parts
<1> HIDE DEF SummaryTypeOK, CountsAgree, TodayIsInGraph
<1>13. QED
  BY <1>1, <1>6, <1>8, <1>10, <1>11, <1>12 DEF out

LEMMA FiguresAgreeNext == SummaryTypeOK' /\ CountsAgree' => QuietIsExact'
  BY FiguresAgree, PTL

LEMMA SummaryStarts == SummaryInit => SummaryInv
<1> SUFFICES ASSUME SummaryInit PROVE SummaryInv
  OBVIOUS
<1>1. SummaryTypeOK
  <2>1. calm \in BOOLEAN
    BY Zenon DEF SummaryInit
  <2>2. QED
    BY <2>1, SummaryAssumption DEF SummaryInit, SummaryTypeOK, NoTrip, NoGraph
<1>2. CountsAgree
  BY DEF SummaryInit, CountsAgree, NoTrip
<1>3. ~AllCounted /\ graph = NoGraph
  BY DEF SummaryInit, AllCounted, Queries
<1>4. QED
  BY <1>1, <1>2, <1>3 DEF SummaryInv, QuietIsExact, TodayIsInGraph

LEMMA SummaryStays == SummaryInv /\ [SummaryNext]_summaryVars => SummaryInv'
<1> SUFFICES ASSUME SummaryInv, [SummaryNext]_summaryVars PROVE SummaryInv'
  OBVIOUS
<1> DEFINE Kept == SummaryTypeOK /\ CountsAgree /\ TodayIsInGraph
<1>1. SummaryTypeOK /\ CountsAgree /\ TodayIsInGraph
  BY DEF SummaryInv
<1> USE SummaryAssumption DEF SummaryTypeOK, CountsAgree, TodayIsInGraph
<1>2. ASSUME NEW t \in Trips, OpenTrip(t) PROVE Kept'
  BY <1>1, <1>2 DEF OpenTrip
<1>3. ASSUME NEW t \in Trips, ReturnTrip(t) \/ EndTrip(t) PROVE Kept'
  BY <1>1, <1>3 DEF ReturnTrip, EndTrip
<1>4. ASSUME NEW u \in Fleet, NEW s \in {"ENROLLED", "REVOKED"}, SetUnit(u, s) PROVE Kept'
  BY <1>1, <1>4 DEF SetUnit
<1>5. ASSUME UNCHANGED <<trip, unitStatus>>
      PROVE  \A q \in Queries : CountOf(q)' = CountOf(q)
  BY <1>5 DEF CountOf, Queries, StatusIs, ActiveNow, ReturnedNow
<1>6. PassMidnight => Kept'
  BY <1>1, <1>5 DEF PassMidnight
<1>7. AskSummary => Kept'
  BY <1>1, <1>5 DEF AskSummary
<1>8. AnswerSummary => Kept'
  BY <1>1, <1>5 DEF AnswerSummary
<1>9. ASSUME NEW q \in Queries, AnswerCount(q) PROVE Kept'
  BY <1>1, <1>5, <1>9, CountsAreNumbers DEF AnswerCount
<1>10. AskActivity => Kept'
  BY <1>1, <1>5, CountsAreNumbers DEF AskActivity, Since
<1>11. UNCHANGED summaryVars => Kept'
  BY <1>1, <1>5 DEF summaryVars
<1>12. Kept'
  BY <1>2, <1>3, <1>4, <1>6, <1>7, <1>8, <1>9, <1>10, <1>11 DEF SummaryNext
<1>13. QED
  BY <1>12, FiguresAgreeNext DEF SummaryInv

-----------------------------------------------------------------------------
\* Whatever the order of the sends, the events and the answers: a critical alert was tried
\* on every channel that accepts it, unless its dispatch failed before the first one; a
\* list that is read follows what was announced, unless an event passed during its first
\* read; a panel that has joined is wired, and the figures of the home page agree.
THEOREM ToldTheTruth == RoutingSpec /\ FeedSpec /\ SummarySpec => []ToldInv
<1>1. RoutingSpec => []RoutingInv
  BY RoutingStarts, RoutingStays, PTL DEF RoutingSpec
<1>2. FeedSpec => []FeedInv
  BY FeedStarts, FeedStays, PTL DEF FeedSpec
<1>3. SummarySpec => []SummaryInv
  BY SummaryStarts, SummaryStays, PTL DEF SummarySpec
<1>4. RoutingInv /\ FeedInv /\ SummaryInv => ToldInv
  BY DEF ToldInv
<1>5. QED
  BY <1>1, <1>2, <1>3, <1>4, PTL
=============================================================================
