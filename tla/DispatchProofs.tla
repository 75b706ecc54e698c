--------------------------- MODULE DispatchProofs ---------------------------
(***************************************************************************)
(* Proofs about what the server sends to the phones: the queue of the      *)
(* commands, the orders of the evening and the pushes that wake the        *)
(* phones, for every set of commands, workers, depots, schedules and       *)
(* calls, every fault and every bound.                                     *)
(***************************************************************************)
EXTENDS MCServer, FiniteSetTheorems, WellFoundedInduction, TLAPS

-----------------------------------------------------------------------------
(* Types *)

\* A table of which some entries are given a legal value stays a table.
LEMMA BecomesType ==
    ASSUME NEW V, NEW table \in [Commands -> V], NEW S, NEW s \in V
    PROVE  Becomes(table, S, s) \in [Commands -> V]
BY DEF Becomes

\* Every step of the server, of the phone and of the clock keeps the types.
LEMMA TypeStep ==
    ASSUME TypeOK, [Next]_vars
    PROVE  TypeOK'
<1> USE QueueAssumption
<1> USE DEF TypeOK, Outcomes, Deliverable, world, server, requests, worker,
            Serve, Goto
<1>1. ASSUME NEW c \in Commands, Enqueue(c)
      PROVE  TypeOK'
  BY <1>1 DEF Enqueue
<1>2. CASE MaintenanceExpires
  BY <1>2, BecomesType DEF MaintenanceExpires
<1>3. CASE OpenSession
  BY <1>3 DEF OpenSession
<1>4. CASE Tick
  BY <1>4 DEF Tick
<1>5. ASSUME NEW w \in Workers, ServerStep(w)
      PROVE  TypeOK'
  <2>1. CASE PullExpire(w)
    BY <2>1, BecomesType DEF PullExpire
  <2>2. CASE PullFind(w)
    BY <2>2 DEF PullFind
  <2>3. CASE PullMark(w)
    BY <2>3, BecomesType DEF PullMark
  <2>4. CASE ReportCheck(w)
    BY <2>4 DEF ReportCheck
  <2>5. CASE ReportCommit(w)
    <3>1. said[w] \in Outcomes
      OBVIOUS
    <3>2. status' \in [Commands -> {"none", "EXPIRED"} \cup Deliverable \cup Outcomes]
      BY <2>5, <3>1, BecomesType DEF ReportCommit
    <3> QED
      BY <2>5, <3>2 DEF ReportCommit
  <2>6. CASE AnswerNobody(w)
    BY <2>6 DEF AnswerNobody
  <2> QED
    BY <1>5, <2>1, <2>2, <2>3, <2>4, <2>5, <2>6 DEF ServerStep
<1>6. ASSUME NEW w \in Workers, WorkerStep(w)
      PROVE  TypeOK'
  <2>1. CASE Pull(w)
    BY <2>1 DEF Pull
  <2>2. CASE Receive(w)
    BY <2>2, BecomesType DEF Receive
  <2>3. CASE PullFails(w)
    BY <2>3 DEF PullFails, Unanswered
  <2>4. CASE StartBatch(w)
    BY <2>4, BecomesType DEF StartBatch
  <2>5. ASSUME NEW c \in Commands, Execute(w, c) \/ ExecuteFails(w, c)
        PROVE  TypeOK'
    <3>1. UNCHANGED ran \/ ran' = [ran EXCEPT ![c] = IF @ = 2 THEN 2 ELSE @ + 1]
      BY <2>5 DEF Execute, ExecuteFails
    <3>2. ran' \in [Commands -> 0..2]
      BY <3>1
    <3>3. current' \in 0..MaxSessions
      BY <2>5 DEF Execute, ExecuteFails
    <3>4. PICK result \in Outcomes : Take(w, c, result)
      BY <2>5 DEF Execute, ExecuteFails
    <3>5. /\ job' \in [Workers -> SUBSET Commands]
          /\ batch' \in [Workers -> SUBSET Commands]
      BY <3>4 DEF Take
    <3>6. /\ outcome' \in [Workers -> Outcomes]
          /\ pc' \in [Workers -> {"idle", "pulling", "pulled", "batch", "ran", "stored", "reporting"}]
      BY <3>4 DEF Take, Goto
    <3>7. UNCHANGED <<world, server, phone, requests>>
      BY <2>5 DEF Execute, ExecuteFails
    <3> QED
      BY <3>2, <3>3, <3>5, <3>6, <3>7
  <2>6. CASE StoreOutcome(w)
    BY <2>6, BecomesType DEF StoreOutcome, Update
  <2>7. CASE Report(w)
    BY <2>7 DEF Report
  <2>8. CASE Acked(w)
    BY <2>8, BecomesType DEF Acked, Update, NextJob
  <2>9. CASE ReportFails(w)
    BY <2>9 DEF ReportFails, Unanswered, NextJob
  <2>10. CASE EndBatch(w)
    BY <2>10 DEF EndBatch
  <2>11. CASE Cancel(w)
    BY <2>11 DEF Cancel
  <2> QED
    BY <1>6, <2>1, <2>2, <2>3, <2>4, <2>5, <2>6, <2>7, <2>8, <2>9, <2>10, <2>11
    DEF WorkerStep
<1>7. CASE UNCHANGED vars
  BY <1>7 DEF vars
<1> QED
  BY <1>1, <1>2, <1>3, <1>4, <1>5, <1>6, <1>7 DEF Next

-----------------------------------------------------------------------------
(* What is said to be executed was run *)

\* A command is run by Execute alone, and never runs less often.
LEMMA RunsGrow ==
    ASSUME TypeOK, [Next]_vars
    PROVE  /\ \A c \in Commands : ran[c] > 0 => ran'[c] > 0
           /\ \/ UNCHANGED ran
              \/ \E w \in Workers, c \in Commands : Execute(w, c)
<1> USE DEF TypeOK, world, server, requests, worker
<1>1. ASSUME NEW w \in Workers, NEW c \in Commands, Execute(w, c)
      PROVE  \A d \in Commands : ran[d] > 0 => ran'[d] > 0
  BY <1>1 DEF Execute
<1>2. UNCHANGED ran \/ \E w \in Workers, c \in Commands : Execute(w, c)
  BY DEF Next, Enqueue, MaintenanceExpires, OpenSession, Tick, ServerStep,
         PullExpire, PullFind, PullMark, ReportCheck, ReportCommit,
         AnswerNobody, WorkerStep, Pull, Receive, PullFails, StartBatch,
         ExecuteFails, StoreOutcome, Report, Acked, ReportFails, EndBatch,
         Cancel, vars
<1> QED
  BY <1>1, <1>2

\* A worker that holds an execution has just made it, or still holds it.
LEMMA CarryStep ==
    ASSUME TypeOK, CarriedWasRun, [Next]_vars
    PROVE  CarriedWasRun'
<1> USE DEF TypeOK, CarriedWasRun, world, server, requests, worker, Serve, Goto
<1>1. ASSUME UNCHANGED <<worker, requests>>
      PROVE  CarriedWasRun'
  BY <1>1, RunsGrow
<1>2. ASSUME NEW c \in Commands, Enqueue(c)
      PROVE  CarriedWasRun'
  BY <1>1, <1>2 DEF Enqueue
<1>3. CASE MaintenanceExpires \/ OpenSession \/ Tick \/ UNCHANGED vars
  BY <1>1, <1>3 DEF MaintenanceExpires, OpenSession, Tick, vars
<1>4. ASSUME NEW w \in Workers, ServerStep(w)
      PROVE  CarriedWasRun'
  BY <1>4
  DEF ServerStep, PullExpire, PullFind, PullMark, ReportCheck, ReportCommit,
      AnswerNobody
<1>5. ASSUME NEW w \in Workers, WorkerStep(w)
      PROVE  CarriedWasRun'
  <2>1. ASSUME NEW c \in Commands, Execute(w, c)
        PROVE  CarriedWasRun'
    <3>1. ran'[c] > 0 /\ \A d \in Commands : ran[d] > 0 => ran'[d] > 0
      BY <2>1 DEF Execute
    <3> QED
      BY <2>1, <3>1 DEF Execute, Take
  <2>2. ASSUME NEW c \in Commands, ExecuteFails(w, c)
        PROVE  CarriedWasRun'
    BY <2>2 DEF ExecuteFails, Take
  <2>3. CASE Report(w)
    BY <2>3 DEF Report
  <2>4. CASE Pull(w) \/ Receive(w) \/ PullFails(w) \/ StartBatch(w)
    BY <2>4 DEF Pull, Receive, PullFails, Unanswered, StartBatch
  <2>5. CASE StoreOutcome(w) \/ Acked(w) \/ ReportFails(w) \/ EndBatch(w) \/ Cancel(w)
    BY <2>5 DEF StoreOutcome, Acked, ReportFails, Unanswered, NextJob, EndBatch, Cancel
  <2> QED
    BY <1>5, <2>1, <2>2, <2>3, <2>4, <2>5 DEF WorkerStep
<1> QED
  BY <1>2, <1>3, <1>4, <1>5 DEF Next

\* Only ReportCommit writes EXECUTED.
LEMMA ExecutedStep ==
    ASSUME TypeOK, ExecutedWasRun, CarriedWasRun, [Next]_vars
    PROVE  ExecutedWasRun'
<1> USE DEF TypeOK, ExecutedWasRun, Becomes, world, server, requests, worker
<1>1. ASSUME \A c \in Commands : status'[c] = "EXECUTED" => status[c] = "EXECUTED"
      PROVE  ExecutedWasRun'
  BY <1>1, RunsGrow
<1>2. ASSUME NEW w \in Workers, ReportCommit(w)
      PROVE  ExecutedWasRun'
  BY <1>2 DEF ReportCommit, CarriedWasRun
<1>3. ASSUME NEW w \in Workers, ServerStep(w), ~ReportCommit(w)
      PROVE  ExecutedWasRun'
  BY <1>1, <1>3
  DEF ServerStep, PullExpire, PullFind, PullMark, ReportCheck, AnswerNobody
<1>4. ASSUME NEW w \in Workers, WorkerStep(w)
      PROVE  UNCHANGED status
  BY <1>4
  DEF WorkerStep, Pull, Receive, PullFails, StartBatch, Execute,
      ExecuteFails, StoreOutcome, Report, Acked, ReportFails, EndBatch, Cancel
<1>5. ASSUME \/ \E c \in Commands : Enqueue(c)
             \/ MaintenanceExpires \/ OpenSession \/ Tick \/ UNCHANGED vars
      PROVE  ExecutedWasRun'
  BY <1>1, <1>5 DEF Enqueue, MaintenanceExpires, OpenSession, Tick, vars
<1> QED
  BY <1>1, <1>2, <1>3, <1>4, <1>5 DEF Next

-----------------------------------------------------------------------------
(* What a batch holds *)

\* A command that was created stays so.
LEMMA CreatedStays ==
    ASSUME TypeOK, [Next]_vars, NEW c \in Commands, status[c] # "none"
    PROVE  status'[c] # "none"
<1> USE DEF TypeOK, Becomes, world, server, requests, worker, Outcomes, Deliverable
<1>1. ASSUME NEW w \in Workers, ServerStep(w)
      PROVE  status'[c] # "none"
  BY <1>1
  DEF ServerStep, PullExpire, PullFind, PullMark, ReportCheck, ReportCommit,
      AnswerNobody
<1>2. ASSUME NEW w \in Workers, WorkerStep(w)
      PROVE  UNCHANGED status
  BY <1>2
  DEF WorkerStep, Pull, Receive, PullFails, StartBatch, Execute,
      ExecuteFails, StoreOutcome, Report, Acked, ReportFails, EndBatch, Cancel
<1>3. ASSUME \/ \E d \in Commands : Enqueue(d)
             \/ MaintenanceExpires \/ OpenSession \/ Tick \/ UNCHANGED vars
      PROVE  status'[c] # "none"
  BY <1>3 DEF Enqueue, MaintenanceExpires, OpenSession, Tick, vars
<1> QED
  BY <1>1, <1>2, <1>3 DEF Next

\* A pull only delivers created commands, and a worker only takes delivered ones.
LEMMA CreatedStep ==
    ASSUME TypeOK, OnlyCreated, [Next]_vars
    PROVE  OnlyCreated'
<1> USE DEF TypeOK, OnlyCreated, Becomes, world, server, requests, worker
<1>1. ASSUME \A c \in Commands : phone'[c] # "none" => phone[c] # "none",
             \A w \in Workers : asked'[w] \cup batch'[w] \cup job'[w]
                                   \subseteq asked[w] \cup batch[w] \cup job[w]
      PROVE  OnlyCreated'
  BY <1>1, CreatedStays
<1>2. ASSUME NEW w \in Workers, ServerStep(w)
      PROVE  OnlyCreated'
  <2>1. CASE PullFind(w)
    BY <2>1, CreatedStays DEF PullFind, Deliverable
  <2>2. CASE ~PullFind(w)
    BY <1>1, <1>2, <2>2
    DEF ServerStep, PullExpire, PullMark, ReportCheck, ReportCommit, AnswerNobody
  <2> QED
    BY <2>1, <2>2
<1>3. ASSUME NEW w \in Workers, WorkerStep(w)
      PROVE  OnlyCreated'
  <2>0. UNCHANGED status
    BY <1>3
    DEF WorkerStep, Pull, Receive, PullFails, StartBatch, Execute,
        ExecuteFails, StoreOutcome, Report, Acked, ReportFails, EndBatch, Cancel
  <2>1. CASE Receive(w)
    BY <2>0, <2>1 DEF Receive
  <2>2. CASE StartBatch(w)
    BY <2>0, <2>2 DEF StartBatch
  <2>3. ASSUME NEW c \in Commands, Execute(w, c) \/ ExecuteFails(w, c)
        PROVE  OnlyCreated'
    BY <2>0, <2>3 DEF Execute, ExecuteFails, Take
  <2>4. CASE StoreOutcome(w) \/ Acked(w)
    BY <1>1, <2>4 DEF StoreOutcome, Acked, NextJob, Update
  <2>5. CASE Report(w)
    BY <2>0, <2>5 DEF Report
  <2>6. CASE Pull(w) \/ PullFails(w) \/ ReportFails(w) \/ EndBatch(w) \/ Cancel(w)
    BY <1>1, <2>6 DEF Pull, PullFails, ReportFails, NextJob, EndBatch, Cancel
  <2> QED
    BY <1>3, <2>1, <2>2, <2>3, <2>4, <2>5, <2>6 DEF WorkerStep
<1>4. ASSUME \/ \E c \in Commands : Enqueue(c)
             \/ MaintenanceExpires \/ OpenSession \/ Tick \/ UNCHANGED vars
      PROVE  OnlyCreated'
  BY <1>1, <1>4 DEF Enqueue, MaintenanceExpires, OpenSession, Tick, vars
<1> QED
  BY <1>2, <1>3, <1>4 DEF Next

\* Time does not pass while a batch is executed, and only StartBatch, which
\* sets the overdue rows apart, fills one.
LEMMA BatchStep ==
    ASSUME TypeOK, OnlyCreated, BatchInTime, [Next]_vars
    PROVE  BatchInTime'
<1> USE DEF TypeOK, BatchInTime, world, server, requests, worker, Goto
<1>1. ASSUME UNCHANGED <<now, expires>>,
             \A w \in Workers : /\ batch'[w] \subseteq batch[w]
                                /\ pc'[w] = "idle" => batch'[w] = {}
      PROVE  BatchInTime'
  BY <1>1
<1>2. ASSUME NEW c \in Commands, Enqueue(c)
      PROVE  BatchInTime'
  <2>1. \A w \in Workers : c \notin batch[w]
    BY <1>2 DEF Enqueue, OnlyCreated
  <2> QED
    BY <1>2, <2>1 DEF Enqueue
<1>3. CASE Tick
  <2>1. "slow" \notin Faults => \A w \in Workers : batch[w] = {}
    BY <1>3 DEF Tick
  <2> QED
    BY <1>3, <2>1 DEF Tick
<1>4. CASE MaintenanceExpires \/ OpenSession \/ UNCHANGED vars
  BY <1>1, <1>4 DEF MaintenanceExpires, OpenSession, vars
<1>5. ASSUME NEW w \in Workers, ServerStep(w)
      PROVE  BatchInTime'
  BY <1>1, <1>5
  DEF ServerStep, PullExpire, PullFind, PullMark, ReportCheck, ReportCommit,
      AnswerNobody
<1>6. ASSUME NEW w \in Workers, WorkerStep(w)
      PROVE  BatchInTime'
  <2>1. CASE StartBatch(w)
    <3>1. \A c \in batch'[w] : ~(expires[c] < now) /\ expires[c] \in Int /\ now \in Int
      BY <2>1, QueueAssumption DEF StartBatch
    <3>2. \A c \in batch'[w] : now <= expires[c]
      BY <3>1
    <3> QED
      BY <2>1, <3>2 DEF StartBatch
  <2>2. ASSUME NEW c \in Commands, Execute(w, c) \/ ExecuteFails(w, c)
        PROVE  BatchInTime'
    BY <1>1, <2>2 DEF Execute, ExecuteFails, Take
  <2>3. CASE \/ Pull(w) \/ Receive(w) \/ PullFails(w) \/ StoreOutcome(w)
             \/ Report(w) \/ Acked(w) \/ ReportFails(w)
    BY <1>1, <2>3
    DEF Pull, Receive, PullFails, StoreOutcome, Report, Acked, ReportFails,
        NextJob
  <2>4. CASE EndBatch(w) \/ Cancel(w)
    BY <1>1, <2>4 DEF EndBatch, Cancel
  <2> QED
    BY <1>6, <2>1, <2>2, <2>3, <2>4 DEF WorkerStep
<1> QED
  BY <1>2, <1>3, <1>4, <1>5, <1>6 DEF Next

-----------------------------------------------------------------------------
(* The theorems *)

\* The inductive invariant of the queue.
THEOREM InvHolds == Spec => []Inv
<1>1. Init => Inv
  <2> SUFFICES ASSUME Init
               PROVE  Inv
    OBVIOUS
  <2>1. TypeOK
    BY QueueAssumption DEF Init, TypeOK, Outcomes, Deliverable
  <2>2. ExecutedWasRun /\ CarriedWasRun
    BY DEF Init, ExecutedWasRun, CarriedWasRun
  <2>3. OnlyCreated /\ BatchInTime
    BY DEF Init, OnlyCreated, BatchInTime
  <2> QED
    BY <2>1, <2>2, <2>3 DEF Inv
<1>2. Inv /\ [Next]_vars => Inv'
  <2> SUFFICES ASSUME Inv, [Next]_vars
               PROVE  Inv'
    OBVIOUS
  <2> QED
    BY TypeStep, ExecutedStep, CarryStep, CreatedStep, BatchStep DEF Inv
<1> QED
  BY <1>1, <1>2, PTL DEF Spec

\* The types of every variable, for every value of the constants.
THEOREM TypeCorrect == Spec => []TypeOK
<1>1. Inv => TypeOK
  BY DEF Inv
<1> QED
  BY <1>1, InvHolds, PTL

\* The server never shows a command as executed that the phone has not run,
\* for any number of workers and whatever is lost, late, cancelled or fails.
THEOREM ExecutedIsTrue == Spec => []ExecutedWasRun
<1>1. Inv => ExecutedWasRun
  BY DEF Inv
<1> QED
  BY <1>1, InvHolds, PTL

\* As long as batches are not slow, an overdue command is not run.
THEOREM OverdueNeverRun ==
    ASSUME "slow" \notin Faults
    PROVE  Spec => NeverRunExpired
<1>1. Inv /\ [Next]_vars => [OverdueNotRun]_vars
  <2> SUFFICES ASSUME Inv, [Next]_vars, NEW d \in Commands, ran'[d] > ran[d]
               PROVE  now <= expires[d]
    BY DEF OverdueNotRun
  <2>1. PICK w \in Workers, c \in Commands : Execute(w, c)
    BY RunsGrow DEF Inv, TypeOK
  <2>2. c = d /\ c \in batch[w]
    BY <2>1 DEF Execute, Take, Inv, TypeOK
  <2> QED
    BY <2>2 DEF Inv, BatchInTime
<1> QED
  BY <1>1, InvHolds, PTL DEF Spec, NeverRunExpired

-----------------------------------------------------------------------------
(* One worker: a command is run once and settled once *)

\* A worker that is not cancelled and waits for its answers.
Alone(w) == Workers = {w} /\ {"cancel", "late"} \cap Faults = {}

\* The steps of the server for the request of the worker.
LEMMA OnceServerStep ==
    ASSUME NEW w, Alone(w), TypeOK, OnlyCreated, OnceInv, ServerStep(w)
    PROVE  OnceInv'
<1> USE DEF Alone, TypeOK, OnceInv, RunOnce, PointsAgree, RowsAgree, HandsAgree, Outcomes,
            Deliverable, Becomes, world, server, requests, worker, Serve
<1>1. CASE PullExpire(w)
  BY <1>1 DEF PullExpire, Overdue
<1>2. CASE PullFind(w)
  BY <1>2, QueueAssumption DEF PullFind
<1>3. CASE PullMark(w)
  BY <1>3 DEF PullMark
<1>4. CASE ReportCheck(w)
  BY <1>4 DEF ReportCheck
<1>5. CASE ReportCommit(w)
  BY <1>5 DEF ReportCommit
<1>6. CASE AnswerNobody(w)
  BY <1>6 DEF AnswerNobody
<1> QED
  BY <1>1, <1>2, <1>3, <1>4, <1>5, <1>6 DEF ServerStep

\* The steps of the worker.
LEMMA OnceWorkerStep ==
    ASSUME NEW w, Alone(w), TypeOK, OnlyCreated, OnceInv, WorkerStep(w)
    PROVE  OnceInv'
<1> USE DEF Alone, TypeOK, OnceInv, RunOnce, PointsAgree, RowsAgree, HandsAgree, Outcomes,
            Becomes, world, server, requests, worker, Serve, Goto
<1>1. CASE Pull(w)
  BY <1>1 DEF Pull
<1>2. CASE Receive(w)
  BY <1>2 DEF Receive
<1>3. CASE PullFails(w)
  BY <1>3 DEF PullFails, Unanswered
<1>4. CASE StartBatch(w)
  BY <1>4 DEF StartBatch
<1>5. ASSUME NEW c \in Commands, Execute(w, c)
      PROVE  OnceInv'
  BY <1>5 DEF Execute, Take
<1>6. ASSUME NEW c \in Commands, ExecuteFails(w, c)
      PROVE  OnceInv'
  BY <1>6 DEF ExecuteFails, Take
<1>7. CASE StoreOutcome(w)
  BY <1>7 DEF StoreOutcome, Update
<1>8. CASE Report(w)
  BY <1>8 DEF Report
<1>9. CASE Acked(w)
  BY <1>9 DEF Acked, Update, NextJob
<1>10. CASE ReportFails(w)
  BY <1>10 DEF ReportFails, Unanswered, NextJob
<1>11. CASE EndBatch(w)
  BY <1>11 DEF EndBatch
<1>12. CASE Cancel(w)
  BY <1>12 DEF Cancel
<1> QED
  BY <1>1, <1>2, <1>3, <1>4, <1>5, <1>6, <1>7, <1>8, <1>9, <1>10, <1>11, <1>12, ZenonT(30)
  DEF WorkerStep

LEMMA OnceStep ==
    ASSUME NEW w, Alone(w), TypeOK, OnlyCreated, OnceInv, [Next]_vars
    PROVE  OnceInv'
<1> USE DEF Alone, TypeOK, OnceInv, RunOnce, PointsAgree, RowsAgree, HandsAgree, Outcomes,
            Deliverable, Becomes, world, server, requests, worker
<1>1. ASSUME NEW c \in Commands, Enqueue(c)
      PROVE  OnceInv'
  BY <1>1 DEF Enqueue, OnlyCreated
<1>2. CASE MaintenanceExpires
  BY <1>2 DEF MaintenanceExpires, Overdue
<1>3. CASE OpenSession \/ UNCHANGED vars
  BY <1>3 DEF OpenSession, vars
<1>4. CASE Tick
  BY <1>4 DEF Tick
<1> QED
  BY <1>1, <1>2, <1>3, <1>4, OnceServerStep, OnceWorkerStep DEF Next

\* With one worker, from the delivery of a command to the purge of its row.
THEOREM OnceHolds ==
    ASSUME NEW w, Alone(w)
    PROVE  Spec => []OnceInv
<1>1. Init => OnceInv
  BY DEF Init, OnceInv, RunOnce, PointsAgree, RowsAgree, HandsAgree, Outcomes
<1>2. Inv /\ OnceInv /\ [Next]_vars => OnceInv'
  BY OnceStep DEF Inv
<1> QED
  BY <1>1, <1>2, InvHolds, PTL DEF Spec

-----------------------------------------------------------------------------
(* One worker keeps the promise: each step of the queue is a step of       *)
(* CommandPromise, or none.                                                *)

\* What the dashboard shows of each command, and those the phone has run.
Outcome == [c \in Commands |-> Shown(status[c])]
Run == {c \in Commands : ran[c] > 0}

\* The dashboard's reading of each status.
LEMMA ShownAs ==
    /\ Shown("none") = "none"
    /\ Shown("PENDING") = "waiting" /\ Shown("SENT") = "waiting"
    /\ Shown("EXECUTED") = "done" /\ Shown("FAILED") = "failed"
    /\ Shown("EXPIRED") = "expired"
BY DEF Shown, Deliverable

LEMMA PromiseStutters ==
    ASSUME UNCHANGED <<status, ran>>
    PROVE  UNCHANGED <<Outcome, Run>>
BY DEF Outcome, Run

\* Overdue commands that become EXPIRED.
LEMMA PromiseExpires ==
    ASSUME TypeOK, status' = Becomes(status, Overdue, "EXPIRED"), UNCHANGED ran
    PROVE  Promise!Expire(Overdue)
<1>1. \A c \in Overdue : Outcome[c] = "waiting"
  BY DEF Overdue, Outcome, Shown, Deliverable
<1>2. Outcome' = [c \in Commands |-> IF c \in Overdue THEN "expired" ELSE Outcome[c]]
  <2>1. \A c \in Commands : Shown(status'[c]) = IF c \in Overdue THEN "expired" ELSE Shown(status[c])
    BY ShownAs DEF Becomes
  <2> QED
    BY <2>1 DEF Overdue, Outcome
<1>3. UNCHANGED Run
  BY DEF Run
<1> QED
  BY <1>1, <1>2, <1>3 DEF Promise!Expire, Outcome, Run

LEMMA PromiseServerStep ==
    ASSUME NEW w, Alone(w), TypeOK, OnlyCreated, OnceInv, ServerStep(w)
    PROVE  [Promise!Next]_(Promise!vars)
<1> USE DEF world, server, requests, worker
<1>1. CASE PullExpire(w)
  BY <1>1, PromiseExpires DEF PullExpire, Promise!Next, Overdue
<1>2. CASE PullFind(w) \/ ReportCheck(w) \/ AnswerNobody(w)
  BY <1>2, PromiseStutters
  DEF PullFind, ReportCheck, AnswerNobody, Promise!vars, Outcome, Run
<1>3. CASE PullMark(w)
  <2>1. \A c \in Commands : Shown(status'[c]) = Shown(status[c])
    BY <1>3 DEF PullMark, Becomes, Shown, Deliverable, OnceInv, HandsAgree, Alone, TypeOK
  <2>2. UNCHANGED <<Outcome, Run>>
    BY <1>3, <2>1 DEF PullMark, Outcome, Run
  <2> QED
    BY <2>2 DEF Promise!vars, Outcome, Run
<1>4. CASE ReportCommit(w)
  <2>1. w \in Workers /\ pc[w] = "reporting" /\ asked[w] = job[w] /\ said[w] = outcome[w]
    BY <1>4 DEF ReportCommit, Alone, OnceInv, PointsAgree
  <2>2. CASE job[w] = {}
    <3>1. status' = status
      BY <1>4, <2>1, <2>2 DEF ReportCommit, Becomes, TypeOK
    <3> QED
      BY <1>4, <3>1, PromiseStutters DEF ReportCommit, Promise!vars, Outcome, Run
  <2>3. ASSUME NEW c \in job[w]
        PROVE  Promise!Next
    <3>1. job[w] = {c} /\ c \in Commands
      BY <2>1 DEF OnceInv, PointsAgree, TypeOK
    <3>2. status[c] \in {"EXPIRED", "PENDING", "SENT"}
      BY <1>4, <2>1, <3>1 DEF ReportCommit, OnceInv, HandsAgree, OnlyCreated, TypeOK, Deliverable
    <3>3. /\ outcome[w] = "EXECUTED" <=> c \in Run
          /\ outcome[w] \in {"EXECUTED", "FAILED"}
      BY <2>1, <3>1 DEF OnceInv, HandsAgree, Run, TypeOK, Outcomes
    <3>4. status' = [status EXCEPT ![c] = outcome[w]]
      BY <1>4, <2>1, <3>1 DEF ReportCommit, Becomes, TypeOK
    <3>5. Outcome[c] \in {"waiting", "expired"}
      BY <3>1, <3>2 DEF Outcome, Shown, Deliverable
    <3>6. Outcome' = [Outcome EXCEPT ![c] = Shown(outcome[w])]
      BY <3>1, <3>4 DEF Outcome, TypeOK
    <3>7. Run' = Run
      BY <1>4 DEF ReportCommit, Run
    <3>9. Promise!Settle(c, "done") \/ Promise!Settle(c, "failed")
      BY <3>3, <3>5, <3>6, ShownAs, <3>7 DEF Promise!Settle, Outcome, Run
    <3> QED
      BY <3>1, <3>9 DEF Promise!Next
  <2> QED
    BY <2>2, <2>3
<1> QED
  BY <1>1, <1>2, <1>3, <1>4 DEF ServerStep

LEMMA PromiseWorkerStep ==
    ASSUME NEW w, Alone(w), TypeOK, OnlyCreated, OnceInv, WorkerStep(w)
    PROVE  [Promise!Next]_(Promise!vars)
<1> USE DEF world, server, requests, worker
<1>1. ASSUME NEW c \in Commands, Execute(w, c)
      PROVE  Promise!Next
  <2>1. c \in batch[w] /\ w \in Workers
    BY <1>1 DEF Execute, Take, Alone
  <2>2. ran[c] = 0 /\ status[c] \in {"EXPIRED", "PENDING", "SENT"}
    BY <2>1 DEF OnceInv, HandsAgree, RowsAgree, OnlyCreated, TypeOK, Outcomes, Deliverable
  <2>3. Outcome[c] \in {"waiting", "expired"} /\ c \notin Run
    BY <2>2 DEF Outcome, Run, Shown, Deliverable
  <2>4. ran' = [ran EXCEPT ![c] = 1]
    BY <1>1, <2>2 DEF Execute
  <2>5. Run' = Run \cup {c}
    BY <2>4 DEF Run, TypeOK
  <2>6. Outcome' = Outcome
    BY <1>1 DEF Execute, Outcome
  <2> QED
    BY <2>3, <2>5, <2>6 DEF Promise!Next, Promise!Run, Outcome, Run
<1>2. ASSUME ~ \E c \in Commands : Execute(w, c)
      PROVE  UNCHANGED <<status, ran>>
  BY <1>2
  DEF WorkerStep, Pull, Receive, PullFails, StartBatch, ExecuteFails, StoreOutcome, Report,
      Acked, ReportFails, EndBatch, Cancel
<1> QED
  BY <1>1, <1>2, PromiseStutters DEF Promise!vars, Outcome, Run

\* The queue implements CommandPromise: with one worker that waits for its answers,
\* the outcome shown is true, and final once it is EXECUTED or FAILED.
THEOREM PromiseIsKept ==
    ASSUME NEW w, Alone(w)
    PROVE  Spec => PromiseKept
<1>1. Init => Promise!Init
  BY ShownAs DEF Init, Promise!Init
<1>2. Inv /\ OnceInv /\ [Next]_vars => [Promise!Next]_(Promise!vars)
  <2> SUFFICES ASSUME Inv, OnceInv, [Next]_vars
               PROVE  [Promise!Next]_(Promise!vars)
    OBVIOUS
  <2> USE DEF Inv
  <2>1. ASSUME NEW c \in Commands, Enqueue(c)
        PROVE  Promise!Next
    <3>1. Outcome[c] = "none" /\ Outcome' = [Outcome EXCEPT ![c] = "waiting"]
      BY <2>1, ShownAs DEF Enqueue, Outcome, TypeOK
    <3>2. Run' = Run
      BY <2>1 DEF Enqueue, Run
    <3> QED
      BY <3>1, <3>2 DEF Promise!Next, Promise!Issue, Outcome, Run
  <2>2. CASE MaintenanceExpires
    BY <2>2, PromiseExpires DEF MaintenanceExpires, Promise!Next, Overdue
  <2>3. CASE OpenSession \/ Tick \/ UNCHANGED vars
    BY <2>3, PromiseStutters
    DEF OpenSession, Tick, vars, server, world, Promise!vars, Outcome, Run
  <2> QED
    BY <2>1, <2>2, <2>3, PromiseServerStep, PromiseWorkerStep DEF Next, Alone
<1> QED
  BY <1>1, <1>2, InvHolds, OnceHolds, PTL DEF Spec, PromiseKept, Promise!Spec

-----------------------------------------------------------------------------
(* The pushes that wake the phones *)

LEMMA WakeStarts == WakeInit => WakeInv
<1> SUFFICES ASSUME WakeInit PROVE WakeInv
  OBVIOUS
<1>1. WakeTypeOK
  BY WakeAssumption DEF WakeInit, WakeTypeOK, NoToken, NoWake
<1>2. TokensAgree /\ TokenAccepted
  BY DEF WakeInit, TokensAgree, TokenAccepted
<1> QED
  BY <1>1, <1>2 DEF WakeInv

\* Where the other calls are does not change, and the token a message leaves with is one
\* that Google accepts longer than the message may be on its way.
LEMMA WakeStays == WakeInv /\ [WakeNext]_wakeVars => WakeInv'
<1> SUFFICES ASSUME WakeInv, [WakeNext]_wakeVars PROVE WakeInv'
  OBVIOUS
<1> DEFINE Calls == [pc : {"none", "lookup", "token", "send", "sent", "failed", "skipped"},
                     at : 0..MaxInstant, use : Nat]
<1> USE WakeAssumption DEF WakeInv, WakeTypeOK, TokensAgree
<1>1. ASSUME NEW w \in Wakes, NEW r \in Calls, Step(w, r), instant' = instant,
             serviceAccount' = serviceAccount, fcmToken' = fcmToken,
             lastWake' \in {NoWake} \cup (0..MaxInstant),
             cached' \in [cache : Nat, real : Nat],
             cached' = NoToken \/ cached'.real = cached'.cache + Margin,
             r.pc = "send" => instant - r.at <= Margin /\ r.at + Margin < r.use
      PROVE  WakeTypeOK' /\ TokensAgree'
  BY <1>1 DEF Step
<1>2. ASSUME NEW w \in Wakes, Wake(w)
      PROVE  WakeTypeOK' /\ TokensAgree'
  <2> DEFINE r == [pc |-> IF ~Configured \/ (lastWake # NoWake /\ instant - lastWake < Interval)
                          THEN "skipped" ELSE "lookup", at |-> instant, use |-> 0]
  <2>1. r \in Calls /\ r.pc # "send"
    OBVIOUS
  <2>2. Step(w, r) /\ UNCHANGED <<instant, serviceAccount, fcmToken, lastWake, cached>>
    BY <1>2 DEF Wake
  <2> HIDE DEF r
  <2> QED
    BY <1>1, <2>1, <2>2
<1>3. ASSUME NEW w \in Wakes, Lookup(w)
      PROVE  WakeTypeOK' /\ TokensAgree'
  <2> DEFINE r == [wake[w] EXCEPT !.pc = IF fcmToken THEN "token" ELSE "skipped"]
  <2>1. r \in Calls /\ r.pc # "send"
    OBVIOUS
  <2>2. Step(w, r) /\ UNCHANGED <<instant, serviceAccount, fcmToken, cached>>
    BY <1>3 DEF Lookup
  <2>3. lastWake' \in {NoWake} \cup (0..MaxInstant)
    BY <1>3 DEF Lookup
  <2> HIDE DEF r
  <2> QED
    BY <1>1, <2>1, <2>2, <2>3
<1>4. ASSUME NEW w \in Wakes, Token(w)
      PROVE  WakeTypeOK' /\ TokensAgree'
  <2>1. UNCHANGED <<instant, serviceAccount, fcmToken, lastWake>>
    BY <1>4 DEF Token
  <2> DEFINE Sends(u) == [pc |-> "send", at |-> instant, use |-> u]
  <2>2. ASSUME NEW u \in Nat
        PROVE  [wake[w] EXCEPT !.pc = "send", !.use = u, !.at = instant] = Sends(u)
               /\ Sends(u) \in Calls
    <3> DEFINE r1 == [wake[w] EXCEPT !.pc = "send"]
               r2 == [r1 EXCEPT !.use = u]
    <3>1. r1 \in Calls /\ r1.pc = "send"
      OBVIOUS
    <3> HIDE DEF r1
    <3>2. r2 \in Calls /\ r2.pc = "send" /\ r2.use = u
      BY <3>1
    <3> HIDE DEF r2
    <3>3. [r2 EXCEPT !.at = instant] = Sends(u)
      BY <3>2
    <3>4. [wake[w] EXCEPT !.pc = "send", !.use = u, !.at = instant] = [r2 EXCEPT !.at = instant]
      BY DEF r1, r2
    <3> QED
      BY <3>3, <3>4
  <2>3. ASSUME NEW u \in Nat, Step(w, Sends(u)), instant + Margin < u,
               cached' \in [cache : Nat, real : Nat],
               cached' = NoToken \/ cached'.real = cached'.cache + Margin
        PROVE  WakeTypeOK' /\ TokensAgree'
    <3>1. Sends(u).at = instant /\ Sends(u).use = u
      OBVIOUS
    <3>2. Sends(u) \in Calls
      BY <2>2
    <3> HIDE DEF Sends
    <3>3. instant - Sends(u).at <= Margin /\ Sends(u).at + Margin < Sends(u).use
      BY <2>3, <3>1
    <3> QED
      BY <1>1, <2>1, <2>3, <3>2, <3>3
  <2>4. CASE /\ cached.cache > instant
             /\ Step(w, [wake[w] EXCEPT !.pc = "send", !.use = cached.real, !.at = instant])
             /\ UNCHANGED cached
    <3>1. cached.real \in Nat /\ instant + Margin < cached.real
      BY <2>4 DEF NoToken
    <3>2. Step(w, Sends(cached.real))
      BY <2>2, <2>4, <3>1
    <3> HIDE DEF Sends
    <3> QED
      BY <2>3, <2>4, <3>1, <3>2
  <2>5. CASE /\ cached.cache <= instant
             /\ cached' = [cache |-> instant + Lifetime - Margin, real |-> instant + Lifetime]
             /\ Step(w, [wake[w] EXCEPT !.pc = "send", !.use = instant + Lifetime, !.at = instant])
    <3>1. /\ instant + Lifetime \in Nat /\ instant + Margin < instant + Lifetime
          /\ instant + Lifetime - Margin \in Nat
      OBVIOUS
    <3>2. Step(w, Sends(instant + Lifetime))
      BY <2>2, <2>5, <3>1
    <3>3. cached' \in [cache : Nat, real : Nat] /\ cached'.real = cached'.cache + Margin
      BY <2>5, <3>1
    <3> HIDE DEF Sends
    <3> QED
      BY <2>3, <3>1, <3>2, <3>3
  <2>6. CASE cached.cache <= instant /\ Step(w, [wake[w] EXCEPT !.pc = "failed"]) /\ UNCHANGED cached
    <3> DEFINE r == [wake[w] EXCEPT !.pc = "failed"]
    <3>1. r \in Calls /\ r.pc # "send"
      OBVIOUS
    <3> HIDE DEF r
    <3> QED
      BY <1>1, <2>1, <2>6, <3>1 DEF r
  <2> QED
    BY <1>4, <2>4, <2>5, <2>6 DEF Token
<1>5. ASSUME NEW w \in Wakes, SendMessage(w)
      PROVE  WakeTypeOK' /\ TokensAgree'
  <2>1. PICK point \in {"sent", "failed"} : Step(w, [wake[w] EXCEPT !.pc = point])
    BY <1>5 DEF SendMessage
  <2> DEFINE r == [wake[w] EXCEPT !.pc = point]
  <2>2. r \in Calls /\ r.pc # "send"
    OBVIOUS
  <2>3. UNCHANGED <<instant, serviceAccount, fcmToken, lastWake, cached>>
    BY <1>5 DEF SendMessage
  <2> HIDE DEF r
  <2> QED
    BY <1>1, <2>1, <2>2, <2>3 DEF r
<1>6. ASSUME RegisterToken
      PROVE  WakeTypeOK' /\ TokensAgree'
  BY <1>6 DEF RegisterToken
<1>7. ASSUME RestartApi
      PROVE  WakeTypeOK' /\ TokensAgree'
  <2>1. wake' \in [Wakes -> Calls] /\ \A w \in Wakes : wake'[w].pc # "send"
    BY <1>7 DEF RestartApi
  <2>2. cached' = NoToken /\ cached' \in [cache : Nat, real : Nat]
    BY <1>7 DEF RestartApi, NoToken
  <2> QED
    BY <1>7, <2>1, <2>2 DEF RestartApi
<1>8. ASSUME Clock
      PROVE  WakeTypeOK' /\ TokensAgree'
  BY <1>8 DEF Clock
<1>9. ASSUME UNCHANGED wakeVars
      PROVE  WakeTypeOK' /\ TokensAgree'
  BY <1>9 DEF wakeVars
<1>10. WakeTypeOK' /\ TokensAgree'
  BY <1>2, <1>3, <1>4, <1>5, <1>6, <1>7, <1>8, <1>9 DEF WakeNext
<1>11. TokenAccepted'
  BY <1>10 DEF TokenAccepted
<1> QED
  BY <1>10, <1>11

-----------------------------------------------------------------------------
(* The instants of a schedule *)

LEMMA LeastDay ==
    ASSUME NEW S, IsFiniteSet(S), S # {}, S \subseteq Int
    PROVE  Min(S) \in S /\ \A x \in S : Min(S) <= x
<1> DEFINE Below(k) == {j \in S : j < k}
           Choice == {Below(k) : k \in S}
<1>1. Choice # {} /\ Choice \subseteq FiniteSubsetsOf(S)
  <2>1. Choice # {} /\ Choice \subseteq SUBSET S
    <3>1. \A k \in S : Below(k) \subseteq S
      OBVIOUS
    <3> QED
      BY <3>1
  <2>2. FiniteSubsetsOf(S) = SUBSET S
    BY FS_FiniteSubsetsOfFinite
  <2> QED
    BY <2>1, <2>2
<1>2. IsWellFoundedOn(StrictSubsetOrdering(S), FiniteSubsetsOf(S))
  BY FS_StrictSubsetOrderingWellFounded
<1>3. PICK A \in Choice : \A B \in Choice : ~ (<<B, A>> \in StrictSubsetOrdering(S))
  <2> HIDE DEF Choice
  <2> QED
    BY <1>1, <1>2, WFMin
<1>4. PICK m \in S : A = Below(m)
  BY <1>3
<1>5. ASSUME NEW x \in S
      PROVE  m <= x
  <2> SUFFICES ASSUME x < m PROVE FALSE
    BY <1>5
  <2>1. Below(x) \in Choice /\ Below(x) \subseteq S /\ Below(m) \subseteq S
    OBVIOUS
  <2>2. x \in Below(m) /\ x \notin Below(x) /\ Below(x) \subseteq Below(m)
    <3>1. m \in Int /\ x \in Int /\ \A j \in S : j \in Int
      BY <1>5
    <3>2. \A j \in S : j < x => j < m
      BY <3>1
    <3>3. x \in Below(m)
      OBVIOUS
    <3>4. x \notin Below(x)
      BY <3>1
    <3>5. Below(x) \subseteq Below(m)
      BY <3>2
    <3> QED
      BY <3>3, <3>4, <3>5
  <2> HIDE DEF Below, Choice
  <2>3. <<Below(x), Below(m)>> \in StrictSubsetOrdering(S)
    BY <2>1, <2>2 DEF StrictSubsetOrdering
  <2> QED
    BY <1>3, <1>4, <2>1, <2>3
<1> QED
  BY <1>5 DEF Min

\* The slots of a day, counted from its start, lie before those of the next.
LEMMA DaysInOrder ==
    ASSUME NEW d \in Int, NEW e \in Int, d <= e
    PROVE  d * DaySlots <= e * DaySlots
<1>1. PICK k \in Nat : e = d + k
  <2>1. e - d \in Nat /\ e = d + (e - d)
    OBVIOUS
  <2> QED
    BY <2>1
<1>2. k * DaySlots >= 0
  BY DaySlotsAssumption
<1>3. e * DaySlots = d * DaySlots + k * DaySlots
  BY <1>1, DaySlotsAssumption
<1> QED
  BY <1>2, <1>3, DaySlotsAssumption

LEMMA KnownSchedule ==
    ASSUME NEW s \in Schedules
    PROVE  /\ s.start \in Int /\ 0 <= s.start /\ s.start <= DaySlots - 1
           /\ \A d \in Days : LocksOn(s, d) =>
                  /\ resolveDayRules(s, d).lockTime \in Int
                  /\ 0 <= resolveDayRules(s, d).lockTime
                  /\ resolveDayRules(s, d).lockTime <= DaySlots - 1
<1> HIDE DEF Days
<1> QED
  BY ScheduleAssumption, DaySlotsAssumption

\* The operational day of an instant begins before it and ends after it.
LEMMA DayOfInstant ==
    ASSUME NEW s \in Schedules, NEW at \in Int
    PROVE  LET d == operationalDayOf(s, at)
           IN  d \in Int /\ d * DaySlots + s.start <= at /\ at < (d + 1) * DaySlots + s.start
<1> DEFINE q == at \div DaySlots
           r == at % DaySlots
<1>1. q \in Int /\ r \in 0..(DaySlots - 1) /\ at = q * DaySlots + r
  BY DaySlotsAssumption
<1>2. operationalDayOf(s, at) = q - (IF r < s.start THEN 1 ELSE 0)
  BY DEF operationalDayOf
<1> HIDE DEF q, r
<1>3. /\ (q - 1) * DaySlots = q * DaySlots - DaySlots
      /\ (q + 1) * DaySlots = q * DaySlots + DaySlots
      /\ q * DaySlots \in Int /\ DaySlots \in Int /\ q - 0 = q /\ q - 1 + 1 = q
  BY <1>1, DaySlotsAssumption
<1>4. s.start \in Int /\ 0 <= s.start /\ s.start <= DaySlots - 1
  BY KnownSchedule
<1>5. CASE r < s.start
  <2>1. operationalDayOf(s, at) = q - 1
    BY <1>1, <1>2, <1>5
  <2>2. q - 1 \in Int /\ (q - 1) * DaySlots + s.start <= at /\ at < q * DaySlots + s.start
    BY <1>1, <1>3, <1>4, <1>5
  <2> QED
    BY <1>3, <2>1, <2>2
<1>6. CASE ~(r < s.start)
  <2>1. operationalDayOf(s, at) = q
    BY <1>1, <1>2, <1>3, <1>6
  <2>2. q * DaySlots + s.start <= at /\ at < (q + 1) * DaySlots + s.start
    BY <1>1, <1>3, <1>4, <1>6
  <2> QED
    BY <1>1, <2>1, <2>2
<1> QED
  BY <1>5, <1>6

\* The lock instant of a day lies in its operational day.
LEMMA LockInItsDay ==
    ASSUME NEW s \in Schedules, NEW d \in Days, LocksOn(s, d)
    PROVE  /\ d \in Int /\ LockAt(s, d) \in Int
           /\ d * DaySlots + s.start <= LockAt(s, d) /\ LockAt(s, d) < (d + 1) * DaySlots + s.start
<1> DEFINE time == resolveDayRules(s, d).lockTime
<1>1. d \in Int
  BY DEF Days
<1>2. /\ s.start \in Int /\ 0 <= s.start /\ s.start <= DaySlots - 1
      /\ time \in Int /\ 0 <= time /\ time <= DaySlots - 1
  BY KnownSchedule
<1>3. LockAt(s, d) = (d + (IF time < s.start THEN 1 ELSE 0)) * DaySlots + time
  BY DEF LockAt, instantForLocalTime
<1> HIDE DEF time
<1>4. /\ d * DaySlots \in Int /\ (d + 1) * DaySlots = d * DaySlots + DaySlots /\ DaySlots \in Int
      /\ d + 0 = d
  BY <1>1, DaySlotsAssumption
<1>5. CASE time < s.start
  <2>1. LockAt(s, d) = d * DaySlots + DaySlots + time
    BY <1>3, <1>4, <1>5
  <2> QED
    BY <1>1, <1>2, <1>4, <1>5, <2>1
<1>6. CASE ~(time < s.start)
  <2>1. LockAt(s, d) = d * DaySlots + time
    BY <1>3, <1>4, <1>6
  <2> QED
    BY <1>1, <1>2, <1>4, <1>6, <2>1
<1> QED
  BY <1>5, <1>6

\* A later day locks later.
LEMMA LocksInOrder ==
    ASSUME NEW s \in Schedules, NEW d \in Days, NEW e \in Days, LocksOn(s, d), LocksOn(s, e), d < e
    PROVE  LockAt(s, d) < LockAt(s, e)
<1>1. (d + 1) * DaySlots <= e * DaySlots
  <2> DEFINE n == d + 1
  <2>1. n \in Int /\ e \in Int /\ n <= e
    BY LockInItsDay
  <2> HIDE DEF n
  <2>2. n * DaySlots <= e * DaySlots
    BY <2>1, DaysInOrder
  <2> QED
    BY <2>2 DEF n
<1>2. LockAt(s, d) < (d + 1) * DaySlots + s.start /\ e * DaySlots + s.start <= LockAt(s, e)
  BY LockInItsDay
<1>3. /\ d \in Int /\ e \in Int /\ LockAt(s, d) \in Int /\ LockAt(s, e) \in Int /\ s.start \in Int
  BY LockInItsDay, KnownSchedule
<1>4. (d + 1) * DaySlots \in Int /\ e * DaySlots \in Int
  BY <1>3, DaySlotsAssumption
<1> QED
  BY <1>1, <1>2, <1>3, <1>4

\* The pass looks at the days of Days.
LEMMA DaysLookedAt ==
    ASSUME NEW s \in Schedules, NEW u \in 0..LastSlot
    PROVE  LET first == operationalDayOf(s, u - Window)
           IN  first \in Int /\ first..(first + Horizon) \subseteq Days
<1> DEFINE first == operationalDayOf(s, u - Window)
           last == LastSlot \div DaySlots
<1>1. /\ u \in Int /\ 0 <= u /\ u <= LastSlot /\ Window \in Int /\ 0 <= Window /\ Window <= DaySlots
      /\ LastSlot \in Int /\ DaySlots \in Int /\ 0 < DaySlots
  BY LockJobAssumption, DaySlotsAssumption
<1>2. u - Window \in Int /\ -DaySlots <= u - Window /\ u - Window <= LastSlot
  BY <1>1
<1>3. /\ first \in Int /\ first * DaySlots + s.start <= u - Window
      /\ u - Window < (first + 1) * DaySlots + s.start
  BY <1>2, DayOfInstant
<1>4. s.start \in Int /\ 0 <= s.start /\ s.start <= DaySlots - 1
  BY KnownSchedule
<1>5. last \in Int /\ LastSlot < (last + 1) * DaySlots
  <2> DEFINE rest == LastSlot % DaySlots
  <2>1. last \in Int /\ rest \in 0..(DaySlots - 1) /\ LastSlot = last * DaySlots + rest
    BY <1>1, DaySlotsAssumption
  <2> HIDE DEF last, rest
  <2>2. (last + 1) * DaySlots = last * DaySlots + DaySlots /\ last * DaySlots \in Int
    BY <1>1, <2>1
  <2> QED
    BY <1>1, <2>1, <2>2
<1> HIDE DEF first, last
<1>6. -2 <= first
  <2> SUFFICES ASSUME first < -2 PROVE FALSE
    BY <1>3
  <2>1. (first + 1) * DaySlots <= (-2) * DaySlots
    <3> DEFINE n == first + 1
               top == -2
    <3>1. n \in Int /\ top \in Int /\ n <= top
      BY <1>3
    <3> HIDE DEF n, top
    <3>2. n * DaySlots <= top * DaySlots
      BY <3>1, DaysInOrder
    <3> QED
      BY <3>2 DEF n, top
  <2>2. (first + 1) * DaySlots \in Int /\ (-2) * DaySlots = -DaySlots - DaySlots
    BY <1>1, <1>3
  <2> QED
    BY <1>1, <1>2, <1>3, <1>4, <2>1, <2>2
<1>7. first <= last
  <2> SUFFICES ASSUME last < first PROVE FALSE
    BY <1>3, <1>5
  <2>1. (last + 1) * DaySlots <= first * DaySlots
    <3> DEFINE n == last + 1
               top == first
    <3>1. n \in Int /\ top \in Int /\ n <= top
      BY <1>3, <1>5
    <3> HIDE DEF n, top
    <3>2. n * DaySlots <= top * DaySlots
      BY <3>1, DaysInOrder
    <3> QED
      BY <3>2 DEF n, top
  <2>2. (last + 1) * DaySlots \in Int /\ first * DaySlots \in Int
    BY <1>1, <1>3, <1>5
  <2> QED
    BY <1>1, <1>2, <1>3, <1>4, <1>5, <2>1, <2>2
<1>8. first..(first + Horizon) \subseteq -2..(last + Horizon)
  BY <1>3, <1>5, <1>6, <1>7 DEF Horizon
<1> QED
  BY <1>3, <1>8 DEF first, last, Days

\* What a pass of slot u finds: the first lock instant after the beginning of the window,
\* when one is due.
LEMMA DueIsFirst ==
    ASSUME NEW s \in Schedules, NEW u \in 0..LastSlot, NEW i \in 0..u, FirstAfter(s, u - Window, i)
    PROVE  nextLockInstant(s, u - Window, Horizon) = i
<1> DEFINE from == u - Window
           first == operationalDayOf(s, from)
           later == {d \in first..(first + Horizon) : LocksOn(s, d) /\ LockAt(s, d) > from}
<1>1. PICK e \in Days : LocksOn(s, e) /\ LockAt(s, e) = i
  BY DEF FirstAfter
<1>2. first \in Int /\ first..(first + Horizon) \subseteq Days
  BY DaysLookedAt
<1>3. from \in Int /\ from < i /\ i <= from + Window
  BY LockJobAssumption DEF FirstAfter
<1>4. /\ e \in Int /\ e * DaySlots + s.start <= i /\ i < (e + 1) * DaySlots + s.start
      /\ s.start \in Int /\ i \in Int
  BY <1>1, LockInItsDay, KnownSchedule
<1>5. first * DaySlots + s.start <= from /\ from < (first + 1) * DaySlots + s.start
  BY <1>3, DayOfInstant
<1>6. Window <= DaySlots /\ Window \in Int /\ DaySlots \in Int
  BY LockJobAssumption, DaySlotsAssumption
<1>7. nextLockInstant(s, from, Horizon) = IF later = {} THEN Never ELSE LockAt(s, Min(later))
  BY DEF nextLockInstant, LocksOn, LockAt
<1> HIDE DEF from, first
<1>8. first <= e
  <2> SUFFICES ASSUME e < first PROVE FALSE
    BY <1>2, <1>4
  <2>1. (e + 1) * DaySlots <= first * DaySlots
    <3> DEFINE n == e + 1
               top == first
    <3>1. n \in Int /\ top \in Int /\ n <= top
      BY <1>2, <1>4
    <3> HIDE DEF n, top
    <3>2. n * DaySlots <= top * DaySlots
      BY <3>1, DaysInOrder
    <3> QED
      BY <3>2 DEF n, top
  <2>2. (e + 1) * DaySlots \in Int /\ first * DaySlots \in Int
    BY <1>2, <1>4, <1>6
  <2> QED
    BY <1>3, <1>4, <1>5, <2>1, <2>2
<1>9. e <= first + Horizon
  <2> SUFFICES ASSUME first + 2 < e PROVE FALSE
    BY <1>2, <1>4 DEF Horizon
  <2>1. (first + 2 + 1) * DaySlots <= e * DaySlots
    <3> DEFINE n == first + 2 + 1
               top == e
    <3>1. n \in Int /\ top \in Int /\ n <= top
      BY <1>2, <1>4
    <3> HIDE DEF n, top
    <3>2. n * DaySlots <= top * DaySlots
      BY <3>1, DaysInOrder
    <3> QED
      BY <3>2 DEF n, top
  <2>2. /\ (first + 2 + 1) * DaySlots = (first + 1) * DaySlots + DaySlots + DaySlots
        /\ (first + 1) * DaySlots \in Int /\ e * DaySlots \in Int
    BY <1>2, <1>4, <1>6
  <2> QED
    BY <1>3, <1>4, <1>5, <1>6, <2>1, <2>2, DaySlotsAssumption
<1>10. e \in later
  BY <1>1, <1>2, <1>3, <1>4, <1>8, <1>9 DEF Horizon
<1>11. later \subseteq Int /\ later \subseteq Days
  BY <1>2
<1>12. IsFiniteSet(later)
  <2>1. IsFiniteSet(first..(first + Horizon))
    BY <1>2, FS_Interval DEF Horizon
  <2>2. later \subseteq first..(first + Horizon)
    OBVIOUS
  <2> HIDE DEF later
  <2> QED
    BY <2>1, <2>2, FS_Subset
<1>13. Min(later) \in later /\ Min(later) <= e
  <2> HIDE DEF later
  <2> QED
    BY <1>10, <1>11, <1>12, LeastDay
<1> DEFINE m == Min(later)
<1>14. m \in Days /\ m \in Int /\ m <= e /\ LocksOn(s, m) /\ from < LockAt(s, m) /\ LockAt(s, m) \in Int
  BY <1>3, <1>11, <1>13, LockInItsDay
<1>15. later # {}
  BY <1>10
<1> HIDE DEF m, later
<1>16. m = e
  <2> SUFFICES ASSUME m < e PROVE FALSE
    BY <1>4, <1>14
  <2>1. LockAt(s, m) < i
    BY <1>1, <1>14, LocksInOrder
  <2> QED
    BY <1>14, <2>1 DEF FirstAfter, from
<1> QED
  BY <1>1, <1>7, <1>15, <1>16 DEF m, from

LEMMA DueIsInstant ==
    ASSUME NEW s \in Schedules, NEW u \in 0..LastSlot
    PROVE  nextLockInstant(s, u - Window, Horizon) \in Int
<1> DEFINE from == u - Window
           first == operationalDayOf(s, from)
           later == {d \in first..(first + Horizon) : LocksOn(s, d) /\ LockAt(s, d) > from}
<1>1. first \in Int /\ first..(first + Horizon) \subseteq Days
  BY DaysLookedAt
<1>2. nextLockInstant(s, from, Horizon) = IF later = {} THEN Never ELSE LockAt(s, Min(later))
  BY DEF nextLockInstant, LocksOn, LockAt
<1> HIDE DEF from, first
<1>3. later \subseteq first..(first + Horizon) /\ later \subseteq Int /\ later \subseteq Days
      /\ \A d \in later : LocksOn(s, d)
  BY <1>1
<1>4. IsFiniteSet(first..(first + Horizon))
  BY <1>1, FS_Interval DEF Horizon
<1> HIDE DEF later
<1>5. IsFiniteSet(later)
  BY <1>3, <1>4, FS_Subset
<1>6. later # {} => Min(later) \in later
  BY <1>3, <1>5, LeastDay
<1>7. later # {} => LockAt(s, Min(later)) \in Int
  BY <1>3, <1>6, LockInItsDay
<1> QED
  BY <1>2, <1>7 DEF Never, from

-----------------------------------------------------------------------------
(* The orders of the evening *)

LEMMA OrdersStart == LockJobInit => LockJobInv
<1> SUFFICES ASSUME LockJobInit PROVE LockJobInv
  OBVIOUS
<1> USE LockJobAssumption
<1>1. LockJobTypeOK
  <2>1. pass \in [Instances -> JobPasses]
    BY DEF LockJobInit, JobPasses
  <2>2. rules \in [Depots -> Schedules \cup {Broken}]
    BY DEF LockJobInit
  <2>3. home \in [Terminals -> Depots]
    BY DEF LockJobInit
  <2>4. leader \in BOOLEAN /\ complete \in BOOLEAN
    BY DEF LockJobInit
  <2>5. changed \in [Depots -> Int] /\ slotNow \in 0..LastSlot /\ outage \in 0..MaxOutage
    BY DEF LockJobInit
  <2> QED
    BY <2>1, <2>2, <2>3, <2>4, <2>5 DEF LockJobInit, LockJobTypeOK
<1>2. OneOrderByInstant /\ CompleteServes
  BY DEF LockJobInit, OneOrderByInstant, CompleteServes
<1>3. PassesServe
  BY DEF LockJobInit, PassesServe, PassServes, NotAtWork
<1>4. MissedIsRecent
  <2>1. \A u \in 0..slotNow : slotNow - u <= outage
    BY DEF LockJobInit
  <2> QED
    BY <2>1 DEF MissedIsRecent
<1>5. LockOrdered
  <2>1. 0..(slotNow - Window) = {}
    BY DEF LockJobInit
  <2> QED
    BY <2>1 DEF LockOrdered
<1> QED
  BY <1>1, <1>2, <1>3, <1>4, <1>5 DEF LockJobInv

\* While a slot lasts and the schedules hold, an order once given serves.
LEMMA ServedStays ==
    ASSUME UNCHANGED <<slotNow, home, rules, changed>>, ordered \subseteq ordered',
           NEW d, Served(d)
    PROVE  Served(d)'
<1>1. \A t, i : IsOrdered(t, i) => IsOrdered(t, i)'
  BY DEF IsOrdered
<1>2. Due(d)' = Due(d)
  BY DEF Due
<1> QED
  BY <1>1, <1>2 DEF Served

LEMMA OrdersStay ==
    ASSUME MissedIsRecent, Spaced => LockOrdered, CompleteServes,
           UNCHANGED <<slotNow, home, rules, changed, outage>>, ordered \subseteq ordered'
    PROVE  MissedIsRecent' /\ (Spaced => LockOrdered') /\ (complete' = complete => CompleteServes')
<1>1. \A t, i : IsOrdered(t, i) => IsOrdered(t, i)'
  BY DEF IsOrdered
<1>2. MissedIsRecent'
  BY <1>1 DEF MissedIsRecent
<1>3. Spaced => LockOrdered'
  BY <1>1 DEF LockOrdered
<1>4. complete' = complete => CompleteServes'
  BY ServedStays DEF CompleteServes
<1> QED
  BY <1>2, <1>3, <1>4

LEMMA PassesServeEach == PassesServe <=> \A w \in Instances : PassServes(pass[w])
BY DEF PassesServe

\* A pass takes a step, and the others stay where they are.
LEMMA PassMoves ==
    ASSUME LockJobInv, UNCHANGED <<slotNow, home, rules, changed>>, ordered \subseteq ordered',
           NEW w \in Instances, NEW r \in JobPasses, Pass(w, r), PassServes(r)'
    PROVE  PassesServe' /\ pass' \in [Instances -> JobPasses]
<1>1. pass \in [Instances -> JobPasses]
  BY DEF LockJobInv, LockJobTypeOK
<1>2. pass' \in [Instances -> JobPasses] /\ pass'[w] = r
      /\ \A v \in Instances \ {w} : pass'[v] = pass[v]
  BY <1>1 DEF Pass
<1>3. ASSUME NEW v \in Instances, NEW p, PassServes(p)
      PROVE  PassServes(p)'
  <2>1. \A t, i : IsOrdered(t, i) => IsOrdered(t, i)'
    BY DEF IsOrdered
  <2>2. \A d : Served(d) => Served(d)'
    BY ServedStays
  <2>3. \A d : Due(d)' = Due(d)
    BY DEF Due
  <2>4. p.pc = "phones" =>
           /\ rules'[p.depot] # Broken /\ changed'[p.depot] < slotNow' => p.due = Due(p.depot)'
           /\ \A t \in Terminals \ p.left : home'[t] = p.depot => IsOrdered(t, p.due)'
    BY <1>3, <2>1, <2>3 DEF PassServes
  <2>5. p # NotAtWork /\ p.sound =>
           \A d \in Depots \ p.todo : Served(d)' \/ (p.pc = "phones" /\ d = p.depot)
    BY <1>3, <2>2 DEF PassServes
  <2> QED
    BY <2>4, <2>5 DEF PassServes
<1>4. ASSUME NEW v \in Instances, NEW p, p = pass'[v]
      PROVE  PassServes(p)'
  <2>1. CASE v = w
    BY <1>2, <1>4, <2>1
  <2>2. CASE v # w
    <3>1. PassServes(pass[v])
      BY PassesServeEach DEF LockJobInv
    <3>2. p = pass[v]
      BY <1>2, <1>4, <2>2
    <3>3. PassServes(p)
      BY <3>1, <3>2
    <3> QED
      BY <1>3, <3>3
  <2> QED
    BY <2>1, <2>2
<1>5. PassesServe'
  BY <1>4 DEF PassesServe, PassServes
<1> QED
  BY <1>2, <1>5

\* A step of a pass that leaves the schedules, the slot and the outage.
LEMMA PassStepKeeps ==
    ASSUME LockJobInv, UNCHANGED <<slotNow, home, rules, changed, outage>>, ordered \subseteq ordered',
           leader' \in BOOLEAN, fired' \subseteq Instances, complete' \in BOOLEAN,
           ordered' \subseteq [phone : Terminals, at : Int, until : Int], OneOrderByInstant',
           pass' \in [Instances -> JobPasses], PassesServe', CompleteServes'
    PROVE  LockJobInv'
<1>1. LockJobTypeOK'
  <2>1. /\ slotNow' \in 0..LastSlot /\ home' \in [Terminals -> Depots]
        /\ rules' \in [Depots -> Schedules \cup {Broken}] /\ changed' \in [Depots -> Int]
        /\ outage' \in 0..MaxOutage
    BY DEF LockJobInv, LockJobTypeOK
  <2> QED
    BY <2>1 DEF LockJobTypeOK
<1>2. MissedIsRecent /\ (Spaced => LockOrdered) /\ CompleteServes
  BY DEF LockJobInv
<1>3. MissedIsRecent' /\ (Spaced => LockOrdered')
  BY <1>2, OrdersStay
<1>4. Spaced' = Spaced
  BY DEF Spaced
<1> QED
  BY <1>1, <1>3, <1>4 DEF LockJobInv

\* Nothing but the passes, and what only they look at.
LEMMA PassAlone ==
    ASSUME LockJobInv, UNCHANGED <<slotNow, home, rules, changed, complete, outage, ordered>>,
           leader' \in BOOLEAN, fired' \subseteq Instances,
           NEW w \in Instances, NEW r \in JobPasses, Pass(w, r), PassServes(r)'
    PROVE  LockJobInv'
<1>1. PassesServe' /\ pass' \in [Instances -> JobPasses]
  BY PassMoves
<1>2. OneOrderByInstant' /\ ordered' \subseteq [phone : Terminals, at : Int, until : Int]
  BY DEF LockJobInv, LockJobTypeOK, OneOrderByInstant
<1>3. CompleteServes' /\ complete' \in BOOLEAN
  BY OrdersStay DEF LockJobInv, LockJobTypeOK
<1> QED
  BY <1>1, <1>2, <1>3, PassStepKeeps

LEMMA PassRecords ==
    ASSUME LockJobTypeOK, NEW w \in Instances
    PROVE  /\ pass[w].pc = "depots" =>
                  pass[w] \in [pc : {"depots"}, todo : SUBSET Depots, sound : BOOLEAN]
           /\ pass[w].pc = "phones" =>
                  pass[w] \in [pc : {"phones"}, todo : SUBSET Depots, sound : BOOLEAN,
                               depot : Depots, due : Int, left : SUBSET Terminals]
           /\ pass[w] # NotAtWork => pass[w].pc \in {"depots", "phones"}
<1>1. pass[w] \in JobPasses
  BY DEF LockJobTypeOK
<1> QED
  BY <1>1 DEF JobPasses, NotAtWork

LEMMA TriggerStep ==
    ASSUME LockJobInv, NEW w \in Instances, Trigger(w)
    PROVE  LockJobInv'
<1>1. UNCHANGED <<slotNow, home, rules, changed, complete, outage, ordered>> /\ fired' \subseteq Instances
  BY DEF Trigger, LockJobInv, LockJobTypeOK
<1>2. leader' \in BOOLEAN
  BY DEF Trigger, LockJobInv, LockJobTypeOK
<1>3. PICK r : r = [pc |-> "depots", todo |-> Depots, sound |-> TRUE]
  OBVIOUS
<1>4. r \in JobPasses
  BY <1>3 DEF JobPasses
<1>5. PassServes(r)'
  BY <1>3 DEF PassServes
<1>6. CASE Pass(w, r)
  BY <1>1, <1>2, <1>4, <1>5, <1>6, PassAlone
<1>7. CASE pass' = pass
  <2>1. UNCHANGED <<slotNow, home, rules, changed, outage, ordered, complete>>
    BY <1>1
  <2>2. OneOrderByInstant' /\ ordered' \subseteq [phone : Terminals, at : Int, until : Int]
    BY <1>1 DEF LockJobInv, LockJobTypeOK, OneOrderByInstant
  <2>3. CompleteServes' /\ complete' \in BOOLEAN
    BY <1>1, OrdersStay DEF LockJobInv, LockJobTypeOK
  <2>4. pass' \in [Instances -> JobPasses]
    BY <1>7 DEF LockJobInv, LockJobTypeOK
  <2>5. PassesServe'
    BY <1>1, <1>7 DEF LockJobInv, PassesServe, PassServes, Served, Due, IsOrdered
  <2> QED
    BY <1>1, <1>2, <2>2, <2>3, <2>4, <2>5, PassStepKeeps
<1> QED
  BY <1>3, <1>6, <1>7 DEF Trigger

LEMMA OpenDepotStep ==
    ASSUME LockJobInv, NEW w \in Instances, NEW d \in Depots, OpenDepot(w, d)
    PROVE  LockJobInv'
<1>1. /\ UNCHANGED <<slotNow, home, rules, changed, complete, outage, ordered>>
      /\ fired' \subseteq Instances
  BY DEF OpenDepot, LockJobInv, LockJobTypeOK
<1>2. leader' \in BOOLEAN
  BY DEF OpenDepot, LockJobInv, LockJobTypeOK
<1>3. pass[w] \in [pc : {"depots"}, todo : SUBSET Depots, sound : BOOLEAN] /\ pass[w] # NotAtWork
  BY PassRecords DEF OpenDepot, LockJobInv, NotAtWork
<1>4. PICK rest : rest = [pass[w] EXCEPT !.todo = @ \ {d}]
  OBVIOUS
<1>5. /\ rest \in [pc : {"depots"}, todo : SUBSET Depots, sound : BOOLEAN]
      /\ rest.todo = pass[w].todo \ {d} /\ rest.sound = pass[w].sound
  BY <1>3, <1>4
<1>6. pass[w].sound => \A e \in Depots \ pass[w].todo : Served(e)
  BY <1>3, PassesServeEach DEF LockJobInv, PassServes
<1>7. \A e : Served(e) => Served(e)'
  BY <1>1, ServedStays
<1>8. CASE rules[d] = Broken \/ Due(d) = Never \/ Due(d) > slotNow
  <2>1. Pass(w, rest)
    BY <1>4, <1>8 DEF OpenDepot
  <2>2. Served(d)
    <3>1. ~(rules[d] # Broken /\ Due(d) # Never /\ Due(d) <= slotNow)
      <4>1. CASE rules[d] = Broken
        BY <4>1
      <4>2. CASE Due(d) = Never
        BY <4>2
      <4>3. CASE rules[d] # Broken /\ Due(d) > slotNow
        <5>1. Due(d) \in Int /\ slotNow \in Int
          BY <4>3, DueIsInstant DEF Due, LockJobInv, LockJobTypeOK
        <5> QED
          BY <4>3, <5>1
      <4> QED
        BY <1>8, <4>1, <4>2, <4>3
    <3> QED
      BY <3>1 DEF Served
  <2>3. rest.sound => \A e \in Depots \ rest.todo : Served(e)'
    BY <1>5, <1>6, <1>7, <2>2
  <2>4. rest.pc # "phones"
    BY <1>5
  <2>5. PassServes(rest)'
    BY <2>3, <2>4 DEF PassServes
  <2>6. rest \in JobPasses
    BY <1>5 DEF JobPasses
  <2> QED
    BY <1>1, <1>2, <2>1, <2>5, <2>6, PassAlone
<1>9. CASE ~(rules[d] = Broken \/ Due(d) = Never \/ Due(d) > slotNow)
  <2>1. PICK r : r = [pc |-> "phones", todo |-> rest.todo, sound |-> rest.sound, depot |-> d,
                      due |-> Due(d), left |-> {t \in Terminals : home[t] = d}]
    OBVIOUS
  <2>2. Pass(w, r)
    BY <1>4, <1>9, <2>1 DEF OpenDepot
  <2>3. Due(d) \in Int
    <3>1. rules[d] \in Schedules /\ slotNow \in 0..LastSlot
      BY <1>9 DEF LockJobInv, LockJobTypeOK
    <3> QED
      BY <3>1, DueIsInstant DEF Due
  <2>4. r \in [pc : {"phones"}, todo : SUBSET Depots, sound : BOOLEAN, depot : Depots, due : Int,
               left : SUBSET Terminals]
    BY <1>5, <2>1, <2>3
  <2>5. r \in JobPasses
    BY <2>4 DEF JobPasses
  <2>6. r.sound = rest.sound /\ r.todo = rest.todo /\ r.depot = d /\ r.due = Due(d)
        /\ r.left = {t \in Terminals : home[t] = d} /\ r.pc = "phones"
    BY <2>1
  <2>7. r.sound => \A e \in Depots \ r.todo : Served(e)' \/ e = r.depot
    BY <1>5, <1>6, <1>7, <2>6
  <2>8. Due(d)' = Due(d)
    BY <1>1 DEF Due
  <2>9. \A t \in Terminals \ r.left : home'[t] # r.depot
    BY <1>1, <2>6
  <2>10. PassServes(r)'
    BY <2>6, <2>7, <2>8, <2>9 DEF PassServes
  <2> QED
    BY <1>1, <1>2, <2>2, <2>5, <2>10, PassAlone
<1> QED
  BY <1>8, <1>9

LEMMA OrderFailsStep ==
    ASSUME LockJobInv, NEW w \in Instances, OrderFails(w)
    PROVE  LockJobInv'
<1>1. /\ UNCHANGED <<slotNow, home, rules, changed, complete, outage, ordered>>
      /\ fired' \subseteq Instances
  BY DEF OrderFails, LockJobInv, LockJobTypeOK
<1>2. leader' \in BOOLEAN
  BY DEF OrderFails, LockJobInv, LockJobTypeOK
<1>3. PICK r : r = [pc |-> "depots", todo |-> pass[w].todo, sound |-> FALSE]
  OBVIOUS
<1>4. pass[w].todo \in SUBSET Depots
  BY PassRecords DEF OrderFails, LockJobInv
<1>5. r \in JobPasses
  BY <1>3, <1>4 DEF JobPasses
<1>6. Pass(w, r)
  BY <1>3 DEF OrderFails
<1>7. PassServes(r)'
  BY <1>3 DEF PassServes
<1> QED
  BY <1>1, <1>2, <1>5, <1>6, <1>7, PassAlone

LEMMA EndDepotStep ==
    ASSUME LockJobInv, NEW w \in Instances, EndDepot(w)
    PROVE  LockJobInv'
<1>1. /\ UNCHANGED <<slotNow, home, rules, changed, complete, outage, ordered>>
      /\ fired' \subseteq Instances
  BY DEF EndDepot, LockJobInv, LockJobTypeOK
<1>2. leader' \in BOOLEAN
  BY DEF EndDepot, LockJobInv, LockJobTypeOK
<1>3. PICK r : r = [pc |-> "depots", todo |-> pass[w].todo, sound |-> pass[w].sound]
  OBVIOUS
<1>4. /\ pass[w] \in [pc : {"phones"}, todo : SUBSET Depots, sound : BOOLEAN, depot : Depots,
                      due : Int, left : SUBSET Terminals]
      /\ pass[w].left = {} /\ pass[w].pc = "phones" /\ pass[w] # NotAtWork
  BY PassRecords DEF EndDepot, LockJobInv, NotAtWork
<1>5. r \in JobPasses
  BY <1>3, <1>4 DEF JobPasses
<1>6. Pass(w, r)
  BY <1>3 DEF EndDepot
<1>7. PassServes(pass[w])
  BY PassesServeEach DEF LockJobInv
<1>8. Served(pass[w].depot)
  BY <1>4, <1>7 DEF PassServes, Served
<1>9. pass[w].sound => \A e \in Depots \ pass[w].todo : Served(e)
  BY <1>4, <1>7, <1>8 DEF PassServes
<1>10. \A e : Served(e) => Served(e)'
  BY <1>1, ServedStays
<1>11. r.sound => \A e \in Depots \ r.todo : Served(e)'
  BY <1>3, <1>9, <1>10
<1>12. r.pc # "phones"
  BY <1>3
<1>13. PassServes(r)'
  BY <1>11, <1>12 DEF PassServes
<1> QED
  BY <1>1, <1>2, <1>5, <1>6, <1>13, PassAlone

LEMMA OrderLockStep ==
    ASSUME LockJobInv, NEW w \in Instances, NEW t \in Terminals, OrderLock(w, t)
    PROVE  LockJobInv'
<1> DEFINE Orders == [phone : Terminals, at : Int, until : Int]
<1>1. /\ UNCHANGED <<slotNow, home, rules, changed, outage>> /\ complete' = complete
      /\ fired' \subseteq Instances
  BY DEF OrderLock, LockJobInv, LockJobTypeOK
<1>2. leader' \in BOOLEAN
  BY DEF OrderLock, LockJobInv, LockJobTypeOK
<1>3. /\ pass[w] \in [pc : {"phones"}, todo : SUBSET Depots, sound : BOOLEAN, depot : Depots,
                      due : Int, left : SUBSET Terminals]
      /\ pass[w].pc = "phones" /\ pass[w] # NotAtWork
  BY PassRecords DEF OrderLock, LockJobInv, NotAtWork
<1>4. PICK i : i = pass[w].due
  OBVIOUS
<1>5. PICK o : o = [phone |-> t, at |-> i, until |-> slotNow + OrderTTL]
  OBVIOUS
<1>6. o \in Orders /\ o.phone = t /\ o.at = i
  BY <1>3, <1>4, <1>5, LockJobAssumption DEF LockJobInv, LockJobTypeOK
<1>7. /\ IsOrdered(t, i) => ordered' = ordered
      /\ ~IsOrdered(t, i) => ordered' = ordered \cup {o}
  BY <1>4, <1>5 DEF OrderLock, IsOrdered
<1>8. ordered \subseteq Orders /\ OneOrderByInstant
  BY DEF LockJobInv, LockJobTypeOK
<1>9. ordered \subseteq ordered' /\ ordered' \subseteq Orders
  BY <1>6, <1>7, <1>8
<1>10. OneOrderByInstant'
  <2>1. CASE IsOrdered(t, i)
    BY <1>7, <1>8, <2>1 DEF OneOrderByInstant
  <2>2. CASE ~IsOrdered(t, i)
    <3>1. \A p \in ordered : ~(p.phone = t /\ p.at = i)
      BY <2>2 DEF IsOrdered
    <3>2. ASSUME NEW p \in ordered', NEW q \in ordered', p.phone = q.phone, p.at = q.at
          PROVE  p = q
      BY <1>6, <1>7, <1>8, <2>2, <3>1, <3>2 DEF OneOrderByInstant
    <3> QED
      BY <3>2 DEF OneOrderByInstant
  <2> QED
    BY <2>1, <2>2
<1>11. IsOrdered(t, i)'
  <2>1. CASE IsOrdered(t, i)
    BY <1>7, <2>1 DEF IsOrdered
  <2>2. CASE ~IsOrdered(t, i)
    BY <1>6, <1>7, <2>2 DEF IsOrdered
  <2> QED
    BY <2>1, <2>2
<1>12. PICK r : r = [pass[w] EXCEPT !.left = @ \ {t}]
  OBVIOUS
<1>13. /\ r \in [pc : {"phones"}, todo : SUBSET Depots, sound : BOOLEAN, depot : Depots, due : Int,
                 left : SUBSET Terminals]
       /\ r.todo = pass[w].todo /\ r.sound = pass[w].sound /\ r.depot = pass[w].depot /\ r.due = i
       /\ r.left = pass[w].left \ {t} /\ r.pc = "phones"
  BY <1>3, <1>4, <1>12
<1>14. r \in JobPasses /\ Pass(w, r)
  BY <1>12, <1>13 DEF JobPasses, OrderLock
<1>15. PassServes(pass[w])
  BY PassesServeEach DEF LockJobInv
<1>16. \A e : Served(e) => Served(e)'
  BY <1>1, <1>9, ServedStays
<1>17. \A p, k : IsOrdered(p, k) => IsOrdered(p, k)'
  BY <1>9 DEF IsOrdered
<1>18. r.sound => \A e \in Depots \ r.todo : Served(e)' \/ e = r.depot
  BY <1>3, <1>13, <1>15, <1>16 DEF PassServes
<1>19. \A p \in Terminals \ r.left : home'[p] = r.depot => IsOrdered(p, r.due)'
  <2>1. \A p \in Terminals \ pass[w].left : home[p] = pass[w].depot => IsOrdered(p, i)
    BY <1>3, <1>4, <1>15 DEF PassServes
  <2>2. \A p \in Terminals \ r.left : p = t \/ p \in Terminals \ pass[w].left
    BY <1>13
  <2>3. \A p \in Terminals \ pass[w].left : home'[p] = r.depot => IsOrdered(p, i)'
    BY <1>1, <1>13, <1>17, <2>1
  <2>4. \A p \in Terminals \ r.left : home'[p] = r.depot => IsOrdered(p, i)'
    BY <1>11, <2>2, <2>3
  <2>5. r.due = i
    BY <1>13
  <2> QED
    BY <2>4, <2>5
<1>20. rules'[r.depot] # Broken /\ changed'[r.depot] < slotNow' => r.due = Due(r.depot)'
  <2>1. \A e : Due(e)' = Due(e)
    BY <1>1 DEF Due
  <2> QED
    BY <1>1, <1>3, <1>4, <1>13, <1>15, <2>1 DEF PassServes
<1>21. PassServes(r)'
  BY <1>13, <1>18, <1>19, <1>20 DEF PassServes
<1>22. PassesServe' /\ pass' \in [Instances -> JobPasses]
  BY <1>1, <1>9, <1>14, <1>21, PassMoves
<1>23. CompleteServes' /\ complete' \in BOOLEAN
  BY <1>1, <1>9, OrdersStay DEF LockJobInv, LockJobTypeOK
<1> QED
  BY <1>1, <1>2, <1>9, <1>10, <1>22, <1>23, PassStepKeeps

LEMMA EndPassStep ==
    ASSUME LockJobInv, NEW w \in Instances, EndPass(w)
    PROVE  LockJobInv'
<1>1. UNCHANGED <<slotNow, home, rules, changed, outage, ordered>> /\ fired' \subseteq Instances
  BY DEF EndPass, LockJobInv, LockJobTypeOK
<1>2. leader' \in BOOLEAN
  BY DEF EndPass, LockJobInv, LockJobTypeOK
<1>3. /\ pass[w] \in [pc : {"depots"}, todo : SUBSET Depots, sound : BOOLEAN]
      /\ pass[w] # NotAtWork /\ pass[w].pc = "depots" /\ pass[w].todo = {}
  BY PassRecords DEF EndPass, LockJobInv, NotAtWork
<1>4. PassServes(pass[w])
  BY PassesServeEach DEF LockJobInv
<1>5. pass[w].sound => \A d \in Depots : Served(d)
  BY <1>3, <1>4 DEF PassServes
<1>6. complete' = (complete \/ pass[w].sound)
  BY DEF EndPass
<1>7. complete' \in BOOLEAN
  BY <1>6
<1>8. CompleteServes'
  <2>1. \A d : Served(d) => Served(d)'
    BY <1>1, ServedStays
  <2>2. complete => \A d \in Depots : Served(d)
    BY DEF LockJobInv, CompleteServes
  <2>3. complete' => \A d \in Depots : Served(d)'
    BY <1>5, <1>6, <2>1, <2>2
  <2> QED
    BY <2>3 DEF CompleteServes
<1>9. PassServes(NotAtWork)'
  BY DEF PassServes, NotAtWork
<1>10. NotAtWork \in JobPasses /\ Pass(w, NotAtWork)
  BY DEF JobPasses, EndPass
<1>11. PICK r : r = NotAtWork
  OBVIOUS
<1>12. PassServes(r)' /\ r \in JobPasses /\ Pass(w, r)
  BY <1>9, <1>10, <1>11
<1>13. PassesServe' /\ pass' \in [Instances -> JobPasses]
  BY <1>1, <1>12, PassMoves
<1>14. OneOrderByInstant' /\ ordered' \subseteq [phone : Terminals, at : Int, until : Int]
  BY <1>1 DEF LockJobInv, LockJobTypeOK, OneOrderByInstant
<1> QED
  BY <1>1, <1>2, <1>7, <1>8, <1>13, <1>14, PassStepKeeps

\* What a changed schedule asks, it asks of the slots to come.
LEMMA ChangeScheduleStep ==
    ASSUME LockJobInv, NEW d \in Depots, NEW s \in Schedules \cup {Broken}, ChangeSchedule(d, s)
    PROVE  LockJobInv'
<1> USE DEF LockJobInv
<1>1. UNCHANGED <<slotNow, pass, leader, fired, complete, outage, ordered, home>>
  BY DEF ChangeSchedule
<1>2. /\ rules' \in [Depots -> Schedules \cup {Broken}] /\ changed' \in [Depots -> Int]
      /\ changed'[d] = slotNow
      /\ \A e \in Depots \ {d} : rules'[e] = rules[e] /\ changed'[e] = changed[e]
  BY DEF ChangeSchedule, LockJobTypeOK
<1>3. LockJobTypeOK'
  <2>1. /\ slotNow' \in 0..LastSlot /\ home' \in [Terminals -> Depots]
        /\ pass' \in [Instances -> JobPasses] /\ outage' \in 0..MaxOutage
    BY <1>1 DEF LockJobTypeOK
  <2>2. /\ fired' \subseteq Instances
        /\ ordered' \subseteq [phone : Terminals, at : Int, until : Int]
    BY <1>1 DEF LockJobTypeOK
  <2>3. leader' \in BOOLEAN /\ complete' \in BOOLEAN
    BY <1>1 DEF LockJobTypeOK
  <2> QED
    BY <1>2, <2>1, <2>2, <2>3 DEF LockJobTypeOK
<1>4. OneOrderByInstant'
  BY <1>1 DEF OneOrderByInstant
<1>5. slotNow \in Int /\ 0 <= slotNow /\ Window \in Int /\ 0 <= Window
  BY LockJobAssumption DEF LockJobTypeOK
<1>6. \A e \in Depots : Served(e) => Served(e)'
  <2>1. \A t, i : IsOrdered(t, i)' <=> IsOrdered(t, i)
    BY <1>1 DEF IsOrdered
  <2>2. Served(d)'
    BY <1>1, <1>2, <1>5 DEF Served
  <2>3. ASSUME NEW e \in Depots \ {d}, Served(e)
        PROVE  Served(e)'
    <3>1. Due(e)' = Due(e)
      BY <1>1, <1>2, <2>3 DEF Due
    <3> QED
      BY <1>1, <1>2, <2>1, <2>3, <3>1 DEF Served
  <2> QED
    BY <2>2, <2>3
<1>7. CompleteServes'
  BY <1>1, <1>6 DEF CompleteServes
<1>8. PassesServe'
  <2>1. ASSUME NEW w \in Instances, NEW p, p = pass[w]
        PROVE  PassServes(p)'
    <3>1. PassServes(p)
      BY <2>1, PassesServeEach
    <3>2. p # NotAtWork /\ p.sound =>
              \A e \in Depots \ p.todo : Served(e)' \/ (p.pc = "phones" /\ e = p.depot)
      BY <1>6, <3>1 DEF PassServes
    <3>3. p.pc = "phones" =>
             \A t \in Terminals \ p.left : home'[t] = p.depot => IsOrdered(t, p.due)'
      BY <1>1, <3>1 DEF PassServes, IsOrdered
    <3>4. ASSUME p.pc = "phones", rules'[p.depot] # Broken, changed'[p.depot] < slotNow'
          PROVE  p.due = Due(p.depot)'
      <4>1. p.depot \in Depots \ {d}
        BY <1>1, <1>2, <1>5, <2>1, <3>4, PassRecords
      <4>2. Due(p.depot)' = Due(p.depot)
        BY <1>1, <1>2, <4>1 DEF Due
      <4> QED
        BY <1>1, <1>2, <3>1, <3>4, <4>1, <4>2 DEF PassServes
    <3> QED
      BY <3>2, <3>3, <3>4 DEF PassServes
  <2>2. pass' = pass
    BY <1>1
  <2> QED
    BY <2>1, <2>2 DEF PassesServe, PassServes
<1>9. \A t, i : IsOrdered(t, i)' <=> IsOrdered(t, i)
  BY <1>1 DEF IsOrdered
<1>10. home \in [Terminals -> Depots]
  BY DEF LockJobTypeOK
<1>11. MissedIsRecent'
  <2>1. ASSUME NEW t \in Terminals, rules'[home[t]] # Broken, NEW u \in 0..slotNow, NEW i \in 0..u,
               changed'[home[t]] < u, slotNow - Window < i,
               FirstAfter(rules'[home[t]], u - Window, i)
        PROVE  IsOrdered(t, i) \/ slotNow - u <= outage
    <3>1. home[t] \in Depots \ {d}
      BY <1>2, <1>5, <1>10, <2>1
    <3> QED
      BY <1>2, <2>1, <3>1 DEF MissedIsRecent
  <2> QED
    BY <1>1, <1>9, <2>1 DEF MissedIsRecent
<1>12. ASSUME LockOrdered
       PROVE  LockOrdered'
  <2>1. ASSUME NEW t \in Terminals, rules'[home[t]] # Broken, NEW i \in 0..(slotNow - Window),
               i > changed'[home[t]] + Window, i \in LockInstants(rules'[home[t]])
        PROVE  IsOrdered(t, i)
    <3>1. home[t] \in Depots \ {d}
      BY <1>2, <1>5, <1>10, <2>1
    <3> QED
      BY <1>2, <1>12, <2>1, <3>1 DEF LockOrdered
  <2> QED
    BY <1>1, <1>9, <2>1 DEF LockOrdered
<1>13. Spaced' = Spaced
  BY DEF Spaced
<1> QED
  BY <1>3, <1>4, <1>7, <1>8, <1>11, <1>12, <1>13

\* A pass of this slot that went through every depot has ordered the first instant due.
LEMMA CompleteOrders ==
    ASSUME LockJobInv, complete, NEW t \in Terminals, rules[home[t]] # Broken,
           changed[home[t]] < slotNow, NEW i \in 0..slotNow,
           FirstAfter(rules[home[t]], slotNow - Window, i)
    PROVE  IsOrdered(t, i)
<1>1. home[t] \in Depots /\ rules[home[t]] \in Schedules /\ slotNow \in 0..LastSlot
  BY DEF LockJobInv, LockJobTypeOK
<1>2. Due(home[t]) = i
  BY <1>1, DueIsFirst DEF Due
<1>3. i # Never /\ i <= slotNow
  BY <1>1 DEF Never
<1>4. Served(home[t])
  BY <1>1 DEF LockJobInv, CompleteServes
<1> QED
  BY <1>2, <1>3, <1>4 DEF Served

\* The first instant after a slot is the first after a later one, while it is to come.
LEMMA FirstAfterLater ==
    ASSUME NEW s \in Schedules, NEW a \in Int, NEW b \in Int, NEW i \in Int, a <= b, b < i,
           FirstAfter(s, a, i)
    PROVE  FirstAfter(s, b, i)
<1>1. ASSUME NEW d \in Days, LocksOn(s, d)
      PROVE  ~(b < LockAt(s, d) /\ LockAt(s, d) < i)
  <2>1. LockAt(s, d) \in Int
    BY <1>1, LockInItsDay
  <2>2. ~(a < LockAt(s, d) /\ LockAt(s, d) < i)
    BY <1>1 DEF FirstAfter
  <2> QED
    BY <2>1, <2>2
<1>2. \E d \in Days : LocksOn(s, d) /\ LockAt(s, d) = i
  BY DEF FirstAfter
<1> QED
  BY <1>1, <1>2 DEF FirstAfter

\* Instants further apart than an outage: each is the first one after an outage before it.
LEMMA SpacedIsFirst ==
    ASSUME Spaced, NEW s \in Schedules, NEW i \in LockInstants(s)
    PROVE  i \in Int /\ FirstAfter(s, i - 1 - MaxOutage, i)
<1>1. PICK e \in Days : LocksOn(s, e) /\ LockAt(s, e) = i
  <2>1. -1..(LastSlot \div DaySlots) \subseteq Days
    <3>1. LastSlot \div DaySlots \in Int
      BY LockJobAssumption, DaySlotsAssumption
    <3> QED
      BY <3>1 DEF Days, Horizon
  <2> QED
    BY <2>1 DEF LockInstants
<1>2. i \in Int /\ MaxOutage \in Nat
  BY <1>1, LockInItsDay, LockJobAssumption
<1>3. ASSUME NEW d \in Days, LocksOn(s, d)
      PROVE  ~(i - 1 - MaxOutage < LockAt(s, d) /\ LockAt(s, d) < i)
  <2>1. LockAt(s, d) \in Int /\ d \in Int /\ e \in Int
    BY <1>1, <1>3, LockInItsDay
  <2>2. CASE d < e
    <3>1. LockAt(s, d) + MaxOutage < i
      BY <1>1, <1>3, <2>2 DEF Spaced
    <3> QED
      BY <1>2, <2>1, <3>1
  <2>3. CASE e < d
    <3>1. i < LockAt(s, d)
      BY <1>1, <1>3, <2>3, LocksInOrder
    <3> QED
      BY <1>2, <2>1, <3>1
  <2>4. CASE d = e
    BY <1>1, <1>2, <2>4
  <2> QED
    BY <2>1, <2>2, <2>3, <2>4
<1>4. i - 1 - MaxOutage < i
  BY <1>2
<1> QED
  BY <1>1, <1>2, <1>3, <1>4 DEF FirstAfter

\* The clock: a slot without a complete pass lengthens the outage, and one with a complete
\* pass has given the orders that were due in it.
LEMMA NextSlotStep ==
    ASSUME LockJobInv, NextSlot
    PROVE  LockJobInv'
<1> USE DEF LockJobInv
<1>1. /\ UNCHANGED <<rules, changed, pass, ordered, home>> /\ fired' = {}
      /\ slotNow' = slotNow + 1 /\ slotNow < LastSlot
      /\ \A w \in Instances : pass[w] = NotAtWork
  BY DEF NextSlot
<1>2. leader' = FALSE /\ complete' = FALSE
  BY DEF NextSlot
<1>3. /\ complete => outage' = 0
      /\ ~complete => outage' = outage + 1
      /\ outage' <= MaxOutage
  BY DEF NextSlot
<1>4. /\ slotNow \in Int /\ 0 <= slotNow /\ Window \in Int /\ MaxOutage \in Int /\ 0 <= MaxOutage
      /\ MaxOutage < Window /\ outage \in Int /\ 0 <= outage /\ outage <= MaxOutage /\ LastSlot \in Int
  BY LockJobAssumption DEF LockJobTypeOK
<1>5. /\ home \in [Terminals -> Depots] /\ rules \in [Depots -> Schedules \cup {Broken}]
      /\ changed \in [Depots -> Int]
  BY DEF LockJobTypeOK
<1>6. LockJobTypeOK'
  <2>1. slotNow' \in 0..LastSlot
    BY <1>1, <1>4
  <2>2. outage' \in 0..MaxOutage
    <3>1. complete \in BOOLEAN
      BY DEF LockJobTypeOK
    <3>2. CASE complete
      BY <1>3, <1>4, <3>2
    <3>3. CASE ~complete
      BY <1>3, <1>4, <3>3
    <3> QED
      BY <3>2, <3>3
  <2>3. /\ home' \in [Terminals -> Depots] /\ rules' \in [Depots -> Schedules \cup {Broken}]
        /\ changed' \in [Depots -> Int]
    BY <1>1, <1>5
  <2>4. /\ pass' \in [Instances -> JobPasses] /\ fired' \subseteq Instances
        /\ ordered' \subseteq [phone : Terminals, at : Int, until : Int]
    BY <1>1 DEF LockJobTypeOK
  <2>5. leader' \in BOOLEAN /\ complete' \in BOOLEAN
    BY <1>2
  <2> QED
    BY <2>1, <2>2, <2>3, <2>4, <2>5 DEF LockJobTypeOK
<1>7. OneOrderByInstant'
  BY <1>1 DEF OneOrderByInstant
<1>8. CompleteServes'
  BY <1>2 DEF CompleteServes
<1>9. PassesServe'
  <2>1. \A w \in Instances : pass'[w] = NotAtWork
    BY <1>1
  <2>2. NotAtWork.pc # "phones"
    BY DEF NotAtWork
  <2> QED
    BY <2>1, <2>2 DEF PassesServe, PassServes
<1>10. \A t, i : IsOrdered(t, i)' <=> IsOrdered(t, i)
  BY <1>1 DEF IsOrdered
<1>11. MissedIsRecent'
  <2>1. ASSUME NEW t \in Terminals, rules[home[t]] # Broken, NEW u \in 0..(slotNow + 1),
               NEW i \in 0..u, changed[home[t]] < u, slotNow + 1 - Window < i,
               FirstAfter(rules[home[t]], u - Window, i)
        PROVE  IsOrdered(t, i) \/ slotNow + 1 - u <= outage'
    <3>1. CASE u = slotNow + 1
      BY <1>3, <1>4, <3>1, <1>6 DEF LockJobTypeOK
    <3>2. CASE u # slotNow + 1
      <4>1. u \in 0..slotNow /\ slotNow - Window < i /\ i \in Int /\ u \in Int
        BY <1>4, <2>1, <3>2
      <4>2. IsOrdered(t, i) \/ slotNow - u <= outage
        BY <2>1, <4>1 DEF MissedIsRecent
      <4>3. CASE ~complete
        BY <1>3, <1>4, <4>1, <4>2, <4>3
      <4>4. CASE complete
        <5>1. rules[home[t]] \in Schedules /\ changed[home[t]] \in Int
          BY <1>5, <2>1
        <5>2. /\ u - Window \in Int /\ slotNow - Window \in Int /\ u - Window <= slotNow - Window
              /\ i \in 0..slotNow /\ changed[home[t]] < slotNow
          BY <1>4, <2>1, <4>1, <5>1
        <5>3. FirstAfter(rules[home[t]], slotNow - Window, i)
          BY <2>1, <4>1, <5>1, <5>2, FirstAfterLater
        <5> QED
          BY <2>1, <4>4, <5>2, <5>3, CompleteOrders
      <4> QED
        BY <4>3, <4>4
    <3> QED
      BY <3>1, <3>2
  <2> QED
    BY <1>1, <1>4, <1>10, <2>1 DEF MissedIsRecent
<1>12. ASSUME Spaced
       PROVE  LockOrdered'
  <2>1. ASSUME NEW t \in Terminals, rules[home[t]] # Broken, NEW i \in 0..(slotNow + 1 - Window),
               i > changed[home[t]] + Window, i \in LockInstants(rules[home[t]])
        PROVE  IsOrdered(t, i)
    <3>1. rules[home[t]] \in Schedules /\ changed[home[t]] \in Int /\ i \in Int
      BY <1>5, <2>1
    <3>2. CASE i <= slotNow - Window
      <4>1. i \in 0..(slotNow - Window)
        BY <1>4, <2>1, <3>2
      <4> QED
        BY <1>12, <2>1, <4>1 DEF LockOrdered
    <3>3. CASE ~(i <= slotNow - Window)
      <4>1. i = slotNow + 1 - Window
        BY <1>4, <2>1, <3>1, <3>3
      <4>2. PICK u \in Int : u = slotNow - MaxOutage
        BY <1>4
      <4>3. /\ u \in 0..slotNow /\ i \in 0..u /\ changed[home[t]] < u /\ slotNow - Window < i
            /\ u - Window = i - 1 - MaxOutage
        BY <1>4, <2>1, <3>1, <4>1, <4>2
      <4>4. FirstAfter(rules[home[t]], u - Window, i)
        BY <1>12, <2>1, <3>1, <4>3, SpacedIsFirst
      <4>5. IsOrdered(t, i) \/ slotNow - u <= outage
        BY <2>1, <4>3, <4>4 DEF MissedIsRecent
      <4>6. CASE ~complete
        <5>1. outage < MaxOutage
          BY <1>3, <1>4, <4>6
        <5> QED
          BY <1>4, <4>2, <4>5, <5>1
      <4>7. CASE complete
        <5>1. /\ u - Window \in Int /\ slotNow - Window \in Int /\ u - Window <= slotNow - Window
              /\ i \in 0..slotNow /\ changed[home[t]] < slotNow
          BY <1>4, <2>1, <3>1, <4>2, <4>3
        <5>2. FirstAfter(rules[home[t]], slotNow - Window, i)
          BY <3>1, <4>3, <4>4, <5>1, FirstAfterLater
        <5> QED
          BY <2>1, <4>7, <5>1, <5>2, CompleteOrders
      <4> QED
        BY <4>6, <4>7
    <3> QED
      BY <3>2, <3>3
  <2> QED
    BY <1>1, <1>4, <1>10, <2>1 DEF LockOrdered
<1>13. Spaced' = Spaced
  BY DEF Spaced
<1> QED
  BY <1>6, <1>7, <1>8, <1>9, <1>11, <1>12, <1>13

LEMMA OrdersKept == LockJobInv /\ [LockJobNext]_lockJobVars => LockJobInv'
<1> SUFFICES ASSUME LockJobInv, [LockJobNext]_lockJobVars PROVE LockJobInv'
  OBVIOUS
<1>1. CASE UNCHANGED lockJobVars
  BY <1>1 DEF lockJobVars, LockJobInv, LockJobTypeOK, OneOrderByInstant, PassesServe, PassServes, CompleteServes,
              MissedIsRecent, LockOrdered, Served, Due, IsOrdered, Spaced
<1>2. CASE \E d \in Depots : ShowDepot(d)
  BY <1>1, <1>2 DEF ShowDepot
<1> QED
  BY <1>1, <1>2, TriggerStep, OrderFailsStep, EndDepotStep, EndPassStep, OpenDepotStep, OrderLockStep,
     ChangeScheduleStep, NextSlotStep, Zenon DEF LockJobNext

\* Every lock instant of a schedule, when they are further apart than the slots a worker may
\* miss, gives each phone of the depot one order, whatever slots the worker misses within its
\* window, whichever depot fails and however passes overlap (lock-scheduler.job.ts); a push
\* that wakes a phone leaves with a token Google still accepts (fcm.service.ts).
THEOREM OrdersOfTheEvening == LockJobSpec /\ WakeSpec => []OrdersInv
<1>1. LockJobSpec => []LockJobInv
  BY OrdersStart, OrdersKept, PTL DEF LockJobSpec
<1>2. WakeSpec => []WakeInv
  BY WakeStarts, WakeStays, PTL DEF WakeSpec
<1>3. LockJobInv /\ WakeInv => OrdersInv
  BY DEF OrdersInv
<1> QED
  BY <1>1, <1>2, <1>3, PTL
=============================================================================
