---------------------------- MODULE CommandQueue ----------------------------
(***************************************************************************)
(* The commands of the server to one phone.  A command is a row of         *)
(* `device_commands` on the server and, once pulled, a row of              *)
(* `pending_commands` on the phone.  A SyncWorker pulls, executes what is  *)
(* pending and reports each outcome; the periodic job and the immediate    *)
(* one may run together.  A request is served in several statements, and   *)
(* goes on even when the phone no longer waits for its answer.             *)
(*                                                                         *)
(* The commands are those that lock: LOCK_DEVICE, FORCE_LOGOUT,            *)
(* REVOKE_SESSION.  The phone's session is reduced to its number           *)
(* (PhoneSession has the detail), 0 when the phone is locked.              *)
(*                                                                         *)
(* A definition commented "Mutant" is a plausible fault of the operator    *)
(* that follows it; it is used by no action.                               *)
(***************************************************************************)
EXTENDS Integers

CONSTANTS
    Commands,
    Workers,       \* SyncWorker jobs
    MaxSessions,   \* bound: sessions opened in a behaviour
    MaxTime,       \* bound of the clock
    TTL,           \* life of a command, in ticks
    Faults         \* what may go wrong, a subset of AllFaults

AllFaults ==
    {"lost",       \* a request or its answer is lost
     "late",       \* the phone gives up while the server still serves
     "cancel",     \* the job is cancelled, or its process killed
     "fail",       \* the execution throws
     "slow"}       \* time passes while an answer travels or a batch runs

ASSUME QueueAssumption ==
    /\ MaxSessions \in Nat /\ MaxTime \in Nat
    /\ TTL \in Nat \ {0}
    /\ Faults \subseteq AllFaults

VARIABLES
    now,
    status,     \* server: status of each command
    expires,    \* server and phone: expiresAt of each command
    active,     \* server: the active session of the device, or 0
    phone,      \* phone: status of each row of pending_commands
    current,    \* phone: the session in use, or 0
    opened,     \* sessions opened so far
    ran,        \* times each command was run, counted up to 2
    pc,         \* where each worker is
    batch,      \* commands the worker read and has still to run
    job,        \* commands in the worker's hand: none or one
    outcome,    \* outcome of that command
    handler,    \* where the server is with the worker's last request
    asked,      \* commands of that request or of its answer
    said        \* outcome that request reports

world == <<now, expires, opened>>
server == <<status, active>>
requests == <<handler, asked, said>>
worker == <<pc, batch, job, outcome>>
vars == <<now, status, expires, active, phone, current, opened, ran, pc,
          batch, job, outcome, handler, asked, said>>

Outcomes == {"EXECUTED", "FAILED"}
Deliverable == {"PENDING", "SENT"}

TypeOK ==
    /\ now \in 0..MaxTime
    /\ status \in [Commands -> {"none", "EXPIRED"} \cup Deliverable \cup Outcomes]
    /\ expires \in [Commands -> 0..MaxTime]
    /\ active \in 0..MaxSessions /\ current \in 0..MaxSessions
    /\ opened \in 0..MaxSessions
    /\ phone \in [Commands -> {"none", "PENDING", "ACKED", "EXPIRED"} \cup Outcomes]
    /\ ran \in [Commands -> 0..2]
    /\ pc \in [Workers -> {"idle", "pulling", "pulled", "batch", "ran",
                           "stored", "reporting"}]
    /\ batch \in [Workers -> SUBSET Commands]
    /\ job \in [Workers -> SUBSET Commands]
    /\ outcome \in [Workers -> Outcomes]
    /\ handler \in [Workers -> {"none", "expire", "find", "mark", "check",
                                "commit", "answer"}]
    /\ asked \in [Workers -> SUBSET Commands]
    /\ said \in [Workers -> Outcomes]

Init ==
    /\ now = 0
    /\ status = [c \in Commands |-> "none"]
    /\ expires = [c \in Commands |-> 0]
    /\ active = 0 /\ current = 0 /\ opened = 0
    /\ phone = [c \in Commands |-> "none"]
    /\ ran = [c \in Commands |-> 0]
    /\ pc = [w \in Workers |-> "idle"]
    /\ batch = [w \in Workers |-> {}]
    /\ job = [w \in Workers |-> {}]
    /\ outcome = [w \in Workers |-> "FAILED"]
    /\ handler = [w \in Workers |-> "none"]
    /\ asked = [w \in Workers |-> {}]
    /\ said = [w \in Workers |-> "FAILED"]

Goto(w, point) == pc' = [pc EXCEPT ![w] = point]
Serve(w, point) == handler' = [handler EXCEPT ![w] = point]

\* Every command of a set is given a status.
Becomes(table, S, s) == [c \in Commands |-> IF c \in S THEN s ELSE table[c]]

-----------------------------------------------------------------------------
(* The server: commands.service.ts and maintenance.job.ts *)

\* A key already used by the device returns the command it created.  Bound:
\* the command has the time to expire before the clock stops.
Enqueue(c) ==
    /\ status[c] = "none" /\ now + TTL < MaxTime
    /\ status' = [status EXCEPT ![c] = "PENDING"]
    /\ expires' = [expires EXCEPT ![c] = now + TTL]
    /\ UNCHANGED <<now, opened, active, phone, current, ran, worker, requests>>

Overdue == {c \in Commands : status[c] \in Deliverable /\ expires[c] < now}

\* Mutant: a command that was sent once no longer expires.
MaintenanceExpiresPending ==
    /\ status' = Becomes(status, {c \in Overdue : status[c] = "PENDING"}, "EXPIRED")
    /\ UNCHANGED <<world, active, phone, current, ran, worker, requests>>

MaintenanceExpires ==
    /\ status' = Becomes(status, Overdue, "EXPIRED")
    /\ UNCHANGED <<world, active, phone, current, ran, worker, requests>>

\* pullPending, first statement;
PullExpire(w) ==
    /\ handler[w] = "expire"
    /\ status' = Becomes(status, Overdue, "EXPIRED")
    /\ Serve(w, "find")
    /\ UNCHANGED <<world, active, phone, current, ran, worker, asked, said>>

\* Mutant: what failed is delivered again.
PullFindFailed(w) ==
    /\ handler[w] = "find"
    /\ LET due == {c \in Commands : status[c] \in Deliverable \cup {"FAILED"}
                                      /\ expires[c] >= now}
       IN  /\ asked' = [asked EXCEPT ![w] = due]
           /\ Serve(w, IF due = {} THEN "answer" ELSE "mark")
    /\ UNCHANGED <<world, server, phone, current, ran, worker, said>>

\* second statement;
PullFind(w) ==
    /\ handler[w] = "find"
    /\ LET due == {c \in Commands : status[c] \in Deliverable /\ expires[c] >= now}
       IN  /\ asked' = [asked EXCEPT ![w] = due]
           /\ Serve(w, IF due = {} THEN "answer" ELSE "mark")
    /\ UNCHANGED <<world, server, phone, current, ran, worker, said>>

\* third statement, which does not look at the status it overwrites.
PullMark(w) ==
    /\ handler[w] = "mark"
    /\ status' = Becomes(status, asked[w], "SENT")
    /\ Serve(w, "answer")
    /\ UNCHANGED <<world, active, phone, current, ran, worker, asked, said>>

\* reportResult reads the command: one that was executed is not looked at
\* again.
ReportCheck(w) ==
    /\ handler[w] = "check"
    /\ Serve(w, IF \E c \in asked[w] : status[c] = "EXECUTED"
                THEN "answer" ELSE "commit")
    /\ UNCHANGED <<world, server, phone, current, ran, worker, asked, said>>

\* Mutant: the outcome is not looked at.
ReportCommitAlways(w) ==
    /\ handler[w] = "commit"
    /\ status' = Becomes(status, asked[w], "EXECUTED")
    /\ active' = 0
    /\ Serve(w, "answer")
    /\ UNCHANGED <<world, phone, current, ran, worker, asked, said>>

\* Its transaction: the outcome, and the end of every active session of the
\* device when a lock was executed.
ReportCommit(w) ==
    /\ handler[w] = "commit"
    /\ status' = Becomes(status, asked[w], said[w])
    /\ active' = IF said[w] = "EXECUTED" THEN 0 ELSE active
    /\ Serve(w, "answer")
    /\ UNCHANGED <<world, phone, current, ran, worker, asked, said>>

\* Nobody waits for the answer any more.
AnswerNobody(w) ==
    /\ handler[w] = "answer" /\ pc[w] \notin {"pulling", "reporting"}
    /\ Serve(w, "none")
    /\ UNCHANGED <<world, server, phone, current, ran, worker, asked, said>>

-----------------------------------------------------------------------------
(* The phone: SyncEngine.kt and CommandDao *)

\* A badge opens a session, here and on the server.
OpenSession ==
    /\ current = 0 /\ opened < MaxSessions
    /\ opened' = opened + 1
    /\ current' = opened + 1
    /\ active' = opened + 1
    /\ UNCHANGED <<now, expires, status, phone, ran, worker, requests>>

Pull(w) ==
    /\ pc[w] = "idle" /\ handler[w] = "none"
    /\ Goto(w, "pulling")
    /\ Serve(w, "expire")
    /\ UNCHANGED <<world, server, phone, current, ran, batch, job, outcome,
                   asked, said>>

\* Mutant: insertAll replaces the rows that exist.
ReceiveReplaces(w) ==
    /\ pc[w] = "pulling" /\ handler[w] = "answer"
    /\ phone' = Becomes(phone, asked[w], "PENDING")
    /\ Goto(w, "pulled")
    /\ Serve(w, "none")
    /\ UNCHANGED <<world, server, current, ran, batch, job, outcome, asked, said>>

\* commands.insertAll: a row that exists is left as it is.
Receive(w) ==
    /\ pc[w] = "pulling" /\ handler[w] = "answer"
    /\ phone' = Becomes(phone, {c \in asked[w] : phone[c] = "none"}, "PENDING")
    /\ Goto(w, "pulled")
    /\ Serve(w, "none")
    /\ UNCHANGED <<world, server, current, ran, batch, job, outcome, asked, said>>

\* The request ends without an answer: the request or the answer was lost, or
\* the phone has waited too long and the server goes on.
Unanswered(w) ==
    \/ /\ "lost" \in Faults /\ handler[w] \in {"expire", "check", "answer"}
       /\ Serve(w, "none")
    \/ /\ "late" \in Faults
       /\ UNCHANGED handler

\* synchronize catches the error, and executeCommands runs all the same.
PullFails(w) ==
    /\ pc[w] = "pulling"
    /\ Unanswered(w)
    /\ Goto(w, "pulled")
    /\ UNCHANGED <<world, server, phone, current, ran, batch, job, outcome,
                   asked, said>>

\* Mutant: the rows that are overdue are not set apart.
StartBatchAll(w) ==
    /\ pc[w] = "pulled"
    /\ batch' = [batch EXCEPT ![w] = {c \in Commands : phone[c] = "PENDING"}]
    /\ Goto(w, "batch")
    /\ UNCHANGED <<world, server, phone, current, ran, job, outcome, requests>>

\* expireOverdue, then the list of the pending rows.
StartBatch(w) ==
    /\ pc[w] = "pulled"
    /\ LET pending == {c \in Commands : phone[c] = "PENDING"}
           overdue == {c \in pending : expires[c] < now}
       IN  /\ phone' = Becomes(phone, overdue, "EXPIRED")
           /\ batch' = [batch EXCEPT ![w] = pending \ overdue]
    /\ Goto(w, "batch")
    /\ UNCHANGED <<world, server, current, ran, job, outcome, requests>>

Take(w, c, result) ==
    /\ pc[w] = "batch" /\ c \in batch[w]
    /\ batch' = [batch EXCEPT ![w] = @ \ {c}]
    /\ job' = [job EXCEPT ![w] = {c}]
    /\ outcome' = [outcome EXCEPT ![w] = result]
    /\ Goto(w, "ran")

\* onLock, whatever the row has become since the list was read.
Execute(w, c) ==
    /\ Take(w, c, "EXECUTED")
    /\ current' = 0
    /\ ran' = [ran EXCEPT ![c] = IF @ = 2 THEN 2 ELSE @ + 1]
    /\ UNCHANGED <<world, server, phone, requests>>

ExecuteFails(w, c) ==
    /\ "fail" \in Faults
    /\ Take(w, c, "FAILED")
    /\ UNCHANGED <<world, server, phone, current, ran, requests>>

\* updateStatus changes the row if it is still there.
Update(w, s) ==
    phone' = Becomes(phone, {c \in job[w] : phone[c] # "none"}, s)

StoreOutcome(w) ==
    /\ pc[w] = "ran"
    /\ Update(w, outcome[w])
    /\ Goto(w, "stored")
    /\ UNCHANGED <<world, server, current, ran, batch, job, outcome, requests>>

Report(w) ==
    /\ pc[w] = "stored" /\ handler[w] = "none"
    /\ asked' = [asked EXCEPT ![w] = job[w]]
    /\ said' = [said EXCEPT ![w] = outcome[w]]
    /\ Serve(w, "check")
    /\ Goto(w, "reporting")
    /\ UNCHANGED <<world, server, phone, current, ran, batch, job, outcome>>

NextJob(w) ==
    /\ job' = [job EXCEPT ![w] = {}]
    /\ Goto(w, "batch")

Acked(w) ==
    /\ pc[w] = "reporting" /\ handler[w] = "answer"
    /\ Update(w, "ACKED")
    /\ NextJob(w)
    /\ Serve(w, "none")
    /\ UNCHANGED <<world, server, current, ran, batch, outcome, asked, said>>

\* The row stays EXECUTED or FAILED.
ReportFails(w) ==
    /\ pc[w] = "reporting"
    /\ Unanswered(w)
    /\ NextJob(w)
    /\ UNCHANGED <<world, server, phone, current, ran, batch, outcome, asked, said>>

\* purgeAcked.
EndBatch(w) ==
    /\ pc[w] = "batch" /\ batch[w] = {}
    /\ phone' = [c \in Commands |-> IF phone[c] = "ACKED" THEN "none" ELSE phone[c]]
    /\ Goto(w, "idle")
    /\ UNCHANGED <<world, server, current, ran, batch, job, outcome, requests>>

\* syncNow replaces the immediate job; Android may also kill the process.
Cancel(w) ==
    /\ "cancel" \in Faults /\ pc[w] # "idle"
    /\ batch' = [batch EXCEPT ![w] = {}]
    /\ job' = [job EXCEPT ![w] = {}]
    /\ Goto(w, "idle")
    /\ UNCHANGED <<world, server, phone, current, ran, outcome, requests>>

-----------------------------------------------------------------------------

\* A request is served within one tick; its answer arrives and the batch is
\* executed within the same tick unless "slow".
Tick ==
    /\ now < MaxTime
    /\ \A w \in Workers :
           \/ handler[w] = "none" /\ pc[w] = "idle"
           \/ handler[w] \in {"none", "answer"} /\ "slow" \in Faults
    /\ now' = now + 1
    /\ UNCHANGED <<expires, opened, server, phone, current, ran, worker, requests>>

ServerStep(w) ==
    \/ PullExpire(w) \/ PullFind(w) \/ PullMark(w)
    \/ ReportCheck(w) \/ ReportCommit(w) \/ AnswerNobody(w)

WorkerStep(w) ==
    \/ Pull(w) \/ Receive(w) \/ PullFails(w) \/ StartBatch(w)
    \/ \E c \in Commands : Execute(w, c) \/ ExecuteFails(w, c)
    \/ StoreOutcome(w) \/ Report(w) \/ Acked(w) \/ ReportFails(w)
    \/ EndBatch(w) \/ Cancel(w)

Next ==
    \/ \E c \in Commands : Enqueue(c)
    \/ MaintenanceExpires \/ OpenSession \/ Tick
    \/ \E w \in Workers : ServerStep(w) \/ WorkerStep(w)

Spec == Init /\ [][Next]_vars

\* The server serves and cleans.
HandlerFairness ==
    WF_vars(MaintenanceExpires) /\ \A w \in Workers : WF_vars(ServerStep(w))

\* And time passes; the workers owe nothing: the phone may be off for ever.
ServerFairness == HandlerFairness /\ SF_vars(Tick)

\* The phone is on: its workers go on, and answers do not get lost for ever.
PhoneFairness ==
    \A w \in Workers :
        /\ WF_vars(Pull(w) \/ StartBatch(w) \/ StoreOutcome(w) \/ Report(w)
                   \/ EndBatch(w))
        /\ WF_vars(\E c \in Commands : Execute(w, c))
        /\ SF_vars(Receive(w)) /\ SF_vars(Acked(w))

ServerFairSpec == Spec /\ ServerFairness
FairSpec == Spec /\ ServerFairness /\ PhoneFairness

-----------------------------------------------------------------------------
(* Properties *)

\* Whatever is lost, cancelled or fails, the server shows a command as
\* executed only if the phone has run it.
ExecutedWasRun == \A c \in Commands : status[c] = "EXECUTED" => ran[c] > 0

\* A worker that is about to report an execution, and a request that reports
\* one, are about a command that was run.
CarriedWasRun ==
    \A w \in Workers :
        /\ pc[w] \in {"ran", "stored", "reporting"} /\ outcome[w] = "EXECUTED"
              => \A c \in job[w] : ran[c] > 0
        /\ handler[w] \in {"check", "commit"} /\ said[w] = "EXECUTED"
              => \A c \in asked[w] : ran[c] > 0

\* The phone only knows commands the server has created.
OnlyCreated ==
    LET created == {c \in Commands : status[c] # "none"}
    IN  /\ \A c \in Commands : phone[c] # "none" => c \in created
        /\ \A w \in Workers : asked[w] \cup batch[w] \cup job[w] \subseteq created

\* What a worker has still to run is not overdue, unless the batch is slow.
BatchInTime ==
    \A w \in Workers :
        /\ pc[w] = "idle" => batch[w] = {}
        /\ "slow" \notin Faults => \A c \in batch[w] : now <= expires[c]

\* The inductive invariant: an execution is only ever said of a command that
\* was run (by the worker, on the wire and in the server's table), and a batch
\* holds created commands that are not overdue.
Inv == TypeOK /\ ExecutedWasRun /\ CarriedWasRun /\ OnlyCreated /\ BatchInTime

OverdueNotRun == \A c \in Commands : ran'[c] > ran[c] => now <= expires[c]

\* A command that waited too long in the phone's queue, after a job that was
\* cancelled for instance, is not run.
NeverRunExpired == [][OverdueNotRun]_vars

\* One worker runs a command at most once, although the command is delivered
\* again as long as its outcome is not known to the server.
RunOnce == \A c \in Commands : ran[c] <= 1

\* Where a worker is says what it holds, and what its request is about.
PointsAgree ==
    \A w \in Workers :
        /\ handler[w] \in {"expire", "find", "mark"} => pc[w] = "pulling"
        /\ handler[w] \in {"check", "commit"} => pc[w] = "reporting"
        /\ handler[w] = "answer" => pc[w] \in {"pulling", "reporting"}
        /\ pc[w] = "reporting" => /\ handler[w] \in {"check", "commit", "answer"}
                                  /\ asked[w] = job[w] /\ said[w] = outcome[w]
        /\ pc[w] \notin {"ran", "stored", "reporting"} => job[w] = {}
        /\ pc[w] \in {"idle", "pulling", "pulled"} => batch[w] = {}
        /\ \A c, d \in job[w] : c = d
        /\ batch[w] \cap job[w] = {}

\* A pending row of the phone is not settled, nor run, but for the one in hand;
\* a row is purged only when the server knows its outcome.
RowsAgree ==
    \A c \in Commands :
        /\ phone[c] = "PENDING" =>
              /\ status[c] \notin Outcomes
              /\ ran[c] = 0 \/ \E w \in Workers : pc[w] = "ran" /\ c \in job[w]
        /\ phone[c] = "none" /\ ran[c] > 0 => status[c] = "EXECUTED"
        /\ phone[c] = "ACKED" =>
              status[c] \in Outcomes /\ (status[c] = "EXECUTED" <=> ran[c] > 0)

\* What a worker has still to run was not run; what it has run is not settled
\* before its report; what a pull brings is not settled.
HandsAgree ==
    \A w \in Workers :
        /\ \A c \in batch[w] : phone[c] = "PENDING" /\ ran[c] = 0
        /\ \A c \in job[w] :
              /\ outcome[w] = "EXECUTED" <=> ran[c] > 0
              /\ pc[w] = "ran" => phone[c] = "PENDING"
              /\ pc[w] \in {"stored", "reporting"} => phone[c] = outcome[w]
              /\ pc[w] = "stored" \/ handler[w] \in {"check", "commit"} =>
                    status[c] \notin Outcomes
              /\ pc[w] = "reporting" /\ handler[w] = "answer" => status[c] = outcome[w]
        /\ \A c \in asked[w] :
              /\ handler[w] = "mark" => status[c] \in Deliverable /\ now <= expires[c]
              /\ pc[w] = "pulling" /\ handler[w] = "answer" => status[c] \notin Outcomes

\* The inductive invariant of one worker that is not cancelled and waits for its
\* answers: from the delivery to the purge, a command is run once and settled once.
OnceInv == RunOnce /\ PointsAgree /\ RowsAgree /\ HandsAgree

\* The promise, with the dashboard's reading of a status.
Shown(s) == CASE s = "none" -> "none"
              [] s \in Deliverable -> "waiting"
              [] s = "EXECUTED" -> "done"
              [] s = "FAILED" -> "failed"
              [] s = "EXPIRED" -> "expired"

Promise == INSTANCE CommandPromise WITH
               outcome <- [c \in Commands |-> Shown(status[c])],
               run <- {c \in Commands : ran[c] > 0}

\* One worker keeps the promise of CommandPromise: the outcome shown to the
\* administrator is true, and final once it is EXECUTED or FAILED.
PromiseKept == Promise!Spec

\* Every command is settled: executed, failed or expired, even if the phone
\* never comes back.
EverySettled ==
    \A c \in Commands :
        status[c] = "PENDING" ~> status[c] \in Outcomes \cup {"EXPIRED"}

-----------------------------------------------------------------------------
(* Expected of the code, and not held by it: README.md tells which constants   *)
(* show it.                                                                    *)

\* A command the phone executed is reported again until the server knows.
ExecutedIsReported ==
    \A c \in Commands : phone[c] = "EXECUTED" ~> status[c] = "EXECUTED"

\* Running a command a second time has no effect.
ReplayHarmless ==
    [][\A w \in Workers, c \in Commands :
           Execute(w, c) /\ ran[c] > 0 => current = 0]_vars

\* The server takes the device for locked only while the phone is.
ServerLockIsTrue == [][active # 0 /\ active' = 0 => current = 0]_vars

=============================================================================
