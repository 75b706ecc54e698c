--------------------------- MODULE CommandPromise ---------------------------
(***************************************************************************)
(* What the queue of commands promises to the administrator: a command is  *)
(* run at most once, and the outcome he reads is final and true.           *)
(***************************************************************************)
CONSTANT Commands

VARIABLES
    outcome,   \* what the dashboard shows of each command
    run        \* the commands the phone has run

vars == <<outcome, run>>

Init ==
    /\ outcome = [c \in Commands |-> "none"]
    /\ run = {}

Issue(c) ==
    /\ outcome[c] = "none"
    /\ outcome' = [outcome EXCEPT ![c] = "waiting"]
    /\ UNCHANGED run

\* The phone may already have the command when the server gives it up.
Run(c) ==
    /\ outcome[c] \in {"waiting", "expired"} /\ c \notin run
    /\ run' = run \cup {c}
    /\ UNCHANGED outcome

Settle(c, result) ==
    /\ outcome[c] \in {"waiting", "expired"}
    /\ (result = "done") <=> (c \in run)
    /\ outcome' = [outcome EXCEPT ![c] = result]
    /\ UNCHANGED run

Expire(S) ==
    /\ \A c \in S : outcome[c] = "waiting"
    /\ outcome' = [c \in Commands |-> IF c \in S THEN "expired" ELSE outcome[c]]
    /\ UNCHANGED run

Next ==
    \/ \E c \in Commands :
           Issue(c) \/ Run(c) \/ Settle(c, "done") \/ Settle(c, "failed")
    \/ \E S \in SUBSET Commands : Expire(S)

Spec == Init /\ [][Next]_vars

=============================================================================
