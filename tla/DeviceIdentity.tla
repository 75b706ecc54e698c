--------------------------- MODULE DeviceIdentity ---------------------------
(***************************************************************************)
(* How a phone gets and keeps its identity: the enrolment token an         *)
(* administrator creates, the credentials the server rotates in families,  *)
(* the calls of the phone and the one rotation they share.  Requests on    *)
(* the server overlap; an answer is lost when the phone has given up       *)
(* waiting.                                                                *)
(***************************************************************************)
EXTENDS Integers, FiniteSets

CONSTANTS
    Tickets,        \* enrolment tokens
    Creds,          \* rows of `device_credentials`
    Calls,          \* calls the phone makes at once
    Requests,       \* enrolments and rotations the server handles at once
    Troubles        \* the faults of a behaviour: sets of "late", "lost", "kill", "age", "gateway"

VARIABLES
    enrolment,  \* devices.enrollmentStatus of the phone
    ticket,     \* rows of `enrollment_tokens`
    cred,       \* rows of `device_credentials`
    outdated,   \* credentials whose access token has run out
    request,    \* the requests on the server
    unit,       \* the tokens the phone has stored
    call,       \* the calls of the phone
    excuse,     \* history: what may cost the phone its credentials
    enrolled,   \* history: what became of each enrolment token
    trouble     \* the faults of this behaviour

identityVars ==
    <<enrolment, ticket, cred, outdated, request, unit, call, excuse, enrolled,
      trouble>>

None == "none"
NoCred == [family |-> None]
Quiet == [pc |-> "idle"]
Stranger == [access |-> None, refresh |-> None]
Screen == "screen"      \* the enrolment screen, the other caller
Askers == Calls \cup {Screen, None}
CredRow == [family : Creds, used : BOOLEAN, revoked : BOOLEAN, aged : BOOLEAN]

\* A caller of the phone is told from its screen and from nobody, and a credential is
\* one.
ASSUME IdentityAssumption == Calls \cap {Screen, None} = {} /\ None \notin Creds

\* What a request carries, from one of its statements to the next.
Handling ==
         [pc : {"check", "enrol"}, by : Askers, ticket : Tickets]
    \cup [pc : {"read", "revoke", "use"}, by : Askers, cred : Creds]
    \cup [pc : {"issue"}, by : Askers, family : Creds \cup {None}]
    \cup [pc : {"answer"}, by : Askers, result : Creds \cup {None}]

IdentityTypeOK ==
    /\ enrolment \in {"PENDING", "ENROLLED", "REVOKED"}
    /\ ticket \in [Tickets -> {None, "unused", "used", "expired"}]
    /\ cred \in [Creds -> {NoCred} \cup CredRow]
    /\ outdated \subseteq Creds
    /\ request \in [Requests -> {Quiet} \cup Handling]
    /\ unit \in [access : Creds \cup {None}, refresh : Creds \cup {None}]
    /\ call \in [Calls -> {Quiet} \cup [pc : {"sent", "denied", "refreshing"}, token : Creds]
                    \cup [pc : {"storing"}, token : Creds, fresh : Creds]]
    /\ excuse \subseteq {"new", "revoked", "unanswered", "killed", "aged", "gateway"}
    /\ enrolled \in [Tickets -> [times : Nat, overlap : BOOLEAN]]

IdentityInit ==
    /\ enrolment = "PENDING"
    /\ ticket = [t \in Tickets |-> None]
    /\ cred = [c \in Creds |-> NoCred]
    /\ outdated = {}
    /\ request = [q \in Requests |-> Quiet]
    /\ unit = Stranger
    /\ call = [k \in Calls |-> Quiet]
    /\ excuse = {"new"} /\ enrolled = [t \in Tickets |-> [times |-> 0, overlap |-> FALSE]]
    /\ trouble \in Troubles

Request(q, r) == request' = [request EXCEPT ![q] = r]
Calling(k, c) == call' = [call EXCEPT ![k] = c]
InFamily(f) == {c \in Creds : cred[c].family = f}
Fresh == {c \in Creds : cred[c] = NoCred}
Spare(q) == request[q] = Quiet /\ q = CHOOSE p \in Requests : request[p] = Quiet
Live(c) == cred[c] # NoCred /\ ~cred[c].used /\ ~cred[c].revoked
Accepted(c) == Live(c) /\ ~cred[c].aged
OwnFamily == cred[unit.refresh].family
Enrolling(q, t) == request[q].pc \in {"check", "enrol"} /\ request[q].ticket = t
Rotation == {"refreshing", "storing"}

-----------------------------------------------------------------------------
(* Administrators: devices.controller.ts *)

CreateTicket(t) ==
    /\ ticket[t] = None
    /\ ticket' = [ticket EXCEPT ![t] = "unused"]
    /\ UNCHANGED <<enrolment, cred, outdated, request, unit, call, excuse, enrolled>>

\* revokeDevice: the status and the credentials, in one transaction.
RevokeDevice ==
    /\ enrolment # "REVOKED"
    /\ enrolment' = "REVOKED"
    /\ cred' = [c \in Creds |-> IF cred[c] # NoCred THEN [cred[c] EXCEPT !.revoked = TRUE] ELSE cred[c]]
    /\ excuse' = excuse \cup {"revoked"}
    /\ UNCHANGED <<ticket, outdated, request, unit, call, enrolled>>

-----------------------------------------------------------------------------
(* The server: enrollment.service.ts, device-token.service.ts *)

\* enroll: the token is looked up,
CheckTicket(q) ==
    /\ request[q].pc = "check"
    /\ Request(q, IF ticket[request[q].ticket] = "unused"
                  THEN [request[q] EXCEPT !.pc = "enrol"]
                  ELSE [pc |-> "answer", by |-> request[q].by, result |-> None])
    /\ UNCHANGED <<enrolment, ticket, cred, outdated, unit, call, excuse, enrolled>>

\* then, in one transaction, the phone is enrolled and the token marked as used.
Enrol(q) ==
    /\ request[q].pc = "enrol"
    /\ enrolment' = "ENROLLED"
    /\ ticket' = [ticket EXCEPT ![request[q].ticket] = "used"]
    /\ enrolled' = [enrolled EXCEPT ![request[q].ticket].times = @ + 1]
    /\ Request(q, [pc |-> "issue", by |-> request[q].by, family |-> None])
    /\ UNCHANGED <<cred, outdated, unit, call, excuse>>

\* refresh: the credential and its device are read.  One already used or revoked
\* makes the request revoke its family.
ReadCred(q) ==
    /\ request[q].pc = "read"
    /\ LET r == request[q]
           c == cred[r.cred]
       IN  Request(q, IF c.used \/ c.revoked THEN [r EXCEPT !.pc = "revoke"]
                      ELSE IF c.aged \/ enrolment # "ENROLLED"
                      THEN [pc |-> "answer", by |-> r.by, result |-> None]
                      ELSE [r EXCEPT !.pc = "use"])
    /\ UNCHANGED <<enrolment, ticket, cred, outdated, unit, call, excuse, enrolled>>

RevokeFamily(q) ==
    /\ request[q].pc = "revoke"
    /\ LET f == cred[request[q].cred].family
       IN  cred' = [c \in Creds |-> IF c \in InFamily(f) THEN [cred[c] EXCEPT !.revoked = TRUE]
                                    ELSE cred[c]]
    /\ Request(q, [pc |-> "answer", by |-> request[q].by, result |-> None])
    /\ UNCHANGED <<enrolment, ticket, outdated, unit, call, excuse, enrolled>>

\* usedAt is written whatever it has become meanwhile.
UseCred(q) ==
    /\ request[q].pc = "use"
    /\ LET c == request[q].cred
       IN  /\ cred' = [cred EXCEPT ![c].used = TRUE]
           /\ Request(q, [pc |-> "issue", by |-> request[q].by, family |-> cred[c].family])
    /\ UNCHANGED <<enrolment, ticket, outdated, unit, call, excuse, enrolled>>

\* issue: an access token and a credential, in a family of its own after an
\* enrolment.  Bound: Creds.
Issue(q) ==
    /\ request[q].pc = "issue"
    /\ Fresh # {}
    /\ LET c == CHOOSE c \in Fresh : TRUE
       IN  /\ cred' = [cred EXCEPT ![c] =
                  [family |-> IF request[q].family = None THEN c ELSE request[q].family,
                   used |-> FALSE, revoked |-> FALSE, aged |-> FALSE]]
           /\ Request(q, [pc |-> "answer", by |-> request[q].by, result |-> c])
    /\ UNCHANGED <<enrolment, ticket, outdated, unit, call, excuse, enrolled>>

-----------------------------------------------------------------------------
(* The phone: DeviceAuthInterceptor.kt, EnrollmentManager.kt *)

\* An enrolment with this token is on the server still.
UnderWay(t) == \E q \in Requests : Enrolling(q, t)

\* The enrolment screen is shown to a phone that holds no tokens; one attempt at a time.
StartEnrolment(t, q) ==
    /\ unit.access = None /\ ticket[t] # None
    /\ \A p \in Requests : request[p] # Quiet => request[p].by # Screen
    /\ Spare(q)
    /\ Request(q, [pc |-> "check", by |-> Screen, ticket |-> t])
    /\ enrolled' = [enrolled EXCEPT ![t].overlap = @ \/ UnderWay(t)]
    /\ UNCHANGED <<enrolment, ticket, cred, outdated, unit, call, excuse>>

EndEnrolment(q) ==
    /\ request[q].pc = "answer" /\ request[q].by = Screen
    /\ IF request[q].result = None THEN UNCHANGED <<unit, excuse>>
       ELSE LET c == request[q].result
            IN  /\ unit' = [access |-> c, refresh |-> c]
                /\ excuse' = (IF cred[c].revoked \/ enrolment # "ENROLLED" THEN {"revoked"} ELSE {})
                             \cup (IF cred[c].aged THEN {"aged"} ELSE {})
    /\ Request(q, Quiet)
    /\ UNCHANGED <<enrolment, ticket, cred, outdated, call, enrolled>>

StartCall(k) ==
    /\ call[k] = Quiet /\ unit.access # None
    /\ Calling(k, [pc |-> "sent", token |-> unit.access])
    /\ UNCHANGED <<enrolment, ticket, cred, outdated, request, unit, excuse, enrolled>>

\* authenticateDevice reads the phone at every call.
Guard(k) ==
    /\ call[k].pc = "sent"
    /\ LET a == call[k].token
       IN  Calling(k, IF a \notin outdated /\ enrolment = "ENROLLED" THEN Quiet
                      ELSE [call[k] EXCEPT !.pc = "denied"])
    /\ UNCHANGED <<enrolment, ticket, cred, outdated, request, unit, excuse, enrolled>>

Rotating == \E j \in Calls : call[j].pc \in Rotation

\* Mutant: the calls that were denied rotate the token each on their own.
RefreshUnlocked(k, q) ==
    /\ call[k].pc = "denied" /\ Spare(q)
    /\ IF unit.refresh = None
       THEN Calling(k, Quiet) /\ UNCHANGED request
       ELSE /\ Calling(k, [call[k] EXCEPT !.pc = "refreshing"])
            /\ Request(q, [pc |-> "read", by |-> k, cred |-> unit.refresh])
    /\ UNCHANGED <<enrolment, ticket, cred, outdated, unit, excuse, enrolled>>

\* Under the lock: another call has stored a new token, or this one asks for it.
\* The call is then made again, once.
Refresh(k, q) ==
    /\ call[k].pc = "denied" /\ ~Rotating /\ Spare(q)
    /\ IF unit.refresh = None \/ unit.access \notin {None, call[k].token}
       THEN Calling(k, Quiet) /\ UNCHANGED request
       ELSE /\ Calling(k, [call[k] EXCEPT !.pc = "refreshing"])
            /\ Request(q, [pc |-> "read", by |-> k, cred |-> unit.refresh])
    /\ UNCHANGED <<enrolment, ticket, cred, outdated, unit, excuse, enrolled>>

\* An answer that is not a success erases the credentials.
Refused(k, q) ==
    /\ request[q].pc = "answer" /\ request[q].by = k /\ request[q].result = None
    /\ unit' = Stranger
    /\ Calling(k, Quiet) /\ Request(q, Quiet)
    /\ UNCHANGED <<enrolment, ticket, cred, outdated, excuse, enrolled>>

\* The tokens are stored one after the other.
StoreAccess(k, q) ==
    /\ request[q].pc = "answer" /\ request[q].by = k /\ request[q].result # None
    /\ unit' = [unit EXCEPT !.access = request[q].result]
    /\ Calling(k, [pc |-> "storing", token |-> call[k].token, fresh |-> request[q].result])
    /\ Request(q, Quiet)
    /\ UNCHANGED <<enrolment, ticket, cred, outdated, excuse, enrolled>>

StoreRefresh(k) ==
    /\ call[k].pc = "storing"
    /\ unit' = [unit EXCEPT !.refresh = call[k].fresh]
    /\ Calling(k, Quiet)
    /\ UNCHANGED <<enrolment, ticket, cred, outdated, request, excuse, enrolled>>

-----------------------------------------------------------------------------
(* Faults *)

\* The phone gives up waiting: the credentials stay, the request goes on.
GiveUp(q) ==
    /\ "late" \in trouble
    /\ request[q] # Quiet /\ request[q].by # None
    /\ Request(q, [request[q] EXCEPT !.by = None])
    /\ IF request[q].by \in Calls THEN Calling(request[q].by, Quiet) ELSE UNCHANGED call
    /\ excuse' = excuse \cup {"unanswered"}
    /\ UNCHANGED <<enrolment, ticket, cred, outdated, unit, enrolled>>

\* The answer nobody waits for.
DropAnswer(q) ==
    /\ request[q].pc = "answer" /\ request[q].by = None
    /\ Request(q, Quiet)
    /\ UNCHANGED <<enrolment, ticket, cred, outdated, unit, call, excuse, enrolled>>

\* The request is lost on its way: an exception, nothing done.
LoseRequest(q) ==
    /\ "lost" \in trouble
    /\ request[q].pc \in {"check", "read"} /\ request[q].by # None
    /\ Request(q, Quiet)
    /\ IF request[q].by \in Calls THEN Calling(request[q].by, Quiet) ELSE UNCHANGED call
    /\ UNCHANGED <<enrolment, ticket, cred, outdated, unit, excuse, enrolled>>

\* What stands before the API answers in its place (502, 503, 530, 429).
GatewayAnswers(q) ==
    /\ "gateway" \in trouble
    /\ request[q].pc \in {"check", "read"} /\ request[q].by # None
    /\ Request(q, [pc |-> "answer", by |-> request[q].by, result |-> None])
    /\ excuse' = excuse \cup {"gateway"}
    /\ UNCHANGED <<enrolment, ticket, cred, outdated, unit, call, enrolled>>

\* The process of the phone dies.
KillUnit ==
    /\ "kill" \in trouble
    /\ Rotating
    /\ call' = [k \in Calls |-> Quiet]
    /\ request' = [q \in Requests |-> IF request[q] = Quiet THEN Quiet
                                      ELSE [request[q] EXCEPT !.by = None]]
    /\ excuse' = excuse \cup {"killed"}
    /\ UNCHANGED <<enrolment, ticket, cred, outdated, unit, enrolled>>

\* Bound: the tokens the phone holds.
AccessExpires(c) ==
    /\ c = unit.access /\ c \notin outdated
    /\ outdated' = outdated \cup {c}
    /\ UNCHANGED <<enrolment, ticket, cred, request, unit, call, excuse, enrolled>>

TicketExpires(t) ==
    /\ "age" \in trouble /\ ticket[t] = "unused"
    /\ ticket' = [ticket EXCEPT ![t] = "expired"]
    /\ UNCHANGED <<enrolment, cred, outdated, request, unit, call, excuse, enrolled>>

CredExpires(c) ==
    /\ "age" \in trouble /\ c = unit.refresh /\ ~cred[c].aged
    /\ cred' = [cred EXCEPT ![c].aged = TRUE]
    /\ excuse' = excuse \cup {"aged"}
    /\ UNCHANGED <<enrolment, ticket, outdated, request, unit, call, enrolled>>

-----------------------------------------------------------------------------

IdentityNext ==
    /\ UNCHANGED trouble
    /\ \/ \E t \in Tickets : CreateTicket(t) \/ TicketExpires(t)
       \/ RevokeDevice
       \/ \E q \in Requests :
              \/ CheckTicket(q) \/ Enrol(q) \/ ReadCred(q) \/ RevokeFamily(q) \/ UseCred(q)
              \/ Issue(q) \/ EndEnrolment(q)
              \/ GiveUp(q) \/ DropAnswer(q) \/ LoseRequest(q) \/ GatewayAnswers(q)
              \/ \E t \in Tickets : StartEnrolment(t, q)
              \/ \E k \in Calls : Refresh(k, q) \/ Refused(k, q) \/ StoreAccess(k, q)
       \/ \E k \in Calls : StartCall(k) \/ Guard(k) \/ StoreRefresh(k)
       \/ KillUnit
       \/ \E c \in Creds : AccessExpires(c) \/ CredExpires(c)

IdentitySpec == IdentityInit /\ [][IdentityNext]_identityVars

-----------------------------------------------------------------------------
(* Properties *)

\* The calls that find their token run out share one rotation: a phone loses its
\* credentials only after a revocation, an answer that never came, a death of its
\* process, an absence of a month or an answer of the gateway, since its enrolment.
KeptWithoutCause ==
    unit.refresh = None => excuse # {}

\* A token enrols the phone once, unless two enrolments with it overlap.
OneUseByTicket ==
    \A t \in Tickets : enrolled[t].times > 1 => enrolled[t].overlap

\* At most one credential of the phone's family is in force, as long as every rotation
\* since its enrolment was answered.
OneLiveInFamily ==
    {"unanswered", "killed"} \cap excuse = {} /\ unit.refresh # None =>
        \A c, d \in InFamily(OwnFamily) : Live(c) /\ Live(d) => c = d

\* The family a request is about, if any: an enrolment makes its own.
FamilyOf(q) ==
    LET r == request[q]
    IN  IF r.pc \in {"read", "revoke", "use"} THEN cred[r.cred].family
        ELSE IF r.pc = "issue" THEN r.family
        ELSE IF r.pc = "answer" /\ r.result # None THEN cred[r.result].family
        ELSE None

\* An enrolment that no other overlaps uses its token up.
TicketsAgree ==
    \A t \in Tickets : ~enrolled[t].overlap =>
        /\ enrolled[t].times <= 1
        /\ \A p, q \in Requests : Enrolling(p, t) /\ Enrolling(q, t) => p = q
        /\ enrolled[t].times = 1 =>
              ticket[t] = "used" /\ \A q \in Requests : Enrolling(q, t) => request[q].pc = "check"

\* A caller waits for one request, and the phone rotates with one call, which holds
\* tokens; the screen asks for a phone without them.
RotationsAgree ==
    /\ unit.access = None <=> unit.refresh = None
    /\ \A j, k \in Calls :
           call[j].pc \in Rotation /\ call[k].pc \in Rotation => j = k /\ unit.refresh # None
    /\ \A q \in Requests : request[q] # Quiet =>
           /\ request[q].by \in Calls =>
                 /\ request[q].pc \notin {"check", "enrol"}
                 /\ call[request[q].by].pc = "refreshing"
           /\ request[q].by = Screen => /\ request[q].pc \notin {"read", "revoke", "use"}
                                       /\ unit.refresh = None
           /\ \A p \in Requests :
                 request[p] # Quiet /\ request[p].by = request[q].by /\ request[q].by # None
                 => p = q

\* What is carried is about credentials that exist, each in the family of one of them.
CredsAgree ==
    /\ \A c \in Creds : cred[c] # NoCred => cred[cred[c].family].family = cred[c].family
    /\ \A q \in Requests :
           /\ FamilyOf(q) # None => cred[FamilyOf(q)].family = FamilyOf(q)
           /\ request[q].pc \in {"read", "revoke", "use"} => cred[request[q].cred] # NoCred
           /\ request[q].pc = "answer" /\ request[q].result # None =>
                 cred[request[q].result] # NoCred
    /\ unit.refresh # None => cred[unit.refresh] # NoCred
    /\ \A k \in Calls : call[k].pc = "storing" => cred[call[k].fresh] # NoCred

\* A credential whose family is its own, never used, that no other request is about.
Founder(q, c) ==
    /\ cred[c].family = c /\ InFamily(c) = {c} /\ ~cred[c].used /\ ~cred[c].aged
    /\ \A p \in Requests \ {q} : FamilyOf(p) # c

\* The credential about to replace that of the phone has come into being.
Renewing(q) ==
    /\ request[q] # Quiet /\ request[q].by \in Calls
    /\ request[q].pc = "issue" \/ (request[q].pc = "answer" /\ request[q].result # None)

\* A rotation stays in the family of the phone; one that enrols founds a family nobody
\* else is about; and what was asked before the enrolment is about other families, as
\* long as every rotation is answered.
FamiliesAgree ==
    /\ \A q \in Requests : request[q] # Quiet =>
           /\ request[q].by \in Calls =>
                 /\ request[q].pc \in {"read", "revoke", "use"} => request[q].cred = unit.refresh
                 /\ Renewing(q) => FamilyOf(q) = OwnFamily
           /\ request[q].by = Screen =>
                 /\ request[q].pc = "issue" => request[q].family = None
                 /\ request[q].pc = "answer" /\ request[q].result # None => Founder(q, request[q].result)
           /\ request[q].by = None /\ {"unanswered", "killed"} \cap excuse = {} /\ unit.refresh # None =>
                 FamilyOf(q) # OwnFamily
    /\ \A k \in Calls : call[k].pc = "storing" => cred[call[k].fresh].family = OwnFamily

\* In the family of the phone, what is in force is the credential it holds, or that
\* which is about to replace it.
LatestIsLive ==
    /\ (\E q \in Requests : Renewing(q)) \/ (\E k \in Calls : call[k].pc = "storing") =>
           cred[unit.refresh].used
    /\ {"unanswered", "killed"} \cap excuse = {} /\ unit.refresh # None =>
           \A c \in InFamily(OwnFamily) : Live(c) =>
               \/ c = unit.refresh
               \/ \E q \in Requests : Renewing(q) /\ request[q].pc = "answer" /\ request[q].result = c
               \/ \E k \in Calls : call[k].pc = "storing" /\ call[k].fresh = c

\* As long as nothing may have cost them, the phone holds tokens that are accepted, or
\* is about to.
KeptAgrees ==
    excuse = {} =>
        /\ unit.refresh # None /\ enrolment = "ENROLLED"
        /\ ~cred[unit.refresh].revoked /\ ~cred[unit.refresh].aged
        /\ cred[unit.refresh].used =>
              (\E q \in Requests : Renewing(q)) \/ (\E k \in Calls : call[k].pc = "storing")
        /\ \A q \in Requests : request[q] # Quiet /\ request[q].by \in Calls =>
              /\ request[q].pc # "revoke"
              /\ request[q].pc = "answer" =>
                    request[q].result # None /\ Accepted(request[q].result)
        /\ \A k \in Calls : call[k].pc = "storing" => Accepted(call[k].fresh)

\* A phone keeps one identity: no disenrolment without its cause, one use of a label,
\* one credential in force.
IdentityInv ==
    /\ IdentityTypeOK /\ TicketsAgree /\ RotationsAgree /\ CredsAgree /\ FamiliesAgree
    /\ LatestIsLive /\ KeptAgrees
    /\ KeptWithoutCause /\ OneUseByTicket /\ OneLiveInFamily

-----------------------------------------------------------------------------
(* Expected of the code, and not held by it *)

\* "Panne réseau : on ne touche surtout pas aux identifiants, sinon une coupure de
\* tunnel désenrôlerait la flotte": an error of the gateway costs no credentials.
KeptByGatewayError ==
    unit.refresh = None => excuse \ {"gateway"} # {}

\* "Les identifiants de cet appareil ont été révoqués": a family revoked whole gets
\* no new credential.
FamilyStaysRevoked ==
    [][\A c \in Creds :
           cred[c] = NoCred /\ cred'[c] # NoCred /\ cred'[c].family # c
           => \E d \in InFamily(cred'[c].family) : ~cred[d].revoked]_identityVars
=============================================================================
